SPECIFICATION MCSpec
CONSTANTS
  Files <- TwoFiles
  Texts <- TwoTexts
  Edits <- ThreeEdits
  Attachments = {"data"}
  Commands = {x1, x2}
  Nothing = Nothing
  Guides = {x1, x2}
  m1 = m1
  p1 = p1
  c1 = c1
  c2 = c2
  k1 = k1
  Models <- OneModel
  Projects <- OneProject
  Chats <- TwoChats
  Keys <- OneKey
  Handled <- OneModel
  Worked <- ChatAndProject
  MaxDrafts = 2
  None = None
SYMMETRY AnyAsked
CHECK_DEADLOCK FALSE
INVARIANTS StatusIsTrue WorkspacesAgree
PROPERTIES ChangesAreAsMade ActsOnWhatWasShown
