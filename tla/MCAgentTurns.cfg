SPECIFICATION FairMC
CONSTANTS
  Conversations <- OneConversation
  Turns <- TwoTurns
  Tools = {"mutation", "proposal", "operation", "check"}
  MaxBoots = 2
  MaxTurns = 2
  MaxPrompts = 2
  MaxSteps = 2
  Inputs = {i1, i2}
  NoInput = noInput
  Foreign = foreign
  Interruptions = {"stop", "archive"}
CONSTRAINTS OneTurnThrough SmallPrompts
CHECK_DEADLOCK FALSE
INVARIANTS TurnsAreTrue PromptsEndAsTheyWent PromptsActAsAllowed
PROPERTIES ActsWhileAllowed TurnsEnd
