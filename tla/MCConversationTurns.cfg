\* Two turns of one user in one or two conversations: rejected and retried
\* submissions, lost sessions, tool calls during an abort, a crash or a stop.
SPECIFICATION FairSpec
CONSTANTS
  k1 = k1
  k2 = k2
  Keys = {k1, k2}
  Users = {u1}
  NoUser = NoUser
  c1 = c1
  c2 = c2
  Conversations <- TwoConversations
  Submissions <- FirstInFirst
  NoConversation = NoConversation
  NoSession = NoSession
  Estimate <- TwoEstimates
  TurnReservationTokens = 2
  MaxQuota = 4
  Tools = {"change", "cancel"}
  MaxSessions = 2
  MaxStops = 1
INVARIANTS LedgerIsTrue TurnsAgree
PROPERTIES TurnsAreFinal EverythingEnds
