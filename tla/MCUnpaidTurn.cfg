\* A turn whose first submission was rejected, submitted again: is it paid?
SPECIFICATION Spec
CONSTANTS
  k1 = k1
  k2 = k2
  Keys = {k1, k2}
  Users = {u1}
  NoUser = NoUser
  c1 = c1
  c2 = c2
  Conversations <- TwoConversations
  Submissions <- FirstInFirst
  NoConversation = NoConversation
  NoSession = NoSession
  Estimate <- TwoEstimates
  TurnReservationTokens = 2
  MaxQuota = 4
  Tools = {}
  MaxSessions = 2
  MaxStops = 0
INVARIANTS
  CompleteTurnsPay
