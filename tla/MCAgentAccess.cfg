SPECIFICATION MCSpec
CONSTANTS
  Conversations <- TwoConversations
  Turns <- AllThree
  Tools = {"check"}
  MaxBoots = 2
  MaxTurns = 2
  Interruptions = {}
  r1 = r1
  f1 = f1
  q1 = q1
  s1 = s1
  c1 = c1
  t1 = t1
  Nobody = Nobody
  Stranger = Stranger
  NoRun = NoRun
  MaxSessions = 2
  MaxIoFailures = 1
  Runs <- OneRun
  Frames <- OneFrame
  Requests <- OneRequest
  Sockets <- OneSocket
  Calls <- OneCall
  Speakers <- OneTurn
CONSTRAINT OneUser
CHECK_DEADLOCK FALSE
INVARIANTS TurnsAreApart SeenIsTheTarget NothingOutlivesItsRun
PROPERTIES AuditIsTrue
