SPECIFICATION VisualSpec
CONSTANTS
  r1 = r1
  r2 = r2
  f1 = f1
  q1 = q1
  s1 = s1
  c1 = c1
  t1 = t1
  Nobody = Nobody
  Stranger = Stranger
  NoRun = NoRun
  Runs <- TwoRuns
  Frames <- OneFrame
  Requests <- OneRequest
  Sockets <- OneSocket
  Calls <- OneCall
  Speakers <- OneTurn
  MaxSessions = 2
  MaxIoFailures = 1
CHECK_DEADLOCK FALSE
INVARIANTS SocketsAreAttached
