SPECIFICATION MCSpec
CONSTANTS
  Projects = {p1}
  Runs = {r1}
  Writes = {w1, w2, w3}
  d1 = d1
  Digests = {d1, d2}
  Configs = {"batch", "visual"}
  RunMode <- MCRunMode
  ConfigKind <- MCConfigKind
  None = None
  MaxStops = 1
  Configurations = {ca, cb}
  Creates = {e1}
  Updates = {u1, u2}
  Starts = {s1}
  Cancels = {x1, x2}
  Trashes = {t1, t2}
  Restores = {b1}
  ByAgent = {t2}
  MaxDownloads = 1
  MaxTrashes = 2
  NoValue = NoValue
SYMMETRY AnyCommand
INVARIANTS RecordsAgree ReceiptsStandUp
PROPERTIES WritesApplyOnce HistoryStands
