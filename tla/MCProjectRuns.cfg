SPECIFICATION FairSpec
CONSTANTS
  Projects = {p1}
  Runs = {r1, r2}
  Writes = {w1}
  d1 = d1
  Digests = {d1, d2}
  Configs = {"batch", "visual"}
  RunMode <- MCRunMode
  ConfigKind <- MCConfigKind
  None = None
  MaxStops = 1
INVARIANTS StoreAgrees AttemptsAgree
PROPERTIES ResultsAreFinal KeepsPromise EverythingEnds
