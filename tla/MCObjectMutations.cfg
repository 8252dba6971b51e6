SPECIFICATION Spec
CONSTANTS
  MaxProcesses = 2
  Objects = {o1, o2}
  Contents = {a, b}
CONSTRAINT OneLeftBehind
SYMMETRY Symmetry
CHECK_DEADLOCK FALSE
INVARIANTS ObjectsAreSafe
PROPERTIES WriterKeepsLock AtomicSpec
