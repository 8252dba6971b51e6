SPECIFICATION FairSpec
CONSTANTS
    Aliases = {app, visual}
    Turns = {t1}
    Calls = {c1, c2}
    Requests = {r1}
    Nobody = nobody
    NoPage = noPage
    Askers <- MCAskers
    Operations <- MCOperations
    RequestKinds <- ControlKinds
    Budget = 1
    MaxFaults = 0
CHECK_DEADLOCK FALSE
INVARIANTS DecisionsCoverExecutions
PROPERTIES EveryCallEnds
