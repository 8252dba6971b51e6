SPECIFICATION Spec
CONSTANTS
    Aliases = {app}
    Turns = {t1, t2}
    Calls = {c1}
    Requests = {r1, r2}
    Nobody = nobody
    NoPage = noPage
    Askers <- MCAskers
    Operations <- TakeoverOperations
    RequestKinds <- PageKinds
    Budget = 2
    MaxFaults = 1
SYMMETRY Symmetry
CHECK_DEADLOCK FALSE
INVARIANTS AgentControlIsSound
PROPERTIES HumanControlIsSound ActionsNeedTheirGrant
