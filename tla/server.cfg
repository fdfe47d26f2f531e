SPECIFICATION NodeSpec
CONSTANTS
    CacheWorker = {k1, k2}
    Url = {home}
    Visit = {v1}
    Mutation = {m1}
    MaxEntries = 1
    MaxMs = 2
    MaxRestarts = 1
    Batch = {b1}
    Interactive = {t1}
    Connection = {c1}
    Statements = 2
    Retries = 1
    JobCaller = {j1, j2}
    None = None
INVARIANTS
    NodeTypeOK
    AllOrNothing
    CleanExit
PROPERTIES
    ChangesReachAll
    ServerLive
CHECK_DEADLOCK FALSE
