SPECIFICATION ProbeSpec
CONSTANTS
    c1 = c1  c2 = c2  c3 = c3  o1 = o1  s1 = s1
    NoCall = NoCall  NoWorker = NoWorker  NoRunner = NoRunner  NoProbe = NoProbe
    Worker = {w1}
    Runner = {rA,rB}
    Task = {t1, t2}
    Call = {c1,c2}
    Inbound = {c1,c2}
    Outbound = {}
    SidOf <- NoOutbound
    AskOnAnswer = {}
    Behaviour = {"probe"}
    MaxHooks = 0
    RedisRetries = 1
    AssignRetries = 1
    LookupRetries = 1
    Unhealthy = 1
    Timely = TRUE
PROPERTIES IdleWorkerIsFreed CacheHeals
CHECK_DEADLOCK FALSE
