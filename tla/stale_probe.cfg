SPECIFICATION Spec
CONSTANTS
    c1 = c1  c2 = c2  c3 = c3  o1 = o1  s1 = s1
    NoCall = NoCall  NoWorker = NoWorker  NoRunner = NoRunner  NoProbe = NoProbe
    Worker = {w1}
    Runner = {rA,rB}
    Task = {t1}
    Call = {c1,c2,c3}
    Inbound = {c1,c2,c3}
    Outbound = {}
    SidOf <- NoOutbound
    AskOnAnswer = {}
    Behaviour = {"probe"}
    MaxHooks = 1
    RedisRetries = 1
    AssignRetries = 1
    LookupRetries = 1
    Unhealthy = 1
    Timely = TRUE
INVARIANT SingleTenancy
CHECK_DEADLOCK FALSE
