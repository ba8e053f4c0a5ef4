SPECIFICATION HookSpec
CONSTANTS
    c1 = c1  c2 = c2  c3 = c3  o1 = o1  s1 = s1
    NoCall = NoCall  NoWorker = NoWorker  NoRunner = NoRunner  NoProbe = NoProbe
    Worker = {w1,w2}
    Runner = {rA,rB}
    Task = {t1, t2}
    Call = {c1,o1,s1}
    Inbound = {c1}
    Outbound = {o1}
    SidOf <- OneOutbound
    AskOnAnswer = {}
    Behaviour = {}
    MaxHooks = 1
    RedisRetries = 1
    AssignRetries = 1
    LookupRetries = 2
    Unhealthy = 1
    Timely = TRUE
INVARIANT NoStrandedWorker
PROPERTY EndedCallFreesWorker
CHECK_DEADLOCK FALSE
