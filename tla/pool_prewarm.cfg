SPECIFICATION Spec
CONSTANTS
    c1 = c1  c2 = c2  c3 = c3  o1 = o1  s1 = s1
    NoCall = NoCall  NoWorker = NoWorker  NoRunner = NoRunner  NoProbe = NoProbe
    Worker = {w1}
    Runner = {rA}
    Task = {t1, t2}
    Call = {o1,s1}
    Inbound = {}
    Outbound = {o1}
    SidOf <- OneOutbound
    AskOnAnswer = {s1}
    Behaviour = {"prewarm","drain","restart","crash","probe"}
    MaxHooks = 1
    RedisRetries = 1
    AssignRetries = 1
    LookupRetries = 1
    Unhealthy = 1
    Timely = FALSE
SYMMETRY Symmetry
INVARIANT CallIsReported
CHECK_DEADLOCK FALSE
