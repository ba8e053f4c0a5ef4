SPECIFICATION Spec
CONSTANTS
    c1 = c1  c2 = c2  c3 = c3  o1 = o1  s1 = s1
    NoCall = NoCall  NoWorker = NoWorker  NoRunner = NoRunner  NoProbe = NoProbe
    Worker = {w1}
    Runner = {rA}
    Task = {t1, t2}
    Call = {c1,o1,s1}
    Inbound = {c1}
    Outbound = {o1}
    SidOf <- OneOutbound
    AskOnAnswer = {s1}
    Behaviour = {"handler","error","lost","admin"}
    MaxHooks = 1
    RedisRetries = 2
    AssignRetries = 1
    LookupRetries = 1
    Unhealthy = 1
    Timely = FALSE
SYMMETRY Symmetry
INVARIANTS KeysAgree
CHECK_DEADLOCK FALSE
