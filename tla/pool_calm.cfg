SPECIFICATION Spec
CONSTANTS
    c1 = c1  c2 = c2  c3 = c3  o1 = o1  s1 = s1
    NoCall = NoCall  NoWorker = NoWorker  NoRunner = NoRunner  NoProbe = NoProbe
    Worker = {w1,w2}
    Runner = {rA,rB}
    Task = {t1, t2}
    Call = {c1,o1,s1}
    Inbound = {c1}
    Outbound = {o1}
    SidOf <- OneOutbound
    AskOnAnswer = {s1}
    Behaviour = {"error","restart","reap"}
    MaxHooks = 1
    RedisRetries = 1
    AssignRetries = 2
    LookupRetries = 1
    Unhealthy = 1
    Timely = FALSE
SYMMETRY Symmetry
INVARIANTS TypeOK SingleTenancy TenancyInv
PROPERTY ImplementsOwnership
CHECK_DEADLOCK FALSE
