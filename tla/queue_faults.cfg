SPECIFICATION RecoveringSpec
CONSTANTS
    c1 = c1  c2 = c2
    NoCall = NoCall  NoRunner = NoRunner  NoRow = NoRow
    Call = {c1}
    Requested = {c1}
    AskOnAnswer = {c1}
    Task = {t1}
    Runner = {rA,rB}
    Row = {d1}
    Slot = {s1,s2}
    MaxAttempts = 2
    Limit = 1
    Behaviour = {"flaky","restart","error","early","reorder"}
INVARIANTS TypeOK GivenUpOnlyAfterTries
PROPERTY EventsSettle
CHECK_DEADLOCK FALSE
