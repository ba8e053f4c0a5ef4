SPECIFICATION FairSpec
CONSTANTS
    c1 = c1  c2 = c2
    NoCall = NoCall  NoRunner = NoRunner  NoRow = NoRow
    Call = {c1}
    Requested = {c1}
    AskOnAnswer = {}
    Task = {t1,t2}
    Runner = {rA,rB}
    Row = {d1,d2}
    Slot = {s1}
    MaxAttempts = 1
    Limit = 1
    Behaviour = {"unbuilt","refuse","ringing","twice"}
INVARIANTS ToldWhatHappened NoPhantomCall
PROPERTY OutcomeIsReported
CHECK_DEADLOCK FALSE
