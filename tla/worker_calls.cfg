SPECIFICATION FairSpec
CONSTANTS
    c1 = c1  o1 = o1  s1 = s1  h1 = h1  h2 = h2
    NoCall = NoCall  NoWorker = NoWorker  NoHandler = NoHandler  NoEntry = NoEntry
    Worker = {w1}
    This = w1
    Call = {c1,o1,s1}
    Handler = {h1,h2}
    SidOf <- Connections
    Request <- Requests
    Behaviour = {"stray"}
INVARIANTS TypeOK OneUser IdleIsAvailable
PROPERTIES WarmedIsClosed ImplementsProcess
CHECK_DEADLOCK FALSE
