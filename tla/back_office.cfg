SPECIFICATION Spec
CONSTANTS
    Server = {s1, s2}
    Key = {k1, k2}
    KeyName = {n1, n2}
    Limit = {0, 1}
    MaxActive = 1
    NoServer = noServer
    Host = {s1, s2}
    Token = {t1, t2, t3}
    NewLogin = newLogin
    Config = {c1, c2}
    Submission = {r1}
    Admin = {a1, a2}
    NoConfig = noConfig
    Document = {d1, d2}
    Length = {0, 1, 3, 5}
    ChunkSize = 2
    Overlap = {0, 1, 2}
INVARIANTS TypeOK CreationsAreChecked DeletionIsAudited AnswersAreTrue OneDefault SearchSeesWholeDocuments OneLiveToken
PROPERTY DocumentSettles
CHECK_DEADLOCK FALSE
