SPECIFICATION FairSpec
CONSTANTS
    Protocol = {"jambonz", "streaming", "mcube"}
    MaxCuts = 2
    MaxAudio = 3
INVARIANTS TypeOK KillIsFinal ClosedOnce
PROPERTY LeavingEndsPipeline
CHECK_DEADLOCK FALSE
