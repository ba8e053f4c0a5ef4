SPECIFICATION FairSpec
CONSTANTS
    Message = TRUE
    MaxAsked = 2
    Part = {"good", "bye"}
    Greeting = {"none", "text", "audio"}
    MaxTurns = 2
    MaxUp = 2
    MaxHangups = 1
INVARIANTS TypeOK JudgeKnowsBot RecordsMatchTurns
PROPERTIES OneNudgePerSilence SilenceIsBroken VerdictIsCurrent GoodbyeEndsCall
CHECK_DEADLOCK FALSE
