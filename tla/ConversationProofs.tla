------------------------- MODULE ConversationProofs -------------------------
(***************************************************************************)
(* Theorems about the conversation of one call, for any number of turns,   *)
(* judged utterances, frames under way and hang-ups, and any phrase.       *)
(***************************************************************************)
EXTENDS Conversation, TLAPS

USE ConversationAssumption

-----------------------------------------------------------------------------
(* What a step of the system is for each of the controllers.               *)

JudgeMoves ==
    \/ UNCHANGED judgeVars
    \/ BeginTurn /\ ~turn
    \/ EndTurn \/ Ask
    \/ \E j \in judges : Answer(j) \/ Dismiss(j) \/ Interrupts(j)
    \/ JudgeBotStarted \/ JudgeBotStopped \/ JudgeCleanup

LEMMA StepsOfTheJudge == ASSUME [Next]_vars PROVE JudgeMoves
<1> USE DEF JudgeMoves
<1>1. CASE UNCHANGED vars BY <1>1 DEF vars
<1>2. CASE TranscriptBeginsTurn BY <1>2 DEF TranscriptBeginsTurn
<1>3. CASE ShortTranscript BY <1>3 DEF ShortTranscript
<1>4. CASE JudgeStep
  BY <1>4 DEF JudgeStep, JudgeAnswers, JudgeDismisses, JudgeInterrupts
<1>5. CASE UserStops BY <1>5 DEF UserStops
<1>6. CASE FrameArrivesUp BY <1>6 DEF FrameArrivesUp
<1>7. CASE EndArrives BY <1>7 DEF EndArrives
<1>8. CASE \/ ClientConnected \/ GreetingFetched \/ Interruption \/ SmartTurnReports
           \/ SttReports \/ LlmStep \/ TtsReports \/ BotStep
           \/ GoodbyeIsOver \/ ClientDisconnected
           \/ \E t \in TimerTask : NudgeTimer(t)
  BY <1>8 DEF ClientConnected, GreetingFetched, Interruption, SmartTurnReports, SttReports,
              LlmStep, LlmStarts, LlmSays, LlmEnds, TtsReports, BotStep, BotStarts, BotStops,
              GoodbyeIsOver, ClientDisconnected, QueueEnd, NudgeTimer
<1> QED BY <1>1, <1>2, <1>3, <1>4, <1>5, <1>6, <1>7, <1>8 DEF Next

TurnsStay == turn' = turn /\ turns' = turns

MetricsMoves ==
    \/ UNCHANGED metricsVars /\ TurnsStay
    \/ UNCHANGED metricsVars /\ ~turn /\ turn' /\ turns' = turns + 1
    \/ turn /\ ~turn' /\ turns' = turns /\ OnUserStopped(turns)
    \/ TurnsStay /\ turn /\ OnSmartTurn(turns)
    \/ TurnsStay /\ \E s \in Service : OnTtfb(s, turns)
    \/ TurnsStay /\ (OnTtsStarted(turns) \/ OnBotStarted)

LEMMA StepsOfTheMetrics == ASSUME [Next]_vars PROVE MetricsMoves
<1> USE DEF MetricsMoves, TurnsStay, judgeVars
<1>1. CASE UNCHANGED vars BY <1>1 DEF vars
<1>2. CASE TranscriptBeginsTurn BY <1>2 DEF TranscriptBeginsTurn, BeginTurn, TurnBegan
<1>3. CASE ShortTranscript BY <1>3 DEF ShortTranscript, Ask
<1>4. CASE JudgeStep
  BY <1>4 DEF JudgeStep, JudgeAnswers, JudgeDismisses, JudgeInterrupts, Answer, Dismiss,
              Interrupts, TurnBegan
<1>5. CASE UserStops BY <1>5 DEF UserStops, EndTurn
<1>6. CASE FrameArrivesUp BY <1>6 DEF FrameArrivesUp, JudgeBotStarted, JudgeBotStopped
<1>7. CASE EndArrives BY <1>7 DEF EndArrives, JudgeCleanup
<1>8. CASE SttReports \/ TtsReports BY <1>8 DEF SttReports, TtsReports, Service
<1>9. CASE LlmStep BY <1>9 DEF LlmStep, LlmStarts, LlmSays, LlmEnds, Service
<1>10. CASE SmartTurnReports \/ BotStep
  BY <1>10 DEF SmartTurnReports, BotStep, BotStarts, BotStops
<1>11. CASE \/ ClientConnected \/ GreetingFetched \/ Interruption
            \/ GoodbyeIsOver \/ ClientDisconnected
            \/ \E t \in TimerTask : NudgeTimer(t)
  BY <1>11 DEF ClientConnected, GreetingFetched, Interruption, GoodbyeIsOver,
               ClientDisconnected, QueueEnd, NudgeTimer
<1> QED BY <1>1, <1>2, <1>3, <1>4, <1>5, <1>6, <1>7, <1>8, <1>9, <1>10, <1>11 DEF Next

-----------------------------------------------------------------------------
(* The judge *)

(* A verdict under the current number is about the last utterance, and no   *)
(* turn has begun since: every question and every reset takes a new number. *)
JudgesKnow ==
    \A j \in judges : j.seq <= sequence
                      /\ (j.seq = sequence => j.utterance = asked /\ j.turns = turns)

LEMMA StillPending ==
    ASSUME JudgeTypeOK, NEW j \in NoLongerPending
    PROVE  j \in Judge /\ \E i \in judges : /\ j.seq = i.seq /\ j.utterance = i.utterance
                                            /\ j.turns = i.turns
<1>1. PICK i \in judges : j = IF i.pending THEN [i EXCEPT !.pending = FALSE] ELSE i
  BY DEF NoLongerPending
<1>2. i \in Judge BY DEF JudgeTypeOK
<1>3. j \in Judge /\ j.seq = i.seq /\ j.utterance = i.utterance /\ j.turns = i.turns
  BY <1>1, <1>2 DEF Judge
<1> QED BY <1>3

LEMMA JudgeIsKept ==
    ASSUME JudgeTypeOK, JudgesKnow, JudgeMoves
    PROVE  JudgeTypeOK' /\ JudgesKnow'
<1>0. /\ judgeBot \in BOOLEAN /\ greeted \in BOOLEAN /\ turn \in BOOLEAN
      /\ sequence \in Nat /\ asked \in 0..MaxAsked /\ turns \in Nat /\ judges \subseteq Judge
  BY DEF JudgeTypeOK
<1>1. CASE UNCHANGED judgeVars BY <1>1 DEF judgeVars, JudgeTypeOK, JudgesKnow
(* A new number, and no judge with it. *)
<1>2. ASSUME sequence' = sequence + 1, judges' \subseteq NoLongerPending
      PROVE  judges' \subseteq Judge /\ JudgesKnow'
  <2>1. ASSUME NEW j \in judges' PROVE j \in Judge /\ j.seq < sequence'
    <3>1. j \in NoLongerPending BY <1>2
    <3>2. j \in Judge /\ \E i \in judges : j.seq = i.seq BY <3>1, StillPending
    <3>3. j.seq \in Nat /\ j.seq <= sequence BY <3>2 DEF Judge, JudgesKnow
    <3> QED BY <1>0, <1>2, <3>2, <3>3
  <2>2. ASSUME NEW j \in judges' PROVE j.seq \in Nat /\ sequence' \in Nat
    BY <1>0, <1>2, <2>1, <2>2 DEF Judge
  <2>3. ASSUME NEW j \in judges' PROVE j.seq <= sequence' /\ j.seq # sequence'
    BY <2>1, <2>2, <2>3
  <2> QED BY <2>1, <2>3 DEF JudgesKnow
<1>3. CASE BeginTurn
  <2>1. /\ judgeBot' = FALSE /\ turn' = TRUE /\ greeted' = greeted /\ asked' = asked
        /\ sequence' = sequence + 1 /\ turns' = turns + 1 /\ judges' = NoLongerPending
    BY <1>3 DEF BeginTurn, Reset
  <2>2. judges' \subseteq Judge /\ JudgesKnow' BY <1>2, <2>1
  <2>3. sequence' \in Nat /\ turns' \in Nat BY <1>0, <2>1
  <2> QED BY <1>0, <2>1, <2>2, <2>3 DEF JudgeTypeOK
<1>4. CASE JudgeCleanup
  BY <1>0, <1>2, <1>4 DEF JudgeCleanup, JudgeTypeOK
<1>5. CASE Ask
  <2> DEFINE new == [seq |-> sequence + 1, utterance |-> asked + 1, turns |-> turns,
                     pending |-> TRUE, answered |-> FALSE]
  <2>1. /\ sequence' = sequence + 1 /\ asked' = asked + 1 /\ asked < MaxAsked
        /\ judges' = NoLongerPending \cup {new}
        /\ judgeBot' = judgeBot /\ greeted' = greeted /\ turn' = turn /\ turns' = turns
    BY <1>5 DEF Ask
  <2>2. new \in Judge /\ new.seq = sequence' /\ new.utterance = asked' /\ new.turns = turns'
    BY <1>0, <2>1 DEF Judge
  <2>3. ASSUME NEW j \in NoLongerPending PROVE j \in Judge /\ j.seq <= sequence' /\ j.seq # sequence'
    <3>1. j \in Judge /\ \E i \in judges : j.seq = i.seq BY <2>3, StillPending
    <3>2. j.seq \in Nat /\ j.seq <= sequence BY <3>1 DEF Judge, JudgesKnow
    <3> QED BY <1>0, <2>1, <3>1, <3>2
  <2>4. JudgesKnow'
    <3>1. ASSUME NEW j \in judges'
          PROVE  j.seq <= sequence' /\ (j.seq = sequence' => j.utterance = asked' /\ j.turns = turns')
      <4>1. CASE j \in NoLongerPending BY <4>1, <2>3
      <4>2. CASE j = new
        <5>1. sequence' <= sequence' BY <1>0, <2>1
        <5> QED BY <4>2, <2>2, <5>1
      <4> QED BY <2>1, <4>1, <4>2
    <3> QED BY <3>1 DEF JudgesKnow
  <2>5. judges' \subseteq Judge BY <2>1, <2>2, <2>3
  <2>6. asked' \in 0..MaxAsked /\ sequence' \in Nat BY <1>0, <2>1
  <2> HIDE DEF new
  <2> QED BY <1>0, <2>1, <2>4, <2>5, <2>6 DEF JudgeTypeOK
<1>6. ASSUME NEW j \in judges, Answer(j) PROVE JudgeTypeOK' /\ JudgesKnow'
  <2> DEFINE answered == [j EXCEPT !.answered = TRUE]
  <2>1. j \in Judge BY <1>0
  <2>2. /\ answered \in Judge /\ answered.seq = j.seq /\ answered.utterance = j.utterance
        /\ answered.turns = j.turns
    BY <2>1 DEF Judge
  <2>3. judges' = (judges \ {j}) \cup {answered} BY <1>6 DEF Answer
  <2>4. /\ judgeBot' = judgeBot /\ greeted' = greeted /\ sequence' = sequence
        /\ asked' = asked /\ turn' = turn /\ turns' = turns
    BY <1>6 DEF Answer
  <2> HIDE DEF answered
  <2>5. judges' \subseteq Judge BY <1>0, <2>2, <2>3
  <2>6. JudgesKnow' BY <2>2, <2>3, <2>4 DEF JudgesKnow
  <2> QED BY <1>0, <2>4, <2>5, <2>6 DEF JudgeTypeOK
<1>7. ASSUME NEW j \in judges, Dismiss(j) PROVE JudgeTypeOK' /\ JudgesKnow'
  BY <1>0, <1>7 DEF Dismiss, JudgeTypeOK, JudgesKnow
<1>8. ASSUME NEW j \in judges, Interrupts(j) PROVE JudgeTypeOK' /\ JudgesKnow'
  <2>1. /\ judgeBot' = FALSE /\ turn' = TRUE /\ greeted' = greeted /\ asked' = asked
        /\ sequence' = sequence + 1 /\ turns' = turns + 1 /\ judges' \subseteq NoLongerPending
    BY <1>8 DEF Interrupts
  <2>2. judges' \subseteq Judge /\ JudgesKnow' BY <1>2, <2>1
  <2>3. sequence' \in Nat /\ turns' \in Nat BY <1>0, <2>1
  <2> QED BY <1>0, <2>1, <2>2, <2>3 DEF JudgeTypeOK
<1>9. CASE EndTurn \/ JudgeBotStarted \/ JudgeBotStopped
  BY <1>0, <1>9 DEF EndTurn, JudgeBotStarted, JudgeBotStopped, JudgeTypeOK, JudgesKnow
<1> QED BY <1>1, <1>3, <1>4, <1>5, <1>6, <1>7, <1>8, <1>9 DEF JudgeMoves

LEMMA JudgeAlways == Spec => [](JudgeTypeOK /\ JudgesKnow)
<1>1. Init => JudgeTypeOK /\ JudgesKnow
  <2> SUFFICES ASSUME JudgeInit PROVE JudgeTypeOK /\ JudgesKnow BY DEF Init
  <2>1. MaxAsked \in Nat BY DEF ConversationAssumption
  <2>2. asked \in 0..MaxAsked /\ sequence \in Nat /\ turns \in Nat BY <2>1 DEF JudgeInit
  <2> QED BY <2>2 DEF JudgeInit, JudgeTypeOK, JudgesKnow
<1>2. JudgeTypeOK /\ JudgesKnow /\ [Next]_vars => (JudgeTypeOK /\ JudgesKnow)'
  BY StepsOfTheJudge, JudgeIsKept
<1> QED BY <1>1, <1>2, PTL DEF Spec

(* Only a verdict on the last utterance, with no turn since, interrupts,    *)
(* however many are asked for and answered late.                            *)
THEOREM VerdictsAreCurrent == Spec => VerdictIsCurrent
<1>1. JudgeTypeOK /\ JudgesKnow =>
         \A j \in judges : JudgeInterrupts(j) => j.utterance = asked /\ j.turns = turns
  BY DEF JudgesKnow, JudgeInterrupts, Interrupts, Counts
<1> QED BY <1>1, JudgeAlways, PTL DEF VerdictIsCurrent

-----------------------------------------------------------------------------
(* The records *)

(* A measurement in hand is of the turn that is to be recorded or of a      *)
(* later one; the turn detector's is of the open turn, before it is handed  *)
(* over; and what is to be recorded is later than all records.              *)
TurnRecord == [start : Nat, stt : Nat, llm : Nat, tts : Nat, smart : Nat]

MetricsType ==
    /\ turnStart \in Nat /\ ttsStarted \in Nat /\ lastSmart \in Nat
    /\ inProgress \in BOOLEAN
    /\ measured \in [Service \cup {"smart"} -> Nat]
    /\ records \in Seq(TurnRecord)

MeasuredSince ==
    /\ turnStart <= turns /\ (turn => turnStart < turns)
    /\ \A s \in Service \cup {"smart"} : measured[s] # NotMeasured => measured[s] >= turnStart
    /\ ttsStarted # NotMeasured => ttsStarted >= turnStart
    /\ lastSmart # NotMeasured => turn /\ lastSmart = turns

RecordedBefore ==
    \A i \in DOMAIN records :
        /\ records[i].start <= turns /\ (turn => records[i].start < turns)
        /\ turnStart # NotMeasured => records[i].start < turnStart

MetricsInv == MetricsType /\ MeasuredSince /\ RecordedBefore /\ RecordsMatchTurns

LEMMA MetricsAreKept ==
    ASSUME JudgeTypeOK, MetricsInv, MetricsMoves
    PROVE  MetricsInv'
<1> DEFINE Key == Service \cup {"smart"}
<1>0. /\ turns \in Nat /\ turn \in BOOLEAN /\ turnStart \in Nat /\ ttsStarted \in Nat
      /\ lastSmart \in Nat /\ inProgress \in BOOLEAN /\ measured \in [Key -> Nat]
      /\ records \in Seq(TurnRecord) /\ NotMeasured = 0
  BY DEF JudgeTypeOK, MetricsInv, MetricsType, NotMeasured
<1>00. ASSUME NEW i \in DOMAIN records PROVE records[i] \in TurnRecord /\ records[i].start \in Nat
  <2>1. records[i] \in TurnRecord BY <1>0, <1>00
  <2> QED BY <2>1 DEF TurnRecord
<1>1. CASE UNCHANGED metricsVars /\ TurnsStay
  <2>1. /\ turnStart' = turnStart /\ inProgress' = inProgress /\ measured' = measured
        /\ ttsStarted' = ttsStarted /\ lastSmart' = lastSmart /\ records' = records
        /\ turn' = turn /\ turns' = turns
    BY <1>1 DEF metricsVars, TurnsStay
  <2> QED BY <2>1 DEF MetricsInv, MetricsType, MeasuredSince, RecordedBefore, RecordsMatchTurns
(* A turn begins: it is later than whatever was measured and recorded. *)
<1>2. CASE UNCHANGED metricsVars /\ ~turn /\ turn' /\ turns' = turns + 1
  <2>1. /\ turnStart' = turnStart /\ inProgress' = inProgress /\ measured' = measured
        /\ ttsStarted' = ttsStarted /\ lastSmart' = lastSmart /\ records' = records
    BY <1>2 DEF metricsVars
  <2>2. MetricsType' /\ RecordsMatchTurns'
    BY <2>1 DEF MetricsInv, MetricsType, RecordsMatchTurns
  <2>3. lastSmart = 0 BY <1>0, <1>2 DEF MetricsInv, MeasuredSince
  <2>4. MeasuredSince'
    BY <1>0, <1>2, <2>1, <2>3 DEF MetricsInv, MeasuredSince
  <2>5. RecordedBefore'
    BY <1>0, <1>00, <1>2, <2>1 DEF MetricsInv, RecordedBefore
  <2> QED BY <2>2, <2>4, <2>5 DEF MetricsInv
(* It ends: only the turn detector's value is carried over. *)
<1>3. CASE turn /\ ~turn' /\ turns' = turns /\ OnUserStopped(turns)
  <2>1. /\ turnStart' = turns /\ inProgress' = TRUE /\ ttsStarted' = 0 /\ lastSmart' = 0
        /\ records' = records
        /\ measured' = [NothingMeasured EXCEPT !["smart"] = lastSmart]
    BY <1>3 DEF OnUserStopped, NotMeasured
  <2>2. measured' = [s \in Key |-> IF s = "smart" THEN lastSmart ELSE 0]
    BY <2>1 DEF NothingMeasured, NotMeasured
  <2>3. MetricsType'
    <3>1. measured' \in [Key -> Nat] BY <1>0, <2>2
    <3> QED BY <1>0, <2>1, <3>1 DEF MetricsType
  <2>4. lastSmart = 0 \/ lastSmart = turns BY <1>0, <1>3 DEF MetricsInv, MeasuredSince
  <2>5. ASSUME NEW s \in Key, measured'[s] # 0 PROVE measured'[s] >= turns
    BY <1>0, <2>2, <2>4, <2>5
  <2>6. MeasuredSince' BY <1>0, <1>3, <2>1, <2>5 DEF MeasuredSince
  <2>7. RecordedBefore'
    BY <1>0, <1>00, <1>3, <2>1 DEF MetricsInv, RecordedBefore
  <2>8. RecordsMatchTurns' BY <2>1 DEF MetricsInv, RecordsMatchTurns
  <2> QED BY <2>3, <2>6, <2>7, <2>8 DEF MetricsInv
<1>4. CASE TurnsStay /\ turn /\ OnSmartTurn(turns)
  <2>1. /\ turnStart' = turnStart /\ inProgress' = inProgress /\ measured' = measured
        /\ ttsStarted' = ttsStarted /\ lastSmart' = turns /\ records' = records
        /\ turn' = turn /\ turns' = turns
    BY <1>4 DEF TurnsStay, OnSmartTurn
  <2>2. MeasuredSince' BY <1>0, <1>4, <2>1 DEF MetricsInv, MeasuredSince
  <2> QED BY <1>0, <2>1, <2>2 DEF MetricsInv, MetricsType, RecordedBefore, RecordsMatchTurns
<1>5. ASSUME NEW s \in Service, TurnsStay, OnTtfb(s, turns) PROVE MetricsInv'
  <2>1. /\ turnStart' = turnStart /\ inProgress' = inProgress /\ turn' = turn /\ turns' = turns
        /\ ttsStarted' = ttsStarted /\ lastSmart' = lastSmart /\ records' = records
    BY <1>5 DEF OnTtfb, TurnsStay
  <2>2. measured' = measured \/ measured' = [measured EXCEPT ![s] = turns]
    BY <1>5 DEF OnTtfb
  <2>3. measured' \in [Key -> Nat] BY <1>0, <2>2
  <2>4. turnStart <= turns BY DEF MetricsInv, MeasuredSince
  <2>5. ASSUME NEW k \in Key, measured'[k] # 0 PROVE measured'[k] >= turnStart
    <3>1. measured'[k] = measured[k] \/ measured'[k] = turns BY <1>0, <2>2
    <3>2. measured[k] # 0 => measured[k] >= turnStart BY <1>0 DEF MetricsInv, MeasuredSince
    <3> QED BY <1>0, <2>4, <2>5, <3>1, <3>2
  <2>6. MeasuredSince' BY <1>0, <2>1, <2>5 DEF MetricsInv, MeasuredSince
  <2> QED BY <2>1, <2>3, <2>6 DEF MetricsInv, MetricsType, RecordedBefore, RecordsMatchTurns
<1>6. CASE TurnsStay /\ OnTtsStarted(turns)
  <2>1. /\ turnStart' = turnStart /\ inProgress' = inProgress /\ measured' = measured
        /\ ttsStarted' \in {ttsStarted, turns} /\ lastSmart' = lastSmart /\ records' = records
        /\ turn' = turn /\ turns' = turns
    BY <1>6 DEF TurnsStay, OnTtsStarted
  <2>2. MeasuredSince' BY <1>0, <2>1 DEF MetricsInv, MeasuredSince
  <2> QED BY <1>0, <2>1, <2>2 DEF MetricsInv, MetricsType, RecordedBefore, RecordsMatchTurns
<1>7. CASE TurnsStay /\ OnBotStarted
  <2>1. /\ turnStart' = 0 /\ inProgress' = FALSE /\ turn' = turn /\ turns' = turns
        /\ ttsStarted' = 0 /\ lastSmart' = lastSmart /\ measured' = measured
        /\ records' = IF turnStart = 0 THEN records ELSE Append(records, Record)
    BY <1>7 DEF OnBotStarted, TurnsStay, NotMeasured
  <2>2. MeasuredSince'
    <3>1. ASSUME NEW k \in Key PROVE measured'[k] >= turnStart' BY <1>0, <2>1
    <3> QED BY <1>0, <2>1, <3>1 DEF MetricsInv, MeasuredSince
  <2>3. CASE turnStart = 0
    <3>1. records' = records BY <2>1, <2>3
    <3>2. MetricsType' BY <1>0, <2>1, <3>1 DEF MetricsType
    <3>3. RecordedBefore' BY <1>0, <2>1, <3>1 DEF MetricsInv, RecordedBefore
    <3>4. RecordsMatchTurns' BY <3>1 DEF MetricsInv, RecordsMatchTurns
    <3> QED BY <2>2, <3>2, <3>3, <3>4 DEF MetricsInv
  <2>4. CASE turnStart # 0
    <3>1. /\ measured["stt"] \in Nat /\ measured["llm"] \in Nat /\ measured["tts"] \in Nat
          /\ measured["smart"] \in Nat
      BY <1>0 DEF Service
    <3>2. Record \in TurnRecord BY <1>0, <3>1 DEF Record, TurnRecord
    <3>3. records' = Append(records, Record) BY <2>1, <2>4
    <3>4. records' \in Seq(TurnRecord) BY <1>0, <3>2, <3>3
    <3>5. MetricsType' BY <1>0, <2>1, <3>4 DEF MetricsInv, MetricsType
    <3>6. Record.start = turnStart /\ \A v \in {Record.stt, Record.llm, Record.tts, Record.smart}
                                         \ {NotMeasured} : v >= Record.start
      <4>1. /\ measured["stt"] # 0 => measured["stt"] >= turnStart
            /\ measured["llm"] # 0 => measured["llm"] >= turnStart
            /\ measured["tts"] # 0 => measured["tts"] >= turnStart
            /\ measured["smart"] # 0 => measured["smart"] >= turnStart
            /\ ttsStarted # 0 => ttsStarted >= turnStart
        BY <1>0 DEF MetricsInv, MeasuredSince, Service
      <4> QED BY <1>0, <3>1, <4>1 DEF Record
    <3>7. /\ DOMAIN records' = 1..(Len(records) + 1) /\ Len(records) \in Nat
          /\ DOMAIN records = 1..Len(records)
          /\ \A i \in 1..Len(records) : records'[i] = records[i]
          /\ records'[Len(records) + 1] = Record
      BY <1>0, <3>2, <3>3
    <3>8. \A i \in DOMAIN records : records[i].start < turnStart
      BY <1>0, <2>4 DEF MetricsInv, RecordedBefore
    <3>9. turnStart <= turns /\ (turn => turnStart < turns) BY DEF MetricsInv, MeasuredSince
    <3>10. RecordedBefore'
      <4>1. ASSUME NEW i \in DOMAIN records'
            PROVE  records'[i].start <= turns /\ (turn => records'[i].start < turns)
        <5>1. CASE i \in DOMAIN records
          BY <3>7, <5>1 DEF MetricsInv, RecordedBefore
        <5>2. CASE i = Len(records) + 1 BY <3>6, <3>7, <3>9, <5>2
        <5> QED BY <3>7, <5>1, <5>2
      <4> QED BY <1>0, <2>1, <4>1 DEF RecordedBefore
    <3>11. RecordsMatchTurns'
      <4> DEFINE Fresh(r) == \A v \in {r.stt, r.llm, r.tts, r.smart} \ {NotMeasured} : v >= r.start
      <4>1. ASSUME NEW i \in DOMAIN records'
            PROVE  (i > 1 => records'[i - 1].start < records'[i].start) /\ Fresh(records'[i])
        <5>1. CASE i \in DOMAIN records
          <6>1. records'[i] = records[i] BY <3>7, <5>1
          <6>2. i > 1 => records'[i - 1] = records[i - 1] BY <3>7, <5>1
          <6>3. (i > 1 => records[i - 1].start < records[i].start) /\ Fresh(records[i])
            BY <5>1 DEF MetricsInv, RecordsMatchTurns
          <6> QED BY <6>1, <6>2, <6>3
        <5>2. CASE i = Len(records) + 1
          <6>1. records'[i] = Record BY <3>7, <5>2
          <6>2. i > 1 => i - 1 \in DOMAIN records /\ records'[i - 1] = records[i - 1]
            BY <3>7, <5>2
          <6> QED BY <3>6, <3>8, <6>1, <6>2
        <5> QED BY <3>7, <5>1, <5>2
      <4> QED BY <4>1 DEF RecordsMatchTurns
    <3> QED BY <2>2, <3>5, <3>10, <3>11 DEF MetricsInv
  <2> QED BY <2>3, <2>4
<1> QED BY <1>1, <1>2, <1>3, <1>4, <1>5, <1>6, <1>7 DEF MetricsMoves

(* Every record is of one user turn, in order, and holds only what was      *)
(* measured since that turn, whatever the services report and when.         *)
THEOREM RecordsAreOfTheirTurn == Spec => []RecordsMatchTurns
<1>1. Init => MetricsInv
  <2> SUFFICES ASSUME JudgeInit, MetricsInit PROVE MetricsInv BY DEF Init
  <2>1. /\ turnStart = 0 /\ inProgress = FALSE /\ ttsStarted = 0 /\ lastSmart = 0 /\ records = <<>>
        /\ measured = [s \in Service \cup {"smart"} |-> 0] /\ turn = FALSE /\ turns = 0
    BY DEF JudgeInit, MetricsInit, NothingMeasured, NotMeasured
  <2>2. records \in Seq(TurnRecord) /\ DOMAIN records = {} BY <2>1
  <2>3. MetricsType BY <2>1, <2>2 DEF MetricsType
  <2>4. MeasuredSince BY <2>1 DEF MeasuredSince, NotMeasured
  <2>5. RecordedBefore /\ RecordsMatchTurns BY <2>2 DEF RecordedBefore, RecordsMatchTurns
  <2> QED BY <2>3, <2>4, <2>5 DEF MetricsInv
<1>2. JudgeTypeOK /\ MetricsInv /\ [Next]_vars => MetricsInv'
  BY StepsOfTheMetrics, MetricsAreKept
<1>3. MetricsInv => RecordsMatchTurns BY DEF MetricsInv
<1> QED BY <1>1, <1>2, <1>3, JudgeAlways, PTL DEF Spec

-----------------------------------------------------------------------------
(* The timer *)

LEMMA SleepOutcome ==
    ASSUME Sleep({})
    PROVE  timer' \in TimerTask /\ asleep' = {timer'} \ {0}
<1>1. \E t \in TimerTask : t \notin {} \/ TimerTask \subseteq {} BY DEF TimerTask
<1>2. timer' \in TimerTask /\ asleep' = {timer'} BY <1>1 DEF Sleep
<1>3. 0 \notin TimerTask BY DEF TimerTask
<1> QED BY <1>2, <1>3

LEMMA TimerOutcome ==
    ASSUME NudgeTypeOK, StartTimer \/ ResetTimer \/ CancelTimer
    PROVE  /\ timer' \in TimerTask \cup {0} /\ asleep' = {timer'} \ {0}
           /\ CancelTimer => asleep' = {}
<1>1. asleep \ {timer} = {} BY DEF NudgeTypeOK
<1>2. CASE CancelTimer BY <1>1, <1>2 DEF CancelTimer
<1>3. CASE StartTimer /\ ~CancelTimer
  <2>1. Sleep({}) BY <1>1, <1>3 DEF StartTimer
  <2> QED BY <1>3, <2>1, SleepOutcome
<1> QED BY <1>2, <1>3 DEF ResetTimer

LEMMA ObserveOutcome ==
    ASSUME NudgeTypeOK, NEW frame, Observe(frame)
    PROVE  /\ NudgeTypeOK'
           /\ frame = "BotStarted" => nudgeBot' = TRUE /\ asleep' = {}
           /\ frame = "BotStopped" => nudgeBot' = FALSE
           /\ frame \in {"UserStarted", "End"} => nudgeBot' = nudgeBot
           /\ frame = "End" => asleep' = {}
<1>1. /\ StartTimer \/ ResetTimer \/ CancelTimer
      /\ frame \in {"BotStarted", "End"} => CancelTimer
      /\ active' \in BOOLEAN /\ nudgeBot' \in BOOLEAN
      /\ frame = "BotStarted" => nudgeBot' = TRUE
      /\ frame = "BotStopped" => nudgeBot' = FALSE
      /\ frame \in {"UserStarted", "End"} => nudgeBot' = nudgeBot
  BY DEF Observe, NudgeTypeOK
<1>2. /\ timer' \in TimerTask \cup {0} /\ asleep' = {timer'} \ {0}
      /\ CancelTimer => asleep' = {}
  BY <1>1, TimerOutcome
<1> QED BY <1>1, <1>2 DEF NudgeTypeOK

LEMMA WakeOutcome ==
    ASSUME NudgeTypeOK, NEW t \in TimerTask, WakeTimer(t)
    PROVE  NudgeTypeOK' /\ asleep' = {}
<1>1. t = timer /\ asleep = {t} BY DEF WakeTimer, NudgeTypeOK
<1>2. timer' = 0 /\ asleep' = {} /\ active' = active /\ nudgeBot' = nudgeBot
  BY <1>1 DEF WakeTimer
<1> QED BY <1>2 DEF NudgeTypeOK

-----------------------------------------------------------------------------
(* Frames *)

FlowType ==
    /\ NudgeTypeOK
    /\ up \in Seq({"BotStarted", "BotStopped"})
    /\ bot \in BOOLEAN /\ cutoff \in BOOLEAN /\ judgeBot \in BOOLEAN /\ nudges \in Nat

(* The last frame under way says what the bot does; once none is, the       *)
(* judge and the observer know it, the judge but for a reset whose          *)
(* interruption is still to come.                                           *)
FramesTell ==
    /\ up # <<>> => (up[Len(up)] = "BotStarted" <=> bot)
    /\ up = <<>> => nudgeBot = bot /\ (judgeBot = bot \/ (cutoff /\ ~judgeBot))

(* After a prompt no timer runs until somebody speaks.                      *)
Prompted ==
    nudges > 0 => asleep = {} /\ \A i \in DOMAIN up : up[i] = "BotStarted"

FlowInv == FlowType /\ FramesTell /\ Prompted

(* A frame is sent up.                                                      *)
LEMMA SentUp ==
    ASSUME FlowType, NEW frame \in {"BotStarted", "BotStopped"}, up' = Append(up, frame)
    PROVE  /\ up' \in Seq({"BotStarted", "BotStopped"}) /\ up' # <<>>
           /\ up'[Len(up')] = frame
           /\ (\A i \in DOMAIN up : up[i] = "BotStarted") /\ frame = "BotStarted"
                 => \A i \in DOMAIN up' : up'[i] = "BotStarted"
<1>1. up \in Seq({"BotStarted", "BotStopped"}) BY DEF FlowType
<1>2. /\ up' \in Seq({"BotStarted", "BotStopped"}) /\ Len(up') = Len(up) + 1 /\ Len(up) \in Nat
      /\ up'[Len(up) + 1] = frame /\ DOMAIN up' = 1..(Len(up) + 1) /\ DOMAIN up = 1..Len(up)
      /\ \A i \in 1..Len(up) : up'[i] = up[i]
  BY <1>1
<1>3. up' # <<>> BY <1>2
<1>4. ASSUME \A i \in DOMAIN up : up[i] = "BotStarted", frame = "BotStarted", NEW i \in DOMAIN up'
      PROVE  up'[i] = "BotStarted"
  <2>1. i \in 1..Len(up) \/ i = Len(up) + 1 BY <1>2
  <2> QED BY <1>2, <1>4, <2>1
<1> QED BY <1>2, <1>3, <1>4

(* A frame arrives; what is still under way is as it was.                   *)
LEMMA ArrivedUp ==
    ASSUME FlowType, up # <<>>, up' = Tail(up)
    PROVE  /\ up' \in Seq({"BotStarted", "BotStopped"})
           /\ Head(up) = up[1] /\ 1 \in DOMAIN up /\ Head(up) \in {"BotStarted", "BotStopped"}
           /\ up' # <<>> => up'[Len(up')] = up[Len(up)]
           /\ up' = <<>> => Head(up) = up[Len(up)]
           /\ \A i \in DOMAIN up' : i + 1 \in DOMAIN up /\ up'[i] = up[i + 1]
<1>1. up \in Seq({"BotStarted", "BotStopped"}) BY DEF FlowType
<1>2. Len(up) \in Nat /\ Len(up) > 0 /\ DOMAIN up = 1..Len(up) BY <1>1
<1>3. /\ up' \in Seq({"BotStarted", "BotStopped"}) /\ Len(up') = Len(up) - 1
      /\ DOMAIN up' = 1..(Len(up) - 1) /\ \A i \in 1..(Len(up) - 1) : up'[i] = up[i + 1]
  BY <1>1, <1>2
<1>4. Head(up) = up[1] /\ 1 \in DOMAIN up /\ up[1] \in {"BotStarted", "BotStopped"} BY <1>1, <1>2
<1>5. up' # <<>> => up'[Len(up')] = up[Len(up)]
  <2>1. SUFFICES ASSUME up' # <<>> PROVE up'[Len(up')] = up[Len(up)] OBVIOUS
  <2>2. Len(up') # 0 BY <1>3, <2>1
  <2> QED BY <1>2, <1>3, <2>2
<1>6. up' = <<>> => Len(up) = 1
  <2>1. up' = <<>> => Len(up') = 0 OBVIOUS
  <2> QED BY <1>2, <1>3, <2>1
<1>7. ASSUME NEW i \in DOMAIN up' PROVE i + 1 \in DOMAIN up /\ up'[i] = up[i + 1]
  BY <1>2, <1>3
<1> QED BY <1>3, <1>4, <1>5, <1>6, <1>7

(* What leaves the frames, the bot, and what is known of it alone.          *)
LEMMA FlowUnchanged ==
    ASSUME FlowInv, UNCHANGED nudgeVars, judgeBot' = judgeBot, up' = up, bot' = bot,
           cutoff' = cutoff, nudges' = nudges
    PROVE  FlowInv'
BY DEF FlowInv, FlowType, NudgeTypeOK, FramesTell, Prompted, nudgeVars

(* A turn begins: the judge is reset, the observer's timer starts anew.     *)
LEMMA FlowTurnBegins ==
    ASSUME FlowInv, TurnBegan, judgeBot' = FALSE
    PROVE  FlowInv'
<1>1. /\ up' = up /\ bot' = bot /\ cutoff' = TRUE /\ nudges' = 0
  BY DEF TurnBegan
<1>2. NudgeTypeOK' /\ nudgeBot' = nudgeBot
  BY ObserveOutcome DEF TurnBegan, FlowInv, FlowType
<1>3. FlowType' BY <1>1, <1>2 DEF FlowInv, FlowType
<1>4. FramesTell' BY <1>1, <1>2 DEF FlowInv, FramesTell
<1>5. Prompted' BY <1>1 DEF Prompted
<1> QED BY <1>3, <1>4, <1>5 DEF FlowInv

LEMMA FlowIsKept ==
    ASSUME FlowInv, [Next]_vars
    PROVE  FlowInv' /\ (nudges' > nudges => ~bot /\ nudges = 0)
<1>0. /\ NudgeTypeOK /\ up \in Seq({"BotStarted", "BotStopped"}) /\ bot \in BOOLEAN
      /\ cutoff \in BOOLEAN /\ judgeBot \in BOOLEAN /\ nudges \in Nat
  BY DEF FlowInv, FlowType
<1>1. ASSUME nudges' = nudges \/ nudges' = 0 PROVE ~(nudges' > nudges) BY <1>0, <1>1
<1>2. CASE UNCHANGED vars
  BY <1>1, <1>2, FlowUnchanged DEF vars, judgeVars, flowVars
<1>3. CASE ClientConnected \/ GreetingFetched \/ GoodbyeIsOver \/ ClientDisconnected
  BY <1>1, <1>3, FlowUnchanged
     DEF ClientConnected, GreetingFetched, GoodbyeIsOver, ClientDisconnected, QueueEnd, judgeVars
<1>4. CASE TranscriptBeginsTurn
  <2>1. TurnBegan /\ judgeBot' = FALSE /\ nudges' = 0
    BY <1>4 DEF TranscriptBeginsTurn, BeginTurn, Reset, TurnBegan
  <2> QED BY <1>1, <2>1, FlowTurnBegins
<1>5. CASE ShortTranscript
  BY <1>1, <1>5, FlowUnchanged DEF ShortTranscript, Ask, flowVars
<1>6. CASE JudgeStep
  <2>1. PICK j \in judges : JudgeAnswers(j) \/ JudgeDismisses(j) \/ JudgeInterrupts(j)
    BY <1>6 DEF JudgeStep
  <2>2. CASE JudgeAnswers(j)
    <3>1. judgeBot' = judgeBot /\ UNCHANGED nudgeVars /\ up' = up /\ bot' = bot
          /\ cutoff' = cutoff /\ nudges' = nudges
      BY <2>2 DEF JudgeAnswers, Answer, flowVars
    <3> QED BY <1>1, <3>1, FlowUnchanged
  <2>3. CASE JudgeDismisses(j)
    <3>1. judgeBot' = judgeBot /\ UNCHANGED nudgeVars /\ up' = up /\ bot' = bot
          /\ cutoff' = cutoff /\ nudges' = nudges
      BY <2>3 DEF JudgeDismisses, Dismiss, flowVars
    <3> QED BY <1>1, <3>1, FlowUnchanged
  <2>4. CASE JudgeInterrupts(j)
    <3>1. TurnBegan /\ judgeBot' = FALSE /\ nudges' = 0
      BY <2>4 DEF JudgeInterrupts, Interrupts, TurnBegan
    <3> QED BY <1>1, <3>1, FlowTurnBegins
  <2> QED BY <2>1, <2>2, <2>3, <2>4
<1>7. CASE Interruption
  <2>0. judgeBot' = judgeBot /\ cutoff /\ cutoff' = FALSE
    BY <1>7 DEF Interruption, judgeVars
  <2>1. CASE bot
    <3>1. up' = Append(up, "BotStopped") /\ bot' = FALSE /\ nudges' = 0 /\ Observe("BotStopped")
      BY <1>7, <2>1 DEF Interruption
    <3>2. NudgeTypeOK' /\ nudgeBot' = FALSE BY <1>0, <3>1, ObserveOutcome
    <3>3. /\ up' \in Seq({"BotStarted", "BotStopped"}) /\ up' # <<>>
          /\ up'[Len(up')] = "BotStopped"
      BY <3>1, SentUp DEF FlowInv
    <3>4. FlowType' BY <1>0, <2>0, <3>1, <3>2, <3>3 DEF FlowType
    <3>5. FramesTell' BY <3>1, <3>3 DEF FramesTell
    <3>6. Prompted' BY <3>1 DEF Prompted
    <3> QED BY <1>1, <3>1, <3>4, <3>5, <3>6 DEF FlowInv
  <2>2. CASE ~bot
    <3>1. up' = up /\ bot' = bot /\ nudges' = nudges /\ UNCHANGED nudgeVars
      BY <1>7, <2>2 DEF Interruption
    <3>2. timer' = timer /\ asleep' = asleep /\ active' = active /\ nudgeBot' = nudgeBot
      BY <3>1 DEF nudgeVars
    <3>3. FlowType' BY <1>0, <2>0, <3>1, <3>2 DEF FlowType, NudgeTypeOK
    <3>4. FramesTell' BY <1>0, <2>0, <2>2, <3>1, <3>2 DEF FlowInv, FramesTell
    <3>5. Prompted' BY <3>1, <3>2 DEF FlowInv, Prompted
    <3> QED BY <1>1, <3>1, <3>3, <3>4, <3>5 DEF FlowInv
  <2> QED BY <2>1, <2>2
<1>8. CASE SmartTurnReports \/ SttReports \/ LlmStep \/ TtsReports
  BY <1>1, <1>8, FlowUnchanged
     DEF SmartTurnReports, SttReports, LlmStep, LlmStarts, LlmSays, LlmEnds, TtsReports,
         judgeVars, flowVars
<1>9. CASE UserStops
  BY <1>1, <1>9, FlowUnchanged DEF UserStops, EndTurn
<1>10. CASE BotStarts
  <2>1. /\ ~cutoff /\ cutoff' = cutoff /\ bot' = TRUE /\ up' = Append(up, "BotStarted")
        /\ Observe("BotStarted") /\ judgeBot' = judgeBot /\ nudges' = nudges
    BY <1>10 DEF BotStarts, judgeVars
  <2>2. NudgeTypeOK' /\ nudgeBot' = TRUE /\ asleep' = {} BY <1>0, <2>1, ObserveOutcome
  <2>3. /\ up' \in Seq({"BotStarted", "BotStopped"}) /\ up' # <<>>
        /\ up'[Len(up')] = "BotStarted"
        /\ (\A i \in DOMAIN up : up[i] = "BotStarted") => \A i \in DOMAIN up' : up'[i] = "BotStarted"
    BY <2>1, SentUp DEF FlowInv
  <2>4. FlowType' BY <1>0, <2>1, <2>2, <2>3 DEF FlowType
  <2>5. FramesTell' BY <2>1, <2>3 DEF FramesTell
  <2>6. Prompted' BY <2>1, <2>2, <2>3 DEF FlowInv, Prompted
  <2> QED BY <1>1, <2>1, <2>4, <2>5, <2>6 DEF FlowInv
<1>11. CASE BotStops
  <2>1. /\ cutoff' = cutoff /\ bot' = FALSE /\ up' = Append(up, "BotStopped") /\ nudges' = 0
        /\ Observe("BotStopped") /\ judgeBot' = judgeBot
    BY <1>11 DEF BotStops, judgeVars
  <2>2. NudgeTypeOK' /\ nudgeBot' = FALSE BY <1>0, <2>1, ObserveOutcome
  <2>3. /\ up' \in Seq({"BotStarted", "BotStopped"}) /\ up' # <<>>
        /\ up'[Len(up')] = "BotStopped"
    BY <2>1, SentUp DEF FlowInv
  <2>4. FlowType' BY <1>0, <2>1, <2>2, <2>3 DEF FlowType
  <2>5. FramesTell' BY <2>1, <2>3 DEF FramesTell
  <2>6. Prompted' BY <2>1 DEF Prompted
  <2> QED BY <1>1, <2>1, <2>4, <2>5, <2>6 DEF FlowInv
<1>12. CASE FrameArrivesUp
  <2>1. /\ up # <<>> /\ up' = Tail(up) /\ Observe(Head(up))
        /\ bot' = bot /\ cutoff' = cutoff /\ nudges' = nudges
    BY <1>12 DEF FrameArrivesUp
  <2>2. \/ Head(up) = "BotStarted" /\ judgeBot' = TRUE
        \/ Head(up) = "BotStopped" /\ judgeBot' = FALSE
    BY <1>12 DEF FrameArrivesUp, JudgeBotStarted, JudgeBotStopped
  <2>3. /\ up' \in Seq({"BotStarted", "BotStopped"})
        /\ Head(up) = up[1] /\ 1 \in DOMAIN up
        /\ up' # <<>> => up'[Len(up')] = up[Len(up)]
        /\ up' = <<>> => Head(up) = up[Len(up)]
        /\ \A i \in DOMAIN up' : i + 1 \in DOMAIN up /\ up'[i] = up[i + 1]
    BY <2>1, ArrivedUp DEF FlowInv
  <2>4. /\ NudgeTypeOK'
        /\ Head(up) = "BotStarted" => nudgeBot' = TRUE /\ asleep' = {}
        /\ Head(up) = "BotStopped" => nudgeBot' = FALSE
    BY <1>0, <2>1, ObserveOutcome
  <2>5. judgeBot' \in BOOLEAN BY <2>2
  <2>6. FlowType' BY <1>0, <2>1, <2>3, <2>4, <2>5 DEF FlowType
  <2>7. up[Len(up)] = "BotStarted" <=> bot BY <2>1 DEF FlowInv, FramesTell
  <2>8. FramesTell'
    <3>1. CASE up' # <<>> BY <2>1, <2>3, <2>7, <3>1 DEF FramesTell
    <3>2. CASE up' = <<>>
      <4>1. Head(up) = "BotStarted" <=> bot BY <2>3, <2>7, <3>2
      <4>2. nudgeBot' = bot' /\ judgeBot' = bot' BY <1>0, <2>1, <2>2, <2>4, <4>1
      <4> QED BY <3>2, <4>2 DEF FramesTell
    <3> QED BY <3>1, <3>2
  <2>9. Prompted'
    <3>1. SUFFICES ASSUME nudges > 0 PROVE asleep' = {} /\ \A i \in DOMAIN up' : up'[i] = "BotStarted"
      BY <2>1 DEF Prompted
    <3>2. \A i \in DOMAIN up : up[i] = "BotStarted" BY <3>1 DEF FlowInv, Prompted
    <3> QED BY <2>3, <2>4, <3>2
  <2> QED BY <1>1, <2>1, <2>6, <2>8, <2>9 DEF FlowInv
<1>13. ASSUME NEW t \in TimerTask, NudgeTimer(t)
       PROVE  FlowInv' /\ (nudges' > nudges => ~bot /\ nudges = 0)
  <2>1. /\ up = <<>> /\ up' = up /\ WakeTimer(t) /\ bot' = bot /\ cutoff' = cutoff
        /\ judgeBot' = judgeBot /\ nudgeBot' = nudgeBot /\ t \in asleep
        /\ IF Nudges THEN nudges' = nudges + 1 ELSE nudges' = nudges
    BY <1>13 DEF NudgeTimer, WakeTimer, judgeVars
  <2>2. NudgeTypeOK' /\ asleep' = {} BY <1>0, <2>1, WakeOutcome
  <2>3. nudges = 0 BY <1>0, <2>1 DEF FlowInv, Prompted
  <2>4. nudges' > nudges => ~bot
    <3>1. nudges' > nudges => Nudges BY <1>0, <2>1
    <3>2. Nudges => ~nudgeBot BY DEF Nudges
    <3>3. nudgeBot = bot BY <2>1 DEF FlowInv, FramesTell
    <3> QED BY <3>1, <3>2, <3>3
  <2>5. FlowType' BY <1>0, <2>1, <2>2 DEF FlowType
  <2>6. FramesTell' BY <2>1 DEF FlowInv, FramesTell
  <2>7. Prompted'
    <3>1. DOMAIN up' = {} BY <2>1
    <3> QED BY <2>2, <3>1 DEF Prompted
  <2> QED BY <2>3, <2>4, <2>5, <2>6, <2>7 DEF FlowInv
<1>14. CASE EndArrives
  <2>1. /\ Observe("End") /\ bot' = bot /\ cutoff' = cutoff /\ nudges' = nudges /\ up' = up
        /\ judgeBot' = judgeBot
    BY <1>14 DEF EndArrives, JudgeCleanup
  <2>2. NudgeTypeOK' /\ nudgeBot' = nudgeBot /\ asleep' = {} BY <1>0, <2>1, ObserveOutcome
  <2>3. FlowType' BY <1>0, <2>1, <2>2 DEF FlowType
  <2>4. FramesTell' BY <2>1, <2>2 DEF FlowInv, FramesTell
  <2>5. Prompted' BY <2>1, <2>2 DEF FlowInv, Prompted
  <2> QED BY <1>1, <2>1, <2>3, <2>4, <2>5 DEF FlowInv
<1> QED
  BY <1>2, <1>3, <1>4, <1>5, <1>6, <1>7, <1>8, <1>9, <1>10, <1>11, <1>12, <1>13, <1>14
     DEF Next, BotStep

LEMMA FlowAlways == Spec => []FlowInv
<1>1. Init => FlowInv
  <2> SUFFICES ASSUME Init PROVE FlowInv OBVIOUS
  <2>1. /\ active = TRUE /\ nudgeBot = FALSE /\ timer = 1 /\ asleep = {1} /\ up = <<>>
        /\ bot = FALSE /\ cutoff = FALSE /\ judgeBot = FALSE /\ nudges = 0
    BY DEF Init, NudgeInit, JudgeInit
  <2>2. {1} = {1} \ {0} /\ 1 \in TimerTask BY DEF TimerTask
  <2>3. NudgeTypeOK BY <2>1, <2>2 DEF NudgeTypeOK
  <2>4. up \in Seq({"BotStarted", "BotStopped"}) BY <2>1
  <2>5. FlowType BY <2>1, <2>3, <2>4 DEF FlowType
  <2>6. FramesTell BY <2>1 DEF FramesTell
  <2>7. Prompted BY <2>1 DEF Prompted
  <2> QED BY <2>5, <2>6, <2>7 DEF FlowInv
<1>2. FlowInv /\ [Next]_vars => FlowInv' BY FlowIsKept
<1> QED BY <1>1, <1>2, PTL DEF Spec

(* Whatever frames are under way in which order, once they have arrived the *)
(* judge knows whether the bot speaks.                                      *)
THEOREM JudgeHearsTheBot == Spec => []JudgeKnowsBot
<1>1. FlowInv => JudgeKnowsBot BY DEF FlowInv, FlowType, FramesTell, JudgeKnowsBot
<1> QED BY <1>1, FlowAlways, PTL

(* However often the observer sees a frame, a silence is broken by one      *)
(* prompt, and never over the bot.                                          *)
THEOREM SilencesGetOneNudge == Spec => OneNudgePerSilence
<1>1. FlowInv /\ [Next]_vars => (nudges' > nudges => ~bot /\ nudges = 0) BY FlowIsKept
<1> QED BY <1>1, FlowAlways, PTL DEF Spec, OneNudgePerSilence

-----------------------------------------------------------------------------
(* Types *)

RestType ==
    /\ EndCallTypeOK
    /\ greeting \in {"none", "fetching", "done"}
    /\ llm \in {"idle", "asked", "streaming"} /\ reply \subseteq Part
    /\ speech \in BOOLEAN /\ goodbye \in BOOLEAN
    /\ ended \in {"no", "queued", "done"}

restVars == <<buffer, hangups, greeting, llm, reply, speech, goodbye, ended>>

LEMMA ResponseEndType ==
    ASSUME EndCallTypeOK, OnResponseEnd
    PROVE  EndCallTypeOK'
<1>1. hangups \in Nat BY DEF EndCallTypeOK
<1>2. hangups' \in {hangups, hangups + 1} /\ buffer' = {} BY DEF OnResponseEnd
<1> QED BY <1>1, <1>2 DEF EndCallTypeOK

LEMMA RestIsKept == ASSUME RestType, [Next]_vars PROVE RestType'
<1>0. /\ EndCallTypeOK /\ greeting \in {"none", "fetching", "done"}
      /\ llm \in {"idle", "asked", "streaming"} /\ reply \subseteq Part
      /\ speech \in BOOLEAN /\ goodbye \in BOOLEAN /\ ended \in {"no", "queued", "done"}
  BY DEF RestType
<1>1. ASSUME UNCHANGED restVars PROVE RestType'
  BY <1>0, <1>1 DEF restVars, RestType, EndCallTypeOK
<1>2. CASE UNCHANGED vars
  BY <1>1, <1>2 DEF vars, endCallVars, flowVars, restVars
<1>3. CASE ShortTranscript \/ SmartTurnReports \/ SttReports \/ TtsReports
  BY <1>1, <1>3 DEF ShortTranscript, SmartTurnReports, SttReports, TtsReports,
                    endCallVars, flowVars, restVars
<1>4. CASE JudgeStep \/ TranscriptBeginsTurn
  BY <1>1, <1>4 DEF JudgeStep, JudgeAnswers, JudgeDismisses, JudgeInterrupts, TranscriptBeginsTurn,
                    TurnBegan, endCallVars, flowVars, restVars
<1>5. CASE BotStarts \/ FrameArrivesUp
  BY <1>1, <1>5 DEF BotStarts, FrameArrivesUp, endCallVars, restVars
<1>6. CASE \/ ClientConnected \/ GreetingFetched \/ UserStops \/ LlmStarts \/ BotStops
           \/ ClientDisconnected \/ EndArrives \/ \E t \in TimerTask : NudgeTimer(t)
  <2>1. EndCallTypeOK'
    BY <1>0, <1>6 DEF ClientConnected, GreetingFetched, UserStops, LlmStarts, BotStops,
                      ClientDisconnected, EndArrives, NudgeTimer, endCallVars, EndCallTypeOK
  <2>2. /\ greeting' \in {greeting, "done", "fetching"} /\ llm' \in {llm, "asked", "streaming", "idle"}
        /\ reply' \in {reply, {}} /\ speech' \in BOOLEAN /\ goodbye' = goodbye
        /\ ended' \in {ended, "queued", "done"}
    <3>1. CASE ClientConnected \/ GreetingFetched
      BY <1>0, <3>1 DEF ClientConnected, GreetingFetched
    <3>2. CASE UserStops BY <1>0, <3>2 DEF UserStops
    <3>6. CASE LlmStarts
      <4>1. llm' = "streaming" \/ llm' \in {"streaming", "idle"} BY <3>6 DEF LlmStarts
      <4>2. /\ greeting' = greeting /\ reply' = {} /\ speech' = speech /\ goodbye' = goodbye
            /\ ended' = ended
        BY <3>6 DEF LlmStarts
      <4> QED BY <1>0, <4>1, <4>2
    <3>3. CASE BotStops BY <1>0, <3>3 DEF BotStops
    <3>4. CASE ClientDisconnected \/ EndArrives
      BY <1>0, <3>4 DEF ClientDisconnected, QueueEnd, EndArrives
    <3>5. CASE \E t \in TimerTask : NudgeTimer(t) BY <1>0, <3>5 DEF NudgeTimer
    <3> QED BY <1>6, <3>1, <3>2, <3>3, <3>4, <3>5, <3>6
  <2> QED BY <1>0, <2>1, <2>2 DEF RestType
<1>7. CASE Interruption
  <2>1. EndCallTypeOK'
    BY <1>0, <1>7, ResponseEndType DEF Interruption, endCallVars, EndCallTypeOK
  <2>2. /\ greeting' = greeting /\ llm' = "idle" /\ reply' = {} /\ speech' = FALSE
        /\ goodbye' = goodbye /\ ended' = ended
    BY <1>7 DEF Interruption
  <2> QED BY <1>0, <2>1, <2>2 DEF RestType
<1>8. CASE LlmSays
  <2>1. PICK text \in {{}} \cup {{p} : p \in Part} : OnText(text) /\ reply' = reply \cup text
    BY <1>8 DEF LlmSays
  <2>2. text \subseteq Part BY <2>1
  <2>3. EndCallTypeOK' BY <1>0, <2>1, <2>2 DEF OnText, EndCallTypeOK
  <2>4. /\ greeting' = greeting /\ llm' = llm /\ speech' = TRUE
        /\ goodbye' = goodbye /\ ended' = ended
    BY <1>8 DEF LlmSays
  <2> QED BY <1>0, <2>1, <2>2, <2>3, <2>4 DEF RestType
<1>9. CASE LlmEnds
  <2>1. EndCallTypeOK' BY <1>0, <1>9, ResponseEndType DEF LlmEnds
  <2>2. /\ greeting' = greeting /\ llm' = "idle" /\ reply' = {} /\ speech' = speech
        /\ goodbye' \in BOOLEAN /\ ended' = ended
    BY <1>0, <1>9 DEF LlmEnds
  <2> QED BY <1>0, <2>1, <2>2 DEF RestType
<1>10. CASE GoodbyeIsOver
  <2>1. hangups \in Nat /\ hangups > 0 /\ hangups' = hangups - 1 /\ buffer' = buffer
    BY <1>0, <1>10 DEF GoodbyeIsOver, HangUp, EndCallTypeOK
  <2>2. EndCallTypeOK' BY <1>0, <2>1 DEF EndCallTypeOK
  <2>3. /\ greeting' = greeting /\ llm' = llm /\ reply' = reply /\ speech' = speech
        /\ goodbye' = goodbye /\ ended' = "queued"
    BY <1>10 DEF GoodbyeIsOver, QueueEnd
  <2> QED BY <1>0, <2>2, <2>3 DEF RestType
<1> QED
  BY <1>2, <1>3, <1>4, <1>5, <1>6, <1>7, <1>8, <1>9, <1>10 DEF Next, LlmStep, BotStep

(* Every variable has its type; no timer sleeps but the one that the        *)
(* observer would cancel.                                                   *)
THEOREM ConversationTypeCorrect == Spec => []TypeOK
<1>1. Init => RestType
  <2> SUFFICES ASSUME Init PROVE RestType OBVIOUS
  <2>1. /\ buffer = {} /\ hangups = 0 /\ greeting = "none" /\ llm = "idle" /\ reply = {}
        /\ speech = FALSE /\ goodbye = FALSE /\ ended = "no"
    BY DEF Init, EndCallInit
  <2> QED BY <2>1 DEF EndCallTypeOK, RestType
<1>2. RestType /\ [Next]_vars => RestType' BY RestIsKept
<1>3. JudgeTypeOK /\ FlowInv /\ RestType => TypeOK
  BY DEF FlowInv, FlowType, RestType, TypeOK
<1> QED BY <1>1, <1>2, <1>3, JudgeAlways, FlowAlways, PTL DEF Spec
=============================================================================
