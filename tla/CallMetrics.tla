----------------------------- MODULE CallMetrics -----------------------------
(***************************************************************************)
(* CallMetrics (app/worker/metrics.py), fed by MetricsProcessor: one       *)
(* record for each turn of the user that the bot answered.  A duration is  *)
(* the number of the user turn in which it was measured; counters are left *)
(* out.                                                                    *)
(***************************************************************************)
EXTENDS Naturals, Sequences

NotMeasured == 0

VARIABLES
    turnStart,    \* _turn_start, as the turn that ended then
    inProgress,   \* _turn_in_progress
    measured,     \* _pending_turn_{stt,llm,tts}_ms and _pending_smart_turn_ms
    ttsStarted,   \* _tts_started_at
    lastSmart,    \* _last_smart_turn_e2e_ms
    records       \* _turns

metricsVars == <<turnStart, inProgress, measured, ttsStarted, lastSmart, records>>

Service == {"stt", "llm", "tts"}
NothingMeasured == [s \in Service \cup {"smart"} |-> NotMeasured]

MetricsInit ==
    /\ turnStart = NotMeasured /\ inProgress = FALSE /\ measured = NothingMeasured
    /\ ttsStarted = NotMeasured /\ lastSmart = NotMeasured /\ records = <<>>

(* A mutant of OnUserStopped: what was measured for a turn that nobody      *)
(* answered stays.                                                          *)
OnUserStoppedKeeps(n) ==
    /\ turnStart' = n /\ inProgress' = TRUE
    /\ measured' = [measured EXCEPT !["smart"] = lastSmart]
    /\ ttsStarted' = NotMeasured /\ lastSmart' = NotMeasured
    /\ UNCHANGED records

OnUserStopped(n) ==
    /\ turnStart' = n /\ inProgress' = TRUE
    /\ measured' = [NothingMeasured EXCEPT !["smart"] = lastSmart]
    /\ ttsStarted' = NotMeasured /\ lastSmart' = NotMeasured
    /\ UNCHANGED records

(* on_metrics_frame: the first value of a turn counts. *)
OnTtfb(s, n) ==
    /\ measured' = IF inProgress /\ measured[s] = NotMeasured
                   THEN [measured EXCEPT ![s] = n] ELSE measured
    /\ UNCHANGED <<turnStart, inProgress, ttsStarted, lastSmart, records>>

OnSmartTurn(n) ==
    /\ lastSmart' = n
    /\ UNCHANGED <<turnStart, inProgress, measured, ttsStarted, records>>

OnTtsStarted(n) ==
    /\ ttsStarted' = IF ttsStarted = NotMeasured THEN n ELSE ttsStarted
    /\ UNCHANGED <<turnStart, inProgress, measured, lastSmart, records>>

(* The record of a turn: the TTS has its own value, or the time since       *)
(* synthesis began.                                                         *)
Record ==
    [start |-> turnStart, stt |-> measured["stt"], llm |-> measured["llm"],
     tts |-> IF measured["tts"] # NotMeasured THEN measured["tts"] ELSE ttsStarted,
     smart |-> measured["smart"]]

(* A mutant of OnBotStarted: the turn goes on after its record. *)
OnBotStartedAgain ==
    /\ ttsStarted' = NotMeasured /\ inProgress' = FALSE
    /\ records' = IF turnStart = NotMeasured THEN records ELSE Append(records, Record)
    /\ UNCHANGED <<turnStart, measured, lastSmart>>

OnBotStarted ==
    /\ ttsStarted' = NotMeasured /\ inProgress' = FALSE
    /\ records' = IF turnStart = NotMeasured THEN records ELSE Append(records, Record)
    /\ turnStart' = NotMeasured
    /\ UNCHANGED <<measured, lastSmart>>

(* A user turn is recorded at most once, in order, and nothing in its       *)
(* record was measured for an earlier turn ("so a stale value from a        *)
(* previous turn is never used", on_user_stopped_speaking), although the    *)
(* values come from four services, in any order, some never, and a turn     *)
(* may be cut off before the bot answers.                                   *)
RecordsMatchTurns ==
    \A i \in DOMAIN records :
        LET r == records[i] IN
        /\ i > 1 => records[i - 1].start < r.start
        /\ \A v \in {r.stt, r.llm, r.tts, r.smart} \ {NotMeasured} : v >= r.start
=============================================================================
