---------------------------- MODULE SilenceNudge ----------------------------
(***************************************************************************)
(* SilenceNudgeObserver (app/worker/pipeline.py): a timer that prompts the *)
(* LLM when nobody speaks.  An observer sees a frame each time one         *)
(* processor hands it to the next, so it sees it several times, and in     *)
(* both directions.                                                        *)
(***************************************************************************)
EXTENDS Naturals

CONSTANT Message   \* FALSE: nudges are static and their message is empty

VARIABLES
    active,      \* _active
    nudgeBot,    \* _bot_speaking of the observer
    timer,       \* the task _timer refers to, if it has not ended; or 0
    asleep       \* _run_timer tasks that sleep

nudgeVars == <<active, nudgeBot, timer, asleep>>

TimerTask == 1..2

(* __init__ and set_pipeline_task: the first timer starts with the call. *)
NudgeInit == active = TRUE /\ nudgeBot = FALSE /\ timer = 1 /\ asleep = {1}

CancelTimer == timer' = 0 /\ asleep' = asleep \ {timer}

Sleep(others) ==
    LET t == CHOOSE t \in TimerTask : t \notin others \/ TimerTask \subseteq others IN
    timer' = t /\ asleep' = others \cup {t}

(* A mutant of StartTimer: the timer it replaces goes on. *)
StartAnother ==
    IF active THEN Sleep(asleep) ELSE CancelTimer

(* _start_timer *)
StartTimer ==
    IF active THEN Sleep(asleep \ {timer}) ELSE CancelTimer

(* A mutant of ResetTimer: the timer is cancelled for good. *)
ResetOnly == CancelTimer

(* _reset_timer *)
ResetTimer == IF nudgeBot THEN CancelTimer ELSE StartTimer

(* on_push_frame *)
Observe(frame) ==
    \/ frame = "UserStarted" /\ ResetTimer /\ UNCHANGED <<active, nudgeBot>>
    \/ frame = "BotStarted" /\ nudgeBot' = TRUE /\ CancelTimer /\ UNCHANGED active
    \/ frame = "BotStopped" /\ nudgeBot' = FALSE /\ StartTimer /\ UNCHANGED active
    \/ frame = "End" /\ active' = FALSE /\ CancelTimer /\ UNCHANGED nudgeBot

(* _run_timer, when the sleep is over: a prompt, or nothing. *)
Nudges == active /\ ~nudgeBot /\ Message

WakeTimer(t) ==
    /\ t \in asleep
    /\ asleep' = asleep \ {t}
    /\ timer' = IF timer = t THEN 0 ELSE timer
    /\ UNCHANGED <<active, nudgeBot>>

(* No timer sleeps that _timer does not refer to. *)
NudgeTypeOK ==
    /\ active \in BOOLEAN /\ nudgeBot \in BOOLEAN
    /\ timer \in TimerTask \cup {0} /\ asleep = {timer} \ {0}
=============================================================================
