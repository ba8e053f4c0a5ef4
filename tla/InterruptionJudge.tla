-------------------------- MODULE InterruptionJudge --------------------------
(***************************************************************************)
(* LLMInterruptionJudgeStrategy (app/worker/strategies): whether what the  *)
(* user says while the bot speaks begins a turn.  The turn itself is kept  *)
(* by pipecat's turn controller, which resets the strategy when one begins *)
(* and ignores a trigger while one is open.                                *)
(***************************************************************************)
EXTENDS Naturals

CONSTANTS MaxAsked   \* bound: utterances sent to the judge

VARIABLES
    judgeBot,   \* _bot_speaking of the strategy
    greeted,    \* _greeting_completed
    sequence,   \* _judge_sequence
    asked,      \* utterances sent to the judge
    judges,     \* _run_judge tasks
    turn,       \* whether a user turn is open
    turns       \* user turns that have begun

judgeVars == <<judgeBot, greeted, sequence, asked, judges, turn, turns>>

Judge == [seq : Nat, utterance : Nat, turns : Nat, pending : BOOLEAN,
          answered : BOOLEAN]

JudgeInit ==
    /\ judgeBot = FALSE /\ greeted = FALSE /\ sequence = 0
    /\ asked = 0 /\ judges = {} /\ turn = FALSE /\ turns = 0

JudgeBotStarted ==
    judgeBot' = TRUE /\ UNCHANGED <<greeted, sequence, asked, judges, turn, turns>>

(* A mutant of JudgeBotStopped: a pause in the greeting is not its end. *)
StopsUngreeted ==
    /\ judgeBot' = (judgeBot /\ ~greeted)
    /\ greeted' = TRUE
    /\ UNCHANGED <<sequence, asked, judges, turn, turns>>

JudgeBotStopped ==
    /\ judgeBot' = FALSE /\ greeted' = TRUE
    /\ UNCHANGED <<sequence, asked, judges, turn, turns>>

(* _pending_judge_task.cancel(): wait_for of Python 3.11 does not let go of *)
(* an answer that is already there, so the task may go on.                  *)
NoLongerPending ==
    {IF j.pending THEN [j EXCEPT !.pending = FALSE] ELSE j :
        j \in {i \in judges : ~i.pending \/ i.answered}}

(* A mutant of Reset: what is being judged is left alone. *)
ResetFlag == judgeBot' = FALSE /\ UNCHANGED <<sequence, judges>>

(* reset() *)
Reset == judgeBot' = FALSE /\ sequence' = sequence + 1 /\ judges' = NoLongerPending

(* trigger_user_turn_started, when no turn is open. *)
BeginTurn ==
    /\ turn' = TRUE /\ turns' = turns + 1
    /\ Reset
    /\ UNCHANGED <<greeted, asked>>

EndTurn ==
    /\ turn /\ turn' = FALSE
    /\ UNCHANGED <<judgeBot, greeted, sequence, asked, judges, turns>>

(* process_frame: a transcript is taken for a turn, judged or dropped.      *)
NeedsJudge == judgeBot \/ ~greeted
Triggers(long) == ~NeedsJudge \/ long

Ask ==
    /\ NeedsJudge /\ asked < MaxAsked
    /\ sequence' = sequence + 1 /\ asked' = asked + 1
    /\ judges' = NoLongerPending \cup
          {[seq |-> sequence + 1, utterance |-> asked + 1, turns |-> turns,
            pending |-> TRUE, answered |-> FALSE]}
    /\ UNCHANGED <<judgeBot, greeted, turn, turns>>

(* The answer, the time-out or an error is there, and the task goes on      *)
(* later.                                                                   *)
Answer(j) ==
    /\ j \in judges /\ ~j.answered
    /\ judges' = (judges \ {j}) \cup {[j EXCEPT !.answered = TRUE]}
    /\ UNCHANGED <<judgeBot, greeted, sequence, asked, turn, turns>>

(* A mutant of Counts: stale results are not discarded. *)
CountsAnyway(j) == TRUE
Counts(j) == j.seq = sequence

(* The rest of _run_judge: nothing, unless the answer counts and is no      *)
(* BACKCHANNEL, or a turn if none is open.                                  *)
Finish(j) == j \in judges /\ j.answered
Dismiss(j) ==
    /\ Finish(j) /\ judges' = judges \ {j}
    /\ UNCHANGED <<judgeBot, greeted, sequence, asked, turn, turns>>
Interrupts(j) ==
    /\ Finish(j) /\ Counts(j) /\ ~turn
    /\ turn' = TRUE /\ turns' = turns + 1
    /\ judgeBot' = FALSE /\ sequence' = sequence + 1
    /\ judges' = {i \in NoLongerPending : i.seq # j.seq}
    /\ UNCHANGED <<greeted, asked>>

(* cleanup() *)
JudgeCleanup ==
    /\ sequence' = sequence + 1 /\ judges' = NoLongerPending
    /\ UNCHANGED <<judgeBot, greeted, asked, turn, turns>>

JudgeTypeOK ==
    /\ judgeBot \in BOOLEAN /\ greeted \in BOOLEAN /\ turn \in BOOLEAN
    /\ sequence \in Nat /\ asked \in 0..MaxAsked /\ turns \in Nat
    /\ judges \subseteq Judge
=============================================================================
