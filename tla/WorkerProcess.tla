--------------------------- MODULE WorkerProcess ---------------------------
(***************************************************************************)
(* The worker processes as the runners see them (app/worker/main.py,       *)
(* state.py and prewarm.py): what /health reports, the prewarm cache, and  *)
(* the calls that are connected.                                           *)
(*                                                                         *)
(* The runners' prewarm requests are fire-and-forget HTTP requests, each   *)
(* on a connection of its own: any may be lost, and they arrive in any     *)
(* order.                                                                  *)
(***************************************************************************)
EXTENDS Names

VARIABLES
    serving,    \* serving[w]: worker_state.current_call_sid, NoCall for None
    warm,       \* warm[w]: the keys of prewarm_cache._entries
    onair,      \* onair[w]: calls whose _handle_call is running
    posts       \* prewarm requests on their way to a worker

workerVars == <<serving, warm, onair, posts>>

Post == [kind : {"prewarm", "cancel"}, worker : Worker, call : Call, to : {NoCall}]
        \cup [kind : {"reassign"}, worker : Worker, call : Call, to : Call]

PrewarmPost(w, c) == [kind |-> "prewarm", worker |-> w, call |-> c, to |-> NoCall]
ReassignPost(w, old, new) ==
    [kind |-> "reassign", worker |-> w, call |-> old, to |-> new]
CancelPost(w, c) == [kind |-> "cancel", worker |-> w, call |-> c, to |-> NoCall]

WorkerTypeOK ==
    /\ serving \in [Worker -> Call \cup {NoCall}]
    /\ warm \in [Worker -> SUBSET Call]
    /\ onair \in [Worker -> SUBSET Call]
    /\ posts \subseteq Post

WorkerInit ==
    /\ serving = [w \in Worker |-> NoCall]
    /\ warm = [w \in Worker |-> {}]
    /\ onair = [w \in Worker |-> {}]
    /\ posts = {}

-----------------------------------------------------------------------------
(* A mutant of Prewarm: the seed without its test for an idle worker. *)
PrewarmSeedsBusy(p) ==
    LET w == p.worker   c == p.call IN
    /\ p.kind = "prewarm"
    /\ warm' = [warm EXCEPT ![w] = @ \cup {c}]
    /\ serving' = IF c \notin warm[w] THEN [serving EXCEPT ![w] = c] ELSE serving

(* POST /prewarm: the new entry seeds an idle worker with the call's SID. *)
Prewarm(p) ==
    LET w == p.worker   c == p.call IN
    /\ p.kind = "prewarm"
    /\ warm' = [warm EXCEPT ![w] = @ \cup {c}]
    /\ serving' = IF c \notin warm[w] /\ serving[w] = NoCall
                  THEN [serving EXCEPT ![w] = c] ELSE serving

(* POST /prewarm/reassign: the entry and the seed change their key, each   *)
(* by compare-and-set.                                                     *)
ReassignPrewarm(p) ==
    LET w == p.worker IN
    /\ p.kind = "reassign"
    /\ warm' = IF p.call \in warm[w]
               THEN [warm EXCEPT ![w] = (@ \ {p.call}) \cup {p.to}] ELSE warm
    /\ serving' = IF serving[w] = p.call
                  THEN [serving EXCEPT ![w] = p.to] ELSE serving

(* DELETE /prewarm/{call_sid}: without an entry the seed is left alone. *)
CancelPrewarm(p) ==
    LET w == p.worker   c == p.call IN
    /\ p.kind = "cancel"
    /\ warm' = [warm EXCEPT ![w] = @ \ {c}]
    /\ serving' = IF c \in warm[w] /\ serving[w] = c
                  THEN [serving EXCEPT ![w] = NoCall] ELSE serving

Deliver(p) ==
    /\ p \in posts
    /\ posts' = posts \ {p}
    /\ Prewarm(p) \/ ReassignPrewarm(p) \/ CancelPrewarm(p)
    /\ UNCHANGED onair

(* _prewarm_ttl_cleanup: the entry goes, the seed stays. *)
ExpirePrewarm(w, c) ==
    /\ c \in warm[w]
    /\ warm' = [warm EXCEPT ![w] = @ \ {c}]
    /\ UNCHANGED <<serving, onair, posts>>

(* _handle_call up to its pipeline: start_call, whatever the worker serves, *)
(* and the prewarm entry is taken out of the cache, at once or, when it is  *)
(* still being filled, after a wait (then by a later step, which does what  *)
(* ExpirePrewarm does).                                                     *)
StartCall(w, c) ==
    /\ serving' = [serving EXCEPT ![w] = c]
    /\ onair' = [onair EXCEPT ![w] = @ \cup {c}]
    /\ \/ warm' = [warm EXCEPT ![w] = @ \ {c}]
       \/ warm' = warm
    /\ UNCHANGED posts

(* The finally block of _handle_call: end_call does not ask whose call the *)
(* worker serves.                                                          *)
EndCall(w, c) ==
    /\ c \in onair[w]
    /\ serving' = [serving EXCEPT ![w] = NoCall]
    /\ onair' = [onair EXCEPT ![w] = @ \ {c}]
    /\ UNCHANGED <<warm, posts>>

(* The process is killed and started again. *)
CrashWorker(w) ==
    /\ serving' = [serving EXCEPT ![w] = NoCall]
    /\ onair' = [onair EXCEPT ![w] = {}]
    /\ warm' = [warm EXCEPT ![w] = {}]
    /\ UNCHANGED posts

=============================================================================
