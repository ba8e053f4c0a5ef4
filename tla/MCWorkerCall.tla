---------------------------- MODULE MCWorkerCall ----------------------------
(* Instances of WorkerCall for TLC. *)
EXTENDS WorkerCall, TLC

CONSTANTS c1, o1, s1, h1, h2

Connections == h1 :> c1 @@ h2 :> s1

Prewarm(c) == [kind |-> "prewarm", worker |-> This, call |-> c, to |-> NoCall]
Cancel(c) == [kind |-> "cancel", worker |-> This, call |-> c, to |-> NoCall]
Reassign(o, s) == [kind |-> "reassign", worker |-> This, call |-> o, to |-> s]

Requests == {Prewarm(o1), Reassign(o1, s1), Cancel(o1), Cancel(s1)}
=============================================================================
