-------------------------- MODULE WebhookDelivery --------------------------
(***************************************************************************)
(* What the webhook queue promises of each delivery: it is open until it   *)
(* is delivered or given up, for good; requests are sent for open          *)
(* deliveries only; it counts as delivered only when the receiver took it, *)
(* and is given up only after the last attempt or a permanent error.       *)
(***************************************************************************)
EXTENDS Integers

CONSTANTS Row, MaxAttempts

VARIABLES fate,         \* fate[i]: "none", "open", "delivered" or "exhausted"
          sent,         \* sent[i]: requests sent for i, up to MaxAttempts
          received,     \* deliveries that the receiver took
          refused       \* deliveries with a permanent error

deliveryVars == <<fate, sent, received, refused>>

Init ==
    /\ fate = [i \in Row |-> "none"]
    /\ sent = [i \in Row |-> 0]
    /\ received = {}
    /\ refused = {}

Becomes(i, f) == fate' = [fate EXCEPT ![i] = f]

Enqueue(i) ==
    /\ fate[i] = "none"
    /\ Becomes(i, "open")
    /\ UNCHANGED <<sent, received, refused>>

(* A request whose answer is lost may have been received. *)
Request(i) ==
    /\ fate[i] = "open"
    /\ sent' = [sent EXCEPT ![i] = IF @ < MaxAttempts THEN @ + 1 ELSE @]
    /\ received' \in {received, received \cup {i}}
    /\ refused' \in {refused, refused \cup {i}}
    /\ UNCHANGED fate

(* The URL is rejected before anything is sent. *)
Reject(i) ==
    /\ fate[i] = "open"
    /\ refused' = refused \cup {i}
    /\ UNCHANGED <<fate, sent, received>>

Deliver(i) ==
    /\ fate[i] = "open" /\ i \in received
    /\ Becomes(i, "delivered")
    /\ UNCHANGED <<sent, received, refused>>

GiveUp(i) ==
    /\ fate[i] = "open"
    /\ sent[i] = MaxAttempts \/ i \in refused
    /\ Becomes(i, "exhausted")
    /\ UNCHANGED <<sent, received, refused>>

Next == \E i \in Row : Enqueue(i) \/ Request(i) \/ Reject(i) \/ Deliver(i) \/ GiveUp(i)

Spec == Init /\ [][Next]_deliveryVars
=============================================================================
