---------------------------- MODULE WebhookQueue ----------------------------
(***************************************************************************)
(* The table webhook_deliveries and the coroutines that deliver its rows   *)
(* (app/services/webhook_service.py, webhook_worker.py).                   *)
(*                                                                         *)
(* Every with get_cursor() block is one transaction and one atomic step.   *)
(* A runner polls the table and delivers what it claimed row by row; a row *)
(* whose data is complete is also delivered at once by a task of its own.  *)
(* Nothing stops two coroutines from delivering the same row.              *)
(***************************************************************************)
EXTENDS Integers, FiniteSets

CONSTANTS
    Runner,         \* runner pods
    Call,           \* calls; a call's request has the same name
    Row,            \* ids of delivery rows
    Slot,           \* deliver_webhook coroutines running at the same time
    MaxAttempts,    \* max_attempts of a row, 5 by default in the schema
    NoRunner, NoCall, NoRow,
    Behaviour       \* which optional behaviours are included

AllBehaviours ==
    { "ringing",    \* the provider reports a ringing call
      "reorder",    \* status webhooks of a call arrive in any order
      "early",      \* a status webhook arrives before the call has its record
      "twice",      \* a webhook is delivered once more
      "error",      \* a database transaction fails
      "unbuilt",    \* the call request of a delivery is gone
      "flaky",      \* the receiver is down, slow, or its answer is lost
      "refuse",     \* the receiver's URL or its answer is a permanent error
      "restart" }   \* runner pods restart

ASSUME QueueAssumption ==
    /\ MaxAttempts \in Nat \ {0}
    /\ NoRunner \notin Runner /\ NoCall \notin Call /\ NoRow \notin Row
    /\ Behaviour \subseteq AllBehaviours

VARIABLES
    rows,       \* webhook_deliveries
    send,       \* send[s]: the deliver_webhook coroutine in slot s
    batch,      \* batch[r]: rows the poller of runner r claimed and has not begun
    tries,      \* tries[i]: POSTs sent for row i, capped at MaxAttempts
    accepted,   \* accepted[i]: POSTs of row i answered with 2xx, capped at 2
    refused     \* rows whose URL or receiver gave a permanent error

queueVars == <<rows, send, batch, tries, accepted, refused>>

(* Terminal statuses stand for the events they map to (_EVENT_TYPE_MAP);   *)
(* "failed" stands for failed, busy, no-answer and cancelled alike.        *)
Event == {"completed", "failed"}

(* due is next_retry_at: NULL, in the future, or past; unbuilt is an       *)
(* error_message of "Empty payload".                                       *)
RowState ==
    [call : Call \cup {NoCall}, event : Event,
     status : {"none", "pending", "failed", "delivered", "exhausted"},
     attempt : 0..MaxAttempts, due : {"null", "later", "now"}, unbuilt : BOOLEAN]

NoDelivery == [call |-> NoCall, event |-> "failed", status |-> "none",
               attempt |-> 0, due |-> "null", unbuilt |-> FALSE]

SendState ==
    [pc : {"idle", "begin", "build", "unbuilt", "post", "ok", "retry", "refuse"},
     runner : Runner \cup {NoRunner}, row : Row \cup {NoRow},
     attempt : 0..MaxAttempts, polled : BOOLEAN]

NoSend == [pc |-> "idle", runner |-> NoRunner, row |-> NoRow,
           attempt |-> 0, polled |-> FALSE]

SendOK(k) ==
    /\ k \in SendState
    /\ k.pc # "idle" => k.row \in Row /\ k.runner \in Runner
    /\ k.pc \notin {"idle", "begin"} => k.attempt # 0

QueueTypeOK ==
    /\ rows \in [Row -> RowState]
    /\ send \in [Slot -> SendState] /\ \A s \in Slot : SendOK(send[s])
    /\ batch \in [Runner -> SUBSET Row]
    /\ tries \in [Row -> 0..MaxAttempts]
    /\ accepted \in [Row -> 0..2]
    /\ refused \subseteq Row

QueueInit ==
    /\ rows = [i \in Row |-> NoDelivery]
    /\ send = [s \in Slot |-> NoSend]
    /\ batch = [r \in Runner |-> {}]
    /\ tries = [i \in Row |-> 0]
    /\ accepted = [i \in Row |-> 0]
    /\ refused = {}

-----------------------------------------------------------------------------
(* enqueue_webhook, trigger_pending_webhooks: steps of a webhook handler.  *)

Open == {"pending", "failed"}
Settled(i) == rows[i].status \in {"delivered", "exhausted"}

(* The idempotency check: a delivery that is still to be made. *)
HasOpenRow(c, e) ==
    \E i \in Row : rows[i].call = c /\ rows[i].event = e /\ rows[i].status \in Open

\* Mutant: the event does not depend on the status.
NewRowCompleted(c, e) ==
    [call |-> c, event |-> "completed", status |-> "pending", attempt |-> 0,
     due |-> "later", unbuilt |-> FALSE]

(* The row of a completed call waits for its recording. *)
NewRow(c, e) ==
    [call |-> c, event |-> e, status |-> "pending", attempt |-> 0,
     due |-> IF e = "completed" THEN "later" ELSE "null", unbuilt |-> FALSE]

Unused == {i \in Row : rows[i].status = "none"}

(* INSERT.  Row bounds the table: beyond it an INSERT is one that fails. *)
InsertRow(c, e) ==
    /\ \/ \E i \in Unused : rows' = [rows EXCEPT ![i] = NewRow(c, e)]
       \/ Unused = {} /\ UNCHANGED rows
    /\ UNCHANGED <<send, batch, tries, accepted, refused>>

Begin(r, i, polled) ==
    [pc |-> "begin", runner |-> r, row |-> i, attempt |-> 0, polled |-> polled]

(* create_task(_fire_delivery) for one of the call's pending rows.  Slot   *)
(* bounds the coroutines: beyond it a row is left to the poller.           *)
TriggerRow(r, i) ==
    /\ \/ \E s \in Slot :
             /\ send[s].pc = "idle"
             /\ send' = [send EXCEPT ![s] = Begin(r, i, FALSE)]
       \/ (\A s \in Slot : send[s].pc # "idle") /\ UNCHANGED send
    /\ UNCHANGED <<rows, batch, tries, accepted, refused>>

PendingRows(c) == {i \in Row : rows[i].call = c /\ rows[i].status = "pending"}

-----------------------------------------------------------------------------
(* The poller. *)

\* Mutant: rows inserted without a time are left to the task that was created.
DueIfTimed(i) == rows[i].status \in Open /\ rows[i].due = "now"

Due(i) ==
    \/ rows[i].status = "failed" /\ rows[i].due = "now"
    \/ rows[i].status = "pending" /\ rows[i].due \in {"null", "now"}

Delivering(r) == \E s \in Slot : send[s].runner = r /\ send[s].polled

(* _claim_pending_deliveries: FOR UPDATE SKIP LOCKED holds the row locks   *)
(* for this transaction only, and the rows are not marked.                 *)
Poll(r) ==
    /\ batch[r] = {} /\ ~Delivering(r)
    /\ \E i \in Row : Due(i)
    /\ batch' = [batch EXCEPT ![r] = {i \in Row : Due(i)}]
    /\ UNCHANGED <<rows, send, tries, accepted, refused>>

(* _process_batch delivers one row after the other. *)
PollNext(r, i, s) ==
    /\ i \in batch[r] /\ ~Delivering(r)
    /\ send[s].pc = "idle"
    /\ send' = [send EXCEPT ![s] = Begin(r, i, TRUE)]
    /\ batch' = [batch EXCEPT ![r] = @ \ {i}]
    /\ UNCHANGED <<rows, tries, accepted, refused>>

-----------------------------------------------------------------------------
(* deliver_webhook *)

Goto(s, pc) == send' = [send EXCEPT ![s].pc = pc]
End(s) == send' = [send EXCEPT ![s] = NoSend]

\* Mutant: the first attempt has the number of the schema's default.
AttemptNumberAsStored(row) == row.attempt
AttemptNumber(row) == IF row.attempt = 0 THEN 1 ELSE row.attempt

(* A row that was delivered or given up meanwhile is skipped.  The attempt *)
(* is numbered by what is read here.                                       *)
ReadRow(s) ==
    LET row == rows[send[s].row] IN
    /\ send[s].pc = "begin"
    /\ \/ /\ row.status \in Open
          /\ send' = [send EXCEPT ![s].pc = "build", ![s].attempt = AttemptNumber(row)]
       \/ row.status \notin Open /\ End(s)
    /\ UNCHANGED <<rows, batch, tries, accepted, refused>>

(* build_payload reads the call request, in a transaction of its own. *)
BuildPayload(s) ==
    /\ send[s].pc = "build"
    /\ \/ Goto(s, "post")
       \/ "unbuilt" \in Behaviour /\ Goto(s, "unbuilt")
    /\ UNCHANGED <<rows, batch, tries, accepted, refused>>

(* If it fails, there is no payload either. *)
BuildError(s) ==
    /\ "error" \in Behaviour
    /\ send[s].pc = "build" /\ Goto(s, "unbuilt")
    /\ UNCHANGED <<rows, batch, tries, accepted, refused>>

(* The receiver gets the POST; what it did and what the runner learns of   *)
(* it may differ.                                                          *)
CountUpTo(f, i, n) == [f EXCEPT ![i] = IF @ < n THEN @ + 1 ELSE @]

Post(s) ==
    LET i == send[s].row IN
    /\ send[s].pc = "post"
    /\ tries' = CountUpTo(tries, i, MaxAttempts)
    /\ \/ /\ accepted' = CountUpTo(accepted, i, 2)
          /\ Goto(s, "ok")
          /\ UNCHANGED refused
       \/ /\ "flaky" \in Behaviour
          /\ accepted' \in {accepted, CountUpTo(accepted, i, 2)}
          /\ Goto(s, "retry")
          /\ UNCHANGED refused
       \/ /\ "refuse" \in Behaviour
          /\ refused' = refused \cup {i}
          /\ Goto(s, "refuse")
          /\ UNCHANGED accepted
    /\ UNCHANGED <<rows, batch>>

(* validate_callback_url rejects the URL: nothing is sent. *)
Reject(s) ==
    /\ "refuse" \in Behaviour
    /\ send[s].pc = "post"
    /\ refused' = refused \cup {send[s].row}
    /\ Goto(s, "refuse")
    /\ UNCHANGED <<rows, batch, tries, accepted>>

\* Mutant: the last attempt is not made.
IsFinalEarly(k) == k.pc = "refuse" \/ k.attempt + 1 >= MaxAttempts
IsFinal(k) == k.pc = "refuse" \/ k.attempt >= MaxAttempts

(* _update_delivery and _update_delivery_failure: no look at the status    *)
(* the row has by now.                                                     *)
Updated(k, status, attempt, due) ==
    rows' = [rows EXCEPT ![k.row].status = status, ![k.row].attempt = attempt,
                         ![k.row].due = due, ![k.row].unbuilt = (k.pc = "unbuilt")]

UpdateRow(s) ==
    LET k == send[s] IN
    /\ \/ k.pc = "ok" /\ Updated(k, "delivered", k.attempt, "null")
       \/ k.pc = "unbuilt" /\ Updated(k, "failed", k.attempt, "null")
       \/ k.pc \in {"retry", "refuse"} /\ IsFinal(k)
          /\ Updated(k, "exhausted", k.attempt, "null")
       \/ k.pc = "retry" /\ ~IsFinal(k)
          /\ Updated(k, "failed", k.attempt + 1, "later")
    /\ End(s)
    /\ UNCHANGED <<batch, tries, accepted, refused>>

(* The read or the update of the row fails, which is logged and ignored. *)
DeliverError(s) ==
    /\ "error" \in Behaviour
    /\ send[s].pc \in {"begin", "ok", "unbuilt", "retry", "refuse"}
    /\ End(s)
    /\ UNCHANGED <<rows, batch, tries, accepted, refused>>

(* The time set for the next attempt comes. *)
TimePasses(i) ==
    /\ rows[i].due = "later"
    /\ rows' = [rows EXCEPT ![i].due = "now"]
    /\ UNCHANGED <<send, batch, tries, accepted, refused>>

(* A runner's coroutines and what it had claimed are lost; rows are not. *)
ForgetSends(r) ==
    /\ send' = [s \in Slot |-> IF send[s].runner = r THEN NoSend ELSE send[s]]
    /\ batch' = [batch EXCEPT ![r] = {}]
    /\ UNCHANGED <<rows, tries, accepted, refused>>

DeliverStep(s) == ReadRow(s) \/ BuildPayload(s) \/ Post(s) \/ Reject(s) \/ UpdateRow(s)

-----------------------------------------------------------------------------
(* A delivery is given up only when max_attempts requests were sent for it *)
(* or its URL or receiver is a permanent error, however many coroutines    *)
(* deliver it at the same time: attempts numbered from a stale read lag    *)
(* behind the requests, they never run ahead of them.                      *)
GivenUpOnlyAfterTries ==
    \A i \in Row : rows[i].status = "exhausted" => tries[i] = MaxAttempts \/ i \in refused

(* No poll will ever see a row that failed without a time for a retry. *)
Stranded(i) == rows[i].status = "failed" /\ rows[i].due = "null" /\ rows[i].unbuilt

(* A delivery is made once (deliver_webhook: "Already delivered or         *)
(* exhausted - skip (guards against duplicate delivery)").                 *)
DeliveredOnce == \A i \in Row : accepted[i] <= 1

(* One delivery row exists per event (trigger_pending_webhooks).           *)
OneRowPerEvent ==
    \A i, j \in Row :
        /\ rows[i].status # "none" /\ rows[j].status # "none"
        /\ rows[i].call = rows[j].call /\ rows[i].event = rows[j].event
        => i = j

-----------------------------------------------------------------------------
(* What a delivery promises, and when the queue keeps it: while no two     *)
(* coroutines have the same row.  Two have, when the poller claims a row   *)
(* whose triggered delivery has not ended, or when two runners poll.       *)
OneSender ==
    \A s, u \in Slot :
        send[s].pc # "idle" /\ send[u].pc # "idle" /\ send[s].row = send[u].row => s = u

(* Between two attempts a delivery is as open as before the first. *)
fates == [i \in Row |-> IF rows[i].status \in Open THEN "open" ELSE rows[i].status]
taken == {i \in Row : accepted[i] > 0}

Outbox == INSTANCE WebhookDelivery WITH
    fate <- fates, sent <- tries, received <- taken

(* As long as no row has two coroutines, what was delivered or given up    *)
(* stays so and gets no further request (deliver_webhook skips it).        *)
ImplementsDelivery == Outbox!Spec
=============================================================================
