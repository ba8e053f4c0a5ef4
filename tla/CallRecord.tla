----------------------------- MODULE CallRecord -----------------------------
(***************************************************************************)
(* The record of a call and the outcome of its request                     *)
(* (app/services/call.py; the handlers in routes/calls.py, twilio.py,      *)
(* jambonz.py, mcube.py), composed with the queue of outgoing webhooks.    *)
(*                                                                         *)
(* The provider reports the progress of a call with status webhooks, which *)
(* any runner may handle.  Each database transaction of a handler is one   *)
(* step.  Coroutines of one runner take turns only where one of them       *)
(* awaits; those of different runners interleave at every step.            *)
(***************************************************************************)
EXTENDS WebhookQueue

CONSTANTS
    Requested,      \* calls placed for a call request with a callback URL
    AskOnAnswer,    \* calls whose provider asks for the worker when the
                    \* callee answers (jambonz, mcube)
    Task,           \* handlers running at the same time
    Limit           \* max_concurrent_calls of the phone number

ASSUME RecordAssumption ==
    /\ Requested \subseteq Call /\ AskOnAnswer \subseteq Call
    /\ Limit \in Nat \ {0}

VARIABLES
    phase,      \* phase[c]: the provider's view of call c
    verdict,    \* verdict[c]: the terminal status the provider gives c
    mail,       \* webhooks under way
    record,     \* record[c]: calls.status, "none" if there is no row
    recording,  \* recording[c]: calls.recording_url is set
    request,    \* request[c]: call_requests.status and call_status
    task        \* the handlers that are running

providerVars == <<phase, verdict>>
recordVars == <<record, recording, request>>
vars == <<queueVars, recordVars, providerVars, mail, task>>

Kind == {"ringing", "in-progress", "completed", "failed", "recording"}

(* A webhook: the status it reports, whether it brings a recording URL, as *)
(* mcube's hangup and every recording callback do, and whether it will be  *)
(* delivered once more.                                                    *)
Mail == [call : Call, kind : Kind, url : BOOLEAN, again : BOOLEAN]
Letter(c, kind, url) == [call |-> c, kind |-> kind, url |-> url, again |-> FALSE]

Sends(letters) ==
    \E again \in {FALSE} \cup {b \in BOOLEAN : "twice" \in Behaviour} :
        mail' = mail \cup {[m EXCEPT !.again = again] : m \in letters}

(* Webhooks of a call in the order in which the provider sends them. *)
Rank(kind) == CASE kind = "ringing" -> 1
                [] kind = "in-progress" -> 2
                [] kind = "recording" -> 4
                [] OTHER -> 3

PC == { "idle",
        "reserve", "create",        \* POST /call/outbound
        "answer",                   \* the answered-call webhook
        "release",                  \* release_worker, for a terminal status
        "sync",                     \* sync_call_request_outcome
        "enqueue", "insert", "trigger", "start" }

TaskState == [pc : PC, runner : Runner \cup {NoRunner}, call : Call \cup {NoCall},
              status : Kind \ {"recording"}, url : BOOLEAN, todo : SUBSET Row]

Handler(pc, r, c, status, url) ==
    [pc |-> pc, runner |-> r, call |-> c, status |-> status, url |-> url, todo |-> {}]
Idle == Handler("idle", NoRunner, NoCall, "failed", FALSE)

TaskOK(k) ==
    /\ k \in TaskState
    /\ k.pc # "idle" => k.runner \in Runner /\ k.call \in Call
    /\ k.pc \in {"enqueue", "insert", "trigger", "start"} => k.status \in Event

TypeOK ==
    /\ QueueTypeOK
    /\ phase \in [Call -> {"new", "asked", "placed", "answered", "over"}]
    /\ verdict \in [Call -> {"none"} \cup Event]
    /\ mail \subseteq Mail
    /\ record \in [Call -> {"none", "initiated"} \cup (Kind \ {"recording"})]
    /\ recording \in [Call -> BOOLEAN]
    /\ request \in [Call -> [status : {"open"} \cup Event,
                             shown : {"none"} \cup (Kind \ {"recording"})]]
    /\ task \in [Task -> TaskState] /\ \A t \in Task : TaskOK(task[t])

Init ==
    /\ QueueInit
    /\ phase = [c \in Call |-> "new"]
    /\ verdict = [c \in Call |-> "none"]
    /\ mail = {}
    /\ record = [c \in Call |-> "none"]
    /\ recording = [c \in Call |-> FALSE]
    /\ request = [c \in Call |-> [status |-> "open", shown |-> "none"]]
    /\ task = [t \in Task |-> Idle]

-----------------------------------------------------------------------------
(* Handlers. *)

At(t, pc) == task[t].pc = pc
Become(t, k) == task' = [task EXCEPT ![t] = k]
Goes(t, pc) == task' = [task EXCEPT ![t].pc = pc]
Finish(t) == Become(t, Idle)
OnlyTask == UNCHANGED <<queueVars, recordVars, providerVars, mail>>

(* sync_call_request_outcome and all it calls are synchronous, and so is a *)
(* delivery from its row's read until it has a payload, or has written     *)
(* that it has none: a coroutine that is there holds the event loop of its *)
(* runner.                                                                 *)
Synchronous == {"sync", "enqueue", "insert", "trigger", "start"}

HasLoop(r, otherTasks, otherSends) ==
    /\ \A t \in otherTasks : task[t].runner = r => task[t].pc \notin Synchronous
    /\ \A s \in otherSends : send[s].runner = r => send[s].pc \notin {"build", "unbuilt"}

LoopFree(r) == HasLoop(r, Task, Slot)

(* count_active_calls *)
Active == {c \in Call : record[c] \in {"initiated", "in-progress"}}

(* POST /call/outbound: the limit is checked, and then a worker awaited. *)
Ask(t, r, c) ==
    /\ At(t, "idle")
    /\ phase[c] = "new"
    /\ Cardinality(Active) < Limit
    /\ phase' = [phase EXCEPT ![c] = "asked"]
    /\ Become(t, Handler("reserve", r, c, "failed", FALSE))
    /\ UNCHANGED <<queueVars, recordVars, verdict, mail>>

(* provider.initiate places the call, or the request fails. *)
Dial(t) ==
    /\ At(t, "reserve")
    /\ phase' = [phase EXCEPT ![task[t].call] = "placed"]
    /\ Goes(t, "create")
    /\ UNCHANGED <<queueVars, recordVars, verdict, mail>>

DialFails(t) ==
    /\ At(t, "reserve")
    /\ phase' = [phase EXCEPT ![task[t].call] = "over"]
    /\ Finish(t)
    /\ UNCHANGED <<queueVars, recordVars, verdict, mail>>

(* call_service.create *)
Create(t) ==
    /\ At(t, "create")
    /\ record' = [record EXCEPT ![task[t].call] = "initiated"]
    /\ Finish(t)
    /\ UNCHANGED <<queueVars, recording, request, providerVars, mail>>

(* The answered-call webhook awaits get_worker_for_call and then sets the  *)
(* record to in-progress.                                                  *)
AskedOnAnswer(t, r, c) ==
    /\ At(t, "idle")
    /\ c \in AskOnAnswer /\ phase[c] = "placed"
    /\ phase' = [phase EXCEPT ![c] = "answered"]
    /\ Sends({Letter(c, "in-progress", FALSE)})
    /\ Become(t, Handler("answer", r, c, "in-progress", FALSE))
    /\ UNCHANGED <<queueVars, recordVars, verdict>>

\* Mutant: a status applies only to a call that was answered.
SetStatusIfAnswered(c, status) ==
    record' = [record EXCEPT ![c] =
        IF status = "in-progress" \/ @ = "in-progress" THEN status ELSE @]

SetStatus(c, status) ==
    record' = [record EXCEPT ![c] = IF @ = "none" THEN @ ELSE status]

SetInProgress(t) ==
    /\ At(t, "answer")
    /\ SetStatus(task[t].call, "in-progress")
    /\ Finish(t)
    /\ UNCHANGED <<queueVars, recording, request, providerVars, mail>>

-----------------------------------------------------------------------------
(* Status webhooks and recording callbacks. *)

(* A webhook comes no earlier than it may. *)
Arrives(m) ==
    /\ m \in mail
    /\ "early" \in Behaviour \/ record[m.call] # "none"
    /\ \/ "reorder" \in Behaviour
       \/ \A n \in mail : n.call = m.call => Rank(n.kind) >= Rank(m.kind)
    /\ LET rest == mail \ {m} IN
       mail' = IF m.again THEN rest \cup {[m EXCEPT !.again = FALSE]} ELSE rest

\* Mutant: only a completed call is synced.
FollowsIfCompleted(t, r, m) ==
    IF record[m.call] # "none" /\ m.call \in Requested /\ m.kind = "completed"
    THEN Become(t, Handler("release", r, m.call, m.kind, m.url))
    ELSE UNCHANGED task

(* What the handler does next: only a call that has its record and was     *)
(* placed for a request is synced.                                         *)
Follows(t, r, m) ==
    LET c == m.call
        known == record[c] # "none" /\ c \in Requested
        url == m.url \/ recording[c] IN
    CASE ~known -> UNCHANGED task
      [] known /\ m.kind = "recording" ->
             Become(t, Handler("sync", r, c, "completed", TRUE))
      [] known /\ m.kind \in Event ->
             Become(t, Handler("release", r, c, m.kind, url))
      [] OTHER -> Become(t, Handler("sync", r, c, m.kind, FALSE))

(* update_status: whatever arrives last is the status; a recording URL is  *)
(* never taken away.  A recording callback goes to set_recording_url.      *)
Receive(t, r, m) ==
    /\ At(t, "idle")
    /\ Arrives(m)
    /\ IF m.kind = "recording" THEN UNCHANGED record ELSE SetStatus(m.call, m.kind)
    /\ recording' = [recording EXCEPT ![m.call] =
                        @ \/ (m.url /\ record[m.call] # "none")]
    /\ Follows(t, r, m)
    /\ UNCHANGED <<queueVars, request, providerVars>>

(* The update raises: a terminal status still releases the worker, but     *)
(* nothing is synced.                                                      *)
ReceiveError(t, m) ==
    /\ "error" \in Behaviour
    /\ At(t, "idle")
    /\ Arrives(m)
    /\ UNCHANGED <<queueVars, recordVars, providerVars, task>>

(* Between the update and the sync of a terminal status lies an await. *)
Released(t) ==
    /\ At(t, "release")
    /\ Goes(t, "sync")
    /\ OnlyTask

(* sync_call_request_outcome: the request's row, then the webhook. *)
Sync(t) ==
    LET c == task[t].call   status == task[t].status IN
    /\ At(t, "sync")
    /\ IF status \in Event
       THEN /\ request' = [request EXCEPT ![c] = [status |-> status, shown |-> status]]
            /\ Goes(t, "enqueue")
       ELSE /\ request' = [request EXCEPT ![c].shown = status]
            /\ Finish(t)
    /\ UNCHANGED <<queueVars, record, recording, providerVars, mail>>

(* enqueue_webhook: the idempotency check, then in a transaction of its    *)
(* own the INSERT.                                                         *)
CheckExisting(t) ==
    LET c == task[t].call   e == task[t].status IN
    /\ At(t, "enqueue")
    /\ Goes(t, IF HasOpenRow(c, e) THEN "trigger" ELSE "insert")
    /\ OnlyTask

Insert(t) ==
    /\ At(t, "insert")
    /\ InsertRow(task[t].call, task[t].status)
    /\ Goes(t, "trigger")
    /\ UNCHANGED <<recordVars, providerVars, mail>>

(* A transaction that fails is logged: a handler does without it, goes on  *)
(* with the next one, or ends.  If the check fails the row is inserted.    *)
HandlerError(t) ==
    /\ "error" \in Behaviour
    /\ \/ task[t].pc \in {"create", "answer", "sync", "trigger"} /\ Finish(t)
       \/ At(t, "enqueue") /\ task' \in { [task EXCEPT ![t].pc = "insert"],
                                         [task EXCEPT ![t].pc = "trigger"] }
       \/ At(t, "insert") /\ Goes(t, "trigger")
    /\ OnlyTask

(* trigger_pending_webhooks, unless the recording is still to come. *)
Trigger(t) ==
    LET k == task[t] IN
    /\ At(t, "trigger")
    /\ IF (k.url \/ k.status # "completed") /\ PendingRows(k.call) # {}
       THEN task' = [task EXCEPT ![t].pc = "start", ![t].todo = PendingRows(k.call)]
       ELSE Finish(t)
    /\ OnlyTask

StartDelivery(t, i) ==
    LET rest == task[t].todo \ {i} IN
    /\ At(t, "start") /\ i \in task[t].todo
    /\ TriggerRow(task[t].runner, i)
    /\ IF rest = {} THEN Finish(t) ELSE task' = [task EXCEPT ![t].todo = rest]
    /\ UNCHANGED <<recordVars, providerVars, mail>>

-----------------------------------------------------------------------------
(* The provider. *)

Ring(c) ==
    /\ "ringing" \in Behaviour
    /\ phase[c] = "placed"
    /\ Sends({Letter(c, "ringing", FALSE)})
    /\ UNCHANGED <<queueVars, recordVars, providerVars, task>>

Answer(c) ==
    /\ phase[c] = "placed" /\ c \notin AskOnAnswer
    /\ phase' = [phase EXCEPT ![c] = "answered"]
    /\ Sends({Letter(c, "in-progress", FALSE)})
    /\ UNCHANGED <<queueVars, recordVars, verdict, task>>

(* The call ends, with its recording's URL in the same webhook or in one   *)
(* that follows, or without a recording.                                   *)
Over(c, v, letters) ==
    /\ phase' = [phase EXCEPT ![c] = "over"]
    /\ verdict' = [verdict EXCEPT ![c] = v]
    /\ Sends(letters)
    /\ UNCHANGED <<queueVars, recordVars, task>>

HangUp(c) ==
    /\ phase[c] = "answered"
    /\ \/ \E url \in BOOLEAN : Over(c, "completed", {Letter(c, "completed", url)})
       \/ Over(c, "completed", { Letter(c, "completed", FALSE),
                                 Letter(c, "recording", TRUE) })

NotReached(c) ==
    /\ phase[c] = "placed"
    /\ Over(c, "failed", {Letter(c, "failed", FALSE)})

(* A runner pod is replaced. *)
Restart(r) ==
    /\ "restart" \in Behaviour
    /\ ForgetSends(r)
    /\ task' = [t \in Task |-> IF task[t].runner = r THEN Idle ELSE task[t]]
    /\ UNCHANGED <<recordVars, providerVars, mail>>

-----------------------------------------------------------------------------
HandlerStep(t) ==
    /\ HasLoop(task[t].runner, Task \ {t}, Slot)
    /\ \/ Dial(t) \/ DialFails(t) \/ Create(t) \/ SetInProgress(t)
       \/ Released(t) \/ Sync(t) \/ CheckExisting(t) \/ Insert(t) \/ Trigger(t)
       \/ \E i \in Row : StartDelivery(t, i)

Request(t, r, c) == LoopFree(r) /\ (Ask(t, r, c) \/ AskedOnAnswer(t, r, c))

Webhook(t, r, m) == LoopFree(r) /\ Receive(t, r, m)

Provider(c) == Ring(c) \/ Answer(c) \/ HangUp(c) \/ NotReached(c)

Polling(r) ==
    /\ LoopFree(r)
    /\ Poll(r) \/ \E i \in Row, s \in Slot : PollNext(r, i, s)

Delivery(s) == HasLoop(send[s].runner, Task, Slot \ {s}) /\ DeliverStep(s)

QueueStep ==
    /\ \/ \E r \in Runner : Polling(r)
       \/ \E s \in Slot : Delivery(s)
       \/ \E i \in Row : TimePasses(i)
    /\ UNCHANGED <<recordVars, providerVars, mail, task>>

(* What the infrastructure does to the runners. *)
QueueError ==
    /\ \E s \in Slot : DeliverError(s) \/ BuildError(s)
    /\ UNCHANGED <<recordVars, providerVars, mail, task>>

Fault ==
    \/ \E t \in Task : HandlerError(t)
    \/ \E t \in Task, m \in mail : ReceiveError(t, m)
    \/ QueueError
    \/ \E r \in Runner : Restart(r)

Next ==
    \/ \E t \in Task : HandlerStep(t)
    \/ \E t \in Task, r \in Runner, c \in Call : Request(t, r, c)
    \/ \E t \in Task, r \in Runner, m \in mail : Webhook(t, r, m)
    \/ \E c \in Call : Provider(c)
    \/ QueueStep
    \/ Fault

Spec == Init /\ [][Next]_vars

-----------------------------------------------------------------------------
(* Safety. *)

(* What the customer is told agrees with what the provider said and with   *)
(* both records: no webhook handler overtakes another one's outcome.       *)
ToldWhatHappened ==
    \A i \in Row :
        LET c == rows[i].call IN
        rows[i].status # "none" =>
            /\ rows[i].event = verdict[c]
            /\ request[c].status = verdict[c]
            /\ record[c] = verdict[c]

(* No call counts against its number's limit when it is over and every     *)
(* webhook and handler of it is done: such a record would never change.    *)
NoPhantomCall ==
    \A c \in Active :
        phase[c] = "over" => \/ \E m \in mail : m.call = c
                            \/ \E t \in Task : task[t].call = c

(* A phone number never has more calls than max_concurrent_calls (calls.py *)
(* "Capacity checks", count_active_calls: "to enforce max_concurrent_calls *)
(* before reserving a worker").                                            *)
LimitHolds ==
    Cardinality({c \in Call : phase[c] \in {"placed", "answered"}}) <= Limit

-----------------------------------------------------------------------------
(* Liveness. *)

(* Handlers run, the provider delivers its webhooks, pollers loop for      *)
(* ever, and requests to receivers return or time out.                     *)
Fairness ==
    /\ \A t \in Task : WF_vars(HandlerStep(t))
    /\ WF_vars(\E t \in Task, r \in Runner, m \in mail : Webhook(t, r, m))
    /\ \A r \in Runner : WF_vars(Polling(r) /\ QueueStep)
    /\ \A s \in Slot : WF_vars(Delivery(s) /\ QueueStep)
    /\ \A i \in Row : WF_vars(TimePasses(i) /\ QueueStep)

FairSpec == Spec /\ Fairness

(* Database errors and restarts are transient. *)
RecoveringSpec == FairSpec /\ <>[][~Fault]_vars

(* The outcome of a requested call reaches its request, and a delivery of  *)
(* its event exists.                                                       *)
OutcomeIsReported ==
    \A c \in Requested :
        verdict[c] # "none" ~>
            /\ request[c].status = verdict[c]
            /\ \E i \in Row : rows[i].call = c /\ rows[i].event = verdict[c]

(* Every delivery is made or given up in the end, and then stays so, even  *)
(* if runners restarted and coroutines overwrote each other's results,     *)
(* unless the last thing that happened to it is that its payload could not *)
(* be built: then it has failed, and no poll sees it.                      *)
Closed(i) == rows[i].status # "none" => Settled(i)
EventsSettle == \A i \in Row : <>[](Closed(i) \/ Stranded(i))

(* What the code does not keep; no run lists it: "when the next retry is   *)
(* scheduled (null if delivered/exhausted)" (app/models/schemas.py:426).   *)
(* One failing read of the call request is enough to break it.             *)
EveryEventSettles == \A i \in Row : <>[]Closed(i)
=============================================================================
