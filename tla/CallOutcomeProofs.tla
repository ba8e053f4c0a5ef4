------------------------- MODULE CallOutcomeProofs -------------------------
(***************************************************************************)
(* Theorems of CallRecord about the outcome of a call: what the customer   *)
(* is told is what happened, and no record stays active after its call.    *)
(*                                                                         *)
(* Both hold while transactions succeed, a call's webhooks come in their   *)
(* order and not before its record, and no handler of an answered call     *)
(* works at the record: the README shows what each exception breaks.       *)
(***************************************************************************)
EXTENDS CallRecordProofs

Orderly == Behaviour \cap {"error", "early", "reorder"} = {} /\ AskOnAnswer = {}

(* The provider has a verdict on calls that are over, and webhooks and     *)
(* records agree with it.  Once a record is terminal, no earlier status is *)
(* still to come for it.                                                   *)
VerdictIsLast == \A c \in Call : verdict[c] # "none" => phase[c] = "over"

MailTells ==
    \A m \in mail :
        /\ phase[m.call] \in {"placed", "answered", "over"}
        /\ m.kind \in Event => m.kind = verdict[m.call]
        /\ m.kind = "recording" => verdict[m.call] = "completed"

RecordTells ==
    \A c \in Call : record[c] \in Event =>
        /\ record[c] = verdict[c]
        /\ \A m \in mail : m.call = c => m.kind \notin {"ringing", "in-progress"}

(* A verdict that has not reached the record is still under way to it. *)
VerdictIsDue ==
    \A c \in Call : verdict[c] # "none" /\ record[c] \notin Event =>
        \E m \in mail : m.call = c /\ m.kind = verdict[c]

(* A call without a verdict has a record only while it is placed. *)
RecordIsOfCall ==
    \A c \in Call :
        phase[c] \in {"new", "asked"} \/ (phase[c] = "over" /\ verdict[c] = "none")
            => record[c] = "none"

(* What each handler relies on across its awaits. *)
Placing == {"reserve", "create"}
Syncing == {"release", "sync", "enqueue", "insert", "trigger", "start"}

HandlerKnows(k) ==
    /\ k.pc # "answer"
    /\ k.pc = "reserve" => phase[k.call] = "asked"
    /\ k.pc = "create" =>
          /\ record[k.call] = "none"
          /\ phase[k.call] \in {"placed", "answered", "over"}
          /\ phase[k.call] = "over" => verdict[k.call] # "none"
    /\ k.pc \in Syncing /\ k.status \in Event =>
          verdict[k.call] = k.status /\ record[k.call] = k.status
    /\ k.pc \in Syncing \ {"release", "sync"} => request[k.call].status = k.status

HandlersKnow == \A t \in Task : HandlerKnows(task[t])

OnePlaces ==
    \A t, u \in Task :
        task[t].pc \in Placing /\ task[u].pc \in Placing /\ task[t].call = task[u].call
            => t = u

(* Coroutines only have rows that exist. *)
Exists(i) == rows[i].status # "none"

RowsExist ==
    /\ \A i \in Row : Exists(i) => rows[i].call \in Call
    /\ \A s \in Slot : send[s].pc # "idle" => Exists(send[s].row)
    /\ \A r \in Runner : \A i \in batch[r] : Exists(i)
    /\ \A t \in Task : \A i \in task[t].todo : Exists(i)

RecordsInv ==
    /\ VerdictIsLast
    /\ MailTells
    /\ RecordTells
    /\ VerdictIsDue
    /\ RecordIsOfCall
    /\ HandlersKnow
    /\ OnePlaces

OutcomeInv == RecordsInv /\ RowsExist /\ ToldWhatHappened

-----------------------------------------------------------------------------
(* Steps of the queue.                                                     *)

Quiet == UNCHANGED <<recordVars, providerVars, mail, task>>

RowsStay ==
    \A i \in Row : /\ rows'[i].call = rows[i].call
                   /\ rows'[i].event = rows[i].event
                   /\ Exists(i)' <=> Exists(i)

(* What is settled for a call stays so. *)
SettledStays ==
    \A c \in Call : record[c] \in Event =>
        /\ record'[c] = record[c]
        /\ verdict'[c] = verdict[c]
        /\ request[c].status = record[c] => request'[c].status = record[c]

(* The queue changes rows that exist, makes none and deletes none.         *)
LEMMA QueueKeepsRows ==
    ASSUME QueueTypeOK, TasksOK, RowsExist, QueueStep
    PROVE  RowsStay /\ RowsExist'
<1> USE DEF RowsStay, RowsExist, Exists, QueueTypeOK
<1>0. task' = task /\ \A t \in Task : task[t].todo \subseteq Row
  BY DEF QueueStep, TasksOK, TaskOK, TaskState
<1>1. ASSUME NEW r \in Runner, Poll(r) PROVE RowsStay /\ RowsExist'
  BY <1>0, <1>1 DEF Poll, Due, Open
<1>2. ASSUME NEW r \in Runner, NEW i \in Row, NEW s \in Slot, PollNext(r, i, s)
      PROVE  RowsStay /\ RowsExist'
  BY <1>0, <1>2 DEF PollNext, Begin
<1>3. ASSUME UNCHANGED <<rows, batch>>,
             \A s \in Slot : send'[s].pc # "idle" =>
                 send[s].pc # "idle" /\ send'[s].row = send[s].row
      PROVE  RowsStay /\ RowsExist'
  BY <1>0, <1>3
<1>4. ASSUME NEW s \in Slot, ReadRow(s) PROVE RowsStay /\ RowsExist'
  <2> HIDE DEF RowsStay, RowsExist, Exists
  <2>1. \A u \in Slot : send'[u].pc # "idle" =>
            send[u].pc # "idle" /\ send'[u].row = send[u].row
    BY <1>4 DEF ReadRow, End, NoSend, SendState
  <2>2. UNCHANGED <<rows, batch>>
    BY <1>4 DEF ReadRow
  <2>3. QED
    BY <1>3, <2>1, <2>2
<1>5. ASSUME NEW s \in Slot, Post(s) PROVE RowsStay /\ RowsExist'
  <2> HIDE DEF RowsStay, RowsExist, Exists
  <2>1. \A u \in Slot : send'[u].pc # "idle" =>
            send[u].pc # "idle" /\ send'[u].row = send[u].row
    BY <1>5 DEF Post, Goto, SendState
  <2>2. UNCHANGED <<rows, batch>>
    BY <1>5 DEF Post
  <2>3. QED
    BY <1>3, <2>1, <2>2
<1>6. ASSUME NEW s \in Slot, Reject(s) PROVE RowsStay /\ RowsExist'
  <2> HIDE DEF RowsStay, RowsExist, Exists
  <2>1. \A u \in Slot : send'[u].pc # "idle" =>
            send[u].pc # "idle" /\ send'[u].row = send[u].row
    BY <1>6 DEF Reject, Goto, SendState
  <2>2. UNCHANGED <<rows, batch>>
    BY <1>6 DEF Reject
  <2>3. QED
    BY <1>3, <2>1, <2>2
<1>7. ASSUME NEW s \in Slot, UpdateRow(s) PROVE RowsStay /\ RowsExist'
  <2>1. send[s].pc # "idle" /\ send[s].row \in Row /\ Exists(send[s].row)
    BY <1>0, <1>7 DEF UpdateRow, QueueTypeOK, SendOK
  <2>2. RowsStay
    <3>1. \E status, n, due : /\ status \in {"delivered", "failed", "exhausted"}
                                /\ Updated(send[s], status, n, due)
      BY <1>7 DEF UpdateRow
    <3>2. QED
      BY <2>1, <3>1 DEF Updated, RowState
  <2>3. RowsExist'
    <3>1. \A i \in Row : rows'[i].call = rows[i].call /\ (Exists(i)' <=> Exists(i))
      BY <2>2
    <3>2. \A u \in Slot : send'[u].pc # "idle" => send[u].pc # "idle" /\ send'[u].row = send[u].row
      BY <1>7 DEF UpdateRow, End, NoSend
    <3>3. \A u \in Slot : send[u].pc # "idle" => send[u].row \in Row
      BY DEF SendOK
    <3>4. batch' = batch
      BY <1>7 DEF UpdateRow
    <3> HIDE DEF Exists
    <3>5. QED
      BY <1>0, <3>1, <3>2, <3>3, <3>4
  <2>4. QED
    BY <2>2, <2>3
<1>8. ASSUME NEW i \in Row, TimePasses(i) PROVE RowsStay /\ RowsExist'
  BY <1>0, <1>8 DEF TimePasses, RowState, SendOK
<1>9. ASSUME NEW s \in Slot, BuildPayload(s) PROVE RowsStay /\ RowsExist'
  <2> HIDE DEF RowsStay, RowsExist, Exists
  <2>1. \A u \in Slot : send'[u].pc # "idle" =>
            send[u].pc # "idle" /\ send'[u].row = send[u].row
    BY <1>9 DEF BuildPayload, Goto, SendState
  <2>2. UNCHANGED <<rows, batch>>
    BY <1>9 DEF BuildPayload
  <2>3. QED
    BY <1>3, <2>1, <2>2
<1>10. QED
  BY <1>1, <1>2, <1>4, <1>5, <1>6, <1>7, <1>8, <1>9 DEF QueueStep, Polling, Delivery, DeliverStep

(* What is told of settled calls stays true.                               *)
LEMMA ToldStays ==
    ASSUME QueueTypeOK, RowsExist, RowsStay, SettledStays, ToldWhatHappened
    PROVE  ToldWhatHappened'
<1>1. ASSUME NEW i \in Row, Exists(i)'
      PROVE  LET c == rows'[i].call IN
             /\ rows'[i].event = verdict'[c]
             /\ request'[c].status = verdict'[c]
             /\ record'[c] = verdict'[c]
  <2> DEFINE c == rows[i].call
  <2>1. c \in Call /\ rows'[i].call = c /\ rows'[i].event = rows[i].event
    BY <1>1 DEF RowsStay, RowsExist
  <2>2. rows[i].event \in Event
    BY DEF QueueTypeOK, RowState
  <2>3. rows[i].event = verdict[c] /\ request[c].status = verdict[c] /\ record[c] = verdict[c]
    BY <1>1 DEF RowsStay, Exists, ToldWhatHappened
  <2>4. QED
    BY <2>1, <2>2, <2>3 DEF SettledStays
<1>2. QED
  BY <1>1 DEF ToldWhatHappened, Exists

-----------------------------------------------------------------------------
(* Steps of the handlers.                                                  *)

Kept == RecordsInv' /\ SettledStays /\ RowsStay /\ RowsExist'

(* The step places the call, and only its own handler can.                 *)
LEMMA DialKeeps ==
    ASSUME TypeOK, RecordsInv, RowsExist, NEW t \in Task, Dial(t)
    PROVE  Kept
<1> USE DEF TypeOK, RecordsInv
<1> DEFINE c == task[t].call
<1>1. /\ c \in Call /\ phase[c] = "asked" /\ record[c] = "none" /\ verdict[c] = "none"
      /\ phase' = [phase EXCEPT ![c] = "placed"]
      /\ task' = [task EXCEPT ![t].pc = "create"]
      /\ UNCHANGED <<queueVars, recordVars, verdict, mail>>
  BY DEF Dial, At, Goes, TaskOK, HandlersKnow, HandlerKnows, RecordIsOfCall, VerdictIsLast
<1>2. RowsStay /\ RowsExist' /\ SettledStays
  BY <1>1 DEF RowsStay, RowsExist, Exists, SettledStays, queueVars, recordVars, TaskState
<1>3. VerdictIsLast' /\ MailTells' /\ RecordTells' /\ VerdictIsDue' /\ RecordIsOfCall'
  BY <1>1 DEF VerdictIsLast, MailTells, RecordTells, VerdictIsDue, RecordIsOfCall, recordVars, Mail
<1>4. OnePlaces'
  BY <1>1 DEF OnePlaces, Placing, Dial, At
<1>5. HandlersKnow'
  BY <1>1 DEF HandlersKnow, HandlerKnows, OnePlaces, Placing, Dial, At, Syncing, recordVars, TaskState
<1>6. QED
  BY <1>2, <1>3, <1>4, <1>5 DEF Kept

(* The request fails: the call is over without a record or a verdict.      *)
LEMMA DialFailsKeeps ==
    ASSUME TypeOK, RecordsInv, RowsExist, NEW t \in Task, DialFails(t)
    PROVE  Kept
<1> USE DEF TypeOK, RecordsInv
<1> DEFINE c == task[t].call
<1>1. /\ c \in Call /\ phase[c] = "asked" /\ record[c] = "none" /\ verdict[c] = "none"
      /\ phase' = [phase EXCEPT ![c] = "over"]
      /\ task' = [task EXCEPT ![t] = Idle]
      /\ UNCHANGED <<queueVars, recordVars, verdict, mail>>
  BY DEF DialFails, At, Finish, Become, TaskOK, HandlersKnow, HandlerKnows,
         RecordIsOfCall, VerdictIsLast
<1>2. Idle.pc = "idle" /\ Idle.todo = {}
  BY DEF Idle, Handler
<1>3. RowsStay /\ RowsExist' /\ SettledStays
  BY <1>1, <1>2 DEF RowsStay, RowsExist, Exists, SettledStays, queueVars, recordVars
<1>4. VerdictIsLast' /\ MailTells' /\ RecordTells' /\ VerdictIsDue' /\ RecordIsOfCall'
  BY <1>1 DEF VerdictIsLast, MailTells, RecordTells, VerdictIsDue, RecordIsOfCall, recordVars, Mail
<1>5. OnePlaces'
  BY <1>1, <1>2 DEF OnePlaces, Placing
<1>6. HandlersKnow'
  BY <1>1, <1>2 DEF HandlersKnow, HandlerKnows, OnePlaces, Placing, DialFails, At, Syncing, recordVars
<1>7. QED
  BY <1>3, <1>4, <1>5, <1>6 DEF Kept

(* A record is created before any webhook of its call is taken, and once.  *)
LEMMA CreateKeeps ==
    ASSUME TypeOK, RecordsInv, RowsExist, NEW t \in Task, Create(t)
    PROVE  Kept
<1> USE DEF TypeOK, RecordsInv
<1> DEFINE c == task[t].call
<1>1. /\ c \in Call /\ record[c] = "none"
      /\ phase[c] \in {"placed", "answered", "over"}
      /\ phase[c] = "over" => verdict[c] # "none"
      /\ record' = [record EXCEPT ![c] = "initiated"]
      /\ task' = [task EXCEPT ![t] = Idle]
      /\ UNCHANGED <<queueVars, recording, request, providerVars, mail>>
  BY DEF Create, At, Finish, Become, TaskOK, HandlersKnow, HandlerKnows
<1>2. Idle.pc = "idle" /\ Idle.todo = {} /\ "none" \notin Event /\ "initiated" \notin Event
  BY DEF Idle, Handler, Event
<1>3. RowsStay /\ RowsExist' /\ SettledStays
  BY <1>1, <1>2 DEF RowsStay, RowsExist, Exists, SettledStays, queueVars, providerVars
<1>4. VerdictIsLast' /\ MailTells' /\ RecordTells' /\ VerdictIsDue' /\ RecordIsOfCall'
  BY <1>1, <1>2
     DEF VerdictIsLast, MailTells, RecordTells, VerdictIsDue, RecordIsOfCall, providerVars, Mail
<1>5. OnePlaces'
  BY <1>1, <1>2 DEF OnePlaces, Placing
<1>6. HandlersKnow'
  BY <1>1, <1>2 DEF HandlersKnow, HandlerKnows, OnePlaces, Placing, Create, At, Syncing, providerVars
<1>7. QED
  BY <1>3, <1>4, <1>5, <1>6 DEF Kept

(* Handlers that leave record, provider and webhooks alone keep what the   *)
(* invariant says of them.                                                 *)
LEMMA HandlersOnly ==
    ASSUME RecordsInv, HandlersKnow',
           \A u \in Task : task'[u].pc \in Placing => task'[u] = task[u],
           UNCHANGED <<record, providerVars, mail>>
    PROVE  RecordsInv'
<1>1. VerdictIsLast' /\ MailTells' /\ RecordTells' /\ VerdictIsDue' /\ RecordIsOfCall'
  BY DEF RecordsInv, VerdictIsLast, MailTells, RecordTells, VerdictIsDue, RecordIsOfCall, providerVars
<1>2. OnePlaces'
  BY DEF RecordsInv, OnePlaces
<1>3. QED
  BY <1>1, <1>2 DEF RecordsInv

(* The release and the idempotency check change nothing but the handler.   *)
LEMMA GoingOnKeeps ==
    ASSUME TypeOK, RecordsInv, RowsExist, NEW t \in Task, Released(t) \/ CheckExisting(t)
    PROVE  Kept
<1> USE DEF TypeOK
<1> DEFINE k == task[t]
<1>1. PICK pc \in {"sync", "trigger", "insert"} :
          /\ task' = [task EXCEPT ![t].pc = pc]
          /\ (k.pc = "release" /\ pc = "sync") \/ k.pc = "enqueue"
  BY DEF Released, CheckExisting, At, Goes
<1>2. UNCHANGED <<queueVars, recordVars, providerVars, mail>>
  BY DEF Released, CheckExisting, OnlyTask
<1>3. task' = [task EXCEPT ![t] = [k EXCEPT !.pc = pc]]
  BY <1>1
<1>4. HandlerKnows([k EXCEPT !.pc = pc])
  BY <1>1 DEF RecordsInv, HandlersKnow, HandlerKnows, Syncing, TaskState
<1>5. HandlersKnow'
  BY <1>2, <1>3, <1>4
     DEF RecordsInv, HandlersKnow, HandlerKnows, recordVars, providerVars, TaskState
<1>6. RecordsInv'
  BY <1>2, <1>3, <1>5, HandlersOnly DEF Placing, recordVars, TaskState
<1>7. RowsStay /\ RowsExist' /\ SettledStays
  BY <1>2, <1>3
     DEF RowsStay, RowsExist, Exists, SettledStays, queueVars, recordVars, providerVars, TaskState
<1>8. QED
  BY <1>6, <1>7 DEF Kept

(* A synced outcome is the verdict, for whichever handler writes it.       *)
LEMMA SyncKeeps ==
    ASSUME TypeOK, RecordsInv, RowsExist, NEW t \in Task, Sync(t)
    PROVE  Kept
<1> USE DEF TypeOK
<1> DEFINE k == task[t]
           c == k.call
<1>1. k.pc = "sync" /\ c \in Call /\ UNCHANGED <<queueVars, record, recording, providerVars, mail>>
  BY DEF Sync, At, TaskOK
<1>2. k.status \in Event => verdict[c] = k.status /\ record[c] = k.status
  BY <1>1 DEF RecordsInv, HandlersKnow, HandlerKnows, Syncing
<1>3. Idle.pc = "idle" /\ Idle.todo = {}
  BY DEF Idle, Handler
<1>4. /\ \A d \in Call : d # c => request'[d] = request[d]
      /\ request'[c].status = IF k.status \in Event THEN k.status ELSE request[c].status
  BY <1>1 DEF Sync
<1>5. \/ k.status \in Event /\ task' = [task EXCEPT ![t] = [k EXCEPT !.pc = "enqueue"]]
      \/ task' = [task EXCEPT ![t] = Idle]
  BY DEF Sync, Goes, Finish, Become
<1>6. HandlersKnow'
  <2>1. ASSUME NEW u \in Task, task'[u] = task[u] PROVE HandlerKnows(task[u])'
    <3>1. HandlerKnows(task[u]) /\ TaskOK(task[u])
      BY DEF RecordsInv, HandlersKnow
    <3>2. task[u].pc # "idle" => task[u].call \in Call
      BY <3>1 DEF TaskOK
    <3>3. task[u].pc \in Syncing \ {"release", "sync"} =>
              task[u].status \in Event /\ task[u].call \in Call
      BY <3>1, <3>2 DEF TaskOK, Syncing
    <3>4. task[u].pc \in Syncing \ {"release", "sync"} =>
              request'[task[u].call].status = task[u].status
      BY <1>2, <1>4, <3>1, <3>3 DEF HandlerKnows, Syncing
    <3>5. QED
      BY <1>1, <2>1, <3>1, <3>4 DEF HandlerKnows, providerVars
  <2>2. ASSUME k.status \in Event, task'[t] = [k EXCEPT !.pc = "enqueue"]
        PROVE  HandlerKnows(task[t])'
    BY <1>1, <1>2, <1>4, <2>2 DEF HandlerKnows, Syncing, TaskState, providerVars
  <2>3. ASSUME task'[t] = Idle PROVE HandlerKnows(task[t])'
    BY <1>3, <2>3 DEF HandlerKnows, Syncing
  <2>4. QED
    BY <1>5, <2>1, <2>2, <2>3 DEF HandlersKnow
<1>7. RecordsInv'
  BY <1>1, <1>3, <1>5, <1>6, HandlersOnly DEF Placing, TaskState
<1>8. SettledStays
  BY <1>1, <1>2, <1>4 DEF SettledStays, providerVars
<1>9. RowsStay /\ RowsExist'
  <2>1. UNCHANGED <<rows, send, batch>>
    BY <1>1 DEF queueVars
  <2>2. \A u \in Task : task'[u].todo \subseteq task[u].todo
    <3>1. [k EXCEPT !.pc = "enqueue"].todo = k.todo
      BY DEF TaskState
    <3> HIDE DEF k
    <3>2. QED
      BY <1>3, <1>5, <3>1 DEF k
  <2>3. RowsStay
    BY <2>1 DEF RowsStay, Exists
  <2>4. QED
    BY <2>1, <2>2, <2>3 DEF RowsExist, Exists
<1>10. QED
  BY <1>7, <1>8, <1>9 DEF Kept

(* The deliveries a handler starts are the rows of its call that exist.    *)
LEMMA TriggerKeeps ==
    ASSUME TypeOK, RecordsInv, RowsExist, NEW t \in Task,
           Trigger(t) \/ \E i \in Row : StartDelivery(t, i)
    PROVE  Kept
<1> USE DEF TypeOK
<1> DEFINE k == task[t]
<1>1. UNCHANGED <<rows, batch, recordVars, providerVars, mail>>
  BY DEF Trigger, StartDelivery, TriggerRow, OnlyTask, queueVars
<1>2. Idle.pc = "idle" /\ Idle.todo = {}
  BY DEF Idle, Handler
<1>3. \A i \in PendingRows(k.call) : i \in Row /\ Exists(i)
  BY DEF PendingRows, Exists
<1>4. k.pc \in {"trigger", "start"}
  BY DEF Trigger, StartDelivery, At
<1>5. \/ task' = [task EXCEPT ![t] = Idle]
      \/ \E todo \in SUBSET Row :
            /\ task' = [task EXCEPT ![t] = [k EXCEPT !.pc = "start", !.todo = todo]]
            /\ \A i \in todo : Exists(i)
  <2>1. CASE Trigger(t)
    <3>1. PendingRows(k.call) \in SUBSET Row
      BY DEF PendingRows
    <3>2. QED
      BY <1>3, <2>1, <3>1 DEF Trigger, Finish, Become
  <2>2. ASSUME NEW i \in Row, StartDelivery(t, i)
        PROVE  \/ task' = [task EXCEPT ![t] = Idle]
               \/ task' = [task EXCEPT ![t] = [k EXCEPT !.pc = "start", !.todo = k.todo \ {i}]]
    <3>1. k.pc = "start" /\ task \in [Task -> TaskState]
      BY <2>2 DEF StartDelivery, At
    <3>2. k.todo \ {i} = {} \/ task' = [task EXCEPT ![t].todo = k.todo \ {i}]
      BY <2>2 DEF StartDelivery
    <3>3. k.todo \ {i} = {} => task' = [task EXCEPT ![t] = Idle]
      BY <2>2 DEF StartDelivery, Finish, Become
    <3>4. [k EXCEPT !.pc = "start", !.todo = k.todo \ {i}] = [k EXCEPT !.todo = k.todo \ {i}]
      BY <3>1 DEF TaskState
    <3>5. QED
      BY <3>2, <3>3, <3>4
  <2>3. k.todo \subseteq Row /\ \A i \in k.todo : Exists(i)
    BY DEF RowsExist, TaskState, TaskOK
  <2>4. QED
    <3>1. ASSUME NEW i \in Row,
                 task' = [task EXCEPT ![t] = [k EXCEPT !.pc = "start", !.todo = k.todo \ {i}]]
          PROVE  \E todo \in SUBSET Row :
                    /\ task' = [task EXCEPT ![t] = [k EXCEPT !.pc = "start", !.todo = todo]]
                    /\ \A j \in todo : Exists(j)
      <4> DEFINE rest == k.todo \ {i}
      <4>1. rest \in SUBSET Row /\ \A j \in rest : Exists(j)
        BY <2>3
      <4>2. task' = [task EXCEPT ![t] = [k EXCEPT !.pc = "start", !.todo = rest]]
        BY <3>1
      <4> HIDE DEF rest, k, TypeOK
      <4>3. QED
        BY <4>1, <4>2
    <3> HIDE DEF k, TypeOK
    <3>2. QED
      BY <2>1, <2>2, <3>1
<1>6. HandlersKnow'
  <2>1. \A u \in Task : task'[u] = task[u] => HandlerKnows(task[u])'
    BY <1>1 DEF RecordsInv, HandlersKnow, HandlerKnows, recordVars, providerVars
  <2>2. k.status \in Event /\ HandlerKnows(k)
    BY <1>4 DEF TaskOK, RecordsInv, HandlersKnow
  <2>3. ASSUME NEW todo \in SUBSET Row,
               task' = [task EXCEPT ![t] = [k EXCEPT !.pc = "start", !.todo = todo]]
        PROVE  HandlerKnows(task[t])'
    <3>1. LET h == task'[t] IN h.pc = "start" /\ h.call = k.call /\ h.status = k.status
      BY <2>3 DEF TaskState
    <3>2. QED
      BY <1>1, <1>4, <2>2, <3>1 DEF HandlerKnows, Syncing, recordVars, providerVars
  <2>4. task'[t] = Idle => HandlerKnows(task[t])'
    BY <1>2 DEF HandlerKnows, Syncing
  <2>5. QED
    BY <1>5, <2>1, <2>3, <2>4 DEF HandlersKnow
<1>7. /\ task'[t].pc \in {"start", "idle"} /\ \A i \in task'[t].todo : Exists(i)
      /\ \A u \in Task : u # t => task'[u] = task[u]
  <2>1. task \in [Task -> TaskState]
    OBVIOUS
  <2> HIDE DEF TypeOK, Idle, Exists
  <2>2. CASE task' = [task EXCEPT ![t] = Idle]
    BY <1>2, <2>1, <2>2
  <2>3. ASSUME NEW todo \in SUBSET Row, \A i \in todo : Exists(i),
               task' = [task EXCEPT ![t] = [k EXCEPT !.pc = "start", !.todo = todo]]
        PROVE  /\ task'[t].pc \in {"start", "idle"} /\ \A i \in task'[t].todo : Exists(i)
               /\ \A u \in Task : u # t => task'[u] = task[u]
    <3>1. k \in TaskState /\ task'[t] = [k EXCEPT !.pc = "start", !.todo = todo]
      BY <2>1, <2>3
    <3>2. task'[t].pc = "start" /\ task'[t].todo = todo
      BY <3>1 DEF TaskState
    <3>3. QED
      BY <2>1, <2>3, <3>2
  <2>4. QED
    BY <1>5, <2>2, <2>3
<1>8. RecordsInv'
  <2> HIDE DEF TypeOK
  <2>1. task'[t].pc \in {"start", "idle"} /\ \A u \in Task : u # t => task'[u] = task[u]
    BY <1>7
  <2>2. \A u \in Task : task'[u].pc \in Placing => task'[u] = task[u]
    BY <2>1 DEF Placing
  <2>3. UNCHANGED <<record, providerVars, mail>>
    BY <1>1 DEF recordVars
  <2>4. QED
    BY <1>6, <2>2, <2>3, HandlersOnly
<1>9. RowsStay /\ SettledStays
  BY <1>1 DEF RowsStay, Exists, SettledStays, recordVars, providerVars
<1>10. \A s \in Slot : send'[s].pc # "idle" => Exists(send'[s].row)
  <2>1. CASE UNCHANGED send
    BY <2>1 DEF RowsExist
  <2>2. ASSUME NEW i \in Row, StartDelivery(t, i)
        PROVE  \A s \in Slot : send'[s].pc # "idle" => Exists(send'[s].row)
    BY <2>2 DEF StartDelivery, TriggerRow, Begin, RowsExist, QueueTypeOK
  <2>3. QED
    BY <2>1, <2>2 DEF Trigger, OnlyTask, queueVars
<1>11. RowsExist'
  <2> HIDE DEF TypeOK
  <2>1. \A i \in task'[t].todo : Exists(i)
    BY <1>7
  <2>2. \A u \in Task : u # t => task'[u] = task[u]
    BY <1>7
  <2>3. \A i \in Row : Exists(i)' <=> Exists(i)
    BY <1>1 DEF Exists
  <2>4. \A u \in Task : \A i \in task'[u].todo : Exists(i)
    BY <2>1, <2>2 DEF RowsExist
  <2>5. QED
    BY <1>1, <1>10, <2>4 DEF RowsExist, Exists
<1>12. QED
  BY <1>8, <1>9, <1>11 DEF Kept

(* A new row is of a call whose verdict, request and record agree.         *)
LEMMA InsertKeeps ==
    ASSUME TypeOK, OutcomeInv, NEW t \in Task, Insert(t)
    PROVE  OutcomeInv'
<1> USE DEF TypeOK, OutcomeInv
<1> DEFINE k == task[t]
           c == k.call
<1>1. /\ k.pc = "insert" /\ c \in Call /\ k.status \in Event
      /\ task' = [task EXCEPT ![t] = [k EXCEPT !.pc = "trigger"]]
      /\ UNCHANGED <<send, batch, recordVars, providerVars, mail>>
  BY DEF Insert, InsertRow, At, Goes, TaskOK
<1>2. /\ verdict[c] = k.status /\ record[c] = k.status /\ request[c].status = k.status
  BY <1>1 DEF RecordsInv, HandlersKnow, HandlerKnows, Syncing
<1>3. HandlerKnows([k EXCEPT !.pc = "trigger"])
  BY <1>1, <1>2 DEF HandlerKnows, TaskState
<1>4. HandlersKnow'
  BY <1>1, <1>3 DEF RecordsInv, HandlersKnow, HandlerKnows, recordVars, providerVars
<1>5. RecordsInv'
  BY <1>1, <1>4, HandlersOnly DEF Placing, TaskState, recordVars
<1>6. \/ rows' = rows
      \/ \E i \in Row : rows' = [rows EXCEPT ![i] = NewRow(c, k.status)]
  BY DEF Insert, InsertRow, Unused
<1>7. LET row == NewRow(c, k.status) IN
      row.call = c /\ row.event = k.status /\ row.status # "none"
  BY DEF NewRow
<1>8. RowsExist'
  <2>1. \A i \in Row : Exists(i) => Exists(i)'
    BY <1>6, <1>7 DEF Exists, QueueTypeOK
  <2>2. \A i \in Row : Exists(i)' => rows'[i].call \in Call
    BY <1>1, <1>6, <1>7 DEF RowsExist, Exists, QueueTypeOK
  <2>3. \A u \in Task : task'[u].todo = task[u].todo
    BY <1>1 DEF TaskState
  <2>4. /\ \A s \in Slot : send[s].pc # "idle" => send[s].row \in Row
        /\ \A r \in Runner : batch[r] \subseteq Row
        /\ \A u \in Task : task[u].todo \subseteq Row
    BY DEF QueueTypeOK, SendOK, TaskState
  <2>5. UNCHANGED <<send, batch>>
    BY <1>1
  <2> HIDE DEF TypeOK
  <2>6. QED
    BY <2>1, <2>2, <2>3, <2>4, <2>5 DEF RowsExist
<1>9. ToldWhatHappened'
  <2> DEFINE Right(row) == /\ row.event = verdict[row.call]
                           /\ request[row.call].status = verdict[row.call]
                           /\ record[row.call] = verdict[row.call]
  <2>1. Right(NewRow(c, k.status))
    BY <1>2, <1>7
  <2>2. \A i \in Row : rows'[i].status # "none" => Right(rows'[i])
    BY <1>6, <2>1 DEF ToldWhatHappened, QueueTypeOK
  <2>3. QED
    BY <1>1, <2>2 DEF ToldWhatHappened, recordVars, providerVars
<1>10. QED
  BY <1>5, <1>8, <1>9

(* A call is asked for once.                                               *)
LEMMA AskKeeps ==
    ASSUME TypeOK, RecordsInv, RowsExist,
           NEW t \in Task, NEW r \in Runner, NEW c \in Call, Ask(t, r, c)
    PROVE  Kept
<1> USE DEF TypeOK, RecordsInv
<1> DEFINE k == Handler("reserve", r, c, "failed", FALSE)
<1>1. /\ phase[c] = "new" /\ record[c] = "none" /\ verdict[c] = "none"
      /\ phase' = [phase EXCEPT ![c] = "asked"]
      /\ task' = [task EXCEPT ![t] = k]
      /\ UNCHANGED <<queueVars, recordVars, verdict, mail>>
  BY DEF Ask, Become, RecordIsOfCall, VerdictIsLast
<1>2. k.pc = "reserve" /\ k.call = c /\ k.todo = {}
  BY DEF Handler
<1>3. RowsStay /\ RowsExist' /\ SettledStays
  BY <1>1, <1>2 DEF RowsStay, RowsExist, Exists, SettledStays, queueVars, recordVars
<1>4. VerdictIsLast' /\ MailTells' /\ RecordTells' /\ VerdictIsDue' /\ RecordIsOfCall'
  BY <1>1 DEF VerdictIsLast, MailTells, RecordTells, VerdictIsDue, RecordIsOfCall, recordVars, Mail
<1>5. \A u \in Task : task[u].pc \in Placing => task[u].call # c
  BY <1>1 DEF HandlersKnow, HandlerKnows, Placing
<1>6. OnePlaces'
  BY <1>1, <1>2, <1>5 DEF OnePlaces
<1>7. HandlersKnow'
  <2>1. HandlerKnows(k)'
    BY <1>1, <1>2 DEF HandlerKnows, Syncing
  <2>2. ASSUME NEW u \in Task, u # t PROVE HandlerKnows(task[u])'
    BY <1>1, <1>5, <2>2 DEF HandlersKnow, HandlerKnows, Placing, Syncing, recordVars
  <2>3. QED
    BY <1>1, <2>1, <2>2 DEF HandlersKnow
<1>8. QED
  BY <1>3, <1>4, <1>6, <1>7 DEF Kept

-----------------------------------------------------------------------------
(* Webhooks.                                                               *)

(* A recording callback comes after the status of its call.                *)
LEMMA RecordingComesLast ==
    ASSUME TypeOK, RecordsInv, NEW m \in mail, m.kind = "recording",
           \A n \in mail : n.call = m.call => Rank(n.kind) >= Rank(m.kind)
    PROVE  record[m.call] = "completed" /\ verdict[m.call] = "completed"
<1>1. m.call \in Call /\ verdict[m.call] = "completed"
  BY DEF TypeOK, RecordsInv, MailTells, Mail
<1>2. ~ \E n \in mail : n.call = m.call /\ n.kind = "completed"
  BY DEF Rank
<1>3. record[m.call] \in Event
  BY <1>1, <1>2 DEF RecordsInv, VerdictIsDue
<1>4. QED
  BY <1>1, <1>3 DEF RecordsInv, RecordTells

(* A webhook that is taken leaves record and handler with the verdict, if  *)
(* it brings one, and does not touch it otherwise.                         *)
LEMMA ReceiveKeeps ==
    ASSUME Orderly, TypeOK, RecordsInv, RowsExist,
           NEW t \in Task, NEW r \in Runner, NEW m \in mail, Receive(t, r, m)
    PROVE  Kept
<1> USE DEF TypeOK, RecordsInv
<1> DEFINE c == m.call
<1>1. c \in Call /\ m.kind \in Kind /\ record[c] # "none" /\ UNCHANGED <<queueVars, request, providerVars>>
  BY DEF Orderly, Receive, Arrives, Mail
<1>2. \A n \in mail : n.call = c => Rank(n.kind) >= Rank(m.kind)
  BY DEF Orderly, Receive, Arrives
<1>3. /\ \A n \in mail : n # m => n \in mail'
      /\ \A n \in mail' : n \in mail \/ (n.call = c /\ n.kind = m.kind)
  BY DEF Receive, Arrives, Mail
<1>4. record' = [record EXCEPT ![c] = IF m.kind = "recording" THEN @ ELSE m.kind]
  BY <1>1 DEF Receive, SetStatus
<1>5. m.kind \in Event => m.kind = verdict[c]
  BY DEF MailTells
<1>6. m.kind = "recording" => record[c] = "completed" /\ verdict[c] = "completed"
  BY <1>2, RecordingComesLast
<1>7. m.kind \in {"ringing", "in-progress"} => record[c] \notin Event /\ m.kind \notin Event
  BY <1>1 DEF RecordTells, Event
<1>8. SettledStays
  BY <1>1, <1>4, <1>5, <1>7 DEF SettledStays, RecordTells, providerVars, Kind, Event
<1>9. VerdictIsLast' /\ MailTells'
  BY <1>1, <1>3 DEF VerdictIsLast, MailTells, providerVars
<1>10. RecordTells'
  <2>1. ASSUME NEW d \in Call, record'[d] \in Event
        PROVE  /\ record'[d] = verdict[d]
               /\ \A n \in mail' : n.call = d => n.kind \notin {"ringing", "in-progress"}
    <3>1. CASE d # c
      BY <1>3, <1>4, <2>1, <3>1 DEF RecordTells
    <3>2. CASE d = c /\ m.kind \in Event
      BY <1>1, <1>2, <1>3, <1>4, <1>5, <3>2 DEF Rank, Event
    <3>3. CASE d = c /\ m.kind = "recording"
      BY <1>1, <1>3, <1>4, <2>1, <3>3 DEF RecordTells
    <3>4. QED
      BY <1>1, <1>4, <1>7, <2>1, <3>1, <3>2, <3>3 DEF Kind, Event
  <2>2. QED
    BY <1>1, <2>1 DEF RecordTells, providerVars
<1>11. VerdictIsDue'
  <2>1. ASSUME NEW d \in Call, verdict[d] # "none", record'[d] \notin Event
        PROVE  \E n \in mail' : n.call = d /\ n.kind = verdict[d]
    <3>1. record[d] \notin Event /\ (d = c => m.kind \notin Event)
      BY <1>1, <1>4, <1>6, <1>8, <2>1 DEF SettledStays, Event
    <3>2. PICK n \in mail : n.call = d /\ n.kind = verdict[d]
      BY <2>1, <3>1 DEF VerdictIsDue
    <3>3. n # m
      BY <2>1, <3>1, <3>2
    <3>4. QED
      BY <1>3, <3>2, <3>3
  <2>2. QED
    BY <1>1, <2>1 DEF VerdictIsDue, providerVars
<1>12. RecordIsOfCall'
  BY <1>1, <1>4 DEF RecordIsOfCall, providerVars
<1>13. \/ task' = task
       \/ \E pc \in {"release", "sync"}, status \in Kind \ {"recording"}, url \in BOOLEAN :
             /\ task' = [task EXCEPT ![t] = Handler(pc, r, c, status, url)]
             /\ status \in Event => verdict[c] = status /\ record'[c] = status
  <2>1. (m.url \/ recording[c]) \in BOOLEAN
    BY <1>1
  <2>2. m.kind \in Event => verdict[c] = m.kind /\ record'[c] = m.kind
    BY <1>1, <1>4, <1>5 DEF Event
  <2>3. m.kind = "recording" => verdict[c] = "completed" /\ record'[c] = "completed"
    BY <1>1, <1>4, <1>6
  <2>4. \/ task' = task
        \/ m.kind = "recording" /\ task' = [task EXCEPT ![t] = Handler("sync", r, c, "completed", TRUE)]
        \/ m.kind \in Event
              /\ task' = [task EXCEPT ![t] = Handler("release", r, c, m.kind, m.url \/ recording[c])]
        \/ m.kind # "recording"
              /\ task' = [task EXCEPT ![t] = Handler("sync", r, c, m.kind, FALSE)]
    <3>0. Follows(t, r, m) /\ record[c] # "none"
      BY <1>1 DEF Receive
    <3>1. CASE c \notin Requested
      BY <3>0, <3>1 DEF Follows
    <3>2. CASE c \in Requested /\ m.kind = "recording"
      BY <3>0, <3>2 DEF Follows, Become
    <3>3. CASE c \in Requested /\ m.kind \in Event
      <4>1. m.kind # "recording"
        BY <3>3 DEF Event
      <4>2. Become(t, Handler("release", r, c, m.kind, m.url \/ recording[c]))
        BY <3>0, <3>3, <4>1 DEF Follows
      <4>3. QED
        BY <3>3, <4>2 DEF Become
    <3>4. CASE c \in Requested /\ m.kind # "recording" /\ m.kind \notin Event
      BY <3>0, <3>4 DEF Follows, Become
    <3>5. QED
      BY <3>1, <3>2, <3>3, <3>4
  <2>5. QED
    BY <1>1, <2>1, <2>2, <2>3, <2>4 DEF Kind, Event
<1>14. \A u \in Task : task'[u] = task[u] => HandlerKnows(task[u])'
  <2>1. ASSUME NEW u \in Task, task'[u] = task[u] PROVE HandlerKnows(task[u])'
    <3> DEFINE k == task[u]
    <3>1. HandlerKnows(k) /\ (k.pc # "idle" => k.call \in Call)
      BY DEF HandlersKnow, TaskOK
    <3>2. k.pc = "create" => record'[k.call] = "none"
      BY <1>1, <1>4, <3>1 DEF HandlerKnows
    <3>3. k.pc \in Syncing /\ k.status \in Event =>
              verdict'[k.call] = k.status /\ record'[k.call] = k.status
      BY <1>8, <3>1 DEF HandlerKnows, SettledStays, Syncing
    <3>4. QED
      BY <1>1, <2>1, <3>1, <3>2, <3>3 DEF HandlerKnows, providerVars
  <2>2. QED
    BY <2>1
<1>15. ASSUME NEW pc \in {"release", "sync"}, NEW status \in Kind \ {"recording"},
              NEW url \in BOOLEAN,
              task' = [task EXCEPT ![t] = Handler(pc, r, c, status, url)],
              status \in Event => verdict[c] = status /\ record'[c] = status
       PROVE  HandlerKnows(task[t])' /\ task'[t].pc \notin Placing /\ task'[t].todo = {}
  <2>1. LET k == task'[t] IN k.pc = pc /\ k.call = c /\ k.status = status /\ k.todo = {}
    BY <1>15 DEF Handler
  <2>2. QED
    BY <1>1, <1>15, <2>1 DEF HandlerKnows, Syncing, Placing, providerVars
<1>16. HandlersKnow' /\ OnePlaces'
  BY <1>13, <1>14, <1>15 DEF HandlersKnow, OnePlaces
<1>17. RowsStay /\ RowsExist'
  BY <1>1, <1>13, <1>15 DEF RowsStay, RowsExist, Exists, queueVars
<1>18. QED
  BY <1>8, <1>9, <1>10, <1>11, <1>12, <1>16, <1>17 DEF Kept

-----------------------------------------------------------------------------
(* The provider.                                                           *)

(* What is sent joins the webhooks under way, which are only added to.     *)
LEMMA Sent ==
    ASSUME NEW letters, Sends(letters)
    PROVE  /\ mail \subseteq mail'
           /\ \A n \in mail' : n \in mail \/ \E again \in BOOLEAN, m \in letters :
                                            n = [m EXCEPT !.again = again]
           /\ \A m \in letters : \E again \in BOOLEAN : [m EXCEPT !.again = again] \in mail'
BY DEF Sends

(* A call without a verdict has no settled record: nothing that the        *)
(* provider says of it then contradicts one.                               *)
LEMMA ProviderKeeps ==
    ASSUME TypeOK, RecordsInv, RowsExist, NEW c \in Call, Provider(c)
    PROVE  Kept
<1> USE DEF TypeOK, RecordsInv
<1>1. phase[c] \in {"placed", "answered"} /\ verdict[c] = "none" /\ record[c] \notin Event
      /\ UNCHANGED <<queueVars, recordVars, task>>
  BY DEF Provider, Ring, Answer, HangUp, NotReached, Over, VerdictIsLast, RecordTells, Event
<1>2. \/ phase' = [phase EXCEPT ![c] = "over"] /\ verdict'[c] \in Event
      \/ phase' \in {phase, [phase EXCEPT ![c] = "answered"]} /\ verdict'[c] = "none"
  BY <1>1 DEF Provider, Ring, Answer, HangUp, NotReached, Over, Event, providerVars
<1>3. \A d \in Call : d # c => verdict'[d] = verdict[d] /\ phase'[d] = phase[d]
  BY DEF Provider, Ring, Answer, HangUp, NotReached, Over, providerVars
<1>4. PICK letters \in SUBSET Mail :
          /\ Sends(letters)
          /\ \A m \in letters : /\ m.call = c
                                /\ m.kind \in Event => m.kind = verdict'[c]
                                /\ m.kind = "recording" => verdict'[c] = "completed"
          /\ verdict'[c] # "none" => \E m \in letters : m.kind = verdict'[c]
  <2> DEFINE Says(letters) ==
          /\ \A m \in letters : /\ m.call = c
                                /\ m.kind \in Event => m.kind = verdict'[c]
                                /\ m.kind = "recording" => verdict'[c] = "completed"
          /\ verdict'[c] # "none" => \E m \in letters : m.kind = verdict'[c]
  <2>1. \A kind \in Kind, url \in BOOLEAN :
            LET m == Letter(c, kind, url) IN m \in Mail /\ m.call = c /\ m.kind = kind
    BY DEF Letter, Mail
  <2>2. CASE Ring(c)
    <3>1. Sends({Letter(c, "ringing", FALSE)}) /\ verdict'[c] = "none"
      BY <1>1, <2>2 DEF Ring, providerVars
    <3>2. Says({Letter(c, "ringing", FALSE)})
      BY <2>1, <3>1 DEF Event, Kind
    <3>3. QED
      BY <2>1, <3>1, <3>2 DEF Kind
  <2>3. CASE Answer(c)
    <3>1. Sends({Letter(c, "in-progress", FALSE)}) /\ verdict'[c] = "none"
      BY <1>1, <2>3 DEF Answer
    <3>2. Says({Letter(c, "in-progress", FALSE)})
      BY <2>1, <3>1 DEF Event, Kind
    <3>3. QED
      BY <2>1, <3>1, <3>2 DEF Kind
  <2>4. ASSUME NEW url \in BOOLEAN, Over(c, "completed", {Letter(c, "completed", url)})
        PROVE  \E letters \in SUBSET Mail : Sends(letters) /\ Says(letters)
    <3>1. Sends({Letter(c, "completed", url)}) /\ verdict'[c] = "completed"
      BY <2>4 DEF Over
    <3>2. Says({Letter(c, "completed", url)})
      BY <2>1, <3>1 DEF Event, Kind
    <3>3. QED
      BY <2>1, <3>1, <3>2 DEF Kind
  <2>5. ASSUME Over(c, "completed", {Letter(c, "completed", FALSE), Letter(c, "recording", TRUE)})
        PROVE  \E letters \in SUBSET Mail : Sends(letters) /\ Says(letters)
    <3> DEFINE letters == {Letter(c, "completed", FALSE), Letter(c, "recording", TRUE)}
    <3>1. Sends(letters) /\ verdict'[c] = "completed"
      BY <2>5 DEF Over
    <3>2. letters \in SUBSET Mail /\ Says(letters)
      BY <2>1, <3>1 DEF Event, Kind
    <3>3. QED
      BY <3>1, <3>2
  <2>6. CASE NotReached(c)
    <3>1. Sends({Letter(c, "failed", FALSE)}) /\ verdict'[c] = "failed"
      BY <2>6 DEF NotReached, Over
    <3>2. Says({Letter(c, "failed", FALSE)})
      BY <2>1, <3>1 DEF Event, Kind
    <3>3. QED
      BY <2>1, <3>1, <3>2 DEF Kind
  <2>7. QED
    BY <2>2, <2>3, <2>4, <2>5, <2>6 DEF Provider, HangUp
<1>5. /\ mail \subseteq mail'
      /\ \A n \in mail' : n \in mail \/ \E m \in letters : n.call = m.call /\ n.kind = m.kind
      /\ \A m \in letters : \E n \in mail' : n.call = m.call /\ n.kind = m.kind
  <2>1. \A m \in Mail, again \in BOOLEAN :
            LET n == [m EXCEPT !.again = again] IN n.call = m.call /\ n.kind = m.kind
    BY DEF Mail
  <2>2. Sends(letters) /\ letters \subseteq Mail
    BY <1>4
  <2>3. mail \subseteq mail'
    BY <2>2, Sent
  <2>4. ASSUME NEW n \in mail', n \notin mail
        PROVE  \E m \in letters : n.call = m.call /\ n.kind = m.kind
    <3>1. PICK again \in BOOLEAN, m \in letters : n = [m EXCEPT !.again = again]
      BY <2>2, <2>4, Sent
    <3>2. QED
      BY <2>1, <2>2, <3>1
  <2>5. ASSUME NEW m \in letters
        PROVE  \E n \in mail' : n.call = m.call /\ n.kind = m.kind
    <3>1. PICK again \in BOOLEAN : [m EXCEPT !.again = again] \in mail'
      BY <2>2, Sent
    <3>2. QED
      BY <2>1, <2>2, <3>1
  <2>6. QED
    BY <2>3, <2>4, <2>5
<1>6. RowsStay /\ RowsExist'
  BY <1>1 DEF RowsStay, RowsExist, Exists, queueVars
<1>7. SettledStays
  BY <1>1, <1>3 DEF SettledStays, recordVars
<1>8. VerdictIsLast'
  BY <1>2, <1>3 DEF VerdictIsLast
<1>9. MailTells'
  <2>1. ASSUME NEW n \in mail'
        PROVE  /\ phase'[n.call] \in {"placed", "answered", "over"}
               /\ n.kind \in Event => n.kind = verdict'[n.call]
               /\ n.kind = "recording" => verdict'[n.call] = "completed"
    <3>1. CASE n \in mail /\ n.call # c
      BY <1>3, <3>1 DEF MailTells, Mail
    <3>2. CASE n \in mail /\ n.call = c
      BY <1>1, <1>2, <3>2 DEF MailTells, Event
    <3>3. CASE \E m \in letters : n.call = m.call /\ n.kind = m.kind
      BY <1>1, <1>2, <1>4, <3>3
    <3>4. QED
      BY <1>5, <3>1, <3>2, <3>3
  <2>2. QED
    BY <2>1 DEF MailTells
<1>10. RecordTells'
  BY <1>1, <1>3, <1>4, <1>5 DEF RecordTells, recordVars
<1>11. VerdictIsDue'
  <2>1. ASSUME NEW d \in Call, verdict'[d] # "none", record[d] \notin Event
        PROVE  \E n \in mail' : n.call = d /\ n.kind = verdict'[d]
    <3>1. CASE d = c
      BY <1>4, <1>5, <2>1, <3>1
    <3>2. CASE d # c
      BY <1>3, <1>5, <2>1, <3>2 DEF VerdictIsDue
    <3>3. QED
      BY <3>1, <3>2
  <2>2. QED
    BY <1>1, <2>1 DEF VerdictIsDue, recordVars
<1>12. RecordIsOfCall'
  BY <1>1, <1>2, <1>3 DEF RecordIsOfCall, recordVars, Event
<1>13. HandlersKnow'
  <2>1. ASSUME NEW t \in Task PROVE HandlerKnows(task[t])'
    <3> DEFINE k == task[t]
    <3>1. HandlerKnows(k) /\ (k.pc # "idle" => k.call \in Call)
      BY DEF HandlersKnow, TaskOK
    <3>2. CASE k.call = c
      BY <1>1, <1>2, <3>1, <3>2 DEF HandlerKnows, recordVars, Event
    <3>3. CASE k.call # c
      BY <1>1, <1>3, <3>1, <3>3 DEF HandlerKnows, Syncing, recordVars
    <3>4. QED
      BY <3>2, <3>3
  <2>2. QED
    BY <2>1 DEF HandlersKnow
<1>14. OnePlaces'
  BY <1>1 DEF OnePlaces
<1>15. QED
  BY <1>6, <1>7, <1>8, <1>9, <1>10, <1>11, <1>12, <1>13, <1>14 DEF Kept

(* A restart ends handlers and coroutines, and changes no row.             *)
LEMMA RestartKeeps ==
    ASSUME TypeOK, RecordsInv, RowsExist, NEW r \in Runner, Restart(r)
    PROVE  Kept
<1> USE DEF TypeOK
<1>1. Idle.pc = "idle" /\ Idle.todo = {} /\ NoSend.pc = "idle"
  BY DEF Idle, Handler, NoSend
<1>2. /\ \A t \in Task : task'[t] \in {task[t], Idle}
      /\ \A s \in Slot : send'[s] \in {send[s], NoSend}
      /\ \A q \in Runner : batch'[q] \subseteq batch[q]
      /\ UNCHANGED <<rows, recordVars, providerVars, mail>>
  BY DEF Restart, ForgetSends, QueueTypeOK
<1>3. RowsStay /\ RowsExist' /\ SettledStays
  BY <1>1, <1>2
     DEF RowsStay, RowsExist, Exists, SettledStays, recordVars, providerVars
<1>4. HandlersKnow'
  BY <1>1, <1>2 DEF RecordsInv, HandlersKnow, HandlerKnows, Syncing, recordVars, providerVars
<1>5. RecordsInv'
  BY <1>1, <1>2, <1>4, HandlersOnly DEF Placing, recordVars
<1>6. QED
  BY <1>3, <1>5 DEF Kept

-----------------------------------------------------------------------------
(* Every step of an orderly system keeps the invariant.                    *)
LEMMA OutcomeIsKept ==
    ASSUME Orderly, TypeOK, OutcomeInv, [Next]_vars
    PROVE  OutcomeInv'
<1> USE DEF OutcomeInv
<1>1. CASE Kept
  BY <1>1, ToldStays DEF TypeOK, Kept
<1>2. CASE UNCHANGED vars
  <2>1. RowsStay /\ SettledStays /\ RowsExist'
    BY <1>2 DEF vars, queueVars, recordVars, providerVars, RowsStay, SettledStays, RowsExist, Exists
  <2>2. HandlersKnow'
    BY <1>2 DEF vars, recordVars, providerVars, RecordsInv, HandlersKnow, HandlerKnows
  <2>3. RecordsInv'
    BY <1>2, <2>2, HandlersOnly DEF vars, recordVars
  <2>4. QED
    BY <1>1, <2>1, <2>3 DEF Kept
<1>3. ASSUME NEW t \in Task, HandlerStep(t) PROVE OutcomeInv'
  <2>1. ~SetInProgress(t)
    BY DEF SetInProgress, At, RecordsInv, HandlersKnow, HandlerKnows
  <2>2. CASE Insert(t)
    BY <2>2, InsertKeeps
  <2>3. CASE ~Insert(t)
    BY <1>1, <1>3, <2>1, <2>3, DialKeeps, DialFailsKeeps, CreateKeeps, GoingOnKeeps,
       SyncKeeps, TriggerKeeps
       DEF HandlerStep
  <2>4. QED
    BY <2>2, <2>3
<1>4. ASSUME NEW t \in Task, NEW r \in Runner, NEW c \in Call, Request(t, r, c)
      PROVE  OutcomeInv'
  BY <1>1, <1>4, AskKeeps DEF Request, AskedOnAnswer, Orderly
<1>5. ASSUME NEW t \in Task, NEW r \in Runner, NEW m \in mail, Webhook(t, r, m)
      PROVE  OutcomeInv'
  BY <1>1, <1>5, ReceiveKeeps DEF Webhook
<1>6. ASSUME NEW c \in Call, Provider(c) PROVE OutcomeInv'
  BY <1>1, <1>6, ProviderKeeps
<1>7. CASE QueueStep
  <2>1. RowsStay /\ RowsExist'
    BY <1>7, TypeOKParts, QueueKeepsRows
  <2>2. UNCHANGED <<recordVars, providerVars, mail, task>>
    BY <1>7 DEF QueueStep
  <2>3. SettledStays
    BY <2>2 DEF SettledStays, recordVars, providerVars
  <2>4. HandlersKnow'
    BY <2>2 DEF recordVars, providerVars, RecordsInv, HandlersKnow, HandlerKnows
  <2>5. RecordsInv'
    BY <2>2, <2>4, HandlersOnly DEF recordVars
  <2>6. QED
    BY <1>1, <2>1, <2>3, <2>5 DEF Kept
<1>8. CASE Fault
  <2>1. PICK r \in Runner : Restart(r)
    BY <1>8 DEF Fault, HandlerError, ReceiveError, QueueError, DeliverError, BuildError, Orderly
  <2>2. QED
    BY <1>1, <2>1, RestartKeeps
<1>9. QED
  BY <1>2, <1>3, <1>4, <1>5, <1>6, <1>7, <1>8 DEF Next

(* At first there is nothing to agree on.                                  *)
LEMMA InitOutcome == Init => OutcomeInv
<1> SUFFICES ASSUME Init PROVE OutcomeInv
  OBVIOUS
<1>1. Idle.pc = "idle" /\ Idle.todo = {} /\ NoSend.pc = "idle" /\ NoDelivery.status = "none"
  BY DEF Idle, Handler, NoSend, NoDelivery
<1>2. RowsExist /\ ToldWhatHappened
  BY <1>1 DEF Init, QueueInit, RowsExist, Exists, ToldWhatHappened
<1>3. HandlersKnow /\ OnePlaces
  BY <1>1 DEF Init, HandlersKnow, HandlerKnows, Syncing, OnePlaces, Placing
<1>4. VerdictIsLast /\ MailTells /\ RecordTells /\ VerdictIsDue /\ RecordIsOfCall
  BY DEF Init, VerdictIsLast, MailTells, RecordTells, VerdictIsDue, RecordIsOfCall, Event
<1>5. QED
  BY <1>2, <1>3, <1>4 DEF OutcomeInv, RecordsInv

(* The invariant holds in every reachable state of an orderly system.      *)
LEMMA OutcomeIsInvariant == ASSUME Orderly PROVE Spec => []OutcomeInv
<1>1. TypeOK /\ OutcomeInv /\ [Next]_vars => OutcomeInv'
  BY OutcomeIsKept
<1>2. QED
  BY <1>1, InitOutcome, RecordTypeCorrect, PTL DEF Spec

(* What the customer is told of a call is what the provider said of it,    *)
(* and what both records say, for any number of runners, handlers, calls   *)
(* and deliveries, with webhooks delivered twice, receivers that refuse,   *)
(* and restarts.                                                           *)
THEOREM CustomersAreToldTheOutcome ==
    ASSUME Orderly PROVE Spec => []ToldWhatHappened
<1>1. OutcomeInv => ToldWhatHappened
  BY DEF OutcomeInv
<1>2. QED
  BY <1>1, OutcomeIsInvariant, PTL

(* No record stays active once its call is over and nothing is under way   *)
(* for it: a verdict that has not reached the record still will.           *)
THEOREM NoRecordStaysActive ==
    ASSUME Orderly PROVE Spec => []NoPhantomCall
<1>1. TypeOK /\ OutcomeInv => NoPhantomCall
  <2> SUFFICES ASSUME TypeOK, OutcomeInv, NEW c \in Active, phase[c] = "over"
               PROVE  \E m \in mail : m.call = c
    BY DEF NoPhantomCall
  <2>1. c \in Call /\ record[c] # "none" /\ record[c] \notin Event
    BY DEF Active, Event
  <2>2. verdict[c] # "none"
    BY <2>1 DEF OutcomeInv, RecordsInv, RecordIsOfCall
  <2>3. QED
    BY <2>1, <2>2 DEF OutcomeInv, RecordsInv, VerdictIsDue
<1>2. QED
  BY <1>1, OutcomeIsInvariant, RecordTypeCorrect, PTL
=============================================================================
