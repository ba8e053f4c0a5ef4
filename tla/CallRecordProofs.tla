-------------------------- MODULE CallRecordProofs --------------------------
(***************************************************************************)
(* Theorems of CallRecord and WebhookQueue: types; that a delivery is      *)
(* given up only after its last attempt; that the queue implements         *)
(* WebhookDelivery as long as no two coroutines have the same row.         *)
(*                                                                         *)
(* Only few steps touch the queue.  QueueNext lists them, with the webhook *)
(* handlers' part reduced to the row they insert or the delivery they      *)
(* start, and the queue's invariants are proved about QueueNext alone.     *)
(***************************************************************************)
EXTENDS CallRecord, TLAPS

(* A payload is built, or is not.                                          *)
Builds(s) ==
    /\ send[s].pc = "build"
    /\ Goto(s, "post") \/ Goto(s, "unbuilt")
    /\ UNCHANGED <<rows, batch, tries, accepted, refused>>

QueueNext ==
    \/ UNCHANGED queueVars
    \/ \E c \in Call, e \in Event : InsertRow(c, e)
    \/ \E r \in Runner, i \in Row : TriggerRow(r, i)
    \/ \E r \in Runner : Poll(r)
    \/ \E r \in Runner, i \in Row, s \in Slot : PollNext(r, i, s)
    \/ \E s \in Slot : ReadRow(s)
    \/ \E s \in Slot : Builds(s)
    \/ \E s \in Slot : Post(s)
    \/ \E s \in Slot : Reject(s)
    \/ \E s \in Slot : UpdateRow(s)
    \/ \E s \in Slot : DeliverError(s)
    \/ \E i \in Row : TimePasses(i)
    \/ \E r \in Runner : "restart" \in Behaviour /\ ForgetSends(r)

(* The attempt number of a row, or of a coroutine that has read it, is at  *)
(* most one ahead of the requests that were sent; once the answer is there *)
(* it is not ahead.                                                        *)
Lag ==
    /\ \A i \in Row : rows[i].attempt <= tries[i] + 1
    /\ \A s \in Slot :
          LET k == send[s] IN
          /\ k.pc \notin {"idle", "begin"} => k.attempt <= tries[k.row] + 1
          /\ k.pc = "retry" => k.attempt <= tries[k.row]
          /\ k.pc = "refuse" => k.row \in refused

-----------------------------------------------------------------------------
(* Every step of the system is one of QueueNext for the queue: handlers    *)
(* insert rows and start deliveries only for the call they work for.       *)
LEMMA StepsOfTheQueue ==
    ASSUME TypeOK, [Next]_vars
    PROVE  QueueNext
<1> USE DEF QueueNext
<1>1. CASE UNCHANGED vars
  BY <1>1 DEF vars
<1>2. ASSUME NEW t \in Task, HandlerStep(t) PROVE QueueNext
  <2>1. TaskOK(task[t])
    BY DEF TypeOK
  <2>2. CASE Insert(t)
    BY <2>1, <2>2 DEF Insert, At, TaskOK
  <2>3. ASSUME NEW i \in Row, StartDelivery(t, i) PROVE QueueNext
    BY <2>1, <2>3 DEF StartDelivery, At, TaskOK
  <2>4. CASE \/ Dial(t) \/ DialFails(t) \/ Create(t) \/ SetInProgress(t)
             \/ Released(t) \/ Sync(t) \/ CheckExisting(t) \/ Trigger(t)
    BY <2>4 DEF Dial, DialFails, Create, SetInProgress, Released, Sync,
                CheckExisting, Trigger, OnlyTask
  <2>5. QED
    BY <1>2, <2>2, <2>3, <2>4 DEF HandlerStep
<1>3. ASSUME NEW t \in Task, NEW r \in Runner, NEW c \in Call, Request(t, r, c)
      PROVE  QueueNext
  BY <1>3 DEF Request, Ask, AskedOnAnswer
<1>4. ASSUME NEW t \in Task, NEW r \in Runner, NEW m \in mail, Webhook(t, r, m)
      PROVE  QueueNext
  BY <1>4 DEF Webhook, Receive
<1>5. ASSUME NEW c \in Call, Provider(c) PROVE QueueNext
  BY <1>5 DEF Provider, Ring, Answer, HangUp, NotReached, Over
<1>6. CASE QueueStep
  BY <1>6 DEF QueueStep, Polling, Delivery, DeliverStep, BuildPayload, Builds
<1>7. CASE Fault
  <2>1. ASSUME NEW t \in Task, HandlerError(t) PROVE QueueNext
    BY <2>1 DEF HandlerError, OnlyTask
  <2>2. ASSUME NEW t \in Task, NEW m \in mail, ReceiveError(t, m) PROVE QueueNext
    BY <2>2 DEF ReceiveError
  <2>3. ASSUME QueueError PROVE QueueNext
    BY <2>3 DEF QueueError, BuildError, Builds
  <2>4. ASSUME NEW r \in Runner, Restart(r) PROVE QueueNext
    BY <2>4 DEF Restart
  <2>5. QED
    BY <1>7, <2>1, <2>2, <2>3, <2>4 DEF Fault
<1>8. QED
  BY <1>1, <1>2, <1>3, <1>4, <1>5, <1>6, <1>7 DEF Next

-----------------------------------------------------------------------------
(* A row after an update.                                                  *)
LEMMA RowWithResult ==
    ASSUME NEW row \in RowState, NEW status \in {"delivered", "failed", "exhausted"},
           NEW n \in 0..MaxAttempts, NEW due \in {"null", "later"}, NEW unbuilt \in BOOLEAN
    PROVE  [row EXCEPT !.status = status, !.attempt = n, !.due = due, !.unbuilt = unbuilt]
               \in RowState
BY DEF RowState

(* The queue keeps its types: a row that is inserted, an attempt that is   *)
(* counted, a coroutine that starts or ends.                               *)
LEMMA QueueTypes ==
    ASSUME QueueTypeOK, QueueNext
    PROVE  QueueTypeOK'
<1> USE QueueAssumption DEF QueueTypeOK
<1>1. CASE UNCHANGED queueVars
  BY <1>1 DEF queueVars, SendOK
<1>2. ASSUME NEW c \in Call, NEW e \in Event, InsertRow(c, e) PROVE QueueTypeOK'
  <2>1. NewRow(c, e) \in RowState
    BY DEF NewRow, RowState, Event
  <2>2. QED
    BY <1>2, <2>1 DEF InsertRow, Unused
<1>3. ASSUME NEW r \in Runner, NEW i \in Row, TriggerRow(r, i) PROVE QueueTypeOK'
  <2>1. SendOK(Begin(r, i, FALSE)) /\ Begin(r, i, FALSE) \in SendState
    BY DEF Begin, SendOK, SendState
  <2>2. UNCHANGED <<rows, batch, tries, accepted, refused>>
    BY <1>3 DEF TriggerRow
  <2>3. send' = send \/ \E s \in Slot : send' = [send EXCEPT ![s] = Begin(r, i, FALSE)]
    BY <1>3 DEF TriggerRow
  <2>4. \A s \in Slot : send'[s] = send[s] \/ send'[s] = Begin(r, i, FALSE)
    BY <2>3
  <2>5. send' \in [Slot -> SendState]
    BY <2>1, <2>3
  <2>6. \A s \in Slot : SendOK(send'[s])
    BY <2>1, <2>4
  <2>7. \A s \in Slot : SendOK(send[s])'
    BY <2>6 DEF SendOK
  <2>8. QED
    BY <2>2, <2>5, <2>7
<1>4. ASSUME NEW r \in Runner, Poll(r) PROVE QueueTypeOK'
  BY <1>4 DEF Poll
<1>5. ASSUME NEW r \in Runner, NEW i \in Row, NEW s \in Slot, PollNext(r, i, s)
      PROVE  QueueTypeOK'
  <2>1. SendOK(Begin(r, i, TRUE))
    BY DEF Begin, SendOK, SendState
  <2>2. QED
    BY <1>5, <2>1 DEF PollNext, SendOK
<1>6. SendOK(NoSend)
  BY DEF NoSend, SendOK, SendState
<1>7. ASSUME NEW s \in Slot, ReadRow(s) PROVE QueueTypeOK'
  <2>1. CASE End(s)
    BY <1>6, <1>7, <2>1 DEF ReadRow, End, SendOK
  <2>2. ASSUME send[s].pc = "begin",
               send' = [send EXCEPT ![s].pc = "build",
                                    ![s].attempt = AttemptNumber(rows[send[s].row])]
        PROVE  QueueTypeOK'
    <3>1. send[s].row \in Row /\ send[s] \in SendState
      BY <2>2 DEF SendOK
    <3>2. rows[send[s].row].attempt \in 0..MaxAttempts
      BY <3>1 DEF RowState
    <3> DEFINE n == AttemptNumber(rows[send[s].row])
               k == [send[s] EXCEPT !.pc = "build", !.attempt = n]
    <3>3. n \in 0..MaxAttempts /\ n # 0
      BY <3>2 DEF AttemptNumber
    <3>4. send' = [send EXCEPT ![s] = k]
      BY <2>2
    <3> HIDE DEF n
    <3>5. k \in SendState /\ k.attempt = n /\ k.row = send[s].row /\ k.runner = send[s].runner
      <4>1. send[s] \in SendState /\ n \in 0..MaxAttempts
        BY <3>1, <3>3
      <4>2. QED
        BY ONLY <4>1 DEF k, SendState
    <3>6. SendOK(k)
      BY <2>2, <3>3, <3>5 DEF SendOK
    <3> HIDE DEF k
    <3>7. QED
      BY <1>7, <3>4, <3>5, <3>6 DEF ReadRow, SendOK
  <2>3. QED
    BY <1>7, <2>1, <2>2 DEF ReadRow
<1>8. ASSUME NEW s \in Slot, Post(s) PROVE QueueTypeOK'
  <2>1. send[s].row \in Row
    BY <1>8 DEF Post, SendOK
  <2>2. /\ CountUpTo(tries, send[s].row, MaxAttempts) \in [Row -> 0..MaxAttempts]
        /\ CountUpTo(accepted, send[s].row, 2) \in [Row -> 0..2]
    BY <2>1 DEF CountUpTo
  <2>3. ASSUME NEW pc \in {"ok", "retry", "refuse"}, Goto(s, pc)
        PROVE  send' \in [Slot -> SendState] /\ \A u \in Slot : SendOK(send'[u])
    BY <1>8, <2>3 DEF Post, Goto, SendOK, SendState
  <2>4. QED
    BY <1>8, <2>1, <2>2, <2>3 DEF Post
<1>9. ASSUME NEW s \in Slot, Reject(s) PROVE QueueTypeOK'
  BY <1>9 DEF Reject, Goto, SendOK, SendState
<1>10. ASSUME NEW s \in Slot, UpdateRow(s) PROVE QueueTypeOK'
  <2>1. send[s] \in SendState /\ send[s].row \in Row
    BY <1>10 DEF UpdateRow, SendOK
  <2>2. send[s].attempt \in 1..MaxAttempts
    BY <1>10, <2>1 DEF UpdateRow, SendOK, SendState
  <2>3. ASSUME NEW status \in {"delivered", "failed", "exhausted"},
               NEW attempt \in 0..MaxAttempts, NEW due \in {"null", "later"},
               Updated(send[s], status, attempt, due)
        PROVE  rows' \in [Row -> RowState]
    <3> DEFINE row == [rows[send[s].row] EXCEPT !.status = status, !.attempt = attempt, !.due = due,
                                                !.unbuilt = (send[s].pc = "unbuilt")]
    <3>1. row \in RowState
      <4>1. rows[send[s].row] \in RowState
        BY <2>1
      <4>2. QED
        BY <4>1, RowWithResult, (send[s].pc = "unbuilt") \in BOOLEAN
    <3>2. rows' = [rows EXCEPT ![send[s].row] = row]
      BY <2>3 DEF Updated
    <3> HIDE DEF row
    <3>3. QED
      BY <3>1, <3>2
  <2>4. ~IsFinal(send[s]) => send[s].attempt + 1 \in 0..MaxAttempts
    BY <2>2 DEF IsFinal
  <2>5. rows' \in [Row -> RowState]
    BY <1>10, <2>2, <2>3, <2>4 DEF UpdateRow
  <2>6. QED
    BY <1>6, <1>10, <2>5 DEF UpdateRow, End, SendOK
<1>11. ASSUME NEW s \in Slot, DeliverError(s) PROVE QueueTypeOK'
  BY <1>6, <1>11 DEF DeliverError, End, SendOK
<1>12. ASSUME NEW i \in Row, TimePasses(i) PROVE QueueTypeOK'
  BY <1>12 DEF TimePasses, RowState
<1>13. ASSUME NEW r \in Runner, ForgetSends(r) PROVE QueueTypeOK'
  BY <1>6, <1>13 DEF ForgetSends, SendOK
<1>14. ASSUME NEW s \in Slot, Builds(s) PROVE QueueTypeOK'
  BY <1>14 DEF Builds, Goto, SendOK, SendState
<1>15. QED
  BY <1>1, <1>2, <1>3, <1>4, <1>5, <1>7, <1>8, <1>9, <1>10, <1>11, <1>12, <1>13, <1>14
     DEF QueueNext

-----------------------------------------------------------------------------
(* Attempt numbers never run ahead of the requests.                        *)
LEMMA LagIsKept ==
    ASSUME QueueTypeOK, QueueNext, Lag
    PROVE  Lag'
<1>1. CASE UNCHANGED queueVars
  BY <1>1 DEF queueVars, Lag
<1>2. ASSUME NEW c \in Call, NEW e \in Event, InsertRow(c, e) PROVE Lag'
  BY <1>2 DEF QueueTypeOK, InsertRow, Unused, NewRow, Lag
<1>3. ASSUME NEW r \in Runner, NEW i \in Row, TriggerRow(r, i) PROVE Lag'
  BY <1>3 DEF QueueTypeOK, TriggerRow, Begin, Lag
<1>4. ASSUME NEW r \in Runner, Poll(r) PROVE Lag'
  BY <1>4 DEF Poll, Lag
<1>5. ASSUME NEW r \in Runner, NEW i \in Row, NEW s \in Slot, PollNext(r, i, s)
      PROVE  Lag'
  BY <1>5 DEF QueueTypeOK, PollNext, Begin, Lag
<1>6. ASSUME NEW s \in Slot, ReadRow(s) PROVE Lag'
  <2>1. send[s].row \in Row
    BY <1>6 DEF QueueTypeOK, ReadRow, SendOK
  <2>2. AttemptNumber(rows[send[s].row]) <= tries[send[s].row] + 1
    BY <2>1 DEF QueueTypeOK, RowState, AttemptNumber, Lag
  <2>3. CASE End(s)
    BY <1>6, <2>3 DEF QueueTypeOK, ReadRow, End, NoSend, Lag
  <2>4. CASE ~End(s)
    BY <1>6, <2>1, <2>2, <2>4 DEF QueueTypeOK, ReadRow, SendState, Lag
  <2>5. QED
    BY <2>3, <2>4
<1>7. ASSUME NEW s \in Slot, Post(s) PROVE Lag'
  <2> DEFINE k == send[s]
  <2>1. k.row \in Row /\ k.attempt \in 0..MaxAttempts /\ k.attempt <= tries[k.row] + 1
    BY <1>7 DEF QueueTypeOK, Post, SendOK, SendState, Lag
  <2>2. tries \in [Row -> 0..MaxAttempts] /\ tries' \in [Row -> Nat]
    BY <1>7, <2>1, QueueAssumption DEF QueueTypeOK, Post, CountUpTo
  <2>3. \A i \in Row : tries[i] <= tries'[i]
    BY <1>7, <2>1, <2>2 DEF Post, CountUpTo
  <2>4. k.attempt <= tries'[k.row]
    BY <1>7, <2>1, <2>2, QueueAssumption DEF Post, CountUpTo
  <2>5. \A i \in Row : rows'[i].attempt <= tries'[i] + 1
    <3>1. \A i \in Row : rows[i].attempt \in 0..MaxAttempts
      BY DEF QueueTypeOK, RowState
    <3>2. QED
      BY <1>7, <2>2, <2>3, <3>1, QueueAssumption DEF Post, Lag
  <2>6. refused \subseteq refused' /\ (send'[s].pc = "refuse" => k.row \in refused')
    BY <1>7 DEF QueueTypeOK, SendState, Post, Goto
  <2>7. ASSUME NEW u \in Slot
        PROVE  /\ send'[u].pc \notin {"idle", "begin"} =>
                      send'[u].attempt <= tries'[send'[u].row] + 1
               /\ send'[u].pc = "retry" => send'[u].attempt <= tries'[send'[u].row]
               /\ send'[u].pc = "refuse" => send'[u].row \in refused'
    <3>1. CASE u = s
      <4>1. send'[s].row = k.row /\ send'[s].attempt = k.attempt
        BY <1>7 DEF QueueTypeOK, Post, Goto, SendState
      <4>2. QED
        BY <2>1, <2>2, <2>4, <2>6, <3>1, <4>1
    <3>2. CASE u # s
      <4>1. send'[u] = send[u]
        BY <1>7, <3>2 DEF QueueTypeOK, Post, Goto
      <4>2. send[u].pc # "idle" => send[u].row \in Row /\ send[u].attempt \in 0..MaxAttempts
        BY DEF QueueTypeOK, SendOK, SendState
      <4>3. QED
        BY <2>2, <2>3, <2>6, <4>1, <4>2 DEF Lag
    <3>3. QED
      BY <3>1, <3>2
  <2>8. QED
    BY <2>5, <2>7 DEF Lag
<1>8. ASSUME NEW s \in Slot, Reject(s) PROVE Lag'
  BY <1>8 DEF QueueTypeOK, Reject, Goto, SendState, SendOK, Lag
<1>9. ASSUME NEW s \in Slot, UpdateRow(s) PROVE Lag'
  <2> DEFINE k == send[s]
  <2>1. k.row \in Row /\ k.attempt \in 0..MaxAttempts
    BY <1>9 DEF QueueTypeOK, UpdateRow, SendOK, SendState
  <2>2. /\ rows \in [Row -> RowState] /\ tries \in [Row -> 0..MaxAttempts]
        /\ k.attempt <= tries[k.row] + 1 /\ (k.pc = "retry" => k.attempt <= tries[k.row])
    BY <1>9, <2>1 DEF QueueTypeOK, UpdateRow, Lag
  <2>3. \/ \E status, due : Updated(k, status, k.attempt, due)
        \/ k.pc = "retry" /\ \E status, due : Updated(k, status, k.attempt + 1, due)
    BY <1>9 DEF UpdateRow
  <2> HIDE DEF k
  <2>4. rows'[k.row].attempt <= tries[k.row] + 1
    <3>1. ASSUME NEW status, NEW n \in Nat, NEW due, Updated(k, status, n, due)
          PROVE  rows'[k.row].attempt = n
      BY <2>1, <2>2, <3>1 DEF Updated, RowState
    <3>2. QED
      BY <2>1, <2>2, <2>3, <3>1, QueueAssumption
  <2>5. \A i \in Row : rows'[i].attempt <= tries[i] + 1
    BY <2>2, <2>3, <2>4 DEF Updated, Lag
  <2>6. QED
    BY <1>9, <2>5 DEF QueueTypeOK, UpdateRow, End, NoSend, Lag, k
<1>10. ASSUME NEW s \in Slot, DeliverError(s) PROVE Lag'
  BY <1>10 DEF QueueTypeOK, DeliverError, End, NoSend, Lag
<1>11. ASSUME NEW i \in Row, TimePasses(i) PROVE Lag'
  BY <1>11 DEF QueueTypeOK, RowState, TimePasses, Lag
<1>12. ASSUME NEW r \in Runner, ForgetSends(r) PROVE Lag'
  BY <1>12 DEF QueueTypeOK, ForgetSends, NoSend, Lag
<1>13. ASSUME NEW s \in Slot, Builds(s) PROVE Lag'
  <2>1. /\ send'[s].attempt = send[s].attempt /\ send'[s].row = send[s].row
        /\ send'[s].pc \in {"post", "unbuilt"} /\ send[s].pc = "build"
        /\ \A u \in Slot : u # s => send'[u] = send[u]
    BY <1>13 DEF QueueTypeOK, Builds, Goto, SendState
  <2>2. UNCHANGED <<rows, tries, refused>>
    BY <1>13 DEF Builds
  <2>3. QED
    BY <2>1, <2>2 DEF Lag
<1>14. QED
  BY <1>1, <1>2, <1>3, <1>4, <1>5, <1>6, <1>7, <1>8, <1>9, <1>10, <1>11, <1>12, <1>13
     DEF QueueNext

(* A row becomes exhausted only in UpdateRow, after its last attempt or a  *)
(* permanent error; requests and errors are never forgotten.               *)
LEMMA GivenUpIsKept ==
    ASSUME QueueTypeOK, QueueNext, Lag, GivenUpOnlyAfterTries
    PROVE  GivenUpOnlyAfterTries'
<1>1. ASSUME NEW s \in Slot, UpdateRow(s) PROVE GivenUpOnlyAfterTries'
  <2> DEFINE k == send[s]
  <2>1. k.row \in Row /\ k.attempt \in 0..MaxAttempts /\ tries \in [Row -> 0..MaxAttempts]
    BY <1>1 DEF QueueTypeOK, UpdateRow, SendOK, SendState
  <2>2. k.pc \in {"retry", "refuse"} /\ IsFinal(k) =>
            tries[k.row] = MaxAttempts \/ k.row \in refused
    BY <2>1, QueueAssumption DEF IsFinal, Lag
  <2>3. rows'[k.row].status = "exhausted" => tries[k.row] = MaxAttempts \/ k.row \in refused
    <3>1. \E status, n, due :
              /\ Updated(k, status, n, due)
              /\ status = "exhausted" => k.pc \in {"retry", "refuse"} /\ IsFinal(k)
      BY <1>1 DEF UpdateRow
    <3>2. rows \in [Row -> RowState]
      BY DEF QueueTypeOK
    <3>3. QED
      BY <2>1, <2>2, <3>1, <3>2 DEF Updated, RowState
  <2>4. \A i \in Row : i # k.row => rows'[i] = rows[i]
    BY <1>1 DEF QueueTypeOK, UpdateRow, Updated
  <2>5. tries' = tries /\ refused' = refused
    BY <1>1 DEF UpdateRow
  <2>6. QED
    BY <2>3, <2>4, <2>5 DEF GivenUpOnlyAfterTries
<1>2. ASSUME NEW s \in Slot, Post(s) PROVE GivenUpOnlyAfterTries'
  BY <1>2, QueueAssumption DEF QueueTypeOK, Post, CountUpTo, GivenUpOnlyAfterTries
<1>3. ASSUME NEW s \in Slot, Reject(s) PROVE GivenUpOnlyAfterTries'
  BY <1>3 DEF Reject, GivenUpOnlyAfterTries
<1>4. ASSUME NEW c \in Call, NEW e \in Event, InsertRow(c, e)
      PROVE  GivenUpOnlyAfterTries'
  BY <1>4 DEF QueueTypeOK, InsertRow, Unused, NewRow, GivenUpOnlyAfterTries
<1>5. ASSUME NEW i \in Row, TimePasses(i) PROVE GivenUpOnlyAfterTries'
  BY <1>5 DEF QueueTypeOK, RowState, TimePasses, GivenUpOnlyAfterTries
<1>6. ASSUME UNCHANGED <<rows, tries, refused>> PROVE GivenUpOnlyAfterTries'
  BY <1>6 DEF GivenUpOnlyAfterTries
<1>7. QED
  BY <1>1, <1>2, <1>3, <1>4, <1>5, <1>6
     DEF QueueNext, queueVars, TriggerRow, Poll, PollNext, ReadRow, Builds, DeliverError,
         ForgetSends

-----------------------------------------------------------------------------
(* Handlers are well-formed, and the records keep their types.             *)

RecordTypeOK ==
    /\ phase \in [Call -> {"new", "asked", "placed", "answered", "over"}]
    /\ verdict \in [Call -> {"none"} \cup Event]
    /\ mail \subseteq Mail
    /\ record \in [Call -> {"none", "initiated"} \cup (Kind \ {"recording"})]
    /\ recording \in [Call -> BOOLEAN]
    /\ request \in [Call -> [status : {"open"} \cup Event,
                             shown : {"none"} \cup (Kind \ {"recording"})]]

TasksOK == task \in [Task -> TaskState] /\ \A t \in Task : TaskOK(task[t])

(* TypeOK is the types of the queue, of the records, and of the handlers.   *)
LEMMA TypeOKParts == TypeOK <=> QueueTypeOK /\ RecordTypeOK /\ TasksOK
BY DEF TypeOK, RecordTypeOK, TasksOK

(* A handler that starts is well-formed if its call and status are.        *)
LEMMA HandlerOK ==
    ASSUME NEW pc \in PC, NEW r \in Runner, NEW c \in Call,
           NEW status \in Kind \ {"recording"}, NEW url \in BOOLEAN,
           pc \in {"enqueue", "insert", "trigger", "start"} => status \in Event
    PROVE  TaskOK(Handler(pc, r, c, status, url))
BY DEF TaskOK, TaskState, Handler

(* A task that runs no handler is well-formed.                             *)
LEMMA IdleOK == TaskOK(Idle)
BY DEF TaskOK, TaskState, Handler, Idle, PC, Kind

(* One handler moves, to a well-formed state.                              *)
LEMMA BecomesOK ==
    ASSUME TasksOK, NEW t \in Task, NEW k, TaskOK(k), Become(t, k)
    PROVE  TasksOK'
BY DEF TasksOK, Become, TaskOK

(* A running handler goes on to another step of its code.                  *)
LEMMA GoesOK ==
    ASSUME TasksOK, NEW t \in Task, NEW pc \in PC, ~At(t, "idle"), Goes(t, pc),
           pc \in {"enqueue", "insert", "trigger", "start"} => task[t].status \in Event
    PROVE  TasksOK'
BY DEF TasksOK, Goes, At, TaskOK, TaskState

(* A webhook that is delivered once more is well-formed.                   *)
LEMMA LetterOK ==
    ASSUME NEW m \in Mail, NEW again \in BOOLEAN
    PROVE  [m EXCEPT !.again = again] \in Mail
BY DEF Mail

(* What the provider sends joins the webhooks under way.                   *)
LEMMA LettersOK ==
    ASSUME mail \subseteq Mail, NEW letters \in SUBSET Mail, Sends(letters)
    PROVE  mail' \subseteq Mail
<1>1. PICK again \in BOOLEAN :
          mail' = mail \cup {[m EXCEPT !.again = again] : m \in letters}
  BY DEF Sends
<1>2. QED
  BY <1>1, LetterOK

(* The webhook that arrives is one of those under way.                     *)
LEMMA ArrivesOK ==
    ASSUME mail \subseteq Mail, NEW m, Arrives(m)
    PROVE  m \in Mail /\ mail' \subseteq Mail
BY LetterOK DEF Arrives

-----------------------------------------------------------------------------
(* The records and handlers keep their types, action by action.            *)
LEMMA RecordTypes ==
    ASSUME QueueTypeOK, RecordTypeOK, TasksOK, [Next]_vars
    PROVE  RecordTypeOK' /\ TasksOK'
<1> DEFINE Goal == RecordTypeOK' /\ TasksOK'
<1>1. CASE UNCHANGED vars
  BY <1>1 DEF vars, recordVars, providerVars, RecordTypeOK, TasksOK
<1>2. ASSUME NEW t \in Task, NEW r \in Runner, NEW c \in Call, Ask(t, r, c) PROVE Goal
  <2>1. TaskOK(Handler("reserve", r, c, "failed", FALSE))
    BY HandlerOK DEF PC, Kind
  <2>2. TasksOK'
    BY <1>2, <2>1, BecomesOK DEF Ask
  <2>3. QED
    BY <1>2, <2>2 DEF Ask, recordVars, RecordTypeOK
<1>3. ASSUME NEW t \in Task, NEW r \in Runner, NEW c \in Call, AskedOnAnswer(t, r, c)
      PROVE  Goal
  <2>1. TaskOK(Handler("answer", r, c, "in-progress", FALSE))
    BY HandlerOK DEF PC, Kind
  <2>2. TasksOK'
    BY <1>3, <2>1, BecomesOK DEF AskedOnAnswer
  <2>3. {Letter(c, "in-progress", FALSE)} \in SUBSET Mail
    BY DEF Letter, Mail, Kind
  <2>4. mail' \subseteq Mail
    BY <1>3, <2>3, LettersOK DEF AskedOnAnswer, RecordTypeOK
  <2>5. QED
    BY <1>3, <2>2, <2>4 DEF AskedOnAnswer, recordVars, RecordTypeOK
<1>4. ASSUME NEW t \in Task, HandlerStep(t) PROVE Goal
  <2>1. ASSUME ~At(t, "idle") PROVE task[t].call \in Call /\ task[t].status \in Kind \ {"recording"}
    BY <2>1 DEF TasksOK, TaskOK, TaskState, At
  <2>2. CASE Dial(t)
    <3>1. TasksOK'
      BY <2>2, GoesOK DEF Dial, At, PC
    <3>2. QED
      BY <2>1, <2>2, <3>1 DEF Dial, At, recordVars, RecordTypeOK
  <2>3. CASE DialFails(t)
    <3>1. TasksOK'
      BY <2>3, IdleOK, BecomesOK DEF DialFails, Finish
    <3>2. QED
      BY <2>1, <2>3, <3>1 DEF DialFails, At, recordVars, RecordTypeOK
  <2>4. CASE Create(t)
    <3>1. TasksOK'
      BY <2>4, IdleOK, BecomesOK DEF Create, Finish
    <3>2. QED
      BY <2>1, <2>4, <3>1 DEF Create, At, providerVars, RecordTypeOK
  <2>5. CASE SetInProgress(t)
    <3>1. TasksOK'
      BY <2>5, IdleOK, BecomesOK DEF SetInProgress, Finish
    <3>2. QED
      BY <2>1, <2>5, <3>1 DEF SetInProgress, SetStatus, At, providerVars, RecordTypeOK, Kind
  <2>6. CASE Released(t)
    <3>1. TasksOK'
      BY <2>6, GoesOK DEF Released, At, PC
    <3>2. QED
      BY <2>6, <3>1 DEF Released, OnlyTask, recordVars, providerVars, RecordTypeOK
  <2>7. CASE Sync(t)
    <3>1. TasksOK'
      BY <2>7, IdleOK, BecomesOK, GoesOK DEF Sync, Finish, At, PC
    <3>2. request' \in [Call -> [status : {"open"} \cup Event,
                                 shown : {"none"} \cup (Kind \ {"recording"})]]
      BY <2>1, <2>7 DEF Sync, At, RecordTypeOK
    <3>3. QED
      BY <2>7, <3>1, <3>2 DEF Sync, providerVars, RecordTypeOK
  <2>8. CASE CheckExisting(t)
    <3>1. task[t].status \in Event
      BY <2>8 DEF CheckExisting, At, TasksOK, TaskOK
    <3>2. TasksOK'
      BY <2>8, <3>1, GoesOK DEF CheckExisting, At, PC
    <3>3. QED
      BY <2>8, <3>2 DEF CheckExisting, OnlyTask, recordVars, providerVars, RecordTypeOK
  <2>9. CASE Insert(t)
    <3>1. task[t].status \in Event
      BY <2>9 DEF Insert, At, TasksOK, TaskOK
    <3>2. TasksOK'
      BY <2>9, <3>1, GoesOK DEF Insert, At, PC
    <3>3. QED
      BY <2>9, <3>2 DEF Insert, recordVars, providerVars, RecordTypeOK
  <2>10. CASE Trigger(t)
    <3>1. task[t].status \in Event /\ TaskOK(task[t])
      BY <2>10 DEF Trigger, At, TasksOK, TaskOK
    <3>2. PendingRows(task[t].call) \in SUBSET Row
      BY DEF PendingRows
    <3>3. TasksOK'
      <4>1. CASE Finish(t)
        BY <4>1, IdleOK, BecomesOK DEF Finish
      <4>2. CASE task' = [task EXCEPT ![t].pc = "start", ![t].todo = PendingRows(task[t].call)]
        <5> DEFINE k == [task[t] EXCEPT !.pc = "start",
                                        !.todo = PendingRows(task[t].call)]
        <5>1. task' = [task EXCEPT ![t] = k]
          BY <4>2
        <5>2. task[t].pc # "idle"
          BY <2>10 DEF Trigger, At
        <5>3. TaskOK(k)
          BY ONLY <3>1, <3>2, <5>2 DEF k, TaskOK, TaskState, PC
        <5>4. QED
          BY <5>1, <5>3, BecomesOK DEF Become
      <4>3. QED
        BY <2>10, <4>1, <4>2 DEF Trigger
    <3>4. QED
      BY <2>10, <3>3 DEF Trigger, OnlyTask, recordVars, providerVars, RecordTypeOK
  <2>11. ASSUME NEW i \in Row, StartDelivery(t, i) PROVE Goal
    <3>1. TasksOK'
      <4>1. CASE Finish(t)
        BY <4>1, IdleOK, BecomesOK DEF Finish
      <4>2. CASE task' = [task EXCEPT ![t].todo = task[t].todo \ {i}]
        <5> DEFINE k == [task[t] EXCEPT !.todo = @ \ {i}]
        <5>1. TaskOK(task[t]) /\ task' = [task EXCEPT ![t] = k]
          BY <4>2 DEF TasksOK
        <5>2. TaskOK(k)
          BY <5>1 DEF TaskOK, TaskState
        <5>3. QED
          BY <5>1, <5>2, BecomesOK DEF Become
      <4>3. QED
        BY <2>11, <4>1, <4>2 DEF StartDelivery
    <3>2. QED
      BY <2>11, <3>1 DEF StartDelivery, recordVars, providerVars, RecordTypeOK
  <2>12. QED
    BY <1>4, <2>2, <2>3, <2>4, <2>5, <2>6, <2>7, <2>8, <2>9, <2>10, <2>11 DEF HandlerStep
<1>5. ASSUME NEW t \in Task, NEW r \in Runner, NEW m \in mail, Receive(t, r, m)
      PROVE  Goal
  <2>1. m \in Mail /\ mail' \subseteq Mail
    BY <1>5, ArrivesOK DEF Receive, RecordTypeOK
  <2>2. m.call \in Call /\ m.kind \in Kind /\ m.url \in BOOLEAN
    BY <2>1 DEF Mail
  <2>3. record' \in [Call -> {"none", "initiated"} \cup (Kind \ {"recording"})]
    BY <1>5, <2>2 DEF Receive, SetStatus, RecordTypeOK
  <2>4. recording' \in [Call -> BOOLEAN]
    BY <1>5, <2>2 DEF Receive, RecordTypeOK
  <2>5. TasksOK'
    <3>1. m.url \/ recording[m.call] \in BOOLEAN
      BY <2>2 DEF RecordTypeOK
    <3>2. TaskOK(Handler("sync", r, m.call, "completed", TRUE))
      BY <2>2, HandlerOK DEF PC, Kind
    <3>3. m.kind \in Event =>
              TaskOK(Handler("release", r, m.call, m.kind, m.url \/ recording[m.call]))
      BY <2>2, <3>1, HandlerOK DEF PC, Kind, Event
    <3>4. m.kind # "recording" => TaskOK(Handler("sync", r, m.call, m.kind, FALSE))
      BY <2>2, HandlerOK DEF PC, Kind
    <3>5. task' = task \/ \E k : TaskOK(k) /\ Become(t, k)
      BY <1>5, <2>2, <3>2, <3>3, <3>4 DEF Receive, Follows
    <3>6. QED
      BY <3>5, BecomesOK DEF TasksOK
  <2>6. QED
    BY <1>5, <2>1, <2>3, <2>4, <2>5 DEF Receive, providerVars, RecordTypeOK
<1>6. ASSUME NEW c \in Call, Provider(c) PROVE Goal
  <2>1. TasksOK'
    BY <1>6 DEF Provider, Ring, Answer, HangUp, NotReached, Over, TasksOK
  <2>2. \A kind \in Kind, url \in BOOLEAN : Letter(c, kind, url) \in Mail
    BY DEF Letter, Mail
  <2>3. mail' \subseteq Mail
    <3> HIDE DEF Goal
    <3>1. \A kind, more \in Kind, url, moreUrl \in BOOLEAN :
              \/ Sends({Letter(c, kind, url)})
              \/ Sends({Letter(c, kind, url), Letter(c, more, moreUrl)})
              => mail' \subseteq Mail
      BY <2>2, LettersOK DEF RecordTypeOK
    <3>2. \/ \E kind \in Kind, url \in BOOLEAN : Sends({Letter(c, kind, url)})
          \/ Sends({Letter(c, "completed", FALSE), Letter(c, "recording", TRUE)})
      BY <1>6 DEF Provider, Ring, Answer, HangUp, NotReached, Over, Kind
    <3>3. QED
      BY <3>1, <3>2 DEF Kind
  <2>4. QED
    BY <1>6, <2>1, <2>3
       DEF Provider, Ring, Answer, HangUp, NotReached, Over,
           recordVars, providerVars, RecordTypeOK, Event
<1>7. CASE QueueStep
  BY <1>7 DEF QueueStep, recordVars, providerVars, RecordTypeOK, TasksOK
<1>8. CASE Fault
  <2>1. ASSUME NEW t \in Task, HandlerError(t) PROVE Goal
    <3>1. TasksOK'
      <4>1. CASE Finish(t)
        BY <4>1, IdleOK, BecomesOK DEF Finish
      <4>2. ASSUME NEW pc \in {"insert", "trigger"}, Goes(t, pc),
                   task[t].pc \in {"enqueue", "insert"}
            PROVE  TasksOK'
        <5>1. task[t].status \in Event
          BY <4>2 DEF TasksOK, TaskOK
        <5>2. QED
          BY <4>2, <5>1, GoesOK DEF At, PC
      <4>3. QED
        BY <2>1, <4>1, <4>2 DEF HandlerError, Goes, At
    <3>2. QED
      BY <2>1, <3>1 DEF HandlerError, OnlyTask, recordVars, providerVars, RecordTypeOK
  <2>2. ASSUME NEW t \in Task, NEW m \in mail, ReceiveError(t, m) PROVE Goal
    <3>1. mail' \subseteq Mail
      BY <2>2, ArrivesOK DEF ReceiveError, RecordTypeOK
    <3>2. QED
      BY <2>2, <3>1 DEF ReceiveError, recordVars, providerVars, RecordTypeOK, TasksOK
  <2>3. CASE QueueError
    BY <2>3 DEF QueueError, recordVars, providerVars, RecordTypeOK, TasksOK
  <2>4. ASSUME NEW r \in Runner, Restart(r) PROVE Goal
    <3>1. TasksOK'
      BY <2>4, IdleOK DEF Restart, TasksOK, TaskOK
    <3>2. QED
      BY <2>4, <3>1 DEF Restart, recordVars, providerVars, RecordTypeOK
  <2>5. QED
    BY <1>8, <2>1, <2>2, <2>3, <2>4 DEF Fault
<1>9. QED
  BY <1>1, <1>2, <1>3, <1>4, <1>5, <1>6, <1>7, <1>8 DEF Next, Request, Webhook

-----------------------------------------------------------------------------
(* The initial states have their types.                                    *)
LEMMA InitTypes == Init => TypeOK
BY QueueAssumption, IdleOK
     DEF Init, QueueInit, TypeOK, QueueTypeOK, RowState, NoDelivery, Event, NoSend,
         SendState, SendOK, Kind, TaskOK

(* The type invariant of CallRecord: every record, delivery and handler is *)
(* well-formed, whatever webhooks, errors and restarts come.               *)
THEOREM RecordTypeCorrect == Spec => []TypeOK
<1>1. TypeOK /\ [Next]_vars => TypeOK'
  <2> SUFFICES ASSUME TypeOK, [Next]_vars PROVE TypeOK'
    OBVIOUS
  <2>1. QueueTypeOK /\ RecordTypeOK /\ TasksOK
    BY TypeOKParts
  <2>2. QueueTypeOK'
    BY <2>1, StepsOfTheQueue, QueueTypes
  <2>3. RecordTypeOK' /\ TasksOK'
    BY <2>1, RecordTypes
  <2>4. QED
    BY <2>2, <2>3, TypeOKParts DEF TypeOK, RecordTypeOK, TasksOK
<1>2. QED
  BY <1>1, InitTypes, PTL DEF Spec

(* A delivery is given up only after max_attempts requests or a permanent  *)
(* error, for any number of runners, coroutines, attempts and deliveries.  *)
THEOREM NothingGivenUpEarly == Spec => []GivenUpOnlyAfterTries
<1>1. Init => Lag /\ GivenUpOnlyAfterTries
  BY DEF Init, QueueInit, NoDelivery, NoSend, Lag, GivenUpOnlyAfterTries
<1>2. TypeOK /\ Lag /\ GivenUpOnlyAfterTries /\ [Next]_vars => (Lag /\ GivenUpOnlyAfterTries)'
  <2> SUFFICES ASSUME TypeOK, Lag, GivenUpOnlyAfterTries, [Next]_vars
               PROVE  Lag' /\ GivenUpOnlyAfterTries'
    OBVIOUS
  <2>1. QueueTypeOK /\ QueueNext
    BY TypeOKParts, StepsOfTheQueue
  <2>2. QED
    BY <2>1, LagIsKept, GivenUpIsKept
<1>3. QED
  BY <1>1, <1>2, RecordTypeCorrect, PTL DEF Spec

-----------------------------------------------------------------------------
(* A coroutine that is past its look at the row holds an open delivery, as *)
(* long as no other coroutine has the row.                                 *)
SendersHold ==
    \A s \in Slot :
        /\ send[s].pc \notin {"idle", "begin"} => rows[send[s].row].status \in Open
        /\ send[s].pc = "ok" => accepted[send[s].row] > 0

OutboxStep == [Outbox!Next]_(Outbox!deliveryVars)

(* What a row that is not updated shows of its delivery stays the same.    *)
LEMMA SameFates ==
    ASSUME UNCHANGED <<tries, accepted, refused>>,
           \A i \in Row : rows'[i].status = rows[i].status
    PROVE  OutboxStep
BY DEF OutboxStep, Outbox!deliveryVars, fates, taken

(* One row gets another status. *)
LEMMA OneFate ==
    ASSUME NEW i \in Row, NEW row, rows \in [Row -> RowState],
           rows' = [rows EXCEPT ![i] = row]
    PROVE  /\ row.status \in Open => fates' = [fates EXCEPT ![i] = "open"]
           /\ row.status \notin Open => fates' = [fates EXCEPT ![i] = row.status]
BY DEF fates

(* Only an open delivery is ever requested, delivered or given up.         *)
LEMMA QueueStepIsOutboxStep ==
    ASSUME QueueTypeOK, QueueNext, SendersHold, GivenUpOnlyAfterTries'
    PROVE  OutboxStep
<1>1. CASE UNCHANGED queueVars
  BY <1>1, SameFates DEF queueVars
<1>2. ASSUME NEW c \in Call, NEW e \in Event, InsertRow(c, e) PROVE OutboxStep
  <2>1. CASE UNCHANGED rows
    BY <1>2, <2>1, SameFates DEF InsertRow
  <2>2. ASSUME NEW i \in Unused, rows' = [rows EXCEPT ![i] = NewRow(c, e)]
        PROVE  OutboxStep
    <3>1. i \in Row /\ rows[i].status = "none"
      BY DEF Unused
    <3>2. NewRow(c, e).status \in Open
      BY DEF NewRow, Open
    <3>3. fates[i] = "none" /\ fates' = [fates EXCEPT ![i] = "open"]
      BY <2>2, <3>1, <3>2, OneFate DEF QueueTypeOK, fates, Open
    <3>4. UNCHANGED <<tries, taken, refused>>
      BY <1>2 DEF InsertRow, taken
    <3>5. Outbox!Enqueue(i)
      BY <3>3, <3>4 DEF Outbox!Enqueue, Outbox!Becomes
    <3>6. QED
      BY <3>1, <3>5 DEF OutboxStep, Outbox!Next
  <2>3. QED
    BY <1>2, <2>1, <2>2 DEF InsertRow
<1>3. ASSUME NEW r \in Runner, NEW i \in Row, TriggerRow(r, i) PROVE OutboxStep
  BY <1>3, SameFates DEF TriggerRow
<1>4. ASSUME NEW r \in Runner, Poll(r) PROVE OutboxStep
  BY <1>4, SameFates DEF Poll
<1>5. ASSUME NEW r \in Runner, NEW i \in Row, NEW s \in Slot, PollNext(r, i, s)
      PROVE  OutboxStep
  BY <1>5, SameFates DEF PollNext
<1>6. ASSUME NEW s \in Slot, ReadRow(s) PROVE OutboxStep
  BY <1>6, SameFates DEF ReadRow
<1>7. ASSUME NEW s \in Slot, Post(s) PROVE OutboxStep
  <2> DEFINE i == send[s].row
  <2>1. i \in Row /\ rows[i].status \in Open
    BY <1>7 DEF QueueTypeOK, SendOK, SendersHold, Post
  <2>2. fates[i] = "open" /\ UNCHANGED fates
    BY <1>7, <2>1 DEF fates, Post
  <2>3. tries' = [tries EXCEPT ![i] = IF @ < MaxAttempts THEN @ + 1 ELSE @]
    BY <1>7 DEF Post, CountUpTo
  <2>4. taken' \in {taken, taken \cup {i}}
    <3>1. accepted' \in {accepted, CountUpTo(accepted, i, 2)}
      BY <1>7 DEF Post
    <3>2. accepted \in [Row -> 0..2]
      BY DEF QueueTypeOK
    <3> HIDE DEF i
    <3>3. CASE accepted' = CountUpTo(accepted, i, 2)
      BY <2>1, <3>2, <3>3 DEF CountUpTo, taken
    <3>4. QED
      BY <3>1, <3>3 DEF taken
  <2>5. refused' \in {refused, refused \cup {i}}
    BY <1>7 DEF Post
  <2> HIDE DEF i
  <2>6. Outbox!Request(i)
    BY <2>2, <2>3, <2>4, <2>5 DEF Outbox!Request
  <2>7. QED
    BY <2>1, <2>6 DEF OutboxStep, Outbox!Next
<1>8. ASSUME NEW s \in Slot, Reject(s) PROVE OutboxStep
  <2>1. send[s].row \in Row /\ rows[send[s].row].status \in Open
    BY <1>8 DEF QueueTypeOK, SendOK, SendersHold, Reject
  <2>2. fates[send[s].row] = "open" /\ UNCHANGED <<fates, tries, taken>>
    BY <1>8, <2>1 DEF fates, taken, Reject
  <2>3. Outbox!Reject(send[s].row)
    BY <1>8, <2>2 DEF Reject, Outbox!Reject
  <2>4. QED
    BY <2>1, <2>3 DEF OutboxStep, Outbox!Next
<1>9. ASSUME NEW s \in Slot, UpdateRow(s) PROVE OutboxStep
  <2> DEFINE k == send[s]
             i == send[s].row
  <2>1. i \in Row /\ rows[i].status \in Open /\ rows \in [Row -> RowState]
    BY <1>9 DEF QueueTypeOK, SendOK, SendersHold, UpdateRow
  <2>2. UNCHANGED <<tries, accepted, refused, taken>>
    BY <1>9 DEF UpdateRow, taken
  <2>3. \E status, n, due :
            /\ Updated(k, status, n, due)
            /\ status \in {"delivered", "failed", "exhausted"}
            /\ status = "delivered" => send[s].pc = "ok"
    BY <1>9 DEF UpdateRow
  <2>4. send[s].pc = "ok" => i \in taken
    BY <2>1 DEF SendersHold, taken
  <2>k. k.row = i
    OBVIOUS
  <2> HIDE DEF i, k
  <2>5. PICK status \in {"delivered", "failed", "exhausted"} :
            /\ status = "delivered" => i \in taken
            /\ \E n, due : Updated(k, status, n, due)
    BY <2>3, <2>4
  <2>6. PICK row : rows' = [rows EXCEPT ![i] = row] /\ row.status = status
    <3>1. PICK n, due : Updated(k, status, n, due)
      BY <2>5
    <3> DEFINE row == [rows[i] EXCEPT !.status = status, !.attempt = n, !.due = due,
                                      !.unbuilt = (k.pc = "unbuilt")]
    <3>2. rows' = [rows EXCEPT ![i] = row]
      BY <2>k, <3>1 DEF Updated
    <3>3. row.status = status
      BY <2>1 DEF RowState
    <3>4. QED
      BY <3>2, <3>3
  <2>7. rows'[i].status = status
    BY <2>1, <2>6
  <2>8. /\ fates[i] = "open"
        /\ status \in Open => fates' = [fates EXCEPT ![i] = "open"]
        /\ status \notin Open => fates' = [fates EXCEPT ![i] = status]
    BY <2>1, <2>6, OneFate DEF fates
  <2>9. CASE status = "failed"
    <3>1. fates' = [fates EXCEPT ![i] = "open"]
      BY <2>8, <2>9 DEF Open
    <3>2. UNCHANGED fates
      BY <2>8, <3>1 DEF fates
    <3>3. QED
      BY <2>2, <3>2 DEF OutboxStep, Outbox!deliveryVars
  <2>10. CASE status = "delivered"
    <3>1. fates' = [fates EXCEPT ![i] = "delivered"]
      BY <2>8, <2>10 DEF Open
    <3>2. Outbox!Deliver(i)
      BY <2>2, <2>5, <2>8, <2>10, <3>1 DEF Outbox!Deliver, Outbox!Becomes
    <3>3. QED
      BY <2>1, <3>2 DEF OutboxStep, Outbox!Next
  <2>11. CASE status = "exhausted"
    <3>1. fates' = [fates EXCEPT ![i] = "exhausted"]
      BY <2>8, <2>11 DEF Open
    <3>2. tries[i] = MaxAttempts \/ i \in refused
      BY <2>1, <2>2, <2>7, <2>11 DEF GivenUpOnlyAfterTries
    <3>3. Outbox!GiveUp(i)
      BY <2>2, <2>8, <3>1, <3>2 DEF Outbox!GiveUp, Outbox!Becomes
    <3>4. QED
      BY <2>1, <3>3 DEF OutboxStep, Outbox!Next
  <2>12. QED
    BY <2>9, <2>10, <2>11
<1>10. ASSUME NEW s \in Slot, DeliverError(s) PROVE OutboxStep
  BY <1>10, SameFates DEF DeliverError
<1>11. ASSUME NEW i \in Row, TimePasses(i) PROVE OutboxStep
  BY <1>11, SameFates DEF TimePasses, QueueTypeOK, RowState
<1>12. ASSUME NEW r \in Runner, ForgetSends(r) PROVE OutboxStep
  BY <1>12, SameFates DEF ForgetSends
<1>13. ASSUME NEW s \in Slot, Builds(s) PROVE OutboxStep
  BY <1>13, SameFates DEF Builds
<1>14. QED
  BY <1>1, <1>2, <1>3, <1>4, <1>5, <1>6, <1>7, <1>8, <1>9, <1>10, <1>11, <1>12, <1>13
     DEF QueueNext

(* A coroutine is alone with its row, so that the row stays open until the *)
(* coroutine itself updates it.                                            *)
LEMMA SendersKeepHold ==
    ASSUME QueueTypeOK, QueueNext, SendersHold, OneSender
    PROVE  SendersHold'
<1>1. CASE UNCHANGED queueVars
  BY <1>1 DEF queueVars, SendersHold
<1>2. ASSUME NEW c \in Call, NEW e \in Event, InsertRow(c, e) PROVE SendersHold'
  <2>1. \A i \in Row : rows[i].status \in Open => rows'[i].status \in Open
    BY <1>2 DEF InsertRow, Unused, NewRow, Open, QueueTypeOK
  <2>2. \A s \in Slot : send[s].pc # "idle" => send[s].row \in Row
    BY DEF QueueTypeOK, SendOK
  <2>3. QED
    BY <1>2, <2>1, <2>2 DEF InsertRow, SendersHold
<1>3. ASSUME NEW r \in Runner, NEW i \in Row, TriggerRow(r, i) PROVE SendersHold'
  BY <1>3 DEF TriggerRow, Begin, SendersHold, QueueTypeOK
<1>4. ASSUME NEW r \in Runner, Poll(r) PROVE SendersHold'
  BY <1>4 DEF Poll, SendersHold
<1>5. ASSUME NEW r \in Runner, NEW i \in Row, NEW s \in Slot, PollNext(r, i, s)
      PROVE  SendersHold'
  BY <1>5 DEF PollNext, Begin, SendersHold, QueueTypeOK
<1>6. ASSUME NEW s \in Slot, ReadRow(s) PROVE SendersHold'
  <2>1. \A u \in Slot : u # s => send'[u] = send[u]
    BY <1>6 DEF ReadRow, End, QueueTypeOK
  <2>2. \/ send'[s] = NoSend
        \/ /\ send'[s].pc = "build" /\ send'[s].row = send[s].row
           /\ rows[send[s].row].status \in Open
    BY <1>6 DEF ReadRow, End, QueueTypeOK, SendState
  <2>3. QED
    BY <1>6, <2>1, <2>2 DEF ReadRow, NoSend, SendersHold
<1>7. ASSUME NEW s \in Slot, Post(s) PROVE SendersHold'
  <2>1. send[s].row \in Row /\ rows[send[s].row].status \in Open
    BY <1>7 DEF QueueTypeOK, SendOK, SendersHold, Post
  <2>2. \A u \in Slot : u # s => send'[u] = send[u]
    BY <1>7 DEF Post, Goto, QueueTypeOK
  <2>3. \A i \in Row : accepted[i] <= accepted'[i]
    BY <1>7, <2>1 DEF Post, CountUpTo, QueueTypeOK
  <2>4. /\ send'[s].row = send[s].row
        /\ send'[s].pc = "ok" => accepted'[send[s].row] > 0
    BY <1>7, <2>1 DEF Post, Goto, CountUpTo, QueueTypeOK, SendState
  <2>5. \A u \in Slot : send[u].pc = "ok" => send[u].row \in Row
    BY DEF QueueTypeOK, SendOK
  <2>6. accepted \in [Row -> 0..2] /\ accepted' \in [Row -> 0..2]
    BY <1>7, <2>1 DEF Post, CountUpTo, QueueTypeOK
  <2>7. QED
    BY <1>7, <2>1, <2>2, <2>3, <2>4, <2>5, <2>6 DEF Post, SendersHold
<1>8. ASSUME NEW s \in Slot, Reject(s) PROVE SendersHold'
  BY <1>8 DEF Reject, Goto, SendersHold, QueueTypeOK, SendState
<1>9. ASSUME NEW s \in Slot, UpdateRow(s) PROVE SendersHold'
  <2>1. send'[s] = NoSend /\ \A u \in Slot : u # s => send'[u] = send[u]
    BY <1>9 DEF UpdateRow, End, QueueTypeOK
  <2>2. \A i \in Row : i # send[s].row => rows'[i] = rows[i]
    BY <1>9 DEF UpdateRow, Updated, QueueTypeOK
  <2>3. send[s].pc # "idle"
    BY <1>9 DEF UpdateRow
  <2>4. ASSUME NEW u \in Slot, u # s, send[u].pc # "idle"
        PROVE  rows'[send[u].row] = rows[send[u].row]
    BY <2>2, <2>3, <2>4 DEF OneSender, QueueTypeOK, SendOK
  <2>5. QED
    BY <1>9, <2>1, <2>4 DEF UpdateRow, NoSend, SendersHold
<1>10. ASSUME NEW s \in Slot, DeliverError(s) PROVE SendersHold'
  BY <1>10 DEF DeliverError, End, NoSend, SendersHold, QueueTypeOK
<1>11. ASSUME NEW i \in Row, TimePasses(i) PROVE SendersHold'
  <2>1. \A j \in Row : rows'[j].status = rows[j].status
    BY <1>11 DEF TimePasses, QueueTypeOK, RowState
  <2>2. \A s \in Slot : send[s].pc # "idle" => send[s].row \in Row
    BY DEF QueueTypeOK, SendOK
  <2>3. QED
    BY <1>11, <2>1, <2>2 DEF TimePasses, SendersHold
<1>12. ASSUME NEW r \in Runner, ForgetSends(r) PROVE SendersHold'
  BY <1>12 DEF ForgetSends, NoSend, SendersHold
<1>13. ASSUME NEW s \in Slot, Builds(s) PROVE SendersHold'
  BY <1>13 DEF Builds, Goto, SendersHold, QueueTypeOK, SendState
<1>14. QED
  BY <1>1, <1>2, <1>3, <1>4, <1>5, <1>6, <1>7, <1>8, <1>9, <1>10, <1>11, <1>12, <1>13
     DEF QueueNext

(* The queue implements WebhookDelivery in every behaviour in which no two *)
(* coroutines have the same row at once, whatever fails otherwise: what is *)
(* delivered or given up stays so, and no further request is sent for it.  *)
THEOREM LoneSendersKeepThePromise == Spec /\ []OneSender => ImplementsDelivery
<1>1. Init => SendersHold /\ Outbox!Init
  BY DEF Init, QueueInit, NoSend, NoDelivery, SendersHold, Outbox!Init, fates, taken, Open
<1>2. TypeOK /\ SendersHold /\ OneSender /\ [Next]_vars => SendersHold'
  BY TypeOKParts, StepsOfTheQueue, SendersKeepHold
<1>3. TypeOK /\ SendersHold /\ GivenUpOnlyAfterTries' /\ [Next]_vars
          => [Outbox!Next]_(Outbox!deliveryVars)
  BY TypeOKParts, StepsOfTheQueue, QueueStepIsOutboxStep DEF OutboxStep
<1>4. QED
  BY <1>1, <1>2, <1>3, RecordTypeCorrect, NothingGivenUpEarly, PTL
     DEF Spec, ImplementsDelivery, Outbox!Spec

-----------------------------------------------------------------------------
(* A receiver has taken a delivery once, and then it is delivered, or its  *)
(* coroutine is about to say so.                                           *)
TakenOnce ==
    \A i \in Row :
        /\ accepted[i] <= 1
        /\ accepted[i] = 1 => \/ rows[i].status = "delivered"
                              \/ \E s \in Slot : send[s].pc = "ok" /\ send[s].row = i

LEMMA TakenOnceIsKept ==
    ASSUME Behaviour \cap {"flaky", "error", "restart"} = {},
           QueueTypeOK, QueueNext, SendersHold, OneSender, TakenOnce
    PROVE  TakenOnce'
<1>1. ASSUME UNCHANGED accepted,
             \A i \in Row : rows[i].status = "delivered" => rows'[i].status = "delivered",
             \A s \in Slot : send[s].pc = "ok" => send'[s] = send[s]
      PROVE  TakenOnce'
  BY <1>1 DEF TakenOnce
<1>2. CASE UNCHANGED queueVars
  BY <1>1, <1>2 DEF queueVars
<1>3. ASSUME NEW c \in Call, NEW e \in Event, InsertRow(c, e) PROVE TakenOnce'
  BY <1>1, <1>3 DEF InsertRow, Unused, NewRow, QueueTypeOK
<1>4. ASSUME NEW r \in Runner, NEW i \in Row, TriggerRow(r, i) PROVE TakenOnce'
  BY <1>1, <1>4 DEF TriggerRow, QueueTypeOK
<1>5. ASSUME NEW r \in Runner, Poll(r) PROVE TakenOnce'
  BY <1>1, <1>5 DEF Poll
<1>6. ASSUME NEW r \in Runner, NEW i \in Row, NEW s \in Slot, PollNext(r, i, s)
      PROVE  TakenOnce'
  BY <1>1, <1>6 DEF PollNext, QueueTypeOK
<1>7. ASSUME NEW s \in Slot, ReadRow(s) PROVE TakenOnce'
  BY <1>1, <1>7 DEF ReadRow, End, QueueTypeOK
<1>8. ASSUME NEW s \in Slot, Post(s) PROVE TakenOnce'
  <2> DEFINE i == send[s].row
  <2>1. i \in Row /\ rows[i].status \in Open
    BY <1>8 DEF QueueTypeOK, SendOK, SendersHold, Post
  <2>2. \A u \in Slot : u # s => send'[u] = send[u]
    BY <1>8 DEF Post, Goto, QueueTypeOK
  <2>3. accepted \in [Row -> 0..2] /\ UNCHANGED rows
    BY <1>8 DEF QueueTypeOK, Post
  <2>4. accepted[i] = 0
    <3>1. \A u \in Slot : ~(send[u].pc = "ok" /\ send[u].row = i)
      BY <1>8 DEF Post, OneSender
    <3>2. accepted[i] # 1 /\ accepted[i] <= 1
      BY <2>1, <3>1 DEF TakenOnce, Open
    <3>3. QED
      BY <2>1, <2>3, <3>2
  <2>5. \/ UNCHANGED accepted
        \/ /\ accepted' = CountUpTo(accepted, i, 2)
           /\ send'[s].pc = "ok" /\ send'[s].row = i
    BY <1>8 DEF Post, Goto, QueueTypeOK, SendState
  <2>6. send[s].pc # "ok"
    BY <1>8 DEF Post
  <2> HIDE DEF i
  <2>7. CASE UNCHANGED accepted
    BY <1>1, <2>2, <2>3, <2>6, <2>7
  <2>8. CASE /\ accepted' = CountUpTo(accepted, i, 2)
             /\ send'[s].pc = "ok" /\ send'[s].row = i
    <3>1. accepted'[i] = 1 /\ \A j \in Row : j # i => accepted'[j] = accepted[j]
      BY <2>1, <2>3, <2>4, <2>8 DEF CountUpTo
    <3>2. QED
      BY <2>2, <2>3, <2>6, <2>8, <3>1 DEF TakenOnce
  <2>9. QED
    BY <2>5, <2>7, <2>8
<1>9. ASSUME NEW s \in Slot, Reject(s) PROVE TakenOnce'
  BY <1>1, <1>9 DEF Reject, Goto, QueueTypeOK
<1>10. ASSUME NEW s \in Slot, UpdateRow(s) PROVE TakenOnce'
  <2> DEFINE i == send[s].row
  <2>1. i \in Row /\ rows[i].status \in Open /\ send[s].pc # "idle"
    BY <1>10 DEF QueueTypeOK, SendOK, SendersHold, UpdateRow
  <2>2. /\ \A u \in Slot : u # s => send'[u] = send[u]
        /\ \A j \in Row : j # i => rows'[j] = rows[j]
        /\ UNCHANGED accepted
    BY <1>10 DEF UpdateRow, Updated, End, QueueTypeOK
  <2>3. send[s].pc = "ok" => rows'[i].status = "delivered"
    BY <1>10, <2>1 DEF UpdateRow, Updated, QueueTypeOK, RowState
  <2>4. send[s].pc # "ok" => accepted[i] # 1
    BY <2>1 DEF TakenOnce, OneSender, Open
  <2> HIDE DEF i
  <2>5. ASSUME NEW j \in Row, j # i, accepted[j] = 1
        PROVE  \/ rows'[j].status = "delivered"
               \/ \E u \in Slot : send'[u].pc = "ok" /\ send'[u].row = j
    BY <2>2, <2>5 DEF TakenOnce, i
  <2>6. QED
    BY <2>1, <2>2, <2>3, <2>4, <2>5 DEF TakenOnce
<1>11. ASSUME NEW i \in Row, TimePasses(i) PROVE TakenOnce'
  BY <1>1, <1>11 DEF TimePasses, QueueTypeOK, RowState
<1>12. ASSUME NEW s \in Slot, Builds(s) PROVE TakenOnce'
  BY <1>1, <1>12 DEF Builds, Goto, QueueTypeOK
<1>13. QED
  BY <1>2, <1>3, <1>4, <1>5, <1>6, <1>7, <1>8, <1>9, <1>10, <1>11, <1>12
     DEF QueueNext, DeliverError

(* The check that "guards against duplicate delivery" is enough as long as *)
(* no two coroutines have the same row at once, answers and updates do not *)
(* get lost and runners keep running.                                      *)
THEOREM LoneSendersDeliverOnce ==
    ASSUME Behaviour \cap {"flaky", "error", "restart"} = {}
    PROVE  Spec /\ []OneSender => []DeliveredOnce
<1>1. Init => SendersHold /\ TakenOnce
  BY DEF Init, QueueInit, NoSend, SendersHold, TakenOnce
<1>2. TypeOK /\ SendersHold /\ TakenOnce /\ OneSender /\ [Next]_vars => (SendersHold /\ TakenOnce)'
  BY TypeOKParts, StepsOfTheQueue, SendersKeepHold, TakenOnceIsKept
<1>3. TakenOnce => DeliveredOnce
  BY DEF TakenOnce, DeliveredOnce
<1>4. QED
  BY <1>1, <1>2, <1>3, RecordTypeCorrect, PTL DEF Spec
=============================================================================
