-------------------------- MODULE WorkerPoolProofs --------------------------
(* What holds of WorkerPool for every value of its constants. *)
EXTENDS WorkerPoolTenancy, TLAPS

-----------------------------------------------------------------------------
(* Facts about the constants and the helpers. *)

LEMMA Distinct ==
    /\ \A o \in Outbound : o \in Call /\ SidOf[o] \in Call /\ SidOf[o] \in Sid
                         /\ SidOf[o] \notin Outbound /\ SidOf[o] \notin Inbound
    /\ \A o, p \in Outbound : SidOf[o] = SidOf[p] => o = p
    /\ \A c \in ProviderCall : c \in Call /\ c \notin Outbound
    /\ AskOnAnswer \subseteq Sid /\ NoCall \notin Call /\ NoWorker \notin Worker
    /\ \A c \in Call : c \notin Outbound => c \in ProviderCall
BY NamesAssumption, PoolAssumption DEF Sid, ProviderCall

LEMMA CallVarsSame ==
    ASSUME UNCHANGED envVars \/ UNCHANGED callVars
    PROVE UNCHANGED <<phase, routed, hooks>>
BY DEF envVars, callVars

LEMMA OnlyTaskSame == OnlyTask \/ OnlyTaskAndCache => UNCHANGED <<hash, callKey, phase, routed, hooks>>
BY DEF OnlyTask, OnlyTaskAndCache, NoScript, redisVars, envVars, callVars

LEMMA IdleOK == \A rt : TaskOK(Idle, rt)
BY DEF Idle, Handler, HandlerWith, TaskOK, TaskState, PC, HasCall, HasReservation, HasWorker

(* A handler moves to an await at which it needs to know no more than it   *)
(* knows.                                                                  *)
LEMMA MoveOK ==
    ASSUME NEW k, NEW rt, TaskOK(k, rt), k.pc # "idle",
           NEW pc \in PC, NEW w \in Worker \cup {NoWorker},
           NEW S \in SUBSET Worker, NEW n \in Nat,
           pc \in HasCall => k.call \in Call,
           pc \in HasReservation => k.call \in Outbound /\ rt[k.call] \in Worker,
           pc \in HasWorker => w \in Worker
    PROVE TaskOK(Moved(k, pc, w, S, n), rt)
BY DEF TaskOK, TaskState, Moved

LEMMA HandlerOK ==
    ASSUME NEW r \in Runner, NEW c \in Call, NEW rt,
           NEW pc \in {"claim", "getw", "lookup"}
    PROVE TaskOK(Handler(pc, r, c), rt)
BY DEF Handler, HandlerWith, TaskOK, TaskState, PC, HasCall, HasReservation, HasWorker

LEMMA AgainOK ==
    ASSUME NEW k, NEW rt, TaskOK(k, rt)
    PROVE TaskOK(Again(k), rt)
BY DEF Again, TaskOK, TaskState

LEMMA SnapshotOK ==
    ASSUME NEW k, NEW rt, TaskOK(k, rt), k.pc # "idle", k.call \in Call,
           NEW known \in SUBSET Worker, NEW n \in Nat
    PROVE TaskOK(Snapshot(k, known, n), rt)
<1> DEFINE S == Candidates(k.runner, known)
           pc == IF S = {} THEN "noworker" ELSE "claim"
<1>1. S \in SUBSET Worker
  BY DEF Candidates
<1>2. pc \in PC /\ pc \notin HasReservation /\ pc \notin HasWorker
  BY DEF PC, HasReservation, HasWorker
<1>3. TaskOK(Moved(k, pc, NoWorker, S, n), rt)
  <2> HIDE DEF S, pc
  <2> QED BY <1>1, <1>2, MoveOK
<1> QED BY <1>3 DEF Snapshot

(* One handler takes a step, and the calls stay routed as they were or one *)
(* is routed to some worker.                                               *)
LEMMA BecomeOK ==
    ASSUME TaskTypeOK, NEW t \in Task, NEW k, Become(t, k), TaskOK(k, routed'),
           \A u \in Task : TaskOK(task[u], routed')
    PROVE TaskTypeOK'
BY DEF TaskTypeOK, Become, TaskOK

LEMMA RoutingOK ==
    ASSUME NEW k, NEW c, NEW w \in Worker, TaskOK(k, routed),
           routed \in [Call -> Worker \cup {NoWorker}],
           routed' = [routed EXCEPT ![c] = w]
    PROVE TaskOK(k, routed')
<1>1. ASSUME k.pc \in HasReservation PROVE k.call \in Outbound /\ routed'[k.call] \in Worker
  BY <1>1, PoolAssumption DEF TaskOK
<1> QED BY <1>1 DEF TaskOK

(* Handler t moves on; no call is routed. *)
LEMMA GotoOK ==
    ASSUME TaskTypeOK, NEW t \in Task, ~At(t, "idle"), UNCHANGED routed,
           NEW pc \in PC, NEW w \in Worker \cup {NoWorker}, GotoWith(t, pc, w),
           pc \in HasCall => task[t].call \in Call,
           pc \in HasReservation => /\ task[t].call \in Outbound
                                    /\ routed[task[t].call] \in Worker,
           pc \in HasWorker => w \in Worker
    PROVE TaskTypeOK'
<1>1. TaskOK(task[t], routed) /\ task[t].pc # "idle"
  BY DEF TaskTypeOK, At
<1>2. TaskOK(Moved(task[t], pc, w, {}, 0), routed)
  BY <1>1, MoveOK
<1> QED BY <1>2, BecomeOK DEF GotoWith, TaskTypeOK

LEMMA RetryOK ==
    ASSUME TaskTypeOK, NEW t \in Task, ~At(t, "idle"), UNCHANGED routed,
           NEW n \in Nat, Retry(t, n)
    PROVE TaskTypeOK'
<1>1. TaskOK(task[t], routed) /\ task[t].pc # "idle"
  BY DEF TaskTypeOK, At
<1>2. TaskOK(Moved(task[t], task[t].pc, task[t].worker, task[t].cands, n), routed)
  BY <1>1 DEF Moved, TaskOK, TaskState
<1> QED BY <1>2, BecomeOK DEF Retry, TaskTypeOK

LEMMA FinishOK ==
    ASSUME TaskTypeOK, NEW t \in Task, Finish(t),
           \A u \in Task : TaskOK(task[u], routed')
    PROVE TaskTypeOK'
BY IdleOK, BecomeOK DEF Finish

LEMMA FailedAttemptOK ==
    ASSUME TaskTypeOK, NEW t \in Task, ~At(t, "idle"), UNCHANGED routed,
           NEW pc \in PC, FailedAttempt(t, pc),
           pc \in HasCall => task[t].call \in Call,
           pc \in HasReservation => /\ task[t].call \in Outbound
                                    /\ routed[task[t].call] \in Worker,
           pc \in HasWorker => task[t].worker \in Worker
    PROVE TaskTypeOK'
<1>1. task[t].worker \in Worker \cup {NoWorker} /\ task[t].tries + 1 \in Nat
  BY DEF TaskTypeOK, TaskOK, TaskState
<1>2. CASE task[t].tries + 1 < RedisRetries
  BY <1>1, <1>2, RetryOK DEF FailedAttempt
<1>3. CASE ~(task[t].tries + 1 < RedisRetries)
  BY <1>1, <1>3, GotoOK DEF FailedAttempt, Goto
<1> QED BY <1>2, <1>3

LEMMA FailedClaimOK ==
    ASSUME TypeOK, NEW t \in Task, At(t, "claim"), UNCHANGED routed, FailedClaim(t)
    PROVE TaskTypeOK'
<1> DEFINE n == task[t].tries + 1
<1>1. /\ TaskTypeOK /\ TaskOK(task[t], routed) /\ task[t].pc = "claim"
      /\ task[t].call \in Call /\ n \in Nat
  BY DEF TypeOK, TaskTypeOK, TaskOK, TaskState, At, HasCall, PC
<1>2. CASE n = RedisRetries * AssignRetries
  BY <1>1, <1>2, GotoOK DEF FailedClaim, At, PC, HasCall, HasReservation, HasWorker
<1>3. CASE n # RedisRetries * AssignRetries /\ n % RedisRetries = 0
  <2>1. TaskOK(Moved(task[t], "backoff", NoWorker, {}, n), routed)
    BY <1>1, MoveOK DEF PC, HasCall, HasReservation, HasWorker
  <2> QED BY <1>1, <1>3, <2>1, BecomeOK DEF FailedClaim, TaskTypeOK
<1>4. CASE n # RedisRetries * AssignRetries /\ n % RedisRetries # 0
  BY <1>1, <1>4, RetryOK DEF FailedClaim, At
<1> QED BY <1>2, <1>3, <1>4

LEMMA SnapshotStepOK ==
    ASSUME TypeOK, NEW t \in Task, UNCHANGED routed, NEW k, TaskOK(k, routed),
           k.pc # "idle", k.call \in Call, NEW known \in SUBSET Worker,
           NEW n \in Nat, Become(t, Snapshot(k, known, n))
    PROVE TaskTypeOK'
BY SnapshotOK, BecomeOK DEF TypeOK, TaskTypeOK

(* The scripts, the cache and the prewarm requests keep their types. *)
LEMMA ScriptsOK ==
    ASSUME RedisTypeOK, clobbered \in BOOLEAN, NEW w \in Worker, NEW c \in Call
    PROVE /\ \A cands : Claim1(cands, c, w) => RedisTypeOK' /\ clobbered' \in BOOLEAN
          /\ RunRelease(w, c) => RedisTypeOK' /\ clobbered' \in BOOLEAN
          /\ RunClear(w) => RedisTypeOK' /\ clobbered' \in BOOLEAN
          /\ \A d \in Call : RunReassign(c, d, w) => RedisTypeOK' /\ clobbered' \in BOOLEAN
          /\ NoScript => RedisTypeOK' /\ clobbered' \in BOOLEAN
<1> USE DEF RedisTypeOK
<1>1. ASSUME NEW cands, Claim1(cands, c, w) PROVE RedisTypeOK' /\ clobbered' \in BOOLEAN
  BY <1>1 DEF Claim1, FindAndAssign
<1>2. ASSUME RunRelease(w, c) PROVE RedisTypeOK' /\ clobbered' \in BOOLEAN
  <2>1. RedisTypeOK'
    BY <1>2 DEF RunRelease, ReleaseAssignment
  <2>2. clobbered' \in BOOLEAN
    BY <1>2, Zenon DEF RunRelease
  <2> QED BY <2>1, <2>2
<1>3. ASSUME RunClear(w) PROVE RedisTypeOK' /\ clobbered' \in BOOLEAN
  <2>1. RedisTypeOK'
    BY <1>3 DEF RunClear, ClearWorkerState
  <2>2. clobbered' \in BOOLEAN
    BY <1>3, Zenon DEF RunClear
  <2> QED BY <2>1, <2>2
<1>4. ASSUME NEW d \in Call, RunReassign(c, d, w) PROVE RedisTypeOK' /\ clobbered' \in BOOLEAN
  <2>1. RedisTypeOK'
    BY <1>4 DEF RunReassign, Reassign
  <2>2. clobbered' \in BOOLEAN
    BY <1>4, Zenon DEF RunReassign
  <2> QED BY <2>1, <2>2
<1>5. ASSUME NoScript PROVE RedisTypeOK' /\ clobbered' \in BOOLEAN
  BY <1>5 DEF NoScript, redisVars
<1> QED BY <1>1, <1>2, <1>3, <1>4, <1>5

LEMMA ForgetOK ==
    ASSUME RunnerTypeOK, NEW r \in Runner, NEW ws, Forget(r, ws)
    PROVE /\ local' \in [Runner -> [Worker -> Call \cup {NoCall}]]
          /\ age' \in [Runner -> [Worker -> Ages]]
<1>1. /\ local \in [Runner -> [Worker -> Call \cup {NoCall}]]
      /\ age \in [Runner -> [Worker -> Ages]]
  BY DEF RunnerTypeOK
<1>2. [w \in Worker |-> IF w \in ws THEN NoCall ELSE local[r][w]]
        \in [Worker -> Call \cup {NoCall}]
  BY <1>1
<1>3. [w \in Worker |-> IF w \in ws THEN "unset" ELSE age[r][w]] \in [Worker -> Ages]
  BY <1>1 DEF Ages
<1> QED BY <1>1, <1>2, <1>3 DEF Forget

LEMMA SendOK ==
    ASSUME WorkerTypeOK, NEW ps \in SUBSET Post, Send(ps)
    PROVE WorkerTypeOK'
BY DEF WorkerTypeOK, Send

LEMMA PostsOK ==
    ASSUME NEW w \in Worker, NEW c \in Call, NEW d \in Call
    PROVE /\ PrewarmPost(w, c) \in Post /\ CancelPost(w, c) \in Post
          /\ ReassignPost(w, c, d) \in Post
BY DEF Post, PrewarmPost, CancelPost, ReassignPost

LEMMA DiscoverOK ==
    ASSUME RunnerTypeOK, up \subseteq Worker, NEW r \in Runner, DiscoverOn(r),
           UNCHANGED stray
    PROVE RunnerTypeOK'
BY DEF RunnerTypeOK, DiscoverOn, Stray

-----------------------------------------------------------------------------
(* Type correctness. *)

LEMMA InitTypeOK == Init => TypeOK
<1> SUFFICES ASSUME Init PROVE TypeOK
  OBVIOUS
<1>1. RedisTypeOK
  BY DEF Init, RedisInit, RedisTypeOK
<1>2. WorkerTypeOK
  BY DEF Init, WorkerInit, WorkerTypeOK
<1>3. RunnerTypeOK
  BY PoolAssumption DEF Init, RunnerTypeOK, Ages
<1>4. CallTypeOK
  BY PoolAssumption DEF Init, CallTypeOK
<1>5. TaskTypeOK
  <2>1. \A t \in Task : task[t] = Idle /\ TaskOK(Idle, routed)
    BY IdleOK DEF Init
  <2>2. Idle \in TaskState
    BY DEF Idle, Handler, HandlerWith, TaskState, PC
  <2> QED BY <2>1, <2>2 DEF Init, TaskTypeOK
<1>6. clobbered \in BOOLEAN
  BY DEF Init
<1> QED BY <1>1, <1>2, <1>3, <1>4, <1>5, <1>6 DEF TypeOK

LEMMA UnchangedOK ==
    ASSUME TypeOK
    PROVE /\ NoScript => RedisTypeOK' /\ clobbered' \in BOOLEAN
          /\ UNCHANGED <<runnerVars, stray>> => RunnerTypeOK'
          /\ UNCHANGED callVars => routed' = routed
          /\ UNCHANGED <<up, callVars>> => CallTypeOK'
          /\ UNCHANGED workerVars => WorkerTypeOK'
          /\ UNCHANGED <<task, routed>> => TaskTypeOK'
<1>1. NoScript => RedisTypeOK' /\ clobbered' \in BOOLEAN
  BY DEF TypeOK, RedisTypeOK, NoScript, redisVars
<1>2. UNCHANGED <<runnerVars, stray>> => RunnerTypeOK'
  BY DEF TypeOK, RunnerTypeOK, runnerVars
<1>3. UNCHANGED callVars => routed' = routed
  BY DEF callVars
<1>4. UNCHANGED <<up, callVars>> => CallTypeOK'
  BY DEF TypeOK, CallTypeOK, callVars
<1>5. UNCHANGED workerVars => WorkerTypeOK'
  BY DEF TypeOK, WorkerTypeOK, workerVars
<1>6. UNCHANGED <<task, routed>> => TaskTypeOK'
  BY DEF TypeOK, TaskTypeOK
<1> QED BY <1>1, <1>2, <1>3, <1>4, <1>5, <1>6

(* A step that only moves a handler on. *)
LEMMA OnlyTaskOK ==
    ASSUME TypeOK, OnlyTask, TaskTypeOK'
    PROVE TypeOK'
BY UnchangedOK DEF OnlyTask, envVars, TypeOK

LEMMA OnlyTaskRouted == OnlyTask => UNCHANGED routed
BY DEF OnlyTask, envVars, callVars

(* A script runs, and handler t moves on. *)
LEMMA ScriptStepOK ==
    ASSUME TypeOK, RedisTypeOK', clobbered' \in BOOLEAN, TaskTypeOK',
           UNCHANGED <<runnerVars, envVars, stray>>
    PROVE TypeOK'
BY UnchangedOK DEF TypeOK, envVars

(* What a handler that is about to take a step knows. *)
LEMMA KnownOK ==
    ASSUME TypeOK, NEW t \in Task, task[t].pc # "idle"
    PROVE /\ TaskTypeOK /\ TaskOK(task[t], routed) /\ ~At(t, "idle")
          /\ task[t].pc \in PC /\ task[t].runner \in Runner
          /\ task[t].call \in Call \cup {NoCall}
          /\ task[t].worker \in Worker \cup {NoWorker}
          /\ task[t].cands \in SUBSET Worker /\ task[t].tries \in Nat
          /\ task[t].pc \in HasCall => task[t].call \in Call
          /\ task[t].pc \in HasReservation => /\ task[t].call \in Outbound
                                              /\ routed[task[t].call] \in Worker
          /\ task[t].pc \in HasWorker => task[t].worker \in Worker
          /\ pool[task[t].runner] \in SUBSET Worker /\ up \in SUBSET Worker
BY DEF TypeOK, TaskTypeOK, TaskOK, TaskState, At, RunnerTypeOK, CallTypeOK

LEMMA ClaimOK ==
    ASSUME TypeOK, NEW t \in Task,
           Claim(t) \/ ClaimAllBusy(t) \/ ClaimLost(t) \/ StartOver(t)
    PROVE TypeOK'
<1> DEFINE k == task[t]
<1>1. k.pc \in {"claim", "backoff"} /\ k.pc # "idle" /\ k.pc \in HasCall /\ k.call \in Call
  BY KnownOK DEF Claim, ClaimAllBusy, ClaimLost, StartOver, At, HasCall, PC
<1>2. k.cands \in SUBSET Worker /\ k.tries \in Nat /\ TaskTypeOK /\ ~At(t, "idle")
  BY <1>1, KnownOK
<1>3. CASE Claim(t)
  <2>1. PICK w \in k.cands : Claim1(k.cands, k.call, w) /\ GotoWith(t, "cache", w)
    BY <1>3 DEF Claim
  <2>2. UNCHANGED <<runnerVars, envVars, stray>> /\ UNCHANGED routed
    BY <1>3 DEF Claim, envVars, callVars
  <2>3. RedisTypeOK' /\ clobbered' \in BOOLEAN
    BY <1>1, <1>2, <2>1, ScriptsOK DEF TypeOK
  <2>4. TaskTypeOK'
    BY <1>1, <1>2, <2>1, <2>2, GotoOK DEF PC, HasCall, HasReservation, HasWorker
  <2> QED BY <2>2, <2>3, <2>4, ScriptStepOK
<1>4. CASE ClaimAllBusy(t)
  <2> DEFINE n == k.tries - (k.tries % RedisRetries)
  <2>1. n \in Nat
    BY <1>2, PoolAssumption
  <2>2. TaskOK(Moved(k, "noworker", NoWorker, {}, n), routed)
    <3> HIDE DEF n
    <3> QED BY <1>1, <1>2, <2>1, KnownOK, MoveOK DEF PC, HasCall, HasReservation, HasWorker
  <2>3. OnlyTask /\ Become(t, Moved(k, "noworker", NoWorker, {}, n)) /\ UNCHANGED routed
    BY <1>4, OnlyTaskRouted DEF ClaimAllBusy
  <2>4. TaskTypeOK'
    <3> HIDE DEF n
    <3> QED BY <1>2, <2>2, <2>3, BecomeOK DEF TaskTypeOK
  <2> QED BY <2>3, <2>4, OnlyTaskOK
<1>5. CASE ClaimLost(t)
  <2>1. PICK w \in k.cands : Claim1(k.cands, k.call, w)
    BY <1>5 DEF ClaimLost
  <2>2. /\ UNCHANGED <<runnerVars, envVars, stray>> /\ UNCHANGED routed
        /\ At(t, "claim") /\ FailedClaim(t)
    BY <1>5 DEF ClaimLost, envVars, callVars
  <2>3. RedisTypeOK' /\ clobbered' \in BOOLEAN
    BY <1>1, <1>2, <2>1, ScriptsOK DEF TypeOK
  <2> QED BY <2>2, <2>3, FailedClaimOK, ScriptStepOK
<1>6. CASE StartOver(t)
  <2>1. Become(t, Snapshot(k, pool[k.runner], k.tries)) /\ OnlyTask /\ UNCHANGED routed
    BY <1>6, OnlyTaskRouted DEF StartOver
  <2>2. TaskTypeOK'
    BY <1>1, <1>2, <2>1, KnownOK, SnapshotStepOK
  <2> QED BY <2>1, <2>2, OnlyTaskOK
<1> QED BY <1>3, <1>4, <1>5, <1>6

LEMMA CacheAssignmentOK ==
    ASSUME TypeOK, NEW t \in Task, CacheAssignment(t)
    PROVE TypeOK'
<1> DEFINE k == task[t]
<1>1. k.pc = "cache" /\ k.call \in Call /\ k.worker \in Worker /\ k.runner \in Runner
  BY KnownOK DEF CacheAssignment, At, HasCall, HasWorker, PC
<1>2. /\ local' = [local EXCEPT ![k.runner][k.worker] = k.call]
      /\ age' = [age EXCEPT ![k.runner][k.worker] = "young"]
      /\ Send(IF k.call \in Sid THEN {} ELSE {PrewarmPost(k.worker, k.call)})
      /\ NoScript
      /\ UNCHANGED <<pool, fails, probe, reap, drain, gone, up, phase, hooks, stray>>
  BY <1>1 DEF CacheAssignment
<1>3. RunnerTypeOK'
  BY <1>1, <1>2 DEF TypeOK, RunnerTypeOK, Ages
<1>4. WorkerTypeOK'
  BY <1>1, <1>2, SendOK, PostsOK DEF TypeOK
<1>5. RedisTypeOK' /\ clobbered' \in BOOLEAN
  BY <1>2, UnchangedOK
<1>6. CallTypeOK' /\ TaskTypeOK'
  <2>1. CASE IsOutbound(t)
    <3>1. Goto(t, "dial") /\ routed' = [routed EXCEPT ![k.call] = k.worker]
      BY <2>1 DEF CacheAssignment
    <3>2. CallTypeOK'
      BY <1>1, <1>2, <3>1 DEF TypeOK, CallTypeOK
    <3>3. \A u \in Task : TaskOK(task[u], routed')
      BY <1>1, <3>1, RoutingOK DEF TypeOK, CallTypeOK, TaskTypeOK
    <3>4. routed'[k.call] = k.worker
      BY <1>1, <3>1 DEF TypeOK, CallTypeOK
    <3>5. TaskOK(Moved(k, "dial", k.worker, {}, 0), routed')
      BY <1>1, <2>1, <3>3, <3>4, MoveOK DEF PC, HasCall, HasReservation, IsOutbound
    <3>6. TaskTypeOK'
      BY <3>1, <3>3, <3>5, BecomeOK DEF Goto, GotoWith, TypeOK
    <3> QED BY <3>2, <3>6
  <2>2. CASE ~IsOutbound(t)
    <3>1. Goto(t, "respond") /\ UNCHANGED routed
      BY <2>2 DEF CacheAssignment
    <3>2. CallTypeOK'
      BY <1>2, <3>1 DEF TypeOK, CallTypeOK
    <3>3. TaskTypeOK'
      BY <1>1, <3>1, GotoOK DEF Goto, TypeOK, At, PC, HasReservation
    <3> QED BY <3>2, <3>3
  <2> QED BY <2>1, <2>2
<1> QED BY <1>3, <1>4, <1>5, <1>6 DEF TypeOK

(* The steps after which get_and_assign_worker starts anew or ends. *)
LEMMA AssignmentEndsOK ==
    ASSUME TypeOK, NEW t \in Task,
           CacheMissing(t) \/ DiscoverAndRetry(t) \/ GiveUp(t)
    PROVE TypeOK'
<1> DEFINE k == task[t]
<1>1. /\ k.pc \in {"cache", "noworker", "reject"} /\ k.pc # "idle" /\ k.pc \in HasCall
      /\ k.call \in Call /\ k.runner \in Runner /\ TaskTypeOK /\ ~At(t, "idle")
  BY KnownOK DEF CacheMissing, DiscoverAndRetry, GiveUp, At, HasCall, PC
<1>2. CASE CacheMissing(t)
  <2>1. k.worker \in Worker
    BY <1>1, <1>2, KnownOK DEF CacheMissing, At, HasWorker
  <2>2. /\ stray' = stray \cup {[runner |-> k.runner, worker |-> k.worker, call |-> k.call]}
        /\ GotoWith(t, "noworker", NoWorker) /\ NoScript
        /\ UNCHANGED <<runnerVars, envVars>> /\ UNCHANGED routed
    BY <1>2 DEF CacheMissing, envVars, callVars
  <2>3. RunnerTypeOK'
    BY <1>1, <2>1, <2>2 DEF TypeOK, RunnerTypeOK, runnerVars, Stray
  <2>4. TaskTypeOK'
    BY <1>1, <2>2, GotoOK DEF PC, HasCall, HasReservation, HasWorker
  <2> QED BY <2>2, <2>3, <2>4, UnchangedOK DEF TypeOK, envVars
<1>3. CASE DiscoverAndRetry(t)
  <2> DEFINE known == pool[k.runner] \cup up
  <2>1. /\ DiscoverOn(k.runner) /\ Become(t, Snapshot(Again(k), known, k.tries))
        /\ NoScript /\ UNCHANGED <<envVars, stray>> /\ UNCHANGED routed
    BY <1>3 DEF DiscoverAndRetry, envVars, callVars
  <2>2. RunnerTypeOK'
    BY <1>1, <2>1, DiscoverOK DEF TypeOK, CallTypeOK
  <2>3. /\ TaskOK(Again(k), routed) /\ Again(k).pc # "idle" /\ Again(k).call \in Call
        /\ known \in SUBSET Worker /\ k.tries \in Nat
    BY <1>1, KnownOK, AgainOK DEF Again
  <2>4. TaskTypeOK'
    BY <2>1, <2>3, SnapshotStepOK
  <2> QED BY <2>1, <2>2, <2>4, UnchangedOK DEF TypeOK, envVars
<1>4. CASE GiveUp(t)
  <2>1. /\ Finish(t) /\ NoScript
        /\ UNCHANGED <<runnerVars, workerVars, up, routed, hooks, stray>>
        /\ phase' = IF IsOutbound(t) THEN [phase EXCEPT ![k.call] = "ended"] ELSE phase
    BY <1>4 DEF GiveUp
  <2>2. CallTypeOK'
    BY <2>1 DEF TypeOK, CallTypeOK
  <2>3. TaskTypeOK'
    BY <1>1, <2>1, FinishOK DEF TaskTypeOK
  <2> QED BY <2>1, <2>2, <2>3, UnchangedOK DEF TypeOK
<1> QED BY <1>2, <1>3, <1>4

LEMMA LookedUpOK ==
    ASSUME TypeOK, NEW t \in Task,
           LookedUp(t) \/ LookedUpAfterDiscovery(t) \/ LookedUpNone(t)
    PROVE TypeOK'
<1> DEFINE k == task[t]
           w == callKey[k.call]
<1>1. /\ k.pc = "getw" /\ k.pc # "idle" /\ k.call \in Call /\ k.runner \in Runner
      /\ TaskTypeOK /\ ~At(t, "idle") /\ w \in Worker \cup {NoWorker}
      /\ TaskOK(k, routed) /\ pool[k.runner] \in SUBSET Worker
      /\ pool[k.runner] \cup up \in SUBSET Worker /\ 0 \in Nat
  BY KnownOK DEF LookedUp, LookedUpAfterDiscovery, LookedUpNone, At, HasCall, PC,
                 TypeOK, RedisTypeOK
<1>2. CASE LookedUp(t)
  <2>1. w \in Worker /\ GotoWith(t, "respond", w) /\ OnlyTask /\ UNCHANGED routed
    BY <1>1, <1>2, OnlyTaskRouted DEF LookedUp
  <2>2. TaskTypeOK'
    BY <1>1, <2>1, GotoOK DEF PC, HasReservation
  <2> QED BY <2>1, <2>2, OnlyTaskOK
<1>3. CASE LookedUpAfterDiscovery(t)
  <2>1. /\ DiscoverOn(k.runner) /\ NoScript /\ UNCHANGED <<envVars, stray>> /\ w # NoWorker
        /\ UNCHANGED routed
        /\ \/ GotoWith(t, "respond", w)
           \/ Become(t, Snapshot(k, pool[k.runner] \cup up, 0))
    BY <1>3 DEF LookedUpAfterDiscovery, envVars, callVars
  <2>2. RunnerTypeOK'
    BY <1>1, <2>1, DiscoverOK DEF TypeOK, CallTypeOK
  <2>3. CASE GotoWith(t, "respond", w)
    <3>1. TaskTypeOK'
      BY <1>1, <2>1, <2>3, GotoOK DEF PC, HasReservation
    <3> QED BY <2>1, <2>2, <3>1, UnchangedOK DEF TypeOK, envVars
  <2>4. CASE Become(t, Snapshot(k, pool[k.runner] \cup up, 0))
    <3>1. TaskTypeOK'
      BY <1>1, <2>1, <2>4, SnapshotStepOK
    <3> QED BY <2>1, <2>2, <3>1, UnchangedOK DEF TypeOK, envVars
  <2> QED BY <2>1, <2>3, <2>4
<1>4. CASE LookedUpNone(t)
  <2>1. Become(t, Snapshot(k, pool[k.runner], 0)) /\ OnlyTask /\ UNCHANGED routed
    BY <1>4, OnlyTaskRouted DEF LookedUpNone
  <2>2. TaskTypeOK'
    BY <1>1, <2>1, SnapshotStepOK
  <2> QED BY <2>1, <2>2, OnlyTaskOK
<1> QED BY <1>2, <1>3, <1>4

LEMMA RespondOK ==
    ASSUME TypeOK, NEW t \in Task, Respond(t) \/ RespondFails(t)
    PROVE TypeOK'
<1> DEFINE k == task[t]
<1>1. /\ k.pc = "respond" /\ k.call \in Call /\ k.worker \in Worker
      /\ TaskTypeOK /\ ~At(t, "idle")
  BY KnownOK DEF Respond, RespondFails, At, HasCall, HasWorker, PC
<1>2. CASE Respond(t)
  <2>1. /\ routed' = [routed EXCEPT ![k.call] = k.worker] /\ Finish(t) /\ NoScript
        /\ UNCHANGED <<runnerVars, workerVars, up, phase, hooks, stray>>
    BY <1>2 DEF Respond
  <2>2. CallTypeOK'
    BY <1>1, <2>1 DEF TypeOK, CallTypeOK
  <2>3. \A u \in Task : TaskOK(task[u], routed')
    BY <1>1, <2>1, RoutingOK DEF TypeOK, CallTypeOK, TaskTypeOK
  <2>4. TaskTypeOK'
    BY <1>1, <2>1, <2>3, FinishOK
  <2> QED BY <2>1, <2>2, <2>4, UnchangedOK DEF TypeOK
<1>3. CASE RespondFails(t)
  <2>1. GotoWith(t, "lookup", NoWorker) /\ OnlyTask /\ UNCHANGED routed
    BY <1>3, OnlyTaskRouted DEF RespondFails
  <2>2. TaskTypeOK'
    BY <1>1, <2>1, GotoOK DEF PC, HasReservation, HasWorker
  <2> QED BY <2>1, <2>2, OnlyTaskOK
<1> QED BY <1>2, <1>3

LEMMA DialOK ==
    ASSUME TypeOK, NEW t \in Task, Dial(t) \/ DialFails(t) \/ DialLost(t)
    PROVE TypeOK'
<1> DEFINE k == task[t]
           c == SidOf[k.call]
<1>1. /\ k.pc = "dial" /\ k.call \in Call /\ k.call \in Outbound /\ c \in Call
      /\ k.worker \in Worker /\ routed[k.call] \in Worker /\ k.pc # "idle"
      /\ TaskTypeOK /\ TaskOK(k, routed)
  BY KnownOK, PoolAssumption
  DEF Dial, DialFails, DialLost, At, HasCall, HasWorker, HasReservation, PC
<1>2. ASSUME NEW pc \in {"find", "lookup"}, Dialled(t), GotoWith(t, pc, NoWorker),
             NoScript, UNCHANGED <<runnerVars, workerVars, up, hooks, stray>>
      PROVE TypeOK'
  <2>1. /\ phase' = [phase EXCEPT ![k.call] = "ended", ![c] = "live"]
        /\ \/ routed' = routed
           \/ routed' = [routed EXCEPT ![c] = k.worker]
    BY <1>2 DEF Dialled
  <2>2. CallTypeOK'
    BY <1>1, <1>2, <2>1 DEF TypeOK, CallTypeOK
  <2>3. \A u \in Task : TaskOK(task[u], routed')
    BY <1>1, <2>1, RoutingOK DEF TypeOK, CallTypeOK, TaskTypeOK
  <2>4. routed'[k.call] \in Worker
    BY <1>1, <2>1 DEF TypeOK, CallTypeOK
  <2>5. TaskOK(Moved(k, pc, NoWorker, {}, 0), routed')
    BY <1>1, <2>3, <2>4, MoveOK DEF PC, HasWorker
  <2>6. TaskTypeOK'
    BY <1>1, <1>2, <2>3, <2>5, BecomeOK DEF GotoWith
  <2> QED BY <1>2, <2>2, <2>6, UnchangedOK DEF TypeOK
<1>3. CASE DialFails(t)
  <2>1. /\ phase' = [phase EXCEPT ![k.call] = "ended"] /\ GotoWith(t, "lookup", NoWorker)
        /\ NoScript /\ UNCHANGED <<runnerVars, workerVars, up, routed, hooks, stray>>
    BY <1>3 DEF DialFails
  <2>2. CallTypeOK'
    BY <2>1 DEF TypeOK, CallTypeOK
  <2>3. TaskTypeOK'
    BY <1>1, <2>1, GotoOK DEF At, PC, HasReservation, HasWorker
  <2> QED BY <2>1, <2>2, <2>3, UnchangedOK DEF TypeOK
<1> QED BY <1>2, <1>3 DEF Dial, DialLost

(* A handler ends, having changed the local cache and sent prewarm requests. *)
LEMMA CacheStepOK ==
    ASSUME TypeOK, NEW t \in Task, Finish(t), OnlyTaskAndCache, WorkerTypeOK',
           local' \in [Runner -> [Worker -> Call \cup {NoCall}]],
           age' \in [Runner -> [Worker -> Ages]]
    PROVE TypeOK'
<1>1. RedisTypeOK' /\ clobbered' \in BOOLEAN
  BY UnchangedOK DEF OnlyTaskAndCache
<1>2. RunnerTypeOK'
  BY DEF TypeOK, RunnerTypeOK, OnlyTaskAndCache
<1>3. CallTypeOK' /\ UNCHANGED routed
  BY DEF TypeOK, CallTypeOK, OnlyTaskAndCache, callVars
<1>4. TaskTypeOK'
  BY <1>3, FinishOK DEF TypeOK, TaskTypeOK
<1> QED BY <1>1, <1>2, <1>3, <1>4 DEF TypeOK

LEMMA ReassignOK ==
    ASSUME TypeOK, NEW t \in Task,
           Find(t) \/ FindNone(t) \/ Rekey(t) \/ Recache(t)
    PROVE TypeOK'
<1> DEFINE k == task[t]
           c == SidOf[k.call]
<1>1. /\ k.pc \in {"find", "rekey", "recache"} /\ k.pc # "idle" /\ k.runner \in Runner
      /\ k.call \in Call /\ k.call \in Outbound /\ routed[k.call] \in Worker /\ c \in Call
      /\ TaskTypeOK /\ ~At(t, "idle")
  BY KnownOK, PoolAssumption
  DEF Find, FindNone, Rekey, Recache, At, HasCall, HasReservation, PC
<1>2. ASSUME SendReassign(k.call) PROVE WorkerTypeOK'
  BY <1>1, <1>2, PostsOK, SendOK DEF TypeOK, SendReassign
<1>3. CASE Find(t)
  <2> DEFINE w == callKey[k.call]
  <2>1. w \in Worker /\ GotoWith(t, "rekey", w) /\ OnlyTask /\ UNCHANGED routed
    BY <1>1, <1>3, OnlyTaskRouted DEF Find, TypeOK, RedisTypeOK
  <2>2. TaskTypeOK'
    BY <1>1, <2>1, GotoOK DEF PC
  <2> QED BY <2>1, <2>2, OnlyTaskOK
<1>4. CASE FindNone(t)
  BY <1>2, <1>4, CacheStepOK DEF FindNone, TypeOK, RunnerTypeOK
<1>5. CASE Rekey(t)
  <2>1. /\ RunReassign(k.call, c, k.worker) /\ UNCHANGED <<runnerVars, envVars, stray>>
        /\ UNCHANGED routed /\ k.worker \in Worker
        /\ Goto(t, "recache") \/ FailedAttempt(t, "recache")
    BY <1>5, KnownOK DEF Rekey, envVars, callVars, At, HasWorker
  <2>2. RedisTypeOK' /\ clobbered' \in BOOLEAN
    BY <1>1, <2>1, ScriptsOK DEF TypeOK
  <2>3. TaskTypeOK'
    BY <1>1, <2>1, GotoOK, FailedAttemptOK DEF Goto, PC
  <2> QED BY <2>1, <2>2, <2>3, ScriptStepOK
<1>6. CASE Recache(t)
  <2>1. k.worker \in Worker
    BY <1>6, KnownOK DEF Recache, At, HasWorker
  <2>2. /\ \/ local' = local
           \/ local' = [local EXCEPT ![k.runner][k.worker] = c]
        /\ UNCHANGED age /\ SendReassign(k.call) /\ Finish(t) /\ OnlyTaskAndCache
    BY <1>6 DEF Recache
  <2>3. local' \in [Runner -> [Worker -> Call \cup {NoCall}]]
    <3>1. local \in [Runner -> [Worker -> Call \cup {NoCall}]]
      BY DEF TypeOK, RunnerTypeOK
    <3>2. [local EXCEPT ![k.runner][k.worker] = c] \in [Runner -> [Worker -> Call \cup {NoCall}]]
      BY <1>1, <2>1, <3>1
    <3> QED BY <2>2, <3>1, <3>2
  <2> QED BY <1>2, <2>2, <2>3, CacheStepOK DEF TypeOK, RunnerTypeOK
<1> QED BY <1>3, <1>4, <1>5, <1>6

LEMMA LookupOK ==
    ASSUME TypeOK, NEW t \in Task,
           Lookup(t) \/ LookupAgain(t) \/ LookupGivesUp(t)
    PROVE TypeOK'
<1> DEFINE k == task[t]
<1>1. /\ k.pc = "lookup" /\ k.pc # "idle" /\ k.runner \in Runner /\ k.call \in Call
      /\ k.tries + 1 \in Nat /\ TaskTypeOK /\ ~At(t, "idle")
  BY KnownOK DEF Lookup, LookupAgain, LookupGivesUp, At, HasCall, PC
<1>2. CASE Lookup(t)
  <2> DEFINE w == callKey[k.call]
  <2>1. w \in Worker /\ GotoWith(t, "release", w) /\ OnlyTask /\ UNCHANGED routed
    BY <1>1, <1>2, OnlyTaskRouted DEF Lookup, TypeOK, RedisTypeOK
  <2>2. TaskTypeOK'
    BY <1>1, <2>1, GotoOK DEF PC, HasReservation
  <2> QED BY <2>1, <2>2, OnlyTaskOK
<1>3. CASE LookupAgain(t)
  BY <1>1, <1>3, OnlyTaskRouted, RetryOK, OnlyTaskOK DEF LookupAgain
<1>4. CASE LookupGivesUp(t)
  <2> DEFINE held == {w \in pool[k.runner] : local[k.runner][w] = k.call}
  <2>1. held \subseteq Worker
    BY <1>1, KnownOK
  <2>2. PICK ws, ps : Forget(k.runner, ws) /\ Send(ps) /\ ps \in SUBSET Post
    <3>1. CASE held = {}
      BY <1>4, <3>1 DEF LookupGivesUp
    <3>2. CASE held # {}
      <4>1. PICK w \in held : Forget(k.runner, {w}) /\ Send({CancelPost(w, k.call)})
        BY <1>4, <3>2 DEF LookupGivesUp
      <4>2. {CancelPost(w, k.call)} \in SUBSET Post
        BY <1>1, <2>1, <4>1, PostsOK
      <4> QED BY <4>1, <4>2
    <3> QED BY <3>1, <3>2
  <2>3. WorkerTypeOK'
    BY <2>2, SendOK DEF TypeOK
  <2>4. Finish(t) /\ OnlyTaskAndCache
    BY <1>4 DEF LookupGivesUp
  <2> QED BY <1>1, <2>2, <2>3, <2>4, ForgetOK, CacheStepOK DEF TypeOK
<1> QED BY <1>2, <1>3, <1>4

LEMMA ReleaseOK ==
    ASSUME TypeOK, NEW t \in Task, Release(t) \/ Uncache(t) \/ AdminScript(t)
    PROVE TypeOK'
<1> DEFINE k == task[t]
<1>1. /\ k.pc \in {"release", "uncache", "admin"} /\ k.pc # "idle" /\ k.runner \in Runner
      /\ k.worker \in Worker /\ k.call \in Call \cup {NoCall}
      /\ TaskTypeOK /\ ~At(t, "idle")
  BY KnownOK DEF Release, Uncache, AdminScript, At, HasWorker, PC
<1>2. ASSUME RedisTypeOK', clobbered' \in BOOLEAN, UNCHANGED <<runnerVars, envVars, stray>>,
             Goto(t, "uncache") \/ FailedAttempt(t, "uncache")
      PROVE TypeOK'
  <2>1. UNCHANGED routed
    BY <1>2 DEF envVars, callVars
  <2>2. TaskTypeOK'
    BY <1>1, <1>2, <2>1, GotoOK, FailedAttemptOK DEF Goto, PC, HasCall, HasReservation
  <2> QED BY <1>2, <2>2, ScriptStepOK
<1>3. CASE Release(t)
  <2>1. k.call \in Call
    BY <1>3, KnownOK DEF Release, At, HasCall, PC
  <2>2. RedisTypeOK' /\ clobbered' \in BOOLEAN
    BY <1>1, <1>3, <2>1, ScriptsOK DEF Release, TypeOK
  <2> QED BY <1>2, <1>3, <2>2 DEF Release
<1>4. CASE AdminScript(t)
  <2>1. CASE k.call # NoCall
    <3>1. k.call \in Call /\ RunRelease(k.worker, k.call)
      BY <1>1, <1>4, <2>1 DEF AdminScript
    <3>2. RedisTypeOK' /\ clobbered' \in BOOLEAN
      BY <1>1, <3>1, ScriptsOK DEF TypeOK
    <3> QED BY <1>2, <1>4, <3>2 DEF AdminScript
  <2>2. CASE k.call = NoCall
    <3>1. RunClear(k.worker)
      BY <1>4, <2>2 DEF AdminScript
    <3>2. RedisTypeOK'
      BY <3>1 DEF TypeOK, RedisTypeOK, RunClear, ClearWorkerState
    <3>3. clobbered' \in BOOLEAN
      BY <3>1, Zenon DEF TypeOK, RunClear
    <3> QED BY <1>2, <1>4, <3>2, <3>3 DEF AdminScript
  <2> QED BY <2>1, <2>2
<1>5. CASE Uncache(t)
  <2> DEFINE found == pool[k.runner] \cap {k.worker}
             ps == IF k.call = NoCall THEN {} ELSE {CancelPost(w, k.call) : w \in found}
  <2>1. Forget(k.runner, found) /\ Send(ps) /\ Finish(t) /\ OnlyTaskAndCache
    BY <1>5 DEF Uncache
  <2>2. ps \in SUBSET Post
    BY <1>1, PostsOK
  <2>3. WorkerTypeOK'
    <3> HIDE DEF ps
    <3> QED BY <2>1, <2>2, SendOK DEF TypeOK
  <2> QED BY <1>1, <2>1, <2>3, ForgetOK, CacheStepOK DEF TypeOK
<1> QED BY <1>3, <1>4, <1>5

LEMMA ScriptErrorOK ==
    ASSUME TypeOK, NEW t \in Task, ScriptError(t)
    PROVE TypeOK'
<1>1. OnlyTask /\ UNCHANGED routed /\ task[t].pc # "idle"
  BY OnlyTaskRouted DEF ScriptError, At
<1>2. CASE At(t, "claim") /\ FailedClaim(t)
  BY <1>1, <1>2, FailedClaimOK, OnlyTaskOK
<1>3. CASE At(t, "rekey") /\ FailedAttempt(t, "recache")
  BY <1>1, <1>3, KnownOK, FailedAttemptOK, OnlyTaskOK
  DEF At, PC, HasCall, HasReservation, HasWorker
<1>4. CASE task[t].pc \in {"release", "admin"} /\ FailedAttempt(t, "uncache")
  BY <1>1, <1>4, KnownOK, FailedAttemptOK, OnlyTaskOK
  DEF PC, HasCall, HasReservation, HasWorker
<1> QED BY <1>2, <1>3, <1>4 DEF ScriptError

LEMMA StepOK ==
    ASSUME TypeOK, NEW t \in Task, Step(t)
    PROVE TypeOK'
BY ClaimOK, CacheAssignmentOK, AssignmentEndsOK, LookedUpOK, RespondOK, DialOK,
   ReassignOK, LookupOK, ReleaseOK, ScriptErrorOK
DEF Step

LEMMA RequestOK ==
    ASSUME TypeOK, NEW t \in Task, NEW r \in Runner, Request(t, r)
    PROVE TypeOK'
<1>1. TaskTypeOK /\ 0 \in Nat /\ pool[r] \in SUBSET Worker
  BY DEF TypeOK, RunnerTypeOK
<1>2. ASSUME NEW c \in Call, NewCall(t, r, c) PROVE TypeOK'
  <2>1. /\ phase' = [phase EXCEPT ![c] = "live"] /\ NoScript
        /\ Become(t, Snapshot(Handler("claim", r, c), pool[r], 0))
        /\ UNCHANGED <<runnerVars, workerVars, up, routed, hooks, stray>>
    BY <1>2 DEF NewCall
  <2>2. CallTypeOK'
    BY <2>1 DEF TypeOK, CallTypeOK
  <2>3. TaskOK(Handler("claim", r, c), routed)
    BY HandlerOK
  <2>4. Handler("claim", r, c).pc # "idle" /\ Handler("claim", r, c).call \in Call
    BY DEF Handler, HandlerWith
  <2>5. TaskTypeOK'
    BY <1>1, <2>1, <2>3, <2>4, SnapshotStepOK
  <2> QED BY <2>1, <2>2, <2>5, UnchangedOK DEF TypeOK
<1>3. ASSUME NEW c \in Call, AnsweredCall(t, r, c) PROVE TypeOK'
  <2>1. /\ phase' = [phase EXCEPT ![c] = "answered"] /\ NoScript
        /\ Become(t, Handler("getw", r, c))
        /\ UNCHANGED <<runnerVars, workerVars, up, routed, hooks, stray>>
    BY <1>3 DEF AnsweredCall
  <2>2. CallTypeOK'
    BY <2>1 DEF TypeOK, CallTypeOK
  <2>3. TaskOK(Handler("getw", r, c), routed)
    BY HandlerOK
  <2>4. TaskTypeOK'
    BY <1>1, <2>1, <2>3, BecomeOK DEF TaskTypeOK
  <2> QED BY <2>1, <2>2, <2>4, UnchangedOK DEF TypeOK
<1>4. ASSUME NEW c \in Call, TerminalHook(t, r, c) PROVE TypeOK'
  <2>1. /\ hooks' = [hooks EXCEPT ![c] = @ + 1] /\ hooks[c] < MaxHooks /\ NoScript
        /\ Become(t, Handler("lookup", r, c))
        /\ UNCHANGED <<runnerVars, workerVars, up, phase, routed, stray>>
    BY <1>4 DEF TerminalHook
  <2>2. CallTypeOK'
    <3>1. hooks[c] + 1 \in 0..MaxHooks
      BY <2>1, PoolAssumption DEF TypeOK, CallTypeOK
    <3> QED BY <2>1, <3>1 DEF TypeOK, CallTypeOK
  <2>3. TaskOK(Handler("lookup", r, c), routed)
    BY HandlerOK
  <2>4. TaskTypeOK'
    BY <1>1, <2>1, <2>3, BecomeOK DEF TaskTypeOK
  <2> QED BY <2>1, <2>2, <2>4, UnchangedOK DEF TypeOK
<1>5. ASSUME NEW w \in Worker, AdminRelease(t, r, w) PROVE TypeOK'
  <2>1. Become(t, HandlerWith("admin", r, local[r][w], w)) /\ OnlyTask /\ UNCHANGED routed
    BY <1>5, OnlyTaskRouted DEF AdminRelease
  <2>2. local[r][w] \in Call \cup {NoCall}
    BY DEF TypeOK, RunnerTypeOK
  <2>3. TaskOK(HandlerWith("admin", r, local[r][w], w), routed)
    BY <2>2 DEF TaskOK, TaskState, HandlerWith, PC, HasCall, HasReservation, HasWorker
  <2>4. TaskTypeOK'
    BY <1>1, <2>1, <2>3, BecomeOK DEF TaskTypeOK
  <2> QED BY <2>1, <2>4, OnlyTaskOK
<1> QED BY <1>2, <1>3, <1>4, <1>5 DEF Request

(* A background coroutine of a runner takes a step. *)
LEMMA BackgroundStepOK ==
    ASSUME TypeOK, NoScript, RunnerTypeOK', UNCHANGED <<envVars, task>>
    PROVE TypeOK'
BY UnchangedOK DEF TypeOK, envVars, callVars

LEMMA ProbeOK ==
    ASSUME TypeOK, NEW r \in Runner, NEW w \in Worker,
           ProbeAnswered(r, w) \/ ProbeRead(r, w) \/ ProbeFails(r, w) \/ Age(r, w)
    PROVE TypeOK'
<1> SUFFICES RunnerTypeOK'
  BY BackgroundStepOK DEF ProbeAnswered, ProbeRead, ProbeFails, Age
<1>1. /\ probe \in [Runner -> [Worker -> Call \cup {NoCall, NoProbe}]]
      /\ local \in [Runner -> [Worker -> Call \cup {NoCall}]]
      /\ fails \in [Runner -> [Worker -> 0..Unhealthy]]
      /\ serving \in [Worker -> Call \cup {NoCall}]
      /\ Unhealthy \in Nat /\ stray \subseteq Stray /\ RunnerTypeOK
  BY PoolAssumption DEF TypeOK, RunnerTypeOK, WorkerTypeOK
<1>2. CASE ProbeAnswered(r, w)
  BY <1>1, <1>2 DEF ProbeAnswered, RunnerTypeOK
<1>3. CASE ProbeRead(r, w)
  <2> DEFINE answer == probe[r][w]
             c == local[r][w]
  <2>1. /\ probe' = [probe EXCEPT ![r][w] = NoProbe]
        /\ fails' = [fails EXCEPT ![r][w] = 0]
        /\ UNCHANGED <<pool, reap, drain, gone>>
        /\ answer # NoProbe
    BY <1>3 DEF ProbeRead
  <2>2. /\ probe' \in [Runner -> [Worker -> Call \cup {NoCall, NoProbe}]]
        /\ fails' \in [Runner -> [Worker -> 0..Unhealthy]]
    BY <1>1, <2>1
  <2>3. CASE c # NoCall /\ Forget(r, {w})
             /\ stray' = stray \cup {[runner |-> r, worker |-> w, call |-> c]}
    <3>1. stray' \subseteq Stray
      BY <1>1, <2>3 DEF Stray
    <3>2. /\ local' \in [Runner -> [Worker -> Call \cup {NoCall}]]
          /\ age' \in [Runner -> [Worker -> Ages]]
      BY <1>1, <2>3, ForgetOK
    <3> QED BY <1>1, <2>1, <2>2, <3>1, <3>2 DEF RunnerTypeOK
  <2>4. CASE /\ local' = local \/ local' = [local EXCEPT ![r][w] = answer]
             /\ UNCHANGED <<age, stray>>
    <3>1. answer \in Call \cup {NoCall}
      BY <1>1, <2>1
    <3>2. [local EXCEPT ![r][w] = answer] \in [Runner -> [Worker -> Call \cup {NoCall}]]
      BY <1>1, <3>1
    <3>3. local' \in [Runner -> [Worker -> Call \cup {NoCall}]]
      BY <1>1, <2>4, <3>2
    <3>4. stray' \subseteq Stray
      BY <1>1, <2>4 DEF Stray
    <3> QED BY <1>1, <2>1, <2>2, <2>4, <3>3, <3>4 DEF RunnerTypeOK
  <2> QED BY <1>3, <2>3, <2>4 DEF ProbeRead
<1>4. CASE ProbeFails(r, w)
  <2>1. fails[r][w] + 1 \in 0..Unhealthy
    BY <1>1, <1>4 DEF ProbeFails
  <2> QED BY <1>1, <1>4, <2>1 DEF ProbeFails, RunnerTypeOK
<1>5. CASE Age(r, w)
  BY <1>1, <1>5 DEF Age, RunnerTypeOK, Ages
<1> QED BY <1>2, <1>3, <1>4, <1>5

LEMMA BackgroundOK ==
    ASSUME TypeOK, NEW r \in Runner, Background(r)
    PROVE TypeOK'
<1>1. RunnerTypeOK /\ up \subseteq Worker /\ Unhealthy \in Nat /\ stray \subseteq Stray
  BY PoolAssumption DEF TypeOK, CallTypeOK, RunnerTypeOK
<1>2. ASSUME NEW w \in Worker, DrainCheck(r, w) PROVE TypeOK'
  <2>1. /\ drain' = [drain EXCEPT ![r] = @ \ {w}]
        /\ gone' = gone \/ gone' = [gone EXCEPT ![r] = @ \cup {w}]
        /\ UNCHANGED <<pool, local, age, fails, probe, reap, stray>>
    BY <1>2 DEF DrainCheck
  <2>2. RunnerTypeOK'
    <3>1. drain' \in [Runner -> SUBSET Worker]
      BY <1>1, <2>1 DEF RunnerTypeOK
    <3>2. gone' \in [Runner -> SUBSET Worker]
      BY <1>1, <2>1 DEF RunnerTypeOK
    <3> QED BY <1>1, <2>1, <3>1, <3>2 DEF RunnerTypeOK
  <2> QED BY <1>2, <2>2, BackgroundStepOK DEF DrainCheck
<1>3. ASSUME NEW w \in Worker, DrainDelete(r, w) PROVE TypeOK'
  <2>1. Forget(r, {w})
    BY <1>3 DEF DrainDelete
  <2>2. /\ local' \in [Runner -> [Worker -> Call \cup {NoCall}]]
        /\ age' \in [Runner -> [Worker -> Ages]]
    BY <1>1, <2>1, ForgetOK
  <2>3. /\ pool' \in [Runner -> SUBSET Worker] /\ reap' \in [Runner -> SUBSET Worker]
        /\ gone' \in [Runner -> SUBSET Worker] /\ drain' \in [Runner -> SUBSET Worker]
    BY <1>1, <1>3 DEF DrainDelete, RunnerTypeOK
  <2>4. /\ fails' \in [Runner -> [Worker -> 0..Unhealthy]]
        /\ probe' \in [Runner -> [Worker -> Call \cup {NoCall, NoProbe}]]
    BY <1>1, <1>3 DEF DrainDelete, RunnerTypeOK
  <2>5. RunnerTypeOK'
    BY <1>1, <1>3, <2>2, <2>3, <2>4 DEF DrainDelete, RunnerTypeOK, Stray
  <2> QED BY <1>3, <2>5, BackgroundStepOK DEF DrainDelete
<1>4. ASSUME ReapRead(r) PROVE TypeOK'
  <2> DEFINE S == {w \in {v \in pool[r] : /\ local[r][v] # NoCall
                                         /\ age[r][v] = "old" /\ fails[r][v] = 0} : IsFree(w)}
  <2>1. reap' = [reap EXCEPT ![r] = S]
    BY <1>4 DEF ReapRead
  <2>2. S \in SUBSET Worker
    BY <1>1 DEF RunnerTypeOK
  <2>3. reap' \in [Runner -> SUBSET Worker]
    <3> HIDE DEF S
    <3> QED BY <1>1, <2>1, <2>2 DEF RunnerTypeOK
  <2>4. RunnerTypeOK'
    BY <1>1, <1>4, <2>3 DEF ReapRead, RunnerTypeOK
  <2> QED BY <1>4, <2>4, BackgroundStepOK DEF ReapRead
<1>5. ASSUME ReapApply(r) PROVE TypeOK'
  <2>1. /\ local' \in [Runner -> [Worker -> Call \cup {NoCall}]]
        /\ age' \in [Runner -> [Worker -> Ages]]
    BY <1>1, <1>5, ForgetOK DEF ReapApply
  <2>2. RunnerTypeOK'
    BY <1>1, <1>5, <2>1 DEF ReapApply, RunnerTypeOK
  <2> QED BY <1>5, <2>2, BackgroundStepOK DEF ReapApply
<1>6. ASSUME Discover(r) PROVE TypeOK'
  BY <1>1, <1>6, DiscoverOK, BackgroundStepOK DEF Discover
<1>7. ASSUME Restart(r) PROVE TypeOK'
  <2>1. /\ local' \in [Runner -> [Worker -> Call \cup {NoCall}]]
        /\ age' \in [Runner -> [Worker -> Ages]]
    BY <1>1, <1>7, ForgetOK DEF Restart
  <2>2. RunnerTypeOK'
    <3>1. /\ pool' \in [Runner -> SUBSET Worker] /\ reap' \in [Runner -> SUBSET Worker]
          /\ gone' \in [Runner -> SUBSET Worker] /\ drain' \in [Runner -> SUBSET Worker]
      BY <1>1, <1>7 DEF Restart, RunnerTypeOK
    <3>2. /\ fails' \in [Runner -> [Worker -> 0..Unhealthy]]
          /\ probe' \in [Runner -> [Worker -> Call \cup {NoCall, NoProbe}]]
      BY <1>1, <1>7 DEF Restart, RunnerTypeOK
    <3> QED BY <1>1, <1>7, <2>1, <3>1, <3>2 DEF Restart, RunnerTypeOK
  <2>3. TaskTypeOK'
    <3>1. UNCHANGED routed /\ task' = [t \in Task |-> IF task[t].runner = r THEN Idle ELSE task[t]]
      BY <1>7 DEF Restart, envVars, callVars
    <3>2. \A t \in Task : TaskOK(task'[t], routed')
      BY <3>1, IdleOK DEF TypeOK, TaskTypeOK
    <3>3. \A t \in Task : task'[t] \in TaskState
      BY <3>2 DEF TaskOK
    <3> QED BY <3>1, <3>2, <3>3 DEF TaskTypeOK
  <2> QED BY <1>7, <2>2, <2>3, UnchangedOK DEF Restart, TypeOK, envVars
<1> QED BY <1>2, <1>3, <1>4, <1>5, <1>6, <1>7, ProbeOK DEF Background

LEMMA DeliverOK ==
    ASSUME WorkerTypeOK, NEW p \in posts, Deliver(p)
    PROVE WorkerTypeOK'
<1>1. /\ p.worker \in Worker /\ p.call \in Call
      /\ p.kind = "reassign" => p.to \in Call
  BY DEF WorkerTypeOK, Post
<1>2. posts' \subseteq Post /\ UNCHANGED onair
  BY DEF WorkerTypeOK, Deliver
<1> SUFFICES /\ warm' \in [Worker -> SUBSET Call]
             /\ serving' \in [Worker -> Call \cup {NoCall}]
  BY <1>2 DEF WorkerTypeOK
<1>3. /\ warm \in [Worker -> SUBSET Call]
      /\ serving \in [Worker -> Call \cup {NoCall}]
  BY DEF WorkerTypeOK
<1>4. CASE Prewarm(p)
  BY <1>1, <1>3, <1>4 DEF Prewarm
<1>5. CASE ReassignPrewarm(p)
  <2>1. p.to \in Call
    BY <1>1, <1>5 DEF ReassignPrewarm
  <2>2. (warm[p.worker] \ {p.call}) \cup {p.to} \in SUBSET Call
    BY <1>1, <1>3, <2>1
  <2> QED BY <1>1, <1>3, <1>5, <2>1, <2>2 DEF ReassignPrewarm
<1>6. CASE CancelPrewarm(p)
  BY <1>1, <1>3, <1>6 DEF CancelPrewarm
<1> QED BY <1>4, <1>5, <1>6 DEF Deliver

LEMMA LeavingOK ==
    ASSUME CallTypeOK, NEW cs, phase' = AfterLeaving(cs), UNCHANGED <<up, routed, hooks>>
    PROVE CallTypeOK'
BY DEF CallTypeOK, AfterLeaving

(* A step of the world outside the runners that Redis does not see. *)
LEMMA WorldStepOK ==
    ASSUME TypeOK, NoScript, CallTypeOK', WorkerTypeOK',
           UNCHANGED <<runnerVars, routed, task, stray>>
    PROVE TypeOK'
BY UnchangedOK DEF TypeOK

LEMMA EnvironmentOK ==
    ASSUME TypeOK, Environment
    PROVE TypeOK'
<1>1. WorkerTypeOK /\ CallTypeOK
  BY DEF TypeOK
<1>2. ASSUME NEW c \in Call, Join(c) PROVE TypeOK'
  <2>1. routed[c] \in Worker
    BY <1>1, <1>2 DEF Join, CallTypeOK
  <2>2. WorkerTypeOK'
    BY <1>1, <1>2, <2>1 DEF Join, StartCall, WorkerTypeOK
  <2>3. CallTypeOK'
    BY <1>1, <1>2 DEF Join, CallTypeOK
  <2> QED BY <1>2, <2>2, <2>3, WorldStepOK DEF Join
<1>3. ASSUME NEW c \in Call, HangUp(c) PROVE TypeOK'
  <2>1. CallTypeOK'
    BY <1>1, <1>3 DEF HangUp, CallTypeOK
  <2> QED BY <1>3, <2>1, UnchangedOK, WorldStepOK DEF HangUp
<1>4. ASSUME NEW w \in Worker, Crash(w) PROVE TypeOK'
  <2>1. WorkerTypeOK'
    BY <1>1, <1>4 DEF Crash, CrashWorker, WorkerTypeOK
  <2>2. CallTypeOK'
    BY <1>1, <1>4, LeavingOK DEF Crash
  <2> QED BY <1>4, <2>1, <2>2, WorldStepOK DEF Crash
<1>5. ASSUME NEW w \in Worker, ScaleDown(w) \/ ScaleUp(w) PROVE TypeOK'
  <2>1. CallTypeOK' /\ UNCHANGED routed
    BY <1>1, <1>5 DEF ScaleDown, ScaleUp, CallTypeOK, callVars
  <2> QED BY <1>5, <2>1, UnchangedOK, WorldStepOK DEF ScaleDown, ScaleUp
<1>6. ASSUME NEW w \in Worker, NEW c \in Call, Leave(w, c) PROVE TypeOK'
  <2>1. WorkerTypeOK'
    BY <1>1, <1>6 DEF Leave, EndCall, WorkerTypeOK
  <2>2. CallTypeOK'
    BY <1>1, <1>6, LeavingOK DEF Leave
  <2> QED BY <1>6, <2>1, <2>2, WorldStepOK DEF Leave
<1>7. ASSUME NEW w \in Worker, NEW c \in Call, PrewarmExpires(w, c) PROVE TypeOK'
  <2>1. WorkerTypeOK'
    BY <1>1, <1>7 DEF PrewarmExpires, ExpirePrewarm, WorkerTypeOK
  <2>2. CallTypeOK' /\ UNCHANGED routed
    BY <1>7, UnchangedOK DEF PrewarmExpires, callVars
  <2> QED BY <1>7, <2>1, <2>2, WorldStepOK DEF PrewarmExpires
<1>8. ASSUME NEW p \in posts, PrewarmArrives(p) PROVE TypeOK'
  <2>1. WorkerTypeOK'
    BY <1>1, <1>8, DeliverOK DEF PrewarmArrives
  <2>2. CallTypeOK' /\ UNCHANGED routed
    BY <1>8, UnchangedOK DEF PrewarmArrives, callVars
  <2> QED BY <1>8, <2>1, <2>2, WorldStepOK DEF PrewarmArrives
<1> QED BY <1>2, <1>3, <1>4, <1>5, <1>6, <1>7, <1>8 DEF Environment

LEMMA StrayOK ==
    ASSUME TypeOK, NEW s \in stray, RunStray(s) \/ StrayError(s)
    PROVE TypeOK'
<1>1. s.worker \in Worker /\ s.call \in Call
  BY DEF TypeOK, RunnerTypeOK, Stray
<1>2. UNCHANGED <<runnerVars, envVars, task>> /\ stray' \subseteq stray
  BY DEF RunStray, StrayError
<1>3. RunnerTypeOK'
  BY <1>2 DEF TypeOK, RunnerTypeOK, runnerVars, Stray
<1>4. RedisTypeOK' /\ clobbered' \in BOOLEAN
  BY <1>1, ScriptsOK DEF RunStray, StrayError, TypeOK
<1> QED BY <1>2, <1>3, <1>4, UnchangedOK DEF TypeOK, envVars, callVars

LEMMA StutterOK ==
    ASSUME TypeOK, UNCHANGED vars
    PROVE TypeOK'
BY UnchangedOK DEF TypeOK, vars, envVars, callVars, NoScript

LEMMA NextOK == TypeOK /\ [Next]_vars => TypeOK'
BY StepOK, RequestOK, StrayOK, BackgroundOK, EnvironmentOK, StutterOK DEF Next

(* Every variable keeps its type, and a handler that is about to run a     *)
(* script, to answer or to dial knows its call and its worker.             *)
THEOREM TypeCorrect == Spec => []TypeOK
<1>1. Init => TypeOK
  BY InitTypeOK
<1>2. TypeOK /\ [Next]_vars => TypeOK'
  BY NextOK
<1> QED BY <1>1, <1>2, PTL DEF Spec

-----------------------------------------------------------------------------
(* The two halves of the Redis state. *)

LEMMA ClaimAgrees ==
    ASSUME TypeOK, KeysAgree, NEW cands, NEW c \in Call, NEW w \in Worker,
           Claim1(cands, c, w)
    PROVE KeysAgree'
BY NamesAssumption DEF TypeOK, RedisTypeOK, KeysAgree, Claim1, FindAndAssign, IsFree

LEMMA ReleaseAgrees ==
    ASSUME TypeOK, KeysAgree, NEW c \in Call, NEW w \in Worker, RunRelease(w, c)
    PROVE KeysAgree'
<1> SUFFICES ASSUME ~clobbered', NEW d \in Call, callKey'[d] # NoWorker
             PROVE hash'[callKey'[d]] = d
  BY DEF KeysAgree
<1>1. ~clobbered /\ hash[w] \in {NoCall, c}
  BY DEF RunRelease
<1>2. d # c /\ callKey'[d] = callKey[d] /\ hash[callKey[d]] = d
  BY <1>1 DEF KeysAgree, RunRelease, ReleaseAssignment, TypeOK, RedisTypeOK
<1>3. callKey[d] # w
  BY <1>1, <1>2, NamesAssumption
<1> QED BY <1>2, <1>3 DEF RunRelease, ReleaseAssignment, TypeOK, RedisTypeOK

LEMMA ClearAgrees ==
    ASSUME TypeOK, KeysAgree, NEW w \in Worker, RunClear(w)
    PROVE KeysAgree'
<1> SUFFICES ASSUME ~clobbered' PROVE KeysAgree'
  BY DEF KeysAgree
<1>1. ~clobbered /\ hash[w] = NoCall
  BY DEF RunClear, IsFree
<1>2. hash' = hash /\ callKey' = callKey
  BY <1>1 DEF RunClear, ClearWorkerState, TypeOK, RedisTypeOK
<1> QED BY <1>1, <1>2 DEF KeysAgree

LEMMA ReassignAgrees ==
    ASSUME TypeOK, KeysAgree, NEW c \in Call, NEW d \in Call, NEW w \in Worker,
           RunReassign(c, d, w)
    PROVE KeysAgree'
<1> SUFFICES ASSUME ~clobbered', NEW e \in Call, callKey'[e] # NoWorker
             PROVE hash'[callKey'[e]] = e
  BY DEF KeysAgree
<1>1. ~clobbered /\ hash[w] \in {NoCall, c, d}
  BY DEF RunReassign
<1>2. CASE e = d
  BY <1>2 DEF RunReassign, Reassign, TypeOK, RedisTypeOK
<1>3. CASE e # d
  <2>1. e # c /\ callKey'[e] = callKey[e] /\ hash[callKey[e]] = e
    BY <1>1, <1>3 DEF KeysAgree, RunReassign, Reassign, TypeOK, RedisTypeOK
  <2>2. callKey[e] # w
    BY <1>1, <1>3, <2>1, NamesAssumption
  <2> QED BY <2>1, <2>2 DEF RunReassign, Reassign, TypeOK, RedisTypeOK
<1> QED BY <1>2, <1>3

LEMMA NoScriptAgrees ==
    ASSUME KeysAgree, NoScript
    PROVE KeysAgree'
BY DEF KeysAgree, NoScript, redisVars

(* The other steps run none. *)
LEMMA OtherSteps ==
    ASSUME NEW t \in Task, Step(t),
           ~Claim(t), ~ClaimLost(t), ~Rekey(t), ~Release(t), ~AdminScript(t)
    PROVE NoScript
<1>1. ClaimAllBusy(t) \/ StartOver(t) \/ CacheAssignment(t) \/ CacheMissing(t)
      \/ DiscoverAndRetry(t) \/ GiveUp(t) => NoScript
  BY DEF ClaimAllBusy, StartOver, CacheAssignment, CacheMissing, DiscoverAndRetry, GiveUp, OnlyTask
<1>2. LookedUp(t) \/ LookedUpAfterDiscovery(t) \/ LookedUpNone(t) \/ Respond(t)
      \/ RespondFails(t) \/ Dial(t) \/ DialFails(t) \/ DialLost(t) => NoScript
  BY DEF LookedUp, LookedUpAfterDiscovery, LookedUpNone, Respond, RespondFails, Dial,
         DialFails, DialLost, OnlyTask
<1>3. Find(t) \/ FindNone(t) \/ Recache(t) \/ Lookup(t) \/ LookupAgain(t)
      \/ LookupGivesUp(t) \/ Uncache(t) \/ ScriptError(t) => NoScript
  BY DEF Find, FindNone, Recache, Lookup, LookupAgain, LookupGivesUp, Uncache, ScriptError,
         OnlyTask, OnlyTaskAndCache
<1> QED BY <1>1, <1>2, <1>3 DEF Step

(* Which scripts a step may run. *)
LEMMA StepScripts ==
    ASSUME TypeOK, NEW t \in Task, Step(t)
    PROVE \/ NoScript
          \/ \E w \in task[t].cands : Claim1(task[t].cands, task[t].call, w) /\ At(t, "claim")
          \/ /\ At(t, "rekey")
             /\ RunReassign(task[t].call, SidOf[task[t].call], task[t].worker)
          \/ RunRelease(task[t].worker, task[t].call) /\ At(t, "release")
          \/ /\ At(t, "admin")
             /\ IF task[t].call # NoCall THEN RunRelease(task[t].worker, task[t].call)
                                         ELSE RunClear(task[t].worker)
<1>1. Claim(t) \/ ClaimLost(t) =>
         \E w \in task[t].cands : Claim1(task[t].cands, task[t].call, w) /\ At(t, "claim")
  BY DEF Claim, ClaimLost
<1>2. Rekey(t) => /\ At(t, "rekey")
                  /\ RunReassign(task[t].call, SidOf[task[t].call], task[t].worker)
  BY DEF Rekey
<1>3. Release(t) => RunRelease(task[t].worker, task[t].call) /\ At(t, "release")
  BY DEF Release
<1>4. AdminScript(t) =>
         /\ At(t, "admin")
         /\ IF task[t].call # NoCall THEN RunRelease(task[t].worker, task[t].call)
                                     ELSE RunClear(task[t].worker)
  BY DEF AdminScript
<1> QED BY <1>1, <1>2, <1>3, <1>4, OtherSteps

LEMMA OtherScripts ==
    /\ \A t \in Task, r \in Runner : Request(t, r) => NoScript
    /\ \A r \in Runner : Background(r) => NoScript
    /\ \A s \in stray : RunStray(s) \/ StrayError(s) => RunRelease(s.worker, s.call) \/ NoScript
    /\ Environment => NoScript
<1>1. ASSUME NEW t \in Task, NEW r \in Runner, Request(t, r) PROVE NoScript
  BY <1>1 DEF Request, NewCall, AnsweredCall, TerminalHook, AdminRelease, OnlyTask
<1>2. ASSUME NEW r \in Runner, Background(r) PROVE NoScript
  BY <1>2 DEF Background, ProbeAnswered, ProbeRead, ProbeFails, Age, DrainCheck, DrainDelete,
              ReapRead, ReapApply, Discover, Restart
<1>3. ASSUME NEW s \in stray, RunStray(s) \/ StrayError(s)
      PROVE RunRelease(s.worker, s.call) \/ NoScript
  BY <1>3 DEF RunStray, StrayError
<1>4. ASSUME Environment PROVE NoScript
  BY <1>4 DEF Environment, Join, HangUp, Crash, ScaleDown, ScaleUp, Leave, PrewarmExpires,
              PrewarmArrives
<1> QED BY <1>1, <1>2, <1>3, <1>4

LEMMA NextAgrees == TypeOK /\ KeysAgree /\ [Next]_vars => KeysAgree'
<1> SUFFICES ASSUME TypeOK, KeysAgree, [Next]_vars PROVE KeysAgree'
  OBVIOUS
<1>1. ASSUME NEW t \in Task, Step(t) PROVE KeysAgree'
  <2> DEFINE k == task[t]
  <2>1. ASSUME NEW w \in k.cands, Claim1(k.cands, k.call, w), At(t, "claim") PROVE KeysAgree'
    BY <2>1, KnownOK, ClaimAgrees DEF At, HasCall, PC
  <2>2. ASSUME At(t, "rekey"), RunReassign(k.call, SidOf[k.call], k.worker) PROVE KeysAgree'
    <3>1. k.call \in Call /\ SidOf[k.call] \in Call /\ k.worker \in Worker
      BY <2>2, KnownOK, PoolAssumption DEF At, HasCall, HasWorker, HasReservation, PC
    <3> QED BY <2>2, <3>1, ReassignAgrees
  <2>3. ASSUME At(t, "release") \/ At(t, "admin"), RunRelease(k.worker, k.call), k.call # NoCall
        PROVE KeysAgree'
    <3>1. k.call \in Call /\ k.worker \in Worker
      BY <2>3, KnownOK DEF At, HasWorker
    <3> QED BY <2>3, <3>1, ReleaseAgrees
  <2>4. ASSUME At(t, "admin"), RunClear(k.worker) PROVE KeysAgree'
    BY <2>4, KnownOK, ClearAgrees DEF At, HasWorker
  <2>5. At(t, "release") => k.call # NoCall
    BY KnownOK, NamesAssumption DEF At, HasCall, PC
  <2> QED BY <1>1, <2>1, <2>2, <2>3, <2>4, <2>5, StepScripts, NoScriptAgrees
<1>2. ASSUME NEW s \in stray, RunStray(s) \/ StrayError(s) PROVE KeysAgree'
  <2>1. s.worker \in Worker /\ s.call \in Call
    BY DEF TypeOK, RunnerTypeOK, Stray
  <2> QED BY <1>2, <2>1, OtherScripts, ReleaseAgrees, NoScriptAgrees
<1>3. CASE UNCHANGED vars
  BY <1>3, NoScriptAgrees DEF vars, NoScript
<1> QED BY <1>1, <1>2, <1>3, OtherScripts, NoScriptAgrees DEF Next

(* Whatever fails, is retried, restarts or races, the reverse mapping and  *)
(* the worker's hash agree until a script runs for a call that the hash it *)
(* changes does not hold.                                                  *)
THEOREM ScriptsKeepAgreement == Spec => []KeysAgree
<1>1. Init => KeysAgree
  BY DEF Init, RedisInit, KeysAgree
<1>2. TypeOK /\ KeysAgree /\ [Next]_vars => KeysAgree'
  BY NextAgrees
<1> QED BY <1>1, <1>2, TypeCorrect, PTL DEF Spec
-----------------------------------------------------------------------------
(* A worker reports the call it is connected to. *)

LEMMA IdleWaits == HandlerWaits(Idle) /\ Idle.pc = "idle"
BY DEF Idle, Handler, HandlerWith, HandlerWaits, Undialled

LEMMA Waits ==
    ASSUME ReportInv, NEW t \in Task
    PROVE HandlerWaits(task[t])
BY DEF ReportInv, HandlersWait

LEMMA SameReported ==
    ASSUME ReportInv, UNCHANGED <<phase, task, serving, onair, posts>>
    PROVE ReportInv'
<1>1. CallIsReported' /\ OnAirHasJoined'
  BY DEF ReportInv, CallIsReported, OnAirHasJoined
<1>2. HandlersWait' /\ OneReservation'
  BY DEF ReportInv, HandlersWait, HandlerWaits, OneReservation, At
<1>3. NamedAfterwards' /\ PostsAreHarmless'
  BY DEF ReportInv, NamedAfterwards, PostsAreHarmless, PostIsHarmless
<1> QED BY <1>1, <1>2, <1>3 DEF ReportInv

(* The phases of calls other than a handler's reservation o move on: what  *)
(* the others wait for, and what was sent, is still in order.              *)
PhasesMove(o) ==
    \A c \in Call : /\ phase[c] # "new" => phase'[c] # "new"
                    /\ phase[c] = "ended" => phase'[c] = "ended"
                    /\ phase[c] \notin Early => phase'[c] \notin Early
                    /\ c \in Outbound /\ c # o /\ phase[c] # "ended" => phase'[c] # "ended"

LEMMA OthersWait ==
    ASSUME NEW o, PhasesMove(o), NEW k, HandlerWaits(k),
           k.pc # "idle" /\ k.call \in Outbound => k.call # o
    PROVE HandlerWaits(k)'
<1>1. CASE k.pc = "idle"
  BY <1>1 DEF HandlerWaits, Undialled
<1>2. CASE k.pc # "idle"
  BY <1>2 DEF HandlerWaits, PhasesMove
<1> QED BY <1>1, <1>2

LEMMA PostsStayHarmless ==
    ASSUME TypeOK, ReportInv, NEW o, PhasesMove(o), posts' \subseteq posts
    PROVE PostsAreHarmless'
<1> SUFFICES ASSUME NEW p \in posts PROVE PostIsHarmless(p)'
  BY DEF PostsAreHarmless, PostIsHarmless
<1>1. PostIsHarmless(p) /\ p.call \in Call
  BY DEF ReportInv, PostsAreHarmless, TypeOK, WorkerTypeOK, Post
<1> QED BY <1>1 DEF PostIsHarmless, PhasesMove

(* Handler t goes on as k, for the same call or for one that no other      *)
(* handler works for; if any reservation ends, it is its own, o.           *)
LEMMA HandlerReports ==
    ASSUME TypeOK, ReportInv, NEW t \in Task, NEW k, NEW o, Become(t, k),
           task[t].pc # "idle" => task[t].call = o, PhasesMove(o),
           o \in Outbound => phase'[o] = phase[o] \/ task[t].pc # "idle",
           HandlerWaits(k)',
           \/ k.pc = "idle" \/ k.call \notin Outbound \/ phase[k.call] = "new"
           \/ k.call = o /\ task[t].pc # "idle",
           \A c \in Call : phase'[c] = "joined" => phase[c] = "joined",
           NamedAfterwards', PostsAreHarmless', UNCHANGED <<serving, onair>>
    PROVE ReportInv'
<1>1. task'[t] = k /\ \A u \in Task : u # t => task'[u] = task[u]
  BY DEF Become, TypeOK, TaskTypeOK
<1>2. ASSUME NEW u \in Task, NEW j, u # t, j = task[u] PROVE HandlerWaits(j)'
  <2>1. HandlerWaits(j)
    BY <1>2, Waits
  <2>2. CASE j.pc # "idle" /\ j.call \in Outbound /\ j.call = o
    <3>1. task[t].pc = "idle"
      BY <1>2, <2>2 DEF ReportInv, OneReservation, At
    <3>2. phase'[o] = phase[o]
      BY <2>2, <3>1
    <3> QED BY <2>1, <2>2, <3>2 DEF HandlerWaits
  <2>3. CASE ~(j.pc # "idle" /\ j.call \in Outbound /\ j.call = o)
    BY <2>1, <2>3, OthersWait
  <2> QED BY <2>2, <2>3
<1>3. HandlersWait'
  <2>1. \A u \in Task : \A j : j = task'[u] => HandlerWaits(j)'
    BY <1>1, <1>2
  <2> QED BY <2>1 DEF HandlersWait, HandlerWaits
<1>4. OneReservation'
  <2>1. ASSUME NEW u \in Task, u # t, task[u].call = k.call, k.call \in Outbound,
               k.pc # "idle", task[u].pc # "idle"
        PROVE FALSE
    <3>1. phase[k.call] # "new"
      BY <2>1, Waits DEF HandlerWaits
    <3>2. task[t].call = task[u].call /\ task[t].pc # "idle"
      BY <2>1, <3>1
    <3> QED BY <2>1, <3>2 DEF ReportInv, OneReservation, At
  <2> SUFFICES ASSUME NEW u \in Task, NEW v \in Task, task'[u].call = task'[v].call,
                      task'[u].call \in Outbound, task'[u].pc # "idle", task'[v].pc # "idle"
               PROVE u = v
    BY DEF OneReservation, At
  <2>2. CASE u = t
    BY <1>1, <2>1, <2>2
  <2>3. CASE v = t
    BY <1>1, <2>1, <2>3
  <2>4. CASE u # t /\ v # t
    BY <1>1, <2>4 DEF ReportInv, OneReservation, At
  <2> QED BY <2>2, <2>3, <2>4
<1>5. CallIsReported' /\ OnAirHasJoined'
  <2>1. \A w \in Worker : \A c \in onair[w] : c \in Call
    BY DEF TypeOK, WorkerTypeOK
  <2> QED BY <2>1 DEF ReportInv, CallIsReported, OnAirHasJoined, PhasesMove
<1> QED BY <1>3, <1>4, <1>5 DEF ReportInv

(* The same when no phase changes.                                         *)
LEMMA GoesOnReported ==
    ASSUME TypeOK, ReportInv, NEW t \in Task, NEW k, task[t].pc # "idle", Become(t, k),
           HandlerWaits(k), k.pc = "idle" \/ k.call = task[t].call,
           PostsAreHarmless', UNCHANGED <<phase, serving, onair>>
    PROVE ReportInv'
<1>1. PICK o : o = task[t].call
  OBVIOUS
<1>2. PhasesMove(o) /\ HandlerWaits(k)'
  BY DEF PhasesMove, HandlerWaits
<1>3. NamedAfterwards' /\ PostsAreHarmless'
  BY DEF ReportInv, NamedAfterwards
<1> QED BY <1>1, <1>2, <1>3, HandlerReports

LEMMA SameWorkers ==
    ASSUME UNCHANGED workerVars
    PROVE UNCHANGED <<serving, onair, posts>>
BY DEF workerVars

(* What is sent to the workers besides prewarm requests. *)
LEMMA SendHarmless ==
    ASSUME ReportInv, UNCHANGED phase, NEW ps, Send(ps), \A p \in ps : PostIsHarmless(p)
    PROVE PostsAreHarmless' /\ UNCHANGED <<serving, onair>>
BY DEF ReportInv, PostsAreHarmless, PostIsHarmless, Send

LEMMA QuietPosts ==
    ASSUME ReportInv, UNCHANGED <<phase, posts>>
    PROVE PostsAreHarmless'
BY DEF ReportInv, PostsAreHarmless, PostIsHarmless

(* Handler t moves on to another await for the same call.                  *)
LEMMA MovesReported ==
    ASSUME TypeOK, ReportInv, NEW t \in Task, NEW k, task[t].pc # "idle", Become(t, k),
           k.call = task[t].call, k.pc \notin {"idle", "admin", "getw"},
           k.pc \in Undialled => task[t].pc \in Undialled \cup {"getw"},
           k.pc \in {"lookup", "release", "uncache"} => task[t].pc \in {"lookup", "release", "uncache"},
           PostsAreHarmless', UNCHANGED <<phase, serving, onair>>
    PROVE ReportInv'
<1>1. HandlerWaits(k)
  BY Waits DEF HandlerWaits
<1> QED BY <1>1, GoesOnReported

LEMMA FinishReported ==
    ASSUME TypeOK, ReportInv, NEW t \in Task, task[t].pc # "idle", Finish(t),
           PostsAreHarmless', UNCHANGED <<phase, serving, onair>>
    PROVE ReportInv'
<1>1. PICK k : Become(t, k) /\ HandlerWaits(k) /\ k.pc = "idle"
  BY IdleWaits DEF Finish
<1> QED BY <1>1, GoesOnReported

(* Nobody but the handler sees the step. *)
LEMMA OnlyHandler ==
    ASSUME ReportInv, OnlyTask \/ UNCHANGED envVars \/ UNCHANGED <<phase, workerVars>>
    PROVE PostsAreHarmless' /\ UNCHANGED <<phase, serving, onair>>
BY QuietPosts DEF OnlyTask, envVars, callVars, workerVars

LEMMA AssigningReported ==
    ASSUME TypeOK, ReportInv, NEW t \in Task,
           Claim(t) \/ ClaimLost(t) \/ ClaimAllBusy(t) \/ StartOver(t) \/ CacheMissing(t)
           \/ DiscoverAndRetry(t) \/ (At(t, "claim") /\ FailedClaim(t) /\ OnlyTask)
    PROVE ReportInv'
<1>1. PostsAreHarmless' /\ UNCHANGED <<phase, serving, onair>>
  BY OnlyHandler DEF Claim, ClaimLost, ClaimAllBusy, StartOver, CacheMissing, DiscoverAndRetry
<1>2. task[t].pc \in {"claim", "backoff", "cache", "noworker"}
  BY DEF Claim, ClaimLost, ClaimAllBusy, StartOver, CacheMissing, DiscoverAndRetry, At
<1>3. PICK k : /\ Become(t, k) /\ k.call = task[t].call
               /\ k.pc \in {"claim", "backoff", "cache", "noworker", "reject"}
  <2>1. ASSUME NEW pc, NEW w, NEW n, Become(t, Moved(task[t], pc, w, {}, n)),
               pc \in {"cache", "noworker"}
        PROVE \E k : /\ Become(t, k) /\ k.call = task[t].call
                     /\ k.pc \in {"claim", "backoff", "cache", "noworker", "reject"}
    BY <2>1 DEF Moved
  <2>2. CASE StartOver(t) \/ DiscoverAndRetry(t)
    BY <2>2 DEF StartOver, DiscoverAndRetry, Snapshot, Again, Moved
  <2>3. CASE At(t, "claim") /\ FailedClaim(t)
    BY <2>3 DEF FailedClaim, Retry, GotoWith, Moved, At
  <2> QED BY <2>1, <2>2, <2>3 DEF Claim, ClaimLost, ClaimAllBusy, CacheMissing, GotoWith
<1> QED BY <1>1, <1>2, <1>3, MovesReported DEF Undialled

LEMMA LookedUpReported ==
    ASSUME TypeOK, ReportInv, NEW t \in Task,
           LookedUp(t) \/ LookedUpAfterDiscovery(t) \/ LookedUpNone(t)
    PROVE ReportInv'
<1>1. PostsAreHarmless' /\ UNCHANGED <<phase, serving, onair>>
  BY OnlyHandler DEF LookedUp, LookedUpAfterDiscovery, LookedUpNone
<1>2. task[t].pc = "getw"
  BY DEF LookedUp, LookedUpAfterDiscovery, LookedUpNone, At
<1>3. PICK k : /\ Become(t, k) /\ k.call = task[t].call
               /\ k.pc \in {"respond", "claim", "noworker"}
  BY DEF LookedUp, LookedUpAfterDiscovery, LookedUpNone, GotoWith, Snapshot, Moved
<1> QED BY <1>1, <1>2, <1>3, MovesReported DEF Undialled

LEMMA CacheReported ==
    ASSUME TypeOK, ReportInv, NEW t \in Task, CacheAssignment(t)
    PROVE ReportInv'
<1>1. PICK k : /\ Become(t, k) /\ k.call = task[t].call /\ k.pc \in {"dial", "respond"}
  BY DEF CacheAssignment, Goto, GotoWith, Moved
<1>2. task[t].pc = "cache" /\ UNCHANGED phase
  BY DEF CacheAssignment, At
<1>3. PostsAreHarmless' /\ UNCHANGED <<serving, onair>>
  <2>1. PICK ps : Send(ps) /\ \A p \in ps : p.kind = "prewarm"
    BY DEF CacheAssignment, PrewarmPost
  <2> QED BY <1>2, <2>1, SendHarmless DEF PostIsHarmless
<1> QED BY <1>1, <1>2, <1>3, MovesReported DEF Undialled

LEMMA RenamingReported ==
    ASSUME TypeOK, ReportInv, NEW t \in Task,
           Find(t) \/ FindNone(t) \/ Rekey(t) \/ Recache(t)
           \/ (At(t, "rekey") /\ FailedAttempt(t, "recache") /\ OnlyTask)
    PROVE ReportInv'
<1>1. CASE Find(t) \/ Rekey(t) \/ (At(t, "rekey") /\ FailedAttempt(t, "recache") /\ OnlyTask)
  <2>1. PostsAreHarmless' /\ UNCHANGED <<phase, serving, onair>>
    BY <1>1, OnlyHandler DEF Find, Rekey
  <2>2. task[t].pc \in {"find", "rekey"}
    BY <1>1 DEF Find, Rekey, At
  <2>3. PICK k : Become(t, k) /\ k.call = task[t].call /\ k.pc \in {"rekey", "recache"}
    BY <1>1 DEF Find, Rekey, FailedAttempt, Retry, Goto, GotoWith, Moved, At
  <2> QED BY <2>1, <2>2, <2>3, MovesReported DEF Undialled
<1>2. CASE FindNone(t) \/ Recache(t)
  <2>1. task[t].pc \in {"find", "recache"} /\ UNCHANGED phase /\ Finish(t)
    BY <1>2, OnlyTaskSame DEF FindNone, Recache, At
  <2>2. task[t].call \in Outbound
    BY <2>1, KnownOK DEF HasReservation
  <2>3. PostsAreHarmless' /\ UNCHANGED <<serving, onair>>
    <3>1. PICK ps : Send(ps) /\ \A p \in ps : p.kind = "reassign" /\ p.call = task[t].call
      BY <1>2 DEF FindNone, Recache, SendReassign, ReassignPost
    <3> QED BY <2>1, <2>2, <3>1, SendHarmless DEF PostIsHarmless
  <2> QED BY <2>1, <2>3, FinishReported
<1> QED BY <1>1, <1>2

LEMMA ReleasingReported ==
    ASSUME TypeOK, ReportInv, NEW t \in Task,
           Lookup(t) \/ LookupAgain(t) \/ LookupGivesUp(t) \/ Release(t) \/ Uncache(t)
           \/ (At(t, "release") /\ FailedAttempt(t, "uncache") /\ OnlyTask)
    PROVE ReportInv'
<1>1. CASE Lookup(t) \/ LookupAgain(t) \/ Release(t)
           \/ (At(t, "release") /\ FailedAttempt(t, "uncache") /\ OnlyTask)
  <2>1. PostsAreHarmless' /\ UNCHANGED <<phase, serving, onair>>
    BY <1>1, OnlyHandler DEF Lookup, LookupAgain, Release
  <2>2. task[t].pc \in {"lookup", "release"}
    BY <1>1 DEF Lookup, LookupAgain, Release, At
  <2>3. PICK k : Become(t, k) /\ k.call = task[t].call /\ k.pc \in {"lookup", "release", "uncache"}
    BY <1>1 DEF Lookup, LookupAgain, Release, FailedAttempt, Retry, Goto, GotoWith, Moved, At
  <2> QED BY <2>1, <2>2, <2>3, MovesReported DEF Undialled
<1>2. CASE LookupGivesUp(t) \/ Uncache(t)
  <2>1. task[t].pc \in {"lookup", "uncache"} /\ UNCHANGED phase /\ Finish(t)
    BY <1>2, OnlyTaskSame DEF LookupGivesUp, Uncache, At
  <2>2. task[t].call \in ProviderCall => phase[task[t].call] = "ended"
    BY <2>1, Waits DEF HandlerWaits
  <2>3. PICK ps : Send(ps) /\ \A p \in ps : p.kind = "cancel" /\ p.call = task[t].call
    <3>1. CASE LookupGivesUp(t)
      <4>1. Send({}) \/ \E w \in Worker : Send({CancelPost(w, task[t].call)})
        BY <3>1, KnownOK DEF LookupGivesUp, At, TypeOK, RunnerTypeOK
      <4>2. \A w : CancelPost(w, task[t].call).kind = "cancel"
                 /\ CancelPost(w, task[t].call).call = task[t].call
        BY DEF CancelPost
      <4>3. PICK ps : Send(ps) /\ (ps = {} \/ \E w : ps = {CancelPost(w, task[t].call)})
        BY <4>1
      <4> QED BY <4>2, <4>3
    <3>2. CASE Uncache(t)
      BY <3>2 DEF Uncache, CancelPost
    <3> QED BY <1>2, <3>1, <3>2
  <2>4. PostsAreHarmless' /\ UNCHANGED <<serving, onair>>
    BY <2>1, <2>2, <2>3, SendHarmless DEF PostIsHarmless
  <2> QED BY <2>1, <2>4, FinishReported
<1> QED BY <1>1, <1>2

(* A reservation ends, and its call begins if it was dialled. *)
LEMMA DialReported ==
    ASSUME TypeOK, ReportInv, NEW t \in Task,
           GiveUp(t) \/ Dial(t) \/ DialLost(t) \/ DialFails(t)
    PROVE ReportInv'
<1>1. PICK o : o = task[t].call
  OBVIOUS
<1>2. /\ task[t].pc \in {"noworker", "reject", "dial"} /\ UNCHANGED workerVars /\ o \in Call
      /\ task[t].pc = "dial" => o \in Outbound
  BY <1>1, KnownOK DEF GiveUp, Dial, DialLost, DialFails, At, HasCall, HasReservation, PC
<1>3. CASE o \notin Outbound
  <2>1. GiveUp(t) /\ UNCHANGED phase /\ Finish(t)
    BY <1>1, <1>2, <1>3 DEF GiveUp, Dial, DialLost, DialFails, IsOutbound, At
  <2> QED BY <1>2, <2>1, OnlyHandler, FinishReported
<1>4. CASE o \in Outbound
  <2>1. PICK c : c = SidOf[o]
    OBVIOUS
  <2>2. /\ phase[o] # "ended" /\ phase[o] # "new" /\ phase[c] = "new"
        /\ c \in Call /\ c # o /\ c \notin Outbound
    <3>1. phase[o] # "ended" /\ phase[o] # "new"
      BY <1>1, <1>2, <1>4, Waits DEF HandlerWaits, Undialled
    <3> QED BY <1>4, <2>1, <3>1, Distinct DEF ReportInv, NamedAfterwards
  <2>3. /\ phase'[o] = "ended"
        /\ \A d \in Call : d # o => phase'[d] = phase[d] \/ (d = c /\ phase'[d] = "live")
    <3>1. CASE GiveUp(t) \/ DialFails(t)
      <4>1. phase' = [phase EXCEPT ![o] = "ended"]
        BY <1>1, <1>4, <3>1 DEF GiveUp, DialFails, IsOutbound
      <4> QED BY <1>2, <4>1 DEF TypeOK, CallTypeOK
    <3>2. CASE Dial(t) \/ DialLost(t)
      <4>1. phase' = [phase EXCEPT ![o] = "ended", ![c] = "live"]
        BY <1>1, <2>1, <3>2 DEF Dial, DialLost, Dialled
      <4> QED BY <1>2, <2>2, <4>1 DEF TypeOK, CallTypeOK
    <3> QED BY <3>1, <3>2
  <2>4. PhasesMove(o)
    BY <1>2, <2>2, <2>3 DEF PhasesMove, Early
  <2>5. \A d \in Call : phase'[d] = "joined" => phase[d] = "joined"
    BY <2>3
  <2>6. NamedAfterwards'
    <3> SUFFICES ASSUME NEW p \in Outbound, phase'[p] # "ended" PROVE phase'[SidOf[p]] = "new"
      BY DEF NamedAfterwards
    <3>1. p # o /\ p \in Call /\ SidOf[p] \in Call /\ SidOf[p] # o /\ SidOf[p] # c /\ p # c
      BY <1>4, <2>1, <2>2, <2>3, Distinct
    <3> QED BY <2>3, <3>1 DEF ReportInv, NamedAfterwards
  <2>7. PostsAreHarmless' /\ UNCHANGED <<serving, onair>>
    BY <1>2, <2>4, PostsStayHarmless, SameWorkers
  <2>8. PICK k : /\ Become(t, k) /\ k.pc \in {"idle", "find", "lookup"}
                 /\ k.pc = "idle" \/ k.call = o
    BY <1>1, IdleWaits DEF GiveUp, Dial, DialLost, DialFails, Finish, GotoWith, Moved
  <2>9. HandlerWaits(k)'
    BY <1>2, <1>4, <2>3, <2>8, Distinct DEF HandlerWaits, Undialled
  <2> QED BY <1>1, <1>2, <2>4, <2>5, <2>6, <2>7, <2>8, <2>9, HandlerReports
<1> QED BY <1>3, <1>4

LEMMA StepReported ==
    ASSUME Undisturbed, TypeOK, ReportInv, NEW t \in Task, Step(t)
    PROVE ReportInv'
<1>1. ~RespondFails(t) /\ ~AdminScript(t)
  <2>1. task[t].pc # "admin"
    BY Waits DEF HandlerWaits
  <2> QED BY <2>1 DEF Undisturbed, RespondFails, AdminScript, At
<1>2. CASE Respond(t)
  <2>1. task[t].pc = "respond" /\ Finish(t) /\ UNCHANGED <<phase, workerVars>>
    BY <1>2 DEF Respond, At
  <2> QED BY <2>1, OnlyHandler, FinishReported
<1>3. CASE ScriptError(t)
  <2>1. task[t].pc # "admin"
    BY Waits DEF HandlerWaits
  <2> QED BY <1>3, <2>1, AssigningReported, RenamingReported, ReleasingReported
      DEF ScriptError, At
<1> QED BY <1>1, <1>2, <1>3, AssigningReported, LookedUpReported, CacheReported,
           RenamingReported, ReleasingReported, DialReported
    DEF Step

(* A new handler starts for call c. *)
LEMMA ArrivalReported ==
    ASSUME TypeOK, ReportInv, NEW t \in Task, NEW k, NEW c \in Call, task[t].pc = "idle",
           Become(t, k), k.call = c, HandlerWaits(k)', c \notin Outbound \/ phase[c] = "new",
           \A d \in Call : d # c => phase'[d] = phase[d],
           phase[c] \notin {"new", "ended"} \/ c \notin Sid \/ phase'[c] = phase[c],
           \/ phase'[c] = phase[c]
           \/ phase[c] \in {"new", "live"} /\ phase'[c] \in {"live", "answered"},
           UNCHANGED workerVars
    PROVE ReportInv'
<1>1. PICK o : o = NoCall
  OBVIOUS
<1>2. o \notin Call /\ o \notin Outbound
  BY <1>1, Distinct
<1>3. PhasesMove(o)
  BY DEF PhasesMove, Early
<1>4. PostsAreHarmless' /\ UNCHANGED <<serving, onair>>
  BY <1>3, PostsStayHarmless, SameWorkers
<1>5. \A d \in Call : phase'[d] = "joined" => phase[d] = "joined"
  OBVIOUS
<1>6. NamedAfterwards'
  <2> SUFFICES ASSUME NEW p \in Outbound, phase'[p] # "ended" PROVE phase'[SidOf[p]] = "new"
    BY DEF NamedAfterwards
  <2>1. p \in Call /\ SidOf[p] \in Call /\ SidOf[p] \in Sid
    BY Distinct
  <2>2. phase[p] # "ended" /\ phase[SidOf[p]] = "new"
    BY <2>1 DEF ReportInv, NamedAfterwards
  <2> QED BY <2>1, <2>2
<1> QED BY <1>2, <1>3, <1>4, <1>5, <1>6, HandlerReports

LEMMA RequestReported ==
    ASSUME Undisturbed, TypeOK, ReportInv, NEW t \in Task, NEW r \in Runner, Request(t, r)
    PROVE ReportInv'
<1>1. ASSUME NEW w \in Worker PROVE ~AdminRelease(t, r, w)
  BY DEF Undisturbed, AdminRelease
<1>2. ASSUME NEW c \in Call, NewCall(t, r, c) PROVE ReportInv'
  <2>1. PICK k : Become(t, k) /\ k.call = c /\ k.pc \in {"claim", "noworker"}
    BY <1>2 DEF NewCall, Snapshot, Handler, HandlerWith, Moved
  <2>2. /\ task[t].pc = "idle" /\ phase[c] = "new" /\ UNCHANGED workerVars /\ c \notin Sid
        /\ phase' = [phase EXCEPT ![c] = "live"]
    BY <1>2, Distinct, PoolAssumption DEF NewCall, At
  <2>3. phase'[c] = "live" /\ \A d \in Call : d # c => phase'[d] = phase[d]
    BY <2>2 DEF TypeOK, CallTypeOK
  <2>4. HandlerWaits(k)'
    BY <2>1, <2>3 DEF HandlerWaits
  <2> QED BY <2>1, <2>2, <2>3, <2>4, ArrivalReported
<1>3. ASSUME NEW c \in Call, AnsweredCall(t, r, c) PROVE ReportInv'
  <2>1. PICK k : Become(t, k) /\ k.call = c /\ k.pc = "getw"
    BY <1>3 DEF AnsweredCall, Handler, HandlerWith
  <2>2. /\ task[t].pc = "idle" /\ phase[c] = "live" /\ UNCHANGED workerVars /\ c \notin Outbound
        /\ phase' = [phase EXCEPT ![c] = "answered"]
    BY <1>3, Distinct, PoolAssumption DEF AnsweredCall, At
  <2>3. phase'[c] = "answered" /\ \A d \in Call : d # c => phase'[d] = phase[d]
    BY <2>2 DEF TypeOK, CallTypeOK
  <2>4. HandlerWaits(k)'
    BY <2>1, <2>2, <2>3 DEF HandlerWaits, Undialled
  <2> QED BY <2>1, <2>2, <2>3, <2>4, ArrivalReported
<1>4. ASSUME NEW c \in Call, TerminalHook(t, r, c) PROVE ReportInv'
  <2>1. PICK k : Become(t, k) /\ k.call = c /\ k.pc = "lookup"
    BY <1>4 DEF TerminalHook, Handler, HandlerWith
  <2>2. /\ task[t].pc = "idle" /\ phase[c] = "ended" /\ UNCHANGED <<phase, workerVars>>
        /\ c \notin Outbound
    BY <1>4, Distinct DEF TerminalHook, At
  <2>3. HandlerWaits(k)'
    BY <2>1, <2>2 DEF HandlerWaits, Undialled
  <2> QED BY <2>1, <2>2, <2>3, ArrivalReported
<1> QED BY <1>1, <1>2, <1>3, <1>4 DEF Request

LEMMA BackgroundReported ==
    ASSUME TypeOK, ReportInv, NEW r \in Runner, Background(r)
    PROVE ReportInv'
<1>1. UNCHANGED envVars
  BY DEF Background, ProbeAnswered, ProbeRead, ProbeFails, Age, DrainCheck, DrainDelete,
         ReapRead, ReapApply, Discover, Restart
<1>2. UNCHANGED <<phase, serving, onair, posts>>
  BY <1>1 DEF envVars, callVars, workerVars
<1>3. CASE ~Restart(r)
  <2>1. UNCHANGED task
    BY <1>3 DEF Background, ProbeAnswered, ProbeRead, ProbeFails, Age, DrainCheck, DrainDelete,
                ReapRead, ReapApply, Discover
  <2> QED BY <1>2, <2>1, SameReported
<1>4. CASE Restart(r)
  <2>1. \A u \in Task : task'[u] = task[u] \/ task'[u] = Idle
    BY <1>4 DEF Restart
  <2>2. HandlersWait'
    <3>1. \A u \in Task : \A j : j = task'[u] => HandlerWaits(j)
      BY <2>1, Waits, IdleWaits
    <3> QED BY <1>2, <3>1 DEF HandlersWait, HandlerWaits
  <2>3. OneReservation'
    BY <2>1, IdleWaits DEF ReportInv, OneReservation, At
  <2> QED BY <1>2, <2>2, <2>3
      DEF ReportInv, CallIsReported, OnAirHasJoined, NamedAfterwards, PostsAreHarmless, PostIsHarmless
<1> QED BY <1>3, <1>4

(* A step of the provider or of the worker that no reservation sees. *)
LEMMA WorldReported ==
    ASSUME TypeOK, ReportInv, UNCHANGED task, NEW o, o \notin Call, PhasesMove(o),
           \A s \in Sid : phase[s] = "new" => phase'[s] = "new",
           posts' \subseteq posts, CallIsReported', OnAirHasJoined'
    PROVE ReportInv'
<1>1. \A u \in Task : \A j : j = task[u] => HandlerWaits(j)'
  <2>1. ASSUME NEW u \in Task, NEW j, j = task[u] PROVE HandlerWaits(j)'
    <3>1. HandlerWaits(j)
      BY <2>1, Waits
    <3>2. j.pc # "idle" /\ j.call \in Outbound => j.call # o
      BY Distinct
    <3> QED BY <3>1, <3>2, OthersWait
  <2> QED BY <2>1
<1>2. HandlersWait'
  BY <1>1 DEF HandlersWait, HandlerWaits
<1>3. OneReservation'
  BY DEF ReportInv, OneReservation, At
<1>4. NamedAfterwards'
  <2> SUFFICES ASSUME NEW p \in Outbound, phase'[p] # "ended" PROVE phase'[SidOf[p]] = "new"
    BY DEF NamedAfterwards
  <2>1. p \in Call /\ SidOf[p] \in Sid
    BY Distinct
  <2> QED BY <2>1 DEF ReportInv, NamedAfterwards, PhasesMove
<1>5. PostsAreHarmless'
  BY PostsStayHarmless
<1> QED BY <1>2, <1>3, <1>4, <1>5 DEF ReportInv

LEMMA LeavingReported ==
    ASSUME TypeOK, ReportInv, NEW cs, phase' = AfterLeaving(cs)
    PROVE /\ \A o : o \notin Call => PhasesMove(o)
          /\ \A s \in Sid : phase[s] = "new" => phase'[s] = "new"
          /\ \A c \in Call : phase'[c] = "joined" => phase[c] = "joined" /\ c \notin cs
<1>1. \A c \in Call : phase'[c] = IF c \in cs /\ phase[c] = "joined" THEN "left" ELSE phase[c]
  BY DEF AfterLeaving
<1>2. \A s \in Sid : s \in Call
  BY Distinct DEF Sid
<1> QED BY <1>1, <1>2 DEF PhasesMove, Early

(* The pipelines of a worker that is connected to one call at a time end. *)
LEMMA WorkerReported ==
    ASSUME TypeOK, ReportInv, OneConnection, NEW w \in Worker,
           Crash(w) \/ \E c \in Call : Leave(w, c)
    PROVE ReportInv'
<1>1. PICK o : o = NoCall
  OBVIOUS
<1>2. o \notin Call
  BY <1>1, Distinct
<1>3. PICK cs : phase' = AfterLeaving(cs)
  BY DEF Crash, Leave
<1>4. /\ onair'[w] = {} /\ UNCHANGED <<posts, task>>
      /\ \A v \in Worker : v # w => onair'[v] = onair[v] /\ serving'[v] = serving[v]
  <2>1. CASE Crash(w)
    BY <2>1 DEF Crash, CrashWorker, TypeOK, WorkerTypeOK
  <2>2. ASSUME NEW c \in Call, Leave(w, c) PROVE <1>4
    <3>1. /\ c \in onair[w] /\ onair' = [onair EXCEPT ![w] = @ \ {c}]
          /\ serving' = [serving EXCEPT ![w] = NoCall] /\ UNCHANGED <<posts, task>>
      BY <2>2 DEF Leave, EndCall
    <3>2. \A d \in onair[w] : d = c
      BY <3>1 DEF OneConnection
    <3> QED BY <3>1, <3>2 DEF TypeOK, WorkerTypeOK
  <2> QED BY <2>1, <2>2
<1>5. /\ PhasesMove(o)
      /\ \A s \in Sid : phase[s] = "new" => phase'[s] = "new"
      /\ \A c \in Call : phase'[c] = "joined" => phase[c] = "joined"
  BY <1>2, <1>3, LeavingReported
<1>6. CallIsReported' /\ OnAirHasJoined'
  <2> SUFFICES ASSUME NEW v \in Worker, NEW c \in onair'[v]
               PROVE /\ phase'[c] = "joined" => serving'[v] = c
                     /\ c \in ProviderCall /\ phase'[c] \notin Early
    BY DEF CallIsReported, OnAirHasJoined
  <2>1. v # w /\ c \in onair[v] /\ serving'[v] = serving[v]
    BY <1>4
  <2>2. c \in Call
    BY <2>1 DEF TypeOK, WorkerTypeOK
  <2> QED BY <1>5, <2>1, <2>2 DEF ReportInv, CallIsReported, OnAirHasJoined, PhasesMove
<1> QED BY <1>2, <1>4, <1>5, <1>6, WorldReported

(* A call connects, to a worker that has no other. *)
LEMMA JoinReported ==
    ASSUME TypeOK, ReportInv, OneConnection', NEW c \in Call, Join(c)
    PROVE ReportInv'
<1>1. PICK o, w : o = NoCall /\ w = routed[c]
  OBVIOUS
<1>2. o \notin Call /\ w \in Worker
  BY <1>1, Distinct DEF Join, TypeOK, CallTypeOK
<1>3. /\ onair' = [onair EXCEPT ![w] = @ \cup {c}] /\ serving' = [serving EXCEPT ![w] = c]
      /\ phase' = [phase EXCEPT ![c] = "joined"] /\ UNCHANGED <<posts, task>>
      /\ phase[c] \in {"live", "answered"} /\ c \in ProviderCall
  BY <1>1 DEF Join, StartCall, Live
<1>4. /\ serving'[w] = c /\ \A d \in onair'[w] : d = c
      /\ \A v \in Worker : v # w => onair'[v] = onair[v] /\ serving'[v] = serving[v]
      /\ phase'[c] = "joined" /\ \A d \in Call : d # c => phase'[d] = phase[d]
  BY <1>2, <1>3 DEF OneConnection, TypeOK, WorkerTypeOK, CallTypeOK
<1>5. PhasesMove(o) /\ \A s \in Sid : phase[s] = "new" => phase'[s] = "new"
  BY <1>3, <1>4, Distinct DEF PhasesMove, Early, Sid
<1>6. CallIsReported' /\ OnAirHasJoined'
  <2> SUFFICES ASSUME NEW v \in Worker, NEW d \in onair'[v]
               PROVE /\ phase'[d] = "joined" => serving'[v] = d
                     /\ d \in ProviderCall /\ phase'[d] \notin Early
    BY DEF CallIsReported, OnAirHasJoined
  <2>1. CASE v = w
    BY <1>3, <1>4, <2>1 DEF Early
  <2>2. CASE v # w
    <3>1. d \in onair[v] /\ serving'[v] = serving[v] /\ d \in Call
      BY <1>4, <2>2 DEF TypeOK, WorkerTypeOK
    <3>2. d # c
      BY <1>3, <3>1 DEF ReportInv, OnAirHasJoined, Early
    <3> QED BY <1>4, <3>1, <3>2 DEF ReportInv, CallIsReported, OnAirHasJoined
  <2> QED BY <2>1, <2>2
<1> QED BY <1>2, <1>3, <1>5, <1>6, WorldReported

(* A prewarm request arrives: it takes no connected call's name away. *)
LEMMA ArrivesReported ==
    ASSUME TypeOK, ReportInv, NEW p \in posts, PrewarmArrives(p)
    PROVE ReportInv'
<1>1. /\ posts' \subseteq posts /\ UNCHANGED <<onair, phase, task>>
      /\ Prewarm(p) \/ ReassignPrewarm(p) \/ CancelPrewarm(p)
  BY DEF PrewarmArrives, Deliver, callVars
<1>2. p.worker \in Worker /\ PostIsHarmless(p)
  BY DEF TypeOK, WorkerTypeOK, Post, ReportInv, PostsAreHarmless
<1>3. ASSUME NEW v \in Worker, NEW c \in onair[v], phase[c] = "joined", serving[v] = c
      PROVE serving'[v] = c
  <2>1. c \in ProviderCall /\ c # NoCall /\ c \notin Outbound
    BY <1>3, Distinct DEF ReportInv, OnAirHasJoined
  <2>2. CASE Prewarm(p)
    BY <1>2, <1>3, <2>1, <2>2 DEF Prewarm, TypeOK, WorkerTypeOK
  <2>3. CASE ReassignPrewarm(p)
    BY <1>2, <1>3, <2>1, <2>3 DEF ReassignPrewarm, PostIsHarmless, TypeOK, WorkerTypeOK
  <2>4. CASE CancelPrewarm(p)
    BY <1>2, <1>3, <2>1, <2>4 DEF CancelPrewarm, PostIsHarmless, TypeOK, WorkerTypeOK
  <2> QED BY <1>1, <2>2, <2>3, <2>4
<1>4. CallIsReported' /\ OnAirHasJoined'
  BY <1>1, <1>3 DEF ReportInv, CallIsReported, OnAirHasJoined
<1>5. PICK o : o = NoCall
  OBVIOUS
<1>6. o \notin Call /\ PhasesMove(o)
  BY <1>1, <1>5, Distinct DEF PhasesMove
<1> QED BY <1>1, <1>4, <1>6, WorldReported

LEMMA EnvironmentReported ==
    ASSUME TypeOK, ReportInv, OneConnection, OneConnection', Environment
    PROVE ReportInv'
<1>1. ASSUME NEW c \in Call, HangUp(c) PROVE ReportInv'
  <2>1. PICK o : o = NoCall
    OBVIOUS
  <2>2. /\ phase' = [phase EXCEPT ![c] = "ended"] /\ UNCHANGED <<workerVars, task>>
        /\ phase[c] # "new" /\ c \notin Outbound
    BY <1>1, Distinct DEF HangUp, Live
  <2>3. phase'[c] = "ended" /\ \A d \in Call : d # c => phase'[d] = phase[d]
    BY <2>2 DEF TypeOK, CallTypeOK
  <2>4. o \notin Call /\ PhasesMove(o)
    BY <2>1, <2>2, <2>3, Distinct DEF PhasesMove, Early
  <2>5. \A s \in Sid : phase[s] = "new" => phase'[s] = "new"
    BY <2>2, <2>3, Distinct DEF Sid
  <2>6. UNCHANGED <<serving, onair, posts>>
    BY <2>2, SameWorkers
  <2>7. CallIsReported' /\ OnAirHasJoined'
    <3>1. \A w \in Worker : \A d \in onair[w] : d \in Call
      BY DEF TypeOK, WorkerTypeOK
    <3> QED BY <2>3, <2>6, <3>1 DEF ReportInv, CallIsReported, OnAirHasJoined, Early
  <2> QED BY <2>2, <2>4, <2>5, <2>6, <2>7, WorldReported
<1>2. ASSUME NEW w \in Worker, ScaleDown(w) \/ ScaleUp(w) PROVE ReportInv'
  BY <1>2, SameReported DEF ScaleDown, ScaleUp, callVars, workerVars
<1>3. ASSUME NEW w \in Worker, NEW c \in Call, PrewarmExpires(w, c) PROVE ReportInv'
  BY <1>3, SameReported DEF PrewarmExpires, ExpirePrewarm, callVars
<1> QED BY <1>1, <1>2, <1>3, JoinReported, WorkerReported, ArrivesReported DEF Environment

LEMMA NextReported ==
    Undisturbed /\ TypeOK /\ ReportInv /\ OneConnection /\ OneConnection' /\ [Next]_vars => ReportInv'
<1> SUFFICES ASSUME Undisturbed, TypeOK, ReportInv, OneConnection, OneConnection', [Next]_vars
             PROVE ReportInv'
  OBVIOUS
<1>1. ASSUME NEW s \in stray, RunStray(s) \/ StrayError(s) PROVE ReportInv'
  BY <1>1, SameReported DEF RunStray, StrayError, envVars, callVars, workerVars
<1>2. CASE UNCHANGED vars
  BY <1>2, SameReported DEF vars, envVars, callVars, workerVars
<1> QED BY <1>1, <1>2, StepReported, RequestReported, BackgroundReported, EnvironmentReported
    DEF Next

LEMMA InitReported == Init => ReportInv
<1> SUFFICES ASSUME Init PROVE ReportInv
  OBVIOUS
<1>1. /\ \A t \in Task : HandlerWaits(task[t]) /\ task[t].pc = "idle"
      /\ \A w \in Worker : onair[w] = {}
      /\ posts = {} /\ \A c \in Call : phase[c] = "new"
  BY IdleWaits DEF Init, WorkerInit
<1>2. HandlersWait /\ OneReservation
  BY <1>1 DEF HandlersWait, OneReservation, At
<1>3. CallIsReported /\ OnAirHasJoined /\ PostsAreHarmless
  BY <1>1 DEF CallIsReported, OnAirHasJoined, PostsAreHarmless
<1>4. NamedAfterwards
  BY <1>1, Distinct DEF NamedAfterwards
<1> QED BY <1>2, <1>3, <1>4 DEF ReportInv

(* Whatever is lost or fails, a worker that is never connected to two calls *)
(* at once reports the call it is connected to, so the health checks do not *)
(* take it for idle: prewarm requests, reassignments and cancellations may  *)
(* reach it in any order.                                                   *)
THEOREM LoneCallIsReported ==
    ASSUME Undisturbed
    PROVE Spec /\ []OneConnection => []CallIsReported
<1>1. Init => ReportInv
  BY InitReported
<1>2. TypeOK /\ ReportInv /\ OneConnection /\ OneConnection' /\ [Next]_vars => ReportInv'
  BY NextReported
<1>3. ReportInv => CallIsReported
  BY DEF ReportInv
<1> QED BY <1>1, <1>2, <1>3, TypeCorrect, PTL DEF Spec

-----------------------------------------------------------------------------
(* With a single call there is never a second connection. *)

OnAirIsProvider == \A w \in Worker : onair[w] \subseteq ProviderCall

LEMMA OnAirSame ==
    /\ \A t \in Task : Step(t) => UNCHANGED onair
    /\ \A t \in Task, r \in Runner : Request(t, r) => UNCHANGED onair
    /\ \A r \in Runner : Background(r) => UNCHANGED onair
    /\ \A s \in stray : RunStray(s) \/ StrayError(s) => UNCHANGED onair
    /\ UNCHANGED vars => UNCHANGED onair
<1>1. ASSUME UNCHANGED workerVars \/ UNCHANGED envVars \/ OnlyTask \/ \E ps : Send(ps)
      PROVE UNCHANGED onair
  BY <1>1 DEF OnlyTask, envVars, workerVars, Send
<1>2. ASSUME NEW t \in Task, Step(t) PROVE UNCHANGED onair
  <2>1. CASE CacheAssignment(t) \/ FindNone(t) \/ Recache(t) \/ LookupGivesUp(t) \/ Uncache(t)
    BY <1>1, <2>1 DEF CacheAssignment, FindNone, Recache, SendReassign, LookupGivesUp, Uncache
  <2>2. CASE ~(CacheAssignment(t) \/ FindNone(t) \/ Recache(t) \/ LookupGivesUp(t) \/ Uncache(t))
    BY <1>1, <1>2, <2>2
    DEF Step, Claim, ClaimAllBusy, ClaimLost, StartOver, CacheMissing, DiscoverAndRetry, GiveUp,
        LookedUp, LookedUpAfterDiscovery, LookedUpNone, Respond, RespondFails, Dial, DialFails,
        DialLost, Find, Rekey, Lookup, LookupAgain, Release, AdminScript, ScriptError
  <2> QED BY <2>1, <2>2
<1>3. ASSUME NEW t \in Task, NEW r \in Runner, Request(t, r) PROVE UNCHANGED onair
  BY <1>1, <1>3 DEF Request, NewCall, AnsweredCall, TerminalHook, AdminRelease
<1>4. ASSUME NEW r \in Runner, Background(r) PROVE UNCHANGED onair
  BY <1>1, <1>4 DEF Background, ProbeAnswered, ProbeRead, ProbeFails, Age, DrainCheck, DrainDelete,
              ReapRead, ReapApply, Discover, Restart
<1>5. ASSUME NEW s \in stray, RunStray(s) \/ StrayError(s) PROVE UNCHANGED onair
  BY <1>1, <1>5 DEF RunStray, StrayError
<1>6. UNCHANGED vars => UNCHANGED onair
  BY DEF vars, envVars, workerVars
<1> QED BY <1>2, <1>3, <1>4, <1>5, <1>6

LEMMA OnAirStays == TypeOK /\ OnAirIsProvider /\ [Next]_vars => OnAirIsProvider'
<1> SUFFICES ASSUME TypeOK, OnAirIsProvider, [Next]_vars PROVE OnAirIsProvider'
  OBVIOUS
<1>1. CASE UNCHANGED onair
  BY <1>1 DEF OnAirIsProvider
<1>2. CASE Environment
  <2>1. ASSUME NEW c \in Call, Join(c) PROVE OnAirIsProvider'
    <3>1. c \in ProviderCall /\ onair' = [onair EXCEPT ![routed[c]] = @ \cup {c}]
      BY <2>1 DEF Join, StartCall
    <3> QED BY <3>1 DEF OnAirIsProvider, TypeOK, WorkerTypeOK
  <2>2. ASSUME NEW c \in Call, HangUp(c) PROVE UNCHANGED onair
    BY <2>2 DEF HangUp, workerVars
  <2>3. ASSUME NEW w \in Worker, NEW c \in Call, Leave(w, c) PROVE OnAirIsProvider'
    <3>1. onair' = [onair EXCEPT ![w] = @ \ {c}]
      BY <2>3 DEF Leave, EndCall
    <3> QED BY <3>1 DEF OnAirIsProvider, TypeOK, WorkerTypeOK
  <2>4. ASSUME NEW w \in Worker, Crash(w) PROVE OnAirIsProvider'
    <3>1. onair' = [onair EXCEPT ![w] = {}]
      BY <2>4 DEF Crash, CrashWorker
    <3> QED BY <3>1 DEF OnAirIsProvider, TypeOK, WorkerTypeOK
  <2>5. ASSUME NEW w \in Worker, ScaleDown(w) \/ ScaleUp(w) PROVE UNCHANGED onair
    BY <2>5 DEF ScaleDown, ScaleUp, workerVars
  <2>6. ASSUME NEW w \in Worker, NEW c \in Call, PrewarmExpires(w, c) PROVE UNCHANGED onair
    BY <2>6 DEF PrewarmExpires, ExpirePrewarm
  <2>7. ASSUME NEW p \in posts, PrewarmArrives(p) PROVE UNCHANGED onair
    BY <2>7 DEF PrewarmArrives, Deliver
  <2> QED BY <1>1, <1>2, <2>1, <2>2, <2>3, <2>4, <2>5, <2>6, <2>7 DEF Environment
<1> QED BY <1>1, <1>2, OnAirSame DEF Next

(* A call that is alone on its workers is reported, however the requests    *)
(* about it are ordered, lost or repeated.                                  *)
THEOREM OneCallIsReported ==
    ASSUME Undisturbed, \A c, d \in ProviderCall : c = d
    PROVE Spec => []CallIsReported
<1>1. Init => OnAirIsProvider
  BY DEF Init, WorkerInit, OnAirIsProvider
<1>2. TypeOK /\ OnAirIsProvider /\ [Next]_vars => OnAirIsProvider'
  BY OnAirStays
<1>3. OnAirIsProvider => OneConnection
  BY DEF OnAirIsProvider, OneConnection
<1> QED BY <1>1, <1>2, <1>3, TypeCorrect, LoneCallIsReported, PTL DEF Spec

=============================================================================
