----------------------------- MODULE WorkerPool -----------------------------
(***************************************************************************)
(* The worker pool of the runners with Redis configured                    *)
(* (app/services/worker_pool/base.py, with k8s.py and ec2.py for           *)
(* discovery), driven by the route handlers that call it.                  *)
(*                                                                         *)
(* A runner is a single asyncio loop.  No block under the pool's lock      *)
(* awaits anything, so what runs between two network awaits is one atomic  *)
(* step, and a coroutine is a task with a program counter naming the await *)
(* it is suspended at.  Runners share only Redis and the workers.          *)
(***************************************************************************)
EXTENDS RedisState, WorkerProcess, Integers, FiniteSets

CONSTANTS
    Runner,         \* runner pods
    Inbound,        \* SIDs of inbound calls
    Outbound,       \* the call_id (UUID) each outbound call is reserved under
    SidOf,          \* SidOf[o]: the SID the provider gives outbound call o
    AskOnAnswer,    \* SIDs of outbound calls whose provider asks for the
                    \* worker when the callee answers (jambonz, mcube); the
                    \* others (twilio) get its URL when they are dialled
    Task,           \* slots for request handlers running at the same time
    NoRunner, NoProbe,
    Behaviour,      \* which optional behaviours are included, see AllBehaviours
    MaxHooks,       \* terminal status webhooks sent per call
    RedisRetries,   \* attempts of _with_retry, 3 in the code
    AssignRetries,  \* _REDIS_ASSIGN_RETRIES, 3 in the code
    LookupRetries,  \* _RELEASE_LOOKUP_RETRIES, 4 in the code
    Unhealthy,      \* consecutive failures that make a worker unfit, 3
    Timely          \* TRUE: release_worker never gives up its lookups while
                    \* an assignment or reassignment of that call is running

AllBehaviours ==
    { "prewarm",    \* prewarm requests reach the workers (if not, all are lost)
      "probe",      \* health checks of the workers, run_health_checks
      "reap",       \* WORKER_STALE_ASSIGNMENT_SECONDS > 0
      "drain",      \* workers leave and join what discovery returns
      "admin",      \* POST /workers/{id}/release
      "handler",    \* a webhook handler fails after its worker was assigned
      "error",      \* a request fails before it had an effect
      "lost",       \* a request takes effect and its reply is lost
      "restart",    \* runner pods restart
      "crash" }     \* worker processes restart

Sid == {SidOf[o] : o \in Outbound}

ASSUME PoolAssumption ==
    /\ Call = Inbound \cup Outbound \cup Sid
    /\ SidOf \in [Outbound -> Call]
    /\ \A o, p \in Outbound : SidOf[o] = SidOf[p] => o = p
    /\ Inbound \cap Outbound = {} /\ Inbound \cap Sid = {} /\ Outbound \cap Sid = {}
    /\ AskOnAnswer \subseteq Sid
    /\ NoRunner \notin Runner /\ NoProbe \notin Call \cup {NoCall}
    /\ Behaviour \subseteq AllBehaviours
    /\ MaxHooks \in Nat
    /\ RedisRetries \in Nat \ {0} /\ AssignRetries \in Nat \ {0}
    /\ LookupRetries \in Nat \ {0} /\ Unhealthy \in Nat \ {0}
    /\ Timely \in BOOLEAN

VARIABLES
    pool,       \* pool[r]: the keys of self.workers on runner r
    local,      \* local[r][w]: WorkerStatus.current_call_sid, NoCall for None
    age,        \* age[r][w]: of assigned_at, "unset" while that is None and "old"
                \* when it is past _STARTUP_GRACE_SECONDS
    fails,      \* fails[r][w]: consecutive_failures, capped at Unhealthy
    task,       \* the request handlers that are running
    stray,      \* release_assignment calls started with create_task
    probe,      \* probe[r][w]: the current_call a /health response carries
    reap,       \* reap[r]: stale workers the batch read of Redis showed free
    drain,      \* drain[r]: names discovery no longer returns, to be checked
    gone,       \* gone[r]: those found without a call, about to be deleted
    up,         \* what the discovery API returns
    phase,      \* phase[c]: the provider's view of call c
    routed,     \* routed[c]: the worker whose URL was given out for c
    hooks,      \* hooks[c]: terminal webhooks of c sent so far
    clobbered   \* a script changed a hash that held another call's assignment

runnerVars == <<pool, local, age, fails, probe, reap, drain, gone>>
callVars   == <<phase, routed, hooks>>
envVars    == <<up, callVars, workerVars>>
vars == <<redisVars, runnerVars, envVars, task, stray, clobbered>>

-----------------------------------------------------------------------------
(* Tasks.  pc names the await a handler is suspended at. *)

PC == { "idle",
        "claim", "backoff", "cache", "noworker", "reject",  \* get_and_assign_worker
        "respond",                                      \* webhook handler
        "getw",                                         \* get_worker_for_call
        "dial", "find", "rekey", "recache",             \* outbound handler
        "lookup", "release",                            \* release_worker
        "admin",                                        \* release_worker_by_id
        "uncache" }                                     \* the last step of both

HandlerWith(pc, r, c, w) == [pc |-> pc, runner |-> r, call |-> c, worker |-> w,
                             cands |-> {}, tries |-> 0, again |-> FALSE]
Handler(pc, r, c) == HandlerWith(pc, r, c, NoWorker)
Idle == Handler("idle", NoRunner, NoCall)

TaskState == [pc : PC, runner : Runner \cup {NoRunner}, call : Call \cup {NoCall},
              worker : Worker \cup {NoWorker}, cands : SUBSET Worker,
              tries : Nat, again : BOOLEAN]

Stray == [runner : Runner, worker : Worker, call : Call]

(* Handler k goes on at await pc with another worker, candidates, tries. *)
Moved(k, pc, w, cands, tries) ==
    [pc |-> pc, runner |-> k.runner, call |-> k.call, worker |-> w,
     cands |-> cands, tries |-> tries, again |-> k.again]

At(t, pc) == task[t].pc = pc
Become(t, rec) == task' = [task EXCEPT ![t] = rec]
GotoWith(t, pc, w) == Become(t, Moved(task[t], pc, w, {}, 0))
Goto(t, pc) == GotoWith(t, pc, task[t].worker)
Retry(t, tries) ==
    Become(t, Moved(task[t], task[t].pc, task[t].worker, task[t].cands, tries))
Finish(t) == Become(t, Idle)

(* One failed attempt inside _with_retry; the last one ends in step pc. *)
FailedAttempt(t, pc) ==
    IF task[t].tries + 1 < RedisRetries
    THEN Retry(t, task[t].tries + 1)
    ELSE Goto(t, pc)

(* A live call has, or is about to get, its worker: it is "left" when the  *)
(* worker has closed its pipeline but the provider has not hung up yet.    *)
Live(c) == phase[c] \in {"live", "answered", "joined"}
IsOutbound(t) == task[t].call \in Outbound

(* What a handler suspended at a given await knows. *)
HasCall == PC \ {"idle", "admin", "uncache"}
HasReservation == {"dial", "find", "rekey", "recache"}
HasWorker == {"cache", "respond", "dial", "rekey", "recache", "release", "admin", "uncache"}

TaskOK(k, rt) ==
    /\ k \in TaskState
    /\ k.pc # "idle" => k.runner \in Runner
    /\ k.pc \in HasCall => k.call \in Call
    /\ k.pc \in HasReservation => k.call \in Outbound /\ rt[k.call] \in Worker
    /\ k.pc \in HasWorker => k.worker \in Worker

TaskTypeOK ==
    task \in [Task -> TaskState] /\ \A t \in Task : TaskOK(task[t], routed)

Ages == {"unset", "young", "old"}

RunnerTypeOK ==
    /\ pool \in [Runner -> SUBSET Worker]
    /\ local \in [Runner -> [Worker -> Call \cup {NoCall}]]
    /\ age \in [Runner -> [Worker -> Ages]]
    /\ fails \in [Runner -> [Worker -> 0..Unhealthy]]
    /\ probe \in [Runner -> [Worker -> Call \cup {NoCall, NoProbe}]]
    /\ reap \in [Runner -> SUBSET Worker]
    /\ drain \in [Runner -> SUBSET Worker]
    /\ gone \in [Runner -> SUBSET Worker]
    /\ stray \subseteq Stray

CallTypeOK ==
    /\ up \subseteq Worker
    /\ phase \in [Call -> {"new", "live", "answered", "joined", "left", "ended"}]
    /\ routed \in [Call -> Worker \cup {NoWorker}]
    /\ hooks \in [Call -> 0..MaxHooks]

(* Every variable has its type, and a handler knows the call and the worker *)
(* that its next step acts on.                                             *)
TypeOK ==
    /\ RedisTypeOK /\ WorkerTypeOK /\ RunnerTypeOK /\ CallTypeOK /\ TaskTypeOK
    /\ clobbered \in BOOLEAN

Init ==
    /\ RedisInit
    /\ WorkerInit
    /\ up = Worker
    /\ pool = [r \in Runner |-> Worker]     \* discover_workers at startup
    /\ local = [r \in Runner |-> [w \in Worker |-> NoCall]]
    /\ age = [r \in Runner |-> [w \in Worker |-> "unset"]]
    /\ fails = [r \in Runner |-> [w \in Worker |-> 0]]
    /\ probe = [r \in Runner |-> [w \in Worker |-> NoProbe]]
    /\ reap = [r \in Runner |-> {}]
    /\ drain = [r \in Runner |-> {}]
    /\ gone = [r \in Runner |-> {}]
    /\ task = [t \in Task |-> Idle]
    /\ stray = {}
    /\ phase = [c \in Call |-> "new"]
    /\ routed = [c \in Call |-> NoWorker]
    /\ hooks = [c \in Call |-> 0]
    /\ clobbered = FALSE

-----------------------------------------------------------------------------
(* The Redis operations, with a history variable: clobbered records that   *)
(* a script issued for some call changed the hash of another call.         *)

Claim1(cands, c, w) == FindAndAssign(cands, c, w) /\ UNCHANGED clobbered

RunRelease(w, c) ==
    /\ ReleaseAssignment(w, c)
    /\ clobbered' = (clobbered \/ hash[w] \notin {NoCall, c})

RunClear(w) ==
    /\ ClearWorkerState(w)
    /\ clobbered' = (clobbered \/ ~IsFree(w))

RunReassign(old, new, w) ==
    /\ Reassign(old, new, w)
    /\ clobbered' = (clobbered \/ hash[w] \notin {NoCall, old, new})

NoScript == UNCHANGED <<redisVars, clobbered>>
OnlyTask == NoScript /\ UNCHANGED <<runnerVars, envVars, stray>>
OnlyTaskAndCache ==
    NoScript /\ UNCHANGED <<pool, fails, probe, reap, drain, gone, up, callVars, stray>>

(* A prewarm request is sent, and may be lost. *)
Send(ps) ==
    /\ \/ posts' = posts
       \/ "prewarm" \in Behaviour /\ posts' = posts \cup ps
    /\ UNCHANGED <<serving, warm, onair>>

-----------------------------------------------------------------------------
(* get_and_assign_worker *)

(* is_accepting_calls: the pre-filter over the local cache. *)
Candidates(r, known) ==
    {w \in known : local[r][w] = NoCall /\ fails[r][w] < Unhealthy}

Snapshot(k, known, tries) ==
    LET cands == Candidates(k.runner, known)
    IN Moved(k, IF cands = {} THEN "noworker" ELSE "claim", NoWorker, cands, tries)

(* find_and_assign raised or was retried: every RedisRetries-th failure    *)
(* reaches get_and_assign_worker, which sleeps and starts over, and after  *)
(* AssignRetries of those rejects the call.                                *)
FailedClaim(t) ==
    LET n == task[t].tries + 1 IN
    IF n = RedisRetries * AssignRetries THEN GotoWith(t, "reject", NoWorker)
    ELSE IF n % RedisRetries = 0
         THEN Become(t, Moved(task[t], "backoff", NoWorker, {}, n))
         ELSE Retry(t, n)

StartOver(t) ==
    /\ At(t, "backoff")
    /\ Become(t, Snapshot(task[t], pool[task[t].runner], task[t].tries))
    /\ OnlyTask

Claim(t) ==
    /\ At(t, "claim")
    /\ \E w \in task[t].cands :
          /\ Claim1(task[t].cands, task[t].call, w)
          /\ GotoWith(t, "cache", w)
    /\ UNCHANGED <<runnerVars, envVars, stray>>

ClaimAllBusy(t) ==
    /\ At(t, "claim")
    /\ NoneFree(task[t].cands)
    /\ LET n == task[t].tries
       IN Become(t, Moved(task[t], "noworker", NoWorker, {}, n - (n % RedisRetries)))
    /\ OnlyTask

ClaimLost(t) ==
    /\ "lost" \in Behaviour
    /\ At(t, "claim")
    /\ \E w \in task[t].cands : Claim1(task[t].cands, task[t].call, w)
    /\ FailedClaim(t)
    /\ UNCHANGED <<runnerVars, envVars, stray>>

(* Back under the lock: record the assignment, or give the claim back when *)
(* discovery dropped the worker meanwhile.  The handler of a new call then *)
(* prewarms the worker.                                                    *)
CacheAssignment(t) ==
    LET r == task[t].runner   c == task[t].call   w == task[t].worker IN
    /\ At(t, "cache")
    /\ w \in pool[r]
    /\ local' = [local EXCEPT ![r][w] = c]
    /\ age' = [age EXCEPT ![r][w] = "young"]
    /\ IF IsOutbound(t)
       THEN /\ Goto(t, "dial")
            /\ routed' = [routed EXCEPT ![c] = w]
       ELSE /\ Goto(t, "respond")
            /\ UNCHANGED routed
    /\ Send(IF c \in Sid THEN {} ELSE {PrewarmPost(w, c)})
    /\ NoScript
    /\ UNCHANGED <<pool, fails, probe, reap, drain, gone, up, phase, hooks, stray>>

CacheMissing(t) ==
    LET r == task[t].runner   w == task[t].worker IN
    /\ At(t, "cache")
    /\ w \notin pool[r]
    /\ stray' = stray \cup {[runner |-> r, worker |-> w, call |-> task[t].call]}
    /\ GotoWith(t, "noworker", NoWorker)
    /\ NoScript
    /\ UNCHANGED <<runnerVars, envVars>>

(* discover_workers up to the end of its locked section. *)
DiscoverOn(r) ==
    /\ pool' = [pool EXCEPT ![r] = @ \cup up]
    /\ drain' = [drain EXCEPT ![r] = @ \cup (pool[r] \ up)]
    /\ UNCHANGED <<local, age, fails, probe, reap, gone>>

(* _on_demand_discover ran, and the assignment is tried once more. *)
Again(k) == [pc |-> k.pc, runner |-> k.runner, call |-> k.call, worker |-> k.worker,
             cands |-> k.cands, tries |-> k.tries, again |-> TRUE]

DiscoverAndRetry(t) ==
    LET r == task[t].runner IN
    /\ At(t, "noworker")
    /\ ~task[t].again
    /\ DiscoverOn(r)
    /\ Become(t, Snapshot(Again(task[t]), pool[r] \cup up, task[t].tries))
    /\ NoScript
    /\ UNCHANGED <<envVars, stray>>

(* None is returned: discovery is cooling down or did not help, or Redis   *)
(* stayed away.  An outbound request answers 503 and its reservation ends; *)
(* a webhook answers "all agents are busy".                                *)
GiveUp(t) ==
    /\ task[t].pc \in {"noworker", "reject"}
    /\ phase' = IF IsOutbound(t) THEN [phase EXCEPT ![task[t].call] = "ended"]
                                 ELSE phase
    /\ Finish(t)
    /\ NoScript
    /\ UNCHANGED <<runnerVars, workerVars, up, routed, hooks, stray>>

-----------------------------------------------------------------------------
(* The route handlers around an assignment. *)

(* The webhook of an inbound call (POST /jambonz/call, /twilio/incoming,   *)
(* /mcube/connect), or POST /call/outbound, which reserves a worker under  *)
(* the request's call_id.                                                  *)
NewCall(t, r, c) ==
    /\ c \in Inbound \cup Outbound
    /\ At(t, "idle")
    /\ phase[c] = "new"
    /\ phase' = [phase EXCEPT ![c] = "live"]
    /\ Become(t, Snapshot(Handler("claim", r, c), pool[r], 0))
    /\ NoScript
    /\ UNCHANGED <<runnerVars, workerVars, up, routed, hooks, stray>>

(* The answered-call webhook of an outbound call looks its worker up. *)
AnsweredCall(t, r, c) ==
    /\ c \in AskOnAnswer
    /\ At(t, "idle")
    /\ phase[c] = "live"
    /\ phase' = [phase EXCEPT ![c] = "answered"]
    /\ Become(t, Handler("getw", r, c))
    /\ NoScript
    /\ UNCHANGED <<runnerVars, workerVars, up, routed, hooks, stray>>

(* A mutant of LookedUp: it trusts the mapping to name a worker of the pool. *)
LookedUpUntested(t) ==
    /\ At(t, "getw")
    /\ GotoWith(t, "respond", callKey[task[t].call])
    /\ OnlyTask

(* get_worker_for_call; without a worker the handler asks for a new one. *)
LookedUp(t) ==
    LET r == task[t].runner   w == callKey[task[t].call] IN
    /\ At(t, "getw")
    /\ w \in pool[r]
    /\ GotoWith(t, "respond", w)
    /\ OnlyTask

LookedUpAfterDiscovery(t) ==
    LET r == task[t].runner   w == callKey[task[t].call] IN
    /\ At(t, "getw")
    /\ w # NoWorker /\ w \notin pool[r]
    /\ DiscoverOn(r)
    /\ IF w \in up
       THEN GotoWith(t, "respond", w)
       ELSE Become(t, Snapshot(task[t], pool[r] \cup up, 0))
    /\ NoScript
    /\ UNCHANGED <<envVars, stray>>

LookedUpNone(t) ==
    /\ At(t, "getw")
    /\ callKey[task[t].call] = NoWorker \/ "error" \in Behaviour
    /\ Become(t, Snapshot(task[t], pool[task[t].runner], 0))
    /\ OnlyTask

(* The response with the worker's WebSocket URL goes out. *)
Respond(t) ==
    /\ At(t, "respond")
    /\ routed' = [routed EXCEPT ![task[t].call] = task[t].worker]
    /\ Finish(t)
    /\ NoScript
    /\ UNCHANGED <<runnerVars, workerVars, up, phase, hooks, stray>>

(* Building it failed: the handler releases the call's worker. *)
RespondFails(t) ==
    /\ "handler" \in Behaviour
    /\ At(t, "respond")
    /\ GotoWith(t, "lookup", NoWorker)
    /\ OnlyTask

(* provider.initiate: the call exists, under the provider's own SID, and   *)
(* the reservation is over.                                                *)
Dialled(t) ==
    LET o == task[t].call   c == SidOf[o] IN
    /\ phase' = [phase EXCEPT ![o] = "ended", ![c] = "live"]
    /\ routed' = IF c \in AskOnAnswer THEN routed
                 ELSE [routed EXCEPT ![c] = task[t].worker]

Dial(t) ==
    /\ At(t, "dial")
    /\ Dialled(t)
    /\ GotoWith(t, "find", NoWorker)
    /\ NoScript
    /\ UNCHANGED <<runnerVars, workerVars, up, hooks, stray>>

(* A mutant of DialFails: the request fails without releasing its worker. *)
DialFailsHolding(t) ==
    /\ At(t, "dial")
    /\ phase' = [phase EXCEPT ![task[t].call] = "ended"]
    /\ Finish(t)
    /\ NoScript
    /\ UNCHANGED <<runnerVars, workerVars, up, routed, hooks, stray>>

(* provider.initiate raised; release_worker(call_id). *)
DialFails(t) ==
    /\ At(t, "dial")
    /\ phase' = [phase EXCEPT ![task[t].call] = "ended"]
    /\ GotoWith(t, "lookup", NoWorker)
    /\ NoScript
    /\ UNCHANGED <<runnerVars, workerVars, up, routed, hooks, stray>>

(* It raised after the provider had placed the call. *)
DialLost(t) ==
    /\ "lost" \in Behaviour
    /\ At(t, "dial")
    /\ Dialled(t)
    /\ GotoWith(t, "lookup", NoWorker)
    /\ NoScript
    /\ UNCHANGED <<runnerVars, workerVars, up, hooks, stray>>

-----------------------------------------------------------------------------
(* reassign_call_sid *)

Find(t) ==
    /\ At(t, "find")
    /\ callKey[task[t].call] # NoWorker
    /\ GotoWith(t, "rekey", callKey[task[t].call])
    /\ OnlyTask

(* The handler passes the new key on to the worker it was given. *)
SendReassign(o) == Send({ReassignPost(routed[o], o, SidOf[o])})

(* "Reassign failed: no Redis assignment" *)
FindNone(t) ==
    /\ At(t, "find")
    /\ callKey[task[t].call] = NoWorker \/ "error" \in Behaviour
    /\ UNCHANGED <<local, age>>
    /\ SendReassign(task[t].call)
    /\ Finish(t)
    /\ OnlyTaskAndCache

Rekey(t) ==
    /\ At(t, "rekey")
    /\ RunReassign(task[t].call, SidOf[task[t].call], task[t].worker)
    /\ \/ Goto(t, "recache")
       \/ "lost" \in Behaviour /\ FailedAttempt(t, "recache")
    /\ UNCHANGED <<runnerVars, envVars, stray>>

(* The local cache takes the new SID whether or not Redis did. *)
Recache(t) ==
    LET r == task[t].runner   w == task[t].worker IN
    /\ At(t, "recache")
    /\ local' = IF w \in pool[r]
                THEN [local EXCEPT ![r][w] = SidOf[task[t].call]] ELSE local
    /\ UNCHANGED age
    /\ SendReassign(task[t].call)
    /\ Finish(t)
    /\ OnlyTaskAndCache

-----------------------------------------------------------------------------
(* release_worker, called by the status webhook of any provider. *)

ProviderCall == Inbound \cup Sid

(* A mutant of TerminalHook: any status of the call counts as its last. *)
AnyStatusHook(t, r, c) ==
    /\ c \in ProviderCall
    /\ At(t, "idle")
    /\ phase[c] # "new"
    /\ hooks[c] < MaxHooks
    /\ hooks' = [hooks EXCEPT ![c] = @ + 1]
    /\ Become(t, Handler("lookup", r, c))
    /\ NoScript
    /\ UNCHANGED <<runnerVars, workerVars, up, phase, routed, stray>>

TerminalHook(t, r, c) ==
    /\ c \in ProviderCall
    /\ At(t, "idle")
    /\ phase[c] = "ended"
    /\ hooks[c] < MaxHooks
    /\ hooks' = [hooks EXCEPT ![c] = @ + 1]
    /\ Become(t, Handler("lookup", r, c))
    /\ NoScript
    /\ UNCHANGED <<runnerVars, workerVars, up, phase, routed, stray>>

Lookup(t) ==
    /\ At(t, "lookup")
    /\ callKey[task[t].call] # NoWorker
    /\ GotoWith(t, "release", callKey[task[t].call])
    /\ OnlyTask

LookupMiss(t) == callKey[task[t].call] = NoWorker \/ "error" \in Behaviour

LookupAgain(t) ==
    /\ At(t, "lookup")
    /\ LookupMiss(t)
    /\ task[t].tries + 1 < LookupRetries
    /\ Retry(t, task[t].tries + 1)
    /\ OnlyTask

(* Some handler has yet to write or rename the mapping of c. *)
Settling(c) ==
    \E u \in Task :
        \/ task[u].call = c /\ task[u].pc \in {"claim", "backoff", "noworker"}
        \/ /\ task[u].pc \in {"find", "rekey"}
           /\ SidOf[task[u].call] = c

Forget(r, ws) ==
    /\ local' = [local EXCEPT ![r] =
                    [w \in Worker |-> IF w \in ws THEN NoCall ELSE @[w]]]
    /\ age' = [age EXCEPT ![r] =
                    [w \in Worker |-> IF w \in ws THEN "unset" ELSE @[w]]]

(* The last lookup found nothing: scan the local pool, break at the first. *)
LookupGivesUp(t) ==
    LET r == task[t].runner   c == task[t].call
        held == {w \in pool[r] : local[r][w] = c} IN
    /\ At(t, "lookup")
    /\ LookupMiss(t)
    /\ task[t].tries + 1 = LookupRetries
    /\ Timely => ~Settling(c)
    /\ IF held = {} THEN Forget(r, {}) /\ Send({})
       ELSE \E w \in held : Forget(r, {w}) /\ Send({CancelPost(w, c)})
    /\ Finish(t)
    /\ OnlyTaskAndCache

Release(t) ==
    /\ At(t, "release")
    /\ RunRelease(task[t].worker, task[t].call)
    /\ \/ Goto(t, "uncache")
       \/ "lost" \in Behaviour /\ FailedAttempt(t, "uncache")
    /\ UNCHANGED <<runnerVars, envVars, stray>>

(* Whatever the local cache holds by now is forgotten. *)
Uncache(t) ==
    LET r == task[t].runner   c == task[t].call
        found == pool[r] \cap {task[t].worker} IN
    /\ At(t, "uncache")
    /\ Forget(r, found)
    /\ Send(IF c = NoCall THEN {} ELSE {CancelPost(w, c) : w \in found})
    /\ Finish(t)
    /\ OnlyTaskAndCache

(* release_worker_by_id, by the call SID the local cache holds now. *)
AdminRelease(t, r, w) ==
    /\ "admin" \in Behaviour
    /\ At(t, "idle")
    /\ w \in pool[r]
    /\ Become(t, HandlerWith("admin", r, local[r][w], w))
    /\ OnlyTask

AdminScript(t) ==
    LET w == task[t].worker   c == task[t].call IN
    /\ At(t, "admin")
    /\ IF c # NoCall THEN RunRelease(w, c) ELSE RunClear(w)
    /\ \/ Goto(t, "uncache")
       \/ "lost" \in Behaviour /\ FailedAttempt(t, "uncache")
    /\ UNCHANGED <<runnerVars, envVars, stray>>

(* One attempt at a script fails before it reached Redis. *)
ScriptError(t) ==
    /\ "error" \in Behaviour
    /\ \/ At(t, "claim") /\ FailedClaim(t)
       \/ At(t, "rekey") /\ FailedAttempt(t, "recache")
       \/ task[t].pc \in {"release", "admin"} /\ FailedAttempt(t, "uncache")
    /\ OnlyTask

-----------------------------------------------------------------------------
(* release_assignment started with create_task: nobody waits for it, and   *)
(* nobody hears of its failure.  After a lost reply it runs again.         *)

RunStray(s) ==
    /\ s \in stray
    /\ RunRelease(s.worker, s.call)
    /\ \/ stray' = stray \ {s}
       \/ "lost" \in Behaviour /\ UNCHANGED stray
    /\ UNCHANGED <<runnerVars, envVars, task>>

StrayError(s) ==
    /\ "error" \in Behaviour
    /\ s \in stray
    /\ stray' = stray \ {s}
    /\ NoScript
    /\ UNCHANGED <<runnerVars, envVars, task>>

(* health_check_worker: the worker answers, then the runner reads the body. *)
ProbeAnswered(r, w) ==
    /\ "probe" \in Behaviour
    /\ w \in pool[r]
    /\ probe[r][w] = NoProbe
    /\ probe' = [probe EXCEPT ![r][w] = serving[w]]
    /\ NoScript
    /\ UNCHANGED <<pool, local, age, fails, reap, drain, gone, envVars, task, stray>>

(* Mutants of ProbeRead: an idle answer frees the worker in the cache but not *)
(* in Redis, or does not free it at all.                                     *)
ProbeReadCacheOnly(r, w) ==
    LET answer == probe[r][w]   c == local[r][w]
        differs == c # NoCall /\ age[r][w] # "young" /\ answer # c IN
    /\ answer # NoProbe
    /\ probe' = [probe EXCEPT ![r][w] = NoProbe]
    /\ fails' = [fails EXCEPT ![r][w] = 0]
    /\ local' = IF differs THEN [local EXCEPT ![r][w] = answer] ELSE local
    /\ NoScript
    /\ UNCHANGED <<pool, age, reap, drain, gone, envVars, task, stray>>

ProbeReadBusyOnly(r, w) ==
    LET answer == probe[r][w] IN
    /\ answer # NoProbe
    /\ probe' = [probe EXCEPT ![r][w] = NoProbe]
    /\ fails' = [fails EXCEPT ![r][w] = 0]
    /\ local' = IF local[r][w] # NoCall /\ age[r][w] # "young" /\ answer # NoCall
                THEN [local EXCEPT ![r][w] = answer] ELSE local
    /\ NoScript
    /\ UNCHANGED <<pool, age, reap, drain, gone, envVars, task, stray>>

(* The body may release or overwrite an assignment older than the grace.   *)
ProbeRead(r, w) ==
    LET answer == probe[r][w]   c == local[r][w]
        differs == c # NoCall /\ age[r][w] # "young" /\ answer # c IN
    /\ answer # NoProbe
    /\ probe' = [probe EXCEPT ![r][w] = NoProbe]
    /\ fails' = [fails EXCEPT ![r][w] = 0]
    /\ IF differs /\ answer = NoCall
       THEN /\ Forget(r, {w})
            /\ stray' = stray \cup {[runner |-> r, worker |-> w, call |-> c]}
       ELSE /\ local' = IF differs THEN [local EXCEPT ![r][w] = answer] ELSE local
            /\ UNCHANGED <<age, stray>>
    /\ NoScript
    /\ UNCHANGED <<pool, reap, drain, gone, envVars, task>>

(* No answer, or none that is 200: a worker that is gone never answers. *)
ProbeFails(r, w) ==
    /\ "probe" \in Behaviour /\ ("error" \in Behaviour \/ w \notin up)
    /\ w \in pool[r]
    /\ fails[r][w] < Unhealthy
    /\ fails' = [fails EXCEPT ![r][w] = @ + 1]
    /\ probe' = [probe EXCEPT ![r][w] = NoProbe]
    /\ NoScript
    /\ UNCHANGED <<pool, local, age, reap, drain, gone, envVars, task, stray>>

(* An assignment gets older than the grace, which outlasts the time a call *)
(* takes from its assignment to its worker (the comment at                 *)
(* _STARTUP_GRACE_SECONDS) by more than a probe's timeout: no answer from  *)
(* before the call joined is read after the grace.                         *)
Age(r, w) ==
    /\ local[r][w] # NoCall
    /\ probe[r][w] = NoProbe
    /\ age[r][w] = "young"
    /\ phase[local[r][w]] \in {"joined", "left", "ended"}
    /\ age' = [age EXCEPT ![r][w] = "old"]
    /\ NoScript
    /\ UNCHANGED <<pool, local, fails, probe, reap, drain, gone, envVars, task, stray>>

(* _release_stale_assignments: batch read of the workers that look stale   *)
(* here, then forget those Redis showed free, whatever they hold by then.  *)
ReapRead(r) ==
    LET stale == {w \in pool[r] : /\ local[r][w] # NoCall
                                  /\ age[r][w] = "old" /\ fails[r][w] = 0} IN
    /\ "reap" \in Behaviour
    /\ reap[r] = {}
    /\ reap' = [reap EXCEPT ![r] = {w \in stale : IsFree(w)}]
    /\ NoScript
    /\ UNCHANGED <<pool, local, age, fails, probe, drain, gone, envVars, task, stray>>

ReapApply(r) ==
    /\ reap[r] # {}
    /\ Forget(r, reap[r])
    /\ reap' = [reap EXCEPT ![r] = {}]
    /\ NoScript
    /\ UNCHANGED <<pool, fails, probe, drain, gone, envVars, task, stray>>

(* discover_workers, from the health-check loop. *)
Discover(r) ==
    /\ "drain" \in Behaviour
    /\ DiscoverOn(r)
    /\ NoScript
    /\ UNCHANGED <<envVars, task, stray>>

(* _has_active_call for one name that discovery no longer returned.  Cache *)
(* and Redis are read as one: a claim is in Redis before it is cached.     *)
HasActiveCall(r, w) == local[r][w] # NoCall \/ ~IsFree(w)

DrainCheck(r, w) ==
    /\ w \in drain[r]
    /\ drain' = [drain EXCEPT ![r] = @ \ {w}]
    /\ \/ /\ w \in pool[r] /\ ~HasActiveCall(r, w)
          /\ gone' = [gone EXCEPT ![r] = @ \cup {w}]
       \/ /\ w \notin pool[r] \/ HasActiveCall(r, w) \/ "error" \in Behaviour
          /\ UNCHANGED gone
    /\ NoScript
    /\ UNCHANGED <<pool, local, age, fails, probe, reap, envVars, task, stray>>

(* del self.workers[w]; a worker of that name found later starts blank. *)
DrainDelete(r, w) ==
    /\ w \in gone[r]
    /\ gone' = [gone EXCEPT ![r] = @ \ {w}]
    /\ pool' = [pool EXCEPT ![r] = @ \ {w}]
    /\ Forget(r, {w})
    /\ fails' = [fails EXCEPT ![r][w] = 0]
    /\ probe' = [probe EXCEPT ![r][w] = NoProbe]
    /\ reap' = [reap EXCEPT ![r] = @ \ {w}]
    /\ NoScript
    /\ UNCHANGED <<drain, envVars, task, stray>>

(* A runner pod is replaced: everything it kept in memory is gone. *)
Restart(r) ==
    /\ "restart" \in Behaviour
    /\ pool' = [pool EXCEPT ![r] = up]
    /\ Forget(r, Worker)
    /\ fails' = [fails EXCEPT ![r] = [w \in Worker |-> 0]]
    /\ probe' = [probe EXCEPT ![r] = [w \in Worker |-> NoProbe]]
    /\ reap' = [reap EXCEPT ![r] = {}]
    /\ drain' = [drain EXCEPT ![r] = {}]
    /\ gone' = [gone EXCEPT ![r] = {}]
    /\ task' = [t \in Task |-> IF task[t].runner = r THEN Idle ELSE task[t]]
    /\ stray' = {s \in stray : s.runner # r}
    /\ NoScript
    /\ UNCHANGED envVars

-----------------------------------------------------------------------------
(* The world outside the runners. *)

(* The provider connects to the worker it was given. *)
Join(c) ==
    /\ Live(c) /\ phase[c] # "joined"
    /\ c \in ProviderCall /\ routed[c] # NoWorker
    /\ phase' = [phase EXCEPT ![c] = "joined"]
    /\ StartCall(routed[c], c)
    /\ NoScript
    /\ UNCHANGED <<runnerVars, up, routed, hooks, task, stray>>

AfterLeaving(cs) ==
    [c \in Call |-> IF c \in cs /\ phase[c] = "joined" THEN "left" ELSE phase[c]]

(* The pipeline ends: the bot said goodbye, an error, or the caller left. *)
Leave(w, c) ==
    /\ EndCall(w, c)
    /\ phase' = AfterLeaving({c})
    /\ NoScript
    /\ UNCHANGED <<runnerVars, up, routed, hooks, task, stray>>

Crash(w) ==
    /\ "crash" \in Behaviour
    /\ CrashWorker(w)
    /\ phase' = AfterLeaving(onair[w])
    /\ NoScript
    /\ UNCHANGED <<runnerVars, up, routed, hooks, task, stray>>

PrewarmArrives(p) ==
    /\ Deliver(p)
    /\ NoScript
    /\ UNCHANGED <<runnerVars, up, callVars, task, stray>>

PrewarmExpires(w, c) ==
    /\ ExpirePrewarm(w, c)
    /\ NoScript
    /\ UNCHANGED <<runnerVars, up, callVars, task, stray>>

(* The provider's call ends: hangup, busy, no-answer, failed. *)
HangUp(c) ==
    /\ c \in ProviderCall
    /\ Live(c) \/ phase[c] = "left"
    /\ phase' = [phase EXCEPT ![c] = "ended"]
    /\ NoScript
    /\ UNCHANGED <<runnerVars, workerVars, up, routed, hooks, task, stray>>

ScaleDown(w) ==
    /\ "drain" \in Behaviour
    /\ w \in up
    /\ up' = up \ {w}
    /\ NoScript
    /\ UNCHANGED <<runnerVars, workerVars, callVars, task, stray>>

ScaleUp(w) ==
    /\ "drain" \in Behaviour
    /\ w \notin up
    /\ up' = up \cup {w}
    /\ NoScript
    /\ UNCHANGED <<runnerVars, workerVars, callVars, task, stray>>

-----------------------------------------------------------------------------
(* One step of a handler that is running. *)
Step(t) ==
    \/ Claim(t) \/ ClaimAllBusy(t) \/ ClaimLost(t) \/ StartOver(t)
    \/ CacheAssignment(t) \/ CacheMissing(t) \/ DiscoverAndRetry(t) \/ GiveUp(t)
    \/ LookedUp(t) \/ LookedUpAfterDiscovery(t) \/ LookedUpNone(t)
    \/ Respond(t) \/ RespondFails(t)
    \/ Dial(t) \/ DialFails(t) \/ DialLost(t)
    \/ Find(t) \/ FindNone(t) \/ Rekey(t) \/ Recache(t)
    \/ Lookup(t) \/ LookupAgain(t) \/ LookupGivesUp(t)
    \/ Release(t) \/ Uncache(t) \/ AdminScript(t) \/ ScriptError(t)

Request(t, r) ==
    \/ \E c \in Call : NewCall(t, r, c) \/ AnsweredCall(t, r, c) \/ TerminalHook(t, r, c)
    \/ \E w \in Worker : AdminRelease(t, r, w)

Background(r) ==
    \/ \E w \in Worker : \/ ProbeAnswered(r, w) \/ ProbeRead(r, w) \/ ProbeFails(r, w)
                         \/ Age(r, w) \/ DrainCheck(r, w) \/ DrainDelete(r, w)
    \/ ReapRead(r) \/ ReapApply(r) \/ Discover(r) \/ Restart(r)

Environment ==
    \/ \E c \in Call : Join(c) \/ HangUp(c)
    \/ \E w \in Worker : Crash(w) \/ ScaleDown(w) \/ ScaleUp(w)
    \/ \E w \in Worker, c \in Call : Leave(w, c) \/ PrewarmExpires(w, c)
    \/ \E p \in posts : PrewarmArrives(p)

Next ==
    \/ \E t \in Task : Step(t)
    \/ \E t \in Task, r \in Runner : Request(t, r)
    \/ \E s \in stray : RunStray(s) \/ StrayError(s)
    \/ \E r \in Runner : Background(r)
    \/ Environment

Spec == Init /\ [][Next]_vars

-----------------------------------------------------------------------------
(* Safety. *)

(* Single tenancy (WORKER_POOL.md, "Role in the System"): no two live      *)
(* calls have been given the same worker, across all runners.              *)
SingleTenancy ==
    \A c, d \in Call :
        Live(c) /\ Live(d) /\ routed[c] = routed[d] /\ routed[c] # NoWorker => c = d

(* The two halves of the Redis state agree: a call's reverse mapping names *)
(* a worker whose hash holds that call.  Whatever fails, is retried or     *)
(* raced by the runners, only a script that changed the hash of a call it  *)
(* was not issued for can break this.                                      *)
KeysAgree ==
    ~clobbered => \A c \in Call : callKey[c] # NoWorker => hash[callKey[c]] = c

(* No handler is still working for call c or for its reservation. *)
Quiet(c) ==
    /\ \A t \in Task : task[t].call # c
                       /\ (task[t].call \in Outbound => SidOf[task[t].call] # c)
    /\ \A s \in stray : s.call # c

(* Call c is over, its status webhook has been handled, and no handler     *)
(* runs for it any more.                                                   *)
Settled(c) == phase[c] = "ended" /\ hooks[c] > 0 /\ Quiet(c)

(* No worker is stranded: none is held under the SID of a settled call, or *)
(* under a reservation that was not dialled or whose call is settled.      *)
NoStrandedWorker ==
    /\ \A c \in ProviderCall : Settled(c) => \A w \in Worker : hash[w] # c
    /\ \A o \in Outbound :
          /\ phase[o] = "ended" /\ Quiet(o)
          /\ phase[SidOf[o]] = "new" \/ Settled(SidOf[o])
          => \A w \in Worker : hash[w] # o

(* A worker reports the call it is connected to for as long as the call    *)
(* lasts: the health checks never see it idle or busy with another call    *)
(* (the comment at start_call in _handle_call, main.py).                   *)
CallIsReported ==
    \A w \in Worker : \A c \in onair[w] : phase[c] = "joined" => serving[w] = c

-----------------------------------------------------------------------------
(* The pool implements CallOwnership: a worker's tenant is the call in its *)
(* Redis hash, and only that call's own end takes it away.                 *)
over == {c \in Call : phase[c] = "ended"}
Ownership == INSTANCE CallOwnership WITH tenant <- hash, over <- over
ImplementsOwnership == Ownership!Spec

-----------------------------------------------------------------------------
(* Liveness. *)

(* Redis answers, HTTP requests return or time out, and calls end: every   *)
(* coroutine that can take a step takes it.                                *)
HandlersRun ==
    /\ \A t \in Task : WF_vars(Step(t))
    /\ WF_vars(\E s \in stray : RunStray(s))
    /\ WF_vars(\E p \in posts : PrewarmArrives(p))
    /\ \A c \in Call : WF_vars(HangUp(c))

(* The provider delivers a terminal status webhook, to some runner. *)
HooksArrive ==
    \A c \in Call : WF_vars(\E t \in Task, r \in Runner : TerminalHook(t, r, c))

(* run_health_checks loops for ever on each runner; time passes, so an     *)
(* assignment ages however often its worker is probed.                     *)
HealthChecksRun ==
    \A w \in Worker :
        /\ \A c \in Call : WF_vars(Leave(w, c))
        /\ \A r \in Runner : /\ WF_vars(ProbeAnswered(r, w)) /\ WF_vars(ProbeRead(r, w))
                             /\ SF_vars(Age(r, w))

HookSpec == Spec /\ HandlersRun /\ HooksArrive
ProbeSpec == Spec /\ HandlersRun /\ HealthChecksRun

(* A worker never stays held for a call that has ended: the status webhook *)
(* frees it, or else the health checks do.                                 *)
EndedCallFreesWorker ==
    \A c \in Call, w \in Worker :
        phase[c] = "ended" /\ hash[w] = c ~> hash[w] # c

(* Call c is over for the runners and for the workers: no handler runs for *)
(* it, no worker serves it, and no prewarm request could make one do so.   *)
Forgotten(c) ==
    /\ phase[c] = "ended" /\ Quiet(c)
    /\ \A w \in Worker : serving[w] # c /\ c \notin onair[w]
    /\ \A p \in posts : p.kind # "cancel" => c \notin {p.call, p.to}

(* A worker that no longer reports an ended call does not stay held for it *)
(* even if its status webhook is lost: the health checks free it (RC-2).   *)
IdleWorkerIsFreed ==
    \A c \in Call, w \in Worker : Forgotten(c) /\ hash[w] = c ~> hash[w] # c

(* A runner's cache does not keep a worker busy with such a call for ever. *)
CacheHeals ==
    \A r \in Runner, c \in Call, w \in Worker :
        Forgotten(c) /\ local[r][w] = c ~> local[r][w] # c
=============================================================================
