---------------------- MODULE WorkerPoolTenancyProofs ----------------------
(***************************************************************************)
(* TenancyInv is inductive, and single tenancy and the implementation of   *)
(* CallOwnership follow from it; HeldInv is inductive beside it, and no    *)
(* worker is stranded, for every number of calls, workers, runners and     *)
(* handlers.                                                               *)
(***************************************************************************)
EXTENDS WorkerPoolTenancy, WorkerPoolProofs

-----------------------------------------------------------------------------
(* Nothing removes a worker from a pool, or releases it in the background. *)

LEMMA DiscoverSettled ==
    ASSUME TypeOK, PoolIsSettled, NEW r \in Runner, DiscoverOn(r), UNCHANGED <<up, stray>>
    PROVE PoolIsSettled'
BY DEF PoolIsSettled, DiscoverOn, TypeOK, RunnerTypeOK

LEMMA SameSettled ==
    ASSUME PoolIsSettled, UNCHANGED <<up, stray, pool, drain, gone, probe>>
    PROVE PoolIsSettled'
BY DEF PoolIsSettled

LEMMA StepSettled ==
    ASSUME TypeOK, PoolIsSettled, NEW t \in Task, Step(t)
    PROVE PoolIsSettled'
<1>1. ASSUME Claim(t) \/ ClaimAllBusy(t) \/ ClaimLost(t) \/ StartOver(t)
             \/ CacheAssignment(t) \/ GiveUp(t) \/ LookedUp(t) \/ LookedUpNone(t)
             \/ Respond(t) \/ RespondFails(t) \/ Dial(t) \/ DialFails(t) \/ DialLost(t)
      PROVE PoolIsSettled'
  BY <1>1, SameSettled
  DEF Claim, ClaimAllBusy, ClaimLost, StartOver, CacheAssignment, GiveUp, LookedUp, LookedUpNone,
      Respond, RespondFails, Dial, DialFails, DialLost, OnlyTask, runnerVars, envVars
<1>2. ASSUME Find(t) \/ FindNone(t) \/ Rekey(t) \/ Recache(t) \/ Lookup(t) \/ LookupAgain(t)
             \/ LookupGivesUp(t) \/ Release(t) \/ Uncache(t) \/ AdminScript(t) \/ ScriptError(t)
      PROVE PoolIsSettled'
  BY <1>2, SameSettled
  DEF Find, FindNone, Rekey, Recache, Lookup, LookupAgain, LookupGivesUp, Release, Uncache,
      AdminScript, ScriptError, OnlyTask, OnlyTaskAndCache, runnerVars, envVars
<1>3. ASSUME DiscoverAndRetry(t) \/ LookedUpAfterDiscovery(t) PROVE PoolIsSettled'
  <2>1. task[t].pc # "idle"
    BY <1>3 DEF DiscoverAndRetry, LookedUpAfterDiscovery, At
  <2>2. task[t].runner \in Runner
    BY <2>1, KnownOK
  <2> QED BY <1>3, <2>2, DiscoverSettled DEF DiscoverAndRetry, LookedUpAfterDiscovery, envVars
<1>4. ~CacheMissing(t)
  <2>1. ASSUME At(t, "cache") PROVE task[t].worker \in Worker /\ task[t].runner \in Runner
    BY <2>1, KnownOK DEF At, HasWorker
  <2> QED BY <2>1 DEF CacheMissing, PoolIsSettled
<1> QED BY <1>1, <1>2, <1>3, <1>4 DEF Step

LEMMA NextSettled == Calm /\ TypeOK /\ PoolIsSettled /\ [Next]_vars => PoolIsSettled'
<1> SUFFICES ASSUME Calm, TypeOK, PoolIsSettled, [Next]_vars PROVE PoolIsSettled'
  OBVIOUS
<1>1. "probe" \notin Behaviour /\ "drain" \notin Behaviour
  BY DEF Calm
<1>2. ASSUME NEW t \in Task, NEW r \in Runner, Request(t, r) PROVE PoolIsSettled'
  BY <1>2, SameSettled
  DEF Request, NewCall, AnsweredCall, TerminalHook, AdminRelease, OnlyTask, runnerVars, envVars
<1>3. ASSUME NEW r \in Runner, NEW w \in Worker
      PROVE /\ ~ProbeAnswered(r, w) /\ ~ProbeRead(r, w) /\ ~ProbeFails(r, w)
            /\ ~DrainCheck(r, w) /\ ~DrainDelete(r, w) /\ ~Discover(r)
            /\ ~ScaleDown(w) /\ ~ScaleUp(w)
  BY <1>1 DEF PoolIsSettled, ProbeAnswered, ProbeRead, ProbeFails, DrainCheck, DrainDelete,
              Discover, ScaleDown, ScaleUp
<1>4. ASSUME NEW r \in Runner, Background(r) PROVE PoolIsSettled'
  <2>1. ASSUME ReapRead(r) \/ ReapApply(r) \/ \E w \in Worker : Age(r, w) PROVE PoolIsSettled'
    BY <2>1, SameSettled DEF ReapRead, ReapApply, Age, envVars
  <2>2. ASSUME Restart(r) PROVE PoolIsSettled'
    <3>1. stray' = {}
      BY <2>2 DEF Restart, PoolIsSettled
    <3> QED BY <2>2, <3>1 DEF Restart, PoolIsSettled, envVars
  <2>3. \/ ReapRead(r) \/ ReapApply(r) \/ Restart(r) \/ \E w \in Worker : Age(r, w)
        \/ Discover(r) \/ \E w \in Worker : ProbeAnswered(r, w) \/ ProbeRead(r, w)
                             \/ ProbeFails(r, w) \/ DrainCheck(r, w) \/ DrainDelete(r, w)
    BY <1>4 DEF Background
  <2>4. ~Discover(r)
    BY <1>1 DEF Discover
  <2> QED BY <1>3, <2>1, <2>2, <2>3, <2>4
<1>5. ASSUME Environment PROVE PoolIsSettled'
  <2>1. ASSUME NEW w \in Worker PROVE ~ScaleDown(w) /\ ~ScaleUp(w)
    BY <1>1 DEF ScaleDown, ScaleUp
  <2> QED BY <1>5, <2>1, SameSettled
      DEF Environment, Join, HangUp, Crash, Leave, PrewarmExpires, PrewarmArrives, runnerVars
<1>6. ASSUME NEW s \in stray PROVE FALSE
  BY DEF PoolIsSettled
<1>7. CASE UNCHANGED vars
  BY <1>7, SameSettled DEF vars, runnerVars, envVars
<1> QED BY <1>2, <1>4, <1>5, <1>6, <1>7, StepSettled DEF Next

-----------------------------------------------------------------------------
(* A live call's worker stays held. *)

LEMMA QuietHeld ==
    ASSUME CallsAreHeld, UNCHANGED <<hash, callKey, phase, routed, hooks, task>>
    PROVE CallsAreHeld'
BY DEF CallsAreHeld, MappingAgrees, ReservedFirst, RoutedIsHeld, HandlersKnow, HandlerKnows,
       OneHandler, Live, Releases, At

(* Handler t goes on as k: it works for the same call or is done, and      *)
(* releases it only if it did so before or is its only handler.            *)
GoesOn(t, k) ==
    \/ k.pc = "idle" /\ k.call = NoCall
    \/ /\ k.call = task[t].call /\ task[t].pc # "idle"
       /\ k.pc \in {"lookup", "release"} => Releases(t) \/ k.call \in Outbound

LEMMA OneHandlerGoesOn ==
    ASSUME TypeOK, OneHandler, NEW t \in Task, NEW k, Become(t, k), GoesOn(t, k)
    PROVE OneHandler'
<1>1. task'[t] = k /\ \A u \in Task : u # t => task'[u] = task[u]
  BY DEF Become, TypeOK, TaskTypeOK
<1>2. ASSUME NEW u \in Task, u # t, k.call = task[u].call,
             \/ k.call \in Outbound /\ k.pc # "idle" /\ ~At(u, "idle")
             \/ k.pc \in {"lookup", "release"} /\ Releases(u)
      PROVE FALSE
  <2>1. k.pc # "idle" /\ ~At(u, "idle")
    BY <1>2 DEF Releases, At
  <2>2. k.call = task[t].call /\ ~At(t, "idle")
    BY <2>1 DEF GoesOn, At
  <2> QED BY <1>2, <2>1, <2>2 DEF OneHandler, GoesOn
<1>3. ASSUME NEW u \in Task, NEW v \in Task, u # v, task'[u].call = task'[v].call,
             \/ task'[u].call \in Outbound /\ task'[u].pc # "idle" /\ task'[v].pc # "idle"
             \/ /\ task'[u].pc \in {"lookup", "release"}
                /\ task'[v].pc \in {"lookup", "release"}
      PROVE FALSE
  <2>1. CASE u = t
    BY <1>1, <1>2, <1>3, <2>1 DEF Releases, At
  <2>2. CASE v = t
    BY <1>1, <1>2, <1>3, <2>2 DEF Releases, At
  <2>3. CASE u # t /\ v # t
    BY <1>1, <1>3, <2>3 DEF OneHandler, Releases, At
  <2> QED BY <2>1, <2>2, <2>3
<1> QED BY <1>3 DEF OneHandler, Releases, At

(* Handler t goes on as k, and nothing else changes that the calls' being  *)
(* held depends on.                                                        *)
LEMMA GoesOnHeld ==
    ASSUME TypeOK, CallsAreHeld, NEW t \in Task, NEW k, Become(t, k), GoesOn(t, k),
           HandlerKnows(k), UNCHANGED <<hash, callKey, phase, routed, hooks>>
    PROVE CallsAreHeld'
<1>1. task'[t] = k /\ \A u \in Task : u # t => task'[u] = task[u]
  BY DEF Become, TypeOK, TaskTypeOK
<1>2. HandlersKnow'
  BY <1>1 DEF CallsAreHeld, HandlersKnow, HandlerKnows, Live
<1>3. OneHandler'
  BY OneHandlerGoesOn DEF CallsAreHeld
<1> QED BY <1>2, <1>3 DEF CallsAreHeld, MappingAgrees, ReservedFirst, RoutedIsHeld, Live

LEMMA IdleKnows == HandlerKnows(Idle) /\ Idle.pc = "idle" /\ Idle.call = NoCall
BY DEF Idle, Handler, HandlerWith, HandlerKnows

LEMMA FinishHeld ==
    ASSUME TypeOK, CallsAreHeld, NEW t \in Task, Finish(t),
           UNCHANGED <<hash, callKey, phase, routed, hooks>>
    PROVE CallsAreHeld'
BY IdleKnows, GoesOnHeld DEF Finish, GoesOn

(* Handler t moves to another await and needs to know there what it knows. *)
LEMMA MovedHeld ==
    ASSUME TypeOK, CallsAreHeld, NEW t \in Task, NEW pc, NEW w, NEW S, NEW n, ~At(t, "idle"),
           Become(t, Moved(task[t], pc, w, S, n)),
           HandlerKnows(Moved(task[t], pc, w, S, n)),
           pc \in {"lookup", "release"} => Releases(t) \/ task[t].call \in Outbound,
           UNCHANGED <<hash, callKey, phase, routed, hooks>>
    PROVE CallsAreHeld'
<1> DEFINE k == Moved(task[t], pc, w, S, n)
<1>1. k.call = task[t].call /\ k.pc = pc
  BY DEF Moved
<1>2. GoesOn(t, k)
  BY <1>1 DEF GoesOn, At
<1> QED BY <1>2, GoesOnHeld

LEMMA Knows ==
    ASSUME CallsAreHeld, NEW t \in Task
    PROVE HandlerKnows(task[t])
BY DEF CallsAreHeld, HandlersKnow

LEMMA ClaimRetryHeld ==
    ASSUME TypeOK, CallsAreHeld, NEW t \in Task,
           \/ ClaimAllBusy(t) \/ StartOver(t)
           \/ At(t, "claim") /\ FailedClaim(t) /\ OnlyTask
    PROVE CallsAreHeld'
<1> DEFINE k == task[t]
<1>1. /\ k.pc \in {"claim", "backoff"} /\ ~At(t, "idle") /\ HandlerKnows(k)
      /\ UNCHANGED <<hash, callKey, phase, routed, hooks>>
  BY Knows, OnlyTaskSame DEF ClaimAllBusy, StartOver, At
<1>2. ASSUME NEW pc \in {"claim", "backoff", "noworker", "reject"}, NEW w, NEW S, NEW n,
             Become(t, Moved(k, pc, w, S, n))
      PROVE CallsAreHeld'
  <2>1. HandlerKnows(Moved(k, pc, w, S, n))
    BY <1>1 DEF HandlerKnows, Moved
  <2> QED BY <1>1, <1>2, <2>1, MovedHeld
<1>3. CASE ClaimAllBusy(t)
  BY <1>2, <1>3 DEF ClaimAllBusy
<1>4. CASE StartOver(t)
  BY <1>2, <1>4 DEF StartOver, Snapshot
<1>5. CASE At(t, "claim") /\ FailedClaim(t)
  BY <1>2, <1>5 DEF FailedClaim, GotoWith, Retry, At
<1> QED BY <1>3, <1>4, <1>5

LEMMA DiscoverAndRetryHeld ==
    ASSUME TypeOK, CallsAreHeld, NEW t \in Task, DiscoverAndRetry(t)
    PROVE CallsAreHeld'
<1> DEFINE k == Snapshot(Again(task[t]), pool[task[t].runner] \cup up, task[t].tries)
<1>1. /\ task[t].pc = "noworker" /\ HandlerKnows(task[t]) /\ Become(t, k)
      /\ UNCHANGED <<hash, callKey, phase, routed, hooks>>
  BY Knows, CallVarsSame DEF DiscoverAndRetry, At, NoScript, redisVars
<1>2. k.call = task[t].call /\ k.pc \in {"claim", "noworker"}
  BY DEF Snapshot, Again, Moved
<1>3. HandlerKnows(k) /\ GoesOn(t, k)
  <2> HIDE DEF k
  <2> QED BY <1>1, <1>2 DEF HandlerKnows, GoesOn
<1> QED BY <1>1, <1>3, GoesOnHeld

LEMMA LookedUpHeld ==
    ASSUME TypeOK, CallsAreHeld, NEW t \in Task,
           LookedUp(t) \/ LookedUpAfterDiscovery(t) \/ LookedUpNone(t)
    PROVE CallsAreHeld'
<1> DEFINE k == task[t]
           w == callKey[k.call]
<1>1. /\ k.pc = "getw" /\ ~At(t, "idle") /\ HandlerKnows(k) /\ k.call \in Call
      /\ UNCHANGED <<hash, callKey, phase, routed, hooks>>
  BY Knows, CallVarsSame, OnlyTaskSame, KnownOK
  DEF LookedUp, LookedUpAfterDiscovery, LookedUpNone, At, NoScript, redisVars, HasCall, PC
<1>2. ASSUME w # NoWorker, GotoWith(t, "respond", w) PROVE CallsAreHeld'
  <2>1. hash[w] = k.call
    BY <1>1, <1>2 DEF CallsAreHeld, MappingAgrees
  <2>2. HandlerKnows(Moved(k, "respond", w, {}, 0))
    BY <1>1, <2>1 DEF HandlerKnows, Moved
  <2> QED BY <1>1, <1>2, <2>2, MovedHeld DEF GotoWith
<1>3. ASSUME NEW known, Become(t, Snapshot(k, known, 0)) PROVE CallsAreHeld'
  <2>1. ASSUME NEW pc \in {"claim", "noworker"}, NEW S PROVE HandlerKnows(Moved(k, pc, NoWorker, S, 0))
    BY <1>1 DEF HandlerKnows, Moved
  <2> QED BY <1>1, <1>3, <2>1, MovedHeld DEF Snapshot
<1>4. w \in pool[k.runner] => w # NoWorker
  BY <1>1, KnownOK, NamesAssumption DEF At
<1> QED BY <1>2, <1>3, <1>4 DEF LookedUp, LookedUpAfterDiscovery, LookedUpNone

LEMMA ReassignHeld ==
    ASSUME TypeOK, CallsAreHeld, NEW t \in Task,
           Find(t) \/ FindNone(t) \/ Recache(t)
    PROVE CallsAreHeld'
<1> DEFINE k == task[t]
           w == callKey[k.call]
<1>1. UNCHANGED <<hash, callKey, phase, routed, hooks>>
  BY OnlyTaskSame DEF Find, FindNone, Recache
<1>2. CASE Find(t)
  <2>1. /\ k.pc = "find" /\ ~At(t, "idle") /\ HandlerKnows(k) /\ k.call \in Call
        /\ w # NoWorker /\ GotoWith(t, "rekey", w)
    BY <1>2, Knows, KnownOK DEF Find, At, HasCall, PC
  <2>2. hash[w] = k.call
    BY <2>1 DEF CallsAreHeld, MappingAgrees
  <2>3. HandlerKnows(Moved(k, "rekey", w, {}, 0))
    BY <2>1, <2>2 DEF HandlerKnows, Moved
  <2> QED BY <1>1, <2>1, <2>3, MovedHeld DEF GotoWith
<1> QED BY <1>1, <1>2, FinishHeld DEF FindNone, Recache

LEMMA LookupHeld ==
    ASSUME TypeOK, CallsAreHeld, NEW t \in Task,
           Lookup(t) \/ LookupAgain(t) \/ LookupGivesUp(t) \/ Uncache(t)
    PROVE CallsAreHeld'
<1> DEFINE k == task[t]
           w == callKey[k.call]
<1>1. UNCHANGED <<hash, callKey, phase, routed, hooks>>
  BY OnlyTaskSame DEF Lookup, LookupAgain, LookupGivesUp, Uncache
<1>2. ASSUME At(t, "lookup")
      PROVE k.pc = "lookup" /\ ~At(t, "idle") /\ HandlerKnows(k) /\ k.call \in Call /\ Releases(t)
  BY <1>2, Knows, KnownOK DEF At, HasCall, PC, Releases
<1>3. CASE Lookup(t)
  <2>1. At(t, "lookup") /\ w # NoWorker /\ GotoWith(t, "release", w)
    BY <1>3 DEF Lookup
  <2>2. hash[w] = k.call
    BY <1>2, <2>1 DEF CallsAreHeld, MappingAgrees
  <2>3. HandlerKnows(Moved(k, "release", w, {}, 0))
    BY <1>2, <2>1, <2>2 DEF HandlerKnows, Moved
  <2> QED BY <1>1, <1>2, <2>1, <2>3, MovedHeld DEF GotoWith
<1>4. CASE LookupAgain(t)
  <2>1. At(t, "lookup") /\ Become(t, Moved(k, "lookup", k.worker, k.cands, k.tries + 1))
    BY <1>2, <1>4 DEF LookupAgain, Retry
  <2>2. HandlerKnows(Moved(k, "lookup", k.worker, k.cands, k.tries + 1))
    BY <1>2, <2>1 DEF HandlerKnows, Moved
  <2> QED BY <1>1, <1>2, <2>1, <2>2, MovedHeld
<1> QED BY <1>1, <1>3, <1>4, FinishHeld DEF LookupGivesUp, Uncache

(* A script fails before it reached Redis. *)
LEMMA ScriptErrorHeld ==
    ASSUME TypeOK, CallsAreHeld, NEW t \in Task, ScriptError(t)
    PROVE CallsAreHeld'
<1> DEFINE k == task[t]
<1>1. OnlyTask /\ UNCHANGED <<hash, callKey, phase, routed, hooks>> /\ HandlerKnows(k)
  BY OnlyTaskSame, Knows DEF ScriptError
<1>2. ASSUME NEW pc \in {"recache", "uncache"}, FailedAttempt(t, pc), k.pc \in {"rekey", "release"},
             pc = "recache" => k.pc = "rekey"
      PROVE CallsAreHeld'
  <2>1. HandlerKnows(Moved(k, k.pc, k.worker, k.cands, k.tries + 1))
    BY <1>1 DEF HandlerKnows, Moved
  <2>2. HandlerKnows(Moved(k, pc, k.worker, {}, 0))
    BY <1>1, <1>2 DEF HandlerKnows, Moved
  <2>3. ~At(t, "idle") /\ (k.pc \in {"lookup", "release"} => Releases(t))
    BY <1>2 DEF At, Releases
  <2> QED BY <1>1, <1>2, <2>1, <2>2, <2>3, MovedHeld DEF FailedAttempt, Retry, Goto, GotoWith
<1>3. k.pc # "admin"
  BY <1>1 DEF HandlerKnows
<1> QED BY <1>1, <1>2, <1>3, ClaimRetryHeld DEF ScriptError, At

(* Handler t goes on as k, and the other handlers still know what they did. *)
LEMMA AssembleHeld ==
    ASSUME TypeOK, CallsAreHeld, NEW t \in Task, NEW k, Become(t, k), GoesOn(t, k),
           HandlerKnows(k)',
           \A u \in Task : \A j : u # t /\ j = task[u] => HandlerKnows(j)',
           MappingAgrees', ReservedFirst', RoutedIsHeld'
    PROVE CallsAreHeld'
<1>1. task'[t] = k /\ \A u \in Task : u # t => task'[u] = task[u]
  BY DEF Become, TypeOK, TaskTypeOK
<1>2. HandlersKnow'
  <2>1. \A u \in Task : \A j : j = task'[u] => HandlerKnows(j)'
    BY <1>1
  <2> QED BY <2>1 DEF HandlersKnow, HandlerKnows, Live
<1>3. OneHandler'
  BY OneHandlerGoesOn DEF CallsAreHeld
<1> QED BY <1>2, <1>3 DEF CallsAreHeld

LEMMA ClaimHeld ==
    ASSUME TypeOK, CallsAreHeld, NEW t \in Task, Claim(t)
    PROVE CallsAreHeld'
<1>1. PICK c, w, k :
        /\ c = task[t].call /\ k = Moved(task[t], "cache", w, {}, 0)
        /\ w \in Worker /\ Claim1(task[t].cands, c, w)
        /\ Become(t, k)
  BY KnownOK DEF Claim, GotoWith, At
<1>2. /\ c \in Call /\ k.pc = "cache" /\ k.call = c /\ k.worker = w
      /\ task[t].pc = "claim" /\ HandlerKnows(task[t])
  BY <1>1, Knows, KnownOK DEF Claim, At, Moved, HasCall, PC
<1>3. UNCHANGED <<phase, routed, hooks>>
  BY CallVarsSame DEF Claim
<1>4. /\ hash \in [Worker -> Call \cup {NoCall}] /\ callKey \in [Call -> Worker \cup {NoWorker}]
      /\ hash[w] = NoCall /\ hash' = [hash EXCEPT ![w] = c]
      /\ callKey' = [callKey EXCEPT ![c] = w]
  BY <1>1 DEF TypeOK, RedisTypeOK, Claim1, FindAndAssign, IsFree
<1>5. \A v : hash[v] \in Call /\ v \in Worker => v # w /\ hash'[v] = hash[v]
  BY <1>4, NamesAssumption
<1>6. GoesOn(t, k)
  BY <1>1, <1>2 DEF GoesOn
<1>7. HandlerKnows(k)'
  BY <1>1, <1>2, <1>3, <1>4 DEF HandlerKnows, Live
<1>8. ASSUME NEW u \in Task, NEW j, u # t, j = task[u] PROVE HandlerKnows(j)'
  <2>1. HandlerKnows(j) /\ (j.pc \in HasWorker => j.worker \in Worker)
        /\ (j.pc # "idle" => j.call \in Call)
    BY <1>8, Knows, KnownOK DEF HasWorker, HandlerKnows
  <2>2. j.pc \in {"cache", "respond", "dial", "rekey", "release"} /\ hash[j.worker] = j.call
           => hash'[j.worker] = j.call
    BY <1>5, <2>1 DEF HasWorker
  <2> QED BY <1>3, <2>1, <2>2 DEF HandlerKnows, Live
<1>9. MappingAgrees'
  <2> SUFFICES ASSUME NEW d \in Call, callKey'[d] # NoWorker PROVE hash'[callKey'[d]] = d
    BY DEF MappingAgrees
  <2>1. CASE d = c
    BY <1>1, <1>2, <1>4, <2>1
  <2>2. CASE d # c
    <3>1. callKey'[d] = callKey[d] /\ callKey[d] \in Worker /\ hash[callKey[d]] = d
      BY <1>2, <1>4, <2>2 DEF CallsAreHeld, MappingAgrees
    <3> QED BY <1>5, <3>1
  <2> QED BY <2>1, <2>2
<1>10. ReservedFirst'
  BY <1>3 DEF CallsAreHeld, ReservedFirst
<1>11. RoutedIsHeld'
  <2>1. \A d \in Call : routed[d] # NoWorker => routed[d] \in Worker
    BY DEF TypeOK, CallTypeOK
  <2> QED BY <1>3, <1>5, <2>1, Distinct DEF CallsAreHeld, RoutedIsHeld, Live
<1> QED BY <1>1, <1>6, <1>7, <1>8, <1>9, <1>10, <1>11, AssembleHeld

LEMMA RekeyHeld ==
    ASSUME Calm, TypeOK, CallsAreHeld, NEW t \in Task, Rekey(t)
    PROVE CallsAreHeld'
<1>1. PICK o, c, w, k :
        /\ o = task[t].call /\ c = SidOf[o] /\ w = task[t].worker
        /\ k = Moved(task[t], "recache", w, {}, 0) /\ Become(t, k) /\ RunReassign(o, c, w)
  BY DEF Rekey, Goto, GotoWith, Calm
<1>2. /\ o \in Outbound /\ o \in Call /\ c \in Call /\ c \notin Outbound /\ w \in Worker
      /\ k.pc = "recache" /\ k.call = o /\ task[t].pc = "rekey" /\ ~At(t, "idle")
      /\ hash[w] = o /\ phase[o] = "ended" /\ HandlerKnows(task[t])
  BY <1>1, Knows, KnownOK, Distinct
  DEF Rekey, At, Moved, HasCall, HasWorker, HasReservation, PC, HandlerKnows
<1>3. UNCHANGED <<phase, routed, hooks>>
  BY CallVarsSame DEF Rekey
<1>4. /\ hash \in [Worker -> Call \cup {NoCall}] /\ callKey \in [Call -> Worker \cup {NoWorker}]
      /\ hash' = [hash EXCEPT ![w] = c]
      /\ callKey' = [callKey EXCEPT ![o] = NoWorker, ![c] = w]
  BY <1>1 DEF TypeOK, RedisTypeOK, RunReassign, Reassign
<1>5. \A v \in Worker : hash[v] # o => hash'[v] = hash[v]
  BY <1>2, <1>4
<1>6. GoesOn(t, k)
  BY <1>1, <1>2 DEF GoesOn, At
<1>7. HandlerKnows(k)'
  BY <1>2, <1>3 DEF HandlerKnows, Live
<1>8. ASSUME NEW u \in Task, NEW j, u # t, j = task[u] PROVE HandlerKnows(j)'
  <2>1. HandlerKnows(j) /\ (j.pc \in HasWorker => j.worker \in Worker)
        /\ (j.pc # "idle" => j.call \in Call)
    BY <1>8, Knows, KnownOK DEF HasWorker, HandlerKnows
  <2>2. j.pc # "idle" => j.call # o
    BY <1>1, <1>2, <1>8 DEF CallsAreHeld, OneHandler, At
  <2>3. j.pc \in {"cache", "respond", "dial", "rekey", "release"} /\ hash[j.worker] = j.call
           => hash'[j.worker] = j.call
    BY <1>5, <2>1, <2>2 DEF HasWorker
  <2> QED BY <1>3, <2>1, <2>3 DEF HandlerKnows, Live
<1>9. MappingAgrees'
  <2> SUFFICES ASSUME NEW d \in Call, callKey'[d] # NoWorker PROVE hash'[callKey'[d]] = d
    BY DEF MappingAgrees
  <2>1. CASE d = c
    BY <1>2, <1>4, <2>1
  <2>2. CASE d # c
    <3>1. d # o /\ callKey'[d] = callKey[d] /\ callKey[d] \in Worker /\ hash[callKey[d]] = d
      BY <1>2, <1>4, <2>2 DEF CallsAreHeld, MappingAgrees
    <3> QED BY <1>5, <3>1
  <2> QED BY <2>1, <2>2
<1>10. ReservedFirst'
  BY <1>3 DEF CallsAreHeld, ReservedFirst
<1>11. RoutedIsHeld'
  <2> SUFFICES ASSUME NEW d \in Call, Live(d), routed[d] # NoWorker
               PROVE hash'[routed[d]] = d \/ \E p \in Outbound : hash'[routed[d]] = p /\ SidOf[p] = d
    BY <1>3 DEF CallsAreHeld, RoutedIsHeld, Live
  <2>1. routed[d] \in Worker
    BY DEF TypeOK, CallTypeOK
  <2>2. hash[routed[d]] = d \/ \E p \in Outbound : hash[routed[d]] = p /\ SidOf[p] = d
    BY DEF CallsAreHeld, RoutedIsHeld
  <2>3. CASE hash[routed[d]] # o
    BY <1>5, <2>1, <2>2, <2>3
  <2>4. CASE hash[routed[d]] = o
    <3>1. d # o
      BY <1>2 DEF Live
    <3>2. d = c
      BY <1>1, <2>2, <2>4, <3>1
    <3>3. hash'[routed[d]] = c \/ hash'[routed[d]] = o
      BY <1>4, <2>1, <2>4
    <3> QED BY <1>1, <1>2, <3>2, <3>3
  <2> QED BY <2>3, <2>4
<1> QED BY <1>1, <1>6, <1>7, <1>8, <1>9, <1>10, <1>11, AssembleHeld

LEMMA ReleaseHeld ==
    ASSUME Calm, TypeOK, CallsAreHeld, NEW t \in Task, Release(t)
    PROVE CallsAreHeld'
<1>1. PICK c, w, k :
        /\ c = task[t].call /\ w = task[t].worker
        /\ k = Moved(task[t], "uncache", w, {}, 0) /\ Become(t, k) /\ RunRelease(w, c)
  BY DEF Release, Goto, GotoWith, Calm
<1>2. /\ c \in Call /\ w \in Worker /\ k.pc = "uncache" /\ k.call = c
      /\ task[t].pc = "release" /\ ~At(t, "idle") /\ Releases(t)
      /\ hash[w] = c /\ phase[c] = "ended" /\ HandlerKnows(task[t])
      /\ c \in Outbound => phase[SidOf[c]] = "new"
  BY <1>1, Knows, KnownOK
  DEF Release, At, Moved, HasCall, HasWorker, PC, HandlerKnows, Releases
<1>3. UNCHANGED <<phase, routed, hooks>>
  BY CallVarsSame DEF Release
<1>4. /\ hash \in [Worker -> Call \cup {NoCall}] /\ callKey \in [Call -> Worker \cup {NoWorker}]
      /\ hash' = [hash EXCEPT ![w] = NoCall]
      /\ callKey' = [callKey EXCEPT ![c] = NoWorker]
  BY <1>1 DEF TypeOK, RedisTypeOK, RunRelease, ReleaseAssignment
<1>5. \A v \in Worker : hash[v] # c => hash'[v] = hash[v]
  BY <1>2, <1>4
<1>6. GoesOn(t, k)
  BY <1>1, <1>2 DEF GoesOn, At
<1>7. HandlerKnows(k)'
  BY <1>2, <1>3 DEF HandlerKnows, Live
<1>8. ASSUME NEW u \in Task, NEW j, u # t, j = task[u] PROVE HandlerKnows(j)'
  <2>1. HandlerKnows(j) /\ (j.pc \in HasWorker => j.worker \in Worker)
    BY <1>8, Knows, KnownOK DEF HasWorker
  <2>2. j.pc = "release" => j.call # c
    BY <1>1, <1>2, <1>8 DEF CallsAreHeld, OneHandler, Releases
  <2>3. j.pc = "rekey" => j.call # c
    <3>1. j.pc = "rekey" => j.call \in Outbound
      BY <1>8, KnownOK DEF HasReservation
    <3> QED BY <1>1, <1>2, <1>8, <3>1 DEF CallsAreHeld, OneHandler, At
  <2>4. (j.pc \in {"cache", "respond"} /\ Live(j.call)) \/ j.pc = "dial" => j.call # c
    BY <1>2, <2>1 DEF HandlerKnows, Live
  <2> QED BY <1>3, <1>5, <2>1, <2>2, <2>3, <2>4 DEF HandlerKnows, Live, HasWorker
<1>9. MappingAgrees'
  <2> SUFFICES ASSUME NEW d \in Call, callKey'[d] # NoWorker PROVE hash'[callKey'[d]] = d
    BY DEF MappingAgrees
  <2>1. d # c /\ callKey'[d] = callKey[d] /\ callKey[d] \in Worker /\ hash[callKey[d]] = d
    BY <1>2, <1>4 DEF CallsAreHeld, MappingAgrees
  <2> QED BY <1>5, <2>1
<1>10. ReservedFirst'
  BY <1>3 DEF CallsAreHeld, ReservedFirst
<1>11. RoutedIsHeld'
  <2> SUFFICES ASSUME NEW d \in Call, Live(d), routed[d] # NoWorker
               PROVE hash'[routed[d]] = d \/ \E p \in Outbound : hash'[routed[d]] = p /\ SidOf[p] = d
    BY <1>3 DEF CallsAreHeld, RoutedIsHeld, Live
  <2>1. routed[d] \in Worker
    BY DEF TypeOK, CallTypeOK
  <2>2. hash[routed[d]] = d \/ \E p \in Outbound : hash[routed[d]] = p /\ SidOf[p] = d
    BY DEF CallsAreHeld, RoutedIsHeld
  <2>3. hash[routed[d]] # c
    BY <1>2, <2>2 DEF Live
  <2> QED BY <1>5, <2>1, <2>2, <2>3
<1> QED BY <1>1, <1>6, <1>7, <1>8, <1>9, <1>10, <1>11, AssembleHeld

LEMMA CacheAssignmentHeld ==
    ASSUME TypeOK, CallsAreHeld, NEW t \in Task, CacheAssignment(t)
    PROVE CallsAreHeld'
<1>1. PICK c, w, k, pc :
        /\ c = task[t].call /\ w = task[t].worker
        /\ pc = (IF IsOutbound(t) THEN "dial" ELSE "respond")
        /\ k = Moved(task[t], pc, w, {}, 0) /\ Become(t, k)
        /\ routed' = IF c \in Outbound THEN [routed EXCEPT ![c] = w] ELSE routed
  BY DEF CacheAssignment, Goto, GotoWith, IsOutbound
<1>2. /\ c \in Call /\ w \in Worker /\ k.pc = pc /\ k.call = c /\ k.worker = w
      /\ pc = IF c \in Outbound THEN "dial" ELSE "respond"
      /\ task[t].pc = "cache" /\ ~At(t, "idle") /\ HandlerKnows(task[t])
  BY <1>1, Knows, KnownOK
  DEF CacheAssignment, At, Moved, HasCall, HasWorker, PC, IsOutbound
<1>3. UNCHANGED <<hash, callKey, phase, hooks>>
  BY DEF CacheAssignment, NoScript, redisVars
<1>4. GoesOn(t, k)
  BY <1>1, <1>2 DEF GoesOn, At
<1>5. Live(c) => hash[w] = c
  BY <1>1, <1>2 DEF HandlerKnows
<1>6. c \in Outbound => phase[c] = "live"
  BY <1>1, <1>2 DEF HandlerKnows
<1>7. HandlerKnows(k)'
  BY <1>1, <1>2, <1>3, <1>5, <1>6 DEF HandlerKnows, Live
<1>8. ASSUME NEW u \in Task, NEW j, u # t, j = task[u] PROVE HandlerKnows(j)'
  BY <1>3, <1>8, Knows DEF HandlerKnows, Live
<1>9. MappingAgrees' /\ ReservedFirst'
  BY <1>3 DEF CallsAreHeld, MappingAgrees, ReservedFirst
<1>10. RoutedIsHeld'
  <2>1. \A d \in Call : d # c \/ c \notin Outbound => routed'[d] = routed[d]
    BY <1>1 DEF TypeOK, CallTypeOK
  <2>2. c \in Outbound => routed'[c] = w /\ hash[w] = c /\ phase[c] = "live"
    BY <1>1, <1>2, <1>5, <1>6 DEF TypeOK, CallTypeOK, Live
  <2> QED BY <1>3, <2>1, <2>2 DEF CallsAreHeld, RoutedIsHeld, Live
<1> QED BY <1>1, <1>4, <1>7, <1>8, <1>9, <1>10, AssembleHeld

LEMMA RespondHeld ==
    ASSUME TypeOK, CallsAreHeld, NEW t \in Task, Respond(t)
    PROVE CallsAreHeld'
<1>1. PICK c, w : /\ c = task[t].call /\ w = task[t].worker
                  /\ Become(t, Idle) /\ routed' = [routed EXCEPT ![c] = w]
  BY DEF Respond, Finish
<1>2. /\ c \in Call /\ w \in Worker /\ phase[c] # "new" /\ (Live(c) => hash[w] = c)
  BY <1>1, Knows, KnownOK DEF Respond, At, HasCall, HasWorker, PC, HandlerKnows
<1>3. UNCHANGED <<hash, callKey, phase, hooks>>
  BY DEF Respond, NoScript, redisVars
<1>4. GoesOn(t, Idle) /\ HandlerKnows(Idle)'
  BY IdleKnows DEF GoesOn, HandlerKnows
<1>5. ASSUME NEW u \in Task, NEW j, u # t, j = task[u] PROVE HandlerKnows(j)'
  BY <1>3, <1>5, Knows DEF HandlerKnows, Live
<1>6. MappingAgrees' /\ ReservedFirst'
  BY <1>3 DEF CallsAreHeld, MappingAgrees, ReservedFirst
<1>7. RoutedIsHeld'
  <2>1. \A d \in Call : d # c => routed'[d] = routed[d]
    BY <1>1 DEF TypeOK, CallTypeOK
  <2>2. routed'[c] = w
    BY <1>1, <1>2 DEF TypeOK, CallTypeOK
  <2> QED BY <1>2, <1>3, <2>1, <2>2 DEF CallsAreHeld, RoutedIsHeld, Live
<1> QED BY <1>1, <1>4, <1>5, <1>6, <1>7, AssembleHeld

(* A reservation ends without a call. *)
LEMMA ReservationEnds ==
    ASSUME TypeOK, CallsAreHeld, NEW t \in Task, NEW k, NEW o \in Outbound,
           o = task[t].call, ~At(t, "idle"), Become(t, k), GoesOn(t, k),
           phase[o] = "live", phase' = [phase EXCEPT ![o] = "ended"],
           k.pc = "idle" \/ (k.pc = "lookup" /\ k.call = o),
           UNCHANGED <<hash, callKey, routed, hooks>>
    PROVE CallsAreHeld'
<1>1. /\ o \in Call /\ phase'[o] = "ended" /\ \A d \in Call : d # o => phase'[d] = phase[d]
      /\ \A p \in Outbound : SidOf[p] # o /\ SidOf[p] \in Call /\ p \in Call
  BY Distinct DEF TypeOK, CallTypeOK
<1>2. phase[SidOf[o]] = "new" /\ phase'[SidOf[o]] = "new"
  BY <1>1 DEF CallsAreHeld, ReservedFirst
<1>3. HandlerKnows(k)'
  BY <1>1, <1>2 DEF HandlerKnows, Live
<1>4. ASSUME NEW u \in Task, NEW j, u # t, j = task[u] PROVE HandlerKnows(j)'
  <2>1. HandlerKnows(j) /\ (j.pc # "idle" => j.call # o /\ j.call \in Call)
    BY <1>4, Knows DEF CallsAreHeld, OneHandler, At, HandlerKnows
  <2>2. j.pc # "idle" => phase'[j.call] = phase[j.call]
    BY <1>1, <2>1
  <2>3. j.call \in Outbound => phase'[SidOf[j.call]] = phase[SidOf[j.call]]
    BY <1>1
  <2> QED BY <2>1, <2>2, <2>3 DEF HandlerKnows, Live
<1>5. MappingAgrees'
  BY DEF CallsAreHeld, MappingAgrees
<1>6. ReservedFirst'
  BY <1>1 DEF CallsAreHeld, ReservedFirst
<1>7. RoutedIsHeld'
  BY <1>1 DEF CallsAreHeld, RoutedIsHeld, Live
<1> QED BY <1>3, <1>4, <1>5, <1>6, <1>7, AssembleHeld

LEMMA GiveUpHeld ==
    ASSUME TypeOK, CallsAreHeld, NEW t \in Task, GiveUp(t)
    PROVE CallsAreHeld'
<1>1. /\ task[t].pc \in {"noworker", "reject"} /\ ~At(t, "idle") /\ HandlerKnows(task[t])
      /\ UNCHANGED <<hash, callKey, routed, hooks>> /\ Finish(t)
  BY Knows DEF GiveUp, At, NoScript, redisVars
<1>2. CASE task[t].call \in Outbound
  <2>1. PICK o \in Outbound : o = task[t].call
    BY <1>2
  <2>2. phase[o] = "live" /\ phase' = [phase EXCEPT ![o] = "ended"]
    BY <1>1, <2>1 DEF GiveUp, HandlerKnows, IsOutbound
  <2>3. PICK k : k.pc = "idle" /\ GoesOn(t, k) /\ Become(t, k)
    BY <1>1, IdleKnows DEF Finish, GoesOn
  <2> QED BY <1>1, <2>1, <2>2, <2>3, ReservationEnds
<1>3. CASE task[t].call \notin Outbound
  BY <1>1, <1>3, FinishHeld DEF GiveUp, IsOutbound
<1> QED BY <1>2, <1>3

LEMMA DialFailsHeld ==
    ASSUME TypeOK, CallsAreHeld, NEW t \in Task, DialFails(t)
    PROVE CallsAreHeld'
<1>1. PICK o, k : o = task[t].call /\ k = Moved(task[t], "lookup", NoWorker, {}, 0) /\ Become(t, k)
  BY DEF DialFails, GotoWith
<1>2. /\ o \in Outbound /\ phase[o] = "live" /\ phase' = [phase EXCEPT ![o] = "ended"]
      /\ ~At(t, "idle") /\ k.pc = "lookup" /\ k.call = o
      /\ UNCHANGED <<hash, callKey, routed, hooks>>
  BY <1>1, Knows, KnownOK
  DEF DialFails, At, HasReservation, HandlerKnows, Moved, NoScript, redisVars
<1>3. GoesOn(t, k)
  BY <1>1, <1>2 DEF GoesOn, At
<1> QED BY <1>1, <1>2, <1>3, ReservationEnds

LEMMA DialHeld ==
    ASSUME TypeOK, CallsAreHeld, NEW t \in Task, Dial(t)
    PROVE CallsAreHeld'
<1>1. PICK o, c, w, k :
        /\ o = task[t].call /\ c = SidOf[o] /\ w = task[t].worker
        /\ k = Moved(task[t], "find", NoWorker, {}, 0) /\ Become(t, k)
        /\ phase' = [phase EXCEPT ![o] = "ended", ![c] = "live"]
        /\ routed' = IF c \in AskOnAnswer THEN routed ELSE [routed EXCEPT ![c] = w]
  BY DEF Dial, Dialled, GotoWith
<1>2. /\ o \in Outbound /\ o \in Call /\ c \in Call /\ c \notin Outbound /\ w \in Worker
      /\ k.pc = "find" /\ k.call = o /\ task[t].pc = "dial" /\ ~At(t, "idle")
      /\ hash[w] = o /\ phase[o] = "live"
  BY <1>1, Knows, KnownOK, Distinct
  DEF Dial, At, Moved, HasCall, HasWorker, HasReservation, PC, HandlerKnows
<1>3. UNCHANGED <<hash, callKey, hooks>>
  BY DEF Dial, NoScript, redisVars
<1>4. phase[c] = "new" /\ routed[c] = NoWorker
  BY <1>1, <1>2 DEF CallsAreHeld, ReservedFirst, RoutedIsHeld
<1>5. /\ phase'[o] = "ended" /\ phase'[c] = "live"
      /\ \A d \in Call : d # o /\ d # c => phase'[d] = phase[d]
      /\ \A p \in Outbound : p # o => SidOf[p] # c
      /\ \A p \in Outbound : SidOf[p] # o /\ SidOf[p] \in Call /\ p \in Call /\ p # c
  BY <1>1, <1>2, Distinct DEF TypeOK, CallTypeOK
<1>6. GoesOn(t, k)
  BY <1>1, <1>2 DEF GoesOn, At
<1>7. HandlerKnows(k)'
  BY <1>2, <1>5 DEF HandlerKnows, Live
<1>8. ASSUME NEW u \in Task, NEW j, u # t, j = task[u] PROVE HandlerKnows(j)'
  <2>1. HandlerKnows(j) /\ (j.pc # "idle" => j.call # o /\ j.call # c /\ j.call \in Call)
    BY <1>1, <1>2, <1>4, <1>8, Knows DEF CallsAreHeld, OneHandler, At, HandlerKnows
  <2>2. j.pc # "idle" => phase'[j.call] = phase[j.call]
    BY <1>5, <2>1
  <2>3. j.pc # "idle" /\ j.call \in Outbound => phase'[SidOf[j.call]] = phase[SidOf[j.call]]
    BY <1>5, <2>1
  <2> QED BY <1>3, <2>1, <2>2, <2>3 DEF HandlerKnows, Live
<1>9. MappingAgrees'
  BY <1>3 DEF CallsAreHeld, MappingAgrees
<1>10. ReservedFirst'
  BY <1>5 DEF CallsAreHeld, ReservedFirst
<1>11. RoutedIsHeld'
  <2>1. \A d \in Call : d # c => routed'[d] = routed[d]
    BY <1>1 DEF TypeOK, CallTypeOK
  <2>2. routed'[c] = NoWorker \/ routed'[c] = w
    BY <1>1, <1>2, <1>4 DEF TypeOK, CallTypeOK
  <2>3. ASSUME NEW d \in Call, d # c
        PROVE /\ phase'[d] = "new" => routed'[d] = NoWorker
              /\ Live(d)' /\ routed'[d] # NoWorker =>
                    hash'[routed'[d]] = d \/ \E p \in Outbound : hash'[routed'[d]] = p /\ SidOf[p] = d
    BY <1>3, <1>5, <2>1, <2>3 DEF CallsAreHeld, RoutedIsHeld, Live
  <2>4. routed'[c] # NoWorker => \E p \in Outbound : hash'[routed'[c]] = p /\ SidOf[p] = c
    BY <1>1, <1>2, <1>3, <2>2
  <2> QED BY <1>5, <2>3, <2>4 DEF RoutedIsHeld
<1> QED BY <1>1, <1>6, <1>7, <1>8, <1>9, <1>10, <1>11, AssembleHeld

LEMMA StepHeld ==
    ASSUME Calm, TypeOK, PoolIsSettled, CallsAreHeld, NEW t \in Task, Step(t)
    PROVE CallsAreHeld'
<1>1. ~CacheMissing(t)
  <2>1. ASSUME At(t, "cache") PROVE task[t].worker \in Worker /\ task[t].runner \in Runner
    BY <2>1, KnownOK DEF At, HasWorker
  <2> QED BY <2>1 DEF CacheMissing, PoolIsSettled
<1>2. ~ClaimLost(t) /\ ~RespondFails(t) /\ ~DialLost(t)
  BY DEF Calm, ClaimLost, RespondFails, DialLost
<1>3. ~AdminScript(t)
  BY Knows DEF AdminScript, At, HandlerKnows
<1> QED
  BY <1>1, <1>2, <1>3, ClaimHeld, ClaimRetryHeld, CacheAssignmentHeld, DiscoverAndRetryHeld,
     GiveUpHeld, LookedUpHeld, RespondHeld, DialHeld, DialFailsHeld, ReassignHeld, RekeyHeld,
     LookupHeld, ReleaseHeld, ScriptErrorHeld
  DEF Step

(* An idle slot takes up a request as handler k. *)
LEMMA RequestAssembleHeld ==
    ASSUME TypeOK, CallsAreHeld, NEW t \in Task, At(t, "idle"), NEW k, Become(t, k),
           HandlerKnows(k)',
           \A u \in Task : \A j : u # t /\ j = task[u] => HandlerKnows(j)',
           \A u \in Task : u # t /\ ~At(u, "idle") /\ task[u].call = k.call =>
              /\ k.call \notin Outbound
              /\ ~Releases(u) \/ k.pc \notin {"lookup", "release"},
           MappingAgrees', ReservedFirst', RoutedIsHeld'
    PROVE CallsAreHeld'
<1>1. task'[t] = k /\ \A u \in Task : u # t => task'[u] = task[u]
  BY DEF Become, TypeOK, TaskTypeOK
<1>2. HandlersKnow'
  <2>1. \A u \in Task : \A j : j = task'[u] => HandlerKnows(j)'
    BY <1>1
  <2> QED BY <2>1 DEF HandlersKnow, HandlerKnows, Live
<1>3. OneHandler'
  BY <1>1 DEF CallsAreHeld, OneHandler, Releases, At
<1> QED BY <1>2, <1>3 DEF CallsAreHeld

LEMMA NewCallHeld ==
    ASSUME TypeOK, CallsAreHeld, NEW t \in Task, NEW r \in Runner, NEW c \in Call, NewCall(t, r, c)
    PROVE CallsAreHeld'
<1>1. PICK k : Become(t, k) /\ k.call = c /\ k.pc \in {"claim", "noworker"}
  BY DEF NewCall, Snapshot, Moved, Handler, HandlerWith
<1>2. /\ c \notin Sid /\ At(t, "idle") /\ phase[c] = "new" /\ phase' = [phase EXCEPT ![c] = "live"]
      /\ UNCHANGED <<hash, callKey, routed, hooks>>
  BY PoolAssumption DEF NewCall, NoScript, redisVars
<1>3. /\ phase'[c] = "live" /\ \A d \in Call : d # c => phase'[d] = phase[d]
      /\ \A p \in Outbound : SidOf[p] # c /\ SidOf[p] \in Call /\ p \in Call
  BY <1>2, Distinct DEF TypeOK, CallTypeOK
<1>4. ASSUME NEW u \in Task, NEW j, j = task[u]
      PROVE HandlerKnows(j)' /\ (j.pc # "idle" => j.call # c)
  <2>1. HandlerKnows(j) /\ (j.pc # "idle" => j.call # c /\ j.call \in Call)
    BY <1>2, <1>4, Knows DEF HandlerKnows
  <2>2. j.pc # "idle" => phase'[j.call] = phase[j.call]
    BY <1>3, <2>1
  <2>3. j.pc # "idle" /\ j.call \in Outbound => phase'[SidOf[j.call]] = phase[SidOf[j.call]]
    BY <1>3, <2>1
  <2> QED BY <1>2, <2>1, <2>2, <2>3 DEF HandlerKnows, Live
<1>5. HandlerKnows(k)'
  BY <1>1, <1>3 DEF HandlerKnows, Live
<1>6. MappingAgrees'
  BY <1>2 DEF CallsAreHeld, MappingAgrees
<1>7. ReservedFirst'
  BY <1>2, <1>3 DEF CallsAreHeld, ReservedFirst
<1>8. RoutedIsHeld'
  BY <1>2, <1>3 DEF CallsAreHeld, RoutedIsHeld, Live
<1>9. \A u \in Task : ~At(u, "idle") => task[u].call # c
  BY <1>4 DEF At
<1> QED BY <1>1, <1>2, <1>4, <1>5, <1>6, <1>7, <1>8, <1>9, RequestAssembleHeld

(* The phase of some calls moves on; they are live afterwards only if they *)
(* were live.                                                              *)
LEMMA PhaseMoves ==
    ASSUME TypeOK, CallsAreHeld, NEW cs \in SUBSET ProviderCall,
           phase' \in [Call -> {"new", "live", "answered", "joined", "left", "ended"}],
           \A d \in Call : d \notin cs => phase'[d] = phase[d],
           \A d \in cs : phase[d] \notin {"new", "ended"} /\ phase'[d] # "new",
           \A d \in cs : Live(d)' => Live(d),
           UNCHANGED <<hash, callKey, routed>>
    PROVE /\ MappingAgrees' /\ ReservedFirst' /\ RoutedIsHeld'
          /\ UNCHANGED hooks => \A u \in Task : \A j : j = task[u] => HandlerKnows(j)'
<1>1. \A d \in cs : d \in Call /\ d \notin Outbound
  BY Distinct
<1>2. \A p \in Outbound : p \in Call /\ SidOf[p] \in Call /\ phase'[p] = phase[p]
  BY <1>1, Distinct
<1>3. \A d \in Call : Live(d)' => Live(d)
  BY DEF Live
<1>4. \A d \in Call : phase[d] = "new" => phase'[d] = "new"
  OBVIOUS
<1>5. \A d \in Call : phase'[d] = "new" => phase[d] = "new"
  OBVIOUS
<1>6. \A d \in Call : phase[d] = "ended" => phase'[d] = "ended"
  OBVIOUS
<1>7. MappingAgrees'
  BY DEF CallsAreHeld, MappingAgrees
<1>8. ReservedFirst'
  BY <1>2, <1>4 DEF CallsAreHeld, ReservedFirst
<1>9. RoutedIsHeld'
  <2>1. \A d \in Call : phase'[d] = "new" => routed'[d] = NoWorker
    BY <1>5 DEF CallsAreHeld, RoutedIsHeld
  <2>2. ASSUME NEW d \in Call, Live(d)', routed'[d] # NoWorker
        PROVE hash'[routed'[d]] = d \/ \E o \in Outbound : hash'[routed'[d]] = o /\ SidOf[o] = d
    <3>1. Live(d)
      BY <1>3, <2>2
    <3> QED BY <2>2, <3>1 DEF CallsAreHeld, RoutedIsHeld
  <2> QED BY <2>1, <2>2 DEF RoutedIsHeld
<1>10. ASSUME UNCHANGED hooks, NEW u \in Task, NEW j, j = task[u] PROVE HandlerKnows(j)'
  <2>1. HandlerKnows(j) /\ (j.pc # "idle" => j.call \in Call)
    BY <1>10, Knows DEF HandlerKnows
  <2>2. j.pc # "idle" => phase'[j.call] # "new"
    BY <1>5, <2>1 DEF HandlerKnows
  <2>3. j.pc # "idle" /\ phase[j.call] = "ended" => phase'[j.call] = "ended"
    BY <1>6, <2>1
  <2>4. j.call \in Outbound =>
           /\ phase'[j.call] = phase[j.call]
           /\ phase[SidOf[j.call]] = "new" => phase'[SidOf[j.call]] = "new"
    BY <1>2, <1>4
  <2>5. j.pc \in {"cache", "respond"} /\ Live(j.call)' => hash'[j.worker] = j.call
    <3>1. j.pc \in {"cache", "respond"} /\ Live(j.call)' => Live(j.call)
      BY <1>3, <2>1
    <3> QED BY <2>1, <3>1 DEF HandlerKnows
  <2>6. j.pc = "dial" => j.call \in Outbound
    BY <1>10, KnownOK DEF HasReservation
  <2> QED BY <1>10, <2>1, <2>2, <2>3, <2>4, <2>5, <2>6 DEF HandlerKnows
<1> QED BY <1>7, <1>8, <1>9, <1>10

LEMMA AnsweredCallHeld ==
    ASSUME TypeOK, CallsAreHeld, NEW t \in Task, NEW r \in Runner, NEW c \in Call,
           AnsweredCall(t, r, c)
    PROVE CallsAreHeld'
<1>1. PICK k : Become(t, k) /\ k.call = c /\ k.pc = "getw"
  BY DEF AnsweredCall, Handler, HandlerWith
<1>2. /\ c \in ProviderCall /\ c \notin Outbound /\ At(t, "idle") /\ phase[c] = "live"
      /\ phase' = [phase EXCEPT ![c] = "answered"]
      /\ UNCHANGED <<hash, callKey, routed, hooks>>
  BY Distinct DEF AnsweredCall, NoScript, redisVars, ProviderCall
<1>3. /\ phase' \in [Call -> {"new", "live", "answered", "joined", "left", "ended"}]
      /\ phase'[c] = "answered" /\ \A d \in Call : d # c => phase'[d] = phase[d]
  BY <1>2 DEF TypeOK, CallTypeOK
<1>4. /\ MappingAgrees' /\ ReservedFirst' /\ RoutedIsHeld'
      /\ \A u \in Task : \A j : j = task[u] => HandlerKnows(j)'
  <2>1. PICK cs : cs = {c} /\ cs \in SUBSET ProviderCall
    BY <1>2
  <2>2. \A d \in cs : /\ phase[d] \notin {"new", "ended"} /\ phase'[d] # "new" /\ Live(d)
    BY <1>2, <1>3, <2>1 DEF Live
  <2>3. \A d \in Call : d \notin cs => phase'[d] = phase[d]
    BY <1>3, <2>1
  <2>4. \A d \in cs : Live(d)' => Live(d)
    BY <2>2
  <2> QED BY <1>2, <1>3, <2>1, <2>2, <2>3, <2>4, PhaseMoves
<1>5. HandlerKnows(k)'
  BY <1>1, <1>2, <1>3 DEF HandlerKnows
<1> QED BY <1>1, <1>2, <1>4, <1>5, RequestAssembleHeld

LEMMA TerminalHookHeld ==
    ASSUME Calm, TypeOK, CallsAreHeld, NEW t \in Task, NEW r \in Runner, NEW c \in Call,
           TerminalHook(t, r, c)
    PROVE CallsAreHeld'
<1>1. PICK k : Become(t, k) /\ k.call = c /\ k.pc = "lookup"
  BY DEF TerminalHook, Handler, HandlerWith
<1>2. /\ c \in ProviderCall /\ c \notin Outbound /\ At(t, "idle") /\ phase[c] = "ended"
      /\ hooks[c] < MaxHooks /\ hooks' = [hooks EXCEPT ![c] = @ + 1]
      /\ UNCHANGED <<hash, callKey, routed, phase>>
  BY Distinct DEF TerminalHook, NoScript, redisVars
<1>3. hooks[c] = 0 /\ hooks'[c] = 1 /\ \A d \in Call : d # c => hooks'[d] = hooks[d]
  <2>1. hooks[c] \in Nat /\ MaxHooks \in Nat /\ MaxHooks <= 1 /\ hooks \in [Call -> 0..MaxHooks]
    BY PoolAssumption DEF TypeOK, CallTypeOK, Calm
  <2> QED BY <1>2, <2>1
<1>4. ASSUME NEW u \in Task, NEW j, j = task[u]
      PROVE HandlerKnows(j)' /\ (j.pc \in {"lookup", "release"} => j.call # c)
  <2>1. HandlerKnows(j)
    BY <1>4, Knows
  <2>2. j.pc \in {"lookup", "release"} => j.call # c
    BY <1>2, <1>3, <2>1 DEF HandlerKnows
  <2>3. j.pc \in {"lookup", "release"} => j.call \in Call
    BY <2>1 DEF HandlerKnows
  <2> QED BY <1>2, <1>3, <2>1, <2>2, <2>3 DEF HandlerKnows, Live
<1>5. HandlerKnows(k)'
  BY <1>1, <1>2, <1>3 DEF HandlerKnows
<1>6. MappingAgrees' /\ ReservedFirst' /\ RoutedIsHeld'
  BY <1>2 DEF CallsAreHeld, MappingAgrees, ReservedFirst, RoutedIsHeld, Live
<1>7. \A u \in Task : Releases(u) => task[u].call # c
  BY <1>4 DEF Releases
<1> QED BY <1>1, <1>2, <1>4, <1>5, <1>6, <1>7, RequestAssembleHeld

LEMMA RequestHeld ==
    ASSUME Calm, TypeOK, CallsAreHeld, NEW t \in Task, NEW r \in Runner, Request(t, r)
    PROVE CallsAreHeld'
<1>1. \A w \in Worker : ~AdminRelease(t, r, w)
  BY DEF Calm, AdminRelease
<1> QED BY <1>1, NewCallHeld, AnsweredCallHeld, TerminalHookHeld DEF Request

LEMMA RestartHeld ==
    ASSUME TypeOK, CallsAreHeld, NEW r \in Runner, Restart(r)
    PROVE CallsAreHeld'
<1>1. /\ task' = [t \in Task |-> IF task[t].runner = r THEN Idle ELSE task[t]]
      /\ UNCHANGED <<hash, callKey, phase, routed, hooks>>
  BY CallVarsSame DEF Restart, NoScript, redisVars
<1>2. \A u \in Task : task'[u] = Idle \/ task'[u] = task[u]
  BY <1>1
<1>3. HandlersKnow'
  <2>1. ASSUME NEW u \in Task, NEW j, j = task'[u] PROVE HandlerKnows(j)'
    <3>1. HandlerKnows(j)
      BY <1>2, <2>1, Knows, IdleKnows
    <3> QED BY <1>1, <3>1 DEF HandlerKnows, Live
  <2> QED BY <2>1 DEF HandlersKnow, HandlerKnows, Live
<1>4. OneHandler'
  BY <1>2, IdleKnows DEF CallsAreHeld, OneHandler, Releases, At
<1> QED BY <1>1, <1>3, <1>4 DEF CallsAreHeld, MappingAgrees, ReservedFirst, RoutedIsHeld, Live

LEMMA BackgroundHeld ==
    ASSUME Calm, TypeOK, PoolIsSettled, CallsAreHeld, NEW r \in Runner, Background(r)
    PROVE CallsAreHeld'
<1>1. CASE Restart(r)
  BY <1>1, RestartHeld
<1>2. CASE ~Restart(r)
  <2>1. UNCHANGED <<hash, callKey, task>> /\ UNCHANGED envVars
    BY <1>2 DEF Background, ProbeAnswered, ProbeRead, ProbeFails, Age, DrainCheck, DrainDelete,
                ReapRead, ReapApply, Discover, NoScript, redisVars
  <2> QED BY <2>1, CallVarsSame, QuietHeld
<1> QED BY <1>1, <1>2

(* The phases of calls move on and no handler takes a step. *)
LEMMA WorldHeld ==
    ASSUME TypeOK, CallsAreHeld, NEW cs \in SUBSET ProviderCall,
           phase' \in [Call -> {"new", "live", "answered", "joined", "left", "ended"}],
           \A d \in Call : d \notin cs => phase'[d] = phase[d],
           \A d \in cs : phase[d] \notin {"new", "ended"} /\ phase'[d] # "new",
           \A d \in cs : Live(d)' => Live(d),
           UNCHANGED <<hash, callKey, routed, hooks, task>>
    PROVE CallsAreHeld'
<1>1. /\ MappingAgrees' /\ ReservedFirst' /\ RoutedIsHeld'
      /\ \A u \in Task : \A j : j = task[u] => HandlerKnows(j)'
  BY PhaseMoves
<1>2. HandlersKnow'
  <2>1. \A u \in Task : \A j : j = task'[u] => HandlerKnows(j)'
    BY <1>1
  <2> QED BY <2>1 DEF HandlersKnow, HandlerKnows, Live
<1>3. OneHandler'
  BY DEF CallsAreHeld, OneHandler, Releases, At
<1> QED BY <1>1, <1>2, <1>3 DEF CallsAreHeld

(* A joined call leaves, by itself or with its worker. *)
LEMMA LeavingHeld ==
    ASSUME TypeOK, CallsAreHeld, NEW cs, phase' = AfterLeaving(cs),
           UNCHANGED <<hash, callKey, routed, hooks, task>>
    PROVE CallsAreHeld'
<1>1. PICK ds : ds = {d \in Call : d \in cs /\ phase[d] = "joined"}
  OBVIOUS
<1>2. ds \in SUBSET ProviderCall
  <2>1. \A d \in ds : d \in Call /\ d \notin Outbound
    BY <1>1 DEF CallsAreHeld, ReservedFirst
  <2> QED BY <2>1, Distinct
<1>3. /\ \A d \in Call : d \notin ds => phase'[d] = phase[d]
      /\ \A d \in ds : phase[d] = "joined" /\ phase'[d] = "left"
  BY <1>1 DEF AfterLeaving
<1>4. phase' \in [Call -> {"new", "live", "answered", "joined", "left", "ended"}]
  BY DEF AfterLeaving, TypeOK, CallTypeOK
<1>5. \A d \in ds : Live(d)' => Live(d)
  BY <1>3 DEF Live
<1>6. \A d \in ds : phase[d] \notin {"new", "ended"} /\ phase'[d] # "new"
  BY <1>3
<1> QED BY <1>2, <1>3, <1>4, <1>5, <1>6, WorldHeld

LEMMA EnvironmentHeld ==
    ASSUME TypeOK, CallsAreHeld, Environment
    PROVE CallsAreHeld'
<1>1. ASSUME NEW c \in Call, Join(c) \/ HangUp(c) PROVE CallsAreHeld'
  <2>1. /\ c \in ProviderCall /\ phase[c] \in {"live", "answered", "joined", "left"}
        /\ UNCHANGED <<hash, callKey, routed, hooks, task>>
    BY <1>1 DEF Join, HangUp, NoScript, redisVars, Live
  <2>2. PICK p \in {"joined", "ended"} :
          phase' = [phase EXCEPT ![c] = p] /\ (p = "joined" => Live(c))
    BY <1>1 DEF Join, HangUp
  <2>3. /\ phase' \in [Call -> {"new", "live", "answered", "joined", "left", "ended"}]
        /\ phase'[c] = p /\ \A d \in Call : d # c => phase'[d] = phase[d]
    BY <2>2 DEF TypeOK, CallTypeOK
  <2>4. PICK cs : cs = {c} /\ cs \in SUBSET ProviderCall
    BY <2>1
  <2>5. \A d \in Call : d \notin cs => phase'[d] = phase[d]
    BY <2>3, <2>4
  <2>6. \A d \in cs : phase[d] \notin {"new", "ended"} /\ phase'[d] # "new"
    BY <2>1, <2>3, <2>4
  <2>7. \A d \in cs : Live(d)' => Live(d)
    <3>1. p = "ended" => ~Live(c)'
      BY <2>3 DEF Live
    <3> QED BY <2>2, <2>4, <3>1
  <2> QED BY <2>1, <2>3, <2>4, <2>5, <2>6, <2>7, WorldHeld
<1>2. ASSUME NEW w \in Worker, NEW c \in Call, Leave(w, c) PROVE CallsAreHeld'
  BY <1>2, LeavingHeld DEF Leave, NoScript, redisVars
<1>3. ASSUME NEW w \in Worker, Crash(w) PROVE CallsAreHeld'
  BY <1>3, LeavingHeld DEF Crash, NoScript, redisVars
<1>4. ASSUME NEW w \in Worker, ScaleDown(w) \/ ScaleUp(w) PROVE CallsAreHeld'
  BY <1>4, CallVarsSame, QuietHeld DEF ScaleDown, ScaleUp, NoScript, redisVars
<1>5. ASSUME NEW w \in Worker, NEW c \in Call, PrewarmExpires(w, c) PROVE CallsAreHeld'
  BY <1>5, CallVarsSame, QuietHeld DEF PrewarmExpires, NoScript, redisVars
<1>6. ASSUME NEW p \in posts, PrewarmArrives(p) PROVE CallsAreHeld'
  BY <1>6, CallVarsSame, QuietHeld DEF PrewarmArrives, NoScript, redisVars
<1> QED BY <1>1, <1>2, <1>3, <1>4, <1>5, <1>6 DEF Environment

LEMMA NextHeld == Calm /\ TypeOK /\ TenancyInv /\ [Next]_vars => TenancyInv'
<1> SUFFICES ASSUME Calm, TypeOK, PoolIsSettled, CallsAreHeld, [Next]_vars
             PROVE PoolIsSettled' /\ CallsAreHeld'
  BY DEF TenancyInv
<1>1. PoolIsSettled'
  BY NextSettled
<1>2. ASSUME NEW s \in stray PROVE FALSE
  BY <1>2 DEF PoolIsSettled
<1>3. CASE UNCHANGED vars
  BY <1>1, <1>3, QuietHeld DEF vars, redisVars, envVars, callVars
<1> QED BY <1>1, <1>2, <1>3, StepHeld, RequestHeld, BackgroundHeld, EnvironmentHeld DEF Next

LEMMA InitHeld == Init => TenancyInv
<1> SUFFICES ASSUME Init PROVE TenancyInv
  OBVIOUS
<1>1. PoolIsSettled
  BY DEF Init, PoolIsSettled
<1>2. HandlersKnow /\ OneHandler
  <2>1. \A t \in Task : task[t] = Idle
    BY DEF Init
  <2>2. HandlersKnow
    BY <2>1, IdleKnows DEF HandlersKnow
  <2>3. OneHandler
    BY <2>1, IdleKnows DEF OneHandler, Releases, At
  <2> QED BY <2>2, <2>3
<1>3. MappingAgrees /\ ReservedFirst /\ RoutedIsHeld
  BY Distinct DEF Init, RedisInit, MappingAgrees, ReservedFirst, RoutedIsHeld, Live
<1> QED BY <1>1, <1>2, <1>3 DEF TenancyInv, CallsAreHeld

(* Calm deployments keep the tenancy invariant. *)
THEOREM TenancyIsInvariant ==
    ASSUME Calm
    PROVE Spec => []TenancyInv
<1>1. Init => TenancyInv
  BY InitHeld
<1>2. TypeOK /\ TenancyInv /\ [Next]_vars => TenancyInv'
  BY NextHeld
<1> QED BY <1>1, <1>2, TypeCorrect, PTL DEF Spec

-----------------------------------------------------------------------------
(* What follows from it. *)

LEMMA HeldIsSingle == TypeOK /\ TenancyInv => SingleTenancy
<1> SUFFICES ASSUME CallsAreHeld, NEW c \in Call, NEW d \in Call, Live(c), Live(d),
                    routed[c] = routed[d], routed[c] # NoWorker
             PROVE c = d
  BY DEF TenancyInv, SingleTenancy
<1> DEFINE w == routed[c]
<1>1. /\ hash[w] = c \/ \E o \in Outbound : hash[w] = o /\ SidOf[o] = c
      /\ hash[w] = d \/ \E o \in Outbound : hash[w] = o /\ SidOf[o] = d
  BY DEF CallsAreHeld, RoutedIsHeld
<1>2. ASSUME NEW o \in Outbound, hash[w] = o PROVE ~(Live(o) /\ Live(SidOf[o]))
  BY DEF CallsAreHeld, ReservedFirst, Live
<1> QED BY <1>1, <1>2

(* Single tenancy: in a calm deployment no two live calls have been given  *)
(* the same worker, across all runners, whatever restarts and however the  *)
(* handlers of the calls interleave.                                       *)
THEOREM CallsDoNotShareWorkers ==
    ASSUME Calm
    PROVE Spec => []SingleTenancy
<1>1. TypeOK /\ TenancyInv => SingleTenancy
  BY HeldIsSingle
<1> QED BY <1>1, TenancyIsInvariant, TypeCorrect, PTL

-----------------------------------------------------------------------------
(* The calm pool implements CallOwnership. *)

OverGrows == UNCHANGED over \/ \E c \in Call : over' = over \cup {c}

LEMMA OneCallMoves ==
    ASSUME TypeOK, NEW c \in Call, \A d \in Call : d # c => phase'[d] = phase[d],
           phase[c] = "ended" => phase'[c] = "ended"
    PROVE OverGrows
<1>1. CASE phase'[c] = "ended"
  BY <1>1 DEF over, OverGrows
<1>2. CASE phase'[c] # "ended"
  BY <1>2 DEF over, OverGrows
<1> QED BY <1>1, <1>2

LEMMA PhaseSame == UNCHANGED phase => UNCHANGED over /\ OverGrows
BY DEF over, OverGrows

LEMMA AfterLeavingOver == ASSUME NEW cs, phase' = AfterLeaving(cs) PROVE OverGrows
BY DEF AfterLeaving, over, OverGrows

LEMMA PhaseExcept ==
    ASSUME TypeOK, NEW c \in Call, NEW p, phase' = [phase EXCEPT ![c] = p],
           p = "ended" \/ phase[c] # "ended"
    PROVE OverGrows
<1>1. /\ \A d \in Call : d # c => phase'[d] = phase[d]
      /\ phase'[c] = p
  BY DEF TypeOK, CallTypeOK
<1> QED BY <1>1, OneCallMoves

(* The steps that run no script end at most one call or reservation. *)
LEMMA StepOver ==
    ASSUME TypeOK, CallsAreHeld, NEW t \in Task, Step(t)
    PROVE OverGrows
<1> DEFINE k == task[t]
<1>1. ASSUME GiveUp(t) PROVE OverGrows
  <2>1. k.call \in Call
    BY <1>1, KnownOK DEF GiveUp, HasCall, PC
  <2> QED BY <1>1, <2>1, PhaseExcept, PhaseSame DEF GiveUp
<1>2. ASSUME DialFails(t) PROVE OverGrows
  <2>1. k.call \in Call
    BY <1>2, KnownOK DEF DialFails, At, HasCall, PC
  <2> QED BY <1>2, <2>1, PhaseExcept DEF DialFails
<1>3. ASSUME Dial(t) \/ DialLost(t) PROVE OverGrows
  <2>1. PICK o, c : /\ o = k.call /\ c = SidOf[o]
                    /\ phase' = [phase EXCEPT ![o] = "ended", ![c] = "live"]
    BY <1>3 DEF Dial, DialLost, Dialled
  <2>2. o \in Outbound /\ o \in Call /\ c \in Call /\ c # o /\ phase[c] = "new"
    <3>1. o \in Outbound /\ phase[o] = "live"
      BY <1>3, <2>1, Knows, KnownOK DEF Dial, DialLost, At, HasReservation, HandlerKnows
    <3> QED BY <2>1, <3>1, Distinct DEF CallsAreHeld, ReservedFirst
  <2>3. /\ phase'[c] = "live" /\ phase'[o] = "ended"
        /\ \A d \in Call : d # c /\ d # o => phase'[d] = phase[d]
    BY <2>1, <2>2 DEF TypeOK, CallTypeOK
  <2>4. over' = over \cup {o}
    BY <2>2, <2>3 DEF over
  <2> QED BY <2>2, <2>4 DEF OverGrows
<1>4. ASSUME ~GiveUp(t), ~DialFails(t), ~Dial(t), ~DialLost(t) PROVE UNCHANGED phase
  BY <1>4
  DEF Step, Claim, ClaimAllBusy, ClaimLost, StartOver, CacheAssignment, CacheMissing,
      DiscoverAndRetry, LookedUp, LookedUpAfterDiscovery, LookedUpNone, Respond, RespondFails,
      Find, FindNone, Rekey, Recache, Lookup, LookupAgain, LookupGivesUp, Release, Uncache,
      AdminScript, ScriptError, OnlyTask, OnlyTaskAndCache, envVars, callVars
<1> QED BY <1>1, <1>2, <1>3, <1>4, PhaseSame

LEMMA OtherOver ==
    ASSUME TypeOK, PoolIsSettled, [Next]_vars, ~\E t \in Task : Step(t)
    PROVE OverGrows
<1>1. ASSUME NEW t \in Task, NEW r \in Runner, Request(t, r) PROVE OverGrows
  <2>1. ASSUME NEW c \in Call, NewCall(t, r, c) PROVE OverGrows
    BY <2>1, PhaseExcept DEF NewCall
  <2>2. ASSUME NEW c \in Call, AnsweredCall(t, r, c) PROVE OverGrows
    BY <2>2, PhaseExcept DEF AnsweredCall
  <2>3. ASSUME NEW w \in Worker, AdminRelease(t, r, w) PROVE UNCHANGED phase
    BY <2>3 DEF AdminRelease, OnlyTask, envVars, callVars
  <2>4. ASSUME NEW c \in Call, TerminalHook(t, r, c) PROVE UNCHANGED phase
    BY <2>4 DEF TerminalHook
  <2> QED BY <1>1, <2>1, <2>2, <2>3, <2>4, PhaseSame DEF Request
<1>2. ASSUME NEW r \in Runner, Background(r) PROVE UNCHANGED phase
  BY <1>2 DEF Background, ProbeAnswered, ProbeRead, ProbeFails, Age, DrainCheck, DrainDelete,
              ReapRead, ReapApply, Discover, Restart, envVars, callVars
<1>3. ASSUME Environment PROVE OverGrows
  <2>1. ASSUME NEW c \in Call, Join(c) PROVE OverGrows
    BY <2>1, PhaseExcept DEF Join, Live
  <2>2. ASSUME NEW c \in Call, HangUp(c) PROVE OverGrows
    BY <2>2, PhaseExcept DEF HangUp
  <2>3. ASSUME NEW w \in Worker, NEW c \in Call, Leave(w, c) PROVE OverGrows
    BY <2>3, AfterLeavingOver DEF Leave
  <2>4. ASSUME NEW w \in Worker, Crash(w) PROVE OverGrows
    BY <2>4, AfterLeavingOver DEF Crash
  <2>5. ASSUME NEW w \in Worker, ScaleDown(w) \/ ScaleUp(w) PROVE OverGrows
    BY <2>5, PhaseSame DEF ScaleDown, ScaleUp, callVars
  <2>6. ASSUME NEW w \in Worker, NEW c \in Call, PrewarmExpires(w, c) PROVE OverGrows
    BY <2>6, PhaseSame DEF PrewarmExpires, callVars
  <2>7. ASSUME NEW p \in posts, PrewarmArrives(p) PROVE OverGrows
    BY <2>7, PhaseSame DEF PrewarmArrives, callVars
  <2> QED BY <1>3, <2>1, <2>2, <2>3, <2>4, <2>5, <2>6, <2>7 DEF Environment
<1>4. \A s : s \notin stray
  BY DEF PoolIsSettled
<1>5. CASE UNCHANGED vars
  BY <1>5, PhaseSame DEF vars, envVars, callVars
<1> QED BY <1>1, <1>2, <1>3, <1>4, <1>5, PhaseSame DEF Next

(* The steps that run a script change one tenant. *)
LEMMA ScriptRefines ==
    ASSUME Calm, TypeOK, CallsAreHeld, NEW t \in Task, Claim(t) \/ Rekey(t) \/ Release(t)
    PROVE Ownership!Next
<1> DEFINE k == task[t]
<1>1. UNCHANGED over
  BY PhaseSame, CallVarsSame DEF Claim, Rekey, Release
<1>2. CASE Claim(t)
  <2>1. PICK w \in k.cands : Claim1(k.cands, k.call, w)
    BY <1>2 DEF Claim
  <2>2. w \in Worker /\ k.call \in Call
    BY <1>2, <2>1, KnownOK DEF Claim, At, HasCall, PC
  <2>3. Ownership!Occupy(w, k.call)
    BY <1>1, <2>1 DEF Claim1, FindAndAssign, IsFree, Ownership!Occupy
  <2> QED BY <2>2, <2>3 DEF Ownership!Next
<1>3. CASE Rekey(t)
  <2>1. k.worker \in Worker /\ k.call \in DOMAIN SidOf /\ hash[k.worker] = k.call
    BY <1>3, Knows, KnownOK, PoolAssumption
    DEF Rekey, At, HasWorker, HasReservation, HandlerKnows
  <2>2. Ownership!Rename(k.worker, k.call)
    BY <1>1, <1>3, <2>1 DEF Rekey, RunReassign, Reassign, Ownership!Rename
  <2> QED BY <2>1, <2>2 DEF Ownership!Next
<1>4. CASE Release(t)
  <2>1. /\ k.worker \in Worker /\ k.call \in Call /\ hash[k.worker] = k.call
        /\ phase[k.call] = "ended"
    BY <1>4, Knows, KnownOK DEF Release, At, HasCall, HasWorker, PC, HandlerKnows
  <2>2. Ownership!Vacate(k.worker)
    BY <1>1, <1>4, <2>1 DEF Release, RunRelease, ReleaseAssignment, over, Ownership!Vacate
  <2> QED BY <2>1, <2>2 DEF Ownership!Next
<1> QED BY <1>2, <1>3, <1>4

LEMMA NoScriptRefines ==
    ASSUME UNCHANGED hash, OverGrows
    PROVE [Ownership!Next]_<<hash, over>>
BY DEF OverGrows, Ownership!Next, Ownership!End

LEMMA NextRefines ==
    ASSUME Calm, TypeOK, TenancyInv, [Next]_vars
    PROVE [Ownership!Next]_<<hash, over>>
<1>1. PoolIsSettled /\ CallsAreHeld
  BY DEF TenancyInv
<1>2. ASSUME NEW t \in Task, Step(t) PROVE [Ownership!Next]_<<hash, over>>
  <2>1. CASE Claim(t) \/ Rekey(t) \/ Release(t)
    BY <1>1, <2>1, ScriptRefines
  <2>2. CASE ~(Claim(t) \/ Rekey(t) \/ Release(t))
    <3>1. ~ClaimLost(t)
      BY DEF Calm, ClaimLost
    <3>2. ~AdminScript(t)
      BY <1>1, Knows DEF AdminScript, At, HandlerKnows
    <3>3. NoScript
      BY <1>2, <2>2, <3>1, <3>2, OtherSteps
    <3> QED BY <1>1, <1>2, <3>3, StepOver, NoScriptRefines DEF NoScript, redisVars
  <2> QED BY <2>1, <2>2
<1>3. ASSUME ~\E t \in Task : Step(t) PROVE [Ownership!Next]_<<hash, over>>
  <2>1. UNCHANGED hash
    <3>1. \A s : s \notin stray
      BY <1>1 DEF PoolIsSettled
    <3>2. NoScript \/ UNCHANGED vars
      BY <1>3, <3>1, OtherScripts DEF Next
    <3> QED BY <3>2 DEF NoScript, vars, redisVars
  <2> QED BY <1>1, <1>3, <2>1, OtherOver, NoScriptRefines
<1> QED BY <1>2, <1>3

(* In a calm deployment a worker's tenant is the call in its Redis hash:   *)
(* it keeps it until that call or reservation has ended, and changes its   *)
(* name only from a reservation to the SID that the provider gave it.      *)
THEOREM PoolImplementsOwnership ==
    ASSUME Calm
    PROVE Spec => ImplementsOwnership
<1>1. Init => Ownership!Init
  BY DEF Init, RedisInit, over, Ownership!Init
<1>2. TypeOK /\ TenancyInv /\ [Next]_vars => [Ownership!Next]_<<hash, over>>
  BY NextRefines
<1> QED BY <1>1, <1>2, TenancyIsInvariant, TypeCorrect, PTL
    DEF Spec, ImplementsOwnership, Ownership!Spec, Ownership!ownershipVars
-----------------------------------------------------------------------------
(* HeldInv is inductive in a diligent deployment. *)

LEMMA SameHolds ==
    ASSUME HeldInv, UNCHANGED <<hash, callKey, phase, hooks, task>>
    PROVE HeldInv'
<1>1. HeldOnce' /\ OneClaim'
  BY DEF HeldInv, HeldOnce, OneClaim
<1>2. HandlersAreFirst' /\ HeldInTime'
  BY DEF HeldInv, HandlersAreFirst, HandlerIsFirst, HeldInTime, Unheld
<1>3. \A c \in ProviderCall : CallIsCovered(c)'
  BY DEF HeldInv, CallIsCovered, Unheld, Settling, Releases
<1>4. \A o \in Outbound : ReservationIsCovered(o)'
  BY DEF HeldInv, ReservationIsCovered, Unheld
<1> QED BY <1>1, <1>2, <1>3, <1>4 DEF HeldInv

(* A handler that goes on as k without a script: if it is k that now waits *)
(* for a worker or renames one, it did so before or its call is new, and   *)
(* if it no longer releases a worker there is none to release.             *)
KeepsCover(t, k) ==
    /\ HandlerIsFirst(k)
    /\ k.pc \in Unassigned =>
          \/ task[t].pc \in Unassigned \ {"reject"} /\ k.call = task[t].call
          \/ phase[k.call] = "new"
    /\ k.pc \in Renaming =>
          \/ task[t].pc \in Renaming /\ k.call = task[t].call
          \/ phase[SidOf[k.call]] = "new"
    /\ task[t].pc \in {"lookup", "release"} =>
          \/ k.call = task[t].call /\ k.pc \in {"lookup", "release"}
          \/ Unheld(task[t].call) /\ ~Settling(task[t].call)
    /\ task[t].pc \in Renaming =>
          \/ k.call = task[t].call /\ k.pc \in Renaming
          \/ Unheld(task[t].call)

(* Phases never go back, and a reservation that ends is covered. *)
PhasesAdvance(k) ==
    /\ k.pc \in Renaming => phase'[SidOf[k.call]] # "new"
    /\ \A c \in Call : /\ phase'[c] = "new" => phase[c] = "new"
                       /\ phase[c] = "ended" => phase'[c] = "ended"
    /\ \A o \in Outbound : phase'[o] = "ended" =>
          \/ phase[o] = "ended" \/ Unheld(o)
          \/ k.call = o /\ k.pc \in Renaming \cup {"lookup", "release"}

LEMMA NoScriptHolds ==
    ASSUME TypeOK, CallsAreHeld, HeldInv, NEW t \in Task, NEW k, Become(t, k),
           KeepsCover(t, k), PhasesAdvance(k), UNCHANGED <<hash, callKey, hooks>>
    PROVE HeldInv'
<1>1. task'[t] = k /\ \A u \in Task : u # t => task'[u] = task[u]
  BY DEF Become, TypeOK, TaskTypeOK
<1>2. \A c : Unheld(c)' <=> Unheld(c)
  BY DEF Unheld
<1>3. HeldOnce'
  BY DEF HeldInv, HeldOnce
<1>4. HandlersAreFirst'
  <2>1. \A u \in Task : \A j : j = task'[u] => HandlerIsFirst(j)
    BY <1>1 DEF HeldInv, HandlersAreFirst, KeepsCover
  <2>2. \A j : HandlerIsFirst(j) => HandlerIsFirst(j)'
    BY <1>2 DEF HandlerIsFirst
  <2>3. \A u \in Task : \A j : j = task'[u] => HandlerIsFirst(j)'
    BY <2>1, <2>2
  <2> QED BY <2>3 DEF HandlersAreFirst, HandlerIsFirst, Unheld
<1>5. \A u \in Task : task[u].pc \in Unassigned => phase[task[u].call] # "new"
  BY Knows DEF HandlerKnows, Unassigned
<1>6. OneClaim'
  <2>1. ASSUME NEW u \in Task, u # t, k.call = task[u].call, k.pc \in Unassigned,
               task[u].pc \in Unassigned
        PROVE FALSE
    BY <1>5, <2>1 DEF KeepsCover, HeldInv, OneClaim
  <2>2. ASSUME NEW u \in Task, NEW v \in Task, u # t, v # t,
               task[u].call = task[v].call, task[u].pc \in Unassigned, task[v].pc \in Unassigned
        PROVE u = v
    BY <2>2 DEF HeldInv, OneClaim
  <2> SUFFICES ASSUME NEW u \in Task, NEW v \in Task, task'[u].call = task'[v].call,
                      task'[u].pc \in Unassigned, task'[v].pc \in Unassigned
               PROVE u = v
    BY DEF OneClaim
  <2>3. CASE u = t
    BY <1>1, <2>1, <2>3
  <2>4. CASE v = t
    BY <1>1, <2>1, <2>4
  <2>5. CASE u # t /\ v # t
    BY <1>1, <2>2, <2>5
  <2> QED BY <2>3, <2>4, <2>5
<1>7. HeldInTime'
  <2>1. ASSUME NEW u \in Task, task'[u].pc \in Renaming PROVE phase'[SidOf[task'[u].call]] # "new"
    <3>1. CASE u = t
      BY <1>1, <2>1, <3>1 DEF PhasesAdvance
    <3>2. CASE u # t
      <4>1. task'[u] = task[u] /\ task[u].pc \in Renaming /\ SidOf[task[u].call] \in Call
        BY <1>1, <2>1, <3>2, KnownOK, Distinct DEF HasReservation, Renaming
      <4>2. phase[SidOf[task[u].call]] # "new"
        BY <4>1 DEF HeldInv, HeldInTime
      <4> QED BY <4>1, <4>2 DEF PhasesAdvance
    <3> QED BY <3>1, <3>2
  <2>2. \A c \in Call : /\ phase'[c] = "new" => Unheld(c)'
                        /\ hooks'[c] > 0 => phase'[c] = "ended"
    BY <1>2 DEF HeldInv, HeldInTime, PhasesAdvance
  <2> QED BY <2>1, <2>2 DEF HeldInTime
<1>8. ASSUME NEW c \in ProviderCall PROVE CallIsCovered(c)'
  <2> SUFFICES ASSUME hooks[c] > 0
               PROVE \/ \E u \in Task : /\ task'[u].call = c
                                         /\ task'[u].pc \in {"lookup", "release"}
                     \/ Unheld(c)' /\ ~Settling(c)'
    BY DEF CallIsCovered, Releases
  <2>1. c \in Call /\ phase[c] = "ended"
    BY Distinct DEF HeldInv, HeldInTime
  <2>2. Settling(c)' => Settling(c)
    <3>1. ASSUME NEW u \in Task,
                 \/ task'[u].call = c /\ task'[u].pc \in {"claim", "backoff", "noworker"}
                 \/ task'[u].pc \in Renaming /\ SidOf[task'[u].call] = c
          PROVE Settling(c)
      <4>1. CASE u # t
        BY <1>1, <3>1, <4>1 DEF Settling, Renaming
      <4>2. CASE u = t
        <5>1. k.pc = task'[u].pc /\ k.call = task'[u].call
          BY <1>1, <4>2
        <5>2. CASE k.pc \in Renaming /\ SidOf[k.call] = c
          BY <2>1, <5>2 DEF KeepsCover, Settling, Renaming
        <5>3. CASE k.call = c /\ k.pc \in {"claim", "backoff", "noworker"}
          <6>1. task[t].pc \in Unassigned \ {"reject"} /\ task[t].call = c
            BY <2>1, <5>3 DEF KeepsCover, Unassigned
          <6> QED BY <6>1 DEF Settling, Unassigned
        <5> QED BY <3>1, <5>1, <5>2, <5>3
      <4> QED BY <4>1, <4>2
    <3> QED BY <3>1 DEF Settling, Renaming
  <2>3. CASE Unheld(c) /\ ~Settling(c)
    BY <1>2, <2>2, <2>3
  <2>4. ASSUME NEW u \in Task, task[u].call = c, Releases(u),
               ~(Unheld(c) /\ ~Settling(c))
        PROVE task'[u].call = c /\ task'[u].pc \in {"lookup", "release"}
    BY <1>1, <2>4 DEF KeepsCover, Releases
  <2>5. CASE ~(Unheld(c) /\ ~Settling(c))
    <3>1. PICK u \in Task : task[u].call = c /\ Releases(u)
      BY <2>5 DEF HeldInv, CallIsCovered
    <3>2. task'[u].call = c /\ task'[u].pc \in {"lookup", "release"}
      BY <2>4, <2>5, <3>1
    <3> QED BY <3>2
  <2> QED BY <2>3, <2>5
<1>9. ASSUME NEW o \in Outbound PROVE ReservationIsCovered(o)'
  <2> SUFFICES ASSUME phase'[o] = "ended", ~Unheld(o)
               PROVE \E u \in Task : task'[u].call = o
                           /\ task'[u].pc \in Renaming \cup {"lookup", "release"}
    BY <1>2 DEF ReservationIsCovered
  <2>1. CASE phase[o] = "ended"
    <3>1. PICK u \in Task : task[u].call = o /\ task[u].pc \in Renaming \cup {"lookup", "release"}
      BY <2>1 DEF HeldInv, ReservationIsCovered
    <3>2. CASE u = t
      BY <1>1, <3>1, <3>2 DEF KeepsCover
    <3>3. CASE u # t
      BY <1>1, <3>1, <3>3
    <3> QED BY <3>2, <3>3
  <2>2. CASE phase[o] # "ended"
    BY <1>1, <2>2 DEF PhasesAdvance
  <2> QED BY <2>1, <2>2
<1> QED BY <1>3, <1>4, <1>6, <1>7, <1>8, <1>9 DEF HeldInv

LEMMA Diligence ==
    ASSUME Diligent
    PROVE /\ Calm /\ Timely /\ AskOnAnswer = {}
          /\ "handler" \notin Behaviour /\ "lost" \notin Behaviour /\ "error" \notin Behaviour
          /\ "admin" \notin Behaviour /\ "restart" \notin Behaviour
BY DEF Diligent, Calm

LEMMA PhasesStay ==
    ASSUME UNCHANGED phase, NEW k, k.pc \in Renaming => phase[SidOf[k.call]] # "new"
    PROVE PhasesAdvance(k)
BY DEF PhasesAdvance

(* A handler that waits for a worker, or is done with its own, goes on. *)
LEMMA AwaitHolds ==
    ASSUME Diligent, TypeOK, CallsAreHeld, HeldInv, NEW t \in Task,
           ClaimAllBusy(t) \/ StartOver(t) \/ DiscoverAndRetry(t) \/ CacheAssignment(t)
           \/ Respond(t) \/ DialFails(t) \/ Recache(t) \/ Uncache(t)
    PROVE HeldInv'
<1>1. /\ HandlerIsFirst(task[t]) /\ HandlerKnows(task[t]) /\ ~At(t, "idle")
      /\ UNCHANGED <<hash, callKey, hooks>>
  BY Knows, OnlyTaskSame, CallVarsSame
  DEF HeldInv, HandlersAreFirst, ClaimAllBusy, StartOver, DiscoverAndRetry, CacheAssignment, Respond,
      DialFails, Recache, Uncache, At, NoScript, redisVars
<1>2. CASE ClaimAllBusy(t) \/ StartOver(t) \/ DiscoverAndRetry(t)
  <2>1. PICK k : /\ Become(t, k) /\ k.pc \in {"claim", "noworker"} /\ k.call = task[t].call
    BY <1>2 DEF ClaimAllBusy, StartOver, DiscoverAndRetry, Snapshot, Again, Moved
  <2>2. task[t].pc \in {"claim", "backoff", "noworker"} /\ UNCHANGED phase
    BY <1>2, OnlyTaskSame, CallVarsSame DEF ClaimAllBusy, StartOver, DiscoverAndRetry, At
  <2>3. KeepsCover(t, k)
    BY <1>1, <2>1, <2>2 DEF KeepsCover, HandlerIsFirst, Unassigned, Renaming
  <2> QED BY <1>1, <2>1, <2>2, <2>3, PhasesStay, NoScriptHolds DEF Renaming
<1>3. CASE CacheAssignment(t)
  <2>1. PICK k : /\ Become(t, k) /\ k.pc = (IF task[t].call \in Outbound THEN "dial" ELSE "respond")
                 /\ k.call = task[t].call
    BY <1>3 DEF CacheAssignment, IsOutbound, Goto, GotoWith, Moved
  <2>2. task[t].pc = "cache" /\ UNCHANGED phase
    BY <1>3 DEF CacheAssignment, At
  <2>3. KeepsCover(t, k)
    BY <1>1, <2>1, <2>2 DEF KeepsCover, HandlerIsFirst, Unassigned, Renaming
  <2> QED BY <1>1, <2>1, <2>2, <2>3, PhasesStay, NoScriptHolds DEF Renaming
<1>4. CASE Respond(t) \/ Recache(t) \/ Uncache(t)
  <2>1. PICK k : Become(t, k) /\ k.pc = "idle"
    BY <1>4, IdleKnows DEF Respond, Recache, Uncache, Finish
  <2>2. task[t].pc \in {"respond", "recache", "uncache"} /\ UNCHANGED phase
    BY <1>4, OnlyTaskSame DEF Respond, Recache, Uncache, At
  <2>3. KeepsCover(t, k)
    BY <1>1, <2>1, <2>2 DEF KeepsCover, HandlerIsFirst, Unassigned, Renaming
  <2> QED BY <1>1, <2>1, <2>2, <2>3, PhasesStay, NoScriptHolds DEF Renaming
<1>5. CASE DialFails(t)
  <2>1. PICK k : Become(t, k) /\ k.pc = "lookup" /\ k.call = task[t].call
    BY <1>5 DEF DialFails, GotoWith, Moved
  <2>2. /\ task[t].pc = "dial" /\ phase[k.call] = "live" /\ k.call \in Call
        /\ phase' = [phase EXCEPT ![k.call] = "ended"]
    BY <1>1, <1>5, <2>1 DEF DialFails, At, HandlerKnows
  <2>3. KeepsCover(t, k)
    BY <1>1, <2>1, <2>2 DEF KeepsCover, HandlerIsFirst, Unassigned, Renaming
  <2>4. PhasesAdvance(k)
    BY <2>1, <2>2 DEF PhasesAdvance, Renaming, TypeOK, CallTypeOK
  <2> QED BY <1>1, <2>1, <2>3, <2>4, NoScriptHolds
<1> QED BY <1>2, <1>3, <1>4, <1>5

(* No worker could be claimed: the handler's reservation has none. *)
LEMMA GiveUpHolds ==
    ASSUME TypeOK, CallsAreHeld, HeldInv, NEW t \in Task, GiveUp(t)
    PROVE HeldInv'
<1>1. PICK k : Become(t, k) /\ k.pc = "idle"
  BY IdleKnows DEF GiveUp, Finish
<1>2. /\ task[t].pc \in {"noworker", "reject"} /\ HandlerIsFirst(task[t])
      /\ UNCHANGED <<hash, callKey, hooks>>
  BY DEF HeldInv, HandlersAreFirst, GiveUp, NoScript, redisVars
<1>3. Unheld(task[t].call)
  BY <1>2 DEF HandlerIsFirst, Unassigned
<1>4. KeepsCover(t, k)
  BY <1>1, <1>2 DEF KeepsCover, HandlerIsFirst, Unassigned, Renaming
<1>5. \A c \in Call : phase'[c] = phase[c] \/ (c = task[t].call /\ phase'[c] = "ended")
  BY DEF GiveUp, TypeOK, CallTypeOK
<1>6. PhasesAdvance(k)
  BY <1>1, <1>3, <1>5, Distinct DEF PhasesAdvance, Renaming
<1> QED BY <1>1, <1>2, <1>4, <1>6, NoScriptHolds

(* The provider gives the call its SID, and the reservation is renamed. *)
LEMMA DialHolds ==
    ASSUME TypeOK, CallsAreHeld, HeldInv, NEW t \in Task, Dial(t)
    PROVE HeldInv'
<1>1. PICK k, o, c : /\ Become(t, k) /\ k.pc = "find" /\ k.call = o /\ o = task[t].call
                     /\ c = SidOf[o] /\ phase' = [phase EXCEPT ![o] = "ended", ![c] = "live"]
  BY DEF Dial, Dialled, GotoWith, Moved
<1>2. /\ task[t].pc = "dial" /\ UNCHANGED <<hash, callKey, hooks>> /\ o \in Outbound
  BY <1>1, KnownOK DEF Dial, At, NoScript, redisVars, HasReservation
<1>3. phase[o] = "live" /\ phase[c] = "new" /\ o \in Call /\ c \in Call /\ c # o
      /\ \A p \in Outbound : p # c
  <2>1. phase[o] = "live"
    BY <1>1, <1>2, Knows DEF HandlerKnows
  <2> QED BY <1>1, <1>2, <2>1, Distinct DEF CallsAreHeld, ReservedFirst
<1>4. Unheld(c)
  BY <1>3 DEF HeldInv, HeldInTime
<1>5. KeepsCover(t, k)
  BY <1>1, <1>2, <1>3, <1>4 DEF KeepsCover, HandlerIsFirst, Unassigned, Renaming
<1>6. /\ phase'[o] = "ended" /\ phase'[c] = "live"
      /\ \A d \in Call : d # o /\ d # c => phase'[d] = phase[d]
  BY <1>1, <1>3 DEF TypeOK, CallTypeOK
<1>7. PhasesAdvance(k)
  BY <1>1, <1>3, <1>6, Distinct DEF PhasesAdvance, Renaming
<1> QED BY <1>1, <1>2, <1>5, <1>7, NoScriptHolds

(* A call's mapping finds its worker, so without one it has none. *)
LEMMA MissIsFree ==
    ASSUME TypeOK, HeldInv, NEW c \in Call, callKey[c] = NoWorker
    PROVE Unheld(c)
BY NamesAssumption DEF HeldInv, HeldOnce, Unheld

LEMMA FindHolds ==
    ASSUME Diligent, TypeOK, CallsAreHeld, HeldInv, NEW t \in Task,
           Find(t) \/ FindNone(t) \/ Lookup(t) \/ LookupAgain(t) \/ LookupGivesUp(t)
    PROVE HeldInv'
<1>1. UNCHANGED <<hash, callKey, hooks>> /\ UNCHANGED phase
  BY OnlyTaskSame DEF Find, FindNone, Lookup, LookupAgain, LookupGivesUp
<1>2. HandlerIsFirst(task[t])
  BY DEF HeldInv, HandlersAreFirst
<1>3. CASE Find(t)
  <2>1. PICK k : Become(t, k) /\ k.pc = "rekey" /\ k.call = task[t].call
    BY <1>3 DEF Find, GotoWith, Moved
  <2>2. KeepsCover(t, k)
    BY <1>2, <1>3, <2>1 DEF Find, At, KeepsCover, HandlerIsFirst, Unassigned, Renaming
  <2>3. phase[SidOf[k.call]] # "new"
    BY <1>3, <2>1 DEF Find, At, Renaming, HeldInv, HeldInTime
  <2> QED BY <1>1, <2>1, <2>2, <2>3, PhasesStay, NoScriptHolds
<1>4. CASE FindNone(t)
  <2>1. PICK k : Become(t, k) /\ k.pc = "idle"
    BY <1>4, IdleKnows DEF FindNone, Finish
  <2>2. task[t].pc = "find" /\ Unheld(task[t].call)
    BY <1>4, KnownOK, Diligence, MissIsFree DEF FindNone, At, HasCall, PC
  <2>3. KeepsCover(t, k)
    BY <2>1, <2>2 DEF KeepsCover, HandlerIsFirst, Unassigned, Renaming
  <2> QED BY <1>1, <2>1, <2>3, PhasesStay, NoScriptHolds DEF Renaming
<1>5. CASE Lookup(t) \/ LookupAgain(t)
  <2>1. PICK k : Become(t, k) /\ k.pc \in {"lookup", "release"} /\ k.call = task[t].call
    BY <1>5 DEF Lookup, LookupAgain, Retry, GotoWith, Moved, At
  <2>2. KeepsCover(t, k)
    BY <1>5, <2>1 DEF Lookup, LookupAgain, At, KeepsCover, HandlerIsFirst, Unassigned, Renaming
  <2> QED BY <1>1, <2>1, <2>2, PhasesStay, NoScriptHolds DEF Renaming
<1>6. CASE LookupGivesUp(t)
  <2>1. PICK k : Become(t, k) /\ k.pc = "idle"
    BY <1>6, IdleKnows DEF LookupGivesUp, Finish
  <2>2. /\ task[t].pc = "lookup" /\ callKey[task[t].call] = NoWorker /\ ~Settling(task[t].call)
    BY <1>6, Diligence DEF LookupGivesUp, LookupMiss, At
  <2>3. Unheld(task[t].call)
    BY <2>2, KnownOK, MissIsFree DEF HasCall, PC
  <2>4. KeepsCover(t, k)
    BY <2>1, <2>2, <2>3 DEF KeepsCover, HandlerIsFirst, Unassigned, Renaming
  <2> QED BY <1>1, <2>1, <2>4, PhasesStay, NoScriptHolds DEF Renaming
<1> QED BY <1>3, <1>4, <1>5, <1>6

(* A script makes a worker hold n, or makes one free.  Its handler goes on *)
(* as k, and its call e, if renamed or released, has no worker any more.    *)
LEMMA ScriptHolds ==
    ASSUME TypeOK, HeldInv, HeldOnce', NEW t \in Task, NEW k, NEW n, NEW e, Become(t, k),
           e = task[t].call, k.pc \in {"cache", "recache", "uncache"}, k.pc = "cache" => k.call \notin Sid,
           UNCHANGED <<phase, hooks>>,
           \A d \in Call : d # n /\ Unheld(d) => Unheld(d)',
           \A u \in Task : u # t => /\ task[u].pc \in Unassigned => task[u].call # n
                                    /\ task[u].pc \in Renaming => SidOf[task[u].call] # n,
           n \in Call => phase[n] # "new" /\ ~Releases(t),
           n \in ProviderCall => Settling(n),
           n \in Outbound => phase[n] # "ended",
           Releases(t) => ~Settling(e),
           task[t].pc \in Renaming \cup {"lookup", "release"} => Unheld(e)'
    PROVE HeldInv'
<1>1. task'[t] = k /\ \A u \in Task : u # t => task'[u] = task[u]
  BY DEF Become, TypeOK, TaskTypeOK
<1>2. k.pc \notin Unassigned \cup Renaming
  BY DEF Unassigned, Renaming
<1>3. HandlersAreFirst'
  <2> SUFFICES ASSUME NEW u \in Task, NEW j, j = task'[u] PROVE HandlerIsFirst(j)'
    <3>1. \A u \in Task : \A j : j = task'[u] => HandlerIsFirst(j)'
      OBVIOUS
    <3> QED BY <3>1 DEF HandlersAreFirst, HandlerIsFirst, Unheld
  <2>1. CASE u = t
    BY <1>1, <1>2, <2>1 DEF HandlerIsFirst, Unassigned
  <2>2. CASE u # t
    <3>1. j = task[u] /\ HandlerIsFirst(j)
      BY <1>1, <2>2 DEF HeldInv, HandlersAreFirst
    <3>2. /\ j.pc \in Unassigned => j.call \in Call
          /\ j.pc \in Renaming => SidOf[j.call] \in Call
      BY <3>1, KnownOK, Distinct DEF Unassigned, Renaming, HasCall, HasReservation, PC
    <3> QED BY <2>2, <3>1, <3>2 DEF HandlerIsFirst
  <2> QED BY <2>1, <2>2
<1>4. OneClaim'
  BY <1>1, <1>2 DEF HeldInv, OneClaim
<1>5. HeldInTime'
  BY <1>1, <1>2 DEF HeldInv, HeldInTime
<1>6. ASSUME NEW c \in ProviderCall PROVE CallIsCovered(c)'
  <2> SUFFICES ASSUME hooks[c] > 0
               PROVE \/ \E u \in Task : /\ task'[u].call = c
                                         /\ task'[u].pc \in {"lookup", "release"}
                     \/ Unheld(c)' /\ ~Settling(c)'
    BY DEF CallIsCovered, Releases
  <2>1. c \in Call
    BY Distinct
  <2>2. Settling(c)' => Settling(c)
    BY <1>1, <1>2 DEF Settling, Unassigned, Renaming
  <2>3. CASE Unheld(c) /\ ~Settling(c)
    <3>1. c # n
      BY <2>3
    <3> QED BY <2>1, <2>2, <2>3, <3>1
  <2>4. CASE ~(Unheld(c) /\ ~Settling(c))
    <3>1. PICK u \in Task : task[u].call = c /\ Releases(u)
      BY <2>4 DEF HeldInv, CallIsCovered
    <3>2. CASE u # t
      BY <1>1, <3>1, <3>2 DEF Releases
    <3>3. CASE u = t
      BY <2>2, <3>1, <3>3 DEF Releases
    <3> QED BY <3>2, <3>3
  <2> QED BY <2>3, <2>4
<1>7. ASSUME NEW o \in Outbound PROVE ReservationIsCovered(o)'
  <2> SUFFICES ASSUME phase[o] = "ended", ~Unheld(o)'
               PROVE \E u \in Task : task'[u].call = o
                           /\ task'[u].pc \in Renaming \cup {"lookup", "release"}
    BY DEF ReservationIsCovered
  <2>1. o \in Call /\ o # n
    BY Distinct
  <2>2. PICK u \in Task : task[u].call = o /\ task[u].pc \in Renaming \cup {"lookup", "release"}
    BY <2>1 DEF HeldInv, ReservationIsCovered
  <2>3. u # t
    BY <2>2
  <2> QED BY <1>1, <2>2, <2>3
<1> QED BY <1>3, <1>4, <1>5, <1>6, <1>7 DEF HeldInv

LEMMA ClaimHolds ==
    ASSUME TypeOK, CallsAreHeld, HeldInv, NEW t \in Task, Claim(t)
    PROVE HeldInv'
<1>1. PICK c, w, k :
        /\ c = task[t].call /\ k.pc = "cache" /\ k.call = c
        /\ w \in Worker /\ Claim1(task[t].cands, c, w) /\ Become(t, k)
  BY KnownOK DEF Claim, GotoWith, At, Moved
<1>2. /\ c \in Call /\ task[t].pc = "claim" /\ HandlerKnows(task[t]) /\ HandlerIsFirst(task[t])
      /\ UNCHANGED <<phase, hooks>>
  BY <1>1, Knows, KnownOK, CallVarsSame DEF Claim, At, HasCall, PC, HeldInv, HandlersAreFirst
<1>3. /\ hash \in [Worker -> Call \cup {NoCall}] /\ callKey \in [Call -> Worker \cup {NoWorker}]
      /\ hash' = [hash EXCEPT ![w] = c] /\ callKey' = [callKey EXCEPT ![c] = w]
  BY <1>1 DEF TypeOK, RedisTypeOK, Claim1, FindAndAssign
<1>4. Unheld(c) /\ c \notin Sid
  BY <1>1, <1>2 DEF HandlerIsFirst, Unassigned
<1>5. HeldOnce'
  <2> SUFFICES ASSUME NEW d \in Call, NEW v \in Worker, hash'[v] = d PROVE callKey'[d] = v
    BY DEF HeldOnce
  <2>1. CASE v = w
    BY <1>2, <1>3, <2>1
  <2>2. CASE v # w
    BY <1>2, <1>3, <1>4, <2>2 DEF HeldInv, HeldOnce, Unheld
  <2> QED BY <2>1, <2>2
<1>6. \A d \in Call : d # c /\ Unheld(d) => Unheld(d)'
  BY <1>1, <1>3 DEF Unheld
<1>7. ASSUME NEW u \in Task, u # t
      PROVE /\ task[u].pc \in Unassigned => task[u].call # c
            /\ task[u].pc \in Renaming => SidOf[task[u].call] # c
  <2>1. task[u].pc \in Unassigned => task[u].call # c
    BY <1>1, <1>2, <1>7 DEF HeldInv, OneClaim, Unassigned
  <2>2. task[u].pc \in Renaming => SidOf[task[u].call] # c
    BY <1>4, KnownOK, Distinct DEF HasReservation, Renaming
  <2> QED BY <2>1, <2>2
<1>8. /\ phase[c] # "new" /\ ~Releases(t) /\ Settling(c)
      /\ c \in Outbound => phase[c] # "ended"
  BY <1>1, <1>2 DEF HandlerKnows, Releases, Settling
<1> QED BY <1>1, <1>2, <1>4, <1>5, <1>6, <1>7, <1>8, ScriptHolds DEF Renaming

LEMMA RekeyHolds ==
    ASSUME Diligent, TypeOK, CallsAreHeld, HeldInv, NEW t \in Task, Rekey(t)
    PROVE HeldInv'
<1>1. PICK o, c, w, k :
        /\ o = task[t].call /\ c = SidOf[o] /\ w = task[t].worker
        /\ k.pc = "recache" /\ k.call = o /\ Become(t, k) /\ RunReassign(o, c, w)
  BY Diligence DEF Rekey, Goto, GotoWith, Moved
<1>2. /\ o \in Outbound /\ o \in Call /\ c \in Call /\ c \notin Outbound /\ c \in Sid /\ w \in Worker
      /\ task[t].pc = "rekey" /\ hash[w] = o /\ HandlerIsFirst(task[t])
      /\ UNCHANGED <<phase, hooks>>
  BY <1>1, Knows, KnownOK, Distinct, CallVarsSame
  DEF Rekey, At, HasCall, HasWorker, HasReservation, PC, HandlerKnows, HeldInv, HandlersAreFirst
<1>3. /\ hash \in [Worker -> Call \cup {NoCall}] /\ callKey \in [Call -> Worker \cup {NoWorker}]
      /\ hash' = [hash EXCEPT ![w] = c]
      /\ callKey' = [callKey EXCEPT ![o] = NoWorker, ![c] = w]
  BY <1>1 DEF TypeOK, RedisTypeOK, RunReassign, Reassign
<1>4. Unheld(c) /\ phase[c] # "new"
  BY <1>1, <1>2 DEF HandlerIsFirst, Renaming, HeldInv, HeldInTime
<1>5. \A v \in Worker : v # w => hash[v] # o
  BY <1>2 DEF HeldInv, HeldOnce
<1>6. HeldOnce'
  <2> SUFFICES ASSUME NEW d \in Call, NEW v \in Worker, hash'[v] = d PROVE callKey'[d] = v
    BY DEF HeldOnce
  <2>1. CASE v = w
    BY <1>2, <1>3, <2>1
  <2>2. CASE v # w
    <3>1. hash[v] = d /\ d # c /\ d # o
      BY <1>3, <1>4, <1>5, <2>2 DEF Unheld
    <3> QED BY <1>2, <1>3, <3>1 DEF HeldInv, HeldOnce
  <2> QED BY <2>1, <2>2
<1>7. \A d \in Call : d # c /\ Unheld(d) => Unheld(d)'
  BY <1>3 DEF Unheld
<1>8. Unheld(o)'
  BY <1>2, <1>3, <1>5 DEF Unheld
<1>9. ASSUME NEW u \in Task, u # t
      PROVE /\ task[u].pc \in Unassigned => task[u].call # c
            /\ task[u].pc \in Renaming => SidOf[task[u].call] # c
  <2>1. task[u].pc \in Unassigned => task[u].call # c
    BY <1>2 DEF HeldInv, HandlersAreFirst, HandlerIsFirst
  <2>2. ASSUME task[u].pc \in Renaming PROVE SidOf[task[u].call] # c
    <3>1. task[u].call \in Outbound /\ ~At(u, "idle") /\ ~At(t, "idle")
      BY <1>2, <2>2, KnownOK DEF HasReservation, Renaming, At
    <3>2. task[u].call # o
      BY <1>1, <1>2, <1>9, <3>1 DEF CallsAreHeld, OneHandler
    <3> QED BY <1>1, <1>2, <3>1, <3>2, Distinct
  <2> QED BY <2>1, <2>2
<1>10. ~Releases(t) /\ Settling(c)
  BY <1>1, <1>2 DEF Releases, Settling
<1> QED BY <1>1, <1>2, <1>4, <1>6, <1>7, <1>8, <1>9, <1>10, ScriptHolds

LEMMA ReleaseHolds ==
    ASSUME Diligent, TypeOK, CallsAreHeld, HeldInv, NEW t \in Task, Release(t)
    PROVE HeldInv'
<1>1. PICK c, w, k :
        /\ c = task[t].call /\ w = task[t].worker
        /\ k.pc = "uncache" /\ k.call = c /\ Become(t, k) /\ RunRelease(w, c)
  BY Diligence DEF Release, Goto, GotoWith, Moved
<1>2. /\ c \in Call /\ w \in Worker /\ task[t].pc = "release" /\ hash[w] = c
      /\ UNCHANGED <<phase, hooks>>
  BY <1>1, Knows, KnownOK, CallVarsSame DEF Release, At, HasCall, HasWorker, PC, HandlerKnows
<1>3. /\ hash \in [Worker -> Call \cup {NoCall}] /\ callKey \in [Call -> Worker \cup {NoWorker}]
      /\ hash' = [hash EXCEPT ![w] = NoCall]
      /\ callKey' = [callKey EXCEPT ![c] = NoWorker]
  BY <1>1 DEF TypeOK, RedisTypeOK, RunRelease, ReleaseAssignment
<1>4. \A v \in Worker : v # w => hash[v] # c
  BY <1>2 DEF HeldInv, HeldOnce
<1>5. HeldOnce'
  <2> SUFFICES ASSUME NEW d \in Call, NEW v \in Worker, hash'[v] = d PROVE callKey'[d] = v
    BY DEF HeldOnce
  <2>1. v # w /\ hash[v] = d /\ d # c
    BY <1>2, <1>3, <1>4, NamesAssumption
  <2> QED BY <1>2, <1>3, <2>1 DEF HeldInv, HeldOnce
<1>6. \A d \in Call : Unheld(d) => Unheld(d)'
  BY <1>3, NamesAssumption DEF Unheld
<1>7. Unheld(c)'
  BY <1>2, <1>3, <1>4, NamesAssumption DEF Unheld
<1>8. ~Settling(c)
  BY <1>2 DEF Settling, HeldInv, HandlersAreFirst, HandlerIsFirst, Unheld, Unassigned, Renaming
<1>9. PICK n : n = NoCall
  OBVIOUS
<1>10. n \notin Call /\ n \notin Outbound /\ n \notin ProviderCall
  BY <1>9, Distinct
<1>11. \A u \in Task : u # t => /\ task[u].pc \in Unassigned => task[u].call # n
                                /\ task[u].pc \in Renaming => SidOf[task[u].call] # n
  BY <1>10, KnownOK, Distinct DEF Unassigned, Renaming, HasCall, HasReservation, PC
<1> QED BY <1>1, <1>2, <1>5, <1>6, <1>7, <1>8, <1>10, <1>11, ScriptHolds

LEMMA StepHolds ==
    ASSUME Diligent, TypeOK, PoolIsSettled, CallsAreHeld, HeldInv, NEW t \in Task, Step(t)
    PROVE HeldInv'
<1>1. HandlerKnows(task[t]) /\ HandlerIsFirst(task[t])
  BY Knows DEF HeldInv, HandlersAreFirst
<1>2. ~ClaimLost(t) /\ ~RespondFails(t) /\ ~DialLost(t) /\ ~ScriptError(t) /\ ~AdminScript(t)
  BY <1>1, Diligence DEF ClaimLost, RespondFails, DialLost, ScriptError, AdminScript, At, HandlerKnows
<1>3. ~LookedUp(t) /\ ~LookedUpAfterDiscovery(t) /\ ~LookedUpNone(t)
  BY <1>1 DEF LookedUp, LookedUpAfterDiscovery, LookedUpNone, At, HandlerIsFirst
<1>4. ~CacheMissing(t)
  <2>1. ASSUME At(t, "cache") PROVE task[t].worker \in Worker /\ task[t].runner \in Runner
    BY <2>1, KnownOK DEF At, HasWorker
  <2> QED BY <2>1 DEF CacheMissing, PoolIsSettled
<1> QED BY <1>2, <1>3, <1>4, AwaitHolds, GiveUpHolds, DialHolds, FindHolds, ClaimHolds, RekeyHolds,
           ReleaseHolds
    DEF Step

LEMMA NewCallHolds ==
    ASSUME TypeOK, CallsAreHeld, HeldInv, NEW t \in Task, NEW r \in Runner, NEW c \in Call,
           NewCall(t, r, c)
    PROVE HeldInv'
<1>1. PICK k : Become(t, k) /\ k.pc \in {"claim", "noworker"} /\ k.call = c
  BY DEF NewCall, Snapshot, Handler, HandlerWith, Moved
<1>2. /\ task[t].pc = "idle" /\ phase[c] = "new" /\ phase' = [phase EXCEPT ![c] = "live"]
      /\ c \notin Sid /\ UNCHANGED <<hash, callKey, hooks>>
  BY Distinct, PoolAssumption DEF NewCall, At, NoScript, redisVars
<1>3. Unheld(c)
  BY <1>2 DEF HeldInv, HeldInTime
<1>4. KeepsCover(t, k)
  BY <1>1, <1>2, <1>3 DEF KeepsCover, HandlerIsFirst, Unassigned, Renaming
<1>5. phase'[c] = "live" /\ \A d \in Call : d # c => phase'[d] = phase[d]
  BY <1>2 DEF TypeOK, CallTypeOK
<1>6. PhasesAdvance(k)
  BY <1>1, <1>2, <1>5, Distinct DEF PhasesAdvance, Renaming
<1> QED BY <1>1, <1>2, <1>4, <1>6, NoScriptHolds

LEMMA TerminalHookHolds ==
    ASSUME TypeOK, HeldInv, NEW t \in Task, NEW r \in Runner, NEW c \in Call,
           TerminalHook(t, r, c)
    PROVE HeldInv'
<1>1. PICK k : Become(t, k) /\ k.pc = "lookup" /\ k.call = c
  BY DEF TerminalHook, Handler, HandlerWith
<1>2. task'[t] = k /\ \A u \in Task : u # t => task'[u] = task[u]
  BY <1>1 DEF Become, TypeOK, TaskTypeOK
<1>3. /\ task[t].pc = "idle" /\ phase[c] = "ended" /\ UNCHANGED <<hash, callKey, phase>>
      /\ \A d \in Call : d # c => hooks'[d] = hooks[d]
  BY DEF TerminalHook, At, NoScript, redisVars, TypeOK, CallTypeOK
<1>4. k.pc \notin Unassigned \cup Renaming \cup {"getw", "cache", "respond"}
  BY <1>1 DEF Unassigned, Renaming
<1>5. HeldOnce' /\ OneClaim'
  BY <1>2, <1>3, <1>4 DEF HeldInv, HeldOnce, OneClaim
<1>6. HandlersAreFirst'
  <2>1. \A u \in Task : \A j : j = task'[u] => HandlerIsFirst(j)
    BY <1>2, <1>4 DEF HeldInv, HandlersAreFirst, HandlerIsFirst
  <2> QED BY <1>3, <2>1 DEF HandlersAreFirst, HandlerIsFirst, Unheld
<1>7. HeldInTime'
  BY <1>2, <1>3, <1>4 DEF HeldInv, HeldInTime, Unheld
<1>8. ASSUME NEW d \in ProviderCall PROVE CallIsCovered(d)'
  <2> SUFFICES ASSUME hooks'[d] > 0
               PROVE \/ \E u \in Task : /\ task'[u].call = d
                                         /\ task'[u].pc \in {"lookup", "release"}
                     \/ Unheld(d)' /\ ~Settling(d)'
    BY DEF CallIsCovered, Releases
  <2>1. CASE d = c
    BY <1>1, <1>2, <2>1
  <2>2. CASE d # c
    <3>1. d \in Call /\ hooks[d] > 0
      BY <1>3, <2>2, Distinct
    <3>2. Settling(d)' => Settling(d)
      BY <1>2, <1>4 DEF Settling, Unassigned, Renaming
    <3>3. CASE Unheld(d) /\ ~Settling(d)
      BY <1>3, <3>2, <3>3 DEF Unheld
    <3>4. ASSUME NEW u \in Task, task[u].call = d, Releases(u) PROVE task'[u] = task[u]
      BY <1>2, <1>3, <3>4 DEF Releases
    <3> QED BY <3>1, <3>3, <3>4 DEF HeldInv, CallIsCovered, Releases
  <2> QED BY <2>1, <2>2
<1>9. ASSUME NEW o \in Outbound PROVE ReservationIsCovered(o)'
  <2>1. ASSUME NEW u \in Task, task[u].pc \in Renaming \cup {"lookup", "release"}
        PROVE task'[u] = task[u]
    BY <1>2, <1>3, <2>1 DEF Renaming
  <2> QED BY <1>3, <2>1 DEF HeldInv, ReservationIsCovered, Unheld
<1> QED BY <1>5, <1>6, <1>7, <1>8, <1>9 DEF HeldInv

LEMMA RequestHolds ==
    ASSUME Diligent, TypeOK, CallsAreHeld, HeldInv, NEW t \in Task, NEW r \in Runner,
           Request(t, r)
    PROVE HeldInv'
BY Diligence, NewCallHolds, TerminalHookHolds DEF Request, AnsweredCall, AdminRelease

(* The phases of provider calls move on and no handler takes a step. *)
LEMMA WorldHolds ==
    ASSUME TypeOK, HeldInv, UNCHANGED <<hash, callKey, hooks, task>>,
           \A c \in Call : /\ phase'[c] = "new" => phase[c] = "new"
                           /\ phase[c] = "ended" => phase'[c] = "ended",
           \A o \in Outbound : phase'[o] = phase[o]
    PROVE HeldInv'
<1>1. HeldOnce' /\ HandlersAreFirst' /\ OneClaim'
  BY DEF HeldInv, HeldOnce, HandlersAreFirst, HandlerIsFirst, OneClaim, Unheld
<1>2. \A t \in Task : task[t].pc \in Renaming => SidOf[task[t].call] \in Call
  BY KnownOK, Distinct DEF Renaming, HasReservation
<1>3. HeldInTime'
  BY <1>2 DEF HeldInv, HeldInTime, Unheld
<1>4. \A c \in ProviderCall : CallIsCovered(c)'
  BY DEF HeldInv, CallIsCovered, Unheld, Settling, Releases
<1>5. \A o \in Outbound : ReservationIsCovered(o)'
  BY DEF HeldInv, ReservationIsCovered, Unheld
<1> QED BY <1>1, <1>3, <1>4, <1>5 DEF HeldInv

LEMMA LeavingHolds ==
    ASSUME TypeOK, CallsAreHeld, HeldInv, NEW cs, phase' = AfterLeaving(cs),
           UNCHANGED <<hash, callKey, hooks, task>>
    PROVE HeldInv'
<1>1. \A c \in Call : phase'[c] = phase[c] \/ (phase[c] = "joined" /\ phase'[c] = "left")
  <2>1. \A c \in Call : phase'[c] = IF c \in cs /\ phase[c] = "joined" THEN "left" ELSE phase[c]
    BY DEF AfterLeaving
  <2> QED BY <2>1
<1>2. \A o \in Outbound : phase'[o] = phase[o]
  BY <1>1, Distinct DEF CallsAreHeld, ReservedFirst
<1> QED BY <1>1, <1>2, WorldHolds

LEMMA EnvironmentHolds ==
    ASSUME TypeOK, CallsAreHeld, HeldInv, Environment
    PROVE HeldInv'
<1>1. ASSUME NEW c \in Call, Join(c) \/ HangUp(c) PROVE HeldInv'
  <2>1. /\ c \in ProviderCall /\ c \notin Outbound /\ phase[c] \notin {"new", "ended"}
        /\ UNCHANGED <<hash, callKey, hooks, task>>
    BY <1>1, Distinct DEF Join, HangUp, NoScript, redisVars, Live
  <2>2. phase'[c] # "new" /\ \A d \in Call : d # c => phase'[d] = phase[d]
    BY <1>1 DEF Join, HangUp, TypeOK, CallTypeOK
  <2> QED BY <2>1, <2>2, WorldHolds, Distinct
<1>2. ASSUME NEW w \in Worker, NEW c \in Call, Leave(w, c) PROVE HeldInv'
  BY <1>2, LeavingHolds DEF Leave, NoScript, redisVars
<1>3. ASSUME NEW w \in Worker, Crash(w) PROVE HeldInv'
  BY <1>3, LeavingHolds DEF Crash, NoScript, redisVars
<1>4. ASSUME NEW w \in Worker, ScaleDown(w) \/ ScaleUp(w) PROVE HeldInv'
  BY <1>4, CallVarsSame, SameHolds DEF ScaleDown, ScaleUp, NoScript, redisVars
<1>5. ASSUME NEW w \in Worker, NEW c \in Call, PrewarmExpires(w, c) PROVE HeldInv'
  BY <1>5, CallVarsSame, SameHolds DEF PrewarmExpires, NoScript, redisVars
<1>6. ASSUME NEW p \in posts, PrewarmArrives(p) PROVE HeldInv'
  BY <1>6, CallVarsSame, SameHolds DEF PrewarmArrives, NoScript, redisVars
<1> QED BY <1>1, <1>2, <1>3, <1>4, <1>5, <1>6 DEF Environment

LEMMA BackgroundHolds ==
    ASSUME Diligent, HeldInv, NEW r \in Runner, Background(r)
    PROVE HeldInv'
<1>1. ~Restart(r)
  BY Diligence DEF Restart
<1>2. UNCHANGED <<hash, callKey, task>> /\ UNCHANGED envVars
  BY <1>1 DEF Background, ProbeAnswered, ProbeRead, ProbeFails, Age, DrainCheck, DrainDelete,
              ReapRead, ReapApply, Discover, NoScript, redisVars
<1> QED BY <1>2, CallVarsSame, SameHolds

LEMMA NextHolds == Diligent /\ TypeOK /\ TenancyInv /\ HeldInv /\ [Next]_vars => HeldInv'
<1> SUFFICES ASSUME Diligent, TypeOK, PoolIsSettled, CallsAreHeld, HeldInv, [Next]_vars
             PROVE HeldInv'
  BY DEF TenancyInv
<1>1. ASSUME NEW s \in stray PROVE FALSE
  BY <1>1 DEF PoolIsSettled
<1>2. CASE UNCHANGED vars
  BY <1>2, SameHolds DEF vars, redisVars, envVars, callVars
<1> QED BY <1>1, <1>2, StepHolds, RequestHolds, BackgroundHolds, EnvironmentHolds DEF Next

LEMMA InitHolds == Init => HeldInv
<1> SUFFICES ASSUME Init PROVE HeldInv
  OBVIOUS
<1>1. /\ \A t \in Task : task[t].pc = "idle"
      /\ \A w \in Worker : hash[w] = NoCall
      /\ \A c \in Call : hooks[c] = 0 /\ phase[c] = "new"
  BY IdleKnows DEF Init, RedisInit
<1>2. HeldOnce /\ HandlersAreFirst /\ OneClaim
  BY <1>1, NamesAssumption
  DEF HeldOnce, HandlersAreFirst, HandlerIsFirst, OneClaim, Unassigned, Renaming
<1>3. HeldInTime
  BY <1>1, NamesAssumption DEF HeldInTime, Unheld, Renaming
<1>4. /\ \A c \in ProviderCall : CallIsCovered(c)
      /\ \A o \in Outbound : ReservationIsCovered(o)
  BY <1>1, Distinct DEF CallIsCovered, ReservationIsCovered
<1> QED BY <1>2, <1>3, <1>4 DEF HeldInv

(* A diligent deployment keeps HeldInv. *)
THEOREM HeldIsInvariant ==
    ASSUME Diligent
    PROVE Spec => []HeldInv
<1>1. Calm
  BY Diligence
<1>2. Init => HeldInv
  BY InitHolds
<1>3. TypeOK /\ TenancyInv /\ HeldInv /\ [Next]_vars => HeldInv'
  BY NextHolds
<1> QED BY <1>1, <1>2, <1>3, TenancyIsInvariant, TypeCorrect, PTL DEF Spec

LEMMA CoveredIsNotStranded == HeldInv => NoStrandedWorker
<1> SUFFICES ASSUME HeldInv PROVE NoStrandedWorker
  OBVIOUS
<1>1. ASSUME NEW c \in ProviderCall, Settled(c) PROVE Unheld(c)
  BY <1>1 DEF HeldInv, CallIsCovered, Settled, Quiet
<1>2. ASSUME NEW o \in Outbound, phase[o] = "ended", Quiet(o) PROVE Unheld(o)
  BY <1>2 DEF HeldInv, ReservationIsCovered, Quiet
<1> QED BY <1>1, <1>2 DEF NoStrandedWorker, Unheld

(* No worker is stranded: in a diligent deployment, once the status webhook *)
(* of a call has been handled no worker is held for it, and none is held    *)
(* for a reservation that is over, however the webhooks, the claims and the *)
(* renaming of reservations interleave on the runners.                      *)
THEOREM WorkersAreNotStranded ==
    ASSUME Diligent
    PROVE Spec => []NoStrandedWorker
<1>1. HeldInv => NoStrandedWorker
  BY CoveredIsNotStranded
<1> QED BY <1>1, HeldIsInvariant, PTL

=============================================================================
