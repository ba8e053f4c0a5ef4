------------------------- MODULE WorkerPoolTenancy -------------------------
(***************************************************************************)
(* The inductive invariants behind the properties of WorkerPool:           *)
(* TenancyInv for single tenancy, HeldInv for NoStrandedWorker, ReportInv  *)
(* for CallIsReported, each with the conditions under which it is kept.    *)
(***************************************************************************)
EXTENDS WorkerPool

-----------------------------------------------------------------------------
(* Why no two live calls share a worker, as long as every call ends with   *)
(* one status webhook, no worker is probed, removed or released by hand,   *)
(* and no request takes effect without its reply.                          *)

Calm == MaxHooks <= 1 /\ Behaviour \subseteq {"error", "restart", "reap", "prewarm", "crash"}

(* The pools keep every worker, and nothing releases behind a call's back. *)
PoolIsSettled ==
    /\ up = Worker /\ stray = {}
    /\ pool = [r \in Runner |-> Worker]
    /\ drain = [r \in Runner |-> {}] /\ gone = [r \in Runner |-> {}]
    /\ probe = [r \in Runner |-> [w \in Worker |-> NoProbe]]

(* The reverse mapping names a worker whose hash holds the call. *)
MappingAgrees == \A c \in Call : callKey[c] # NoWorker => hash[callKey[c]] = c

(* An outbound call exists only once its reservation is over. *)
ReservedFirst ==
    \A o \in Outbound :
        /\ phase[o] \in {"new", "live", "ended"}
        /\ phase[o] # "ended" => phase[SidOf[o]] = "new"

(* The worker whose URL a live call was given is held for it, or still for *)
(* its reservation.                                                        *)
RoutedIsHeld ==
    \A c \in Call :
        /\ phase[c] = "new" => routed[c] = NoWorker
        /\ Live(c) /\ routed[c] # NoWorker =>
              hash[routed[c]] = c \/ \E o \in Outbound : hash[routed[c]] = o /\ SidOf[o] = c

(* What a handler may rely on at the await it is suspended at. *)
HandlerKnows(k) ==
    /\ k.pc # "admin"
    /\ k.pc # "idle" => k.call \in Call /\ phase[k.call] # "new"
    /\ k.pc \in {"getw", "respond"} => k.call \notin Outbound
    /\ k.pc \in {"claim", "backoff", "cache", "noworker", "reject"} /\ k.call \in Outbound
          => phase[k.call] = "live"
    /\ k.pc \in {"cache", "respond"} /\ Live(k.call) => hash[k.worker] = k.call
    /\ k.pc = "dial" => phase[k.call] = "live" /\ hash[k.worker] = k.call
    /\ k.pc \in {"find", "rekey", "recache", "lookup", "release"} => phase[k.call] = "ended"
    /\ k.pc \in {"rekey", "release"} => hash[k.worker] = k.call
    /\ k.pc \in {"lookup", "release"} =>
          IF k.call \in Outbound THEN phase[SidOf[k.call]] = "new" ELSE hooks[k.call] = 1

Releases(t) == task[t].pc \in {"lookup", "release"}

(* One handler per reservation, one release per call. *)
OneHandler ==
    \A t, u \in Task :
        /\ task[t].call = task[u].call
        /\ \/ task[t].call \in Outbound /\ ~At(t, "idle") /\ ~At(u, "idle")
           \/ Releases(t) /\ Releases(u)
        => t = u

HandlersKnow == \A t \in Task : HandlerKnows(task[t])

CallsAreHeld ==
    MappingAgrees /\ ReservedFirst /\ RoutedIsHeld /\ HandlersKnow /\ OneHandler

TenancyInv == PoolIsSettled /\ CallsAreHeld

-----------------------------------------------------------------------------
(* Why no worker is stranded, in a deployment where moreover nothing       *)
(* fails, runners keep running, the release of a call outwaits its         *)
(* assignment, and workers are given out when a call is dialled.           *)

Diligent ==
    /\ MaxHooks <= 1 /\ Behaviour \subseteq {"reap", "prewarm", "crash"}
    /\ Timely /\ AskOnAnswer = {}

(* No worker is held under c. *)
Unheld(c) == \A w \in Worker : hash[w] # c

(* The handler has not claimed a worker yet. *)
Unassigned == {"claim", "backoff", "noworker", "reject"}
Renaming == {"find", "rekey"}

(* The mapping of a call finds the one worker that is held for it. *)
HeldOnce == \A c \in Call, w \in Worker : hash[w] = c => callKey[c] = w

(* A handler that has yet to claim or rename a worker for a call is the    *)
(* first to do so.                                                         *)
HandlerIsFirst(k) ==
    /\ k.pc # "getw"
    /\ k.pc \in Unassigned \cup {"cache", "respond"} => k.call \notin Sid
    /\ k.pc \in Unassigned => Unheld(k.call)
    /\ k.pc \in Renaming => Unheld(SidOf[k.call])

HandlersAreFirst == \A t \in Task : HandlerIsFirst(task[t])

OneClaim ==
    \A t, u \in Task : /\ task[t].call = task[u].call
                       /\ task[t].pc \in Unassigned /\ task[u].pc \in Unassigned
                       => t = u

(* Calls are held only after they began, and released after they ended. *)
HeldInTime ==
    /\ \A c \in Call : /\ phase[c] = "new" => Unheld(c)
                       /\ hooks[c] > 0 => phase[c] = "ended"
    /\ \A t \in Task : task[t].pc \in Renaming => phase[SidOf[task[t].call]] # "new"

(* A call whose status webhook has arrived is being released, or it has    *)
(* no worker and will not get one; a reservation that is over is being     *)
(* renamed or released, or it has no worker.                               *)
CallIsCovered(c) ==
    hooks[c] > 0 => \/ \E t \in Task : task[t].call = c /\ Releases(t)
                    \/ Unheld(c) /\ ~Settling(c)

ReservationIsCovered(o) ==
    phase[o] = "ended" =>
        \/ \E t \in Task : task[t].call = o /\ task[t].pc \in Renaming \cup {"lookup", "release"}
        \/ Unheld(o)

HeldInv ==
    /\ HeldOnce /\ HandlersAreFirst /\ OneClaim /\ HeldInTime
    /\ \A c \in ProviderCall : CallIsCovered(c)
    /\ \A o \in Outbound : ReservationIsCovered(o)

-----------------------------------------------------------------------------
(* Why a worker reports the call it is connected to, whatever fails on the *)
(* runners, as long as no two calls are connected to it at once and only   *)
(* the end of a call makes a runner release its worker.                    *)

Undisturbed == Behaviour \cap {"admin", "handler"} = {}

OneConnection == \A w \in Worker : \A c, d \in onair[w] : c = d

(* The awaits at which a reservation has not been dialled yet. *)
Undialled == {"claim", "backoff", "cache", "noworker", "reject", "dial"}

(* A handler releases the worker of an ended call only. *)
HandlerWaits(k) ==
    /\ k.pc # "admin"
    /\ k.pc # "idle" => k.call \in Call /\ phase[k.call] # "new"
    /\ k.pc = "getw" => k.call \notin Outbound
    /\ k.pc \in Undialled /\ k.call \in Outbound => phase[k.call] # "ended"
    /\ k.pc \in {"lookup", "release", "uncache"} /\ k.call \in ProviderCall
          => phase[k.call] = "ended"

HandlersWait == \A t \in Task : HandlerWaits(task[t])

OneReservation ==
    \A t, u \in Task : /\ task[t].call = task[u].call /\ task[t].call \in Outbound
                       /\ ~At(t, "idle") /\ ~At(u, "idle")
                       => t = u

NamedAfterwards == \A o \in Outbound : phase[o] # "ended" => phase[SidOf[o]] = "new"

(* No request on its way takes its name from a call that is connected. *)
PostIsHarmless(p) ==
    /\ p.kind = "reassign" => p.call \in Outbound
    /\ p.kind = "cancel" /\ p.call \in ProviderCall => phase[p.call] = "ended"

PostsAreHarmless == \A p \in posts : PostIsHarmless(p)

(* Only the calls of a provider connect, and a call connects once. *)
Early == {"new", "live", "answered"}
OnAirHasJoined ==
    \A w \in Worker : \A c \in onair[w] : c \in ProviderCall /\ phase[c] \notin Early

ReportInv ==
    /\ CallIsReported /\ OnAirHasJoined
    /\ HandlersWait /\ OneReservation /\ NamedAfterwards /\ PostsAreHarmless
=============================================================================
