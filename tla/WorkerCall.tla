----------------------------- MODULE WorkerCall -----------------------------
(***************************************************************************)
(* One worker process: its media connections (_handle_call) and the        *)
(* services it prewarms for them (app/worker/main.py, prewarm.py, state.py *)
(* and services.py).  WorkerProcess is what the runners see of it.         *)
(*                                                                         *)
(* The process is a single asyncio loop and the blocks under its two locks *)
(* await nothing: what runs between two awaits is one step.                *)
(***************************************************************************)
EXTENDS Names

CONSTANTS
    This,       \* the worker
    Handler,    \* the media connections, each served by one _handle_call
    SidOf,      \* SidOf[h]: the SID in the first message of connection h
    Request,    \* prewarm requests the runners send, each at most once
    NoHandler, NoEntry,
    Behaviour   \* optional behaviours: "stray", a connection whose first
                \* message is missing or cannot be parsed

Sids == {SidOf[h] : h \in Handler}

(* A call has one media connection.  The runners re-key the UUID that an    *)
(* outbound call was reserved under, and no connection presents that.       *)
ASSUME WorkerCallAssumption ==
    /\ This \in Worker
    /\ SidOf \in [Handler -> Call]
    /\ \A g, h \in Handler : SidOf[g] = SidOf[h] => g = h
    /\ NoHandler \notin Handler /\ NoEntry \notin Call
    /\ Request \subseteq
          [kind : {"prewarm", "cancel"}, worker : {This}, call : Call, to : {NoCall}]
          \cup [kind : {"reassign"}, worker : {This}, call : Call \ Sids, to : Call]
    /\ Behaviour \subseteq {"stray"}

VARIABLES
    current,    \* worker_state.current_call_sid
    available,  \* worker_state.is_available
    active,     \* worker_state.active_task, as the connection whose task it is
    cache,      \* prewarm_cache._entries
    entry,      \* entry[c]: the PrewarmEntry made for the prewarm request of
                \* call c, with its task and its two connections
    closers,    \* entries with a _close_prewarm_services task
    handler,    \* the _handle_call coroutines
    posts       \* prewarm requests that have not arrived

vars == <<current, available, active, cache, entry, closers, handler, posts>>
stateVars == <<current, available, active>>
Entry == Call

Fill == {"unused", "config", "warming", "closing", "done"}
Socket == {"none", "opening", "open", "closed"}
At == {"new", "stray", "waiting", "config", "building", "running",
       "ending", "broken", "done"}

NewEntry == [fill |-> "unused", ready |-> FALSE, cancelled |-> FALSE,
             stt |-> "none", tts |-> "none"]

Init ==
    /\ current = NoCall /\ available = TRUE /\ active = NoHandler
    /\ cache = [c \in Call |-> NoEntry]
    /\ entry = [e \in Entry |-> NewEntry]
    /\ closers = {}
    /\ handler = [h \in Handler |-> [at |-> "new", uses |-> NoEntry]]
    /\ posts = Request

At1(h, at, e) == handler' = [handler EXCEPT ![h] = [at |-> at, uses |-> e]]

-----------------------------------------------------------------------------
(* Prewarm entries. *)

Filling(e) == entry[e].fill \in {"config", "warming", "closing"}

(* task.cancel() and what the CancelledError handler of _fill_prewarm does  *)
(* up to its first await: connection attempts are abandoned, what is open   *)
(* will be closed.  A second cancel interrupts the closing.                 *)
Cancelled(x) ==
    LET dropped(s) == IF s = "opening" THEN "none" ELSE s IN
    [x EXCEPT !.cancelled = TRUE,
              !.fill = IF x.fill = "warming" THEN "closing" ELSE "done",
              !.stt = dropped(x.stt), !.tts = dropped(x.tts)]

(* A mutant of Discard: it leaves the closing to the task, even to one that *)
(* is done.                                                                 *)
DiscardOnly(es) ==
    /\ entry' = [e \in Entry |-> IF e \notin es THEN entry[e]
                                 ELSE IF Filling(e) THEN Cancelled(entry[e])
                                 ELSE [entry[e] EXCEPT !.cancelled = TRUE]]
    /\ UNCHANGED closers

(* What DELETE and the expiry do to an entry they took from the cache. *)
Discard(es) ==
    /\ entry' = [e \in Entry |-> IF e \notin es THEN entry[e]
                                 ELSE IF Filling(e) THEN Cancelled(entry[e])
                                 ELSE [entry[e] EXCEPT !.cancelled = TRUE]]
    /\ closers' = closers \cup {e \in es : ~Filling(e) /\ entry[e].ready}

(* _fill_prewarm: nothing is found or something raises, or the services are *)
(* created and both connect.                                                *)
FillConfig(e) ==
    /\ entry[e].fill = "config"
    /\ \/ entry' = [entry EXCEPT ![e].fill = "done"]
       \/ entry' = [entry EXCEPT ![e] = [@ EXCEPT !.fill = "warming",
                                                  !.stt = "opening", !.tts = "opening"]]
    /\ UNCHANGED <<stateVars, cache, closers, handler, posts>>

(* A mutant of Warmed: one connection is enough. *)
WarmedIfAny(x) ==
    IF "opening" \in {x.stt, x.tts} THEN x
    ELSE [x EXCEPT !.fill = "done", !.ready = (x.stt = "open" \/ x.tts = "open")]

(* prewarm() of one service returns whether it is connected; the second one *)
(* ends the gather and the task.  If only one of the two is connected, the  *)
(* entry is never ready, and nobody closes that one.                        *)
Warmed(x) ==
    IF "opening" \in {x.stt, x.tts} THEN x
    ELSE [x EXCEPT !.fill = "done", !.ready = (x.stt = "open" /\ x.tts = "open")]

ServicePrewarmed(e) ==
    /\ entry[e].fill = "warming"
    /\ \E s \in {"open", "none"} :
          \/ /\ entry[e].stt = "opening"
             /\ entry' = [entry EXCEPT ![e] = Warmed([@ EXCEPT !.stt = s])]
          \/ /\ entry[e].tts = "opening"
             /\ entry' = [entry EXCEPT ![e] = Warmed([@ EXCEPT !.tts = s])]
    /\ UNCHANGED <<stateVars, cache, closers, handler, posts>>

ClosedSocket(s) == IF s = "open" THEN "closed" ELSE s

(* The CancelledError handler: close_prewarm() of one service, then the other. *)
ClosedNext(x) ==
    IF x.stt = "open" THEN [x EXCEPT !.stt = "closed"]
    ELSE [x EXCEPT !.tts = ClosedSocket(x.tts), !.fill = "done"]

CloseCancelled(e) ==
    /\ entry[e].fill = "closing"
    /\ entry' = [entry EXCEPT ![e] = ClosedNext(@)]
    /\ UNCHANGED <<stateVars, cache, closers, handler, posts>>

BothClosed(x) == [x EXCEPT !.stt = ClosedSocket(x.stt), !.tts = ClosedSocket(x.tts)]

(* A task created for _close_prewarm_services. *)
Close(e) ==
    /\ e \in closers
    /\ closers' = closers \ {e}
    /\ entry' = [entry EXCEPT ![e] = BothClosed(@)]
    /\ UNCHANGED <<stateVars, cache, handler, posts>>

(* _prewarm_ttl_cleanup: the entry goes, the seed stays. *)
Expire(c) ==
    /\ cache[c] # NoEntry
    /\ cache' = [cache EXCEPT ![c] = NoEntry]
    /\ Discard({cache[c]})
    /\ UNCHANGED <<stateVars, handler, posts>>

-----------------------------------------------------------------------------
(* The management endpoints.  A request that waits for the entry's task     *)
(* only reads what it finds in the end.                                     *)

Received(p) ==
    /\ p \in posts
    /\ posts' = posts \ {p}
    /\ UNCHANGED <<available, active, handler>>

(* POST /prewarm *)
PrewarmCall(p) ==
    LET c == p.call IN
    /\ Received(p) /\ p.kind = "prewarm"
    /\ \/ /\ cache[c] # NoEntry
          /\ UNCHANGED <<current, cache, entry>>
       \/ /\ cache[c] = NoEntry
          /\ entry' = [entry EXCEPT ![c].fill = "config"]
          /\ cache' = [cache EXCEPT ![c] = c]
          /\ current' = IF current = NoCall THEN c ELSE current
    /\ UNCHANGED closers

(* A mutant of ReassignPrewarm: the entry is found again under the old key. *)
ReassignCopies(p) ==
    /\ Received(p) /\ p.kind = "reassign"
    /\ cache' = IF cache[p.call] = NoEntry THEN cache
                ELSE [cache EXCEPT ![p.to] = cache[p.call]]
    /\ current' = IF current = p.call THEN p.to ELSE current
    /\ UNCHANGED <<entry, closers>>

(* POST /prewarm/reassign *)
ReassignPrewarm(p) ==
    /\ Received(p) /\ p.kind = "reassign"
    /\ cache' = IF cache[p.call] = NoEntry THEN cache
                ELSE [cache EXCEPT ![p.call] = NoEntry, ![p.to] = cache[p.call]]
    /\ current' = IF current = p.call THEN p.to ELSE current
    /\ UNCHANGED <<entry, closers>>

(* A mutant of CancelPrewarm: the seed is cleared without an entry, too. *)
CancelClears(p) ==
    LET c == p.call IN
    /\ Received(p) /\ p.kind = "cancel"
    /\ cache' = [cache EXCEPT ![c] = NoEntry]
    /\ current' = IF current = c THEN NoCall ELSE current
    /\ Discard({cache[c]} \ {NoEntry})

(* DELETE /prewarm/{call_sid}: without an entry the seed is left alone. *)
CancelPrewarm(p) ==
    LET c == p.call IN
    /\ Received(p) /\ p.kind = "cancel"
    /\ cache' = [cache EXCEPT ![c] = NoEntry]
    /\ current' = IF cache[c] # NoEntry /\ current = c THEN NoCall ELSE current
    /\ Discard({cache[c]} \ {NoEntry})

-----------------------------------------------------------------------------
(* _handle_call *)

(* parse_initial_message raises: there is no SID to start a call with.      *)
ParseFails(h) ==
    /\ "stray" \in Behaviour
    /\ handler[h].at = "new"
    /\ At1(h, "stray", NoEntry)
    /\ UNCHANGED <<stateVars, cache, entry, closers, posts>>

Usable(e) == entry[e].ready /\ ~entry[e].cancelled

(* A mutant of Decide: is_cancelled is not tested after the wait. *)
DecideUnchecked(h, e) ==
    /\ cache' = [cache EXCEPT ![SidOf[h]] = NoEntry]
    /\ \/ /\ entry[e].ready
          /\ At1(h, "building", e)
          /\ UNCHANGED <<entry, closers>>
       \/ /\ entry[e].ready
          /\ At1(h, "config", NoEntry)
          /\ closers' = closers \cup {e}
          /\ UNCHANGED entry
       \/ /\ ~entry[e].ready
          /\ At1(h, "config", NoEntry)
          /\ entry' = IF Filling(e) THEN [entry EXCEPT ![e] = Cancelled(@)] ELSE entry
          /\ UNCHANGED closers

(* The entry found is used, or closed since its audio parameters are not    *)
(* those of the provider, or not ready; whatever the cache holds under the  *)
(* SID by now is dropped.                                                   *)
Decide(h, e) ==
    /\ cache' = [cache EXCEPT ![SidOf[h]] = NoEntry]
    /\ \/ /\ Usable(e)
          /\ At1(h, "building", e)
          /\ UNCHANGED <<entry, closers>>
       \/ /\ Usable(e)
          /\ At1(h, "config", NoEntry)
          /\ closers' = closers \cup {e}
          /\ UNCHANGED entry
       \/ /\ ~Usable(e)
          /\ At1(h, "config", NoEntry)
          /\ entry' = IF Filling(e) THEN [entry EXCEPT ![e] = Cancelled(@)] ELSE entry
          /\ UNCHANGED closers

(* start_call(), then the prewarm cache: an entry that is still being       *)
(* filled is waited for.                                                    *)
Start(h) ==
    LET e == cache[SidOf[h]] IN
    /\ handler[h].at = "new"
    /\ current' = SidOf[h] /\ available' = FALSE
    /\ \/ /\ e = NoEntry
          /\ At1(h, "config", NoEntry)
          /\ UNCHANGED <<cache, entry, closers>>
       \/ /\ e # NoEntry /\ Filling(e)
          /\ At1(h, "waiting", e)
          /\ UNCHANGED <<cache, entry, closers>>
       \/ e # NoEntry /\ ~Filling(e) /\ Decide(h, e)
    /\ UNCHANGED <<active, posts>>

(* The task is done, or a second has passed. *)
WaitEnds(h) ==
    /\ handler[h].at = "waiting"
    /\ Decide(h, handler[h].uses)
    /\ UNCHANGED <<stateVars, posts>>

(* What a lookup of the configuration comes back with: the call's record,   *)
(* which may be missing, lead to no assistant or fail to be read ...        *)
FetchConfigFromCallRecord == {"config", "nothing"}

(* ... and what the first messages tell, an assistant's id or a number.     *)
ConfigFallback == {"config", "nothing"}

(* A provider is only asked when the record did not lead to an assistant;   *)
(* without either the connection is closed with 1008.                       *)
ResolveConfig(h) ==
    /\ handler[h].at = "config"
    /\ \E record \in FetchConfigFromCallRecord, fallback \in ConfigFallback :
          At1(h, IF "config" \in {record, fallback} THEN "building" ELSE "ending", NoEntry)
    /\ UNCHANGED <<stateVars, cache, entry, closers, posts>>

(* create_pipeline; a connection it holds is not closed when it raises. *)
CreatePipeline(h) ==
    /\ handler[h].at = "building"
    /\ \/ At1(h, "running", handler[h].uses) /\ active' = h
       \/ At1(h, "broken", handler[h].uses) /\ UNCHANGED active
    /\ UNCHANGED <<current, available, cache, entry, closers, posts>>

(* The pipeline ends and its services disconnect. *)
PipelineEnds(h) ==
    /\ handler[h].at = "running"
    /\ At1(h, "ending", NoEntry)
    /\ entry' = [e \in Entry |-> IF e = handler[h].uses THEN BothClosed(entry[e])
                                 ELSE entry[e]]
    /\ UNCHANGED <<stateVars, cache, closers, posts>>

(* POST /cancel: the pipeline of the last call to start, if none has ended. *)
CancelCurrentCall ==
    \E h \in Handler : active = h /\ PipelineEnds(h)

(* A mutant of EndCall: only a handler that built a pipeline reports back. *)
EndCallIfBuilt(h) ==
    /\ handler[h].at \in {"stray", "broken", "ending"}
    /\ At1(h, "done", handler[h].uses)
    /\ IF active = h
       THEN current' = NoCall /\ available' = TRUE /\ active' = NoHandler
       ELSE UNCHANGED stateVars
    /\ UNCHANGED <<cache, entry, closers, posts>>

(* The finally block: end_call() does not ask whose call the worker serves. *)
EndCall(h) ==
    /\ handler[h].at \in {"stray", "broken", "ending"}
    /\ At1(h, "done", handler[h].uses)
    /\ current' = NoCall /\ available' = TRUE /\ active' = NoHandler
    /\ UNCHANGED <<cache, entry, closers, posts>>

-----------------------------------------------------------------------------
FillStep(e) ==
    FillConfig(e) \/ ServicePrewarmed(e) \/ CloseCancelled(e)

HandlerStep(h) ==
    \/ ParseFails(h) \/ Start(h) \/ WaitEnds(h) \/ ResolveConfig(h)
    \/ CreatePipeline(h) \/ PipelineEnds(h) \/ EndCall(h)

Receive(p) == PrewarmCall(p) \/ ReassignPrewarm(p) \/ CancelPrewarm(p)

Next ==
    \/ \E e \in Entry : FillStep(e) \/ Close(e)
    \/ \E c \in Call : Expire(c)
    \/ \E p \in posts : Receive(p)
    \/ \E h \in Handler : HandlerStep(h)
    \/ CancelCurrentCall

Spec == Init /\ [][Next]_vars

(* The worker is an event loop: what can run, runs.  An entry that stays   *)
(* in the cache gets older than its time to live.                           *)
FairSpec ==
    /\ Spec
    /\ \A e \in Entry : WF_vars(FillStep(e)) /\ WF_vars(Close(e))
    /\ \A c \in Call : WF_vars(Expire(c))
    /\ \A h \in Handler : WF_vars(HandlerStep(h))

-----------------------------------------------------------------------------
(* Types; an entry is ready when both of its services have been connected.  *)
TypeOK ==
    /\ current \in Call \cup {NoCall}
    /\ available \in BOOLEAN
    /\ active \in Handler \cup {NoHandler}
    /\ cache \in [Call -> Entry \cup {NoEntry}]
    /\ entry \in [Entry -> [fill : Fill, ready : BOOLEAN, cancelled : BOOLEAN,
                            stt : Socket, tts : Socket]]
    /\ closers \subseteq Entry
    /\ handler \in [Handler -> [at : At, uses : Entry \cup {NoEntry}]]
    /\ posts \subseteq Request
    /\ \A e \in Entry : entry[e].ready =>
          entry[e].fill = "done" /\ {entry[e].stt, entry[e].tts} \subseteq {"open", "closed"}

Holds(h, e) == handler[h].at \in {"building", "running"} /\ handler[h].uses = e

(* Prewarmed services belong to one call: while one builds or runs its      *)
(* pipeline on them they are connected, nothing is about to close them,     *)
(* and no other call has them.  The wait for an entry, the endpoints that   *)
(* take it away meanwhile and the expiry all touch the same objects.        *)
OneUser ==
    \A e \in Entry, h \in Handler : Holds(h, e) =>
        /\ entry[e].stt = "open" /\ entry[e].tts = "open"
        /\ e \notin closers /\ \A c \in Call : cache[c] # e
        /\ \A g \in Handler : Holds(g, e) => g = h

(* When no connection is being served, the worker offers itself again,      *)
(* however its calls ended (the comment at start_call in _handle_call: "end_call() *)
(* is always called in the finally block regardless of how we exit").       *)
Idle == \A h \in Handler : handler[h].at \in {"new", "done"}
IdleIsAvailable ==
    Idle => available /\ active = NoHandler

(* What both services connected for is used and then closed, or closed      *)
(* ("open connections must be closed directly", _prewarm_ttl_cleanup),      *)
(* unless the pipeline that was to use it could not be built.               *)
WarmedIsClosed ==
    \A e \in Entry :
        entry[e].ready ~> \/ entry[e].stt = "closed" /\ entry[e].tts = "closed"
                          \/ \E h \in Handler : handler[h].at \in {"broken", "done"} /\ handler[h].uses = e

(* A worker reports the call it is connected to ("so the runner's           *)
(* health-check body reader never sees current_call=null while a call is    *)
(* genuinely in progress", the comment at start_call in _handle_call).      *)
NeverNullInCall ==
    \A h \in Handler : handler[h].at = "running" => current # NoCall

(* The connections of an entry that nobody can reach any more are closed    *)
(* ("Task already finished - open connections must be closed directly", the *)
(* comment in _prewarm_ttl_cleanup and cancel_prewarm).                     *)
NothingLeftOpen ==
    \A e \in Entry :
        \/ "open" \notin {entry[e].stt, entry[e].tts}
        \/ Filling(e) \/ e \in closers
        \/ \E c \in Call : cache[c] = e
        \/ \E h \in Handler : handler[h].uses = e

-----------------------------------------------------------------------------
(* What the runners see of this worker is a WorkerProcess: every step of    *)
(* the handlers, the endpoints and the expiry is one of its steps or        *)
(* invisible, but for a connection that never said which call it is.        *)
InCall == {h \in Handler : handler[h].at \in {"waiting", "config", "building", "running",
                                              "ending", "broken"}}

Process == INSTANCE WorkerProcess WITH
    Worker <- {This},
    serving <- [w \in {This} |-> current],
    warm <- [w \in {This} |-> {c \in Call : cache[c] # NoEntry}],
    onair <- [w \in {This} |-> {SidOf[h] : h \in InCall}]

StrayEnds == \E h \in Handler : handler[h].at = "stray" /\ EndCall(h)

ProcessStep ==
    \/ \E p \in posts : Process!Deliver(p)
    \/ \E c \in Call : \/ Process!ExpirePrewarm(This, c)
                       \/ Process!StartCall(This, c) \/ Process!EndCall(This, c)
    \/ StrayEnds

ImplementsProcess == [][ProcessStep]_(Process!workerVars)
=============================================================================
