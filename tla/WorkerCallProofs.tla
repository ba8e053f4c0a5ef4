-------------------------- MODULE WorkerCallProofs --------------------------
(***************************************************************************)
(* Theorems about a worker process, for any number of connections, calls   *)
(* and prewarm requests: its types, that prewarmed services have one user, *)
(* that an idle worker is available, and that it does what WorkerProcess   *)
(* lets the runners see of it.                                             *)
(***************************************************************************)
EXTENDS WorkerCall, TLAPS

USE NamesAssumption, WorkerCallAssumption

-----------------------------------------------------------------------------
(* Types.  A handler that waits for an entry has one.                       *)

EntryType == [fill : Fill, ready : BOOLEAN, cancelled : BOOLEAN,
              stt : Socket, tts : Socket]

HandlerType == [at : At, uses : Entry \cup {NoEntry}]

(* An entry is ready only once its task is done and both services were      *)
(* connected.                                                               *)
EntryOK(x) ==
    /\ x \in EntryType
    /\ x.ready => x.fill = "done" /\ {x.stt, x.tts} \subseteq {"open", "closed"}

EntriesOK == entry \in [Entry -> EntryType] /\ \A e \in Entry : EntryOK(entry[e])

WaitsForOne == \A h \in Handler : handler[h].at = "waiting" => handler[h].uses \in Entry

TypeInv == TypeOK /\ WaitsForOne

(* What the code does to one entry keeps it well-formed.                    *)
LEMMA OneEntryOK ==
    ASSUME NEW x, EntryOK(x)
    PROVE  /\ EntryOK(BothClosed(x))
           /\ EntryOK([x EXCEPT !.cancelled = TRUE])
           /\ x.fill # "done" => EntryOK(Cancelled(x))
           /\ x.fill = "warming" => \A s \in {"open", "none"} :
                 /\ x.stt = "opening" => EntryOK(Warmed([x EXCEPT !.stt = s]))
                 /\ x.tts = "opening" => EntryOK(Warmed([x EXCEPT !.tts = s]))
<1> USE DEF EntryOK, EntryType, Fill, Socket
<1>1. EntryOK(BothClosed(x)) BY DEF BothClosed, ClosedSocket
<1>2. EntryOK([x EXCEPT !.cancelled = TRUE]) OBVIOUS
<1>3. x.fill # "done" => EntryOK(Cancelled(x)) BY DEF Cancelled
<1>4. ASSUME x.fill = "warming", NEW s \in {"open", "none"}
      PROVE  /\ x.stt = "opening" => EntryOK(Warmed([x EXCEPT !.stt = s]))
             /\ x.tts = "opening" => EntryOK(Warmed([x EXCEPT !.tts = s]))
  BY <1>4 DEF Warmed
<1> QED BY <1>1, <1>2, <1>3, <1>4

(* Discard cancels the entries and closes none but those that are ready.    *)
LEMMA DiscardOutcome ==
    ASSUME EntriesOK, closers \subseteq Entry, NEW es \in SUBSET Entry, Discard(es)
    PROVE  /\ EntriesOK'
           /\ closers' \subseteq Entry
           /\ \A e \in Entry \ es : entry'[e] = entry[e] /\ (e \in closers' <=> e \in closers)
           /\ \A e \in es : entry'[e].cancelled
           /\ \A e \in Entry : entry'[e].ready <=> entry[e].ready
           /\ \A e \in closers' \ closers : entry[e].ready
<1>1. ASSUME NEW e \in Entry
      PROVE  /\ EntryOK(entry'[e])
             /\ entry'[e].ready <=> entry[e].ready
             /\ e \in es => entry'[e].cancelled
             /\ e \notin es => entry'[e] = entry[e]
  <2>1. EntryOK(entry[e]) BY DEF EntriesOK
  <2>2. CASE e \notin es BY <2>1, <2>2 DEF Discard
  <2>3. CASE e \in es /\ Filling(e)
    <3>1. entry'[e] = Cancelled(entry[e]) BY <2>3 DEF Discard
    <3>2. EntryOK(Cancelled(entry[e])) BY <2>1, <2>3, OneEntryOK DEF Filling
    <3> QED BY <2>1, <2>3, <3>1, <3>2 DEF Cancelled, EntryOK, EntryType
  <2>4. CASE e \in es /\ ~Filling(e)
    <3>1. entry'[e] = [entry[e] EXCEPT !.cancelled = TRUE] BY <2>4 DEF Discard
    <3>2. EntryOK([entry[e] EXCEPT !.cancelled = TRUE]) BY <2>1, OneEntryOK
    <3>3. EntryOK(entry'[e]) BY <3>1, <3>2
    <3> QED BY <2>1, <2>4, <3>1, <3>3 DEF EntryOK, EntryType
  <2> QED BY <2>2, <2>3, <2>4
<1>2. entry' \in [Entry -> EntryType]
  <2>1. entry' = [e \in Entry |-> IF e \notin es THEN entry[e]
                                  ELSE IF Filling(e) THEN Cancelled(entry[e])
                                  ELSE [entry[e] EXCEPT !.cancelled = TRUE]]
    BY DEF Discard
  <2>2. \A e \in Entry : entry'[e] \in EntryType BY <1>1 DEF EntryOK
  <2> QED BY <2>1, <2>2
<1>3. EntriesOK' BY <1>1, <1>2 DEF EntriesOK
<1>4. /\ closers' \subseteq Entry
      /\ \A e \in Entry \ es : e \in closers' <=> e \in closers
      /\ \A e \in closers' \ closers : entry[e].ready
  BY DEF Discard
<1> QED BY <1>1, <1>3, <1>4

(* What a handler that moves on leaves of the others.                       *)
LEMMA At1Outcome ==
    ASSUME handler \in [Handler -> HandlerType], NEW h \in Handler,
           NEW at \in At, NEW e \in Entry \cup {NoEntry}, At1(h, at, e)
    PROVE  /\ handler' \in [Handler -> HandlerType]
           /\ handler'[h] = [at |-> at, uses |-> e]
           /\ handler'[h].at = at /\ handler'[h].uses = e
           /\ \A g \in Handler \ {h} : handler'[g] = handler[g]
BY DEF At1, HandlerType

-----------------------------------------------------------------------------
(* The type invariant, conjunct by conjunct.                                *)

StateOK ==
    /\ current \in Call \cup {NoCall}
    /\ available \in BOOLEAN
    /\ active \in Handler \cup {NoHandler}

RefsOK ==
    /\ cache \in [Call -> Entry \cup {NoEntry}]
    /\ handler \in [Handler -> HandlerType]
    /\ WaitsForOne

LEMMA TypeParts ==
    TypeInv <=> StateOK /\ RefsOK /\ EntriesOK /\ closers \subseteq Entry /\ posts \subseteq Request
BY DEF TypeInv, TypeOK, StateOK, RefsOK, EntriesOK, EntryOK, EntryType, HandlerType

LEMMA TypePartsNext ==
    (StateOK /\ RefsOK /\ EntriesOK /\ closers \subseteq Entry /\ posts \subseteq Request)'
        => TypeInv'
BY DEF TypeInv, TypeOK, StateOK, RefsOK, EntriesOK, EntryOK, EntryType, HandlerType

(* A request that is received names calls and its entry, if any.            *)
LEMMA RequestType ==
    ASSUME NEW p \in Request
    PROVE  /\ p.call \in Call
           /\ p.kind = "reassign" => p.to \in Call /\ p.call \notin Sids
OBVIOUS

(* What a decision leaves: the entry found is taken, or left to be closed.  *)
LEMMA DecideOutcome ==
    ASSUME TypeInv, NEW h \in Handler, NEW e \in Entry, Decide(h, e)
    PROVE  /\ RefsOK' /\ EntriesOK' /\ closers' \subseteq Entry
           /\ cache' = [cache EXCEPT ![SidOf[h]] = NoEntry]
           /\ \/ At1(h, "building", e) /\ Usable(e) /\ UNCHANGED <<entry, closers>>
              \/ At1(h, "config", NoEntry)
           /\ \A d \in Entry \ {e} : entry'[d] = entry[d] /\ (d \in closers' <=> d \in closers)
           /\ \A d \in Entry : entry'[d].ready <=> entry[d].ready
           /\ \A d \in closers' \ closers : entry[d].ready
<1>0. /\ cache \in [Call -> Entry \cup {NoEntry}] /\ handler \in [Handler -> HandlerType]
      /\ EntriesOK /\ closers \subseteq Entry /\ WaitsForOne
  BY TypeParts DEF RefsOK
<1>1. /\ cache' = [cache EXCEPT ![SidOf[h]] = NoEntry]
      /\ \/ At1(h, "building", e) /\ Usable(e) /\ UNCHANGED <<entry, closers>>
         \/ At1(h, "config", NoEntry)
  BY DEF Decide
<1>2. cache' \in [Call -> Entry \cup {NoEntry}] BY <1>0, <1>1
<1>3. handler' \in [Handler -> HandlerType] /\ WaitsForOne'
  <2>1. PICK at \in {"building", "config"}, d \in Entry \cup {NoEntry} : At1(h, at, d)
    BY <1>1
  <2>2. at \in At BY DEF At
  <2>3. /\ handler' \in [Handler -> HandlerType] /\ handler'[h] = [at |-> at, uses |-> d]
        /\ \A g \in Handler \ {h} : handler'[g] = handler[g]
    BY <1>0, <2>1, <2>2, At1Outcome
  <2> QED BY <1>0, <2>3 DEF WaitsForOne
<1>4. EntryOK(entry[e]) /\ entry \in [Entry -> EntryType] BY <1>0 DEF EntriesOK
<1>5. CASE Usable(e)
  <2>1. entry' = entry /\ (closers' = closers \/ closers' = closers \cup {e})
    BY <1>5 DEF Decide
  <2>2. EntriesOK' BY <1>0, <2>1 DEF EntriesOK
  <2>3. entry[e].ready BY <1>5 DEF Usable
  <2>4. /\ \A d \in Entry \ {e} : entry'[d] = entry[d] /\ (d \in closers' <=> d \in closers)
        /\ \A d \in Entry : entry'[d].ready <=> entry[d].ready
        /\ \A d \in closers' \ closers : entry[d].ready
    BY <2>1, <2>3
  <2>5. closers' \subseteq Entry BY <1>0, <2>1
  <2>6. RefsOK' BY <1>2, <1>3 DEF RefsOK
  <2> QED BY <1>1, <2>2, <2>4, <2>5, <2>6
<1>6. CASE ~Usable(e)
  <2>1. closers' = closers /\ entry' = IF Filling(e) THEN [entry EXCEPT ![e] = Cancelled(@)] ELSE entry
    BY <1>6 DEF Decide
  <2>2. Filling(e) => EntryOK(Cancelled(entry[e])) /\ ~entry[e].ready /\ ~Cancelled(entry[e]).ready
    BY <1>4, OneEntryOK DEF Filling, EntryOK, EntryType, Cancelled
  <2>3. EntriesOK' BY <1>0, <1>4, <2>1, <2>2 DEF EntriesOK, EntryOK
  <2>4. /\ \A d \in Entry \ {e} : entry'[d] = entry[d]
        /\ \A d \in Entry : entry'[d].ready <=> entry[d].ready
    BY <1>4, <2>1, <2>2
  <2> QED BY <1>0, <1>1, <1>2, <1>3, <2>1, <2>3, <2>4 DEF RefsOK
<1> QED BY <1>5, <1>6
-----------------------------------------------------------------------------
(* Who refers to an entry: the cache, under one key, a handler that waits   *)
(* for it, and the one that has it.                                         *)

Reaches(h, e) == handler[h].at \in {"waiting", "building", "running"} /\ handler[h].uses = e

Waits(h, e) == handler[h].at = "waiting" /\ handler[h].uses = e

Known(e) == (\E c \in Call : cache[c] = e) \/ \E h \in Handler : Reaches(h, e)

Prewarms(p, e) == p.kind = "prewarm" /\ p.call = e

OneKey == \A c, d \in Call : cache[c] \in Entry /\ cache[c] = cache[d] => c = d

OneReader ==
    \A e \in Entry : \A g, h \in Handler : Reaches(g, e) /\ Reaches(h, e) => g = h

HeldIsOut == \A e \in Entry, h \in Handler, c \in Call : Holds(h, e) => cache[c] # e

WaitsUnderItsSid ==
    \A e \in Entry, h \in Handler, c \in Call : Waits(h, e) /\ cache[c] = e => c = SidOf[h]

FreshIsUnknown == \A e \in Entry, p \in posts : Prewarms(p, e) => ~Known(e)

UsersInv == OneKey /\ OneReader /\ HeldIsOut /\ WaitsUnderItsSid /\ FreshIsUnknown

(* What is known of an entry by those that refer to it: one that is ready   *)
(* and was not cancelled is connected and stays so.                         *)
Connected(e) == entry[e].stt = "open" /\ entry[e].tts = "open" /\ e \notin closers

UsableIsConnected == \A e \in Entry : Usable(e) /\ Known(e) => Connected(e)

HeldIsUsable == \A e \in Entry, h \in Handler : Holds(h, e) => Usable(e)

ClosersAreReady == \A e \in closers : entry[e].ready

FreshIsNew == \A e \in Entry, p \in posts : Prewarms(p, e) => entry[e] = NewEntry

EntriesInv == UsableIsConnected /\ HeldIsUsable /\ ClosersAreReady /\ FreshIsNew

ServicesInv == TypeInv /\ UsersInv /\ EntriesInv

(* A step after which nobody refers to an entry that did not before.        *)
LEMMA FewerUsers ==
    ASSUME UsersInv, posts' \subseteq posts,
           \A c \in Call : cache'[c] = cache[c] \/ cache'[c] = NoEntry,
           \A h \in Handler, e \in Entry :
               Reaches(h, e)' => Reaches(h, e) /\ (Waits(h, e)' <=> Waits(h, e))
    PROVE  /\ UsersInv'
           /\ \A e \in Entry : Known(e)' => Known(e)
           /\ \A h \in Handler, e \in Entry : Holds(h, e)' => Holds(h, e)
<1> USE DEF Entry
<1>1. \A e \in Entry : Known(e)' => Known(e) BY DEF Known
<1>2. \A h \in Handler, e \in Entry : Holds(h, e)' => Holds(h, e)
  BY DEF Holds, Reaches, Waits
<1>3. \A h \in Handler, e \in Entry : Waits(h, e)' => Waits(h, e) BY DEF Waits, Reaches
<1>4. OneKey' BY DEF UsersInv, OneKey
<1>5. OneReader' BY DEF UsersInv, OneReader
<1>6. HeldIsOut' BY <1>2 DEF UsersInv, HeldIsOut
<1>7. WaitsUnderItsSid' BY <1>3 DEF UsersInv, WaitsUnderItsSid
<1>8. FreshIsUnknown' BY <1>1 DEF UsersInv, FreshIsUnknown, Prewarms
<1> QED BY <1>1, <1>2, <1>4, <1>5, <1>6, <1>7, <1>8 DEF UsersInv

(* The same, where handlers stand still.                                    *)
LEMMA HandlersStand ==
    ASSUME handler' = handler
    PROVE  /\ \A h \in Handler, e \in Entry :
                 Reaches(h, e)' => Reaches(h, e) /\ (Waits(h, e)' <=> Waits(h, e))
           /\ \A h \in Handler, e \in Entry : Holds(h, e)' <=> Holds(h, e)
BY DEF Reaches, Waits, Holds

(* A step that changes only entries that are neither fresh nor held nor, in *)
(* the end, usable keeps what is known of the entries.                      *)
LEMMA EntriesChange ==
    ASSUME EntriesInv, closers' \subseteq Entry, posts' \subseteq posts,
           \A e \in Entry : Known(e)' => Known(e),
           \A h \in Handler, e \in Entry : Holds(h, e)' => Holds(h, e),
           NEW es \in SUBSET Entry,
           \A e \in Entry \ es : entry'[e] = entry[e] /\ (e \in closers' => e \in closers),
           \A e \in es : /\ Usable(e)' /\ Known(e)' => Connected(e)'
                         /\ \A h \in Handler : ~Holds(h, e)'
                         /\ \A p \in posts : ~Prewarms(p, e)
                         /\ e \in closers' => entry'[e].ready
    PROVE  EntriesInv'
<1>1. UsableIsConnected'
  <2> SUFFICES ASSUME NEW e \in Entry, Usable(e)', Known(e)' PROVE Connected(e)'
    BY DEF UsableIsConnected
  <2>1. CASE e \in es BY <2>1
  <2>2. CASE e \notin es
    <3>1. entry'[e] = entry[e] /\ (e \in closers' => e \in closers) BY <2>2
    <3>2. Usable(e) /\ Known(e) BY <3>1 DEF Usable
    <3> QED BY <3>1, <3>2 DEF EntriesInv, UsableIsConnected, Connected
  <2> QED BY <2>1, <2>2
<1>2. HeldIsUsable' BY DEF EntriesInv, HeldIsUsable, Usable
<1>3. ClosersAreReady' BY DEF EntriesInv, ClosersAreReady
<1>4. FreshIsNew'
  <2> SUFFICES ASSUME NEW e \in Entry, NEW p \in posts', Prewarms(p, e) PROVE entry'[e] = NewEntry
    BY DEF FreshIsNew, Prewarms, NewEntry
  <2>1. e \notin es OBVIOUS
  <2> QED BY <2>1 DEF EntriesInv, FreshIsNew
<1> QED BY <1>1, <1>2, <1>3, <1>4 DEF EntriesInv

(* An entry that is being filled, closed or referred to is not fresh.       *)
LEMMA NotFresh ==
    ASSUME ServicesInv, NEW e \in Entry,
           entry[e].fill # "unused" \/ e \in closers \/ Known(e)
    PROVE  \A p \in posts : ~Prewarms(p, e)
<1> SUFFICES ASSUME NEW p \in posts, Prewarms(p, e) PROVE FALSE OBVIOUS
<1>1. entry[e] = NewEntry /\ ~Known(e)
  BY DEF ServicesInv, UsersInv, EntriesInv, FreshIsNew, FreshIsUnknown
<1>2. entry[e].fill = "unused" /\ ~entry[e].ready BY <1>1 DEF NewEntry
<1> QED BY <1>1, <1>2 DEF ServicesInv, EntriesInv, ClosersAreReady

-----------------------------------------------------------------------------
(* Steps that fill and close.                                               *)

(* A step of an entry's own tasks changes no reference.                     *)
LEMMA EntryStep ==
    ASSUME ServicesInv, NEW e \in Entry, EntriesOK', closers' \subseteq closers,
           UNCHANGED <<stateVars, cache, handler, posts>>,
           \A d \in Entry \ {e} : entry'[d] = entry[d],
           entry[e].fill # "unused" \/ e \in closers \/ Known(e),
           Usable(e)' /\ Known(e)' => Connected(e)',
           \A h \in Handler : ~Holds(h, e),
           e \in closers' => entry'[e].ready
    PROVE  ServicesInv'
<1>1. TypeInv'
  <2>1. StateOK' /\ RefsOK'
    BY TypeParts DEF ServicesInv, stateVars, StateOK, RefsOK, WaitsForOne
  <2>2. closers' \subseteq Entry /\ posts' \subseteq Request BY TypeParts DEF ServicesInv
  <2> QED BY <2>1, <2>2, TypePartsNext
<1>2. /\ UsersInv' /\ \A d \in Entry : Known(d)' => Known(d)
      /\ \A h \in Handler, d \in Entry : Holds(h, d)' => Holds(h, d)
  BY FewerUsers, HandlersStand DEF ServicesInv
<1>3. closers' \subseteq Entry BY TypeParts DEF ServicesInv
<1>4. EntriesInv'
  <2> DEFINE es == {e}
  <2>1. es \in SUBSET Entry OBVIOUS
  <2>2. \A p \in posts : ~Prewarms(p, e) BY NotFresh
  <2>3. \A h \in Handler : ~Holds(h, e)' BY <1>2
  <2>4. \A d \in es : /\ Usable(d)' /\ Known(d)' => Connected(d)'
                      /\ \A h \in Handler : ~Holds(h, d)'
                      /\ \A p \in posts : ~Prewarms(p, d)
                      /\ d \in closers' => entry'[d].ready
    BY <2>2, <2>3
  <2>5. \A d \in Entry \ es : entry'[d] = entry[d] /\ (d \in closers' => d \in closers) OBVIOUS
  <2>6. EntriesInv BY DEF ServicesInv
  <2> HIDE DEF es
  <2> QED BY <1>2, <1>3, <2>1, <2>4, <2>5, <2>6, EntriesChange
<1> QED BY <1>1, <1>2, <1>4 DEF ServicesInv

(* Replacing one entry.                                                     *)
LEMMA OneEntryChanges ==
    ASSUME EntriesOK, NEW e \in Entry, NEW x, EntryOK(x), entry' = [entry EXCEPT ![e] = x]
    PROVE  EntriesOK' /\ entry'[e] = x /\ \A d \in Entry \ {e} : entry'[d] = entry[d]
<1>1. entry'[e] = x /\ \A d \in Entry \ {e} : entry'[d] = entry[d] BY DEF EntriesOK
<1>2. entry' \in [Entry -> EntryType] BY DEF EntriesOK, EntryOK
<1>3. \A d \in Entry : EntryOK(entry'[d])
  <2> TAKE d \in Entry
  <2>1. CASE d = e BY <1>1, <2>1
  <2>2. CASE d # e
    <3>1. entry'[d] = entry[d] /\ EntryOK(entry[d]) BY <1>1, <2>2 DEF EntriesOK
    <3> QED BY <3>1
  <2> QED BY <2>1, <2>2
<1> QED BY <1>1, <1>2, <1>3 DEF EntriesOK

(* An entry whose task is not done has no closer and no user.               *)
LEMMA NotDone ==
    ASSUME ServicesInv, NEW e \in Entry, entry[e].fill # "done"
    PROVE  EntryOK(entry[e]) /\ e \notin closers /\ \A h \in Handler : ~Holds(h, e)
<1>1. EntriesOK BY TypeParts DEF ServicesInv
<1>2. EntryOK(entry[e]) BY <1>1 DEF EntriesOK
<1>3. ~entry[e].ready BY <1>2 DEF EntryOK
<1>4. e \notin closers BY <1>3 DEF ServicesInv, EntriesInv, ClosersAreReady
<1>5. \A h \in Handler : ~Holds(h, e)
  BY <1>3 DEF ServicesInv, EntriesInv, HeldIsUsable, Usable
<1> QED BY <1>2, <1>4, <1>5

LEMMA FillConfigStep ==
    ASSUME ServicesInv, NEW e \in Entry, FillConfig(e) PROVE ServicesInv'
<1>1. EntriesOK BY TypeParts DEF ServicesInv
<1>2. entry[e].fill = "config" BY DEF FillConfig
<1>3. EntryOK(entry[e]) /\ e \notin closers /\ \A h \in Handler : ~Holds(h, e)
  BY <1>2, NotDone
<1>4. PICK x \in {[entry[e] EXCEPT !.fill = "done"],
                  [entry[e] EXCEPT !.fill = "warming", !.stt = "opening", !.tts = "opening"]} :
          entry' = [entry EXCEPT ![e] = x]
  BY DEF FillConfig
<1>5. EntryOK(x) /\ ~x.ready BY <1>2, <1>3 DEF EntryOK, EntryType, Fill, Socket
<1>6. EntriesOK' /\ entry'[e] = x /\ \A d \in Entry \ {e} : entry'[d] = entry[d]
  BY <1>1, <1>4, <1>5, OneEntryChanges
<1>7. ~Usable(e)' BY <1>5, <1>6 DEF Usable
<1>8. closers' = closers /\ UNCHANGED <<stateVars, cache, handler, posts>> BY DEF FillConfig
<1> QED BY <1>2, <1>3, <1>6, <1>7, <1>8, EntryStep

LEMMA ServicePrewarmedStep ==
    ASSUME ServicesInv, NEW e \in Entry, ServicePrewarmed(e) PROVE ServicesInv'
<1>1. EntriesOK BY TypeParts DEF ServicesInv
<1>2. entry[e].fill = "warming" BY DEF ServicePrewarmed
<1>3. EntryOK(entry[e]) /\ e \notin closers /\ \A h \in Handler : ~Holds(h, e)
  BY <1>2, NotDone
<1>4. PICK s \in {"open", "none"} :
        \/ /\ entry[e].stt = "opening"
           /\ entry' = [entry EXCEPT ![e] = Warmed([entry[e] EXCEPT !.stt = s])]
        \/ /\ entry[e].tts = "opening"
           /\ entry' = [entry EXCEPT ![e] = Warmed([entry[e] EXCEPT !.tts = s])]
  BY DEF ServicePrewarmed
<1>5. PICK x : /\ \/ entry[e].stt = "opening" /\ x = Warmed([entry[e] EXCEPT !.stt = s])
                  \/ entry[e].tts = "opening" /\ x = Warmed([entry[e] EXCEPT !.tts = s])
               /\ entry' = [entry EXCEPT ![e] = x]
  BY <1>4
<1>6. EntryOK(x)
  <2>1. /\ entry[e].stt = "opening" => EntryOK(Warmed([entry[e] EXCEPT !.stt = s]))
        /\ entry[e].tts = "opening" => EntryOK(Warmed([entry[e] EXCEPT !.tts = s]))
    BY <1>2, <1>3, OneEntryOK
  <2> QED BY <1>5, <2>1
<1>7. x.ready => x.stt = "open" /\ x.tts = "open"
  BY <1>2, <1>3, <1>5 DEF Warmed, EntryOK, EntryType
<1>8. EntriesOK' /\ entry'[e] = x /\ \A d \in Entry \ {e} : entry'[d] = entry[d]
  BY <1>1, <1>5, <1>6, OneEntryChanges
<1>9. closers' = closers /\ UNCHANGED <<stateVars, cache, handler, posts>>
  BY DEF ServicePrewarmed
<1>10. Usable(e)' /\ Known(e)' => Connected(e)'
  BY <1>3, <1>7, <1>8, <1>9 DEF Usable, Connected
<1> QED BY <1>2, <1>3, <1>8, <1>9, <1>10, EntryStep

(* An entry whose task closes it was cancelled, so it is not ready.         *)
LEMMA CloseCancelledStep ==
    ASSUME ServicesInv, NEW e \in Entry, CloseCancelled(e) PROVE ServicesInv'
<1>1. EntriesOK BY TypeParts DEF ServicesInv
<1>2. entry[e].fill = "closing" BY DEF CloseCancelled
<1>3. EntryOK(entry[e]) /\ e \notin closers /\ \A h \in Handler : ~Holds(h, e)
  BY <1>2, NotDone
<1>4. PICK x \in {[entry[e] EXCEPT !.stt = "closed"],
                  [entry[e] EXCEPT !.tts = ClosedSocket(entry[e].tts), !.fill = "done"]} :
          entry' = [entry EXCEPT ![e] = x]
  BY DEF CloseCancelled, ClosedNext
<1>5. EntryOK(x) /\ ~x.ready
  BY <1>2, <1>3 DEF EntryOK, EntryType, Fill, Socket, ClosedSocket
<1>6. EntriesOK' /\ entry'[e] = x /\ \A d \in Entry \ {e} : entry'[d] = entry[d]
  BY <1>1, <1>4, <1>5, OneEntryChanges
<1>7. ~Usable(e)' BY <1>5, <1>6 DEF Usable
<1>8. closers' = closers /\ UNCHANGED <<stateVars, cache, handler, posts>> BY DEF CloseCancelled
<1> QED BY <1>2, <1>3, <1>6, <1>7, <1>8, EntryStep

(* Whoever still refers to an entry that is about to be closed knows that   *)
(* it is not usable.                                                        *)
LEMMA CloseStep == ASSUME ServicesInv, NEW e \in Entry, Close(e) PROVE ServicesInv'
<1>1. EntriesOK BY TypeParts DEF ServicesInv
<1>2. EntryOK(entry[e]) BY <1>1 DEF EntriesOK
<1>3. e \in closers /\ closers' = closers \ {e} /\ entry' = [entry EXCEPT ![e] = BothClosed(entry[e])]
      /\ UNCHANGED <<stateVars, cache, handler, posts>>
  BY DEF Close
<1>4. EntryOK(BothClosed(entry[e])) BY <1>2, OneEntryOK
<1>5. EntriesOK' /\ entry'[e] = BothClosed(entry[e])
      /\ \A d \in Entry \ {e} : entry'[d] = entry[d]
  BY <1>1, <1>3, <1>4, OneEntryChanges
<1>6. ~(Usable(e) /\ Known(e)) /\ \A h \in Handler : ~Holds(h, e)
  <2>1. ~(Usable(e) /\ Known(e))
    BY <1>3 DEF ServicesInv, EntriesInv, UsableIsConnected, Connected
  <2>2. \A h \in Handler : Holds(h, e) => Known(e) BY DEF Holds, Known, Reaches
  <2> QED BY <2>1, <2>2 DEF ServicesInv, EntriesInv, HeldIsUsable
<1>7. ~(Usable(e)' /\ Known(e)')
  <2>1. Usable(e)' => Usable(e) BY <1>2, <1>5 DEF Usable, BothClosed, EntryOK, EntryType
  <2>2. Known(e)' => Known(e) BY <1>3 DEF Known, Reaches
  <2> QED BY <1>6, <2>1, <2>2
<1> QED BY <1>3, <1>5, <1>6, <1>7, EntryStep

-----------------------------------------------------------------------------
(* Steps that take entries out of the cache.                                *)

(* Entries that leave the cache have no user, as a handler takes its entry  *)
(* out of the cache itself.                                                 *)
LEMMA DiscardStep ==
    ASSUME ServicesInv, NEW c \in Call, Discard({cache[c]} \ {NoEntry}),
           cache' = [cache EXCEPT ![c] = NoEntry],
           current' \in Call \cup {NoCall}, posts' \subseteq posts,
           UNCHANGED <<available, active, handler>>
    PROVE  ServicesInv'
<1> DEFINE es == {cache[c]} \ {NoEntry}
<1>1. /\ StateOK /\ RefsOK /\ EntriesOK /\ closers \subseteq Entry /\ posts \subseteq Request
      /\ cache \in [Call -> Entry \cup {NoEntry}]
  BY TypeParts DEF ServicesInv, RefsOK
<1>2. es \in SUBSET Entry BY <1>1
<1>3. /\ EntriesOK' /\ closers' \subseteq Entry
      /\ \A e \in Entry \ es : entry'[e] = entry[e] /\ (e \in closers' <=> e \in closers)
      /\ \A e \in es : entry'[e].cancelled
      /\ \A e \in Entry : entry'[e].ready <=> entry[e].ready
      /\ \A e \in closers' \ closers : entry[e].ready
  <2> HIDE DEF es
  <2>1. Discard(es) BY DEF es
  <2> QED BY <1>1, <1>2, <2>1, DiscardOutcome
<1>4. cache' \in [Call -> Entry \cup {NoEntry}]
      /\ \A d \in Call : cache'[d] = cache[d] \/ cache'[d] = NoEntry
  BY <1>1
<1>5. StateOK' /\ RefsOK' BY <1>1, <1>4 DEF StateOK, RefsOK, WaitsForOne
<1>6. posts' \subseteq Request BY <1>1
<1>7. TypeInv' BY <1>3, <1>5, <1>6, TypePartsNext
<1>8. /\ UsersInv' /\ \A e \in Entry : Known(e)' => Known(e)
      /\ \A h \in Handler, e \in Entry : Holds(h, e)' => Holds(h, e)
  BY <1>4, HandlersStand, FewerUsers DEF ServicesInv
<1>9. ASSUME NEW e \in es
      PROVE  /\ Usable(e)' /\ Known(e)' => Connected(e)'
             /\ \A h \in Handler : ~Holds(h, e)'
             /\ \A p \in posts : ~Prewarms(p, e)
             /\ e \in closers' => entry'[e].ready
  <2>1. e \in Entry /\ cache[c] = e /\ Known(e) BY <1>2 DEF Known
  <2>2. \A h \in Handler : ~Holds(h, e) BY <2>1 DEF ServicesInv, UsersInv, HeldIsOut
  <2>3. \A p \in posts : ~Prewarms(p, e) BY <2>1, NotFresh
  <2>4. ~Usable(e)' BY <1>3 DEF Usable
  <2>5. e \in closers' => entry'[e].ready
    BY <1>3, <2>1 DEF ServicesInv, EntriesInv, ClosersAreReady
  <2> QED BY <1>8, <2>1, <2>2, <2>3, <2>4, <2>5
<1>10. EntriesInv'
  <2> HIDE DEF es
  <2>1. EntriesInv BY DEF ServicesInv
  <2>2. \A e \in Entry \ es : entry'[e] = entry[e] /\ (e \in closers' => e \in closers) BY <1>3
  <2> QED BY <1>2, <1>3, <1>8, <1>9, <2>1, <2>2, EntriesChange
<1> QED BY <1>7, <1>8, <1>10 DEF ServicesInv

LEMMA ExpireStep == ASSUME ServicesInv, NEW c \in Call, Expire(c) PROVE ServicesInv'
<1>1. StateOK BY TypeParts DEF ServicesInv
<1>2. {cache[c]} = {cache[c]} \ {NoEntry} BY DEF Expire
<1>3. Discard({cache[c]} \ {NoEntry}) BY <1>2 DEF Expire
<1> QED BY <1>1, <1>3, DiscardStep DEF Expire, stateVars, StateOK

LEMMA CancelStep == ASSUME ServicesInv, NEW p \in posts, CancelPrewarm(p) PROVE ServicesInv'
<1>1. StateOK /\ p \in Request BY TypeParts DEF ServicesInv
<1>2. p.call \in Call BY <1>1, RequestType
<1>3. current' \in Call \cup {NoCall} BY <1>1 DEF CancelPrewarm, StateOK
<1> QED BY <1>2, <1>3, DiscardStep DEF CancelPrewarm, Received

-----------------------------------------------------------------------------
(* Requests that make an entry or move it.                                  *)

LEMMA PrewarmStep == ASSUME ServicesInv, NEW p \in posts, PrewarmCall(p) PROVE ServicesInv'
<1> DEFINE c == p.call
<1>1. /\ StateOK /\ RefsOK /\ EntriesOK /\ closers \subseteq Entry /\ posts \subseteq Request
      /\ cache \in [Call -> Entry \cup {NoEntry}]
      /\ UsersInv /\ EntriesInv
  BY TypeParts DEF ServicesInv, RefsOK
<1>2. p \in Request /\ c \in Call /\ p.kind = "prewarm" BY <1>1, RequestType DEF PrewarmCall
<1>3. posts' = posts \ {p} /\ closers' = closers /\ UNCHANGED <<available, active, handler>>
  BY DEF PrewarmCall, Received
<1>4. \A q \in posts : Prewarms(q, c) => q = p BY <1>1, <1>2 DEF Prewarms
<1>5. StateOK' /\ posts' \subseteq Request /\ closers' \subseteq Entry
  BY <1>1, <1>2, <1>3 DEF PrewarmCall, StateOK
<1>6. CASE UNCHANGED <<cache, entry>>
  <2>1. RefsOK' /\ EntriesOK' BY <1>1, <1>3, <1>6 DEF RefsOK, WaitsForOne, EntriesOK
  <2>2. TypeInv' BY <1>5, <2>1, TypePartsNext
  <2>3. /\ UsersInv' /\ \A e \in Entry : Known(e)' => Known(e)
        /\ \A h \in Handler, e \in Entry : Holds(h, e)' => Holds(h, e)
    BY <1>1, <1>3, <1>6, HandlersStand, FewerUsers
  <2>4. EntriesInv'
    <3>1. {} \in SUBSET Entry OBVIOUS
    <3> QED BY <1>1, <1>3, <1>5, <1>6, <2>3, <3>1, EntriesChange
  <2> QED BY <2>2, <2>3, <2>4 DEF ServicesInv
<1>7. CASE cache[c] = NoEntry /\ cache' = [cache EXCEPT ![c] = c]
           /\ entry' = [entry EXCEPT ![c].fill = "config"]
  <2>1. entry[c] = NewEntry /\ ~Known(c)
    BY <1>1, <1>2 DEF UsersInv, FreshIsUnknown, EntriesInv, FreshIsNew, Prewarms, Entry
  <2> DEFINE x == [entry[c] EXCEPT !.fill = "config"]
  <2>2. EntryOK(x) /\ ~x.ready
    <3>1. EntryOK(entry[c]) BY <1>1, <1>2 DEF EntriesOK, Entry
    <3>2. entry[c].ready = FALSE BY <2>1 DEF NewEntry
    <3> QED BY <3>1, <3>2 DEF EntryOK, EntryType, Fill, Socket
  <2>3. entry' = [entry EXCEPT ![c] = x] BY <1>7
  <2>4. EntriesOK' /\ entry'[c] = x /\ \A d \in Entry \ {c} : entry'[d] = entry[d]
    <3> HIDE DEF x
    <3> QED BY <1>1, <1>2, <2>2, <2>3, OneEntryChanges DEF Entry
  <2>5. cache' \in [Call -> Entry \cup {NoEntry}] /\ cache'[c] = c
        /\ \A d \in Call \ {c} : cache'[d] = cache[d]
    BY <1>1, <1>2, <1>7 DEF Entry
  <2>6. RefsOK' BY <1>1, <1>3, <2>5 DEF RefsOK, WaitsForOne
  <2>7. TypeInv' BY <1>5, <2>4, <2>6, TypePartsNext
  <2>8. \A h \in Handler, e \in Entry :
          (Reaches(h, e)' <=> Reaches(h, e)) /\ (Waits(h, e)' <=> Waits(h, e))
          /\ (Holds(h, e)' <=> Holds(h, e))
    BY <1>3 DEF Reaches, Waits, Holds
  <2>9. \A h \in Handler : ~Reaches(h, c) /\ ~Waits(h, c) /\ ~Holds(h, c)
    BY <2>1 DEF Known, Reaches, Waits, Holds
  <2>10. \A d \in Call : cache[d] # c BY <2>1 DEF Known
  <2>11. \A e \in Entry \ {c} : Known(e)' => Known(e)
    BY <2>5, <2>8 DEF Known
  <2>12. UsersInv'
    <3>1. OneKey' BY <1>1, <2>5, <2>10 DEF UsersInv, OneKey
    <3>2. OneReader' BY <1>1, <2>8 DEF UsersInv, OneReader
    <3>3. HeldIsOut' BY <1>1, <2>5, <2>8, <2>9 DEF UsersInv, HeldIsOut
    <3>4. WaitsUnderItsSid' BY <1>1, <2>5, <2>8, <2>9 DEF UsersInv, WaitsUnderItsSid
    <3>5. FreshIsUnknown' BY <1>1, <1>3, <1>4, <2>11 DEF UsersInv, FreshIsUnknown, Prewarms
    <3> QED BY <3>1, <3>2, <3>3, <3>4, <3>5 DEF UsersInv
  <2>13. EntriesInv'
    <3>1. UsableIsConnected'
      <4> SUFFICES ASSUME NEW e \in Entry, Usable(e)', Known(e)' PROVE Connected(e)'
        BY DEF UsableIsConnected
      <4>1. e # c BY <2>2, <2>4 DEF Usable
      <4>2. entry'[e] = entry[e] /\ Known(e) BY <2>4, <2>11, <4>1
      <4> QED BY <1>1, <1>3, <4>2 DEF EntriesInv, UsableIsConnected, Usable, Connected
    <3>2. HeldIsUsable'
      <4> SUFFICES ASSUME NEW e \in Entry, NEW h \in Handler, Holds(h, e)' PROVE Usable(e)'
        BY DEF HeldIsUsable
      <4>1. Holds(h, e) /\ e # c BY <2>8, <2>9
      <4>2. entry'[e] = entry[e] BY <2>4, <4>1
      <4> QED BY <1>1, <4>1, <4>2 DEF EntriesInv, HeldIsUsable, Usable
    <3>3. ClosersAreReady'
      <4>1. c \notin closers BY <1>1, <2>1 DEF EntriesInv, ClosersAreReady, NewEntry
      <4> QED BY <1>1, <1>3, <2>4, <4>1 DEF EntriesInv, ClosersAreReady
    <3>4. FreshIsNew'
      <4> SUFFICES ASSUME NEW e \in Entry, NEW q \in posts', Prewarms(q, e)
                   PROVE  entry'[e] = NewEntry
        BY DEF FreshIsNew, Prewarms, NewEntry
      <4>1. q \in posts /\ e # c BY <1>3, <1>4
      <4> QED BY <1>1, <2>4, <4>1 DEF EntriesInv, FreshIsNew
    <3> QED BY <3>1, <3>2, <3>3, <3>4 DEF EntriesInv
  <2> QED BY <2>7, <2>12, <2>13 DEF ServicesInv
<1> QED BY <1>6, <1>7 DEF PrewarmCall

(* An entry moves to another key and stays where it is known.               *)
LEMMA ReassignStep == ASSUME ServicesInv, NEW p \in posts, ReassignPrewarm(p) PROVE ServicesInv'
<1> DEFINE o == p.call   c == p.to
<1>1. /\ StateOK /\ RefsOK /\ EntriesOK /\ closers \subseteq Entry /\ posts \subseteq Request
      /\ cache \in [Call -> Entry \cup {NoEntry}]
      /\ UsersInv /\ EntriesInv
  BY TypeParts DEF ServicesInv, RefsOK
<1>2. o \in Call /\ c \in Call /\ o \notin Sids BY <1>1, RequestType DEF ReassignPrewarm
<1>3. posts' \subseteq posts /\ entry' = entry /\ closers' = closers
      /\ UNCHANGED <<available, active, handler>>
  BY DEF ReassignPrewarm, Received
<1>4. StateOK' /\ posts' \subseteq Request /\ closers' \subseteq Entry
  BY <1>1, <1>2, <1>3 DEF ReassignPrewarm, StateOK
<1>5. \/ cache' = cache
      \/ cache[o] \in Entry /\ cache' = [cache EXCEPT ![o] = NoEntry, ![c] = cache[o]]
  BY <1>1, <1>2 DEF ReassignPrewarm
<1>6. /\ cache' \in [Call -> Entry \cup {NoEntry}]
      /\ \A d \in Call : \/ cache'[d] = cache[d] \/ cache'[d] = NoEntry
                         \/ d = c /\ cache'[d] = cache[o]
  BY <1>1, <1>2, <1>5 DEF ReassignPrewarm
<1>7. RefsOK' /\ EntriesOK' BY <1>1, <1>3, <1>6 DEF RefsOK, WaitsForOne, EntriesOK
<1>8. TypeInv' BY <1>4, <1>7, TypePartsNext
<1>9. \A h \in Handler, e \in Entry :
        (Reaches(h, e)' <=> Reaches(h, e)) /\ (Waits(h, e)' <=> Waits(h, e))
        /\ (Holds(h, e)' <=> Holds(h, e))
  BY <1>3 DEF Reaches, Waits, Holds
<1>10. \A e \in Entry : Known(e)' => Known(e) BY <1>2, <1>6, <1>9 DEF Known, Entry
<1>11. UsersInv'
  <2>1. OneKey'
    <3>1. \A d, g \in Call : cache[d] \in Entry /\ cache[d] = cache[g] => d = g
      BY <1>1 DEF UsersInv, OneKey
    <3> QED BY <1>1, <1>2, <1>5, <3>1 DEF OneKey, Entry
  <2>2. OneReader' BY <1>1, <1>9 DEF UsersInv, OneReader
  <2>3. HeldIsOut' BY <1>1, <1>2, <1>6, <1>9 DEF UsersInv, HeldIsOut, Entry
  <2>4. WaitsUnderItsSid'
    <3> SUFFICES ASSUME NEW e \in Entry, NEW h \in Handler, NEW d \in Call,
                        Waits(h, e)', cache'[d] = e
                 PROVE  d = SidOf[h]
      BY DEF WaitsUnderItsSid
    <3>1. Waits(h, e) BY <1>9
    <3>2. SidOf[h] # o BY <1>2 DEF Sids
    <3>3. cache[o] # e BY <1>1, <1>2, <3>1, <3>2 DEF UsersInv, WaitsUnderItsSid
    <3>4. cache[d] = e BY <1>6, <3>3 DEF Entry
    <3> QED BY <1>1, <3>1, <3>4 DEF UsersInv, WaitsUnderItsSid
  <2>5. FreshIsUnknown' BY <1>1, <1>3, <1>10 DEF UsersInv, FreshIsUnknown, Prewarms
  <2> QED BY <2>1, <2>2, <2>3, <2>4, <2>5 DEF UsersInv
<1>12. EntriesInv'
  <2>1. {} \in SUBSET Entry OBVIOUS
  <2> QED BY <1>1, <1>3, <1>4, <1>9, <1>10, <2>1, EntriesChange
<1> QED BY <1>8, <1>11, <1>12 DEF ServicesInv

-----------------------------------------------------------------------------
(* Steps of the handlers.                                                   *)

(* A handler moves on without an entry, and the entries stay as they are.   *)
LEMMA HandlerMoves ==
    ASSUME ServicesInv, NEW h \in Handler, NEW at \in At, NEW d \in Entry \cup {NoEntry},
           At1(h, at, d), StateOK', UNCHANGED <<cache, entry, closers, posts>>,
           at # "waiting",
           \A e \in Entry : Reaches(h, e)' => Holds(h, e)
    PROVE  ServicesInv'
<1>1. /\ RefsOK /\ EntriesOK /\ closers \subseteq Entry /\ posts \subseteq Request
      /\ handler \in [Handler -> HandlerType] /\ UsersInv /\ EntriesInv
  BY TypeParts DEF ServicesInv, RefsOK
<1>2. /\ handler' \in [Handler -> HandlerType]
      /\ handler'[h] = [at |-> at, uses |-> d]
      /\ \A g \in Handler \ {h} : handler'[g] = handler[g]
  BY <1>1, At1Outcome
<1>3. RefsOK' /\ EntriesOK' BY <1>1, <1>2 DEF RefsOK, WaitsForOne, EntriesOK
<1>4. TypeInv' BY <1>1, <1>3, TypePartsNext
<1>5. \A g \in Handler, e \in Entry :
        Reaches(g, e)' => Reaches(g, e) /\ (Waits(g, e)' <=> Waits(g, e))
  <2> TAKE g \in Handler, e \in Entry
  <2>1. CASE g = h BY <1>2, <2>1 DEF Reaches, Waits, Holds
  <2>2. CASE g # h BY <1>2, <2>2 DEF Reaches, Waits
  <2> QED BY <2>1, <2>2
<1>6. /\ UsersInv' /\ \A e \in Entry : Known(e)' => Known(e)
      /\ \A g \in Handler, e \in Entry : Holds(g, e)' => Holds(g, e)
  BY <1>1, <1>5, FewerUsers
<1>7. EntriesInv'
  <2>1. {} \in SUBSET Entry OBVIOUS
  <2> QED BY <1>1, <1>6, <2>1, EntriesChange
<1> QED BY <1>4, <1>6, <1>7 DEF ServicesInv

LEMMA ParseFailsStep == ASSUME ServicesInv, NEW h \in Handler, ParseFails(h) PROVE ServicesInv'
<1>1. StateOK' BY TypeParts DEF ServicesInv, ParseFails, stateVars, StateOK
<1>2. handler \in [Handler -> HandlerType] BY TypeParts DEF ServicesInv, RefsOK
<1>3. At1(h, "stray", NoEntry) /\ UNCHANGED <<cache, entry, closers, posts>> /\ "stray" \in At
  BY DEF ParseFails, At
<1>4. handler'[h].at = "stray" BY <1>2, <1>3, At1Outcome
<1> QED BY <1>1, <1>3, <1>4, HandlerMoves DEF Reaches

LEMMA ResolveConfigStep ==
    ASSUME ServicesInv, NEW h \in Handler, ResolveConfig(h) PROVE ServicesInv'
<1>1. StateOK' BY TypeParts DEF ServicesInv, ResolveConfig, stateVars, StateOK
<1>2. handler \in [Handler -> HandlerType] BY TypeParts DEF ServicesInv, RefsOK
<1>3. PICK at \in {"building", "ending"} : At1(h, at, NoEntry) BY DEF ResolveConfig
<1>4. at \in At /\ at # "waiting" BY DEF At
<1>5. handler'[h].uses = NoEntry BY <1>2, <1>3, <1>4, At1Outcome
<1>6. UNCHANGED <<cache, entry, closers, posts>> BY DEF ResolveConfig
<1>7. \A e \in Entry : ~Reaches(h, e)' BY <1>5 DEF Reaches, Entry
<1> QED BY <1>1, <1>3, <1>4, <1>6, <1>7, HandlerMoves

LEMMA CreatePipelineStep ==
    ASSUME ServicesInv, NEW h \in Handler, CreatePipeline(h) PROVE ServicesInv'
<1>1. StateOK' BY TypeParts DEF ServicesInv, CreatePipeline, StateOK
<1>2. handler \in [Handler -> HandlerType] BY TypeParts DEF ServicesInv, RefsOK
<1>3. PICK at \in {"running", "broken"} : At1(h, at, handler[h].uses) BY DEF CreatePipeline
<1>4. at \in At /\ at # "waiting" /\ handler[h].uses \in Entry \cup {NoEntry}
  BY <1>2 DEF At, HandlerType
<1>5. handler'[h].uses = handler[h].uses BY <1>2, <1>3, <1>4, At1Outcome
<1>6. UNCHANGED <<cache, entry, closers, posts>> /\ handler[h].at = "building"
  BY DEF CreatePipeline
<1>7. \A e \in Entry : Reaches(h, e)' => Holds(h, e) BY <1>5, <1>6 DEF Reaches, Holds
<1> QED BY <1>1, <1>3, <1>4, <1>6, <1>7, HandlerMoves

LEMMA EndCallStep == ASSUME ServicesInv, NEW h \in Handler, EndCall(h) PROVE ServicesInv'
<1>1. StateOK' BY DEF EndCall, StateOK
<1>2. handler \in [Handler -> HandlerType] BY TypeParts DEF ServicesInv, RefsOK
<1>3. At1(h, "done", handler[h].uses) /\ UNCHANGED <<cache, entry, closers, posts>> /\ "done" \in At
  BY DEF EndCall, At
<1>4. handler[h].uses \in Entry \cup {NoEntry} BY <1>2 DEF HandlerType
<1>5. handler'[h].at = "done" BY <1>2, <1>3, <1>4, At1Outcome
<1> QED BY <1>1, <1>3, <1>4, <1>5, HandlerMoves DEF Reaches

(* The services that a pipeline ran on are closed by the one that had them. *)
LEMMA PipelineEndsStep ==
    ASSUME ServicesInv, NEW h \in Handler, PipelineEnds(h) PROVE ServicesInv'
<1> DEFINE u == handler[h].uses
<1>1. /\ StateOK /\ RefsOK /\ EntriesOK /\ closers \subseteq Entry /\ posts \subseteq Request
      /\ handler \in [Handler -> HandlerType] /\ UsersInv /\ EntriesInv
  BY TypeParts DEF ServicesInv, RefsOK
<1>2. /\ handler[h].at = "running" /\ At1(h, "ending", NoEntry) /\ "ending" \in At
      /\ UNCHANGED <<stateVars, cache, closers, posts>>
      /\ entry' = [e \in Entry |-> IF e = u THEN BothClosed(entry[e]) ELSE entry[e]]
  BY DEF PipelineEnds, At
<1>3. /\ handler' \in [Handler -> HandlerType]
      /\ handler'[h] = [at |-> "ending", uses |-> NoEntry]
      /\ \A g \in Handler \ {h} : handler'[g] = handler[g]
  BY <1>1, <1>2, At1Outcome
<1>4. ASSUME NEW e \in Entry PROVE EntryOK(entry'[e])
  <2>1. EntryOK(entry[e]) BY <1>1 DEF EntriesOK
  <2>2. EntryOK(BothClosed(entry[e])) BY <2>1, OneEntryOK
  <2>3. CASE e = u
    <3>1. entry'[e] = BothClosed(entry[e]) BY <1>2, <2>3
    <3> QED BY <2>2, <3>1
  <2>4. CASE e # u
    <3>1. entry'[e] = entry[e] BY <1>2, <2>4
    <3> QED BY <2>1, <3>1
  <2> QED BY <2>3, <2>4
<1>5. entry' \in [Entry -> EntryType]
  <2>1. \A e \in Entry : entry'[e] \in EntryType BY <1>4 DEF EntryOK
  <2> QED BY <1>2, <2>1
<1>6. EntriesOK' BY <1>4, <1>5 DEF EntriesOK
<1>7. StateOK' /\ RefsOK' BY <1>1, <1>2, <1>3 DEF StateOK, stateVars, RefsOK, WaitsForOne
<1>8. TypeInv' BY <1>1, <1>2, <1>6, <1>7, TypePartsNext
<1>9. \A g \in Handler, e \in Entry :
        Reaches(g, e)' => g # h /\ Reaches(g, e) /\ (Waits(g, e)' <=> Waits(g, e))
  <2> TAKE g \in Handler, e \in Entry
  <2>1. CASE g = h BY <1>3, <2>1 DEF Reaches
  <2>2. CASE g # h BY <1>3, <2>2 DEF Reaches, Waits
  <2> QED BY <2>1, <2>2
<1>10. /\ UsersInv' /\ \A e \in Entry : Known(e)' => Known(e)
       /\ \A g \in Handler, e \in Entry : Holds(g, e)' => Holds(g, e)
  BY <1>1, <1>2, <1>9, FewerUsers
<1> DEFINE es == {u} \cap Entry
<1>11. ASSUME NEW e \in es
       PROVE  /\ Usable(e)' /\ Known(e)' => Connected(e)'
              /\ \A g \in Handler : ~Holds(g, e)'
              /\ \A p \in posts : ~Prewarms(p, e)
              /\ e \in closers' => entry'[e].ready
  <2>1. e \in Entry /\ e = u /\ Holds(h, e) /\ Reaches(h, e)
    BY <1>2 DEF Holds, Reaches
  <2>2. \A g \in Handler : ~Reaches(g, e)'
    BY <1>1, <1>9, <2>1 DEF UsersInv, OneReader
  <2>3. \A g \in Handler : ~Holds(g, e)' BY <2>2 DEF Holds, Reaches
  <2>4. ~Known(e)' BY <1>1, <1>2, <2>1, <2>2 DEF Known, UsersInv, HeldIsOut
  <2>5. \A p \in posts : ~Prewarms(p, e)
    <3>1. Known(e) BY <2>1 DEF Known
    <3> QED BY <2>1, <3>1, NotFresh
  <2>6. e \notin closers
    <3>1. Usable(e) /\ Known(e) BY <1>1, <2>1 DEF EntriesInv, HeldIsUsable, Known
    <3> QED BY <1>1, <2>1, <3>1 DEF EntriesInv, UsableIsConnected, Connected
  <2> QED BY <1>2, <2>3, <2>4, <2>5, <2>6
<1>12. EntriesInv'
  <2>1. \A e \in Entry \ es : entry'[e] = entry[e] /\ (e \in closers' => e \in closers) BY <1>2
  <2>2. es \in SUBSET Entry /\ closers' \subseteq Entry /\ posts' \subseteq posts BY <1>1, <1>2
  <2> HIDE DEF es
  <2> QED BY <1>1, <1>10, <1>11, <2>1, <2>2, EntriesChange
<1> QED BY <1>8, <1>10, <1>12 DEF ServicesInv

(* An entry that a handler finds under its SID, or has waited for, is       *)
(* nobody else's.                                                           *)
Finds(h, e) == (handler[h].at = "new" /\ cache[SidOf[h]] = e) \/ Waits(h, e)

LEMMA FoundIsMine ==
    ASSUME ServicesInv, NEW h \in Handler, NEW e \in Entry, Finds(h, e)
    PROVE  /\ \A c \in Call : cache[c] = e => c = SidOf[h]
           /\ \A g \in Handler \ {h} : ~Reaches(g, e)
           /\ \A g \in Handler : ~Holds(g, e)
           /\ Known(e)
<1>1. UsersInv /\ SidOf[h] \in Call BY DEF ServicesInv
<1>2. CASE handler[h].at = "new" /\ cache[SidOf[h]] = e
  <2>1. \A c \in Call : cache[c] = e => c = SidOf[h] BY <1>1, <1>2 DEF UsersInv, OneKey
  <2>2. \A g \in Handler : ~Holds(g, e) BY <1>1, <1>2 DEF UsersInv, HeldIsOut
  <2>3. \A g \in Handler : Waits(g, e) => g = h
    <3>1. \A g \in Handler : Waits(g, e) => SidOf[g] = SidOf[h]
      BY <1>1, <1>2 DEF UsersInv, WaitsUnderItsSid
    <3> QED BY <3>1
  <2>4. \A g \in Handler : Reaches(g, e) => Waits(g, e) \/ Holds(g, e)
    BY DEF Reaches, Waits, Holds
  <2> QED BY <1>1, <1>2, <2>1, <2>2, <2>3, <2>4 DEF Known
<1>3. CASE Waits(h, e)
  <2>1. Reaches(h, e) /\ ~Holds(h, e) BY <1>3 DEF Waits, Reaches, Holds
  <2>2. \A g \in Handler \ {h} : ~Reaches(g, e) BY <1>1, <2>1 DEF UsersInv, OneReader
  <2>3. \A g \in Handler : Holds(g, e) => Reaches(g, e) BY DEF Holds, Reaches
  <2>4. \A c \in Call : cache[c] = e => c = SidOf[h]
    BY <1>1, <1>3 DEF UsersInv, WaitsUnderItsSid
  <2> QED BY <2>1, <2>2, <2>3, <2>4 DEF Known
<1> QED BY <1>2, <1>3 DEF Finds

LEMMA DecideStep ==
    ASSUME ServicesInv, NEW h \in Handler, NEW e \in Entry, Finds(h, e), Decide(h, e),
           StateOK', posts' = posts
    PROVE  ServicesInv'
<1>1. /\ closers \subseteq Entry /\ posts \subseteq Request /\ handler \in [Handler -> HandlerType]
      /\ cache \in [Call -> Entry \cup {NoEntry}] /\ UsersInv /\ EntriesInv
  BY TypeParts DEF ServicesInv, RefsOK
<1>2. /\ RefsOK' /\ EntriesOK' /\ closers' \subseteq Entry
      /\ cache' = [cache EXCEPT ![SidOf[h]] = NoEntry]
      /\ \/ At1(h, "building", e) /\ Usable(e) /\ UNCHANGED <<entry, closers>>
         \/ At1(h, "config", NoEntry)
      /\ \A d \in Entry \ {e} : entry'[d] = entry[d] /\ (d \in closers' <=> d \in closers)
      /\ \A d \in Entry : entry'[d].ready <=> entry[d].ready
      /\ \A d \in closers' \ closers : entry[d].ready
  BY DecideOutcome DEF ServicesInv
<1>3. TypeInv' BY <1>1, <1>2, TypePartsNext
<1>4. /\ \A c \in Call : cache[c] = e => c = SidOf[h]
      /\ \A g \in Handler \ {h} : ~Reaches(g, e)
      /\ \A g \in Handler : ~Holds(g, e)
      /\ Known(e)
  BY FoundIsMine
<1>5. /\ \A c \in Call : cache'[c] = cache[c] \/ cache'[c] = NoEntry
      /\ \A c \in Call : cache'[c] # e
  BY <1>1, <1>2, <1>4 DEF Entry
<1>6. \A p \in posts : ~Prewarms(p, e) BY <1>4, NotFresh
<1>7. CASE At1(h, "config", NoEntry)
  <2>1. /\ handler'[h].uses = NoEntry
        /\ \A g \in Handler \ {h} : handler'[g] = handler[g]
    <3>1. "config" \in At BY DEF At
    <3> QED BY <1>1, <1>7, <3>1, At1Outcome
  <2>2. \A g \in Handler, d \in Entry :
          Reaches(g, d)' => g # h /\ Reaches(g, d) /\ (Waits(g, d)' <=> Waits(g, d))
    <3> TAKE g \in Handler, d \in Entry
    <3>1. CASE g = h BY <2>1, <3>1 DEF Reaches, Entry
    <3>2. CASE g # h BY <2>1, <3>2 DEF Reaches, Waits
    <3> QED BY <3>1, <3>2
  <2>3. /\ UsersInv' /\ \A d \in Entry : Known(d)' => Known(d)
        /\ \A g \in Handler, d \in Entry : Holds(g, d)' => Holds(g, d)
    BY <1>1, <1>5, <2>2, FewerUsers
  <2>4. ~Known(e)' BY <1>4, <1>5, <2>2 DEF Known
  <2>5. \A g \in Handler : ~Holds(g, e)' BY <1>4, <2>3
  <2>6. e \in closers' => entry'[e].ready
    BY <1>1, <1>2 DEF EntriesInv, ClosersAreReady
  <2> DEFINE es == {e}
  <2>7. \A d \in es : /\ Usable(d)' /\ Known(d)' => Connected(d)'
                      /\ \A g \in Handler : ~Holds(g, d)'
                      /\ \A p \in posts : ~Prewarms(p, d)
                      /\ d \in closers' => entry'[d].ready
    BY <1>6, <2>4, <2>5, <2>6
  <2>8. \A d \in Entry \ es : entry'[d] = entry[d] /\ (d \in closers' => d \in closers)
    BY <1>2
  <2>9. es \in SUBSET Entry OBVIOUS
  <2>10. EntriesInv'
    <3> HIDE DEF es
    <3> QED BY <1>1, <1>2, <2>3, <2>7, <2>8, <2>9, EntriesChange
  <2> QED BY <1>3, <2>3, <2>10 DEF ServicesInv
<1>8. CASE At1(h, "building", e) /\ Usable(e) /\ UNCHANGED <<entry, closers>>
  <2>1. /\ handler'[h].at = "building" /\ handler'[h].uses = e
        /\ \A g \in Handler \ {h} : handler'[g] = handler[g]
    <3>1. "building" \in At BY DEF At
    <3> QED BY <1>1, <1>8, <3>1, At1Outcome
  <2>2. \A g \in Handler, d \in Entry :
          /\ Reaches(g, d)' => (g = h /\ d = e) \/ (Reaches(g, d) /\ g # h /\ d # e)
          /\ Holds(g, d)' => (g = h /\ d = e) \/ Holds(g, d)
          /\ Waits(g, d)' => Waits(g, d)
    <3> TAKE g \in Handler, d \in Entry
    <3>1. CASE g = h BY <2>1, <3>1 DEF Reaches, Waits, Holds
    <3>2. CASE g # h BY <1>4, <2>1, <3>2 DEF Reaches, Waits, Holds
    <3> QED BY <3>1, <3>2
  <2>3. \A d \in Entry : Known(d)' => Known(d)
    <3> SUFFICES ASSUME NEW d \in Entry, Known(d)' PROVE Known(d) OBVIOUS
    <3>1. CASE d = e BY <1>4, <3>1
    <3>2. CASE d # e BY <1>5, <2>2, <3>2 DEF Known, Entry
    <3> QED BY <3>1, <3>2
  <2>4. UsersInv'
    <3>1. OneKey' BY <1>1, <1>5 DEF UsersInv, OneKey, Entry
    <3>2. OneReader'
      <4> SUFFICES ASSUME NEW d \in Entry, NEW f \in Handler, NEW g \in Handler,
                          Reaches(f, d)', Reaches(g, d)'
                   PROVE  f = g
        BY DEF OneReader
      <4>1. CASE d = e BY <2>2, <4>1
      <4>2. CASE d # e BY <1>1, <2>2, <4>2 DEF UsersInv, OneReader
      <4> QED BY <4>1, <4>2
    <3>3. HeldIsOut'
      <4> SUFFICES ASSUME NEW d \in Entry, NEW g \in Handler, NEW c \in Call, Holds(g, d)'
                   PROVE  cache'[c] # d
        BY DEF HeldIsOut
      <4>1. CASE d = e BY <1>5, <4>1
      <4>2. CASE d # e BY <1>1, <1>5, <2>2, <4>2 DEF UsersInv, HeldIsOut, Entry
      <4> QED BY <4>1, <4>2
    <3>4. WaitsUnderItsSid' BY <1>1, <1>5, <2>2 DEF UsersInv, WaitsUnderItsSid, Entry
    <3>5. FreshIsUnknown' BY <1>1, <2>3 DEF UsersInv, FreshIsUnknown, Prewarms
    <3> QED BY <3>1, <3>2, <3>3, <3>4, <3>5 DEF UsersInv
  <2>5. EntriesInv'
    <3>1. UsableIsConnected'
      BY <1>1, <1>8, <2>3 DEF EntriesInv, UsableIsConnected, Usable, Connected
    <3>2. HeldIsUsable' BY <1>1, <1>8, <2>2 DEF EntriesInv, HeldIsUsable, Usable
    <3>3. ClosersAreReady' BY <1>1, <1>8 DEF EntriesInv, ClosersAreReady
    <3>4. FreshIsNew' BY <1>1, <1>8 DEF EntriesInv, FreshIsNew, Prewarms, NewEntry
    <3> QED BY <3>1, <3>2, <3>3, <3>4 DEF EntriesInv
  <2> QED BY <1>3, <2>4, <2>5 DEF ServicesInv
<1> QED BY <1>2, <1>7, <1>8

LEMMA WaitEndsStep == ASSUME ServicesInv, NEW h \in Handler, WaitEnds(h) PROVE ServicesInv'
<1> DEFINE e == handler[h].uses
<1>1. handler[h].at = "waiting" /\ Decide(h, e) /\ UNCHANGED <<stateVars, posts>>
  BY DEF WaitEnds
<1>2. e \in Entry /\ StateOK BY <1>1, TypeParts DEF ServicesInv, RefsOK, WaitsForOne
<1>3. Finds(h, e) BY <1>1 DEF Finds, Waits
<1>4. StateOK' BY <1>1, <1>2 DEF StateOK, stateVars
<1> HIDE DEF e
<1> QED BY <1>1, <1>2, <1>3, <1>4, DecideStep

LEMMA StartStep == ASSUME ServicesInv, NEW h \in Handler, Start(h) PROVE ServicesInv'
<1> DEFINE e == cache[SidOf[h]]
<1>1. /\ StateOK /\ RefsOK /\ EntriesOK /\ closers \subseteq Entry /\ posts \subseteq Request
      /\ handler \in [Handler -> HandlerType] /\ cache \in [Call -> Entry \cup {NoEntry}]
      /\ UsersInv /\ EntriesInv
  BY TypeParts DEF ServicesInv, RefsOK
<1>2. handler[h].at = "new" /\ current' = SidOf[h] /\ available' = FALSE
      /\ UNCHANGED <<active, posts>>
  BY DEF Start
<1>3. StateOK' BY <1>1, <1>2 DEF StateOK
<1>4. CASE e = NoEntry /\ At1(h, "config", NoEntry) /\ UNCHANGED <<cache, entry, closers>>
  <2>1. "config" \in At BY DEF At
  <2>2. handler'[h].uses = NoEntry
    <3>1. At1(h, "config", NoEntry) BY <1>4
    <3> HIDE DEF e
    <3> QED BY <1>1, <2>1, <3>1, At1Outcome
  <2>3. \A d \in Entry : ~Reaches(h, d)' BY <2>2 DEF Reaches, Entry
  <2> QED BY <1>2, <1>3, <1>4, <2>1, <2>3, HandlerMoves
<1>5. CASE e # NoEntry /\ Decide(h, e)
  <2>1. e \in Entry /\ Finds(h, e) BY <1>1, <1>2, <1>5 DEF Finds
  <2> HIDE DEF e
  <2> QED BY <1>2, <1>3, <1>5, <2>1, DecideStep
<1>6. CASE e # NoEntry /\ At1(h, "waiting", e) /\ UNCHANGED <<cache, entry, closers>>
  <2>1. e \in Entry /\ Finds(h, e) /\ "waiting" \in At BY <1>1, <1>2, <1>6 DEF Finds, At
  <2>2. /\ \A c \in Call : cache[c] = e => c = SidOf[h]
        /\ \A g \in Handler \ {h} : ~Reaches(g, e)
        /\ \A g \in Handler : ~Holds(g, e)
        /\ Known(e)
    <3> HIDE DEF e
    <3> QED BY <2>1, FoundIsMine
  <2>3. /\ handler' \in [Handler -> HandlerType]
        /\ handler'[h].at = "waiting" /\ handler'[h].uses = e
        /\ \A g \in Handler \ {h} : handler'[g] = handler[g]
    <3> HIDE DEF e
    <3> QED BY <1>1, <1>6, <2>1, At1Outcome
  <2>4. RefsOK' /\ EntriesOK' BY <1>1, <1>6, <2>1, <2>3 DEF RefsOK, WaitsForOne, EntriesOK
  <2>5. TypeInv' BY <1>1, <1>2, <1>3, <1>6, <2>4, TypePartsNext
  <2>6. \A g \in Handler, d \in Entry :
          /\ Reaches(g, d)' => (g = h /\ d = e) \/ (Reaches(g, d) /\ g # h /\ d # e)
          /\ Holds(g, d)' => Holds(g, d)
          /\ Waits(g, d)' => (g = h /\ d = e) \/ Waits(g, d)
    <3> TAKE g \in Handler, d \in Entry
    <3> HIDE DEF e
    <3>1. CASE g = h BY <2>3, <3>1 DEF Reaches, Waits, Holds
    <3>2. CASE g # h BY <2>2, <2>3, <3>2 DEF Reaches, Waits, Holds
    <3> QED BY <3>1, <3>2
  <2>7. \A d \in Entry : Known(d)' => Known(d)
    <3> HIDE DEF e
    <3> QED BY <1>6, <2>2, <2>6 DEF Known
  <2>8. UsersInv'
    <3> HIDE DEF e
    <3>1. OneKey' BY <1>1, <1>6 DEF UsersInv, OneKey
    <3>2. OneReader' BY <1>1, <2>6 DEF UsersInv, OneReader
    <3>3. HeldIsOut' BY <1>1, <1>6, <2>6 DEF UsersInv, HeldIsOut
    <3>4. WaitsUnderItsSid' BY <1>1, <1>6, <2>2, <2>6 DEF UsersInv, WaitsUnderItsSid
    <3>5. FreshIsUnknown' BY <1>1, <1>2, <2>7 DEF UsersInv, FreshIsUnknown, Prewarms
    <3> QED BY <3>1, <3>2, <3>3, <3>4, <3>5 DEF UsersInv
  <2>9. EntriesInv'
    <3>1. {} \in SUBSET Entry OBVIOUS
    <3> QED BY <1>1, <1>2, <1>6, <2>6, <2>7, <3>1, EntriesChange
  <2> QED BY <2>5, <2>8, <2>9 DEF ServicesInv
<1> QED BY <1>4, <1>5, <1>6 DEF Start

-----------------------------------------------------------------------------
LEMMA ServicesInit == Init => ServicesInv
<1> SUFFICES ASSUME Init PROVE ServicesInv OBVIOUS
<1> USE DEF Init
<1>1. \A h \in Handler, e \in Entry : ~Reaches(h, e) /\ ~Waits(h, e) /\ ~Holds(h, e)
  BY DEF Reaches, Waits, Holds
<1>2. \A e \in Entry : ~Known(e) BY <1>1 DEF Known, Entry
<1>3. StateOK /\ RefsOK BY DEF StateOK, RefsOK, WaitsForOne, HandlerType, At
<1>4. EntriesOK BY DEF EntriesOK, EntryOK, EntryType, NewEntry, Fill, Socket
<1>5. TypeInv BY <1>3, <1>4, TypeParts
<1>6. UsersInv BY <1>1, <1>2 DEF UsersInv, OneKey, OneReader, HeldIsOut, WaitsUnderItsSid,
                              FreshIsUnknown, Entry
<1>7. EntriesInv BY <1>1, <1>2 DEF EntriesInv, UsableIsConnected, HeldIsUsable,
                                ClosersAreReady, FreshIsNew
<1> QED BY <1>5, <1>6, <1>7 DEF ServicesInv

LEMMA ServicesStutter == ASSUME ServicesInv, UNCHANGED vars PROVE ServicesInv'
<1>1. StateOK' /\ RefsOK' /\ EntriesOK' /\ closers' \subseteq Entry /\ posts' \subseteq Request
  BY TypeParts DEF vars, ServicesInv, StateOK, RefsOK, WaitsForOne, EntriesOK
<1>2. TypeInv' BY <1>1, TypePartsNext
<1>3. /\ UsersInv' /\ \A e \in Entry : Known(e)' => Known(e)
      /\ \A h \in Handler, e \in Entry : Holds(h, e)' => Holds(h, e)
  BY HandlersStand, FewerUsers DEF vars, ServicesInv
<1>4. EntriesInv'
  <2>1. {} \in SUBSET Entry OBVIOUS
  <2> QED BY <1>1, <1>3, <2>1, EntriesChange DEF vars, ServicesInv
<1> QED BY <1>2, <1>3, <1>4 DEF ServicesInv

LEMMA ServicesStep == ASSUME ServicesInv, [Next]_vars PROVE ServicesInv'
<1>1. ASSUME NEW e \in Entry, FillStep(e) \/ Close(e) PROVE ServicesInv'
  BY <1>1, FillConfigStep, ServicePrewarmedStep, CloseCancelledStep, CloseStep DEF FillStep
<1>2. ASSUME NEW c \in Call, Expire(c) PROVE ServicesInv' BY <1>2, ExpireStep
<1>3. ASSUME NEW p \in posts, Receive(p) PROVE ServicesInv'
  BY <1>3, PrewarmStep, ReassignStep, CancelStep DEF Receive
<1>4. ASSUME NEW h \in Handler, HandlerStep(h) PROVE ServicesInv'
  BY <1>4, ParseFailsStep, StartStep, WaitEndsStep, ResolveConfigStep, CreatePipelineStep,
     PipelineEndsStep, EndCallStep DEF HandlerStep
<1>5. CASE CancelCurrentCall BY <1>5, PipelineEndsStep DEF CancelCurrentCall
<1>6. CASE UNCHANGED vars BY <1>6, ServicesStutter
<1> QED BY <1>1, <1>2, <1>3, <1>4, <1>5, <1>6 DEF Next

(* The worker's state keeps its types; an entry is ready only when its task *)
(* is done and both of its services were connected.                         *)
THEOREM WorkerTypeCorrect == Spec => []TypeOK
<1>1. ServicesInv => TypeOK BY DEF ServicesInv, TypeInv
<1> QED BY <1>1, ServicesInit, ServicesStep, PTL DEF Spec

(* Prewarmed services have one user, which finds them connected, however    *)
(* requests, expiry, waiting handlers and other calls interleave.           *)
THEOREM ServicesHaveOneUser == Spec => []OneUser
<1>1. ASSUME ServicesInv PROVE OneUser
  <2> SUFFICES ASSUME NEW e \in Entry, NEW h \in Handler, Holds(h, e)
               PROVE  /\ entry[e].stt = "open" /\ entry[e].tts = "open"
                      /\ e \notin closers /\ \A c \in Call : cache[c] # e
                      /\ \A g \in Handler : Holds(g, e) => g = h
    BY DEF OneUser
  <2>1. \A g \in Handler : Holds(g, e) => Reaches(g, e) BY DEF Holds, Reaches
  <2>2. Usable(e) /\ Known(e)
    BY <1>1, <2>1 DEF ServicesInv, EntriesInv, HeldIsUsable, Known
  <2>3. Connected(e) BY <1>1, <2>2 DEF ServicesInv, EntriesInv, UsableIsConnected
  <2>4. \A c \in Call : cache[c] # e BY <1>1 DEF ServicesInv, UsersInv, HeldIsOut
  <2>5. \A g \in Handler : Holds(g, e) => g = h
    BY <1>1, <2>1 DEF ServicesInv, UsersInv, OneReader
  <2> QED BY <2>3, <2>4, <2>5 DEF Connected
<1> QED BY <1>1, ServicesInit, ServicesStep, PTL DEF Spec

-----------------------------------------------------------------------------
(* Availability.  A worker that does not offer itself has a handler that    *)
(* will report back, and so has the pipeline that it can cancel.            *)

Busy(h) == handler[h].at \notin {"new", "done"}

AvailableInv ==
    /\ ~available => \E h \in Handler : Busy(h)
    /\ active # NoHandler => active \in Handler /\ Busy(active)

(* Handlers that do not come to their end keep busy.                        *)
LEMMA StaysBusy ==
    ASSUME AvailableInv, available' = available, active' = active,
           \A h \in Handler : Busy(h) => Busy(h)'
    PROVE  AvailableInv'
BY DEF AvailableInv

LEMMA AvailableStep == ASSUME AvailableInv, TypeInv, [Next]_vars PROVE AvailableInv'
<1>1. handler \in [Handler -> HandlerType] BY TypeParts DEF RefsOK
<1>2. ASSUME NEW h \in Handler, NEW at \in At \ {"new", "done"}, NEW e \in Entry \cup {NoEntry},
             At1(h, at, e)
      PROVE  Busy(h)' /\ \A g \in Handler : Busy(g) => Busy(g)'
  <2>1. handler'[h].at = at /\ \A g \in Handler \ {h} : handler'[g] = handler[g]
    BY <1>1, <1>2, At1Outcome
  <2>2. Busy(h)' BY <2>1 DEF Busy
  <2>3. \A g \in Handler \ {h} : Busy(g) => Busy(g)' BY <2>1 DEF Busy
  <2> QED BY <2>2, <2>3
<1>3. CASE UNCHANGED <<available, active, handler>> BY <1>3, StaysBusy DEF Busy
<1>4. ASSUME NEW h \in Handler, Start(h) PROVE AvailableInv'
  <2>1. PICK at \in At \ {"new", "done"}, e \in Entry \cup {NoEntry} : At1(h, at, e)
    <3>1. cache[SidOf[h]] \in Entry \cup {NoEntry} BY TypeParts DEF RefsOK
    <3> QED BY <1>4, <3>1 DEF Start, Decide, At
  <2>2. Busy(h)' /\ \A g \in Handler : Busy(g) => Busy(g)' BY <1>2, <2>1
  <2> QED BY <1>4, <2>2 DEF Start, AvailableInv
<1>5. ASSUME NEW h \in Handler,
             ParseFails(h) \/ WaitEnds(h) \/ ResolveConfig(h) \/ PipelineEnds(h)
      PROVE  AvailableInv'
  <2>1. PICK at \in At \ {"new", "done"}, e \in Entry \cup {NoEntry} : At1(h, at, e)
    <3>1. WaitEnds(h) => handler[h].uses \in Entry BY TypeParts DEF RefsOK, WaitsForOne, WaitEnds
    <3> QED BY <1>5, <3>1 DEF ParseFails, WaitEnds, ResolveConfig, PipelineEnds, Decide, At
  <2>2. \A g \in Handler : Busy(g) => Busy(g)' BY <1>2, <2>1
  <2>3. available' = available /\ active' = active
    BY <1>5 DEF ParseFails, WaitEnds, ResolveConfig, PipelineEnds, stateVars
  <2> QED BY <2>2, <2>3, StaysBusy
<1>6. ASSUME NEW h \in Handler, CreatePipeline(h) PROVE AvailableInv'
  <2>1. PICK at \in At \ {"new", "done"} : At1(h, at, handler[h].uses)
    BY <1>6 DEF CreatePipeline, At
  <2>2. handler[h].uses \in Entry \cup {NoEntry} BY <1>1 DEF HandlerType
  <2>3. Busy(h)' /\ \A g \in Handler : Busy(g) => Busy(g)' BY <1>2, <2>1, <2>2
  <2>4. available' = available /\ (active' = active \/ active' = h)
    BY <1>6 DEF CreatePipeline
  <2> QED BY <2>3, <2>4 DEF AvailableInv
<1>7. ASSUME NEW h \in Handler, EndCall(h) PROVE AvailableInv'
  BY <1>7 DEF EndCall, AvailableInv
<1>8. ASSUME NEW e \in Entry, FillStep(e) \/ Close(e) PROVE UNCHANGED <<available, active, handler>>
  BY <1>8 DEF FillStep, FillConfig, ServicePrewarmed, CloseCancelled, Close, stateVars
<1>9. ASSUME NEW c \in Call, Expire(c) PROVE UNCHANGED <<available, active, handler>>
  BY <1>9 DEF Expire, stateVars
<1>10. ASSUME NEW p \in posts, Receive(p) PROVE UNCHANGED <<available, active, handler>>
  BY <1>10 DEF Receive, PrewarmCall, ReassignPrewarm, CancelPrewarm, Received
<1>11. CASE CancelCurrentCall BY <1>5, <1>11 DEF CancelCurrentCall
<1>12. CASE UNCHANGED vars BY <1>3, <1>12 DEF vars, stateVars
<1> QED BY <1>3, <1>4, <1>5, <1>6, <1>7, <1>8, <1>9, <1>10, <1>11, <1>12 DEF Next, HandlerStep

(* A worker without a connection offers itself, and has no pipeline that a  *)
(* request to cancel could find, however its calls ended.                   *)
THEOREM IdleWorkersAreAvailable == Spec => []IdleIsAvailable
<1>1. Init => AvailableInv BY DEF Init, AvailableInv
<1>2. AvailableInv => IdleIsAvailable BY DEF AvailableInv, IdleIsAvailable, Idle, Busy
<1>3. ServicesInv => TypeInv BY DEF ServicesInv
<1> QED BY <1>1, <1>2, <1>3, AvailableStep, ServicesInit, ServicesStep, PTL DEF Spec

-----------------------------------------------------------------------------
(* The worker process as the runners see it.                                *)

Serving == [w \in {This} |-> current]

Warm == [w \in {This} |-> {c \in Call : cache[c] # NoEntry}]

OnAir == [w \in {This} |-> {SidOf[h] : h \in InCall}]

(* A step that leaves what the runners see is a stutter of WorkerProcess.   *)
LEMMA Unseen ==
    ASSUME UNCHANGED <<current, posts>>, \A c \in Call : cache'[c] = cache[c],
           \A h \in Handler : h \in InCall' <=> h \in InCall
    PROVE  UNCHANGED Process!workerVars
<1>1. Warm' = Warm BY DEF Warm
<1>2. InCall' = InCall BY DEF InCall
<1>3. OnAir' = OnAir BY <1>2 DEF OnAir
<1> QED BY <1>1, <1>3 DEF Process!workerVars, Warm, OnAir

(* Which prewarm entries the runners can see, after one key is cleared.     *)
LEMMA OneLessWarm ==
    ASSUME TypeInv, NEW c \in Call, cache' = [cache EXCEPT ![c] = NoEntry]
    PROVE  Warm' = [Warm EXCEPT ![This] = @ \ {c}]
<1>1. cache \in [Call -> Entry \cup {NoEntry}] BY TypeParts DEF RefsOK
<1>2. {d \in Call : cache'[d] # NoEntry} = {d \in Call : cache[d] # NoEntry} \ {c} BY <1>1
<1> QED BY <1>2 DEF Warm

(* The handlers in a call, after one of them moved.                         *)
LEMMA OneMoves ==
    ASSUME TypeInv, NEW h \in Handler, NEW at \in At, NEW e \in Entry \cup {NoEntry},
           At1(h, at, e)
    PROVE  /\ \A g \in Handler \ {h} : g \in InCall' <=> g \in InCall
           /\ h \in InCall' <=> at \notin {"new", "stray", "done"}
<1>1. handler \in [Handler -> HandlerType] BY TypeParts DEF RefsOK
<1>2. handler'[h].at = at /\ \A g \in Handler \ {h} : handler'[g] = handler[g]
  BY <1>1, At1Outcome
<1> QED BY <1>2 DEF InCall, At

LEMMA SeenReceive ==
    ASSUME TypeInv, NEW p \in posts, Receive(p) PROVE Process!Deliver(p)
<1>1. /\ p \in Request /\ p.call \in Call /\ (p.kind = "reassign" => p.to \in Call)
      /\ cache \in [Call -> Entry \cup {NoEntry}]
  BY TypeParts, RequestType DEF RefsOK
<1>2. /\ posts' = posts \ {p} /\ handler' = handler /\ p.kind \in {"prewarm", "reassign", "cancel"}
  BY DEF Receive, PrewarmCall, ReassignPrewarm, CancelPrewarm, Received
<1>3. OnAir' = OnAir BY <1>2 DEF OnAir, InCall
<1> DEFINE c == p.call   entries == Warm[This]
<1>4. entries = {d \in Call : cache[d] # NoEntry} /\ Serving[This] = current BY DEF Warm, Serving
<1>5. p.worker = This BY <1>1
<1>6. CASE PrewarmCall(p)
  <2>1. {d \in Call : cache'[d] # NoEntry} = entries \cup {c}
    BY <1>1, <1>4, <1>6 DEF PrewarmCall, Entry
  <2>2. current' = IF c \notin entries /\ current = NoCall THEN c ELSE current
    BY <1>1, <1>4, <1>6 DEF PrewarmCall
  <2>3. Warm' = [Warm EXCEPT ![This] = @ \cup {c}] BY <2>1 DEF Warm
  <2>4. Serving' = IF c \notin entries /\ Serving[This] = NoCall
                   THEN [Serving EXCEPT ![This] = c] ELSE Serving
    BY <1>4, <2>2 DEF Serving
  <2>5. p.kind = "prewarm" BY <1>6 DEF PrewarmCall
  <2> QED BY <1>2, <1>3, <1>5, <2>3, <2>4, <2>5
          DEF Process!Deliver, Process!Prewarm, Warm, Serving, OnAir
<1>7. CASE ReassignPrewarm(p)
  <2>1. p.kind = "reassign" BY <1>7 DEF ReassignPrewarm
  <2>2. {d \in Call : cache'[d] # NoEntry} =
            IF c \in entries THEN (entries \ {c}) \cup {p.to} ELSE entries
    BY <1>1, <1>4, <1>7, <2>1 DEF ReassignPrewarm, Entry
  <2>3. current' = IF current = c THEN p.to ELSE current BY <1>7 DEF ReassignPrewarm
  <2>4. Warm' = IF c \in entries THEN [Warm EXCEPT ![This] = (@ \ {c}) \cup {p.to}] ELSE Warm
    BY <1>4, <2>2 DEF Warm
  <2>5. Serving' = IF Serving[This] = c THEN [Serving EXCEPT ![This] = p.to] ELSE Serving
    BY <1>4, <2>3 DEF Serving
  <2> QED BY <1>2, <1>3, <1>5, <2>1, <2>4, <2>5
          DEF Process!Deliver, Process!ReassignPrewarm, Warm, Serving, OnAir
<1>8. CASE CancelPrewarm(p)
  <2>1. p.kind = "cancel" /\ cache' = [cache EXCEPT ![c] = NoEntry] BY <1>8 DEF CancelPrewarm
  <2>2. Warm' = [Warm EXCEPT ![This] = @ \ {c}] BY <1>1, <2>1, OneLessWarm
  <2>3. current' = IF c \in entries /\ current = c THEN NoCall ELSE current
    BY <1>1, <1>4, <1>8 DEF CancelPrewarm
  <2>4. Serving' = IF c \in entries /\ Serving[This] = c
                   THEN [Serving EXCEPT ![This] = NoCall] ELSE Serving
    BY <1>4, <2>3 DEF Serving
  <2> QED BY <1>2, <1>3, <1>5, <2>1, <2>2, <2>4
          DEF Process!Deliver, Process!CancelPrewarm, Warm, Serving, OnAir
<1> QED BY <1>6, <1>7, <1>8 DEF Receive

LEMMA SeenStart ==
    ASSUME TypeInv, NEW h \in Handler, Start(h) PROVE Process!StartCall(This, SidOf[h])
<1>1. /\ cache \in [Call -> Entry \cup {NoEntry}] /\ SidOf[h] \in Call
      /\ current' = SidOf[h] /\ posts' = posts
  BY TypeParts DEF RefsOK, Start
<1>2. PICK at \in At \ {"new", "stray", "done"}, e \in Entry \cup {NoEntry} : At1(h, at, e)
  BY <1>1 DEF Start, Decide, At
<1>3. {SidOf[g] : g \in InCall'} = {SidOf[g] : g \in InCall} \cup {SidOf[h]}
  <2>1. InCall' = InCall \cup {h} BY <1>2, OneMoves DEF InCall
  <2> QED BY <2>1
<1>4. OnAir' = [OnAir EXCEPT ![This] = @ \cup {SidOf[h]}] BY <1>3 DEF OnAir
<1>5. Serving' = [Serving EXCEPT ![This] = SidOf[h]] BY <1>1 DEF Serving
<1>6. cache' = cache \/ cache' = [cache EXCEPT ![SidOf[h]] = NoEntry] BY DEF Start, Decide
<1>7. Warm' = Warm \/ Warm' = [Warm EXCEPT ![This] = @ \ {SidOf[h]}]
  <2>1. CASE cache' = cache BY <2>1 DEF Warm
  <2>2. CASE cache' = [cache EXCEPT ![SidOf[h]] = NoEntry] BY <1>1, <2>2, OneLessWarm
  <2> QED BY <1>6, <2>1, <2>2
<1> QED BY <1>1, <1>4, <1>5, <1>7 DEF Process!StartCall, Warm, Serving, OnAir

LEMMA SeenClear ==
    ASSUME TypeInv, NEW c \in Call, cache' = [cache EXCEPT ![c] = NoEntry],
           UNCHANGED <<current, posts>>, \A h \in Handler : h \in InCall' <=> h \in InCall
    PROVE  Process!ExpirePrewarm(This, c) \/ UNCHANGED Process!workerVars
<1>1. cache \in [Call -> Entry \cup {NoEntry}] BY TypeParts DEF RefsOK
<1>2. CASE cache[c] = NoEntry
  <2>1. \A d \in Call : cache'[d] = cache[d] BY <1>1, <1>2
  <2> QED BY <2>1, Unseen
<1>3. CASE cache[c] # NoEntry
  <2>1. Warm' = [Warm EXCEPT ![This] = @ \ {c}] BY OneLessWarm
  <2>2. InCall' = InCall BY DEF InCall
  <2>3. OnAir' = OnAir BY <2>2 DEF OnAir
  <2>4. c \in Warm[This] BY <1>3 DEF Warm
  <2> QED BY <2>1, <2>3, <2>4 DEF Process!ExpirePrewarm, Warm, OnAir
<1> QED BY <1>2, <1>3

LEMMA SeenEnd ==
    ASSUME TypeInv, NEW h \in Handler, EndCall(h), handler[h].at # "stray"
    PROVE  Process!EndCall(This, SidOf[h])
<1>1. handler \in [Handler -> HandlerType] /\ At1(h, "done", handler[h].uses) /\ "done" \in At
  BY TypeParts DEF RefsOK, EndCall, At
<1>2. handler[h].uses \in Entry \cup {NoEntry} BY <1>1 DEF HandlerType
<1>3. h \in InCall BY DEF InCall, EndCall
<1>4. InCall' = InCall \ {h} BY <1>1, <1>2, OneMoves DEF InCall
<1>5. {SidOf[g] : g \in InCall'} = {SidOf[g] : g \in InCall} \ {SidOf[h]}
  <2>1. \A g \in InCall : SidOf[g] = SidOf[h] => g = h BY DEF InCall
  <2> QED BY <1>4, <2>1
<1>6. OnAir' = [OnAir EXCEPT ![This] = @ \ {SidOf[h]}] /\ SidOf[h] \in OnAir[This]
  BY <1>3, <1>5 DEF OnAir
<1>7. current' = NoCall /\ UNCHANGED <<cache, posts>> BY DEF EndCall
<1>8. Serving' = [Serving EXCEPT ![This] = NoCall] /\ Warm' = Warm BY <1>7 DEF Serving, Warm
<1> QED BY <1>6, <1>7, <1>8 DEF Process!EndCall, Warm, Serving, OnAir

LEMMA SeenStep ==
    ASSUME TypeInv, [Next]_vars PROVE ProcessStep \/ UNCHANGED Process!workerVars
<1>1. ASSUME NEW h \in Handler, NEW at \in At, NEW e \in Entry \cup {NoEntry}, At1(h, at, e),
             h \in InCall <=> at \notin {"new", "stray", "done"}
      PROVE  \A g \in Handler : g \in InCall' <=> g \in InCall
  BY <1>1, OneMoves
<1>2. handler \in [Handler -> HandlerType] BY TypeParts DEF RefsOK
<1>3. ASSUME NEW e \in Entry, FillStep(e) \/ Close(e) PROVE UNCHANGED Process!workerVars
  <2>1. UNCHANGED <<current, posts, cache, handler>>
    BY <1>3 DEF FillStep, FillConfig, ServicePrewarmed, CloseCancelled, Close, stateVars
  <2> QED BY <2>1, Unseen DEF InCall
<1>4. ASSUME NEW c \in Call, Expire(c)
      PROVE  Process!ExpirePrewarm(This, c) \/ UNCHANGED Process!workerVars
  BY <1>4, SeenClear DEF Expire, stateVars, InCall
<1>5. ASSUME NEW h \in Handler, ParseFails(h) PROVE UNCHANGED Process!workerVars
  <2>1. At1(h, "stray", NoEntry) /\ "stray" \in At /\ h \notin InCall
    BY <1>5 DEF ParseFails, At, InCall
  <2> QED BY <1>1, <1>5, <2>1, Unseen DEF ParseFails, stateVars
<1>6. ASSUME NEW h \in Handler, ResolveConfig(h) \/ CreatePipeline(h) \/ PipelineEnds(h)
      PROVE  UNCHANGED Process!workerVars
  <2>1. /\ h \in InCall
        /\ \E at \in At \ {"new", "stray", "done"}, e \in Entry \cup {NoEntry} : At1(h, at, e)
    <3>1. handler[h].uses \in Entry \cup {NoEntry} BY <1>2 DEF HandlerType
    <3> QED BY <1>6, <3>1 DEF ResolveConfig, CreatePipeline, PipelineEnds, At, InCall
  <2>2. UNCHANGED <<current, posts, cache>>
    BY <1>6 DEF ResolveConfig, CreatePipeline, PipelineEnds, stateVars
  <2> QED BY <1>1, <2>1, <2>2, Unseen
<1>7. ASSUME NEW h \in Handler, WaitEnds(h)
      PROVE  Process!ExpirePrewarm(This, SidOf[h]) \/ UNCHANGED Process!workerVars
  <2>1. /\ h \in InCall
        /\ \E at \in At \ {"new", "stray", "done"}, e \in Entry \cup {NoEntry} : At1(h, at, e)
    <3>1. handler[h].uses \in Entry BY <1>7, TypeParts DEF RefsOK, WaitsForOne, WaitEnds
    <3> QED BY <1>7, <3>1 DEF WaitEnds, Decide, At, InCall
  <2>2. \A g \in Handler : g \in InCall' <=> g \in InCall BY <1>1, <2>1
  <2>3. cache' = [cache EXCEPT ![SidOf[h]] = NoEntry] /\ UNCHANGED <<current, posts>>
    BY <1>7 DEF WaitEnds, Decide, stateVars
  <2>4. SidOf[h] \in Call OBVIOUS
  <2> QED BY <2>2, <2>3, <2>4, SeenClear
<1>8. ASSUME NEW h \in Handler, HandlerStep(h) PROVE ProcessStep \/ UNCHANGED Process!workerVars
  <2>1. SidOf[h] \in Call OBVIOUS
  <2>2. Start(h) => ProcessStep BY <2>1, SeenStart DEF ProcessStep
  <2>3. EndCall(h) => ProcessStep BY <2>1, SeenEnd DEF ProcessStep, StrayEnds
  <2>4. WaitEnds(h) => ProcessStep \/ UNCHANGED Process!workerVars
    BY <1>7, <2>1 DEF ProcessStep
  <2> QED BY <1>5, <1>6, <1>8, <2>2, <2>3, <2>4 DEF HandlerStep
<1>9. ASSUME NEW p \in posts, Receive(p) PROVE ProcessStep BY <1>9, SeenReceive DEF ProcessStep
<1>10. CASE CancelCurrentCall BY <1>6, <1>10 DEF CancelCurrentCall
<1>11. CASE UNCHANGED vars BY <1>11, Unseen DEF vars, stateVars, InCall
<1>12. ASSUME NEW c \in Call, Expire(c) PROVE ProcessStep \/ UNCHANGED Process!workerVars
  BY <1>4, <1>12 DEF ProcessStep
<1> QED BY <1>3, <1>8, <1>9, <1>10, <1>11, <1>12 DEF Next

(* What the model of the pool assumes of a worker is what one does: each of *)
(* its steps is one of WorkerProcess or not seen by the runners.            *)
THEOREM WorkerImplementsProcess == Spec => ImplementsProcess
<1>1. ServicesInv => TypeInv BY DEF ServicesInv
<1> QED BY <1>1, SeenStep, ServicesInit, ServicesStep, PTL DEF Spec, ImplementsProcess
=============================================================================
