--------------------------- MODULE CallOwnership ---------------------------
(***************************************************************************)
(* What the worker pool promises: a worker has at most one tenant, keeps   *)
(* it until that tenant's call is over, and a tenant may change its name   *)
(* once (an outbound call is reserved under a UUID before the provider     *)
(* gives it a SID).                                                        *)
(***************************************************************************)
CONSTANTS Worker, Call, NoCall,
          SidOf         \* the SID of the calls that are reserved first

VARIABLES tenant,       \* the call each worker is held for
          over          \* calls and reservations that have ended

ownershipVars == <<tenant, over>>

Init ==
    /\ tenant = [w \in Worker |-> NoCall]
    /\ over = {}

Occupy(w, c) ==
    /\ tenant[w] = NoCall
    /\ tenant' = [tenant EXCEPT ![w] = c]
    /\ UNCHANGED over

(* Only the end of the tenant's own call vacates a worker. *)
Vacate(w) ==
    /\ tenant[w] \in over
    /\ tenant' = [tenant EXCEPT ![w] = NoCall]
    /\ UNCHANGED over

Rename(w, o) ==
    /\ tenant[w] = o
    /\ tenant' = [tenant EXCEPT ![w] = SidOf[o]]
    /\ UNCHANGED over

End(c) ==
    /\ over' = over \cup {c}
    /\ UNCHANGED tenant

Next ==
    \/ \E w \in Worker, c \in Call : Occupy(w, c)
    \/ \E w \in Worker : Vacate(w)
    \/ \E w \in Worker, o \in DOMAIN SidOf : Rename(w, o)
    \/ \E c \in Call : End(c)

Spec == Init /\ [][Next]_ownershipVars
=============================================================================
