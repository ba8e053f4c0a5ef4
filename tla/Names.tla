------------------------------- MODULE Names -------------------------------
(* The names that the modules of the worker pool share. *)
CONSTANTS
    Worker,     \* instance ids of the worker processes
    Call,       \* call SIDs, and the UUIDs outbound calls are reserved under
    NoCall,     \* an empty current_call_sid
    NoWorker    \* an absent reverse mapping

ASSUME NamesAssumption == NoCall \notin Call /\ NoWorker \notin Worker
=============================================================================
