----------------------------- MODULE RedisState -----------------------------
(***************************************************************************)
(* The assignment state that all runner pods share in Redis                *)
(* (app/services/worker_pool/redis_state.py), and the four operations      *)
(* that change it.  Each Lua script is one atomic step on the server.      *)
(*                                                                         *)
(* hash[w]    current_call_sid of the HASH invorto:worker:state:{w};       *)
(*            NoCall when the field is absent or empty                     *)
(* callKey[c] the STRING invorto:worker:call:{c}, NoWorker when absent     *)
(*                                                                         *)
(* Two details are abstracted: the candidates' order (the script takes the *)
(* first free one, the model takes any), and the 24 h expiry of both keys, *)
(* which outlasts every call.                                              *)
(***************************************************************************)
EXTENDS Names

VARIABLES hash, callKey

redisVars == <<hash, callKey>>

RedisTypeOK ==
    /\ hash \in [Worker -> Call \cup {NoCall}]
    /\ callKey \in [Call -> Worker \cup {NoWorker}]

RedisInit ==
    /\ hash = [w \in Worker |-> NoCall]
    /\ callKey = [c \in Call |-> NoWorker]

IsFree(w) == hash[w] = NoCall

-----------------------------------------------------------------------------
(* A mutant of FindAndAssign: without the script's own test of the hash. *)
FindAndAssignUntested(cands, c, w) ==
    /\ w \in cands
    /\ hash' = [hash EXCEPT ![w] = c]
    /\ callKey' = [callKey EXCEPT ![c] = w]

(* _LUA_FIND_AND_ASSIGN: claim one free candidate for c. *)
FindAndAssign(cands, c, w) ==
    /\ w \in cands
    /\ IsFree(w)
    /\ hash' = [hash EXCEPT ![w] = c]
    /\ callKey' = [callKey EXCEPT ![c] = w]

(* _LUA_FIND_AND_ASSIGN returning false. *)
NoneFree(cands) == \A w \in cands : ~IsFree(w)

(* Mutants of ReleaseAssignment: one of the two writes is forgotten. *)
ReleaseHashOnly(w, c) ==
    /\ hash' = [hash EXCEPT ![w] = NoCall]
    /\ UNCHANGED callKey

ReleaseKeyOnly(w, c) ==
    /\ callKey' = [callKey EXCEPT ![c] = NoWorker]
    /\ UNCHANGED hash

(* _LUA_RELEASE_ASSIGNMENT: it never looks at whose call the hash holds. *)
ReleaseAssignment(w, c) ==
    /\ hash' = [hash EXCEPT ![w] = NoCall]
    /\ callKey' = [callKey EXCEPT ![c] = NoWorker]

(* clear_worker_state: HDEL without a call SID. *)
ClearWorkerState(w) ==
    /\ hash' = [hash EXCEPT ![w] = NoCall]
    /\ UNCHANGED callKey

(* A mutant of Reassign: the old key is not deleted. *)
ReassignKeepingOldKey(old, new, w) ==
    /\ hash' = [hash EXCEPT ![w] = new]
    /\ callKey' = [callKey EXCEPT ![new] = w]

(* _LUA_REASSIGN: DEL the old key, SET the new one, HSET the worker. *)
Reassign(old, new, w) ==
    /\ hash' = [hash EXCEPT ![w] = new]
    /\ callKey' = [callKey EXCEPT ![old] = NoWorker, ![new] = w]

=============================================================================
