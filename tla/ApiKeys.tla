------------------------------ MODULE ApiKeys ------------------------------
(***************************************************************************)
(* The API keys of one organisation: app/routes/api_keys.py over the       *)
(* tables organizations, org_api_keys and org_api_key_audit_logs, and the  *)
(* key check of app/core/auth.py.                                          *)
(*                                                                         *)
(* Every handler is a coroutine that awaits nothing, so a server runs one  *)
(* at a time; what interleaves is the transactions of several servers, one *)
(* action each.  Only create_api_key locks anything: the organisation row. *)
(***************************************************************************)
EXTENDS Naturals, FiniteSets

CONSTANTS
    Server,        \* runner processes that serve the API
    Key,           \* bound: rows that can ever be inserted
    KeyName,       \* names of keys, as LOWER(name) compares them
    Limit,         \* values of max_api_keys; 0 is no limit
    MaxActive,     \* max_active_api_keys; 0 is no limit
    NoServer

ASSUME ApiKeysAssumption ==
    /\ Limit \subseteq Nat /\ MaxActive \in Nat /\ NoServer \notin Server
    /\ IsFiniteSet(Key) /\ KeyName # {}

VARIABLES
    maxKeys,   \* max_api_keys of the organisation
    stored,    \* the keys that have a row in org_api_keys
    gone,      \* history: the keys whose row was deleted
    keys,      \* what the rows hold
    orgLock,   \* who holds the row lock on the organisation
    handler,   \* what the handler that runs on each server does next
    deletion   \* of each key: logged as deleted; "failed": the log could not be written

keysVars == <<maxKeys, stored, gone, keys, orgLock, handler, deletion>>

Same == "same"   \* a field that the request leaves as it is
Row == [name : KeyName, active : BOOLEAN, used : BOOLEAN, renamed : BOOLEAN]
Change == [name : KeyName, active : {Same}] \cup [name : {Same}, active : {"yes", "no"}]
Idle == [do |-> "idle"]

ActiveRows == {k \in stored : keys[k].active}

NewRow(name) == [name |-> name, active |-> TRUE, used |-> FALSE, renamed |-> FALSE]
Blank == NewRow(CHOOSE name \in KeyName : TRUE)   \* where there is no row

KeysInit ==
    /\ stored = {} /\ gone = {} /\ keys = [k \in Key |-> Blank] /\ orgLock = NoServer
    /\ handler = [s \in Server |-> Idle]
    /\ deletion = [k \in Key |-> "no"] /\ maxKeys \in Limit

Continue(s, h) == handler' = [handler EXCEPT ![s] = h]

-----------------------------------------------------------------------------
(* create_api_key *)

(* A mutant of LockOrganisation: the count is read without FOR UPDATE. *)
ReadOrganisation(s) == UNCHANGED orgLock

(* SELECT ... FROM organizations ... FOR UPDATE *)
LockOrganisation(s) == orgLock = NoServer /\ orgLock' = s

Unlock(s) == orgLock' = IF orgLock = s THEN NoServer ELSE orgLock

(* A mutant of WithinTotal: inactive keys do not count. *)
WithinActive == maxKeys > 0 => Cardinality(ActiveRows) < maxKeys

WithinTotal == maxKeys > 0 => Cardinality(stored) < maxKeys

NameTaken(name) == \E k \in stored : keys[k].name = name

(* The limit and the name are looked up under the lock; a refusal rolls     *)
(* back and releases it at once.                                            *)
CountKeys(s, name) ==
    /\ handler[s] = Idle
    /\ WithinTotal /\ ~NameTaken(name)
    /\ LockOrganisation(s)
    /\ Continue(s, [do |-> "insert", name |-> name])
    /\ UNCHANGED <<maxKeys, stored, gone, keys, deletion>>

(* The row is active at once, however many are; the commit ends the lock.   *)
InsertKey(s) ==
    /\ handler[s].do = "insert"
    /\ stored \cup gone # Key
    /\ LET k == CHOOSE k \in Key \ (stored \cup gone) : TRUE IN
       stored' = stored \cup {k} /\ keys' = [keys EXCEPT ![k] = NewRow(handler[s].name)]
    /\ Continue(s, Idle)
    /\ Unlock(s)
    /\ UNCHANGED <<maxKeys, gone, deletion>>

(* _write_audit, a transaction of its own whose failure is only logged: the *)
(* log of a deletion, which goes on from here.  The other logs end their    *)
(* handlers and are left out.                                               *)
WriteAudit(s) ==
    /\ handler[s].do = "audit"
    /\ LET k == handler[s].key IN
       /\ \/ deletion' = [deletion EXCEPT ![k] = "logged"]
          \/ deletion' = [deletion EXCEPT ![k] = IF @ = "no" THEN "failed" ELSE @]
       /\ Continue(s, [do |-> "delete", key |-> k])
    /\ UNCHANGED <<maxKeys, stored, gone, keys, orgLock>>

-----------------------------------------------------------------------------
(* update_api_key *)

(* An activation counts the other active keys first, in a transaction of    *)
(* its own and without a lock.                                              *)
CountActive(s, k, change) ==
    /\ handler[s] = Idle
    /\ change.active = "yes"
    /\ MaxActive > 0 => Cardinality(ActiveRows \ {k}) < MaxActive
    /\ Continue(s, [do |-> "update", key |-> k, change |-> change])
    /\ UNCHANGED <<maxKeys, stored, gone, keys, orgLock, deletion>>

(* UPDATE org_api_keys; a name is taken as it comes, unchecked.             *)
Updated(row, change) ==
    [row EXCEPT !.name = IF change.name = Same THEN @ ELSE change.name,
                !.renamed = @ \/ change.name # Same,
                !.active = IF change.active = Same THEN @ ELSE change.active = "yes"]

UpdateRow(s, k, change) ==
    /\ IF k \in stored
       THEN keys' = [keys EXCEPT ![k] = Updated(@, change)]
       ELSE UNCHANGED keys
    /\ Continue(s, Idle)
    /\ UNCHANGED <<maxKeys, stored, gone, orgLock, deletion>>

Activate(s) == handler[s].do = "update" /\ UpdateRow(s, handler[s].key, handler[s].change)

Patch(s, k, change) ==
    /\ handler[s] = Idle
    /\ change.active # "yes"
    /\ UpdateRow(s, k, change)

-----------------------------------------------------------------------------
(* A mutant of FindForDeletion: the audit is left for after the delete. *)
DeleteUnaudited(s, k) ==
    /\ handler[s] = Idle /\ k \in stored
    /\ Continue(s, [do |-> "delete", key |-> k])
    /\ UNCHANGED <<maxKeys, stored, gone, keys, orgLock, deletion>>

(* delete_api_key: the row is looked up, its deletion is logged             *)
(* (WriteAudit), and then it is deleted, each in its own transaction.       *)
FindForDeletion(s, k) ==
    /\ handler[s] = Idle /\ k \in stored
    /\ Continue(s, [do |-> "audit", key |-> k])
    /\ UNCHANGED <<maxKeys, stored, gone, keys, orgLock, deletion>>

DeleteKey(s) ==
    /\ handler[s].do = "delete"
    /\ LET k == handler[s].key IN
       stored' = stored \ {k} /\ gone' = gone \cup {k} /\ keys' = [keys EXCEPT ![k] = Blank]
    /\ Continue(s, Idle)
    /\ UNCHANGED <<maxKeys, orgLock, deletion>>

(* rotate_api_key: another secret in the same row, not used so far.         *)
RotateKey(s, k) ==
    /\ handler[s] = Idle /\ k \in stored
    /\ keys' = [keys EXCEPT ![k].used = FALSE]
    /\ UNCHANGED <<maxKeys, stored, gone, orgLock, handler, deletion>>

-----------------------------------------------------------------------------
(* verify_org_api_key and verify_customer_api_key: the row with the hash of *)
(* the secret is looked up ...                                              *)
LookUpKey(s, k) ==
    /\ handler[s] = Idle
    /\ k \in stored /\ keys[k].active
    /\ Continue(s, [do |-> "use", key |-> k])
    /\ UNCHANGED <<maxKeys, stored, gone, keys, orgLock, deletion>>

(* ... and its last_used_at is set by id, whatever its secret is by now,    *)
(* unless that fails.                                                       *)
UseKey(s) ==
    /\ handler[s].do = "use"
    /\ LET k == handler[s].key IN
       \/ k \in stored /\ keys' = [keys EXCEPT ![k].used = TRUE]
       \/ UNCHANGED keys
    /\ Continue(s, Idle)
    /\ UNCHANGED <<maxKeys, stored, gone, orgLock, deletion>>

(* A server dies: the transaction that is open rolls back.                  *)
ServerDies(s) ==
    /\ handler[s] # Idle
    /\ Continue(s, Idle) /\ Unlock(s)
    /\ UNCHANGED <<maxKeys, stored, gone, keys, deletion>>

KeysNext ==
    \E s \in Server :
        \/ \E name \in KeyName : CountKeys(s, name)
        \/ InsertKey(s)
        \/ WriteAudit(s)
        \/ \E k \in Key, change \in Change : CountActive(s, k, change)
        \/ Activate(s)
        \/ \E k \in Key, change \in Change : Patch(s, k, change)
        \/ \E k \in Key : FindForDeletion(s, k)
        \/ DeleteKey(s)
        \/ \E k \in Key : RotateKey(s, k)
        \/ \E k \in Key : LookUpKey(s, k)
        \/ UseKey(s)
        \/ ServerDies(s)

KeysSpec == KeysInit /\ [][KeysNext]_keysVars

-----------------------------------------------------------------------------
HandlerState ==
    {Idle}
    \cup [do : {"insert"}, name : KeyName]
    \cup [do : {"audit", "delete", "use"}, key : Key]
    \cup [do : {"update"}, key : Key, change : Change]

(* Types, and who holds the lock: the server whose insert is under way.     *)
KeysTypeOK ==
    /\ stored \subseteq Key /\ gone \subseteq Key \ stored /\ keys \in [Key -> Row]
    /\ handler \in [Server -> HandlerState]
    /\ orgLock \in Server \cup {NoServer}
    /\ deletion \in [Key -> {"no", "logged", "failed"}] /\ maxKeys \in Limit

(* An organisation never has more keys than max_api_keys, whatever its      *)
(* servers create at the same time ("Count check and INSERT share one       *)
(* transaction to avoid TOCTOU race", api_keys.py:14).                      *)
TotalWithinLimit == maxKeys > 0 => Cardinality(stored) <= maxKeys

(* Two keys of one name: one of them was renamed, which nothing checks;     *)
(* creations never collide.                                                 *)
CreatedNamesDiffer ==
    \A k, m \in stored : k # m /\ keys[k].name = keys[m].name => keys[k].renamed \/ keys[m].renamed

(* What a creation has looked up still holds when it inserts, whichever     *)
(* servers create, rename, activate and delete at the same time: the total, *)
(* and that the name is new.                                                *)
CreationsAreChecked == TotalWithinLimit /\ CreatedNamesDiffer

(* A key that is gone has a log of it, but for a log that failed: the log   *)
(* is written first, so that no crash comes between.                        *)
DeletionIsAudited == \A k \in gone : deletion[k] # "no"

(* What the code does not keep; no run lists these.                         *)
(* max_active_api_keys: a creation does not look at it, and an activation   *)
(* reads the count in one transaction and updates in another.               *)
ActiveWithinLimit == MaxActive > 0 => Cardinality(ActiveRows) <= MaxActive

(* "Key name must be unique within an org" (api_keys.py:17): a rename is    *)
(* not compared with the other names.                                       *)
NamesDiffer == \A k, m \in stored : keys[k].name = keys[m].name => k = m
=============================================================================
