-------------------------- MODULE BackOfficeProofs --------------------------
(***************************************************************************)
(* Theorems about the components that BackOffice follows, for every number *)
(* of servers, keys, documents and words.                                  *)
(***************************************************************************)
EXTENDS BackOffice, FiniteSetTheorems, TLAPS

-----------------------------------------------------------------------------
(* API keys.  While the insert of a creation is under way, its server holds *)
(* the lock, so there is no other and the count it read has not grown; only *)
(* a rename can have taken its name.                                        *)
Pending(s) ==
    handler[s].do = "insert" =>
        /\ orgLock = s
        /\ maxKeys > 0 => Cardinality(stored) < maxKeys
        /\ \A k \in stored : keys[k].name = handler[s].name => keys[k].renamed

Logged(s) == handler[s].do = "delete" => deletion[handler[s].key] # "no"

KeysInv ==
    /\ KeysTypeOK
    /\ TotalWithinLimit /\ CreatedNamesDiffer /\ DeletionIsAudited
    /\ \A s \in Server : Pending(s) /\ Logged(s)

(* What the types of a handler say of its fields. *)
LEMMA HandlerFields ==
    ASSUME KeysTypeOK, NEW s \in Server
    PROVE  /\ handler[s].do \in {"idle", "insert", "audit", "delete", "use", "update"}
           /\ handler[s].do = "insert" => handler[s].name \in KeyName
           /\ handler[s].do \in {"audit", "delete", "use", "update"} => handler[s].key \in Key
           /\ handler[s].do = "update" => handler[s].change \in Change
<1>1. handler[s] \in HandlerState BY DEF KeysTypeOK
<1> QED BY <1>1 DEF HandlerState, Idle

LEMMA StoredIsFinite ==
    ASSUME KeysTypeOK PROVE IsFiniteSet(stored) /\ Cardinality(stored) \in Nat
<1>1. IsFiniteSet(stored) BY ApiKeysAssumption, FS_Subset DEF KeysTypeOK
<1> QED BY <1>1, FS_CardinalityType

LEMMA NewRowType == ASSUME NEW name \in KeyName PROVE NewRow(name) \in Row
BY DEF NewRow, Row

LEMMA BlankType == Blank \in Row
<1>1. (CHOOSE name \in KeyName : TRUE) \in KeyName BY ApiKeysAssumption
<1> QED BY <1>1, NewRowType DEF Blank

LEMMA KeysInitInv == ASSUME KeysInit PROVE KeysInv
<1>1. KeysTypeOK BY BlankType, ApiKeysAssumption DEF KeysInit, KeysTypeOK, HandlerState, Idle
<1>2. Cardinality(stored) = 0 BY FS_EmptySet DEF KeysInit
<1>3. maxKeys \in Nat BY ApiKeysAssumption DEF KeysInit
<1>4. TotalWithinLimit BY <1>2, <1>3 DEF TotalWithinLimit
<1>5. CreatedNamesDiffer /\ DeletionIsAudited BY DEF KeysInit, CreatedNamesDiffer, DeletionIsAudited
<1>6. \A s \in Server : Pending(s) /\ Logged(s) BY DEF KeysInit, Idle, Pending, Logged
<1> QED BY <1>1, <1>4, <1>5, <1>6 DEF KeysInv

(* A step that adds no row and no pending insert, and that changes the      *)
(* name of a row only to mark it as renamed, keeps the invariant.           *)
LEMMA NoNewRow ==
    ASSUME KeysInv, KeysTypeOK', maxKeys' = maxKeys, stored' \subseteq stored,
           \A k \in stored' : \/ keys'[k].renamed
                              \/ keys'[k].name = keys[k].name /\ keys'[k].renamed = keys[k].renamed,
           \A s \in Server : handler'[s].do = "insert" =>
                                handler'[s] = handler[s] /\ (orgLock = s => orgLock' = s),
           \A k \in gone' : deletion'[k] # "no",
           \A s \in Server : Logged(s)'
    PROVE  KeysInv'
<1> USE DEF KeysInv
<1>1. Cardinality(stored') \in Nat /\ Cardinality(stored') <= Cardinality(stored) /\ Cardinality(stored) \in Nat
  BY StoredIsFinite, FS_Subset, FS_CardinalityType
<1>2. maxKeys \in Nat BY ApiKeysAssumption DEF KeysTypeOK
<1>3. TotalWithinLimit' BY <1>1, <1>2 DEF TotalWithinLimit
<1>4. CreatedNamesDiffer' BY DEF CreatedNamesDiffer
<1>5. DeletionIsAudited' BY DEF DeletionIsAudited
<1>6. ASSUME NEW s \in Server PROVE Pending(s)'
  <2> SUFFICES ASSUME handler'[s].do = "insert" PROVE Pending(s)' BY DEF Pending
  <2>1. handler'[s] = handler[s] /\ Pending(s) OBVIOUS
  <2> QED BY <1>1, <1>2, <2>1 DEF Pending
<1> QED BY <1>3, <1>4, <1>5, <1>6

LEMMA KeysStep == ASSUME KeysInv, [KeysNext]_keysVars PROVE KeysInv'
<1> USE DEF KeysInv, Continue
<1>0. CASE UNCHANGED keysVars
  BY <1>0 DEF keysVars, KeysTypeOK, TotalWithinLimit, CreatedNamesDiffer, DeletionIsAudited, Pending, Logged
<1>1. ASSUME NEW s \in Server, NEW name \in KeyName, CountKeys(s, name) PROVE KeysInv'
  <2> USE <1>1 DEF CountKeys, LockOrganisation
  <2>1. KeysTypeOK' BY DEF KeysTypeOK, HandlerState
  <2>2. handler'[s] = [do |-> "insert", name |-> name] BY DEF KeysTypeOK
  <2>3. \A r \in Server \ {s} : handler'[r] = handler[r] BY DEF KeysTypeOK
  <2>4. \A r \in Server : handler[r].do # "insert" BY ApiKeysAssumption DEF Pending
  <2>5. \A r \in Server : Pending(r)' BY <2>2, <2>3, <2>4 DEF Pending, WithinTotal, NameTaken
  <2>6. \A r \in Server : Logged(r)' BY <2>2, <2>3 DEF Logged
  <2> QED BY <2>1, <2>5, <2>6 DEF TotalWithinLimit, CreatedNamesDiffer, DeletionIsAudited
<1>2. ASSUME NEW s \in Server, InsertKey(s) PROVE KeysInv'
  <2> DEFINE k == CHOOSE k \in Key \ (stored \cup gone) : TRUE
  <2> USE <1>2 DEF InsertKey, Unlock
  <2>1. k \in Key \ (stored \cup gone) BY DEF KeysTypeOK
  <2>2. NewRow(handler[s].name) \in Row /\ NewRow(handler[s].name).name = handler[s].name
    BY HandlerFields, NewRowType DEF NewRow
  <2> HIDE DEF k
  <2>3. stored' = stored \cup {k} /\ keys' = [keys EXCEPT ![k] = NewRow(handler[s].name)] BY DEF k
  <2>4. KeysTypeOK' BY <2>1, <2>2, <2>3 DEF KeysTypeOK, HandlerState
  <2>5. handler'[s] = Idle /\ \A r \in Server \ {s} : handler'[r] = handler[r] BY DEF KeysTypeOK
  <2>6. \A r \in Server : handler'[r].do # "insert" BY <2>5 DEF Pending, Idle
  <2>7. Pending(s) /\ Cardinality(stored) \in Nat /\ maxKeys \in Nat
    BY StoredIsFinite, ApiKeysAssumption DEF KeysTypeOK
  <2>8. Cardinality(stored') = Cardinality(stored) + 1 BY <2>1, <2>3, StoredIsFinite, FS_AddElement
  <2>9. TotalWithinLimit' BY <2>7, <2>8 DEF TotalWithinLimit, Pending
  <2>10. CreatedNamesDiffer' BY <2>1, <2>2, <2>3, <2>7 DEF CreatedNamesDiffer, Pending, KeysTypeOK
  <2>11. \A r \in Server : Logged(r)' BY <2>5 DEF Logged, Idle
  <2> QED BY <2>4, <2>6, <2>9, <2>10, <2>11 DEF DeletionIsAudited, Pending
<1>3. ASSUME NEW s \in Server, WriteAudit(s) PROVE KeysInv'
  <2> USE <1>3 DEF WriteAudit
  <2>1. handler[s].key \in Key BY HandlerFields
  <2>2. KeysTypeOK' BY <2>1 DEF KeysTypeOK, HandlerState
  <2>3. handler'[s] = [do |-> "delete", key |-> handler[s].key]
        /\ \A r \in Server \ {s} : handler'[r] = handler[r] BY DEF KeysTypeOK
  <2>4. \A k \in Key : deletion'[k] # "no" \/ (deletion'[k] = deletion[k] /\ k # handler[s].key)
    BY <2>1 DEF KeysTypeOK
  <2>5. \A r \in Server : Logged(r)' BY <2>1, <2>3, <2>4, HandlerFields DEF Logged
  <2>6. \A k \in gone' : deletion'[k] # "no" BY <2>4 DEF DeletionIsAudited, KeysTypeOK
  <2> QED BY <2>2, <2>3, <2>5, <2>6, NoNewRow
<1>4. ASSUME NEW s \in Server, NEW k \in Key, NEW change \in Change, CountActive(s, k, change) PROVE KeysInv'
  <2> USE <1>4 DEF CountActive
  <2>1. KeysTypeOK' BY DEF KeysTypeOK, HandlerState
  <2>2. handler'[s].do = "update" /\ \A r \in Server \ {s} : handler'[r] = handler[r] BY DEF KeysTypeOK
  <2>3. \A r \in Server : Logged(r)' BY <2>2 DEF Logged
  <2> QED BY <2>1, <2>2, <2>3, NoNewRow DEF DeletionIsAudited
<1>5. ASSUME NEW s \in Server, NEW k \in Key, NEW change \in Change, UpdateRow(s, k, change) PROVE KeysInv'
  <2> USE <1>5 DEF UpdateRow
  <2>1. ASSUME NEW row \in Row
        PROVE  /\ Updated(row, change) \in Row
               /\ \/ Updated(row, change).renamed
                  \/ Updated(row, change).name = row.name /\ Updated(row, change).renamed = row.renamed
    BY DEF Updated, Row, Change, Same
  <2>2. KeysTypeOK' BY <2>1 DEF KeysTypeOK, HandlerState
  <2>3. handler'[s] = Idle /\ \A r \in Server \ {s} : handler'[r] = handler[r] BY DEF KeysTypeOK
  <2>4. \A m \in stored' : \/ keys'[m].renamed
                           \/ keys'[m].name = keys[m].name /\ keys'[m].renamed = keys[m].renamed
    BY <2>1 DEF KeysTypeOK
  <2>5. \A r \in Server : Logged(r)' BY <2>3 DEF Logged, Idle
  <2> QED BY <2>2, <2>3, <2>4, <2>5, NoNewRow DEF DeletionIsAudited, Idle
<1>6. ASSUME NEW s \in Server, Activate(s) PROVE KeysInv'
  BY <1>5, <1>6, HandlerFields DEF Activate
<1>7. ASSUME NEW s \in Server, NEW k \in Key, NEW change \in Change, Patch(s, k, change) PROVE KeysInv'
  BY <1>5, <1>7 DEF Patch
<1>8. ASSUME NEW s \in Server, NEW k \in Key, FindForDeletion(s, k) PROVE KeysInv'
  <2> USE <1>8 DEF FindForDeletion
  <2>1. KeysTypeOK' BY DEF KeysTypeOK, HandlerState
  <2>2. handler'[s].do = "audit" /\ \A r \in Server \ {s} : handler'[r] = handler[r] BY DEF KeysTypeOK
  <2>3. \A r \in Server : Logged(r)' BY <2>2 DEF Logged
  <2> QED BY <2>1, <2>2, <2>3, NoNewRow DEF DeletionIsAudited
<1>9. ASSUME NEW s \in Server, DeleteKey(s) PROVE KeysInv'
  <2> USE <1>9 DEF DeleteKey
  <2>1. handler[s].key \in Key /\ deletion[handler[s].key] # "no" BY HandlerFields DEF Logged
  <2>2. KeysTypeOK' BY <2>1, BlankType DEF KeysTypeOK, HandlerState
  <2>3. handler'[s] = Idle /\ \A r \in Server \ {s} : handler'[r] = handler[r] BY DEF KeysTypeOK
  <2>4. \A m \in stored' : keys'[m] = keys[m] BY <2>1 DEF KeysTypeOK
  <2>5. \A r \in Server : Logged(r)' BY <2>3 DEF Logged, Idle
  <2>6. \A k \in gone' : deletion'[k] # "no" BY <2>1 DEF DeletionIsAudited
  <2> QED BY <2>2, <2>3, <2>4, <2>5, <2>6, NoNewRow DEF Idle
<1>10. ASSUME NEW s \in Server, NEW k \in Key, RotateKey(s, k) PROVE KeysInv'
  <2> USE <1>10 DEF RotateKey
  <2>1. KeysTypeOK' BY DEF KeysTypeOK, Row
  <2>2. \A m \in stored' : keys'[m].name = keys[m].name /\ keys'[m].renamed = keys[m].renamed
    BY DEF KeysTypeOK, Row
  <2>3. \A r \in Server : Logged(r)' BY DEF Logged
  <2> QED BY <2>1, <2>2, <2>3, NoNewRow DEF DeletionIsAudited
<1>11. ASSUME NEW s \in Server, NEW k \in Key, LookUpKey(s, k) PROVE KeysInv'
  <2> USE <1>11 DEF LookUpKey
  <2>1. KeysTypeOK' BY DEF KeysTypeOK, HandlerState
  <2>2. handler'[s].do = "use" /\ \A r \in Server \ {s} : handler'[r] = handler[r] BY DEF KeysTypeOK
  <2>3. \A r \in Server : Logged(r)' BY <2>2 DEF Logged
  <2> QED BY <2>1, <2>2, <2>3, NoNewRow DEF DeletionIsAudited
<1>12. ASSUME NEW s \in Server, UseKey(s) PROVE KeysInv'
  <2> USE <1>12 DEF UseKey
  <2>1. KeysTypeOK'
    <3>1. handler[s].key \in Key BY HandlerFields
    <3>2. \A row \in Row : [row EXCEPT !.used = TRUE] \in Row BY DEF Row
    <3>3. keys' \in [Key -> Row] BY <3>1, <3>2 DEF KeysTypeOK
    <3> QED BY <3>3 DEF KeysTypeOK, HandlerState
  <2>2. handler'[s] = Idle /\ \A r \in Server \ {s} : handler'[r] = handler[r] BY DEF KeysTypeOK
  <2>3. \A m \in stored' : keys'[m].name = keys[m].name /\ keys'[m].renamed = keys[m].renamed
    BY DEF KeysTypeOK, Row
  <2>4. \A r \in Server : Logged(r)' BY <2>2 DEF Logged, Idle
  <2> QED BY <2>1, <2>2, <2>3, <2>4, NoNewRow DEF DeletionIsAudited, Idle
<1>13. ASSUME NEW s \in Server, ServerDies(s) PROVE KeysInv'
  <2> USE <1>13 DEF ServerDies, Unlock
  <2>1. KeysTypeOK' BY DEF KeysTypeOK, HandlerState
  <2>2. handler'[s] = Idle /\ \A r \in Server \ {s} : handler'[r] = handler[r] BY DEF KeysTypeOK
  <2>3. \A r \in Server \ {s} : orgLock = r => orgLock' = r OBVIOUS
  <2>4. \A r \in Server : Logged(r)' BY <2>2 DEF Logged, Idle
  <2> QED BY <2>1, <2>2, <2>3, <2>4, NoNewRow DEF DeletionIsAudited, Idle
<1> QED
  BY <1>0, <1>1, <1>2, <1>3, <1>4, <1>6, <1>7, <1>8, <1>9, <1>10, <1>11, <1>12, <1>13
  DEF KeysNext

(* Whatever number of servers creates keys at the same time: there are no   *)
(* more than max_api_keys, and creations never give a name twice.           *)
THEOREM CreationsStayChecked == KeysSpec => []CreationsAreChecked
<1>1. KeysInit => KeysInv BY KeysInitInv
<1>2. KeysInv /\ [KeysNext]_keysVars => KeysInv' BY KeysStep
<1>3. KeysInv => CreationsAreChecked BY DEF KeysInv, CreationsAreChecked
<1> QED BY <1>1, <1>2, <1>3, PTL DEF KeysSpec

(* No key is deleted before its deletion has been logged, or the log has    *)
(* failed, wherever the server dies.                                        *)
THEOREM KeysLeaveALog == KeysSpec => []DeletionIsAudited
<1>1. KeysInit => KeysInv BY KeysInitInv
<1>2. KeysInv /\ [KeysNext]_keysVars => KeysInv' BY KeysStep
<1>3. KeysInv => DeletionIsAudited BY DEF KeysInv
<1> QED BY <1>1, <1>2, <1>3, PTL DEF KeysSpec
-----------------------------------------------------------------------------
(* Insights.  Until two requests to set a default overlap, there is one at  *)
(* most, and no default while it is under way.                              *)
AtMostOne == \A c, d \in defaults : c = d

DefaultsInv ==
    ~overlapped =>
        /\ AtMostOne
        /\ \A a \in Admin : Setting(a) => defaults = {}
        /\ \A a, b \in Admin : Setting(a) /\ Setting(b) => a = b

(* Of a submission: until it has been answered it has no job; its recording *)
(* is there from the upload until the database fails.                       *)
Consistent(r, answer, job, recordings) ==
    /\ answer \in {"received", "refused"} \cup Underway => job = NoJob
    /\ answer = "accepted" => job # NoJob
    /\ answer \in {"received", "upload", "failed"} => r \notin recordings
    /\ answer \in {"build", "submit", "enqueue", "accepted"} /\ r \in uploads => r \in recordings

AllConsistent == \A r \in Submission : Consistent(r, submission[r].do, jobs[r], objects)

InsightsInv == InsightsTypeOK /\ AllConsistent /\ DefaultsInv

LEMMA InsightsInitInv == ASSUME InsightsInit PROVE InsightsInv
BY DEF InsightsInit, InsightsInv, InsightsTypeOK, AdminState, SubmissionState, NoJob, Free, AllConsistent, Consistent,
       DefaultsInv, AtMostOne, Setting, Existing

(* What the types of the requests say of their fields, and where a step of  *)
(* one leads.                                                               *)
LEMMA AdminFields ==
    ASSUME InsightsTypeOK, NEW a \in Admin
    PROVE  /\ Free \in AdminState /\ [do |-> "insert"] \in AdminState
           /\ \A c \in Config : {[do |-> "set", config |-> c], [do |-> "delete", config |-> c]} \subseteq AdminState
           /\ admin[a].do \in {"set", "delete"} => admin[a].config \in Config
<1>1. admin[a] \in AdminState BY DEF InsightsTypeOK
<1> QED BY <1>1 DEF AdminState, Free

LEMMA SubmissionFields ==
    ASSUME InsightsTypeOK, NEW r \in Submission
    PROVE  /\ \A how \in Over \cup {"clean up"} : [do |-> how] \in SubmissionState
           /\ \A u \in Underway, c \in Config \cup {NoConfig} : [do |-> u, config |-> c] \in SubmissionState
           /\ submission[r].do \in Underway =>
                 /\ submission[r].config \in Config \cup {NoConfig}
                 /\ \A u \in Underway : [submission[r] EXCEPT !.do = u] \in SubmissionState
<1>1. submission[r] \in SubmissionState BY DEF InsightsTypeOK
<1>2. Underway \cap (Over \cup {"received", "clean up"}) = {} BY DEF Underway, Over
<1>3. ASSUME submission[r].do \in Underway
      PROVE  submission[r] \in [do : Underway, config : Config \cup {NoConfig}]
  BY <1>1, <1>2, <1>3 DEF SubmissionState
<1> QED BY <1>3 DEF SubmissionState

LEMMA GoesTo ==
    ASSUME InsightsTypeOK, NEW r \in Submission, NEW step \in SubmissionState, Goes(r, step)
    PROVE  /\ submission' \in [Submission -> SubmissionState] /\ submission'[r] = step
           /\ \A q \in Submission \ {r} : submission'[q] = submission[q]
BY DEF InsightsTypeOK, Goes

(* A step of a submission: the configurations are as they were, and so are  *)
(* the jobs and recordings of the others.                                   *)
LEMMA GoesOn ==
    ASSUME InsightsInv, NEW r \in Submission, NEW step \in SubmissionState, Goes(r, step),
           UNCHANGED <<uploads, unchangedConfigs>>,
           jobs' \in [Submission -> Config \cup {NoJob, NoConfig}],
           \A q \in Submission \ {r} : jobs'[q] = jobs[q],
           objects' \subseteq objects \cup ({r} \cap uploads), objects \ {r} \subseteq objects',
           Consistent(r, step.do, jobs'[r], objects'),
           step.do \in {"upload", "build"} => r \in uploads
    PROVE  InsightsInv'
<1>0. InsightsTypeOK /\ AllConsistent BY DEF InsightsInv
<1>1. InsightsTypeOK' BY <1>0, GoesTo DEF InsightsTypeOK, unchangedConfigs, Existing
<1>2. ASSUME NEW q \in Submission PROVE Consistent(q, submission'[q].do, jobs'[q], objects')
  <2>1. CASE q = r BY <1>0, <2>1, GoesTo
  <2>2. CASE q # r
    <3>1. submission'[q] = submission[q] BY <1>0, <2>2, GoesTo
    <3>2. Consistent(q, submission[q].do, jobs[q], objects) BY <1>0 DEF AllConsistent
    <3> QED BY <2>2, <3>1, <3>2 DEF Consistent
  <2> QED BY <2>1, <2>2
<1>3. AllConsistent' BY <1>2 DEF AllConsistent, Consistent
<1>4. DefaultsInv' BY DEF InsightsInv, unchangedConfigs, DefaultsInv, AtMostOne, Setting
<1> QED BY <1>1, <1>3, <1>4 DEF InsightsInv

(* The database fails under a submission: it has to clean up, or it has no  *)
(* recording.                                                               *)
LEMMA FailureLeads ==
    ASSUME InsightsInv, NEW r \in Submission, DatabaseFails(r),
           UNCHANGED <<uploads, objects, unchangedConfigs>>,
           jobs' \in [Submission -> Config \cup {NoJob, NoConfig}],
           \A q \in Submission \ {r} : jobs'[q] = jobs[q]
    PROVE  InsightsInv'
<1> DEFINE step == IF r \in uploads THEN [do |-> "clean up"] ELSE [do |-> "failed"]
<1>0. InsightsTypeOK /\ objects \subseteq uploads BY DEF InsightsInv, InsightsTypeOK
<1>1. step \in SubmissionState BY <1>0, SubmissionFields DEF Over
<1>2. step.do \in {"clean up", "failed"} /\ (step.do = "failed" => r \notin uploads) OBVIOUS
<1>3. Goes(r, step) BY DEF DatabaseFails, Ended
<1> HIDE DEF step
<1>4. Consistent(r, step.do, jobs'[r], objects') BY <1>0, <1>2 DEF Consistent, Underway
<1> QED BY <1>1, <1>2, <1>3, <1>4, GoesOn

(* A step of an administrator: no job comes or goes.                        *)
LEMMA AdminStep ==
    ASSUME InsightsInv, InsightsTypeOK', DefaultsInv', UNCHANGED <<submission, objects, uploads>>,
           \A r \in Submission : jobs'[r] = NoJob <=> jobs[r] = NoJob
    PROVE  InsightsInv'
BY DEF InsightsInv, InsightsTypeOK, AllConsistent, Consistent

LEMMA InsightsStep == ASSUME InsightsInv, [InsightsNext]_insightsVars PROVE InsightsInv'
<1> USE DEF InsightsInv, submissionVars, AdminDoes
<1>0. CASE UNCHANGED insightsVars
  BY <1>0 DEF insightsVars, InsightsTypeOK, AllConsistent, Consistent, DefaultsInv, AtMostOne, Setting,
              Existing
<1>1. ASSUME NEW a \in Admin, NEW c \in Config \cup {NoConfig}, BeginsToSet(a, c) PROVE InsightsInv'
  <2> USE <1>1 DEF BeginsToSet, UnsetDefaults
  <2> DEFINE step == IF c = NoConfig THEN [do |-> "insert"] ELSE [do |-> "set", config |-> c]
  <2>0. step \in AdminState BY AdminFields
  <2>1. InsightsTypeOK' BY <2>0 DEF InsightsTypeOK, Existing
  <2>2. Setting(a)' BY DEF Setting, InsightsTypeOK
  <2>3. \A b \in Admin \ {a} : Setting(b)' <=> Setting(b) BY DEF Setting, InsightsTypeOK
  <2>4. DefaultsInv' BY <2>2, <2>3 DEF DefaultsInv, AtMostOne
  <2> QED BY <2>1, <2>4, AdminStep
<1>2. ASSUME NEW a \in Admin, InsertsDefault(a) PROVE InsightsInv'
  <2> USE <1>2 DEF InsertsDefault
  <2>0. Free \in AdminState BY AdminFields
  <2>1. InsightsTypeOK' BY <2>0 DEF InsightsTypeOK, Existing, AddConfig
  <2>2. Setting(a) /\ ~Setting(a)' BY DEF Setting, InsightsTypeOK, Free
  <2>3. \A b \in Admin \ {a} : Setting(b)' <=> Setting(b) BY DEF Setting, InsightsTypeOK
  <2>4. DefaultsInv' BY <2>2, <2>3 DEF DefaultsInv, AtMostOne, AddConfig
  <2> QED BY <2>1, <2>4, AdminStep
<1>3. ASSUME NEW a \in Admin, InsertsPlain(a) PROVE InsightsInv'
  <2> USE <1>3 DEF InsertsPlain, AddConfig
  <2>1. InsightsTypeOK' BY DEF InsightsTypeOK, Existing
  <2>2. DefaultsInv' BY DEF DefaultsInv, AtMostOne, Setting
  <2> QED BY <2>1, <2>2, AdminStep
<1>4. ASSUME NEW a \in Admin, SetsDefault(a) PROVE InsightsInv'
  <2> USE <1>4 DEF SetsDefault
  <2>0. Free \in AdminState BY AdminFields
  <2>1. InsightsTypeOK' BY <2>0 DEF InsightsTypeOK, Existing
  <2>2. Setting(a) /\ ~Setting(a)' BY DEF Setting, InsightsTypeOK, Free
  <2>3. \A b \in Admin \ {a} : Setting(b)' <=> Setting(b) BY DEF Setting, InsightsTypeOK
  <2>4. DefaultsInv' BY <2>2, <2>3 DEF DefaultsInv, AtMostOne
  <2> QED BY <2>1, <2>4, AdminStep
<1>5. ASSUME NEW a \in Admin, NEW c \in Config, ClearsDefault(a, c) PROVE InsightsInv'
  <2> USE <1>5 DEF ClearsDefault
  <2>1. InsightsTypeOK' BY DEF InsightsTypeOK, Existing
  <2>2. DefaultsInv' BY DEF DefaultsInv, AtMostOne, Setting
  <2> QED BY <2>1, <2>2, AdminStep
<1>6. ASSUME NEW a \in Admin, NEW c \in Config, ChecksAnalyses(a, c) PROVE InsightsInv'
  <2> USE <1>6 DEF ChecksAnalyses
  <2>0. [do |-> "delete", config |-> c] \in AdminState BY AdminFields
  <2>1. InsightsTypeOK' BY <2>0 DEF InsightsTypeOK, Existing
  <2>2. \A b \in Admin : Setting(b)' => Setting(b) BY DEF Setting, InsightsTypeOK
  <2>3. DefaultsInv' BY <2>2 DEF DefaultsInv, AtMostOne
  <2> QED BY <2>1, <2>3, AdminStep
<1>7. ASSUME NEW a \in Admin, DeletesConfig(a) PROVE InsightsInv'
  <2> USE <1>7 DEF DeletesConfig
  <2>1. admin[a].config \in Config /\ Free \in AdminState BY AdminFields
  <2>2. InsightsTypeOK' BY <2>1 DEF InsightsTypeOK, Existing
  <2>3. \A b \in Admin : Setting(b)' => Setting(b) BY DEF Setting, InsightsTypeOK, Free
  <2>4. DefaultsInv' BY <2>3 DEF DefaultsInv, AtMostOne
  <2>5. \A r \in Submission : jobs'[r] = NoJob <=> jobs[r] = NoJob
    BY <2>1, InsightsAssumption DEF InsightsTypeOK
  <2> QED BY <2>2, <2>4, <2>5, AdminStep
<1>8. ASSUME NEW a \in Admin, AdminDies(a) PROVE InsightsInv'
  <2> USE <1>8 DEF AdminDies
  <2>0. Free \in AdminState BY AdminFields
  <2>1. InsightsTypeOK' BY <2>0 DEF InsightsTypeOK, Existing
  <2>2. \A b \in Admin : Setting(b)' => Setting(b) BY DEF Setting, InsightsTypeOK, Free
  <2>3. DefaultsInv' BY <2>2 DEF DefaultsInv, AtMostOne
  <2> QED BY <2>1, <2>3, AdminStep
<1> USE DEF Ended, unchangedConfigs, Existing
<1>j. jobs \in [Submission -> Config \cup {NoJob, NoConfig}] /\ objects \subseteq uploads
  BY DEF InsightsTypeOK
<1>k. ASSUME NEW r \in Submission PROVE Consistent(r, submission[r].do, jobs[r], objects)
  BY DEF AllConsistent
<1>9. ASSUME NEW r \in Submission, NEW named \in Config \cup {NoConfig}, ChecksRequest(r, named)
      PROVE InsightsInv'
  <2> DEFINE upload == [do |-> "upload", config |-> named]
             refused == [do |-> "refused"]
             failed == [do |-> "failed"]
  <2> USE <1>9 DEF ChecksRequest
  <2>1. /\ {upload, refused, failed} \subseteq SubmissionState
        /\ upload.do = "upload" /\ refused.do = "refused" /\ failed.do = "failed"
    BY SubmissionFields DEF Over, Underway
  <2>2. PICK step \in {upload, refused, failed} : Goes(r, step) BY DEF upload, refused, failed
  <2> HIDE DEF upload, refused, failed
  <2>3. Consistent(r, step.do, jobs[r], objects) BY <1>k, <2>1, <2>2 DEF Consistent, Underway
  <2> QED BY <1>j, <2>1, <2>2, <2>3, GoesOn
<1>10. ASSUME NEW r \in Submission, NEW named \in Config \cup {NoConfig}, SubmitsUrl(r, named)
       PROVE InsightsInv'
  <2> DEFINE step == [do |-> "submit", config |-> named]
  <2> USE <1>10 DEF SubmitsUrl
  <2>1. step \in SubmissionState /\ step.do = "submit" BY SubmissionFields DEF Underway
  <2> HIDE DEF step
  <2>2. Goes(r, step) BY DEF step
  <2>3. Consistent(r, step.do, jobs[r], objects) BY <1>k, <2>1 DEF Consistent, Underway
  <2> QED BY <1>j, <2>1, <2>2, <2>3, GoesOn
<1>11. ASSUME NEW r \in Submission, UploadsRecording(r) PROVE InsightsInv'
  <2> USE <1>11 DEF UploadsRecording
  <2> DEFINE next == [submission[r] EXCEPT !.do = "build"]
             refused == [do |-> "refused"]
  <2>1. next \in SubmissionState /\ refused \in SubmissionState
    BY SubmissionFields DEF Over, Underway
  <2>2. next.do = "build" /\ refused.do = "refused"
    <3>1. submission[r] \in SubmissionState /\ submission[r].do = "upload" BY DEF InsightsTypeOK
    <3> QED BY <3>1 DEF SubmissionState
  <2>3. \/ Goes(r, next) /\ objects' = objects \cup {r}
        \/ Goes(r, refused) /\ objects' \in {objects, objects \cup {r}}
    OBVIOUS
  <2>4. r \in uploads BY DEF InsightsTypeOK
  <2> HIDE DEF next, refused
  <2>5. jobs[r] = NoJob BY <1>k DEF Consistent, Underway
  <2>6. CASE Goes(r, next) /\ objects' = objects \cup {r}
    <3>1. Consistent(r, next.do, jobs[r], objects') BY <2>2, <2>5, <2>6 DEF Consistent
    <3> QED BY <1>j, <2>1, <2>2, <2>4, <2>6, <3>1, GoesOn
  <2>7. CASE Goes(r, refused) /\ objects' \in {objects, objects \cup {r}}
    <3>1. Consistent(r, refused.do, jobs[r], objects') BY <2>2, <2>5 DEF Consistent
    <3> QED BY <1>j, <2>1, <2>2, <2>4, <2>7, <3>1, GoesOn
  <2> QED BY <2>3, <2>6, <2>7
<1>12. ASSUME NEW r \in Submission, BuildsRequest(r) PROVE InsightsInv'
  <2> USE <1>12 DEF BuildsRequest
  <2> DEFINE next == [submission[r] EXCEPT !.do = "submit"]
             invalid == [do |-> "invalid"]
  <2>1. next \in SubmissionState /\ invalid \in SubmissionState
    BY SubmissionFields DEF Over, Underway
  <2>2. next.do = "submit" /\ invalid.do = "invalid"
    <3>1. submission[r] \in SubmissionState /\ submission[r].do = "build" BY DEF InsightsTypeOK
    <3> QED BY <3>1 DEF SubmissionState
  <2>3. PICK step \in {next, invalid} : Goes(r, step) BY DEF next, invalid
  <2> HIDE DEF next, invalid
  <2>4. Consistent(r, step.do, jobs[r], objects) BY <1>k, <2>2, <2>3 DEF Consistent, Underway
  <2> QED BY <1>j, <2>1, <2>2, <2>3, <2>4, GoesOn
<1>13. ASSUME NEW r \in Submission, FindsConfig(r) PROVE InsightsInv'
  <2>0. /\ submission[r].do = "submit" /\ UNCHANGED <<uploads, objects, jobs, unchangedConfigs>>
        /\ \/ \E c \in {submission[r].config} \cup defaults : Goes(r, [do |-> "enqueue", config |-> c])
           \/ Goes(r, [do |-> "refused"])
           \/ DatabaseFails(r)
    BY <1>13 DEF FindsConfig
  <2>1. \A c \in {submission[r].config} \cup defaults : [do |-> "enqueue", config |-> c] \in SubmissionState
    <3>1. submission[r].config \in Config \cup {NoConfig} /\ defaults \subseteq Config
      BY <2>0, SubmissionFields DEF Underway, InsightsTypeOK
    <3> QED BY <3>1, SubmissionFields DEF Underway
  <2>2. \A answer \in {"enqueue", "refused"} : Consistent(r, answer, jobs[r], objects)
    BY <1>k, <2>0 DEF Consistent, Underway
  <2>3. ASSUME NEW c \in {submission[r].config} \cup defaults, Goes(r, [do |-> "enqueue", config |-> c])
        PROVE  InsightsInv'
    <3> DEFINE step == [do |-> "enqueue", config |-> c]
    <3>1. step \in SubmissionState /\ step.do = "enqueue" /\ Goes(r, step) BY <2>1, <2>3
    <3> HIDE DEF step
    <3> QED BY <1>j, <2>0, <2>2, <3>1, GoesOn
  <2>4. CASE Goes(r, [do |-> "refused"])
    <3> DEFINE step == [do |-> "refused"]
    <3>1. step \in SubmissionState /\ step.do = "refused" /\ Goes(r, step)
      BY <2>4, SubmissionFields DEF Over
    <3> HIDE DEF step
    <3> QED BY <1>j, <2>0, <2>2, <3>1, GoesOn
  <2>5. CASE DatabaseFails(r) BY <1>j, <2>0, <2>5, FailureLeads
  <2> QED BY <2>0, <2>3, <2>4, <2>5
<1>14. ASSUME NEW r \in Submission, InsertsJob(r) PROVE InsightsInv'
  <2> DEFINE known == submission[r].config \in Existing
             step == IF known THEN [do |-> "accepted"] ELSE [do |-> "refused"]
  <2>0. submission[r].do = "enqueue" /\ UNCHANGED <<uploads, objects, unchangedConfigs>>
    BY <1>14 DEF InsertsJob
  <2>1. /\ step \in SubmissionState
        /\ (step.do = "accepted" /\ known) \/ (step.do = "refused" /\ ~known)
    BY SubmissionFields DEF Over
  <2>2. jobs' \in [Submission -> Config \cup {NoJob, NoConfig}]
    BY <1>j, <1>14 DEF InsertsJob
  <2>3. /\ \A q \in Submission \ {r} : jobs'[q] = jobs[q]
        /\ known => jobs'[r] # NoJob
        /\ ~known => jobs'[r] = jobs[r]
    BY <1>j, <1>14, InsightsAssumption DEF InsertsJob
  <2>4. Goes(r, step) BY <1>14 DEF step, InsertsJob
  <2>5. Consistent(r, "enqueue", jobs[r], objects) BY <1>k, <2>0
  <2> HIDE DEF step, known
  <2>6. Consistent(r, step.do, jobs'[r], objects) BY <2>1, <2>3, <2>5 DEF Consistent, Underway
  <2> QED BY <2>0, <2>1, <2>2, <2>3, <2>4, <2>6, GoesOn
<1>15. ASSUME NEW r \in Submission, InsertFails(r) PROVE InsightsInv'
  <2>1. DatabaseFails(r) /\ UNCHANGED <<uploads, objects, unchangedConfigs>>
    BY <1>15 DEF InsertFails
  <2>2. /\ jobs' \in [Submission -> Config \cup {NoJob, NoConfig}]
        /\ \A q \in Submission \ {r} : jobs'[q] = jobs[q]
    BY <1>j, <1>15 DEF InsertFails
  <2> QED BY <2>1, <2>2, FailureLeads
<1>16. ASSUME NEW r \in Submission, CleansUp(r) PROVE InsightsInv'
  <2> USE <1>16 DEF CleansUp
  <2> DEFINE cleaned == [do |-> "failed"]
             left == [do |-> "left behind"]
  <2>1. /\ cleaned \in SubmissionState /\ left \in SubmissionState
        /\ cleaned.do = "failed" /\ left.do = "left behind"
    BY SubmissionFields DEF Over
  <2>2. \/ Goes(r, cleaned) /\ objects' = objects \ {r}
        \/ Goes(r, left) /\ UNCHANGED objects
    OBVIOUS
  <2> HIDE DEF cleaned, left
  <2>3. CASE Goes(r, cleaned) /\ objects' = objects \ {r}
    <3>1. Consistent(r, cleaned.do, jobs[r], objects') BY <2>1, <2>3 DEF Consistent, Underway
    <3> QED BY <1>j, <2>1, <2>3, <3>1, GoesOn
  <2>4. CASE Goes(r, left) /\ UNCHANGED objects
    <3>1. Consistent(r, left.do, jobs[r], objects) BY <2>1 DEF Consistent, Underway
    <3> QED BY <1>j, <2>1, <2>4, <3>1, GoesOn
  <2> QED BY <2>2, <2>3, <2>4
<1>17. ASSUME NEW r \in Submission, SubmissionDies(r) PROVE InsightsInv'
  <2> USE <1>17 DEF SubmissionDies
  <2> DEFINE dead == [do |-> "dead"]
  <2>1. dead \in SubmissionState /\ dead.do = "dead" BY SubmissionFields DEF Over
  <2> HIDE DEF dead
  <2>2. Goes(r, dead) BY DEF dead
  <2>3. Consistent(r, dead.do, jobs[r], objects) BY <2>1 DEF Consistent, Underway
  <2> QED BY <1>j, <2>1, <2>2, <2>3, GoesOn
<1> QED
  BY <1>0, <1>1, <1>2, <1>3, <1>4, <1>5, <1>6, <1>7, <1>8, <1>9, <1>10, <1>11, <1>12, <1>13, <1>14,
     <1>15, <1>16, <1>17
  DEF InsightsNext

(* An organisation has one default configuration at most until two requests *)
(* to set one overlap, however many set, clear, delete or die.              *)
THEOREM DefaultIsUnique == InsightsSpec => []OneDefault
<1>1. InsightsInit => InsightsInv BY InsightsInitInv
<1>2. InsightsInv /\ [InsightsNext]_insightsVars => InsightsInv' BY InsightsStep
<1>3. AtMostOne => Cardinality(defaults) <= 1
  <2>1. CASE defaults = {} BY <2>1, FS_EmptySet
  <2>2. ASSUME AtMostOne, NEW c \in defaults PROVE Cardinality(defaults) <= 1
    <3>1. defaults = {c} BY <2>2 DEF AtMostOne
    <3> QED BY <3>1, FS_Singleton
  <2> QED BY <2>1, <2>2
<1>4. InsightsInv => OneDefault BY <1>3 DEF InsightsInv, DefaultsInv, OneDefault
<1> QED BY <1>1, <1>2, <1>4, PTL DEF InsightsSpec

(* However many submissions, deletions of configurations, failures of both  *)
(* stores and crashes: an accepted analysis is queued with its recording, a *)
(* refused one is not queued, and one that failed in the database has left  *)
(* no recording.                                                            *)
THEOREM AnswersStayTrue == InsightsSpec => []AnswersAreTrue
<1>1. InsightsInit => InsightsInv BY InsightsInitInv
<1>2. InsightsInv /\ [InsightsNext]_insightsVars => InsightsInv' BY InsightsStep
<1>3. InsightsInv => AnswersAreTrue BY DEF InsightsInv, AllConsistent, Consistent, AnswersAreTrue
<1> QED BY <1>1, <1>2, <1>3, PTL DEF InsightsSpec

-----------------------------------------------------------------------------
(* Documents.  Until its chunks are stored a document has none, and the     *)
(* windows that have been cut hold every word before start; after the last  *)
(* one they hold all.                                                       *)
Covers(windows, n) == \A w \in 0..(n - 1) : \E window \in windows : Holds(window, w)

Fits(windows) == \A window \in windows : window[2] - window[1] <= ChunkSize

DocumentInv(d) ==
    /\ ~Stored(d) => chunks[d] = {}
    /\ task[d] \notin {"over", "lost"} => chunks[d] = {}
    /\ task[d] \in {"none", "load", "mark"} => start[d] = 0 /\ cut[d] = {}
    /\ task[d] = "cut" => start[d] >= 0 /\ Covers(cut[d], start[d])
    /\ task[d] \in {"embed", "clear", "store"} => Covers(cut[d], words[d])
    /\ Fits(cut[d])
    /\ chunks[d] # {} => status[d] = "ready" /\ Covers(chunks[d], words[d]) /\ Fits(chunks[d])

KnowledgeInv == KnowledgeTypeOK /\ \A d \in Document : DocumentInv(d)

LEMMA KnowledgeInitInv == ASSUME KnowledgeInit PROVE KnowledgeInv
<1>1. KnowledgeTypeOK BY KnowledgeAssumption DEF KnowledgeInit, KnowledgeTypeOK, Task
<1>2. ASSUME NEW d \in Document PROVE DocumentInv(d)
  BY DEF KnowledgeInit, DocumentInv, Stored, Fits, Covers
<1> QED BY <1>1, <1>2 DEF KnowledgeInv

(* Another window from start to its end leaves no gap. *)
LEMMA OneMoreWindow ==
    ASSUME NEW windows, NEW from \in Int, NEW to \in Int, NEW n \in Int,
           from >= 0, n <= to, Covers(windows, from)
    PROVE  Covers(windows \cup {<<from, to>>}, n)
<1> SUFFICES ASSUME NEW w \in 0..(n - 1)
             PROVE  \E window \in windows \cup {<<from, to>>} : Holds(window, w)
  BY DEF Covers
<1>1. CASE w < from
  <2>1. PICK window \in windows : Holds(window, w) BY <1>1 DEF Covers
  <2> QED BY <2>1
<1>2. CASE w >= from
  <2> DEFINE last == <<from, to>>
  <2>1. last[1] = from /\ last[2] = to OBVIOUS
  <2>2. last[1] <= w /\ w < last[2] BY <1>2, <2>1
  <2>3. Holds(last, w) BY ONLY <2>2 DEF Holds
  <2> QED BY <2>3
<1> QED BY <1>1, <1>2

LEMMA KnowledgeStep == ASSUME KnowledgeInv, [KnowledgeNext]_documentVars PROVE KnowledgeInv'
<1> USE DEF KnowledgeInv
<1>0. CASE UNCHANGED documentVars
  BY <1>0 DEF documentVars, KnowledgeTypeOK, DocumentInv, Stored, Fits, Covers
<1>1. ASSUME NEW d \in Document, CreateDocument(d) PROVE KnowledgeInv'
  <2> USE <1>1 DEF CreateDocument, At
  <2>1. KnowledgeTypeOK' BY KnowledgeAssumption DEF KnowledgeTypeOK, Task, DocumentInv
  <2>2. ASSUME NEW c \in Document PROVE DocumentInv(c)'
    BY DEF KnowledgeTypeOK, DocumentInv, Stored, Fits, Covers
  <2> QED BY <2>1, <2>2
<1>2. ASSUME NEW d \in Document, LoadDocument(d) PROVE KnowledgeInv'
  <2> USE <1>2 DEF LoadDocument, At
  <2>1. KnowledgeTypeOK' BY DEF KnowledgeTypeOK, Task
  <2>2. ASSUME NEW c \in Document PROVE DocumentInv(c)'
    BY DEF KnowledgeTypeOK, DocumentInv, Stored, Fits, Covers
  <2> QED BY <2>1, <2>2
<1>3. ASSUME NEW d \in Document, CutChunk(d) PROVE KnowledgeInv'
  <2> DEFINE window == <<start[d], EndOf(d)>>
  <2> USE <1>3 DEF CutChunk, At
  <2>1. /\ start[d] \in Int /\ words[d] \in Nat /\ start[d] <= words[d] /\ start[d] >= 0
        /\ ChunkSize \in Nat \ {0} /\ overlap \in Nat
    <3>1. words[d] \in Nat /\ overlap \in Nat /\ ChunkSize \in Nat \ {0}
      <4>1. words[d] \in Length \cup {0} /\ overlap \in Overlap BY DEF KnowledgeTypeOK
      <4> QED BY <4>1, KnowledgeAssumption DEF KnowledgeAssumption
    <3>2. task[d] = "cut" /\ DocumentInv(d) OBVIOUS
    <3>3. start[d] >= 0 BY <3>2 DEF DocumentInv
    <3> QED BY <3>1, <3>3 DEF KnowledgeTypeOK
  <2>2. /\ EndOf(d) \in Int /\ EndOf(d) - start[d] <= ChunkSize /\ EndOf(d) <= words[d]
        /\ EndOf(d) # words[d] => EndOf(d) = start[d] + ChunkSize
    BY <2>1 DEF EndOf
  <2>3. NextStart(d) \in Int /\ (EndOf(d) # words[d] => NextStart(d) <= EndOf(d) /\ NextStart(d) <= words[d])
    BY <2>1, <2>2 DEF NextStart
  <2>4. cut'[d] = cut[d] \cup {window} BY DEF KnowledgeTypeOK
  <2>5. window \in Int \X Int /\ window[1] = start[d] /\ window[2] = EndOf(d) BY <2>1, <2>2
  <2>6. KnowledgeTypeOK'
    <3>1. start' \in [Document -> Int] /\ \A c \in Document : start'[c] <= words[c]
      BY <2>3 DEF KnowledgeTypeOK
    <3>2. cut' \in [Document -> SUBSET (Int \X Int)] BY <2>5 DEF KnowledgeTypeOK
    <3>3. task' \in [Document -> Task] BY DEF KnowledgeTypeOK, Task
    <3> QED BY <3>1, <3>2, <3>3 DEF KnowledgeTypeOK
  <2>7. Fits(cut'[d]) BY <2>2, <2>4, <2>5 DEF Fits, DocumentInv
  <2>8. Covers(cut[d], start[d]) /\ chunks[d] = {} BY DEF DocumentInv
  <2>10. ASSUME NEW c \in Document, c # d PROVE DocumentInv(c)'
    BY <2>10 DEF KnowledgeTypeOK, DocumentInv, Stored, Fits, Covers
  <2>9. CASE EndOf(d) = words[d]
    <3>1. Covers(cut'[d], words[d]) BY <2>1, <2>4, <2>8, <2>9, OneMoreWindow
    <3>2. task'[d] = "embed" BY <2>9 DEF KnowledgeTypeOK
    <3>3. DocumentInv(d)' BY <2>7, <2>8, <3>1, <3>2 DEF DocumentInv
    <3> QED BY <2>6, <2>10, <3>3
  <2>11. CASE EndOf(d) # words[d]
    <3>1. Covers(cut'[d], NextStart(d)) BY <2>1, <2>2, <2>3, <2>4, <2>8, <2>11, OneMoreWindow
    <3>2. start'[d] = NextStart(d) BY <2>11 DEF KnowledgeTypeOK
    <3>3. CASE NextStart(d) <= start[d]
      <4>1. task'[d] = "spinning" BY <2>11, <3>3 DEF KnowledgeTypeOK
      <4>2. DocumentInv(d)' BY <2>7, <2>8, <4>1 DEF DocumentInv
      <4> QED BY <2>6, <2>10, <4>2
    <3>4. CASE ~(NextStart(d) <= start[d])
      <4>1. task'[d] = "cut" BY <2>11, <3>4 DEF KnowledgeTypeOK
      <4>2. NextStart(d) >= 0 BY <2>1, <2>3, <3>4
      <4>3. DocumentInv(d)' BY <2>7, <2>8, <3>1, <3>2, <4>1, <4>2 DEF DocumentInv
      <4> QED BY <2>6, <2>10, <4>3
    <3> QED BY <3>3, <3>4
  <2> QED BY <2>9, <2>11
<1>4. ASSUME NEW d \in Document, NothingToCut(d) PROVE KnowledgeInv'
  <2> USE <1>4 DEF NothingToCut, At
  <2>1. KnowledgeTypeOK' BY DEF KnowledgeTypeOK, Task
  <2>2. ASSUME NEW c \in Document PROVE DocumentInv(c)'
    BY DEF KnowledgeTypeOK, DocumentInv, Stored, Fits, Covers
  <2> QED BY <2>1, <2>2
<1>5. ASSUME NEW d \in Document, EmbedChunks(d) PROVE KnowledgeInv'
  <2> USE <1>5 DEF EmbedChunks, At
  <2>1. KnowledgeTypeOK' BY DEF KnowledgeTypeOK, Task
  <2>2. ASSUME NEW c \in Document PROVE DocumentInv(c)'
    BY DEF KnowledgeTypeOK, DocumentInv, Stored, Fits, Covers
  <2> QED BY <2>1, <2>2
<1>6. ASSUME NEW d \in Document, ClearChunks(d) PROVE KnowledgeInv'
  <2> USE <1>6 DEF ClearChunks, At
  <2>1. KnowledgeTypeOK' BY DEF KnowledgeTypeOK, Task
  <2>2. ASSUME NEW c \in Document PROVE DocumentInv(c)'
    BY DEF KnowledgeTypeOK, DocumentInv, Stored, Fits, Covers
  <2> QED BY <2>1, <2>2
<1>7. ASSUME NEW d \in Document, StoreChunks(d) PROVE KnowledgeInv'
  <2> USE <1>7 DEF StoreChunks, At
  <2>1. KnowledgeTypeOK' BY DEF KnowledgeTypeOK, Task
  <2>2. ASSUME NEW c \in Document PROVE DocumentInv(c)'
    BY DEF KnowledgeTypeOK, DocumentInv, Stored, Fits, Covers
  <2> QED BY <2>1, <2>2
<1>8. ASSUME NEW d \in Document, MarkFailed(d) PROVE KnowledgeInv'
  <2> USE <1>8 DEF MarkFailed, At
  <2>1. KnowledgeTypeOK' BY DEF KnowledgeTypeOK, Task
  <2>2. ASSUME NEW c \in Document PROVE DocumentInv(c)'
    BY DEF KnowledgeTypeOK, DocumentInv, Stored, Fits, Covers
  <2> QED BY <2>1, <2>2
<1>9. ASSUME NEW d \in Document, DeleteDocument(d) PROVE KnowledgeInv'
  <2> USE <1>9 DEF DeleteDocument
  <2>1. KnowledgeTypeOK' BY DEF KnowledgeTypeOK
  <2>2. ASSUME NEW c \in Document PROVE DocumentInv(c)'
    BY DEF KnowledgeTypeOK, DocumentInv, Stored, Fits, Covers
  <2> QED BY <2>1, <2>2
<1>10. CASE DeleteBase
  <2> USE <1>10 DEF DeleteBase
  <2>1. KnowledgeTypeOK' BY DEF KnowledgeTypeOK
  <2>2. ASSUME NEW c \in Document PROVE DocumentInv(c)'
    BY DEF KnowledgeTypeOK, DocumentInv, Stored, Fits, Covers
  <2> QED BY <2>1, <2>2
<1>11. CASE ProcessEnds
  <2> USE <1>11 DEF ProcessEnds, Running
  <2>1. KnowledgeTypeOK' BY DEF KnowledgeTypeOK, Task
  <2>2. ASSUME NEW c \in Document PROVE DocumentInv(c)'
    BY DEF KnowledgeTypeOK, DocumentInv, Stored, Fits, Covers
  <2> QED BY <2>1, <2>2
<1>12. ASSUME NEW d \in Document, MarkProcessing(d) PROVE KnowledgeInv'
  <2> USE <1>12 DEF MarkProcessing, At
  <2>1. KnowledgeTypeOK' BY DEF KnowledgeTypeOK, Task
  <2>2. ASSUME NEW c \in Document PROVE DocumentInv(c)'
    BY DEF KnowledgeTypeOK, DocumentInv, Stored, Fits, Covers
  <2> QED BY <2>1, <2>2
<1> QED
  BY <1>0, <1>1, <1>2, <1>3, <1>4, <1>5, <1>6, <1>7, <1>8, <1>9, <1>10, <1>11, <1>12
  DEF KnowledgeNext, ProcessStep

(* Whatever the lengths of documents and the overlap: a search finds all    *)
(* the words of a document or none of them, in chunks of at most            *)
(* chunk_size words.                                                        *)
THEOREM SearchesAreWhole == KnowledgeSpec => []SearchSeesWholeDocuments
<1>1. KnowledgeInit => KnowledgeInv BY KnowledgeInitInv
<1>2. KnowledgeInv /\ [KnowledgeNext]_documentVars => KnowledgeInv' BY KnowledgeStep
<1>3. KnowledgeInv => SearchSeesWholeDocuments
  BY DEF KnowledgeInv, DocumentInv, Covers, Fits, SearchSeesWholeDocuments
<1> QED BY <1>1, <1>2, <1>3, PTL DEF KnowledgeSpec

-----------------------------------------------------------------------------
(* Sessions.  While nothing races it, a session that is being refreshed is  *)
(* refreshed by one host, and its only live token is the one to be revoked, *)
(* or there is none until the next is issued.                               *)
Refreshes(h, s) == refresh[h].do # "rest" /\ refresh[h].session = s

HostKnows(h) ==
    LET s == refresh[h].session IN
    refresh[h].do # "rest" /\ s # NewLogin /\ s \notin raced =>
        /\ s \notin closed
        /\ \A g \in Host : Refreshes(g, s) => g = h
        /\ \A t \in Live : session[t] = s => refresh[h].do = "revoke" /\ t = refresh[h].token

SessionsInv ==
    /\ SessionsTypeOK /\ OneLiveToken
    /\ \A h \in Host : HostKnows(h)

LEMMA SessionsInitInv == ASSUME SessionsInit PROVE SessionsInv
BY DEF SessionsInit, SessionsInv, SessionsTypeOK, OneLiveToken, Live, HostKnows, Rest

(* What the types of a step say of its fields. *)
LEMMA RefreshFields ==
    ASSUME SessionsTypeOK, NEW h \in Host
    PROVE  /\ refresh[h].do \in {"rest", "revoke", "issue"}
           /\ refresh[h].do = "rest" => refresh[h] = Rest
           /\ refresh[h].do = "revoke" => refresh[h].session \in issued /\ refresh[h].token \in issued
           /\ refresh[h].do = "issue" => refresh[h].session \in issued \cup {NewLogin}
<1>1. refresh[h] \in {Rest} \cup [do : {"revoke"}, token : issued, session : issued]
                           \cup [do : {"issue"}, session : issued \cup {NewLogin}] BY DEF SessionsTypeOK
<1> QED BY <1>1 DEF Rest

(* A host that begins, goes on with or ends what it does leaves the others  *)
(* where they are.                                                          *)
LEMMA OthersStand ==
    ASSUME SessionsTypeOK, NEW h \in Host, NEW step, Does(h, step)
    PROVE  refresh'[h] = step /\ \A g \in Host \ {h} : refresh'[g] = refresh[g]
BY DEF SessionsTypeOK, Does

(* A step after which no more tokens are live, no more sessions closed and  *)
(* h, if anyone, does nothing any more keeps the invariant.                 *)
LEMMA NoNewToken ==
    ASSUME SessionsInv, SessionsTypeOK', issued' = issued, session' = session,
           revoked \subseteq revoked', closed' = closed, raced' = raced,
           \A g \in Host : refresh'[g] = refresh[g] \/ refresh'[g] = Rest
    PROVE  SessionsInv'
<1>1. Live' \subseteq Live BY DEF Live
<1>2. OneLiveToken' BY <1>1 DEF SessionsInv, OneLiveToken
<1>3. ASSUME NEW h \in Host PROVE HostKnows(h)'
  <2>1. CASE refresh'[h] = Rest BY <2>1 DEF HostKnows, Rest
  <2>2. CASE refresh'[h] = refresh[h]
    <3>1. \A g \in Host : \A s : Refreshes(g, s)' => Refreshes(g, s) BY DEF Refreshes, Rest
    <3> QED BY <2>2, <3>1, <1>1 DEF SessionsInv, HostKnows
  <2> QED BY <2>1, <2>2
<1> QED BY <1>2, <1>3 DEF SessionsInv

LEMMA SessionsStep == ASSUME SessionsInv, [SessionsNext]_sessionVars PROVE SessionsInv'
<1> USE DEF SessionsInv
<1>0. CASE UNCHANGED sessionVars
  <2>1. SessionsTypeOK' BY <1>0 DEF sessionVars, SessionsTypeOK
  <2> QED BY <1>0, <2>1, NoNewToken DEF sessionVars
<1>1. ASSUME NEW h \in Host, Login(h) PROVE SessionsInv'
  <2> USE <1>1 DEF Login
  <2>1. SessionsTypeOK' BY DEF SessionsTypeOK, Does
  <2>2. refresh'[h] = [do |-> "issue", session |-> NewLogin]
        /\ \A g \in Host \ {h} : refresh'[g] = refresh[g] BY OthersStand
  <2>3. \A g \in Host : HostKnows(g)'
    BY <2>2, SessionsAssumption DEF HostKnows, Refreshes, Live
  <2> QED BY <2>1, <2>3 DEF OneLiveToken, Live
<1>2. ASSUME NEW h \in Host, NEW t \in Token, FindToken(h, t) PROVE SessionsInv'
  <2> DEFINE s == session[t]
  <2> USE <1>2 DEF FindToken, Accepted
  <2>1. t \in Live /\ s \in issued BY DEF Live, SessionsTypeOK
  <2>2. SessionsTypeOK' BY <2>1 DEF SessionsTypeOK, Does, Live
  <2>3. refresh'[h] = [do |-> "revoke", token |-> t, session |-> s]
        /\ \A g \in Host \ {h} : refresh'[g] = refresh[g] BY OthersStand
  <2>4. s \in raced' \/ \A g \in Host \ {h} : ~Refreshes(g, s) BY DEF Refreshing, Refreshes
  <2>5. HostKnows(h)' BY <2>1, <2>3, <2>4 DEF HostKnows, Refreshes, OneLiveToken, Live
  <2>6. ASSUME NEW g \in Host \ {h} PROVE HostKnows(g)'
    BY <2>3, <2>4 DEF HostKnows, Refreshes, Live
  <2> QED BY <2>2, <2>5, <2>6 DEF OneLiveToken, Live
<1>3. ASSUME NEW h \in Host, RevokeToken(h) PROVE SessionsInv'
  <2> USE <1>3 DEF RevokeToken
  <2>1. refresh[h].session \in issued /\ refresh[h].token \in issued BY RefreshFields
  <2>2. SessionsTypeOK' BY <2>1 DEF SessionsTypeOK, Does
  <2>3. refresh'[h] = [do |-> "issue", session |-> refresh[h].session]
        /\ \A g \in Host \ {h} : refresh'[g] = refresh[g] BY OthersStand
  <2>4. \A g \in Host : \A q : Refreshes(g, q)' => Refreshes(g, q) BY <2>3 DEF Refreshes
  <2>5. HostKnows(h)' BY <2>1, <2>3, <2>4 DEF HostKnows, Live
  <2>6. ASSUME NEW g \in Host \ {h} PROVE HostKnows(g)' BY <2>3, <2>4 DEF HostKnows, Live
  <2> QED BY <2>2, <2>5, <2>6 DEF OneLiveToken, Live
<1>4. ASSUME NEW h \in Host, IssueToken(h) PROVE SessionsInv'
  <2> USE <1>4 DEF IssueToken
  <2> DEFINE r == refresh[h].session
             s(t) == IF r = NewLogin THEN t ELSE r
  <2>1. r \in issued \cup {NewLogin} BY RefreshFields
  <2>2. PICK t \in Token \ issued : issued' = issued \cup {t} /\ session' = [session EXCEPT ![t] = s(t)]
    OBVIOUS
  <2>3. refresh'[h] = Rest /\ \A g \in Host \ {h} : refresh'[g] = refresh[g] BY OthersStand
  <2>4. session'[t] = s(t) /\ \A u \in issued : session'[u] = session[u] BY <2>2 DEF SessionsTypeOK
  <2>5. Live' = Live \cup {t} BY <2>2 DEF Live, SessionsTypeOK
  <2>6. SessionsTypeOK' BY <2>1, <2>2, <2>3, <2>4 DEF SessionsTypeOK, Does
  <2>7. s(t) \notin raced => s(t) \notin closed /\ \A u \in Live : session[u] # s(t)
    <3>1. CASE r = NewLogin BY <3>1, <2>2 DEF SessionsTypeOK, Live
    <3>2. CASE r # NewLogin BY <3>2 DEF HostKnows
    <3> QED BY <3>1, <3>2
  <2>8. OneLiveToken' BY <2>4, <2>5, <2>7 DEF OneLiveToken, Live
  <2>9. ASSUME NEW g \in Host PROVE HostKnows(g)'
    <3>1. CASE g = h BY <3>1, <2>3 DEF HostKnows, Rest
    <3>2. CASE g # h
      <4> DEFINE q == refresh[g].session
      <4> SUFFICES ASSUME refresh[g].do # "rest", q # NewLogin, q \notin raced PROVE HostKnows(g)'
        BY <3>2, <2>3 DEF HostKnows
      <4>1. q # s(t)
        <5>1. q \in issued BY RefreshFields
        <5>2. CASE r = NewLogin BY <5>1, <5>2, <2>2
        <5>3. CASE r # NewLogin BY <5>3, <3>2 DEF HostKnows, Refreshes
        <5> QED BY <5>2, <5>3
      <4>2. \A i \in Host : \A p : Refreshes(i, p)' => Refreshes(i, p) BY <2>3 DEF Refreshes, Rest
      <4> QED BY <4>1, <4>2, <3>2, <2>3, <2>4, <2>5 DEF HostKnows, Live
    <3> QED BY <3>1, <3>2
  <2> QED BY <2>6, <2>8, <2>9
<1>5. ASSUME NEW h \in Host, NEW t \in Token, Logout(h, t) PROVE SessionsInv'
  <2> USE <1>5 DEF Logout
  <2>1. t \in Live /\ session[t] \in issued BY DEF Live, SessionsTypeOK
  <2>2. SessionsTypeOK' BY <2>1 DEF SessionsTypeOK
  <2>3. Live' = Live \ {t} BY DEF Live
  <2>4. OneLiveToken' BY <2>1, <2>3 DEF OneLiveToken
  <2>5. ASSUME NEW g \in Host, refresh[g].do # "rest", refresh[g].session = session[t]
        PROVE  session[t] \in raced'
    BY <2>5 DEF Refreshing, Rest
  <2>6. ASSUME NEW g \in Host PROVE HostKnows(g)'
    BY <2>3, <2>5 DEF HostKnows, Refreshes
  <2> QED BY <2>2, <2>4, <2>6
<1>6. ASSUME NEW h \in Host, HostDies(h) PROVE SessionsInv'
  <2> USE <1>6 DEF HostDies
  <2>1. SessionsTypeOK' BY DEF SessionsTypeOK, Does
  <2>2. refresh'[h] = Rest /\ \A g \in Host \ {h} : refresh'[g] = refresh[g] BY OthersStand
  <2> QED BY <2>1, <2>2, NoNewToken
<1>7. ASSUME NEW t \in Token, Lapse(t) PROVE SessionsInv'
  <2>1. SessionsTypeOK' BY <1>7 DEF Lapse, SessionsTypeOK
  <2> QED BY <1>7, <2>1, NoNewToken DEF Lapse
<1>8. CASE AccountChanges
  <2>1. SessionsTypeOK' BY <1>8 DEF AccountChanges, SessionsTypeOK
  <2> QED BY <1>8, <2>1, NoNewToken DEF AccountChanges
<1> QED BY <1>0, <1>1, <1>2, <1>3, <1>4, <1>5, <1>6, <1>7, <1>8 DEF SessionsNext

(* A session that nothing raced has one live token at most, and none after  *)
(* its logout, for any number of hosts, whichever of them fail.             *)
THEOREM SessionsAreLinear == SessionsSpec => []OneLiveToken
<1>1. SessionsInit => SessionsInv BY SessionsInitInv
<1>2. SessionsInv /\ [SessionsNext]_sessionVars => SessionsInv' BY SessionsStep
<1>3. SessionsInv => OneLiveToken BY DEF SessionsInv
<1> QED BY <1>1, <1>2, <1>3, PTL DEF SessionsSpec

-----------------------------------------------------------------------------
(* Whichever part is followed, every part behaves as it does alone: what is *)
(* proved of the parts holds of the whole.                                  *)
THEOREM PartsStandAlone == Spec => KeysSpec /\ InsightsSpec /\ KnowledgeSpec /\ SessionsSpec
<1>1. Init => KeysInit /\ InsightsInit /\ KnowledgeInit /\ SessionsInit BY DEF Init
<1>2. [Next]_officeVars => /\ [KeysNext]_keysVars /\ [InsightsNext]_insightsVars
                          /\ [KnowledgeNext]_documentVars /\ [SessionsNext]_sessionVars
  BY DEF Next, officeVars
<1> QED BY <1>1, <1>2, PTL DEF Spec, KeysSpec, InsightsSpec, KnowledgeSpec, SessionsSpec

(* Every table and every handler of the parts keeps its types, whichever    *)
(* part is followed.                                                        *)
THEOREM OfficeTypes == Spec => []TypeOK
<1> DEFINE Inv == KeysInv /\ InsightsInv /\ KnowledgeInv /\ SessionsInv
<1>1. Init => Inv
  BY KeysInitInv, InsightsInitInv, KnowledgeInitInv, SessionsInitInv DEF Init
<1>2. Inv /\ [Next]_officeVars => Inv'
  <2>1. [Next]_officeVars => /\ [KeysNext]_keysVars /\ [InsightsNext]_insightsVars
                            /\ [KnowledgeNext]_documentVars /\ [SessionsNext]_sessionVars
    BY DEF Next, officeVars
  <2> QED BY <2>1, KeysStep, InsightsStep, KnowledgeStep, SessionsStep
<1>3. Inv => TypeOK
  BY DEF TypeOK, KeysInv, InsightsInv, KnowledgeInv, SessionsInv
<1> QED BY <1>1, <1>2, <1>3, PTL DEF Spec
=============================================================================
