------------------------------ MODULE Insights ------------------------------
(***************************************************************************)
(* Call analysis of one organisation: the submission of recordings         *)
(* (app/routes/insights_analyse.py) and the configurations they are        *)
(* analysed with (app/routes/insights_config.py and its repository).       *)
(*                                                                         *)
(* An action is one transaction, one call of S3 or one refusal.  The       *)
(* handlers run in threads, so all of them interleave; a runner may die    *)
(* between any two steps of a handler.                                     *)
(***************************************************************************)
EXTENDS Naturals, FiniteSets

CONSTANTS
    Config,       \* bound: rows of insights_config
    Submission,   \* requests for an analysis
    Admin,        \* requests that change the configurations, at a time
    NoConfig      \* no insights_config_id

NoJob == "none"

ASSUME InsightsAssumption == NoConfig \notin Config /\ NoJob \notin Config \cup {NoConfig}

VARIABLES
    configs,     \* of each row of insights_config: "free", "row" or "gone"
    defaults,    \* the rows with is_default
    admin,       \* what each request for a change does next
    submission,  \* what each submission does next, or how it ended
    uploads,     \* the submissions that upload a file
    objects,     \* the recordings in S3, by the job id in their key
    jobs,        \* rows of insights_jobs with their call_analysis: its insights_config_id
    overlapped   \* history: two requests set a default at the same time

insightsVars == <<configs, defaults, admin, submission, uploads, objects, jobs, overlapped>>

Existing == {c \in Config : configs[c] = "row"}
Free == [do |-> "idle"]
Ended(how) == [do |-> how]

InsightsInit ==
    /\ configs = [c \in Config |-> "free"] /\ defaults = {}
    /\ admin = [a \in Admin |-> Free]
    /\ uploads \in SUBSET Submission
    /\ submission = [r \in Submission |-> [do |-> "received"]]
    /\ objects = {} /\ jobs = [r \in Submission |-> NoJob] /\ overlapped = FALSE

AdminDoes(a, step) == admin' = [admin EXCEPT ![a] = step]
Goes(r, step) == submission' = [submission EXCEPT ![r] = step]

submissionVars == <<submission, uploads, objects, jobs>>

-----------------------------------------------------------------------------
(* create_config and update_config. *)

(* A mutant of UnsetDefaults: unset_default_for_org is not called. *)
KeepDefaults == UNCHANGED defaults

(* unset_default_for_org, a transaction of its own *)
UnsetDefaults == defaults' = {}

Setting(b) == admin[b].do \in {"insert", "set"}

(* A request that makes a configuration the default first unsets the others *)
(* (a new configuration: NoConfig; an update has found its row).            *)
BeginsToSet(a, c) ==
    /\ admin[a] = Free /\ c \in Existing \cup {NoConfig}
    /\ UnsetDefaults
    /\ AdminDoes(a, IF c = NoConfig THEN [do |-> "insert"] ELSE [do |-> "set", config |-> c])
    /\ overlapped' = (overlapped \/ \E b \in Admin \ {a} : Setting(b))
    /\ UNCHANGED <<configs, submissionVars>>

AddConfig(c, isDefault) ==
    /\ configs[c] = "free"
    /\ configs' = [configs EXCEPT ![c] = "row"]
    /\ defaults' = IF isDefault THEN defaults \cup {c} ELSE defaults

(* The INSERT, which a name that is taken refuses, after the defaults are   *)
(* gone.                                                                    *)
InsertsDefault(a) ==
    /\ admin[a].do = "insert"
    /\ \/ \E c \in Config : AddConfig(c, TRUE)
       \/ Existing # {} /\ UNCHANGED <<configs, defaults>>
    /\ AdminDoes(a, Free)
    /\ UNCHANGED <<submissionVars, overlapped>>

InsertsPlain(a) ==
    /\ admin[a] = Free
    /\ \E c \in Config : AddConfig(c, FALSE)
    /\ UNCHANGED <<admin, submissionVars, overlapped>>

(* UPDATE ... SET is_default = TRUE, of no row if it has been deleted; or   *)
(* the new name is taken.                                                   *)
SetsDefault(a) ==
    /\ admin[a].do = "set"
    /\ \/ defaults' = defaults \cup ({admin[a].config} \cap Existing)
       \/ Cardinality(Existing) > 1 /\ UNCHANGED defaults
    /\ AdminDoes(a, Free)
    /\ UNCHANGED <<configs, submissionVars, overlapped>>

(* An update with is_default = FALSE. *)
ClearsDefault(a, c) ==
    /\ admin[a] = Free /\ c \in defaults
    /\ defaults' = defaults \ {c}
    /\ UNCHANGED <<configs, admin, submissionVars, overlapped>>

(* delete_config, when no assistant refers to the row: refused if an        *)
(* analysis does ...                                                        *)
ChecksAnalyses(a, c) ==
    /\ admin[a] = Free /\ c \in Existing
    /\ \A r \in Submission : jobs[r] # c
    /\ AdminDoes(a, [do |-> "delete", config |-> c])
    /\ UNCHANGED <<configs, defaults, submissionVars, overlapped>>

(* ... and the DELETE, whose foreign key (ON DELETE SET NULL) clears the    *)
(* reference of an analysis that has come since.                            *)
DeletesConfig(a) ==
    /\ admin[a].do = "delete"
    /\ LET c == admin[a].config IN
       /\ configs' = [configs EXCEPT ![c] = "gone"] /\ defaults' = defaults \ {c}
       /\ jobs' = [r \in Submission |-> IF jobs[r] = c THEN NoConfig ELSE jobs[r]]
    /\ AdminDoes(a, Free)
    /\ UNCHANGED <<submission, uploads, objects, overlapped>>

AdminDies(a) ==
    /\ admin[a] # Free /\ AdminDoes(a, Free)
    /\ UNCHANGED <<configs, defaults, submissionVars, overlapped>>

-----------------------------------------------------------------------------
(* The submission of a recording. *)

unchangedConfigs == <<configs, defaults, admin, overlapped>>

(* The database fails outside handle_db_errors: an upload's object is to be *)
(* deleted.                                                                 *)
DatabaseFails(r) == Goes(r, IF r \in uploads THEN [do |-> "clean up"] ELSE Ended("failed"))

(* submit_external_request_upload, before anything is uploaded: an invalid  *)
(* field; without a configuration in the request, no default, or a lookup   *)
(* of it that fails.                                                        *)
ChecksRequest(r, named) ==
    /\ submission[r].do = "received" /\ r \in uploads
    /\ \/ (named # NoConfig \/ defaults # {}) /\ Goes(r, [do |-> "upload", config |-> named])
       \/ Goes(r, Ended("refused"))
       \/ named = NoConfig /\ Goes(r, Ended("failed"))
    /\ UNCHANGED <<uploads, objects, jobs, unchangedConfigs>>

(* submit_external_request: a URL goes to _submit_job directly. *)
SubmitsUrl(r, named) ==
    /\ submission[r].do = "received" /\ r \notin uploads
    /\ Goes(r, [do |-> "submit", config |-> named])
    /\ UNCHANGED <<uploads, objects, jobs, unchangedConfigs>>

(* _validate_and_upload_recording, in a thread: the object is there; or a   *)
(* file that is no audio or too large, or S3 fails, perhaps after it has    *)
(* stored the object.                                                       *)
UploadsRecording(r) ==
    /\ submission[r].do = "upload"
    /\ \/ Goes(r, [submission[r] EXCEPT !.do = "build"]) /\ objects' = objects \cup {r}
       \/ Goes(r, Ended("refused")) /\ objects' \in {objects, objects \cup {r}}
    /\ UNCHANGED <<uploads, jobs, unchangedConfigs>>

(* ExternalJobRequest, of which a form field may be too long: a 500, and no *)
(* clean-up.                                                                *)
BuildsRequest(r) ==
    /\ submission[r].do = "build"
    /\ \/ Goes(r, [submission[r] EXCEPT !.do = "submit"])
       \/ Goes(r, Ended("invalid"))
    /\ UNCHANGED <<uploads, objects, jobs, unchangedConfigs>>

(* _submit_job: the configuration named in the request, or one that is the  *)
(* default by now; if none is, the request is refused and the object stays. *)
(* The lookup may fail; a recording inside the URL may be too large.        *)
FindsConfig(r) ==
    /\ submission[r].do = "submit"
    /\ LET named == submission[r].config IN
       \/ named # NoConfig /\ Goes(r, [do |-> "enqueue", config |-> named])
       \/ named = NoConfig /\ \E c \in defaults : Goes(r, [do |-> "enqueue", config |-> c])
       \/ named = NoConfig /\ defaults = {} /\ Goes(r, Ended("refused"))
       \/ named = NoConfig /\ DatabaseFails(r)
       \/ r \notin uploads /\ Goes(r, Ended("refused"))
    /\ UNCHANGED <<uploads, objects, jobs, unchangedConfigs>>

(* Its transaction: call_analysis and insights_jobs, or the foreign key of  *)
(* a configuration that is no more: handle_db_errors makes that a refusal.  *)
InsertsJob(r) ==
    /\ submission[r].do = "enqueue"
    /\ LET c == submission[r].config IN
       IF c \in Existing
       THEN jobs' = [jobs EXCEPT ![r] = c] /\ Goes(r, Ended("accepted"))
       ELSE Goes(r, Ended("refused")) /\ UNCHANGED jobs
    /\ UNCHANGED <<uploads, objects, unchangedConfigs>>

(* A mutant of InsertFails: the object stays. *)
InsertFailsUnhandled(r) ==
    /\ submission[r].do = "enqueue" /\ Goes(r, Ended("failed"))
    /\ UNCHANGED <<uploads, objects, jobs, unchangedConfigs>>

(* The database fails otherwise: the transaction is rolled back, unless it  *)
(* is the answer to the commit that is lost.                                *)
InsertFails(r) ==
    /\ submission[r].do = "enqueue"
    /\ \/ UNCHANGED jobs
       \/ submission[r].config \in Existing /\ jobs' = [jobs EXCEPT ![r] = submission[r].config]
    /\ DatabaseFails(r)
    /\ UNCHANGED <<uploads, objects, unchangedConfigs>>

(* delete_object, best effort. *)
CleansUp(r) ==
    /\ submission[r].do = "clean up"
    /\ \/ objects' = objects \ {r} /\ Goes(r, Ended("failed"))
       \/ Goes(r, Ended("left behind")) /\ UNCHANGED objects
    /\ UNCHANGED <<uploads, jobs, unchangedConfigs>>

Over == {"refused", "accepted", "invalid", "failed", "left behind", "dead"}

SubmissionDies(r) ==
    /\ submission[r].do \notin Over /\ Goes(r, Ended("dead"))
    /\ UNCHANGED <<uploads, objects, jobs, unchangedConfigs>>

InsightsNext ==
    \/ \E a \in Admin :
         \/ \E c \in Config \cup {NoConfig} : BeginsToSet(a, c)
         \/ InsertsDefault(a)
         \/ InsertsPlain(a)
         \/ SetsDefault(a)
         \/ \E c \in Config : ClearsDefault(a, c)
         \/ \E c \in Config : ChecksAnalyses(a, c)
         \/ DeletesConfig(a)
         \/ AdminDies(a)
    \/ \E r \in Submission :
         \/ \E named \in Config \cup {NoConfig} : ChecksRequest(r, named)
         \/ \E named \in Config \cup {NoConfig} : SubmitsUrl(r, named)
         \/ UploadsRecording(r)
         \/ BuildsRequest(r)
         \/ FindsConfig(r)
         \/ InsertsJob(r)
         \/ InsertFails(r)
         \/ CleansUp(r)
         \/ SubmissionDies(r)

InsightsSpec == InsightsInit /\ [][InsightsNext]_insightsVars

-----------------------------------------------------------------------------
Underway == {"upload", "build", "submit", "enqueue"}
AdminState == {Free} \cup [do : {"insert"}] \cup [do : {"set", "delete"}, config : Config]
SubmissionState == [do : Over \cup {"received", "clean up"}]
                   \cup [do : Underway, config : Config \cup {NoConfig}]

(* Types. *)
InsightsTypeOK ==
    /\ configs \in [Config -> {"free", "row", "gone"}] /\ defaults \subseteq Existing
    /\ admin \in [Admin -> AdminState] /\ submission \in [Submission -> SubmissionState]
    /\ objects \subseteq uploads /\ uploads \subseteq Submission
    /\ \A r \in Submission : submission[r].do \in {"upload", "build"} => r \in uploads
    /\ jobs \in [Submission -> Config \cup {NoJob, NoConfig}]
    /\ overlapped \in BOOLEAN

(* What a customer is told agrees with both stores: an accepted analysis is *)
(* queued, and an uploaded recording is there for it; a refused one is not  *)
(* queued; one that failed in the database has no object, when the clean-up *)
(* was answered (insights_analyse.py:551 "best-effort delete of the         *)
(* now-orphaned S3 object").  Objects without a job stay after a refusal    *)
(* ("refused"), a request that cannot be built ("invalid"), a failed delete *)
(* ("left behind") and a crash ("dead").                                    *)
AnswersAreTrue ==
    \A r \in Submission :
        LET answer == submission[r].do IN
        /\ answer = "accepted" => jobs[r] # NoJob /\ (r \in uploads => r \in objects)
        /\ answer = "refused" => jobs[r] = NoJob
        /\ answer = "failed" => r \notin objects

(* An organisation gets two defaults only from requests that overlap.       *)
OneDefault == ~overlapped => Cardinality(defaults) <= 1

(* What the code does not keep; no run lists these.                         *)
(* The recording of a queued analysis is there: not after a lost commit.    *)
JobHasItsRecording == \A r \in uploads : jobs[r] # NoJob => r \in objects

NeverTwoDefaults == Cardinality(defaults) <= 1

(* "Config is referenced by existing analyses and cannot be deleted"        *)
(* (insights_config.py:221).                                                *)
AnalysisKeepsItsConfig == \A r \in Submission : jobs[r] # NoConfig

(* "Validate all form fields before any I/O so a bad request never triggers *)
(* an S3 upload that would then need orphan cleanup"                        *)
(* (insights_analyse.py:507).                                               *)
BadRequestLeavesNoObject == \A r \in objects : submission[r].do \notin {"refused", "invalid"}
=============================================================================
