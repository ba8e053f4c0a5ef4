----------------------------- MODULE BackOffice -----------------------------
(***************************************************************************)
(* The parts of a runner that take no part in calls.  They share a         *)
(* database and no table of it, and none calls another: a behaviour        *)
(* follows one of them while the others stand still.                       *)
(***************************************************************************)
EXTENDS ApiKeys, Insights, Knowledge, Sessions

VARIABLE part   \* the one that is followed

officeVars == <<part, keysVars, insightsVars, documentVars, sessionVars>>

Init ==
    /\ part \in {"keys", "insights", "knowledge", "sessions"}
    /\ KeysInit /\ InsightsInit /\ KnowledgeInit /\ SessionsInit
    /\ part # "keys" => maxKeys = 0
    /\ part # "insights" => uploads = {}
    /\ part # "knowledge" => overlap = 0

Next ==
    /\ UNCHANGED part
    /\ \/ part = "keys" /\ KeysNext /\ UNCHANGED <<insightsVars, documentVars, sessionVars>>
       \/ part = "insights" /\ InsightsNext /\ UNCHANGED <<keysVars, documentVars, sessionVars>>
       \/ part = "knowledge" /\ KnowledgeNext /\ UNCHANGED <<keysVars, insightsVars, sessionVars>>
       \/ part = "sessions" /\ SessionsNext /\ UNCHANGED <<keysVars, insightsVars, documentVars>>

Fairness ==
    \A d \in Document : WF_officeVars(part = "knowledge" /\ ProcessStep(d)
                                      /\ UNCHANGED <<part, keysVars, insightsVars, sessionVars>>)

Spec == Init /\ [][Next]_officeVars /\ Fairness

(* Types. *)
TypeOK == KeysTypeOK /\ InsightsTypeOK /\ KnowledgeTypeOK /\ SessionsTypeOK
=============================================================================
