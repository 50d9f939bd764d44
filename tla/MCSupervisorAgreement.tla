----------------------- MODULE MCSupervisorAgreement -----------------------
(***************************************************************************)
(* The instances whose runs check that a node's reports agree with what it *)
(* serves: they satisfy the operating conditions under which               *)
(* SupervisorAgreement proves it.                                          *)
(***************************************************************************)
EXTENDS MCSupervisor

ASSUME ReportedWorkersCondition ==
    GenerationsNameAssignments /\ DistinctIds /\ NoScriptLeftBehind

\* Where nothing is uploaded late, the stricter conditions hold too.
ASSUME ReportedScriptsCondition ==
    Uploads = {} =>
        /\ DownloadsSucceed
        /\ DatesGiven
        /\ \E age \in [Assignments -> 1..Cardinality(Assignments)] :
              OnlyForward(age)
=============================================================================
