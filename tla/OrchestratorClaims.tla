-------------------------- MODULE OrchestratorClaims --------------------------
(***************************************************************************)
(* A statement the repository makes about itself that its code does not   *)
(* keep, the property of a run that expects a violation.  It needs a       *)
(* dispatch cycle asleep after a run-id collision while the rest of the    *)
(* service goes on.                                                        *)
(***************************************************************************)
EXTENDS Orchestrator

\* model.ts:529 "identical task texts are interchangeable, since only the head is
\* ever mid-dispatch": the repair never binds a second item to a run.
OneItemPerRun ==
  \A i, j \in Items :
    /\ item[i].status = "active" /\ item[j].status = "active"
    /\ item[i].runId # None /\ item[i].runId = item[j].runId
    => i = j
=============================================================================
