------------------------------- MODULE MCReaders -------------------------------
(* What the page makes of a run's log: the task thread (MCThread), whose parts are  *)
(* told apart by `part`, and, when `part` is "turns", the turn inspector over a      *)
(* growing log.                                                                  *)
EXTENDS MCThread, TurnInspector

turnVars == <<logVars, inspectorVars>>

Acts == [acts |-> 2, reads |-> 2, failures |-> 1, all |-> 3]

ReadersInit == /\ part \in {"pane", "log", "files", "lineage", "turns"}
               /\ PartsInit
               /\ LogInit /\ InspectorInit

ReadersNext ==
    \/ MCNext /\ UNCHANGED turnVars
    \/ part = "turns" /\ LogGrows /\ UNCHANGED <<inspectorVars, allVars>>
    \/ part = "turns" /\ InspectorStep /\ UNCHANGED allVars

(* Fairness: the page ends every request, if only by its timeout, and its timer  *)
(* asks for the tail of a ready window while the run is polled.  Stated on the     *)
(* states those steps lead to.                                                    *)
RequestsEnd == \A s \in Slots : []<>(requests[s] = Free)
Polling == polled /\ open /\ windows[explicit].state = "ready" => tailing # 0

ReadersSpec == /\ ReadersInit /\ [][ReadersNext]_<<allVars, turnVars>>
               /\ MCFairness /\ RequestsEnd /\ []<>Polling

\* What the inspector shows is the log: its windows, and the turns derived from them.
InspectorTellsTheLog == part = "turns" => WindowsAreTheLog /\ TranscriptIsFaithful
\* Whatever the operator did and whatever was lost, the inspector that stays open on a
\* run still polled shows the end of the log in the end (session.ts tailRequest, receive).
InspectorCatchesUp == <>[]EndIsShown
=============================================================================
