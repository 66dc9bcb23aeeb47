---------------------------- MODULE ProviderClaims ----------------------------
(***************************************************************************)
(* A statement docs/reference.md makes about the automatic resumes that the *)
(* code does not keep, the property of a run that expects a violation.      *)
(***************************************************************************)
EXTENDS ProviderService

VARIABLE taken  \* history: automatic resumes of the run in the slot since it entered it

RunLeaves == \E jitter \in Jitter : RunEnds(jitter) \/ Terminate(jitter)

ClaimInit == ProviderInit /\ taken = 0
ClaimNext == /\ Step
             /\ taken' = IF RunLeaves THEN 0
                         ELSE IF RunningMetaLands /\ run.byProbe THEN taken + 1 ELSE taken
ClaimSpec == ClaimInit /\ [][ClaimNext]_<<pvars, taken>>

\* docs/reference.md:100 "the count is retained across a later manual resume so the
\* automatic budget cannot reset": a run is resumed by itself at most MaxAutoResumes times,
\* however often the operator resumes it in between.
BudgetIsRetained == taken <= MaxAutoResumes
=============================================================================
