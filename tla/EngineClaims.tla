----------------------------- MODULE EngineClaims -----------------------------
(***************************************************************************)
(* A statement docs/reference.md makes about the checkpoint of an operator  *)
(* pause that the code does not keep, the property of a run that expects a  *)
(* violation.                                                               *)
(***************************************************************************)
EXTENDS RoleEngine

\* A crash on the last call of a batch, a resume that settles it, a pause.
OneCall == {<<"tool">>}
NoRequests == {}
OncePaused == [e \in Events |-> IF e \in {"turns", "pauses", "crashes"} THEN 1 ELSE 0]

\* docs/reference.md:142 "never carries a pending invocation on the leaf": what
\* isRunCheckpoint requires of a pause's checkpoint, which is discarded otherwise.
PauseHasNoPending == disk.paused => LeafOf(disk).pend = NoPending
=============================================================================
