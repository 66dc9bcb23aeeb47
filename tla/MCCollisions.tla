----------------------------- MODULE MCCollisions -----------------------------
(***************************************************************************)
(* Dispatch cycles that overlap after run-id collisions, with a history of  *)
(* the collision budgets used up.                                          *)
(***************************************************************************)
EXTENDS Orchestrator

VARIABLE gaveUp  \* since the last tick, a cycle released its item with its retries used up

\* submitHead's exit on an exhausted budget (SubmitRefused with the slot free).
BudgetExhausted == At("submit") /\ SlotFree /\ RunIdTaken /\ pc.n >= MaxCollisionRetries

CollisionsInit == Init /\ gaveUp = FALSE
CollisionsNext == Next /\ gaveUp' = ((gaveUp /\ ~At("tick")) \/ BudgetExhausted)
CollisionsSpec == CollisionsInit /\ [][CollisionsNext]_<<vars, gaveUp>>

\* docs/queueing.md:21: an idle system's waiting list is empty, but for an item whose
\* collision retries were used up, and that one waits for the next tick.  So whatever
\* the order in which overlapping cycles sleep, wake, repair each other's markers and
\* leave, waiting work is beside a free slot and an open gate, with no cycle asleep
\* that will go on, only between such an exhaustion and the next tick.
NoStall ==
  AtRest /\ ~shutdown /\ SlotFree /\ gate /\ sleepers = << >>
    /\ (\E i \in Items : item[i].status = "waiting")
  => gaveUp
=============================================================================
