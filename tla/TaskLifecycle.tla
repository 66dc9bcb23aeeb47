----------------------------- MODULE TaskLifecycle -----------------------------
(***************************************************************************)
(* What the queue promises of a task, as the state machine table of        *)
(* docs/queueing.md gives it: the status of an item and the moves it may   *)
(* make.  A settled item never moves again, except that a failed one can   *)
(* be requeued or resumed.                                                 *)
(***************************************************************************)
CONSTANT Items
VARIABLE status

Status == {"absent", "removed", "waiting", "active", "suspended",
           "needs_input", "done", "error", "cancelled"}

\* The moves.  "removed" is the collision rollback of a start-now request.
Moves ==
  [absent      |-> {"waiting"},
   waiting     |-> {"active", "cancelled", "removed"},
   active      |-> {"waiting", "suspended", "needs_input", "done", "error",
                    "cancelled"},
   suspended   |-> {"active", "needs_input", "done", "error", "cancelled"},
   needs_input |-> {"waiting", "cancelled"},
   error       |-> {"waiting", "active"},
   done        |-> {}, cancelled |-> {}, removed |-> {}]

Init == status = [i \in Items |-> "absent"]

\* The repair moves several items at once, and at most one leaves the waiting list
\* in a step.
Next ==
  /\ status' \in [Items -> Status]
  /\ \A i \in Items :
       status'[i] # status[i] => status'[i] \in Moves[status[i]]
  /\ \A i, j \in Items :
       /\ status[i] = "waiting" /\ status'[i] # "waiting"
       /\ status[j] = "waiting" /\ status'[j] # "waiting"
       => i = j

Spec == Init /\ [][Next]_status
=============================================================================
