----------------------------- MODULE RunLogGrowth -----------------------------
(***************************************************************************)
(* How the turn events of a run come into its log: the roles nest, one model  *)
(* call is in flight at a time (engine.ts), a failed or interrupted call is     *)
(* made again by the run that is resumed.  An event is known by its position,   *)
(* which never changes: the log is only appended to.                            *)
(***************************************************************************)
EXTENDS Naturals, Sequences, SequencesExt

CONSTANTS
  Roles,    \* the names of roles; two instances may share one
  MaxIds,   \* bound: role instances
  MaxLog,   \* bound: events
  MaxFaults \* bound: failed calls and crashes

VARIABLES
  turnLog, \* the events: type, instance, role name, parent instance
  stack,   \* the instances at work, the root first: what the checkpoint holds
  minted,  \* instance ids handed out
  calling, \* a model call is in flight
  faults

logVars == <<turnLog, stack, minted, calling, faults>>

Ids == 1..MaxIds
NoId == 0
LogEvent(type, f) == [type |-> type, id |-> f.id, role |-> f.role, parent |-> f.parent]
Leaf == Last(stack)

LogInit == turnLog = << >> /\ stack = << >> /\ minted = 0 /\ calling = FALSE /\ faults = 0

Logged(type, f) == Len(turnLog) < MaxLog /\ turnLog' = Append(turnLog, LogEvent(type, f))
TurnAnswered == turnLog # << >> /\ Last(turnLog).type = "llm_call" /\ Last(turnLog).id = Leaf.id

\* role_start: the root, or the child an agent call of the last turn asks for.
RoleStarts(role) ==
  /\ ~calling /\ minted < MaxIds
  /\ IF stack = << >> THEN turnLog = << >> ELSE TurnAnswered
  /\ LET f == [id |-> minted + 1, role |-> role, parent |-> IF stack = << >> THEN NoId ELSE Leaf.id]
     IN  Logged("role_start", f) /\ stack' = Append(stack, f)
  /\ minted' = minted + 1
  /\ UNCHANGED <<calling, faults>>

\* The request of a turn, and its answer.
CallStarts ==
  /\ stack # << >> /\ ~calling
  /\ Logged("llm_call_start", Leaf) /\ calling' = TRUE
  /\ UNCHANGED <<stack, minted, faults>>
CallCompletes ==
  /\ calling
  /\ Logged("llm_call", Leaf) /\ calling' = FALSE
  /\ UNCHANGED <<stack, minted, faults>>

\* A suspension names the instance; an exhausted model or window only the role.
CallFails(type) ==
  /\ calling /\ faults < MaxFaults
  /\ Logged(type, Leaf) /\ calling' = FALSE /\ faults' = faults + 1
  /\ UNCHANGED <<stack, minted>>

\* The process dies in the call: nothing is logged, and the resumed leaf calls again.
CallIsLost ==
  /\ calling /\ faults < MaxFaults
  /\ calling' = FALSE /\ faults' = faults + 1
  /\ UNCHANGED <<turnLog, stack, minted>>

RoleFinishes ==
  /\ stack # << >> /\ TurnAnswered
  /\ Logged("role_finished", Leaf) /\ stack' = Front(stack)
  /\ UNCHANGED <<minted, calling, faults>>

LogGrows ==
  \/ \E role \in Roles : RoleStarts(role)
  \/ CallStarts \/ CallCompletes \/ CallIsLost \/ RoleFinishes
  \/ \E type \in {"provider_failure", "llm_unavailable"} : CallFails(type)
=============================================================================
