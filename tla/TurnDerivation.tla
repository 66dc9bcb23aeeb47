---------------------------- MODULE TurnDerivation ----------------------------
(***************************************************************************)
(* What the turn inspector reads out of the log events it has loaded:       *)
(* turns, instances, the delegation chain (static/ts/turn-inspector), and    *)
(* the service's projection of the log to one instance (run-log/window).      *)
(* Loaded events are given as their positions in the log, in order.           *)
(***************************************************************************)
EXTENDS Naturals, Sequences, SequencesExt, FiniteSets

NoScope == 0

Turns == {"llm_call_start", "llm_call"}
RoleFailures == {"llm_unavailable", "context_budget_exceeded"}
Lifecycle == {"role_start", "role_finished"}

(***************************************************************************)
(* buildTurnIndex.  The open starts are kept twice, by instance and by role *)
(* name; a failure that names the instance leaves the second list alone.     *)
(***************************************************************************)
Without(starts, s) == SelectSeq(starts, LAMBDA x : x # s)

Closing(log, starts, e, field) ==
  LET k == SelectLastInSeq(starts, LAMBDA s : log[s][field] = e[field]) IN IF k = 0 THEN 0 ELSE starts[k]

TurnStep(log, acc, i) ==
  LET e == log[i]
  IN CASE e.type = "llm_call_start" ->
            [acc EXCEPT !.byId = Append(@, i), !.byRole = Append(@, i)]
       [] e.type = "llm_call" ->
            LET s == Closing(log, acc.byId, e, "id")
            IN  [byId |-> Without(acc.byId, s), byRole |-> Without(acc.byRole, s),
                 done |-> acc.done \cup {[kind |-> "completed", at |-> i, start |-> s, id |-> e.id]}]
       [] e.type = "provider_failure" ->
            [acc EXCEPT !.byId = Without(@, Closing(log, @, e, "id"))]
       [] e.type \in RoleFailures ->
            LET s == Closing(log, acc.byRole, e, "role")
            IN  [acc EXCEPT !.byId = Without(@, s), !.byRole = Without(@, s)]
       [] OTHER -> acc

buildTurnIndex(log, events) ==
  LET none == [byId |-> << >>, byRole |-> << >>, done |-> {}]
      upto[k \in 0..Len(events)] == IF k = 0 THEN none ELSE TurnStep(log, upto[k - 1], events[k])
      acc == upto[Len(events)]
  IN  acc.done \cup {[kind |-> "in_flight", at |-> s, start |-> 0, id |-> log[s].id] : s \in ToSet(acc.byId)}

\* scopeTurnEntries: one instance's turns; their numbers are their order.
scopeTurnEntries(entries, scope) == {t \in entries : t.id = scope}

\* deriveDefaultScopeRoleId: the newest turn in flight, else the newest turn.
Newest(entries) == CHOOSE t \in entries : \A u \in entries : u.at <= t.at
deriveDefaultScope(entries) ==
  LET flying == {t \in entries : t.kind = "in_flight"}
  IN  IF entries = {} THEN NoScope ELSE IF flying # {} THEN Newest(flying).id ELSE Newest(entries).id

(***************************************************************************)
(* Instances and their chain.                                              *)
(***************************************************************************)

\* The first start of an instance among the events, or 0.
StartOf(log, events, id) ==
  LET k == SelectInSeq(events, LAMBDA i : log[i].type = "role_start" /\ log[i].id = id)
  IN  IF k = 0 THEN 0 ELSE events[k]

\* instancesOf.
instancesOf(log, events) == {log[i].id : i \in {j \in ToSet(events) : log[j].type \in Lifecycle \cup Turns}}

\* resolveParentStart: the parent an instance's start names, if its own start is
\* there and it was not visited.
resolveParentStart(log, events, id, visited) ==
  LET own == StartOf(log, events, id)
      parent == IF own = 0 THEN NoScope ELSE log[own].parent
  IN  IF parent \in visited \/ StartOf(log, events, parent) = 0 THEN NoScope ELSE parent

RECURSIVE Walk(_, _, _)
Walk(log, events, chain) ==
  LET parent == resolveParentStart(log, events, Head(chain), ToSet(chain))
  IN  IF parent = NoScope THEN chain ELSE Walk(log, events, <<parent>> \o chain)
deriveInstanceChain(log, events, id) == IF id = NoScope THEN << >> ELSE Walk(log, events, <<id>>)

(***************************************************************************)
(* filterLogEventsForInstance: the instance's turns and failures, its own   *)
(* lifecycle and that of its ancestors; all positions without a scope.        *)
(***************************************************************************)
Positions(log) == [i \in 1..Len(log) |-> i]
Filtered(log, scope) ==
  IF scope = NoScope THEN Positions(log)
  ELSE LET all == Positions(log)
           start == StartOf(log, all, scope)
           line == ToSet(deriveInstanceChain(log, all, scope))
       IN  SelectSeq(all, LAMBDA i :
             \/ log[i].type \in Turns \cup {"provider_failure"} /\ log[i].id = scope
             \/ log[i].type \in RoleFailures /\ start # 0 /\ log[i].role = log[start].role
             \/ log[i].type \in Lifecycle /\ log[i].id \in line)
=============================================================================
