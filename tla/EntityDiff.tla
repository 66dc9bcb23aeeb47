------------------------------ MODULE EntityDiff ------------------------------
(***************************************************************************)
(* The entity-diff replicas (web/static/ts/entity-diff): a server replica      *)
(* numbers the states it is given and keeps a bounded history of what each      *)
(* step touched; a client that says which revision it has is answered           *)
(* "unchanged", a delta, or a snapshot, and reduces the answer.                 *)
(*                                                                         *)
(* The collections of a replica are folded into one map from the entities to    *)
(* their versions; an entity's body is as good as its version.                  *)
(***************************************************************************)
EXTENDS Naturals, Sequences, SequencesExt, FiniteSets

CONSTANTS Ids, HistoryLimit

ASSUME HistoryLimitAssumption == HistoryLimit \in Nat

Absent == 0
NoRevision == << >>

emptyState == [i \in Ids |-> Absent]

createServerReplica(epoch) ==
  [epoch |-> epoch, counter |-> 0, current |-> emptyState, history |-> << >>]

\* The epoch is part of every revision.
revision(server) == Append(server.epoch, server.counter)

\* What a step touched: the entities that differ, with the version they had before.
diffCollections(previous, next) ==
  [i \in {j \in Ids : previous[j] # next[j]} |-> previous[i]]

\* update: a state equal to the current one makes no revision.
update(server, next) ==
  LET touched == diffCollections(server.current, next)
      longer == Append(server.history, [base |-> revision(server), touched |-> touched])
      excess == IF Len(longer) > HistoryLimit THEN Len(longer) - HistoryLimit ELSE 0
  IN  IF DOMAIN touched = {} THEN server
      ELSE [server EXCEPT !.counter = @ + 1, !.current = next,
                          !.history = SubSeq(longer, excess + 1, Len(longer))]

\* The first entry of the chain that touched an entity supplies the version before.
mergedTouched(entries) ==
  LET touchers(i) == {n \in DOMAIN entries : i \in DOMAIN entries[n].touched}
      first(i) == CHOOSE n \in touchers(i) : \A m \in touchers(i) : n <= m
  IN  [i \in {j \in Ids : touchers(j) # {}} |-> entries[first(i)].touched[i]]

\* Entities whose changes cancel out are dropped from the delta.
composeCollection(current, touched) ==
  [i \in {j \in DOMAIN touched : touched[j] # current[j]} |-> current[i]]

Response(kind, base, next, content) == [kind |-> kind, base |-> base, next |-> next, content |-> content]

respond(server, have) ==
  LET bases == {n \in DOMAIN server.history : server.history[n].base = have}
      start == CHOOSE n \in bases : \A m \in bases : m <= n
      chain == SubSeq(server.history, start, Len(server.history))
  IN  CASE have # NoRevision /\ have = revision(server) ->
             Response("unchanged", NoRevision, revision(server), << >>)
        [] have # NoRevision /\ have # revision(server) /\ bases # {} ->
             Response("delta", have, revision(server),
                      composeCollection(server.current, mergedTouched(chain)))
        [] OTHER -> Response("snapshot", NoRevision, revision(server), server.current)

----
(***************************************************************************)
(* The client.  A held replica is its state and the revision it stands at.      *)
(***************************************************************************)

applyCollectionDelta(state, delta) ==
  [i \in Ids |-> IF i \in DOMAIN delta THEN delta[i] ELSE state[i]]

\* The base is the only check: a delta that fits is trusted to reach "next".
applyDelta(held, raw) ==
  IF held.rev = NoRevision \/ held.rev # raw.base
  THEN [kind |-> "needsSnapshot", held |-> held]
  ELSE [kind |-> "applied", held |-> [rev |-> raw.next, state |-> applyCollectionDelta(held.state, raw.content)]]

applySnapshot(raw) == [kind |-> "snapshot", held |-> [rev |-> raw.next, state |-> raw.content]]

\* A body that is no answer of the protocol (an error of the service) is "invalid".
reduceServerResponse(held, raw) ==
  CASE raw.kind = "unchanged" ->
         [kind |-> IF held.rev # NoRevision /\ raw.next = held.rev THEN "unchanged" ELSE "needsSnapshot",
          held |-> held]
    [] raw.kind = "delta" -> applyDelta(held, raw)
    [] raw.kind = "snapshot" -> applySnapshot(raw)
    [] OTHER -> [kind |-> "invalid", held |-> held]
=============================================================================
