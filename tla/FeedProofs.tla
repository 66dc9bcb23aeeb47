------------------------------ MODULE FeedProofs ------------------------------
(***************************************************************************)
(* What holds of the polled feeds and of the delta stream for any number of *)
(* runs, requests in flight, replicas, restarts and sockets: a revision     *)
(* names one state, one poll is in flight under a key, the browser holds   *)
(* one socket, and the text it shows has no gap.                           *)
(***************************************************************************)
EXTENDS MCFeeds, TLAPS, SequenceTheorems, FiniteSetTheorems, WellFoundedInduction

States == [Ids -> Nat]
Contents == UNION {[S -> Nat] : S \in SUBSET Ids}
Revisions == Seq(Nat)
Keys == Runs \cup {List, NoRun}
Entries == [base: Revisions, touched: Contents]
ReplicaType == [epoch: Revisions, counter: Nat, current: States, history: Seq(Entries)]
ReplicaSlot == [key: Keys, replica: ReplicaType]
ServerType == [epoch: Nat, sequence: Nat, replicas: Seq(ReplicaSlot)]
Kinds == {"unchanged", "delta", "snapshot", "missing", "error"}
Answers == {a \in [kind: Kinds, base: Revisions, next: Revisions, content: Contents] :
              a.kind = "snapshot" => a.content \in States}
RequestType == [key: Keys, have: Revisions, guarded: BOOLEAN, cancelled: BOOLEAN,
                reply: Answers \cup {<< >>}]
HeldType == [rev: Revisions, state: States]
PageType == [shown: Keys, feed: HeldType, loaded: BOOLEAN, visible: BOOLEAN]
GuardType == [inFlight: BOOLEAN, waiting: BOOLEAN]

\* Only a resource of the behaviour's feed is shown and asked for.
FeedsTyped ==
  /\ kind \in {"list", "flow"}
  /\ world \in [Resources -> States]
  /\ server \in ServerType
  /\ requests \in [Slots -> RequestType]
  /\ guard \in GuardType
  /\ page \in PageType
  /\ IF kind = "list" THEN page.shown = List ELSE page.shown \in Runs \cup {NoRun}
  /\ \A s \in Slots : requests[s] # Free => requests[s].key \in Resources

-----------------------------------------------------------------------------
(* Facts about the operators of EntityDiff.                                *)

LEMMA LeastNatural ==
  ASSUME NEW S, S \subseteq Nat, S # {}
  PROVE  \E m \in S : \A n \in S : m <= n
<1>1. PICK x \in S : \A y \in S : <<y, x>> \notin OpToRel(<, Nat)
  BY NatLessThanWellFounded, WFMin, Zenon
<1>2. \A y \in S : <<y, x>> \in Nat \X Nat /\ <<y, x>>[1] < <<y, x>>[2] => FALSE
  BY <1>1, Zenon DEF OpToRel
<1>3. \A y \in S : ~(y < x)
  BY <1>2
<1> QED
  BY <1>3

LEMMA StateIsContent == States \subseteq Contents
  BY DEF States, Contents

LEMMA EmptyFacts ==
  /\ emptyState \in States /\ NoRevision \in Revisions /\ << >> \in Contents
  /\ Free \in RequestType /\ emptyFeed \in HeldType
<1>1. emptyState \in States
  BY DEF emptyState, Absent, States
<1>2. NoRevision \in Revisions
  BY DEF NoRevision, Revisions
<1>3. << >> \in Contents
  <2>1. << >> = [i \in {} |-> 0]
    OBVIOUS
  <2>2. [i \in {} |-> 0] \in [{} -> Nat]
    OBVIOUS
  <2> QED
    BY <2>1, <2>2 DEF Contents
<1>4. Free \in RequestType
  BY <1>2 DEF Free, RequestType, Keys
<1> QED
  BY <1>1, <1>2, <1>3, <1>4 DEF emptyFeed, HeldType

LEMMA RevisionType ==
  ASSUME NEW e \in Revisions, NEW k \in Nat
  PROVE  Append(e, k) \in Revisions /\ Append(e, k) # NoRevision
  BY AppendProperties DEF Revisions, NoRevision

LEMMA UpdateType ==
  ASSUME NEW R \in ReplicaType, NEW next \in States
  PROVE  update(R, next) \in ReplicaType
<1> DEFINE touched == diffCollections(R.current, next)
           entry == [base |-> revision(R), touched |-> touched]
           longer == Append(R.history, entry)
           excess == IF Len(longer) > HistoryLimit THEN Len(longer) - HistoryLimit ELSE 0
           kept == SubSeq(longer, excess + 1, Len(longer))
<1>1. touched \in Contents
  <2>1. R.current \in [Ids -> Nat]
    BY DEF ReplicaType, States
  <2>2. touched \in [{j \in Ids : R.current[j] # next[j]} -> Nat]
    BY <2>1 DEF diffCollections
  <2>3. {j \in Ids : R.current[j] # next[j]} \in SUBSET Ids
    OBVIOUS
  <2> QED
    BY <2>2, <2>3, Zenon DEF Contents
<1>2. revision(R) \in Revisions
  BY RevisionType DEF revision, ReplicaType
<1> HIDE DEF touched
<1>3. entry \in Entries
  BY <1>1, <1>2 DEF Entries
<1> HIDE DEF entry
<1>4. longer \in Seq(Entries) /\ Len(longer) \in Nat
  BY <1>3, AppendProperties, LenProperties DEF ReplicaType
<1> HIDE DEF longer
<1>5. excess \in Nat
  BY <1>4, HistoryLimitAssumption
<1> HIDE DEF excess
<1>6. kept \in Seq(Entries)
  <2>1. \A i \in excess + 1 .. Len(longer) : longer[i] \in Entries
    BY <1>4, <1>5, ElementOfSeq
  <2> QED
    BY <1>4, <1>5, <2>1, SubSeqProperties
<1> HIDE DEF kept
<1>7. update(R, next) = IF DOMAIN touched = {} THEN R
                        ELSE [R EXCEPT !.counter = @ + 1, !.current = next, !.history = kept]
  BY Zenon DEF update, kept, excess, longer, entry, touched
<1>8. R.counter + 1 \in Nat
  BY DEF ReplicaType
<1> DEFINE c == R.counter + 1
<1>9. [R EXCEPT !.counter = c, !.current = next, !.history = kept] \in ReplicaType
  <2> HIDE DEF c
  <2>1. c \in Nat
    BY <1>8 DEF c
  <2> QED
    BY <1>6, <2>1 DEF ReplicaType
<1> QED
  BY <1>7, <1>9

LEMMA RespondType ==
  ASSUME NEW R \in ReplicaType, NEW have \in Revisions
  PROVE  respond(R, have) \in Answers
<1>1. revision(R) \in Revisions
  BY RevisionType DEF revision, ReplicaType
<1>2. R.current \in Contents /\ R.current \in [Ids -> Nat]
  BY StateIsContent DEF ReplicaType, States
<1>3. \A chain : composeCollection(R.current, mergedTouched(chain)) \in Contents
  <2> TAKE chain
  <2> DEFINE touched == mergedTouched(chain)
  <2>1. DOMAIN touched \in SUBSET Ids
    BY DEF mergedTouched
  <2> HIDE DEF touched
  <2> DEFINE D == {j \in DOMAIN touched : touched[j] # R.current[j]}
  <2>2. D \in SUBSET Ids
    BY <2>1
  <2>3. composeCollection(R.current, touched) = [i \in D |-> R.current[i]]
    BY DEF composeCollection
  <2> HIDE DEF D
  <2>4. [i \in D |-> R.current[i]] \in [D -> Nat]
    BY <1>2, <2>2
  <2> QED
    BY <2>2, <2>3, <2>4, Zenon DEF Contents, touched
<1>4. \A k \in Kinds, b \in Revisions, n \in Revisions, c \in Contents :
        (k = "snapshot" => c \in States) => Response(k, b, n, c) \in Answers
  BY DEF Response, Answers
<1> DEFINE bases == {n \in DOMAIN R.history : R.history[n].base = have}
           first == CHOOSE n \in bases : \A m \in bases : m <= n
           chain == SubSeq(R.history, first, Len(R.history))
           compound == composeCollection(R.current, mergedTouched(chain))
           same == Response("unchanged", NoRevision, revision(R), << >>)
           delta == Response("delta", have, revision(R), compound)
           whole == Response("snapshot", NoRevision, revision(R), R.current)
<1>5. same \in Answers /\ delta \in Answers /\ whole \in Answers
  BY <1>1, <1>2, <1>3, <1>4, EmptyFacts DEF Kinds, States
<1>6. respond(R, have) =
        CASE have # NoRevision /\ have = revision(R) -> same
          [] have # NoRevision /\ have # revision(R) /\ bases # {} -> delta
          [] OTHER -> whole
  BY Zenon DEF respond
<1> HIDE DEF same, delta, whole, bases
<1>7. respond(R, have) \in {same, delta, whole}
  BY <1>6
<1> QED
  BY <1>5, <1>7

\* A run asked for again becomes the most recent, and nothing is lost.
LEMMA MovedToEnd ==
  ASSUME NEW S, NEW s \in Seq(S), NEW n \in 1..Len(s)
  PROVE  LET t == Append(RemoveAt(s, n), s[n])
         IN  /\ t \in Seq(S) /\ Len(t) = Len(s)
             /\ \A p \in 1..Len(s) :
                  t[p] = s[IF p < n THEN p ELSE IF p < Len(s) THEN p + 1 ELSE n]
<1> DEFINE a == SubSeq(s, 1, n - 1)
           b == SubSeq(s, n + 1, Len(s))
           c == a \o b
           t == Append(c, s[n])
<1>1. Len(s) \in Nat /\ n \in Nat /\ n >= 1 /\ n <= Len(s) /\ s[n] \in S
  BY LenProperties, ElementOfSeq
<1>2. a \in Seq(S) /\ Len(a) = n - 1 /\ \A i \in 1..(n - 1) : a[i] = s[i]
  <2>1. \A i \in 1..(n - 1) : s[i] \in S
    BY <1>1, ElementOfSeq
  <2>2. 1 \in Int /\ n - 1 \in Int
    BY <1>1
  <2>3. /\ a \in Seq(S) /\ Len(a) = IF 1 <= n - 1 THEN (n - 1) - 1 + 1 ELSE 0
        /\ \A i \in 1..((n - 1) - 1 + 1) : a[i] = s[1 + i - 1]
    BY <2>1, <2>2, SubSeqProperties
  <2> QED
    BY <1>1, <2>3
<1>3. b \in Seq(S) /\ Len(b) = Len(s) - n /\ \A i \in 1..(Len(s) - n) : b[i] = s[n + i]
  <2>1. \A i \in (n + 1)..Len(s) : s[i] \in S
    BY <1>1, ElementOfSeq
  <2>2. n + 1 \in Int /\ Len(s) \in Int
    BY <1>1
  <2>3. /\ b \in Seq(S) /\ Len(b) = IF n + 1 <= Len(s) THEN Len(s) - (n + 1) + 1 ELSE 0
        /\ \A i \in 1..(Len(s) - (n + 1) + 1) : b[i] = s[n + 1 + i - 1]
    BY <2>1, <2>2, SubSeqProperties
  <2> QED
    BY <1>1, <2>3
<1> HIDE DEF a, b
<1>4. /\ c \in Seq(S) /\ Len(c) = Len(s) - 1
      /\ \A i \in 1..(Len(s) - 1) : c[i] = IF i < n THEN s[i] ELSE s[i + 1]
  <2>1. /\ c \in Seq(S) /\ Len(c) = Len(a) + Len(b)
        /\ \A i \in 1..(Len(a) + Len(b)) :
             c[i] = IF i <= Len(a) THEN a[i] ELSE b[i - Len(a)]
    BY <1>2, <1>3, ConcatProperties
  <2>2. Len(a) + Len(b) = Len(s) - 1
    BY <1>1, <1>2, <1>3
  <2> SUFFICES ASSUME NEW i \in 1..(Len(s) - 1)
               PROVE  c[i] = IF i < n THEN s[i] ELSE s[i + 1]
    BY <2>1, <2>2
  <2>3. CASE i < n
    <3>1. i <= Len(a) /\ i \in 1..(n - 1)
      BY <1>1, <1>2, <2>3
    <3> QED
      BY <1>2, <2>1, <2>2, <2>3, <3>1
  <2>4. CASE ~(i < n)
    <3>1. ~(i <= Len(a)) /\ i - Len(a) \in 1..(Len(s) - n) /\ n + (i - Len(a)) = i + 1
      BY <1>1, <1>2, <2>4
    <3>2. c[i] = b[i - Len(a)]
      BY <2>1, <2>2, <3>1
    <3> QED
      BY <1>3, <2>4, <3>1, <3>2
  <2> QED
    BY <2>3, <2>4
<1> HIDE DEF c
<1>5. /\ t \in Seq(S) /\ Len(t) = Len(s)
      /\ \A i \in 1..(Len(s) - 1) : t[i] = c[i]
      /\ t[Len(s)] = s[n]
  BY <1>1, <1>4, AppendProperties
<1>6. t = Append(RemoveAt(s, n), s[n])
  BY DEF RemoveAt, c, a, b
<1> HIDE DEF t
<1>7. \A p \in 1..Len(s) : t[p] = s[IF p < n THEN p ELSE IF p < Len(s) THEN p + 1 ELSE n]
  BY <1>1, <1>4, <1>5
<1> QED
  BY <1>5, <1>6, <1>7

-----------------------------------------------------------------------------
(* The replica an answer is made from.                                     *)

Found(key) == IF kind = "list" THEN runListReplica ELSE getOrCreateReplica(key)
FreshEpoch == IF kind = "list" THEN <<server.epoch>> ELSE replicaEpoch

\* The replicas are those there were, in another order.
Reordered(srv, new) ==
  /\ new.epoch = srv.epoch /\ new.sequence = srv.sequence
  /\ srv.replicas # << >>
  /\ \E p \in [1..Len(new.replicas) -> 1..Len(srv.replicas)] :
       /\ \A m, n \in 1..Len(new.replicas) : p[m] = p[n] => m = n
       /\ \A n \in 1..Len(new.replicas) : new.replicas[n] = srv.replicas[p[n]]

\* One replica of a fresh epoch is added, and the oldest may go.
Added(srv, new, key) ==
  /\ new.epoch = srv.epoch
  /\ IF kind = "list" THEN srv.replicas = << >> /\ new.sequence = srv.sequence
     ELSE new.sequence = srv.sequence + 1
  /\ new.replicas[Len(new.replicas)] = [key |-> key, replica |-> createServerReplica(FreshEpoch)]
  /\ \E d \in {0, 1} :
       /\ Len(new.replicas) = Len(srv.replicas) + 1 - d
       /\ \A n \in 1..(Len(new.replicas) - 1) : new.replicas[n] = srv.replicas[n + d]

LEMMA FreshReplicaType ==
  ASSUME FeedsTyped, NEW key \in Keys
  PROVE  /\ FreshEpoch \in Revisions
         /\ [key |-> key, replica |-> createServerReplica(FreshEpoch)] \in ReplicaSlot
<1>1. server.epoch \in Nat /\ server.sequence + 1 \in Nat
  BY DEF FeedsTyped, ServerType
<1>2. <<server.epoch>> \in Seq(Nat) /\ <<server.epoch, server.sequence + 1>> \in Seq(Nat)
  BY <1>1
<1>3. FreshEpoch \in Revisions
  BY <1>2 DEF FreshEpoch, replicaEpoch, Revisions
<1>4. << >> \in Seq(Entries)
  BY EmptySeq
<1>5. createServerReplica(FreshEpoch) \in ReplicaType
  BY <1>3, <1>4, EmptyFacts DEF createServerReplica, ReplicaType
<1> QED
  BY <1>3, <1>5 DEF ReplicaSlot

LEMMA FoundFacts ==
  ASSUME FeedsTyped, NEW key \in Keys, kind = "list" => key = List
  PROVE  LET new == Found(key)
         IN  /\ new \in ServerType /\ Len(new.replicas) \in Nat \ {0}
             /\ Reordered(server, new) \/ Added(server, new, key)
<1> DEFINE reps == server.replicas
           slot == [key |-> key, replica |-> createServerReplica(FreshEpoch)]
<1>1. /\ reps \in Seq(ReplicaSlot) /\ Len(reps) \in Nat /\ DOMAIN reps = 1..Len(reps)
      /\ server \in ServerType
  BY LenProperties DEF FeedsTyped, ServerType
<1>2. slot \in ReplicaSlot
  BY FreshReplicaType
<1>3. CASE kind = "list" /\ reps # << >>
  <2>1. Found(key) = server
    BY <1>3 DEF Found, runListReplica
  <2>2. Len(reps) # 0
    BY <1>1, <1>3, EmptySeq
  <2>3. Reordered(server, server)
    <3> DEFINE p == [n \in 1..Len(reps) |-> n]
    <3>1. p \in [1..Len(reps) -> 1..Len(reps)]
      OBVIOUS
    <3>2. \A m, n \in 1..Len(reps) : p[m] = p[n] => m = n
      OBVIOUS
    <3>3. \A n \in 1..Len(reps) : reps[n] = reps[p[n]]
      OBVIOUS
    <3> HIDE DEF p
    <3> QED
      BY <1>3, <3>1, <3>2, <3>3 DEF Reordered
  <2> QED
    BY <1>1, <2>1, <2>2, <2>3
<1>4. CASE kind = "list" /\ reps = << >>
  <2>1. Found(key) = [server EXCEPT !.replicas = <<slot>>]
    BY <1>4 DEF Found, runListReplica, FreshEpoch
  <2>2. <<slot>> \in Seq(ReplicaSlot) /\ Len(<<slot>>) = 1 /\ <<slot>>[1] = slot
    BY <1>2
  <2> HIDE DEF slot
  <2>3. /\ Found(key) \in ServerType /\ Found(key).replicas = <<slot>>
        /\ Found(key).epoch = server.epoch /\ Found(key).sequence = server.sequence
    BY <1>1, <2>1, <2>2 DEF ServerType
  <2>4. Len(reps) = 0
    BY <1>4
  <2>5. Added(server, Found(key), key)
    BY <1>4, <2>2, <2>3, <2>4 DEF Added, slot
  <2> QED
    BY <2>2, <2>3, <2>5
<1>5. CASE kind # "list"
  <2> DEFINE held == {n \in DOMAIN reps : reps[n].key = key}
             at == CHOOSE n \in held : TRUE
             moved == Append(RemoveAt(reps, at), reps[at])
             all == Append(reps, slot)
             kept == IF Len(all) > MaxReplicas THEN Tail(all) ELSE all
  <2>1. Found(key) = IF held # {} THEN [server EXCEPT !.replicas = moved]
                     ELSE [server EXCEPT !.sequence = @ + 1, !.replicas = kept]
    <3>1. Found(key) = getOrCreateReplica(key) /\ FreshEpoch = replicaEpoch
      BY <1>5 DEF Found, FreshEpoch
    <3> QED
      BY <3>1 DEF getOrCreateReplica
  <2>2. CASE held # {}
    <3>1. at \in 1..Len(reps)
      BY <1>1, <2>2
    <3> DEFINE n0 == at
               q == [p \in 1..Len(reps) |->
                       IF p < n0 THEN p ELSE IF p < Len(reps) THEN p + 1 ELSE n0]
    <3> HIDE DEF at
    <3>2. /\ moved \in Seq(ReplicaSlot) /\ Len(moved) = Len(reps)
          /\ \A p \in 1..Len(reps) :
               moved[p] = reps[IF p < n0 THEN p ELSE IF p < Len(reps) THEN p + 1 ELSE n0]
      BY <1>1, <3>1, MovedToEnd
    <3> HIDE DEF moved
    <3>3. q \in [1..Len(reps) -> 1..Len(reps)]
      BY <1>1, <3>1
    <3>4. \A m, n \in 1..Len(reps) : q[m] = q[n] => m = n
      BY <1>1, <3>1
    <3>5. \A n \in 1..Len(reps) : moved[n] = reps[q[n]]
      BY <3>2
    <3> HIDE DEF q
    <3>6. Found(key) = [server EXCEPT !.replicas = moved]
      BY <2>1, <2>2
    <3>7. /\ Found(key) \in ServerType /\ Found(key).replicas = moved
          /\ Found(key).epoch = server.epoch /\ Found(key).sequence = server.sequence
      BY <1>1, <3>2, <3>6 DEF ServerType
    <3>8. Len(reps) # 0 /\ reps # << >>
      BY <1>1, <3>1
    <3>9. Reordered(server, Found(key))
      BY <3>2, <3>3, <3>4, <3>5, <3>7, <3>8 DEF Reordered
    <3> QED
      BY <1>1, <3>2, <3>7, <3>8, <3>9
  <2>3. CASE held = {}
    <3>1. /\ all \in Seq(ReplicaSlot) /\ Len(all) = Len(reps) + 1
          /\ \A n \in 1..Len(reps) : all[n] = reps[n]
          /\ all[Len(reps) + 1] = slot /\ all # << >>
      BY <1>1, <1>2, AppendProperties
    <3> HIDE DEF all, slot
    <3>2. MaxReplicas >= 1 /\ MaxReplicas \in Nat
      BY FeedsBounds
    <3>3. \E d \in {0, 1} :
            /\ kept \in Seq(ReplicaSlot) /\ Len(kept) = Len(reps) + 1 - d
            /\ \A n \in 1..(Len(kept) - 1) : kept[n] = reps[n + d]
            /\ Len(kept) >= 1 /\ kept[Len(kept)] = slot
      <4>1. CASE Len(all) > MaxReplicas
        <5>1. /\ kept = Tail(all) /\ Len(reps) >= 1
          BY <1>1, <3>1, <3>2, <4>1
        <5>2. /\ kept \in Seq(ReplicaSlot) /\ Len(kept) = Len(all) - 1
              /\ \A n \in 1..Len(kept) : kept[n] = all[n + 1]
          BY <3>1, <5>1, HeadTailProperties
        <5> HIDE DEF kept
        <5> QED
          BY <1>1, <3>1, <5>1, <5>2
      <4>2. CASE ~(Len(all) > MaxReplicas)
        <5>1. kept = all
          BY <4>2
        <5> HIDE DEF kept
        <5> QED
          BY <1>1, <3>1, <5>1
      <4> QED
        BY <4>1, <4>2
    <3> HIDE DEF kept
    <3> DEFINE n1 == server.sequence + 1
    <3>4. n1 \in Nat
      BY <1>1 DEF ServerType
    <3>5. Found(key) = [server EXCEPT !.sequence = n1, !.replicas = kept]
      BY <2>1, <2>3
    <3> HIDE DEF n1
    <3>6. /\ Found(key) \in ServerType /\ Found(key).replicas = kept
          /\ Found(key).epoch = server.epoch /\ Found(key).sequence = n1
      BY <1>1, <3>3, <3>4, <3>5 DEF ServerType
    <3>7. Added(server, Found(key), key)
      BY <1>5, <3>3, <3>6 DEF Added, n1, slot
    <3>8. Len(kept) \in Nat \ {0}
      BY <1>1, <3>3
    <3> QED
      BY <3>6, <3>7, <3>8
  <2> QED
    BY <2>2, <2>3
<1> QED
  BY <1>3, <1>4, <1>5

-----------------------------------------------------------------------------
(* Types, and the poll in flight.                                          *)

\* An uncancelled poll is the active one, and its guard knows of it; the active one exists.
Flight(reqs, act, g) ==
  /\ \A s \in Slots : reqs[s].guarded /\ ~reqs[s].cancelled => s = act /\ g.inFlight
  /\ act \in Slots => reqs[act] # Free

FlightInv == Flight(requests, active, guard)

\* The requests of a slot map are of their type and ask for the behaviour's resources.
Asks(reqs) ==
  /\ reqs \in [Slots -> RequestType]
  /\ \A s \in Slots : reqs[s] # Free => reqs[s].key \in Resources

LEMMA StartFacts ==
  ASSUME FeedsTyped, NEW reqs, Asks(reqs), NEW g \in GuardType, NEW act, NEW have \in Revisions,
         page.shown \in Resources, Flight(reqs, act, g), start(reqs, g, act, have)
  PROVE  /\ Asks(requests)' \/ kind' # kind
         /\ requests' \in [Slots -> RequestType] /\ guard' \in GuardType
         /\ Flight(requests', active', guard')
<1>1. CASE ~tryStart(g)
  BY <1>1 DEF start, Asks, Resources
<1>2. CASE tryStart(g)
  <2> DEFINE n == NextSlot(reqs)
             new == Request(have, TRUE)
  <2>1. requests' = [reqs EXCEPT ![n] = new] /\ active' = n /\ guard' = [g EXCEPT !.inFlight = TRUE]
    BY <1>2 DEF start
  <2>2. new \in RequestType /\ new.key \in Resources /\ new # Free
    BY DEF Request, RequestType, FeedsTyped, PageType, Free
  <2>3. ~g.inFlight
    BY <1>2 DEF tryStart
  <2> HIDE DEF n, new
  <2>4. \A s \in Slots : requests'[s] = IF s = n THEN new ELSE reqs[s]
    BY <2>1 DEF Asks
  <2>5. requests' \in [Slots -> RequestType]
    BY <2>1, <2>2 DEF Asks
  <2>6. guard' \in GuardType /\ guard'.inFlight
    BY <2>1 DEF GuardType
  <2>7. Flight(requests', active', guard')
    BY <2>1, <2>2, <2>3, <2>4, <2>6 DEF Flight
  <2>8. kind' = kind => Asks(requests)'
    BY <2>2, <2>4, <2>5 DEF Asks, Resources
  <2> QED
    BY <2>5, <2>6, <2>7, <2>8
<1> QED
  BY <1>1, <1>2

LEMMA SettledFacts ==
  ASSUME FeedsTyped, FlightInv, NEW s \in Slots, NEW ok \in BOOLEAN
  PROVE  LET freed == [requests EXCEPT ![s] = Free]
             g == settledGuard(requests[s], ok)
         IN  Asks(freed) /\ g \in GuardType /\ Flight(freed, finished(s), g)
<1> DEFINE freed == [requests EXCEPT ![s] = Free]
           g == settledGuard(requests[s], ok)
<1>1. \A t \in Slots : freed[t] = IF t = s THEN Free ELSE requests[t]
  BY DEF FeedsTyped
<1>2. Asks(freed)
  BY <1>1, EmptyFacts DEF FeedsTyped, Asks
<1>3. g \in GuardType
  BY DEF FeedsTyped, GuardType, settledGuard, succeeded, failed, FreshGuard
<1>4. Flight(freed, finished(s), g)
  <2>0. finished(s) \in Slots => freed[finished(s)] # Free
    BY <1>1, FeedsBounds DEF finished, FlightInv, Flight
  <2> SUFFICES ASSUME NEW t \in Slots, freed[t].guarded, ~freed[t].cancelled
               PROVE  t = finished(s) /\ g.inFlight
    BY <2>0 DEF Flight
  <2>1. t # s
    BY <1>1 DEF Free
  <2>2. t = active /\ guard.inFlight
    BY <1>1, <2>1 DEF FlightInv, Flight
  <2>3. ~requests[s].guarded \/ requests[s].cancelled
    BY <2>1, <2>2 DEF FlightInv, Flight
  <2> QED
    BY <2>1, <2>2, <2>3 DEF finished, settledGuard
<1> QED
  BY <1>2, <1>3, <1>4

LEMMA CancelledFacts ==
  ASSUME FeedsTyped, FlightInv, NEW g
  PROVE  Asks(cancelled(requests)) /\ Flight(cancelled(requests), 0, g)
<1>1. \A s \in Slots :
        cancelled(requests)[s] = IF s = active THEN [requests[s] EXCEPT !.cancelled = TRUE]
                                 ELSE requests[s]
  BY FeedsBounds DEF cancelled, FeedsTyped
<1>2. cancelled(requests) \in [Slots -> RequestType]
  BY DEF cancelled, FeedsTyped, RequestType
<1>3. \A s \in Slots : cancelled(requests)[s] # Free => cancelled(requests)[s].key \in Resources
  <2> TAKE s \in Slots
  <2>1. requests[s] \in RequestType
    BY DEF FeedsTyped
  <2>2. CASE s = active
    <3>1. cancelled(requests)[s].key = requests[s].key
      BY <1>1, <2>1, <2>2 DEF RequestType
    <3> QED
      BY <3>1, <2>2 DEF FeedsTyped, FlightInv, Flight
  <2> QED
    BY <1>1, <2>2 DEF FeedsTyped
<1>4. Flight(cancelled(requests), 0, g)
  BY <1>1, FeedsBounds DEF FlightInv, Flight, FeedsTyped, RequestType
<1> QED
  BY <1>2, <1>3, <1>4 DEF Asks

LEMMA IngressType ==
  ASSUME FeedsTyped, NEW r \in RequestType, r.reply # << >>
  PROVE  Ingress(r).held \in HeldType
<1>1. page.feed \in HeldType /\ r.reply \in Answers
  BY DEF FeedsTyped, PageType, RequestType
<1> DEFINE f == page.feed
           a == r.reply
<1> HIDE DEF f, a
<1>2. f \in HeldType /\ a \in Answers
  BY <1>1 DEF f, a
<1>3. applySnapshot(a).held \in HeldType \/ a.kind # "snapshot"
  BY <1>2 DEF applySnapshot, HeldType, Answers
<1>4. applyDelta(f, a).held \in HeldType
  <2>1. \A i \in DOMAIN a.content : a.content[i] \in Nat
    BY <1>2 DEF Answers, Contents
  <2>2. applyCollectionDelta(f.state, a.content) \in States
    BY <1>2, <2>1 DEF applyCollectionDelta, HeldType, States
  <2>3. a.next \in Revisions
    BY <1>2 DEF Answers
  <2> QED
    BY <1>2, <2>2, <2>3 DEF applyDelta, HeldType
<1>5. reduceServerResponse(f, a).held \in HeldType
  BY <1>2, <1>3, <1>4 DEF reduceServerResponse
<1> QED
  BY <1>5 DEF Ingress, f, a

LEMMA ReactionType ==
  ASSUME FeedsTyped, NEW r \in RequestType, r.reply # << >>
  PROVE  /\ GotRunList(r).held \in HeldType /\ GotFlowModel(r).held \in HeldType
<1>1. Ingress(r).held \in HeldType
  BY IngressType
<1> QED
  BY <1>1, EmptyFacts DEF GotRunList, GotFlowModel, FeedsTyped, PageType

\* The state a request is answered from.
ServedFrom(key) == update(Last(Found(key).replicas).replica, world[key])

LEMMA ServeFacts ==
  ASSUME FeedsTyped, NEW s \in Slots, Serve(s)
  PROVE  LET key == requests[s].key
             found == Found(key)
             last == Len(found.replicas)
         IN  /\ requests[s].reply = << >> /\ requests[s] # Free /\ key \in Resources
             /\ key \in Keys /\ (kind = "list" => key = List)
             /\ found \in ServerType /\ last \in Nat \ {0} /\ world[key] \in States
             /\ Last(found.replicas) = found.replicas[last]
             /\ found.replicas[last] \in ReplicaSlot
             /\ ServedFrom(key) \in ReplicaType
             /\ server' = [found EXCEPT !.replicas[last].replica = ServedFrom(key)]
             /\ requests' = [requests EXCEPT ![s].reply = respond(ServedFrom(key), requests[s].have)]
             /\ respond(ServedFrom(key), requests[s].have) \in Answers
<1> DEFINE key == requests[s].key
           found == Found(key)
           last == Len(found.replicas)
<1>1. requests[s] # Free /\ requests[s].reply = << >> /\ requests[s] \in RequestType
  BY DEF Serve, FeedsTyped
<1>2. key \in Keys /\ key \in Resources /\ requests[s].have \in Revisions
  BY <1>1 DEF FeedsTyped, RequestType
<1>3. kind = "list" => key = List
  BY <1>2 DEF Resources
<1>4. found \in ServerType /\ last \in Nat \ {0}
  BY <1>2, <1>3, FoundFacts
<1>5. world[key] \in States
  BY <1>2 DEF FeedsTyped
<1>6. found.replicas \in Seq(ReplicaSlot)
  BY <1>4 DEF ServerType
<1>7. found.replicas[last] \in ReplicaSlot
  BY <1>4, <1>6, ElementOfSeq
<1>8. Last(found.replicas) = found.replicas[last]
  BY DEF Last
<1>9. ServedFrom(key) \in ReplicaType
  BY <1>5, <1>7, <1>8, UpdateType DEF ServedFrom, ReplicaSlot
<1>10. respond(ServedFrom(key), requests[s].have) \in Answers
  BY <1>2, <1>9, RespondType
<1>11. /\ server' = [found EXCEPT !.replicas[last].replica = ServedFrom(key)]
       /\ requests' = [requests EXCEPT ![s].reply = respond(ServedFrom(key), requests[s].have)]
  BY DEF Serve, Found, ServedFrom
<1> QED
  BY <1>1, <1>2, <1>3, <1>4, <1>5, <1>7, <1>8, <1>9, <1>10, <1>11

TypedFlight == FeedsTyped /\ FlightInv

LEMMA RequestsKept ==
  ASSUME TypedFlight, requests' = requests, guard' \in GuardType, active' = active, kind' = kind,
         guard'.inFlight = guard.inFlight
  PROVE  Asks(requests)' /\ FlightInv'
  BY DEF TypedFlight, FeedsTyped, Asks, FlightInv, Flight, Resources

LEMMA AnswerTyped ==
  ASSUME TypedFlight, NEW s \in Slots, requests[s] # Free, NEW a \in Answers,
         requests' = [requests EXCEPT ![s].reply = a], UNCHANGED <<guard, active, kind>>
  PROVE  Asks(requests)' /\ FlightInv'
<1> DEFINE new == [requests[s] EXCEPT !.reply = a]
<1>1. requests[s] \in RequestType /\ requests' = [requests EXCEPT ![s] = new]
  BY DEF TypedFlight, FeedsTyped
<1>2. /\ new \in RequestType /\ new.key = requests[s].key /\ new.guarded = requests[s].guarded
      /\ new.cancelled = requests[s].cancelled /\ new.reply = a
  BY <1>1 DEF RequestType
<1>3. a # << >>
  <2>1. "kind" \in DOMAIN a
    BY DEF Answers
  <2> QED
    BY <2>1
<1>4. new # Free
  BY <1>2, <1>3 DEF Free
<1> HIDE DEF new
<1>5. \A t \in Slots : requests'[t] = IF t = s THEN new ELSE requests[t]
  BY <1>1 DEF TypedFlight, FeedsTyped
<1>6. Asks(requests)'
  BY <1>1, <1>2, <1>5 DEF TypedFlight, FeedsTyped, Asks, Resources
<1>7. FlightInv'
  BY <1>2, <1>4, <1>5 DEF TypedFlight, FlightInv, Flight
<1> QED
  BY <1>6, <1>7

LEMMA TypedFlightStep == TypedFlight /\ [FeedsNext]_fvars => TypedFlight'
<1> SUFFICES ASSUME TypedFlight, [FeedsNext]_fvars
             PROVE  TypedFlight'
  OBVIOUS
<1> USE DEF TypedFlight
<1>0. Resources' = Resources \/ kind' # kind
  BY DEF Resources
<1>a. Asks(requests) /\ world \in [Resources -> States] /\ server \in ServerType
  BY DEF FeedsTyped, Asks
<1>b. /\ guard \in GuardType /\ page \in PageType /\ page.feed \in HeldType
      /\ page.feed.rev \in Revisions
  BY DEF FeedsTyped, PageType, HeldType
<1>1. ASSUME NEW r \in Resources, NEW i \in Ids, NEW v \in 0..MaxVersion, WorldChanges(r, i, v)
      PROVE  TypedFlight'
  <2> DEFINE w == [world[r] EXCEPT ![i] = v]
  <2>1. world' = [world EXCEPT ![r] = w] /\ UNCHANGED <<kind, server, requests, guard, active, page>>
    BY <1>1, <1>a DEF WorldChanges
  <2>2. w \in States
    BY <1>a, FeedsBounds DEF States
  <2> HIDE DEF w
  <2>3. world' \in [Resources' -> States]
    BY <1>0, <1>a, <2>1, <2>2
  <2> QED
    BY <1>b, <2>1, <2>3, RequestsKept DEF FeedsTyped, Asks, Resources
<1>2. ASSUME Restart PROVE TypedFlight'
  <2>1. /\ UNCHANGED <<kind, world, requests, guard, active, page>>
        /\ server' = [epoch |-> server.epoch + 1, sequence |-> 0, replicas |-> << >>]
    BY <1>2 DEF Restart
  <2>2. << >> \in Seq(ReplicaSlot)
    BY EmptySeq
  <2>3. server' \in ServerType
    BY <1>a, <2>1, <2>2 DEF ServerType
  <2> QED
    BY <1>0, <1>a, <1>b, <2>1, <2>3, RequestsKept DEF FeedsTyped, Asks
<1>3. ASSUME Tick PROVE TypedFlight'
  <2>1. /\ page.shown \in Resources /\ UNCHANGED <<kind, world, server, page>>
        /\ start(requests, guard, active, page.feed.rev)
    BY <1>3 DEF Tick, Polled, FeedsTyped, Resources
  <2>2. Asks(requests)' /\ guard' \in GuardType /\ FlightInv'
    BY <1>a, <1>b, <2>1, StartFacts DEF FlightInv
  <2> QED
    BY <1>0, <1>a, <1>b, <2>1, <2>2 DEF FeedsTyped, Asks
<1>4. ASSUME ReadRunList PROVE TypedFlight'
  <2> DEFINE n == NextSlot(requests)
             new == Request(NoRevision, FALSE)
  <2>1. requests' = [requests EXCEPT ![n] = new] /\ kind = "list" /\ UNCHANGED <<kind, world, server, guard, active, page>>
    BY <1>4 DEF ReadRunList
  <2>2. new \in RequestType /\ new.key = List /\ ~new.guarded
    BY <1>b, <2>1, EmptyFacts DEF FeedsTyped, Request, RequestType, Keys
  <2> HIDE DEF n, new
  <2>3. \A s \in Slots : requests'[s] = IF s = n THEN new ELSE requests[s]
    BY <1>a, <2>1 DEF Asks
  <2>4. Asks(requests)'
    BY <1>a, <2>1, <2>2, <2>3 DEF Asks, Resources
  <2>5. new # Free
    BY <2>2 DEF Free, List, NoRun
  <2>6. FlightInv'
    BY <2>1, <2>2, <2>3, <2>5 DEF FlightInv, Flight
  <2> QED
    BY <1>0, <1>a, <1>b, <2>1, <2>4, <2>6 DEF FeedsTyped, Asks
<1>5. ASSUME BackoffElapses PROVE TypedFlight'
  <2>1. guard' = [guard EXCEPT !.waiting = FALSE] /\ UNCHANGED <<kind, world, server, requests, active, page>>
    BY <1>5 DEF BackoffElapses
  <2>2. guard' \in GuardType /\ guard'.inFlight = guard.inFlight
    BY <1>b, <2>1 DEF GuardType
  <2> QED
    BY <1>0, <1>a, <1>b, <2>1, <2>2, RequestsKept DEF FeedsTyped, Asks
<1>6. ASSUME NEW s \in Slots, Serve(s) PROVE TypedFlight'
  <2> DEFINE key == requests[s].key
             found == Found(key)
             last == Len(found.replicas)
             answer == respond(ServedFrom(key), requests[s].have)
             slot == [found.replicas[last] EXCEPT !.replica = ServedFrom(key)]
             reps == [found.replicas EXCEPT ![last] = slot]
  <2>1. UNCHANGED <<kind, world, guard, active, page>>
    BY <1>6 DEF Serve
  <2>2. /\ requests[s] # Free /\ requests' = [requests EXCEPT ![s].reply = answer]
        /\ answer \in Answers
    BY <1>6, ServeFacts
  <2>3. /\ found \in ServerType /\ found.replicas[last] \in ReplicaSlot /\ last \in Nat \ {0}
        /\ ServedFrom(key) \in ReplicaType
        /\ server' = [found EXCEPT !.replicas[last].replica = ServedFrom(key)]
    BY <1>6, ServeFacts
  <2>4. Asks(requests)' /\ FlightInv'
    <3> HIDE DEF answer
    <3> QED
      BY <2>1, <2>2, AnswerTyped
  <2>5. slot \in ReplicaSlot
    BY <2>3 DEF ReplicaSlot
  <2>6. reps \in Seq(ReplicaSlot)
    BY <2>3, <2>5, ExceptSeq DEF ServerType
  <2>7. server' = [found EXCEPT !.replicas = reps]
    BY <2>3 DEF ServerType
  <2> HIDE DEF reps, found
  <2>8. server' \in ServerType
    BY <2>3, <2>6, <2>7 DEF ServerType
  <2> QED
    BY <1>0, <1>a, <1>b, <2>1, <2>4, <2>8 DEF FeedsTyped, Asks
<1>7. ASSUME NEW s \in Slots, ServeMissing(s) PROVE TypedFlight'
  <2>1. PICK k \in {"missing", "error"} :
          requests' = [requests EXCEPT ![s].reply = Response(k, NoRevision, NoRevision, << >>)]
    BY <1>7 DEF ServeMissing
  <2>2. UNCHANGED <<kind, world, server, guard, active, page>> /\ requests[s] # Free
    BY <1>7 DEF ServeMissing
  <2>3. Response(k, NoRevision, NoRevision, << >>) \in Answers
    BY EmptyFacts DEF Response, Answers, Kinds
  <2>4. Asks(requests)' /\ FlightInv'
    BY <2>1, <2>2, <2>3, AnswerTyped
  <2> QED
    BY <1>0, <1>a, <1>b, <2>2, <2>4 DEF FeedsTyped, Asks
<1>8. ASSUME NEW s \in Slots, RequestSettles(s) PROVE TypedFlight'
  <2>1. /\ requests' = [requests EXCEPT ![s] = Free] /\ guard' = settledGuard(requests[s], FALSE)
        /\ active' = finished(s) /\ UNCHANGED <<kind, world, server, page>>
    BY <1>8 DEF RequestSettles
  <2>2. Asks(requests)' /\ guard' \in GuardType /\ FlightInv'
    BY <1>0, <2>1, SettledFacts DEF FlightInv, Asks
  <2> QED
    BY <1>0, <1>a, <1>b, <2>1, <2>2 DEF FeedsTyped, Asks
<1>9. ASSUME NEW s \in Slots, Deliver(s) PROVE TypedFlight'
  <2> DEFINE r == requests[s]
             freed == [requests EXCEPT ![s] = Free]
             settled == settledGuard(r, r.reply.kind # "error")
             reaction == IF kind = "list" THEN GotRunList(r) ELSE GotFlowModel(r)
             opened == page.loaded \/ reaction.kind \in {"applied", "snapshot"}
  <2>1. /\ r # Free /\ r \in RequestType /\ r.reply # << >> /\ r.key \in Resources
        /\ UNCHANGED <<kind, world, server>>
    BY <1>9 DEF Deliver, FeedsTyped
  <2>2. reaction.held \in HeldType
    BY <2>1, ReactionType
  <2>3. Asks(freed) /\ settled \in GuardType /\ Flight(freed, finished(s), settled)
    BY SettledFacts
  <2>4. \/ /\ requests' = freed /\ guard' = settled /\ active' = finished(s) /\ page' = page
        \/ /\ r.key = page.shown
           /\ page' = [page EXCEPT !.feed = reaction.held, !.loaded = opened]
           /\ \/ start(freed, settled, finished(s), NoRevision)
              \/ requests' = freed /\ guard' = settled /\ active' = finished(s)
    BY <1>9 DEF Deliver
  <2>5. opened \in BOOLEAN
    BY <1>b DEF PageType
  <2> HIDE DEF reaction, opened, freed, settled
  <2>6. /\ page' \in PageType /\ page'.shown = page.shown
    BY <1>b, <2>2, <2>4, <2>5 DEF PageType
  <2>7. CASE requests' = freed /\ guard' = settled /\ active' = finished(s)
    <3>1. Asks(requests)' /\ guard' \in GuardType /\ FlightInv'
      BY <1>0, <2>1, <2>3, <2>7 DEF FlightInv, Asks
    <3> QED
      BY <1>0, <1>a, <2>1, <2>6, <3>1 DEF FeedsTyped, Asks
  <2>8. CASE r.key = page.shown /\ start(freed, settled, finished(s), NoRevision)
    <3>1. page.shown \in Resources
      BY <2>1, <2>8
    <3>2. NoRevision \in Revisions
      BY EmptyFacts
    <3>3. Asks(requests)' /\ guard' \in GuardType /\ FlightInv'
      BY <2>1, <2>3, <2>8, <3>1, <3>2, StartFacts DEF FlightInv
    <3> QED
      BY <1>0, <1>a, <2>1, <2>6, <3>3 DEF FeedsTyped, Asks
  <2> QED
    BY <2>4, <2>7, <2>8
<1>10. ASSUME NEW run \in Runs, SelectRun(run) PROVE TypedFlight'
  <2>1. /\ requests' = cancelled(requests) /\ guard' = FreshGuard /\ active' = 0 /\ kind = "flow"
        /\ page' = [page EXCEPT !.shown = run, !.feed = emptyFeed, !.loaded = FALSE]
        /\ UNCHANGED <<kind, world, server>>
    BY <1>10 DEF SelectRun
  <2>2. page' \in PageType /\ page'.shown = run
    BY <1>b, <2>1, EmptyFacts DEF PageType, Keys
  <2>3. guard' \in GuardType
    BY <2>1 DEF FreshGuard, GuardType
  <2>4. Asks(requests)' /\ FlightInv'
    BY <1>0, <2>1, CancelledFacts DEF FlightInv, Asks
  <2> QED
    BY <1>0, <1>a, <2>1, <2>2, <2>3, <2>4 DEF FeedsTyped, Asks
<1>11. ASSUME PageVisibilityChanged PROVE TypedFlight'
  <2> DEFINE shut == ~page.visible
             feed == IF ~page.visible /\ kind = "flow" /\ pollable THEN [page.feed EXCEPT !.rev = NoRevision]
                     ELSE page.feed
             resumed == [page EXCEPT !.visible = shut, !.feed = feed]
  <2>1. /\ page' = resumed /\ UNCHANGED <<kind, world, server>>
        /\ \/ requests' = cancelled(requests) /\ guard' = FreshGuard /\ active' = 0
           \/ page.shown # NoRun /\ start(cancelled(requests), FreshGuard, 0, resumed.feed.rev)
    BY <1>11 DEF PageVisibilityChanged, Polled
  <2>2. feed \in HeldType
    BY <1>b, EmptyFacts DEF HeldType
  <2>3. shut \in BOOLEAN
    OBVIOUS
  <2> HIDE DEF feed, shut
  <2>4. /\ page' \in PageType /\ page'.shown = page.shown /\ resumed.feed.rev \in Revisions
    BY <1>b, <2>1, <2>2, <2>3 DEF PageType, HeldType
  <2> HIDE DEF resumed
  <2>5. FreshGuard \in GuardType
    BY DEF FreshGuard, GuardType
  <2>6. Asks(cancelled(requests)) /\ Flight(cancelled(requests), 0, FreshGuard)
    BY CancelledFacts
  <2>7. Asks(requests)' /\ guard' \in GuardType /\ FlightInv'
    <3>1. CASE requests' = cancelled(requests) /\ guard' = FreshGuard /\ active' = 0
      BY <1>0, <2>1, <2>5, <2>6, <3>1 DEF FlightInv, Asks
    <3>2. CASE page.shown # NoRun /\ start(cancelled(requests), FreshGuard, 0, resumed.feed.rev)
      <4>1. page.shown \in Resources
        BY <3>2 DEF FeedsTyped, Resources
      <4> QED
        BY <2>1, <2>4, <2>5, <2>6, <3>2, <4>1, StartFacts DEF FlightInv
    <3> QED
      BY <2>1, <3>1, <3>2
  <2> QED
    BY <1>0, <1>a, <2>1, <2>4, <2>7 DEF FeedsTyped, Asks
<1>12. ASSUME StatusRead \/ UNCHANGED fvars PROVE TypedFlight'
  <2>1. UNCHANGED <<kind, world, server, requests, guard, active, page>>
    BY <1>12 DEF StatusRead, fvars
  <2> QED
    BY <2>1 DEF FeedsTyped, FlightInv, Flight, Resources
<1> QED
  BY <1>1, <1>2, <1>3, <1>4, <1>5, <1>6, <1>7, <1>8, <1>9, <1>10, <1>11, <1>12
     DEF FeedsNext, Network, AbortSettles, RequestFails

LEMMA TypedFlightInit == FeedsInit => TypedFlight
<1> SUFFICES ASSUME FeedsInit PROVE TypedFlight
  OBVIOUS
<1>1. << >> \in Seq(ReplicaSlot)
  BY EmptySeq
<1>2. server \in ServerType
  BY <1>1 DEF FeedsInit, ServerType
<1>3. page \in PageType
  BY EmptyFacts DEF FeedsInit, PageType, Keys
<1>4. requests \in [Slots -> RequestType] /\ world \in [Resources -> States]
  BY EmptyFacts DEF FeedsInit
<1>5. FlightInv
  BY FeedsBounds DEF FeedsInit, FlightInv, Flight, Free
<1>6. /\ kind \in {"list", "flow"} /\ guard \in GuardType
      /\ IF kind = "list" THEN page.shown = List ELSE page.shown \in Runs \cup {NoRun}
      /\ \A s \in Slots : requests[s] = Free
  BY DEF FeedsInit, FreshGuard, GuardType
<1> QED
  BY <1>2, <1>3, <1>4, <1>5, <1>6 DEF TypedFlight, FeedsTyped

\* One poll is in flight under a key (poll-fetch.ts), however many are cancelled and
\* settle late: a cancelled one never frees the guard of the one that replaced it.
THEOREM OnePollAtATime == FeedsSpec => []OneFlight
<1>1. TypedFlight => OneFlight
  <2> SUFFICES ASSUME TypedFlight PROVE OneFlight
    OBVIOUS
  <2> DEFINE flying == {s \in Slots : requests[s].guarded /\ ~requests[s].cancelled}
  <2>1. flying \subseteq {active}
    BY DEF TypedFlight, FlightInv, Flight
  <2>2. flying = {} \/ flying = {active}
    BY <2>1
  <2>3. Cardinality({}) = 0 /\ Cardinality({active}) = 1
    BY FS_EmptySet, FS_Singleton
  <2> HIDE DEF flying
  <2>4. Cardinality(flying) <= 1
    BY <2>2, <2>3
  <2> USE DEF flying
  <2> QED
    BY <2>4 DEF OneFlight
<1> QED
  BY <1>1, TypedFlightInit, TypedFlightStep, PTL DEF FeedsSpec

-----------------------------------------------------------------------------
(* A revision names a state: the naming is a function from the revisions to    *)
(* the states, which grows with every update.                                  *)

Names == [Revisions -> States]

\* The revision the n-th entry of the history starts from; after the last one, the
\* revision the replica stands at.
At(R, n) == Append(R.epoch, R.counter - (Len(R.history) + 1 - n))

\* An entry undoes the step from its revision to the next one.
Undoes(N, R, n) ==
  \A i \in Ids : N[At(R, n)][i] = IF i \in DOMAIN R.history[n].touched
                                  THEN R.history[n].touched[i] ELSE N[At(R, n + 1)][i]

ReplicaOK(N, R) ==
  /\ N[revision(R)] = R.current
  /\ Len(R.history) <= R.counter
  /\ \A n \in 1..Len(R.history) : R.history[n].base = At(R, n) /\ Undoes(N, R, n)

LEMMA SameRevision ==
  ASSUME NEW e \in Revisions, NEW f \in Revisions, NEW j \in Int, NEW k \in Int,
         Append(e, j) = Append(f, k)
  PROVE  e = f /\ j = k
<1>1. e \in Seq(Int) /\ f \in Seq(Int)
  <2>1. \A q \in Seq(Nat) : q \in Seq(Int)
    BY SeqDef
  <2> QED
    BY <2>1 DEF Revisions
<1> QED
  BY <1>1, AppendInjective

LEMMA HistoryFacts ==
  ASSUME NEW R \in ReplicaType
  PROVE  /\ R.history \in Seq(Entries) /\ Len(R.history) \in Nat /\ R.counter \in Nat
         /\ DOMAIN R.history = 1..Len(R.history) /\ R.epoch \in Revisions
         /\ \A n \in 1..Len(R.history) :
              R.history[n] \in Entries /\ DOMAIN R.history[n].touched \subseteq Ids
         /\ At(R, Len(R.history) + 1) = revision(R) /\ revision(R) \in Revisions
         /\ R.current \in States
<1>1. /\ R.history \in Seq(Entries) /\ R.counter \in Nat /\ R.epoch \in Revisions
      /\ R.current \in States
  BY DEF ReplicaType
<1>2. Len(R.history) \in Nat /\ DOMAIN R.history = 1..Len(R.history)
  BY <1>1, LenProperties
<1>3. \A n \in 1..Len(R.history) : R.history[n] \in Entries
  BY <1>1, ElementOfSeq
<1>4. \A e \in Entries : DOMAIN e.touched \subseteq Ids
  BY DEF Entries, Contents
<1>5. R.counter - (Len(R.history) + 1 - (Len(R.history) + 1)) = R.counter
  BY <1>1, <1>2
<1>6. At(R, Len(R.history) + 1) = revision(R)
  BY <1>5 DEF At, revision
<1>7. revision(R) \in Revisions
  BY <1>1, RevisionType DEF revision
<1> QED
  BY <1>1, <1>2, <1>3, <1>4, <1>6, <1>7

\* The entries between two revisions that leave an entity alone leave its version alone.
LEMMA Untouched ==
  ASSUME NEW R \in ReplicaType, NEW N, ReplicaOK(N, R), NEW i \in Ids,
         NEW n \in 1..(Len(R.history) + 1), NEW m \in n..(Len(R.history) + 1),
         \A k \in n..(m - 1) : i \notin DOMAIN R.history[k].touched
  PROVE  N[At(R, n)][i] = N[At(R, m)][i]
<1> DEFINE S == {k \in n..m : N[At(R, k)][i] # N[At(R, n)][i]}
<1>1. Len(R.history) \in Nat
  BY HistoryFacts
<1>2. SUFFICES ASSUME S # {} PROVE FALSE
  BY <1>1
<1>3. S \subseteq Nat
  BY <1>1
<1>4. PICK k \in S : \A j \in S : k <= j
  BY <1>2, <1>3, LeastNatural
<1>5. k # n
  BY <1>4
<1>6. k - 1 \in n..m /\ k - 1 \in 1..Len(R.history) /\ k - 1 \in n..(m - 1) /\ ~(k <= k - 1)
      /\ k - 1 + 1 = k
  BY <1>1, <1>4, <1>5
<1>7. k - 1 \notin S
  BY <1>4, <1>6
<1>8. N[At(R, k - 1)][i] = N[At(R, n)][i]
  BY <1>6, <1>7
<1>9. N[At(R, k - 1)][i] = N[At(R, k)][i]
  BY <1>6 DEF ReplicaOK, Undoes
<1> QED
  BY <1>4, <1>8, <1>9

\* What the merged entries of a chain say of an entity is its version at the revision
\* the chain starts from.
LEMMA MergedIsBase ==
  ASSUME NEW R \in ReplicaType, NEW N, ReplicaOK(N, R), NEW n \in 1..Len(R.history), NEW i \in Ids
  PROVE  LET T == mergedTouched(SubSeq(R.history, n, Len(R.history)))
         IN  N[At(R, n)][i] = IF i \in DOMAIN T THEN T[i] ELSE R.current[i]
<1> DEFINE L == Len(R.history)
           chain == SubSeq(R.history, n, L)
           T == mergedTouched(chain)
           touchers == {m \in DOMAIN chain : i \in DOMAIN chain[m].touched}
           first == CHOOSE m \in touchers : \A q \in touchers : m <= q
<1>1. L \in Nat /\ R.history \in Seq(Entries) /\ At(R, L + 1) = revision(R)
  BY HistoryFacts
<1>2. /\ chain \in Seq(Entries) /\ DOMAIN chain = 1..(L - n + 1)
      /\ \A m \in 1..(L - n + 1) : chain[m] = R.history[n + m - 1]
  <2>1. \A m \in n..L : R.history[m] \in Entries
    BY <1>1, HistoryFacts
  <2>2. n \in Int /\ L \in Int /\ n <= L
    BY <1>1
  <2>3. /\ chain \in Seq(Entries) /\ Len(chain) = IF n <= L THEN L - n + 1 ELSE 0
        /\ \A m \in 1..(L - n + 1) : chain[m] = R.history[n + m - 1]
    BY <2>1, <2>2, SubSeqProperties
  <2> QED
    BY <2>2, <2>3, LenProperties
<1> HIDE DEF L, chain
<1>3. /\ i \in DOMAIN T <=> touchers # {}
      /\ touchers # {} => T[i] = chain[first].touched[i]
  BY DEF mergedTouched
<1> HIDE DEF T
<1>4. CASE touchers = {}
  <2>1. \A k \in n..L : i \notin DOMAIN R.history[k].touched
    <3> TAKE k \in n..L
    <3>1. k - n + 1 \in 1..(L - n + 1) /\ n + (k - n + 1) - 1 = k
      BY <1>1
    <3>2. k - n + 1 \notin touchers
      BY <1>4
    <3> QED
      BY <1>2, <3>1, <3>2
  <2>2. n \in 1..(L + 1) /\ L + 1 \in n..(L + 1) /\ L + 1 - 1 = L
    BY <1>1 DEF L
  <2>3. N[At(R, n)][i] = N[At(R, L + 1)][i]
    BY <2>1, <2>2, Untouched DEF L
  <2> QED
    BY <1>1, <1>3, <1>4, <2>3 DEF ReplicaOK, T, chain, L
<1>5. CASE touchers # {}
  <2>1. touchers \subseteq Nat
    BY <1>1, <1>2
  <2>2. \E m \in touchers : \A q \in touchers : m <= q
    BY <1>5, <2>1, LeastNatural
  <2>3. first \in touchers /\ \A q \in touchers : first <= q
    BY <2>2
  <2> HIDE DEF first
  <2> DEFINE m == n + first - 1
  <2>4. first \in 1..(L - n + 1) /\ i \in DOMAIN chain[first].touched
    BY <1>2, <2>3
  <2>5. /\ m \in 1..L /\ m \in n..(L + 1) /\ n \in 1..(L + 1)
        /\ chain[first] = R.history[m]
    BY <1>1, <1>2, <2>4 DEF L
  <2>6. \A k \in n..(m - 1) : i \notin DOMAIN R.history[k].touched
    <3> TAKE k \in n..(m - 1)
    <3>1. k - n + 1 \in 1..(L - n + 1) /\ n + (k - n + 1) - 1 = k /\ ~(first <= k - n + 1)
      BY <1>1, <2>4
    <3>2. k - n + 1 \notin touchers
      BY <2>3, <3>1
    <3> QED
      BY <1>2, <3>1, <3>2
  <2> HIDE DEF m
  <2>7. N[At(R, n)][i] = N[At(R, m)][i]
    BY <2>5, <2>6, Untouched DEF L
  <2>8. N[At(R, m)][i] = R.history[m].touched[i]
    BY <2>4, <2>5 DEF ReplicaOK, Undoes, L
  <2> QED
    BY <1>3, <1>5, <2>5, <2>7, <2>8 DEF T, chain, L
<1> QED
  BY <1>4, <1>5

\* An answer states the replica it was made from: whole, or against a revision of its past.
LEMMA RespondNames ==
  ASSUME NEW R \in ReplicaType, NEW N \in Names, ReplicaOK(N, R), NEW have \in Revisions
  PROVE  LET a == respond(R, have)
         IN  /\ a.next = revision(R)
             /\ a.kind = "snapshot" => a.content = R.current
             /\ a.kind = "delta" =>
                  /\ \E n \in 1..Len(R.history) : a.base = At(R, n)
                  /\ applyCollectionDelta(N[a.base], a.content) = R.current
<1> DEFINE bases == {n \in DOMAIN R.history : R.history[n].base = have}
           first == CHOOSE n \in bases : \A m \in bases : m <= n
           T == mergedTouched(SubSeq(R.history, first, Len(R.history)))
           compound == composeCollection(R.current, T)
           same == Response("unchanged", NoRevision, revision(R), << >>)
           delta == Response("delta", have, revision(R), compound)
           whole == Response("snapshot", NoRevision, revision(R), R.current)
<1>1. \/ respond(R, have) = same \/ respond(R, have) = whole
      \/ respond(R, have) = delta /\ bases # {}
  <2> HIDE DEF same, delta, whole, bases
  <2>1. respond(R, have) =
          CASE have # NoRevision /\ have = revision(R) -> same
            [] have # NoRevision /\ have # revision(R) /\ bases # {} -> delta
            [] OTHER -> whole
    BY Zenon DEF respond, same, delta, whole, bases
  <2> QED
    BY <2>1
<1>2. CASE respond(R, have) = same
  BY <1>2 DEF Response
<1>3. CASE respond(R, have) = whole
  BY <1>3 DEF Response
<1>4. CASE respond(R, have) = delta /\ bases # {}
  <2>1. /\ DOMAIN R.history = 1..Len(R.history) /\ Len(R.history) \in Nat
        /\ R.epoch \in Revisions /\ R.counter \in Nat /\ R.current \in States
    BY HistoryFacts
  <2>2. \A m, n \in bases : m = n
    <3> TAKE m, n \in bases
    <3>1. At(R, m) = At(R, n)
      BY <2>1 DEF ReplicaOK
    <3>2. R.counter - (Len(R.history) + 1 - m) = R.counter - (Len(R.history) + 1 - n)
      BY <2>1, <3>1, SameRevision DEF At
    <3> QED
      BY <2>1, <3>2
  <2>3. first \in bases
    <3>1. PICK n \in bases : TRUE
      BY <1>4
    <3>2. \A m \in bases : m <= n
      BY <2>1, <2>2
    <3> QED
      BY <3>1, <3>2
  <2> DEFINE b == first
  <2>4. b \in 1..Len(R.history) /\ have = At(R, b)
    BY <2>1, <2>3 DEF ReplicaOK
  <2> HIDE DEF first
  <2>5. \A i \in Ids : N[have][i] = IF i \in DOMAIN T THEN T[i] ELSE R.current[i]
    BY <2>4, MergedIsBase
  <2>6. DOMAIN T \subseteq Ids
    BY DEF mergedTouched
  <2> HIDE DEF T, b
  <2>7. N[have] \in States
    BY DEF Names
  <2>8. applyCollectionDelta(N[have], compound) = R.current
    <3>1. \A i \in Ids : applyCollectionDelta(N[have], compound)[i] = R.current[i]
      <4> TAKE i \in Ids
      <4>1. i \in DOMAIN compound <=> i \in DOMAIN T /\ T[i] # R.current[i]
        BY DEF composeCollection
      <4>2. i \in DOMAIN compound => compound[i] = R.current[i]
        BY DEF composeCollection
      <4> HIDE DEF compound
      <4>3. applyCollectionDelta(N[have], compound)[i]
              = IF i \in DOMAIN compound THEN compound[i] ELSE N[have][i]
        BY DEF applyCollectionDelta
      <4> QED
        BY <2>5, <4>1, <4>2, <4>3
    <3> DEFINE after == applyCollectionDelta(N[have], compound)
    <3>2. after = [i \in Ids |-> after[i]]
      BY DEF applyCollectionDelta
    <3>3. R.current = [i \in Ids |-> R.current[i]]
      BY <2>1 DEF States
    <3> QED
      BY <3>1, <3>2, <3>3
  <2> HIDE DEF compound
  <2> QED
    BY <1>4, <2>4, <2>8 DEF Response
<1> QED
  BY <1>1, <1>2, <1>3, <1>4

\* An update names one new state, and leaves the names before it alone.
LEMMA UpdateNames ==
  ASSUME NEW R \in ReplicaType, NEW N \in Names, ReplicaOK(N, R), NEW next \in States
  PROVE  LET new == update(R, next)
         IN  \E M \in Names :
               /\ ReplicaOK(M, new)
               /\ \A x \in Revisions : x # Append(R.epoch, R.counter + 1) => M[x] = N[x]
               /\ new.epoch = R.epoch /\ new.counter >= R.counter
<1> DEFINE touched == diffCollections(R.current, next)
           entry == [base |-> revision(R), touched |-> touched]
           longer == Append(R.history, entry)
           excess == IF Len(longer) > HistoryLimit THEN Len(longer) - HistoryLimit ELSE 0
           kept == SubSeq(longer, excess + 1, Len(longer))
           L == Len(R.history)
           c == R.counter + 1
           name == Append(R.epoch, c)
           M == [N EXCEPT ![name] = next]
<1>1. update(R, next) = IF DOMAIN touched = {} THEN R
                        ELSE [R EXCEPT !.counter = c, !.current = next, !.history = kept]
  BY Zenon DEF update
<1>2. /\ R.history \in Seq(Entries) /\ L \in Nat /\ R.counter \in Nat /\ R.epoch \in Revisions
      /\ revision(R) \in Revisions /\ R.current \in States /\ At(R, L + 1) = revision(R)
  BY HistoryFacts
<1>3. CASE DOMAIN touched = {}
  BY <1>1, <1>2, <1>3
<1>4. CASE DOMAIN touched # {}
  <2>1. /\ DOMAIN touched = {i \in Ids : R.current[i] # next[i]}
        /\ \A i \in DOMAIN touched : touched[i] = R.current[i]
    BY DEF diffCollections
  <2>2. touched \in Contents
    <3>1. DOMAIN touched \in SUBSET Ids
      BY <2>1
    <3>2. touched = [i \in DOMAIN touched |-> touched[i]]
      BY DEF diffCollections
    <3>3. touched \in [DOMAIN touched -> Nat]
      BY <1>2, <2>1, <3>1, <3>2 DEF States
    <3> QED
      BY <3>1, <3>3, Zenon DEF Contents
  <2> HIDE DEF touched
  <2>3. entry \in Entries /\ entry.base = revision(R) /\ entry.touched = touched
    BY <1>2, <2>2 DEF Entries
  <2> HIDE DEF entry
  <2>4. /\ longer \in Seq(Entries) /\ Len(longer) = L + 1 /\ longer[L + 1] = entry
        /\ \A n \in 1..L : longer[n] = R.history[n]
    BY <1>2, <2>3, AppendProperties
  <2> HIDE DEF longer
  <2>5. excess \in Nat /\ excess <= L + 1
    BY <1>2, <2>4, HistoryLimitAssumption
  <2> HIDE DEF excess
  <2>6. /\ Len(kept) = L + 1 - excess
        /\ \A n \in 1..(L + 1 - excess) : kept[n] = longer[excess + n]
    <3>1. \A n \in (excess + 1)..(L + 1) : longer[n] \in Entries
      BY <1>2, <2>4, <2>5, ElementOfSeq
    <3>2. excess + 1 \in Int /\ L + 1 \in Int
      BY <1>2, <2>5
    <3> DEFINE from == excess + 1
               to == L + 1
               piece == SubSeq(longer, from, to)
    <3>3. /\ Len(piece) = IF from <= to THEN to - from + 1 ELSE 0
          /\ \A n \in 1..(to - from + 1) : piece[n] = longer[from + n - 1]
      <4> HIDE DEF from, to
      <4> QED
        BY <2>4, <3>1, <3>2, SubSeqProperties DEF from, to
    <3>4. kept = piece
      BY <2>4
    <3> HIDE DEF piece, kept
    <3>5. to - from + 1 = L + 1 - excess /\ (from <= to \/ L + 1 - excess = 0)
          /\ \A n \in 1..(L + 1 - excess) : from + n - 1 = excess + n
      BY <1>2, <2>5
    <3> HIDE DEF from, to
    <3> QED
      BY <3>3, <3>4, <3>5
  <2> HIDE DEF kept
  <2>7. name \in Revisions
    BY <1>2, RevisionType
  <2>8. c \in Nat /\ c = R.counter + 1 /\ L <= R.counter
    BY <1>2 DEF ReplicaOK
  <2>9. \A k \in Int : k < c => Append(R.epoch, k) # name
    BY <1>2, <2>8, SameRevision
  <2>10. M \in Names
    BY <2>7 DEF Names
  <2>11. M[name] = next /\ \A x \in Revisions : x # name => M[x] = N[x]
    BY <2>7 DEF Names
  <2> HIDE DEF M
  <2> DEFINE new == [R EXCEPT !.counter = c, !.current = next, !.history = kept]
  <2> HIDE DEF c, name
  <2>12. new.counter = c /\ new.current = next /\ new.history = kept /\ new.epoch = R.epoch
    BY DEF ReplicaType
  <2> HIDE DEF new
  <2>13. revision(new) = name
    BY <2>12 DEF revision, name
  <2>14. \A n \in 1..(L + 1) : /\ At(R, n) \in Revisions /\ At(R, n) # name
                               /\ M[At(R, n)] = N[At(R, n)]
    <3> TAKE n \in 1..(L + 1)
    <3> DEFINE k == R.counter - (L + 1 - n)
    <3>1. k \in Nat /\ k < c
      BY <1>2, <2>8, SMTT(30)
    <3>2. At(R, n) = Append(R.epoch, k)
      BY DEF At
    <3> HIDE DEF k
    <3>3. Append(R.epoch, k) \in Revisions
      BY <1>2, <3>1, RevisionType
    <3>4. Append(R.epoch, k) # name
      BY <2>9, <3>1
    <3> QED
      BY <2>11, <3>2, <3>3, <3>4
  <2>15. \A n \in 1..(L + 1 - excess) : At(new, n) = At(R, n + excess)
    <3> TAKE n \in 1..(L + 1 - excess)
    <3>1. c - (L + 1 - excess + 1 - n) = R.counter - (L + 1 - (n + excess))
      BY <1>2, <2>5, <2>8
    <3> QED
      BY <2>6, <2>12, <3>1 DEF At
  <2>16. At(new, L + 1 - excess + 1) = name
    <3> DEFINE z == L + 1 - excess
    <3>1. z \in Int /\ c \in Int
      BY <1>2, <2>5, <2>8
    <3> HIDE DEF z
    <3>2. c - (z + 1 - (z + 1)) = c
      BY <3>1
    <3> QED
      BY <2>6, <2>12, <3>2 DEF At, name, z
  <2>17. \A n \in 1..(L + 1 - excess) : new.history[n].base = At(new, n) /\ Undoes(M, new, n)
    <3> TAKE n \in 1..(L + 1 - excess)
    <3> DEFINE p == n + excess
    <3>1. p \in 1..(L + 1) /\ p = n + excess /\ excess + n = p
      BY <1>2, <2>5
    <3>2. new.history[n] = longer[p] /\ At(new, n) = At(R, p)
      BY <2>6, <2>12, <2>15, <3>1
    <3>3. CASE p = L + 1
      <4>1. n + 1 = L + 1 - excess + 1
        BY <1>2, <2>5, <3>1, <3>3
      <4>2. At(new, n + 1) = name /\ new.history[n] = entry /\ At(new, n) = revision(R)
        BY <1>2, <2>4, <2>16, <3>2, <3>3, <4>1
      <4>3. M[At(new, n)] = R.current /\ M[At(new, n + 1)] = next
        BY <1>2, <2>11, <2>14, <3>1, <3>2, <3>3, <4>2 DEF ReplicaOK
      <4> QED
        BY <2>1, <2>3, <4>2, <4>3 DEF Undoes
    <3>4. CASE p # L + 1
      <4>1. p \in 1..L /\ p + 1 \in 1..(L + 1) /\ n + 1 \in 1..(L + 1 - excess)
            /\ n + 1 + excess = p + 1
        BY <1>2, <2>5, <3>1, <3>4
      <4>2. At(new, n + 1) = At(R, p + 1) /\ new.history[n] = R.history[p]
        BY <2>4, <2>15, <3>2, <4>1
      <4>3. M[At(new, n)] = N[At(R, p)] /\ M[At(new, n + 1)] = N[At(R, p + 1)]
        BY <2>14, <3>1, <3>2, <4>1, <4>2
      <4>4. R.history[p].base = At(R, p) /\ Undoes(N, R, p)
        BY <4>1 DEF ReplicaOK
      <4> QED
        BY <3>2, <4>2, <4>3, <4>4 DEF Undoes
    <3> QED
      BY <3>3, <3>4
  <2>18. Len(new.history) = L + 1 - excess /\ L + 1 - excess <= c
    BY <1>2, <2>5, <2>6, <2>8, <2>12
  <2>19. ReplicaOK(M, new)
    BY <2>11, <2>12, <2>13, <2>17, <2>18 DEF ReplicaOK
  <2>20. update(R, next) = new
    BY <1>1, <1>4 DEF new
  <2>21. new.counter >= R.counter
    BY <1>2, <2>8, <2>12
  <2> QED
    BY <2>10, <2>11, <2>12, <2>19, <2>20, <2>21 DEF name, c
<1> QED
  BY <1>3, <1>4

-----------------------------------------------------------------------------
(* The names the service has given.                                        *)

\* An epoch that no replica to come will have.
Issued(srv, e) ==
  /\ e # << >>
  /\ \/ e[1] < srv.epoch
     \/ e[1] = srv.epoch /\ IF Len(e) = 1 THEN srv.replicas # << >> ELSE e[2] <= srv.sequence

EpochOf(srv, n) == srv.replicas[n].replica.epoch

\* A revision that no update to come will give.
Past(srv, x) ==
  \E e \in Revisions, k \in Nat :
    /\ x = Append(e, k) /\ Issued(srv, e)
    /\ \A n \in 1..Len(srv.replicas) :
         EpochOf(srv, n) = e => k <= srv.replicas[n].replica.counter

Store(N, srv) ==
  /\ \A n \in 1..Len(srv.replicas) :
       ReplicaOK(N, srv.replicas[n].replica) /\ Issued(srv, EpochOf(srv, n))
  /\ \A m, n \in 1..Len(srv.replicas) : EpochOf(srv, m) = EpochOf(srv, n) => m = n

LEMMA ReplicasOf ==
  ASSUME NEW srv \in ServerType
  PROVE  /\ srv.epoch \in Nat /\ srv.sequence \in Nat /\ srv.replicas \in Seq(ReplicaSlot)
         /\ Len(srv.replicas) \in Nat
         /\ \A n \in 1..Len(srv.replicas) :
              /\ srv.replicas[n] \in ReplicaSlot /\ srv.replicas[n].replica \in ReplicaType
              /\ EpochOf(srv, n) \in Revisions /\ srv.replicas[n].replica.counter \in Nat
<1>1. srv.epoch \in Nat /\ srv.sequence \in Nat /\ srv.replicas \in Seq(ReplicaSlot)
  BY DEF ServerType
<1>2. Len(srv.replicas) \in Nat /\ \A n \in 1..Len(srv.replicas) : srv.replicas[n] \in ReplicaSlot
  BY <1>1, LenProperties, ElementOfSeq
<1> QED
  BY <1>1, <1>2 DEF EpochOf, ReplicaSlot, ReplicaType

\* A naming that keeps the names of a replica still explains it.
LEMMA KeptNames ==
  ASSUME NEW R \in ReplicaType, NEW N, NEW M, ReplicaOK(N, R),
         \A k \in Nat : k <= R.counter => M[Append(R.epoch, k)] = N[Append(R.epoch, k)]
  PROVE  ReplicaOK(M, R)
<1>1. Len(R.history) \in Nat /\ R.counter \in Nat /\ Len(R.history) <= R.counter
  BY HistoryFacts DEF ReplicaOK
<1>2. M[revision(R)] = N[revision(R)]
  BY <1>1 DEF revision
<1>3. \A n \in 1..(Len(R.history) + 1) : M[At(R, n)] = N[At(R, n)]
  <2> TAKE n \in 1..(Len(R.history) + 1)
  <2> DEFINE k == R.counter - (Len(R.history) + 1 - n)
  <2>1. k \in Nat /\ k <= R.counter
    BY <1>1
  <2>2. At(R, n) = Append(R.epoch, k)
    BY DEF At
  <2> HIDE DEF k
  <2> QED
    BY <2>1, <2>2
<1>4. \A n \in 1..Len(R.history) : Undoes(M, R, n)
  <2> TAKE n \in 1..Len(R.history)
  <2>1. n \in 1..(Len(R.history) + 1) /\ n + 1 \in 1..(Len(R.history) + 1)
    BY <1>1
  <2>2. M[At(R, n)] = N[At(R, n)] /\ M[At(R, n + 1)] = N[At(R, n + 1)]
    BY <1>3, <2>1
  <2>3. Undoes(N, R, n)
    BY DEF ReplicaOK
  <2> QED
    BY <2>2, <2>3 DEF Undoes
<1> QED
  BY <1>2, <1>4 DEF ReplicaOK

\* Every revision of a replica that is held is past.
LEMMA HeldIsPast ==
  ASSUME NEW srv \in ServerType, NEW N, Store(N, srv), NEW n \in 1..Len(srv.replicas),
         NEW j \in 1..(Len(srv.replicas[n].replica.history) + 1)
  PROVE  Past(srv, At(srv.replicas[n].replica, j))
<1> DEFINE R == srv.replicas[n].replica
           k == R.counter - (Len(R.history) + 1 - j)
<1>1. R \in ReplicaType /\ EpochOf(srv, n) = R.epoch
  BY ReplicasOf DEF EpochOf
<1>2. Len(R.history) \in Nat /\ R.counter \in Nat /\ R.epoch \in Revisions
  BY <1>1, HistoryFacts
<1>3. Len(R.history) <= R.counter
  BY DEF Store, ReplicaOK
<1>4. k \in Nat /\ k <= R.counter
  <2> DEFINE L == Len(R.history)
             c == R.counter
  <2>1. L \in Nat /\ c \in Nat /\ L <= c /\ j \in 1..(L + 1)
    BY <1>2, <1>3
  <2> HIDE DEF L, c
  <2>2. c - (L + 1 - j) \in Nat /\ c - (L + 1 - j) <= c
    BY <2>1
  <2> QED
    BY <2>2 DEF L, c
<1>5. At(R, j) = Append(R.epoch, k)
  BY DEF At
<1> HIDE DEF k
<1>6. Issued(srv, R.epoch)
  BY <1>1 DEF Store
<1>7. \A m \in 1..Len(srv.replicas) : EpochOf(srv, m) = R.epoch => m = n
  BY <1>1 DEF Store
<1> QED
  BY <1>2, <1>4, <1>5, <1>6, <1>7 DEF Past

LEMMA FreshEpochFacts ==
  ASSUME FeedsTyped, NEW key \in Keys, NEW new \in ServerType, Added(server, new, key),
         new.replicas # << >>
  PROVE  /\ FreshEpoch \in Revisions /\ ~Issued(server, FreshEpoch) /\ Issued(new, FreshEpoch)
         /\ \A e \in Revisions : Issued(server, e) => Issued(new, e)
<1>1. server.epoch \in Nat /\ server.sequence \in Nat /\ server.sequence + 1 \in Nat
  BY ReplicasOf DEF FeedsTyped
<1>2. FreshEpoch \in Revisions
  BY FreshReplicaType
<1>3. CASE kind = "list"
  <2> DEFINE f == <<server.epoch>>
  <2>1. f # << >> /\ Len(f) = 1 /\ f[1] = server.epoch
    OBVIOUS
  <2> HIDE DEF f
  <2>2. FreshEpoch = f
    BY <1>3 DEF FreshEpoch, f
  <2> QED
    BY <1>1, <1>2, <1>3, <2>1, <2>2 DEF Issued, Added
<1>4. CASE kind # "list"
  <2> DEFINE f == <<server.epoch, server.sequence + 1>>
  <2>1. f # << >> /\ Len(f) = 2 /\ f[1] = server.epoch /\ f[2] = server.sequence + 1
    OBVIOUS
  <2> HIDE DEF f
  <2>2. FreshEpoch = f
    BY <1>4 DEF FreshEpoch, replicaEpoch, f
  <2>3. new.epoch = server.epoch /\ new.sequence = server.sequence + 1
    BY <1>4 DEF Added
  <2>4. ~Issued(server, FreshEpoch) /\ Issued(new, FreshEpoch)
    BY <1>1, <2>1, <2>2, <2>3 DEF Issued
  <2>5. ASSUME NEW e \in Revisions, Issued(server, e) PROVE Issued(new, e)
    <3>1. CASE Len(e) = 1
      BY <2>3, <2>5, <3>1 DEF Issued
    <3>2. CASE Len(e) # 1
      <4>1. e \in Seq(Nat) /\ e # << >>
        BY <2>5 DEF Issued, Revisions
      <4>2. Len(e) \in Nat /\ Len(e) # 0
        BY <4>1, LenProperties, EmptySeq
      <4>3. 2 \in 1..Len(e)
        <5> DEFINE l == Len(e)
        <5>1. l \in Nat /\ l # 0 /\ l # 1
          BY <3>2, <4>2
        <5> HIDE DEF l
        <5>2. 2 \in 1..l
          BY <5>1
        <5> QED
          BY <5>2 DEF l
      <4>4. e[2] \in Nat
        BY <4>1, <4>3, ElementOfSeq
      <4> QED
        BY <1>1, <2>3, <2>5, <3>2, <4>4 DEF Issued
    <3> QED
      BY <3>1, <3>2
  <2> QED
    BY <1>2, <2>4, <2>5
<1> QED
  BY <1>3, <1>4

\* Looking a replica up keeps every name that was given; a fresh one names the empty state.
LEMMA FoundNames ==
  ASSUME FeedsTyped, NEW key \in Keys, kind = "list" => key = List,
         NEW N \in Names, Store(N, server)
  PROVE  \E M \in Names :
           /\ Store(M, Found(key))
           /\ \A x \in Revisions : Past(server, x) => Past(Found(key), x) /\ M[x] = N[x]
<1> DEFINE new == Found(key)
<1>1. /\ new \in ServerType /\ Len(new.replicas) \in Nat \ {0}
      /\ Reordered(server, new) \/ Added(server, new, key)
  BY FoundFacts
<1> HIDE DEF new
<1>2. server \in ServerType
  BY DEF FeedsTyped
<1>3. new.replicas # << >>
  BY <1>1
<1>4. CASE Reordered(server, new)
  <2>1. PICK p \in [1..Len(new.replicas) -> 1..Len(server.replicas)] :
          /\ \A m, n \in 1..Len(new.replicas) : p[m] = p[n] => m = n
          /\ \A n \in 1..Len(new.replicas) : new.replicas[n] = server.replicas[p[n]]
    BY <1>4 DEF Reordered
  <2>2. \A e : Issued(server, e) => Issued(new, e)
    BY <1>3, <1>4 DEF Reordered, Issued
  <2>3. \A n \in 1..Len(new.replicas) : EpochOf(new, n) = EpochOf(server, p[n])
    BY <2>1 DEF EpochOf
  <2>4. Store(N, new)
    <3>1. \A n \in 1..Len(new.replicas) :
            ReplicaOK(N, new.replicas[n].replica) /\ Issued(new, EpochOf(new, n))
      BY <2>1, <2>2, <2>3 DEF Store
    <3>2. \A m, n \in 1..Len(new.replicas) : EpochOf(new, m) = EpochOf(new, n) => m = n
      BY <2>1, <2>3 DEF Store
    <3> QED
      BY <3>1, <3>2 DEF Store
  <2>5. ASSUME NEW x \in Revisions, Past(server, x) PROVE Past(new, x)
    <3>1. PICK e \in Revisions, k \in Nat :
            /\ x = Append(e, k) /\ Issued(server, e)
            /\ \A n \in 1..Len(server.replicas) :
                 EpochOf(server, n) = e => k <= server.replicas[n].replica.counter
      BY <2>5 DEF Past
    <3>2. \A n \in 1..Len(new.replicas) :
            EpochOf(new, n) = e => k <= new.replicas[n].replica.counter
      BY <2>1, <2>3, <3>1
    <3> QED
      BY <2>2, <3>1, <3>2 DEF Past
  <2> QED
    BY <2>4, <2>5 DEF new
<1>5. CASE Added(server, new, key)
  <2> DEFINE fresh == FreshEpoch
             name == Append(fresh, 0)
             M == [N EXCEPT ![name] = emptyState]
             last == Len(new.replicas)
             F == createServerReplica(fresh)
  <2>1. /\ fresh \in Revisions /\ ~Issued(server, fresh) /\ Issued(new, fresh)
        /\ \A e \in Revisions : Issued(server, e) => Issued(new, e)
    BY <1>1, <1>3, <1>5, FreshEpochFacts
  <2>2. new.replicas[last] = [key |-> key, replica |-> F]
    BY <1>5 DEF Added
  <2> HIDE DEF fresh
  <2>3. name \in Revisions
    BY <2>1, RevisionType
  <2>4. M \in Names /\ M[name] = emptyState /\ \A x \in Revisions : x # name => M[x] = N[x]
    BY <2>3, EmptyFacts DEF Names
  <2> HIDE DEF M
  <2>5. \A e \in Revisions, k \in Nat : e # fresh =>
          Append(e, k) \in Revisions /\ M[Append(e, k)] = N[Append(e, k)]
    <3> TAKE e \in Revisions, k \in Nat
    <3>1. Append(e, k) \in Revisions
      BY RevisionType
    <3>2. Append(e, k) = name => e = fresh
      BY <2>1, SameRevision
    <3> QED
      BY <2>4, <3>1, <3>2
  <2>6. ReplicaOK(M, F) /\ F.epoch = fresh /\ F.counter = 0
    <3>1. /\ F.history = << >> /\ F.epoch = fresh /\ F.counter = 0 /\ F.current = emptyState
          /\ revision(F) = name
      BY DEF createServerReplica, revision
    <3>2. Len(F.history) = 0
      BY <3>1
    <3> QED
      BY <2>4, <3>1, <3>2 DEF ReplicaOK
  <2>7. PICK d \in {0, 1} :
          /\ last = Len(server.replicas) + 1 - d
          /\ \A n \in 1..(last - 1) : new.replicas[n] = server.replicas[n + d]
    BY <1>5 DEF Added
  <2> HIDE DEF last, F, name
  <2>8. Len(server.replicas) \in Nat /\ last \in Nat \ {0}
    BY <1>1, <1>2, ReplicasOf DEF last
  <2>9. \A n \in 1..(last - 1) :
          /\ n + d \in 1..Len(server.replicas)
          /\ EpochOf(new, n) = EpochOf(server, n + d) /\ EpochOf(new, n) \in Revisions
          /\ EpochOf(new, n) # fresh /\ Issued(server, EpochOf(new, n))
    <3> TAKE n \in 1..(last - 1)
    <3>1. n + d \in 1..Len(server.replicas)
      BY <2>7, <2>8
    <3>2. EpochOf(new, n) = EpochOf(server, n + d)
      BY <2>7 DEF EpochOf
    <3>3. Issued(server, EpochOf(server, n + d)) /\ EpochOf(server, n + d) \in Revisions
      BY <1>2, <3>1, ReplicasOf DEF Store
    <3> QED
      BY <2>1, <3>1, <3>2, <3>3
  <2>10. EpochOf(new, last) = fresh /\ new.replicas[last].replica = F
    BY <2>2, <2>6 DEF EpochOf
  <2>11. Store(M, new)
    <3>1. ASSUME NEW n \in 1..last
          PROVE  ReplicaOK(M, new.replicas[n].replica) /\ Issued(new, EpochOf(new, n))
      <4>1. CASE n = last
        BY <2>1, <2>6, <2>10, <4>1
      <4>2. CASE n # last
        <5>1. n \in 1..(last - 1)
          BY <2>8, <4>2
        <5> DEFINE R == server.replicas[n + d].replica
        <5>2. R \in ReplicaType /\ ReplicaOK(N, R) /\ new.replicas[n].replica = R
          BY <1>2, <2>7, <2>9, <5>1, ReplicasOf DEF Store
        <5>3. R.epoch \in Revisions /\ R.epoch # fresh
          BY <2>9, <5>1 DEF EpochOf
        <5> HIDE DEF R
        <5>4. \A k \in Nat : M[Append(R.epoch, k)] = N[Append(R.epoch, k)]
          BY <2>5, <5>3
        <5>5. ReplicaOK(M, R)
          BY <5>2, <5>4, KeptNames
        <5> QED
          BY <2>1, <2>9, <5>1, <5>2, <5>5
      <4> QED
        BY <4>1, <4>2
    <3>2. ASSUME NEW m \in 1..last, NEW n \in 1..last, EpochOf(new, m) = EpochOf(new, n)
          PROVE  m = n
      <4>1. CASE m = last \/ n = last
        <5>1. m # last => m \in 1..(last - 1)
          BY <2>8
        <5>2. n # last => n \in 1..(last - 1)
          BY <2>8
        <5> QED
          BY <2>9, <2>10, <3>2, <4>1, <5>1, <5>2
      <4>2. CASE m # last /\ n # last
        <5>1. m \in 1..(last - 1) /\ n \in 1..(last - 1)
          BY <2>8, <4>2
        <5>2. m + d = n + d
          BY <2>9, <3>2, <5>1 DEF Store
        <5> QED
          BY <2>7, <5>1, <5>2
      <4> QED
        BY <4>1, <4>2
    <3> QED
      BY <3>1, <3>2 DEF Store, last
  <2>12. ASSUME NEW x \in Revisions, Past(server, x)
         PROVE  Past(new, x) /\ M[x] = N[x]
    <3>1. PICK e \in Revisions, k \in Nat :
            /\ x = Append(e, k) /\ Issued(server, e)
            /\ \A n \in 1..Len(server.replicas) :
                 EpochOf(server, n) = e => k <= server.replicas[n].replica.counter
      BY <2>12 DEF Past
    <3>2. e # fresh /\ Issued(new, e)
      BY <2>1, <3>1
    <3>3. ASSUME NEW n \in 1..last, EpochOf(new, n) = e
          PROVE  k <= new.replicas[n].replica.counter
      <4>1. n \in 1..(last - 1)
        BY <2>8, <2>10, <3>2, <3>3
      <4> QED
        BY <2>7, <2>9, <3>1, <3>3, <4>1
    <3> QED
      BY <2>5, <3>1, <3>2, <3>3 DEF Past, last
  <2> QED
    BY <2>4, <2>11, <2>12 DEF new
<1> QED
  BY <1>1, <1>4, <1>5

\* An answer is good as long as what it names is past, and its delta leads from the
\* state its base names to the state its revision names.
ReplyOK(N, srv, a) ==
  /\ a.kind = "snapshot" => Past(srv, a.next) /\ N[a.next] = a.content
  /\ a.kind = "delta" => /\ Past(srv, a.base) /\ Past(srv, a.next)
                         /\ applyCollectionDelta(N[a.base], a.content) = N[a.next]

\* Serving a request keeps every name that was given, and its answer is good.
LEMMA ServeNames ==
  ASSUME FeedsTyped, NEW s \in Slots, Serve(s), NEW N \in Names, Store(N, server)
  PROVE  \E M \in Names :
           /\ Store(M, server')
           /\ \A x \in Revisions : Past(server, x) => Past(server', x) /\ M[x] = N[x]
           /\ ReplyOK(M, server', respond(ServedFrom(requests[s].key), requests[s].have))
<1> DEFINE key == requests[s].key
           found == Found(key)
           last == Len(found.replicas)
           R == found.replicas[last].replica
           U == ServedFrom(key)
           answer == respond(U, requests[s].have)
<1>1. /\ key \in Keys /\ (kind = "list" => key = List)
      /\ found \in ServerType /\ last \in Nat \ {0} /\ world[key] \in States
      /\ Last(found.replicas) = found.replicas[last]
      /\ U \in ReplicaType /\ requests[s].have \in Revisions
      /\ server' = [found EXCEPT !.replicas[last].replica = U]
  BY ServeFacts DEF FeedsTyped, RequestType
<1>2. PICK N1 \in Names :
        /\ Store(N1, found)
        /\ \A x \in Revisions : Past(server, x) => Past(found, x) /\ N1[x] = N[x]
  BY <1>1, FoundNames
<1>3. /\ R \in ReplicaType /\ ReplicaOK(N1, R) /\ found.replicas \in Seq(ReplicaSlot)
      /\ R.epoch \in Revisions /\ R.counter \in Nat /\ U = update(R, world[key])
  <2> HIDE DEF found
  <2>1. /\ found.replicas \in Seq(ReplicaSlot) /\ last \in 1..Len(found.replicas) /\ R \in ReplicaType
    BY <1>1, ReplicasOf
  <2>2. ReplicaOK(N1, R)
    BY <1>2, <2>1 DEF Store
  <2>3. R.epoch \in Revisions /\ R.counter \in Nat
    BY <2>1, HistoryFacts
  <2>4. U = update(R, world[key])
    BY <1>1 DEF ServedFrom, found
  <2> QED
    BY <2>1, <2>2, <2>3, <2>4
<1> HIDE DEF U, found, R
<1>4. PICK M \in Names :
        /\ ReplicaOK(M, U)
        /\ \A x \in Revisions : x # Append(R.epoch, R.counter + 1) => M[x] = N1[x]
        /\ U.epoch = R.epoch /\ U.counter >= R.counter
  BY <1>1, <1>3, UpdateNames
<1>a. \A e \in Revisions, f \in Revisions, j \in Int, k \in Int :
        Append(e, j) = Append(f, k) => e = f /\ j = k
  BY SameRevision
<1>b. \A e \in Revisions, k \in Int :
        Append(e, k) = Append(R.epoch, R.counter + 1) => e = R.epoch /\ k = R.counter + 1
  <2>1. R.epoch \in Revisions /\ R.counter + 1 \in Int
    BY <1>3
  <2> DEFINE r == R.epoch
             c == R.counter + 1
  <2> HIDE DEF r, c
  <2>2. r \in Revisions /\ c \in Int
    BY <2>1 DEF r, c
  <2>3. \A e \in Revisions, k \in Int : Append(e, k) = Append(r, c) => e = r /\ k = c
    BY <1>a, <2>2
  <2> QED
    BY <2>3 DEF r, c
<1>5. /\ server' \in ServerType
      /\ server'.epoch = found.epoch /\ server'.sequence = found.sequence
      /\ Len(server'.replicas) = last /\ last \in 1..last
      /\ \A n \in 1..last :
           server'.replicas[n].replica = IF n = last THEN U ELSE found.replicas[n].replica
  <2>1. DOMAIN found.replicas = 1..last
    BY <1>3, LenProperties
  <2>2. last \in 1..last
    BY <1>1
  <2>3. found.replicas[last] \in ReplicaSlot /\ \A n \in 1..last : found.replicas[n] \in ReplicaSlot
    BY <1>3, <2>2, ElementOfSeq
  <2> DEFINE slot == [found.replicas[last] EXCEPT !.replica = U]
             reps == [found.replicas EXCEPT ![last] = slot]
  <2>4. server' = [found EXCEPT !.replicas = reps]
    BY <1>1 DEF ServerType
  <2>5. slot \in ReplicaSlot /\ slot.replica = U
    BY <1>1, <2>3 DEF ReplicaSlot
  <2> HIDE DEF slot
  <2>6. /\ reps \in Seq(ReplicaSlot) /\ Len(reps) = last
        /\ \A n \in 1..last : reps[n] = IF n = last THEN slot ELSE found.replicas[n]
    <3>1. reps \in Seq(ReplicaSlot)
      BY <1>3, <2>1, <2>2, <2>5, ExceptSeq
    <3>2. DOMAIN reps = 1..last
      BY <2>1
    <3>3. Len(reps) = last
      BY <1>1, <3>1, <3>2, LenProperties
    <3> QED
      BY <2>1, <3>1, <3>3
  <2> HIDE DEF reps
  <2>7. server'.epoch = found.epoch /\ server'.sequence = found.sequence /\ server'.replicas = reps
    BY <1>1, <2>4 DEF ServerType
  <2>8. server' \in ServerType
    BY <1>1, <2>4, <2>6 DEF ServerType
  <2> QED
    BY <2>2, <2>5, <2>6, <2>7, <2>8
<1> HIDE DEF last
<1>6. R = found.replicas[last].replica
  BY DEF R
<1>7. /\ \A n \in 1..last : EpochOf(server', n) = EpochOf(found, n)
      /\ \A n \in 1..last : EpochOf(found, n) \in Revisions
      /\ EpochOf(found, last) = R.epoch
      /\ \A n \in 1..last : server'.replicas[n].replica.counter >= found.replicas[n].replica.counter
      /\ \A n \in 1..last : found.replicas[n].replica \in ReplicaType
  <2>1. \A n \in 1..last : /\ EpochOf(found, n) \in Revisions
                           /\ found.replicas[n].replica \in ReplicaType
                           /\ found.replicas[n].replica.counter \in Nat
    BY <1>1, ReplicasOf DEF last
  <2>2. \A n \in 1..last : EpochOf(server', n) = EpochOf(found, n)
    BY <1>4, <1>5, <1>6 DEF EpochOf
  <2>3. \A n \in 1..last : server'.replicas[n].replica.counter >= found.replicas[n].replica.counter
    BY <1>4, <1>5, <1>6, <2>1
  <2> QED
    BY <1>6, <2>1, <2>2, <2>3 DEF EpochOf
<1>8. \A e : Issued(found, e) => Issued(server', e)
  <2>1. found.replicas # << >> /\ server'.replicas # << >>
    <3>1. last # 0
      BY <1>1 DEF last
    <3>2. Len(found.replicas) # 0 /\ Len(server'.replicas) # 0
      BY <1>5, <3>1 DEF last
    <3> QED
      BY <3>2
  <2> QED
    BY <1>5, <2>1 DEF Issued
<1>9. Store(M, server')
  <2>1. ASSUME NEW n \in 1..last
        PROVE  ReplicaOK(M, server'.replicas[n].replica) /\ Issued(server', EpochOf(server', n))
    <3>1. Issued(server', EpochOf(server', n))
      BY <1>2, <1>7, <1>8 DEF Store, last
    <3>2. CASE n = last
      BY <1>4, <1>5, <3>1, <3>2
    <3>3. CASE n # last
      <4> DEFINE Q == found.replicas[n].replica
      <4>1. Q \in ReplicaType /\ ReplicaOK(N1, Q) /\ server'.replicas[n].replica = Q
        BY <1>2, <1>5, <1>7, <3>3 DEF Store, last
      <4>2. Q.epoch \in Revisions /\ Q.epoch # R.epoch
        <5>1. EpochOf(found, n) # EpochOf(found, last)
          BY <1>2, <1>5, <3>3 DEF Store, last
        <5> QED
          BY <1>7, <5>1 DEF EpochOf
      <4> HIDE DEF Q
      <4>3. \A k \in Nat : M[Append(Q.epoch, k)] = N1[Append(Q.epoch, k)]
        <5> TAKE k \in Nat
        <5>1. R.counter + 1 \in Int /\ k \in Int
          BY <1>3
        <5>2. Append(Q.epoch, k) # Append(R.epoch, R.counter + 1)
          BY <1>b, <4>2, <5>1
        <5>3. Append(Q.epoch, k) \in Revisions
          BY <4>2, RevisionType
        <5> QED
          BY <1>4, <5>2, <5>3
      <4>4. ReplicaOK(M, Q)
        BY <4>1, <4>3, KeptNames
      <4> QED
        BY <3>1, <4>1, <4>4
    <3> QED
      BY <3>2, <3>3
  <2>2. \A m, n \in 1..last : EpochOf(server', m) = EpochOf(server', n) => m = n
    BY <1>2, <1>7 DEF Store, last
  <2> QED
    BY <1>5, <2>1, <2>2 DEF Store
<1>10. ASSUME NEW x \in Revisions, Past(found, x)
       PROVE  Past(server', x) /\ M[x] = N1[x]
  <2>1. PICK e \in Revisions, k \in Nat :
          /\ x = Append(e, k) /\ Issued(found, e)
          /\ \A n \in 1..last : EpochOf(found, n) = e => k <= found.replicas[n].replica.counter
    BY <1>10 DEF Past, last
  <2>2. \A n \in 1..last : EpochOf(server', n) = e => k <= server'.replicas[n].replica.counter
    <3> SUFFICES ASSUME NEW n \in 1..last, EpochOf(server', n) = e
                 PROVE  k <= server'.replicas[n].replica.counter
      OBVIOUS
    <3>1. k <= found.replicas[n].replica.counter
      BY <1>7, <2>1
    <3>2. found.replicas[n].replica.counter \in Nat
      BY <1>7, HistoryFacts
    <3>3. server'.replicas[n].replica.counter \in Nat
      BY <1>1, <1>5, <1>7, HistoryFacts
    <3> QED
      BY <1>7, <3>1, <3>2, <3>3
  <2>3. x # Append(R.epoch, R.counter + 1)
    <3>1. R.counter + 1 \in Int /\ k \in Int
      BY <1>3
    <3>2. ASSUME x = Append(R.epoch, R.counter + 1) PROVE FALSE
      <4>1. e = R.epoch /\ k = R.counter + 1
        BY <1>b, <2>1, <3>1, <3>2
      <4>2. k <= R.counter
        BY <1>5, <1>6, <1>7, <2>1, <4>1
      <4> QED
        BY <1>3, <4>1, <4>2
    <3> QED
      BY <3>2
  <2> QED
    BY <1>4, <1>5, <1>8, <2>1, <2>2, <2>3 DEF Past
<1>11. server' \in ServerType
  BY <1>5
<1>12. ReplyOK(M, server', answer)
  <2>1. server'.replicas[last].replica = U /\ last \in 1..Len(server'.replicas)
    BY <1>5
  <2>2. /\ Len(U.history) \in Nat /\ At(U, Len(U.history) + 1) = revision(U)
        /\ revision(U) \in Revisions
    BY <1>1, HistoryFacts
  <2>3. \A j \in 1..(Len(U.history) + 1) : Past(server', At(U, j))
    BY <1>9, <1>11, <2>1, HeldIsPast
  <2>4. Past(server', revision(U)) /\ M[revision(U)] = U.current
    BY <1>4, <2>2, <2>3 DEF ReplicaOK
  <2>5. \A n \in 1..Len(U.history) : Past(server', At(U, n))
    BY <2>2, <2>3
  <2>6. /\ answer.next = revision(U)
        /\ answer.kind = "snapshot" => answer.content = U.current
        /\ answer.kind = "delta" =>
             /\ \E n \in 1..Len(U.history) : answer.base = At(U, n)
             /\ applyCollectionDelta(M[answer.base], answer.content) = U.current
    BY <1>1, <1>4, RespondNames
  <2> HIDE DEF answer
  <2> QED
    BY <2>4, <2>5, <2>6 DEF ReplyOK
<1>13. \A x \in Revisions : Past(server, x) => Past(server', x) /\ M[x] = N[x]
  BY <1>2, <1>10
<1> QED
  BY <1>9, <1>12, <1>13 DEF U

-----------------------------------------------------------------------------
(* One naming explains the replicas, the page and the answers on their way.   *)

\* What the page holds at a revision is the state the revision names.
HeldOK(N, srv, held) ==
  held.rev # NoRevision => Past(srv, held.rev) /\ N[held.rev] = held.state

Replies(N, srv, reqs) ==
  \A s \in Slots : reqs[s].reply # << >> => ReplyOK(N, srv, reqs[s].reply)

Named(N) ==
  Store(N, server) /\ HeldOK(N, server, page.feed) /\ Replies(N, server, requests)

NamesInv == TypedFlight /\ \E N \in Names : Named(N)

\* What is past stays so named.
LEMMA PastIsKept ==
  ASSUME FeedsTyped, NEW srv, NEW N, NEW M, Named(N),
         \A x \in Revisions : Past(server, x) => Past(srv, x) /\ M[x] = N[x]
  PROVE  /\ HeldOK(M, srv, page.feed)
         /\ \A s \in Slots : requests[s].reply # << >> => ReplyOK(M, srv, requests[s].reply)
<1>1. page.feed.rev \in Revisions
  BY DEF FeedsTyped, PageType, HeldType
<1>2. HeldOK(M, srv, page.feed)
  BY <1>1 DEF Named, HeldOK
<1>3. ASSUME NEW s \in Slots, requests[s].reply # << >>
      PROVE  ReplyOK(M, srv, requests[s].reply)
  <2> DEFINE a == requests[s].reply
  <2>1. a \in Answers
    BY <1>3 DEF FeedsTyped, RequestType
  <2>2. ReplyOK(N, server, a)
    BY <1>3 DEF Named, Replies
  <2> HIDE DEF a
  <2>3. a.base \in Revisions /\ a.next \in Revisions
    BY <2>1 DEF Answers
  <2>4. ReplyOK(M, srv, a)
    BY <2>2, <2>3 DEF ReplyOK
  <2> QED
    BY <2>4 DEF a
<1> QED
  BY <1>2, <1>3

\* An answer that is reduced leaves the page at a revision and the state it names.
LEMMA IngressNames ==
  ASSUME FeedsTyped, NEW N, Named(N), NEW s \in Slots, requests[s].reply # << >>
  PROVE  /\ HeldOK(N, server, GotRunList(requests[s]).held)
         /\ HeldOK(N, server, GotFlowModel(requests[s]).held)
<1> DEFINE f == page.feed
           a == requests[s].reply
<1>1. HeldOK(N, server, f) /\ ReplyOK(N, server, a) /\ f.rev \in Revisions
  BY DEF Named, Replies, FeedsTyped, PageType, HeldType
<1>2. HeldOK(N, server, emptyFeed)
  BY DEF HeldOK, emptyFeed
<1> HIDE DEF f, a
<1>3. HeldOK(N, server, reduceServerResponse(f, a).held)
  <2>1. CASE a.kind = "snapshot"
    <3>1. reduceServerResponse(f, a) = applySnapshot(a)
      BY <2>1 DEF reduceServerResponse
    <3> QED
      BY <1>1, <2>1, <3>1 DEF applySnapshot, HeldOK, ReplyOK
  <2>2. CASE a.kind = "delta"
    <3>1. reduceServerResponse(f, a) = applyDelta(f, a)
      BY <2>2 DEF reduceServerResponse
    <3>2. CASE f.rev = NoRevision \/ f.rev # a.base
      BY <1>1, <3>1, <3>2 DEF applyDelta
    <3>3. CASE f.rev # NoRevision /\ f.rev = a.base
      <4>1. f.state = N[a.base]
        BY <1>1, <3>3 DEF HeldOK
      <4>2. applyDelta(f, a).held
              = [rev |-> a.next, state |-> applyCollectionDelta(f.state, a.content)]
        BY <3>3 DEF applyDelta
      <4> QED
        BY <1>1, <2>2, <3>1, <4>1, <4>2 DEF HeldOK, ReplyOK
    <3> QED
      BY <3>2, <3>3
  <2>3. CASE a.kind # "snapshot" /\ a.kind # "delta"
    BY <1>1, <2>3 DEF reduceServerResponse
  <2> QED
    BY <2>1, <2>2, <2>3
<1>4. Ingress(requests[s]) = reduceServerResponse(f, a)
  BY DEF Ingress, f, a
<1> QED
  BY <1>1, <1>2, <1>3, <1>4 DEF GotRunList, GotFlowModel, f

\* Requests that are dropped, marked or asked anew carry no answer that was not there.
LEMMA StartReplies ==
  ASSUME NEW N, NEW srv, NEW reqs, reqs \in [Slots -> RequestType], NEW g, NEW act, NEW have,
         start(reqs, g, act, have), Replies(N, srv, reqs)
  PROVE  Replies(N, srv, requests')
<1>1. CASE ~tryStart(g)
  BY <1>1 DEF start
<1>2. CASE tryStart(g)
  <2> DEFINE n == NextSlot(reqs)
             new == Request(have, TRUE)
  <2>1. requests' = [reqs EXCEPT ![n] = new]
    BY <1>2 DEF start
  <2>2. new.reply = << >>
    BY DEF Request
  <2> HIDE DEF n, new
  <2>3. \A s \in Slots : requests'[s] = IF s = n THEN new ELSE reqs[s]
    BY <2>1
  <2> QED
    BY <2>2, <2>3 DEF Replies
<1> QED
  BY <1>1, <1>2

LEMMA DroppedReplies ==
  ASSUME FeedsTyped, NEW N, NEW srv, Replies(N, srv, requests)
  PROVE  /\ \A s \in Slots : Replies(N, srv, [requests EXCEPT ![s] = Free])
         /\ Replies(N, srv, cancelled(requests))
<1>1. ASSUME NEW s \in Slots PROVE Replies(N, srv, [requests EXCEPT ![s] = Free])
  <2> DEFINE freed == [requests EXCEPT ![s] = Free]
  <2>1. \A t \in Slots : freed[t] = IF t = s THEN Free ELSE requests[t]
    BY DEF FeedsTyped
  <2>2. Free.reply = << >>
    BY DEF Free
  <2> HIDE DEF freed
  <2>3. Replies(N, srv, freed)
    BY <2>1, <2>2 DEF Replies
  <2> QED
    BY <2>3 DEF freed
<1>2. Replies(N, srv, cancelled(requests))
  <2>1. \A t \in Slots : cancelled(requests)[t].reply = requests[t].reply
    BY DEF cancelled, FeedsTyped, RequestType
  <2> QED
    BY <2>1 DEF Replies
<1> QED
  BY <1>1, <1>2

LEMMA NamesStep == NamesInv /\ [FeedsNext]_fvars => NamesInv'
<1> SUFFICES ASSUME TypedFlight, NEW N \in Names, Named(N), [FeedsNext]_fvars
             PROVE  \E M \in Names : Named(M)'
  BY TypedFlightStep DEF NamesInv
<1>a. FeedsTyped
  BY DEF TypedFlight
<1>b. Store(N, server) /\ HeldOK(N, server, page.feed) /\ Replies(N, server, requests)
  BY DEF Named
\* Most steps keep the names and the replicas.
<1>c. ASSUME server' = server, HeldOK(N, server, page'.feed), Replies(N, server, requests')
      PROVE  \E M \in Names : Named(M)'
  <2>1. Named(N)'
    BY <1>b, <1>c DEF Named
  <2> QED
    BY <2>1
<1>1. ASSUME NEW r \in Resources, NEW i \in Ids, NEW v \in 0..MaxVersion, WorldChanges(r, i, v)
      PROVE  \E M \in Names : Named(M)'
  BY <1>1, <1>b, <1>c DEF WorldChanges
<1>2. ASSUME Restart PROVE \E M \in Names : Named(M)'
  <2>1. /\ server.epoch \in Nat
        /\ server' = [epoch |-> server.epoch + 1, sequence |-> 0, replicas |-> << >>]
        /\ page' = page /\ requests' = requests
    BY <1>2, <1>a, ReplicasOf DEF Restart, FeedsTyped
  <2>2. \A e \in Revisions : Issued(server, e) => Issued(server', e)
    <3> TAKE e \in Revisions
    <3>1. HAVE Issued(server, e)
    <3>2. e[1] \in Nat
      <4>1. e \in Seq(Nat) /\ e # << >>
        BY <3>1 DEF Issued, Revisions
      <4>2. Len(e) \in Nat /\ Len(e) # 0
        BY <4>1, LenProperties, EmptySeq
      <4> DEFINE l == Len(e)
      <4>3. 1 \in 1..Len(e)
        <5> HIDE DEF l
        <5>1. l \in Nat /\ l # 0
          BY <4>2 DEF l
        <5>2. 1 \in 1..l
          BY <5>1
        <5> QED
          BY <5>2 DEF l
      <4> QED
        BY <4>1, <4>3, ElementOfSeq
    <3>3. e[1] < server'.epoch
      BY <2>1, <3>1, <3>2 DEF Issued
    <3> QED
      BY <3>1, <3>3 DEF Issued
  <2>3. Len(server'.replicas) = 0
    BY <2>1
  <2>4. Store(N, server')
    BY <2>3 DEF Store
  <2>5. \A x \in Revisions : Past(server, x) => Past(server', x)
    BY <2>2, <2>3 DEF Past
  <2>6. HeldOK(N, server', page.feed) /\ Replies(N, server', requests)
    BY <1>a, <2>5, PastIsKept DEF Replies
  <2>7. Named(N)'
    BY <2>1, <2>4, <2>6 DEF Named
  <2> QED
    BY <2>7
<1>3. ASSUME Tick PROVE \E M \in Names : Named(M)'
  <2>1. start(requests, guard, active, page.feed.rev) /\ server' = server /\ page' = page
    BY <1>3 DEF Tick
  <2>2. Replies(N, server, requests')
    BY <1>a, <1>b, <2>1, StartReplies DEF FeedsTyped
  <2> QED
    BY <1>b, <1>c, <2>1, <2>2
<1>4. ASSUME ReadRunList PROVE \E M \in Names : Named(M)'
  <2> DEFINE n == NextSlot(requests)
             new == Request(NoRevision, FALSE)
  <2>1. requests' = [requests EXCEPT ![n] = new] /\ server' = server /\ page' = page
    BY <1>4 DEF ReadRunList
  <2>2. new.reply = << >>
    BY DEF Request
  <2> HIDE DEF n, new
  <2>3. \A s \in Slots : requests'[s] = IF s = n THEN new ELSE requests[s]
    BY <1>a, <2>1 DEF FeedsTyped
  <2>4. Replies(N, server, requests')
    BY <1>b, <2>2, <2>3 DEF Replies
  <2> QED
    BY <1>b, <1>c, <2>1, <2>4
<1>5. ASSUME BackoffElapses PROVE \E M \in Names : Named(M)'
  BY <1>5, <1>b, <1>c DEF BackoffElapses
<1>6. ASSUME NEW s \in Slots, Serve(s) PROVE \E M \in Names : Named(M)'
  <2> DEFINE answer == respond(ServedFrom(requests[s].key), requests[s].have)
  <2>1. PICK M \in Names :
          /\ Store(M, server')
          /\ \A x \in Revisions : Past(server, x) => Past(server', x) /\ M[x] = N[x]
          /\ ReplyOK(M, server', answer)
    BY <1>6, <1>a, <1>b, ServeNames
  <2>2. requests' = [requests EXCEPT ![s].reply = answer] /\ page' = page
    BY <1>6, <1>a, ServeFacts DEF Serve
  <2> HIDE DEF answer
  <2>3. /\ HeldOK(M, server', page.feed)
        /\ \A t \in Slots : requests[t].reply # << >> => ReplyOK(M, server', requests[t].reply)
    BY <1>a, <2>1, PastIsKept
  <2>4. \A t \in Slots : requests'[t].reply = IF t = s THEN answer ELSE requests[t].reply
    BY <1>a, <2>2 DEF FeedsTyped, RequestType
  <2>5. Replies(M, server', requests')
    BY <2>1, <2>3, <2>4 DEF Replies
  <2>6. Named(M)'
    BY <2>1, <2>2, <2>3, <2>5 DEF Named
  <2> QED
    BY <2>6
<1>7. ASSUME NEW s \in Slots, ServeMissing(s) PROVE \E M \in Names : Named(M)'
  <2>1. PICK k \in {"missing", "error"} :
          requests' = [requests EXCEPT ![s].reply = Response(k, NoRevision, NoRevision, << >>)]
    BY <1>7 DEF ServeMissing
  <2> DEFINE answer == Response(k, NoRevision, NoRevision, << >>)
  <2>2. ReplyOK(N, server, answer)
    BY DEF ReplyOK, Response
  <2> HIDE DEF answer
  <2>3. \A t \in Slots : requests'[t].reply = IF t = s THEN answer ELSE requests[t].reply
    BY <1>a, <2>1 DEF FeedsTyped, RequestType, answer
  <2>4. Replies(N, server, requests') /\ server' = server /\ page' = page
    BY <1>7, <1>b, <2>2, <2>3 DEF Replies, ServeMissing
  <2> QED
    BY <1>b, <1>c, <2>4
<1>8. ASSUME NEW s \in Slots, RequestSettles(s) PROVE \E M \in Names : Named(M)'
  <2>1. requests' = [requests EXCEPT ![s] = Free] /\ server' = server /\ page' = page
    BY <1>8 DEF RequestSettles
  <2>2. Replies(N, server, requests')
    BY <1>a, <1>b, <2>1, DroppedReplies
  <2> QED
    BY <1>b, <1>c, <2>1, <2>2
<1>9. ASSUME NEW s \in Slots, Deliver(s) PROVE \E M \in Names : Named(M)'
  <2> DEFINE r == requests[s]
             freed == [requests EXCEPT ![s] = Free]
             settled == settledGuard(r, r.reply.kind # "error")
             reaction == IF kind = "list" THEN GotRunList(r) ELSE GotFlowModel(r)
             opened == page.loaded \/ reaction.kind \in {"applied", "snapshot"}
  <2>1. r.reply # << >> /\ server' = server
    BY <1>9 DEF Deliver
  <2>2. HeldOK(N, server, reaction.held)
    BY <1>a, <2>1, IngressNames
  <2>3. Replies(N, server, freed) /\ freed \in [Slots -> RequestType]
    BY <1>a, <1>b, DroppedReplies, EmptyFacts DEF FeedsTyped
  <2>4. /\ \/ page' = page
           \/ page' = [page EXCEPT !.feed = reaction.held, !.loaded = opened]
        /\ \/ start(freed, settled, finished(s), NoRevision)
           \/ requests' = freed
    BY <1>9 DEF Deliver
  <2> HIDE DEF reaction, opened, freed, settled
  <2>5. page'.feed = page.feed \/ page'.feed = reaction.held
    BY <1>a, <2>4 DEF FeedsTyped, PageType
  <2>6. Replies(N, server, requests')
    BY <2>3, <2>4, StartReplies
  <2> QED
    BY <1>b, <1>c, <2>1, <2>2, <2>5, <2>6
<1>10. ASSUME NEW run \in Runs, SelectRun(run) PROVE \E M \in Names : Named(M)'
  <2>1. /\ requests' = cancelled(requests) /\ server' = server
        /\ page' = [page EXCEPT !.shown = run, !.feed = emptyFeed, !.loaded = FALSE]
    BY <1>10 DEF SelectRun
  <2>2. page'.feed = emptyFeed
    BY <1>a, <2>1 DEF FeedsTyped, PageType
  <2>3. HeldOK(N, server, page'.feed)
    BY <2>2 DEF HeldOK, emptyFeed
  <2>4. Replies(N, server, requests')
    BY <1>a, <1>b, <2>1, DroppedReplies
  <2> QED
    BY <1>c, <2>1, <2>3, <2>4
<1>11. ASSUME PageVisibilityChanged PROVE \E M \in Names : Named(M)'
  <2> DEFINE shut == ~page.visible
             feed == IF ~page.visible /\ kind = "flow" /\ pollable THEN [page.feed EXCEPT !.rev = NoRevision]
                     ELSE page.feed
             resumed == [page EXCEPT !.visible = shut, !.feed = feed]
  <2>1. /\ page' = resumed /\ server' = server
        /\ \/ requests' = cancelled(requests)
           \/ start(cancelled(requests), FreshGuard, 0, resumed.feed.rev)
    BY <1>11 DEF PageVisibilityChanged, Polled
  <2>2. HeldOK(N, server, feed)
    BY <1>a, <1>b DEF HeldOK, FeedsTyped, PageType, HeldType
  <2> HIDE DEF feed, shut
  <2>3. page'.feed = feed
    BY <1>a, <2>1 DEF FeedsTyped, PageType
  <2> HIDE DEF resumed
  <2>4. Replies(N, server, cancelled(requests)) /\ cancelled(requests) \in [Slots -> RequestType]
    BY <1>a, <1>b, DroppedReplies, CancelledFacts DEF TypedFlight, Asks
  <2>5. Replies(N, server, requests')
    BY <2>1, <2>4, StartReplies
  <2> QED
    BY <1>c, <2>1, <2>2, <2>3, <2>5
<1>12. ASSUME StatusRead \/ UNCHANGED fvars PROVE \E M \in Names : Named(M)'
  BY <1>12, <1>b, <1>c DEF StatusRead, fvars
<1> QED
  BY <1>1, <1>2, <1>3, <1>4, <1>5, <1>6, <1>7, <1>8, <1>9, <1>10, <1>11, <1>12
     DEF FeedsNext, Network, AbortSettles, RequestFails

LEMMA NamesInit == FeedsInit => NamesInv
<1> SUFFICES ASSUME FeedsInit PROVE \E N \in Names : Named(N)
  BY TypedFlightInit DEF NamesInv
<1> DEFINE N == [x \in Revisions |-> emptyState]
<1>1. N \in Names
  BY EmptyFacts DEF Names
<1>2. server.replicas = << >> /\ Len(server.replicas) = 0
  BY DEF FeedsInit
<1> HIDE DEF N
<1>3. Store(N, server)
  BY <1>2 DEF Store
<1>4. HeldOK(N, server, page.feed)
  BY DEF FeedsInit, HeldOK, emptyFeed
<1>5. Replies(N, server, requests)
  BY DEF FeedsInit, Replies, Free
<1>6. Named(N)
  BY <1>3, <1>4, <1>5 DEF Named
<1> QED
  BY <1>1, <1>6

\* A page that stands at the revision of the service's replica holds what the replica
\* holds (entity-diff/server.ts, flow-feed.ts, run-list-feed.ts): the answer "unchanged"
\* is never given to a page that shows something else, however many replicas were
\* evicted, processes restarted, histories trimmed and answers lost on the way.
THEOREM RevisionsNameStates == FeedsSpec => []RevisionNamesState
<1>1. NamesInv => RevisionNamesState
  <2> SUFFICES ASSUME NamesInv, NEW n \in DOMAIN server.replicas,
                      revision(server.replicas[n].replica) = page.feed.rev
               PROVE  server.replicas[n].replica.current = page.feed.state
    BY DEF RevisionNamesState
  <2>1. PICK N \in Names : Named(N)
    BY DEF NamesInv
  <2> DEFINE R == server.replicas[n].replica
  <2>2. server \in ServerType
    BY DEF NamesInv, TypedFlight, FeedsTyped
  <2>3. n \in 1..Len(server.replicas)
    BY <2>2, ReplicasOf, LenProperties
  <2>4. ReplicaOK(N, R) /\ R \in ReplicaType
    BY <2>1, <2>2, <2>3, ReplicasOf DEF Named, Store
  <2> HIDE DEF R
  <2>5. revision(R) # NoRevision
    BY <2>4, RevisionType DEF revision, ReplicaType
  <2>6. N[revision(R)] = R.current
    BY <2>4 DEF ReplicaOK
  <2>7. revision(R) = page.feed.rev
    BY DEF R
  <2>8. N[page.feed.rev] = page.feed.state
    BY <2>1, <2>5, <2>7 DEF Named, HeldOK
  <2> QED
    BY <2>6, <2>7, <2>8 DEF R
<1> QED
  BY <1>1, NamesInit, NamesStep, PTL DEF FeedsSpec

-----------------------------------------------------------------------------
(* The socket of the delta stream (LiveStream).                            *)

\* The socket is the active connection, a reconnect waits only where there is none,
\* and no other socket is open.
SocketInv ==
  /\ client = [sock |-> client.sock, active |-> client.active, desired |-> client.desired,
               timer |-> client.timer, torn |-> client.torn]
  /\ conn \in [Live!Conns -> {"unused", "connecting", "open", "closed"}]
  /\ client.timer \in BOOLEAN
  /\ client.sock = client.active
  /\ client.timer => client.sock = 0
  /\ \A c \in Live!Conns : conn[c] = "open" => c = client.sock

LEMMA NoneIsNoSocket == Live!None = 0 /\ 0 \notin Live!Conns
  BY StreamBounds DEF Live!None, Live!Conns

LEMMA ConnectedFacts ==
  ASSUME SocketInv, client.sock = 0, NEW d,
         client' = Live!Connected([client EXCEPT !.desired = d]) \/ client' = Live!Connected(client),
         conn' = [conn EXCEPT ![Live!NextConn] = "connecting"]
  PROVE  SocketInv'
<1> DEFINE n == Live!NextConn
<1>1. /\ client'.sock = n /\ client'.active = n /\ client'.timer = FALSE
      /\ client' = [sock |-> client'.sock, active |-> client'.active, desired |-> client'.desired,
                    timer |-> client'.timer, torn |-> client'.torn]
  BY DEF SocketInv, Live!Connected
<1> HIDE DEF n
<1>2. conn' \in [Live!Conns -> {"unused", "connecting", "open", "closed"}]
  BY DEF SocketInv
<1>3. \A c \in Live!Conns : conn'[c] # "open"
  BY NoneIsNoSocket DEF SocketInv
<1> QED
  BY <1>1, <1>2, <1>3 DEF SocketInv

LEMMA SubscribeFacts ==
  ASSUME SocketInv, NEW run, Live!subscribe(run)
  PROVE  SocketInv'
<1> DEFINE cl == [client EXCEPT !.desired = run]
<1>1. /\ cl = [sock |-> cl.sock, active |-> cl.active, desired |-> cl.desired,
               timer |-> cl.timer, torn |-> cl.torn]
      /\ cl.sock = client.sock /\ cl.active = client.active /\ cl.timer = client.timer
  BY DEF SocketInv
<1>2. CASE client.sock # 0
  <2>1. client' = cl /\ Live!Send(cl)
    BY <1>2, NoneIsNoSocket DEF Live!subscribe
  <2>2. /\ conn' \in [Live!Conns -> {"unused", "connecting", "open", "closed"}]
        /\ \A c \in Live!Conns : conn'[c] = "open" => conn[c] = "open"
    <3> HIDE DEF cl
    <3> QED
      BY <2>1 DEF Live!Send, SocketInv
  <2> HIDE DEF cl
  <2> QED
    BY <1>1, <2>1, <2>2 DEF SocketInv
<1>3. CASE client.sock = 0 /\ client.timer
  <2>1. client' = cl /\ conn' = conn
    BY <1>3, NoneIsNoSocket DEF Live!subscribe
  <2> HIDE DEF cl
  <2> QED
    BY <1>1, <2>1 DEF SocketInv
<1>4. CASE client.sock = 0 /\ ~client.timer
  <2>1. client' = Live!Connected(cl) /\ conn' = [conn EXCEPT ![Live!NextConn] = "connecting"]
    BY <1>4, NoneIsNoSocket DEF Live!subscribe
  <2> QED
    BY <1>4, <2>1, ConnectedFacts
<1> QED
  BY <1>2, <1>3, <1>4 DEF SocketInv

LEMMA UnsubscribeFacts ==
  ASSUME SocketInv, Live!unsubscribe
  PROVE  SocketInv'
<1>1. /\ client' = [client EXCEPT !.desired = 0, !.timer = FALSE, !.active = 0, !.sock = 0]
      /\ conn' = IF client.sock = 0 THEN conn ELSE [conn EXCEPT ![client.sock] = "closed"]
  BY NoneIsNoSocket DEF Live!unsubscribe
<1>2. /\ client' = [sock |-> client'.sock, active |-> client'.active, desired |-> client'.desired,
                    timer |-> client'.timer, torn |-> client'.torn]
      /\ client'.sock = 0 /\ client'.active = 0 /\ client'.timer = FALSE
  BY <1>1 DEF SocketInv
<1>3. /\ conn' \in [Live!Conns -> {"unused", "connecting", "open", "closed"}]
      /\ \A c \in Live!Conns : conn'[c] # "open"
  BY <1>1, NoneIsNoSocket DEF SocketInv
<1> QED
  BY <1>2, <1>3 DEF SocketInv

LEMMA SocketStep == SocketInv /\ [Live!StreamStep]_(Live!svars) => SocketInv'
<1> SUFFICES ASSUME SocketInv, [Live!StreamStep]_(Live!svars) PROVE SocketInv'
  OBVIOUS
<1>a. ASSUME client' = client, conn' = conn PROVE SocketInv'
  BY <1>a DEF SocketInv
<1>1. ASSUME Live!Publish \/ Live!NextAttempt \/ Live!RunChanges \/ Live!TurnCompleted
      PROVE  SocketInv'
  BY <1>1, <1>a DEF Live!Publish, Live!NextAttempt, Live!RunChanges, Live!TurnCompleted
<1>2. ASSUME NEW run, Live!SelectRun(run) PROVE SocketInv'
  <2> DEFINE same == UNCHANGED <<client, conn, up>>
  <2>1. Live!subscribe(run) \/ Live!unsubscribe \/ same
    BY <1>2, Zenon DEF Live!SelectRun
  <2>2. same => client' = client /\ conn' = conn
    OBVIOUS
  <2> HIDE DEF same
  <2> QED
    BY <1>a, <2>1, <2>2, SubscribeFacts, UnsubscribeFacts
<1>3. ASSUME Live!FollowSubmitted PROVE SocketInv'
  BY <1>3, SubscribeFacts DEF Live!FollowSubmitted
<1>4. ASSUME Live!RunListPolled PROVE SocketInv'
  <2> DEFINE same == UNCHANGED <<client, conn, up>>
  <2>1. Live!unsubscribe \/ same
    BY <1>4, Zenon DEF Live!RunListPolled
  <2>2. same => client' = client /\ conn' = conn
    OBVIOUS
  <2> HIDE DEF same
  <2> QED
    BY <1>a, <2>1, <2>2, UnsubscribeFacts
<1>5. ASSUME Live!ReconnectTimer PROVE SocketInv'
  <2>1. /\ client.timer /\ client' = Live!Connected(client)
        /\ conn' = [conn EXCEPT ![Live!NextConn] = "connecting"]
    BY <1>5 DEF Live!ReconnectTimer
  <2>2. client.sock = 0
    BY <2>1 DEF SocketInv
  <2> QED
    BY <2>1, <2>2, ConnectedFacts
<1>6. ASSUME NEW c \in Live!Conns,
             Live!HubReceives(c) \/ Live!HubDrops(c) \/ Live!FrameArrives(c) \/ Live!FramesLost(c)
      PROVE  SocketInv'
  BY <1>6, <1>a DEF Live!HubReceives, Live!HubDrops, Live!FrameArrives, Live!FramesLost
<1>7. ASSUME NEW c \in Live!Conns, Live!finishOpen(c) PROVE SocketInv'
  <2>1. CASE client.active # c
    <3>1. conn' = [conn EXCEPT ![c] = "closed"] /\ client' = [client EXCEPT !.torn = @ \cup {c}]
      BY <1>7, <2>1 DEF Live!finishOpen
    <3>2. /\ client' = [sock |-> client'.sock, active |-> client'.active, desired |-> client'.desired,
                        timer |-> client'.timer, torn |-> client'.torn]
          /\ client'.sock = client.sock /\ client'.active = client.active
          /\ client'.timer = client.timer
      BY <3>1 DEF SocketInv
    <3>3. /\ conn' \in [Live!Conns -> {"unused", "connecting", "open", "closed"}]
          /\ \A d \in Live!Conns : conn'[d] = "open" => conn[d] = "open"
      BY <3>1 DEF SocketInv
    <3> QED
      BY <3>2, <3>3 DEF SocketInv
  <2>2. CASE client.active = c
    <3>1. conn' = [conn EXCEPT ![c] = "open"] /\ client' = [client EXCEPT !.sock = c]
      BY <1>7, <2>2 DEF Live!finishOpen
    <3>2. client' = client
      BY <2>2, <3>1 DEF SocketInv
    <3>3. /\ conn' \in [Live!Conns -> {"unused", "connecting", "open", "closed"}]
          /\ \A d \in Live!Conns : conn'[d] = "open" => d = c \/ conn[d] = "open"
      BY <3>1 DEF SocketInv
    <3> QED
      BY <2>2, <3>2, <3>3 DEF SocketInv
  <2> QED
    BY <2>1, <2>2
<1>8. ASSUME NEW c \in Live!Conns, Live!SocketBreaks(c) PROVE SocketInv'
  <2>1. conn' = [conn EXCEPT ![c] = "closed"] /\ client' = client
    BY <1>8 DEF Live!SocketBreaks
  <2>2. /\ conn' \in [Live!Conns -> {"unused", "connecting", "open", "closed"}]
        /\ \A d \in Live!Conns : conn'[d] = "open" => conn[d] = "open"
    BY <2>1 DEF SocketInv
  <2> QED
    BY <2>1, <2>2 DEF SocketInv
<1>9. ASSUME NEW c \in Live!Conns, Live!SocketDown(c) PROVE SocketInv'
  <2> DEFINE cl == [client EXCEPT !.torn = @ \cup {c}]
             waits == client.desired # Live!None
  <2>1. /\ conn[c] = "closed" /\ conn' = conn
        /\ \/ /\ client.active = c
              /\ client' = [cl EXCEPT !.active = Live!None, !.sock = Live!None,
                                      !.timer = cl.desired # Live!None]
           \/ /\ client.active # c /\ client' = cl
    BY <1>9 DEF Live!SocketDown, Live!markDown, SocketInv
  <2>2. /\ cl = [sock |-> cl.sock, active |-> cl.active, desired |-> cl.desired,
                 timer |-> cl.timer, torn |-> cl.torn]
        /\ cl.sock = client.sock /\ cl.active = client.active /\ cl.timer = client.timer
        /\ cl.desired = client.desired
    BY DEF SocketInv
  <2> HIDE DEF cl
  <2>3. CASE client' = cl
    BY <2>1, <2>2, <2>3 DEF SocketInv
  <2>4. CASE client.active = c /\ client' = [cl EXCEPT !.active = Live!None, !.sock = Live!None,
                                                       !.timer = cl.desired # Live!None]
    <3>1. client' = [cl EXCEPT !.active = 0, !.sock = 0, !.timer = waits]
      BY <2>2, <2>4, NoneIsNoSocket
    <3>2. waits \in BOOLEAN
      OBVIOUS
    <3> HIDE DEF waits
    <3>3. /\ client' = [sock |-> client'.sock, active |-> client'.active,
                        desired |-> client'.desired, timer |-> client'.timer,
                        torn |-> client'.torn]
          /\ client'.sock = 0 /\ client'.active = 0 /\ client'.timer = waits
      BY <2>2, <3>1
    <3>4. \A d \in Live!Conns : conn[d] # "open"
      BY <2>1, <2>4 DEF SocketInv
    <3> QED
      BY <2>1, <3>2, <3>3, <3>4 DEF SocketInv
  <2> QED
    BY <2>1, <2>3, <2>4
<1>10. ASSUME UNCHANGED Live!svars PROVE SocketInv'
  BY <1>10, <1>a DEF Live!svars
<1> QED
  BY <1>1, <1>2, <1>3, <1>4, <1>5, <1>6, <1>7, <1>8, <1>9, <1>10 DEF Live!StreamStep

\* The browser never holds two sockets (stream-client.ts): every socket but the current
\* one is closed, or is closed by its own open event, for any number of reconnects,
\* selections and late events of connections that were replaced.
THEOREM BrowserHoldsOneSocket == Live!StreamSpec => []OneSocket
<1>1. Live!StreamInit => SocketInv
  BY NoneIsNoSocket DEF Live!StreamInit, SocketInv
<1>2. SocketInv => OneSocket
  BY DEF SocketInv, OneSocket, Live!OneSocket
<1> QED
  BY <1>1, <1>2, SocketStep, PTL DEF Live!StreamSpec

-----------------------------------------------------------------------------
(* The text shown of the delta stream (LiveStream).                        *)

Frame == [run : Nat, attempt : Nat, n : Nat]
Delta == [run : Nat \ {0}, attempt : Nat, n : Nat]
Continues(d, e) == e.n = 1 \/ (e.attempt = d.attempt /\ e.n = d.n + 1)

\* The deltas of a run are in one piece, no acknowledgement (run 0) is between them, and
\* each continues the one before it.
InPieces(s) ==
  /\ \A i, j \in DOMAIN s : i < j /\ s[i].run # 0 /\ s[j].run # 0 => s[i].run <= s[j].run
  /\ \A i, j, k \in DOMAIN s : i < k /\ k < j /\ s[i].run # 0 /\ s[j].run # 0 /\ s[k].run = 0 =>
       s[i].run < s[j].run
  /\ \A i, j \in DOMAIN s : j = i + 1 /\ s[i].run = s[j].run /\ s[i].run # 0 => Continues(s[i], s[j])

\* The next delta of the source src behind the frames s of a connection that is subscribed to the run
\* top continues them.
UpTo(s, top, src) ==
  /\ \A i \in DOMAIN s : s[i].run <= top
  /\ \A i, k \in DOMAIN s : i < k /\ s[i].run # 0 /\ s[k].run = 0 => s[i].run < top
  /\ s # << >> /\ s[Len(s)].run = src.run /\ src.run = top => src.n = 0 \/ s[Len(s)] = src

\* The frames on their way behind the last delta that is shown.
Behind(p, s) == IF p = << >> THEN s ELSE <<p[Len(p)]>> \o s
Incoming == IF client.active = 0 THEN << >> ELSE Behind(watchPage.partial, down[client.active])

Piece(p, run) ==
  \A i \in DOMAIN p : p[i].run = run /\ p[i].attempt = p[1].attempt /\ p[i].n = p[1].n + i - 1

SourceOK == source \in Delta /\ watchPage.known \in 1 .. source.run

ShownOK ==
  /\ watchPage = [known |-> watchPage.known, selected |-> watchPage.selected,
                  partial |-> watchPage.partial, selects |-> watchPage.selects]
  /\ watchPage.partial \in Seq(Delta) /\ Piece(watchPage.partial, watchPage.selected)
  /\ client.active = 0 => watchPage.partial = << >>

\* The client asks for a run the page knows of, and the active connection is not torn down.
AskingOK ==
  /\ client.active # 0 => client.active \in Live!Conns /\ client.active \notin client.torn
  /\ client.active # 0 \/ client.timer => client.desired \in 1 .. watchPage.known
  /\ client.desired \in 0 .. watchPage.known
  /\ \A c \in Live!Conns : c \in client.torn => conn[c] = "closed"

\* Each subscription on its way to the hub is to a later run than the one before it.
Subscribing(c) ==
  /\ hub[c] \in Nat /\ up[c] \in Seq(Nat) /\ hub[c] <= client.desired
  /\ \A i \in DOMAIN up[c] : hub[c] < up[c][i] /\ up[c][i] <= client.desired
  /\ \A i, j \in DOMAIN up[c] : i < j => up[c][i] < up[c][j]

ChannelsOK ==
  /\ DOMAIN hub = Live!Conns /\ DOMAIN up = Live!Conns /\ DOMAIN down = Live!Conns
  /\ \A c \in Live!Conns :
       /\ down[c] \in Seq(Frame)
       /\ \A i \in DOMAIN down[c] : down[c][i].run = 0 => down[c][i] = Live!Ack
       /\ conn[c] \in {"unused", "connecting"} => down[c] = << >> /\ up[c] = << >>
       /\ conn[c] = "open" => Subscribing(c)

FlowOK ==
  /\ InPieces(Incoming)
  /\ \A i \in DOMAIN Incoming : Incoming[i].run <= source.run
  /\ client.active # 0 /\ conn[client.active] = "open" => UpTo(Incoming, hub[client.active], source)

PieceInv == SourceOK /\ ShownOK /\ AskingOK /\ ChannelsOK /\ FlowOK


\* Sequences of frames: one more, one less.
LEMMA FrameSeq ==
  ASSUME NEW s \in Seq(Frame)
  PROVE  /\ Len(s) \in Nat /\ DOMAIN s = 1 .. Len(s)
         /\ \A i \in DOMAIN s : s[i].run \in Nat /\ s[i].attempt \in Nat /\ s[i].n \in Nat
         /\ s # << >> => Len(s) # 0 /\ Len(s) \in DOMAIN s /\ 1 \in DOMAIN s
  <1>1. \A f \in Frame : f.run \in Nat /\ f.attempt \in Nat /\ f.n \in Nat
    BY DEF Frame
  <1> HIDE DEF Frame
  <1>2. \A i \in DOMAIN s : s[i] \in Frame
    OBVIOUS
  <1> QED
    BY <1>1, <1>2

\* A delta is a frame of a run.
LEMMA DeltaIsFrame ==
  /\ Seq(Delta) \subseteq Seq(Frame)
  /\ \A d : d \in Delta <=> d \in Frame /\ d.run # 0
  <1>1. \A d : d \in Delta <=> d \in Frame /\ d.run # 0
    BY DEF Delta, Frame
  <1> HIDE DEF Delta, Frame
  <1> QED
    BY <1>1

\* What is on its way, frame by frame.
LEMMA BehindFrames ==
  ASSUME NEW p \in Seq(Delta), NEW s \in Seq(Frame)
  PROVE  /\ Behind(p, s) \in Seq(Frame)
         /\ p = << >> => Behind(p, s) = s
         /\ p # << >> => /\ Len(Behind(p, s)) = Len(s) + 1
                         /\ Behind(p, s)[1] = p[Len(p)] /\ p[Len(p)] \in Delta
                         /\ \A i \in 2 .. Len(s) + 1 : Behind(p, s)[i] = s[i - 1]
  <1>1. ASSUME p # << >> PROVE p[Len(p)] \in Delta /\ p[Len(p)] \in Frame
    <2> HIDE DEF Delta, Frame
    <2>1. Len(p) \in 1 .. Len(p)
      BY <1>1
    <2> QED
      BY <2>1, DeltaIsFrame
  <1> HIDE DEF Delta, Frame
  <1> QED
    BY <1>1 DEF Behind

\* A frame more behind what is on its way.
LEMMA BehindMore ==
  ASSUME NEW p \in Seq(Delta), NEW s \in Seq(Frame), NEW f \in Frame
  PROVE  Behind(p, Append(s, f)) = Append(Behind(p, s), f)
  <1>1. p[Len(p)] \in Frame \/ p = << >>
    BY BehindFrames, DeltaIsFrame
  <1> HIDE DEF Delta, Frame
  <1> QED
    BY <1>1 DEF Behind

\* What remains when the first frame is gone.
LEMMA WithoutFirst ==
  ASSUME NEW s \in Seq(Frame), NEW t \in Seq(Frame), Len(s) = Len(t) + 1,
         \A i \in DOMAIN t : t[i] = s[i + 1]
  PROVE  /\ InPieces(s) => InPieces(t)
         /\ \A src : \A top \in Nat : UpTo(s, top, src) => UpTo(t, top, src)
         /\ \A top : (\A i \in DOMAIN s : s[i].run <= top) => \A i \in DOMAIN t : t[i].run <= top
  <1>1. \A i \in DOMAIN t : i + 1 \in DOMAIN s /\ t[i] = s[i + 1] /\ i \in Nat
    BY FrameSeq
  <1>2. \A i, j \in DOMAIN t : i < j <=> i + 1 < j + 1
    BY <1>1
  <1>3. \A i, j \in DOMAIN t : j = i + 1 <=> j + 1 = (i + 1) + 1
    BY <1>1
  <1>4. InPieces(s) => InPieces(t)
    <2> SUFFICES ASSUME InPieces(s) PROVE InPieces(t)
      OBVIOUS
    <2>1. \A i, j \in DOMAIN t : i < j /\ t[i].run # 0 /\ t[j].run # 0 => t[i].run <= t[j].run
      BY <1>1, <1>2 DEF InPieces
    <2>2. \A i, j, k \in DOMAIN t : i < k /\ k < j /\ t[i].run # 0 /\ t[j].run # 0 /\ t[k].run = 0 =>
            t[i].run < t[j].run
      BY <1>1, <1>2, SMTT(30) DEF InPieces
    <2>3. \A i, j \in DOMAIN t : j = i + 1 /\ t[i].run = t[j].run /\ t[i].run # 0 => Continues(t[i], t[j])
      BY <1>1, <1>3, SMTT(30) DEF InPieces
    <2> QED
      BY <2>1, <2>2, <2>3 DEF InPieces
  <1>5. t # << >> => s # << >> /\ t[Len(t)] = s[Len(s)]
    BY <1>1, FrameSeq
  <1>6. ASSUME NEW src, NEW top \in Nat, UpTo(s, top, src) PROVE UpTo(t, top, src)
    <2>1. \A i \in DOMAIN t : t[i].run <= top
      BY <1>1, <1>6 DEF UpTo
    <2>2. \A i, k \in DOMAIN t : i < k /\ t[i].run # 0 /\ t[k].run = 0 => t[i].run < top
      BY <1>1, <1>2, <1>6 DEF UpTo
    <2> QED
      BY <1>5, <1>6, <2>1, <2>2 DEF UpTo
  <1> QED
    BY <1>1, <1>4, <1>6

\* What remains when the second is gone and was not of the run of the first.
LEMMA WithoutSecond ==
  ASSUME NEW s \in Seq(Frame), NEW t \in Seq(Frame), Len(s) = Len(t) + 1, t # << >>,
         t[1] = s[1], \A i \in DOMAIN t : i > 1 => t[i] = s[i + 1],
         s[1].run # 0, s[2].run # s[1].run
  PROVE  /\ InPieces(s) => InPieces(t)
         /\ \A src : \A top \in Nat : InPieces(s) /\ UpTo(s, top, src) => UpTo(t, top, src)
         /\ \A top : (\A i \in DOMAIN s : s[i].run <= top) => \A i \in DOMAIN t : t[i].run <= top
  <1> DEFINE at(i) == IF i = 1 THEN 1 ELSE i + 1
  <1>0. Len(s) >= 2 /\ 1 \in DOMAIN s /\ 2 \in DOMAIN s /\ 1 \in DOMAIN t
    BY FrameSeq
  <1>1. \A i \in DOMAIN t : at(i) \in DOMAIN s /\ t[i] = s[at(i)] /\ i \in Nat
    BY FrameSeq
  <1>2. \A i, j \in DOMAIN t : i < j => at(i) < at(j)
    BY <1>1, FrameSeq
  <1>3. \A i, j \in DOMAIN t : j = i + 1 /\ i # 1 => at(j) = at(i) + 1
    BY <1>1, FrameSeq
  <1>4. ASSUME InPieces(s), 2 \in DOMAIN t, t[2].run # 0 PROVE t[1].run < t[2].run
    <2>1. 3 \in DOMAIN s /\ t[2] = s[3] /\ t[1] = s[1]
      BY <1>0, <1>4, FrameSeq, SMTT(30)
    <2>2. s[1].run \in Nat /\ s[2].run \in Nat /\ s[3].run \in Nat
      BY <1>0, <2>1, FrameSeq
    <2>3. CASE s[2].run = 0
      BY <1>0, <1>4, <2>1, <2>3 DEF InPieces
    <2>4. CASE s[2].run # 0
      <3>1. s[1].run <= s[2].run /\ s[2].run <= s[3].run
        BY <1>0, <1>4, <2>1, <2>4 DEF InPieces
      <3> QED
        BY <2>1, <2>2, <3>1
    <2> QED
      BY <2>3, <2>4
  <1>5. t[Len(t)] = s[Len(s)] \/ (t[Len(t)] = s[1] /\ Len(s) = 2)
    <2>1. Len(t) \in Nat /\ Len(t) # 0 /\ Len(t) \in DOMAIN t
      BY FrameSeq
    <2>2. CASE Len(t) > 1
      <3>1. t[Len(t)] = s[Len(t) + 1]
        BY <2>1, <2>2
      <3> QED
        BY <3>1
    <2>3. CASE Len(t) = 1
      BY <2>3
    <2>4. \A m \in Nat : m = 0 \/ m = 1 \/ m > 1
      OBVIOUS
    <2>5. Len(t) = 1 \/ Len(t) > 1
      BY <2>1, <2>4
    <2> QED
      BY <2>2, <2>3, <2>5
  <1>8. \A top : (\A i \in DOMAIN s : s[i].run <= top) => \A i \in DOMAIN t : t[i].run <= top
    BY <1>1
  <1> HIDE DEF at
  <1>6. InPieces(s) => InPieces(t)
    <2> SUFFICES ASSUME InPieces(s) PROVE InPieces(t)
      OBVIOUS
    <2>1. \A i, j \in DOMAIN t : i < j /\ t[i].run # 0 /\ t[j].run # 0 => t[i].run <= t[j].run
      BY <1>1, <1>2 DEF InPieces
    <2>2. \A i, j, k \in DOMAIN t : i < k /\ k < j /\ t[i].run # 0 /\ t[j].run # 0 /\ t[k].run = 0 =>
            t[i].run < t[j].run
      BY <1>1, <1>2 DEF InPieces
    <2>3. ASSUME NEW i \in DOMAIN t, NEW j \in DOMAIN t, j = i + 1, t[i].run = t[j].run, t[i].run # 0
          PROVE  Continues(t[i], t[j])
      <3>1. i # 1
        <4> SUFFICES ASSUME i = 1 PROVE FALSE
          OBVIOUS
        <4>1. j = 2 /\ t[1].run < t[2].run
          BY <1>4, <2>3
        <4>2. t[1].run \in Nat /\ t[2].run \in Nat
          BY <4>1, <1>0, <2>3, FrameSeq
        <4> QED
          BY <2>3, <4>1, <4>2
      <3>2. at(j) = at(i) + 1
        BY <1>3, <2>3, <3>1
      <3> QED
        BY <1>1, <2>3, <3>2 DEF InPieces
    <2> QED
      BY <2>1, <2>2, <2>3 DEF InPieces
  <1>7. ASSUME NEW src, NEW top \in Nat, UpTo(s, top, src), InPieces(s) PROVE UpTo(t, top, src)
    <2>1. \A i \in DOMAIN t : t[i].run <= top
      BY <1>1, <1>7 DEF UpTo
    <2>2. \A i, k \in DOMAIN t : i < k /\ t[i].run # 0 /\ t[k].run = 0 => t[i].run < top
      BY <1>1, <1>2, <1>7 DEF UpTo
    <2>3. CASE t[Len(t)] = s[Len(s)]
      <3>1. s # << >>
        BY <1>0
      <3> QED
        BY <1>7, <2>1, <2>2, <2>3, <3>1 DEF UpTo
    <2>4. CASE t[Len(t)] = s[1] /\ Len(s) = 2
      <3>1. s[1].run < top
        <4>1. s[1].run \in Nat /\ s[2].run \in Nat /\ s[2].run <= top
          BY <1>0, <1>7, FrameSeq DEF UpTo
        <4>2. CASE s[2].run = 0
          BY <1>0, <1>7, <4>2 DEF UpTo
        <4>3. CASE s[2].run # 0
          BY <1>0, <1>7, <4>1, <4>3 DEF InPieces
        <4> QED
          BY <4>2, <4>3
      <3> QED
        BY <2>1, <2>2, <2>4, <3>1 DEF UpTo
    <2> QED
      BY <1>5, <2>3, <2>4
  <1> QED
    BY <1>6, <1>7, <1>8

\* An acknowledgement, or the next delta of the run subscribed to, behind what is on its way.
LEMMA MorePieces ==
  ASSUME NEW s \in Seq(Frame), InPieces(s), NEW f \in Frame,
         f.run # 0 => /\ \A i \in DOMAIN s : s[i].run <= f.run
                      /\ \A i, k \in DOMAIN s : i < k /\ s[i].run # 0 /\ s[k].run = 0 => s[i].run < f.run
                      /\ s # << >> /\ s[Len(s)].run = f.run => Continues(s[Len(s)], f)
  PROVE  InPieces(Append(s, f))
  <1> DEFINE t == Append(s, f)
  <1>1. /\ DOMAIN t = 1 .. Len(s) + 1 /\ DOMAIN s = 1 .. Len(s) /\ Len(s) \in Nat
        /\ t[Len(s) + 1] = f /\ \A i \in DOMAIN s : t[i] = s[i]
    BY FrameSeq
  <1> HIDE DEF t
  <1>2. \A i \in DOMAIN t : i \in DOMAIN s \/ i = Len(s) + 1
    BY <1>1
  <1>3. \A i, j \in DOMAIN t : i < j => i \in DOMAIN s
    BY <1>1
  <1>4. \A i, j \in DOMAIN t : i < j /\ t[i].run # 0 /\ t[j].run # 0 => t[i].run <= t[j].run
    BY <1>1, <1>2, <1>3 DEF InPieces
  <1>5. \A i, j, k \in DOMAIN t : i < k /\ k < j /\ t[i].run # 0 /\ t[j].run # 0 /\ t[k].run = 0 =>
          t[i].run < t[j].run
    BY <1>1, <1>2, <1>3 DEF InPieces
  <1>6. ASSUME NEW i \in DOMAIN t, NEW j \in DOMAIN t, j = i + 1, t[i].run = t[j].run, t[i].run # 0
        PROVE  Continues(t[i], t[j])
    <2>1. i \in DOMAIN s /\ t[i] = s[i]
      BY <1>1, <1>6
    <2>2. CASE j \in DOMAIN s
      BY <1>1, <1>6, <2>1, <2>2 DEF InPieces
    <2>3. CASE j = Len(s) + 1
      <3>1. i = Len(s) /\ s # << >>
        BY <1>1, <1>6, <2>1, <2>3
      <3> QED
        BY <1>1, <1>6, <2>1, <2>3, <3>1
    <2> QED
      BY <1>2, <2>2, <2>3
  <1> QED
    BY <1>4, <1>5, <1>6 DEF InPieces, t

\* What Live!Ack, and no delta, is.
LEMMA AckFacts == Live!Ack \in Frame /\ Live!Ack.run = 0
  BY DEF Live!Ack, Frame, Live!None

\* What the invariant says of the active connection.
LEMMA ActiveFacts ==
  ASSUME PieceInv, SocketInv, client.active # 0
  PROVE  /\ client.active \in Live!Conns /\ down[client.active] \in Seq(Frame)
         /\ Incoming = Behind(watchPage.partial, down[client.active]) /\ Incoming \in Seq(Frame)
         /\ watchPage.partial \in Seq(Delta)
  <1>1. client.active \in Live!Conns /\ down[client.active] \in Seq(Frame) /\ watchPage.partial \in Seq(Delta)
    BY DEF PieceInv, AskingOK, ChannelsOK, ShownOK
  <1> QED
    BY <1>1, BehindFrames DEF Incoming

\* Where nothing is on its way nothing can be out of place.
LEMMA NothingFlows ==
  ASSUME Incoming = << >>
  PROVE  FlowOK
  BY DEF FlowOK, InPieces, UpTo

\* A delta that is published is the next of its run on the connection.
LEMMA PublishPieces ==
  ASSUME PieceInv, SocketInv, Live!Publish
  PROVE  PieceInv'
  <1>1. /\ source' = [source EXCEPT !.n = @ + 1]
        /\ down' = [c \in Live!Conns |-> IF hub[c] = source.run /\ conn[c] = "open"
                                         THEN Append(down[c], source') ELSE down[c]]
        /\ hub' = [c \in Live!Conns |-> IF hub[c] = source.run /\ conn[c] = "closed" THEN Live!Gone ELSE hub[c]]
        /\ UNCHANGED <<conn, up, client, watchPage>>
    BY DEF Live!Publish
  <1>2. /\ source.run \in Nat \ {0} /\ source.attempt \in Nat /\ source.n \in Nat
        /\ source' = [run |-> source.run, attempt |-> source.attempt, n |-> source.n + 1]
        /\ source' \in Delta /\ source' \in Frame
    BY <1>1 DEF PieceInv, SourceOK, Delta, Frame
  <1>3. source'.run = source.run /\ source'.attempt = source.attempt /\ source'.n = source.n + 1
    BY <1>2
  <1>4. SourceOK' /\ ShownOK' /\ AskingOK'
    <2>1. SourceOK'
      BY <1>1, <1>2, <1>3 DEF PieceInv, SourceOK
    <2> QED
      BY <1>1, <2>1 DEF PieceInv, ShownOK, AskingOK, Live!Conns
  <1>5. ASSUME NEW c \in Live!Conns
        PROVE  /\ down'[c] \in Seq(Frame)
               /\ \A i \in DOMAIN down'[c] : down'[c][i].run = 0 => down'[c][i] = Live!Ack
               /\ conn[c] # "open" => down'[c] = down[c]
               /\ conn[c] = "open" => hub'[c] = hub[c]
               /\ down'[c] = IF hub[c] = source.run /\ conn[c] = "open" THEN Append(down[c], source') ELSE down[c]
    <2>1. down[c] \in Seq(Frame) /\ \A i \in DOMAIN down[c] : down[c][i].run = 0 => down[c][i] = Live!Ack
      BY DEF PieceInv, ChannelsOK
    <2>2. down'[c] = IF hub[c] = source.run /\ conn[c] = "open" THEN Append(down[c], source') ELSE down[c]
      BY <1>1
    <2>3. conn[c] = "open" => hub'[c] = hub[c]
      BY <1>1
    <2>4. Append(down[c], source') \in Seq(Frame)
      BY <1>2, <2>1
    <2>5. \A i \in DOMAIN Append(down[c], source') :
            Append(down[c], source')[i] = source' \/ (i \in DOMAIN down[c] /\ Append(down[c], source')[i] = down[c][i])
      BY <2>1
    <2> QED
      BY <1>2, <1>3, <2>1, <2>2, <2>3, <2>4, <2>5
  <1>6. ChannelsOK'
    <2>1. DOMAIN hub' = Live!Conns /\ DOMAIN up' = Live!Conns /\ DOMAIN down' = Live!Conns
      BY <1>1 DEF PieceInv, ChannelsOK
    <2>2. ASSUME NEW c \in Live!Conns
          PROVE  /\ conn'[c] \in {"unused", "connecting"} => down'[c] = << >> /\ up'[c] = << >>
                 /\ conn'[c] = "open" => Subscribing(c)'
      <3>1. conn[c] = "open" => Subscribing(c)
        BY DEF PieceInv, ChannelsOK
      <3>2. conn[c] \in {"unused", "connecting"} => down[c] = << >> /\ up[c] = << >>
        BY DEF PieceInv, ChannelsOK
      <3>3. conn'[c] = "open" => Subscribing(c)'
        BY <1>1, <1>5, <3>1 DEF Subscribing
      <3> QED
        BY <1>1, <1>5, <3>2, <3>3
    <2> QED
      BY <1>5, <2>1, <2>2 DEF ChannelsOK, Live!Conns
  <1>7. FlowOK'
    <2>1. CASE client.active = 0
      BY <1>1, <2>1 DEF FlowOK, Incoming, InPieces
    <2>2. CASE client.active # 0
      <3> DEFINE a == client.active
      <3>1. /\ a \in Live!Conns /\ down[a] \in Seq(Frame) /\ watchPage.partial \in Seq(Delta)
            /\ Incoming = Behind(watchPage.partial, down[a]) /\ Incoming \in Seq(Frame)
        BY <2>2, ActiveFacts
      <3>2. Incoming' = Behind(watchPage.partial, down'[a])
        BY <1>1, <2>2 DEF Incoming
      <3>3. InPieces(Incoming) /\ \A i \in DOMAIN Incoming : Incoming[i].run <= source.run
        BY DEF PieceInv, FlowOK
      <3>4. CASE hub[a] = source.run /\ conn[a] = "open"
        <4>1. Incoming' = Append(Incoming, source')
          <5>1. down'[a] = Append(down[a], source')
            BY <1>5, <3>1, <3>4
          <5> HIDE DEF a
          <5> QED
            BY <1>2, <3>1, <3>2, <5>1, BehindMore, SMTT(30)
        <4>2. UpTo(Incoming, source.run, source)
          BY <2>2, <3>4 DEF PieceInv, FlowOK
        <4>3. Incoming # << >> /\ Incoming[Len(Incoming)].run = source.run => Continues(Incoming[Len(Incoming)], source')
          BY <1>2, <1>3, <4>2 DEF UpTo, Continues
        <4>4. InPieces(Incoming')
          BY <1>2, <1>3, <3>1, <3>3, <4>1, <4>2, <4>3, MorePieces DEF UpTo
        <4>5. /\ Len(Incoming') = Len(Incoming) + 1 /\ DOMAIN Incoming' = 1 .. Len(Incoming) + 1
              /\ Incoming'[Len(Incoming')] = source' /\ Len(Incoming) \in Nat
              /\ \A i \in DOMAIN Incoming : Incoming'[i] = Incoming[i]
              /\ DOMAIN Incoming = 1 .. Len(Incoming)
          BY <1>2, <3>1, <4>1, FrameSeq
        <4>6. \A i \in DOMAIN Incoming' : Incoming'[i].run <= source'.run
          BY <1>2, <1>3, <3>3, <4>5
        <4>7. \A i, k \in DOMAIN Incoming' : i < k /\ Incoming'[i].run # 0 /\ Incoming'[k].run = 0 =>
                Incoming'[i].run < source'.run
          <5>1. \A i, k \in DOMAIN Incoming' : i < k /\ Incoming'[k].run = 0 => i \in DOMAIN Incoming /\ k \in DOMAIN Incoming
            BY <1>2, <1>3, <4>5
          <5> QED
            BY <1>3, <4>2, <4>5, <5>1 DEF UpTo
        <4>8. hub'[a] = source'.run
          BY <1>3, <1>5, <3>1, <3>4
        <4>9. UpTo(Incoming', hub'[a], source')
          BY <4>5, <4>6, <4>7, <4>8 DEF UpTo
        <4> QED
          BY <1>1, <4>4, <4>6, <4>9 DEF FlowOK
      <3>5. CASE ~(hub[a] = source.run /\ conn[a] = "open")
        <4>1. Incoming' = Incoming
          BY <1>5, <3>1, <3>2, <3>5
        <4>2. conn[a] = "open" => UpTo(Incoming', hub'[a], source')
          <5> SUFFICES ASSUME conn[a] = "open" PROVE UpTo(Incoming', hub'[a], source')
            OBVIOUS
          <5>1. hub'[a] = hub[a] /\ hub[a] # source'.run
            BY <1>3, <1>5, <3>1, <3>5
          <5>2. UpTo(Incoming, hub[a], source)
            BY <2>2 DEF PieceInv, FlowOK
          <5> QED
            BY <4>1, <5>1, <5>2 DEF UpTo
        <4> QED
          BY <1>1, <1>3, <3>3, <4>1, <4>2 DEF FlowOK
      <3> QED
        BY <3>4, <3>5
    <2> QED
      BY <2>1, <2>2
  <1> QED
    BY <1>4, <1>6, <1>7 DEF PieceInv

\* What follows the first element.
LEMMA RestOf ==
  ASSUME NEW S, NEW s \in Seq(S), s # << >>
  PROVE  /\ Tail(s) \in Seq(S) /\ Head(s) = s[1] /\ 1 \in DOMAIN s /\ Len(s) = Len(Tail(s)) + 1
         /\ \A i \in DOMAIN Tail(s) : i \in Nat /\ 1 < i + 1 /\ i + 1 \in DOMAIN s /\ Tail(s)[i] = s[i + 1]
  OBVIOUS

\* A step of the source alone, which starts an attempt or a run.
LEMMA SourcePieces ==
  ASSUME PieceInv, SocketInv, Live!NextAttempt \/ Live!RunChanges
  PROVE  PieceInv'
  <1>1. /\ UNCHANGED <<conn, hub, up, down, client, watchPage>>
        /\ source' \in Delta /\ source'.n = 0
        /\ source'.run = source.run \/ source'.run = source.run + 1
    <2>1. CASE Live!NextAttempt
      <3>1. source' = [source EXCEPT !.attempt = @ + 1, !.n = 0]
        BY <2>1 DEF Live!NextAttempt
      <3>2. source' = [run |-> source.run, attempt |-> source.attempt + 1, n |-> 0]
        BY <3>1 DEF PieceInv, SourceOK, Delta
      <3> QED
        BY <2>1, <3>2 DEF PieceInv, SourceOK, Delta, Live!NextAttempt
    <2>2. CASE Live!RunChanges
      <3>1. source' = [run |-> source.run + 1, attempt |-> 1, n |-> 0]
        BY <2>2 DEF Live!RunChanges
      <3> QED
        BY <2>2, <3>1 DEF PieceInv, SourceOK, Delta, Live!RunChanges
    <2> QED
      BY <2>1, <2>2
  <1>2. source.run \in Nat /\ source'.run \in Nat /\ source.run <= source'.run
    BY <1>1 DEF PieceInv, SourceOK, Delta
  <1>3. SourceOK'
    BY <1>1, <1>2 DEF PieceInv, SourceOK
  <1>4. ShownOK' /\ AskingOK' /\ ChannelsOK'
    BY <1>1 DEF PieceInv, ShownOK, AskingOK, ChannelsOK, Subscribing, Live!Conns
  <1>5. Incoming' = Incoming
    BY <1>1 DEF Incoming
  <1>6. client.active # 0 => Incoming \in Seq(Frame)
    BY ActiveFacts
  <1>7. \A i \in DOMAIN Incoming : Incoming[i].run <= source'.run
    <2>1. CASE client.active = 0
      BY <2>1 DEF Incoming
    <2>2. CASE client.active # 0
      <3>1. \A i \in DOMAIN Incoming : Incoming[i].run \in Nat
        BY <1>6, <2>2, FrameSeq
      <3> QED
        BY <1>2, <3>1 DEF PieceInv, FlowOK
    <2> QED
      BY <2>1, <2>2
  <1>8. \A top : UpTo(Incoming, top, source) => UpTo(Incoming, top, source')
    BY <1>1 DEF UpTo
  <1>9. FlowOK'
    BY <1>1, <1>5, <1>7, <1>8 DEF PieceInv, FlowOK
  <1> QED
    BY <1>3, <1>4, <1>9 DEF PieceInv

\* The hub reads a subscription: its run is later than that of every frame on its way.
LEMMA ReceivePieces ==
  ASSUME PieceInv, SocketInv, NEW c \in Live!Conns, Live!HubReceives(c)
  PROVE  PieceInv'
  <1>1. /\ up[c] # << >> /\ conn[c] = "open"
        /\ hub' = [hub EXCEPT ![c] = Head(up[c])] /\ up' = [up EXCEPT ![c] = Tail(@)]
        /\ down' = [down EXCEPT ![c] = Append(@, Live!Ack)]
        /\ UNCHANGED <<source, conn, client, watchPage>>
    BY DEF Live!HubReceives, Live!onMessage
  <1>2. c = client.active /\ client.active # 0
    BY <1>1, NoneIsNoSocket DEF SocketInv
  <1>3. /\ c \in DOMAIN hub /\ c \in DOMAIN up /\ c \in DOMAIN down /\ Subscribing(c) /\ down[c] \in Seq(Frame)
        /\ \A i \in DOMAIN down[c] : down[c][i].run = 0 => down[c][i] = Live!Ack
    BY <1>1 DEF PieceInv, ChannelsOK
  <1>4. /\ hub'[c] = Head(up[c]) /\ up'[c] = Tail(up[c]) /\ down'[c] = Append(down[c], Live!Ack)
        /\ \A d \in Live!Conns : d # c => hub'[d] = hub[d] /\ up'[d] = up[d] /\ down'[d] = down[d]
    BY <1>1, <1>3 DEF PieceInv, ChannelsOK
  <1>5. hub'[c] \in Nat /\ hub[c] \in Nat /\ hub[c] < hub'[c]
    <2>1. up[c] \in Seq(Nat) /\ hub[c] \in Nat /\ \A i \in DOMAIN up[c] : hub[c] < up[c][i]
      BY <1>3 DEF Subscribing
    <2>2. Head(up[c]) = up[c][1] /\ 1 \in DOMAIN up[c] /\ up[c][1] \in Nat
      BY <1>1, <2>1
    <2> QED
      BY <1>4, <2>1, <2>2
  <1>6. Subscribing(c)'
    <2>1. /\ up[c] \in Seq(Nat) /\ \A i \in DOMAIN up[c] : up[c][i] <= client.desired
          /\ \A i, j \in DOMAIN up[c] : i < j => up[c][i] < up[c][j]
      BY <1>3 DEF Subscribing
    <2>2. /\ up'[c] \in Seq(Nat) /\ Head(up[c]) = up[c][1] /\ 1 \in DOMAIN up[c]
          /\ \A i \in DOMAIN up'[c] : i \in Nat /\ 1 < i + 1 /\ i + 1 \in DOMAIN up[c] /\ up'[c][i] = up[c][i + 1]
      <3> DEFINE u == up[c]
      <3>1. u \in Seq(Nat) /\ u # << >> /\ up'[c] = Tail(u)
        BY <1>1, <1>4, <2>1
      <3> HIDE DEF u
      <3>2. /\ Tail(u) \in Seq(Nat) /\ Head(u) = u[1] /\ 1 \in DOMAIN u
            /\ \A i \in DOMAIN Tail(u) : i \in Nat /\ 1 < i + 1 /\ i + 1 \in DOMAIN u /\ Tail(u)[i] = u[i + 1]
        BY <3>1, RestOf
      <3> QED
        BY <3>1, <3>2 DEF u
    <2>3. \A i \in DOMAIN up'[c] : hub'[c] < up'[c][i] /\ up'[c][i] <= client.desired
      BY <1>4, <2>1, <2>2
    <2>4. \A i, j \in DOMAIN up'[c] : i < j => up'[c][i] < up'[c][j]
      <3>1. \A i, j \in DOMAIN up'[c] : i < j => i + 1 < j + 1
        BY <2>2
      <3> QED
        BY <2>1, <2>2, <3>1
    <2>5. hub'[c] <= client.desired
      BY <1>4, <2>1, <2>2
    <2> QED
      BY <1>1, <1>5, <2>2, <2>3, <2>4, <2>5 DEF Subscribing
  <1>7. /\ down'[c] \in Seq(Frame) /\ \A i \in DOMAIN down'[c] : down'[c][i].run = 0 => down'[c][i] = Live!Ack
    <2>1. \A i \in DOMAIN Append(down[c], Live!Ack) :
            \/ Append(down[c], Live!Ack)[i] = Live!Ack
            \/ i \in DOMAIN down[c] /\ Append(down[c], Live!Ack)[i] = down[c][i]
      BY <1>3
    <2>2. Append(down[c], Live!Ack) \in Seq(Frame)
      BY <1>3, AckFacts
    <2> QED
      BY <1>3, <1>4, <2>1, <2>2
  <1>8. ChannelsOK'
    <2>1. DOMAIN hub' = Live!Conns /\ DOMAIN up' = Live!Conns /\ DOMAIN down' = Live!Conns
      BY <1>1 DEF PieceInv, ChannelsOK
    <2>2. ASSUME NEW d \in Live!Conns
          PROVE  /\ down'[d] \in Seq(Frame)
                 /\ \A i \in DOMAIN down'[d] : down'[d][i].run = 0 => down'[d][i] = Live!Ack
                 /\ conn'[d] \in {"unused", "connecting"} => down'[d] = << >> /\ up'[d] = << >>
                 /\ conn'[d] = "open" => Subscribing(d)'
      <3>1. CASE d = c
        BY <1>1, <1>6, <1>7, <3>1
      <3>2. CASE d # c
        BY <1>1, <1>4, <3>2 DEF PieceInv, ChannelsOK, Subscribing
      <3> QED
        BY <3>1, <3>2
    <2> QED
      BY <2>1, <2>2 DEF ChannelsOK, Live!Conns
  <1>9. FlowOK'
    <2>1. /\ watchPage.partial \in Seq(Delta) /\ Incoming \in Seq(Frame)
          /\ Incoming = Behind(watchPage.partial, down[c])
      BY <1>2, ActiveFacts
    <2>2. Incoming' = Append(Incoming, Live!Ack)
      <3>1. Incoming' = Behind(watchPage.partial, down'[c])
        BY <1>1, <1>2 DEF Incoming
      <3> QED
        BY <1>3, <1>4, <2>1, <3>1, BehindMore, AckFacts
    <2>3. InPieces(Incoming) /\ UpTo(Incoming, hub[c], source) /\ \A i \in DOMAIN Incoming : Incoming[i].run <= source.run
      BY <1>1, <1>2 DEF PieceInv, FlowOK
    <2>4. InPieces(Incoming')
      BY <2>1, <2>2, <2>3, AckFacts, MorePieces
    <2>5. /\ Len(Incoming') = Len(Incoming) + 1 /\ DOMAIN Incoming' = 1 .. Len(Incoming) + 1
          /\ Incoming'[Len(Incoming')] = Live!Ack /\ Len(Incoming) \in Nat
          /\ \A i \in DOMAIN Incoming : Incoming'[i] = Incoming[i] /\ Incoming[i].run \in Nat
          /\ DOMAIN Incoming = 1 .. Len(Incoming)
      BY <2>1, <2>2, FrameSeq, AckFacts
    <2>6. source.run \in Nat /\ source.run # 0
      BY DEF PieceInv, SourceOK, Delta
    <2>7. \A i \in DOMAIN Incoming' : Incoming'[i].run <= source'.run
      BY <1>1, <2>3, <2>5, <2>6, AckFacts
    <2>8. \A i \in DOMAIN Incoming : Incoming[i].run < hub'[c]
      BY <1>5, <2>3, <2>5 DEF UpTo
    <2>9. UpTo(Incoming', hub'[c], source')
      <3>1. \A i \in DOMAIN Incoming' : Incoming'[i].run <= hub'[c]
        BY <1>5, <2>5, <2>8, AckFacts
      <3>2. \A i, k \in DOMAIN Incoming' : i < k => i \in DOMAIN Incoming
        BY <2>5
      <3>3. \A i, k \in DOMAIN Incoming' : i < k /\ Incoming'[i].run # 0 /\ Incoming'[k].run = 0 =>
              Incoming'[i].run < hub'[c]
        BY <2>5, <2>8, <3>2
      <3> QED
        BY <1>1, <2>5, <2>6, <3>1, <3>3, AckFacts DEF UpTo
    <2> QED
      BY <1>1, <1>2, <2>4, <2>7, <2>9 DEF FlowOK
  <1>10. SourceOK' /\ ShownOK' /\ AskingOK'
    BY <1>1 DEF PieceInv, SourceOK, ShownOK, AskingOK, Live!Conns
  <1> QED
    BY <1>8, <1>9, <1>10 DEF PieceInv

\* A socket that breaks, and a hub that hears of it.
LEMMA ClosingPieces ==
  ASSUME PieceInv, SocketInv, NEW c \in Live!Conns, Live!SocketBreaks(c) \/ Live!HubDrops(c)
  PROVE  PieceInv'
  <1>1. /\ UNCHANGED <<source, up, down, client, watchPage>> /\ DOMAIN hub' = DOMAIN hub
        /\ \A d \in Live!Conns : /\ conn'[d] = conn[d] \/ conn'[d] = "closed"
                                 /\ conn'[d] = "open" => hub'[d] = hub[d]
    <2>1. CASE Live!SocketBreaks(c)
      BY <2>1 DEF Live!SocketBreaks, SocketInv
    <2>2. CASE Live!HubDrops(c)
      BY <2>2 DEF Live!HubDrops, PieceInv, ChannelsOK
    <2> QED
      BY <2>1, <2>2
  <1>2. SourceOK' /\ ShownOK' /\ AskingOK'
    BY <1>1 DEF PieceInv, SourceOK, ShownOK, AskingOK, Live!Conns
  <1>3. ChannelsOK'
    <2>1. ASSUME NEW d \in Live!Conns
          PROVE  /\ conn'[d] \in {"unused", "connecting"} => down'[d] = << >> /\ up'[d] = << >>
                 /\ conn'[d] = "open" => Subscribing(d)'
      BY <1>1 DEF PieceInv, ChannelsOK, Subscribing
    <2> QED
      BY <1>1, <2>1 DEF PieceInv, ChannelsOK, Live!Conns
  <1>4. FlowOK'
    <2>1. Incoming' = Incoming
      BY <1>1 DEF Incoming
    <2>2. client.active # 0 => client.active \in Live!Conns
      BY ActiveFacts
    <2> QED
      BY <1>1, <2>1, <2>2 DEF PieceInv, FlowOK
  <1> QED
    BY <1>2, <1>3, <1>4 DEF PieceInv

\* There is a first among the unused connections.
LEMMA FreshConn ==
  ASSUME Live!Fresh # {}
  PROVE  Live!NextConn \in Live!Fresh
  <1>1. Live!Fresh \subseteq Nat
    BY StreamBounds DEF Live!Fresh, Live!Conns
  <1>2. \E c \in Live!Fresh : \A d \in Live!Fresh : c <= d
    BY <1>1, LeastNatural
  <1> QED
    BY <1>2 DEF Live!NextConn

\* The page shows no text of the run it is on, and may have heard of a newer run.
Cleared ==
  /\ watchPage' = [known |-> watchPage'.known, selected |-> watchPage'.selected,
                   partial |-> watchPage'.partial, selects |-> watchPage'.selects]
  /\ watchPage'.partial = << >> /\ watchPage'.known \in watchPage.known .. source.run
  /\ UNCHANGED <<source, hub, down>>

\* Without text there is nothing that could be of the wrong run.
LEMMA ClearedFacts ==
  ASSUME PieceInv, SocketInv, Cleared
  PROVE  /\ SourceOK' /\ ShownOK' /\ watchPage.known <= watchPage'.known
         /\ watchPage.known \in Nat /\ watchPage'.known \in Nat
  <1>1. source.run \in Nat /\ watchPage.known \in 1 .. source.run
    BY DEF PieceInv, SourceOK, Delta
  <1>2. SourceOK'
    BY <1>1 DEF Cleared, PieceInv, SourceOK
  <1>3. watchPage'.partial \in Seq(Delta) /\ Piece(watchPage'.partial, watchPage'.selected)
    BY DEF Cleared, Piece
  <1> QED
    BY <1>1, <1>2, <1>3 DEF Cleared, ShownOK

\* A connection that stays, or ends, keeps its frames; a new one has none.
LEMMA ClearedFlow ==
  ASSUME PieceInv, SocketInv, Cleared,
         client'.active # client.active => client'.active = 0 \/ down[client'.active] = << >>,
         client'.active = client.active /\ client.active # 0 /\ conn'[client.active] = "open" =>
           conn[client.active] = "open"
  PROVE  FlowOK'
  <1>1. CASE client'.active = 0 \/ (client'.active # 0 /\ down[client'.active] = << >>)
    <2>1. Incoming' = << >>
      BY <1>1 DEF Cleared, Incoming, Behind
    <2> QED
      BY <2>1 DEF FlowOK, InPieces, UpTo
  <1>2. CASE client'.active # 0 /\ client'.active = client.active
    <2> DEFINE a == client.active
               p == watchPage.partial
    <2>1. /\ a \in Live!Conns /\ down[a] \in Seq(Frame) /\ p \in Seq(Delta)
          /\ Incoming = Behind(p, down[a]) /\ Incoming \in Seq(Frame)
      BY <1>2, ActiveFacts
    <2>2. Incoming' = down[a]
      BY <1>2 DEF Cleared, Incoming, Behind
    <2>3. InPieces(Incoming) /\ \A i \in DOMAIN Incoming : Incoming[i].run <= source.run
      BY DEF PieceInv, FlowOK
    <2>4. conn[a] = "open" => UpTo(Incoming, hub[a], source) /\ hub[a] \in Nat
      BY <1>2, <2>1 DEF PieceInv, FlowOK, ChannelsOK, Subscribing
    <2>5. /\ InPieces(down[a]) /\ \A i \in DOMAIN down[a] : down[a][i].run <= source.run
          /\ conn[a] = "open" => UpTo(down[a], hub[a], source)
      <3>1. CASE p = << >>
        BY <2>1, <2>3, <2>4, <3>1 DEF Behind
      <3>2. CASE p # << >>
        <4> HIDE DEF p, a
        <4>1. Len(Incoming) = Len(down[a]) + 1 /\ \A i \in 2 .. Len(down[a]) + 1 : Incoming[i] = down[a][i - 1]
          BY <2>1, <3>2, BehindFrames
        <4>2. \A i \in DOMAIN down[a] : down[a][i] = Incoming[i + 1]
          <5>1. \A i \in DOMAIN down[a] : i \in Nat /\ i + 1 \in 2 .. Len(down[a]) + 1 /\ (i + 1) - 1 = i
            BY <2>1, FrameSeq
          <5> QED
            BY <4>1, <5>1
        <4> QED
          BY <2>1, <2>3, <2>4, <4>1, <4>2, WithoutFirst
      <3> QED
        BY <3>1, <3>2
    <2> QED
      BY <1>2, <2>2, <2>5 DEF FlowOK, Cleared
  <1> QED
    BY <1>1, <1>2

\* The client stays as it is.
LEMMA ClearedAlone ==
  ASSUME PieceInv, SocketInv, Cleared, UNCHANGED <<client, conn, up>>
  PROVE  PieceInv'
  <1>1. SourceOK' /\ ShownOK' /\ FlowOK'
    BY ClearedFacts, ClearedFlow
  <1>2. AskingOK'
    BY ClearedFacts DEF PieceInv, AskingOK, Live!Conns
  <1>3. ChannelsOK'
    BY DEF Cleared, PieceInv, ChannelsOK, Subscribing, Live!Conns
  <1> QED
    BY <1>1, <1>2, <1>3 DEF PieceInv

\* The client ends its subscription.
LEMMA UnsubscribePieces ==
  ASSUME PieceInv, SocketInv, Cleared, Live!unsubscribe
  PROVE  PieceInv'
  <1>1. /\ client' = [client EXCEPT !.desired = 0, !.timer = FALSE, !.active = 0, !.sock = 0]
        /\ conn' = IF client.sock = 0 THEN conn ELSE [conn EXCEPT ![client.sock] = "closed"]
        /\ up' = up
    BY NoneIsNoSocket DEF Live!unsubscribe
  <1>2. /\ client'.sock = 0 /\ client'.active = 0 /\ ~client'.timer /\ client'.desired = 0
        /\ client'.torn = client.torn
    BY <1>1 DEF SocketInv
  <1>3. \A d \in Live!Conns : conn'[d] = conn[d] \/ conn'[d] = "closed"
    BY <1>1 DEF SocketInv
  <1>4. \A d \in Live!Conns : conn'[d] # "open"
    BY <1>1, NoneIsNoSocket DEF SocketInv
  <1>5. AskingOK'
    BY <1>2, <1>3, ClearedFacts DEF PieceInv, AskingOK, Live!Conns
  <1>6. ChannelsOK'
    BY <1>1, <1>3, <1>4 DEF Cleared, PieceInv, ChannelsOK, Live!Conns
  <1> QED
    BY <1>2, <1>5, <1>6, ClearedFacts, ClearedFlow DEF PieceInv

\* A fresh connection becomes the client's.
LEMMA ConnectPieces ==
  ASSUME PieceInv, SocketInv, Cleared, Live!Fresh # {}, client.active = 0, NEW d,
         client' = Live!Connected([client EXCEPT !.desired = d]), d \in 1 .. watchPage'.known,
         conn' = [conn EXCEPT ![Live!NextConn] = "connecting"], up' = up
  PROVE  PieceInv'
  <1> DEFINE n == Live!NextConn
  <1>1. n \in Live!Conns /\ conn[n] = "unused"
    BY FreshConn DEF Live!Fresh
  <1>2. /\ client'.sock = n /\ client'.active = n /\ client'.timer = FALSE
        /\ client'.desired = d /\ client'.torn = client.torn
    BY DEF SocketInv, Live!Connected
  <1> HIDE DEF n
  <1>3. /\ conn'[n] = "connecting" /\ \A c \in Live!Conns : c # n => conn'[c] = conn[c]
    BY <1>1 DEF SocketInv, n
  <1>4. down[n] = << >> /\ up[n] = << >>
    BY <1>1 DEF PieceInv, ChannelsOK
  <1>5. n # 0
    BY <1>1, NoneIsNoSocket
  <1>6. \A c \in Live!Conns : conn'[c] # "open"
    BY <1>3, NoneIsNoSocket DEF SocketInv
  <1>7. AskingOK'
    <2>1. n \notin client.torn
      BY <1>1 DEF PieceInv, AskingOK
    <2> QED
      BY <1>1, <1>2, <1>3, <2>1, ClearedFacts DEF PieceInv, AskingOK, Live!Conns
  <1>8. ChannelsOK'
    BY <1>3, <1>4, <1>6 DEF Cleared, PieceInv, ChannelsOK, Live!Conns
  <1>9. FlowOK'
    BY <1>2, <1>4, <1>5, ClearedFlow
  <1> QED
    BY <1>7, <1>8, <1>9, ClearedFacts DEF PieceInv

\* A greater number behind increasing ones.
LEMMA LaterLast ==
  ASSUME NEW u \in Seq(Nat), NEW lo \in Nat, NEW hi \in Nat, NEW last \in Nat, hi < last, lo <= hi,
         \A i \in DOMAIN u : lo < u[i] /\ u[i] <= hi,
         \A i, j \in DOMAIN u : i < j => u[i] < u[j]
  PROVE  /\ Append(u, last) \in Seq(Nat)
         /\ \A i \in DOMAIN Append(u, last) : lo < Append(u, last)[i] /\ Append(u, last)[i] <= last
         /\ \A i, j \in DOMAIN Append(u, last) : i < j => Append(u, last)[i] < Append(u, last)[j]
  <1> DEFINE v == Append(u, last)
  <1>1. /\ v \in Seq(Nat) /\ DOMAIN v = 1 .. Len(u) + 1 /\ DOMAIN u = 1 .. Len(u)
        /\ Len(u) \in Nat /\ v[Len(u) + 1] = last
        /\ \A i \in DOMAIN u : v[i] = u[i] /\ u[i] \in Nat
    OBVIOUS
  <1> HIDE DEF v
  <1>2. \A i \in DOMAIN v : i \in DOMAIN u \/ i = Len(u) + 1
    BY <1>1
  <1>3. \A i, j \in DOMAIN v : i < j => i \in DOMAIN u
    BY <1>1
  <1>4. \A i \in DOMAIN u : lo < v[i] /\ v[i] < last
    BY <1>1
  <1>5. \A i \in DOMAIN v : lo < v[i] /\ v[i] <= last
    BY <1>1, <1>2, <1>4
  <1>6. \A i, j \in DOMAIN v : i < j => v[i] < v[j]
    BY <1>1, <1>2, <1>3, <1>4
  <1> QED
    BY <1>1, <1>5, <1>6 DEF v

\* The client moves its subscription to a run later than any it asked for.
LEMMA SubscribePieces ==
  ASSUME PieceInv, SocketInv, Cleared, NEW run \in Nat, client.desired < run, run <= watchPage'.known,
         Live!subscribe(run)
  PROVE  PieceInv'
  <1> DEFINE cl == [client EXCEPT !.desired = run]
  <1>0. /\ cl.sock = client.sock /\ cl.active = client.active /\ cl.timer = client.timer
        /\ cl.desired = run /\ cl.torn = client.torn
    BY DEF SocketInv
  <1>r. run \in 1 .. watchPage'.known /\ watchPage'.known \in Nat /\ client.desired \in Nat /\ run \in 0 .. watchPage'.known
    BY ClearedFacts DEF PieceInv, AskingOK
  <1>1. CASE client.sock # 0
    <2>0. PICK a : a = client.sock
      OBVIOUS
    <2>1. client' = cl /\ Live!Send(cl)
      BY <1>1, NoneIsNoSocket DEF Live!subscribe
    <2>2. a = client.active /\ a \in Live!Conns
      BY <1>1, <2>0, ActiveFacts DEF SocketInv
    <2> HIDE DEF cl
    <2>3. /\ up' = IF conn[a] = "open" THEN [up EXCEPT ![a] = Append(@, run)] ELSE up
          /\ conn' = IF conn[a] = "connecting" THEN [conn EXCEPT ![a] = "closed"] ELSE conn
      BY <1>0, <2>0, <2>1 DEF Live!Send
    <2>4. /\ client'.sock = a /\ client'.active = a /\ client'.timer = client.timer
          /\ client'.desired = run /\ client'.torn = client.torn
      BY <1>0, <2>0, <2>1, <2>2
    <2>5. /\ \A d \in Live!Conns : conn'[d] = conn[d] \/ conn'[d] = "closed"
          /\ DOMAIN up' = Live!Conns /\ \A d \in Live!Conns : d # a => up'[d] = up[d]
          /\ conn[a] = "open" => up'[a] = Append(up[a], run)
          /\ conn[a] # "open" => up'[a] = up[a]
          /\ \A d \in Live!Conns : conn'[d] = "open" => d = a /\ conn[a] = "open"
      BY <2>0, <2>2, <2>3 DEF SocketInv, PieceInv, ChannelsOK
    <2>6. AskingOK'
      BY <1>1, <1>r, <2>0, <2>2, <2>4, <2>5 DEF PieceInv, AskingOK, Live!Conns
    <2>7. conn'[a] = "open" => Subscribing(a)'
      <3> SUFFICES ASSUME conn'[a] = "open" PROVE Subscribing(a)'
        OBVIOUS
      <3> DEFINE u == up[a]
      <3>1. Subscribing(a) /\ up'[a] = Append(u, run) /\ hub' = hub
        BY <2>2, <2>5 DEF PieceInv, ChannelsOK, Cleared
      <3>2. u \in Seq(Nat) /\ \A i \in DOMAIN u : hub[a] < u[i] /\ u[i] <= client.desired /\ u[i] \in Nat
        BY <3>1 DEF Subscribing
      <3>3. hub[a] \in Nat /\ hub[a] <= client.desired /\ \A i, j \in DOMAIN u : i < j => u[i] < u[j]
        BY <3>1 DEF Subscribing
      <3> HIDE DEF u
      <3>4. /\ Append(u, run) \in Seq(Nat) /\ \A i \in DOMAIN Append(u, run) : hub[a] < Append(u, run)[i] /\ Append(u, run)[i] <= run
            /\ \A i, j \in DOMAIN Append(u, run) : i < j => Append(u, run)[i] < Append(u, run)[j]
        BY <1>r, <3>2, <3>3, LaterLast
      <3>5. hub[a] <= run
        BY <1>r, <3>3
      <3> QED
        BY <2>4, <3>1, <3>3, <3>4, <3>5 DEF Subscribing
    <2>8. ChannelsOK'
      <3>1. ASSUME NEW d \in Live!Conns
            PROVE  /\ down'[d] \in Seq(Frame)
                   /\ \A i \in DOMAIN down'[d] : down'[d][i].run = 0 => down'[d][i] = Live!Ack
                   /\ conn'[d] \in {"unused", "connecting"} => down'[d] = << >> /\ up'[d] = << >>
                   /\ conn'[d] = "open" => Subscribing(d)'
        <4>1. down'[d] \in Seq(Frame) /\ \A i \in DOMAIN down'[d] : down'[d][i].run = 0 => down'[d][i] = Live!Ack
          BY DEF PieceInv, ChannelsOK, Cleared, Live!Ack, Live!None
        <4>2. conn'[d] \in {"unused", "connecting"} => down'[d] = << >> /\ up'[d] = << >>
          <5>1. conn[d] \in {"unused", "connecting"} => down[d] = << >> /\ up[d] = << >>
            BY DEF PieceInv, ChannelsOK
          <5>2. conn'[d] \in {"unused", "connecting"} => conn[d] = conn'[d] /\ up'[d] = up[d] /\ down'[d] = down[d]
            BY <2>5 DEF Cleared
          <5> QED
            BY <5>1, <5>2
        <4>3. conn'[d] = "open" => Subscribing(d)'
          BY <2>5, <2>7
        <4> QED
          BY <4>1, <4>2, <4>3
      <3>2. DOMAIN hub' = Live!Conns /\ DOMAIN up' = Live!Conns /\ DOMAIN down' = Live!Conns
        BY <2>5 DEF PieceInv, ChannelsOK, Cleared
      <3> QED
        BY <3>1, <3>2 DEF ChannelsOK, Live!Conns
    <2>9. FlowOK'
      BY <2>0, <2>2, <2>4, <2>5, ClearedFlow
    <2> QED
      BY <2>6, <2>8, <2>9, ClearedFacts DEF PieceInv
  <1>2. CASE client.sock = 0 /\ client.timer
    <2>1. client' = cl /\ UNCHANGED <<up, conn>>
      BY <1>2, NoneIsNoSocket DEF Live!subscribe
    <2> HIDE DEF cl
    <2>2. /\ client'.sock = 0 /\ client'.active = 0 /\ client.active = 0 /\ client'.timer = client.timer
          /\ client'.desired = run /\ client'.torn = client.torn
      BY <1>0, <1>2, <2>1 DEF SocketInv
    <2>3. AskingOK'
      BY <1>r, <2>1, <2>2 DEF PieceInv, AskingOK, Live!Conns
    <2>4. ChannelsOK'
      <3>1. \A d \in Live!Conns : conn[d] # "open"
        BY <1>2, NoneIsNoSocket DEF SocketInv
      <3> QED
        BY <2>1, <3>1 DEF Cleared, PieceInv, ChannelsOK, Live!Conns
    <2>5. FlowOK'
      BY <2>2, ClearedFlow
    <2> QED
      BY <2>3, <2>4, <2>5, ClearedFacts DEF PieceInv
  <1>3. CASE client.sock = 0 /\ ~client.timer
    <2>1. /\ Live!Fresh # {} /\ client' = Live!Connected(cl)
          /\ conn' = [conn EXCEPT ![Live!NextConn] = "connecting"] /\ up' = up
      BY <1>3, NoneIsNoSocket DEF Live!subscribe
    <2>2. client.active = 0
      BY <1>3 DEF SocketInv
    <2> QED
      BY <1>r, <2>1, <2>2, ConnectPieces
  <1> QED
    BY <1>1, <1>2, <1>3 DEF SocketInv

\* The operator's selections, and the polls of the run list.
LEMMA SelectPieces ==
  ASSUME PieceInv, SocketInv,
         (\E run \in Live!StreamRuns : Live!SelectRun(run)) \/ Live!FollowSubmitted \/ Live!RunListPolled
         \/ Live!TurnCompleted
  PROVE  PieceInv'
  <1>0. /\ watchPage = [known |-> watchPage.known, selected |-> watchPage.selected,
                        partial |-> watchPage.partial, selects |-> watchPage.selects]
        /\ source.run \in Nat /\ watchPage.known \in 1 .. source.run /\ client.desired \in 0 .. watchPage.known
    BY DEF PieceInv, ShownOK, SourceOK, Delta, AskingOK
  <1>k. watchPage.known \in watchPage.known .. source.run /\ source.run \in watchPage.known .. source.run
    BY <1>0
  <1>1. ASSUME NEW run \in Live!StreamRuns, Live!SelectRun(run)
        PROVE  PieceInv'
    <2>1. run \in Nat
      BY StreamBounds DEF Live!StreamRuns
    <2>2. /\ watchPage' = [watchPage EXCEPT !.selected = run, !.partial = << >>, !.selects = @ - 1]
          /\ UNCHANGED <<source, hub, down>>
      BY <1>1 DEF Live!SelectRun, Live!resetRunView
    <2>3. Cleared /\ watchPage'.known = watchPage.known
      <3>1. watchPage' = [known |-> watchPage.known, selected |-> run, partial |-> << >>,
                          selects |-> watchPage.selects - 1]
        BY <1>0, <2>2
      <3> QED
        BY <1>k, <2>2, <3>1 DEF Cleared
    <2> DEFINE same == UNCHANGED <<client, conn, up>>
    <2>4. (Live!Live(run) /\ client.desired # run /\ Live!subscribe(run)) \/ Live!unsubscribe \/ same
      BY <1>1, Zenon DEF Live!SelectRun
    <2>5. CASE Live!Live(run) /\ client.desired # run /\ Live!subscribe(run)
      <3>1. run = watchPage.known /\ client.desired < run
        BY <1>0, <2>5 DEF Live!Live
      <3>2. run <= watchPage'.known
        BY <2>1, <2>3, <3>1
      <3> QED
        BY <2>1, <2>3, <2>5, <3>1, <3>2, SubscribePieces
    <2>6. CASE Live!unsubscribe
      BY <2>3, <2>6, UnsubscribePieces
    <2>7. CASE same
      BY <2>3, <2>7, ClearedAlone
    <2> HIDE DEF same
    <2> QED
      BY <2>4, <2>5, <2>6, <2>7
  <1>2. CASE Live!FollowSubmitted
    <2>1. /\ watchPage' = [[watchPage EXCEPT !.selected = source.run, !.partial = << >>, !.selects = @ - 1]
                            EXCEPT !.known = source.run]
          /\ UNCHANGED <<source, hub, down>> /\ Live!subscribe(source.run) /\ watchPage.known # source.run
      BY <1>2 DEF Live!FollowSubmitted, Live!resetRunView
    <2>2. Cleared /\ watchPage'.known = source.run
      <3>1. watchPage' = [known |-> source.run, selected |-> source.run, partial |-> << >>,
                          selects |-> watchPage.selects - 1]
        BY <1>0, <2>1
      <3> QED
        BY <1>k, <2>1, <3>1 DEF Cleared
    <2>3. client.desired < source.run /\ source.run <= watchPage'.known
      BY <1>0, <2>1, <2>2
    <2> QED
      BY <1>0, <2>1, <2>2, <2>3, SubscribePieces
  <1>3. CASE Live!RunListPolled
    <2>1. /\ watchPage' = [watchPage EXCEPT !.known = source.run, !.partial = << >>]
          /\ UNCHANGED <<source, hub, down>>
      BY <1>3 DEF Live!RunListPolled
    <2>2. Cleared
      <3>1. watchPage' = [known |-> source.run, selected |-> watchPage.selected, partial |-> << >>,
                          selects |-> watchPage.selects]
        BY <1>0, <2>1
      <3> QED
        BY <1>k, <2>1, <3>1 DEF Cleared
    <2> DEFINE same == UNCHANGED <<client, conn, up>>
    <2>3. Live!unsubscribe \/ same
      BY <1>3, Zenon DEF Live!RunListPolled
    <2>4. CASE same
      BY <2>2, <2>4, ClearedAlone
    <2> HIDE DEF same
    <2> QED
      BY <2>2, <2>3, <2>4, UnsubscribePieces
  <1>4. CASE Live!TurnCompleted
    <2>1. watchPage' = [watchPage EXCEPT !.partial = << >>] /\ UNCHANGED <<source, conn, hub, up, down, client>>
      BY <1>4 DEF Live!TurnCompleted
    <2>2. Cleared
      <3>1. watchPage' = [known |-> watchPage.known, selected |-> watchPage.selected, partial |-> << >>,
                          selects |-> watchPage.selects]
        BY <1>0, <2>1
      <3> QED
        BY <1>k, <2>1, <3>1 DEF Cleared
    <2> QED
      BY <2>1, <2>2, ClearedAlone
  <1> QED
    BY <1>1, <1>2, <1>3, <1>4

\* A socket that opens subscribes; one that was replaced is closed.
LEMMA OpenPieces ==
  ASSUME PieceInv, SocketInv, NEW c \in Live!Conns, Live!finishOpen(c)
  PROVE  PieceInv'
  <1>1. /\ conn[c] = "connecting" /\ hub' = [hub EXCEPT ![c] = 0] /\ UNCHANGED <<source, down>>
        /\ down[c] = << >> /\ up[c] = << >> /\ c # 0 /\ DOMAIN hub' = Live!Conns /\ hub'[c] = 0
        /\ \A d \in Live!Conns : d # c => hub'[d] = hub[d]
    BY NoneIsNoSocket DEF Live!finishOpen, PieceInv, ChannelsOK
  <1>2. CASE client.active # c
    <2>1. conn' = [conn EXCEPT ![c] = "closed"] /\ client' = [client EXCEPT !.torn = @ \cup {c}] /\ UNCHANGED <<up, watchPage>>
      BY <1>2 DEF Live!finishOpen
    <2>2. /\ client'.sock = client.sock /\ client'.active = client.active /\ client'.timer = client.timer
          /\ client'.desired = client.desired /\ client'.torn = client.torn \cup {c}
      BY <2>1 DEF SocketInv
    <2>3. conn'[c] = "closed" /\ \A d \in Live!Conns : d # c => conn'[d] = conn[d]
      BY <2>1 DEF SocketInv
    <2>4. SourceOK' /\ ShownOK'
      BY <1>1, <2>1, <2>2 DEF PieceInv, SourceOK, ShownOK
    <2>5. AskingOK'
      BY <1>2, <2>1, <2>2, <2>3 DEF PieceInv, AskingOK, Live!Conns
    <2>6. ChannelsOK'
      BY <1>1, <2>1, <2>2, <2>3 DEF PieceInv, ChannelsOK, Subscribing, Live!Conns
    <2>7. FlowOK'
      <3>1. Incoming' = Incoming
        BY <1>1, <2>1, <2>2 DEF Incoming
      <3>2. client.active # 0 => client.active \in Live!Conns
        BY ActiveFacts
      <3> QED
        BY <1>1, <1>2, <2>1, <2>2, <2>3, <3>1, <3>2 DEF PieceInv, FlowOK
    <2> QED
      BY <2>4, <2>5, <2>6, <2>7 DEF PieceInv
  <1>3. CASE client.active = c
    <2>1. /\ conn' = [conn EXCEPT ![c] = "open"] /\ up' = [up EXCEPT ![c] = Append(@, client.desired)]
          /\ client' = [client EXCEPT !.sock = c] /\ watchPage' = [watchPage EXCEPT !.partial = << >>]
      BY <1>3 DEF Live!finishOpen
    <2>2. client' = client
      BY <1>3, <2>1 DEF SocketInv
    <2>3. conn'[c] = "open" /\ \A d \in Live!Conns : d # c => conn'[d] = conn[d] /\ conn[d] # "open"
      BY <1>1, <1>3, <2>1 DEF SocketInv
    <2>4. /\ DOMAIN up' = Live!Conns /\ up'[c] = <<client.desired>> /\ \A d \in Live!Conns : d # c => up'[d] = up[d]
      BY <1>1, <2>1 DEF PieceInv, ChannelsOK
    <2>5. /\ watchPage' = [known |-> watchPage.known, selected |-> watchPage.selected, partial |-> << >>,
                           selects |-> watchPage.selects]
      BY <2>1 DEF PieceInv, ShownOK
    <2>6. client.desired \in 1 .. watchPage.known /\ watchPage.known \in 1 .. source.run /\ source.run \in Nat
      BY <1>1, <1>3 DEF PieceInv, AskingOK, SourceOK, Delta
    <2>7. SourceOK' /\ ShownOK'
      <3>1. << >> \in Seq(Delta) /\ Piece(<< >>, watchPage.selected)
        BY DEF Piece
      <3> QED
        BY <1>1, <2>2, <2>5, <3>1 DEF PieceInv, SourceOK, ShownOK
    <2>8. AskingOK'
      <3>1. c \notin client.torn
        BY <1>1, <1>3 DEF PieceInv, AskingOK
      <3> QED
        BY <2>2, <2>3, <2>5, <3>1 DEF PieceInv, AskingOK, Live!Conns
    <2>9. Subscribing(c)'
      <3>1. /\ <<client.desired>> \in Seq(Nat) /\ DOMAIN <<client.desired>> = {1}
            /\ <<client.desired>>[1] = client.desired /\ client.desired \in Nat /\ 0 < client.desired
        BY <2>6
      <3> QED
        BY <1>1, <2>2, <2>4, <3>1 DEF Subscribing
    <2>10. ChannelsOK'
      <3>1. ASSUME NEW d \in Live!Conns
            PROVE  /\ conn'[d] \in {"unused", "connecting"} => down'[d] = << >> /\ up'[d] = << >>
                   /\ conn'[d] = "open" => Subscribing(d)'
        <4>1. CASE d = c
          BY <2>3, <2>9, <4>1
        <4>2. CASE d # c
          BY <1>1, <2>3, <2>4, <4>2 DEF PieceInv, ChannelsOK
        <4> QED
          BY <4>1, <4>2
      <3>2. ASSUME NEW d \in Live!Conns
            PROVE  down'[d] \in Seq(Frame) /\ \A i \in DOMAIN down'[d] : down'[d][i].run = 0 => down'[d][i] = Live!Ack
        BY <1>1 DEF PieceInv, ChannelsOK, Live!Ack, Live!None
      <3>3. DOMAIN hub' = Live!Conns /\ DOMAIN up' = Live!Conns /\ DOMAIN down' = Live!Conns
        BY <1>1, <2>4 DEF PieceInv, ChannelsOK
      <3> QED
        BY <3>1, <3>2, <3>3 DEF ChannelsOK, Live!Conns
    <2>11. FlowOK'
      <3>1. Incoming' = << >>
        BY <1>1, <1>3, <2>2, <2>5 DEF Incoming, Behind
      <3> QED
        BY <3>1 DEF FlowOK, InPieces, UpTo
    <2> QED
      BY <2>7, <2>8, <2>10, <2>11 DEF PieceInv
  <1> QED
    BY <1>2, <1>3

\* A connection that ended takes the text shown with it.
LEMMA DownPieces ==
  ASSUME PieceInv, SocketInv, NEW c \in Live!Conns, Live!SocketDown(c)
  PROVE  PieceInv'
  <1> DEFINE cl == [client EXCEPT !.torn = @ \cup {c}]
             waits == client.desired # 0
  <1>0. /\ cl.sock = client.sock /\ cl.active = client.active /\ cl.timer = client.timer
        /\ cl.desired = client.desired /\ cl.torn = client.torn \cup {c}
        /\ cl = [sock |-> cl.sock, active |-> cl.active, desired |-> cl.desired,
                 timer |-> cl.timer, torn |-> cl.torn]
    BY DEF SocketInv
  <1>1. /\ conn[c] = "closed" /\ UNCHANGED <<source, conn, hub, up, down>>
        /\ \/ /\ client.active = c
              /\ client' = [cl EXCEPT !.active = Live!None, !.sock = Live!None,
                                      !.timer = client.desired # Live!None]
              /\ watchPage' = [watchPage EXCEPT !.partial = << >>]
           \/ /\ client.active # c /\ client' = cl /\ watchPage' = watchPage
    BY DEF Live!SocketDown, Live!markDown
  <1> HIDE DEF cl
  <1>2. CASE client.active # c /\ client' = cl /\ watchPage' = watchPage
    <2>1. SourceOK' /\ ShownOK'
      BY <1>0, <1>1, <1>2 DEF PieceInv, SourceOK, ShownOK
    <2>2. AskingOK'
      BY <1>0, <1>1, <1>2 DEF PieceInv, AskingOK, Live!Conns
    <2>3. ChannelsOK'
      BY <1>0, <1>1, <1>2 DEF PieceInv, ChannelsOK, Subscribing, Live!Conns
    <2>4. FlowOK'
      <3>1. Incoming' = Incoming
        BY <1>0, <1>1, <1>2 DEF Incoming
      <3> QED
        BY <1>0, <1>1, <1>2, <3>1 DEF PieceInv, FlowOK
    <2> QED
      BY <2>1, <2>2, <2>3, <2>4 DEF PieceInv
  <1>3. CASE /\ client.active = c
             /\ client' = [cl EXCEPT !.active = Live!None, !.sock = Live!None, !.timer = client.desired # Live!None]
             /\ watchPage' = [watchPage EXCEPT !.partial = << >>]
    <2>1. client' = [cl EXCEPT !.active = 0, !.sock = 0, !.timer = waits]
      BY <1>3, NoneIsNoSocket
    <2>2. waits <=> client.desired # 0
      OBVIOUS
    <2> HIDE DEF waits
    <2>3. /\ client'.sock = 0 /\ client'.active = 0 /\ client'.timer = waits
          /\ client'.desired = client.desired /\ client'.torn = client.torn \cup {c}
      BY <1>0, <2>1
    <2>4. Cleared /\ watchPage'.known = watchPage.known
      <3>1. watchPage' = [known |-> watchPage.known, selected |-> watchPage.selected, partial |-> << >>,
                          selects |-> watchPage.selects]
        BY <1>3 DEF PieceInv, ShownOK
      <3>2. watchPage.known \in watchPage.known .. source.run
        BY DEF PieceInv, SourceOK, Delta
      <3> QED
        BY <1>1, <3>1, <3>2 DEF Cleared
    <2>5. AskingOK'
      <3>1. client.desired \in 1 .. watchPage.known
        BY <1>3, NoneIsNoSocket DEF PieceInv, AskingOK
      <3> QED
        BY <1>1, <2>3, <2>4, <3>1 DEF PieceInv, AskingOK, Live!Conns
    <2>6. ChannelsOK'
      <3>1. \A d \in Live!Conns : conn'[d] # "open"
        BY <1>1, <1>3 DEF SocketInv
      <3> QED
        BY <1>1, <3>1 DEF PieceInv, ChannelsOK, Live!Conns
    <2>7. FlowOK'
      BY <2>3, <2>4, ClearedFlow
    <2> QED
      BY <2>4, <2>5, <2>6, <2>7, ClearedFacts DEF PieceInv
  <1> QED
    BY <1>1, <1>2, <1>3

\* The reconnect timer connects anew.
LEMMA ReconnectPieces ==
  ASSUME PieceInv, SocketInv, Live!ReconnectTimer
  PROVE  PieceInv'
  <1>1. /\ client.timer /\ Live!Fresh # {} /\ client' = Live!Connected(client)
        /\ conn' = [conn EXCEPT ![Live!NextConn] = "connecting"]
        /\ UNCHANGED <<source, hub, up, down, watchPage>>
    BY DEF Live!ReconnectTimer
  <1>2. client.active = 0 /\ client.sock = 0
    BY <1>1 DEF SocketInv
  <1>3. Cleared /\ watchPage'.known = watchPage.known
    <2>1. watchPage.known \in watchPage.known .. source.run
      BY DEF PieceInv, SourceOK, Delta
    <2> QED
      BY <1>1, <1>2, <2>1 DEF Cleared, PieceInv, ShownOK
  <1>4. client.desired \in 1 .. watchPage'.known
    BY <1>1, <1>3 DEF PieceInv, AskingOK
  <1>5. [client EXCEPT !.desired = client.desired] = client
    BY DEF SocketInv
  <1> QED
    BY <1>1, <1>2, <1>3, <1>4, <1>5, ConnectPieces

\* The text with the delta that continues it, which is its last one.
LEMMA JoinPiece ==
  ASSUME NEW p \in Seq(Delta), NEW run, Piece(p, run), NEW d \in Delta, d.run = run,
         p # << >> => Continues(p[Len(p)], d)
  PROVE  LET q == Live!nextLivePartial(p, d)
         IN  q \in Seq(Delta) /\ Piece(q, run) /\ q # << >> /\ q[Len(q)] = d
  <1> DEFINE q == Live!nextLivePartial(p, d)
  <1>0. d.n \in Nat
    BY DEF Delta
  <1>1. CASE d.n = 1
    <2>1. q = <<d>>
      BY <1>1 DEF Live!nextLivePartial
    <2> HIDE DEF q, Delta
    <2>2. q \in Seq(Delta) /\ q # << >> /\ q[Len(q)] = d /\ DOMAIN q = {1} /\ q[1] = d
      BY <2>1
    <2> QED
      BY <1>0, <2>2 DEF Piece, q
  <1>2. CASE d.n # 1
    <2>1. q = Append(p, d)
      BY <1>2 DEF Live!nextLivePartial
    <2> HIDE DEF q
    <2>2. \A e \in Delta : e.n \in Nat
      BY DEF Delta
    <2> HIDE DEF Delta
    <2>3. /\ q \in Seq(Delta) /\ q # << >> /\ q[Len(q)] = d /\ DOMAIN q = 1 .. Len(p) + 1 /\ DOMAIN p = 1 .. Len(p)
          /\ Len(p) \in Nat /\ q[Len(p) + 1] = d /\ \A i \in DOMAIN p : q[i] = p[i] /\ p[i] \in Delta
      BY <2>1
    <2>4. \A i \in DOMAIN q : i \in DOMAIN p \/ i = Len(p) + 1
      BY <2>3
    <2>5. CASE p = << >>
      <3>1. DOMAIN q = {1} /\ q[1] = d
        BY <2>3, <2>5
      <3> QED
        BY <1>0, <2>3, <3>1 DEF Piece, q
    <2>6. CASE p # << >>
      <3>1. Len(p) \in DOMAIN p /\ 1 \in DOMAIN p /\ q[1] = p[1] /\ p[1].n \in Nat
        BY <2>2, <2>3, <2>6
      <3>2. d.attempt = p[1].attempt /\ d.n = p[1].n + Len(p)
        <4>1. p[Len(p)].attempt = p[1].attempt /\ p[Len(p)].n = p[1].n + Len(p) - 1
          BY <3>1 DEF Piece
        <4>2. d.attempt = p[Len(p)].attempt /\ d.n = p[Len(p)].n + 1
          BY <1>2, <2>6 DEF Continues
        <4> QED
          BY <2>3, <3>1, <4>1, <4>2
      <3>3. \A i \in DOMAIN q : q[i].run = run /\ q[i].attempt = q[1].attempt /\ q[i].n = q[1].n + i - 1
        <4>1. ASSUME NEW i \in DOMAIN p
              PROVE  q[i].run = run /\ q[i].attempt = q[1].attempt /\ q[i].n = q[1].n + i - 1
          BY <2>3, <3>1 DEF Piece
        <4>2. q[Len(p) + 1].n = q[1].n + (Len(p) + 1) - 1
          BY <2>3, <3>1, <3>2
        <4> QED
          BY <2>3, <2>4, <3>1, <3>2, <4>1, <4>2
      <3> QED
        BY <2>3, <3>3 DEF Piece, q
    <2> QED
      BY <2>5, <2>6
  <1> QED
    BY <1>1, <1>2

\* A frame that joins the text shown, or is dropped because it is of another run, an
\* acknowledgement, or of a connection that was replaced.
LEMMA FramePieces ==
  ASSUME PieceInv, SocketInv, NEW c \in Live!Conns, Live!FrameArrives(c)
  PROVE  PieceInv'
  <1>0. PICK p, s, d, sel : p = watchPage.partial /\ s = down[c] /\ d = Head(down[c]) /\ sel = watchPage.selected
    OBVIOUS
  <1> DEFINE joins == c \notin client.torn /\ client.active = c /\ d # Live!Ack /\ d.run = sel
  <1>1. /\ s # << >> /\ down' = [down EXCEPT ![c] = Tail(@)] /\ UNCHANGED <<source, conn, hub, up, client>>
        /\ joins => watchPage' = [watchPage EXCEPT !.partial = Live!nextLivePartial(@, d)]
        /\ ~joins => watchPage' = watchPage
    BY <1>0 DEF Live!FrameArrives, Live!GotLiveDelta
  <1>2. /\ s \in Seq(Frame) /\ \A i \in DOMAIN s : s[i].run = 0 => s[i] = Live!Ack
        /\ DOMAIN down' = Live!Conns /\ down'[c] = Tail(s) /\ \A e \in Live!Conns : e # c => down'[e] = down[e]
    BY <1>0, <1>1 DEF PieceInv, ChannelsOK
  <1>3. /\ Tail(s) \in Seq(Frame) /\ d = s[1] /\ 1 \in DOMAIN s /\ Len(s) = Len(Tail(s)) + 1
        /\ \A i \in DOMAIN Tail(s) : i \in Nat /\ 1 < i + 1 /\ i + 1 \in DOMAIN s /\ Tail(s)[i] = s[i + 1]
    BY <1>0, <1>1, <1>2, RestOf
  <1>4. PICK t : t = Tail(s)
    OBVIOUS
  <1>5. /\ watchPage = [known |-> watchPage.known, selected |-> sel, partial |-> p, selects |-> watchPage.selects]
        /\ p \in Seq(Delta) /\ Piece(p, sel) /\ (client.active = 0 => p = << >>)
    BY <1>0 DEF PieceInv, ShownOK
  <1>6. PICK q : q = watchPage'.partial
    OBVIOUS
  <1>7. /\ watchPage' = [known |-> watchPage.known, selected |-> sel, partial |-> q, selects |-> watchPage.selects]
        /\ joins => q = Live!nextLivePartial(p, d)
        /\ ~joins => q = p
    <2>1. CASE joins
      <3>1. PICK x : x = Live!nextLivePartial(p, d)
        OBVIOUS
      <3>2. watchPage' = [watchPage EXCEPT !.partial = x]
        BY <1>0, <1>1, <2>1, <3>1
      <3> QED
        BY <1>5, <1>6, <2>1, <3>1, <3>2
    <2>2. CASE ~joins
      BY <1>1, <1>5, <1>6, <2>2
    <2> QED
      BY <2>1, <2>2
  <1>8. /\ watchPage'.known = watchPage.known /\ watchPage'.selected = sel /\ watchPage'.partial = q
        /\ watchPage'.selects = watchPage.selects
    BY <1>7
  <1>9. SourceOK' /\ AskingOK'
    BY <1>1, <1>8 DEF PieceInv, SourceOK, AskingOK, Live!Conns
  <1>10. ChannelsOK'
    <2>1. ASSUME NEW e \in Live!Conns
          PROVE  /\ down'[e] \in Seq(Frame)
                 /\ \A i \in DOMAIN down'[e] : down'[e][i].run = 0 => down'[e][i] = Live!Ack
                 /\ conn'[e] \in {"unused", "connecting"} => down'[e] = << >> /\ up'[e] = << >>
      <3>1. CASE e = c
        <4>1. \A i \in DOMAIN t : t[i].run = 0 => t[i] = Live!Ack
          BY <1>2, <1>3, <1>4
        <4>2. conn[c] \notin {"unused", "connecting"}
          BY <1>0, <1>1 DEF PieceInv, ChannelsOK
        <4> QED
          BY <1>1, <1>2, <1>3, <1>4, <3>1, <4>1, <4>2
      <3>2. CASE e # c
        BY <1>1, <1>2, <3>2 DEF PieceInv, ChannelsOK, Live!Ack, Live!None
      <3> QED
        BY <3>1, <3>2
    <2>2. \A e \in Live!Conns : conn'[e] = "open" => Subscribing(e)'
      BY <1>1 DEF PieceInv, ChannelsOK, Subscribing
    <2>3. DOMAIN hub' = Live!Conns /\ DOMAIN up' = Live!Conns
      BY <1>1 DEF PieceInv, ChannelsOK
    <2> QED
      BY <1>2, <2>1, <2>2, <2>3 DEF ChannelsOK, Live!Conns
  <1>11. Incoming = IF client.active = 0 THEN << >> ELSE Behind(p, down[client.active])
    BY <1>0 DEF Incoming
  <1>12. Incoming' = IF client.active = 0 THEN << >> ELSE Behind(q, down'[client.active])
    BY <1>1, <1>8 DEF Incoming
  <1>13. c # 0 /\ (client.active # 0 => client.active \in Live!Conns)
    BY NoneIsNoSocket, ActiveFacts
  \* What an unchanged flow, or one without its first or second frame, leaves.
  <1>14. ASSUME NEW new, new = Incoming',
                InPieces(Incoming) => InPieces(new),
                \A src : \A top \in Nat : InPieces(Incoming) /\ UpTo(Incoming, top, src) => UpTo(new, top, src),
                \A top : (\A i \in DOMAIN Incoming : Incoming[i].run <= top) => \A i \in DOMAIN new : new[i].run <= top
         PROVE  FlowOK'
    <2>1. InPieces(Incoming) /\ \A i \in DOMAIN Incoming : Incoming[i].run <= source.run
      BY DEF PieceInv, FlowOK
    <2>2. client.active # 0 /\ conn[client.active] = "open" => UpTo(Incoming, hub[client.active], source) /\ hub[client.active] \in Nat
      BY <1>13 DEF PieceInv, FlowOK, ChannelsOK, Subscribing
    <2>3. InPieces(new) /\ \A i \in DOMAIN new : new[i].run <= source.run
      BY <1>14, <2>1
    <2>4. client.active # 0 /\ conn[client.active] = "open" => UpTo(new, hub[client.active], source)
      BY <1>14, <2>1, <2>2
    <2> QED
      BY <1>1, <1>14, <2>3, <2>4 DEF FlowOK
  <1>15. CASE client.active # c
    <2>1. ~joins /\ q = p
      BY <1>7, <1>15
    <2>2. Incoming' = Incoming
      BY <1>2, <1>11, <1>12, <1>13, <1>15, <2>1
    <2>3. FlowOK'
      BY <1>14, <2>2
    <2>4. ShownOK'
      BY <1>1, <1>5, <1>7, <2>1 DEF ShownOK
    <2> QED
      BY <1>9, <1>10, <2>3, <2>4 DEF PieceInv
  <1>16. CASE client.active = c /\ ~joins
    <2>1. q = p /\ Incoming = Behind(p, s) /\ Incoming' = Behind(p, t)
      BY <1>0, <1>2, <1>4, <1>7, <1>11, <1>12, <1>13, <1>16
    <2>2. ShownOK'
      BY <1>1, <1>5, <1>7, <2>1 DEF ShownOK
    <2>3. CASE p = << >>
      <3>1. Incoming = s /\ Incoming' = t
        BY <2>1, <2>3 DEF Behind
      <3>2. /\ InPieces(s) => InPieces(t)
            /\ \A src : \A top \in Nat : UpTo(s, top, src) => UpTo(t, top, src)
            /\ \A top : (\A i \in DOMAIN s : s[i].run <= top) => \A i \in DOMAIN t : t[i].run <= top
        BY <1>2, <1>3, <1>4, WithoutFirst
      <3>3. \A src : \A top \in Nat : InPieces(s) /\ UpTo(s, top, src) => UpTo(t, top, src)
        BY <3>2
      <3>4. FlowOK'
        BY <1>14, <3>1, <3>2, <3>3
      <3> QED
        BY <1>9, <1>10, <2>2, <3>4 DEF PieceInv
    <2>4. CASE p # << >>
      <3>1. /\ Len(Behind(p, s)) = Len(s) + 1 /\ Behind(p, s) \in Seq(Frame)
            /\ Behind(p, s)[1] = p[Len(p)] /\ p[Len(p)] \in Delta
            /\ \A i \in 2 .. Len(s) + 1 : Behind(p, s)[i] = s[i - 1]
        BY <1>2, <1>5, <2>4, BehindFrames
      <3>2. /\ Len(Behind(p, t)) = Len(t) + 1 /\ Behind(p, t) \in Seq(Frame)
            /\ Behind(p, t)[1] = p[Len(p)]
            /\ \A i \in 2 .. Len(t) + 1 : Behind(p, t)[i] = t[i - 1]
        BY <1>3, <1>4, <1>5, <2>4, BehindFrames
      <3>3. p[Len(p)].run = sel /\ p[Len(p)].run # 0
        <4>1. Len(p) \in DOMAIN p
          BY <1>5, <2>4
        <4> QED
          BY <1>5, <3>1, <4>1, DeltaIsFrame DEF Piece
      <3>4. c \notin client.torn
        BY <1>13, <1>16 DEF PieceInv, AskingOK
      <3>5. d.run # sel
        BY <1>16, <3>3, <3>4, AckFacts
      <3> DEFINE old == Behind(p, s)
                 new == Behind(p, t)
      <3>6. /\ old \in Seq(Frame) /\ new \in Seq(Frame) /\ Len(old) = Len(new) + 1
            /\ new[1] = old[1] /\ old[1].run # 0
        BY <1>3, <1>4, <3>1, <3>2, <3>3
      <3>7. old[2].run # old[1].run
        <4>1. 2 \in 2 .. Len(s) + 1 /\ 2 - 1 = 1
          BY <1>2, <1>3, FrameSeq
        <4>2. old[2] = s[1]
          BY <3>1, <4>1
        <4> QED
          BY <1>3, <3>1, <3>3, <3>5, <4>2
      <3>8. \A i \in DOMAIN new : i > 1 => new[i] = old[i + 1]
        <4> SUFFICES ASSUME NEW i \in DOMAIN new, i > 1 PROVE new[i] = old[i + 1]
          OBVIOUS
        <4>1. t \in Seq(Frame) /\ DOMAIN t = 1 .. Len(t) /\ Len(t) \in Nat /\ Len(s) = Len(t) + 1
          BY <1>3, <1>4, FrameSeq
        <4>2. DOMAIN new = 1 .. Len(t) + 1
          BY <3>2, FrameSeq
        <4> HIDE DEF new, old
        <4>3. i \in 2 .. Len(t) + 1 /\ i - 1 \in DOMAIN t /\ i + 1 \in 2 .. Len(s) + 1 /\ (i + 1) - 1 = i /\ (i - 1) + 1 = i
          BY <4>1, <4>2
        <4>4. new[i] = t[i - 1] /\ old[i + 1] = s[i]
          BY <3>1, <3>2, <4>3 DEF new, old
        <4>5. t[i - 1] = s[i]
          BY <1>3, <1>4, <4>3
        <4> QED
          BY <4>4, <4>5
      <3>9. new # << >>
        <4>1. Len(new) = Len(t) + 1 /\ Len(t) \in Nat
          BY <1>3, <1>4, <3>2, FrameSeq
        <4> HIDE DEF new
        <4>2. Len(new) # 0
          BY <4>1
        <4> QED
          BY <4>2
      <3> HIDE DEF new, old
      <3>10. /\ InPieces(old) => InPieces(new)
             /\ \A src : \A top \in Nat : InPieces(old) /\ UpTo(old, top, src) => UpTo(new, top, src)
             /\ \A top : (\A i \in DOMAIN old : old[i].run <= top) => \A i \in DOMAIN new : new[i].run <= top
        BY <3>6, <3>7, <3>8, <3>9, WithoutSecond
      <3>11. Incoming = old /\ Incoming' = new
        BY <2>1 DEF old, new
      <3>12. FlowOK'
        BY <1>14, <3>10, <3>11
      <3> QED
        BY <1>9, <1>10, <2>2, <3>12 DEF PieceInv
    <2> QED
      BY <2>3, <2>4
  <1>17. CASE joins
    <2>1. client.active = c /\ d.run = sel /\ q = Live!nextLivePartial(p, d)
      BY <1>7, <1>17
    <2>2. d \in Delta
      <3>1. d \in Frame /\ d.run # 0
        <4> HIDE DEF Frame
        <4> QED
          BY <1>2, <1>3, <1>17
      <3> QED
        BY <3>1, DeltaIsFrame
    <2>3. Incoming = Behind(p, s) /\ Incoming' = Behind(q, t)
      BY <1>0, <1>2, <1>4, <1>8, <1>11, <1>12, <1>13, <2>1
    <2>4. p # << >> => Continues(p[Len(p)], d)
      <3> SUFFICES ASSUME p # << >> PROVE Continues(p[Len(p)], d)
        OBVIOUS
      <3>1. /\ Len(Behind(p, s)) = Len(s) + 1 /\ Behind(p, s) \in Seq(Frame)
            /\ Behind(p, s)[1] = p[Len(p)]
            /\ \A i \in 2 .. Len(s) + 1 : Behind(p, s)[i] = s[i - 1]
        BY <1>2, <1>5, BehindFrames
      <3>2. 2 \in 2 .. Len(s) + 1 /\ 2 - 1 = 1 /\ Len(s) \in Nat
        BY <1>2, <1>3, FrameSeq
      <3>3. Behind(p, s)[2] = d
        BY <1>3, <3>1, <3>2
      <3>4. 1 \in DOMAIN Behind(p, s) /\ 2 \in DOMAIN Behind(p, s)
        BY <3>1, <3>2, FrameSeq
      <3>5. Len(p) \in DOMAIN p
        BY <1>5
      <3>6. p[Len(p)].run = d.run
        BY <1>5, <2>1, <3>5 DEF Piece
      <3>7. d.run # 0
        BY <2>2, DeltaIsFrame
      <3>8. InPieces(Behind(p, s))
        BY <2>3 DEF PieceInv, FlowOK
      <3> DEFINE w == Behind(p, s)
      <3> HIDE DEF w
      <3>9. w[1] = p[Len(p)] /\ w[2] = d /\ 1 \in DOMAIN w /\ 2 \in DOMAIN w /\ InPieces(w)
        BY <3>1, <3>3, <3>4, <3>8 DEF w
      <3>10. \A i, j \in DOMAIN w : j = i + 1 /\ w[i].run = w[j].run /\ w[i].run # 0 => Continues(w[i], w[j])
        BY <3>9 DEF InPieces
      <3>11. 2 = 1 + 1
        OBVIOUS
      <3>12. Continues(w[1], w[2])
        BY <3>6, <3>7, <3>9, <3>10, <3>11
      <3> QED
        BY <3>9, <3>12
    <2>5. q \in Seq(Delta) /\ Piece(q, sel) /\ q # << >> /\ q[Len(q)] = d
      <3>1. LET x == Live!nextLivePartial(p, d)
            IN  x \in Seq(Delta) /\ Piece(x, sel) /\ x # << >> /\ x[Len(x)] = d
        BY <1>5, <2>1, <2>2, <2>4, JoinPiece
      <3> QED
        BY <2>1, <3>1
    <2>6. Incoming' = s
      <3>1. s = <<s[1]>> \o Tail(s)
        BY <1>1, <1>2
      <3> QED
        BY <1>3, <1>4, <2>3, <2>5, <3>1 DEF Behind
    <2>7. ShownOK'
      BY <1>1, <1>7, <1>8, <1>13, <2>1, <2>5 DEF ShownOK
    <2>8. FlowOK'
      <3>1. CASE p = << >>
        <4>1. Incoming = s
          BY <2>3, <3>1 DEF Behind
        <4> QED
          BY <1>14, <2>6, <4>1
      <3>2. CASE p # << >>
        <4>1. Behind(p, s) \in Seq(Frame) /\ Len(Behind(p, s)) = Len(s) + 1 /\ \A i \in 2 .. Len(s) + 1 : Behind(p, s)[i] = s[i - 1]
          BY <1>2, <1>5, <3>2, BehindFrames
        <4>2. \A i \in DOMAIN s : s[i] = Behind(p, s)[i + 1]
          <5>1. \A i \in DOMAIN s : i \in Nat /\ i + 1 \in 2 .. Len(s) + 1 /\ (i + 1) - 1 = i
            BY <1>2, FrameSeq
          <5> QED
            BY <4>1, <5>1
        <4>3. PICK w : w = Behind(p, s)
          OBVIOUS
        <4>4. w \in Seq(Frame) /\ Len(w) = Len(s) + 1 /\ \A i \in DOMAIN s : s[i] = w[i + 1]
          BY <4>1, <4>2, <4>3
        <4>5. /\ InPieces(w) => InPieces(s)
              /\ \A src : \A top \in Nat : UpTo(w, top, src) => UpTo(s, top, src)
              /\ \A top : (\A i \in DOMAIN w : w[i].run <= top) => \A i \in DOMAIN s : s[i].run <= top
          BY <1>2, <4>4, WithoutFirst
        <4>6. Incoming = w
          BY <2>3, <4>3
        <4> QED
          BY <1>14, <2>6, <4>5, <4>6
      <3> QED
        BY <3>1, <3>2
    <2> QED
      BY <1>9, <1>10, <2>7, <2>8 DEF PieceInv
  <1> QED
    BY <1>15, <1>16, <1>17

\* Frames that are lost were of a connection that is closed.
LEMMA LostPieces ==
  ASSUME PieceInv, SocketInv, NEW c \in Live!Conns, Live!FramesLost(c)
  PROVE  PieceInv'
  <1>1. /\ conn[c] = "closed" /\ down' = [down EXCEPT ![c] = << >>]
        /\ UNCHANGED <<source, conn, hub, up, client, watchPage>>
    BY DEF Live!FramesLost
  <1>2. DOMAIN down' = Live!Conns /\ down'[c] = << >> /\ \A e \in Live!Conns : e # c => down'[e] = down[e]
    BY <1>1 DEF PieceInv, ChannelsOK
  <1>3. SourceOK' /\ ShownOK' /\ AskingOK'
    BY <1>1 DEF PieceInv, SourceOK, ShownOK, AskingOK, Live!Conns
  <1>4. ChannelsOK'
    <2>1. ASSUME NEW e \in Live!Conns
          PROVE  /\ down'[e] \in Seq(Frame)
                 /\ \A i \in DOMAIN down'[e] : down'[e][i].run = 0 => down'[e][i] = Live!Ack
                 /\ conn'[e] \in {"unused", "connecting"} => down'[e] = << >> /\ up'[e] = << >>
      <3>1. CASE e = c
        BY <1>1, <1>2, <3>1 DEF PieceInv, ChannelsOK
      <3>2. CASE e # c
        BY <1>1, <1>2, <3>2 DEF PieceInv, ChannelsOK, Live!Ack, Live!None
      <3> QED
        BY <3>1, <3>2
    <2>2. \A e \in Live!Conns : conn'[e] = "open" => Subscribing(e)'
      BY <1>1 DEF PieceInv, ChannelsOK, Subscribing
    <2> QED
      BY <1>1, <1>2, <2>1, <2>2 DEF PieceInv, ChannelsOK, Live!Conns
  <1>5. FlowOK'
    <2>1. CASE client.active # c
      <3>1. Incoming' = Incoming
        BY <1>1, <1>2, <2>1, ActiveFacts DEF Incoming
      <3> QED
        BY <1>1, <3>1 DEF PieceInv, FlowOK
    <2>2. CASE client.active = c
      <3>1. c # 0
        BY NoneIsNoSocket
      <3>2. PICK p : p = watchPage.partial
        OBVIOUS
      <3>3. Incoming' = Behind(p, << >>)
        BY <1>1, <1>2, <2>2, <3>1, <3>2 DEF Incoming
      <3>4. CASE p = << >>
        <4>1. Incoming' = << >>
          BY <3>3, <3>4 DEF Behind
        <4> QED
          BY <4>1 DEF FlowOK, InPieces, UpTo
      <3>5. CASE p # << >>
        <4>1. p \in Seq(Delta) /\ down[c] \in Seq(Frame) /\ Incoming = Behind(p, down[c]) /\ Incoming \in Seq(Frame)
          BY <2>2, <3>1, <3>2, ActiveFacts
        <4>2. Incoming[1] = p[Len(p)] /\ Len(Incoming) = Len(down[c]) + 1
          BY <3>5, <4>1, BehindFrames
        <4>3. 1 \in DOMAIN Incoming
          BY <4>1, <4>2, FrameSeq
        <4>4. p[Len(p)].run <= source.run
          BY <4>2, <4>3 DEF PieceInv, FlowOK
        <4>5. DOMAIN Incoming' = {1} /\ Incoming'[1] = p[Len(p)]
          BY <3>3, <3>5 DEF Behind
        <4>6. InPieces(Incoming')
          BY <4>5 DEF InPieces
        <4> QED
          BY <1>1, <2>2, <4>4, <4>5, <4>6 DEF FlowOK
      <3> QED
        BY <3>4, <3>5
    <2> QED
      BY <2>1, <2>2
  <1> QED
    BY <1>3, <1>4, <1>5 DEF PieceInv

\* Each step leaves the pieces in place.
LEMMA PieceStep == SocketInv /\ PieceInv /\ [Live!StreamStep]_(Live!svars) => PieceInv'
  <1> SUFFICES ASSUME SocketInv, PieceInv, [Live!StreamStep]_(Live!svars) PROVE PieceInv'
    OBVIOUS
  <1>1. CASE Live!Publish BY <1>1, PublishPieces
  <1>2. CASE Live!NextAttempt \/ Live!RunChanges BY <1>2, SourcePieces
  <1>3. CASE \/ \E run \in Live!StreamRuns : Live!SelectRun(run)
             \/ Live!FollowSubmitted \/ Live!RunListPolled \/ Live!TurnCompleted
    BY <1>3, SelectPieces
  <1>4. CASE Live!ReconnectTimer BY <1>4, ReconnectPieces
  <1>5. ASSUME NEW c \in Live!Conns,
               \/ Live!HubReceives(c) \/ Live!HubDrops(c) \/ Live!finishOpen(c) \/ Live!SocketBreaks(c)
               \/ Live!SocketDown(c) \/ Live!FrameArrives(c) \/ Live!FramesLost(c)
        PROVE  PieceInv'
    BY <1>5, ReceivePieces, ClosingPieces, OpenPieces, DownPieces, FramePieces, LostPieces
  <1>6. CASE UNCHANGED Live!svars
    BY <1>6 DEF Live!svars, PieceInv, SourceOK, ShownOK, AskingOK, ChannelsOK, Subscribing, FlowOK, Incoming, Live!Conns
  <1> QED
    BY <1>1, <1>2, <1>3, <1>4, <1>5, <1>6 DEF Live!StreamStep

\* At first nothing is shown and nothing is on its way.
LEMMA PieceInit == Live!StreamInit => PieceInv
  <1> SUFFICES ASSUME Live!StreamInit PROVE PieceInv
    OBVIOUS
  <1>1. SourceOK
    BY DEF Live!StreamInit, SourceOK, Delta
  <1>2. ShownOK
    BY DEF Live!StreamInit, ShownOK, Piece, Live!None
  <1>3. AskingOK
    BY DEF Live!StreamInit, AskingOK, Live!None
  <1>4. ChannelsOK
    BY DEF Live!StreamInit, ChannelsOK
  <1>5. FlowOK
    BY NothingFlows DEF Live!StreamInit, Incoming, Live!None
  <1> QED
    BY <1>1, <1>2, <1>3, <1>4, <1>5 DEF PieceInv

\* The text under an in-flight turn is one unbroken piece of one attempt of the selected
\* run, whatever reconnects, selections and late frames interleave, for any number of runs,
\* sockets, attempts and deltas.
THEOREM TextIsContinuous == Live!StreamSpec => []PartialIsContinuous
  <1>1. Live!StreamInit => SocketInv /\ PieceInv
    BY PieceInit, NoneIsNoSocket DEF Live!StreamInit, SocketInv
  <1>2. SocketInv /\ PieceInv => PartialIsContinuous
    BY DEF PieceInv, ShownOK, Piece, PartialIsContinuous, Live!PartialIsContinuous
  <1> QED
    BY <1>1, <1>2, SocketStep, PieceStep, PTL DEF Live!StreamSpec

=============================================================================
