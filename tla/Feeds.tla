-------------------------------- MODULE Feeds --------------------------------
(***************************************************************************)
(* The two polled feeds of the page over a service that may restart and a      *)
(* network that may lose an answer: the run list (one replica, run-list-feed)   *)
(* and the flow of the selected run (one replica per run, the least recently     *)
(* used one evicted, flow-feed), with the poll guards and the cancellation of    *)
(* static/ts/poll-fetch.ts and the ingress actions of static/ts/app.ts.          *)
(*                                                                         *)
(* The two feeds do not share state, so a behaviour is about one of them.        *)
(***************************************************************************)
EXTENDS EntityDiff

CONSTANTS
  Runs,        \* the runs whose flow may be shown
  Slots,       \* bound: requests in flight
  MaxReplicas, \* maxRuns of the flow responder
  MaxVersion,  \* bound: versions of an entity
  MaxEvents    \* bounds: how often each event of the environment happens, and all of them

ASSUME FeedsBounds ==
  Slots \subseteq Nat \ {0} /\ MaxReplicas \in Nat \ {0} /\ MaxVersion \in Nat

NoRun == "none"
List == "list"

VARIABLES
  kind,     \* which feed this behaviour is about: "list" or "flow"
  world,    \* per resource: the state the service derives from the run directories
  server,   \* the process's epoch, the flow responder's sequence, the replicas by recency
  requests, \* per slot: the request in flight there and its answer, or Free
  guard,    \* the poll key's guard: a request in flight; its back-off is running
  active,   \* slot of the poll's active request (the entry of activeRequests), or 0
  page,     \* the resource shown, the held feed, whether a model is held, the visibility
  pollable, \* the flow is polled: the page is on watch, the run's status not known settled
  left      \* how often each event of the environment may still happen

fvars == <<kind, world, server, requests, guard, active, page, pollable, left>>

Resources == IF kind = "list" THEN {List} ELSE Runs
Free == [key |-> NoRun, have |-> NoRevision, guarded |-> FALSE, cancelled |-> FALSE, reply |-> << >>]
FreshGuard == [inFlight |-> FALSE, waiting |-> FALSE]
emptyFeed == [rev |-> NoRevision, state |-> emptyState]

Spend(event) == /\ left[event] > 0 /\ left.all > 0
                /\ left' = [left EXCEPT ![event] = @ - 1, !.all = @ - 1]

FeedsInit ==
  /\ kind \in {"list", "flow"}
  /\ world = [r \in Resources |-> emptyState]
  /\ server = [epoch |-> 0, sequence |-> 0, replicas |-> << >>]
  /\ requests = [s \in Slots |-> Free]
  /\ guard = FreshGuard /\ active = 0
  /\ page = [shown |-> IF kind = "list" THEN List ELSE NoRun, feed |-> emptyFeed,
             loaded |-> FALSE, visible |-> TRUE]
  /\ pollable = TRUE /\ left = MaxEvents

----
(***************************************************************************)
(* The service.                                                             *)
(***************************************************************************)

\* A run's log or meta changes: one entity takes another version, or goes.
WorldChanges(r, i, v) ==
  /\ Spend("changes") /\ world[r][i] # v
  /\ world' = [world EXCEPT ![r][i] = v]
  /\ UNCHANGED <<kind, server, requests, guard, active, page, pollable>>

\* A new process has a new epoch and no replicas.
Restart ==
  /\ Spend("faults")
  /\ server' = [epoch |-> server.epoch + 1, sequence |-> 0, replicas |-> << >>]
  /\ UNCHANGED <<kind, world, requests, guard, active, page, pollable>>

\* getOrCreateReplica: every replica made has an epoch of its own, and asking for a
\* run makes it the most recent.
replicaEpoch_Shared == <<server.epoch>>
replicaEpoch == <<server.epoch, server.sequence + 1>>
getOrCreateReplica(run) ==
  LET held == {n \in DOMAIN server.replicas : server.replicas[n].key = run}
      at == CHOOSE n \in held : TRUE
      all == Append(server.replicas, [key |-> run, replica |-> createServerReplica(replicaEpoch)])
  IN  IF held # {}
      THEN [server EXCEPT !.replicas = Append(RemoveAt(@, at), @[at])]
      ELSE [server EXCEPT !.sequence = @ + 1,
                          !.replicas = IF Len(all) > MaxReplicas THEN Tail(all) ELSE all]

\* The one replica of the run list.
runListReplica ==
  IF server.replicas # << >> THEN server
  ELSE [server EXCEPT !.replicas = <<[key |-> List, replica |-> createServerReplica(<<server.epoch>>)]>>]

\* A request is answered from the replica brought up to date.
Serve(s) ==
  /\ requests[s] # Free /\ requests[s].reply = << >>
  /\ \E found \in {IF kind = "list" THEN runListReplica ELSE getOrCreateReplica(requests[s].key)} :
     \E replica \in {update(Last(found.replicas).replica, world[requests[s].key])} :
       /\ server' = [found EXCEPT !.replicas[Len(found.replicas)].replica = replica]
       /\ requests' = [requests EXCEPT ![s].reply = respond(replica, requests[s].have)]
  /\ UNCHANGED <<kind, world, guard, active, page, pollable, left>>

\* A run whose files do not exist yet (404), or an error of the service (5xx).
ServeMissing(s) ==
  /\ requests[s] # Free /\ requests[s].reply = << >>
  /\ Spend("faults")
  /\ \E answer \in {"missing", "error"} :
       /\ answer = "missing" => kind = "flow" /\ world[requests[s].key] = emptyState
       /\ requests' = [requests EXCEPT ![s].reply = Response(answer, NoRevision, NoRevision, << >>)]
  /\ UNCHANGED <<kind, world, server, guard, active, page, pollable>>

----
(***************************************************************************)
(* The page.                                                                *)
(***************************************************************************)

FreeSlots(reqs) == {s \in Slots : reqs[s] = Free}
NextSlot(reqs) == CHOOSE s \in FreeSlots(reqs) : \A t \in FreeSlots(reqs) : s <= t
Request(have, guarded) ==
  [key |-> page.shown, have |-> have, guarded |-> guarded, cancelled |-> FALSE, reply |-> << >>]

tryStart(g) == ~g.inFlight /\ ~g.waiting

\* start: a poll the guard refuses is skipped; the slots are enough for the others.
start(reqs, g, act, have) ==
  IF ~tryStart(g) THEN requests' = reqs /\ guard' = g /\ active' = act
  ELSE /\ FreeSlots(reqs) # {}
       /\ requests' = [reqs EXCEPT ![NextSlot(reqs)] = Request(have, TRUE)]
       /\ guard' = [g EXCEPT !.inFlight = TRUE]
       /\ active' = NextSlot(reqs)

\* What is polled at present: the run list for ever, the flow as long as the page is on
\* watch and has not read that its run is settled (hasPollableSelectedRun).
Polled == page.shown # NoRun /\ (kind = "flow" => pollable)

\* The tick of the run list, the poll of the selected run.
Tick ==
  /\ page.visible /\ Polled
  /\ tryStart(guard)
  /\ start(requests, guard, active, page.feed.rev)
  /\ UNCHANGED <<kind, world, server, page, pollable, left>>

\* GotPauseRequest, GotCreatedRun and the like read the run list outside the guard.
ReadRunList ==
  /\ kind = "list" /\ Spend("user")
  /\ FreeSlots(requests) # {}
  /\ requests' = [requests EXCEPT ![NextSlot(requests)] = Request(NoRevision, FALSE)]
  /\ UNCHANGED <<kind, world, server, guard, active, page, pollable>>

\* cancel: the active request is marked and aborted, and the guard is forgotten.
cancelled(reqs) ==
  IF active = 0 THEN reqs ELSE [reqs EXCEPT ![active].cancelled = TRUE]

\* finish: only the request's own entry is cleared.
finished_Any(s) == 0
finished(s) == IF active = s THEN 0 ELSE active

\* The guard after a request has settled.
failed_KeepsFlight(g) == [g EXCEPT !.waiting = TRUE]
failed(g) == [inFlight |-> FALSE, waiting |-> TRUE]
succeeded(g) == FreshGuard
settledGuard(r, ok) ==
  IF ~r.guarded \/ r.cancelled THEN guard ELSE IF ok THEN succeeded(guard) ELSE failed(guard)

BackoffElapses ==
  /\ guard.waiting
  /\ guard' = [guard EXCEPT !.waiting = FALSE]
  /\ UNCHANGED <<kind, world, server, requests, active, page, pollable, left>>

\* The connection drops, the timeout fires, or an aborted request settles (its outcome
\* is "cancelled", whatever it was answered).
RequestSettles(s) ==
  /\ requests[s] # Free
  /\ requests' = [requests EXCEPT ![s] = Free]
  /\ guard' = settledGuard(requests[s], FALSE)
  /\ active' = finished(s)
  /\ UNCHANGED <<kind, world, server, page, pollable>>

RequestFails(s) == ~requests[s].cancelled /\ Spend("faults") /\ RequestSettles(s)
AbortSettles(s) == requests[s].cancelled /\ UNCHANGED left /\ RequestSettles(s)

\* GotRunList, GotFlowModel: what the page does with an answer.
Ingress(r) == reduceServerResponse(page.feed, r.reply)
GotRunList(r) == Ingress(r)
GotFlowModel(r) ==
  IF r.reply.kind = "missing"
  THEN [kind |-> "missing", held |-> IF page.loaded THEN page.feed ELSE emptyFeed]
  ELSE Ingress(r)

Deliver(s) ==
  LET r == requests[s]
      freed == [requests EXCEPT ![s] = Free]
      settled == settledGuard(r, r.reply.kind # "error")
      reaction == IF kind = "list" THEN GotRunList(r) ELSE GotFlowModel(r)
  IN  /\ r # Free /\ r.reply # << >> /\ ~r.cancelled
      /\ \/ /\ r.key # page.shown
            /\ requests' = freed /\ guard' = settled /\ active' = finished(s)
            /\ UNCHANGED page
         \/ /\ r.key = page.shown
            /\ \E got \in {reaction} :
                 /\ page' = [page EXCEPT !.feed = got.held,
                                         !.loaded = @ \/ got.kind \in {"applied", "snapshot"}]
                 \* A delta that does not fit is asked for again as a snapshot.
                 /\ IF got.kind = "needsSnapshot"
                    THEN start(freed, settled, finished(s), NoRevision)
                    ELSE requests' = freed /\ guard' = settled /\ active' = finished(s)
      /\ UNCHANGED <<kind, world, server, pollable, left>>

\* The page reads that its run is settled, or that it runs again; it leaves the watch screen
\* or returns to it (GotSelectedRun, GotRunList, AnswerSent, SetScreen: RunWatch).
StatusRead ==
  /\ kind = "flow" /\ page.shown # NoRun /\ Spend("user")
  /\ pollable' = ~pollable
  /\ UNCHANGED <<kind, world, server, requests, guard, active, page>>

\* switchRunView: the run's polls are cancelled, its feed starts empty, its status unread.
SelectRun(run) ==
  /\ kind = "flow" /\ Spend("user")
  /\ pollable' = TRUE
  /\ page' = [page EXCEPT !.shown = run, !.feed = emptyFeed, !.loaded = FALSE]
  /\ requests' = cancelled(requests) /\ guard' = FreshGuard /\ active' = 0
  /\ UNCHANGED <<kind, world, server>>

\* PageVisibilityChanged: polls are cancelled both ways; the page that comes back to
\* what it polls drops the flow's revision, keeps what it shows, and polls at once.
PageVisibilityChanged ==
  /\ Spend("user")
  /\ LET resumed == [page EXCEPT !.visible = ~@,
                       !.feed = IF ~page.visible /\ kind = "flow" /\ pollable THEN [@ EXCEPT !.rev = NoRevision] ELSE @]
     IN  /\ page' = resumed
         /\ IF page.visible \/ ~Polled
            THEN requests' = cancelled(requests) /\ guard' = FreshGuard /\ active' = 0
            ELSE start(cancelled(requests), FreshGuard, 0, resumed.feed.rev)
  /\ UNCHANGED <<kind, world, server, pollable>>

Network == \E s \in Slots : Serve(s) \/ Deliver(s) \/ AbortSettles(s)

FeedsNext ==
  \/ \E r \in Resources, i \in Ids, v \in 0..MaxVersion : WorldChanges(r, i, v)
  \/ Restart
  \/ Tick \/ ReadRunList \/ BackoffElapses \/ StatusRead
  \/ Network
  \/ \E s \in Slots : ServeMissing(s) \/ RequestFails(s)
  \/ \E run \in Runs : SelectRun(run)
  \/ PageVisibilityChanged

\* The timers of the page run, and a request that is not lost is answered and its
\* answer delivered; it is enough that one of these happens while any can.
Progress == Tick \/ BackoffElapses \/ Network
FeedsFairness == WF_fvars(Progress)

FeedsSpec == FeedsInit /\ [][FeedsNext]_fvars /\ FeedsFairness

----
(***************************************************************************)
(* Properties.                                                              *)
(***************************************************************************)

\* A revision names one state: a page that stands at the revision the service's
\* replica stands at, which is answered "unchanged" for ever, holds what that replica
\* holds, whatever evictions and restarts lie between.
RevisionNamesState ==
  \A n \in DOMAIN server.replicas :
    /\ server.replicas[n].key = page.shown
    /\ revision(server.replicas[n].replica) = page.feed.rev
    => server.replicas[n].replica.current = page.feed.state

\* One poll is in flight under a key: a request cancelled by a switch of runs or a
\* hidden tab that settles late leaves the one that replaced it alone.
OneFlight ==
  Cardinality({s \in Slots : requests[s].guarded /\ ~requests[s].cancelled}) <= 1

\* Whatever was lost, reordered, evicted or restarted, a visible page that goes on polling
\* ends up with what the service holds once the run directories are quiet.  The flow of a
\* run whose status the page knows to be settled is not asked for again: if the last answer
\* was lost, or older than the run's last event, the flow stays as it was (app.ts:923).
Shown == page.visible /\ Polled => page.feed.state = world[page.shown]
Converges == <>[]Shown
=============================================================================
