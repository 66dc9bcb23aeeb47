# A TLA+ verification of the orchestration service

The repository is a TypeScript service (Bun) that runs language-model "guilds"
of roles on a workspace.  Tasks go through a durable queue, one run at a time
works on the workspace, runs park on questions, suspend on provider failures,
pause for the operator, and survive restarts from checkpoints.  A browser client
follows all of that through polled feeds and a delta stream.  This project models
the service from the queue down to the tool batch of one role and up to the
page's polling, checks the models with TLC, and proves the safety of the core
with TLAPS.

## 1. Inventory

| Component | State it keeps | Operations | Interacts with |
|---|---|---|---|
| Queue item model (`executor/queue/model.ts`) | none: pure functions on an item | the item guard, every rebuild, every repair | scheduler |
| Scheduler (`executor/queue/task-queue.ts`) | queue file; sleeping dispatch cycles; `shutdownObserved` | tick, repair, dispatch, collision retry, answer resume, settlement, operator operations | run slot, run directories, provider gate |
| Run slot (`executor/run-submission.ts`) | `activeRunId`, `pausedRun` | submit, resume, adopt, release, explicit and answer resumes, termination | executor, scheduler hook, provider recovery |
| Executor (`executor/executor.ts`) | `meta.json`, `pause-requested.json` | start, resume, settle, clean up | engine, checkpoint |
| Startup reconciliation (`executor/startup-reconciliation.ts`) | none; rewrites metas | classify, supersede, adopt, resume | run slot |
| Engine (`executor/engine.ts`, `park-state.ts`, `operator-pause.ts`, `interrupt-engine.ts`) | role stack, park tracker, interrupt and pause queues | safe point, tool batch, agents, handlers, park, suspend, pause, finish | recorder, journal, tools, LLM client |
| Checkpoint recorder, journal (`checkpoint.ts`, `invocation.ts`, `stale-invocations.ts`) | frames, pending invocations, interludes, `state.json` | write, freeze, suppress, seed, close | engine |
| Provider health and recovery (`provider-health.ts`, `provider-recovery.ts`, `suspension.ts`) | gate, backoff, probe timer, bound suspension | observe, probe, back off, automatic resume | scheduler, run slot |
| LLM client (`llm.ts`) | one call's attempts | attempt, retry, stream, bill | engine, provider health |
| Run log, task threads (`run-log/`, `task-thread/`) | append-only log; summaries | incremental reads, derivations, summariser | pane, inspector |
| Replica feeds (`web/entity-diff`, `run-list-feed`, `flow-feed`) | epochs, revisions, histories, replicas | diff, respond, poll | run directories, page |
| Stream hub and client (`stream-hub.ts`, `stream-client.ts`) | subscriptions, sockets | subscribe, acknowledge, publish, reconnect | engine, page |
| Page (`web/static/ts/app.ts`, `question-prompt.ts`, `turn-inspector/`, `task-thread/`) | selection, watch, prompts, windows, pane | poll, watch, prompt, page, inspect | HTTP API |
| Tools, validation, loader, rendering, benchmarks, guild data | none or pure I/O | | |

The hard behaviour is not parallelism (there is one event loop in the service and
one in the page) but

- sections that a crash can cut between any two durable writes, over three
  files written by different components (queue file, run meta, checkpoint) that
  no transaction joins;
- the one real await of the scheduler, the 1.1 s collision sleep, which lets
  several dispatch cycles overlap with everything else;
- state decided from other state after a restart: whether an answer arrived,
  whose run an unbound marker is, which of several unfinished runs goes on,
  which tool calls were executed, which instance ids were handed out;
- the priority of a paused run against settlements, ticks, probes and requests;
- answers of the service that reach the page late, out of order, or never, after
  the selection, the socket or the service's epoch has changed;
- liveness across all of that: tasks settle, answers arrive, a closed gate is
  probed, a page that stays open ends up showing what the service holds.

`PROJECT.json` lists the hazards, each at its line, with the properties that
would catch it going wrong.

## 2. Modules

The queue and its runs:

| Module | Models |
|---|---|
| `QueueModel` | `queue/model.ts`: the item, the reader's guard `IsQueueItem`, the rebuilds, the repairs. Pure. |
| `OrchestratorState` | Constants, variables, types, and the readings of the queue file and of a run directory the others share. |
| `RunExecutor` | The slot and the live run: submit, start, safe point, park, suspend, pause, finish, cleanup, explicit resume, termination. |
| `TaskQueue` | The scheduler, the settlement, the operator's operations, the provider as the queue meets it. |
| `StartupReconciliation` | Crash, shutdown, lost checkpoints, boot. |
| `Orchestrator` | The composition (`TaskQueue` and `StartupReconciliation`), its specification, fairness and properties. |
| `TaskLifecycle` | The abstract state machine of a task, from the table of `docs/queueing.md`. `Orchestrator` implements it. |
| `MCBoot` | The composition started from every leftover state directory as well. |
| `MCCollisions` | The composition with a history of the collision budgets used up. |
| `OrchestratorClaims` | A statement of the repository's comments that the code does not keep. |

Inside a run, and the provider:

| Module | Models |
|---|---|
| `Conversation` | A role's history: calls, results, compaction, what the model API accepts. Pure. |
| `RoleEngine` | The role stack, the tool batch, agents, asks, parks, interrupts and handlers, suspensions, pauses, the recorder, the journal, crash and resume. |
| `ProviderFailure` | The classification of a failed call. Pure. |
| `ProviderHealth` | The monitor: gate, epochs, backoff, Retry-After, probe timer, bound suspension. |
| `ProviderService` | The recovery coordinator and the service around the monitor. |
| `LlmClient` | One model call with its attempts, and its stream. |

From the run directory to the page:

| Module | Models |
|---|---|
| `EntityDiff` | `diffEntities`, `applyDelta`. Pure. |
| `Feeds` | The run-list and flow responders, their replicas, the polling client. |
| `LiveStream` | The hub, the socket and the client's reconnects, the partial text on the page. |
| `RunWatch` | The page watching a run: list and view polls, the result modal, pauses. |
| `QuestionPrompts` | The prompt of a parked or a live question, its suppression, rollback and re-park. |
| `RunThread` | The log, meta and item a run leaves across asks, parks, inquiries, crashes, resumes. |
| `TaskThread` | The conversation derived from those: pairing, status, merge. Pure. |
| `RunFiles` | The append-only log with torn appends, incremental readers, read caches, lineages. |
| `TaskSummarizer`, `TaskThreadPane` | The summariser with its single flight and cooldown, and the pane that polls and retries it. |
| `RunLogGrowth`, `TurnDerivation`, `TurnInspector` | A growing log of nested roles, the transcript derived from it, the inspector's windows. |
| `MCEngine`, `MCProvider` | The instances TLC checks. `Absent` names a model value. |
| `MCPage` over `MCFeeds` | What the page follows: feeds, stream, watch and prompts side by side, one of them moving in each behaviour (`part`). |
| `MCReaders` over `MCThread` | What the page makes of a run's log: pane, log, files, lineages and inspector, side by side in the same way. |
| `EngineClaims`, `ProviderClaims` | Statements of the documentation and the comments that the code does not keep, each over the module it is about. |

The proofs are in `LifecycleProofs`, `RunProofs`, `EngineProofs`, `ExecutionProofs`,
`HistoryProofs`, `ProviderProofs`, `FeedProofs` and `ThreadProofs` (section 6).

Several MC modules hold components that share no state.  Their variable `part`
says which of them a behaviour is about; the others stay as they began, and the
fairness of each is asked only of the behaviours about it.  No interaction is
lost, since there is none, and no product is explored.

### State and the code

`item` and `order` are the entries and the order of `queue.json`; an id not in
the file is `absent` (not minted) or `removed` (rolled back).  `meta`, `ckpt`
and `pauseReq` are `meta.json`, `state.json` and `pause-requested.json` of
each run directory, reduced to the fields some decision reads.  `active` and
`paused` are `activeRunId` and `pausedRun`; `live` is the executor state of the
active run; `sleepers` are the dispatch cycles suspended in `submitHead`'s
sleep; `gate` is `canDispatch()` and `probing` says that a probe timer is
pending or a probe in flight.  `heard`, `dirty` and `count` are history: the
answers a run's durable conversation holds, the runs that changed the
workspace, and the bounded events used up.

`pc` is the event loop.  A handler runs without interruption up to its first
real await, so a section (a tick, a settlement, a termination, the boot scan)
is a chain of steps during which no other handler runs; each step makes one
durable write, so a `Crash` can fall between any two.  The field `caller`
records who awaits the section (`submitNow`, the boot sequence, the recovery
coordinator, `answer`).  Gaps made only of already resolved promises are
treated as part of the section: no timer or request can run in them.

In `RoleEngine` a frame of `stack` is an activation of `runRole` with the batch it
is working through and its place in it; `rec`, `park`, `jour`, `queue` and
`pausing` are the recorder with the registry, `RunParkTracker`, the journal,
`InterruptQueue` and `OperatorPauseQueue`; `log` and `disk` are what a crash leaves.
In `ProviderService` `h` is the monitor, its timers included, and `run`
and `work` are what the coordinator acts on.  In `Feeds` `server.replicas` is the
responder's map by recency, `requests` the answers in flight (an answer stays
there until it lands, late or never), `guard` the poll key's back-off and `page`
what the client holds.  In `LiveStream` every socket has its own two queues, so that
frames of a replaced connection can arrive late.  `RunWatch`, `QuestionPrompts`,
`TaskThreadPane` and `TurnInspector` are the page: variables of the module that
hold what the page remembers, and the requests in flight with what the service
answered at a moment between their being sent and their landing.

### Abstractions

- Task, question and answer texts are small numbers or tokens; an answer and its
  `answerId` travel together and are one number.  Effort, involvement, log
  level, stamps and the briefing text ride along and decide nothing.
- Run ids are numbered in creation order, which is also the order of their
  start times.  An id is taken while a directory of the same second exists
  (`secondTaken`).  Past `MaxRuns` every id counts as taken.
- Sleeping cycles wake in the order they fell asleep: the delay is constant and
  longer than a second.
- To the queue the provider gate is a boolean; when a failure is conclusive, and
  when an automatic resume is due, is chosen freely there.  `ProviderService` is
  what it abstracts from.
- A rejected run promise ends the process and is covered by `Crash`.
  `ObserveShutdown` is modelled while a run is active (otherwise it is a
  crash); `Exit` covers both the drained and the timed-out shutdown.
- The best-effort delete of a pause marker is merged with the neighbouring
  write, and the last checkpoint write of a finished run with its terminal
  meta.  Deletes and writes succeed; a checkpoint that becomes unreadable later
  is `LoseCheckpoint`.
- An ask of a run the queue does not track blocks inside the run and changes no
  modelled state.  `patch` is two actions, `EditTask` and `Reorder`.
- Engine: a clarification's answer arrives in one step, and whether a delivered
  answer goes to a parked ask or becomes a note is decided by the checkpoint, as in
  `run-submission.ts`; the role budgets are one outcome, `ModelUnavailable`; an agent
  of the role "agent" may write, a "scout" may not; `trigger_interrupt` is a loop
  check's tool only; requests and pauses arrive while a role waits for the model, a
  tool or an answer, since everything else it does is synchronous; the run submits no
  operator notices, which the proof allows; a settled run stops.
- Threads: the events of one step carry one timestamp; a crash between
  `role_finished` and the terminal meta is not modelled; glued log lines and asks
  repeated under one id are left out where a property says so.
- Page: the ids of live questions are fresh numbers; a re-park on the same text
  keeps its key; the card of an interrupt's answer and notices are left out.  A
  constant leaves out one interleaving (`BothAtOnce`): the hazard at
  `question-prompt.ts:79` says what happens there.
- Polling: in `Feeds` and `TurnInspector` whether the page knows its run to be settled
  (`pollable`, `polled`) turns at any moment, within a bound; `RunWatch` has the status
  it is read from.
- Inspector: the client's generation counter is a flag that says whether an answer
  is still wanted; an error answer is a failure; there is one run.
## 3. Properties

| Property | Says |
|---|---|
| `TypeOK` | the type invariant |
| `QueueWellFormed` | every entry passes the reader's guard and is listed exactly once (one bad entry empties the queue) |
| `SingleRun` | never a live run beside a paused one; at rest exactly the active run's meta says running |
| `PausedIsResumable` | the run that blocks the queue can be resumed |
| `AdoptedIsResumable` | the pause a boot adopts from any leftover directory can be resumed |
| `FileMatchesRuns` | at rest every active, suspended, needs_input and done entry agrees with its run directory and the slot |
| `BootKeepsTheFile` | from any leftover directory: a given answer is in the file until a run's durable conversation holds it (`AnswersKept`), and `FileMatchesRuns` |
| `ParkedIsClean` | a parked run has not changed the workspace, across resumes and restarts |
| `BlockedIsProbed` | when only the closed gate blocks the queue, a probe is on its way |
| `NoStall` | waiting work is left beside a free slot and an open gate, with nobody asleep, only between a collision budget used up and the next tick |
| `PausePriority` | while a run is paused, only that run can enter the slot |
| `NewestWins` | the boot gives a usable run up only for one that outranks it |
| `LifecycleSpec` | the service implements `TaskLifecycle` |
| `TaskSettles`, `AnswerIsHeard` | every task settles, every answer is heard |
| `AllAnswered` | no request leaves a tool call of its conversation unanswered |
| `WorkIsOnRecord` | the log closes every invocation once, and an interlude that began is on disk until it is over |
| `ParkedBeforeWrite` | a run parks only before anything that writes has started, through nested agents and handlers |
| `NoReExecution` | a tool call whose result is logged is not executed again |
| `ProbeIsComing` | while the gate is closed a probe is under way or timed, with a sane delay |
| `ResumeBudget` | a run is not resumed automatically more often than it was granted: a budget at its start, and one more each time the service forgets its count |
| `ResumeNeedsFreshProbe` | no run is resumed on a probe sent before its suspension was bound |
| `RecoveryProgresses` | a recovered provider resumes what may be resumed and wakes what waits |
| `OutputIsOfOneAttempt` | the page is shown the text of one attempt, and nothing is sent again behind shown text |
| `RevisionNamesState` | a page at the replica's epoch and revision holds what the replica holds |
| `OneFlight` | at most one uncancelled poll is in flight under a key |
| `PartialIsContinuous` | the text on the page is one unbroken piece of one attempt |
| `OneSocket` | the browser never holds two open sockets |
| `PageFollows` | a page that goes on polling a resource ends up with what the service holds, and its socket subscribed |
| `PopsOnEvidence` | the result modal pops only for a run that was seen unfinished, or that was selected when an answer returned |
| `ViewFollowsTheRun` | polling does not stop on a view of another status than the page knows |
| `HandledStaysClosed`, `PromptsCatchUp` | a question that was dealt with does not come back, one that is open reaches the operator |
| `ThreadTellsTheLog` | a paused run shows its question, answers and inquiries stay with what they answer, the status follows the entries, the newest human turn survives every bound |
| `ReadersAreFaithful` | an incremental read equals a whole one, a reader is told what was dropped, a lineage is walked to its end and no further |
| `SummariesInOrder` | a shown summary is of the thread it stands under, one model call at a time, retries bounded |
| `PaneSettles` | a pending summary ends, and the pane catches up with the thread |
| `InspectorTellsTheLog`, `InspectorCatchesUp` | the windows are pieces of the log and the transcript tells its turns as they were; an open inspector of a run still polled shows the log's end |
| `NoGap`, `OneItemPerRun`, `PauseHasNoPending`, `BudgetIsRetained` | statements of comments and documents the code does not keep |

## 4. Runs and bounds

All runs allow the modelled system to stop (`CHECK_DEADLOCK FALSE`): an idle
service or page with its bounded events used up has nothing to do.

| Run | Bounds | Question |
|---|---|---|
| `pauses` | 2 items, 2 runs, 1 ask, 1 answer, 1 crash | does a pause of either kind keep the slot, can it always be left, and is every status change one the document allows? |
| `collisions` | 2 items, 3 runs, 2 sleepers, 1 retry, 1 edit or reorder | do overlapping dispatch cycles lose or strand work? |
| `boot` | from an empty directory: 1 item, 2 runs, 2 asks, 2 answers, 2 crashes, 1 edit; from 2 leftover runs in every combination: 1 ask, with 1 answer or 1 lost checkpoint and 1 crash, or with both and none | are answers kept through re-parks and crashes at any write, and does the reconciliation pick the right run, cut or not? |
| `liveness` | 2 items, 3 runs, 3 retries, 2 asks, 2 answers, 1 crash | does every task settle and every answer arrive? |
| `engine` | three batches of calls, 3 turns, one each of compaction, rejected call, failure, crash, pause, request, at most 4 events in all | does the conversation stay whole, and is what was begun on record? |
| `provider` | 1 waiting item, 2 failures, 1 outage, 1 pause, 1 refusal, 1 crash, at most 4 of them in all; calls of 3 attempts with 2 lines | is a closed gate always probed, the budget kept, a broken stream never mixed? |
| `page` | feeds: 2 runs, 2 entities, 1 replica, a history of 1, 2 changes, 1 fault, 3 user acts, 4 in all; stream: 3 sockets, 2 attempts of 2 deltas; watch: 2 runs, 2 clicks, 2 moves of the run, 1 fault, 3 in all; prompts: 2 questions, 1 click, 2 moves, 1 fault | what do late, lost and reordered answers leave on the page, and does it follow the run and its questions? |
| `readers` | threads: 7 steps of a run, 2 asks, 2 inquiries, 1 crash; 2 logs of 4 events, 1 torn append; every lineage of 3 runs; 2 pane events; inspector: a log of 5 events, 2 instances, 1 fault, windows of 2, 2 requests at once, 2 acts, 2 readings of the run's status, 1 failure, 3 of them in all | does the conversation tell what happened, do the summaries settle, and are the windows pieces of the log? |
| `claim_binding`, `claim_window`, `claim_pause`, `claim_budget` | see below | statements the code does not keep |

The bounds are the smallest at which the interesting case happens: two items
let one wait while the other's run is live, paused or asleep; two runs give a
continuation and its predecessor, and a winner and a loser at boot; two asks
give a re-park after an answer; one crash at any write exercises every repair,
and a second one a crash during recovery.  Three runs and two sleepers let two
cycles overlap around a third run.  A history of one revision lets a page fall
behind it, one replica for two runs lets every switch evict, two request slots let a
cancelled answer land behind its successor's.  `MCBoot` gives every initial state
the events it may still see (`FromEmpty`, `FromLeftover`), as counts already used up: no
answer, crash and lost checkpoint all meet in one behaviour, since the repair after a
crash takes the lost checkpoint of an answered item for a delivery (hazard at
`model.ts:371`).  `AdoptedIsResumable` speaks of the pauses no checkpoint was lost since.  The
engine's three batches hold every kind of call: agents that may and may not write, a
refused name, an ask behind a delegation, and a clarification with a call left behind
it, which is closed one call per step.

`FileMatchesRuns` is checked with one sleeper only: with two, the binding shown
by `claim_binding` breaks it.  `NoStall` is checked with a budget of one retry instead
of the code's three, so that budgets do run out within the bounded runs: the cycle
that gives up releases its item, which then waits beside a free slot until the next
tick, as `docs/queueing.md` says.  The history `gaveUp` marks exactly those moments.
With the code's budget three runs of the same second would be needed before any of it.

### Disagreements between comments and code

Four runs show one each:

- `claim_binding`: `model.ts:529` "identical task texts are interchangeable,
  since only the head is ever mid-dispatch".  A sleeping marker is bound to
  another item's resumed run.
- `claim_window`: `app.ts:2747` "in-flight turns appear when they complete".  A
  window answer is stored with the total of a log that grew since its offset was
  chosen; the events between its end and that total are in no page.
- `claim_pause`: `reference.md:142` says a pause checkpoint "never carries a pending
  invocation on the leaf".  The replay of a batch's last call writes with its marker still
  set (`engine.ts:353`); a pause at the next safe point keeps it, and so does an
  interlude, and `isRunCheckpoint` refuses either: the run can no longer be resumed.
- `claim_budget`: `reference.md:100` "the count is retained across a later manual resume".
  A manual resume of an operator pause starts it again (`run-submission.ts:280`).

Others were met while modelling and have no run of their own:

- `task-queue.ts:74` "Waiting work never starts while the provider is
  unavailable": the retry after the collision sleep does not ask the gate.
- `model.ts:371` "A missing checkpoint means the answer was delivered": not when
  the checkpoint became unreadable before the resume.
- `reference.md:142` "the resumed run mints non-colliding instance ids": ids
  handed out after the last checkpoint write before a crash are handed out again
  (`role-registry.ts:46`).
- `app.ts:1031` "Selecting an already-terminal historical run does not auto-open
  it": an answer that returns (`app.ts:2418`) forgets the status of whatever run is
  selected by then, and the next read of an old run is taken for its completion.
  `RunWatch` has that behaviour, and `PopsOnEvidence` excuses it by name (`seen`).
- `run-selection.ts:1` "refresh a stale view, or just show the held view": only
  statuses are compared (`run-selection.ts:17`), and the wire has one for both kinds of
  pause, so a run that paused or failed a second time is shown as it was the first time
  and nothing polls it.  `RunWatch` has that behaviour too; `ViewFollowsTheRun` compares
  what the page compares.
- `derive.ts:350` closes a question by what follows it: a root resumed after an
  error logs no second finish, so the question before it shows as open.

Further interleavings were read, have no property of their own, and are worth a
test: the marker kept across the collision sleep and accepted if unbound
(`task-queue.ts:309`), the gate read before that sleep (`:295`), the view read
before the answer resume and used after it (`:357`), the crash between the running meta of an
explicit resume and its item (`:495`), the crash between the interrupted meta and the
checkpoint delete (`run-submission.ts:439`), an operator note pushed behind a batch
that finishes its role (`engine.ts:769`), a notice pushed into the root's history
while it waits in a tool call (`interrupt-engine.ts:47`), and the answer's note
pushed behind the leaf's history before the running meta (`executor.ts:247`).

## 5. Fairness

| Specification | Fairness | Because |
|---|---|---|
| `Orchestrator!FairSpec` | weak: `SectionStep`, `Exit`; strong: `WakeSleeper`, `SecondPasses`, `SafePoint`, `RunEnds` | the event loop runs a section to its end and the service manager boots it again; timers fire although other sections keep interrupting; a run keeps taking turns and its budgets are finite |
| `ProviderService` | weak: `TimePasses`, `LoopProgress` | timers fire and the loop runs; nothing is assumed of the provider |
| `Feeds` | weak: `Progress` | the page's timer polls (the flow only while its run is not known to be settled) and a request ends, if only by its timeout |
| `LiveStream` | weak, per socket: `HubReceives`, `finishOpen`, `SocketDown`, `FrameArrives`; weak: `ReconnectTimer` | a socket delivers in order or is closed; the reconnect timer fires |
| `RunWatch` | weak: `ListProgress`, `ViewProgress`, `OtherProgress` | as in `Feeds` |
| `QuestionPrompts` | weak: the three polls, the answers of a submission | as in `Feeds` |
| `TaskThreadPane` | weak: `PaneProgress`, `WireProgress`, `AttemptEnds \/ BecomesReadable` | timers, requests, and a model call with a timeout |
| `MCReaders`, of the inspector | requests end, and while the run is polled its tail is asked for again and again, as `[]<>` of the states they lead to | as in `Feeds` |

Nothing is assumed of requests, answers, pauses, crashes, changes or lost
checkpoints.  `PageFollows` and `InspectorCatchesUp` speak of what is still polled: when the page
has read that its run is settled it asks no more (`app.ts:4057`), so a last answer that was
lost leaves the flow, and a completion that takes the scope back leaves the inspector's whole
window, as they were.  The `liveness` run leaves suspensions and operator pauses out: a
paused run is left only by the operator or by a healthy provider, neither of which
is owed.  Its conclusions hold "unless the run ids are used up", the named
bound.  `RoleEngine` has only safety properties and no fairness.

## 6. What is proved

All proofs are for arbitrary constants that satisfy the named assumptions:
`BoundsAssumption` (the bounds are naturals, `0` is not a task or a question),
`HealthBounds` and `JitterAssumption` (the bounds are naturals, the jitter is a
choice of 0 or 1), `FeedsBounds`, `StreamBounds` and `HistoryLimitAssumption`
(slots are positive, there is room for a replica, the counts are naturals), and
`EngineBounds` (a batch is a sequence of tool names), `ThreadConstants` and
`RunThreadAssumption` (the retry limits are naturals, `None` is not one).  TLC evaluates each of them in
the run of its module.

### The queue and its runs

- `TypeCorrect` (`LifecycleProofs`): `Spec => []TypeOK`.  `TypeOK` is not inductive:
  a section in progress dereferences the run or the item in `pc`, and maps a
  run status that only a settled meta carries.  `TypeInv` adds `SectionOK`: a
  section that is about a run has one, a settling run's status is one
  `MappedStatus` is defined on, an item-section has an item.
- `OneRunAtATime` and `PauseOutranks` (`RunProofs`): `Spec => []SlotExclusive`
  and `Spec => PausePriority`.  The strengthening `SlotInv` says in which
  sections the slot is known to be free and which run may enter it, and that
  nothing is in the slot while the process is down.
- `QueueFileWellFormed` (`LifecycleProofs`): `Spec => []QueueWellFormed`.  For the
  reader's guard (`EntriesAlwaysValid`), `EntriesInv` adds that the marker a dispatch
  cycle carries, in `pc` or asleep, is itself a valid active entry, since the entry is
  later rebuilt from it.  For the listing, `OrderInv` says that `order` lists exactly the
  ids whose entry has a status of the file, each once.  The step that could break it is
  `Reorder`, which takes the `n`-th waiting entry for the `n`-th waiting place: `Nth` and
  `Rank` are inverse to each other on a finite set of places (`RankFacts`, `NthFacts`), so
  the moved list has every waiting entry once (`ReorderLists`), and the throw the code
  calls unreachable (`model.ts:283`) is not reached.
- `ServiceImplementsLifecycle` (`LifecycleProofs`): `Spec => LifecycleSpec`, the
  refinement.  Every action moves at most one task, along an arrow of the table;
  the invariant adds which status a task can have where a section rebuilds it.
- `OneRunOnDisk`, `GateIsProbed`, `ParkedHasNotWritten`, `PausedCanResume`
  (`RunProofs`): `SingleRun` in full, `BlockedIsProbed`, `ParkedIsClean`,
  `PausedIsResumable`.  `RunInv` has four parts.  `OneRunning` says, section by
  section, which run's meta may still say running (the one being settled, started,
  terminated, or one the boot scan has not come to); `GateWatched` says that a
  closed gate is probed unless a settlement that will see to it is on its way;
  `PausedKept` that the paused run has its checkpoint; `WritesKnown` that a run
  that wrote carries the mark of it in its live state or in every checkpoint it can
  be resumed from.  `PausedCanResume` assumes `MaxLosses = 0`: a
  run whose checkpoint is lost while it is paused is not resumable, and is discarded
  when it is resumed.
- `AdoptedCanResume` and `NewestIsKept` (`RunProofs`): `BootSpec => []AdoptedIsResumable`
  and `BootSpec => NewestWins`, for any number of leftover directories.  `RunInv` holds of
  every leftover too (`InitBootRun`), since the queue model, the runs and the
  boot never look at how the process was started; its part on the paused run is relative
  to `NoneLost`, which a leftover that may lose no checkpoint keeps throughout.  The
  action property is about the scan: of the runs still usable it keeps the one that
  `ScanOutranks` puts above the others, and what it gives up it gives up for that one.
  Both assume `MaxItems # 0`, as `BootInit` speaks of the first item.

### The provider

`ProviderProofs`, on `ServiceSpec` and `LlmSpec`:

- `ClosedGateIsAlwaysProbed` (`ProbeIsComing`): the monitor never loses its
  timer, whatever stale epoch a late probe answers with.
- `AutoResumesAreBounded` (`ResumeBudget`): what a run has been granted and has not had
  (`left`) never goes below zero: the count in the record that is persisted, bound, or
  resumed from is at least what was had of the last grant.  A grant is the run's start, a
  resume after an operator pause, or a boot that resumes a run that was running; that the
  last two should not grant anything is `BudgetIsRetained`, which the code violates.
- `OnlyFreshProbesResume` (`ResumeNeedsFreshProbe`): the epoch of a probe in
  flight is the bound suspension's only if it was sent after the binding.
- `OneAttemptIsShown` (`OutputIsOfOneAttempt`): what is shown is of the attempt
  under way once it has emitted, and an attempt that has emitted is the last.

### The feeds and the stream

`FeedProofs`, on `FeedsSpec` and `Live!StreamSpec`:

- `OnePollAtATime` (`OneFlight`): an uncancelled request is the one the key holds.
- `RevisionsNameStates` (`RevisionNamesState`).  That a page at the replica's
  revision holds the replica's state is not inductive: a late answer brings the
  page to a revision of a replica that was evicted, or of a process that is gone.
  The invariant says that there is *one* naming `N` of all revisions ever
  given by which everything that carries a revision is right: replicas, their
  history entries (each leads from the state its own revision names to the next
  one's), the answers in flight, and the page.  `Past` says that the revisions given
  so far will never be given again, so `N` can be extended at a new one.  TLC
  cannot evaluate this existential over an infinite set; the run checks what it
  implies.
- `BrowserHoldsOneSocket` (`OneSocket`): the client's socket is its active
  connection, a pending reconnect timer means there is none, and every open socket
  is the client's.
- `TextIsContinuous` (`PartialIsContinuous`).  That the text shown has no gap is not
  inductive: the next frame may come from before a resubscription.  `PieceInv` is about
  `Incoming`, the last delta shown followed by the frames on their way on the active
  connection: the deltas of a run are in one piece there, no acknowledgement is between
  them, and each continues the one before it (`InPieces`); and as long as the socket is
  open the next delta of the source will continue them too (`UpTo`).  That holds because
  the subscriptions on their way to the hub are to ever later runs (`Subscribing`): the
  page asks again only when it hears of a newer run, so what the hub sends of one run is
  never interrupted and resumed on one socket.

### The task thread

`ThreadProofs`, on `ThreadSpec`: `SummaryIsOfItsThread` (`SummariesInOrder`) and the
inductive invariant behind it, `ThreadKeepsOrder`.

That the retries are bounded is not inductive: the count that limits them is the pane's,
kept for one fingerprint and started anew for every other, so a thread that came back
after another one would be retried all over.  It does not come back, and `OrderOK` says
why: of the reads in flight only the last one asked for is current, so the one that is
applied was served after the one the page holds.  `RetryOK` ties the retries set for a
thread to the pane's count as long as that thread is on the page.  `ServiceOK` says that a
run with a model call under way is held in memory and has been read, which is what keeps
`request` from beginning another.

### The inside of a run

`EngineProofs`, `ExecutionProofs` and `HistoryProofs`, on `EngineSpec`, for any batches, any
depth of agents and handlers, and any number of turns, interrupts, failures, pauses, crashes
and resumes:

- `EngineParksBeforeWrite`: `EngineSpec => []ParkedBeforeWrite`.
- `EngineStaysInOrder`: the inductive invariant behind it,
  `\E tools : EngineInv(tools)`.
- `EngineNeverReExecutes`: `EngineSpec => NoReExecution`.
- `EngineKeepsCallsApart`: the inductive invariant behind it, `EngineInv` with
  `\E of : ExecInv(of)`.
- `RequestsAnswerEveryCall`: `EngineSpec => []AllAnswered`, by the inductive `HistoryInv`.

What the property says of the histories on disk is not inductive: it does not say
which calls the answers belong to once a history was compacted, nor why the tracker's
flag `wrote` can be trusted.  `EngineInv` therefore quantifies over the sequence
`tools` of the tools the models asked for so far (the call with id `i` asked for
`tools[i]`, whatever became of the message that did), and says, as long as no
writer was started (`wrote` false):

- an answer to a delegation to a writer is a refusal or the closing of an unexecuted
  call, in the live histories, the interlude's copy and the checkpoint (`Answers`);
- no frame below the top waits for a writer, no card of one is on a marker, and no
  saved frame but the leaf stands on a delegation to one (`Placed`, `Pendings`,
  `SavedOK`);
- while a question is open, and in a checkpoint with a parked ask, no marker stands on
  one at all (`ParkOK`, `DiskOK`): the park mark unwinds the stack without another
  dispatch.

The rest is the shape that makes each step's argument go through: where a frame may
stand in its turn and that its marker names the call it is on, that handlers are above
the working roles, and that everything below the top waits.

`NoReExecution` speaks of one step; what makes it true is what a crash and a resume
find.  `ExecInv` quantifies over `of`, which maps each call asked for so far to the turn
it was asked in (turns do not share calls), and accounts for who may still act on a call:

- `Later(f)` and `Ahead(c, of)` are the calls a live frame, or a resume from what is on
  disk, may still *begin*; `Open(f)` those a frame is about to *log* before it dispatches
  again; `Own(f)` all the calls a frame's history, marker and turn hold.
- `StackX`, `DiskX`: what may be begun is in no event of the log, no call belongs to two
  frames, and a marker vouches for no more than the frame itself would begin (the calls
  after a finish are closed, never begun).
- `Apart`, `ParkX`: no live frame is about to log what a resume may begin, and a handler
  knows none of it.  This is what a step that logs relies on, and why writing the
  interlude's saved frames back, or freezing the recorder, is sound.
- `Fresh`: a call between its journal start and its execution has no terminal.

A resume turns `Ahead` into the `Later` of the rebuilt frames, dispatching moves a call
from `Later` to `Open`, and logging takes it into what the log has heard of; nothing
moves back.

`AllAnswered` speaks of the moment of a request; within a turn calls are unanswered, a turn
may be left at any of them by a crash, a pause, a suspension or a question, and it is the
checkpoint that says where.  `HistoryInv`, on top of the two invariants above, says for
every label of a frame which calls are still out, and for every saved frame which a resume
will answer:

- `Told`: between turns a history answers everything; on the call `idx` it answers all but
  `Rest(turn, idx)`, the turn is the last one, and no call before `idx` is a finish
  (`During`); a turn that is closed after a finish owes the calls it has not closed.
- `Held`: the turn under way is in the history.  The exception is the one the code makes: a
  compaction may drop the turn a leftover marker names, when it stands on its last call and
  that call has ended, and then nothing is left of it to answer.
- `Carries`: the marker names the call under way; a leftover one names the last call of a
  turn that ended, which a reconciliation replays without executing or answering anything
  else.
- `DiskH`: every saved frame answers all but the rest of the turn from its marker on, each
  parent stands on the delegation to the frame above it, and the leaf of a checkpoint with
  an open question holds the place of the operator's answer as its last message, so that
  the answer takes that place and the turn goes on behind it (`AskedIn`).
- `ParkH`: while a question is open, the stack unwinds; the role that asked writes the
  checkpoint with its answer's place, and the roles below it write nothing
  (`Unwinds`, `Asking`).  A run that may be parked replays nothing (`Unreplayed`).
- `StatusH`: what the checkpoint holds in each state of a run that is not running, which is
  what the four resumes start from.

Every invariance proof has one lemma per action or group of actions and one step per
action.  `LifecycleProofs` also holds the lemmas on the queue model's rebuilds: each keeps the
type, and each yields an entry the guard accepts.

### Only model-checked

- Liveness and `ENABLED`: out of the prover's reach.
- `FileMatchesRuns` and `AnswersKept`: `RepairMarker` may bind an answered
  sleeping marker to another item's run with the same task (`claim_binding`), so
  neither holds for every value of the constants.  `NoStall`: see the plan.
- `BootKeepsTheFile` is `AnswersKept` and `FileMatchesRuns` again.
- `WorkIsOnRecord` of the engine, the properties of the page and
  the inspector's invariant: see the plan.  What a thread derives from the log
  (`ThreadTellsTheLog`, `ReadersAreFaithful`) needs induction over the log.  `TurnDerivation` declares a RECURSIVE
  operator, so the inspector's cannot be proved as it stands.

## 7. Not modelled

Prompts, the tool schema and a finished child that is continued as a seeded
instance; token estimates (a choice); token usage and spend, which the code adds up in one place
and drops, as documented, for a call that ends exhausted or unavailable; the routing, parsing and views of the HTTP
API; format versions and failed writes of the queue file; the git notice of a resume.
Tools, file access, shape validators, configuration, rendering, the demo, the
benchmarks, the repository tools and the guild data are pure I/O, type guards,
presentation or data.  `PROJECT.json` says for every component what is left out.

## 8. Plan

Modelled and checked: everything of section 2.  Next, in order:

1. On top of `HistoryInv`: the parts of `WorkIsOnRecord`.  `InvocationsClosed` needs that a
   start is logged once while the journal remembers it, `InterludeDurable` that a handler
   runs only above a written interlude.
2. Proofs of the page: `PopsOnEvidence`, `HandledStaysClosed`; and of `NoStall`, over the
   history of `MCCollisions`.
3. The interaction adapter and the request handler as components of their own.
