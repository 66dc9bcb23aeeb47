---------------------------- MODULE TaskThreadPane ----------------------------
(***************************************************************************)
(* The task thread of the selected run on the page (static/ts/app.ts,                *)
(* task-identity/state.ts) over the summariser of the service: fetches with request      *)
(* tokens, the request for a summary, the reads that wait for it, the retries after          *)
(* a failure, and answers that arrive late, out of order or not at all.                        *)
(***************************************************************************)
EXTENDS TaskSummarizer

CONSTANTS
  MaxRefetches,       \* TASK_THREAD_SUMMARY_MAX_REFETCHES
  MaxAutoRetries,     \* TASK_THREAD_SUMMARY_MAX_AUTO_RETRIES
  MaxTransient,       \* TASK_THREAD_TRANSIENT_404_MAX_RETRIES
  MaxThreadEvents     \* bounds: how often each event of the environment happens, and all of them

ASSUME ThreadConstants == MaxRefetches \in Nat /\ MaxAutoRetries \in Nat /\ MaxTransient \in Nat

VARIABLES
  service,  \* the run on the service
  pane,     \* the page's state
  wires,    \* requests in flight
  timers,   \* the page's timers: pending refetches, long retries that are due, debounces
  retries,  \* how often a retry was set for one thread since the selection, a click or a shown summary
  left      \* how often each event of the environment may still happen

tvars == <<service, pane, wires, timers, retries, left>>

NoThread == [fp |-> None, state |-> "none", summary |-> None]
NoSummary ==
  [trigger |-> None, failedKey |-> None, cooling |-> FALSE, pendingKey |-> None, refetches |-> 0,
   pending |-> FALSE, failed |-> FALSE, autoKey |-> None, autoCount |-> 0]

\* resetRunView, as far as the thread goes.
NewPane == [thread |-> NoThread, load |-> "idle", missing |-> 0, scheduled |-> FALSE, dirty |-> TRUE,
            sum |-> NoSummary]
NoRetries == [key |-> None, times |-> 0]

May(event) ==
  /\ left[event] > 0 /\ left.all > 0
  /\ left' = [left EXCEPT ![event] = @ - 1, !.all = @ - 1]

ThreadInit ==
  /\ service \in {Service(readable, 1) : readable \in BOOLEAN}
  /\ pane = NewPane /\ wires = {} /\ retries = NoRetries /\ left = MaxThreadEvents
  /\ timers = [refetch |-> 0, minute |-> 0, due |-> 0, debounce |-> 0]

\* A request carries its token; only whether it is still the current one of its kind is
\* ever compared. An answer whose request is no longer current is dropped unread, so it is
\* gone as soon as the service has served it.
Wire(kind, key) == [kind |-> kind, key |-> key, current |-> TRUE, reply |-> None]
Outdated(flying, kind) ==
  {IF w.kind = kind THEN [w EXCEPT !.current = FALSE] ELSE w :
     w \in {x \in flying : x.kind = kind => x.reply = None}}

----
(***************************************************************************)
(* What an answer does: the next pane, the timers it sets, the summary it        *)
(* asks for and whether it does so by itself.                                     *)
(***************************************************************************)

Does(p) == [pane |-> p, refetch |-> 0, minute |-> 0, asks |-> None]

\* nextTaskThreadSummaryAutoRetry and taskThreadSummaryFailureState.
summaryFailure(p, thread) ==
  LET key == thread.fp
      count == IF p.sum.autoKey = key THEN p.sum.autoCount + 1 ELSE 1
      again == p.sum.failedKey = key
  IN  [Does([p EXCEPT !.thread = [thread EXCEPT !.state = "failed", !.summary = None],
                      !.sum = [NoSummary EXCEPT !.failedKey = key, !.failed = TRUE,
                                                !.cooling = IF again THEN p.sum.cooling ELSE TRUE,
                                                !.autoKey = key, !.autoCount = count]])
         EXCEPT !.minute = IF count <= MaxAutoRetries THEN 1 ELSE 0]

\* planTaskThreadSummary
planTaskThreadSummary(p, thread) ==
  CASE thread.state = "pending" -> IF p.sum.refetches >= MaxRefetches THEN "timed-out" ELSE "refetch"
    [] thread.state = "none" -> IF thread.fp = p.sum.failedKey /\ p.sum.cooling THEN "none" ELSE "trigger"

\* Waiting for a summary that is being made: read the thread again, up to the limit.
Waits(p, key, plan) ==
  LET counted == IF p.sum.pendingKey = key THEN p.sum.refetches ELSE 0
  IN  IF plan = "refetch"
      THEN [Does([p EXCEPT !.sum.pendingKey = key, !.sum.refetches = counted + 1,
                           !.sum.pending = TRUE, !.sum.failed = FALSE]) EXCEPT !.refetch = 1]
      ELSE Does([p EXCEPT !.sum.pendingKey = key, !.sum.refetches = counted,
                          !.sum.pending = FALSE, !.sum.failed = TRUE])

\* The automatic request for a summary of the thread just read.
Triggers(p, key) ==
  [Does([p EXCEPT !.sum = [NoSummary EXCEPT !.trigger = key, !.pending = TRUE,
                                            !.autoKey = IF p.sum.autoKey = key THEN key ELSE None,
                                            !.autoCount = IF p.sum.autoKey = key THEN p.sum.autoCount ELSE 0]])
     EXCEPT !.asks = key]

\* GotTaskThread, for the current request.
GotTaskThread(p0, thread) ==
  LET p == [p0 EXCEPT !.thread = thread, !.load = "ready", !.missing = 0]
      plan == planTaskThreadSummary(p, thread)
  IN  CASE thread.state = "failed" -> summaryFailure(p, thread)
        [] thread.state = "ready" -> Does([p EXCEPT !.sum = NoSummary])
        [] thread.state = "pending" ->
             Waits([p EXCEPT !.sum.failedKey = None, !.sum.cooling = FALSE], thread.fp, plan)
        [] thread.state = "none" /\ plan = "trigger" -> Triggers(p, thread.fp)
        [] OTHER -> Does([p EXCEPT !.sum.pending = FALSE])

\* TaskThreadFetchFailed, and a thread that cannot be read.
FetchGivenUp(p) ==
  Does([p EXCEPT !.load = "error", !.sum.pending = FALSE,
                 !.sum.failed = @ \/ p.sum.pending \/ p.thread.state = "pending"])

\* shouldRetryTaskThread404: a run just submitted is not readable yet.
ThreadMissing(p) ==
  IF p.missing < MaxTransient
  THEN [Does([p EXCEPT !.load = "loading", !.missing = @ + 1]) EXCEPT !.refetch = 1]
  ELSE FetchGivenUp(p)

\* shouldApplyTaskThreadSummaryFailure
AppliesFailure(p, key) == p.thread.fp = key /\ p.thread.state # "ready"
SummaryFailed(p, key) == IF AppliesFailure(p, key) THEN summaryFailure(p, p.thread) ELSE Does(p)

\* GotTaskThreadSummary, for the current request: a summary of another thread than the
\* one held is not shown.
GotTaskThreadSummary(p, key, snapshot) ==
  CASE snapshot.state = "ready" /\ p.thread.fp # snapshot.fp -> Does([p EXCEPT !.sum.pending = FALSE])
    [] snapshot.state = "ready" /\ p.thread.fp = snapshot.fp ->
         Does([p EXCEPT !.thread.state = "ready", !.thread.summary = snapshot.fp, !.sum = NoSummary])
    [] snapshot.state = "failed" -> SummaryFailed(p, key)
    [] snapshot.state \in {"pending", "none"} /\ p.thread.fp # key -> Does(p)
    [] snapshot.state = "pending" /\ p.thread.fp = key ->
         LET held == [p EXCEPT !.thread.state = "pending", !.thread.summary = None]
             late == p.sum.pendingKey = key /\ p.sum.refetches >= MaxRefetches
         IN  IF late THEN Waits(held, key, "timed-out")
             ELSE Waits([held EXCEPT !.sum.failedKey = None, !.sum.cooling = FALSE], key, "refetch")
    [] OTHER -> Does([p EXCEPT !.thread.state = "none", !.thread.summary = None, !.sum.failedKey = None,
                               !.sum.cooling = FALSE, !.sum.pending = FALSE, !.sum.failed = FALSE])

----
(***************************************************************************)
(* The page.                                                                *)
(***************************************************************************)

\* FetchTaskThread: every timer and click issues a request of its own.
Fetching(flying) == Outdated(flying, "thread") \cup {Wire("thread", None)}

RefetchFires ==
  /\ timers.refetch > 0
  /\ timers' = [timers EXCEPT !.refetch = @ - 1]
  /\ pane' = [pane EXCEPT !.load = "loading", !.dirty = FALSE] /\ wires' = Fetching(wires)
  /\ UNCHANGED <<service, retries, left>>

RetryFires ==
  /\ timers.due > 0
  /\ timers' = [timers EXCEPT !.due = @ - 1]
  /\ pane' = [pane EXCEPT !.load = "loading", !.dirty = FALSE] /\ wires' = Fetching(wires)
  /\ UNCHANGED <<service, retries, left>>

\* withTaskThreadRefresh: a change of what the page knows of the run schedules one read.
SignalChanges ==
  /\ pane.dirty
  /\ pane' = [pane EXCEPT !.dirty = FALSE, !.scheduled = TRUE]
  /\ timers' = [timers EXCEPT !.debounce = @ + IF pane.scheduled THEN 0 ELSE 1]
  /\ UNCHANGED <<service, wires, retries, left>>

\* RefreshTaskThreadAfterSignal
DebounceFires_StaysScheduled ==
  /\ timers.debounce > 0
  /\ timers' = [timers EXCEPT !.debounce = @ - 1]
  /\ pane' = [pane EXCEPT !.load = "loading", !.dirty = FALSE] /\ wires' = Fetching(wires)
  /\ UNCHANGED <<service, retries, left>>
DebounceFires ==
  /\ timers.debounce > 0
  /\ timers' = [timers EXCEPT !.debounce = @ - 1]
  /\ pane' = [pane EXCEPT !.scheduled = FALSE, !.load = "loading", !.dirty = FALSE] /\ wires' = Fetching(wires)
  /\ UNCHANGED <<service, retries, left>>

\* RetryTaskThreadLoad
RetryTaskThreadLoad ==
  /\ May("clicks") /\ pane.load = "error"
  /\ pane' = [pane EXCEPT !.load = "loading", !.dirty = FALSE] /\ wires' = Fetching(wires)
  /\ retries' = NoRetries
  /\ UNCHANGED <<service, timers>>

RetryTaskThreadSummary ==
  /\ May("clicks") /\ pane.thread # NoThread /\ pane.sum.failed
  /\ pane' = [pane EXCEPT !.sum = [NoSummary EXCEPT !.trigger = pane.thread.fp, !.pending = TRUE]]
  /\ wires' = Outdated(wires, "summary") \cup {Wire("summary", pane.thread.fp)}
  /\ retries' = NoRetries
  /\ UNCHANGED <<service, timers>>

\* The operator looks at another run and comes back: the timers of before still run, a
\* read of before may still be answered, and no summary asked for before is current.
Reselect ==
  /\ May("selects")
  /\ pane' = NewPane /\ retries' = NoRetries
  /\ wires' = Outdated(wires, "summary")
  /\ UNCHANGED <<service, timers>>

\* A minute passes: the cooldown of a failure, and the retry that was set for its end.
MinutePasses ==
  /\ pane.sum.cooling \/ timers.minute > 0
  /\ pane' = [pane EXCEPT !.sum.cooling = FALSE]
  /\ timers' = [timers EXCEPT !.minute = 0, !.due = @ + timers.minute]
  /\ service' = [service EXCEPT !.state.cooling = FALSE]
  /\ UNCHANGED <<wires, retries, left>>

Performs(does, w) ==
  /\ pane' = does.pane
  /\ timers' = [timers EXCEPT !.refetch = @ + does.refetch, !.minute = @ + does.minute]
  /\ wires' = LET rest == wires \ {w}
              IN  IF does.asks = None THEN rest
                  ELSE Outdated(rest, "summary") \cup {Wire("summary", does.asks)}
  /\ retries' = IF does.pane.thread.state = "ready" THEN NoRetries
                ELSE IF does.minute = 0 THEN retries
                ELSE [key |-> does.pane.sum.failedKey,
                      times |-> IF retries.key = does.pane.sum.failedKey THEN retries.times + 1 ELSE 1]

Current(w) == w.current /\ (w.kind = "summary" => w.key = pane.sum.trigger)

Answered(w) ==
  CASE ~Current(w) -> Does(pane)
    [] Current(w) /\ w.kind = "thread" ->
         IF w.reply.fp = None THEN ThreadMissing(pane) ELSE GotTaskThread(pane, w.reply)
    [] OTHER -> GotTaskThreadSummary(pane, w.key, w.reply)

Deliver(w) ==
  /\ w \in wires /\ w.reply # None
  /\ \E does \in {Answered(w)} : Performs(does, w)
  /\ UNCHANGED <<service, left>>

\* TaskThreadFetchFailed, TaskThreadSummaryFailed
Fails(w) ==
  /\ May("faults") /\ w \in wires
  /\ \E does \in {IF ~Current(w) THEN Does(pane)
                  ELSE IF w.kind = "thread" THEN FetchGivenUp(pane) ELSE SummaryFailed(pane, w.key)} :
       Performs(does, w)
  /\ UNCHANGED service

----
(***************************************************************************)
(* The service.                                                             *)
(***************************************************************************)

\* createTaskThreadReader: the thread with the summary as the summariser sees it.
ThreadRead ==
  IF ~service.readable THEN NoThread
  ELSE [fp |-> service.fp, state |-> peeked(service).state, summary |-> peeked(service).fp]

Replied(w, reply) == (wires \ {w}) \cup {[x EXCEPT !.reply = reply] : x \in {y \in {w} : y.current}}

\* handleGetTaskThread, handleRequestTaskThreadSummary
Serve(w) ==
  /\ w \in wires /\ w.reply = None
  /\ IF w.kind = "thread"
     THEN /\ service' = IF service.readable THEN afterPeek(service) ELSE service
          /\ wires' = Replied(w, ThreadRead)
     ELSE \E done \in {request(service)} :
            /\ service' = done.service
            /\ wires' = Replied(w, done.reply)
  /\ UNCHANGED <<pane, timers, retries, left>>

AttemptEnds ==
  /\ \E fp \in service.llm, outcome \in {"made", "failed"} :
       /\ IF outcome = "failed" THEN May("llmFailures") ELSE UNCHANGED left
       /\ service' = attemptEnds(service, fp, outcome)
  /\ UNCHANGED <<pane, wires, timers, retries>>

\* The run's thread grows, and the page will see a change of the run; its directory
\* becomes readable; an idle state is pruned.
ThreadGrows ==
  /\ May("growths") /\ service.readable
  /\ service' = [service EXCEPT !.fp = @ + 1] /\ pane' = [pane EXCEPT !.dirty = TRUE]
  /\ UNCHANGED <<wires, timers, retries>>
BecomesReadable ==
  /\ ~service.readable /\ service' = [service EXCEPT !.readable = TRUE]
  /\ pane' = [pane EXCEPT !.dirty = TRUE]
  /\ UNCHANGED <<wires, timers, retries, left>>
StatePruned ==
  /\ May("prunes") /\ service.held /\ service.state.attempt = None
  /\ service' = forgetIdle(service)
  /\ UNCHANGED <<pane, wires, timers, retries>>

ThreadNext ==
  \/ RefetchFires \/ RetryFires \/ SignalChanges \/ DebounceFires \/ MinutePasses
  \/ RetryTaskThreadLoad \/ RetryTaskThreadSummary \/ Reselect
  \/ AttemptEnds \/ ThreadGrows \/ BecomesReadable \/ StatePruned
  \/ \E w \in wires : Serve(w) \/ Deliver(w) \/ Fails(w)

\* The event loops of the page and of the service; a model call ends by its timeout.
PaneProgress == RefetchFires \/ RetryFires \/ SignalChanges \/ DebounceFires \/ MinutePasses
WireProgress == \E w \in wires : Serve(w) \/ Deliver(w)
ThreadFairness == WF_tvars(PaneProgress) /\ WF_tvars(WireProgress) /\ WF_tvars(AttemptEnds \/ BecomesReadable)

ThreadSpec == ThreadInit /\ [][ThreadNext]_tvars /\ ThreadFairness

----
(***************************************************************************)
(* Properties.                                                              *)
(***************************************************************************)

\* The summary on the page is the summary of the thread on the page, whatever order the
\* answers arrive in.
SummaryMatchesThread == pane.thread.state = "ready" => pane.thread.summary = pane.thread.fp

\* The service spends on one model call at a time for a run, and only what is under way
\* holds the run's state.
OneModelCall == Cardinality(service.llm) <= 1 /\ (service.llm # {} <=> service.state.attempt # None)

\* A thread whose summary keeps failing is not retried for ever: without a click the page
\* sets a bounded number of retries for it, however often it reads the failure.
RetriesBounded == retries.times <= MaxAutoRetries

\* The spinner stops: a pane that shows a summary as under way does not for ever.
PendingEnds == <>[]~pane.sum.pending

\* The thread on the page catches up with the run, unless its read failed and offers a
\* retry.
CaughtUp == pane.load = "error" \/ pane.thread.fp = service.fp
ThreadCatchesUp == <>[]CaughtUp
=============================================================================
