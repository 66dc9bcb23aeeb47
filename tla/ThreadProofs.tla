----------------------------- MODULE ThreadProofs -----------------------------
(***************************************************************************)
(* What holds of the task thread's pane and of the summariser behind it for *)
(* any retry limits, any growth of the thread and any order of answers,     *)
(* failures, clicks and selections.                                         *)
(***************************************************************************)
EXTENDS MCThread, TLAPS, FiniteSetTheorems

Fps == Nat \cup {None}
ThreadStates == {"none", "pending", "ready", "failed"}

\* A thread the page can hold: the summary it shows is its own.
Threads == {t \in [fp: Nat, state: ThreadStates, summary: Fps] :
              t.state = "ready" => t.summary = t.fp}
ThreadsOrNone == Threads \cup {NoThread}
Snapshots == {s \in [state: ThreadStates, fp: Fps] : s.state = "ready" => s.fp \in Nat}

Summaries == [trigger: Fps, failedKey: Fps, cooling: BOOLEAN, pendingKey: Fps, refetches: Nat,
              pending: BOOLEAN, failed: BOOLEAN, autoKey: Fps, autoCount: Nat]
Panes == [thread: ThreadsOrNone, load: {"idle", "loading", "ready", "error"}, missing: Nat,
          scheduled: BOOLEAN, dirty: BOOLEAN, sum: Summaries]
SummariserStates == [attempt: Fps, trailing: Fps, failed: Fps, cooling: BOOLEAN, seen: Fps]
Services == [readable: BOOLEAN, fp: Nat, artifact: Fps, held: BOOLEAN,
             state: SummariserStates, llm: SUBSET Nat]
Wires == [kind: {"thread"}, key: {None}, current: BOOLEAN, reply: ThreadsOrNone \cup {None}]
         \cup [kind: {"summary"}, key: Nat, current: BOOLEAN, reply: Snapshots \cup {None}]
Retries == [key: Fps, times: Nat]

\* One model call, the one the run's state names; a run with a call under way is held and
\* has been read, so a request for a summary does not begin another.
ServiceOK(s) ==
  /\ s \in Services
  /\ s.llm = IF s.state.attempt = None THEN {} ELSE {s.state.attempt}
  /\ s.state.attempt # None => s.held /\ s.state.seen # None

\* The retries set for a thread were counted for it, and the page holds that thread or a
\* later one.
RetryOK(r, p) ==
  /\ r \in Retries /\ r.times <= MaxAutoRetries
  /\ r.key # None =>
       /\ p.thread.fp # None /\ r.key <= p.thread.fp
       /\ r.key = p.thread.fp => p.sum.autoKey = r.key /\ r.times <= p.sum.autoCount

\* The pane's thread is no newer than the run's, and no newer than the read that is
\* about to replace it: reads that could arrive out of order are not current.
CurrentRead(w) == w.kind = "thread" /\ w.current
NoNewer(p, t) == p.thread.fp # None /\ t.fp # None => p.thread.fp <= t.fp
OrderOK(s, p, ws) ==
  /\ p.thread.fp # None => p.thread.fp <= s.fp
  /\ \A w \in ws : CurrentRead(w) /\ w.reply # None =>
       /\ w.reply.fp # None => w.reply.fp <= s.fp
       /\ NoNewer(p, w.reply)
  /\ \A v, w \in ws : CurrentRead(v) /\ CurrentRead(w) => v = w

ThreadInv ==
  /\ ServiceOK(service)
  /\ pane \in Panes
  /\ wires \subseteq Wires
  /\ RetryOK(retries, pane)
  /\ OrderOK(service, pane, wires)

\* The constants are what the model takes them for.
LEMMA ThreadNames == /\ None \notin Nat /\ MaxRefetches \in Nat /\ MaxAutoRetries \in Nat
                     /\ MaxTransient \in Nat
  BY RunThreadAssumption, ThreadConstants

LEMMA ThreadInvImplies == ThreadInv => SummariesInOrder
<1> SUFFICES ASSUME ThreadInv PROVE SummariesInOrder
  OBVIOUS
<1> USE ThreadNames
<1>1. SummaryMatchesThread
  BY DEF ThreadInv, Panes, ThreadsOrNone, Threads, NoThread, SummaryMatchesThread
<1>2. OneModelCall
  <2>1. CASE service.state.attempt = None
    BY <2>1, FS_EmptySet DEF ThreadInv, ServiceOK, OneModelCall
  <2>2. CASE service.state.attempt # None
    <3>1. service.llm = {service.state.attempt}
      BY <2>2 DEF ThreadInv, ServiceOK
    <3>2. Cardinality(service.llm) = 1
      BY <3>1, FS_Singleton
    <3> QED
      BY <2>2, <3>1, <3>2 DEF OneModelCall
  <2> QED
    BY <2>1, <2>2
<1>3. RetriesBounded
  BY DEF ThreadInv, RetryOK, RetriesBounded
<1> QED
  BY <1>1, <1>2, <1>3 DEF SummariesInOrder

LEMMA InitThread == ThreadInit => ThreadInv
<1> SUFFICES ASSUME ThreadInit PROVE ThreadInv
  OBVIOUS
<1> USE ThreadNames
<1>1. ServiceOK(service)
  <2>1. PICK readable \in BOOLEAN : service = Service(readable, 1)
    BY DEF ThreadInit
  <2> QED
    BY <2>1 DEF Service, NoState, ServiceOK, Services, SummariserStates, Fps
<1>2. pane \in Panes
  BY DEF ThreadInit, NewPane, NoThread, NoSummary, Panes, Summaries, ThreadsOrNone, Fps
<1>3. RetryOK(retries, pane)
  BY DEF ThreadInit, NoRetries, RetryOK, Retries, Fps
<1>4. OrderOK(service, pane, wires)
  BY DEF ThreadInit, NewPane, NoThread, OrderOK
<1> QED
  BY <1>1, <1>2, <1>3, <1>4 DEF ThreadInv, ThreadInit

-----------------------------------------------------------------------------
(* The summariser.                                                          *)

LEMMA ForgetOK ==
  ASSUME NEW s, ServiceOK(s)
  PROVE  ServiceOK(forgetIdle(s)) /\ forgetIdle(s).fp = s.fp
  BY ThreadNames DEF ServiceOK, Services, SummariserStates, Fps, forgetIdle, NoState

LEMMA PeekOK ==
  ASSUME NEW s, ServiceOK(s)
  PROVE  /\ ServiceOK(afterPeek(s)) /\ afterPeek(s).fp = s.fp
         /\ afterPeek(s).state.attempt = s.state.attempt /\ afterPeek(s).llm = s.llm
         /\ afterPeek(s).readable = s.readable
<1> USE ThreadNames
<1>1. CASE s.artifact = s.fp
  BY <1>1, ForgetOK DEF ServiceOK, Services, SummariserStates, Fps, afterPeek, forgetIdle, NoState
<1>2. CASE s.artifact # s.fp
  BY <1>2 DEF ServiceOK, Services, SummariserStates, Fps, afterPeek
<1> QED
  BY <1>1, <1>2

LEMMA PeekedOK ==
  ASSUME NEW s, ServiceOK(s)
  PROVE  /\ peeked(s) \in Snapshots
         /\ peeked(s).state = "ready" => peeked(s).fp = s.fp
<1> USE ThreadNames DEF ServiceOK, Services, SummariserStates, Fps, peeked, Snapshot, Snapshots, ThreadStates
<1>1. CASE s.artifact = s.fp
  BY <1>1
<1>2. CASE s.artifact # s.fp /\ ~s.held
  BY <1>2
<1>3. CASE s.artifact # s.fp /\ s.held /\ s.state.attempt # None
  BY <1>3
<1>4. CASE s.artifact # s.fp /\ s.held /\ s.state.attempt = None
  BY <1>4
<1> QED
  BY <1>1, <1>2, <1>3, <1>4

\* A request begins a call only when none is under way.
LEMMA RequestOK ==
  ASSUME NEW s, ServiceOK(s)
  PROVE  /\ ServiceOK(request(s).service) /\ request(s).service.fp = s.fp
         /\ request(s).reply \in Snapshots
<1> USE ThreadNames
<1>0. \A x \in ThreadStates \ {"ready"} : Snapshot(x) \in Snapshots
  BY DEF Snapshot, Snapshots, ThreadStates, Fps
<1> DEFINE busy == s.held /\ s.state.attempt # None /\ s.state.seen # None
           kept == [afterPeek(s) EXCEPT !.held = TRUE, !.state.seen = s.fp]
<1>1. CASE busy
  <2>1. request(s).reply = Snapshot("pending")
        /\ request(s).service \in {s, [s EXCEPT !.state.trailing = s.state.seen]}
    BY <1>1 DEF request
  <2> QED
    BY <1>0, <2>1 DEF ServiceOK, Services, SummariserStates, ThreadStates
<1>2. CASE ~busy
  <2>1. s.state.attempt = None /\ s.llm = {}
    BY <1>2 DEF ServiceOK
  <2>2. CASE ~s.readable
    BY <1>0, <1>2, <2>2, ForgetOK DEF request, ThreadStates
  <2>3. CASE s.readable /\ peeked(s).state = "ready"
    BY <1>2, <2>3, PeekOK, PeekedOK DEF request
  <2>4. CASE s.readable /\ peeked(s).state # "ready"
    <3>1. /\ ServiceOK(afterPeek(s)) /\ afterPeek(s).fp = s.fp
          /\ afterPeek(s).state.attempt = None /\ afterPeek(s).llm = {}
      BY <2>1, PeekOK
    <3>2. ServiceOK(kept) /\ kept.fp = s.fp /\ kept.state.attempt = None /\ kept.llm = {}
          /\ kept.held /\ kept.state.seen = s.fp
      BY <3>1 DEF ServiceOK, Services, SummariserStates, Fps
    <3> HIDE DEF kept
    <3>3. CASE peeked(s).state = "failed"
      BY <1>2, <2>4, <3>2, <3>3, PeekedOK DEF request, kept
    <3>4. CASE peeked(s).state # "failed"
      <4>1. /\ request(s).service = beginAttempt([kept EXCEPT !.state.trailing = None], s.fp)
            /\ request(s).reply = Snapshot("pending")
        BY <1>2, <2>4, <3>4 DEF request, kept
      <4>2. s.fp \in Nat
        BY DEF ServiceOK, Services
      <4> DEFINE fresh == [kept EXCEPT !.state.trailing = None]
      <4>3. /\ fresh \in Services /\ fresh.fp = s.fp /\ fresh.llm = {}
            /\ fresh.held /\ fresh.state.seen = s.fp
        BY <3>2 DEF ServiceOK, Services, SummariserStates, Fps
      <4> HIDE DEF fresh
      <4>4. ServiceOK(beginAttempt(fresh, s.fp)) /\ beginAttempt(fresh, s.fp).fp = s.fp
        BY <4>2, <4>3 DEF beginAttempt, ServiceOK, Services, SummariserStates, Fps
      <4> QED
        BY <1>0, <4>1, <4>4 DEF fresh, ThreadStates
    <3> QED
      BY <3>3, <3>4
  <2> QED
    BY <2>2, <2>3, <2>4
<1> QED
  BY <1>1, <1>2

\* When a call ends none is under way, and the trailing one can begin.
LEMMA AttemptEndsOK ==
  ASSUME NEW s, ServiceOK(s), NEW fp \in s.llm, NEW outcome
  PROVE  ServiceOK(attemptEnds(s, fp, outcome)) /\ attemptEnds(s, fp, outcome).fp = s.fp
<1> USE ThreadNames
<1> DEFINE idle == [s EXCEPT !.llm = @ \ {fp}]
           done == performed(idle, fp, outcome)
           free == [done EXCEPT !.state.attempt = None]
           over == [free EXCEPT !.state.trailing = None]
<1>1. /\ fp \in Nat /\ s.state.attempt = fp /\ s.held /\ s.state.seen # None
      /\ idle \in Services /\ idle.llm = {} /\ idle.fp = s.fp /\ idle.held
      /\ idle.state = s.state
  BY DEF ServiceOK, Services
<1> HIDE DEF idle
<1>2. /\ done \in Services /\ done.llm = {} /\ done.fp = s.fp /\ done.held
      /\ done.state.seen # None
  <2>1. CASE outcome = "failed"
    BY <1>1, <2>1 DEF performed, markFailed, Services, SummariserStates, Fps
  <2>2. CASE outcome # "failed"
    BY <1>1, <2>2 DEF performed, Services, SummariserStates, Fps
  <2> QED
    BY <2>1, <2>2
<1> HIDE DEF done
<1>3. /\ free \in Services /\ free.llm = {} /\ free.fp = s.fp /\ free.held
      /\ free.state.seen # None /\ free.state.attempt = None
  BY <1>2 DEF Services, SummariserStates, Fps
<1> HIDE DEF free
<1>4. /\ over \in Services /\ over.llm = {} /\ over.fp = s.fp /\ over.held
      /\ over.state.seen # None /\ over.state.attempt = None
  BY <1>3 DEF Services, SummariserStates, Fps
<1> HIDE DEF over
<1>5. attemptEnds(s, fp, outcome) = trailed(free, fp)
  BY DEF attemptEnds, free, done, idle
<1>6. trailed(free, fp) \in {over, beginAttempt(over, free.fp)}
  BY DEF trailed, over
<1>7. ServiceOK(over)
  BY <1>4 DEF ServiceOK
<1>8. ServiceOK(beginAttempt(over, free.fp)) /\ beginAttempt(over, free.fp).fp = s.fp
  <2>1. free.fp \in Nat
    BY <1>3 DEF Services
  <2> QED
    BY <1>3, <1>4, <2>1 DEF beginAttempt, ServiceOK, Services, SummariserStates, Fps
<1> QED
  BY <1>4, <1>5, <1>6, <1>7, <1>8

-----------------------------------------------------------------------------
(* What an answer does to the pane.                                         *)

Doings == [pane: Panes, refetch: Nat, minute: {0, 1}, asks: Fps]

\* The retries after an answer, as Performs has them.
RetriesAfter(r, does) ==
  IF does.pane.thread.state = "ready" THEN NoRetries
  ELSE IF does.minute = 0 THEN r
  ELSE [key |-> does.pane.sum.failedKey,
        times |-> IF r.key = does.pane.sum.failedKey THEN r.times + 1 ELSE 1]

\* An answer that leaves the pane on the thread with fingerprint fp, and the retries
\* counted.
Fine(r, fp, does) ==
  /\ does \in Doings /\ does.pane.thread.fp = fp
  /\ RetryOK(RetriesAfter(r, does), does.pane)

\* Only a thread that was read has a fingerprint.
LEMMA ReadThread ==
  ASSUME NEW p \in Panes
  PROVE  /\ p.thread.fp # None <=> p.thread \in Threads
         /\ p.thread.fp # None => p.thread.fp \in Nat
         /\ p.thread.fp \in Fps /\ p.thread.state \in ThreadStates
  BY ThreadNames DEF Panes, ThreadsOrNone, Threads, NoThread, Fps, ThreadStates

\* An answer that sets no retry, and counts none back for the thread it is about.
LEMMA NoRetrySet ==
  ASSUME NEW p \in Panes, NEW r, RetryOK(r, p), NEW does \in Doings,
         does.minute = 0, does.pane.thread.fp = p.thread.fp,
         \/ does.pane.sum.autoKey = p.sum.autoKey /\ does.pane.sum.autoCount = p.sum.autoCount
         \/ p.sum.autoKey # p.thread.fp
         \/ does.pane.thread.state = "ready"
  PROVE  Fine(r, p.thread.fp, does)
<1>1. CASE does.pane.thread.state = "ready"
  BY <1>1, ThreadNames DEF Fine, RetriesAfter, RetryOK, NoRetries, Retries, Fps
<1>2. CASE does.pane.thread.state # "ready"
  BY <1>2, ThreadNames DEF Fine, RetriesAfter, RetryOK
<1> QED
  BY <1>1, <1>2

LEMMA FailureOK ==
  ASSUME NEW p \in Panes, NEW r, RetryOK(r, p), NEW t \in Threads, t.fp = p.thread.fp
  PROVE  Fine(r, t.fp, summaryFailure(p, t))
<1> USE ThreadNames
<1> DEFINE key == t.fp
           count == IF p.sum.autoKey = key THEN p.sum.autoCount + 1 ELSE 1
           does == summaryFailure(p, t)
           shown == [t EXCEPT !.state = "failed", !.summary = None]
           cooling == IF p.sum.failedKey = key THEN p.sum.cooling ELSE TRUE
           sum == [NoSummary EXCEPT !.failedKey = key, !.failed = TRUE, !.cooling = cooling,
                                    !.autoKey = key, !.autoCount = count]
<1>1. key \in Nat /\ count \in Nat /\ count >= 1 /\ p.sum \in Summaries
  BY DEF Threads, Panes, Summaries
<1>0. cooling \in BOOLEAN
  BY DEF Panes, Summaries
<1> HIDE DEF cooling
<1>2. shown \in Threads /\ shown.fp = key /\ shown.state = "failed"
  BY DEF Threads, ThreadStates, Fps
<1>3. sum \in Summaries /\ sum.failedKey = key /\ sum.autoKey = key /\ sum.autoCount = count
  <2>1. count \in Nat
    BY <1>1
  <2> HIDE DEF count
  <2> QED
    BY <1>0, <1>1, <2>1 DEF NoSummary, Summaries, Fps
<1>4. does = [pane |-> [p EXCEPT !.thread = shown, !.sum = sum], refetch |-> 0,
              minute |-> IF count <= MaxAutoRetries THEN 1 ELSE 0, asks |-> None]
  BY DEF summaryFailure, Does, cooling
<1> HIDE DEF shown, sum, count, does
<1>5. does \in Doings /\ does.pane.thread = shown /\ does.pane.sum = sum
  BY <1>2, <1>3, <1>4 DEF Doings, Panes, ThreadsOrNone, Fps
<1>6. r.key = key => r.times <= p.sum.autoCount /\ p.sum.autoKey = key
  BY <1>1 DEF RetryOK
<1>7. r.key = key => r.times + 1 <= count
  BY <1>1, <1>6 DEF RetryOK, Retries, count, Panes, Summaries
<1>8. r.key # None => r.key <= key
  BY DEF RetryOK
<1>9. RetryOK(RetriesAfter(r, does), does.pane)
  <2>1. CASE does.minute = 0
    <3>1. RetriesAfter(r, does) = r
      BY <1>2, <1>5, <2>1 DEF RetriesAfter
    <3> QED
      BY <1>1, <1>2, <1>3, <1>5, <1>6, <1>7, <1>8, <3>1 DEF RetryOK, Retries
  <2>2. CASE does.minute = 1
    <3>1. count <= MaxAutoRetries
      BY <1>4, <2>2
    <3>2. RetriesAfter(r, does) = [key |-> key, times |-> IF r.key = key THEN r.times + 1 ELSE 1]
      BY <1>2, <1>3, <1>5, <2>2 DEF RetriesAfter
    <3>3. r.times \in Nat
      BY DEF RetryOK, Retries
    <3> QED
      BY <1>1, <1>2, <1>3, <1>5, <1>7, <3>1, <3>2, <3>3 DEF RetryOK, Retries, Fps
  <2> QED
    BY <1>4, <2>1, <2>2
<1> QED
  BY <1>2, <1>5, <1>9 DEF Fine, does

LEMMA WaitsOK ==
  ASSUME NEW p \in Panes, NEW r, RetryOK(r, p), NEW key \in Nat, NEW plan
  PROVE  Fine(r, p.thread.fp, Waits(p, key, plan))
<1> USE ThreadNames
<1> DEFINE does == Waits(p, key, plan)
<1> DEFINE counted == IF p.sum.pendingKey = key THEN p.sum.refetches ELSE 0
<1>0. counted \in Nat
  BY DEF Panes, Summaries
<1>1. does \in Doings
  <2>1. CASE plan = "refetch"
    <3> DEFINE next == counted + 1
    <3>1. does = [pane |-> [p EXCEPT !.sum = [p.sum EXCEPT !.pendingKey = key,
                                                !.refetches = next,
                                                !.pending = TRUE, !.failed = FALSE]],
                  refetch |-> 1, minute |-> 0, asks |-> None]
      BY <2>1 DEF Waits, Does, Panes, Summaries
    <3>2. next \in Nat
      BY <1>0
    <3> HIDE DEF next, counted, does
    <3> QED
      BY <3>1, <3>2 DEF Doings, Panes, Summaries, Fps
  <2>2. CASE plan # "refetch"
    <3>1. does = Does([p EXCEPT !.sum = [p.sum EXCEPT !.pendingKey = key, !.refetches = counted,
                                              !.pending = FALSE, !.failed = TRUE]])
      BY <2>2 DEF Waits, Does, Panes, Summaries
    <3> HIDE DEF counted, does
    <3> QED
      BY <1>0, <3>1 DEF Does, Doings, Panes, Summaries, Fps
  <2> QED
    BY <2>1, <2>2
<1>2. /\ does.minute = 0 /\ does.pane.thread.fp = p.thread.fp
      /\ does.pane.sum.autoKey = p.sum.autoKey /\ does.pane.sum.autoCount = p.sum.autoCount
  BY DEF Waits, Does, Panes, Summaries
<1> QED
  BY <1>1, <1>2, NoRetrySet

LEMMA TriggersOK ==
  ASSUME NEW p \in Panes, NEW r, RetryOK(r, p), p.thread \in Threads
  PROVE  Fine(r, p.thread.fp, Triggers(p, p.thread.fp))
<1> USE ThreadNames
<1> DEFINE does == Triggers(p, p.thread.fp)
<1>1. p.thread.fp \in Nat
  BY DEF Threads
<1>2. does \in Doings
  <2> DEFINE same == p.sum.autoKey = p.thread.fp
             key == IF same THEN p.thread.fp ELSE None
             count == IF same THEN p.sum.autoCount ELSE 0
             sum == [NoSummary EXCEPT !.trigger = p.thread.fp, !.pending = TRUE,
                                      !.autoKey = key, !.autoCount = count]
  <2>1. key \in Fps /\ count \in Nat
    BY <1>1 DEF Panes, Summaries, Fps
  <2>2. does = [pane |-> [p EXCEPT !.sum = sum], refetch |-> 0, minute |-> 0, asks |-> p.thread.fp]
    BY DEF Triggers, Does
  <2> HIDE DEF same, key, count, does
  <2>3. sum \in Summaries
    BY <1>1, <2>1 DEF Summaries, NoSummary, Fps
  <2> HIDE DEF sum
  <2> QED
    BY <1>1, <2>2, <2>3 DEF Doings, Panes, Fps
<1>3. /\ does.minute = 0 /\ does.pane.thread.fp = p.thread.fp
      /\ p.sum.autoKey = p.thread.fp => /\ does.pane.sum.autoKey = p.sum.autoKey
                                       /\ does.pane.sum.autoCount = p.sum.autoCount
  BY <1>1 DEF Triggers, Does, Panes, Summaries, NoSummary
<1> HIDE DEF does
<1>4. Fine(r, p.thread.fp, does)
  BY <1>2, <1>3, NoRetrySet
<1> QED
  BY <1>4 DEF does

LEMMA GivenUpOK ==
  ASSUME NEW p \in Panes, NEW r, RetryOK(r, p)
  PROVE  /\ Fine(r, p.thread.fp, FetchGivenUp(p)) /\ Fine(r, p.thread.fp, ThreadMissing(p))
         /\ Fine(r, p.thread.fp, Does(p))
<1> USE ThreadNames
<1> DEFINE again == [Does([p EXCEPT !.load = "loading", !.missing = @ + 1]) EXCEPT !.refetch = 1]
           ended == FetchGivenUp(p)
           same == Does(p)
<1> DEFINE failed == p.sum.failed \/ p.sum.pending \/ p.thread.state = "pending"
<1>0. failed \in BOOLEAN
  OBVIOUS
<1>1. ended = Does([p EXCEPT !.load = "error", !.sum = [p.sum EXCEPT !.pending = FALSE,
                                                                     !.failed = failed]])
  <2> DEFINE q == [p EXCEPT !.load = "error", !.sum.pending = FALSE, !.sum.failed = failed]
  <2>1. ended = Does(q)
    BY DEF FetchGivenUp, Panes, Summaries
  <2>2. q = [p EXCEPT !.load = "error", !.sum = [p.sum EXCEPT !.pending = FALSE,
                                                              !.failed = failed]]
    <3> HIDE DEF failed
    <3> QED
      BY DEF Panes, Summaries
  <2> HIDE DEF q, ended, failed
  <2> QED
    BY <2>1, <2>2
<1> HIDE DEF failed, ended
<1>2. /\ ended \in Doings /\ ended.minute = 0 /\ ended.pane.thread.fp = p.thread.fp
      /\ ended.pane.sum.autoKey = p.sum.autoKey /\ ended.pane.sum.autoCount = p.sum.autoCount
  <2> DEFINE sum == [p.sum EXCEPT !.pending = FALSE, !.failed = failed]
  <2>1. sum \in Summaries /\ sum.autoKey = p.sum.autoKey /\ sum.autoCount = p.sum.autoCount
    BY <1>0 DEF Panes, Summaries
  <2>2. ended = [pane |-> [p EXCEPT !.load = "error", !.sum = sum],
                 refetch |-> 0, minute |-> 0, asks |-> None]
    BY <1>1 DEF Does
  <2> HIDE DEF sum
  <2> QED
    BY <2>1, <2>2 DEF Doings, Panes, Fps
<1>4. /\ again \in Doings /\ again.minute = 0 /\ again.pane.thread.fp = p.thread.fp
      /\ again.pane.sum = p.sum
  <2> DEFINE missing == p.missing + 1
             q == [p EXCEPT !.load = "loading", !.missing = missing]
  <2>0. missing \in Nat
    BY DEF Panes
  <2>2. again = [pane |-> q, refetch |-> 1, minute |-> 0, asks |-> None]
    BY DEF Does, Panes
  <2> HIDE DEF missing, again
  <2>1. q \in Panes /\ q.thread = p.thread /\ q.sum = p.sum
    BY <2>0 DEF Panes
  <2> HIDE DEF q
  <2> QED
    BY <2>1, <2>2 DEF Doings, Fps
<1>5. /\ same \in Doings /\ same.minute = 0 /\ same.pane = p
  BY DEF Does, Doings, Fps
<1> HIDE DEF again, same
<1>3. Fine(r, p.thread.fp, again) /\ Fine(r, p.thread.fp, ended) /\ Fine(r, p.thread.fp, same)
  BY <1>2, <1>4, <1>5, NoRetrySet
<1> QED
  BY <1>3 DEF ThreadMissing, again, ended, same

\* Showing a thread that is no older keeps the count.
LEMMA ShowingOK ==
  ASSUME NEW p \in Panes, NEW r, RetryOK(r, p), NEW t \in Threads, NoNewer(p, t)
  PROVE  LET q == [p EXCEPT !.thread = t, !.load = "ready", !.missing = 0]
         IN  q \in Panes /\ RetryOK(r, q) /\ q.thread = t
<1> USE ThreadNames
<1> DEFINE q == [p EXCEPT !.thread = t, !.load = "ready", !.missing = 0]
<1>1. q \in Panes /\ q.thread = t /\ q.sum = p.sum
  BY DEF Panes, ThreadsOrNone
<1>2. t.fp \in Nat /\ t.fp # None /\ p.thread.fp \in Fps
  BY ReadThread DEF Threads
<1>3. RetryOK(r, q)
  <2> SUFFICES ASSUME r.key # None
               PROVE  /\ r.key <= t.fp
                      /\ r.key = t.fp => p.sum.autoKey = r.key /\ r.times <= p.sum.autoCount
    BY <1>1, <1>2 DEF RetryOK
  <2>1. /\ r.key \in Nat /\ p.thread.fp \in Nat /\ r.key <= p.thread.fp
        /\ r.key = p.thread.fp => p.sum.autoKey = r.key /\ r.times <= p.sum.autoCount
    BY <1>2 DEF RetryOK, Retries, Fps
  <2>2. p.thread.fp <= t.fp
    BY <1>2, <2>1 DEF NoNewer
  <2> QED
    BY <1>2, <2>1, <2>2
<1> QED
  BY <1>1, <1>3

LEMMA CooledOK ==
  ASSUME NEW p \in Panes, NEW r, RetryOK(r, p)
  PROVE  LET q == [p EXCEPT !.sum.failedKey = None, !.sum.cooling = FALSE]
         IN  q \in Panes /\ RetryOK(r, q) /\ q.thread = p.thread
  BY ThreadNames DEF Panes, Summaries, Fps, RetryOK

LEMMA GotThreadOK ==
  ASSUME NEW p \in Panes, NEW r, RetryOK(r, p), NEW t \in Threads, NoNewer(p, t)
  PROVE  Fine(r, t.fp, GotTaskThread(p, t))
<1> USE ThreadNames
<1> DEFINE q == [p EXCEPT !.thread = t, !.load = "ready", !.missing = 0]
           plan == planTaskThreadSummary(q, t)
           cooled == [q EXCEPT !.sum.failedKey = None, !.sum.cooling = FALSE]
           shown == Does([q EXCEPT !.sum = NoSummary])
           rests == Does([q EXCEPT !.sum.pending = FALSE])
           does == GotTaskThread(p, t)
<1>1. q \in Panes /\ RetryOK(r, q) /\ q.thread = t
  BY ShowingOK
<1>2. t.fp \in Nat /\ t.state \in ThreadStates
  BY DEF Threads
<1>3. does = CASE t.state = "failed" -> summaryFailure(q, t)
               [] t.state = "ready" -> shown
               [] t.state = "pending" -> Waits(cooled, t.fp, plan)
               [] t.state = "none" /\ plan = "trigger" -> Triggers(q, t.fp)
               [] OTHER -> rests
  BY DEF GotTaskThread
<1> HIDE DEF q, plan, does
<1>4. CASE t.state = "failed"
  <2>1. does = summaryFailure(q, t)
    BY <1>3, <1>4
  <2> QED
    BY <1>1, <2>1, FailureOK DEF does
<1>5. CASE t.state = "ready"
  <2>1. does = shown
    BY <1>3, <1>5
  <2>2. /\ shown \in Doings /\ shown.minute = 0 /\ shown.pane.thread = t
    BY <1>1 DEF Does, Doings, Panes, NoSummary, Summaries, Fps
  <2> HIDE DEF shown
  <2>3. Fine(r, q.thread.fp, shown)
    BY <1>1, <1>5, <2>2, NoRetrySet
  <2> QED
    BY <1>1, <2>1, <2>3 DEF does
<1>6. CASE t.state = "pending"
  <2>1. does = Waits(cooled, t.fp, plan)
    BY <1>3, <1>6
  <2>2. cooled \in Panes /\ RetryOK(r, cooled) /\ cooled.thread = t
    BY <1>1, CooledOK
  <2> HIDE DEF cooled
  <2>3. Fine(r, cooled.thread.fp, Waits(cooled, t.fp, plan))
    BY <1>2, <2>2, WaitsOK
  <2> QED
    BY <2>1, <2>2, <2>3 DEF does
<1>7. CASE t.state = "none" /\ plan = "trigger"
  <2>1. does = Triggers(q, t.fp)
    BY <1>3, <1>7
  <2>2. Fine(r, q.thread.fp, Triggers(q, q.thread.fp))
    BY <1>1, TriggersOK
  <2> QED
    BY <1>1, <2>1, <2>2 DEF does
<1>8. CASE t.state = "none" /\ plan # "trigger"
  <2>1. does = rests
    BY <1>3, <1>8
  <2>2. /\ rests \in Doings /\ rests.minute = 0 /\ rests.pane.thread = t
        /\ rests.pane.sum.autoKey = q.sum.autoKey /\ rests.pane.sum.autoCount = q.sum.autoCount
    <3> DEFINE sum == [q.sum EXCEPT !.pending = FALSE]
    <3>1. sum \in Summaries /\ sum.autoKey = q.sum.autoKey /\ sum.autoCount = q.sum.autoCount
      BY <1>1 DEF Panes, Summaries
    <3>2. rests = [pane |-> [q EXCEPT !.sum = sum], refetch |-> 0, minute |-> 0, asks |-> None]
      BY <1>1 DEF Does, Panes
    <3> HIDE DEF sum, rests
    <3> QED
      BY <1>1, <3>1, <3>2 DEF Doings, Panes, Fps
  <2> HIDE DEF rests
  <2>3. Fine(r, q.thread.fp, rests)
    BY <1>1, <2>2, NoRetrySet
  <2> QED
    BY <1>1, <2>1, <2>3 DEF does
<1> QED
  BY <1>2, <1>4, <1>5, <1>6, <1>7, <1>8 DEF ThreadStates

LEMMA SummaryFailedOK ==
  ASSUME NEW p \in Panes, NEW r, RetryOK(r, p), NEW key \in Nat
  PROVE  Fine(r, p.thread.fp, SummaryFailed(p, key))
<1>1. CASE AppliesFailure(p, key)
  <2>1. p.thread \in Threads /\ SummaryFailed(p, key) = summaryFailure(p, p.thread)
    BY <1>1, ReadThread, ThreadNames DEF AppliesFailure, SummaryFailed
  <2> QED
    BY <2>1, FailureOK
<1>2. CASE ~AppliesFailure(p, key)
  BY <1>2, GivenUpOK DEF SummaryFailed
<1> QED
  BY <1>1, <1>2

\* A summary is put only on the thread it was made for.
LEMMA GotSummaryOK ==
  ASSUME NEW p \in Panes, NEW r, RetryOK(r, p), NEW key \in Nat, NEW snapshot \in Snapshots
  PROVE  Fine(r, p.thread.fp, GotTaskThreadSummary(p, key, snapshot))
<1> USE ThreadNames
<1> DEFINE apart == Does([p EXCEPT !.sum.pending = FALSE])
           shown == Does([p EXCEPT !.thread.state = "ready", !.thread.summary = snapshot.fp,
                                   !.sum = NoSummary])
           held == [p EXCEPT !.thread.state = "pending", !.thread.summary = None]
           late == p.sum.pendingKey = key /\ p.sum.refetches >= MaxRefetches
           cooled == [held EXCEPT !.sum.failedKey = None, !.sum.cooling = FALSE]
           none == Does([p EXCEPT !.thread.state = "none", !.thread.summary = None,
                                  !.sum.failedKey = None, !.sum.cooling = FALSE,
                                  !.sum.pending = FALSE, !.sum.failed = FALSE])
           does == GotTaskThreadSummary(p, key, snapshot)
<1>0. snapshot.state \in ThreadStates /\ snapshot.fp \in Fps
  BY DEF Snapshots
<1>1. CASE snapshot.state = "ready" /\ p.thread.fp # snapshot.fp
  <2>1. does = apart
    BY <1>1 DEF GotTaskThreadSummary
  <2>2. /\ apart \in Doings /\ apart.minute = 0 /\ apart.pane.thread = p.thread
        /\ apart.pane.sum.autoKey = p.sum.autoKey /\ apart.pane.sum.autoCount = p.sum.autoCount
    BY DEF Does, Doings, Panes, Summaries, Fps
  <2> HIDE DEF apart, does
  <2> QED
    BY <2>1, <2>2, NoRetrySet DEF does
<1>2. CASE snapshot.state = "ready" /\ p.thread.fp = snapshot.fp
  <2>1. does = shown
    BY <1>2 DEF GotTaskThreadSummary
  <2>2. snapshot.fp \in Nat /\ p.thread \in Threads
    BY <1>2, ReadThread DEF Snapshots
  <2> DEFINE t == [p.thread EXCEPT !.state = "ready", !.summary = snapshot.fp]
  <2>3. t \in Threads /\ t.fp = p.thread.fp /\ t.state = "ready"
    BY <1>2, <2>2 DEF Threads, ThreadStates, Fps
  <2>4. shown = [pane |-> [p EXCEPT !.thread = t, !.sum = NoSummary],
                 refetch |-> 0, minute |-> 0, asks |-> None]
    BY DEF Does, Panes
  <2> HIDE DEF shown, t
  <2>5. shown \in Doings /\ shown.minute = 0 /\ shown.pane.thread = t
    BY <2>3, <2>4 DEF Doings, Panes, ThreadsOrNone, NoSummary, Summaries, Fps
  <2>6. Fine(r, p.thread.fp, shown)
    BY <2>3, <2>5, NoRetrySet
  <2> QED
    BY <2>1, <2>6
<1>3. CASE snapshot.state = "failed"
  <2>1. does = SummaryFailed(p, key)
    BY <1>3 DEF GotTaskThreadSummary
  <2> QED
    BY <2>1, SummaryFailedOK
<1>4. CASE snapshot.state \in {"pending", "none"} /\ p.thread.fp # key
  <2>1. does = Does(p)
    BY <1>4 DEF GotTaskThreadSummary
  <2> QED
    BY <2>1, GivenUpOK
<1>5. CASE snapshot.state = "pending" /\ p.thread.fp = key
  <2>1. does = IF late THEN Waits(held, key, "timed-out") ELSE Waits(cooled, key, "refetch")
    BY <1>5 DEF GotTaskThreadSummary
  <2> DEFINE t == [p.thread EXCEPT !.state = "pending", !.summary = None]
  <2>2. t \in Threads /\ t.fp = p.thread.fp
    BY <1>5, ReadThread DEF Threads, ThreadStates, Fps
  <2>3. held = [p EXCEPT !.thread = t]
    BY DEF Panes
  <2> HIDE DEF t, held, late, does
  <2>4. held \in Panes /\ RetryOK(r, held) /\ held.thread.fp = p.thread.fp
    BY <2>2, <2>3 DEF Panes, ThreadsOrNone, RetryOK
  <2>5. cooled \in Panes /\ RetryOK(r, cooled) /\ cooled.thread = held.thread
    BY <2>4, CooledOK
  <2> HIDE DEF cooled
  <2>6. Fine(r, p.thread.fp, Waits(held, key, "timed-out"))
    BY <2>4, WaitsOK
  <2>7. Fine(r, p.thread.fp, Waits(cooled, key, "refetch"))
    BY <2>4, <2>5, WaitsOK
  <2> QED
    BY <2>1, <2>6, <2>7 DEF does
<1>6. CASE snapshot.state = "none" /\ p.thread.fp = key
  <2>1. does = none
    BY <1>6 DEF GotTaskThreadSummary
  <2> DEFINE t == [p.thread EXCEPT !.state = "none", !.summary = None]
             sum == [p.sum EXCEPT !.failedKey = None, !.cooling = FALSE, !.pending = FALSE,
                                  !.failed = FALSE]
  <2>2. t \in Threads /\ t.fp = p.thread.fp
    BY <1>6, ReadThread DEF Threads, ThreadStates, Fps
  <2>3. none = [pane |-> [p EXCEPT !.thread = t, !.sum = sum],
                refetch |-> 0, minute |-> 0, asks |-> None]
    BY DEF Does, Panes, Summaries
  <2>4. sum \in Summaries /\ sum.autoKey = p.sum.autoKey /\ sum.autoCount = p.sum.autoCount
    BY DEF Panes, Summaries, Fps
  <2> HIDE DEF t, sum, none
  <2>5. /\ none \in Doings /\ none.minute = 0 /\ none.pane.thread = t /\ none.pane.sum = sum
    BY <2>2, <2>3, <2>4 DEF Doings, Panes, ThreadsOrNone, Fps
  <2>6. Fine(r, p.thread.fp, none)
    BY <2>2, <2>4, <2>5, NoRetrySet
  <2> QED
    BY <2>1, <2>6
<1> QED
  BY <1>0, <1>1, <1>2, <1>3, <1>4, <1>5, <1>6 DEF ThreadStates

-----------------------------------------------------------------------------
(* The requests in flight.                                                  *)

\* Order and count depend on the pane's thread and its count only.
LEMMA SamePaneOK ==
  ASSUME NEW s, NEW r, NEW p, NEW q, NEW ws, q.thread = p.thread,
         q.sum.autoKey = p.sum.autoKey, q.sum.autoCount = p.sum.autoCount
  PROVE  /\ RetryOK(r, p) => RetryOK(r, q)
         /\ OrderOK(s, p, ws) => OrderOK(s, q, ws)
  BY DEF RetryOK, OrderOK, NoNewer

LEMMA NoRetriesOK ==
  ASSUME NEW p PROVE RetryOK(NoRetries, p)
  BY ThreadNames DEF RetryOK, NoRetries, Retries, Fps

LEMMA FewerWiresOK ==
  ASSUME NEW s, NEW p, NEW ws, OrderOK(s, p, ws), NEW xs \in SUBSET ws
  PROVE  OrderOK(s, p, xs)
  BY DEF OrderOK

\* A new read makes every other one outdated.
LEMMA FetchingOK ==
  ASSUME NEW s, NEW p, NEW ws \in SUBSET Wires, OrderOK(s, p, ws)
  PROVE  Fetching(ws) \subseteq Wires /\ OrderOK(s, p, Fetching(ws))
<1> DEFINE new == Wire("thread", None)
<1>1. new \in Wires /\ new.reply = None
  BY DEF Wire, Wires
<1>2. \A w \in Fetching(ws) : w = new \/ (w \in Wires /\ ~CurrentRead(w))
  <2> SUFFICES ASSUME NEW w \in Outdated(ws, "thread")
               PROVE  w \in Wires /\ ~CurrentRead(w)
    BY DEF Fetching
  <2>1. PICK x \in ws : w = IF x.kind = "thread" THEN [x EXCEPT !.current = FALSE] ELSE x
    BY DEF Outdated
  <2>2. x \in Wires
    OBVIOUS
  <2> QED
    BY <2>1, <2>2 DEF Wires, CurrentRead
<1> HIDE DEF new
<1> QED
  BY <1>1, <1>2 DEF OrderOK

LEMMA AskingOK ==
  ASSUME NEW s, NEW p, NEW ws \in SUBSET Wires, OrderOK(s, p, ws)
  PROVE  /\ Outdated(ws, "summary") \subseteq Wires /\ OrderOK(s, p, Outdated(ws, "summary"))
         /\ \A key \in Nat : LET xs == Outdated(ws, "summary") \cup {Wire("summary", key)}
                             IN  xs \subseteq Wires /\ OrderOK(s, p, xs)
<1> DEFINE old == Outdated(ws, "summary")
<1>1. \A w \in old : w \in Wires /\ (CurrentRead(w) => w \in ws)
  <2> SUFFICES ASSUME NEW w \in old PROVE w \in Wires /\ (CurrentRead(w) => w \in ws)
    OBVIOUS
  <2>1. PICK x \in ws : w = IF x.kind = "summary" THEN [x EXCEPT !.current = FALSE] ELSE x
    BY DEF Outdated
  <2>2. x \in Wires
    OBVIOUS
  <2> QED
    BY <2>1, <2>2 DEF Wires, CurrentRead
<1>2. \A key \in Nat : Wire("summary", key) \in Wires /\ ~CurrentRead(Wire("summary", key))
  BY DEF Wire, Wires, CurrentRead
<1> HIDE DEF old
<1>3. old \subseteq Wires /\ OrderOK(s, p, old)
  BY <1>1 DEF OrderOK
<1>4. ASSUME NEW key \in Nat
      PROVE  LET xs == old \cup {Wire("summary", key)} IN xs \subseteq Wires /\ OrderOK(s, p, xs)
  BY <1>1, <1>2, <1>3 DEF OrderOK
<1> QED
  BY <1>3, <1>4 DEF old

\* An answer that is current for its kind is the only one, so what it brings is no older
\* than what the page holds, and no read that is left brings anything.
LEMMA PerformsOK ==
  ASSUME ThreadInv, NEW w \in wires, NEW does, NEW fp, Fine(retries, fp, does),
         Performs(does, w), service' = service,
         \/ fp = pane.thread.fp
         \/ CurrentRead(w) /\ w.reply # None /\ fp # None /\ fp = w.reply.fp
  PROVE  ThreadInv'
<1> USE ThreadNames
<1>1. pane' = does.pane /\ does \in Doings /\ pane'.thread.fp = fp
  BY DEF Performs, Fine
<1>2. RetryOK(retries', pane')
  <2>1. retries' = RetriesAfter(retries, does)
    BY DEF Performs, RetriesAfter
  <2> QED
    BY <1>1, <2>1 DEF Fine
<1> DEFINE rest == wires \ {w}
<1>3. rest \in SUBSET Wires /\ OrderOK(service, pane', rest)
  <2>1. rest \in SUBSET Wires /\ OrderOK(service, pane, wires)
    BY DEF ThreadInv
  <2>2. CASE fp = pane.thread.fp
    BY <1>1, <2>1, <2>2 DEF OrderOK, NoNewer
  <2>3. CASE CurrentRead(w) /\ w.reply # None /\ fp # None /\ fp = w.reply.fp
    <3>1. \A v \in rest : ~CurrentRead(v)
      BY <2>1, <2>3 DEF OrderOK
    <3>2. fp <= service.fp
      BY <2>1, <2>3 DEF OrderOK
    <3> QED
      BY <1>1, <2>1, <3>1, <3>2 DEF OrderOK
  <2> QED
    BY <2>2, <2>3
<1>4. does.asks \in Fps /\ pane' \in Panes
  BY <1>1 DEF Doings
<1>5. wires' = IF does.asks = None THEN rest
              ELSE Outdated(rest, "summary") \cup {Wire("summary", does.asks)}
  BY DEF Performs
<1> HIDE DEF rest
<1>6. wires' \subseteq Wires /\ OrderOK(service, pane', wires')
  <2>1. CASE does.asks = None
    BY <1>3, <1>5, <2>1
  <2>2. CASE does.asks # None
    <3>1. does.asks \in Nat
      BY <1>4, <2>2 DEF Fps
    <3> QED
      BY <1>3, <1>5, <2>2, <3>1, AskingOK
  <2> QED
    BY <2>1, <2>2
<1> QED
  BY <1>2, <1>4, <1>6 DEF ThreadInv

-----------------------------------------------------------------------------
(* The steps.                                                               *)

LEMMA FetchKeeps ==
  ASSUME ThreadInv, RefetchFires \/ RetryFires \/ DebounceFires \/ RetryTaskThreadLoad
  PROVE  ThreadInv'
<1>1. /\ service' = service /\ wires' = Fetching(wires)
      /\ retries' = retries \/ retries' = NoRetries
      /\ \/ pane' = [pane EXCEPT !.load = "loading", !.dirty = FALSE]
         \/ pane' = [pane EXCEPT !.scheduled = FALSE, !.load = "loading", !.dirty = FALSE]
  BY DEF RefetchFires, RetryFires, DebounceFires, RetryTaskThreadLoad, May
<1>2. /\ pane' \in Panes /\ pane'.thread = pane.thread /\ pane'.sum = pane.sum
  BY <1>1 DEF ThreadInv, Panes
<1>3. RetryOK(retries', pane')
  BY <1>1, <1>2, SamePaneOK, NoRetriesOK DEF ThreadInv
<1>4. wires \in SUBSET Wires /\ OrderOK(service, pane', wires)
  BY <1>2, SamePaneOK DEF ThreadInv
<1>5. wires' \subseteq Wires /\ OrderOK(service, pane', wires')
  BY <1>1, <1>4, FetchingOK
<1> QED
  BY <1>1, <1>2, <1>3, <1>5 DEF ThreadInv

LEMMA PaneKeeps ==
  ASSUME ThreadInv, SignalChanges \/ MinutePasses \/ RetryTaskThreadSummary \/ Reselect
  PROVE  ThreadInv'
<1> USE ThreadNames
<1>0. /\ ServiceOK(service) /\ pane \in Panes /\ wires \in SUBSET Wires
      /\ RetryOK(retries, pane) /\ OrderOK(service, pane, wires)
  BY DEF ThreadInv
<1>1. CASE SignalChanges
  <2>1. /\ pane' = [pane EXCEPT !.dirty = FALSE, !.scheduled = TRUE]
        /\ UNCHANGED <<service, wires, retries>>
    BY <1>1 DEF SignalChanges
  <2>2. pane' \in Panes /\ pane'.thread = pane.thread /\ pane'.sum = pane.sum
    BY <1>0, <2>1 DEF Panes
  <2> QED
    BY <1>0, <2>1, <2>2, SamePaneOK DEF ThreadInv
<1>2. CASE MinutePasses
  <2>1. /\ pane' = [pane EXCEPT !.sum.cooling = FALSE]
        /\ service' = [service EXCEPT !.state.cooling = FALSE]
        /\ UNCHANGED <<wires, retries>>
    BY <1>2 DEF MinutePasses
  <2>2. /\ pane' \in Panes /\ pane'.thread = pane.thread
        /\ pane'.sum.autoKey = pane.sum.autoKey /\ pane'.sum.autoCount = pane.sum.autoCount
    BY <1>0, <2>1 DEF Panes, Summaries
  <2>3. ServiceOK(service') /\ service'.fp = service.fp
    BY <1>0, <2>1 DEF ServiceOK, Services, SummariserStates
  <2>4. RetryOK(retries', pane') /\ OrderOK(service, pane', wires)
    BY <1>0, <2>1, <2>2, SamePaneOK
  <2>5. OrderOK(service', pane', wires')
    BY <2>1, <2>3, <2>4 DEF OrderOK
  <2> QED
    BY <1>0, <2>1, <2>2, <2>3, <2>4, <2>5 DEF ThreadInv
<1>3. CASE RetryTaskThreadSummary
  <2>1. /\ pane.thread # NoThread
        /\ pane' = [pane EXCEPT !.sum = [NoSummary EXCEPT !.trigger = pane.thread.fp, !.pending = TRUE]]
        /\ wires' = Outdated(wires, "summary") \cup {Wire("summary", pane.thread.fp)}
        /\ retries' = NoRetries /\ service' = service
    BY <1>3 DEF RetryTaskThreadSummary
  <2>2. pane.thread.fp \in Nat
    BY <1>0, <2>1 DEF Panes, ThreadsOrNone, Threads
  <2>3. pane' \in Panes /\ pane'.thread = pane.thread
    BY <1>0, <2>1, <2>2 DEF Panes, NoSummary, Summaries, Fps
  <2>4. RetryOK(retries', pane')
    BY <2>1, NoRetriesOK
  <2>5. wires' \subseteq Wires /\ OrderOK(service, pane, wires')
    BY <1>0, <2>1, <2>2, AskingOK
  <2>6. OrderOK(service, pane', wires')
    BY <2>3, <2>5 DEF OrderOK, NoNewer
  <2> QED
    BY <1>0, <2>1, <2>3, <2>4, <2>5, <2>6 DEF ThreadInv
<1>4. CASE Reselect
  <2>1. /\ pane' = NewPane /\ retries' = NoRetries /\ wires' = Outdated(wires, "summary")
        /\ service' = service
    BY <1>4 DEF Reselect
  <2>2. pane' \in Panes /\ pane'.thread.fp = None
    BY <2>1 DEF NewPane, NoThread, NoSummary, Panes, Summaries, ThreadsOrNone, Fps
  <2>3. wires' \subseteq Wires /\ OrderOK(service, pane, wires')
    BY <1>0, <2>1, AskingOK
  <2>4. OrderOK(service, pane', wires')
    BY <2>2, <2>3 DEF OrderOK, NoNewer
  <2> QED
    BY <1>0, <2>1, <2>2, <2>3, <2>4, NoRetriesOK DEF ThreadInv
<1> QED
  BY <1>1, <1>2, <1>3, <1>4

LEMMA ServiceKeeps ==
  ASSUME ThreadInv, AttemptEnds \/ ThreadGrows \/ BecomesReadable \/ StatePruned
  PROVE  ThreadInv'
<1> USE ThreadNames
<1>0. /\ ServiceOK(service) /\ pane \in Panes /\ wires \in SUBSET Wires
      /\ RetryOK(retries, pane) /\ OrderOK(service, pane, wires)
  BY DEF ThreadInv
<1>1. /\ wires' = wires /\ retries' = retries
      /\ pane' = pane \/ pane' = [pane EXCEPT !.dirty = TRUE]
  BY DEF AttemptEnds, ThreadGrows, BecomesReadable, StatePruned
<1>2. pane' \in Panes /\ pane'.thread = pane.thread /\ pane'.sum = pane.sum
  BY <1>0, <1>1 DEF Panes
<1>3. ServiceOK(service') /\ service'.fp \in {service.fp, service.fp + 1}
  <2>1. CASE AttemptEnds
    <3>1. PICK fp \in service.llm, outcome \in {"made", "failed"} :
            service' = attemptEnds(service, fp, outcome)
      BY <2>1 DEF AttemptEnds
    <3> QED
      BY <1>0, <3>1, AttemptEndsOK
  <2>2. CASE ThreadGrows
    BY <1>0, <2>2 DEF ThreadGrows, ServiceOK, Services, Fps
  <2>3. CASE BecomesReadable
    BY <1>0, <2>3 DEF BecomesReadable, ServiceOK, Services
  <2>4. CASE StatePruned
    BY <1>0, <2>4, ForgetOK DEF StatePruned
  <2> QED
    BY <2>1, <2>2, <2>3, <2>4
<1>4. RetryOK(retries', pane') /\ OrderOK(service, pane', wires)
  BY <1>0, <1>1, <1>2, SamePaneOK
<1>5. OrderOK(service', pane', wires')
  <2>1. service.fp \in Nat /\ pane'.thread.fp \in Fps
    BY <1>0, <1>2, ReadThread DEF ServiceOK, Services
  <2>2. pane'.thread.fp # None => pane'.thread.fp <= service'.fp
    BY <1>3, <1>4, <2>1 DEF OrderOK, Fps
  <2>3. ASSUME NEW w \in wires, CurrentRead(w), w.reply # None, w.reply.fp # None
        PROVE  w.reply.fp <= service'.fp
    <3>1. w.reply.fp \in Nat
      BY <1>0, <2>3 DEF CurrentRead, Wires, ThreadsOrNone, Threads, NoThread
    <3>2. w.reply.fp <= service.fp
      BY <1>4, <2>3 DEF OrderOK
    <3> QED
      BY <1>3, <2>1, <3>1, <3>2
  <2> QED
    BY <1>1, <1>4, <2>2, <2>3 DEF OrderOK
<1> QED
  BY <1>0, <1>1, <1>2, <1>3, <1>4, <1>5 DEF ThreadInv

\* A read that is served holds the thread of now, which no page is ahead of.
LEMMA ServeKeeps ==
  ASSUME ThreadInv, NEW w \in wires, Serve(w)
  PROVE  ThreadInv'
<1> USE ThreadNames
<1>0. /\ ServiceOK(service) /\ pane \in Panes /\ wires \in SUBSET Wires
      /\ RetryOK(retries, pane) /\ OrderOK(service, pane, wires)
      /\ service.fp \in Nat /\ w \in Wires
  BY DEF ThreadInv, ServiceOK, Services
<1>1. UNCHANGED <<pane, timers, retries, left>>
  BY DEF Serve
<1>2. PICK reply : /\ wires' = Replied(w, reply)
                   /\ ServiceOK(service') /\ service'.fp = service.fp
                   /\ w.kind = "thread" => /\ reply \in ThreadsOrNone
                                           /\ reply.fp \in {None, service.fp}
                   /\ w.kind # "thread" => reply \in Snapshots
  <2>1. CASE w.kind = "thread"
    <3>1. /\ service' = IF service.readable THEN afterPeek(service) ELSE service
          /\ wires' = Replied(w, ThreadRead)
      BY <2>1 DEF Serve
    <3>2. ThreadRead \in ThreadsOrNone /\ ThreadRead.fp \in {None, service.fp}
      <4>1. CASE ~service.readable
        BY <4>1 DEF ThreadRead, ThreadsOrNone, NoThread
      <4>2. CASE service.readable
        <5>1. ThreadRead = [fp |-> service.fp, state |-> peeked(service).state,
                            summary |-> peeked(service).fp]
          BY <4>2 DEF ThreadRead
        <5>2. /\ peeked(service).state \in ThreadStates /\ peeked(service).fp \in Fps
              /\ peeked(service).state = "ready" => peeked(service).fp = service.fp
          BY <1>0, PeekedOK DEF Snapshots
        <5> QED
          BY <1>0, <5>1, <5>2 DEF ThreadsOrNone, Threads
      <4> QED
        BY <4>1, <4>2
    <3>3. ServiceOK(service') /\ service'.fp = service.fp
      BY <1>0, <3>1, PeekOK
    <3> QED
      BY <2>1, <3>1, <3>2, <3>3
  <2>2. CASE w.kind # "thread"
    <3>1. /\ service' = request(service).service
          /\ wires' = Replied(w, request(service).reply)
      BY <2>2 DEF Serve
    <3> QED
      BY <1>0, <2>2, <3>1, RequestOK
  <2> QED
    BY <2>1, <2>2
<1> DEFINE new == [w EXCEPT !.reply = reply]
<1>3. wires' \subseteq (wires \ {w}) \cup {new} /\ (new \in wires' => w.current \/ new \in wires \ {w})
  BY <1>2 DEF Replied
<1>4. new \in Wires /\ new.kind = w.kind /\ new.current = w.current /\ new.reply = reply
  BY <1>0, <1>2 DEF Wires
<1> HIDE DEF new
<1>5. CASE CurrentRead(w)
  <2>1. \A v \in wires \ {w} : ~CurrentRead(v)
    BY <1>0, <1>5 DEF OrderOK
  <2>2. reply.fp # None => reply.fp = service'.fp /\ NoNewer(pane, reply)
    BY <1>0, <1>2, <1>5 DEF CurrentRead, OrderOK, NoNewer
  <2>3. OrderOK(service', pane, wires')
    <3>1. pane.thread.fp # None => pane.thread.fp <= service'.fp
      BY <1>0, <1>2 DEF OrderOK
    <3>2. \A v \in wires' : CurrentRead(v) => v = new
      BY <1>3, <2>1
    <3>3. reply.fp # None => reply.fp <= service'.fp /\ NoNewer(pane, reply)
      BY <1>0, <1>2, <2>2
    <3>4. NoNewer(pane, reply)
      BY <3>3 DEF NoNewer
    <3> QED
      BY <1>4, <3>1, <3>2, <3>3, <3>4 DEF OrderOK
  <2> QED
    BY <1>0, <1>1, <1>2, <1>3, <1>4, <2>3 DEF ThreadInv
<1>6. CASE ~CurrentRead(w)
  <2>1. ~CurrentRead(new)
    BY <1>4, <1>6 DEF CurrentRead
  <2>2. OrderOK(service', pane, wires')
    BY <1>0, <1>2, <1>3, <2>1 DEF OrderOK
  <2> QED
    BY <1>0, <1>1, <1>2, <1>3, <1>4, <2>2 DEF ThreadInv
<1> QED
  BY <1>5, <1>6

LEMMA DeliverKeeps ==
  ASSUME ThreadInv, NEW w \in wires, Deliver(w)
  PROVE  ThreadInv'
<1> USE ThreadNames
<1>0. /\ pane \in Panes /\ RetryOK(retries, pane) /\ OrderOK(service, pane, wires) /\ w \in Wires
  BY DEF ThreadInv
<1>1. w.reply # None /\ Performs(Answered(w), w) /\ service' = service
  BY DEF Deliver
<1>2. CASE ~Current(w)
  <2>1. Answered(w) = Does(pane)
    BY <1>2 DEF Answered
  <2>2. Fine(retries, pane.thread.fp, Does(pane))
    BY <1>0, GivenUpOK
  <2> QED
    BY <1>1, <2>1, <2>2, PerformsOK
<1>3. CASE Current(w) /\ w.kind = "thread" /\ w.reply.fp = None
  <2>1. Answered(w) = ThreadMissing(pane)
    BY <1>3 DEF Answered
  <2>2. Fine(retries, pane.thread.fp, ThreadMissing(pane))
    BY <1>0, GivenUpOK
  <2> QED
    BY <1>1, <2>1, <2>2, PerformsOK
<1>4. CASE Current(w) /\ w.kind = "thread" /\ w.reply.fp # None
  <2>1. Answered(w) = GotTaskThread(pane, w.reply) /\ CurrentRead(w)
    BY <1>4 DEF Answered, Current, CurrentRead
  <2>2. w.reply \in Threads
    BY <1>0, <1>1, <1>4 DEF Wires, ThreadsOrNone, NoThread
  <2>3. NoNewer(pane, w.reply)
    BY <1>0, <1>1, <2>1 DEF OrderOK
  <2>4. Fine(retries, w.reply.fp, GotTaskThread(pane, w.reply))
    BY <1>0, <2>2, <2>3, GotThreadOK
  <2> QED
    BY <1>1, <1>4, <2>1, <2>4, PerformsOK
<1>5. CASE Current(w) /\ w.kind # "thread"
  <2>1. Answered(w) = GotTaskThreadSummary(pane, w.key, w.reply)
    BY <1>5 DEF Answered
  <2>2. w.key \in Nat /\ w.reply \in Snapshots
    BY <1>0, <1>1, <1>5 DEF Wires
  <2>3. Fine(retries, pane.thread.fp, GotTaskThreadSummary(pane, w.key, w.reply))
    BY <1>0, <2>2, GotSummaryOK
  <2> QED
    BY <1>1, <2>1, <2>3, PerformsOK
<1> QED
  BY <1>2, <1>3, <1>4, <1>5

LEMMA FailsKeeps ==
  ASSUME ThreadInv, NEW w \in wires, Fails(w)
  PROVE  ThreadInv'
<1>0. /\ pane \in Panes /\ RetryOK(retries, pane) /\ w \in Wires
  BY DEF ThreadInv
<1> DEFINE does == IF ~Current(w) THEN Does(pane)
                   ELSE IF w.kind = "thread" THEN FetchGivenUp(pane) ELSE SummaryFailed(pane, w.key)
<1>1. Performs(does, w) /\ service' = service
  BY DEF Fails
<1>2. Fine(retries, pane.thread.fp, Does(pane)) /\ Fine(retries, pane.thread.fp, FetchGivenUp(pane))
  BY <1>0, GivenUpOK
<1>3. w.kind # "thread" => Fine(retries, pane.thread.fp, SummaryFailed(pane, w.key))
  <2> SUFFICES ASSUME w.kind # "thread"
               PROVE  Fine(retries, pane.thread.fp, SummaryFailed(pane, w.key))
    OBVIOUS
  <2>1. w.key \in Nat
    BY <1>0 DEF Wires
  <2> QED
    BY <1>0, <2>1, SummaryFailedOK
<1>4. Fine(retries, pane.thread.fp, does)
  BY <1>2, <1>3
<1> HIDE DEF does
<1> QED
  BY <1>1, <1>4, PerformsOK

LEMMA NextThread == ThreadInv /\ [ThreadNext]_tvars => ThreadInv'
<1> SUFFICES ASSUME ThreadInv, [ThreadNext]_tvars PROVE ThreadInv'
  OBVIOUS
<1>1. CASE RefetchFires \/ RetryFires \/ DebounceFires \/ RetryTaskThreadLoad
  BY <1>1, FetchKeeps
<1>2. CASE SignalChanges \/ MinutePasses \/ RetryTaskThreadSummary \/ Reselect
  BY <1>2, PaneKeeps
<1>3. CASE AttemptEnds \/ ThreadGrows \/ BecomesReadable \/ StatePruned
  BY <1>3, ServiceKeeps
<1>4. CASE \E w \in wires : Serve(w)
  BY <1>4, ServeKeeps
<1>5. CASE \E w \in wires : Deliver(w)
  BY <1>5, DeliverKeeps
<1>6. CASE \E w \in wires : Fails(w)
  BY <1>6, FailsKeeps
<1>7. CASE UNCHANGED tvars
  BY <1>7 DEF tvars, ThreadInv, ServiceOK, RetryOK, OrderOK, NoNewer, CurrentRead
<1> QED
  BY <1>1, <1>2, <1>3, <1>4, <1>5, <1>6, <1>7 DEF ThreadNext

\* The inductive invariant: one model call, which the run's state names; requests whose
\* answers could arrive out of order are not current; and the retries set for a thread are
\* counted in the pane that holds it.
THEOREM ThreadKeepsOrder == ThreadSpec => []ThreadInv
  BY InitThread, NextThread, PTL DEF ThreadSpec

\* The service makes one model call at a time for a run (task-thread/summarizer.ts), the
\* page shows no thread under the summary of another one and sets a bounded number of
\* retries for it (static/ts/app.ts), whatever the retry limits, however often the thread
\* grows and in whatever order requests are served and answered, fail, or are left behind
\* by a selection.
THEOREM SummaryIsOfItsThread == ThreadSpec => []SummariesInOrder
<1>1. ThreadInv => SummariesInOrder
  BY ThreadInvImplies
<1> QED
  BY <1>1, ThreadKeepsOrder, PTL

=============================================================================
