----------------------------- MODULE TaskThread -----------------------------
(* The conversation derived from one run (task-thread/derive.ts,               *)
(* run-log/derive/history.ts), the lineage of continued runs (lineage.ts) and  *)
(* the bounded merge of their conversations (identity.ts).  Pure operators:    *)
(* `events` is a log as RunThread writes it, `meta` the run meta or None when  *)
(* it cannot be read, `item` the run's queue item.                             *)
EXTENDS RunThread

Draft == [status |-> None, sys |-> None, outcome |-> None, related |-> None]
\* An entry; its place among the entries of the run is its sequence number.
MakeEntry(id, kind, at, text, more) ==
    [f \in DOMAIN Draft |-> IF f \in DOMAIN more THEN more[f] ELSE Draft[f]]
        @@ [id |-> id, kind |-> kind, at |-> at, text |-> text]
HumanKinds == {"task", "answer", "resume_note", "plan_modification", "inquiry"}
System(id, at, sys, text) == <<MakeEntry(<<id>>, "system", at, text, [sys |-> sys])>>

Of(events, type) == SelectSeq(events, LAMBDA e : e.type = type)
LastOr(s, default) == IF s = <<>> THEN default ELSE Last(s)
Each(s, Op(_, _)) == FlattenSeq([k \in DOMAIN s |-> Op(s[k], k)])

----------------------------------------------------------------------------
(* Histories.                                                               *)

\* Asks in log order; an answer goes to the first ask of its id.
deriveQuestionHistory_InOrder(events) ==
    LET asks == Of(events, "ask_human")
        answers == Of(events, "human_answer")
    IN  [k \in DOMAIN asks |-> [ask |-> asks[k],
                               answer |-> IF k <= Len(answers) THEN answers[k] ELSE None]]
deriveQuestionHistory(events) ==
    LET asks == Of(events, "ask_human")
        answers == Of(events, "human_answer")
        IsFirst(k) == \A j \in 1..(k - 1) : asks[j].id # asks[k].id
        AnswerOf(k) == LET its == SelectSeq(answers, LAMBDA a : a.id = asks[k].id)
                       IN  IF IsFirst(k) /\ its # <<>> THEN Last(its) ELSE None
    IN  [k \in DOMAIN asks |-> [ask |-> asks[k], answer |-> AnswerOf(k)]]

\* Inquiries in log order; each resolution closes the oldest one still open.
deriveInterruptHistory(events) ==
    LET opened == SelectSeq(events, LAMBDA e : e.type \in {"interrupt", "plan_modification"})
        resolved == Of(events, "interrupt_resolved")
        rank == [k \in DOMAIN opened |->
                    Cardinality({j \in 1..k : opened[j].type = "interrupt"})]
    IN  [k \in DOMAIN opened |->
           [event |-> opened[k],
            resolution |-> IF opened[k].type = "interrupt" /\ rank[k] <= Len(resolved)
                           THEN resolved[rank[k]] ELSE None]]

isRootRoleFinished(e) == e.type = "role_finished" /\ e.depth = 0 /\ e.role = "root"
rootPausedFinishes(events) ==
    SelectSeq(events, LAMBDA e : isRootRoleFinished(e) /\ e.paused
                                 /\ e.status = "needs_clarification")
lastRootTerminalFinish(events) ==
    LastOr(SelectSeq(events, LAMBDA e : isRootRoleFinished(e)
                                        /\ e.status \in {"success", "error"}), None)
lastEventTimestamp(events, default) == IF events = <<>> THEN default ELSE Last(events).at

----------------------------------------------------------------------------
(* The entries of one run, in the order they are derived.                    *)

deriveTask(events) ==
    LET starts == SelectSeq(events, LAMBDA e : e.type = "role_start" /\ e.depth = 0)
    IN  IF starts = <<>> THEN <<>>
        ELSE <<MakeEntry(<<"task">>, "task", Head(starts).at, Head(starts).text, Draft)>>

appendQuestions(events) ==
    Each(deriveQuestionHistory(events), LAMBDA q, k :
      <<MakeEntry(<<"ask", q.ask.id>>, "question", q.ask.at, q.ask.text,
          [outcome |-> IF q.answer = None THEN "waiting" ELSE "answered",
           related |-> IF q.answer = None THEN None ELSE <<"answer", q.ask.id>>])>>
      \o IF q.answer = None THEN <<>>
         ELSE <<MakeEntry(<<"answer", q.ask.id>>, "answer", q.answer.at, q.answer.text,
                          [related |-> <<"ask", q.ask.id>>])>>)

\* The newest unused paused finish at or before the answer, else the newest unused one.
findPausedFinish(finishes, used, at) ==
    LET unused == DOMAIN finishes \ used
        before == {k \in unused : finishes[k].at <= at}
    IN  IF before # {} THEN Max(before) ELSE IF unused # {} THEN Max(unused) ELSE 0

\* Each clarification answer with the paused finish it answers.
AnsweredClarifications(events, finishes) ==
    FoldLeft(LAMBDA h, e :
        LET k == findPausedFinish(finishes, h.used, e.at) IN
        IF e.status = None /\ k = 0 THEN h
        ELSE [used |-> h.used \cup ({k} \ {0}), lastAt |-> e.at, n |-> h.n + 1,
              entries |-> h.entries \o
                <<MakeEntry(<<"clarify-question", h.n>>, "question",
                    IF k = 0 THEN e.at ELSE finishes[k].at,
                    IF e.status # None THEN e.status ELSE finishes[k].text,
                    [outcome |-> "answered", related |-> <<"clarify-answer", h.n>>]),
                  MakeEntry(<<"clarify-answer", h.n>>, "answer", e.at, e.text,
                    [related |-> <<"clarify-question", h.n>>])>>],
        [entries |-> <<>>, used |-> {}, n |-> 0, lastAt |-> 0],
        SelectSeq(events, LAMBDA e : e.type = "human_answer" /\ e.id = clarification))

\* The clarification still open: the newest paused finish no answer has used up.
appendClarifications(events, m) ==
    LET finishes == rootPausedFinishes(events)
        done == AnsweredClarifications(events, finishes)
        waitingAsk == \E k \in DOMAIN deriveQuestionHistory(events) :
                         deriveQuestionHistory(events)[k].answer = None
        left == {k \in DOMAIN finishes \ done.used : finishes[k].at > done.lastAt}
        metaText == IF m # None /\ m.status = "needs_clarification" THEN m.text ELSE None
        text == IF left # {} THEN finishes[Max(left)].text ELSE metaText
        at == IF left # {} THEN finishes[Max(left)].at ELSE m.at
    IN  done.entries \o
        IF \/ waitingAsk
           \/ text = None
           \/ (m # None /\ m.status \notin {"needs_clarification", "interrupted"})
        THEN <<>>
        ELSE <<MakeEntry(<<"clarify-current">>, "question", at, text,
                         [outcome |-> "waiting"])>>

queueQuestionForRun(i) == IF i.status = "needs_input" THEN i.text ELSE None
appendQueueQuestion(entries, m, i) ==
    IF \/ (m # None /\ m.status # "needs_clarification")
       \/ \E k \in DOMAIN entries : entries[k].kind = "question" /\ entries[k].outcome = "waiting"
       \/ queueQuestionForRun(i) = None
    THEN <<>>
    ELSE <<MakeEntry(<<"queue-question">>, "question", i.at, i.text, [outcome |-> "waiting"])>>

appendPause(m) == IF m # None /\ m.status = "needs_clarification"
                  THEN System("pause", m.at, "pause", <<"pause">>) ELSE <<>>

appendOperatorPause(events, m) ==
    IF m # None
    THEN IF m.status = "suspended" /\ m.text = <<"pause">>
         THEN System("operator-pause", m.at, "operator_pause", m.text) ELSE <<>>
    ELSE LET p == LastOr(Of(events, "run_paused"), None)
         IN  IF p = None THEN <<>>
             ELSE System("operator-pause", p.at, "operator_pause", <<"pause">>)

\* A replayed boundary repeats its timestamp and note, and counts once.
Resumes(events) ==
    LET all == Of(events, "run_resumed")
    IN  FoldLeft(LAMBDA kept, e : IF \E k \in DOMAIN kept : kept[k] = e THEN kept
                                  ELSE Append(kept, e), <<>>, all)
appendResumeHistory(events) ==
    Each(Resumes(events), LAMBDA e, k :
      <<MakeEntry(<<"resume", k>>, "system", e.at, <<"resumed">>, [sys |-> "resume"])>>
      \o IF e.text = None THEN <<>>
         ELSE <<MakeEntry(<<"resume-note", k>>, "resume_note", e.at, e.text, Draft)>>)

appendInterruptHistory(events) ==
    Each(deriveInterruptHistory(events), LAMBDA h, k :
      IF h.event.type = "plan_modification"
      THEN <<MakeEntry(<<"plan", k>>, "plan_modification", h.event.at, h.event.text, Draft)>>
      ELSE LET answered == h.resolution # None /\ h.resolution.status = "answered" IN
           <<MakeEntry(<<"inquiry", k>>, "inquiry", h.event.at, h.event.text,
               [outcome |-> IF answered THEN "answered"
                            ELSE IF h.resolution # None THEN "failed" ELSE "waiting",
                related |-> IF answered THEN <<"inquiry-answer", k>> ELSE None])>>
           \o IF ~answered THEN <<>>
              ELSE <<MakeEntry(<<"inquiry-answer", k>>, "inquiry_answer", h.resolution.at,
                       h.resolution.text, [outcome |-> "answered", related |-> <<"inquiry", k>>])>>)

appendNotices(events) ==
    Each(SelectSeq(events, LAMBDA e : e.type \in {"inquiry_dropped", "operator_notice"}),
      LAMBDA e, k :
        IF e.type = "operator_notice"
        THEN <<MakeEntry(<<"notice", k>>, "system", e.at, e.text, [sys |-> "notice"])>>
        ELSE <<MakeEntry(<<"inquiry-dropped", k>>, "inquiry", e.at, e.text,
                         [outcome |-> "dropped"])>>)

appendSuspension(events, m) ==
    IF m # None
    THEN IF m.status = "suspended" /\ m.text = <<"suspension">>
         THEN System("suspension", m.at, "suspension", m.text) ELSE <<>>
    ELSE LET f == LastOr(Of(events, "provider_failure"), None)
         IN  IF f = None THEN <<>> ELSE System("suspension", f.at, "suspension", f.text)

appendTermination(events, m) ==
    LET ends == Of(events, "run_terminated")
    IN  IF ends # <<>> THEN System("termination", Head(ends).at, "termination", Head(ends).text)
        ELSE IF m # None /\ m.status = "interrupted"
             THEN System("failure", m.at, "failure", m.text) ELSE <<>>

Result(tag, at, text, status) ==
    <<MakeEntry(<<tag>>, "result", at, text, [status |-> status])>>
queueResultForRun(i) == IF i.status \in {"done", "error"}
                        THEN IF i.status = "done" THEN "success" ELSE "error" ELSE None
appendResult(events, m, i) ==
    LET finish == lastRootTerminalFinish(events)
    IN  IF m # None
        THEN IF m.status \in {"success", "error"} THEN Result("result", m.at, m.text, m.status)
             ELSE <<>>
        ELSE IF finish # None THEN Result("result", finish.at, finish.text, finish.status)
        ELSE IF queueResultForRun(i) # None
        THEN Result("queue-result", i.at, i.text, queueResultForRun(i)) ELSE <<>>

deriveRunThreadFacts(events, m, i) ==
    LET asked == deriveTask(events) \o appendQuestions(events) \o appendClarifications(events, m)
    IN  asked \o appendQueueQuestion(asked, m, i) \o appendPause(m)
        \o appendOperatorPause(events, m) \o appendResumeHistory(events)
        \o appendInterruptHistory(events) \o appendNotices(events)
        \o appendSuspension(events, m) \o appendTermination(events, m)
        \o appendResult(events, m, i)

----------------------------------------------------------------------------
(* The merge of a lineage: `runs` lists the entries of each run, root first;  *)
(* `bounds` holds maxEntries, maxEntriesPerRun and maxTextChars.              *)

textLength(entry) == Len(entry.text)
TotalLength(items) == FoldLeft(LAMBDA n, i : n + textLength(i.entry), 0, items)
LastOnes(s, n) == SubSeq(s, Len(s) - n + 1, Len(s))

Before(left, right) ==
    \/ left.entry.at < right.entry.at
    \/ left.entry.at = right.entry.at
       /\ (left.run < right.run \/ (left.run = right.run /\ left.seq < right.seq))

\* Every entry with its run and its place, a repeated id once.
collectEntries(runs) ==
    LET all == Each(runs, LAMBDA es, r :
                  [k \in DOMAIN es |-> [entry |-> es[k], run |-> r, seq |-> k]])
    IN  FoldLeft(LAMBDA kept, x :
          IF \E k \in DOMAIN kept : kept[k].run = x.run /\ kept[k].entry.id = x.entry.id
          THEN kept ELSE Append(kept, x), <<>>, all)

latestHumanFromEntries(items) ==
    LastOr(SelectSeq(items, LAMBDA x : x.entry.kind \in HumanKinds), None)

\* A run over its cap keeps its first entry and its newest.
boundRunEntries(items, max) ==
    IF Len(items) <= max THEN items ELSE <<Head(items)>> \o LastOnes(items, max - 1)

mergeTaskThreadEntries(runs, bounds) ==
    LET all == SortSeq(collectEntries(runs), Before)
        OfRun(r) == SelectSeq(all, LAMBDA x : x.run = r)
        perRun == SortSeq(Each(runs, LAMBDA es, r : boundRunEntries(OfRun(r), bounds.maxEntriesPerRun)),
                          Before)
        used == Min({TotalLength(SubSeq(perRun, 1, 1)), bounds.maxTextChars})
        newest == Max({n \in 0..(Len(perRun) - 1) :
                         /\ n < bounds.maxEntries
                         /\ used + TotalLength(LastOnes(perRun, n)) <= bounds.maxTextChars})
        kept == IF perRun = <<>> THEN <<>> ELSE <<Head(perRun)>> \o LastOnes(perRun, newest)
    IN  [entries |-> kept,
         latestHumanEvent |-> latestHumanFromEntries(all),
         truncated |-> Len(kept) < Len(FlattenSeq(runs))]

\* The status told by the entries alone, for a run whose meta cannot be read.
derivedStatusFromEntries(entries) ==
    LET ordered == SortSeq([k \in DOMAIN entries |-> [entry |-> entries[k], run |-> 1, seq |-> k]],
                           Before)
    IN  FoldLeft(LAMBDA status, x :
          CASE x.entry.kind = "result" -> x.entry.status
            [] x.entry.sys \in {"suspension", "operator_pause"} -> "suspended"
            [] x.entry.sys = "pause" -> "needs_clarification"
            [] x.entry.sys \in {"failure", "termination"} -> "interrupted"
            [] x.entry.sys = "resume" -> "running"
            [] OTHER -> status, "unknown", ordered)
deriveTaskIdentity(entries, m) ==
    IF m = None THEN derivedStatusFromEntries(entries) ELSE m.status

----------------------------------------------------------------------------
(* The lineage: `parentOf` gives the parent each run names (None for a root,  *)
(* "malformed" for text that is no run id), `known` the runs that can be read.*)

LineageStep(walk, parentOf, known, maxRuns) ==
    LET p == walk.next
        Stop(reason) == [walk EXCEPT !.reason = reason]
    IN  CASE p = None \/ walk.reason # None -> walk
          [] p = "malformed" -> Stop("malformed_parent")
          [] p \in Range(walk.chain) -> Stop("cycle")
          [] Len(walk.chain) >= maxRuns -> Stop("depth")
          [] p \notin known -> Stop("missing_parent")
          [] OTHER -> [walk EXCEPT !.chain = Append(@, p), !.next = parentOf[p]]
deriveTaskLineage(current, parentOf, known, maxRuns) ==
    LET walk[k \in 0..maxRuns] ==
          IF k = 0 THEN [chain |-> <<current>>, next |-> parentOf[current], reason |-> None]
          ELSE LineageStep(walk[k - 1], parentOf, known, maxRuns)
    IN  [runs |-> Reverse(walk[maxRuns].chain), truncatedReason |-> walk[maxRuns].reason]

----------------------------------------------------------------------------
(* Properties.                                                               *)

\* (A singleton bound by \A is evaluated once.)
Views == {deriveRunThreadFacts(log, meta, item)}
IsWaiting(e) == e.kind = "question" /\ e.outcome = "waiting"
Entry(view, id) == view[CHOOSE k \in DOMAIN view : view[k].id = id]
AskedOnce == \A i, j \in EventsOf("ask_human") : log[i].id = log[j].id => i = j

(* A paused run shows exactly one open question, the one it paused on, whatever  *)
(* it asked, parked on and was told before.  Not so once an ask was repeated     *)
(* after a crash, or once its root already closed with an error: a second close   *)
(* is never logged, and the thread goes on showing the question before it.         *)
PausedShowsItsQuestion ==
    meta # None /\ meta.status = "needs_clarification" /\ AskedOnce /\ ~RootTerminated
    => \A view \in Views : \A waiting \in {SelectSeq(view, IsWaiting)} :
          /\ Len(waiting) = 1
          /\ waiting[1].text = meta.text

(* Every recorded answer appears once, under the question it answers, across      *)
(* parks, clarifications, crashes and the closings a resume writes.               *)
AnswersPaired ==
    AskedOnce /\ EventsOf("human_answer") # {} =>
    \A view \in Views : \A i \in EventsOf("human_answer") :
        LET a == log[i]
            shown == {k \in DOMAIN view : view[k].kind = "answer" /\ view[k].at = a.at
                                          /\ view[k].text = a.text}
        IN  /\ Cardinality(shown) = 1
            /\ \A k \in shown : LET q == Entry(view, view[k].related) IN
                  /\ q.text = IF a.id = clarification THEN a.status ELSE <<"q", a.id>>
                  /\ q.at <= a.at

(* Every answer a handler gave is shown, under the inquiry it answers, though a   *)
(* crash or a suspension closes an interlude and runs it again.                   *)
InquiriesPaired ==
    LET given == {i \in EventsOf("interrupt_resolved") : log[i].status = "answered"} IN
    given # {} =>
    \A view \in Views : \A i \in given : \E k \in DOMAIN view :
        /\ view[k].kind = "inquiry_answer" /\ view[k].at = log[i].at
        /\ Entry(view, view[k].related).text = <<"i", log[i].id>>

(* When the meta cannot be read, the entries alone still tell how a run ended,     *)
(* that it is suspended or that it runs again, provided its root was not resumed   *)
(* after it had closed with an error.                                              *)
RootEnds == {i \in DOMAIN log : isRootRoleFinished(log[i]) /\ ~log[i].paused}
ResumedAfterEnd == \E i \in EventsOf("run_resumed"), j \in RootEnds : j < i
StatusFromEntries ==
    \/ meta = None
    \/ meta.status \notin {"success", "error", "suspended", "running"}
    \/ meta.status = "running" /\ EventsOf("run_resumed") = {}
    \/ ResumedAfterEnd
    \/ deriveTaskIdentity(deriveRunThreadFacts(log, None, item), None) = meta.status

\* What a human did, as the log tells it.
HumanEvents == {i \in DOMAIN log :
    \/ log[i].type \in {"role_start", "human_answer", "plan_modification", "inquiry_dropped",
                        "interrupt"}
    \/ log[i].type = "run_resumed" /\ log[i].text # None}
SmallBounds == [maxEntries |-> 3, maxEntriesPerRun |-> 2, maxTextChars |-> 5]
(* The newest human turn is the newest in the log even when the bounds drop it    *)
(* from the entries, and the entries kept are the oldest and the newest.          *)
LatestHumanSurvives ==
    log # <<>> /\ AskedOnce =>
    \A view \in Views :
    \A merge \in {mergeTaskThreadEntries(<<view, view>>, SmallBounds)} :
        /\ merge.latestHumanEvent.entry.at = Max({log[i].at : i \in HumanEvents})
        /\ Len(merge.entries) <= SmallBounds.maxEntries
        /\ \A k \in DOMAIN view : /\ Head(merge.entries).entry.at <= view[k].at
                                  /\ Last(merge.entries).entry.at >= view[k].at
=============================================================================
