------------------------------- MODULE RunWatch -------------------------------
(***************************************************************************)
(* The run the page watches: the selection, the polled run list and run view   *)
(* with its ETag, the result modal and the on-demand read behind it, the pause    *)
(* card with its resume and terminate commands, the pause request and the answer   *)
(* to a live question (static/ts/app.ts, result-access.ts, run-selection.ts,        *)
(* run-pause.ts), over a service whose runs move on by themselves or from another     *)
(* tab, and a network that delays, reorders and loses answers.                         *)
(*                                                                         *)
(* Left out: wording, the thread pane, prompts and compose form (modules of their   *)
(* own), the entity-diff encoding of the run list and the poll's back-off (Feeds).   *)
(***************************************************************************)
EXTENDS Integers, FiniteSets

CONSTANTS
  Runs,           \* run ids, in the order the runs were submitted: 1..n
  None,           \* null
  MaxWatchEvents  \* bounds: how often each event of the environment happens, and all of them

VARIABLES
  runs,   \* per run: its status on the service and the version (ETag) of its view
  ui,     \* the page's state
  net,    \* requests in flight, answered or not
  seen,   \* evidence the page had that the selected run was unfinished: "yes", "no", or "answered"
          \* when all it had was that an answer to another run's question was accepted
  budget  \* how often each event of the environment may still happen

wvars == <<runs, ui, net, seen, budget>>

\* "suspended" is a provider suspension, "paused" an operator pause; the wire has one
\* status for both, the one the page compares, and a pause record (deriveRunPauseKind).
\* An absent run has no readable directory yet.
Terminal == {"success", "error", "needs_clarification", "interrupted"}
Suspended == {"suspended", "paused"}
isSettledForPolling(s) == s \in Terminal \cup Suspended
wire(s) == IF s \in Suspended THEN "suspended" ELSE s
Unfinished == {"running"} \cup Suspended
Statuses == {"absent", "running"} \cup Terminal \cup Suspended
View(r, status, ver) == [run |-> r, status |-> status, ver |-> ver]
NoView == View(None, None, 0)
NoLoad == [run |-> None, phase |-> "none"]

\* A poll carries a key that admits one request at a time; "view0" and "list0" are the
\* same reads outside the guard.
Polls == {"view", "list"}
Waiting == [code |-> 0, view |-> NoView, list |-> << >>]
Request(kind, r) == [kind |-> kind, run |-> r, reply |-> Waiting]
Sent(flying, new) ==
  flying \cup {q \in new : q.kind \in Polls => \A f \in flying : f.kind # q.kind}

Spent(event) ==
  /\ budget[event] > 0 /\ budget.all > 0
  /\ budget' = [budget EXCEPT ![event] = @ - 1, !.all = @ - 1]

WatchInit ==
  /\ \E last \in {"absent", "running"} :
       runs = [r \in Runs |-> [status |-> IF \E x \in Runs : x > r THEN "success" ELSE last, ver |-> 1]]
  /\ ui = [screen |-> "watch", visible |-> TRUE, sel |-> None, view |-> NoView, status |-> None,
           versions |-> [r \in Runs |-> 0], list |-> [r \in Runs |-> "absent"],
           resultOpen |-> FALSE, resultShown |-> None, resultLoad |-> NoLoad, pauseCard |-> FALSE,
           resuming |-> None, terminating |-> FALSE, pausing |-> None, answering |-> FALSE]
  /\ net = {} /\ seen = "no" /\ budget = MaxWatchEvents

hasPollableSelectedRun(u) == u.sel # None /\ (u.status = None \/ ~isSettledForPolling(u.status))

----
(***************************************************************************)
(* The selection.                                                           *)
(***************************************************************************)

\* handleRun, handleRuns: a view is read against the validator the request carries. A
\* timer's poll is answered as it is sent: the guard lets nothing be told apart by the
\* moment between the two, and the answer is as old as it likes when it arrives.
RunView(r, have) ==
  IF runs[r].status = "absent" THEN [Waiting EXCEPT !.code = 404]
  ELSE IF have = runs[r].ver THEN [Waiting EXCEPT !.code = 304]
  ELSE [Waiting EXCEPT !.code = 200, !.view = View(r, runs[r].status, runs[r].ver)]
RunList == [Waiting EXCEPT !.code = 200, !.list = [r \in Runs |-> runs[r].status]]

ViewPoll(u) == {[Request("view", u.sel) EXCEPT !.reply = RunView(u.sel, u.versions[u.sel])]}
ListPoll == {[Request("list", None) EXCEPT !.reply = RunList]}
ListRead == {Request("list0", None)}
Uncached(kind, r) == {Request(kind, r)}

\* resetRunView: everything that belonged to the previous selection goes, with the
\* validator of the view about to be read.
resetRunView(u, r, status) ==
  [u EXCEPT !.screen = "watch", !.sel = r, !.view = NoView, !.status = status,
            !.resultOpen = FALSE, !.resultShown = None, !.resultLoad = NoLoad,
            !.pauseCard = FALSE, !.resuming = None, !.versions[r] = 0]

cancelRunScopedPolls(flying) == {q \in flying : q.kind # "view"}

\* planSameRunView: re-arm a run that resumed, refresh a view in another status, or show
\* the held one.
planSameRunView(u, r) ==
  IF ~isSettledForPolling(u.list[r]) THEN "reactivate"
  ELSE IF u.status # wire(u.list[r]) \/ wire(u.view.status) # wire(u.list[r]) THEN "refresh"
  ELSE "show"

\* SelectRun, and ReactivateRunForAnswer for the run already selected.
SelectedRun(u, r) ==
  CASE r # u.sel -> [ui |-> resetRunView(u, r, None), sends |-> {}, switched |-> TRUE]
    [] r = u.sel /\ u.list[r] = "absent" ->
         [ui |-> [u EXCEPT !.screen = "watch"], sends |-> {}, switched |-> FALSE]
    [] r = u.sel /\ u.list[r] # "absent" /\ planSameRunView(u, r) = "reactivate" ->
         [ui |-> resetRunView(u, r, "unknown"), sends |-> {}, switched |-> TRUE]
    [] r = u.sel /\ u.list[r] # "absent" /\ planSameRunView(u, r) = "refresh" ->
         LET v == resetRunView(u, r, None)
         IN  [ui |-> v, sends |-> IF v.visible THEN ViewPoll(v) ELSE {}, switched |-> TRUE]
    [] OTHER -> [ui |-> [u EXCEPT !.screen = "watch"], sends |-> {}, switched |-> FALSE]

\* What the page has learnt about its selection: a history of the model, read by no step.
Learnt(v, told) ==
  LET held == IF v.sel = ui.sel THEN seen ELSE "no"
  IN  seen' = CASE v.sel # None /\ Unfinished \cap {v.list[v.sel], v.view.status} # {} -> "yes"
                [] held = "yes" -> "yes"
                [] OTHER -> IF told = "no" THEN held ELSE told

SelectRun(r) ==
  /\ Spent("clicks") /\ (ui.list[r] # "absent" \/ r = ui.sel)
  /\ \E went \in {SelectedRun(ui, r)} :
       /\ ui' = went.ui
       /\ net' = Sent(IF went.switched THEN cancelRunScopedPolls(net) ELSE net, went.sends)
       /\ Learnt(went.ui, "no")
  /\ UNCHANGED runs

\* SetScreen: the navigation offers history and compose; watch is reached by a run.
SetScreen ==
  /\ Spent("clicks") /\ ui.screen = "watch"
  /\ ui' = [ui EXCEPT !.screen = "away"]
  /\ UNCHANGED <<runs, net, seen>>

----
(***************************************************************************)
(* The timers.                                                              *)
(***************************************************************************)

\* The run-list poll of Tick.
Tick ==
  /\ ui.visible /\ \A q \in net : q.kind # "list"
  /\ net' = net \cup ListPoll
  /\ UNCHANGED <<runs, ui, seen, budget>>

PollSelectedRun ==
  /\ ui.visible /\ ui.screen = "watch" /\ hasPollableSelectedRun(ui)
  /\ \A q \in net : q.kind # "view"
  /\ net' = net \cup ViewPoll(ui)
  /\ UNCHANGED <<runs, ui, seen, budget>>

PageVisibilityChanged ==
  /\ Spent("clicks")
  /\ ui' = [ui EXCEPT !.visible = ~@]
  /\ net' = LET kept == {q \in net : q.kind \notin Polls}
            IN  IF ui.visible THEN kept
                ELSE Sent(kept, ListPoll \cup
                       IF ui.screen = "watch" /\ hasPollableSelectedRun(ui) THEN ViewPoll(ui) ELSE {})
  /\ UNCHANGED <<runs, seen>>

----
(***************************************************************************)
(* Commands.                                                                *)
(***************************************************************************)

\* RequestPause: derivePauseTargetRunId, the one run the list says is running.
RequestPause ==
  /\ Spent("clicks") /\ ui.pausing = None
  /\ \E r \in Runs :
       /\ ui.list[r] = "running"
       /\ ui' = [ui EXCEPT !.pausing = r]
       /\ net' = net \cup Uncached("pause", r)
  /\ UNCHANGED <<runs, seen>>

ResumeSuspendedRunNow(r) ==
  /\ Spent("clicks") /\ ui.resuming = None /\ ui.list[r] \in Suspended
  /\ ui' = [ui EXCEPT !.resuming = r]
  /\ net' = net \cup Uncached("resume", r)
  /\ UNCHANGED <<runs, seen>>

TerminateSuspendedRun(r) ==
  /\ Spent("clicks") /\ ~ui.terminating /\ ui.resuming = None /\ ui.list[r] \in Suspended
  /\ ui' = [ui EXCEPT !.terminating = TRUE]
  /\ net' = net \cup Uncached("terminate", r)
  /\ UNCHANGED <<runs, seen>>

\* SubmitAnswer: the live prompt belongs to the active run while it is selected.
SubmitAnswer ==
  /\ Spent("clicks") /\ ~ui.answering
  /\ ui.sel # None /\ ui.list[ui.sel] = "running"
  /\ ui' = [ui EXCEPT !.answering = TRUE]
  /\ net' = net \cup Uncached("answer", ui.sel)
  /\ UNCHANGED <<runs, seen>>

----
(***************************************************************************)
(* The result modal.                                                        *)
(***************************************************************************)

\* selectResultSource: the view and the list agree, or the list wins.
FromSummary(u) == ~(u.view.run = u.sel /\ wire(u.list[u.sel]) \in {wire(u.view.status), "absent"})
ResultStatus(u) ==
  IF FromSummary(u) THEN u.list[u.sel] ELSE u.view.status

Loading(u) == u.resultLoad = [run |-> u.sel, phase |-> "loading"]

\* planResultOpen: show at once, keep a load that is under way, or read the view.
planResultOpen(u) ==
  IF ResultStatus(u) \in Terminal
  THEN IF ~(FromSummary(u) /\ ResultStatus(u) = "error") THEN "show"
       ELSE IF Loading(u) THEN "keep" ELSE "fetch"
  ELSE IF Loading(u) THEN "keep" ELSE "fetch"

\* The flow stage offers the result once the flow model it shows is terminal; the model is
\* polled beside the view and may be ahead of it or behind.
OpenResultModal ==
  /\ Spent("clicks") /\ ui.screen = "watch" /\ ui.sel # None /\ ~ui.resultOpen
  /\ Terminal \cap {runs[ui.sel].status, ui.view.status} # {}
  /\ LET plan == planResultOpen(ui)
         open == [ui EXCEPT !.resultOpen = TRUE, !.pauseCard = FALSE]
     IN  /\ ui' = IF plan = "keep" THEN open
                  ELSE [open EXCEPT !.resultLoad = IF plan = "show" THEN NoLoad
                                                   ELSE [run |-> ui.sel, phase |-> "loading"]]
         /\ net' = net \cup IF plan = "fetch" THEN Uncached("result", ui.sel) ELSE {}
  /\ UNCHANGED <<runs, seen>>

RetryResultLoad ==
  /\ Spent("clicks") /\ ui.resultOpen /\ ~Loading(ui)
  /\ ui.resultLoad.phase = "failed"
  /\ ui' = [ui EXCEPT !.resultLoad = [run |-> ui.sel, phase |-> "loading"]]
  /\ net' = net \cup Uncached("result", ui.sel)
  /\ UNCHANGED <<runs, seen>>

\* CloseResultModal, or Continue and Resume, which leave for the compose screen and
\* keep the load.
CloseResultModal ==
  /\ Spent("clicks") /\ ui.resultOpen
  /\ \E screen \in {"watch", "away"} :
       ui' = [ui EXCEPT !.resultOpen = FALSE, !.screen = screen,
                        !.resultLoad = IF screen = "watch" THEN NoLoad ELSE @]
  /\ UNCHANGED <<runs, net, seen>>

----
(***************************************************************************)
(* Answers of the service: each yields the next page, the requests it sends,   *)
(* whether it switched runs, and what it told of the selected run (seen).       *)
(***************************************************************************)

Outcome(u, sends) == [ui |-> u, sends |-> sends, switched |-> FALSE, told |-> "no"]

\* planRunViewRecovery: a validator that outlived its view is dropped, and the view read
\* without it.
planRunViewRecovery_Never(u) == FALSE
planRunViewRecovery(u) == u.view.run # u.sel

isCompletionTransition_FirstReadToo(u, status) ==
  status \in {"success", "error"} /\ u.status \notin {"success", "error", "needs_clarification"}

\* A run the operator watched completes: a status that was known and not terminal
\* turns into success or error.
isCompletionTransition(u, status) ==
  /\ status \in {"success", "error"}
  /\ u.status \notin {None, "success", "error", "needs_clarification"}

GotReadableView(u, view) ==
  LET completes == isCompletionTransition(u, view.status)
      pauses == view.status = "paused" /\ u.status \in {"running", "unknown"}
  IN  [u EXCEPT !.view = view, !.status = wire(view.status),
                !.versions[view.run] = view.ver,
                !.resultOpen = @ \/ (completes /\ u.resultShown # view.run),
                !.resultShown = IF completes THEN view.run ELSE @,
                !.pauseCard = @ \/ pauses,
                !.pausing = IF @ = view.run /\ view.status \in Suspended THEN None ELSE @]

GotSelectedRun(u, q) ==
  CASE q.run # u.sel -> Outcome(u, {})
    [] q.run = u.sel /\ q.reply.code = 304 ->
         IF planRunViewRecovery(u)
         THEN Outcome([u EXCEPT !.versions[q.run] = 0], Uncached("view0", q.run))
         ELSE Outcome(u, {})
    [] q.run = u.sel /\ q.reply.code = 404 ->
         [Outcome([u EXCEPT !.status = "unknown"], {}) EXCEPT !.told = "yes"]
    [] OTHER -> Outcome(GotReadableView(u, q.reply.view), {})

\* The read behind the modal: a failure is shown with a retry, a view that is not terminal
\* yet leaves the modal waiting.
GotResultView(u, q) ==
  IF q.run # u.sel THEN Outcome(u, {})
  ELSE IF q.reply.code # 200
  THEN Outcome([u EXCEPT !.resultLoad = [run |-> q.run, phase |-> "failed"]], {})
  ELSE Outcome([u EXCEPT !.view = q.reply.view, !.status = wire(q.reply.view.status),
                         !.versions[q.run] = q.reply.view.ver,
                         !.resultLoad = IF q.reply.view.status \in Terminal THEN NoLoad ELSE @], {})

\* resolvePausePendingRunId: the request is pending while its run may still be running.
resolvePausePendingRunId(pausing, list) ==
  IF pausing = None \/ list[pausing] # "running" THEN None ELSE pausing

Newest(list) == CHOOSE r \in {x \in Runs : list[x] # "absent"} :
                  \A x \in Runs : list[x] # "absent" => x <= r

\* GotRunList: the list, the pending pause, the first selection, and off the watch screen
\* the status of the selection.
GotRunList(u, q) ==
  LET list == q.reply.list
      held == [u EXCEPT !.list = list, !.pausing = resolvePausePendingRunId(u.pausing, list)]
      chosen == IF u.sel = None /\ \E r \in Runs : list[r] # "absent"
                THEN [held EXCEPT !.sel = Newest(list), !.view = NoView, !.status = None] ELSE held
  IN  Outcome(IF chosen.screen # "watch" /\ chosen.sel # None /\ list[chosen.sel] # "absent"
              THEN [chosen EXCEPT !.status = wire(list[chosen.sel])] ELSE chosen, {})

\* GotPauseRequest: a refusal ends the pending state, an accepted request reads the list.
GotPauseRequest(u, q) ==
  IF u.pausing # q.run THEN Outcome(u, {})
  ELSE IF q.reply.code = 200 THEN Outcome(u, ListRead)
  ELSE Outcome([u EXCEPT !.pausing = None], {})

GotSuspendedResume(u, q) ==
  LET cleared == [u EXCEPT !.resuming = None]
  IN  IF q.reply.code = 200
      THEN [ui |-> resetRunView(cleared, q.run, None), sends |-> ListRead, switched |-> TRUE, told |-> "yes"]
      ELSE Outcome(cleared, ListRead)

GotSuspendedTerminate(u, q) ==
  LET cleared == [u EXCEPT !.terminating = FALSE]
  IN  Outcome(
        IF q.reply.code # 200 THEN cleared
        ELSE IF q.run # u.sel THEN [cleared EXCEPT !.pauseCard = FALSE]
        ELSE [cleared EXCEPT !.pauseCard = FALSE, !.status = "unknown", !.view = NoView,
                             !.resultOpen = FALSE, !.resultShown = None, !.resultLoad = NoLoad],
        ListRead)

\* AnswerSent: the status of whatever run is selected becomes unknown, so that its poll
\* runs again.
AnswerSent(u, q) ==
  LET settled == [u EXCEPT !.answering = FALSE]
  IN  IF q.reply.code # 200 THEN Outcome(settled, {})
      ELSE [Outcome([settled EXCEPT !.status = "unknown"], {})
              EXCEPT !.told = IF q.run = u.sel THEN "yes" ELSE "answered"]

Handled(u, q) ==
  CASE q.kind \in {"view", "view0"} -> GotSelectedRun(u, q)
    [] q.kind \in {"list", "list0"} -> GotRunList(u, q)
    [] q.kind = "result" -> GotResultView(u, q)
    [] q.kind = "pause" -> GotPauseRequest(u, q)
    [] q.kind = "resume" -> GotSuspendedResume(u, q)
    [] q.kind = "terminate" -> GotSuspendedTerminate(u, q)
    [] q.kind = "answer" -> AnswerSent(u, q)

Deliver(q) ==
  /\ q \in net /\ q.reply # Waiting
  /\ \E done \in {Handled(ui, q)} :
       /\ ui' = done.ui
       /\ net' = Sent(IF done.switched THEN cancelRunScopedPolls(net \ {q}) ELSE net \ {q}, done.sends)
       /\ Learnt(done.ui, done.told)
  /\ UNCHANGED <<runs, budget>>

\* The fail actions; a failed poll changes nothing.
PauseRequestFailed(u, q) == Outcome(IF u.pausing = q.run THEN [u EXCEPT !.pausing = None] ELSE u, {})
SuspendedResumeFailed(u) == Outcome([u EXCEPT !.resuming = None], ListRead)
SuspendedTerminateFailed(u) == Outcome([u EXCEPT !.terminating = FALSE], ListRead)
ResultViewFailed(u, q) ==
  Outcome(IF q.run = u.sel THEN [u EXCEPT !.resultLoad = [run |-> q.run, phase |-> "failed"]] ELSE u, {})
AnswerFailed(u) == Outcome([u EXCEPT !.answering = FALSE], {})

Failed(u, q) ==
  CASE q.kind = "pause" -> PauseRequestFailed(u, q)
    [] q.kind = "resume" -> SuspendedResumeFailed(u)
    [] q.kind = "terminate" -> SuspendedTerminateFailed(u)
    [] q.kind = "result" -> ResultViewFailed(u, q)
    [] q.kind = "answer" -> AnswerFailed(u)
    [] OTHER -> Outcome(u, {})

RequestFails(q) ==
  /\ q \in net /\ Spent("faults")
  /\ \E done \in {Failed(ui, q)} :
       ui' = done.ui /\ net' = Sent(net \ {q}, done.sends)
  /\ UNCHANGED <<runs, seen>>

----
(***************************************************************************)
(* The service, as the page meets it.                                       *)
(***************************************************************************)

NoneRunning == \A r \in Runs : runs[r].status # "running"
Moved(r, status) == [runs EXCEPT ![r] = [status |-> status, ver |-> @.ver + 1]]

\* A run goes on by itself, from another tab or from the queue.
RunMoves(r, status) ==
  /\ Spent("moves")
  /\ \/ runs[r].status = "running" /\ status \notin {"absent", "interrupted"}
     \/ runs[r].status \in {"absent", "error", "needs_clarification"} \cup Suspended
        /\ status = "running" /\ NoneRunning
     \/ runs[r].status \in {"needs_clarification"} \cup Suspended /\ status = "interrupted"
  /\ runs' = Moved(r, status)
  /\ UNCHANGED <<ui, net, seen>>

\* The command handlers, and the reads sent outside the guard.
Granted(yes) == [Waiting EXCEPT !.code = IF yes THEN 200 ELSE 409]

Serve(q) ==
  /\ q \in net /\ q.reply = Waiting
  /\ LET reply ==
           CASE q.kind \in {"view0", "result"} -> RunView(q.run, 0)
             [] q.kind = "list0" -> RunList
             [] q.kind \in {"pause", "answer"} -> Granted(runs[q.run].status = "running")
             [] q.kind = "resume" -> Granted(runs[q.run].status \in Suspended /\ NoneRunning)
             [] q.kind = "terminate" -> Granted(runs[q.run].status \in Suspended)
     IN  /\ net' = (net \ {q}) \cup {[q EXCEPT !.reply = reply]}
         /\ runs' = CASE q.kind = "resume" /\ reply.code = 200 -> Moved(q.run, "running")
                      [] q.kind = "terminate" /\ reply.code = 200 -> Moved(q.run, "interrupted")
                      [] OTHER -> runs
  /\ UNCHANGED <<ui, seen, budget>>

----
Reads(kinds) == \E q \in net : q.kind \in kinds /\ (Serve(q) \/ Deliver(q))
ListProgress == Tick \/ Reads({"list", "list0"})
ViewProgress == PollSelectedRun \/ Reads({"view", "view0"})
OtherProgress == Reads({"result", "pause", "resume", "terminate", "answer"})

WatchNext ==
  \/ \E r \in Runs : SelectRun(r) \/ ResumeSuspendedRunNow(r) \/ TerminateSuspendedRun(r)
  \/ \E r \in Runs, status \in Statuses : RunMoves(r, status)
  \/ SetScreen \/ PageVisibilityChanged
  \/ RequestPause \/ SubmitAnswer
  \/ OpenResultModal \/ RetryResultLoad \/ CloseResultModal
  \/ ListProgress \/ ViewProgress \/ OtherProgress
  \/ \E q \in net : RequestFails(q)

WatchFairness == WF_wvars(ListProgress) /\ WF_wvars(ViewProgress) /\ WF_wvars(OtherProgress)
WatchSpec == WatchInit /\ [][WatchNext]_wvars /\ WatchFairness

----
(***************************************************************************)
(* Properties.                                                              *)
(***************************************************************************)

\* The watch screen stops polling only with a view of the selected run, in the status
\* that stopped it, on the screen: no late answer of another run, no status taken from
\* the list while the operator was away, leaves an empty view or one of another status
\* that nothing refreshes.
SettledIsShown ==
  ui.screen = "watch" /\ ui.sel # None /\ ~hasPollableSelectedRun(ui)
    => ui.view.run = ui.sel /\ wire(ui.view.status) = ui.status

\* The result modal opens by itself only for a run the page had evidence was unfinished,
\* or that was selected when an answer was accepted (AnswerSent forgets the status of the
\* selection, whichever run the answer went to): no late or first read of an old run pops
\* its outcome otherwise.
PopsOnEvidence ==
  [][ui'.resultShown \notin {None, ui.resultShown} => seen # "no"]_wvars

\* A pollable watch on a visible page ends up with the view the service holds, whatever
\* was lost, whichever validator outlived its view; and a pause request that is pending
\* is pending for a run that still runs.
CaughtUp ==
  ui.visible =>
    /\ ui.screen = "watch" /\ hasPollableSelectedRun(ui) /\ runs[ui.sel].status # "absent"
         => ui.view = View(ui.sel, runs[ui.sel].status, runs[ui.sel].ver)
    /\ ui.pausing # None => runs[ui.pausing].status = "running"
WatchCatchesUp == <>[]CaughtUp
=============================================================================
