----------------------------- MODULE Orchestrator -----------------------------
(***************************************************************************)
(* The orchestration service: the task queue, the run slot and the live    *)
(* run, the crashes and the boot reconciliation, composed.  The properties *)
(* relate the queue file to the run directories and to the slot.           *)
(***************************************************************************)
EXTENDS TaskQueue, StartupReconciliation

\* An empty state directory, and no process.
NoItem == [NormalizeNewItem(CHOOSE t \in Tasks : TRUE, None)
             EXCEPT !.status = "absent"]
NoMeta == [status |-> "nodir", task |-> None, question |-> None,
           kind |-> "none", superseded |-> FALSE]
Init ==
  /\ item = [i \in Items |-> NoItem] /\ order = << >>
  /\ meta = [r \in Runs |-> NoMeta] /\ ckpt = [r \in Runs |-> NoCkpt]
  /\ pauseReq = {} /\ heard = [r \in Runs |-> {}] /\ dirty = {}
  /\ phase = "down" /\ pc = Idle
  /\ active = None /\ live = NoLive /\ pauseSignal = FALSE
  /\ paused = NoPaused /\ probing = FALSE
  /\ gate = TRUE /\ shutdown = FALSE /\ scan = {}
  /\ sleepers = << >> /\ secondTaken = FALSE
  /\ count = [asks |-> 0, answers |-> 0, crashes |-> 0, losses |-> 0,
              edits |-> 0]

Next == QueueStep \/ QueueRequest \/ RunStep \/ BootStep \/ Disturbance

Spec == Init /\ [][Next]_vars

(***************************************************************************)
(* Fairness.  The event loop runs every section to its end and boots after *)
(* a crash; timers fire; a run takes turns and, its budgets being finite,  *)
(* ends.  Requests, crashes, probes and the operator owe nothing.          *)
(***************************************************************************)
SectionStep == QueueStep \/ BootStep \/ SubmitAccepted \/ StartRun
               \/ Cleanup \/ StartResume \/ TerminateMeta \/ DropCheckpoint
RunEnds == Unwind \/ OperatorPause \/ Finish("success", None)
           \/ Finish("error", None)
           \/ \E q \in Questions : Finish("needs_clarification", q)
Fairness ==
  /\ WF_vars(SectionStep) /\ WF_vars(Exit)
  /\ SF_vars(WakeSleeper) /\ SF_vars(SecondPasses)
  /\ SF_vars(SafePoint) /\ SF_vars(RunEnds)
FairSpec == Spec /\ Fairness

-----------------------------------------------------------------------------
(* Safety.                                                                 *)

\* The server is open and no handler is half way through its writes.
AtRest == phase = "up" /\ pc = Idle

\* Every entry the service ever writes passes the reader's guard, and the file
\* lists each entry once: a single bad entry would make readQueue return an empty
\* queue and lose all of them.
EntriesValid ==
  \A i \in Items : item[i].status \in FileStatus => IsQueueItem(item[i])
QueueWellFormed ==
  /\ EntriesValid
  /\ \A k \in DOMAIN order : item[order[k]].status \in FileStatus
  /\ \A i \in Items : item[i].status \in FileStatus =>
       \E k \in DOMAIN order :
         /\ order[k] = i
         /\ \A j \in DOMAIN order : order[j] = i => j = k

\* One run at a time (track, adoptSuspendedRun): the slot never holds a live run
\* beside a paused one,
SlotExclusive == active # None => paused.run = None

\* and it holds exactly the run whose meta says running.
SingleRun ==
  /\ SlotExclusive
  /\ AtRest => \A r \in Runs : meta[r].status = "running" <=> r = active

\* A paused run can be resumed: its meta says suspended for the same cause and its
\* checkpoint is there and not parked, so the pause cannot block the queue forever.
PausedIsResumable ==
  AtRest /\ paused.run # None =>
    /\ meta[paused.run].status = "suspended"
    /\ meta[paused.run].kind = paused.kind
    /\ Usable(paused.run)

\* The file agrees with the run directories whenever no handler is running: an
\* active item has a live run behind it or a dispatch cycle asleep for it, a
\* suspended item is the paused run's, a needs_input item names its run's question,
\* a done item's run succeeded.
FileMatchesRuns ==
  AtRest => \A i \in Items :
    LET it == item[i] IN
      CASE it.status = "active" ->
             IF it.runId = None
               THEN \E k \in DOMAIN sleepers : sleepers[k].i = i
               ELSE it.runId = active
        [] it.status = "suspended" -> it.runId = paused.run
        [] it.status = "needs_input" ->
             /\ meta[it.runId].status = "needs_clarification"
             /\ meta[it.runId].question = it.question
        [] it.status = "done" -> meta[it.runId].status = "success"
        [] OTHER -> TRUE

\* An answer the operator gave is never lost: it is in the queue file until the
\* conversation of some run durably contains it.
AnswersKept ==
  \A a \in 1..count.answers :
    (\E i \in Items : item[i].answer = a) \/ (\E r \in Runs : a \in heard[r])

\* The pre-write rule: a run waiting for an answer off the slot has not touched
\* the workspace, across every resume and restart.
ParkedIsClean ==
  \A r \in Runs : ckpt[r].has /\ ckpt[r].call # None => r \notin dirty

\* While the closed gate is all that blocks the queue, a probe is on its way.
BlockedIsProbed ==
  AtRest /\ SlotFree /\ ~gate => probing

-----------------------------------------------------------------------------
(* What a step may never do.                                               *)

\* While a run is paused the slot can only go to that run.
PausePriority ==
  [][paused.run # None /\ active' # active => active' = paused.run
     \/ phase' = "down"]_vars

-----------------------------------------------------------------------------
(* The queue implements the lifecycle its document promises.               *)

Lifecycle == INSTANCE TaskLifecycle
               WITH status <- [i \in Items |-> item[i].status]

\* Every step of the service, crashes and boot repairs included, moves the items
\* only along the document's state machine.
LifecycleSpec == Lifecycle!Spec

-----------------------------------------------------------------------------
(* What must eventually happen.                                            *)

RunIdsExhausted == \A r \in Runs : meta[r].status # "nodir"

\* Every accepted task comes to an end or to a question while its runs end by
\* themselves, across collisions, crashes and shutdowns: no item waits or stays
\* active forever.
TaskSettles ==
  \A i \in Items :
    item[i].status \in {"waiting", "active"} ~>
      \/ item[i].status \in {"done", "error", "needs_input", "cancelled",
                             "removed"}
      \/ RunIdsExhausted

\* Every recorded answer reaches the conversation of a run, unless the operator
\* cancels the item that carries it.
AnswerIsHeard ==
  \A a \in 1..MaxAnswers :
    count.answers >= a ~>
      \/ \E r \in Runs : a \in heard[r]
      \/ \E i \in Items : item[i].answer = a /\ item[i].status = "cancelled"
      \/ RunIdsExhausted
=============================================================================
