------------------------------ MODULE QueueModel ------------------------------
(***************************************************************************)
(* The pure item logic of the durable task queue (executor/queue/model.ts):*)
(* what an item is, when the reader accepts it, and every lifecycle        *)
(* rebuild of one item.                                                    *)
(*                                                                         *)
(* An optional field that is absent is 0 (run ids, tool calls, questions   *)
(* and answers are positive) or FALSE.  The answer text and its durable    *)
(* answerId are always recorded, carried and dropped together, so `answer' *)
(* is that identity.  Effort, involvement, log level and the queuedAt      *)
(* stamp ride every rebuild unchanged and decide nothing; they are left    *)
(* out.  `outcome' stands for resultSummary/error.                         *)
(***************************************************************************)
EXTENDS Naturals

None == 0

\* The statuses a file entry can carry (QueueItemStatus), and two for an id that
\* is not in the file: not yet minted, or dropped by the collision rollback.
FileStatus == {"waiting", "active", "suspended", "needs_input",
               "done", "error", "cancelled"}
OffFile    == {"absent", "removed"}

\* The field types of an item, over the task texts and the run ids (None among
\* them).
ItemType(Tasks, RunIds) ==
  [task: Tasks, continuesFrom: RunIds, status: FileStatus \cup OffFile,
   runId: RunIds, suspendedAt: BOOLEAN, settledAt: BOOLEAN, question: Nat,
   answer: Nat, outcome: BOOLEAN, resumeRunId: RunIds, resumeToolCallId: Nat]

(***************************************************************************)
(* isQueueItem: the guard the reader applies to every entry.  One entry    *)
(* that fails it makes the whole file read as an empty queue.              *)
(***************************************************************************)
IsQueueItem(it) ==
  /\ it.status \in FileStatus
  /\ it.resumeRunId # None =>
       /\ it.answer # None
       /\ it.status \in {"waiting", "active"}
  /\ it.resumeToolCallId # None => it.resumeRunId # None
  /\ IF it.status = "suspended"
       THEN /\ it.runId # None /\ it.suspendedAt
            /\ ~it.settledAt /\ ~it.outcome
            /\ it.question = None /\ it.answer = None
            /\ it.resumeRunId = None /\ it.resumeToolCallId = None
       ELSE ~it.suspendedAt

-----------------------------------------------------------------------------
(* The rebuilds.  Each starts from the fields its helper carries.          *)

\* normalizeNewItem: a fresh waiting entry.
NormalizeNewItem(task, continuesFrom) ==
  [task |-> task, continuesFrom |-> continuesFrom, status |-> "waiting",
   runId |-> None, suspendedAt |-> FALSE, settledAt |-> FALSE,
   question |-> None, answer |-> None, outcome |-> FALSE,
   resumeRunId |-> None, resumeToolCallId |-> None]

\* carriedFields: identity, question and answer; never an outcome field, the run,
\* the lineage or a resume pointer.
CarriedFields(it) ==
  [NormalizeNewItem(it.task, None) EXCEPT
     !.question = it.question, !.answer = it.answer]

\* Carried fields, lineage and resume pointers under a new status.
KeepPointers(it, status, continuesFrom) ==
  [CarriedFields(it) EXCEPT
     !.status = status, !.continuesFrom = continuesFrom,
     !.resumeRunId = it.resumeRunId, !.resumeToolCallId = it.resumeToolCallId]

\* releaseToWaiting without and with a re-pointed lineage.
ReleaseToWaiting(it) == KeepPointers(it, "waiting", it.continuesFrom)
ReleaseContinuing(it, run) == KeepPointers(it, "waiting", run)

\* dispatchingItem: the marker, active with no run id.
DispatchingItem(it) == KeepPointers(it, "active", it.continuesFrom)

\* fallbackFromAnsweredItem: the pointers are dropped, the answer stays for the
\* briefing, the lineage names the run that could not be resumed.
BriefedFallback(it, run) ==
  [CarriedFields(it) EXCEPT !.continuesFrom = run]

\* cancelledItem, also the body of cancelWaitingItem and of both terminate forms.
CancelledItem(it) ==
  [CarriedFields(it) EXCEPT !.continuesFrom = it.continuesFrom,
     !.status = "cancelled", !.settledAt = TRUE]

\* recordAnswer: resumeRun is None on the briefed fallback, and call is None for
\* a clarification resume.
RecordAnswer(it, answer, resumeRun, call) ==
  [CarriedFields(it) EXCEPT
     !.answer = answer, !.resumeRunId = resumeRun, !.resumeToolCallId = call,
     !.continuesFrom = IF resumeRun = None /\ it.runId # None
                         THEN it.runId ELSE it.continuesFrom]

\* requeueErrorItem.
RequeuedItem(it) ==
  [CarriedFields(it) EXCEPT
     !.continuesFrom = IF it.runId # None THEN it.runId ELSE it.continuesFrom]

\* reactivateErrorItem and reactivateSuspendedItem, and the boot repairs that
\* bind an item to a running run: active under that run, pointers dropped.
BoundItem(it, run) ==
  [CarriedFields(it) EXCEPT !.continuesFrom = it.continuesFrom,
     !.status = "active", !.runId = run]

\* suspendedItem: the run binding and the pause stamp, nothing else.
SuspendedItem(it, run) ==
  [NormalizeNewItem(it.task, it.continuesFrom) EXCEPT
     !.status = "suspended", !.runId = run, !.suspendedAt = TRUE]

\* Mutant of MappedStatus: a run's success is not translated.
MappedStatus_Untranslated(runStatus) ==
  IF runStatus = "needs_clarification" THEN "needs_input" ELSE runStatus

\* mapSettledItemState: the item status a terminal run status maps to.
SettleableStatus == {"success", "error", "needs_clarification"}
MappedStatus(runStatus) ==
  CASE runStatus = "success" -> "done"
    [] runStatus = "error" -> "error"
    [] runStatus = "needs_clarification" -> "needs_input"

\* settledItem of a meta [status, question]: needs_input records the question and
\* stays unsettled, the others record the outcome.
SettledItem(it, m, run) ==
  LET base == [NormalizeNewItem(it.task, it.continuesFrom) EXCEPT
                 !.status = MappedStatus(m.status), !.runId = run]
  IN IF m.status = "needs_clarification"
       THEN [base EXCEPT !.question = m.question]
       ELSE [base EXCEPT !.settledAt = TRUE, !.outcome = TRUE]

-----------------------------------------------------------------------------
\* Mutant of PendingAnswerUndelivered: the parked asks are forgotten.
PendingAnswerUndelivered_NotesOnly(it, p, run) ==
  /\ it.answer # None /\ it.resumeRunId = run
  /\ p.kind = "clarification" /\ it.resumeToolCallId = None
  /\ p.delivered = it.answer => ~p.consumed

(***************************************************************************)
(* pendingAnswerUndelivered: a recorded answer has not reached run's       *)
(* paused state p, a record [kind, call, question, delivered, consumed];   *)
(* kind "none" is a missing or unanswerable checkpoint.                    *)
(***************************************************************************)
PendingAnswerUndelivered(it, p, run) ==
  /\ it.answer # None
  /\ it.resumeRunId = run
  /\ \/ /\ p.kind = "parked_ask"
        /\ it.resumeToolCallId # None
        /\ p.call = it.resumeToolCallId
        /\ p.question = it.question
     \/ /\ p.kind = "clarification"
        /\ it.resumeToolCallId = None
        /\ p.delivered = it.answer => ~p.consumed

(***************************************************************************)
(* repairActiveItem for an item bound to a run whose meta is m (status     *)
(* "none" when there is no readable meta) and whose pause is p.            *)
(***************************************************************************)
RepairBoundActive(it, m, p) ==
  CASE m.status = "none" -> ReleaseToWaiting(it)
    [] m.status = "running" -> it
    [] m.status = "suspended" -> SuspendedItem(it, it.runId)
    [] m.status = "needs_clarification"
         /\ PendingAnswerUndelivered(it, p, it.runId) -> ReleaseToWaiting(it)
    [] m.status = "interrupted" ->
         IF m.superseded THEN CancelledItem(it)
                         ELSE ReleaseContinuing(it, it.runId)
    [] OTHER -> SettledItem(it, m, it.runId)

\* Mutant of RepairMarker: a marker whose run never started is left alone.
RepairMarker_LeavesOrphan(it, run, runTask) ==
  IF run # None /\ runTask = it.task THEN BoundItem(it, run) ELSE it

\* repairActiveItem for an orphaned marker: it binds to the unique running run
\* (None when there is none, or several) on an exact task match.
RepairMarker(it, run, runTask) ==
  IF run # None /\ runTask = it.task THEN BoundItem(it, run)
                                     ELSE ReleaseToWaiting(it)

\* Mutant of RepairSuspended: a resume that was cut short is not noticed.
RepairSuspended_IgnoresRunning(it, m) ==
  CASE m.status \in {"suspended", "running"} -> it
    [] m.status \in SettleableStatus -> SettledItem(it, m, it.runId)
    [] OTHER -> CancelledItem(it)

\* Mutant of RepairSuspended: the task of a terminated run is dispatched again.
RepairSuspended_Redispatches(it, m) ==
  CASE m.status = "suspended" -> it
    [] m.status = "running" -> BoundItem(it, it.runId)
    [] m.status \in SettleableStatus -> SettledItem(it, m, it.runId)
    [] OTHER -> ReleaseContinuing(it, it.runId)

\* repairSuspendedItem.
RepairSuspended(it, m) ==
  CASE m.status = "suspended" -> it
    [] m.status = "running" -> BoundItem(it, it.runId)
    [] m.status \in SettleableStatus -> SettledItem(it, m, it.runId)
    [] OTHER -> CancelledItem(it)

\* repairNeedsInputItem: only a run already terminalized interrupted cancels it.
RepairNeedsInput(it, m) ==
  IF it.runId # None /\ m.status = "interrupted" THEN CancelledItem(it) ELSE it
=============================================================================
