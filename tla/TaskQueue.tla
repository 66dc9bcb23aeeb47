------------------------------ MODULE TaskQueue ------------------------------
(***************************************************************************)
(* The durable task queue (executor/queue/task-queue.ts): the scheduler    *)
(* tick with its repair pass, the dispatch cycle and its collision retry,  *)
(* the same-run answer resume, settlement, and the operator's operations.  *)
(***************************************************************************)
EXTENDS RunExecutor

(***************************************************************************)
(* repairPass.  An orphaned marker may bind to the only running run.       *)
(***************************************************************************)
IsUniqueRunning(r) ==
  /\ meta[r].status = "running"
  /\ \A q \in Runs : meta[q].status = "running" => q = r
UniqueRunning == IF \E r \in Runs : IsUniqueRunning(r)
                   THEN CHOOSE r \in Runs : IsUniqueRunning(r) ELSE None

RepairedItem(it) ==
  CASE it.status = "needs_input" /\ it.runId # None ->
         RepairNeedsInput(it, ReadMeta(it.runId))
    [] it.status = "suspended" -> RepairSuspended(it, ReadMeta(it.runId))
    [] it.status = "active" /\ it.runId # None ->
         RepairBoundActive(it, ReadMeta(it.runId), PauseState(it.runId))
    [] it.status = "active" /\ it.runId = None ->
         LET r == UniqueRunning
         IN RepairMarker(it, r, IF r = None THEN None ELSE meta[r].task)
    [] OTHER -> it

\* The run of a parked item was terminated and its checkpoint is still there.
HalfTerminated(r) ==
  /\ ckpt[r].has /\ meta[r].status = "interrupted"
  /\ BoundTo("needs_input", r) # {}

\* The repair finishes such a termination before the queue records it.
TickCleanup ==
  /\ At("tick")
  /\ \E r \in Runs :
       /\ HalfTerminated(r)
       /\ ckpt' = [ckpt EXCEPT ![r] = NoCkpt]
       /\ ReleasePaused(r)
  /\ UNCHANGED <<fileVars, meta, pauseReq, heard, dirty, active, live,
                 pauseSignal, loopVars, timeVars, pc, count>>

\* Mutant of MayDispatch: only one dispatch cycle at a time.
MayDispatch_SingleFlight == ~shutdown /\ SlotFree /\ gate /\ sleepers = << >>

\* The tick's early returns.
MayDispatch == ~shutdown /\ SlotFree /\ gate

\* Waiting work behind the closed gate starts the monitor (ensureProviderProbe).
EnsureProviderProbe ==
  probing' = (probing \/ (/\ ~shutdown /\ SlotFree /\ ~gate
                         /\ \E i \in Items : item'[i].status = "waiting"))

\* One write of the repaired file; dispatch follows when nothing holds the slot.
TickRepair ==
  /\ At("tick") /\ ~\E r \in Runs : HalfTerminated(r)
  /\ item' = [i \in Items |-> RepairedItem(item[i])]
  /\ EnsureProviderProbe
  /\ IF MayDispatch
       THEN Goto("dispatch") /\ phase' = phase
       ELSE Leave(pc.caller, pc.i)
  /\ UNCHANGED <<order, runVars, active, paused, live, pauseSignal, gate,
                 shutdown, scan, timeVars, count>>

-----------------------------------------------------------------------------
(* dispatchHead and submitHead.                                            *)

MarkFor(i) ==
  /\ Replace(i, DispatchingItem(item[i]))
  /\ pc' = [pc EXCEPT !.at = "submit", !.i = i, !.n = 0,
                      !.m = DispatchingItem(item[i])]

Answered(it) == it.resumeRunId # None /\ it.answer # None

DispatchNone ==
  /\ At("dispatch") /\ ~\E i \in Items : IsFirst(i, WithStatus("waiting"))
  /\ Leave(pc.caller, pc.i)
  /\ UNCHANGED <<fileVars, runVars, slotVars, gate, shutdown, scan, timeVars,
                 count>>

DispatchHead ==
  /\ At("dispatch")
  /\ \E i \in Items :
       /\ IsFirst(i, WithStatus("waiting"))
       /\ \/ /\ Answered(item[i])
             /\ Replace(i, [DispatchingItem(item[i])
                              EXCEPT !.runId = item[i].resumeRunId])
             /\ pc' = [pc EXCEPT !.at = "resumeAnswered", !.i = i,
                                 !.r = item[i].resumeRunId]
          \/ ~Answered(item[i]) /\ MarkFor(i)
  /\ UNCHANGED <<runVars, slotVars, loopVars, timeVars, count>>

\* The marker of a briefed fallback.
MarkFallback ==
  /\ At("mark") /\ MarkFor(pc.i)
  /\ UNCHANGED <<runVars, slotVars, loopVars, timeVars, count>>

\* The slot was taken, a pause has priority, or the retries are used up.  The item
\* is rebuilt from the cycle's own marker.
SubmitRefused ==
  /\ At("submit")
  /\ ~SlotFree \/ (RunIdTaken /\ pc.n >= MaxCollisionRetries)
  /\ Replace(pc.i, ReleaseToWaiting(pc.m))
  /\ Leave(pc.caller, pc.i)
  /\ UNCHANGED <<runVars, slotVars, gate, shutdown, scan, timeVars, count>>

\* run_id_collision: the cycle sleeps past the second.  submitNow and the boot
\* sequence await it; the recovery coordinator does not.
SubmitCollides ==
  /\ At("submit") /\ SlotFree /\ RunIdTaken /\ pc.n < MaxCollisionRetries
  /\ sleepers' = Append(sleepers,
       [i |-> pc.i, m |-> pc.m, n |-> pc.n + 1, ready |-> FALSE,
        caller |-> IF pc.caller = "probe" THEN "none" ELSE pc.caller])
  /\ IF pc.caller = "probe" THEN Leave("probe", None)
                            ELSE pc' = Idle /\ phase' = phase
  /\ UNCHANGED <<fileVars, runVars, slotVars, gate, shutdown, scan,
                 secondTaken, count>>

\* The retry re-reads the file and goes on, with the marker it kept, only while
\* the item is active with no run id.
WakeSleeper ==
  /\ LoopFree /\ phase # "down"
  /\ sleepers # << >> /\ Head(sleepers).ready
  /\ LET s == Head(sleepers) IN
       IF item[s.i].status = "active" /\ item[s.i].runId = None
         THEN /\ pc' = [Idle EXCEPT !.at = "submit", !.i = s.i, !.m = s.m,
                                    !.n = s.n, !.caller = s.caller]
              /\ phase' = phase
         ELSE Leave(s.caller, s.i)
  /\ sleepers' = Tail(sleepers)
  /\ UNCHANGED <<fileVars, runVars, slotVars, gate, shutdown, scan,
                 secondTaken, count>>

\* The accepted run's id is written over the marker.
BindRun ==
  /\ At("bind")
  /\ Replace(pc.i, [pc.m EXCEPT !.runId = pc.r])
  /\ Leave(pc.caller, pc.i)
  /\ UNCHANGED <<runVars, slotVars, gate, shutdown, scan, timeVars, count>>

-----------------------------------------------------------------------------
(* resumeAnsweredItem over createResumeParkedRun and                       *)
(* createResumeClarificationRun.                                           *)

\* The pause the answer was recorded for is still the run's pause.
StillParked(it, r) ==
  /\ meta[r].status = "needs_clarification" /\ ckpt[r].has
  /\ IF it.resumeToolCallId # None
       THEN /\ ckpt[r].call = it.resumeToolCallId
            /\ ckpt[r].question = it.question
       ELSE ckpt[r].call = None

\* A clarification note is appended durably before the running meta; an id already
\* on the checkpoint is not appended twice.
DeliverNote(it, r) ==
  IF it.resumeToolCallId = None /\ ckpt[r].delivered # it.answer
    THEN /\ ckpt' = [ckpt EXCEPT ![r].delivered = it.answer,
                                 ![r].consumed = FALSE]
         /\ heard' = [heard EXCEPT ![r] = @ \cup {it.answer}]
    ELSE UNCHANGED <<ckpt, heard>>

ResumeAnswered ==
  /\ At("resumeAnswered")
  /\ LET it == item[pc.i] IN
     \/ /\ SlotFree /\ StillParked(it, pc.r)
        /\ DeliverNote(it, pc.r)
        /\ Goto("startAnswered")
        /\ UNCHANGED fileVars
     \/ /\ SlotFree /\ ~StillParked(it, pc.r)
        /\ Replace(pc.i, BriefedFallback(it, pc.r))
        /\ Goto("mark")
        /\ UNCHANGED <<ckpt, heard>>
  /\ pauseReq' = pauseReq \ {pc.r}
  /\ UNCHANGED <<meta, dirty, slotVars, loopVars, timeVars, count>>

\* resumeExecutor with an answer: tracked again.  A parked answer replaces its tool
\* result in memory and becomes durable at the next checkpoint.
StartAnswered ==
  /\ At("startAnswered")
  /\ LET it == item[pc.i] IN
       Occupy(pc.r, TRUE, ckpt[pc.r].wrote,
              IF it.resumeToolCallId # None THEN it.answer ELSE None,
              ckpt[pc.r].delivered)
  /\ meta' = [meta EXCEPT ![pc.r] = RunningMeta(meta[pc.r].task)]
  /\ Leave(pc.caller, pc.i)
  /\ UNCHANGED <<fileVars, ckpt, pauseReq, heard, dirty, pauseVars, gate,
                 shutdown, scan, timeVars, count>>

-----------------------------------------------------------------------------
(* track's settlement and onRunSettled.                                    *)

VacateSlot == active' = None /\ live' = NoLive /\ pauseSignal' = FALSE

\* What the settled run's item becomes.  An answer that never reached the run
\* goes back to waiting with it.
SettledAs(it, r) ==
  CASE meta[r].status = "suspended" -> SuspendedItem(it, r)
    [] meta[r].status = "needs_clarification"
         /\ PendingAnswerUndelivered(it, PauseState(r), r) ->
         ReleaseToWaiting(it)
    [] OTHER -> SettledItem(it, ReadMeta(r), r)

\* Replaces the first active item bound to the settled run, if there is one.
ReplaceSettled(r) ==
  IF \E i \in Items : IsFirst(i, BoundTo("active", r))
    THEN \E i \in Items : /\ IsFirst(i, BoundTo("active", r))
                          /\ Replace(i, SettledAs(item[i], r))
    ELSE UNCHANGED fileVars

\* A suspended settlement claims the priority slot before the active one clears,
\* and does not tick.  A provider suspension is noticed: probing starts, and the
\* gate closes when the failure was a conclusive one.
SettleSuspended ==
  /\ At("settle") /\ meta[pc.r].status = "suspended"
  /\ paused' = [run |-> pc.r, kind |-> meta[pc.r].kind]
  /\ IF meta[pc.r].kind = "provider" THEN probing' = TRUE /\ gate' \in BOOLEAN
                                    ELSE UNCHANGED <<probing, gate>>
  /\ VacateSlot
  /\ ReplaceSettled(pc.r)
  /\ pc' = Idle
  /\ UNCHANGED <<runVars, phase, shutdown, scan, timeVars, count>>

SettleTerminal ==
  /\ At("settle") /\ meta[pc.r].status # "suspended"
  /\ VacateSlot
  /\ ReplaceSettled(pc.r)
  /\ Enter("tick", None, None, "none")
  /\ UNCHANGED <<runVars, pauseVars, loopVars, timeVars, count>>

\* reactivateErrorItem and reactivateSuspendedItem behind an explicit resume.
Reactivate(label, status) ==
  /\ At(label)
  /\ IF \E i \in Items : IsFirst(i, BoundTo(status, pc.r))
       THEN \E i \in Items : /\ IsFirst(i, BoundTo(status, pc.r))
                             /\ Replace(i, BoundItem(item[i], pc.r))
       ELSE UNCHANGED fileVars
  /\ Leave(pc.caller, None)
  /\ UNCHANGED <<runVars, slotVars, gate, shutdown, scan, timeVars, count>>

-----------------------------------------------------------------------------
(* The operator's operations.                                              *)

NewId(i) == item[i].status = "absent" /\ \A j \in Items : j < i => j \in Minted

\* enqueue: continuesFrom is any run id the operator names.
Enqueue(i, task, from, atHead) ==
  /\ Accepting /\ NewId(i)
  /\ item' = [item EXCEPT ![i] = NormalizeNewItem(task, from)]
  /\ order' = IF atHead THEN <<i>> \o order ELSE Append(order, i)
  /\ Enter("tick", None, None, "none")
  /\ UNCHANGED <<runVars, slotVars, loopVars, timeVars, count>>

\* submitNow: refused before anything is written while the slot is not free.
SubmitNow(i, task) ==
  /\ Accepting /\ NewId(i) /\ SlotFree /\ gate
  /\ item' = [item EXCEPT ![i] = NormalizeNewItem(task, None)]
  /\ order' = <<i>> \o order
  /\ Enter("tick", i, None, "now")
  /\ UNCHANGED <<runVars, slotVars, loopVars, timeVars, count>>

\* submitNow after its tick: an item left waiting with no run in flight is dropped.
SubmitNowReturns ==
  /\ At("afterNow")
  /\ IF item[pc.i].runId = None /\ active = None /\ item[pc.i].status = "waiting"
       THEN \E k \in DOMAIN order :
              /\ order[k] = pc.i
              /\ order' = WithoutPos(k)
              /\ item' = [item EXCEPT ![pc.i].status = "removed"]
       ELSE UNCHANGED fileVars
  /\ pc' = Idle
  /\ UNCHANGED <<runVars, slotVars, loopVars, timeVars, count>>

\* editWaitingItem: refused once an answer binds the item to a paused run.
EditTask(i, task) ==
  /\ Serving /\ count.edits < MaxEdits
  /\ item[i].status = "waiting" /\ item[i].task # task
  /\ item[i].resumeRunId = None /\ item[i].resumeToolCallId = None
  /\ Replace(i, [item[i] EXCEPT !.task = task])
  /\ Used("edits")
  /\ UNCHANGED <<runVars, slotVars, loopVars, timeVars, pc>>

\* reorderWaitingItem: the waiting sublist with i at the clamped position; every
\* other entry keeps its file position.
IsWaiting(i) == item[i].status = "waiting"

\* The file positions of the waiting sublist and, of a set of positions, how many it has
\* up to k and which one is its n-th.
WaitingPlaces == {k \in DOMAIN order : IsWaiting(order[k])}
Rank(S, k) == Cardinality({j \in S : j <= k})
Nth(S, n) == CHOOSE k \in S : Rank(S, k) = n

\* Mutant of OtherPlaces: the moved entry is not taken out of the sublist.
OtherPlaces_NotRemoved(i) == WaitingPlaces

OtherPlaces(i) == {k \in WaitingPlaces : order[k] # i}

\* The n-th entry of the sublist once i is spliced in at p.
MovedWaiting(i, p, n) ==
  LET others == OtherPlaces(i)
      at == IF p > Cardinality(others) THEN Cardinality(others) ELSE p
  IN CASE n <= at     -> order[Nth(others, n)]
       [] n = at + 1  -> i
       [] n > at + 1  -> order[Nth(others, n - 1)]

\* The code throws where the moved list runs short, and calls that unreachable: reordered
\* would then not be a list of items.
Reorder(i, p) ==
  /\ Serving /\ count.edits < MaxEdits /\ IsWaiting(i)
  /\ LET reordered == [k \in DOMAIN order |->
           IF k \in WaitingPlaces THEN MovedWaiting(i, p, Rank(WaitingPlaces, k))
                                  ELSE order[k]]
     IN reordered \in [DOMAIN order -> Items] /\ order' = reordered
  /\ Used("edits")
  /\ UNCHANGED <<item, runVars, slotVars, loopVars, timeVars, pc>>

Cancel(i) ==
  /\ Serving /\ item[i].status = "waiting"
  /\ Replace(i, CancelledItem(item[i]))
  /\ UNCHANGED <<runVars, slotVars, loopVars, timeVars, pc, count>>

\* terminate: the run first, then the item, then a tick.
TerminateItem(i) ==
  /\ Accepting /\ item[i].status \in {"needs_input", "suspended"}
  /\ Enter("terminate", i, item[i].runId, "none")
  /\ UNCHANGED <<fileVars, runVars, slotVars, loopVars, timeVars, count>>

\* terminateSuspendedRun, behind the handler's status checks.
TerminateSuspendedRun(r) ==
  /\ Accepting /\ active = None /\ meta[r].status = "suspended"
  /\ Enter("terminate", None, r, "none")
  /\ UNCHANGED <<fileVars, runVars, slotVars, loopVars, timeVars, count>>

\* The queue half of a termination, shared by the discard of an unresumable run.
CancelTerminated ==
  /\ At("cancel")
  /\ IF pc.i # None
       THEN Replace(pc.i, CancelledItem(item[pc.i]))
       ELSE IF \E i \in Items : IsFirst(i, BoundTo("suspended", pc.r))
         THEN \E i \in Items : /\ IsFirst(i, BoundTo("suspended", pc.r))
                               /\ Replace(i, CancelledItem(item[i]))
         ELSE UNCHANGED fileVars
  /\ IF pc.caller = "answer" THEN pc' = Idle
                             ELSE Enter("tick", None, None, pc.caller)
  /\ UNCHANGED <<runVars, slotVars, loopVars, timeVars, count>>

\* answer: the resume target is the run's pause, if it is still the one the item
\* asks about; a run that has ended otherwise cancels the item instead.
AnswerTarget(i) ==
  LET r == item[i].runId
      p == PauseState(r)
  IN CASE p.kind = "parked_ask" /\ p.question = item[i].question ->
            [run |-> r, call |-> p.call]
       [] p.kind = "clarification"
            /\ ReadMeta(r).status = "needs_clarification"
            /\ ReadMeta(r).question = item[i].question ->
            [run |-> r, call |-> None]
       [] OTHER -> [run |-> None, call |-> None]

Answer(i) ==
  /\ Accepting /\ item[i].status = "needs_input" /\ count.answers < MaxAnswers
  /\ IF ReadMeta(item[i].runId).status \in {"success", "error", "interrupted"}
       THEN /\ Enter("terminate", i, item[i].runId, "answer")
            /\ UNCHANGED <<fileVars, count>>
       ELSE /\ item' = [item EXCEPT ![i] =
                 RecordAnswer(item[i], count.answers + 1,
                              AnswerTarget(i).run, AnswerTarget(i).call)]
            /\ \E k \in DOMAIN order :
                 order[k] = i /\ order' = <<i>> \o WithoutPos(k)
            /\ Used("answers")
            /\ Enter("tick", None, None, "none")
  /\ UNCHANGED <<runVars, slotVars, loopVars, timeVars>>

Requeue(i) ==
  /\ Accepting /\ item[i].status = "error"
  /\ item' = [item EXCEPT ![i] = RequeuedItem(item[i])]
  /\ \E k \in DOMAIN order : order[k] = i /\ order' = Append(WithoutPos(k), i)
  /\ Enter("tick", None, None, "none")
  /\ UNCHANGED <<runVars, slotVars, loopVars, timeVars, count>>

-----------------------------------------------------------------------------
(* The provider, as the queue meets it (executor/provider-recovery.ts).    *)

\* A successful or inconclusive probe opens the gate.  Probing goes on only for a
\* suspension whose automatic resume is not due yet.
ProbeHealthy ==
  /\ Accepting /\ probing
  /\ gate' = TRUE
  /\ probing' \in (IF paused.kind = "provider" THEN BOOLEAN ELSE {FALSE})
  /\ Enter("recover", None, None, "none")
  /\ UNCHANGED <<fileVars, runVars, active, paused, live, pauseSignal, phase,
                 shutdown, scan, timeVars, count>>

\* handleHealthy: the coordinator resumes a provider suspension that may resume
\* automatically, and always ticks.
HandleHealthy ==
  /\ At("recover")
  /\ \/ /\ Enter("tick", None, None, "none")
        /\ UNCHANGED <<ckpt, pauseReq, pauseVars>>
     \/ /\ paused.kind = "provider"
        /\ BeginResume(paused.run, "probe")
  /\ UNCHANGED <<fileVars, meta, heard, dirty, active, live, pauseSignal,
                 loopVars, timeVars, count>>

\* A conclusive probe failure closes the gate and schedules the next probe.  A
\* role call that opened the gate has not cancelled the pending probe.
ProbeFails ==
  /\ Serving /\ probing /\ gate
  /\ gate' = FALSE
  /\ UNCHANGED <<fileVars, runVars, slotVars, phase, shutdown, scan, timeVars,
                 pc, count>>

\* The clock second turns over; every sleep is longer than a second.
SecondPasses ==
  /\ pc = Idle
  /\ secondTaken \/ \E k \in DOMAIN sleepers : ~sleepers[k].ready
  /\ secondTaken' = FALSE
  /\ sleepers' = [k \in DOMAIN sleepers |-> [sleepers[k] EXCEPT !.ready = TRUE]]
  /\ UNCHANGED <<fileVars, runVars, slotVars, loopVars, pc, count>>

\* The steps the service takes by itself.
QueueStep ==
  \/ TickCleanup \/ TickRepair \/ DispatchNone \/ DispatchHead \/ MarkFallback
  \/ SubmitRefused \/ SubmitCollides \/ WakeSleeper \/ BindRun
  \/ ResumeAnswered \/ StartAnswered \/ SettleSuspended \/ SettleTerminal
  \/ Reactivate("reactivateError", "error")
  \/ Reactivate("reactivateSuspended", "suspended")
  \/ SubmitNowReturns \/ CancelTerminated \/ HandleHealthy

\* The requests and events it answers.
QueueRequest ==
  \/ \E i \in Items, t \in Tasks, r \in Lineage, h \in BOOLEAN :
       Enqueue(i, t, r, h)
  \/ \E i \in Items, t \in Tasks : SubmitNow(i, t) \/ EditTask(i, t)
  \/ \E i \in Items, p \in 0..MaxItems : Reorder(i, p)
  \/ \E i \in Items : Cancel(i) \/ TerminateItem(i) \/ Answer(i) \/ Requeue(i)
  \/ \E r \in Runs : TerminateSuspendedRun(r)
  \/ ProbeHealthy \/ ProbeFails \/ SecondPasses
=============================================================================
