----------------------------- MODULE RunExecutor -----------------------------
(***************************************************************************)
(* The single run slot (executor/run-submission.ts) and the life of the    *)
(* run in it as the rest of the service sees it (executor/executor.ts and  *)
(* the safe points of executor/engine.ts): start, checkpoint, park,        *)
(* suspend, pause, finish, clean up; the explicit resume of an errored or  *)
(* suspended run; and the operator's termination of a paused one.          *)
(***************************************************************************)
EXTENDS OrchestratorState

\* Run ids have one-second resolution, so an id is taken while a directory made in
\* this second exists.  Past MaxRuns the id space is treated as taken for good.
NextRun(r) == /\ meta[r].status = "nodir"
              /\ \A q \in Runs : q < r => meta[q].status # "nodir"
RunIdTaken == secondTaken \/ \A r \in Runs : meta[r].status # "nodir"

\* Mutant of SlotFree: the paused run is not asked about.
SlotFree_IgnoresPause == active = None

SlotFree == active = None /\ paused.run = None

\* Mutant of Occupy: a resumed run starts with a fresh write tracker.
Occupy_FreshTracker(r, tracked, wrote, answer, delivered) ==
  /\ active' = r
  /\ live' = [stage |-> "running", tracked |-> tracked, wrote |-> FALSE,
              answer |-> answer, delivered |-> delivered]
  /\ pauseSignal' = FALSE

\* Mutant of Occupy: the resume does not hand the answer to the run.
Occupy_DropsAnswer(r, tracked, wrote, answer, delivered) ==
  /\ active' = r
  /\ live' = [stage |-> "running", tracked |-> tracked, wrote |-> wrote,
              answer |-> None, delivered |-> delivered]
  /\ pauseSignal' = FALSE

\* track: the run is in the slot and its executor is at the first await.
Occupy(r, tracked, wrote, answer, delivered) ==
  /\ active' = r
  /\ live' = [stage |-> "running", tracked |-> tracked, wrote |-> wrote,
              answer |-> answer, delivered |-> delivered]
  /\ pauseSignal' = FALSE

\* Mutant of ReleasePaused: the binding stays.
ReleasePaused_Keeps(r) == UNCHANGED pauseVars

\* Mutant of ReleasePaused: every release stops the monitor.
ReleasePaused_StopsProbing(r) ==
  IF paused.run = r THEN paused' = NoPaused /\ probing' = FALSE
                    ELSE UNCHANGED pauseVars

\* releasePausedRun and clearPausedRun: a release for another run is a no-op.  The
\* release of a provider suspension goes on probing only while the gate is closed.
ReleasePaused(r) ==
  IF paused.run = r
    THEN /\ paused' = NoPaused
         /\ probing' = IF paused.kind = "provider" THEN ~gate ELSE probing
    ELSE UNCHANGED pauseVars

-----------------------------------------------------------------------------
(* A fresh run: submit, createRunDirectory, the running meta.              *)

SubmitAccepted ==
  /\ At("submit") /\ SlotFree /\ ~RunIdTaken
  /\ \E r \in Runs :
       /\ NextRun(r)
       /\ meta' = [meta EXCEPT ![r].status = "nometa"]
       /\ pc' = [pc EXCEPT !.at = "start", !.r = r]
  /\ secondTaken' = TRUE
  /\ UNCHANGED <<fileVars, ckpt, pauseReq, heard, dirty, slotVars, loopVars,
                 sleepers, count>>

StartRun ==
  /\ At("start")
  /\ meta' = [meta EXCEPT ![pc.r] = RunningMeta(pc.m.task)]
  /\ Occupy(pc.r, TRUE, FALSE, pc.m.answer, None)
  /\ Goto("bind")
  /\ UNCHANGED <<fileVars, ckpt, pauseReq, heard, dirty, pauseVars, loopVars,
                 timeVars, count>>

-----------------------------------------------------------------------------
(* The live run.                                                           *)

RunAt(stage) == Serving /\ active # None /\ live.stage = stage

\* The recorder's checkpoint of an unparked, unpaused run.  A delivered
\* clarification answer is consumed once the running meta has been written.
Snapshot == [NoCkpt EXCEPT !.has = TRUE, !.delivered = live.delivered,
                           !.consumed = live.delivered # None,
                           !.wrote = live.wrote]

\* A checkpoint write of the active run makes its conversation durable.
Checkpoint(c, stage) ==
  /\ ckpt' = [ckpt EXCEPT ![active] = c]
  /\ heard' = [heard EXCEPT ![active] = @ \cup ({live.answer} \ {None})]
  /\ live' = [live EXCEPT !.stage = stage, !.answer = None]

\* The loop top: the ordinary checkpoint, then the next LLM turn.
SafePoint ==
  /\ RunAt("running") /\ ~pauseSignal
  /\ Checkpoint(Snapshot, "running")
  /\ UNCHANGED <<fileVars, meta, pauseReq, dirty, active, pauseVars, pauseSignal,
                 loopVars, timeVars, pc, count>>

\* The loop top with a pause request: the run unwinds from a pause checkpoint.
OperatorPause ==
  /\ RunAt("running") /\ pauseSignal
  /\ Checkpoint([Snapshot EXCEPT !.pause = TRUE], "pausing")
  /\ pauseSignal' = FALSE
  /\ UNCHANGED <<fileVars, meta, pauseReq, dirty, active, pauseVars, loopVars,
                 timeVars, pc, count>>

\* A role with a workspace-mutating tool starts; writeCapableStarted never resets.
StartWriteCapableRole ==
  /\ RunAt("running") /\ "write" \in RunEvents /\ ~live.wrote
  /\ live' = [live EXCEPT !.wrote = TRUE]
  /\ UNCHANGED <<fileVars, runVars, active, pauseVars, pauseSignal, loopVars,
                 timeVars, pc, count>>

\* Such a role changes the workspace, in a turn it began after its safe point.
WriteWorkspace ==
  /\ RunAt("running") /\ ckpt[active].has /\ ckpt[active].wrote
  /\ active \notin dirty
  /\ dirty' = dirty \cup {active}
  /\ UNCHANGED <<fileVars, meta, ckpt, pauseReq, heard, slotVars, loopVars,
                 timeVars, pc, count>>

\* ask_human of a queue-tracked run before any write-capable role: the checkpoint
\* is captured with the ask and frozen.  Otherwise the ask blocks inside the run.
\* An ask needs a turn, so a fresh run has passed a safe point; a run resumed with
\* a parked answer can ask again in the same batch.
Park ==
  /\ RunAt("running") /\ "park" \in RunEvents
  /\ ckpt[active].has /\ live.tracked /\ ~live.wrote
  /\ count.asks < MaxAsks
  /\ \E q \in Questions :
       Checkpoint([Snapshot EXCEPT !.call = count.asks + 1, !.question = q],
                  "parked")
  /\ Used("asks")
  /\ UNCHANGED <<fileVars, meta, pauseReq, dirty, active, pauseVars, pauseSignal,
                 loopVars, timeVars, pc>>

\* A provider failure of a role call: the gate observes it (an inconclusive one
\* leaves it open) and the run unwinds from a suspension checkpoint.
Suspend ==
  /\ RunAt("running") /\ "suspend" \in RunEvents /\ ckpt[active].has
  /\ Checkpoint([Snapshot EXCEPT !.suspension = TRUE], "suspending")
  /\ gate' \in BOOLEAN
  /\ UNCHANGED <<fileVars, meta, pauseReq, dirty, active, pauseVars, pauseSignal,
                 phase, shutdown, scan, timeVars, pc, count>>

\* A successful role call opens the gate.
RoleCallSucceeds ==
  /\ RunAt("running") /\ ckpt[active].has /\ ~gate
  /\ gate' = TRUE
  /\ UNCHANGED <<fileVars, runVars, slotVars, phase, shutdown, scan, timeVars,
                 pc, count>>

-----------------------------------------------------------------------------
(* The terminal meta, the cleanup behind it and the settlement hook are one *)
(* section of the loop.                                                     *)

TerminalMeta(status, question, kind) ==
  /\ meta' = [meta EXCEPT ![active].status = status,
                          ![active].question = question, ![active].kind = kind]
  /\ Enter("cleanup", None, active, "none")

\* A card: the last checkpoint write holds the completed conversation.
Finish(status, question) ==
  /\ RunAt("running") /\ status \in RunEvents /\ ckpt[active].has
  /\ Checkpoint(Snapshot, "running")
  /\ TerminalMeta(status, question, "none")
  /\ UNCHANGED <<fileVars, pauseReq, dirty, active, pauseVars, pauseSignal,
                 loopVars, timeVars, count>>

\* The run unwound from a park, a suspension or an operator pause.
Unwind ==
  /\ \/ /\ RunAt("parked")
        /\ TerminalMeta("needs_clarification", ckpt[active].question, "none")
     \/ RunAt("suspending") /\ TerminalMeta("suspended", None, "provider")
     \/ RunAt("pausing") /\ TerminalMeta("suspended", None, "operator")
  /\ UNCHANGED <<fileVars, ckpt, pauseReq, heard, dirty, slotVars, loopVars,
                 timeVars, count>>

\* Mutant of ShouldKeepCheckpoint: a suspension counts as an end.
ShouldKeepCheckpoint_NotSuspended(status) ==
  status \in {"error", "needs_clarification"}

\* deletePauseRequest, then deleteCheckpoint unless shouldKeepCheckpoint.
ShouldKeepCheckpoint(status) ==
  status \in {"error", "needs_clarification", "suspended"}
Cleanup ==
  /\ At("cleanup")
  /\ pauseReq' = pauseReq \ {pc.r}
  /\ ckpt' = IF ShouldKeepCheckpoint(meta[pc.r].status) THEN ckpt
             ELSE [ckpt EXCEPT ![pc.r] = NoCkpt]
  /\ Goto("settle")
  /\ UNCHANGED <<fileVars, meta, heard, dirty, slotVars, loopVars, timeVars,
                 count>>

\* handlePauseRun: the durable marker, then the in-memory signal.
PauseRun ==
  /\ Serving /\ "pause" \in RunEvents
  /\ active # None /\ ~pauseSignal /\ active \notin pauseReq
  /\ pauseReq' = pauseReq \cup {active}
  /\ pauseSignal' = TRUE
  /\ UNCHANGED <<fileVars, meta, ckpt, heard, dirty, active, pauseVars, live,
                 loopVars, timeVars, pc, count>>

-----------------------------------------------------------------------------
(* createResumeErroredOrSuspendedRun.                                      *)

Usable(r) == ckpt[r].has /\ ckpt[r].call = None

\* A paused run that can never resume is discarded: the pause is released and the
\* run terminated.
Unresumable(r) ==
  \/ meta[r].status = "suspended" /\ ~Usable(r)
  \/ paused.run = r /\ meta[r].status \notin {"error", "suspended"}

\* The marker is cleared and the checkpoint's pause copies with it, before the
\* running meta lands.
BeginResume(r, caller) ==
  /\ active = None
  /\ \/ /\ meta[r].status \in {"error", "suspended"} /\ Usable(r)
        /\ paused.run \in {None, r}
        /\ pauseReq' = pauseReq \ {r}
        /\ ckpt' = [ckpt EXCEPT ![r].suspension = FALSE, ![r].pause = FALSE]
        /\ UNCHANGED pauseVars
        /\ Enter("startResume", None, r, caller)
     \/ /\ Unresumable(r)
        /\ ReleasePaused(r)
        /\ Enter("terminate", None, r, caller)
        /\ UNCHANGED <<ckpt, pauseReq>>

\* POST /api/runs/:id/resume.
ResumeRun(r) ==
  /\ Accepting
  /\ BeginResume(r, "none")
  /\ UNCHANGED <<fileVars, meta, heard, dirty, active, live, pauseSignal,
                 loopVars, timeVars, count>>

\* resumeExecutor without an answer: untracked, so its asks block.
StartResume ==
  /\ At("startResume")
  /\ meta' = [meta EXCEPT ![pc.r] = RunningMeta(meta[pc.r].task)]
  /\ Occupy(pc.r, FALSE, ckpt[pc.r].wrote, None, ckpt[pc.r].delivered)
  /\ ReleasePaused(pc.r)
  /\ Goto(IF meta[pc.r].status = "suspended" THEN "reactivateSuspended"
                                             ELSE "reactivateError")
  /\ UNCHANGED <<fileVars, ckpt, pauseReq, heard, dirty, loopVars, timeVars,
                 count>>

-----------------------------------------------------------------------------
(* createTerminatePausedRun: only a parked or suspended run is interrupted; *)
(* an interrupted one gets the cleanup a crash cut short.                   *)

TerminateMeta ==
  /\ At("terminate")
  /\ LET status == meta[pc.r].status
         isPaused == status \in {"needs_clarification", "suspended"}
     IN /\ meta' = IF isPaused
                     THEN [meta EXCEPT ![pc.r] = InterruptedMeta(pc.r, FALSE)]
                     ELSE meta
        /\ IF status \in {"suspended", "interrupted", "nodir", "nometa"}
             THEN ReleasePaused(pc.r) ELSE UNCHANGED pauseVars
        /\ Goto(IF isPaused \/ status = "interrupted" THEN "dropCheckpoint"
                                                      ELSE "cancel")
  /\ UNCHANGED <<fileVars, ckpt, pauseReq, heard, dirty, active, live,
                 pauseSignal, loopVars, timeVars, count>>

DropCheckpoint ==
  /\ At("dropCheckpoint")
  /\ ckpt' = [ckpt EXCEPT ![pc.r] = NoCkpt]
  /\ Goto("cancel")
  /\ UNCHANGED <<fileVars, meta, pauseReq, heard, dirty, slotVars, loopVars,
                 timeVars, count>>

RunStep ==
  \/ SubmitAccepted \/ StartRun \/ SafePoint \/ OperatorPause
  \/ StartWriteCapableRole \/ WriteWorkspace \/ Park \/ Suspend
  \/ RoleCallSucceeds \/ Unwind \/ Cleanup \/ PauseRun \/ StartResume
  \/ TerminateMeta \/ DropCheckpoint
  \/ \E status \in {"success", "error"} : Finish(status, None)
  \/ \E q \in Questions : Finish("needs_clarification", q)
  \/ \E r \in Runs : ResumeRun(r)
=============================================================================
