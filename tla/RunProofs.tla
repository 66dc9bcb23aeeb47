------------------------------ MODULE RunProofs ------------------------------
(***************************************************************************)
(* The run slot and the run directories, for any number of runs and        *)
(* through every crash: one run at a time, a paused run outranks all       *)
(* waiting work, the run in the slot is the one run whose meta says        *)
(* running, a paused run can be resumed, a closed gate is being probed,    *)
(* and a run parked off the slot has not touched the workspace.            *)
(***************************************************************************)
EXTENDS LifecycleProofs, MCBoot

-----------------------------------------------------------------------------
(* The run slot.                                                           *)

\* A section that is about to put a run in the slot has found it free, or held by
\* that run's own pause; nothing runs and nothing is bound while the process is
\* down.
Starting == {"start", "startAnswered", "scan", "startResume"}
SlotInv ==
  /\ SlotExclusive
  /\ pc.at \in {"start", "startAnswered", "scan"} => SlotFree
  /\ At("startResume") => active = None /\ paused.run \in {None, pc.r}
  /\ phase = "down" => SlotFree /\ pc = Idle

\* The action of PausePriority.
PriorityStep ==
  paused.run # None /\ active' # active => active' = paused.run \/ phase' = "down"

\* The empty state directory has nothing in the slot.
LEMMA InitSlot == Init => SlotInv
  BY DEF Init, SlotInv, SlotExclusive, SlotFree, At, Idle, NoPaused

\* A section or a request runs in a process that is up.
LEMMA ProcessIsUp ==
  ASSUME SlotInv
  PROVE  /\ pc.at # "idle" => phase # "down"
         /\ Serving => phase # "down"
  BY DEF SlotInv, Idle, Serving

\* A step that does not touch the slot, except to release a pause, and that is not
\* about to start a run.
LEMMA QuietStep ==
  ASSUME SlotInv, active' = active, paused' \in {NoPaused, paused},
         pc'.at \notin Starting, phase' # "down"
  PROVE  SlotInv' /\ PriorityStep
  BY DEF SlotInv, SlotExclusive, SlotFree, At, Starting, NoPaused, PriorityStep

\* A step that leaves slot, continuation and phase alone.
LEMMA StillStep ==
  ASSUME SlotInv, UNCHANGED <<active, paused, pc, phase>>
  PROVE  SlotInv' /\ PriorityStep
  BY DEF SlotInv, SlotExclusive, SlotFree, At, PriorityStep

\* A step that empties the slot of a live run and leaves it to its own pause or to
\* nobody.
LEMMA VacateStep ==
  ASSUME SlotInv, VacateSlot, pc'.at \notin Starting, phase' # "down"
  PROVE  SlotInv' /\ PriorityStep
  BY DEF SlotInv, SlotExclusive, SlotFree, At, Starting, VacateSlot, PriorityStep

\* A step that puts a run in a free slot.
LEMMA FillStep ==
  ASSUME SlotInv, SlotFree, paused' = paused, pc'.at \notin Starting,
         phase' # "down"
  PROVE  SlotInv' /\ PriorityStep
  BY DEF SlotInv, SlotExclusive, SlotFree, At, Starting, PriorityStep

\* The start of a resume finds the slot free or held by the run's own pause.
LEMMA BeginResumeSlot ==
  ASSUME TypeInv, SlotInv, NEW r \in Runs, NEW caller \in Callers,
         BeginResume(r, caller), active' = active, phase' # "down"
  PROVE  SlotInv' /\ PriorityStep
<1>1. CASE /\ active = None /\ paused.run \in {None, r}
           /\ UNCHANGED pauseVars
           /\ Enter("startResume", None, r, caller)
  <2>1. pc'.at = "startResume" /\ pc'.r = r
    BY <1>1, EnterType, IdFacts DEF Labels
  <2> QED
    BY <1>1, <2>1 DEF SlotInv, SlotExclusive, SlotFree, At, pauseVars, PriorityStep
<1>2. CASE ReleasePaused(r) /\ Enter("terminate", None, r, caller)
  <2>1. pc'.at = "terminate"
    BY <1>2, EnterType, IdFacts DEF Labels
  <2>2. paused' \in {NoPaused, paused}
    BY <1>2, ReleaseType DEF TypeInv
  <2> QED
    BY <2>1, <2>2, QuietStep DEF Starting
<1> QED
  BY <1>1, <1>2 DEF BeginResume

\* The steps of the run in the slot, and of the explicit resume and termination.
LEMMA RunStepSlot ==
  ASSUME TypeInv, SlotInv, RunStep
  PROVE  SlotInv' /\ PriorityStep
<1> USE DEF fileVars, runVars, pauseVars, slotVars, loopVars, timeVars
<1>0. pc \in PcType
  BY DEF TypeInv, TypeOK
<1>1. CASE SubmitAccepted
  <2>1. pc'.at = "start"
    BY <1>0, <1>1 DEF SubmitAccepted, PcType
  <2>2. phase # "down"
    BY <1>1, ProcessIsUp DEF SubmitAccepted, At
  <2> QED
    BY <1>1, <2>1, <2>2
       DEF SubmitAccepted, SlotInv, SlotExclusive, SlotFree, At, PriorityStep
<1>2. CASE StartRun
  <2>1. pc'.at = "bind"
    BY <1>0, <1>2, GotoType DEF StartRun, Labels
  <2>2. SlotFree /\ phase # "down"
    BY <1>2, ProcessIsUp DEF StartRun, At, SlotInv
  <2> QED
    BY <1>2, <2>1, <2>2, FillStep DEF StartRun, Starting
<1>3. CASE \/ SafePoint \/ OperatorPause \/ StartWriteCapableRole
           \/ WriteWorkspace \/ Park \/ Suspend \/ RoleCallSucceeds \/ PauseRun
  <2>1. UNCHANGED <<active, paused, pc, phase>>
    BY <1>3 DEF SafePoint, OperatorPause, StartWriteCapableRole, WriteWorkspace,
                Park, Suspend, RoleCallSucceeds, PauseRun
  <2> QED
    BY <2>1, StillStep
<1>4. ASSUME NEW s, NEW q, NEW k, TerminalMeta(s, q, k)
      PROVE  pc'.at = "cleanup"
  BY <1>4, IdleType DEF TerminalMeta, Enter, PcType
<1>5. ASSUME NEW s, NEW q, Finish(s, q)
      PROVE  SlotInv' /\ PriorityStep
  <2>1. active' = active /\ paused' = paused /\ phase' = phase /\ phase # "down"
    BY <1>5, ProcessIsUp DEF Finish, RunAt
  <2>2. pc'.at = "cleanup"
    BY <1>4, <1>5 DEF Finish
  <2> QED
    BY <2>1, <2>2, QuietStep DEF Starting
<1>6. CASE Unwind
  <2>1. active' = active /\ paused' = paused /\ phase' = phase /\ phase # "down"
    BY <1>6, ProcessIsUp DEF Unwind, RunAt
  <2>2. pc'.at = "cleanup"
    BY <1>4, <1>6 DEF Unwind
  <2> QED
    BY <2>1, <2>2, QuietStep DEF Starting
<1>7. CASE Cleanup
  <2>1. pc'.at = "settle"
    BY <1>0, <1>7, GotoType DEF Cleanup, Labels
  <2> QED
    BY <1>7, <2>1, QuietStep, ProcessIsUp DEF Cleanup, Starting, At
<1>8. ASSUME NEW r \in Runs, ResumeRun(r)
      PROVE  SlotInv' /\ PriorityStep
  <2>1. /\ BeginResume(r, "none") /\ active' = active /\ phase' = phase
        /\ phase # "down"
    BY <1>8, ProcessIsUp DEF ResumeRun, Accepting
  <2> QED
    BY <2>1, BeginResumeSlot DEF Callers
<1>9. CASE StartResume
  <2>1. active = None /\ paused.run \in {None, pc.r} /\ phase # "down"
    BY <1>9, ProcessIsUp DEF StartResume, At, SlotInv
  <2>2. active' = pc.r /\ phase' = phase
    BY <1>9 DEF StartResume, Occupy
  <2>3. paused'.run = None
    BY <1>9, <2>1, ReleaseType DEF StartResume, TypeInv, NoPaused
  <2>4. pc'.at \in {"reactivateSuspended", "reactivateError"}
    BY <1>0, <1>9, GotoType DEF StartResume, Labels
  <2> QED
    BY <2>1, <2>2, <2>3, <2>4
       DEF SlotInv, SlotExclusive, SlotFree, At, PriorityStep
<1>10. CASE TerminateMeta
  <2>1. ReleasePaused(pc.r) \/ UNCHANGED pauseVars
    BY <1>10 DEF TerminateMeta
  <2>2. paused' \in {NoPaused, paused}
    BY <2>1, ReleaseType DEF TypeInv
  <2>3. pc'.at \in {"dropCheckpoint", "cancel"}
    BY <1>0, <1>10, GotoType DEF TerminateMeta, Labels
  <2>4. active' = active /\ phase' = phase /\ phase # "down"
    BY <1>10, ProcessIsUp DEF TerminateMeta, At
  <2> QED
    BY <2>2, <2>3, <2>4, QuietStep DEF Starting
<1>11. CASE DropCheckpoint
  <2>1. pc'.at = "cancel"
    BY <1>0, <1>11, GotoType DEF DropCheckpoint, Labels
  <2> QED
    BY <1>11, <2>1, QuietStep, ProcessIsUp DEF DropCheckpoint, Starting, At
<1> QED
  BY <1>1, <1>2, <1>3, <1>5, <1>6, <1>7, <1>8, <1>9, <1>10, <1>11 DEF RunStep

\* The boot reconciliation.
LEMMA BootStepSlot ==
  ASSUME TypeInv, SlotInv, BootStep
  PROVE  SlotInv' /\ PriorityStep
<1> USE DEF fileVars, runVars, pauseVars, slotVars, loopVars, timeVars
<1>1. CASE Boot
  <2>1. pc'.at = "scan"
    BY <1>1, EnterType, IdFacts DEF Boot, Labels, Callers
  <2> QED
    BY <1>1, <2>1 DEF Boot, SlotInv, SlotExclusive, SlotFree, At, PriorityStep
<1>2. ASSUME Enter("tick", None, None, "boot")
      PROVE  pc'.at = "tick"
  BY <1>2, EnterType, IdFacts DEF Labels, Callers
<1>3. ASSUME Scanned
      PROVE  SlotFree /\ phase # "down"
  BY <1>3, ProcessIsUp DEF Scanned, At, SlotInv
<1>4. CASE AdoptPaused
  <2>1. active' = active /\ phase' = phase /\ SlotFree /\ phase # "down"
        /\ pc'.at = "tick"
    BY <1>2, <1>3, <1>4 DEF AdoptPaused
  <2> QED
    BY <2>1 DEF SlotInv, SlotExclusive, SlotFree, At, PriorityStep
<1>5. CASE ResumeWinner
  <2>1. /\ paused' = paused /\ phase' = phase /\ SlotFree /\ phase # "down"
        /\ pc'.at = "tick"
    BY <1>2, <1>3, <1>5 DEF ResumeWinner
  <2> QED
    BY <2>1, FillStep DEF Starting
<1>6. CASE NothingToResume
  <2>1. /\ active' = active /\ paused' = paused /\ phase' = phase
        /\ phase # "down" /\ pc'.at = "tick"
    BY <1>2, <1>3, <1>6 DEF NothingToResume
  <2> QED
    BY <2>1, QuietStep DEF Starting
<1>7. ASSUME NEW r \in Runs, ReconcileRun(r) \/ Supersede(r)
      PROVE  SlotInv' /\ PriorityStep
  BY <1>7, StillStep DEF ReconcileRun, Supersede
<1> QED
  BY <1>1, <1>4, <1>5, <1>6, <1>7 DEF BootStep

\* Crashes, shutdowns and lost checkpoints.
LEMMA DisturbanceSlot ==
  ASSUME TypeInv, SlotInv, Disturbance
  PROVE  SlotInv' /\ PriorityStep
<1> USE DEF fileVars, runVars, pauseVars, slotVars, loopVars, timeVars
<1>1. CASE Crash \/ Exit
  BY <1>1 DEF Crash, Exit, ProcessEnds, SlotInv, SlotExclusive, SlotFree, At,
              Idle, NoPaused, PriorityStep
<1>2. CASE ObserveShutdown
  BY <1>2, StillStep DEF ObserveShutdown
<1>3. ASSUME NEW r \in Runs, LoseCheckpoint(r)
      PROVE  SlotInv' /\ PriorityStep
  BY <1>3, StillStep DEF LoseCheckpoint
<1> QED
  BY <1>1, <1>2, <1>3 DEF Disturbance

\* The steps the queue takes by itself.
LEMMA QueueStepSlot ==
  ASSUME TypeInv, SlotInv, QueueStep
  PROVE  SlotInv' /\ PriorityStep
<1> USE DEF fileVars, runVars, pauseVars, slotVars, loopVars, timeVars
<1>0. /\ pc.caller \in Callers /\ pc.i \in Items \cup {None} /\ pc \in PcType
      /\ pc.r \in RunIds
  BY DEF TypeInv, TypeOK, PcType
<1>1. ASSUME NEW i \in Items \cup {None}, Leave(pc.caller, i), pc.at # "idle"
      PROVE  pc'.at \notin Starting /\ phase' # "down"
  <2>1. pc'.at \in {"afterNow", "tick", "idle"} /\ phase' \in {"up", phase}
    BY <1>0, <1>1, LeaveType
  <2> QED
    BY <1>1, <2>1, ProcessIsUp DEF Starting
<1>2. CASE TickCleanup
  <2>1. \E r : ReleasePaused(r)
    BY <1>2 DEF TickCleanup
  <2>2. paused' \in {NoPaused, paused}
    BY <2>1, ReleaseType DEF TypeInv
  <2>3. UNCHANGED <<active, pc, phase>> /\ At("tick") /\ phase # "down"
    BY <1>2, ProcessIsUp DEF TickCleanup, At
  <2> QED
    BY <2>2, <2>3, QuietStep DEF At, Starting
<1>3. CASE TickRepair
  <2>1. At("tick") /\ UNCHANGED <<active, paused>>
    BY <1>3 DEF TickRepair
  <2>2. \/ Goto("dispatch") /\ phase' = phase
        \/ Leave(pc.caller, pc.i)
    BY <1>3 DEF TickRepair
  <2>3. pc'.at \notin Starting /\ phase' # "down"
    <3>1. CASE Leave(pc.caller, pc.i)
      BY <1>0, <1>1, <2>1, <3>1 DEF At
    <3>2. CASE Goto("dispatch") /\ phase' = phase
      <4>1. pc'.at = "dispatch"
        BY <1>0, <3>2, GotoType DEF Labels
      <4> QED
        BY <2>1, <3>2, <4>1, ProcessIsUp DEF At, Starting
    <3> QED
      BY <2>2, <3>1, <3>2
  <2> QED
    BY <2>1, <2>3, QuietStep
<1>4. CASE DispatchNone \/ SubmitRefused \/ BindRun
  <2>1. UNCHANGED <<active, paused>> /\ Leave(pc.caller, pc.i) /\ pc.at # "idle"
    BY <1>4 DEF DispatchNone, SubmitRefused, BindRun, At
  <2>2. pc'.at \notin Starting /\ phase' # "down"
    BY <1>0, <1>1, <2>1
  <2> QED
    BY <2>1, <2>2, QuietStep
<1>5. CASE DispatchHead
  <2>1. UNCHANGED <<active, paused, phase>> /\ phase # "down"
    BY <1>5, ProcessIsUp DEF DispatchHead, At
  <2>2. pc'.at \in {"resumeAnswered", "submit"}
    BY <1>0, <1>5 DEF DispatchHead, MarkFor, PcType
  <2> QED
    BY <2>1, <2>2, QuietStep DEF Starting
<1>6. CASE MarkFallback
  <2>1. UNCHANGED <<active, paused, phase>> /\ phase # "down"
    BY <1>6, ProcessIsUp DEF MarkFallback, At
  <2>2. pc'.at = "submit"
    BY <1>0, <1>6 DEF MarkFallback, MarkFor, PcType
  <2> QED
    BY <2>1, <2>2, QuietStep DEF Starting
<1>7. CASE SubmitCollides
  <2>1. UNCHANGED <<active, paused>> /\ At("submit")
    BY <1>7 DEF SubmitCollides
  <2>2. Leave("probe", None) \/ (pc' = Idle /\ phase' = phase)
    BY <1>7 DEF SubmitCollides
  <2>3. pc'.at \in {"afterNow", "tick", "idle"} /\ phase' \in {"up", phase}
    BY <2>2, LeaveType DEF Callers, Idle
  <2> QED
    BY <2>1, <2>3, QuietStep, ProcessIsUp DEF Starting, At
<1>8. CASE WakeSleeper
  <2>1. UNCHANGED <<active, paused>> /\ phase # "down"
    BY <1>8 DEF WakeSleeper
  <2>2. Head(sleepers) \in SleeperType
    BY <1>8, HeadTailProperties DEF WakeSleeper, TypeInv, TypeOK
  <2>3. Head(sleepers).caller \in Callers /\ Head(sleepers).i \in Items
    BY <2>2 DEF SleeperType
  <2>4. \/ pc'.at = "submit" /\ phase' = phase
        \/ Leave(Head(sleepers).caller, Head(sleepers).i)
    BY <1>8, IdleType DEF WakeSleeper, PcType
  <2>5. pc'.at \in {"afterNow", "tick", "idle", "submit"}
        /\ phase' \in {"up", phase}
    BY <2>3, <2>4, LeaveType
  <2> QED
    BY <2>1, <2>5, QuietStep DEF Starting
<1>9. CASE ResumeAnswered
  <2>1. /\ UNCHANGED <<active, paused, phase>> /\ SlotFree
        /\ phase # "down"
    BY <1>9, ProcessIsUp DEF ResumeAnswered, At
  <2>2. Goto("startAnswered") \/ Goto("mark")
    BY <1>9 DEF ResumeAnswered
  <2>3. pc'.at \in {"startAnswered", "mark"}
    BY <1>0, <2>2, GotoType DEF Labels
  <2> QED
    BY <2>1, <2>3 DEF SlotInv, SlotExclusive, SlotFree, At, PriorityStep
<1>10. CASE StartAnswered
  <2>1. SlotFree /\ paused' = paused /\ Leave(pc.caller, pc.i) /\ pc.at # "idle"
    BY <1>10 DEF StartAnswered, At, SlotInv
  <2>2. pc'.at \notin Starting /\ phase' # "down"
    BY <1>0, <1>1, <2>1
  <2> QED
    BY <2>1, <2>2, FillStep
<1>11. CASE SettleSuspended
  <2>1. VacateSlot /\ phase' = phase /\ pc'.at = "idle" /\ phase # "down"
    BY <1>11, ProcessIsUp DEF SettleSuspended, At, Idle
  <2> QED
    BY <2>1, VacateStep DEF Starting
<1>12. CASE SettleTerminal
  <2>1. VacateSlot /\ phase' = phase /\ phase # "down"
    BY <1>12, ProcessIsUp DEF SettleTerminal, At
  <2>2. pc'.at = "tick"
    BY <1>12, EnterType, IdFacts DEF SettleTerminal, Labels, Callers
  <2> QED
    BY <2>1, <2>2, VacateStep DEF Starting
<1>13. ASSUME NEW label \in {"reactivateError", "reactivateSuspended"},
              NEW status, Reactivate(label, status)
       PROVE  SlotInv' /\ PriorityStep
  <2>1. UNCHANGED <<active, paused>> /\ Leave(pc.caller, None) /\ pc.at # "idle"
    BY <1>13 DEF Reactivate, At
  <2>2. pc'.at \notin Starting /\ phase' # "down"
    BY <1>1, <2>1
  <2> QED
    BY <2>1, <2>2, QuietStep
<1>14. CASE SubmitNowReturns
  <2>1. UNCHANGED <<active, paused, phase>> /\ pc'.at = "idle" /\ phase # "down"
    BY <1>14, ProcessIsUp DEF SubmitNowReturns, At, Idle
  <2> QED
    BY <2>1, QuietStep DEF Starting
<1>15. CASE CancelTerminated
  <2>1. UNCHANGED <<active, paused, phase>> /\ phase # "down"
    BY <1>15, ProcessIsUp DEF CancelTerminated, At
  <2>2. pc' = Idle \/ Enter("tick", None, None, pc.caller)
    BY <1>15 DEF CancelTerminated
  <2>3. pc'.at \in {"idle", "tick"}
    BY <1>0, <2>2, EnterType, IdFacts DEF Labels, Idle
  <2> QED
    BY <2>1, <2>3, QuietStep DEF Starting
<1>16. CASE HandleHealthy
  <2>1. active' = active /\ phase' = phase /\ phase # "down"
    BY <1>16, ProcessIsUp DEF HandleHealthy, At
  <2>2. CASE Enter("tick", None, None, "none") /\ UNCHANGED pauseVars
    <3>1. pc'.at = "tick"
      BY <2>2, EnterType, IdFacts DEF Labels, Callers
    <3> QED
      BY <2>1, <2>2, <3>1, QuietStep DEF Starting
  <2>3. CASE paused.kind = "provider" /\ BeginResume(paused.run, "probe")
    <3>1. paused.run \in Runs /\ "probe" \in Callers
      BY <2>3 DEF TypeInv, SectionOK, Callers
    <3> QED
      BY <2>1, <2>3, <3>1, BeginResumeSlot
  <2> QED
    BY <1>16, <2>2, <2>3 DEF HandleHealthy
<1> QED
  BY <1>2, <1>3, <1>4, <1>5, <1>6, <1>7, <1>8, <1>9, <1>10, <1>11, <1>12,
     <1>13, <1>14, <1>15, <1>16 DEF QueueStep

\* The requests the queue answers, the probe and the clock.
LEMMA QueueRequestSlot ==
  ASSUME TypeInv, SlotInv, QueueRequest
  PROVE  SlotInv' /\ PriorityStep
<1> USE DEF fileVars, runVars, pauseVars, slotVars, loopVars, timeVars
<1>1. ASSUME UNCHANGED <<active, paused, phase>>, Serving,
             NEW label \in Labels \ Starting, NEW i \in Items \cup {None},
             NEW r \in RunIds, NEW c \in Callers, Enter(label, i, r, c)
      PROVE  SlotInv' /\ PriorityStep
  <2>1. pc'.at = label
    BY <1>1, EnterType
  <2> QED
    BY <1>1, <2>1, QuietStep, ProcessIsUp
<1>2. ASSUME NEW i \in Items
      PROVE  item[i].runId \in RunIds
  BY DEF TypeInv, TypeOK, ItemType
<1>3. /\ "tick" \in Labels \ Starting /\ "terminate" \in Labels \ Starting
      /\ "recover" \in Labels \ Starting /\ None \in Items \cup {None}
      /\ None \in RunIds /\ {"none", "now", "answer"} \subseteq Callers
  BY IdFacts DEF Labels, Starting, Callers
<1>4. ASSUME NEW i \in Items, NEW t \in Tasks, NEW r \in Lineage, NEW h \in BOOLEAN,
             Enqueue(i, t, r, h)
      PROVE  SlotInv' /\ PriorityStep
  <2>1. UNCHANGED <<active, paused, phase>> /\ Serving
        /\ Enter("tick", None, None, "none")
    BY <1>4 DEF Enqueue, Accepting
  <2> QED
    BY <1>1, <1>3, <2>1
<1>5. ASSUME NEW i \in Items, NEW t \in Tasks, SubmitNow(i, t)
      PROVE  SlotInv' /\ PriorityStep
  <2>1. UNCHANGED <<active, paused, phase>> /\ Serving
        /\ Enter("tick", i, None, "now")
    BY <1>5 DEF SubmitNow, Accepting
  <2> QED
    BY <1>1, <1>3, <2>1
<1>6. ASSUME NEW i \in Items, NEW t, NEW p,
             EditTask(i, t) \/ Reorder(i, p) \/ Cancel(i)
      PROVE  SlotInv' /\ PriorityStep
  BY <1>6, StillStep DEF EditTask, Reorder, Cancel
<1>7. ASSUME NEW i \in Items, TerminateItem(i)
      PROVE  SlotInv' /\ PriorityStep
  <2>1. UNCHANGED <<active, paused, phase>> /\ Serving
        /\ Enter("terminate", i, item[i].runId, "none")
    BY <1>7 DEF TerminateItem, Accepting
  <2> QED
    BY <1>1, <1>2, <1>3, <2>1
<1>8. ASSUME NEW i \in Items, Answer(i)
      PROVE  SlotInv' /\ PriorityStep
  <2>1. UNCHANGED <<active, paused, phase>> /\ Serving
    BY <1>8 DEF Answer, Accepting
  <2>2. \/ Enter("terminate", i, item[i].runId, "answer")
        \/ Enter("tick", None, None, "none")
    BY <1>8 DEF Answer
  <2> QED
    BY <1>1, <1>2, <1>3, <2>1, <2>2
<1>9. ASSUME NEW i \in Items, Requeue(i)
      PROVE  SlotInv' /\ PriorityStep
  <2>1. UNCHANGED <<active, paused, phase>> /\ Serving
        /\ Enter("tick", None, None, "none")
    BY <1>9 DEF Requeue, Accepting
  <2> QED
    BY <1>1, <1>3, <2>1
<1>10. ASSUME NEW r \in Runs, TerminateSuspendedRun(r)
       PROVE  SlotInv' /\ PriorityStep
  <2>1. UNCHANGED <<active, paused, phase>> /\ Serving /\ r \in RunIds
        /\ Enter("terminate", None, r, "none")
    BY <1>10, IdFacts DEF TerminateSuspendedRun, Accepting
  <2> QED
    BY <1>1, <1>3, <2>1
<1>11. CASE ProbeHealthy
  <2>1. UNCHANGED <<active, paused, phase>> /\ Serving
        /\ Enter("recover", None, None, "none")
    BY <1>11 DEF ProbeHealthy, Accepting
  <2> QED
    BY <1>1, <1>3, <2>1
<1>12. CASE ProbeFails \/ SecondPasses
  BY <1>12, StillStep DEF ProbeFails, SecondPasses
<1> QED
  BY <1>4, <1>5, <1>6, <1>7, <1>8, <1>9, <1>10, <1>11, <1>12 DEF QueueRequest

\* Every step of the service.
LEMMA NextSlot ==
  ASSUME TypeInv, SlotInv, [Next]_vars
  PROVE  SlotInv' /\ PriorityStep
<1>1. CASE UNCHANGED vars
  BY <1>1, StillStep DEF vars, slotVars, pauseVars, loopVars
<1> QED
  BY <1>1, QueueStepSlot, QueueRequestSlot, RunStepSlot, BootStepSlot,
     DisturbanceSlot DEF Next

\* The types and the slot invariant together are inductive.
LEMMA SlotInvariant == Spec => [](TypeInv /\ SlotInv)
<1>1. Init => TypeInv /\ SlotInv
  BY InitType, InitSlot
<1>2. TypeInv /\ SlotInv /\ [Next]_vars => (TypeInv /\ SlotInv)'
  BY NextType, NextSlot
<1> QED
  BY <1>1, <1>2, PTL DEF Spec

\* One run at a time: the slot never holds a live run beside a paused one, for any
\* number of runs and through every crash, resume, probe and termination.
THEOREM OneRunAtATime == Spec => []SlotExclusive
  BY SlotInvariant, PTL DEF SlotInv

\* A paused run outranks all waiting work: while a run is paused, no dispatch, no
\* answered resume and no boot puts another run in the slot.
THEOREM PauseOutranks == Spec => PausePriority
<1>1. TypeInv /\ SlotInv /\ [Next]_vars =>
        [paused.run # None /\ active' # active => active' = paused.run
           \/ phase' = "down"]_vars
  BY NextSlot DEF PriorityStep
<1> QED
  BY <1>1, SlotInvariant, PTL DEF Spec, PausePriority

-----------------------------------------------------------------------------
(* What the run directories say of the slot.                               *)

\* The sections between the terminal meta of a run and its settlement, and the
\* continuations that say nothing of a run.
Settling == {"cleanup", "settle"}
Plain == Labels \ (Settling \cup {"scan", "start", "startAnswered", "startResume",
                                  "dropCheckpoint"})

\* Outside the boot scan the run in the slot is the one whose meta says running,
\* until its terminal meta is written.
OneRunning ==
  /\ phase # "down" /\ ~At("scan") =>
       \A r \in Runs :
         meta[r].status = "running" <=> r = active /\ pc.at \notin Settling
  /\ pc.at \in Settling => pc.r = active

\* A closed gate is probed, or it was closed by the failure of a run that is still
\* on its way out of the slot.
GateWatched ==
  /\ active = None => live = NoLive
  /\ ~gate => probing \/ live.stage = "suspending"
  /\ live.stage = "suspending" /\ pc.at \in Settling =>
       meta[pc.r].status = "suspended" /\ meta[pc.r].kind = "provider"

\* A paused run keeps a checkpoint that can be resumed, from the moment its run
\* unwinds, until a checkpoint is lost.
NoneLost == count.losses \notin 1..MaxLosses
Kept(r) == NoneLost => Usable(r)
PausedKept ==
  /\ paused.run # None => /\ meta[paused.run].status = "suspended"
                          /\ meta[paused.run].kind = paused.kind
                          /\ Kept(paused.run)
  /\ live.stage \in {"suspending", "pausing"} /\ pc.at \notin Settling =>
       Kept(active)
  /\ pc.at \in Settling /\ meta[pc.r].status = "suspended" => Kept(pc.r)
  /\ At("scan") => \A r \in Runs \ scan : meta[r].status = "suspended" => Kept(r)
  /\ At("dropCheckpoint") /\ pc.r \in Runs => meta[pc.r].status = "interrupted"

\* What a run has written is known to its checkpoint and to the live run, from the
\* first write on: the recorder's writeCapableStarted never forgets.
WritesKnown ==
  /\ \A r \in Runs : /\ meta[r].status = "nodir" =>
                          ~ckpt[r].has /\ ~ckpt[r].wrote /\ r \notin dirty
                     /\ ckpt[r].call # None => ~ckpt[r].wrote
                     /\ r \in dirty /\ ckpt[r].has => ckpt[r].wrote
  /\ active # None /\ (active \in dirty \/ ckpt[active].wrote) => live.wrote
  /\ At("start") => ~ckpt[pc.r].wrote /\ pc.r \notin dirty
  /\ pc.at \in {"startAnswered", "startResume"} => ckpt[pc.r].has
  /\ At("scan") => \A r \in Runs \ scan : meta[r].status = "running" => ckpt[r].has

RunInv == OneRunning /\ GateWatched /\ PausedKept /\ WritesKnown

\* No step brings a lost checkpoint back.
KeepsLosses == NoneLost' => NoneLost

\* A step does not leave a closed gate unwatched that was watched.
KeepsWatch == ~gate' /\ ~probing' => ~gate /\ ~probing

\* The empty state directory.
LEMMA InitRun == Init => RunInv
<1> SUFFICES ASSUME Init PROVE RunInv
  OBVIOUS
<1>1. pc.at = "idle" /\ live.stage = "none" /\ active = None /\ paused.run = None
  BY DEF Init, Idle, NoLive, NoPaused
<1>2. \A r \in Runs : meta[r].status = "nodir" /\ ckpt[r] = NoCkpt
  BY DEF Init, NoMeta
<1>3. NoCkpt.call = None /\ ~NoCkpt.has /\ ~NoCkpt.wrote
  BY DEF NoCkpt
<1> QED
  BY <1>1, <1>2, <1>3, IdFacts
     DEF Init, RunInv, OneRunning, GateWatched, PausedKept, WritesKnown, At,
         Settling

-----------------------------------------------------------------------------
(* The steps that leave the run directories and the slot alone.            *)

Quiet ==
  /\ UNCHANGED <<meta, ckpt, dirty, active, live, paused>>
  /\ \/ UNCHANGED <<pc, phase, scan>>
     \/ /\ phase # "down" /\ pc.at \notin Settling \cup {"scan"}
        /\ pc'.at \in Plain
  /\ KeepsWatch

LEMMA QuietKeeps ==
  ASSUME RunInv, Quiet, KeepsLosses
  PROVE  RunInv'
<1> USE DEF RunInv, Quiet
<1>1. OneRunning'
  BY DEF OneRunning, Plain, Settling, At
<1>2. GateWatched'
  BY Zenon DEF GateWatched, KeepsWatch, Plain, Settling
<1>3. PausedKept'
  BY DEF PausedKept, Kept, KeepsLosses, Usable, Plain, Settling, At
<1>4. WritesKnown'
  BY DEF WritesKnown, Plain, At
<1> QED
  BY <1>1, <1>2, <1>3, <1>4

\* The release of a pause leaves no closed gate unwatched.
LEMMA ReleaseWatches ==
  ASSUME NEW r, ReleasePaused(r), gate' = gate
  PROVE  KeepsWatch
  BY Zenon DEF ReleasePaused, KeepsWatch, pauseVars

\* Every step of the queue is quiet but the ones that start, resume, settle or clean
\* up a run.
LEMMA QueueStepQuiet ==
  ASSUME TypeInv, SlotInv, QueueStep
  PROVE  \/ Quiet
         \/ TickCleanup \/ ResumeAnswered \/ StartAnswered \/ SettleSuspended
         \/ SettleTerminal \/ HandleHealthy
<1> USE DEF fileVars, runVars, pauseVars, slotVars, loopVars, timeVars
<1>0. /\ pc.caller \in Callers /\ pc.i \in Items \cup {None} /\ pc \in PcType
  BY DEF TypeInv, TypeOK, PcType
<1>1. ASSUME NEW c \in Callers, NEW i \in Items \cup {None}, Leave(c, i)
      PROVE  pc'.at \in Plain
  BY <1>1, LeaveType DEF Plain, Labels, Settling
<1>2. ASSUME UNCHANGED <<runVars, slotVars, gate>>, pc'.at \in Plain,
             phase # "down", pc.at \notin Settling \cup {"scan"}
      PROVE  Quiet
  BY <1>2, Zenon DEF Quiet, KeepsWatch
<1>3. pc.at # "idle" => phase # "down"
  BY ProcessIsUp
<1>4. CASE TickRepair
  <2>1. Goto("dispatch") \/ Leave(pc.caller, pc.i)
    BY <1>4 DEF TickRepair
  <2>2. pc'.at \in Plain
    BY <1>0, <1>1, <2>1, GotoType DEF Labels, Plain, Settling
  <2>3. KeepsWatch
    BY <1>4, Zenon DEF TickRepair, EnsureProviderProbe, KeepsWatch
  <2> QED
    BY <1>3, <1>4, <2>2, <2>3 DEF TickRepair, Quiet, At, Settling
<1>5. CASE DispatchNone \/ SubmitRefused \/ BindRun
  <2>1. /\ UNCHANGED <<runVars, slotVars, gate>> /\ Leave(pc.caller, pc.i)
        /\ pc.at \in {"dispatch", "submit", "bind"}
    BY <1>5 DEF DispatchNone, SubmitRefused, BindRun, At
  <2> QED
    BY <1>0, <1>1, <1>2, <1>3, <2>1 DEF Settling
<1>6. CASE DispatchHead \/ MarkFallback
  <2>1. /\ UNCHANGED <<runVars, slotVars, gate>>
        /\ pc.at \in {"dispatch", "mark"}
    BY <1>6 DEF DispatchHead, MarkFallback, At
  <2>2. pc'.at \in {"resumeAnswered", "submit"}
    BY <1>0, <1>6 DEF DispatchHead, MarkFallback, MarkFor, PcType
  <2> QED
    BY <1>2, <1>3, <2>1, <2>2 DEF Plain, Labels, Settling
<1>7. CASE SubmitCollides
  <2>1. UNCHANGED <<runVars, slotVars, gate>> /\ pc.at = "submit"
    BY <1>7 DEF SubmitCollides, At
  <2>2. Leave("probe", None) \/ pc' = Idle
    BY <1>7 DEF SubmitCollides
  <2>3. pc'.at \in Plain
    BY <1>1, <2>2 DEF Callers, Idle, Plain, Labels, Settling
  <2> QED
    BY <1>2, <1>3, <2>1, <2>3 DEF Settling
<1>8. CASE WakeSleeper
  <2>1. /\ UNCHANGED <<runVars, slotVars, gate>> /\ phase # "down" /\ pc.at = "idle"
    BY <1>8 DEF WakeSleeper, LoopFree, Idle
  <2>2. Head(sleepers) \in SleeperType
    BY <1>8, HeadTailProperties DEF WakeSleeper, TypeInv, TypeOK
  <2>3. Head(sleepers).caller \in Callers /\ Head(sleepers).i \in Items
    BY <2>2 DEF SleeperType
  <2>4. pc'.at = "submit" \/ Leave(Head(sleepers).caller, Head(sleepers).i)
    BY <1>8, IdleType DEF WakeSleeper, PcType
  <2>5. pc'.at \in Plain
    BY <1>1, <2>3, <2>4 DEF Plain, Labels, Settling
  <2> QED
    BY <1>2, <2>1, <2>5 DEF Settling
<1>9. ASSUME NEW label \in {"reactivateError", "reactivateSuspended"}, NEW status,
             Reactivate(label, status)
      PROVE  Quiet
  <2>1. /\ UNCHANGED <<runVars, slotVars, gate>> /\ Leave(pc.caller, None)
        /\ pc.at \in {"reactivateError", "reactivateSuspended"}
    BY <1>9 DEF Reactivate, At
  <2> QED
    BY <1>0, <1>1, <1>2, <1>3, <2>1 DEF Settling
<1>10. CASE SubmitNowReturns \/ CancelTerminated
  <2>1. /\ UNCHANGED <<runVars, slotVars, gate>>
        /\ pc.at \in {"afterNow", "cancel"}
        /\ pc' = Idle \/ Enter("tick", None, None, pc.caller)
    BY <1>10 DEF SubmitNowReturns, CancelTerminated, At
  <2>2. pc'.at \in {"idle", "tick"}
    BY <1>0, <2>1, EnterType, IdFacts DEF Labels, Idle
  <2> QED
    BY <1>2, <1>3, <2>1, <2>2 DEF Plain, Labels, Settling
<1> QED
  BY <1>4, <1>5, <1>6, <1>7, <1>8, <1>9, <1>10 DEF QueueStep

\* So is every request, the probe and the clock.
LEMMA QueueRequestQuiet ==
  ASSUME TypeInv, SlotInv, QueueRequest
  PROVE  Quiet
<1> USE DEF fileVars, runVars, pauseVars, slotVars, loopVars, timeVars
<1>1. ASSUME Serving, UNCHANGED <<meta, ckpt, dirty, active, live, paused>>,
             KeepsWatch, NEW label \in {"tick", "terminate", "recover"},
             NEW i \in Items \cup {None}, NEW r \in RunIds, NEW c \in Callers,
             Enter(label, i, r, c)
      PROVE  Quiet
  <2>1. phase # "down" /\ pc.at = "idle"
    BY <1>1, ProcessIsUp DEF Serving, LoopFree, Idle
  <2>2. pc'.at \in Plain
    BY <1>1, EnterType DEF Labels, Plain, Settling
  <2> QED
    BY <1>1, <2>1, <2>2 DEF Quiet, Settling
<1>2. /\ {"none", "now", "answer"} \subseteq Callers /\ None \in RunIds
      /\ \A i \in Items : item[i].runId \in RunIds
  BY IdFacts DEF TypeInv, TypeOK, Callers, ItemType
<1>3. ASSUME UNCHANGED <<gate, probing>>
      PROVE  KeepsWatch
  BY <1>3, Zenon DEF KeepsWatch
<1>4. ASSUME NEW i \in Items, NEW t \in Tasks, NEW r, NEW h \in BOOLEAN,
             Enqueue(i, t, r, h) \/ SubmitNow(i, t) \/ Requeue(i)
      PROVE  Quiet
  <2>1. /\ Serving /\ UNCHANGED <<runVars, slotVars, gate>>
        /\ Enter("tick", None, None, "none") \/ Enter("tick", i, None, "now")
    BY <1>4 DEF Enqueue, SubmitNow, Requeue, Accepting
  <2> QED
    BY <1>1, <1>2, <1>3, <2>1
<1>5. ASSUME UNCHANGED <<runVars, slotVars, loopVars, pc>>
      PROVE  Quiet
  BY <1>3, <1>5 DEF Quiet
<1>6. ASSUME NEW i \in Items, NEW t, NEW p,
             EditTask(i, t) \/ Reorder(i, p) \/ Cancel(i)
      PROVE  Quiet
  BY <1>5, <1>6 DEF EditTask, Reorder, Cancel
<1>7. ASSUME NEW i \in Items, TerminateItem(i) \/ Answer(i)
      PROVE  Quiet
  <2>1. /\ Serving /\ UNCHANGED <<runVars, slotVars, gate>>
        /\ \/ Enter("terminate", i, item[i].runId, "none")
           \/ Enter("terminate", i, item[i].runId, "answer")
           \/ Enter("tick", None, None, "none")
    BY <1>7 DEF TerminateItem, Answer, Accepting
  <2> QED
    BY <1>1, <1>2, <1>3, <2>1
<1>8. ASSUME NEW r \in Runs, TerminateSuspendedRun(r)
      PROVE  Quiet
  <2>1. /\ Serving /\ UNCHANGED <<runVars, slotVars, gate>> /\ r \in RunIds
        /\ Enter("terminate", None, r, "none")
    BY <1>8, IdFacts DEF TerminateSuspendedRun, Accepting
  <2> QED
    BY <1>1, <1>2, <1>3, <2>1
<1>9. CASE ProbeHealthy
  <2>1. /\ Serving /\ gate' = TRUE
        /\ UNCHANGED <<meta, ckpt, dirty, active, live, paused>>
        /\ Enter("recover", None, None, "none")
    BY <1>9 DEF ProbeHealthy, Accepting
  <2> QED
    BY <1>1, <1>2, <2>1 DEF KeepsWatch
<1>10. CASE ProbeFails
  <2>1. /\ UNCHANGED <<runVars, slotVars, phase, scan, pc>> /\ probing
    BY <1>10 DEF ProbeFails
  <2>2. probing'
    BY <2>1
  <2>3. KeepsWatch
    BY <2>2 DEF KeepsWatch
  <2> QED
    BY <2>1, <2>3 DEF Quiet
<1>11. CASE SecondPasses
  BY <1>5, <1>11 DEF SecondPasses
<1> QED
  BY <1>4, <1>6, <1>7, <1>8, <1>9, <1>10, <1>11, BoundsAssumption
     DEF QueueRequest

-----------------------------------------------------------------------------
(* The steps of the queue that touch a run.                                *)

\* A run that is not in the slot loses its checkpoint, and its pause is released.
LEMMA CleanupKeeps ==
  ASSUME TypeInv, RunInv, KeepsLosses, NEW r \in Runs,
         UNCHANGED <<meta, dirty, active, live>>,
         ckpt' = [ckpt EXCEPT ![r] = NoCkpt], r # active, r # paused.run,
         UNCHANGED paused, pc'.at \in Plain, phase # "down",
         pc.at \notin Settling \cup {"scan"}, KeepsWatch
  PROVE  RunInv'
<1> USE DEF RunInv
<1>1. \A q \in Runs : ckpt'[q] = IF q = r THEN NoCkpt ELSE ckpt[q]
  BY DEF TypeInv, TypeOK
<1>2. ~NoCkpt.has /\ NoCkpt.call = None /\ ~NoCkpt.wrote
  BY DEF NoCkpt
<1>3. OneRunning'
  BY DEF OneRunning, Plain, Settling, At
<1>4. GateWatched'
  BY Zenon DEF GateWatched, KeepsWatch, Plain, Settling
<1>5. active \in Runs \cup {None} /\ paused.run \in Runs \cup {None}
  BY IdFacts DEF TypeInv, TypeOK
<1>6. live.stage \in {"suspending", "pausing"} => active # None
  BY DEF GateWatched, NoLive
<1>7. PausedKept'
  BY <1>1, <1>5, <1>6 DEF PausedKept, Kept, KeepsLosses, Usable, Plain, Settling, At
<1>8. WritesKnown'
  BY <1>1, <1>2, <1>5 DEF WritesKnown, Plain, At
<1> QED
  BY <1>3, <1>4, <1>7, <1>8

\* A run enters the free slot with its meta already running: everything it has
\* written is known to its checkpoint, and so to the live run.
LEMMA StartKeeps ==
  ASSUME TypeInv, RunInv, KeepsLosses, NEW r \in Runs, NEW m, m.status = "running",
         meta' = [meta EXCEPT ![r] = m], active = None, active' = r,
         live'.stage = "running", r \in dirty \/ ckpt[r].wrote => live'.wrote,
         UNCHANGED <<ckpt, dirty>>, paused' \in {NoPaused, paused},
         paused'.run \in {None} \cup (Runs \ {r}),
         KeepsWatch, phase # "down", pc.at \notin Settling \cup {"scan"},
         pc'.at \in Plain
  PROVE  RunInv'
<1> USE DEF RunInv
<1>1. \A q \in Runs : meta'[q] = IF q = r THEN m ELSE meta[q]
  BY DEF TypeInv, TypeOK
<1>2. r # None /\ NoPaused.run = None
  BY IdFacts DEF NoPaused
<1>3. OneRunning'
  BY <1>1, <1>2, IdFacts DEF OneRunning, Plain, Settling, At
<1>4. live.stage # "suspending"
  BY DEF GateWatched, NoLive
<1>5. GateWatched'
  BY <1>2, <1>4, Zenon DEF GateWatched, KeepsWatch, Plain, Settling
<1>6. PausedKept'
  BY <1>1, <1>2 DEF PausedKept, Kept, KeepsLosses, Usable, Plain, Settling, At
<1>7. WritesKnown'
  BY <1>1 DEF WritesKnown, Plain, At
<1> QED
  BY <1>3, <1>5, <1>6, <1>7

\* The start of a resume clears the pause copies of the checkpoint, or releases the
\* pause of a run that cannot resume.
LEMMA BeginResumeKeeps ==
  ASSUME TypeInv, RunInv, KeepsLosses, NEW r \in Runs, NEW caller \in Callers,
         BeginResume(r, caller), UNCHANGED <<meta, dirty, active, live, gate>>,
         phase # "down", pc.at \notin Settling \cup {"scan"}
  PROVE  RunInv'
<1> USE DEF RunInv
<1>1. CASE /\ meta[r].status \in {"error", "suspended"} /\ Usable(r)
           /\ ckpt' = [ckpt EXCEPT ![r].suspension = FALSE, ![r].pause = FALSE]
           /\ UNCHANGED pauseVars
           /\ Enter("startResume", None, r, caller)
  <2>1. pc'.at = "startResume" /\ pc'.r = r
    BY <1>1, EnterType, IdFacts DEF Labels
  <2>2. \A q \in Runs : /\ ckpt'[q].has = ckpt[q].has
                        /\ ckpt'[q].call = ckpt[q].call
                        /\ ckpt'[q].wrote = ckpt[q].wrote
    <3>1. ckpt \in [Runs -> CkptType]
      BY DEF TypeInv, TypeOK
    <3> QED
      BY <1>1, <3>1 DEF CkptType
  <2>3. OneRunning'
    BY <2>1 DEF OneRunning, Settling, At
  <2>4. GateWatched'
    BY <1>1, <2>1, Zenon DEF GateWatched, Settling, pauseVars
  <2>5. active \in Runs \cup {None} /\ paused.run \in Runs \cup {None}
    BY IdFacts DEF TypeInv, TypeOK
  <2>6. live.stage \in {"suspending", "pausing"} => active # None
    BY DEF GateWatched, NoLive
  <2>7. paused' = paused /\ ckpt[r].has
    BY <1>1 DEF pauseVars, Usable
  <2>8. PausedKept'
    BY <2>1, <2>2, <2>5, <2>6, <2>7
       DEF PausedKept, Kept, KeepsLosses, Usable, Settling, At
  <2>9. WritesKnown'
    BY <2>1, <2>2, <2>5, <2>7 DEF WritesKnown, At
  <2> QED
    BY <2>3, <2>4, <2>8, <2>9
<1>2. CASE /\ ReleasePaused(r) /\ Enter("terminate", None, r, caller)
           /\ UNCHANGED ckpt
  <2>1. pc'.at = "terminate"
    BY <1>2, EnterType, IdFacts DEF Labels
  <2>2. paused' \in {NoPaused, paused} /\ NoPaused.run = None
    BY <1>2, ReleaseType DEF TypeInv, NoPaused
  <2>3. OneRunning'
    BY <1>2, <2>1 DEF OneRunning, Settling, At
  <2>4. KeepsWatch
    BY <1>2, ReleaseWatches
  <2>5. GateWatched'
    BY <1>2, <2>1, <2>4, Zenon DEF GateWatched, KeepsWatch, Settling
  <2>6. PausedKept'
    BY <1>2, <2>1, <2>2 DEF PausedKept, Kept, KeepsLosses, Usable, Settling, At
  <2>7. WritesKnown'
    BY <1>2, <2>1 DEF WritesKnown, At
  <2> QED
    BY <2>3, <2>5, <2>6, <2>7
<1> QED
  BY <1>1, <1>2 DEF BeginResume

LEMMA QueueStepRun ==
  ASSUME TypeInv, SlotInv, RunInv, KeepsLosses, QueueStep
  PROVE  RunInv'
<1> USE DEF fileVars, runVars, pauseVars, slotVars, loopVars, timeVars
<1>0. /\ pc.caller \in Callers /\ pc.i \in Items \cup {None} /\ pc \in PcType
      /\ TypeOK
  BY DEF TypeInv, TypeOK, PcType
<1>1. pc.at # "idle" => phase # "down"
  BY ProcessIsUp
<1>2. ASSUME UNCHANGED <<gate, probing>>
      PROVE  KeepsWatch
  BY <1>2, Zenon DEF KeepsWatch
<1>3. ASSUME NEW i \in Items \cup {None}, Leave(pc.caller, i)
      PROVE  pc'.at \in Plain
  BY <1>0, <1>3, LeaveType DEF Plain, Labels, Settling
<1>4. CASE TickCleanup
  <2>1. PICK r \in Runs : /\ HalfTerminated(r)
                          /\ ckpt' = [ckpt EXCEPT ![r] = NoCkpt]
                          /\ ReleasePaused(r)
    BY <1>4 DEF TickCleanup
  <2>2. /\ UNCHANGED <<meta, dirty, active, live, pc, phase, gate>>
        /\ pc.at = "tick" /\ phase # "down"
    BY <1>1, <1>4 DEF TickCleanup, At
  <2>3. r # active /\ r # paused.run
    <3>1. meta[r].status = "interrupted"
      BY <2>1 DEF HalfTerminated
    <3> QED
      BY <2>2, <3>1, IdFacts
         DEF RunInv, OneRunning, PausedKept, At, Settling
  <2>4. UNCHANGED pauseVars
    BY <2>1, <2>3 DEF ReleasePaused
  <2>5. pc'.at \in Plain /\ KeepsWatch /\ pc.at \notin Settling \cup {"scan"}
    BY <1>2, <2>2, <2>4 DEF Plain, Labels, Settling
  <2> QED
    BY <2>1, <2>2, <2>3, <2>4, <2>5, CleanupKeeps
<1>5. CASE ResumeAnswered
  <2>1. /\ pc.at = "resumeAnswered" /\ phase # "down" /\ pc.r \in Runs
        /\ UNCHANGED <<meta, dirty, active, live, paused, phase, gate, probing>>
    BY <1>1, <1>5 DEF ResumeAnswered, At, TypeInv, SectionOK
  <2>2. CASE UNCHANGED <<ckpt, heard>> /\ Goto("mark")
    <3>1. pc'.at = "mark"
      BY <1>0, <2>2, GotoType DEF Labels
    <3> QED
      BY <1>2, <2>1, <2>2, <3>1, QuietKeeps DEF Quiet, Plain, Labels, Settling
  <2>3. CASE /\ StillParked(item[pc.i], pc.r) /\ DeliverNote(item[pc.i], pc.r)
             /\ Goto("startAnswered")
    <3>1. pc'.at = "startAnswered" /\ pc'.r = pc.r
      BY <1>0, <2>3, GotoType DEF Labels
    <3>2. meta[pc.r].status = "needs_clarification" /\ ckpt[pc.r].has
      BY <2>3 DEF StillParked
    <3>3. \A q \in Runs : /\ ckpt'[q].has = ckpt[q].has
                          /\ ckpt'[q].call = ckpt[q].call
                          /\ ckpt'[q].wrote = ckpt[q].wrote
      <4>1. ckpt \in [Runs -> CkptType]
        BY <1>0 DEF TypeOK
      <4>2. \/ ckpt' = ckpt
            \/ ckpt' = [ckpt EXCEPT ![pc.r].delivered = item[pc.i].answer,
                                    ![pc.r].consumed = FALSE]
        BY <2>3 DEF DeliverNote
      <4> QED
        BY <4>1, <4>2 DEF CkptType
    <3>4. active \in Runs \cup {None} /\ paused.run \in Runs \cup {None}
      BY <1>0, IdFacts DEF TypeOK
    <3>5. live.stage \in {"suspending", "pausing"} => active # None
      BY DEF RunInv, GateWatched, NoLive
    <3>6. OneRunning'
      BY <2>1, <3>1 DEF RunInv, OneRunning, Settling, At
    <3>7. GateWatched'
      BY <2>1, <3>1, Zenon DEF RunInv, GateWatched, Settling
    <3>8. PausedKept'
      BY <2>1, <3>1, <3>3, <3>4, <3>5
         DEF RunInv, PausedKept, Kept, KeepsLosses, Usable, Settling, At
    <3>9. WritesKnown'
      BY <2>1, <3>1, <3>2, <3>3, <3>4 DEF RunInv, WritesKnown, At
    <3> QED
      BY <3>6, <3>7, <3>8, <3>9 DEF RunInv
  <2> QED
    BY <1>5, <2>2, <2>3 DEF ResumeAnswered
<1>6. CASE StartAnswered
  <2> DEFINE r == pc.r
  <2>1. /\ pc.at = "startAnswered" /\ phase # "down" /\ r \in Runs
        /\ active = None /\ paused.run = None /\ ckpt[r].has
    BY <1>1, <1>6
       DEF StartAnswered, At, TypeInv, SectionOK, SlotInv, SlotFree, RunInv,
           WritesKnown
  <2>2. /\ meta' = [meta EXCEPT ![r] = RunningMeta(meta[r].task)]
        /\ UNCHANGED <<ckpt, dirty, paused, probing, gate>>
        /\ Leave(pc.caller, pc.i)
    BY <1>6 DEF StartAnswered
  <2>3. active' = r /\ live'.stage = "running" /\ live'.wrote = ckpt[r].wrote
    BY <1>6 DEF StartAnswered, Occupy
  <2>4. RunningMeta(meta[r].task).status = "running"
    BY DEF RunningMeta
  <2>5. r \in dirty \/ ckpt[r].wrote => live'.wrote
    BY <2>1, <2>3 DEF RunInv, WritesKnown
  <2>6. KeepsWatch /\ pc'.at \in Plain /\ pc.at \notin Settling \cup {"scan"}
    BY <1>0, <1>2, <1>3, <2>1, <2>2 DEF Settling
  <2> HIDE DEF r
  <2> QED
    BY <2>1, <2>2, <2>3, <2>4, <2>5, <2>6, StartKeeps
<1>7. CASE SettleSuspended
  <2>1. /\ pc.at = "settle" /\ phase # "down" /\ pc.r \in Runs /\ pc.r = active
        /\ meta[pc.r].status = "suspended" /\ Kept(pc.r)
    BY <1>1, <1>7
       DEF SettleSuspended, At, TypeInv, SectionOK, RunInv, OneRunning,
           PausedKept, Settling
  <2>2. /\ UNCHANGED <<meta, ckpt, dirty, phase>> /\ pc'.at = "idle"
        /\ active' = None /\ live' = NoLive
        /\ paused'.run = pc.r /\ paused'.kind = meta[pc.r].kind
    BY <1>7 DEF SettleSuspended, VacateSlot, Idle
  <2>3. OneRunning'
    BY <2>1, <2>2, IdFacts DEF RunInv, OneRunning, Settling, At
  <2>4. ~gate' => probing'
    <3>1. CASE meta[pc.r].kind = "provider"
      BY <1>7, <3>1 DEF SettleSuspended
    <3>2. CASE meta[pc.r].kind # "provider"
      <4>1. live.stage # "suspending"
        BY <2>1, <3>2 DEF RunInv, GateWatched, Settling
      <4>2. UNCHANGED <<probing, gate>>
        BY <1>7, <3>2 DEF SettleSuspended
      <4> QED
        BY <4>1, <4>2, Zenon DEF RunInv, GateWatched
    <3> QED
      BY <3>1, <3>2
  <2>5. GateWatched'
    BY <2>2, <2>4 DEF GateWatched, Settling, NoLive
  <2>6. PausedKept'
    BY <2>1, <2>2 DEF PausedKept, Kept, KeepsLosses, Usable, Settling, At, NoLive
  <2>7. WritesKnown'
    BY <2>2 DEF RunInv, WritesKnown, At
  <2> QED
    BY <2>3, <2>5, <2>6, <2>7 DEF RunInv
<1>8. CASE SettleTerminal
  <2>1. /\ pc.at = "settle" /\ phase # "down" /\ pc.r \in Runs /\ pc.r = active
        /\ meta[pc.r].status # "suspended"
    BY <1>1, <1>8
       DEF SettleTerminal, At, TypeInv, SectionOK, RunInv, OneRunning, Settling
  <2>2. /\ UNCHANGED <<meta, ckpt, dirty, phase, paused, probing, gate>>
        /\ active' = None /\ live' = NoLive
    BY <1>8 DEF SettleTerminal, VacateSlot
  <2>3. pc'.at = "tick"
    BY <1>8, EnterType, IdFacts DEF SettleTerminal, Labels, Callers
  <2>4. OneRunning'
    BY <2>1, <2>2, <2>3, IdFacts DEF RunInv, OneRunning, Settling, At
  <2>5. live.stage # "suspending"
    BY <2>1 DEF RunInv, GateWatched, Settling
  <2>6. ~gate' => probing'
    BY <2>2, <2>5, Zenon DEF RunInv, GateWatched
  <2>7. GateWatched'
    BY <2>2, <2>3, <2>6 DEF GateWatched, Settling, NoLive
  <2>8. PausedKept'
    BY <2>2, <2>3
       DEF RunInv, PausedKept, Kept, KeepsLosses, Usable, Settling, At, NoLive
  <2>9. WritesKnown'
    BY <2>2, <2>3 DEF RunInv, WritesKnown, At
  <2> QED
    BY <2>4, <2>7, <2>8, <2>9 DEF RunInv
<1>9. CASE HandleHealthy
  <2>1. /\ pc.at = "recover" /\ phase # "down"
        /\ UNCHANGED <<meta, dirty, active, live, gate>>
    BY <1>1, <1>9 DEF HandleHealthy, At
  <2>2. CASE Enter("tick", None, None, "none") /\ UNCHANGED <<ckpt, pauseVars>>
    <3>1. pc'.at = "tick"
      BY <2>2, EnterType, IdFacts DEF Labels, Callers
    <3> QED
      BY <1>2, <2>1, <2>2, <3>1, QuietKeeps DEF Quiet, Plain, Labels, Settling
  <2>3. CASE paused.kind = "provider" /\ BeginResume(paused.run, "probe")
    <3>1. paused.run \in Runs /\ "probe" \in Callers
      BY <2>3 DEF TypeInv, SectionOK, Callers
    <3> QED
      BY <2>1, <2>3, <3>1, BeginResumeKeeps DEF Settling
  <2> QED
    BY <1>9, <2>2, <2>3 DEF HandleHealthy
<1> QED
  BY <1>4, <1>5, <1>6, <1>7, <1>8, <1>9, QueueStepQuiet, QuietKeeps

-----------------------------------------------------------------------------
(* The steps of the run in the slot.                                       *)

\* While the loop is free the slot's run is the one that runs, beside no pause.
LEMMA LiveRun ==
  ASSUME TypeInv, SlotInv, RunInv, Serving, active # None
  PROVE  /\ active \in Runs /\ meta[active].status = "running"
         /\ paused.run = None /\ phase = "up" /\ pc.at = "idle"
  BY IdFacts
     DEF TypeInv, TypeOK, SlotInv, SlotExclusive, RunInv, OneRunning, Serving,
         LoopFree, At, Idle, Settling

\* The terminal meta of the slot's run changes that meta and no other.
LEMMA TerminalMetaFacts ==
  ASSUME TypeInv, active \in Runs, NEW s, NEW q, NEW k, TerminalMeta(s, q, k)
  PROVE  /\ meta'[active].status = s /\ meta'[active].kind = k
         /\ \A r \in Runs \ {active} : meta'[r] = meta[r]
         /\ pc'.at = "cleanup" /\ pc'.r = active
<1>1. meta \in [Runs -> MetaType]
  BY DEF TypeInv, TypeOK
<1>2. pc'.at = "cleanup" /\ pc'.r = active
  BY IdleType DEF TerminalMeta, Enter, PcType
<1> QED
  BY <1>1, <1>2 DEF TerminalMeta, MetaType

\* A checkpoint write of the live run: it knows what the run has written, and it is
\* parked only while that is nothing.
LEMMA CheckpointKeeps ==
  ASSUME TypeInv, SlotInv, RunInv, KeepsLosses, RunAt("running"),
         NEW c \in CkptType, NEW stage, Checkpoint(c, stage),
         c.has, c.wrote = live.wrote, c.call # None => ~live.wrote,
         stage \in {"suspending", "pausing"} => c.call = None,
         stage = "suspending" \/ gate' = gate,
         UNCHANGED <<dirty, active, paused, probing, phase>>,
         \/ UNCHANGED <<meta, pc>>
         \/ /\ stage = "running" /\ pc'.at = "cleanup" /\ pc'.r = active
            /\ meta'[active].status \in {"success", "error", "needs_clarification"}
            /\ \A r \in Runs \ {active} : meta'[r] = meta[r]
  PROVE  RunInv'
<1>1. /\ active \in Runs /\ meta[active].status = "running"
      /\ paused.run = None /\ phase = "up" /\ pc.at = "idle"
      /\ live.stage = "running" /\ active # None
  BY LiveRun DEF RunAt
<1>2. /\ \A q \in Runs : ckpt'[q] = IF q = active THEN c ELSE ckpt[q]
      /\ live'.stage = stage /\ live'.wrote = live.wrote
  BY <1>1 DEF TypeInv, TypeOK, Checkpoint, LiveType
<1>3. CASE UNCHANGED <<meta, pc>>
  <2>1. OneRunning'
    BY <1>1, <1>3 DEF RunInv, OneRunning, Settling, At
  <2>2. ~gate => probing
    BY <1>1, Zenon DEF RunInv, GateWatched
  <2>3. GateWatched'
    BY <1>1, <1>2, <1>3, <2>2 DEF GateWatched, Settling
  <2>4. PausedKept'
    BY <1>1, <1>2, <1>3 DEF PausedKept, Kept, KeepsLosses, Usable, Settling, At
  <2>5. WritesKnown'
    BY <1>1, <1>2, <1>3 DEF RunInv, WritesKnown, At
  <2> QED
    BY <2>1, <2>3, <2>4, <2>5 DEF RunInv
<1>4. CASE /\ stage = "running" /\ pc'.at = "cleanup" /\ pc'.r = active
           /\ meta'[active].status \in {"success", "error", "needs_clarification"}
           /\ \A r \in Runs \ {active} : meta'[r] = meta[r]
  <2>1. OneRunning'
    BY <1>1, <1>4 DEF RunInv, OneRunning, Settling, At
  <2>2. ~gate' => probing'
    BY <1>1, <1>4, Zenon DEF RunInv, GateWatched
  <2>3. GateWatched'
    BY <1>1, <1>2, <1>4, <2>2 DEF GateWatched
  <2>4. PausedKept'
    BY <1>1, <1>2, <1>4 DEF PausedKept, Settling, At
  <2>5. WritesKnown'
    BY <1>1, <1>2, <1>4 DEF RunInv, WritesKnown, At
  <2> QED
    BY <2>1, <2>3, <2>4, <2>5 DEF RunInv
<1> QED
  BY <1>3, <1>4

\* What the recorder's snapshot holds, and the copies made of it.
LEMMA SnapshotFacts ==
  ASSUME TypeInv
  PROVE  /\ Snapshot.has /\ Snapshot.wrote = live.wrote /\ Snapshot.call = None
         /\ LET c == [Snapshot EXCEPT !.pause = TRUE]
            IN  c \in CkptType /\ c.has /\ c.wrote = live.wrote /\ c.call = None
         /\ LET c == [Snapshot EXCEPT !.suspension = TRUE]
            IN  c \in CkptType /\ c.has /\ c.wrote = live.wrote /\ c.call = None
         /\ \A n \in Nat, q \in Nat :
              LET c == [Snapshot EXCEPT !.call = n, !.question = q]
              IN  c \in CkptType /\ c.has /\ c.wrote = live.wrote
<1>1. Snapshot \in CkptType
  BY SnapshotType DEF TypeInv
<1>2. Snapshot.has /\ Snapshot.wrote = live.wrote /\ Snapshot.call = None
  BY DEF Snapshot, NoCkpt
<1> QED
  BY <1>1, <1>2 DEF CkptType

\* The run unwinds from a park, a suspension or a pause: its terminal meta lands.
LEMMA UnwindKeeps ==
  ASSUME TypeInv, SlotInv, RunInv, KeepsLosses, Unwind
  PROVE  RunInv'
<1> USE DEF runVars, slotVars, pauseVars, loopVars
<1>1. PICK s, q, k :
        /\ s \in {"needs_clarification", "suspended"}
        /\ TerminalMeta(s, q, k)
        /\ s = "suspended" <=> live.stage \in {"suspending", "pausing"}
        /\ live.stage = "suspending" => k = "provider"
  BY DEF Unwind, RunAt
<1>2. /\ active \in Runs /\ meta[active].status = "running"
      /\ paused.run = None /\ phase = "up" /\ pc.at = "idle" /\ active # None
  BY LiveRun DEF Unwind, RunAt
<1>3. UNCHANGED <<ckpt, dirty, active, paused, probing, live, gate, phase>>
  BY DEF Unwind
<1>4. /\ meta'[active].status = s /\ meta'[active].kind = k
      /\ \A r \in Runs \ {active} : meta'[r] = meta[r]
      /\ pc'.at = "cleanup" /\ pc'.r = active
  BY <1>1, <1>2, TerminalMetaFacts
<1>5. OneRunning'
  BY <1>1, <1>2, <1>3, <1>4 DEF RunInv, OneRunning, Settling, At
<1>6. ~gate' => probing' \/ live'.stage = "suspending"
  BY <1>3, Zenon DEF RunInv, GateWatched
<1>7. GateWatched'
  BY <1>1, <1>2, <1>3, <1>4, <1>6 DEF GateWatched
<1>8. PausedKept'
  BY <1>1, <1>2, <1>3, <1>4
     DEF RunInv, PausedKept, Kept, KeepsLosses, Usable, Settling, At
<1>9. WritesKnown'
  BY <1>1, <1>2, <1>3, <1>4 DEF RunInv, WritesKnown, At
<1> QED
  BY <1>5, <1>7, <1>8, <1>9 DEF RunInv

\* The executor's cleanup keeps the checkpoint of every run that can go on.
LEMMA ExecutorCleanupKeeps ==
  ASSUME TypeInv, SlotInv, RunInv, KeepsLosses, Cleanup
  PROVE  RunInv'
<1> USE DEF slotVars, pauseVars, loopVars
<1>1. /\ pc.at = "cleanup" /\ pc.r = active /\ pc.r \in Runs /\ active # None
      /\ phase # "down" /\ paused.run = None
  BY ProcessIsUp, IdFacts
     DEF Cleanup, At, TypeInv, SectionOK, RunInv, OneRunning, Settling, SlotInv,
         SlotExclusive
<1>2. /\ UNCHANGED <<meta, dirty, active, paused, probing, live, gate, phase>>
      /\ pc'.at = "settle" /\ pc'.r = pc.r
  BY GotoType DEF Cleanup, Labels, TypeInv, TypeOK
<1>3. \A q \in Runs :
        \/ ckpt'[q] = ckpt[q]
        \/ q = pc.r /\ meta[q].status # "suspended" /\ ckpt'[q] = NoCkpt
  BY DEF Cleanup, ShouldKeepCheckpoint, TypeInv, TypeOK
<1>4. ~NoCkpt.has /\ NoCkpt.call = None /\ ~NoCkpt.wrote
  BY DEF NoCkpt
<1>5. OneRunning'
  BY <1>1, <1>2 DEF RunInv, OneRunning, Settling, At
<1>6. ~gate' => probing' \/ live'.stage = "suspending"
  BY <1>2, Zenon DEF RunInv, GateWatched
<1>7. GateWatched'
  BY <1>1, <1>2, <1>6 DEF RunInv, GateWatched, Settling
<1>8. PausedKept'
  BY <1>1, <1>2, <1>3 DEF RunInv, PausedKept, Kept, KeepsLosses, Usable, Settling, At
<1>9. WritesKnown'
  BY <1>1, <1>2, <1>3, <1>4 DEF RunInv, WritesKnown, At
<1> QED
  BY <1>5, <1>7, <1>8, <1>9 DEF RunInv

\* A terminated run gets its interrupted meta; its pause, if it had one, is released.
LEMMA TerminateKeeps ==
  ASSUME TypeInv, SlotInv, RunInv, KeepsLosses, TerminateMeta
  PROVE  RunInv'
<1> USE DEF pauseVars, loopVars
<1> DEFINE isPaused == meta[pc.r].status \in {"needs_clarification", "suspended"}
<1>1. /\ pc.at = "terminate" /\ phase # "down"
      /\ UNCHANGED <<ckpt, dirty, active, live, gate, phase>>
  BY ProcessIsUp DEF TerminateMeta, At
<1>2. /\ pc'.at \in {"dropCheckpoint", "cancel"} /\ pc'.r = pc.r
      /\ pc'.at = "dropCheckpoint" =>
           isPaused \/ meta[pc.r].status = "interrupted"
  <2>1. \/ Goto("cancel")
        \/ Goto("dropCheckpoint") /\ (isPaused \/ meta[pc.r].status = "interrupted")
    BY DEF TerminateMeta
  <2> QED
    BY <2>1, GotoType DEF Labels, TypeInv, TypeOK
<1>3. \A r \in Runs :
        \/ meta'[r] = meta[r] /\ (r = pc.r => ~isPaused)
        \/ r = pc.r /\ isPaused /\ meta'[r].status = "interrupted"
  <2>1. meta \in [Runs -> MetaType]
    BY DEF TypeInv, TypeOK
  <2>2. ASSUME NEW r \in Runs
        PROVE  InterruptedMeta(r, FALSE).status = "interrupted"
    BY <2>1 DEF InterruptedMeta, MetaType
  <2> QED
    BY <2>1, <2>2 DEF TerminateMeta
<1>4. /\ paused' = paused \/ paused'.run = None
      /\ isPaused /\ paused.run = pc.r => paused'.run = None \/ pc.r \notin Runs
      /\ KeepsWatch
  <2>1. CASE ReleasePaused(pc.r)
    BY <1>1, <2>1, ReleaseType, ReleaseWatches DEF TypeInv, NoPaused
  <2>2. CASE UNCHANGED pauseVars /\ meta[pc.r].status # "suspended"
    <3>1. isPaused /\ paused.run = pc.r => pc.r \notin Runs
      BY <2>2, IdFacts DEF RunInv, PausedKept
    <3>2. KeepsWatch
      BY <1>1, <2>2, Zenon DEF KeepsWatch
    <3> QED
      BY <2>2, <3>1, <3>2
  <2> QED
    BY <2>1, <2>2 DEF TerminateMeta
<1> HIDE DEF isPaused
<1>5. active \in Runs \cup {None} /\ paused.run \in Runs \cup {None}
  BY IdFacts DEF TypeInv, TypeOK
<1>6. isPaused => meta[pc.r].status # "running"
  BY DEF isPaused
<1>7. OneRunning'
  BY <1>1, <1>2, <1>3, <1>6 DEF RunInv, OneRunning, Settling, At
<1>8. GateWatched'
  BY <1>1, <1>2, <1>4, Zenon DEF RunInv, GateWatched, KeepsWatch, Settling
<1>9. PausedKept'
  <2>1. paused'.run # None => meta'[paused'.run] = meta[paused'.run]
    BY <1>3, <1>4, <1>5
  <2>2. live'.stage \in {"suspending", "pausing"} => active # None
    BY <1>1 DEF RunInv, GateWatched, NoLive
  <2>3. paused'.run # None => paused' = paused
    BY <1>4
  <2>4. pc'.at = "dropCheckpoint" /\ pc.r \in Runs =>
          meta'[pc.r].status = "interrupted"
    BY <1>2, <1>3
  <2> QED
    BY <1>1, <1>2, <2>1, <2>2, <2>3, <2>4
       DEF RunInv, PausedKept, Kept, KeepsLosses, Usable, Settling, At
<1>10. WritesKnown'
  <2>1. \A r \in Runs : meta'[r].status = "nodir" => meta[r].status = "nodir"
    BY <1>3
  <2> QED
    BY <1>1, <1>2, <2>1 DEF RunInv, WritesKnown, At
<1> QED
  BY <1>7, <1>8, <1>9, <1>10 DEF RunInv

\* A fresh run directory, empty, of a run that has written nothing.
LEMMA SubmitKeeps ==
  ASSUME TypeInv, SlotInv, RunInv, KeepsLosses, SubmitAccepted
  PROVE  RunInv'
<1> USE DEF slotVars, pauseVars, loopVars
<1>1. PICK r \in Runs : /\ meta[r].status = "nodir"
                        /\ meta' = [meta EXCEPT ![r].status = "nometa"]
                        /\ pc' = [pc EXCEPT !.at = "start", !.r = r]
  BY DEF SubmitAccepted, NextRun
<1>2. /\ pc.at = "submit" /\ phase # "down" /\ paused.run = None
      /\ UNCHANGED <<ckpt, dirty, active, paused, probing, live, gate, phase>>
  BY ProcessIsUp DEF SubmitAccepted, At, SlotFree
<1>3. /\ meta'[r].status = "nometa"
      /\ \A q \in Runs \ {r} : meta'[q] = meta[q]
  <2>1. meta \in [Runs -> MetaType]
    BY DEF TypeInv, TypeOK
  <2> QED
    BY <1>1, <2>1 DEF MetaType
<1>4. pc'.at = "start" /\ pc'.r = r
  BY <1>1 DEF TypeInv, TypeOK, PcType
<1>5. OneRunning'
  BY <1>1, <1>2, <1>3, <1>4 DEF RunInv, OneRunning, Settling, At
<1>6. ~gate' => probing' \/ live'.stage = "suspending"
  BY <1>2, Zenon DEF RunInv, GateWatched
<1>7. GateWatched'
  BY <1>2, <1>4, <1>6 DEF RunInv, GateWatched, Settling
<1>8. PausedKept'
  BY <1>2, <1>4 DEF RunInv, PausedKept, Kept, KeepsLosses, Usable, Settling, At
<1>9. WritesKnown'
  BY <1>1, <1>2, <1>3, <1>4 DEF RunInv, WritesKnown, At
<1> QED
  BY <1>5, <1>7, <1>8, <1>9 DEF RunInv

\* A write-capable role starts, and changes the workspace after its safe point.
LEMMA WriteKeeps ==
  ASSUME TypeInv, SlotInv, RunInv, KeepsLosses, StartWriteCapableRole \/ WriteWorkspace
  PROVE  RunInv'
<1> USE DEF runVars, slotVars, pauseVars, loopVars
<1>1. /\ active \in Runs /\ meta[active].status = "running"
      /\ paused.run = None /\ phase = "up" /\ pc.at = "idle"
      /\ live.stage = "running" /\ active # None
  BY LiveRun DEF RunAt, StartWriteCapableRole, WriteWorkspace
<1>2. UNCHANGED <<meta, ckpt, active, paused, probing, gate, phase, pc>>
  BY DEF StartWriteCapableRole, WriteWorkspace
<1>3. /\ dirty \subseteq dirty' /\ dirty' \subseteq dirty \cup {active}
      /\ active \in dirty' /\ active \notin dirty =>
           ckpt[active].wrote /\ live'.wrote
      /\ live'.stage = "running" /\ (live.wrote => live'.wrote)
  BY <1>1 DEF StartWriteCapableRole, WriteWorkspace, RunInv, WritesKnown, TypeInv,
              TypeOK, LiveType
<1>4. OneRunning'
  BY <1>1, <1>2 DEF RunInv, OneRunning, Settling, At
<1>5. ~gate' => probing'
  BY <1>1, <1>2, Zenon DEF RunInv, GateWatched
<1>6. GateWatched'
  BY <1>1, <1>2, <1>3, <1>5 DEF GateWatched
<1>7. PausedKept'
  BY <1>1, <1>2, <1>3 DEF RunInv, PausedKept, Kept, KeepsLosses, Usable, Settling, At
<1>8. WritesKnown'
  BY <1>1, <1>2, <1>3 DEF RunInv, WritesKnown, At
<1> QED
  BY <1>4, <1>6, <1>7, <1>8 DEF RunInv

\* The checkpoint writes of the live run.
LEMMA CheckpointStepKeeps ==
  ASSUME TypeInv, SlotInv, RunInv, KeepsLosses
  PROVE  /\ SafePoint \/ OperatorPause \/ Park \/ Suspend => RunInv'
         /\ \A q : \A s \in {"success", "error", "needs_clarification"} :
              Finish(s, q) => RunInv'
<1> USE DEF slotVars, pauseVars, loopVars
<1>1. ASSUME SafePoint
      PROVE  RunInv'
  BY <1>1, SnapshotFacts, SnapshotType, CheckpointKeeps DEF SafePoint, TypeInv
<1>2. ASSUME OperatorPause
      PROVE  RunInv'
  <2> DEFINE c == [Snapshot EXCEPT !.pause = TRUE]
  <2>1. c \in CkptType /\ c.has /\ c.wrote = live.wrote /\ c.call = None
    BY SnapshotFacts
  <2>2. /\ RunAt("running") /\ Checkpoint(c, "pausing") /\ gate' = gate
        /\ UNCHANGED <<meta, pc, dirty, active, paused, probing, phase>>
    BY <1>2 DEF OperatorPause
  <2> HIDE DEF c
  <2> QED
    BY <2>1, <2>2, CheckpointKeeps
<1>3. ASSUME Park
      PROVE  RunInv'
  <2>1. PICK q \in Questions :
          Checkpoint([Snapshot EXCEPT !.call = count.asks + 1, !.question = q],
                     "parked")
    BY <1>3 DEF Park
  <2> DEFINE c == [Snapshot EXCEPT !.call = count.asks + 1, !.question = q]
  <2>2. c \in CkptType /\ c.has /\ c.wrote = live.wrote
    <3>1. count.asks + 1 \in Nat /\ q \in Nat
      BY IdFacts DEF TypeInv, TypeOK, CountType
    <3> QED
      BY <3>1, SnapshotFacts
  <2>3. /\ RunAt("running") /\ Checkpoint(c, "parked") /\ gate' = gate
        /\ ~live.wrote
        /\ UNCHANGED <<meta, pc, dirty, active, paused, probing, phase>>
    BY <1>3, <2>1 DEF Park
  <2> HIDE DEF c
  <2> QED
    BY <2>2, <2>3, CheckpointKeeps
<1>4. ASSUME Suspend
      PROVE  RunInv'
  <2> DEFINE c == [Snapshot EXCEPT !.suspension = TRUE]
  <2>1. c \in CkptType /\ c.has /\ c.wrote = live.wrote /\ c.call = None
    BY SnapshotFacts
  <2>2. /\ RunAt("running") /\ Checkpoint(c, "suspending")
        /\ UNCHANGED <<meta, pc, dirty, active, paused, probing, phase>>
    BY <1>4 DEF Suspend
  <2> HIDE DEF c
  <2> QED
    BY <2>1, <2>2, CheckpointKeeps
<1>5. ASSUME NEW q, NEW s \in {"success", "error", "needs_clarification"},
             Finish(s, q)
      PROVE  RunInv'
  <2>1. /\ RunAt("running") /\ Checkpoint(Snapshot, "running") /\ gate' = gate
        /\ TerminalMeta(s, q, "none")
        /\ UNCHANGED <<dirty, active, paused, probing, phase>>
    BY <1>5 DEF Finish
  <2>2. active \in Runs
    BY <2>1, LiveRun DEF RunAt
  <2>3. /\ meta'[active].status = s /\ pc'.at = "cleanup" /\ pc'.r = active
        /\ \A r \in Runs \ {active} : meta'[r] = meta[r]
    BY <2>1, <2>2, TerminalMetaFacts
  <2>4. Snapshot \in CkptType
    BY SnapshotType DEF TypeInv
  <2> QED
    BY <2>1, <2>3, <2>4, SnapshotFacts, CheckpointKeeps
<1> QED
  BY <1>1, <1>2, <1>3, <1>4, <1>5

LEMMA RunStepRun ==
  ASSUME TypeInv, SlotInv, RunInv, KeepsLosses, RunStep
  PROVE  RunInv'
<1> USE DEF runVars, slotVars, pauseVars, loopVars
<1>1. CASE RoleCallSucceeds \/ PauseRun
  <2>1. UNCHANGED <<meta, ckpt, dirty, active, paused, pc, phase, scan>>
    BY <1>1 DEF RoleCallSucceeds, PauseRun
  <2>2. live' = live
    BY <1>1 DEF RoleCallSucceeds, PauseRun
  <2>3. KeepsWatch
    BY <1>1, Zenon DEF RoleCallSucceeds, PauseRun, KeepsWatch
  <2> QED
    BY <2>1, <2>2, <2>3, QuietKeeps DEF Quiet
<1>2. CASE StartRun
  <2> DEFINE r == pc.r
             m == RunningMeta(pc.m.task)
  <2>1. /\ pc.at = "start" /\ phase # "down" /\ r \in Runs /\ active = None
        /\ paused.run = None /\ r \notin dirty /\ ~ckpt[r].wrote
    BY <1>2, ProcessIsUp
       DEF StartRun, At, TypeInv, SectionOK, SlotInv, SlotFree, RunInv, WritesKnown
  <2>2. /\ meta' = [meta EXCEPT ![r] = m] /\ m.status = "running"
        /\ active' = r /\ live'.stage = "running"
        /\ UNCHANGED <<ckpt, dirty, paused, probing, gate>>
    BY <1>2 DEF StartRun, Occupy, RunningMeta
  <2>3. pc'.at \in Plain
    BY <1>2, GotoType DEF StartRun, Plain, Labels, Settling, TypeInv, TypeOK
  <2>4. KeepsWatch
    BY <2>2, Zenon DEF KeepsWatch
  <2> HIDE DEF r, m
  <2> QED
    BY <2>1, <2>2, <2>3, <2>4, StartKeeps DEF Settling
<1>3. CASE StartResume
  <2> DEFINE r == pc.r
             m == RunningMeta(meta[r].task)
  <2>1. /\ pc.at = "startResume" /\ phase # "down" /\ r \in Runs /\ active = None
        /\ paused.run \in {None, r} /\ (r \in dirty => ckpt[r].wrote)
    BY <1>3, ProcessIsUp
       DEF StartResume, At, TypeInv, SectionOK, SlotInv, RunInv, WritesKnown
  <2>2. /\ meta' = [meta EXCEPT ![r] = m] /\ m.status = "running"
        /\ active' = r /\ live'.stage = "running" /\ live'.wrote = ckpt[r].wrote
        /\ UNCHANGED <<ckpt, dirty, gate>> /\ ReleasePaused(r)
    BY <1>3 DEF StartResume, Occupy, RunningMeta
  <2>3. pc'.at \in Plain
    BY <1>3, GotoType DEF StartResume, Plain, Labels, Settling, TypeInv, TypeOK
  <2>4. paused' \in {NoPaused, paused} /\ paused'.run = None
    BY <2>1, <2>2, ReleaseType DEF TypeInv, NoPaused
  <2>5. KeepsWatch
    BY <2>2, ReleaseWatches
  <2> HIDE DEF r, m
  <2> QED
    BY <2>1, <2>2, <2>3, <2>4, <2>5, StartKeeps DEF Settling
<1>4. CASE DropCheckpoint
  <2>1. /\ pc.at = "dropCheckpoint" /\ phase # "down"
        /\ UNCHANGED <<meta, dirty, active, paused, probing, live, gate, phase>>
        /\ ckpt' = [ckpt EXCEPT ![pc.r] = NoCkpt]
    BY <1>4, ProcessIsUp DEF DropCheckpoint, At
  <2>2. pc'.at \in Plain
    BY <1>4, GotoType DEF DropCheckpoint, Plain, Labels, Settling, TypeInv, TypeOK
  <2>3. KeepsWatch
    BY <2>1, Zenon DEF KeepsWatch
  <2>4. CASE pc.r \in Runs
    <3>1. pc.r # active /\ pc.r # paused.run
      BY <2>1, <2>4, IdFacts
         DEF RunInv, OneRunning, PausedKept, At, Settling
    <3> QED
      BY <2>1, <2>2, <2>3, <2>4, <3>1, CleanupKeeps DEF Settling
  <2>5. CASE pc.r \notin Runs
    <3>1. ckpt' = ckpt
      BY <2>1, <2>5 DEF TypeInv, TypeOK
    <3> QED
      BY <2>1, <2>2, <2>3, <3>1, QuietKeeps DEF Quiet, Settling
  <2> QED
    BY <2>4, <2>5
<1>5. ASSUME NEW r \in Runs, ResumeRun(r)
      PROVE  RunInv'
  <2>1. /\ BeginResume(r, "none") /\ UNCHANGED <<meta, dirty, active, live, gate>>
        /\ phase # "down" /\ pc.at = "idle" /\ "none" \in Callers
    BY <1>5, ProcessIsUp
       DEF ResumeRun, Accepting, Serving, LoopFree, Idle, Callers
  <2> QED
    BY <2>1, BeginResumeKeeps DEF Settling
<1> QED
  BY <1>1, <1>2, <1>3, <1>4, <1>5, SubmitKeeps, WriteKeeps, CheckpointStepKeeps,
     UnwindKeeps, ExecutorCleanupKeeps, TerminateKeeps DEF RunStep

-----------------------------------------------------------------------------
(* The boot reconciliation, and the end of a process.                      *)

\* What the scan makes of a run: whatever it leaves suspended can be resumed, and
\* whatever it leaves running has a checkpoint.
LEMMA ReconciledFacts ==
  ASSUME TypeInv, NEW r \in Runs
  PROVE  /\ ReconciledMeta(r).status = "suspended" => Usable(r)
         /\ ReconciledMeta(r).status = "running" => ckpt[r].has
         /\ ReconciledMeta(r).status = "nodir" => meta[r].status = "nodir"
<1>1. meta[r] \in MetaType
  BY DEF TypeInv, TypeOK
<1>2. InterruptedMeta(r, FALSE).status = "interrupted"
  BY <1>1 DEF InterruptedMeta, MetaType
<1>3. /\ Materialized(r).status \in {"needs_clarification", "suspended", meta[r].status}
      /\ ckpt[r].call # None => Materialized(r).status = "needs_clarification"
  BY <1>1 DEF Materialized, MetaType
<1> QED
  BY <1>1, <1>2, <1>3 DEF ReconciledMeta, Usable

LEMMA ScanKeeps ==
  ASSUME TypeInv, SlotInv, RunInv, KeepsLosses, NEW r \in Runs,
         ReconcileRun(r) \/ Supersede(r)
  PROVE  RunInv'
<1> USE DEF slotVars, pauseVars, loopVars
<1>1. /\ pc.at = "scan" /\ paused.run = None /\ active = None
      /\ UNCHANGED <<ckpt, dirty, active, paused, probing, live, gate, phase, pc>>
  BY DEF ReconcileRun, Supersede, Scanned, SlotInv, SlotFree, At
<1>2. PICK m : /\ meta' = [meta EXCEPT ![r] = m]
               /\ m.status = "suspended" => Usable(r)
               /\ m.status = "running" => ckpt[r].has
               /\ m.status = "nodir" => meta[r].status = "nodir"
               /\ scan' = scan \/ scan' = scan \ {r}
  <2>1. ASSUME NEW b \in BOOLEAN
        PROVE  InterruptedMeta(r, b).status = "interrupted"
    BY DEF InterruptedMeta, MetaType, TypeInv, TypeOK
  <2> QED
    BY <2>1, ReconciledFacts DEF ReconcileRun, Supersede
<1>3. \A q \in Runs : meta'[q] = IF q = r THEN m ELSE meta[q]
  BY <1>2 DEF TypeInv, TypeOK
<1>4. OneRunning'
  BY <1>1 DEF OneRunning, Settling, At
<1>5. ~gate' => probing' \/ live'.stage = "suspending"
  BY <1>1, Zenon DEF RunInv, GateWatched
<1>6. GateWatched'
  BY <1>1, <1>5 DEF RunInv, GateWatched, Settling
<1>7. live.stage = "none"
  BY <1>1 DEF RunInv, GateWatched, NoLive
<1>8. PausedKept'
  BY <1>1, <1>2, <1>3, <1>7
     DEF RunInv, PausedKept, Kept, KeepsLosses, Usable, Settling, At
<1>9. WritesKnown'
  BY <1>1, <1>2, <1>3 DEF RunInv, WritesKnown, At
<1> QED
  BY <1>4, <1>6, <1>8, <1>9 DEF RunInv

LEMMA BootStepRun ==
  ASSUME TypeInv, SlotInv, RunInv, KeepsLosses, BootStep
  PROVE  RunInv'
<1> USE DEF runVars, slotVars, pauseVars, loopVars
<1>1. active = None => live.stage = "none"
  BY DEF RunInv, GateWatched, NoLive
<1>2. CASE Boot
  <2>1. /\ active = None /\ paused.run = None /\ pc.at = "idle"
        /\ UNCHANGED <<meta, ckpt, dirty, active, paused, probing, live, gate>>
        /\ scan' = {r \in Runs : meta[r].status # "nodir"}
    BY <1>2 DEF Boot, SlotInv, SlotFree, Idle
  <2>2. pc'.at = "scan"
    BY <1>2, EnterType, IdFacts DEF Boot, Labels, Callers
  <2>3. OneRunning'
    BY <2>2 DEF OneRunning, Settling, At
  <2>4. ~gate' => probing' \/ live'.stage = "suspending"
    BY <2>1, Zenon DEF RunInv, GateWatched
  <2>5. GateWatched'
    BY <2>1, <2>2, <2>4 DEF RunInv, GateWatched, Settling
  <2>6. PausedKept'
    BY <1>1, <2>1, <2>2 DEF PausedKept, Settling, At
  <2>7. WritesKnown'
    BY <2>1, <2>2 DEF RunInv, WritesKnown, At
  <2> QED
    BY <2>3, <2>5, <2>6, <2>7 DEF RunInv
<1>3. ASSUME Scanned, Enter("tick", None, None, "boot")
      PROVE  /\ scan = {} /\ active = None /\ paused.run = None
             /\ pc.at = "scan" /\ pc'.at = "tick"
  BY <1>3, EnterType, IdFacts
     DEF Scanned, At, SlotInv, SlotFree, Labels, Callers
<1>4. CASE AdoptPaused
  <2>1. PICK r \in Runs : /\ PausedRuns = {r}
                          /\ paused' = [run |-> r, kind |-> meta[r].kind]
    BY <1>4 DEF AdoptPaused
  <2>2. /\ UNCHANGED <<meta, ckpt, dirty, active, live, phase, scan>>
        /\ ResumableRuns = {}
        /\ scan = {} /\ active = None /\ pc.at = "scan" /\ pc'.at = "tick"
    BY <1>3, <1>4 DEF AdoptPaused
  <2>3. meta[r].status = "suspended" /\ Kept(r)
    BY <2>1, <2>2 DEF PausedRuns, RunInv, PausedKept, At
  <2>4. OneRunning'
    BY <2>2, IdFacts DEF OneRunning, Settling, At, ResumableRuns
  <2>5. ~gate' => probing'
    <3>1. CASE probing' = TRUE
      BY <3>1
    <3>2. CASE UNCHANGED <<probing, gate>>
      BY <1>1, <2>2, <3>2, Zenon DEF RunInv, GateWatched
    <3> QED
      BY <1>4, <3>1, <3>2 DEF AdoptPaused
  <2>6. GateWatched'
    BY <2>2, <2>5 DEF RunInv, GateWatched, Settling
  <2>7. PausedKept'
    BY <1>1, <2>1, <2>2, <2>3 DEF PausedKept, Kept, KeepsLosses, Usable, Settling, At
  <2>8. WritesKnown'
    BY <2>2 DEF RunInv, WritesKnown, At
  <2> QED
    BY <2>4, <2>6, <2>7, <2>8 DEF RunInv
<1>5. CASE ResumeWinner
  <2>1. PICK r \in Runs : /\ ResumableRuns = {r} /\ active' = r
                          /\ live'.stage = "running" /\ live'.wrote = ckpt[r].wrote
    BY <1>5 DEF ResumeWinner, Occupy
  <2>2. /\ UNCHANGED <<meta, ckpt, dirty, paused, probing, phase, scan, gate>>
        /\ scan = {} /\ active = None /\ paused.run = None
        /\ pc.at = "scan" /\ pc'.at = "tick"
    BY <1>3, <1>5 DEF ResumeWinner
  <2>3. meta[r].status = "running" /\ ckpt[r].has /\ r # None
    BY <2>1, <2>2, IdFacts DEF ResumableRuns, RunInv, WritesKnown, At
  <2>4. OneRunning'
    BY <2>1, <2>2 DEF OneRunning, Settling, At, ResumableRuns
  <2>5. ~gate' => probing'
    BY <1>1, <2>2, Zenon DEF RunInv, GateWatched
  <2>6. GateWatched'
    BY <2>1, <2>2, <2>3, <2>5 DEF GateWatched, Settling
  <2>7. PausedKept'
    BY <2>1, <2>2 DEF PausedKept, Settling, At
  <2>8. WritesKnown'
    BY <2>1, <2>2, <2>3 DEF RunInv, WritesKnown, At
  <2> QED
    BY <2>4, <2>6, <2>7, <2>8 DEF RunInv
<1>6. CASE NothingToResume
  <2>1. /\ UNCHANGED <<meta, ckpt, dirty, active, paused, live, probing, phase,
                       scan, gate>>
        /\ ResumableRuns = {}
        /\ scan = {} /\ active = None /\ paused.run = None
        /\ pc.at = "scan" /\ pc'.at = "tick"
    BY <1>3, <1>6 DEF NothingToResume
  <2>2. OneRunning'
    BY <2>1, IdFacts DEF OneRunning, Settling, At, ResumableRuns
  <2>3. ~gate' => probing'
    BY <1>1, <2>1, Zenon DEF RunInv, GateWatched
  <2>4. GateWatched'
    BY <2>1, <2>3 DEF RunInv, GateWatched, Settling
  <2>5. PausedKept'
    BY <1>1, <2>1 DEF PausedKept, Settling, At
  <2>6. WritesKnown'
    BY <2>1 DEF RunInv, WritesKnown, At
  <2> QED
    BY <2>2, <2>4, <2>5, <2>6 DEF RunInv
<1> QED
  BY <1>2, <1>4, <1>5, <1>6, ScanKeeps DEF BootStep

LEMMA DisturbanceRun ==
  ASSUME TypeInv, SlotInv, RunInv, KeepsLosses, Disturbance
  PROVE  RunInv'
<1> USE DEF runVars, slotVars, pauseVars, loopVars
<1>1. CASE Crash \/ Exit
  <2>1. /\ UNCHANGED <<meta, ckpt, dirty>>
        /\ phase' = "down" /\ pc'.at = "idle" /\ active' = None /\ live' = NoLive
        /\ paused'.run = None /\ gate' = TRUE
    BY <1>1 DEF Crash, Exit, ProcessEnds, Idle, NoPaused
  <2>2. OneRunning'
    BY <2>1 DEF OneRunning, Settling
  <2>3. gate'
    BY <2>1
  <2>4. GateWatched'
    BY <2>1, <2>3, Zenon DEF GateWatched, Settling, NoLive
  <2>5. PausedKept'
    BY <2>1 DEF PausedKept, Settling, At, NoLive
  <2>6. WritesKnown'
    BY <2>1 DEF RunInv, WritesKnown, At
  <2> QED
    BY <2>2, <2>4, <2>5, <2>6 DEF RunInv
<1>2. CASE ObserveShutdown
  <2>1. UNCHANGED <<meta, ckpt, dirty, active, live, paused, pc, phase, scan>>
    BY <1>2 DEF ObserveShutdown
  <2>2. KeepsWatch
    BY <1>2, Zenon DEF ObserveShutdown, KeepsWatch
  <2> QED
    BY <2>1, <2>2, QuietKeeps DEF Quiet
<1>3. ASSUME NEW r \in Runs, LoseCheckpoint(r)
      PROVE  RunInv'
  <2>1. ~NoneLost'
    <3>1. count \in CountType
      BY DEF TypeInv, TypeOK
    <3>2. count.losses \in Nat /\ count'.losses = count.losses + 1
      BY <1>3, <3>1 DEF LoseCheckpoint, Used, CountType
    <3>3. count.losses < MaxLosses
      BY <1>3 DEF LoseCheckpoint
    <3> QED
      BY <3>2, <3>3, BoundsAssumption DEF NoneLost
  <2>2. /\ pc.at = "idle" /\ r # active
        /\ UNCHANGED <<meta, dirty, active, paused, live, probing, gate, phase, pc,
                       scan>>
        /\ \A q \in Runs : ckpt'[q] = IF q = r THEN NoCkpt ELSE ckpt[q]
    BY <1>3 DEF LoseCheckpoint, Idle, TypeInv, TypeOK
  <2>3. ~NoCkpt.has /\ NoCkpt.call = None /\ ~NoCkpt.wrote
    BY DEF NoCkpt
  <2>4. OneRunning'
    BY <2>2 DEF RunInv, OneRunning, Settling, At
  <2>5. ~gate' => probing' \/ live'.stage = "suspending"
    BY <2>2, Zenon DEF RunInv, GateWatched
  <2>6. GateWatched'
    BY <2>2, <2>5 DEF RunInv, GateWatched, Settling
  <2>7. PausedKept'
    BY <2>1, <2>2 DEF RunInv, PausedKept, Kept, Settling, At
  <2>8. WritesKnown'
    BY <2>2, <2>3, IdFacts DEF RunInv, WritesKnown, At, TypeInv, TypeOK
  <2> QED
    BY <2>4, <2>6, <2>7, <2>8 DEF RunInv
<1> QED
  BY <1>1, <1>2, <1>3 DEF Disturbance

-----------------------------------------------------------------------------
(* What the losses and the scan allow.                                     *)

\* No step but the loss of a checkpoint counts one, and while the scan holds the loop
\* only the reconciliation writes a meta.
Ordinary == count'.losses = count.losses /\ (At("scan") => meta' = meta)

\* The other counters leave the losses alone.
LEMMA OtherUsed ==
  ASSUME TypeInv, NEW f, f # "losses", Used(f)
  PROVE  count'.losses = count.losses
  BY DEF TypeInv, TypeOK, CountType, Used

LEMMA QueueIsOrdinary ==
  ASSUME TypeInv, QueueStep \/ QueueRequest
  PROVE  Ordinary
<1> USE DEF fileVars, runVars, loopVars, slotVars, timeVars, Ordinary
<1>1. CASE \/ TickCleanup \/ TickRepair \/ DispatchNone \/ DispatchHead
           \/ MarkFallback \/ SubmitRefused \/ SubmitCollides \/ WakeSleeper
           \/ BindRun
  BY <1>1 DEF TickCleanup, TickRepair, DispatchNone, DispatchHead, MarkFallback,
              SubmitRefused, SubmitCollides, WakeSleeper, BindRun
<1>2. CASE \/ ResumeAnswered \/ StartAnswered \/ SettleSuspended \/ SettleTerminal
           \/ SubmitNowReturns \/ CancelTerminated \/ HandleHealthy
  BY <1>2 DEF ResumeAnswered, StartAnswered, SettleSuspended, SettleTerminal,
              SubmitNowReturns, CancelTerminated, HandleHealthy, At
<1>3. ASSUME NEW label, NEW status, Reactivate(label, status)
      PROVE  Ordinary
  BY <1>3 DEF Reactivate
<1>4. ASSUME NEW i, NEW t, NEW r, NEW h, NEW p,
             \/ Enqueue(i, t, r, h) \/ SubmitNow(i, t) \/ EditTask(i, t)
             \/ Reorder(i, p) \/ Cancel(i) \/ TerminateItem(i) \/ Answer(i)
             \/ Requeue(i) \/ TerminateSuspendedRun(r)
      PROVE  Ordinary
  <2>1. meta' = meta /\ (count' = count \/ Used("edits") \/ Used("answers"))
    BY <1>4 DEF Enqueue, SubmitNow, EditTask, Reorder, Cancel, TerminateItem,
                Answer, Requeue, TerminateSuspendedRun
  <2> QED
    BY <2>1, OtherUsed
<1>5. CASE ProbeHealthy \/ ProbeFails \/ SecondPasses
  BY <1>5 DEF ProbeHealthy, ProbeFails, SecondPasses
<1>6. CASE QueueStep
  BY <1>1, <1>2, <1>3, <1>6 DEF QueueStep
<1>7. CASE QueueRequest
  BY <1>4, <1>5, <1>7 DEF QueueRequest
<1> QED
  BY <1>6, <1>7

LEMMA RunIsOrdinary ==
  ASSUME TypeInv, RunStep
  PROVE  Ordinary
<1> USE DEF fileVars, runVars, loopVars, slotVars, timeVars, Ordinary
<1>1. RunAt("running") \/ RunAt("parked") \/ Serving => ~At("scan")
  BY DEF RunAt, Serving, LoopFree, Idle, At
<1>2. CASE \/ SubmitAccepted \/ StartRun \/ Cleanup \/ StartResume \/ TerminateMeta
           \/ DropCheckpoint
  BY <1>2 DEF SubmitAccepted, StartRun, Cleanup, StartResume, TerminateMeta,
              DropCheckpoint, At
<1>3. CASE \/ SafePoint \/ OperatorPause \/ StartWriteCapableRole \/ WriteWorkspace
           \/ Suspend \/ RoleCallSucceeds \/ PauseRun
  BY <1>3 DEF SafePoint, OperatorPause, StartWriteCapableRole, WriteWorkspace,
              Suspend, RoleCallSucceeds, PauseRun
<1>4. CASE Park
  BY <1>4, OtherUsed DEF Park
<1>5. ASSUME NEW status, NEW q, Unwind \/ Finish(status, q)
      PROVE  Ordinary
  BY <1>1, <1>5 DEF Unwind, Finish, Serving, LoopFree, Idle, At, TerminalMeta, RunAt
<1>6. ASSUME NEW r, ResumeRun(r)
      PROVE  Ordinary
  BY <1>6 DEF ResumeRun
<1> QED
  BY <1>2, <1>3, <1>4, <1>5, <1>6 DEF RunStep

LEMMA BootIsOrdinary ==
  ASSUME TypeInv, BootStep \/ Disturbance
  PROVE  \/ Ordinary
         \/ /\ At("scan") /\ count' = count
            /\ \E r \in Runs : ReconcileRun(r) \/ Supersede(r)
         \/ meta' = meta /\ \E r \in Runs : LoseCheckpoint(r)
<1> USE DEF fileVars, runVars, loopVars, slotVars, timeVars, Ordinary
<1>1. CASE Boot \/ AdoptPaused \/ ResumeWinner \/ NothingToResume
  BY <1>1 DEF Boot, AdoptPaused, ResumeWinner, NothingToResume
<1>2. CASE Crash \/ ObserveShutdown \/ Exit
  BY <1>2, OtherUsed DEF Crash, ObserveShutdown, Exit
<1>3. ASSUME NEW r \in Runs, ReconcileRun(r) \/ Supersede(r)
      PROVE  At("scan") /\ count' = count
  BY <1>3 DEF ReconcileRun, Supersede, Scanned
<1>4. ASSUME NEW r \in Runs, LoseCheckpoint(r)
      PROVE  meta' = meta
  BY <1>4 DEF LoseCheckpoint
<1> QED
  BY <1>1, <1>2, <1>3, <1>4 DEF BootStep, Disturbance

LEMMA LossesStay ==
  ASSUME TypeInv, [Next]_vars
  PROVE  KeepsLosses
<1>1. count'.losses = count.losses => KeepsLosses
  BY DEF KeepsLosses, NoneLost
<1>2. ASSUME NEW r \in Runs, LoseCheckpoint(r)
      PROVE  KeepsLosses
  <2>1. count \in CountType
    BY DEF TypeInv, TypeOK
  <2>2. count.losses \in Nat /\ count'.losses = count.losses + 1
    BY <1>2, <2>1 DEF LoseCheckpoint, Used, CountType
  <2>3. count.losses < MaxLosses
    BY <1>2 DEF LoseCheckpoint
  <2>4. count'.losses \in 1..MaxLosses
    BY <2>2, <2>3, BoundsAssumption
  <2> QED
    BY <2>4 DEF KeepsLosses, NoneLost
<1> QED
  BY <1>1, <1>2, QueueIsOrdinary, RunIsOrdinary, BootIsOrdinary
     DEF Next, Ordinary, vars

-----------------------------------------------------------------------------
(* The invariant, and what follows from it between two handlers.           *)

LEMMA NextKeepsRun ==
  ASSUME TypeInv, SlotInv, RunInv, [Next]_vars
  PROVE  RunInv'
<1>0. KeepsLosses
  BY LossesStay
<1>1. CASE UNCHANGED vars
  <2>1. UNCHANGED <<meta, ckpt, dirty, active, live, paused, pc, phase, scan>>
    BY <1>1 DEF vars, runVars, slotVars, pauseVars, loopVars
  <2>2. KeepsWatch
    BY <1>1, Zenon DEF vars, slotVars, pauseVars, loopVars, KeepsWatch
  <2> QED
    BY <1>0, <2>1, <2>2, QuietKeeps DEF Quiet
<1>2. CASE QueueRequest
  BY <1>0, <1>2, QueueRequestQuiet, QuietKeeps
<1> QED
  BY <1>0, <1>1, <1>2, QueueStepRun, RunStepRun, BootStepRun, DisturbanceRun DEF Next

\* The types, the slot and the run directories together are inductive.
LEMMA RunInvariant == Spec => [](TypeInv /\ SlotInv /\ RunInv)
<1>1. Init => TypeInv /\ SlotInv /\ RunInv
  BY InitType, InitSlot, InitRun
<1>2. TypeInv /\ SlotInv /\ RunInv /\ [Next]_vars
        => (TypeInv /\ SlotInv /\ RunInv)'
  BY NextType, NextSlot, NextKeepsRun
<1> QED
  BY <1>1, <1>2, PTL DEF Spec

\* One run at a time, on disk as in memory: between two handlers the run in the slot
\* is exactly the one whose meta says running, for any number of runs and through
\* every crash, boot, collision and resume.
THEOREM OneRunOnDisk == Spec => []SingleRun
<1>1. SlotInv /\ RunInv => SingleRun
  BY DEF SlotInv, RunInv, OneRunning, SingleRun, AtRest, At, Idle, Settling
<1> QED
  BY <1>1, RunInvariant, PTL

\* A closed gate over a free slot is always being probed: no dispatch is blocked by a
\* gate that nothing will open.
THEOREM GateIsProbed == Spec => []BlockedIsProbed
<1>1. RunInv => BlockedIsProbed
  <2> SUFFICES ASSUME RunInv, AtRest, SlotFree, ~gate
               PROVE  probing
    BY DEF BlockedIsProbed
  <2>1. live.stage # "suspending"
    BY DEF RunInv, GateWatched, SlotFree, NoLive
  <2> QED
    BY <2>1, Zenon DEF RunInv, GateWatched
<1> QED
  BY <1>1, RunInvariant, PTL

\* The pre-write rule: no run that waits for an answer off the slot has touched the
\* workspace, whatever it did before, across every resume, crash and boot.
THEOREM ParkedHasNotWritten == Spec => []ParkedIsClean
<1>1. RunInv => ParkedIsClean
  BY DEF RunInv, WritesKnown, ParkedIsClean
<1> QED
  BY <1>1, RunInvariant, PTL

\* Until a checkpoint is lost a paused run can be resumed, so that its pause cannot
\* block the queue for ever.  A run whose checkpoint is lost cannot, and the code
\* discards it when its resume is tried.
LEMMA KeptCanResume == TypeInv /\ RunInv /\ NoneLost => PausedIsResumable
  BY DEF RunInv, PausedKept, Kept, PausedIsResumable

THEOREM PausedCanResume ==
  ASSUME MaxLosses = 0
  PROVE  Spec => []PausedIsResumable
<1>1. NoneLost
  BY DEF NoneLost
<1> QED
  BY <1>1, KeptCanResume, RunInvariant, PTL

-----------------------------------------------------------------------------
(* The boot over whatever an earlier build has left behind.                *)

LEMMA InitBootType ==
  ASSUME MaxItems # 0, BootInit
  PROVE  TypeInv
<1> USE DEF None
<1>1. PICK runs \in [Runs -> LeftRuns] : /\ meta = [r \in Runs |-> runs[r][1]]
                                         /\ ckpt = [r \in Runs |-> runs[r][2]]
  BY DEF BootInit
<1>2. (CHOOSE t \in Tasks : TRUE) \in Tasks
  BY BoundsAssumption
<1>3. LeftMetas \subseteq MetaType
  <2>1. NoMeta \in MetaType
    BY DEF NoMeta, MetaType, RunStatus, PauseKind
  <2>2. [NoMeta EXCEPT !.status = "nometa"] \in MetaType
    BY <2>1 DEF MetaType, RunStatus
  <2>3. \A s \in RunStatus, k \in PauseKind : LeftMeta(s, k) \in MetaType
    BY <1>2, <2>1 DEF LeftMeta, MetaType
  <2> QED
    BY <2>1, <2>2, <2>3 DEF LeftMetas, RunStatus, PauseKind
<1>4. LeftCkpts \subseteq CkptType
  <2>1. PlainCkpt \in CkptType
    BY NoCkptType DEF PlainCkpt, CkptType
  <2>2. /\ [PlainCkpt EXCEPT !.call = 1, !.question = 1] \in CkptType
        /\ [PlainCkpt EXCEPT !.suspension = TRUE] \in CkptType
        /\ [PlainCkpt EXCEPT !.pause = TRUE] \in CkptType
    BY <2>1 DEF CkptType
  <2> QED
    BY <2>1, <2>2, NoCkptType DEF LeftCkpts
<1>5. meta \in [Runs -> MetaType] /\ ckpt \in [Runs -> CkptType]
  BY <1>1, <1>3, <1>4 DEF LeftRuns
<1>6. LeftItems \subseteq ItemType(Tasks, RunIds)
  <2> DEFINE it == NormalizeNewItem(CHOOSE t \in Tasks : TRUE, None)
  <2>1. it \in ItemType(Tasks, RunIds)
    BY <1>2, IdFacts, NewItemType
  <2>2. NoItem \in ItemType(Tasks, RunIds)
    BY IdleType DEF NoItem, NoMarker, ItemType, OffFile
  <2> QED
    <3> HIDE DEF it
    <3>1. None \in RunIds /\ Runs \subseteq RunIds
      BY IdFacts
    <3>2. DispatchingItem(it) \in ItemType(Tasks, RunIds)
      BY <2>1, <3>1, KeepPointersType
    <3>3. \A r \in Runs : /\ BoundItem(it, r) \in ItemType(Tasks, RunIds)
                          /\ SuspendedItem(it, r) \in ItemType(Tasks, RunIds)
      BY <2>1, <3>1, DropPointersType
    <3> QED
      BY <2>2, <3>2, <3>3 DEF LeftItems, it
<1>7. 1 \in Items
  BY BoundsAssumption DEF Items
<1>8. item \in [Items -> ItemType(Tasks, RunIds)] /\ order \in Seq(Items)
  <2>1. << >> \in Seq(Items) /\ <<1>> \in Seq(Items)
    BY <1>7
  <2> QED
    BY <1>6, <2>1 DEF BootInit
<1>9. count \in CountType
  <2>1. Barred \in Nat /\ MaxEdits \in Nat /\ MaxAnswers \in Nat /\ MaxCrashes \in Nat
    BY BoundsAssumption DEF Barred
  <2>2. FromEmpty \in CountType
    BY <2>1 DEF FromEmpty, CountType
  <2>3. FromLeftover \subseteq CountType
    <3> DEFINE Late == [FromEmpty EXCEPT !.asks = 1, !.answers = 1, !.crashes = 1,
                                         !.edits = MaxEdits]
    <3>1. Late \in CountType
      BY <2>1, <2>2 DEF CountType
    <3>2. [Late EXCEPT !.answers = MaxAnswers, !.losses = 0] \in CountType
      BY <2>1, <3>1 DEF CountType
    <3>3. [Late EXCEPT !.crashes = MaxCrashes, !.losses = 0] \in CountType
      BY <2>1, <3>1 DEF CountType
    <3> QED
      BY <3>1, <3>2, <3>3 DEF FromLeftover
  <2> QED
    BY <2>2, <2>3 DEF BootInit
<1>10. heard \in [Runs -> SUBSET Nat]
  BY DEF BootInit
<1>11. pauseReq \subseteq Runs /\ dirty \subseteq Runs /\ scan \subseteq Runs
  BY DEF BootInit
<1>12. /\ NoLive \in LiveType /\ NoPaused \in [run: RunIds, kind: PauseKind]
       /\ NoPaused.kind = "none" /\ Idle.at = "idle"
  BY IdFacts DEF NoLive, LiveType, NoPaused, PauseKind, Idle
<1>13. SectionOK
  BY <1>12 DEF BootInit, SectionOK
<1>14. sleepers \in Seq(SleeperType) /\ active \in RunIds /\ pc \in PcType
  BY IdFacts, IdleType DEF BootInit
<1> QED
  BY <1>5, <1>8, <1>9, <1>10, <1>11, <1>12, <1>13, <1>14 DEF BootInit, TypeInv, TypeOK

LEMMA InitBootRun ==
  ASSUME BootInit
  PROVE  SlotInv /\ RunInv
<1>1. /\ pc.at = "idle" /\ live = NoLive /\ live.stage = "none" /\ active = None
      /\ paused.run = None /\ phase = "down" /\ gate = TRUE /\ dirty = {}
  BY DEF BootInit, Idle, NoLive, NoPaused
<1>2. SlotInv
  BY DEF BootInit, SlotInv, SlotExclusive, SlotFree, At, Idle, NoPaused
<1>3. PICK runs \in [Runs -> LeftRuns] : /\ meta = [r \in Runs |-> runs[r][1]]
                                         /\ ckpt = [r \in Runs |-> runs[r][2]]
  BY DEF BootInit
<1>4. \A p \in LeftRuns : /\ p[1].status = "nodir" => p[2] = NoCkpt
                          /\ p[2] \in LeftCkpts
  BY DEF LeftRuns
<1>5. \A c \in LeftCkpts : ~c.wrote
  <2>1. NoCkpt \in CkptType /\ ~NoCkpt.wrote
    BY NoCkptType DEF NoCkpt
  <2>2. PlainCkpt \in CkptType /\ ~PlainCkpt.wrote
    BY <2>1 DEF PlainCkpt, CkptType
  <2> QED
    BY <2>1, <2>2 DEF LeftCkpts, CkptType
<1>6. \A r \in Runs : /\ meta[r].status = "nodir" => ckpt[r] = NoCkpt
                      /\ ~ckpt[r].wrote
  BY <1>3, <1>4, <1>5
<1>7. NoCkpt.call = None /\ ~NoCkpt.has /\ ~NoCkpt.wrote
  BY DEF NoCkpt
<1>8. WritesKnown
  BY <1>1, <1>6, <1>7 DEF WritesKnown, At
<1>9. OneRunning /\ PausedKept
  BY <1>1 DEF OneRunning, PausedKept, At, Settling
<1>10. GateWatched
  BY <1>1 DEF GateWatched, Settling
<1> QED
  BY <1>2, <1>8, <1>9, <1>10 DEF RunInv

LEMMA BootInvariant ==
  ASSUME MaxItems # 0
  PROVE  BootSpec => [](TypeInv /\ SlotInv /\ RunInv)
<1>1. BootInit => TypeInv /\ SlotInv /\ RunInv
  BY InitBootType, InitBootRun
<1>2. TypeInv /\ SlotInv /\ RunInv /\ [Next]_vars
        => (TypeInv /\ SlotInv /\ RunInv)'
  BY NextType, NextSlot, NextKeepsRun
<1> QED
  BY <1>1, <1>2, PTL DEF BootSpec

\* Whatever directories an earlier build has left behind, several unfinished and
\* several paused runs included, the pause the boot adopts can be resumed: its meta
\* and its checkpoint agree, and the checkpoint is there, until one is lost.
THEOREM AdoptedCanResume ==
  ASSUME MaxItems # 0
  PROVE  BootSpec => []AdoptedIsResumable
<1>1. TypeInv /\ RunInv => AdoptedIsResumable
  <2> SUFFICES ASSUME TypeInv, RunInv, count.losses \in {0, Barred}
               PROVE  PausedIsResumable
    BY DEF AdoptedIsResumable
  <2>1. NoneLost
    BY BoundsAssumption DEF NoneLost, Barred
  <2> QED
    BY <2>1, KeptCanResume
<1> QED
  BY <1>1, BootInvariant, PTL

\* What one step of the reconciliation gives up, and for what.
LEMMA ScanOutranks ==
  ASSUME TypeInv, [Next]_vars, NEW r \in Runs, At("scan"), Usable(r)
  PROVE  /\ GivenUp(r, "suspended") =>
              \E q \in Runs : q > r /\ meta'[q].status = "suspended"
         /\ GivenUp(r, "running") =>
              \E q \in Runs : meta'[q].status = "suspended"
                                \/ (q > r /\ meta'[q].status = "running")
<1> USE DEF GivenUp
<1>1. CASE meta' = meta
  BY <1>1
<1>2. meta \in [Runs -> MetaType]
  BY DEF TypeInv, TypeOK
<1>3. ASSUME NEW p \in Runs, ReconcileRun(p)
      PROVE  ~GivenUp(r, "suspended") /\ ~GivenUp(r, "running")
  <2>1. \A q \in Runs : meta'[q] = IF q = p THEN ReconciledMeta(p) ELSE meta[q]
    BY <1>2, <1>3 DEF ReconcileRun
  <2>2. Materialized(r).status # "interrupted" \/ meta[r].status = "interrupted"
    BY <1>2 DEF Materialized, MetaType
  <2> QED
    BY <2>1, <2>2 DEF ReconciledMeta, Usable
<1>4. ASSUME NEW p \in Runs, Supersede(p), meta'[r].status = "interrupted",
             meta[r].status # "interrupted"
      PROVE  p = r /\ \A q \in Runs \ {r} : meta'[q] = meta[q]
  BY <1>2, <1>4 DEF Supersede
<1>5. ASSUME NEW S \in SUBSET Runs, SecondNewest(r, S)
      PROVE  r \in S /\ \E w \in S : w > r
  BY <1>5 DEF SecondNewest, Newest, Runs
<1>6. ASSUME NEW p \in Runs, Supersede(p), GivenUp(r, "suspended")
      PROVE  \E q \in Runs : q > r /\ meta'[q].status = "suspended"
  <2>1. p = r /\ \A q \in Runs \ {r} : meta'[q] = meta[q]
    BY <1>4, <1>6
  <2>2. r \notin ResumableRuns
    BY <1>6 DEF ResumableRuns
  <2>3. SecondNewest(r, PausedRuns)
    BY <1>5, <1>6, <2>1, <2>2 DEF Supersede, Newest, ResumableRuns
  <2>4. PICK w \in PausedRuns : w > r
    BY <1>5, <2>3 DEF PausedRuns
  <2> QED
    BY <2>1, <2>4 DEF PausedRuns, Runs
<1>7. ASSUME NEW p \in Runs, Supersede(p), GivenUp(r, "running")
      PROVE  \E q \in Runs : meta'[q].status = "suspended"
                               \/ (q > r /\ meta'[q].status = "running")
  <2>1. p = r /\ \A q \in Runs \ {r} : meta'[q] = meta[q]
    BY <1>4, <1>7
  <2>2. r \notin PausedRuns
    BY <1>7 DEF PausedRuns
  <2>3. PausedRuns # {} \/ SecondNewest(r, ResumableRuns)
    BY <1>5, <1>7, <2>1, <2>2 DEF Supersede, PausedRuns
  <2>4. CASE PausedRuns # {}
    BY <2>1, <2>2, <2>4 DEF PausedRuns
  <2>5. CASE SecondNewest(r, ResumableRuns)
    <3>1. PICK w \in ResumableRuns : w > r
      BY <1>5, <2>5 DEF ResumableRuns
    <3> QED
      BY <2>1, <3>1 DEF ResumableRuns, Runs
  <2> QED
    BY <2>3, <2>4, <2>5
<1> QED
  BY <1>1, <1>3, <1>6, <1>7, QueueIsOrdinary, RunIsOrdinary, BootIsOrdinary
     DEF Next, Ordinary, vars, runVars

\* The newest wins: a run that could have gone on is given up at boot only for one
\* that outranks it, a pause for a newer pause, a resumable run for a pause or for a
\* newer resumable run, for any number of left-over directories.
THEOREM NewestIsKept ==
  ASSUME MaxItems # 0
  PROVE  BootSpec => NewestWins
<1>1. TypeInv /\ [Next]_vars =>
        [\A r \in Runs : At("scan") /\ Usable(r) =>
           /\ GivenUp(r, "suspended") =>
                \E q \in Runs : q > r /\ meta'[q].status = "suspended"
           /\ GivenUp(r, "running") =>
                \E q \in Runs : meta'[q].status = "suspended"
                                  \/ (q > r /\ meta'[q].status = "running")]_vars
  BY ScanOutranks
<1> QED
  BY <1>1, BootInvariant, PTL DEF BootSpec, NewestWins
=============================================================================
