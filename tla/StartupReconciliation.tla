------------------------ MODULE StartupReconciliation ------------------------
(***************************************************************************)
(* The end of a process and the boot of the next one: crashes at any       *)
(* point, the shutdown drain (serve.ts), and the reconciliation of the     *)
(* runs the dead process left behind (executor/startup-reconciliation.ts). *)
(***************************************************************************)
EXTENDS RunExecutor

\* Everything in memory is gone; what was durably written stays.
ProcessEnds ==
  /\ phase' = "down" /\ pc' = Idle
  /\ active' = None /\ live' = NoLive /\ paused' = NoPaused
  /\ probing' = FALSE /\ pauseSignal' = FALSE /\ sleepers' = << >>
  /\ gate' = TRUE /\ shutdown' = FALSE /\ scan' = {}

\* The process dies between any two durable writes.
Crash ==
  /\ phase # "down" /\ count.crashes < MaxCrashes
  /\ ProcessEnds /\ Used("crashes")
  /\ UNCHANGED <<fileVars, runVars, secondTaken>>

\* A shutdown signal while a run is active starts the drain.
ObserveShutdown ==
  /\ Serving /\ active # None /\ ~shutdown /\ count.crashes < MaxCrashes
  /\ shutdown' = TRUE /\ Used("crashes")
  /\ UNCHANGED <<fileVars, runVars, slotVars, phase, gate, scan, timeVars, pc>>

\* The run has settled, or SHUTDOWN_DRAIN_MS has passed.
Exit ==
  /\ pc = Idle /\ shutdown
  /\ ProcessEnds
  /\ UNCHANGED <<fileVars, runVars, secondTaken, count>>

\* A checkpoint nobody has open becomes unreadable.
LoseCheckpoint(r) ==
  /\ pc = Idle /\ r # active /\ ckpt[r].has /\ count.losses < MaxLosses
  /\ ckpt' = [ckpt EXCEPT ![r] = NoCkpt]
  /\ Used("losses")
  /\ UNCHANGED <<fileVars, meta, pauseReq, heard, dirty, slotVars, loopVars,
                 timeVars, pc>>

-----------------------------------------------------------------------------
(* reconcileRunsOnStartup: one run directory, one meta write per step.     *)

Boot ==
  /\ phase = "down"
  /\ phase' = "boot"
  /\ scan' = {r \in Runs : meta[r].status # "nodir"}
  /\ Enter("scan", None, None, "none")
  /\ UNCHANGED <<fileVars, runVars, slotVars, gate, shutdown, timeVars, count>>

\* A run that ended without a terminal meta is parked, suspended or paused when
\* its checkpoint or its pause marker says so; otherwise it is left to resume.
Materialized(r) ==
  CASE ckpt[r].call # None ->
         [meta[r] EXCEPT !.status = "needs_clarification",
                         !.question = ckpt[r].question]
    [] ckpt[r].call = None /\ ckpt[r].suspension ->
         [meta[r] EXCEPT !.status = "suspended", !.kind = "provider"]
    [] ckpt[r].call = None /\ ~ckpt[r].suspension
         /\ (ckpt[r].pause \/ r \in pauseReq) ->
         [meta[r] EXCEPT !.status = "suspended", !.kind = "operator"]
    [] OTHER -> meta[r]

\* Mutant of ReconciledMeta: a suspended meta is trusted without its checkpoint.
ReconciledMeta_TrustsSuspended(r) ==
  CASE meta[r].status \notin {"nometa", "running"} -> meta[r]
    [] meta[r].status \in {"nometa", "running"} ->
         IF ckpt[r].has THEN Materialized(r) ELSE InterruptedMeta(r, FALSE)

ReconciledMeta(r) ==
  CASE meta[r].status \notin {"nometa", "running", "suspended"} -> meta[r]
    [] meta[r].status = "suspended" ->
         IF Usable(r) THEN meta[r] ELSE InterruptedMeta(r, FALSE)
    [] meta[r].status \in {"nometa", "running"} ->
         IF ckpt[r].has THEN Materialized(r) ELSE InterruptedMeta(r, FALSE)

\* The stale marker goes with every run the scan passes.
ReconcileRun(r) ==
  /\ At("scan") /\ r \in scan /\ \A q \in scan : r <= q
  /\ meta' = [meta EXCEPT ![r] = ReconciledMeta(r)]
  /\ pauseReq' = pauseReq \ {r}
  /\ scan' = scan \ {r}
  /\ UNCHANGED <<fileVars, ckpt, heard, dirty, slotVars, phase, gate, shutdown,
                 timeVars, pc, count>>

\* What the scan collected: the runs that are paused, and the ones to resume.
PausedRuns == {r \in Runs : meta[r].status = "suspended"}
ResumableRuns == {r \in Runs : meta[r].status = "running"}
Scanned == At("scan") /\ scan = {}
Newest(r, S) == r \in S /\ \A q \in S : q <= r

\* Mutant of SecondNewest: the comparison is the wrong way round.
SecondNewest_Newest(r, S) == Cardinality(S) > 1 /\ Newest(r, S)

SecondNewest(r, S) == \E w \in S : Newest(w, S) /\ Newest(r, S \ {w})

\* Start times order the runs as their ids do.  Of the paused runs the newest
\* keeps the slot; a resumable run yields to a paused one and to a newer one.
Supersede(r) ==
  /\ Scanned
  /\ \/ /\ SecondNewest(r, PausedRuns)
        /\ meta' = [meta EXCEPT ![r] = InterruptedMeta(r, TRUE)]
     \/ /\ Cardinality(PausedRuns) <= 1
        /\ IF PausedRuns # {} THEN Newest(r, ResumableRuns)
                              ELSE SecondNewest(r, ResumableRuns)
        /\ meta' = [meta EXCEPT ![r] = InterruptedMeta(r, FALSE)]
  /\ UNCHANGED <<fileVars, ckpt, pauseReq, heard, dirty, slotVars, loopVars,
                 timeVars, pc, count>>

\* adoptSuspendedRun and adoptOperatorPausedRun.  Hydrating a provider suspension
\* closes the gate when it was a conclusive one.
AdoptPaused ==
  /\ Scanned /\ ResumableRuns = {}
  /\ \E r \in Runs :
       /\ PausedRuns = {r}
       /\ paused' = [run |-> r, kind |-> meta[r].kind]
       /\ IF meta[r].kind = "provider" THEN probing' = TRUE /\ gate' \in BOOLEAN
                                     ELSE UNCHANGED <<probing, gate>>
  /\ Enter("tick", None, None, "boot")
  /\ UNCHANGED <<fileVars, runVars, active, live, pauseSignal, phase, shutdown,
                 scan, timeVars, count>>

\* The winner re-enters the slot under its own id.
ResumeWinner ==
  /\ Scanned /\ PausedRuns = {}
  /\ \E r \in Runs :
       /\ ResumableRuns = {r}
       /\ Occupy(r, FALSE, ckpt[r].wrote, None, ckpt[r].delivered)
  /\ Enter("tick", None, None, "boot")
  /\ UNCHANGED <<fileVars, runVars, pauseVars, loopVars, timeVars, count>>

NothingToResume ==
  /\ Scanned /\ PausedRuns = {} /\ ResumableRuns = {}
  /\ Enter("tick", None, None, "boot")
  /\ UNCHANGED <<fileVars, runVars, slotVars, loopVars, timeVars, count>>

BootStep ==
  \/ Boot \/ AdoptPaused \/ ResumeWinner \/ NothingToResume
  \/ \E r \in Runs : ReconcileRun(r) \/ Supersede(r)

Disturbance ==
  Crash \/ ObserveShutdown \/ Exit \/ \E r \in Runs : LoseCheckpoint(r)
=============================================================================
