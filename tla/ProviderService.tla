---------------------------- MODULE ProviderService ----------------------------
(***************************************************************************)
(* The provider's health, the run in the slot and the waiting work together: *)
(* role calls that fail and suspend the run, probes, automatic and explicit  *)
(* resumes, operator pauses, terminations, and a process that dies.          *)
(***************************************************************************)
EXTENDS ProviderHealth

CONSTANTS
  MaxWork,      \* bound: waiting items
  MaxFailures,  \* bound: role calls that fail
  MaxFlips,     \* bound: changes of the provider
  MaxPauses,    \* bound: operator pauses
  MaxRefusals,  \* bound: resumes refused because the pause marker cannot be deleted
  MaxCrashes,   \* bound: process deaths
  MaxUpsets,    \* bound: all of these together
  Jitter,       \* the ends of the random band that are tried, within {0, 1}
  ProbeStatuses \* HTTP statuses of failed probes; 0 is a transport failure

\* probeBackoffMs clamps its random number to [0, 1], and the delay grows with it.
ASSUME JitterAssumption == Jitter \subseteq {0, 1}

VARIABLES
  h,       \* gate, binding and monitor
  run,     \* the run of the slot: phase, attempts of the suspension it resumed from, record to settle
  work,    \* waiting items
  world,   \* what a probe meets: "up", "down", "blind" (no /models endpoint)
  bounds,  \* what is left of the bounds
  left,    \* ghost: automatic resumes the run has been granted and has not had (ResumeBudget)
  asked    \* ghost: a probe was sent since the bound suspension was noticed

pvars == <<h, run, work, world, bounds, left, asked>>

NoRun == [phase |-> "none", prior |-> 0, record |-> NoSuspension, byProbe |-> FALSE]
FreshRun == [NoRun EXCEPT !.phase = "running"]
Active == run.phase \in {"resuming", "running", "suspending"}

ProviderInit ==
  /\ h = InitialHealth /\ run = NoRun /\ work = 0 /\ world = "up"
  /\ bounds = [failures |-> MaxFailures, flips |-> MaxFlips, pauses |-> MaxPauses,
               refusals |-> MaxRefusals, crashes |-> MaxCrashes, all |-> MaxUpsets]
  /\ left = MaxAutoResumes /\ asked = FALSE

Spend(which) == /\ bounds[which] > 0 /\ bounds.all > 0
                /\ bounds' = [bounds EXCEPT ![which] = @ - 1, !.all = @ - 1]

\* The scheduler's tick over a given health, run and queue.
tick(hh, r, w, jitter) ==
  CASE r.phase # "none" \/ w = 0     -> [h |-> hh, run |-> r, work |-> w]
    [] r.phase = "none" /\ w > 0 /\ ~canDispatch(hh) ->
         [h |-> ensureProbing(hh, jitter), run |-> r, work |-> w]
    [] OTHER                         -> [h |-> hh, run |-> FreshRun, work |-> w - 1]

Become(s) == h' = s.h /\ run' = s.run /\ work' = s.work

\* A run that leaves the slot for good takes its count with it.
Forgotten == left' = MaxAutoResumes
\* A run that goes on without the attempts of its suspensions has a whole budget more.
GrantedAgain == left' = left + MaxAutoResumes

\* A settlement and a resume run in one turn of the event loop: nothing else is
\* handled between their writes, only the process may die there.
Idle == run.phase \notin {"suspending", "resuming"}

Enqueue(jitter) ==
  /\ Idle /\ work < MaxWork
  /\ Become(tick(h, run, work + 1, jitter))
  /\ UNCHANGED <<world, bounds, left, asked>>

\* The running meta of a resumed run has landed; its checkpoint no longer carries
\* the record, only the executor's memory does.
RunningMetaLands ==
  /\ run.phase = "resuming"
  /\ run' = [run EXCEPT !.phase = "running", !.record = NoSuspension, !.byProbe = FALSE]
  /\ left' = IF run.byProbe THEN left - 1 ELSE left
  /\ UNCHANGED <<h, work, world, bounds, asked>>

\* A role call succeeds.
RoleSucceeds ==
  /\ run.phase = "running"
  /\ h' = withSuccess(h)
  /\ UNCHANGED <<run, work, world, bounds, left, asked>>

\* A role call fails: the gate hears of it, the record is built and checkpointed.
RoleFails(category, due) ==
  /\ run.phase = "running" /\ Spend("failures")
  /\ h' = withFailure(h, category, Off)
  /\ run' = [run EXCEPT !.phase = "suspending",
                        !.record = suspensionFromFailure(category, due, run.prior)]
  /\ UNCHANGED <<work, world, left, asked>>

\* The suspended meta settles: the notice binds the run before the slot clears.
SettleSuspended(jitter) ==
  /\ run.phase = "suspending"
  /\ h' = bind(h, run.record, jitter)
  /\ run' = [run EXCEPT !.phase = "suspended"]
  /\ asked' = FALSE
  /\ UNCHANGED <<work, world, bounds, left>>

RunEnds(jitter) ==
  /\ run.phase = "running"
  /\ Become(tick(h, NoRun, work, jitter))
  /\ Forgotten
  /\ UNCHANGED <<world, bounds, asked>>

\* The operator pauses the run at a safe point: no provider record is written.
OperatorPause ==
  /\ run.phase = "running" /\ Spend("pauses")
  /\ run' = [FreshRun EXCEPT !.phase = "paused"]
  /\ UNCHANGED <<h, work, world, left, asked>>

\* Resuming an operator pause passes no prior suspension: the attempts are forgotten.
ResumePaused ==
  /\ run.phase = "paused"
  /\ run' = FreshRun
  /\ GrantedAgain
  /\ UNCHANGED <<h, work, world, bounds, asked>>

\* resume of run-submission.ts: the attempts of the suspension are carried along;
\* its record stays in the meta until the running meta replaces it.
Resumed(hh, byProbe) ==
  [phase |-> "resuming", prior |-> hh.susp.attempts, record |-> hh.susp, byProbe |-> byProbe]

ExplicitResume(jitter) ==
  /\ run.phase = "suspended"
  /\ h' = releaseSuspension(h, jitter)
  /\ run' = Resumed(h, FALSE)
  /\ UNCHANGED <<work, world, bounds, left, asked>>

Terminate(jitter) ==
  /\ run.phase \in {"suspended", "paused"}
  /\ Become(tick(releaseSuspension(h, jitter), NoRun, work, jitter))
  /\ Forgotten
  /\ UNCHANGED <<world, bounds, asked>>

----
(***************************************************************************)
(* Probes.                                                                  *)
(***************************************************************************)

Arrived(due, delay) == IF due \in DOMAIN DueIn /\ DueIn[due] <= delay THEN "now" ELSE due

\* Due times come nearer while nothing else happens.
TimePasses ==
  /\ h.susp.due \in {"soon", "later"}
  /\ h' = [h EXCEPT !.susp.due = IF @ = "later" THEN "soon" ELSE "now",
                    !.cur.due = IF @ = "later" THEN "soon" ELSE IF @ = "soon" THEN "now" ELSE @]
  /\ UNCHANGED <<run, work, world, bounds, left, asked>>

TimerFires ==
  /\ Idle /\ h.timer # Off
  /\ h' = [fireTimer(h) EXCEPT !.susp.due = Arrived(@, h.timer), !.cur.due = Arrived(@, h.timer)]
  /\ asked' = (asked \/ h'.flight = "current")
  /\ UNCHANGED <<run, work, world, bounds, left>>

\* A probe whose epoch is over, or a stopped monitor: only the finally runs.
StaleProbeAnswers ==
  /\ Idle /\ h.flight # "none" /\ (h.flight = "stale" \/ ~h.started)
  /\ h' = settleProbe(h)
  /\ UNCHANGED <<run, work, world, bounds, left, asked>>

Answers == Idle /\ h.flight = "current" /\ h.started

handleHealthy_NoDispatch(hh, jitter) ==
  IF autoResumeAllowed(hh) THEN tick(releaseSuspension(hh, jitter), Resumed(hh, TRUE), work, jitter)
  ELSE [h |-> hh, run |-> run, work |-> work]
\* handleHealthy: the automatic resume if it is allowed, then a tick.
handleHealthy(hh, jitter) ==
  IF autoResumeAllowed(hh) THEN tick(releaseSuspension(hh, jitter), Resumed(hh, TRUE), work, jitter)
  ELSE tick(hh, run, work, jitter)

ProbeSucceeds(jitter) ==
  LET out == handleHealthy(withSuccess(h), jitter)
  IN
  /\ Answers /\ world = "up"
  /\ Become([out EXCEPT !.h = settleProbe(afterHealthy(@))])
  /\ UNCHANGED <<world, bounds, left, asked>>

\* The same, but the pause marker cannot be deleted: the resume is refused.
AutoResumeRefused(jitter) ==
  LET hh == withSuccess(h)
      out == tick(hh, run, work, jitter)
  IN
  /\ Answers /\ world = "up" /\ autoResumeAllowed(hh) /\ Spend("refusals")
  /\ Become([out EXCEPT !.h = settleProbe(afterHealthy(@))])
  /\ UNCHANGED <<world, left, asked>>

ProbeFails(status, billing, retryAfter, jitter) ==
  LET category == classifyProbeFailure(status = 0, status, billing)
  IN
  /\ Answers /\ world = "down" /\ category # "unknown"
  /\ h' = settleProbe(probeFailed(h, category, retryAfter, jitter))
  /\ UNCHANGED <<run, work, world, bounds, left, asked>>

\* No /models endpoint: the gate opens, nothing is scheduled.
ProbeInconclusive(jitter) ==
  LET out == handleHealthy(withFailure(h, classifyProbeFailure(FALSE, 404, FALSE), Off), jitter)
  IN
  /\ Answers /\ world = "blind"
  /\ Become([out EXCEPT !.h = settleProbe(@)])
  /\ UNCHANGED <<world, bounds, left, asked>>

ProviderChanges(to) ==
  /\ to # world /\ Spend("flips")
  /\ world' = to
  /\ UNCHANGED <<h, run, work, left, asked>>

\* The process dies and boots: a suspension on disk is hydrated and bound again,
\* a running run resumes with no prior suspension, a pause stays.
CrashAndBoot(jitter) ==
  LET back == CASE run.phase = "running"                 -> FreshRun
                [] run.phase \in {"suspending", "resuming"} ->
                     [run EXCEPT !.phase = "suspended", !.byProbe = FALSE]
                [] run.phase = "suspended"               -> [run EXCEPT !.record = h.susp]
                [] OTHER                                 -> run
      boot == IF back.phase = "suspended" THEN bind(InitialHealth, back.record, jitter) ELSE InitialHealth
  IN
  /\ Spend("crashes")
  /\ Become(tick(boot, back, work, jitter))
  /\ IF run.phase = "running" THEN GrantedAgain ELSE UNCHANGED left
  /\ asked' = FALSE
  /\ UNCHANGED world

Step ==
  \/ \E jitter \in Jitter :
       \/ Enqueue(jitter) \/ SettleSuspended(jitter) \/ RunEnds(jitter)
       \/ ExplicitResume(jitter) \/ Terminate(jitter)
       \/ ProbeSucceeds(jitter) \/ AutoResumeRefused(jitter) \/ ProbeInconclusive(jitter)
       \/ CrashAndBoot(jitter)
       \/ \E status \in ProbeStatuses, billing \in BOOLEAN, retryAfter \in RetryAfter :
            ProbeFails(status, billing, retryAfter, jitter)
  \/ RunningMetaLands \/ RoleSucceeds \/ OperatorPause \/ ResumePaused
  \/ \E category \in {"transient", "billing", "auth", "request_rejected"},
        due \in {"none", "now", "soon", "later"} : RoleFails(category, due)
  \/ TimePasses \/ TimerFires \/ StaleProbeAnswers
  \/ \E to \in {"up", "down", "blind"} : ProviderChanges(to)

\* The event loop runs due timers and delivers answers; a clock advances.  The
\* model's calls, the operator and the provider are under no obligation.  The steps of
\* the loop exclude one another, so one fairness condition covers them all; where a
\* step has parameters its instances share their guard and disable one another, so
\* one instance stands for all of them.
LoopProgress == \/ SettleSuspended(1) \/ RunningMetaLands \/ TimerFires \/ StaleProbeAnswers
                \/ ProbeSucceeds(1) \/ ProbeInconclusive(1) \/ ProbeFails(0, FALSE, "none", 1)
ProviderFairness == WF_pvars(TimePasses) /\ WF_pvars(LoopProgress)

ProviderSpec == ProviderInit /\ [][Step]_pvars /\ ProviderFairness

----
\* A probe that will open the gate again is under way whenever the gate is closed,
\* whoever closed it and however its suspension ended (provider-health.ts:382: an
\* ensureProbing that does nothing while the monitor is marked started must never
\* be needed).
Probing == h.started /\ (h.timer # Off \/ h.flight = "current" \/ (h.flight = "stale" /\ h.pending # Off))
ClosedGateIsProbed == Idle /\ ~canDispatch(h) => Probing

\* A run is resumed by itself only on the answer of a probe that was sent after the
\* suspension it ends was noticed, never on an older probe's (the epoch guard at
\* provider-health.ts:329).
ResumeNeedsFreshProbe ==
  [][run.phase = "suspended" /\ run'.phase = "resuming" /\ run'.byProbe => asked]_pvars

\* The automatic resumes of one run from its start to its end stay within what it was
\* granted: MaxAutoResumes, and as many again each time it goes on without its prior
\* suspension, which is after an operator pause (run-submission.ts:280) or a process that
\* died while it ran.  Nothing else starts the count anew: no manual resume of a
\* suspension, no downgrade to an operator decision, no restart while suspended, no
\* refused resume (suspension.ts:66).
ResumeBudget == left >= 0

\* A probe timer waits at least the floor and at most the cap of the backoff,
\* whatever Retry-After says, or until the suspension may be resumed; and a probe
\* announced to the operator is really on its way (provider-health.ts:196).
ProbeTimerSane ==
  /\ h.timer # Off => h.timer \in MinDelay..BackoffCap \/ h.timer = DueIn["later"]
  /\ h.planned # Off => h.timer # Off \/ h.flight # "none"

\* A transient suspension is resumed once the provider stays up, unless the probe
\* endpoint turned out to be missing or a resume was refused because the pause
\* marker could not be deleted (provider-recovery.ts:165).
AutoResumes ==
  h.bound /\ h.susp.policy = "auto"
    ~> ~h.bound \/ world # "up" \/ h.state = "unknown" \/ bounds.refusals < MaxRefusals

\* Waiting work beside a free slot starts once the provider stays up.
WaitingWorkWakes == work > 0 /\ run.phase = "none" ~> run.phase # "none" \/ world # "up"
=============================================================================
