---------------------------- MODULE ProviderHealth ----------------------------
(***************************************************************************)
(* The provider gate and its probe monitor (executor/provider-health.ts)    *)
(* with the binding of provider-recovery.ts, as functions of one record:     *)
(* the health the gate remembers, the suspension it is bound to, and the     *)
(* monitor's timer, pending delay and probe in flight.  Delays are the       *)
(* code's milliseconds; the wall clock is reduced to how far away the        *)
(* earliest resume time of a suspension is; the probe epoch to whether the   *)
(* probe in flight was sent in the current epoch.                            *)
(***************************************************************************)
EXTENDS ProviderFailure, Integers, FiniteSetsExt

CONSTANTS
  MaxAutoResumes,  \* MAX_AUTO_RESUME_ATTEMPTS (5 in the code)
  FailureCap       \* bound: consecutive failures are counted up to here

\* From the fifth failure on, the backoff no longer depends on the count.
ASSUME HealthBounds == MaxAutoResumes \in Nat /\ FailureCap \in Nat /\ FailureCap >= 5

Off == -1             \* no timer, no pending delay, no planned probe
BackoffBase == 5000
BackoffCap == 60000
MinDelay == 1000

\* Milliseconds until the earliest resume time of a suspension, if it has one.
DueIn == [now |-> 0, soon |-> 2000, later |-> 100000]

NoSuspension == [category |-> "none", policy |-> "none", attempts |-> 0, due |-> "none"]

InitialHealth ==
  [state |-> "unknown", category |-> "unknown", failures |-> 0, planned |-> Off,
   bound |-> FALSE, susp |-> NoSuspension, cur |-> NoSuspension,
   started |-> FALSE, timer |-> Off, pending |-> Off, flight |-> "none"]

----
(***************************************************************************)
(* The gate.                                                                *)
(***************************************************************************)

stateForCategory(category) ==
  CASE category = "transient" -> "degraded"
    [] category = "unknown"   -> "unknown"
    [] OTHER                  -> "unavailable"

Counted(n) == Min({n, FailureCap})

withSuccess(h) ==
  [h EXCEPT !.state = "healthy", !.category = "none", !.failures = 0, !.planned = Off]

withFailure(h, category, planned) ==
  [h EXCEPT !.state = stateForCategory(category), !.category = category,
            !.failures = Counted(@ + 1), !.planned = planned]

\* The notice of a failure the role call already reported does not count twice.
withSuspensionNotice(h, susp) ==
  [h EXCEPT !.state = stateForCategory(susp.category), !.category = susp.category,
            !.failures = IF h.state = stateForCategory(susp.category) /\ h.category = susp.category
                         THEN @ ELSE Counted(Max({1, @ + 1})),
            !.bound = TRUE, !.susp = susp]

canDispatch(h) == h.state \in {"healthy", "unknown"}

autoResumeAllowed(h) ==
  /\ h.bound
  /\ h.susp.category = "transient" /\ h.susp.policy = "auto"
  /\ h.state = "healthy"
  /\ h.susp.due \in {"none", "now"}

----
(***************************************************************************)
(* Backoff: jitter is 0 or 1, the ends of the random band.                   *)
(***************************************************************************)

\* The provider's Retry-After as the backoff reads it: absent, zero, long.
RetryAfterMs == [none |-> BackoffCap, short |-> 0, long |-> 10 * BackoffCap]

probeBackoffMs(failures, retryAfter, jitter) ==
  LET exponential == Min({BackoffCap, BackoffBase * 2 ^ Max({0, Min({failures - 1, 20})})})
  IN  Max({MinDelay, (Min({exponential, RetryAfterMs[retryAfter]}) * (1 + jitter)) \div 2})

firstProbeDelayMs(susp, jitter) ==
  LET backoff == probeBackoffMs(1, "none", jitter)
  IN  IF susp.due = "none" THEN backoff ELSE Max({MinDelay, Min({backoff, DueIn[susp.due]})})

classifyProbeFailure(transport, status, billing) ==
  IF ~transport /\ status \in {404, 405} THEN "unknown"
  ELSE classifyProviderFailure(transport, status, billing)

----
(***************************************************************************)
(* The monitor.                                                             *)
(***************************************************************************)

schedule(h, delay) ==
  IF ~h.started \/ h.flight # "none" THEN [h EXCEPT !.pending = delay]
  ELSE [h EXCEPT !.planned = delay, !.timer = delay]

\* probeEpoch++: the answer of a probe in flight will be ignored.
newEpoch_Kept(h) == h
newEpoch(h) == IF h.flight = "none" THEN h ELSE [h EXCEPT !.flight = "stale"]

start(h, jitter) ==
  LET on == [h EXCEPT !.started = TRUE]
  IN  CASE h.started                           -> h
        [] ~h.started /\ ~h.bound              -> on
        [] ~h.started /\ h.bound /\ h.planned # Off -> schedule(on, h.planned)
        [] ~h.started /\ h.bound /\ h.planned = Off /\ h.pending # Off ->
             schedule([on EXCEPT !.pending = Off], h.pending)
        [] OTHER -> IF h.cur = NoSuspension THEN on
                    ELSE schedule(on, firstProbeDelayMs(h.cur, jitter))

noticeSuspension(h, susp, jitter) ==
  schedule(withSuspensionNotice([newEpoch(h) EXCEPT !.cur = susp], susp),
           firstProbeDelayMs(susp, jitter))

\* bind of provider-recovery.ts: a new suspension inherits no planned probe.
bind(h, susp, jitter) ==
  start(noticeSuspension([h EXCEPT !.planned = Off], susp, jitter), jitter)

\* The monitor's releaseSuspension.
release(h, keepProbing, jitter) ==
  LET off == [newEpoch(h) EXCEPT !.cur = NoSuspension, !.pending = Off, !.timer = Off]
  IN  IF keepProbing
      THEN schedule([off EXCEPT !.started = TRUE], probeBackoffMs(Max({1, h.failures}), "none", jitter))
      ELSE [off EXCEPT !.started = FALSE]

releaseSuspension_Stops(h, jitter) ==
  IF ~h.bound THEN h
  ELSE release([h EXCEPT !.bound = FALSE, !.susp = NoSuspension, !.planned = Off], FALSE, jitter)
\* releaseSuspension of provider-recovery.ts.
releaseSuspension(h, jitter) ==
  IF ~h.bound THEN h
  ELSE release([h EXCEPT !.bound = FALSE, !.susp = NoSuspension, !.planned = Off],
               ~canDispatch(h), jitter)

ensureProbing(h, jitter) ==
  IF h.bound \/ canDispatch(h) \/ h.started THEN h
  ELSE schedule([h EXCEPT !.started = TRUE], probeBackoffMs(Max({1, h.failures}), "none", jitter))

\* The timer's callback: runProbe sends its request.
fireTimer(h) ==
  LET off == [h EXCEPT !.timer = Off]
  IN  IF ~h.started \/ h.flight # "none" THEN off ELSE [off EXCEPT !.flight = "current"]

\* The finally of runProbe.
settleProbe(h) ==
  LET free == [h EXCEPT !.flight = "none"]
  IN  IF h.started /\ h.pending # Off THEN schedule([free EXCEPT !.pending = Off], h.pending)
      ELSE free

\* handleProbeSuccess after onHealthy: a probe before the due time plans another.
afterHealthy(h) ==
  IF /\ h.started /\ h.cur.policy = "auto" /\ h.cur.due \notin {"none", "now"}
     /\ ~autoResumeAllowed(h)
  THEN schedule(h, DueIn[h.cur.due])
  ELSE h

\* handleProbeFailure for a conclusive failure.
probeFailed(h, category, retryAfter, jitter) ==
  LET delay == probeBackoffMs(h.failures + 1, retryAfter, jitter)
  IN  schedule(withFailure(h, category, delay), delay)

----
(***************************************************************************)
(* The durable record of a suspension (executor/suspension.ts).              *)
(***************************************************************************)

resumePolicyFor(category) == IF category = "transient" THEN "auto" ELSE "operator"

\* prior is the number of attempts of the suspension the run was resumed from.
suspensionFromFailure_OneMore(category, due, prior) ==
  IF resumePolicyFor(category) = "auto" /\ prior <= MaxAutoResumes
  THEN [category |-> category, policy |-> "auto", attempts |-> prior + 1, due |-> due]
  ELSE [category |-> category, policy |-> "operator", attempts |-> prior, due |-> "none"]
suspensionFromFailure(category, due, prior) ==
  CASE resumePolicyFor(category) = "operator" ->
         [category |-> category, policy |-> "operator", attempts |-> prior, due |-> "none"]
    [] resumePolicyFor(category) = "auto" /\ prior >= MaxAutoResumes ->
         [category |-> category, policy |-> "operator", attempts |-> MaxAutoResumes + 1, due |-> "none"]
    [] OTHER ->
         [category |-> category, policy |-> "auto", attempts |-> prior + 1, due |-> due]
=============================================================================
