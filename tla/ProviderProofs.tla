---------------------------- MODULE ProviderProofs ----------------------------
(***************************************************************************)
(* What holds of the provider gate, its probe monitor and the resumes, and *)
(* of the retries of one model call, for every number of failures, crashes, *)
(* attempts and stream lines.  The provider's part is one inductive        *)
(* invariant, ServiceInv, over the record the monitor's functions rewrite: *)
(* one lemma for each function, one for each step of the service.          *)
(***************************************************************************)
EXTENDS MCProvider, TLAPS

Categories == {"none", "transient", "billing", "auth", "request_rejected", "unknown"}
Dues == {"none", "now", "soon", "later"}
SuspType == [category: Categories, policy: {"none", "auto", "operator"},
             attempts: Int, due: Dues]
HealthType ==
  [state: {"healthy", "unknown", "degraded", "unavailable"}, category: Categories,
   failures: Int, planned: Int, bound: BOOLEAN, susp: SuspType, cur: SuspType,
   started: BOOLEAN, timer: Int, pending: Int, flight: {"none", "current", "stale"}]

\* A delay the monitor may wait.
Sane(d) == d \in MinDelay..BackoffCap \/ d = DueIn["later"]

\* What relates the parts of the monitor: a timer runs only between probes, and the
\* plan the operator reads is that of a running timer or of the probe it sent.
MonitorInv(g) ==
  /\ g \in HealthType
  /\ g.timer # Off => Sane(g.timer) /\ g.flight = "none" /\ g.started
  /\ g.pending # Off => Sane(g.pending)
  /\ g.planned # Off => g.timer # Off \/ g.flight = "current"
  /\ g.flight = "current" => g.started

\* The body of Probing: a probe that will open the gate again is under way or timed.
Watched(g) ==
  /\ g.started
  /\ g.timer # Off \/ g.flight = "current" \/ (g.flight = "stale" /\ g.pending # Off)

\* What the monitor's own functions leave to the gate and to the binding.
SameGate(g, k) == k.state = g.state /\ k.bound = g.bound /\ k.susp = g.susp

-----------------------------------------------------------------------------
(* Delays.                                                                 *)

Lower(a, b) == Min({a, b})
Upper(a, b) == Max({a, b})

LEMMA LowerFacts ==
  \A a, b \in Int : Lower(a, b) \in Int /\ Lower(a, b) <= a /\ Lower(a, b) <= b
<1> SUFFICES ASSUME NEW a \in Int, NEW b \in Int
             PROVE  Min({a, b}) \in Int /\ Min({a, b}) <= a /\ Min({a, b}) <= b
  BY DEF Lower
<1>1. \E x \in {a, b} : \A y \in {a, b} : x <= y
  BY a <= b \/ b <= a
<1> QED
  BY <1>1 DEF Min

LEMMA UpperFacts ==
  \A a, b \in Int : /\ Upper(a, b) \in {a, b} /\ Upper(a, b) >= a /\ Upper(a, b) >= b
<1> SUFFICES ASSUME NEW a \in Int, NEW b \in Int
             PROVE  Max({a, b}) \in {a, b} /\ Max({a, b}) >= a /\ Max({a, b}) >= b
  BY DEF Upper
<1>1. \E x \in {a, b} : \A y \in {a, b} : x >= y
  BY a <= b \/ b <= a
<1> QED
  BY <1>1 DEF Max

LEMMA CountedType == \A n \in Int : Counted(n) \in Int
<1>1. \A n : Counted(n) = Lower(n, FailureCap)
  BY Zenon DEF Counted, Lower
<1>2. FailureCap \in Int
  BY HealthBounds
<1> QED
  BY <1>1, <1>2, LowerFacts

LEMMA AtLeastOneType == \A n \in Int : Max({1, n}) \in Int
<1>1. \A n : Max({1, n}) = Upper(1, n)
  BY Zenon DEF Upper
<1>2. \A n \in Int : Upper(1, n) \in Int
  BY UpperFacts, 1 \in Int
<1> QED
  BY <1>1, <1>2, Zenon

LEMMA DelayFacts ==
  /\ MinDelay \in Int /\ BackoffCap \in Int /\ BackoffBase \in Int /\ Off \in Int
  /\ 0 < MinDelay /\ MinDelay <= BackoffCap /\ Off < 0
  /\ \A r \in RetryAfter : RetryAfterMs[r] \in Int
  /\ \A d \in DOMAIN DueIn : DueIn[d] \in Int
  /\ DOMAIN DueIn = {"now", "soon", "later"}
  /\ DueIn["soon"] \in MinDelay..BackoffCap /\ DueIn["later"] > 0
  BY SMT DEF MinDelay, BackoffCap, BackoffBase, Off, RetryAfterMs, RetryAfter, DueIn

\* Every backoff lies between the floor and the cap, whatever Retry-After says.
LEMMA BackoffSane ==
  ASSUME NEW n \in Int, NEW retryAfter \in RetryAfter, NEW jitter \in {0, 1}
  PROVE  probeBackoffMs(n, retryAfter, jitter) \in MinDelay..BackoffCap
<1> DEFINE k == Upper(0, Lower(n - 1, 20))
           grown == BackoffBase * 2 ^ k
           exponential == Lower(BackoffCap, grown)
           bounded == Lower(exponential, RetryAfterMs[retryAfter])
           half == (bounded * (1 + jitter)) \div 2
<1>1. probeBackoffMs(n, retryAfter, jitter) = Upper(MinDelay, half)
  BY Zenon DEF probeBackoffMs, Upper, Lower
<1>2. k \in Int
  BY LowerFacts, UpperFacts, n - 1 \in Int
<1> HIDE DEF k
<1>3. grown \in Int
  <2>1. 2 ^ k \in Int
    BY <1>2, SMT
  <2> QED
    BY <2>1, DelayFacts
<1> HIDE DEF grown
<1>4. exponential \in Int
  BY <1>3, LowerFacts, DelayFacts
<1>5. exponential <= BackoffCap
  BY <1>3, LowerFacts, DelayFacts
<1> HIDE DEF exponential
<1>6. bounded \in Int /\ bounded <= exponential
  BY <1>4, LowerFacts, DelayFacts
<1> HIDE DEF bounded
<1>7. half \in Int /\ half <= BackoffCap
  BY <1>4, <1>5, <1>6, DelayFacts, SMT
<1> HIDE DEF half
<1> QED
  BY <1>1, <1>7, UpperFacts, DelayFacts, SMT

\* So is the first delay after a suspension, however far away its due time is.
LEMMA FirstDelaySane ==
  ASSUME NEW susp \in SuspType, NEW jitter \in {0, 1}
  PROVE  firstProbeDelayMs(susp, jitter) \in MinDelay..BackoffCap
<1> DEFINE backoff == probeBackoffMs(1, "none", jitter)
           capped == Lower(backoff, DueIn[susp.due])
<1>1. backoff \in MinDelay..BackoffCap
  BY BackoffSane DEF RetryAfter
<1>2. firstProbeDelayMs(susp, jitter) =
        IF susp.due = "none" THEN backoff ELSE Upper(MinDelay, capped)
  BY Zenon DEF firstProbeDelayMs, Upper, Lower
<1> HIDE DEF backoff
<1>3. CASE susp.due = "none"
  BY <1>1, <1>2, <1>3
<1>4. CASE susp.due # "none"
  <2>1. DueIn[susp.due] \in Int
    BY <1>4, DelayFacts DEF SuspType, Dues
  <2>2. capped \in Int /\ capped <= BackoffCap
    <3>1. backoff \in Int
      BY <1>1, DelayFacts, SMT
    <3>2. capped \in Int /\ capped <= backoff
      BY <2>1, <3>1, LowerFacts
    <3> HIDE DEF capped
    <3> QED
      BY <1>1, <3>2, DelayFacts, SMT
  <2> HIDE DEF capped
  <2> QED
    BY <1>2, <1>4, <2>2, UpperFacts, DelayFacts, SMT
<1> QED
  BY <1>3, <1>4

LEMMA SaneFacts ==
  /\ \A d \in MinDelay..BackoffCap : Sane(d)
  /\ \A d : Sane(d) => d \in Int /\ d # Off
  /\ Sane(DueIn["soon"]) /\ Sane(DueIn["later"])
  BY DelayFacts, SMT DEF Sane

-----------------------------------------------------------------------------
(* The monitor's functions.                                                *)

LEMMA ScheduleFacts ==
  ASSUME NEW g, MonitorInv(g), NEW d, Sane(d)
  PROVE  LET k == schedule(g, d)
         IN  /\ MonitorInv(k) /\ SameGate(g, k)
             /\ k.started = g.started /\ k.flight = g.flight
             /\ g.started => Watched(k)
<1>1. d \in Int /\ d # Off
  BY SaneFacts
<1>2. CASE ~g.started \/ g.flight # "none"
  <2>1. schedule(g, d) = [g EXCEPT !.pending = d]
    BY <1>2 DEF schedule
  <2> QED
    BY <1>1, <1>2, <2>1 DEF MonitorInv, HealthType, SameGate, Watched
<1>3. CASE g.started /\ g.flight = "none"
  <2>1. schedule(g, d) = [g EXCEPT !.planned = d, !.timer = d]
    BY <1>3 DEF schedule
  <2> QED
    BY <1>1, <1>3, <2>1 DEF MonitorInv, HealthType, SameGate, Watched
<1>4. g.started \in BOOLEAN
  BY DEF MonitorInv, HealthType
<1> QED
  BY <1>2, <1>3, <1>4

\* A new epoch leaves no probe whose answer counts.
LEMMA EpochFacts ==
  ASSUME NEW g, MonitorInv(g), g.planned = Off
  PROVE  LET k == newEpoch(g)
         IN  /\ MonitorInv(k) /\ SameGate(g, k) /\ k.planned = Off
             /\ k.started = g.started /\ k.flight \in {"none", "stale"}
             /\ k.flight = "none" <=> g.flight = "none"
             /\ k.timer = g.timer
  BY DEF newEpoch, MonitorInv, HealthType, SameGate

\* The notice of a suspension to a gate without a plan: bound to it, and watched.
LEMMA BindFacts ==
  ASSUME NEW g, MonitorInv(g), NEW s \in SuspType, NEW jitter \in {0, 1}
  PROVE  LET k == bind(g, s, jitter)
         IN  /\ MonitorInv(k) /\ Watched(k)
             /\ k.bound /\ k.susp = s /\ k.flight # "current"
<1> DEFINE g0 == [g EXCEPT !.planned = Off]
           g1 == [newEpoch(g0) EXCEPT !.cur = s]
           g2 == withSuspensionNotice(g1, s)
           d  == firstProbeDelayMs(s, jitter)
           g3 == schedule(g2, d)
<1>1. MonitorInv(g0) /\ g0.planned = Off
  BY DelayFacts DEF MonitorInv, HealthType
<1> HIDE DEF g0
<1>2. MonitorInv(newEpoch(g0)) /\ newEpoch(g0).planned = Off /\ newEpoch(g0).flight # "current"
  BY <1>1, EpochFacts
<1>3. MonitorInv(g1) /\ g1.planned = Off /\ g1.flight # "current"
  BY <1>2 DEF MonitorInv, HealthType
<1> HIDE DEF g1
<1>4. /\ MonitorInv(g2) /\ g2.planned = Off /\ g2.flight # "current"
      /\ g2.bound /\ g2.susp = s
  <2>1. \A x \in Int : Counted(x) \in Int
    BY CountedType
  <2>2. \A x \in Int : Max({1, x}) \in Int
    BY AtLeastOneType
  <2>3. stateForCategory(s.category) \in {"healthy", "unknown", "degraded", "unavailable"}
    BY DEF stateForCategory
  <2>4. g1.failures \in Int /\ g1.failures + 1 \in Int
    BY <1>3 DEF MonitorInv, HealthType
  <2>5. Counted(Max({1, g1.failures + 1})) \in Int
    BY <2>1, <2>2, <2>4
  <2> QED
    BY <1>3, <2>3, <2>4, <2>5 DEF withSuspensionNotice, MonitorInv, HealthType, SuspType
<1> HIDE DEF g2
<1>5. Sane(d)
  BY FirstDelaySane, SaneFacts
<1> HIDE DEF d
<1>6. /\ MonitorInv(g3) /\ SameGate(g2, g3) /\ g3.started = g2.started
      /\ g3.flight = g2.flight /\ (g2.started => Watched(g3))
  BY <1>4, <1>5, ScheduleFacts
<1>7. bind(g, s, jitter) = start(g3, jitter)
  BY Zenon DEF bind, noticeSuspension, g0, g1, g2, g3, d
<1>8. CASE g2.started
  <2>1. start(g3, jitter) = g3
    BY <1>6, <1>8 DEF start
  <2> QED
    BY <1>4, <1>6, <1>7, <1>8, <2>1 DEF SameGate
<1>9. CASE ~g2.started
  <2> DEFINE off == [[g3 EXCEPT !.started = TRUE] EXCEPT !.pending = Off]
  <2>1. /\ g3 = [g2 EXCEPT !.pending = d] /\ d # Off /\ d \in Int /\ g3.pending = d
        /\ g3.planned = Off /\ g3.bound /\ ~g3.started
    BY <1>4, <1>5, <1>6, <1>9, SaneFacts DEF schedule, g3, SameGate, MonitorInv, HealthType
  <2>2. start(g3, jitter) = schedule(off, d)
    BY <2>1 DEF start, MonitorInv, HealthType
  <2>3. /\ MonitorInv(off) /\ off.started /\ off.bound /\ off.susp = s /\ off.flight # "current"
    BY <1>4, <1>6, <2>1, DelayFacts DEF MonitorInv, HealthType, SameGate
  <2> HIDE DEF off
  <2>4. /\ MonitorInv(schedule(off, d)) /\ SameGate(off, schedule(off, d))
        /\ Watched(schedule(off, d)) /\ schedule(off, d).flight = off.flight
    BY <1>5, <2>3, ScheduleFacts
  <2> QED
    BY <1>7, <2>2, <2>3, <2>4 DEF SameGate
<1>10. g2.started \in BOOLEAN
  BY <1>4 DEF MonitorInv, HealthType
<1> QED
  BY <1>8, <1>9, <1>10

\* The release of a suspension keeps a closed gate watched, and stops an open one.
LEMMA ReleaseFacts ==
  ASSUME NEW g, MonitorInv(g), g.bound, NEW jitter \in {0, 1}
  PROVE  LET k == releaseSuspension(g, jitter)
         IN  /\ MonitorInv(k) /\ ~k.bound
             /\ canDispatch(k) \/ Watched(k)
             /\ canDispatch(k) <=> canDispatch(g)
             /\ canDispatch(g) =>
                  /\ ~k.started /\ k.planned = Off /\ k.pending = Off
                  /\ k.flight = "none" <=> g.flight = "none"
<1> DEFINE g0 == [g EXCEPT !.bound = FALSE, !.susp = NoSuspension, !.planned = Off]
           off == [newEpoch(g0) EXCEPT !.cur = NoSuspension, !.pending = Off, !.timer = Off]
           on == [off EXCEPT !.started = TRUE]
           still == [off EXCEPT !.started = FALSE]
           d == probeBackoffMs(Max({1, g0.failures}), "none", jitter)
<1>1. NoSuspension \in SuspType
  BY DEF NoSuspension, SuspType, Categories, Dues
<1>2. MonitorInv(g0) /\ g0.planned = Off /\ ~g0.bound /\ g0.state = g.state /\ g0.flight = g.flight
  BY <1>1, DelayFacts DEF MonitorInv, HealthType
<1>3. releaseSuspension(g, jitter) = IF ~canDispatch(g) THEN schedule(on, d) ELSE still
  BY DEF releaseSuspension, release
<1> HIDE DEF g0
<1>4. /\ MonitorInv(newEpoch(g0)) /\ newEpoch(g0).planned = Off
      /\ newEpoch(g0).flight \in {"none", "stale"} /\ ~newEpoch(g0).bound
      /\ newEpoch(g0).flight = "none" <=> g.flight = "none"
      /\ newEpoch(g0).state = g.state
  BY <1>2, EpochFacts DEF SameGate
<1>5. /\ MonitorInv(off) /\ off.planned = Off /\ off.pending = Off /\ off.timer = Off
      /\ ~off.bound /\ off.state = g.state /\ off.flight \in {"none", "stale"}
      /\ off.flight = "none" <=> g.flight = "none"
  BY <1>1, <1>4, DelayFacts DEF MonitorInv, HealthType
<1> HIDE DEF off
<1>6. CASE canDispatch(g)
  <2>1. releaseSuspension(g, jitter) = still
    BY <1>3, <1>6
  <2>2. /\ MonitorInv(still) /\ still.planned = Off /\ still.pending = Off
        /\ ~still.started /\ ~still.bound /\ still.state = g.state
        /\ still.flight = "none" <=> g.flight = "none"
    BY <1>5 DEF MonitorInv, HealthType
  <2> HIDE DEF still
  <2> QED
    BY <1>6, <2>1, <2>2 DEF canDispatch
<1>7. CASE ~canDispatch(g)
  <2>1. MonitorInv(on) /\ on.started /\ ~on.bound /\ on.state = g.state
    BY <1>5 DEF MonitorInv, HealthType
  <2>2. Sane(d)
    <3>1. g0.failures \in Int
      BY <1>2 DEF MonitorInv, HealthType
    <3> QED
      BY <3>1, AtLeastOneType, BackoffSane, SaneFacts DEF RetryAfter
  <2> HIDE DEF d, on
  <2> QED
    BY <1>3, <1>7, <2>1, <2>2, ScheduleFacts DEF SameGate, canDispatch
<1> QED
  BY <1>6, <1>7

\* The finally of a probe: a delay that waited for it becomes the timer.
LEMMA SettleFacts ==
  ASSUME NEW g, MonitorInv(g), g.flight # "none",
         g.planned = Off \/ (g.started /\ g.pending # Off)
  PROVE  LET k == settleProbe(g)
         IN  /\ MonitorInv(k) /\ SameGate(g, k) /\ k.flight = "none"
             /\ g.started /\ g.pending # Off => Watched(k)
<1>1. g.timer = Off
  BY DEF MonitorInv
<1>2. CASE g.started /\ g.pending # Off
  <2> DEFINE p == g.pending
             k == [g EXCEPT !.flight = "none", !.pending = Off, !.planned = p, !.timer = p]
  <2>1. Sane(p) /\ p \in Int /\ Off \in Int
    BY <1>2, SaneFacts, DelayFacts DEF MonitorInv
  <2>2. settleProbe(g) = k
    BY <1>2 DEF settleProbe, schedule, MonitorInv, HealthType
  <2> HIDE DEF p
  <2>3. /\ k \in HealthType /\ k.flight = "none" /\ k.started /\ k.timer = p
        /\ k.pending = Off /\ SameGate(g, k)
    BY <1>2, <2>1 DEF MonitorInv, HealthType, SameGate
  <2> HIDE DEF k
  <2> QED
    BY <1>2, <2>1, <2>2, <2>3 DEF MonitorInv, Watched, p
<1>3. CASE ~(g.started /\ g.pending # Off)
  <2>1. settleProbe(g) = [g EXCEPT !.flight = "none"]
    BY <1>3 DEF settleProbe, MonitorInv, HealthType
  <2> QED
    BY <1>1, <1>3, <2>1 DEF MonitorInv, HealthType, SameGate, Watched
<1> QED
  BY <1>2, <1>3

LEMMA HealthyFacts ==
  ASSUME NEW g, MonitorInv(g), g.planned = Off, g.flight # "none"
  PROVE  LET k == settleProbe(afterHealthy(g))
         IN  MonitorInv(k) /\ SameGate(g, k) /\ k.flight = "none"
<1>1. CASE afterHealthy(g) = g
  BY <1>1, SettleFacts
<1>2. CASE afterHealthy(g) # g
  <2> DEFINE d == DueIn[g.cur.due]
             k == schedule(g, d)
  <2>1. g.started /\ g.cur.due \notin {"none", "now"} /\ afterHealthy(g) = k
    BY <1>2 DEF afterHealthy
  <2>2. Sane(d)
    <3>1. g.cur.due \in {"soon", "later"}
      BY <2>1 DEF MonitorInv, HealthType, SuspType, Dues
    <3> QED
      BY <3>1, SaneFacts
  <2>3. k = [g EXCEPT !.pending = d]
    BY <2>1 DEF schedule
  <2>4. /\ MonitorInv(k) /\ SameGate(g, k) /\ k.flight # "none" /\ k.started
        /\ k.pending # Off
    BY <2>1, <2>2, <2>3, ScheduleFacts, SaneFacts DEF MonitorInv, HealthType
  <2> HIDE DEF k
  <2> QED
    BY <2>1, <2>4, SettleFacts DEF SameGate
<1> QED
  BY <1>1, <1>2

\* A probe that fails for good plans the next one before it settles.
LEMMA ProbeFailedFacts ==
  ASSUME NEW g, MonitorInv(g), g.flight = "current", NEW c \in Categories,
         NEW retryAfter \in RetryAfter, NEW jitter \in {0, 1}
  PROVE  LET k == settleProbe(probeFailed(g, c, retryAfter, jitter))
         IN  /\ MonitorInv(k) /\ Watched(k) /\ k.flight = "none"
             /\ k.bound = g.bound /\ k.susp = g.susp
<1> DEFINE d == probeBackoffMs(g.failures + 1, retryAfter, jitter)
           g1 == withFailure(g, c, d)
           k == schedule(g1, d)
<1>1. Sane(d) /\ d \in Int /\ d # Off
  <2>1. g.failures + 1 \in Int
    BY DEF MonitorInv, HealthType
  <2> QED
    BY <2>1, BackoffSane, SaneFacts
<1>2. probeFailed(g, c, retryAfter, jitter) = k
  BY DEF probeFailed
<1> HIDE DEF d
<1>3. /\ MonitorInv(g1) /\ g1.flight = "current" /\ g1.started
      /\ g1.bound = g.bound /\ g1.susp = g.susp
  <2>1. Counted(g.failures + 1) \in Int
    BY CountedType DEF MonitorInv, HealthType
  <2>2. stateForCategory(c) \in {"healthy", "unknown", "degraded", "unavailable"}
    BY DEF stateForCategory
  <2> QED
    BY <1>1, <2>1, <2>2 DEF withFailure, MonitorInv, HealthType
<1> HIDE DEF g1
<1>4. k = [g1 EXCEPT !.pending = d]
  BY <1>3 DEF schedule
<1>5. /\ MonitorInv(k) /\ SameGate(g1, k) /\ k.flight = "current" /\ k.started
      /\ k.pending # Off
  BY <1>1, <1>3, <1>4, ScheduleFacts DEF MonitorInv, HealthType
<1> HIDE DEF k
<1> QED
  BY <1>2, <1>3, <1>5, SettleFacts DEF SameGate

LEMMA GateFacts ==
  ASSUME NEW g, MonitorInv(g)
  PROVE  /\ LET k == withSuccess(g)
            IN  /\ MonitorInv(k) /\ canDispatch(k) /\ k.planned = Off
                /\ k.flight = g.flight /\ k.bound = g.bound /\ k.susp = g.susp
                /\ Watched(g) => Watched(k)
         /\ \A c \in Categories :
              LET k == withFailure(g, c, Off)
              IN  /\ MonitorInv(k) /\ k.planned = Off
                  /\ k.flight = g.flight /\ k.bound = g.bound /\ k.susp = g.susp
                  /\ c = "unknown" => canDispatch(k) /\ k.state # "healthy"
<1>1. Counted(g.failures + 1) \in Int
  BY CountedType DEF MonitorInv, HealthType
<1>2. \A c \in Categories : stateForCategory(c) \in {"healthy", "unknown", "degraded", "unavailable"}
  BY DEF stateForCategory
<1>3. stateForCategory("unknown") = "unknown"
  BY DEF stateForCategory
<1>4. LET k == withSuccess(g)
      IN  /\ MonitorInv(k) /\ canDispatch(k) /\ k.planned = Off
          /\ k.flight = g.flight /\ k.bound = g.bound /\ k.susp = g.susp
          /\ Watched(g) => Watched(k)
  <2>1. Off \in Int /\ "none" \in Categories
    BY DelayFacts DEF Categories
  <2>2. withSuccess(g) \in HealthType
    <3>1. \A c \in Categories, n \in Int, p \in Int :
            [g EXCEPT !.state = "healthy", !.category = c, !.failures = n, !.planned = p]
              \in HealthType
      BY DEF MonitorInv, HealthType
    <3>2. 0 \in Int
      OBVIOUS
    <3> QED
      BY <2>1, <3>1, <3>2, Zenon DEF withSuccess
  <2> QED
    BY <2>2 DEF withSuccess, MonitorInv, HealthType, canDispatch, Watched
<1>5. ASSUME NEW c \in Categories
      PROVE  LET k == withFailure(g, c, Off)
             IN  /\ MonitorInv(k) /\ k.planned = Off /\ k.state = stateForCategory(c)
                 /\ k.flight = g.flight /\ k.bound = g.bound /\ k.susp = g.susp
  <2>1. stateForCategory(c) \in {"healthy", "unknown", "degraded", "unavailable"}
    BY <1>2
  <2> QED
    BY <1>1, <2>1, DelayFacts DEF withFailure, MonitorInv, HealthType
<1> QED
  BY <1>3, <1>4, <1>5 DEF canDispatch

\* The tick never has to start a probe: a gate that is closed while nothing settles is
\* already watched, and ensureProbing finds the monitor started.
LEMMA TickFacts ==
  ASSUME NEW g, canDispatch(g) \/ Watched(g), NEW r, NEW w \in Nat, NEW jitter
  PROVE  LET t == tick(g, r, w, jitter)
         IN  /\ t.h = g /\ t.work \in Nat
             /\ t = [h |-> t.h, run |-> t.run, work |-> t.work]
             /\ t.run = r \/ (r.phase = "none" /\ t.run = FreshRun)
<1>1. CASE r.phase # "none" \/ w = 0
  BY <1>1 DEF tick
<1>2. CASE r.phase = "none" /\ w # 0 /\ ~canDispatch(g)
  <2>1. ensureProbing(g, jitter) = g
    BY <1>2 DEF ensureProbing, Watched
  <2>2. w > 0
    BY <1>2
  <2> QED
    BY <1>2, <2>1, <2>2 DEF tick
<1>3. CASE r.phase = "none" /\ w # 0 /\ canDispatch(g)
  BY <1>3 DEF tick
<1> QED
  BY <1>1, <1>2, <1>3

\* A free slot stays free or takes a fresh run.
LEMMA TickOfFreeSlot ==
  ASSUME NEW g, NEW w \in Nat, NEW jitter
  PROVE  tick(g, NoRun, w, jitter).run \in {NoRun, FreshRun}
<1>1. w = 0 \/ w > 0
  OBVIOUS
<1> QED
  BY <1>1 DEF tick, NoRun

-----------------------------------------------------------------------------
(* The inductive invariant of the service.                                 *)

RunType == [phase: {"none", "running", "suspending", "suspended", "resuming", "paused"},
            prior: Int, record: SuspType, byProbe: BOOLEAN]

\* The automatic resumes of the run that its attempts have to account for: those it has
\* had, less the budgets it was granted when its attempts were forgotten.
Had == MaxAutoResumes - left

\* The attempts a suspension record carries account for the automatic resumes the run has
\* had, and the one a record still asks for is within the limit.
Covers(s) ==
  /\ Had <= s.attempts
  /\ s.policy = "auto" => Had + 1 <= s.attempts /\ s.attempts <= MaxAutoResumes

\* What is known of the automatic resumes in every phase of the run.
BudgetKept ==
  /\ left \in Nat
  /\ run.phase = "none" => Had = 0
  /\ run.phase \in {"running", "resuming"} => Had <= run.prior
  /\ run.phase = "resuming" /\ run.byProbe =>
       Had + 1 <= run.prior /\ run.prior <= MaxAutoResumes
  /\ run.phase \in {"suspending", "resuming"} => Covers(run.record)
  /\ h.bound => Covers(h.susp)

ServiceInv ==
  /\ MonitorInv(h) /\ run \in RunType /\ work \in Nat
  /\ h.bound <=> run.phase = "suspended"
  /\ canDispatch(h) \/ Watched(h) \/ run.phase = "suspending"
  /\ run.phase = "suspended" /\ h.flight = "current" => asked
  /\ BudgetKept

\* The gate of a process that has just started.
LEMMA BootHealth ==
  /\ MonitorInv(InitialHealth) /\ ~InitialHealth.bound /\ canDispatch(InitialHealth)
  /\ InitialHealth.flight = "none" /\ InitialHealth.planned = Off
<1>1. NoSuspension \in SuspType /\ Off \in Int /\ "unknown" \in Categories /\ 0 \in Int
  BY DelayFacts DEF NoSuspension, SuspType, Categories, Dues
<1> QED
  BY <1>1 DEF InitialHealth, MonitorInv, HealthType, canDispatch

LEMMA InitService == ProviderInit => ServiceInv
<1> SUFFICES ASSUME ProviderInit PROVE ServiceInv
  OBVIOUS
<1>1. NoSuspension \in SuspType
  BY DEF NoSuspension, SuspType, Categories, Dues
<1>2. MonitorInv(InitialHealth) /\ InitialHealth.flight = "none" /\ ~InitialHealth.bound
      /\ canDispatch(InitialHealth)
  BY BootHealth
<1>3. NoRun \in RunType /\ NoRun.phase = "none"
  BY <1>1 DEF NoRun, RunType
<1>4. MaxAutoResumes \in Nat
  BY HealthBounds
<1> QED
  BY <1>2, <1>3, <1>4 DEF ProviderInit, ServiceInv, BudgetKept, Had

\* A fresh run, and the tick that may start one.
LEMMA FreshFacts ==
  /\ FreshRun \in RunType /\ FreshRun.phase = "running" /\ FreshRun.prior = 0
  /\ NoRun \in RunType /\ NoRun.phase = "none"
<1>1. NoSuspension \in SuspType
  BY DEF NoSuspension, SuspType, Categories, Dues
<1>2. NoRun \in RunType /\ NoRun.phase = "none" /\ NoRun.prior = 0
  BY <1>1 DEF NoRun, RunType
<1>3. FreshRun = [NoRun EXCEPT !.phase = "running"]
  BY DEF FreshRun
<1> QED
  BY <1>2, <1>3 DEF RunType

\* Work arrives.
LEMMA EnqueueKeeps ==
  ASSUME ServiceInv, NEW jitter, Enqueue(jitter)
  PROVE  ServiceInv'
<1>1. canDispatch(h) \/ Watched(h)
  BY DEF ServiceInv, Enqueue, Idle
<1>2. /\ h' = h /\ work' \in Nat /\ UNCHANGED <<left, asked>>
      /\ run' = run \/ (run.phase = "none" /\ run' = FreshRun)
  <2>1. work + 1 \in Nat
    BY DEF ServiceInv
  <2>2. LET t == tick(h, run, work + 1, jitter)
        IN  /\ t.h = h /\ t.work \in Nat
            /\ t.run = run \/ (run.phase = "none" /\ t.run = FreshRun)
    BY <1>1, <2>1, TickFacts
  <2> QED
    BY <2>2 DEF Enqueue, Become
<1> QED
  BY <1>2, FreshFacts DEF ServiceInv, BudgetKept, Covers, Had

\* A run ends, and the next one may start.
LEMMA RunEndsKeeps ==
  ASSUME ServiceInv, NEW jitter, RunEnds(jitter)
  PROVE  ServiceInv'
<1>1. canDispatch(h) \/ Watched(h)
  BY DEF ServiceInv, RunEnds
<1>2. /\ h' = h /\ work' \in Nat /\ left' = MaxAutoResumes /\ UNCHANGED asked /\ ~h.bound
      /\ run' \in {NoRun, FreshRun}
  <2>1. work \in Nat /\ ~h.bound
    BY DEF ServiceInv, RunEnds
  <2>2. LET t == tick(h, NoRun, work, jitter)
        IN  /\ t.h = h /\ t.work \in Nat
            /\ t.run = NoRun \/ (NoRun.phase = "none" /\ t.run = FreshRun)
    BY <1>1, <2>1, TickFacts, SMTT(30)
  <2> QED
    BY <2>1, <2>2 DEF RunEnds, Become, Forgotten
<1>3. MaxAutoResumes \in Nat
  BY HealthBounds
<1> QED
  BY <1>1, <1>2, <1>3, FreshFacts DEF ServiceInv, BudgetKept, Had

LEMMA RunningMetaLandsKeeps ==
  ASSUME ServiceInv, RunningMetaLands
  PROVE  ServiceInv'
<1>1. /\ run' \in RunType /\ run'.phase = "running" /\ run'.prior = run.prior
      /\ run.phase = "resuming" /\ UNCHANGED <<h, work, asked>>
  BY FreshFacts DEF RunningMetaLands, ServiceInv, RunType, NoRun
<1>2. left' \in Nat /\ Had' <= run.prior
  BY <1>1, HealthBounds DEF RunningMetaLands, ServiceInv, BudgetKept, Had, RunType
<1> QED
  BY <1>1, <1>2 DEF ServiceInv, BudgetKept, Had

LEMMA RoleSucceedsKeeps ==
  ASSUME ServiceInv, RoleSucceeds
  PROVE  ServiceInv'
<1>1. /\ MonitorInv(h') /\ canDispatch(h') /\ h'.flight = h.flight
      /\ h'.bound = h.bound /\ h'.susp = h.susp
  BY GateFacts DEF RoleSucceeds, ServiceInv
<1> QED
  BY <1>1 DEF RoleSucceeds, ServiceInv, BudgetKept, Covers, Had

\* The record of a failure covers the automatic resumes of its run.
LEMMA RecordCovers ==
  ASSUME ServiceInv, run.phase = "running",
         NEW category \in Categories, NEW due \in Dues
  PROVE  LET s == suspensionFromFailure(category, due, run.prior)
         IN  s \in SuspType /\ Covers(s)
<1> DEFINE s == suspensionFromFailure(category, due, run.prior)
<1>1. run.prior \in Int /\ Had \in Int /\ Had <= run.prior /\ Had <= MaxAutoResumes
      /\ MaxAutoResumes \in Int
  BY HealthBounds DEF ServiceInv, BudgetKept, Had, RunType
<1>2. resumePolicyFor(category) \in {"auto", "operator"}
  BY DEF resumePolicyFor
<1>3. CASE resumePolicyFor(category) = "operator"
  <2>1. s = [category |-> category, policy |-> "operator", attempts |-> run.prior, due |-> "none"]
    BY <1>3 DEF suspensionFromFailure
  <2> QED
    BY <1>1, <2>1 DEF SuspType, Dues, Covers
<1>4. CASE resumePolicyFor(category) = "auto" /\ run.prior >= MaxAutoResumes
  <2>1. s = [category |-> category, policy |-> "operator",
             attempts |-> MaxAutoResumes + 1, due |-> "none"]
    BY <1>4 DEF suspensionFromFailure
  <2> QED
    BY <1>1, <2>1 DEF SuspType, Dues, Covers
<1>5. CASE resumePolicyFor(category) = "auto" /\ ~(run.prior >= MaxAutoResumes)
  <2>1. s = [category |-> category, policy |-> "auto",
             attempts |-> run.prior + 1, due |-> due]
    BY <1>5 DEF suspensionFromFailure
  <2> QED
    BY <1>1, <1>5, <2>1 DEF SuspType, Dues, Covers
<1> QED
  BY <1>2, <1>3, <1>4, <1>5

LEMMA RoleFailsKeeps ==
  ASSUME ServiceInv, NEW category \in Categories, NEW due \in Dues,
         RoleFails(category, due)
  PROVE  ServiceInv'
<1> DEFINE s == suspensionFromFailure(category, due, run.prior)
<1>1. s \in SuspType /\ Covers(s)
  BY RecordCovers DEF RoleFails
<1>2. run' = [run EXCEPT !.phase = "suspending", !.record = s]
  BY DEF RoleFails
<1> HIDE DEF s
<1>3. /\ run' \in RunType /\ run'.phase = "suspending" /\ run'.record = s
  BY <1>1, <1>2 DEF ServiceInv, RunType
<1>4. /\ MonitorInv(h') /\ ~h'.bound /\ UNCHANGED <<work, left, asked>>
  BY GateFacts DEF RoleFails, ServiceInv
<1> QED
  BY <1>1, <1>3, <1>4 DEF ServiceInv, BudgetKept, Covers, Had

LEMMA SettleSuspendedKeeps ==
  ASSUME ServiceInv, NEW jitter \in {0, 1}, SettleSuspended(jitter)
  PROVE  ServiceInv'
<1>1. run.record \in SuspType /\ run.phase = "suspending" /\ Covers(run.record)
  BY DEF SettleSuspended, ServiceInv, BudgetKept, Had, RunType
<1>2. MonitorInv(h') /\ Watched(h') /\ h'.bound /\ h'.susp = run.record /\ h'.flight # "current"
  BY <1>1, BindFacts DEF SettleSuspended, ServiceInv
<1>3. /\ run' \in RunType /\ run'.phase = "suspended" /\ UNCHANGED <<work, left>>
  BY DEF SettleSuspended, ServiceInv, RunType
<1> QED
  BY <1>1, <1>2, <1>3 DEF ServiceInv, BudgetKept, Covers, Had

LEMMA OperatorPauseKeeps ==
  ASSUME ServiceInv, OperatorPause
  PROVE  ServiceInv'
<1>1. /\ run' \in RunType /\ run'.phase = "paused" /\ ~h.bound
      /\ UNCHANGED <<h, work, left, asked>> /\ run.phase = "running"
  BY FreshFacts DEF OperatorPause, ServiceInv, RunType
<1> QED
  BY <1>1 DEF ServiceInv, BudgetKept, Had

LEMMA ResumePausedKeeps ==
  ASSUME ServiceInv, ResumePaused
  PROVE  ServiceInv'
<1>1. /\ run' = FreshRun /\ left' = left + MaxAutoResumes /\ ~h.bound
      /\ UNCHANGED <<h, work, asked>> /\ run.phase = "paused"
  BY DEF ResumePaused, GrantedAgain, ServiceInv
<1>2. MaxAutoResumes \in Nat
  BY HealthBounds
<1> QED
  BY <1>1, <1>2, FreshFacts DEF ServiceInv, BudgetKept, Had

\* The run a resume gives back to the engine.
LEMMA ResumedFacts ==
  ASSUME ServiceInv, run.phase = "suspended", NEW g, g.susp = h.susp,
         NEW byProbe \in BOOLEAN
  PROVE  LET r == Resumed(g, byProbe)
         IN  /\ r \in RunType /\ r.phase = "resuming" /\ r.byProbe = byProbe
             /\ r.prior = h.susp.attempts /\ r.record = h.susp
             /\ Covers(h.susp)
<1>1. h.susp \in SuspType /\ Covers(h.susp)
  BY DEF ServiceInv, BudgetKept, Had, MonitorInv, HealthType
<1> QED
  BY <1>1 DEF Resumed, RunType, SuspType

LEMMA ExplicitResumeKeeps ==
  ASSUME ServiceInv, NEW jitter \in {0, 1}, ExplicitResume(jitter)
  PROVE  ServiceInv'
<1>1. /\ run.phase = "suspended" /\ h.bound /\ MonitorInv(h)
      /\ h' = releaseSuspension(h, jitter) /\ run' = Resumed(h, FALSE)
      /\ UNCHANGED <<work, left, asked>>
  BY DEF ExplicitResume, ServiceInv
<1>2. MonitorInv(h') /\ ~h'.bound /\ (canDispatch(h') \/ Watched(h'))
  BY <1>1, ReleaseFacts
<1>3. /\ run' \in RunType /\ run'.phase = "resuming" /\ run'.byProbe = FALSE
      /\ run'.prior = h.susp.attempts /\ run'.record = h.susp /\ Covers(h.susp)
  BY <1>1, ResumedFacts
<1> QED
  BY <1>1, <1>2, <1>3 DEF ServiceInv, BudgetKept, Covers, Had

LEMMA TerminateRunKeeps ==
  ASSUME ServiceInv, NEW jitter \in {0, 1}, Terminate(jitter)
  PROVE  ServiceInv'
<1> DEFINE g == releaseSuspension(h, jitter)
<1>1. MonitorInv(g) /\ ~g.bound /\ (canDispatch(g) \/ Watched(g))
  <2>1. CASE h.bound
    BY <2>1, ReleaseFacts DEF ServiceInv
  <2>2. CASE ~h.bound
    <3>1. g = h
      BY <2>2 DEF releaseSuspension
    <3> QED
      BY <2>2, <3>1 DEF ServiceInv, Terminate
  <2> QED
    BY <2>1, <2>2
<1> HIDE DEF g
<1>2. /\ h' = g /\ work' \in Nat /\ run' \in {NoRun, FreshRun}
  <2>1. LET t == tick(g, NoRun, work, jitter)
        IN  /\ t.h = g /\ t.work \in Nat
            /\ t.run = NoRun \/ t.run = FreshRun
    BY <1>1, TickFacts DEF ServiceInv
  <2> QED
    BY <2>1 DEF Terminate, Become, g
<1>3. left' = MaxAutoResumes /\ UNCHANGED asked
  BY DEF Terminate, Forgotten
<1>4. MaxAutoResumes \in Nat
  BY HealthBounds
<1> QED
  BY <1>1, <1>2, <1>3, <1>4, FreshFacts DEF ServiceInv, BudgetKept, Had

Redated(g, k, d1, d2) == k = [g EXCEPT !.susp.due = d1, !.cur.due = d2]

\* Due times that come nearer change nothing the invariant reads.
LEMMA RedatedKeeps ==
  ASSUME NEW g, MonitorInv(g), NEW d1 \in Dues, NEW d2 \in Dues,
         NEW k, Redated(g, k, d1, d2)
  PROVE  /\ MonitorInv(k)
         /\ k.state = g.state /\ k.bound = g.bound /\ k.flight = g.flight
         /\ k.started = g.started /\ k.timer = g.timer /\ k.pending = g.pending
         /\ k.susp.attempts = g.susp.attempts /\ k.susp.policy = g.susp.policy
<1>1. g.susp \in SuspType /\ g.cur \in SuspType
  BY DEF MonitorInv, HealthType
<1>2. [g.susp EXCEPT !.due = d1] \in SuspType /\ [g.cur EXCEPT !.due = d2] \in SuspType
  BY <1>1 DEF SuspType
<1>3. k = [g EXCEPT !.susp = [g.susp EXCEPT !.due = d1], !.cur = [g.cur EXCEPT !.due = d2]]
  BY DEF MonitorInv, HealthType, Redated
<1>4. k \in HealthType
  BY <1>2, <1>3 DEF MonitorInv, HealthType
<1>5. /\ k.susp = [g.susp EXCEPT !.due = d1]
      /\ k.state = g.state /\ k.bound = g.bound /\ k.flight = g.flight
      /\ k.started = g.started /\ k.timer = g.timer /\ k.pending = g.pending
      /\ k.planned = g.planned
  BY <1>3 DEF MonitorInv, HealthType
<1>6. k.susp.attempts = g.susp.attempts /\ k.susp.policy = g.susp.policy
  BY <1>1, <1>5 DEF SuspType
<1> QED
  BY <1>4, <1>5, <1>6 DEF MonitorInv

LEMMA TimePassesKeeps ==
  ASSUME ServiceInv, TimePasses
  PROVE  ServiceInv'
<1> DEFINE d1 == IF h.susp.due = "later" THEN "soon" ELSE "now"
           d2 == IF h.cur.due = "later" THEN "soon"
                 ELSE IF h.cur.due = "soon" THEN "now" ELSE h.cur.due
<1>1. d1 \in Dues /\ d2 \in Dues
  BY DEF ServiceInv, MonitorInv, HealthType, SuspType, Dues
<1>2. Redated(h, h', d1, d2)
  BY DEF TimePasses, ServiceInv, MonitorInv, HealthType, SuspType, Redated
<1> HIDE DEF d1, d2
<1>3. /\ MonitorInv(h')
      /\ h'.state = h.state /\ h'.bound = h.bound /\ h'.flight = h.flight
      /\ h'.started = h.started /\ h'.timer = h.timer /\ h'.pending = h.pending
      /\ h'.susp.attempts = h.susp.attempts /\ h'.susp.policy = h.susp.policy
  <2>1. MonitorInv(h)
    BY DEF ServiceInv
  <2> QED
    BY <1>1, <1>2, <2>1, RedatedKeeps
<1>4. UNCHANGED <<run, work, left, asked>>
  BY DEF TimePasses
<1> QED
  BY <1>3, <1>4 DEF ServiceInv, BudgetKept, Covers, Had, Watched, canDispatch

\* The timer fires: a probe of the current epoch is sent, and `asked` remembers it.
LEMMA TimerFiresKeeps ==
  ASSUME ServiceInv, TimerFires
  PROVE  ServiceInv'
<1> DEFINE g == fireTimer(h)
           d1 == Arrived(g.susp.due, h.timer)
           d2 == Arrived(g.cur.due, h.timer)
<1>1. h.timer # Off /\ h.flight = "none" /\ h.started /\ MonitorInv(h) /\ Off \in Int
  BY DelayFacts DEF TimerFires, ServiceInv, MonitorInv
<1>2. g = [h EXCEPT !.timer = Off, !.flight = "current"]
  BY <1>1 DEF fireTimer, MonitorInv, HealthType
<1>3. /\ MonitorInv(g) /\ g.flight = "current" /\ g.started
      /\ g.state = h.state /\ g.bound = h.bound /\ g.susp = h.susp
  BY <1>1, <1>2 DEF MonitorInv, HealthType
<1>4. Redated(g, h', d1, d2)
  BY <1>3 DEF TimerFires, MonitorInv, HealthType, SuspType, Redated
<1>5. asked' = (asked \/ h'.flight = "current") /\ UNCHANGED <<run, work, left>>
  BY DEF TimerFires
<1> HIDE DEF g
<1>6. d1 \in Dues /\ d2 \in Dues
  BY <1>3 DEF Arrived, MonitorInv, HealthType, SuspType, Dues
<1> HIDE DEF d1, d2
<1>7. /\ MonitorInv(h')
      /\ h'.state = g.state /\ h'.bound = g.bound /\ h'.flight = g.flight
      /\ h'.started = g.started
      /\ h'.susp.attempts = g.susp.attempts /\ h'.susp.policy = g.susp.policy
  <2>1. \A k, d, e : MonitorInv(g) /\ d \in Dues /\ e \in Dues /\ Redated(g, k, d, e) =>
          /\ MonitorInv(k)
          /\ k.state = g.state /\ k.bound = g.bound /\ k.flight = g.flight
          /\ k.started = g.started
          /\ k.susp.attempts = g.susp.attempts /\ k.susp.policy = g.susp.policy
    BY RedatedKeeps
  <2>2. MonitorInv(g) /\ d1 \in Dues /\ d2 \in Dues
    BY <1>3, <1>6
  <2>3. Redated(g, h', d1, d2)
    BY <1>4
  <2> QED
    BY <2>1, <2>2, <2>3
<1> QED
  BY <1>3, <1>5, <1>7 DEF ServiceInv, BudgetKept, Covers, Had, Watched

\* A probe of an epoch that is over settles: a delay noticed meanwhile starts then.
LEMMA StaleProbeKeeps ==
  ASSUME ServiceInv, StaleProbeAnswers
  PROVE  ServiceInv'
<1>1. /\ MonitorInv(h) /\ h.flight = "stale" /\ h.planned = Off /\ h' = settleProbe(h)
      /\ canDispatch(h) \/ Watched(h)
      /\ h.timer = Off
  <2>1. MonitorInv(h) /\ (canDispatch(h) \/ Watched(h)) /\ h' = settleProbe(h)
    BY DEF StaleProbeAnswers, Idle, ServiceInv
  <2>2. h.flight = "stale" /\ h.planned = Off /\ h.timer = Off
    BY <2>1 DEF StaleProbeAnswers, MonitorInv, HealthType
  <2> QED
    BY <2>1, <2>2
<1>2. /\ MonitorInv(h') /\ SameGate(h, h') /\ h'.flight = "none"
      /\ h.started /\ h.pending # Off => Watched(h')
  BY <1>1, SettleFacts
<1>3. canDispatch(h') \/ Watched(h')
  BY <1>1, <1>2 DEF Watched, SameGate, canDispatch
<1> QED
  BY <1>2, <1>3
     DEF StaleProbeAnswers, ServiceInv, BudgetKept, Covers, Had, SameGate

\* After an answer that opens the gate.
LEMMA OpenedKeeps ==
  ASSUME ServiceInv, MonitorInv(h'), canDispatch(h'), h'.flight = "none",
         h'.bound = h.bound, h'.susp = h.susp, work' \in Nat,
         run' = run \/ (run.phase = "none" /\ run' = FreshRun),
         UNCHANGED <<left, asked>>
  PROVE  ServiceInv'
  BY FreshFacts DEF ServiceInv, BudgetKept, Covers, Had

\* The probe in flight, seen healthy.
LEMMA AnsweredFacts ==
  ASSUME ServiceInv, Answers
  PROVE  LET g == withSuccess(h)
         IN  /\ MonitorInv(g) /\ canDispatch(g) /\ g.planned = Off
             /\ g.flight = "current" /\ g.bound = h.bound /\ g.susp = h.susp
  BY GateFacts DEF ServiceInv, Answers

\* ProbeSucceeds when no resume follows, and AutoResumeRefused.
LEMMA HealthyTickKeeps ==
  ASSUME ServiceInv, Answers, NEW jitter, UNCHANGED <<left, asked>>,
         LET out == tick(withSuccess(h), run, work, jitter)
         IN  Become([out EXCEPT !.h = settleProbe(afterHealthy(@))])
  PROVE  ServiceInv'
<1> DEFINE g == withSuccess(h)
           t == tick(g, run, work, jitter)
           k == settleProbe(afterHealthy(g))
<1>1. /\ MonitorInv(g) /\ canDispatch(g) /\ g.planned = Off
      /\ g.flight = "current" /\ g.bound = h.bound /\ g.susp = h.susp
  BY AnsweredFacts
<1>2. Become([t EXCEPT !.h = settleProbe(afterHealthy(t.h))])
  OBVIOUS
<1> HIDE DEF g
<1>3. /\ t.h = g /\ t.work \in Nat
      /\ t = [h |-> t.h, run |-> t.run, work |-> t.work]
      /\ t.run = run \/ (run.phase = "none" /\ t.run = FreshRun)
  BY <1>1, TickFacts DEF ServiceInv
<1> HIDE DEF t
<1>4. MonitorInv(k) /\ SameGate(g, k) /\ k.flight = "none"
  BY <1>1, HealthyFacts
<1> HIDE DEF k
<1>5. h' = k /\ run' = t.run /\ work' = t.work
  BY <1>2, <1>3 DEF Become, k
<1> QED
  BY <1>1, <1>3, <1>4, <1>5, OpenedKeeps DEF SameGate, canDispatch

\* The automatic resume: the budget of the record has room for one more.
LEMMA AutoResumeKeeps ==
  ASSUME ServiceInv, Answers, NEW jitter \in {0, 1}, autoResumeAllowed(withSuccess(h)),
         UNCHANGED <<left, asked>>,
         LET g == withSuccess(h)
             out == tick(releaseSuspension(g, jitter), Resumed(g, TRUE), work, jitter)
         IN  Become([out EXCEPT !.h = settleProbe(afterHealthy(@))])
  PROVE  ServiceInv'
<1> DEFINE g == withSuccess(h)
           r == releaseSuspension(g, jitter)
           t == tick(r, Resumed(g, TRUE), work, jitter)
           k == settleProbe(afterHealthy(r))
<1>1. /\ MonitorInv(g) /\ canDispatch(g) /\ g.planned = Off
      /\ g.flight = "current" /\ g.bound = h.bound /\ g.susp = h.susp
  BY AnsweredFacts
<1>2. Become([t EXCEPT !.h = settleProbe(afterHealthy(t.h))])
  OBVIOUS
<1>3. g.bound /\ g.susp.policy = "auto" /\ run.phase = "suspended"
  BY <1>1 DEF autoResumeAllowed, ServiceInv
<1> HIDE DEF g
<1>4. /\ MonitorInv(r) /\ ~r.bound /\ canDispatch(r) /\ r.planned = Off
      /\ r.flight # "none"
  BY <1>1, <1>3, ReleaseFacts
<1> HIDE DEF r
<1>5. /\ Resumed(g, TRUE) \in RunType /\ Resumed(g, TRUE).phase = "resuming"
      /\ Resumed(g, TRUE).byProbe /\ Resumed(g, TRUE).prior = h.susp.attempts
      /\ Resumed(g, TRUE).record = h.susp /\ Covers(h.susp)
  BY <1>1, <1>3, ResumedFacts
<1>6. /\ t.h = r /\ t.work \in Nat
      /\ t = [h |-> t.h, run |-> t.run, work |-> t.work]
      /\ t.run = Resumed(g, TRUE)
  <2>1. work \in Nat
    BY DEF ServiceInv
  <2>2. \A q : LET u == tick(r, q, work, jitter)
               IN  /\ u.h = r /\ u.work \in Nat
                   /\ u = [h |-> u.h, run |-> u.run, work |-> u.work]
                   /\ u.run = q \/ (q.phase = "none" /\ u.run = FreshRun)
    BY <1>4, <2>1, TickFacts
  <2> QED
    BY <1>5, <2>2
<1> HIDE DEF t
<1>7. MonitorInv(k) /\ SameGate(r, k) /\ k.flight = "none"
  BY <1>4, HealthyFacts
<1> HIDE DEF k
<1>8. h' = k /\ run' = Resumed(g, TRUE) /\ work' = t.work
  BY <1>2, <1>6 DEF Become, k
<1> QED
  BY <1>1, <1>3, <1>4, <1>5, <1>6, <1>7, <1>8
     DEF ServiceInv, BudgetKept, Covers, Had, SameGate, canDispatch

LEMMA ProbeSucceedsKeeps ==
  ASSUME ServiceInv, NEW jitter \in {0, 1}, ProbeSucceeds(jitter)
  PROVE  ServiceInv'
<1>1. CASE autoResumeAllowed(withSuccess(h))
  BY <1>1, AutoResumeKeeps DEF ProbeSucceeds, handleHealthy
<1>2. CASE ~autoResumeAllowed(withSuccess(h))
  BY <1>2, HealthyTickKeeps DEF ProbeSucceeds, handleHealthy
<1> QED
  BY <1>1, <1>2

LEMMA AutoResumeRefusedKeeps ==
  ASSUME ServiceInv, NEW jitter \in {0, 1}, AutoResumeRefused(jitter)
  PROVE  ServiceInv'
  BY HealthyTickKeeps DEF AutoResumeRefused

LEMMA ProbeFailsKeeps ==
  ASSUME ServiceInv, NEW jitter \in {0, 1}, NEW status, NEW billing \in BOOLEAN,
         NEW retryAfter \in RetryAfter, ProbeFails(status, billing, retryAfter, jitter)
  PROVE  ServiceInv'
<1> DEFINE c == classifyProbeFailure(status = 0, status, billing)
<1>1. c \in Categories
  <2>1. \A t, n, b : classifyProviderFailure(t, n, b) \in Categories
    BY DEF classifyProviderFailure, Categories
  <2> QED
    BY <2>1 DEF classifyProbeFailure, Categories
<1>2. /\ MonitorInv(h) /\ h.flight = "current"
      /\ h' = settleProbe(probeFailed(h, c, retryAfter, jitter))
      /\ UNCHANGED <<run, work, left, asked>>
  BY DEF ProbeFails, Answers, ServiceInv
<1> HIDE DEF c
<1>3. /\ MonitorInv(h') /\ Watched(h') /\ h'.flight = "none"
      /\ h'.bound = h.bound /\ h'.susp = h.susp
  BY <1>1, <1>2, ProbeFailedFacts
<1> QED
  BY <1>2, <1>3 DEF ServiceInv, BudgetKept, Covers, Had

LEMMA ProbeInconclusiveKeeps ==
  ASSUME ServiceInv, NEW jitter, ProbeInconclusive(jitter)
  PROVE  ServiceInv'
<1> DEFINE g == withFailure(h, "unknown", Off)
           t == tick(g, run, work, jitter)
<1>1. classifyProbeFailure(FALSE, 404, FALSE) = "unknown"
  BY DEF classifyProbeFailure
<1>2. /\ MonitorInv(g) /\ canDispatch(g) /\ g.planned = Off /\ g.state # "healthy"
      /\ g.flight = "current" /\ g.bound = h.bound /\ g.susp = h.susp
  BY GateFacts DEF ServiceInv, ProbeInconclusive, Answers, Categories
<1>3. handleHealthy(g, jitter) = t
  BY <1>2 DEF handleHealthy, autoResumeAllowed
<1>4. Become([t EXCEPT !.h = settleProbe(t.h)]) /\ UNCHANGED <<left, asked>>
  BY <1>1, <1>3 DEF ProbeInconclusive
<1> HIDE DEF g
<1>5. /\ t.h = g /\ t.work \in Nat
      /\ t = [h |-> t.h, run |-> t.run, work |-> t.work]
      /\ t.run = run \/ (run.phase = "none" /\ t.run = FreshRun)
  BY <1>2, TickFacts DEF ServiceInv
<1> HIDE DEF t
<1>6. /\ MonitorInv(settleProbe(g)) /\ SameGate(g, settleProbe(g))
      /\ settleProbe(g).flight = "none"
  BY <1>2, SettleFacts
<1>7. h' = settleProbe(g) /\ run' = t.run /\ work' = t.work
  BY <1>4, <1>5 DEF Become
<1> QED
  BY <1>2, <1>4, <1>5, <1>6, <1>7, OpenedKeeps DEF SameGate, canDispatch

\* The process dies: a suspension on disk comes back bound and watched, with the
\* attempts it had; everything else starts with an open gate.
LEMMA CrashAndBootKeeps ==
  ASSUME ServiceInv, NEW jitter \in {0, 1}, CrashAndBoot(jitter)
  PROVE  ServiceInv'
<1> DEFINE back == CASE run.phase = "running" -> FreshRun
                     [] run.phase \in {"suspending", "resuming"} ->
                          [run EXCEPT !.phase = "suspended", !.byProbe = FALSE]
                     [] run.phase = "suspended" -> [run EXCEPT !.record = h.susp]
                     [] OTHER -> run
           boot == IF back.phase = "suspended" THEN bind(InitialHealth, back.record, jitter)
                   ELSE InitialHealth
           t == tick(boot, back, work, jitter)
<1>1. /\ Become(t) /\ asked' = FALSE
      /\ left' = IF run.phase = "running" THEN left + MaxAutoResumes ELSE left
  BY Zenon DEF CrashAndBoot, GrantedAgain
<1>2. MaxAutoResumes \in Nat /\ work \in Nat /\ run \in RunType
  BY HealthBounds DEF ServiceInv
<1>3. /\ back \in RunType
      /\ back.phase = "suspended" <=> run.phase \in {"suspending", "resuming", "suspended"}
      /\ run.phase \in {"suspending", "resuming"} => back.record = run.record
      /\ run.phase = "suspended" => back.record = h.susp
      /\ run.phase = "running" => back = FreshRun
      /\ run.phase \in {"none", "paused"} => back = run
  <2>1. h.susp \in SuspType
    BY DEF ServiceInv, MonitorInv, HealthType
  <2>2. CASE run.phase = "running"
    BY <2>2, FreshFacts
  <2>3. CASE run.phase \in {"suspending", "resuming"}
    <3>1. back = [run EXCEPT !.phase = "suspended", !.byProbe = FALSE]
      BY <2>3
    <3> QED
      BY <1>2, <2>3, <3>1 DEF RunType
  <2>4. CASE run.phase = "suspended"
    <3>1. back = [run EXCEPT !.record = h.susp]
      BY <2>4
    <3> QED
      BY <1>2, <2>1, <2>4, <3>1 DEF RunType
  <2>5. CASE run.phase \in {"none", "paused"}
    <3>1. back = run
      BY <2>5
    <3> QED
      BY <1>2, <2>5, <3>1
  <2> QED
    BY <1>2, <2>2, <2>3, <2>4, <2>5 DEF RunType
<1> HIDE DEF back
<1>4. CASE back.phase = "suspended"
  <2>1. back.record \in SuspType /\ Covers(back.record)
    BY <1>3, <1>4 DEF ServiceInv, BudgetKept, Had, RunType
  <2>2. /\ MonitorInv(boot) /\ Watched(boot) /\ boot.bound /\ boot.susp = back.record
        /\ boot.flight # "current"
    BY <1>4, <2>1, BootHealth, BindFacts
  <2> HIDE DEF boot
  <2>3. t.h = boot /\ t.work \in Nat /\ t.run = back
    BY <1>2, <1>4, <2>2, TickFacts
  <2>4. h' = boot /\ run' = back /\ work' \in Nat /\ left' = left
    BY <1>1, <1>3, <1>4, <2>3 DEF Become
  <2> QED
    BY <1>1, <1>3, <1>4, <2>1, <2>2, <2>4 DEF ServiceInv, BudgetKept, Covers, Had
<1>5. CASE back.phase # "suspended"
  <2>1. boot = InitialHealth
    BY <1>5
  <2> HIDE DEF boot
  <2>2. /\ t.h = boot /\ t.work \in Nat
        /\ t.run = back \/ (back.phase = "none" /\ t.run = FreshRun)
    BY <1>2, <2>1, BootHealth, TickFacts
  <2>3. h' = InitialHealth /\ run' \in {back, FreshRun} /\ work' \in Nat
    BY <1>1, <2>1, <2>2 DEF Become
  <2>4. run' = back \/ (back.phase = "none" /\ run' = FreshRun)
    BY <1>1, <2>2 DEF Become
  <2>5. run.phase \in {"running", "none", "paused"}
    BY <1>2, <1>3, <1>5 DEF RunType
  <2>6. /\ left' \in Nat
        /\ run'.phase = "running" => Had' <= 0
        /\ run'.phase = "none" => Had' = 0
    BY <1>1, <1>2, <1>3, <2>4, <2>5, FreshFacts DEF ServiceInv, BudgetKept, Had
  <2>7. run' \in RunType /\ run'.phase \in {"running", "none", "paused"}
        /\ (run'.phase = "running" => run'.prior = 0)
    BY <1>3, <2>4, <2>5, FreshFacts
  <2> QED
    BY <1>1, <2>3, <2>6, <2>7, BootHealth DEF ServiceInv, BudgetKept, Had
<1> QED
  BY <1>4, <1>5

LEMMA ServiceStep == ServiceInv /\ [Step]_pvars => ServiceInv'
<1> SUFFICES ASSUME ServiceInv, [Step]_pvars PROVE ServiceInv'
  OBVIOUS
<1>1. CASE UNCHANGED pvars
  BY <1>1 DEF pvars, ServiceInv, BudgetKept, Covers, Had
<1>2. CASE RunningMetaLands \/ RoleSucceeds \/ OperatorPause \/ ResumePaused
           \/ TimePasses \/ TimerFires \/ StaleProbeAnswers
  BY <1>2, RunningMetaLandsKeeps, RoleSucceedsKeeps, OperatorPauseKeeps,
     ResumePausedKeeps, TimePassesKeeps, TimerFiresKeeps, StaleProbeKeeps
<1>3. ASSUME NEW to, ProviderChanges(to) PROVE ServiceInv'
  BY <1>3 DEF ProviderChanges, ServiceInv, BudgetKept, Covers, Had
<1>4. ASSUME NEW category \in {"transient", "billing", "auth", "request_rejected"},
             NEW due \in {"none", "now", "soon", "later"}, RoleFails(category, due)
      PROVE  ServiceInv'
  BY <1>4, RoleFailsKeeps DEF Categories, Dues
<1>5. ASSUME NEW jitter \in Jitter,
             \/ Enqueue(jitter) \/ SettleSuspended(jitter) \/ RunEnds(jitter)
             \/ ExplicitResume(jitter) \/ Terminate(jitter)
             \/ ProbeSucceeds(jitter) \/ AutoResumeRefused(jitter)
             \/ ProbeInconclusive(jitter) \/ CrashAndBoot(jitter)
      PROVE  ServiceInv'
  <2>1. jitter \in {0, 1}
    BY JitterAssumption
  <2> QED
    BY <1>5, <2>1, EnqueueKeeps, SettleSuspendedKeeps, RunEndsKeeps,
       ExplicitResumeKeeps, TerminateRunKeeps, ProbeSucceedsKeeps,
       AutoResumeRefusedKeeps, ProbeInconclusiveKeeps, CrashAndBootKeeps
<1>6. ASSUME NEW jitter \in Jitter, NEW status, NEW billing \in BOOLEAN,
             NEW retryAfter \in RetryAfter, ProbeFails(status, billing, retryAfter, jitter)
      PROVE  ServiceInv'
  BY <1>6, JitterAssumption, ProbeFailsKeeps
<1> QED
  BY <1>1, <1>2, <1>3, <1>4, <1>5, <1>6 DEF Step

THEOREM ServiceInvariance == ProviderSpec => []ServiceInv
  BY InitService, ServiceStep, PTL DEF ProviderSpec

\* A closed gate is always being probed or about to be, and no probe timer leaves the
\* range of the backoff, for any number of failures, suspensions and crashes.
THEOREM ClosedGateIsAlwaysProbed == ProviderSpec => []ProbeIsComing
<1>1. ServiceInv => ProbeIsComing
  <2> SUFFICES ASSUME ServiceInv PROVE ProbeIsComing
    OBVIOUS
  <2>1. ClosedGateIsProbed
    BY DEF ServiceInv, ClosedGateIsProbed, Probing, Watched, Idle
  <2>2. ProbeTimerSane
    BY DEF ServiceInv, MonitorInv, ProbeTimerSane, Sane
  <2> QED
    BY <2>1, <2>2 DEF ProbeIsComing
<1> QED
  BY <1>1, ServiceInvariance, PTL

\* A run is resumed by itself at most as often as it was granted: MaxAutoResumes times, and
\* as many more only for each time its attempts were forgotten, which no resume of a
\* suspension, restart while suspended, downgrade or refusal does.
THEOREM AutoResumesAreBounded == ProviderSpec => []ResumeBudget
<1>1. ServiceInv => ResumeBudget
  BY DEF ServiceInv, BudgetKept, Had, ResumeBudget
<1> QED
  BY <1>1, ServiceInvariance, PTL

\* Only a probe sent after the suspension was noticed resumes its run.
THEOREM OnlyFreshProbesResume == ProviderSpec => ResumeNeedsFreshProbe
<1>1. ASSUME ServiceInv, [Step]_pvars
      PROVE  [run.phase = "suspended" /\ run'.phase = "resuming" /\ run'.byProbe
              => asked]_pvars
  <2> SUFFICES ASSUME run.phase = "suspended", run'.phase = "resuming", run'.byProbe,
                      Step
               PROVE  asked
    BY <1>1 DEF pvars
  <2>1. work \in Nat /\ work + 1 \in Nat /\ (canDispatch(h) \/ Watched(h))
    BY <1>1 DEF ServiceInv
  <2>2. Answers => asked
    BY <1>1 DEF Answers, ServiceInv
  <2>3. \A jitter : ~Enqueue(jitter)
    <3> SUFFICES ASSUME NEW jitter, Enqueue(jitter) PROVE FALSE
      OBVIOUS
    <3>1. LET t == tick(h, run, work + 1, jitter)
          IN  t.run = run \/ (run.phase = "none" /\ t.run = FreshRun)
      BY <2>1, TickFacts
    <3> QED
      BY <3>1 DEF Enqueue, Become
  <2>4. \A jitter : ~SettleSuspended(jitter) /\ ~RunEnds(jitter) /\ ~ExplicitResume(jitter)
    BY DEF SettleSuspended, RunEnds, ExplicitResume, Resumed
  <2>5. \A jitter \in {0, 1} : ~Terminate(jitter)
    <3> SUFFICES ASSUME NEW jitter \in {0, 1}, Terminate(jitter) PROVE FALSE
      OBVIOUS
    <3> DEFINE g == releaseSuspension(h, jitter)
    <3>1. Become(tick(g, NoRun, work, jitter))
      BY DEF Terminate
    <3> HIDE DEF g
    <3>2. tick(g, NoRun, work, jitter).run \in {NoRun, FreshRun}
      BY <2>1, TickOfFreeSlot
    <3> QED
      BY <3>1, <3>2, FreshFacts DEF Become
  <2>6. \A jitter \in {0, 1} : ~CrashAndBoot(jitter)
    <3> SUFFICES ASSUME NEW jitter \in {0, 1}, CrashAndBoot(jitter) PROVE FALSE
      OBVIOUS
    <3> DEFINE back == [run EXCEPT !.record = h.susp]
               boot == bind(InitialHealth, back.record, jitter)
    <3>1. back.phase = "suspended" /\ back.record = h.susp /\ h.susp \in SuspType
      BY <1>1 DEF ServiceInv, RunType, MonitorInv, HealthType
    <3>2. Become(tick(boot, back, work, jitter))
      BY <3>1 DEF CrashAndBoot
    <3>3. Watched(boot)
      BY <3>1, BootHealth, BindFacts
    <3> HIDE DEF boot, back
    <3>4. LET t == tick(boot, back, work, jitter)
          IN  t.run = back \/ (back.phase = "none" /\ t.run = FreshRun)
      BY <2>1, <3>3, TickFacts
    <3> QED
      BY <3>1, <3>2, <3>4 DEF Become
  <2>7. ~RunningMetaLands /\ ~RoleSucceeds /\ ~OperatorPause /\ ~ResumePaused
        /\ ~TimePasses /\ ~TimerFires /\ ~StaleProbeAnswers
    BY DEF RunningMetaLands, RoleSucceeds, OperatorPause, ResumePaused, TimePasses,
           TimerFires, StaleProbeAnswers
  <2>8. \A c, d : ~RoleFails(c, d)
    BY DEF RoleFails
  <2>9. \A to : ~ProviderChanges(to)
    BY DEF ProviderChanges
  <2>10. \A jitter : ProbeSucceeds(jitter) \/ AutoResumeRefused(jitter)
                     \/ ProbeInconclusive(jitter) => asked
    BY <2>2 DEF ProbeSucceeds, AutoResumeRefused, ProbeInconclusive
  <2>11. \A s, b, r, jitter : ProbeFails(s, b, r, jitter) => asked
    BY <2>2 DEF ProbeFails
  <2> QED
    BY <2>3, <2>4, <2>5, <2>6, <2>7, <2>8, <2>9, <2>10, <2>11, JitterAssumption,
       Zenon DEF Step
<1> QED
  BY <1>1, ServiceInvariance, PTL DEF ProviderSpec, ResumeNeedsFreshProbe

-----------------------------------------------------------------------------
(* One model call.                                                         *)

CallType == [phase: {"idle", "connect", "stream", "sleep", "done"}, attempt: Nat,
             items: BOOLEAN, fresh: BOOLEAN, lines: Nat, emitted: Nat,
             ended: {"none", "failed", "empty"}]

\* The client's text is of one attempt; while the attempt streams it is that attempt's
\* as soon as the first delta has replaced what an earlier one left.  An attempt that
\* is about to connect has produced nothing yet.
CallInv ==
  /\ call \in CallType /\ shown \in Seq(Nat)
  /\ \A i, j \in 1..Len(shown) : shown[i] = shown[j]
  /\ call.phase = "stream" =>
       /\ call.fresh => call.emitted = 0
       /\ ~call.fresh =>
            /\ call.emitted > 0 /\ Len(shown) = call.emitted
            /\ shown[1] = call.attempt
  /\ call.phase = "connect" => ~call.items
  /\ call.phase = "sleep" /\ call.items => call.ended = "empty"

LEMMA InitCall == LlmInit => CallInv
  BY DEF LlmInit, CallInv, CallType, NoCall

\* The end of an attempt.
LEMMA ReturnKeeps ==
  ASSUME CallInv, NEW r, Return(r)
  PROVE  CallInv'
<1>1. call' = [call EXCEPT !.phase = "done"] /\ shown' = shown
  BY DEF Return
<1>2. call' \in CallType /\ call'.phase = "done"
  BY <1>1 DEF CallInv, CallType
<1> QED
  BY <1>1, <1>2 DEF CallInv

LEMMA SleepKeeps ==
  ASSUME CallInv, NEW e \in {"failed", "empty"}, SleepBeforeRetry(e),
         e = "empty" \/ ~call.items
  PROVE  CallInv'
<1>1. call' = [call EXCEPT !.phase = "sleep", !.ended = e] /\ shown' = shown
  BY DEF SleepBeforeRetry
<1>2. /\ call' \in CallType /\ call'.phase = "sleep" /\ call'.ended = e
      /\ call'.items = call.items
  BY <1>1 DEF CallInv, CallType
<1> QED
  BY <1>1, <1>2 DEF CallInv

\* A delta of text: the first of an attempt replaces what the client shows, the others
\* extend it.
LEMMA StreamLineKeeps ==
  ASSUME CallInv, NEW line, StreamLine(line)
  PROVE  CallInv'
<1>1. /\ call.phase = "stream"
      /\ call' = [call EXCEPT !.lines = @ + 1, !.items = @ \/ FillsSlot(line),
                              !.fresh = @ /\ line # "text",
                              !.emitted = IF line = "text" THEN @ + 1 ELSE @]
  BY DEF StreamLine
<1> DEFINE items == call.items \/ FillsSlot(line)
           fresh == call.fresh /\ line # "text"
           lines == call.lines + 1
           counted == IF line = "text" THEN call.emitted + 1 ELSE call.emitted
<1>2. items \in BOOLEAN /\ fresh \in BOOLEAN /\ lines \in Nat /\ counted \in Nat
  BY DEF CallInv, CallType, FillsSlot
<1>3. call' = [call EXCEPT !.lines = lines, !.items = items, !.fresh = fresh,
                           !.emitted = counted]
  BY <1>1, Zenon
<1> HIDE DEF items, fresh, lines, counted
<1>4. /\ call' \in CallType /\ call'.phase = "stream" /\ call'.attempt = call.attempt
      /\ call'.emitted = counted /\ call'.fresh = fresh
  BY <1>1, <1>2, <1>3 DEF CallInv, CallType
<1> USE DEF fresh, counted
<1>5. CASE line # "text"
  <2>1. shown' = shown
    BY <1>5 DEF StreamLine
  <2> QED
    BY <1>1, <1>4, <1>5, <2>1 DEF CallInv
<1>6. CASE line = "text" /\ call.fresh
  <2>1. shown' = <<call.attempt>>
    BY <1>6 DEF StreamLine, emitAttemptDelta
  <2>2. call.attempt \in Nat
    BY DEF CallInv, CallType
  <2>3. shown' \in Seq(Nat) /\ Len(shown') = 1 /\ shown'[1] = call.attempt
    BY <2>1, <2>2
  <2>4. \A i, j \in 1..Len(shown') : shown'[i] = shown'[j]
    BY <2>3
  <2>5. ~call'.fresh /\ call'.emitted = 1
    <3>1. call.emitted = 0
      BY <1>1, <1>6 DEF CallInv
    <3>2. counted = 1 /\ ~fresh
      BY <1>6, <3>1
    <3> QED
      BY <1>4, <3>2
  <2> QED
    BY <1>4, <2>3, <2>4, <2>5 DEF CallInv
<1>7. CASE line = "text" /\ ~call.fresh
  <2>1. shown' = Append(shown, call.attempt)
    BY <1>7 DEF StreamLine, emitAttemptDelta
  <2>2. call.attempt \in Nat /\ shown \in Seq(Nat) /\ Len(shown) = call.emitted
        /\ call.emitted > 0 /\ shown[1] = call.attempt
    BY <1>1, <1>7 DEF CallInv, CallType
  <2>3. /\ shown' \in Seq(Nat) /\ Len(shown') = Len(shown) + 1
        /\ \A i \in 1..Len(shown) : shown'[i] = shown[i]
        /\ shown'[Len(shown) + 1] = call.attempt
    BY <2>1, <2>2
  <2>4. \A i \in 1..Len(shown') : shown'[i] = call.attempt
    <3>1. \A i \in 1..Len(shown) : shown[i] = call.attempt
      BY <2>2 DEF CallInv
    <3> QED
      BY <2>2, <2>3, <3>1
  <2>5. ~call'.fresh /\ call'.emitted = call.emitted + 1 /\ call.emitted \in Nat
    BY <1>4, <1>7 DEF CallInv, CallType
  <2>6. /\ call'.emitted > 0 /\ Len(shown') = call'.emitted
        /\ 1 \in 1..Len(shown')
    BY <2>2, <2>3, <2>5
  <2>7. \A i, j \in 1..Len(shown') : shown'[i] = shown'[j]
    BY <2>4
  <2>8. shown'[1] = call'.attempt
    BY <1>4, <2>4, <2>6
  <2> QED
    BY <1>4, <2>3, <2>5, <2>6, <2>7, <2>8 DEF CallInv
<1>8. call.fresh \in BOOLEAN
  BY DEF CallInv, CallType
<1> QED
  BY <1>5, <1>6, <1>7, <1>8

LEMMA CallStep ==
  CallInv /\ [StartCall \/ LlmStep \/ TakeResult]_llmVars => CallInv'
<1> SUFFICES ASSUME CallInv, [StartCall \/ LlmStep \/ TakeResult]_llmVars PROVE CallInv'
  OBVIOUS
<1>1. CASE UNCHANGED llmVars
  BY <1>1 DEF llmVars, CallInv
<1>2. CASE StartCall
  <2>1. call' \in CallType /\ call'.phase = "connect" /\ ~call'.items /\ shown' = shown
    BY <1>2 DEF StartCall, NoCall, CallType
  <2> QED
    BY <2>1 DEF CallInv
<1>3. CASE TakeResult
  <2>1. call' \in CallType /\ call'.phase = "idle" /\ shown' = shown
    BY <1>3 DEF TakeResult, NoCall, CallType
  <2> QED
    BY <2>1 DEF CallInv
<1>4. CASE ConnectFails
  BY <1>4, ReturnKeeps, SleepKeeps DEF ConnectFails, CallInv
<1>5. ASSUME NEW status, NEW billing, NEW keyword, NEW retryAfter,
             HttpError(status, billing, keyword, retryAfter)
      PROVE  CallInv'
  BY <1>5, ReturnKeeps, SleepKeeps DEF HttpError, CallInv
<1>6. CASE StreamOpens
  <2>1. /\ call' \in CallType /\ call'.phase = "stream" /\ call'.fresh
        /\ call'.emitted = 0 /\ shown' = shown
    BY <1>6 DEF StreamOpens, CallInv, CallType
  <2> QED
    BY <2>1 DEF CallInv
<1>7. CASE WakeForRetry
  <2> DEFINE n == call.attempt + 1
  <2>1. n \in Nat
    BY DEF CallInv, CallType
  <2>2. /\ call' = [call EXCEPT !.phase = "connect", !.attempt = n, !.items = FALSE,
                                !.fresh = TRUE, !.lines = 0, !.emitted = 0, !.ended = "none"]
        /\ shown' = shown
    BY <1>7, Zenon DEF WakeForRetry
  <2> HIDE DEF n
  <2>3. call' \in CallType /\ call'.phase = "connect" /\ ~call'.items
    BY <2>1, <2>2 DEF CallInv, CallType
  <2> QED
    BY <2>2, <2>3 DEF CallInv
<1>8. ASSUME NEW line, StreamLine(line) PROVE CallInv'
  BY <1>8, StreamLineKeeps
<1>9. ASSUME NEW r, StreamCompletes(r) PROVE CallInv'
  BY <1>9, ReturnKeeps, SleepKeeps DEF StreamCompletes
<1>10. CASE StreamEndsEarly
  BY <1>10, ReturnKeeps DEF StreamEndsEarly
<1>11. ASSUME NEW numeric, NEW textual, NEW billing,
              StreamReportsError(numeric, textual, billing)
       PROVE  CallInv'
  BY <1>11, ReturnKeeps DEF StreamReportsError
<1>12. ASSUME NEW how, StreamBreaks(how) PROVE CallInv'
  BY <1>12, ReturnKeeps, SleepKeeps DEF StreamBreaks, MayRetryStream
<1> QED
  BY <1>1, <1>2, <1>3, <1>4, <1>5, <1>6, <1>7, <1>8, <1>9, <1>10, <1>11, <1>12
     DEF LlmStep

\* What a client of the delta stream shows is of one attempt, and no attempt is made
\* again behind output, for any number of attempts and any stream.
THEOREM OneAttemptIsShown == LlmSpec => []OutputIsOfOneAttempt
<1>1. CallInv => OutputIsOfOneAttempt
  <2> SUFFICES ASSUME CallInv PROVE OutputIsOfOneAttempt
    OBVIOUS
  <2>1. ShownIsOneAttempt
    <3>1. DOMAIN shown = 1..Len(shown)
      BY DEF CallInv
    <3>2. call.fresh \in BOOLEAN /\ call.emitted \in Nat
      BY DEF CallInv, CallType
    <3> QED
      BY <3>1, <3>2 DEF CallInv, ShownIsOneAttempt
  <2>2. NoReplayAfterOutput
    BY DEF CallInv, NoReplayAfterOutput
  <2> QED
    BY <2>1, <2>2 DEF OutputIsOfOneAttempt
<1> QED
  BY <1>1, InitCall, CallStep, PTL DEF LlmSpec
=============================================================================
