-------------------------------- MODULE MCBoot --------------------------------
(***************************************************************************)
(* The boot over every state directory a build may leave behind, the ones  *)
(* with several unfinished runs included: the service never makes those    *)
(* itself (SingleRun), yet the reconciliation is written for them.         *)
(***************************************************************************)
EXTENDS Orchestrator

LeftMeta(status, kind) ==
  [NoMeta EXCEPT !.status = status, !.task = CHOOSE t \in Tasks : TRUE,
                 !.kind = kind]
LeftMetas ==
  {NoMeta, [NoMeta EXCEPT !.status = "nometa"], LeftMeta("running", "none"),
   LeftMeta("suspended", "provider"), LeftMeta("suspended", "operator"),
   LeftMeta("success", "none"), LeftMeta("error", "none")}

PlainCkpt == [NoCkpt EXCEPT !.has = TRUE]
LeftCkpts ==
  {NoCkpt, PlainCkpt, [PlainCkpt EXCEPT !.call = 1, !.question = 1],
   [PlainCkpt EXCEPT !.suspension = TRUE], [PlainCkpt EXCEPT !.pause = TRUE]}

\* A checkpoint needs a run that could have written one.
LeftRuns ==
  {p \in LeftMetas \X LeftCkpts :
     p[2] # NoCkpt => p[1].status \in {"running", "suspended", "error"}}

\* The only item, if any, is bound to a run that has a directory, or is a marker.
LeftItems ==
  LET it == NormalizeNewItem(CHOOSE t \in Tasks : TRUE, None) IN
    {NoItem, DispatchingItem(it)} \cup {BoundItem(it, r) : r \in Runs}
    \cup {SuspendedItem(it, r) : r \in Runs}

\* Bounds, as events used up before. From an empty directory two questions, answers and
\* crashes; after a leftover one question and an answer or a lost checkpoint with a crash,
\* or both without one: the repair after a crash takes the lost checkpoint of an answered
\* item for a delivery. Losses past MaxLosses bar them. Answers used up were heard.
Barred == MaxLosses + 1
FromEmpty == [asks |-> 0, answers |-> 0, crashes |-> 0, losses |-> Barred, edits |-> 0]
FromLeftover ==
  LET Late == [FromEmpty EXCEPT !.asks = 1, !.answers = 1, !.crashes = 1, !.edits = MaxEdits] IN
  {Late, [Late EXCEPT !.answers = MaxAnswers, !.losses = 0], [Late EXCEPT !.crashes = MaxCrashes, !.losses = 0]}

BootInit ==
  /\ \E runs \in [Runs -> LeftRuns] :
       /\ meta = [r \in Runs |-> runs[r][1]]
       /\ ckpt = [r \in Runs |-> runs[r][2]]
  /\ \A r, q \in Runs : r < q /\ meta[q] # NoMeta => meta[r] # NoMeta
  /\ pauseReq \in SUBSET {r \in Runs : meta[r].status = "running"}
  /\ item \in [Items -> LeftItems]
  /\ order = IF item[1] = NoItem THEN << >> ELSE <<1>>
  /\ count \in IF meta[1] = NoMeta /\ item[1] = NoItem THEN {FromEmpty} ELSE FromLeftover
  /\ heard = [r \in Runs |-> 1 .. count.answers] /\ dirty = {}
  /\ phase = "down" /\ pc = Idle
  /\ active = None /\ live = NoLive /\ pauseSignal = FALSE
  /\ paused = NoPaused /\ probing = FALSE
  /\ gate = TRUE /\ shutdown = FALSE /\ scan = {}
  /\ sleepers = << >> /\ secondTaken = FALSE

BootSpec == BootInit /\ [][Next]_vars

\* Whatever was left behind, the pause a boot adopts can be resumed, as long as no
\* checkpoint has become unreadable since.
AdoptedIsResumable == count.losses \in {0, Barred} => PausedIsResumable
\* What the boot settles of a leftover agrees with the queue file and loses no answer
\* given before the crash or after it.
BootKeepsTheFile == AnswersKept /\ FileMatchesRuns

\* A run that could have gone on is given up at boot only for one that outranks
\* it: a pause for a newer pause, a resumable run for a pause or for a newer run.
GivenUp(r, status) == meta[r].status = status /\ meta'[r].status = "interrupted"
NewestWins ==
  [][\A r \in Runs : At("scan") /\ Usable(r) =>
       /\ GivenUp(r, "suspended") =>
            \E q \in Runs : q > r /\ meta'[q].status = "suspended"
       /\ GivenUp(r, "running") =>
            \E q \in Runs : meta'[q].status = "suspended"
                              \/ (q > r /\ meta'[q].status = "running")]_vars
=============================================================================
