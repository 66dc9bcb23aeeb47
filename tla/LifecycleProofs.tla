--------------------------- MODULE LifecycleProofs ---------------------------
(***************************************************************************)
(* What the service writes, for any number of items, runs, retries,        *)
(* overlapping dispatch cycles, crashes and requests: every field keeps    *)
(* its type, what the item rebuilds of executor/queue/model.ts preserve,   *)
(* every entry passes the reader's guard, every step is a move of the task *)
(* lifecycle that the document promises, and the file lists every entry    *)
(* once.  The facts about the event loop that the other proofs of the      *)
(* service rest on are the first part.                                     *)
(***************************************************************************)
EXTENDS Orchestrator, SequenceTheorems, FiniteSetTheorems, TLAPS

-----------------------------------------------------------------------------
(* Field types.                                                            *)

\* normalizeNewItem builds a well-typed entry.
LEMMA NewItemType ==
  ASSUME NEW T, NEW R, None \in R, NEW t \in T, NEW c \in R
  PROVE  NormalizeNewItem(t, c) \in ItemType(T, R)
  BY DEF NormalizeNewItem, ItemType, FileStatus, None

\* carriedFields keeps the types.
LEMMA CarriedType ==
  ASSUME NEW T, NEW R, None \in R, NEW it \in ItemType(T, R)
  PROVE  CarriedFields(it) \in ItemType(T, R)
  BY DEF CarriedFields, NormalizeNewItem, ItemType, FileStatus, None

\* So do the rebuilds that keep the resume pointers.
LEMMA KeepPointersType ==
  ASSUME NEW T, NEW R, None \in R, NEW it \in ItemType(T, R)
  PROVE  /\ ReleaseToWaiting(it) \in ItemType(T, R)
         /\ DispatchingItem(it) \in ItemType(T, R)
         /\ \A r \in R : ReleaseContinuing(it, r) \in ItemType(T, R)
  BY DEF ReleaseToWaiting, DispatchingItem, ReleaseContinuing, KeepPointers,
         CarriedFields, NormalizeNewItem, ItemType, FileStatus, None

\* And the ones that drop them.
LEMMA DropPointersType ==
  ASSUME NEW T, NEW R, None \in R, NEW it \in ItemType(T, R)
  PROVE  /\ CancelledItem(it) \in ItemType(T, R)
         /\ RequeuedItem(it) \in ItemType(T, R)
         /\ \A r \in R : /\ BriefedFallback(it, r) \in ItemType(T, R)
                         /\ BoundItem(it, r) \in ItemType(T, R)
                         /\ SuspendedItem(it, r) \in ItemType(T, R)
  BY DEF CancelledItem, RequeuedItem, BriefedFallback, BoundItem, SuspendedItem,
         CarriedFields, NormalizeNewItem, ItemType, FileStatus, None

\* recordAnswer keeps the types.
LEMMA RecordAnswerType ==
  ASSUME NEW T, NEW R, None \in R, NEW it \in ItemType(T, R),
         NEW a \in Nat, NEW r \in R, NEW c \in Nat
  PROVE  RecordAnswer(it, a, r, c) \in ItemType(T, R)
  BY DEF RecordAnswer, CarriedFields, NormalizeNewItem, ItemType, FileStatus,
         None

\* settledItem of a run that ended in a way the queue maps.
LEMMA SettledType ==
  ASSUME NEW T, NEW R, None \in R, NEW it \in ItemType(T, R), NEW r \in R,
         NEW m, m.status \in SettleableStatus, m.question \in Nat
  PROVE  SettledItem(it, m, r) \in ItemType(T, R)
  BY DEF SettledItem, MappedStatus, SettleableStatus, NormalizeNewItem, ItemType,
         FileStatus, None

\* What the reader of a run directory can report of its meta.
ReadableStatus == {"none", "running", "suspended", "interrupted"}
                  \cup SettleableStatus

\* The repairs of a bound active, a marker, a suspended and a needs_input item.
LEMMA RepairType ==
  ASSUME NEW T, NEW R, None \in R, NEW it \in ItemType(T, R),
         NEW m, m.status \in ReadableStatus, m.question \in Nat, NEW p
  PROVE  /\ RepairBoundActive(it, m, p) \in ItemType(T, R)
         /\ RepairSuspended(it, m) \in ItemType(T, R)
         /\ RepairNeedsInput(it, m) \in ItemType(T, R)
<1>1. it.runId \in R
  BY DEF ItemType
<1>2. /\ ReleaseToWaiting(it) \in ItemType(T, R)
      /\ ReleaseContinuing(it, it.runId) \in ItemType(T, R)
      /\ SuspendedItem(it, it.runId) \in ItemType(T, R)
      /\ BoundItem(it, it.runId) \in ItemType(T, R)
      /\ CancelledItem(it) \in ItemType(T, R)
  BY <1>1, KeepPointersType, DropPointersType
<1>3. ASSUME m.status \in SettleableStatus
      PROVE  SettledItem(it, m, it.runId) \in ItemType(T, R)
  BY <1>1, <1>3, SettledType
<1>4. RepairBoundActive(it, m, p) \in ItemType(T, R)
  BY <1>2, <1>3 DEF RepairBoundActive, ReadableStatus, SettleableStatus
<1>5. RepairSuspended(it, m) \in ItemType(T, R)
  BY <1>2, <1>3 DEF RepairSuspended, ReadableStatus, SettleableStatus
<1>6. RepairNeedsInput(it, m) \in ItemType(T, R)
  BY <1>2 DEF RepairNeedsInput
<1> QED
  BY <1>4, <1>5, <1>6

\* repairActiveItem of an unbound marker, bound or released, is a queue entry.
LEMMA RepairMarkerType ==
  ASSUME NEW T, NEW R, None \in R, NEW it \in ItemType(T, R), NEW r \in R, NEW t
  PROVE  RepairMarker(it, r, t) \in ItemType(T, R)
  BY KeepPointersType, DropPointersType DEF RepairMarker

-----------------------------------------------------------------------------
(* The reader's guard.                                                     *)

\* Releasing or re-marking an entry the reader accepts gives one it accepts.
LEMMA KeepPointersValid ==
  ASSUME NEW it, IsQueueItem(it)
  PROVE  /\ IsQueueItem(ReleaseToWaiting(it))
         /\ IsQueueItem(DispatchingItem(it))
         /\ \A r : IsQueueItem(ReleaseContinuing(it, r))
  BY DEF IsQueueItem, ReleaseToWaiting, DispatchingItem, ReleaseContinuing,
         KeepPointers, CarriedFields, NormalizeNewItem, FileStatus, None

\* The rebuilds that drop the resume pointers are accepted whatever the entry they
\* start from; a suspended one needs a run.
LEMMA DropPointersValid ==
  ASSUME NEW it
  PROVE  /\ IsQueueItem(CancelledItem(it))
         /\ IsQueueItem(RequeuedItem(it))
         /\ \A r : /\ IsQueueItem(BriefedFallback(it, r))
                   /\ IsQueueItem(BoundItem(it, r))
                   /\ r # None => IsQueueItem(SuspendedItem(it, r))
  BY DEF IsQueueItem, CancelledItem, RequeuedItem, BriefedFallback, BoundItem,
         SuspendedItem, CarriedFields, NormalizeNewItem, FileStatus, None

\* normalizeNewItem mints an entry the reader accepts.
LEMMA NewItemValid ==
  ASSUME NEW t, NEW c
  PROVE  IsQueueItem(NormalizeNewItem(t, c))
  BY DEF IsQueueItem, NormalizeNewItem, FileStatus, None

\* recordAnswer: a tool-call pointer never comes without a run pointer.
LEMMA RecordAnswerValid ==
  ASSUME NEW it, NEW a, a # None, NEW r, NEW c, c # None => r # None
  PROVE  IsQueueItem(RecordAnswer(it, a, r, c))
  BY DEF IsQueueItem, RecordAnswer, CarriedFields, NormalizeNewItem, FileStatus,
         None

\* settledItem of a run that ended is accepted: needs_input, done or error.
LEMMA SettledValid ==
  ASSUME NEW it, NEW m, m.status \in SettleableStatus, NEW r
  PROVE  IsQueueItem(SettledItem(it, m, r))
  BY DEF IsQueueItem, SettledItem, MappedStatus, SettleableStatus,
         NormalizeNewItem, FileStatus, None

\* The boot repairs never write an entry the reader would reject.
LEMMA RepairValid ==
  ASSUME NEW it, IsQueueItem(it), it.runId # None,
         NEW m, m.status \in ReadableStatus, NEW p
  PROVE  /\ IsQueueItem(RepairBoundActive(it, m, p))
         /\ IsQueueItem(RepairSuspended(it, m))
         /\ IsQueueItem(RepairNeedsInput(it, m))
<1>1. /\ IsQueueItem(ReleaseToWaiting(it))
      /\ IsQueueItem(ReleaseContinuing(it, it.runId))
      /\ IsQueueItem(SuspendedItem(it, it.runId))
      /\ IsQueueItem(BoundItem(it, it.runId))
      /\ IsQueueItem(CancelledItem(it))
  BY KeepPointersValid, DropPointersValid
<1>2. ASSUME m.status \in SettleableStatus
      PROVE  IsQueueItem(SettledItem(it, m, it.runId))
  BY <1>2, SettledValid
<1>3. IsQueueItem(RepairBoundActive(it, m, p))
  BY <1>1, <1>2 DEF RepairBoundActive, ReadableStatus, SettleableStatus
<1>4. IsQueueItem(RepairSuspended(it, m))
  BY <1>1, <1>2 DEF RepairSuspended, ReadableStatus, SettleableStatus
<1>5. IsQueueItem(RepairNeedsInput(it, m))
  BY <1>1 DEF RepairNeedsInput
<1> QED
  BY <1>3, <1>4, <1>5

\* The repair of an unbound marker writes an entry the reader accepts.
LEMMA RepairMarkerValid ==
  ASSUME NEW it, IsQueueItem(it), NEW r, NEW t
  PROVE  IsQueueItem(RepairMarker(it, r, t))
  BY KeepPointersValid, DropPointersValid DEF RepairMarker

-----------------------------------------------------------------------------
(* The event loop's continuations.                                         *)

\* What a section knows of the item and the run it is about: a dispatch has its
\* item, a start, a resume and a settlement have their run, and a run that settles
\* has an end the queue can map.  A paused binding names a run.
SectionOK ==
  /\ pc.at \in {"resumeAnswered", "startAnswered", "mark", "submit", "start",
                "bind"} => pc.i \in Items
  /\ pc.at \in {"resumeAnswered", "startAnswered", "start", "bind",
                "startResume", "cleanup", "settle"} => pc.r \in Runs
  /\ pc.at \in {"cleanup", "settle"} =>
       meta[pc.r].status \in SettleableStatus \cup {"suspended"}
  /\ paused.kind # "none" => paused.run \in Runs

TypeInv == TypeOK /\ SectionOK

\* None is a run id, and the ids and bounds are naturals.
LEMMA IdFacts ==
  /\ None \in RunIds /\ Runs \subseteq RunIds /\ RunIds = Runs \cup {None}
  /\ None \notin Runs /\ None \notin Items /\ RunIds \subseteq Nat
  /\ Questions \subseteq Nat /\ Lineage \subseteq RunIds /\ None \in Nat
  BY BoundsAssumption DEF RunIds, Runs, Items, None

\* The placeholder marker and the idle continuation are well typed.
LEMMA IdleType == NoMarker \in ItemType(Tasks, RunIds) /\ Idle \in PcType
<1>1. (CHOOSE t \in Tasks : TRUE) \in Tasks
  BY BoundsAssumption
<1>2. NoMarker \in ItemType(Tasks, RunIds)
  BY <1>1, IdFacts, NewItemType DEF NoMarker
<1>3. Idle \in PcType
  BY <1>2, IdFacts DEF Idle, PcType, Labels, Callers
<1> QED
  BY <1>2, <1>3

\* Entering a section from an idle loop.
LEMMA EnterType ==
  ASSUME NEW label \in Labels, NEW i \in Items \cup {None}, NEW r \in RunIds,
         NEW caller \in Callers, Enter(label, i, r, caller)
  PROVE  pc' \in PcType /\ pc'.at = label /\ pc'.i = i /\ pc'.r = r
         /\ pc'.caller = caller
  BY IdleType DEF Enter, PcType

\* Going on inside a section.
LEMMA GotoType ==
  ASSUME NEW label \in Labels, pc \in PcType, Goto(label)
  PROVE  pc' \in PcType /\ pc'.at = label /\ pc'.i = pc.i /\ pc'.r = pc.r
         /\ pc'.m = pc.m
  BY DEF Goto, PcType

\* Returning to whoever awaited the section.
LEMMA LeaveType ==
  ASSUME NEW caller \in Callers, NEW i \in Items \cup {None}, Leave(caller, i)
  PROVE  /\ pc' \in PcType /\ pc'.at \in {"afterNow", "tick", "idle"}
         /\ phase' \in {"up", phase}
  BY IdleType DEF Leave, PcType, Labels, Idle, Callers

\* The slot is filled with a well-typed live run.
LEMMA OccupyType ==
  ASSUME NEW r \in RunIds, NEW tracked \in BOOLEAN, NEW wrote \in BOOLEAN,
         NEW answer \in Nat, NEW delivered \in Nat,
         Occupy(r, tracked, wrote, answer, delivered)
  PROVE  active' = r /\ live' \in LiveType /\ pauseSignal' \in BOOLEAN
  BY DEF Occupy, LiveType

\* A released pause leaves no binding, or the one that was there for another run.
LEMMA ReleaseType ==
  ASSUME TypeOK, NEW r, ReleasePaused(r)
  PROVE  /\ paused' \in [run: RunIds, kind: PauseKind] /\ probing' \in BOOLEAN
         /\ paused' \in {NoPaused, paused}
         /\ paused.run = r => paused' = NoPaused
<1>1. paused' \in {NoPaused, paused} /\ (paused.run = r => paused' = NoPaused)
  BY DEF ReleasePaused, pauseVars
<1>2. probing' \in {TRUE, FALSE, ~gate, probing}
  BY Zenon DEF ReleasePaused, pauseVars
<1>3. probing' \in BOOLEAN
  BY <1>2 DEF TypeOK
<1>4. NoPaused \in [run: RunIds, kind: PauseKind]
  BY IdFacts DEF NoPaused, PauseKind
<1> QED
  BY <1>1, <1>3, <1>4 DEF TypeOK

\* The recorder's snapshot is a checkpoint.
LEMMA SnapshotType ==
  ASSUME TypeOK
  PROVE  Snapshot \in CkptType
  BY IdFacts DEF TypeOK, Snapshot, CkptType, NoCkpt, LiveType, None

\* A checkpoint write keeps the types of what it touches.
LEMMA CheckpointType ==
  ASSUME TypeOK, active # None, NEW c \in CkptType, NEW stage,
         stage \in {"none", "running", "parked", "suspending", "pausing"},
         Checkpoint(c, stage)
  PROVE  /\ ckpt' \in [Runs -> CkptType] /\ heard' \in [Runs -> SUBSET Nat]
         /\ live' \in LiveType
  BY IdFacts DEF TypeOK, Checkpoint, LiveType, None

\* An event that is counted is counted in a natural number.
LEMMA UsedType ==
  ASSUME TypeOK, NEW f, Used(f)
  PROVE  count' \in CountType
  BY DEF TypeOK, Used, CountType

-----------------------------------------------------------------------------
(* Reads and rebuilds of queue entries.                                    *)

\* What the reader of a run directory reports is something the repair can map.
LEMMA ReadMetaType ==
  ASSUME TypeOK, NEW r \in RunIds
  PROVE  ReadMeta(r).status \in ReadableStatus /\ ReadMeta(r).question \in Nat
  BY IdFacts DEF TypeOK, ReadMeta, MetaType, RunStatus, ReadableStatus,
                 SettleableStatus, None

\* The tool call of a reported pause is a natural, and only a run has one.
LEMMA PauseStateType ==
  ASSUME TypeOK, NEW r \in RunIds
  PROVE  PauseState(r).call \in Nat
         /\ (PauseState(r).kind \in {"parked_ask", "clarification"} => r \in Runs)
  BY IdFacts DEF TypeOK, PauseState, CkptType, None

\* The run an orphaned marker may bind to.
LEMMA UniqueRunningType == UniqueRunning \in RunIds
<1>1. CASE \E r \in Runs : IsUniqueRunning(r)
  BY <1>1, IdFacts DEF UniqueRunning
<1>2. CASE ~\E r \in Runs : IsUniqueRunning(r)
  BY <1>2, IdFacts DEF UniqueRunning
<1> QED
  BY <1>1, <1>2

\* The repair pass keeps the types of an entry.
LEMMA RepairedItemType ==
  ASSUME TypeOK, NEW it \in ItemType(Tasks, RunIds)
  PROVE  RepairedItem(it) \in ItemType(Tasks, RunIds)
<1>1. it.runId \in RunIds
  BY DEF ItemType
<1>2. ReadMeta(it.runId).status \in ReadableStatus
      /\ ReadMeta(it.runId).question \in Nat
  BY <1>1, ReadMetaType
<1>3. /\ RepairBoundActive(it, ReadMeta(it.runId), PauseState(it.runId))
           \in ItemType(Tasks, RunIds)
      /\ RepairSuspended(it, ReadMeta(it.runId)) \in ItemType(Tasks, RunIds)
      /\ RepairNeedsInput(it, ReadMeta(it.runId)) \in ItemType(Tasks, RunIds)
  BY <1>2, IdFacts, RepairType
<1>4. \A t : RepairMarker(it, UniqueRunning, t) \in ItemType(Tasks, RunIds)
  BY IdFacts, UniqueRunningType, RepairMarkerType
<1> QED
  BY <1>3, <1>4 DEF RepairedItem

\* One entry of the file is replaced.
LEMMA ReplaceType ==
  ASSUME TypeOK, NEW i, NEW it \in ItemType(Tasks, RunIds), Replace(i, it)
  PROVE  item' \in [Items -> ItemType(Tasks, RunIds)] /\ order' = order
  BY DEF TypeOK, Replace

\* What a settled run's item becomes.
LEMMA SettledAsType ==
  ASSUME TypeOK, NEW r \in Runs, NEW it \in ItemType(Tasks, RunIds),
         meta[r].status \in SettleableStatus \cup {"suspended"}
  PROVE  SettledAs(it, r) \in ItemType(Tasks, RunIds)
<1>1. r \in RunIds /\ None \in RunIds
  BY IdFacts
<1>2. /\ SuspendedItem(it, r) \in ItemType(Tasks, RunIds)
      /\ ReleaseToWaiting(it) \in ItemType(Tasks, RunIds)
  BY <1>1, DropPointersType, KeepPointersType
<1>3. ASSUME meta[r].status \in SettleableStatus
      PROVE  SettledItem(it, ReadMeta(r), r) \in ItemType(Tasks, RunIds)
  <2>1. ReadMeta(r).status \in SettleableStatus /\ ReadMeta(r).question \in Nat
    BY <1>1, <1>3, ReadMetaType DEF ReadMeta, SettleableStatus
  <2> QED
    BY <1>1, <2>1, SettledType
<1> QED
  BY <1>2, <1>3 DEF SettledAs, SettleableStatus

\* onRunSettled's replacement of the settled run's item keeps the file's type.
LEMMA ReplaceSettledType ==
  ASSUME TypeOK, NEW r \in Runs, ReplaceSettled(r),
         meta[r].status \in SettleableStatus \cup {"suspended"}
  PROVE  item' \in [Items -> ItemType(Tasks, RunIds)] /\ order' = order
<1>1. \A i \in Items : SettledAs(item[i], r) \in ItemType(Tasks, RunIds)
  BY SettledAsType DEF TypeOK
<1>2. CASE \E i \in Items : IsFirst(i, BoundTo("active", r))
  <2>1. PICK i \in Items : Replace(i, SettledAs(item[i], r))
    BY <1>2 DEF ReplaceSettled
  <2> QED
    BY <1>1, <2>1, ReplaceType
<1>3. CASE ~\E i \in Items : IsFirst(i, BoundTo("active", r))
  BY <1>3 DEF ReplaceSettled, fileVars, TypeOK
<1> QED
  BY <1>2, <1>3

\* The file order without one entry is a file order.
LEMMA WithoutPosType ==
  ASSUME TypeOK, NEW k \in DOMAIN order
  PROVE  WithoutPos(k) \in Seq(Items)
<1>1. order \in Seq(Items) /\ k \in 1..Len(order) /\ Len(order) \in Nat
  BY DEF TypeOK
<1>2. SubSeq(order, 1, k - 1) \in Seq(Items)
  BY <1>1, SubSeqProperties
<1>3. SubSeq(order, k + 1, Len(order)) \in Seq(Items)
  BY <1>1, SubSeqProperties
<1> QED
  BY <1>2, <1>3, ConcatProperties DEF WithoutPos

-----------------------------------------------------------------------------
(* Updates of a run's files.                                               *)

\* The status of a meta changes.
LEMMA StatusUpdateType ==
  ASSUME NEW f \in [Runs -> MetaType], NEW r, NEW s \in RunStatus
  PROVE  [f EXCEPT ![r].status = s] \in [Runs -> MetaType]
  BY DEF MetaType

\* A running meta is one.
LEMMA RunningMetaType ==
  ASSUME NEW t \in Tasks \cup {None}
  PROVE  RunningMeta(t) \in MetaType
  BY DEF RunningMeta, MetaType, RunStatus, PauseKind, None

\* So is an interrupted one.
LEMMA InterruptedMetaType ==
  ASSUME meta \in [Runs -> MetaType], NEW r \in Runs, NEW b \in BOOLEAN
  PROVE  InterruptedMeta(r, b) \in MetaType
<1>1. meta[r] \in MetaType
  OBVIOUS
<1> QED
  BY <1>1 DEF InterruptedMeta, MetaType, RunStatus, PauseKind, None

\* The empty checkpoint is one.
LEMMA NoCkptType == NoCkpt \in CkptType
  BY DEF CkptType, NoCkpt, None

\* A checkpoint that records a pause is one.
LEMMA PausedCkptType ==
  ASSUME NEW c \in CkptType
  PROVE  /\ [c EXCEPT !.pause = TRUE] \in CkptType
         /\ [c EXCEPT !.suspension = TRUE] \in CkptType
         /\ \A n \in Nat, q \in Nat :
              [c EXCEPT !.call = n, !.question = q] \in CkptType
  BY DEF CkptType

\* The start of a resume, or of the discard of a run that cannot resume.
LEMMA BeginResumeType ==
  ASSUME TypeInv, NEW r \in Runs, NEW caller \in Callers, BeginResume(r, caller)
  PROVE  /\ ckpt' \in [Runs -> CkptType] /\ pauseReq' \subseteq Runs
         /\ paused' \in [run: RunIds, kind: PauseKind] /\ probing' \in BOOLEAN
         /\ paused' \in {NoPaused, paused}
         /\ pc' \in PcType /\ pc'.at \in {"startResume", "terminate"}
         /\ pc'.r = r
<1> USE DEF TypeInv
<1>1. CASE /\ pauseReq' = pauseReq \ {r}
           /\ ckpt' = [ckpt EXCEPT ![r].suspension = FALSE, ![r].pause = FALSE]
           /\ UNCHANGED pauseVars
           /\ Enter("startResume", None, r, caller)
  <2>1. [ckpt[r] EXCEPT !.suspension = FALSE, !.pause = FALSE] \in CkptType
    <3>1. ckpt[r] \in CkptType
      BY DEF TypeOK
    <3> QED
      BY <3>1 DEF CkptType
  <2>2. ckpt' = [ckpt EXCEPT ![r] =
                   [ckpt[r] EXCEPT !.suspension = FALSE, !.pause = FALSE]]
    BY <1>1 DEF TypeOK
  <2>3. ckpt' \in [Runs -> CkptType]
    BY <2>1, <2>2 DEF TypeOK
  <2>4. pc' \in PcType /\ pc'.at = "startResume" /\ pc'.r = r
    BY <1>1, EnterType, IdFacts DEF Labels
  <2> QED
    BY <1>1, <2>3, <2>4 DEF TypeOK, pauseVars
<1>2. CASE /\ ReleasePaused(r)
           /\ Enter("terminate", None, r, caller)
           /\ UNCHANGED <<ckpt, pauseReq>>
  <2>1. pc' \in PcType /\ pc'.at = "terminate" /\ pc'.r = r
    BY <1>2, EnterType, IdFacts DEF Labels
  <2> QED
    BY <1>2, <2>1, ReleaseType DEF TypeOK
<1> QED
  BY <1>1, <1>2 DEF BeginResume

-----------------------------------------------------------------------------
(* Type correctness: every step keeps the types and SectionOK.             *)

\* The steps of the run in the slot, and of the explicit resume and termination.
LEMMA RunStepType ==
  ASSUME TypeInv, RunStep
  PROVE  TypeInv'
<1> USE DEF TypeInv
<1> USE DEF fileVars, runVars, pauseVars, slotVars, loopVars, timeVars
<1>1. CASE SubmitAccepted
  <2>1. PICK r \in Runs : /\ meta' = [meta EXCEPT ![r].status = "nometa"]
                          /\ pc' = [pc EXCEPT !.at = "start", !.r = r]
    BY <1>1 DEF SubmitAccepted
  <2>2. meta' \in [Runs -> MetaType]
    BY <2>1, StatusUpdateType DEF TypeOK, RunStatus
  <2>3. pc \in PcType
    BY DEF TypeOK
  <2>4. pc' \in PcType /\ pc'.at = "start" /\ pc'.r \in Runs /\ pc'.i = pc.i
    BY <2>1, <2>3, IdFacts DEF PcType, Labels
  <2> QED
    BY <1>1, <2>2, <2>4 DEF SubmitAccepted, TypeOK, SectionOK, At
<1>2. CASE StartRun
  <2>1. pc.m.task \in Tasks /\ pc.m.answer \in Nat
    BY DEF TypeOK, PcType, ItemType
  <2>2. meta' \in [Runs -> MetaType]
    BY <1>2, <2>1, RunningMetaType DEF StartRun, TypeOK
  <2>3. active' \in RunIds /\ live' \in LiveType /\ pauseSignal' \in BOOLEAN
    <3>1. pc.r \in RunIds
      BY DEF TypeOK, PcType
    <3>2. Occupy(pc.r, TRUE, FALSE, pc.m.answer, None)
      BY <1>2 DEF StartRun
    <3> QED
      BY <2>1, <3>1, <3>2, IdFacts, OccupyType
  <2>4. pc' \in PcType /\ pc'.at = "bind" /\ pc'.i = pc.i /\ pc'.r = pc.r
    BY <1>2, GotoType DEF StartRun, TypeOK, Labels
  <2> QED
    BY <1>2, <2>2, <2>3, <2>4 DEF StartRun, TypeOK, SectionOK, At
<1>3. CASE SafePoint
  BY <1>3, SnapshotType, CheckpointType
     DEF SafePoint, RunAt, TypeOK, SectionOK
<1>4. CASE OperatorPause
  <2>1. [Snapshot EXCEPT !.pause = TRUE] \in CkptType
    BY SnapshotType, PausedCkptType
  <2> QED
    BY <1>4, <2>1, CheckpointType DEF OperatorPause, RunAt, TypeOK, SectionOK
<1>5. CASE StartWriteCapableRole
  <2>1. live \in LiveType /\ live' = [live EXCEPT !.wrote = TRUE]
    BY <1>5 DEF StartWriteCapableRole, TypeOK
  <2>2. live' \in LiveType
    BY <2>1 DEF LiveType
  <2> QED
    BY <1>5, <2>2 DEF StartWriteCapableRole, TypeOK, SectionOK
<1>6. CASE WriteWorkspace
  BY <1>6, IdFacts DEF WriteWorkspace, RunAt, TypeOK, SectionOK
<1>7. CASE Park
  <2>1. PICK q \in Questions :
          Checkpoint([Snapshot EXCEPT !.call = count.asks + 1, !.question = q],
                     "parked")
    BY <1>7 DEF Park
  <2>2. [Snapshot EXCEPT !.call = count.asks + 1, !.question = q] \in CkptType
    <3>1. count.asks + 1 \in Nat /\ q \in Nat
      BY IdFacts DEF TypeOK, CountType
    <3> QED
      BY <3>1, SnapshotType, PausedCkptType
  <2>3. count' \in CountType
    BY <1>7, UsedType DEF Park
  <2> QED
    <3>1. /\ ckpt' \in [Runs -> CkptType] /\ heard' \in [Runs -> SUBSET Nat]
          /\ live' \in LiveType
      BY <1>7, <2>1, <2>2, CheckpointType DEF Park, RunAt
    <3> QED
      BY <1>7, <2>3, <3>1 DEF Park, TypeOK, SectionOK
<1>8. CASE Suspend
  <2>1. [Snapshot EXCEPT !.suspension = TRUE] \in CkptType
    BY SnapshotType, PausedCkptType
  <2> QED
    BY <1>8, <2>1, CheckpointType DEF Suspend, RunAt, TypeOK, SectionOK
<1>9. CASE RoleCallSucceeds
  BY <1>9 DEF RoleCallSucceeds, TypeOK, SectionOK
<1>10. ASSUME NEW status \in SettleableStatus \cup {"suspended"}, NEW q \in Nat,
              NEW kind \in PauseKind, active # None,
              TerminalMeta(status, q, kind)
       PROVE  /\ meta' \in [Runs -> MetaType] /\ pc' \in PcType
              /\ pc'.at = "cleanup" /\ pc'.r \in Runs
              /\ meta'[pc'.r].status \in SettleableStatus \cup {"suspended"}
  <2>1. active \in Runs
    BY <1>10, IdFacts DEF TypeOK
  <2>2. pc' \in PcType /\ pc'.at = "cleanup" /\ pc'.r = active
    BY <1>10, EnterType DEF TerminalMeta, TypeOK, Labels, Callers
  <2>3. meta' \in [Runs -> MetaType] /\ meta'[active].status = status
    <3>1. status \in RunStatus
      BY <1>10 DEF RunStatus, SettleableStatus
    <3>2. meta \in [Runs -> MetaType] /\ meta[active] \in MetaType
      BY <2>1 DEF TypeOK
    <3>3. meta' = [meta EXCEPT ![active] =
                     [meta[active] EXCEPT !.status = status, !.question = q,
                                          !.kind = kind]]
      BY <1>10, <2>1, <3>2 DEF TerminalMeta
    <3> DEFINE end == [meta[active] EXCEPT !.status = status, !.question = q,
                                           !.kind = kind]
    <3>4. end \in MetaType /\ end.status = status
      BY <3>1, <3>2 DEF MetaType
    <3>5. meta' = [meta EXCEPT ![active] = end]
      BY <3>3
    <3> HIDE DEF end
    <3> QED
      BY <2>1, <3>2, <3>4, <3>5
  <2> QED
    BY <2>1, <2>2, <2>3
<1>11. ASSUME NEW status \in SettleableStatus, NEW q \in Nat, Finish(status, q)
       PROVE  TypeInv'
  <2>1. /\ meta' \in [Runs -> MetaType] /\ pc' \in PcType
        /\ pc'.at = "cleanup" /\ pc'.r \in Runs
        /\ meta'[pc'.r].status \in SettleableStatus \cup {"suspended"}
    BY <1>10, <1>11 DEF Finish, RunAt, PauseKind
  <2>2. /\ ckpt' \in [Runs -> CkptType] /\ heard' \in [Runs -> SUBSET Nat]
        /\ live' \in LiveType
    BY <1>11, SnapshotType, CheckpointType DEF Finish, RunAt
  <2> QED
    BY <1>11, <2>1, <2>2 DEF Finish, TypeOK, SectionOK
<1>12. CASE Unwind
  <2>1. active # None /\ ckpt[active].question \in Nat
    BY <1>12, IdFacts DEF Unwind, RunAt, TypeOK, CkptType
  <2>2. \E status \in SettleableStatus \cup {"suspended"}, q \in Nat,
          kind \in PauseKind : TerminalMeta(status, q, kind)
    BY <1>12, <2>1, IdFacts DEF Unwind, SettleableStatus, PauseKind
  <2>3. /\ meta' \in [Runs -> MetaType] /\ pc' \in PcType
        /\ pc'.at = "cleanup" /\ pc'.r \in Runs
        /\ meta'[pc'.r].status \in SettleableStatus \cup {"suspended"}
    BY <1>10, <2>1, <2>2
  <2> QED
    BY <1>12, <2>3 DEF Unwind, TypeOK, SectionOK
<1>13. CASE Cleanup
  <2>1. pc' \in PcType /\ pc'.at = "settle" /\ pc'.r = pc.r
    BY <1>13, GotoType DEF Cleanup, TypeOK, Labels
  <2> QED
    BY <1>13, <2>1, NoCkptType DEF Cleanup, TypeOK, SectionOK, At
<1>14. CASE PauseRun
  BY <1>14, IdFacts DEF PauseRun, TypeOK, SectionOK
<1>15. ASSUME NEW r \in Runs, ResumeRun(r)
       PROVE  TypeInv'
  <2>1. BeginResume(r, "none") /\ "none" \in Callers
    BY <1>15 DEF ResumeRun, Callers
  <2>2. /\ ckpt' \in [Runs -> CkptType] /\ pauseReq' \subseteq Runs
        /\ paused' \in [run: RunIds, kind: PauseKind] /\ probing' \in BOOLEAN
        /\ paused' \in {NoPaused, paused}
        /\ pc' \in PcType /\ pc'.at \in {"startResume", "terminate"}
        /\ pc'.r = r
    BY <2>1, BeginResumeType
  <2> QED
    BY <1>15, <2>2 DEF ResumeRun, TypeOK, SectionOK, NoPaused
<1>16. CASE StartResume
  <2>1. pc.r \in Runs /\ pc.r \in RunIds
    BY <1>16, IdFacts DEF StartResume, SectionOK, At
  <2>2. meta[pc.r].task \in Tasks \cup {None}
    BY <2>1 DEF TypeOK, MetaType
  <2>3. meta' \in [Runs -> MetaType]
    BY <1>16, <2>2, RunningMetaType DEF StartResume, TypeOK
  <2>4. ckpt[pc.r].wrote \in BOOLEAN /\ ckpt[pc.r].delivered \in Nat
    BY <2>1 DEF TypeOK, CkptType
  <2>5. active' \in RunIds /\ live' \in LiveType /\ pauseSignal' \in BOOLEAN
    BY <1>16, <2>1, <2>4, IdFacts, OccupyType DEF StartResume
  <2>6. pc' \in PcType /\ pc'.at \in {"reactivateSuspended", "reactivateError"}
    BY <1>16, GotoType DEF StartResume, TypeOK, Labels
  <2>7. /\ paused' \in [run: RunIds, kind: PauseKind] /\ probing' \in BOOLEAN
        /\ paused' \in {NoPaused, paused}
    BY <1>16, ReleaseType DEF StartResume
  <2> QED
    BY <1>16, <2>3, <2>5, <2>6, <2>7
       DEF StartResume, TypeOK, SectionOK, NoPaused
<1>17. CASE TerminateMeta
  <2>1. meta' \in [Runs -> MetaType]
    <3>1. CASE pc.r \in Runs
      BY <1>17, <3>1, InterruptedMetaType DEF TerminateMeta, TypeOK
    <3>2. CASE pc.r \notin Runs
      BY <1>17, <3>2 DEF TerminateMeta, TypeOK
    <3> QED
      BY <3>1, <3>2
  <2>2. /\ paused' \in [run: RunIds, kind: PauseKind] /\ probing' \in BOOLEAN
        /\ paused' \in {NoPaused, paused}
    <3>1. ReleasePaused(pc.r) \/ UNCHANGED pauseVars
      BY <1>17 DEF TerminateMeta
    <3> QED
      BY <3>1, ReleaseType DEF TypeOK
  <2>3. pc' \in PcType /\ pc'.at \in {"dropCheckpoint", "cancel"}
    BY <1>17, GotoType DEF TerminateMeta, TypeOK, Labels
  <2>4. UNCHANGED <<fileVars, ckpt, pauseReq, heard, dirty, active, live,
                    pauseSignal, loopVars, timeVars, count>>
    BY <1>17 DEF TerminateMeta
  <2> QED
    BY <2>1, <2>2, <2>3, <2>4 DEF TypeOK, SectionOK, NoPaused
<1>18. CASE DropCheckpoint
  <2>1. pc' \in PcType /\ pc'.at = "cancel"
    BY <1>18, GotoType DEF DropCheckpoint, TypeOK, Labels
  <2> QED
    BY <1>18, <2>1, NoCkptType DEF DropCheckpoint, TypeOK, SectionOK
<1>19. \A q \in Questions : q \in Nat
  BY IdFacts
<1>20. None \in Nat
  BY IdFacts
<1> QED
  BY <1>1, <1>2, <1>3, <1>4, <1>5, <1>6, <1>7, <1>8, <1>9, <1>11, <1>12, <1>13,
     <1>14, <1>15, <1>16, <1>17, <1>18, <1>19, <1>20
     DEF RunStep, SettleableStatus

\* The reconciled meta of a run directory is a meta.
LEMMA ReconciledMetaType ==
  ASSUME TypeOK, NEW r \in Runs
  PROVE  ReconciledMeta(r) \in MetaType
<1>1. meta[r] \in MetaType /\ ckpt[r] \in CkptType
  BY DEF TypeOK
<1>2. ckpt[r].question \in Nat
  BY <1>1 DEF CkptType
<1>3. Materialized(r) \in MetaType
  <2>1. [meta[r] EXCEPT !.status = "needs_clarification",
                        !.question = ckpt[r].question] \in MetaType
    BY <1>1, <1>2 DEF MetaType, RunStatus
  <2>2. /\ [meta[r] EXCEPT !.status = "suspended", !.kind = "provider"] \in MetaType
        /\ [meta[r] EXCEPT !.status = "suspended", !.kind = "operator"] \in MetaType
    BY <1>1 DEF MetaType, RunStatus, PauseKind
  <2> QED
    BY <1>1, <2>1, <2>2 DEF Materialized
<1>4. InterruptedMeta(r, FALSE) \in MetaType
  BY InterruptedMetaType DEF TypeOK
<1> QED
  BY <1>1, <1>3, <1>4 DEF ReconciledMeta

\* The boot reconciliation.
LEMMA BootStepType ==
  ASSUME TypeInv, BootStep
  PROVE  TypeInv'
<1> USE DEF TypeInv
<1> USE DEF fileVars, runVars, pauseVars, slotVars, loopVars, timeVars
<1>1. CASE Boot
  <2>1. pc' \in PcType /\ pc'.at = "scan"
    BY <1>1, EnterType, IdFacts DEF Boot, Labels, Callers
  <2> QED
    BY <1>1, <2>1 DEF Boot, TypeOK, SectionOK
<1>2. ASSUME Enter("tick", None, None, "boot")
      PROVE  pc' \in PcType /\ pc'.at = "tick"
  BY <1>2, EnterType, IdFacts DEF Labels, Callers
<1>3. CASE AdoptPaused
  <2>1. PICK r \in Runs :
          /\ PausedRuns = {r}
          /\ paused' = [run |-> r, kind |-> meta[r].kind]
          /\ IF meta[r].kind = "provider"
               THEN probing' = TRUE /\ gate' \in BOOLEAN
               ELSE UNCHANGED <<probing, gate>>
    BY <1>3 DEF AdoptPaused
  <2>2. meta[r].kind \in PauseKind
    BY DEF TypeOK, MetaType
  <2>3. paused' \in [run: RunIds, kind: PauseKind] /\ paused'.run \in Runs
    BY <2>1, <2>2, IdFacts
  <2>4. probing' \in BOOLEAN /\ gate' \in BOOLEAN
    BY <2>1 DEF TypeOK
  <2>5. UNCHANGED <<fileVars, runVars, active, live, pauseSignal, phase,
                    shutdown, scan, timeVars, count>>
    BY <1>3 DEF AdoptPaused
  <2>6. pc' \in PcType /\ pc'.at = "tick"
    BY <1>2, <1>3 DEF AdoptPaused
  <2> QED
    BY <2>3, <2>4, <2>5, <2>6 DEF TypeOK, SectionOK
<1>4. CASE ResumeWinner
  <2>1. PICK r \in Runs : Occupy(r, FALSE, ckpt[r].wrote, None, ckpt[r].delivered)
    BY <1>4 DEF ResumeWinner
  <2>2. ckpt[r].wrote \in BOOLEAN /\ ckpt[r].delivered \in Nat
    BY DEF TypeOK, CkptType
  <2>3. active' \in RunIds /\ live' \in LiveType /\ pauseSignal' \in BOOLEAN
    BY <2>1, <2>2, IdFacts, OccupyType
  <2>4. pc' \in PcType /\ pc'.at = "tick"
    BY <1>2, <1>4 DEF ResumeWinner
  <2> QED
    BY <1>4, <2>3, <2>4 DEF ResumeWinner, TypeOK, SectionOK
<1>5. CASE NothingToResume
  <2>1. pc' \in PcType /\ pc'.at = "tick"
    BY <1>2, <1>5 DEF NothingToResume
  <2> QED
    BY <1>5, <2>1 DEF NothingToResume, TypeOK, SectionOK
<1>6. ASSUME NEW r \in Runs, ReconcileRun(r)
      PROVE  TypeInv'
  <2>1. meta' \in [Runs -> MetaType]
    BY <1>6, ReconciledMetaType DEF ReconcileRun, TypeOK
  <2> QED
    BY <1>6, <2>1 DEF ReconcileRun, TypeOK, SectionOK, At
<1>7. ASSUME NEW r \in Runs, Supersede(r)
      PROVE  TypeInv'
  <2>1. \E b \in BOOLEAN : meta' = [meta EXCEPT ![r] = InterruptedMeta(r, b)]
    BY <1>7 DEF Supersede
  <2>2. meta' \in [Runs -> MetaType]
    BY <2>1, InterruptedMetaType DEF TypeOK
  <2>3. At("scan") /\ UNCHANGED <<fileVars, ckpt, pauseReq, heard, dirty,
                                  slotVars, loopVars, timeVars, pc, count>>
    BY <1>7 DEF Supersede, Scanned
  <2> QED
    BY <2>2, <2>3 DEF TypeOK, SectionOK, At
<1> QED
  BY <1>1, <1>3, <1>4, <1>5, <1>6, <1>7 DEF BootStep

\* Crashes, shutdowns and lost checkpoints.
LEMMA DisturbanceType ==
  ASSUME TypeInv, Disturbance
  PROVE  TypeInv'
<1> USE DEF TypeInv
<1> USE DEF fileVars, runVars, pauseVars, slotVars, loopVars, timeVars
<1>1. ASSUME ProcessEnds,
             UNCHANGED <<fileVars, runVars, secondTaken>>, count' \in CountType
      PROVE  TypeInv'
  <2>1. pc' \in PcType /\ pc'.at = "idle"
    BY <1>1, IdleType DEF ProcessEnds, Idle
  <2>2. /\ live' \in LiveType /\ active' \in RunIds
        /\ paused' \in [run: RunIds, kind: PauseKind] /\ paused'.kind = "none"
    BY <1>1, IdFacts DEF ProcessEnds, NoLive, LiveType, NoPaused, PauseKind, None
  <2>3. sleepers' \in Seq(SleeperType)
    BY <1>1 DEF ProcessEnds
  <2> QED
    BY <1>1, <2>1, <2>2, <2>3 DEF ProcessEnds, TypeOK, SectionOK
<1>2. CASE Crash
  BY <1>1, <1>2, UsedType DEF Crash
<1>3. CASE ObserveShutdown
  BY <1>3, UsedType DEF ObserveShutdown, TypeOK, SectionOK
<1>4. CASE Exit
  BY <1>1, <1>4 DEF Exit, TypeOK
<1>5. ASSUME NEW r \in Runs, LoseCheckpoint(r)
      PROVE  TypeInv'
  BY <1>5, UsedType, NoCkptType DEF LoseCheckpoint, TypeOK, SectionOK
<1> QED
  BY <1>2, <1>3, <1>4, <1>5 DEF Disturbance

\* The dispatching marker is written and the cycle goes on to submit.
LEMMA MarkForType ==
  ASSUME TypeOK, NEW i \in Items, MarkFor(i)
  PROVE  /\ item' \in [Items -> ItemType(Tasks, RunIds)] /\ order' = order
         /\ pc' \in PcType /\ pc'.at = "submit" /\ pc'.i = i
<1>1. DispatchingItem(item[i]) \in ItemType(Tasks, RunIds)
  BY IdFacts, KeepPointersType DEF TypeOK
<1>2. pc \in PcType
  BY DEF TypeOK
<1>3. pc' = [pc EXCEPT !.at = "submit", !.i = i, !.n = 0,
                       !.m = DispatchingItem(item[i])]
  BY DEF MarkFor
<1>4. pc' \in PcType /\ pc'.at = "submit" /\ pc'.i = i
  BY <1>1, <1>2, <1>3 DEF PcType, Labels
<1> QED
  BY <1>1, <1>4, ReplaceType DEF MarkFor

\* The steps the queue takes by itself.
LEMMA QueueStepType ==
  ASSUME TypeInv, QueueStep
  PROVE  TypeInv'
<1> USE DEF TypeInv
<1> USE DEF fileVars, runVars, pauseVars, slotVars, loopVars, timeVars
<1>1. /\ pc.caller \in Callers /\ pc.i \in Items \cup {None} /\ pc.r \in RunIds
      /\ pc.m \in ItemType(Tasks, RunIds) /\ pc.n \in Nat /\ pc \in PcType
  BY DEF TypeOK, PcType
<1>2. ASSUME Leave(pc.caller, pc.i)
      PROVE  /\ pc' \in PcType /\ pc'.at \in {"afterNow", "tick", "idle"}
             /\ phase' \in {"up", phase}
  BY <1>1, <1>2, LeaveType
<1>3. CASE TickCleanup
  <2>1. \E r \in Runs : ckpt' = [ckpt EXCEPT ![r] = NoCkpt] /\ ReleasePaused(r)
    BY <1>3 DEF TickCleanup
  <2>2. ckpt' \in [Runs -> CkptType]
    BY <2>1, NoCkptType DEF TypeOK
  <2>3. /\ paused' \in [run: RunIds, kind: PauseKind] /\ probing' \in BOOLEAN
        /\ paused' \in {NoPaused, paused}
    BY <2>1, ReleaseType
  <2>4. UNCHANGED <<fileVars, meta, pauseReq, heard, dirty, active, live,
                    pauseSignal, loopVars, timeVars, pc, count>>
    BY <1>3 DEF TickCleanup
  <2> QED
    BY <2>2, <2>3, <2>4 DEF TypeOK, SectionOK, NoPaused
<1>4. CASE TickRepair
  <2>1. item' = [i \in Items |-> RepairedItem(item[i])]
    BY <1>4 DEF TickRepair
  <2>2. item' \in [Items -> ItemType(Tasks, RunIds)]
    BY <2>1, RepairedItemType DEF TypeOK
  <2>3. probing' \in BOOLEAN
    <3>1. probing' = (probing \/ (/\ ~shutdown /\ SlotFree /\ ~gate
                                 /\ \E i \in Items : item'[i].status = "waiting"))
      BY <1>4 DEF TickRepair, EnsureProviderProbe
    <3> QED
      BY <3>1, Zenon
  <2>4. /\ pc' \in PcType /\ pc'.at \in {"afterNow", "tick", "idle", "dispatch"}
        /\ phase' \in {"up", phase}
    <3>1. \/ Goto("dispatch") /\ phase' = phase
          \/ Leave(pc.caller, pc.i)
      BY <1>4 DEF TickRepair
    <3>2. "dispatch" \in Labels
      BY DEF Labels
    <3> QED
      BY <1>1, <1>2, <3>1, <3>2, GotoType
  <2>5. UNCHANGED <<order, runVars, active, paused, live, pauseSignal, gate,
                    shutdown, scan, timeVars, count>>
    BY <1>4 DEF TickRepair
  <2> QED
    BY <2>2, <2>3, <2>4, <2>5 DEF TypeOK, SectionOK
<1>5. CASE DispatchNone
  BY <1>2, <1>5 DEF DispatchNone, TypeOK, SectionOK
<1>6. CASE DispatchHead
  <2>1. PICK i \in Items :
          \/ /\ Answered(item[i])
             /\ Replace(i, [DispatchingItem(item[i])
                              EXCEPT !.runId = item[i].resumeRunId])
             /\ pc' = [pc EXCEPT !.at = "resumeAnswered", !.i = i,
                                 !.r = item[i].resumeRunId]
          \/ MarkFor(i)
    BY <1>6 DEF DispatchHead
  <2>2. UNCHANGED <<runVars, slotVars, loopVars, timeVars, count>>
    BY <1>6 DEF DispatchHead
  <2>3. CASE MarkFor(i)
    BY <2>2, <2>3, MarkForType DEF TypeOK, SectionOK
  <2>4. CASE /\ Answered(item[i])
             /\ Replace(i, [DispatchingItem(item[i])
                              EXCEPT !.runId = item[i].resumeRunId])
             /\ pc' = [pc EXCEPT !.at = "resumeAnswered", !.i = i,
                                 !.r = item[i].resumeRunId]
    <3>1. item[i].resumeRunId \in Runs
      BY <2>4, IdFacts DEF TypeOK, ItemType, Answered
    <3>2. DispatchingItem(item[i]) \in ItemType(Tasks, RunIds)
      BY IdFacts, KeepPointersType DEF TypeOK
    <3>3. [DispatchingItem(item[i]) EXCEPT !.runId = item[i].resumeRunId]
            \in ItemType(Tasks, RunIds)
      BY <3>1, <3>2, IdFacts DEF ItemType
    <3>4. item' \in [Items -> ItemType(Tasks, RunIds)] /\ order' = order
      BY <2>4, <3>3, ReplaceType
    <3>5. pc' \in PcType /\ pc'.at = "resumeAnswered" /\ pc'.i = i /\ pc'.r \in Runs
      BY <1>1, <2>4, <3>1, IdFacts DEF PcType, Labels
    <3> QED
      BY <2>2, <3>4, <3>5 DEF TypeOK, SectionOK
  <2> QED
    BY <2>1, <2>3, <2>4
<1>7. CASE MarkFallback
  <2>1. pc.i \in Items /\ MarkFor(pc.i)
    BY <1>7 DEF MarkFallback, SectionOK, At
  <2>2. /\ item' \in [Items -> ItemType(Tasks, RunIds)] /\ order' = order
        /\ pc' \in PcType /\ pc'.at = "submit" /\ pc'.i \in Items
    BY <2>1, MarkForType
  <2> QED
    BY <1>7, <2>2 DEF MarkFallback, TypeOK, SectionOK
<1>8. CASE SubmitRefused
  <2>1. item' \in [Items -> ItemType(Tasks, RunIds)] /\ order' = order
    BY <1>1, <1>8, IdFacts, KeepPointersType, ReplaceType DEF SubmitRefused
  <2> QED
    BY <1>2, <1>8, <2>1 DEF SubmitRefused, TypeOK, SectionOK
<1>9. CASE SubmitCollides
  <2>1. pc.i \in Items
    BY <1>9 DEF SubmitCollides, SectionOK, At
  <2> DEFINE s == [i |-> pc.i, m |-> pc.m, n |-> pc.n + 1, ready |-> FALSE,
                   caller |-> IF pc.caller = "probe" THEN "none" ELSE pc.caller]
  <2>2. s \in SleeperType
    BY <1>1, <2>1 DEF SleeperType, Callers
  <2>3. sleepers' = Append(sleepers, s)
    BY <1>9 DEF SubmitCollides
  <2>4. sleepers' \in Seq(SleeperType)
    <3> HIDE DEF s
    <3> QED
      BY <2>2, <2>3, AppendProperties DEF TypeOK
  <2>5. /\ pc' \in PcType /\ pc'.at \in {"afterNow", "tick", "idle"}
        /\ phase' \in {"up", phase}
    <3>1. Leave("probe", None) \/ (pc' = Idle /\ phase' = phase)
      BY <1>9 DEF SubmitCollides
    <3>2. "probe" \in Callers
      BY DEF Callers
    <3> QED
      BY <3>1, <3>2, LeaveType, IdleType DEF Idle
  <2>6. UNCHANGED <<fileVars, runVars, slotVars, gate, shutdown, scan,
                    secondTaken, count>>
    BY <1>9 DEF SubmitCollides
  <2> QED
    BY <2>4, <2>5, <2>6 DEF TypeOK, SectionOK
<1>10. CASE WakeSleeper
  <2> DEFINE s == Head(sleepers)
  <2>1. s \in SleeperType /\ Tail(sleepers) \in Seq(SleeperType)
    BY <1>10, HeadTailProperties DEF WakeSleeper, TypeOK
  <2>2. s.i \in Items /\ s.m \in ItemType(Tasks, RunIds) /\ s.n \in Nat
        /\ s.caller \in Callers
    BY <2>1 DEF SleeperType
  <2>3. \/ /\ pc' = [Idle EXCEPT !.at = "submit", !.i = s.i, !.m = s.m,
                                 !.n = s.n, !.caller = s.caller]
           /\ phase' = phase
        \/ Leave(s.caller, s.i)
    BY <1>10 DEF WakeSleeper
  <2> HIDE DEF s
  <2>4. /\ pc' \in PcType /\ pc'.at \in {"afterNow", "tick", "idle", "submit"}
        /\ pc'.at = "submit" => pc'.i \in Items
        /\ phase' \in {"up", phase}
    <3>1. CASE Leave(s.caller, s.i)
      BY <2>2, <3>1, LeaveType
    <3>2. CASE /\ pc' = [Idle EXCEPT !.at = "submit", !.i = s.i, !.m = s.m,
                                     !.n = s.n, !.caller = s.caller]
               /\ phase' = phase
      BY <2>2, <3>2, IdleType DEF PcType, Labels
    <3> QED
      BY <2>3, <3>1, <3>2
  <2>5. /\ sleepers' = Tail(sleepers)
        /\ UNCHANGED <<fileVars, runVars, slotVars, gate, shutdown, scan,
                       secondTaken, count>>
    BY <1>10 DEF WakeSleeper
  <2> QED
    BY <2>1, <2>4, <2>5 DEF TypeOK, SectionOK
<1>11. CASE BindRun
  <2>1. [pc.m EXCEPT !.runId = pc.r] \in ItemType(Tasks, RunIds)
    BY <1>1 DEF ItemType
  <2>2. item' \in [Items -> ItemType(Tasks, RunIds)] /\ order' = order
    BY <1>11, <2>1, ReplaceType DEF BindRun
  <2> QED
    BY <1>2, <1>11, <2>2 DEF BindRun, TypeOK, SectionOK
<1>12. CASE ResumeAnswered
  <2>1. pc.i \in Items /\ pc.r \in Runs
    BY <1>12 DEF ResumeAnswered, SectionOK, At
  <2>2. /\ pauseReq' = pauseReq \ {pc.r}
        /\ UNCHANGED <<meta, dirty, slotVars, loopVars, timeVars, count>>
    BY <1>12 DEF ResumeAnswered
  <2>3. item[pc.i] \in ItemType(Tasks, RunIds) /\ item[pc.i].answer \in Nat
    BY <2>1 DEF TypeOK, ItemType
  <2>4. CASE /\ DeliverNote(item[pc.i], pc.r) /\ Goto("startAnswered")
             /\ UNCHANGED fileVars
    <3>1. ckpt' \in [Runs -> CkptType] /\ heard' \in [Runs -> SUBSET Nat]
      <4>1. CASE UNCHANGED <<ckpt, heard>>
        BY <4>1 DEF TypeOK
      <4>2. CASE /\ ckpt' = [ckpt EXCEPT ![pc.r].delivered = item[pc.i].answer,
                                         ![pc.r].consumed = FALSE]
                 /\ heard' = [heard EXCEPT ![pc.r] = @ \cup {item[pc.i].answer}]
        <5> DEFINE c == [ckpt[pc.r] EXCEPT !.delivered = item[pc.i].answer,
                                           !.consumed = FALSE]
        <5>1. ckpt[pc.r] \in CkptType
          BY <2>1 DEF TypeOK
        <5>2. c \in CkptType
          BY <2>3, <5>1 DEF CkptType
        <5>3. ckpt' = [ckpt EXCEPT ![pc.r] = c]
          BY <2>1, <4>2 DEF TypeOK
        <5> HIDE DEF c
        <5>4. ckpt' \in [Runs -> CkptType]
          BY <5>2, <5>3 DEF TypeOK
        <5> QED
          BY <2>1, <2>3, <4>2, <5>4 DEF TypeOK
      <4> QED
        BY <2>4, <4>1, <4>2 DEF DeliverNote
    <3>2. pc' \in PcType /\ pc'.at = "startAnswered" /\ pc'.i = pc.i /\ pc'.r = pc.r
      BY <1>1, <2>4, GotoType DEF Labels
    <3> QED
      BY <2>1, <2>2, <2>4, <3>1, <3>2 DEF TypeOK, SectionOK
  <2>5. CASE /\ Replace(pc.i, BriefedFallback(item[pc.i], pc.r)) /\ Goto("mark")
             /\ UNCHANGED <<ckpt, heard>>
    <3>1. BriefedFallback(item[pc.i], pc.r) \in ItemType(Tasks, RunIds)
      BY <1>1, <2>3, IdFacts, DropPointersType
    <3>2. item' \in [Items -> ItemType(Tasks, RunIds)] /\ order' = order
      BY <2>5, <3>1, ReplaceType
    <3>3. pc' \in PcType /\ pc'.at = "mark" /\ pc'.i = pc.i
      BY <1>1, <2>5, GotoType DEF Labels
    <3> QED
      BY <2>1, <2>2, <2>5, <3>2, <3>3 DEF TypeOK, SectionOK
  <2> QED
    BY <1>12, <2>4, <2>5 DEF ResumeAnswered
<1>13. CASE StartAnswered
  <2>1. pc.i \in Items /\ pc.r \in Runs
    BY <1>13 DEF StartAnswered, SectionOK, At
  <2>2. item[pc.i].answer \in Nat
    BY <2>1 DEF TypeOK, ItemType
  <2>3. ckpt[pc.r].wrote \in BOOLEAN /\ ckpt[pc.r].delivered \in Nat
    BY <2>1 DEF TypeOK, CkptType
  <2>4. \E a \in Nat : Occupy(pc.r, TRUE, ckpt[pc.r].wrote, a, ckpt[pc.r].delivered)
    BY <1>13, <2>2, IdFacts DEF StartAnswered
  <2>5. active' \in RunIds /\ live' \in LiveType /\ pauseSignal' \in BOOLEAN
    BY <1>1, <2>3, <2>4, OccupyType
  <2>6. meta[pc.r].task \in Tasks \cup {None}
    BY <2>1 DEF TypeOK, MetaType
  <2>7. meta' \in [Runs -> MetaType]
    BY <1>13, <2>6, RunningMetaType DEF StartAnswered, TypeOK
  <2>8. UNCHANGED <<fileVars, ckpt, pauseReq, heard, dirty, pauseVars, gate,
                    shutdown, scan, timeVars, count>>
    BY <1>13 DEF StartAnswered
  <2>9. /\ pc' \in PcType /\ pc'.at \in {"afterNow", "tick", "idle"}
        /\ phase' \in {"up", phase}
    BY <1>2, <1>13 DEF StartAnswered
  <2> QED
    BY <2>5, <2>7, <2>8, <2>9 DEF TypeOK, SectionOK
<1>14. ASSUME At("settle"), VacateSlot, ReplaceSettled(pc.r)
       PROVE  /\ item' \in [Items -> ItemType(Tasks, RunIds)] /\ order' = order
              /\ active' \in RunIds /\ live' \in LiveType
              /\ pauseSignal' \in BOOLEAN /\ pc.r \in Runs
  <2>1. /\ pc.r \in Runs
        /\ meta[pc.r].status \in SettleableStatus \cup {"suspended"}
    BY <1>14 DEF SectionOK, At
  <2>2. item' \in [Items -> ItemType(Tasks, RunIds)] /\ order' = order
    BY <1>14, <2>1, ReplaceSettledType
  <2> QED
    BY <1>14, <2>1, <2>2, IdFacts DEF VacateSlot, NoLive, LiveType, None
<1>15. CASE SettleSuspended
  <2>1. /\ item' \in [Items -> ItemType(Tasks, RunIds)] /\ order' = order
        /\ active' \in RunIds /\ live' \in LiveType
        /\ pauseSignal' \in BOOLEAN /\ pc.r \in Runs
    BY <1>14, <1>15 DEF SettleSuspended
  <2>2. meta[pc.r].kind \in PauseKind
    BY <2>1 DEF TypeOK, MetaType
  <2>3. paused' \in [run: RunIds, kind: PauseKind] /\ paused'.run \in Runs
    BY <1>15, <2>1, <2>2, IdFacts DEF SettleSuspended
  <2>4. probing' \in BOOLEAN /\ gate' \in BOOLEAN
    BY <1>15 DEF SettleSuspended, TypeOK
  <2>5. pc' \in PcType /\ pc'.at = "idle"
    BY <1>15, IdleType DEF SettleSuspended, Idle
  <2>6. UNCHANGED <<runVars, phase, shutdown, scan, timeVars, count>>
    BY <1>15 DEF SettleSuspended
  <2> QED
    BY <2>1, <2>3, <2>4, <2>5, <2>6 DEF TypeOK, SectionOK
<1>16. CASE SettleTerminal
  <2>1. /\ item' \in [Items -> ItemType(Tasks, RunIds)] /\ order' = order
        /\ active' \in RunIds /\ live' \in LiveType
        /\ pauseSignal' \in BOOLEAN
    BY <1>14, <1>16 DEF SettleTerminal
  <2>2. pc' \in PcType /\ pc'.at = "tick"
    BY <1>16, EnterType, IdFacts DEF SettleTerminal, Labels, Callers
  <2>3. UNCHANGED <<runVars, pauseVars, loopVars, timeVars, count>>
    BY <1>16 DEF SettleTerminal
  <2> QED
    BY <2>1, <2>2, <2>3 DEF TypeOK, SectionOK
<1>17. ASSUME NEW label, NEW status, Reactivate(label, status)
       PROVE  TypeInv'
  <2>1. \A i \in Items : BoundItem(item[i], pc.r) \in ItemType(Tasks, RunIds)
    BY <1>1, IdFacts, DropPointersType DEF TypeOK
  <2>2. \/ UNCHANGED fileVars
        \/ \E i \in Items : Replace(i, BoundItem(item[i], pc.r))
    BY <1>17 DEF Reactivate
  <2>3. item' \in [Items -> ItemType(Tasks, RunIds)] /\ order' = order
    BY <2>1, <2>2, ReplaceType DEF TypeOK
  <2>4. Leave(pc.caller, None)
    BY <1>17 DEF Reactivate
  <2>5. /\ pc' \in PcType /\ pc'.at \in {"afterNow", "tick", "idle"}
        /\ phase' \in {"up", phase}
    BY <1>1, <2>4, LeaveType
  <2>6. UNCHANGED <<runVars, slotVars, gate, shutdown, scan, timeVars, count>>
    BY <1>17 DEF Reactivate
  <2> QED
    BY <2>3, <2>5, <2>6 DEF TypeOK, SectionOK
<1>18. CASE SubmitNowReturns
  <2>1. /\ item' \in [Items -> ItemType(Tasks, RunIds)]
        /\ order' \in Seq(Items)
    <3>1. CASE UNCHANGED fileVars
      BY <3>1 DEF TypeOK
    <3>2. CASE \E k \in DOMAIN order :
                 /\ order' = WithoutPos(k)
                 /\ item' = [item EXCEPT ![pc.i].status = "removed"]
      <4>1. order' \in Seq(Items)
        BY <3>2, WithoutPosType
      <4>2. \A i \in Items : [item[i] EXCEPT !.status = "removed"]
                               \in ItemType(Tasks, RunIds)
        BY DEF TypeOK, ItemType, OffFile
      <4>3. item' = [i \in Items |-> IF i = pc.i
                       THEN [item[i] EXCEPT !.status = "removed"] ELSE item[i]]
        BY <3>2 DEF TypeOK
      <4> QED
        BY <4>1, <4>2, <4>3 DEF TypeOK
    <3> QED
      BY <1>18, <3>1, <3>2 DEF SubmitNowReturns
  <2>2. pc' \in PcType /\ pc'.at = "idle"
    BY <1>18, IdleType DEF SubmitNowReturns, Idle
  <2>3. UNCHANGED <<runVars, slotVars, loopVars, timeVars, count>>
    BY <1>18 DEF SubmitNowReturns
  <2> QED
    BY <2>1, <2>2, <2>3 DEF TypeOK, SectionOK
<1>19. CASE CancelTerminated
  <2>1. \A i \in Items : CancelledItem(item[i]) \in ItemType(Tasks, RunIds)
    BY IdFacts, DropPointersType DEF TypeOK
  <2>2. \/ UNCHANGED fileVars
        \/ \E i \in Items : Replace(i, CancelledItem(item[i]))
    BY <1>1, <1>19 DEF CancelTerminated
  <2>3. item' \in [Items -> ItemType(Tasks, RunIds)] /\ order' = order
    BY <2>1, <2>2, ReplaceType DEF TypeOK
  <2>4. pc' \in PcType /\ pc'.at \in {"idle", "tick"}
    <3>1. pc' = Idle \/ Enter("tick", None, None, pc.caller)
      BY <1>19 DEF CancelTerminated
    <3>2. "tick" \in Labels
      BY DEF Labels
    <3> QED
      BY <1>1, <3>1, <3>2, IdFacts, EnterType, IdleType DEF Idle
  <2>5. UNCHANGED <<runVars, slotVars, loopVars, timeVars, count>>
    BY <1>19 DEF CancelTerminated
  <2> QED
    BY <2>3, <2>4, <2>5 DEF TypeOK, SectionOK
<1>20. CASE HandleHealthy
  <2>1. UNCHANGED <<fileVars, meta, heard, dirty, active, live, pauseSignal,
                    loopVars, timeVars, count>>
    BY <1>20 DEF HandleHealthy
  <2>2. CASE Enter("tick", None, None, "none") /\ UNCHANGED <<ckpt, pauseReq, pauseVars>>
    <3>1. pc' \in PcType /\ pc'.at = "tick"
      BY <2>2, EnterType, IdFacts DEF Labels, Callers
    <3> QED
      BY <2>1, <2>2, <3>1 DEF TypeOK, SectionOK
  <2>3. CASE paused.kind = "provider" /\ BeginResume(paused.run, "probe")
    <3>1. paused.run \in Runs /\ "probe" \in Callers
      BY <2>3 DEF SectionOK, Callers
    <3>2. /\ ckpt' \in [Runs -> CkptType] /\ pauseReq' \subseteq Runs
          /\ paused' \in [run: RunIds, kind: PauseKind] /\ probing' \in BOOLEAN
          /\ paused' \in {NoPaused, paused}
          /\ pc' \in PcType /\ pc'.at \in {"startResume", "terminate"}
          /\ pc'.r \in Runs
      BY <2>3, <3>1, BeginResumeType
    <3> QED
      BY <2>1, <3>2 DEF TypeOK, SectionOK, NoPaused
  <2> QED
    BY <1>20, <2>2, <2>3 DEF HandleHealthy
<1> QED
  BY <1>3, <1>4, <1>5, <1>6, <1>7, <1>8, <1>9, <1>10, <1>11, <1>12, <1>13,
     <1>15, <1>16, <1>17, <1>18, <1>19, <1>20 DEF QueueStep

\* The requests the queue answers, the probe and the clock.
LEMMA QueueRequestType ==
  ASSUME TypeInv, QueueRequest
  PROVE  TypeInv'
<1> USE DEF TypeInv
<1> USE DEF fileVars, runVars, pauseVars, slotVars, loopVars, timeVars
<1>1. order \in Seq(Items) /\ item \in [Items -> ItemType(Tasks, RunIds)]
  BY DEF TypeOK
<1>2. \A i \in Items : /\ <<i>> \o order \in Seq(Items)
                       /\ Append(order, i) \in Seq(Items)
  <2>1. \A i \in Items : <<i>> \in Seq(Items)
    OBVIOUS
  <2> QED
    BY <1>1, <2>1, ConcatProperties, AppendProperties
<1>3. ASSUME NEW i \in Items \cup {None}, NEW caller \in Callers,
             Enter("tick", i, None, caller)
      PROVE  pc' \in PcType /\ pc'.at = "tick"
  BY <1>3, EnterType, IdFacts DEF Labels
<1>4. "none" \in Callers /\ "now" \in Callers /\ "answer" \in Callers
      /\ None \in Items \cup {None}
  BY DEF Callers
<1>5. ASSUME NEW i \in Items, NEW t \in Tasks, NEW r \in Lineage,
             NEW h \in BOOLEAN, Enqueue(i, t, r, h)
      PROVE  TypeInv'
  <2>1. NormalizeNewItem(t, r) \in ItemType(Tasks, RunIds)
    BY IdFacts, NewItemType
  <2>2. item' \in [Items -> ItemType(Tasks, RunIds)] /\ order' \in Seq(Items)
    BY <1>1, <1>2, <1>5, <2>1 DEF Enqueue
  <2>3. pc' \in PcType /\ pc'.at = "tick"
    BY <1>3, <1>4, <1>5 DEF Enqueue
  <2> QED
    BY <1>5, <2>2, <2>3 DEF Enqueue, TypeOK, SectionOK
<1>6. ASSUME NEW i \in Items, NEW t \in Tasks, SubmitNow(i, t)
      PROVE  TypeInv'
  <2>1. NormalizeNewItem(t, None) \in ItemType(Tasks, RunIds)
    BY IdFacts, NewItemType
  <2>2. item' \in [Items -> ItemType(Tasks, RunIds)] /\ order' \in Seq(Items)
    BY <1>1, <1>2, <1>6, <2>1 DEF SubmitNow
  <2>3. pc' \in PcType /\ pc'.at = "tick"
    BY <1>3, <1>4, <1>6 DEF SubmitNow
  <2> QED
    BY <1>6, <2>2, <2>3 DEF SubmitNow, TypeOK, SectionOK
<1>7. ASSUME NEW i \in Items, NEW t \in Tasks, EditTask(i, t)
      PROVE  TypeInv'
  <2>1. [item[i] EXCEPT !.task = t] \in ItemType(Tasks, RunIds)
    BY <1>1 DEF ItemType
  <2>2. item' \in [Items -> ItemType(Tasks, RunIds)] /\ order' = order
    BY <1>7, <2>1, ReplaceType DEF EditTask
  <2>3. count' \in CountType
    BY <1>7, UsedType DEF EditTask
  <2> QED
    BY <1>7, <2>2, <2>3 DEF EditTask, TypeOK, SectionOK
<1>8. ASSUME NEW i \in Items, NEW p \in 0..MaxItems, Reorder(i, p)
      PROVE  TypeInv'
  <2>1. order' \in [DOMAIN order -> Items]
    BY <1>8 DEF Reorder
  <2>2. order' \in Seq(Items)
    BY <1>1, <2>1
  <2>3. count' \in CountType
    BY <1>8, UsedType DEF Reorder
  <2>4. UNCHANGED <<item, runVars, slotVars, loopVars, timeVars, pc>>
    BY <1>8 DEF Reorder
  <2> QED
    BY <2>2, <2>3, <2>4 DEF TypeOK, SectionOK
<1>9. ASSUME NEW i \in Items, Cancel(i)
      PROVE  TypeInv'
  <2>1. CancelledItem(item[i]) \in ItemType(Tasks, RunIds)
    BY <1>1, IdFacts, DropPointersType
  <2>2. item' \in [Items -> ItemType(Tasks, RunIds)] /\ order' = order
    BY <1>9, <2>1, ReplaceType DEF Cancel
  <2> QED
    BY <1>9, <2>2 DEF Cancel, TypeOK, SectionOK
<1>10. ASSUME NEW i \in Items, NEW caller \in Callers,
              Enter("terminate", i, item[i].runId, caller)
       PROVE  pc' \in PcType /\ pc'.at = "terminate"
  <2>1. item[i].runId \in RunIds
    BY <1>1 DEF ItemType
  <2> QED
    BY <1>10, <2>1, EnterType DEF Labels
<1>11. ASSUME NEW i \in Items, TerminateItem(i)
       PROVE  TypeInv'
  <2>1. pc' \in PcType /\ pc'.at = "terminate"
    BY <1>4, <1>10, <1>11 DEF TerminateItem
  <2> QED
    BY <1>11, <2>1 DEF TerminateItem, TypeOK, SectionOK
<1>12. ASSUME NEW i \in Items, Answer(i)
       PROVE  TypeInv'
  <2>1. UNCHANGED <<runVars, slotVars, loopVars, timeVars>>
    BY <1>12 DEF Answer
  <2>2. CASE /\ Enter("terminate", i, item[i].runId, "answer")
             /\ UNCHANGED <<fileVars, count>>
    <3>1. pc' \in PcType /\ pc'.at = "terminate"
      BY <1>4, <1>10, <2>2
    <3> QED
      BY <2>1, <2>2, <3>1 DEF TypeOK, SectionOK
  <2>3. CASE /\ item' = [item EXCEPT ![i] =
                  RecordAnswer(item[i], count.answers + 1,
                               AnswerTarget(i).run, AnswerTarget(i).call)]
             /\ \E k \in DOMAIN order :
                  order[k] = i /\ order' = <<i>> \o WithoutPos(k)
             /\ Used("answers")
             /\ Enter("tick", None, None, "none")
    <3>1. AnswerTarget(i).run \in RunIds /\ AnswerTarget(i).call \in Nat
      <4>1. item[i].runId \in RunIds
        BY <1>1 DEF ItemType
      <4>2. PauseState(item[i].runId).call \in Nat
        BY <4>1, PauseStateType
      <4> QED
        BY <4>1, <4>2, IdFacts DEF AnswerTarget
    <3>2. count.answers + 1 \in Nat
      BY DEF TypeOK, CountType
    <3>3. item' \in [Items -> ItemType(Tasks, RunIds)]
      BY <1>1, <2>3, <3>1, <3>2, IdFacts, RecordAnswerType
    <3>4. order' \in Seq(Items)
      <4>1. PICK k \in DOMAIN order : order' = <<i>> \o WithoutPos(k)
        BY <2>3
      <4>2. <<i>> \in Seq(Items) /\ WithoutPos(k) \in Seq(Items)
        BY WithoutPosType
      <4> QED
        BY <4>1, <4>2, ConcatProperties
    <3>5. count' \in CountType
      BY <2>3, UsedType
    <3>6. pc' \in PcType /\ pc'.at = "tick"
      BY <1>3, <1>4, <2>3
    <3> QED
      BY <2>1, <3>3, <3>4, <3>5, <3>6 DEF TypeOK, SectionOK
  <2> QED
    BY <1>12, <2>2, <2>3 DEF Answer
<1>13. ASSUME NEW i \in Items, Requeue(i)
       PROVE  TypeInv'
  <2>1. RequeuedItem(item[i]) \in ItemType(Tasks, RunIds)
    BY <1>1, IdFacts, DropPointersType
  <2>2. item' \in [Items -> ItemType(Tasks, RunIds)]
    BY <1>1, <1>13, <2>1 DEF Requeue
  <2>3. order' \in Seq(Items)
    <3>1. PICK k \in DOMAIN order : order' = Append(WithoutPos(k), i)
      BY <1>13 DEF Requeue
    <3>2. WithoutPos(k) \in Seq(Items)
      BY WithoutPosType
    <3> QED
      BY <3>1, <3>2, AppendProperties
  <2>4. pc' \in PcType /\ pc'.at = "tick"
    BY <1>3, <1>4, <1>13 DEF Requeue
  <2>5. UNCHANGED <<runVars, slotVars, loopVars, timeVars, count>>
    BY <1>13 DEF Requeue
  <2> QED
    BY <2>2, <2>3, <2>4, <2>5 DEF TypeOK, SectionOK
<1>14. ASSUME NEW r \in Runs, TerminateSuspendedRun(r)
       PROVE  TypeInv'
  <2>1. pc' \in PcType /\ pc'.at = "terminate"
    BY <1>4, <1>14, IdFacts, EnterType DEF TerminateSuspendedRun, Labels
  <2> QED
    BY <1>14, <2>1 DEF TerminateSuspendedRun, TypeOK, SectionOK
<1>15. CASE ProbeHealthy
  <2>1. pc' \in PcType /\ pc'.at = "recover"
    BY <1>4, <1>15, IdFacts, EnterType DEF ProbeHealthy, Labels
  <2>2. probing' \in BOOLEAN /\ gate' \in BOOLEAN
    BY <1>15 DEF ProbeHealthy
  <2>3. UNCHANGED <<fileVars, runVars, active, paused, live, pauseSignal, phase,
                    shutdown, scan, timeVars, count>>
    BY <1>15 DEF ProbeHealthy
  <2> QED
    BY <2>1, <2>2, <2>3 DEF TypeOK, SectionOK
<1>16. CASE ProbeFails
  BY <1>16 DEF ProbeFails, TypeOK, SectionOK
<1>17. CASE SecondPasses
  <2>1. sleepers \in Seq(SleeperType)
    BY DEF TypeOK
  <2>2. sleepers' = [k \in DOMAIN sleepers |-> [sleepers[k] EXCEPT !.ready = TRUE]]
    BY <1>17 DEF SecondPasses
  <2>3. \A k \in DOMAIN sleepers :
          [sleepers[k] EXCEPT !.ready = TRUE] \in SleeperType
    <3>1. \A k \in DOMAIN sleepers : sleepers[k] \in SleeperType
      BY <2>1
    <3> QED
      BY <3>1 DEF SleeperType
  <2>4. sleepers' \in Seq(SleeperType)
    BY <2>1, <2>2, <2>3
  <2> QED
    BY <1>17, <2>4 DEF SecondPasses, TypeOK, SectionOK
<1> QED
  BY <1>5, <1>6, <1>7, <1>8, <1>9, <1>11, <1>12, <1>13, <1>14, <1>15, <1>16,
     <1>17 DEF QueueRequest

\* Every step of the service.
LEMMA NextType ==
  ASSUME TypeInv, [Next]_vars
  PROVE  TypeInv'
<1>1. CASE UNCHANGED vars
  BY <1>1 DEF vars, fileVars, runVars, pauseVars, slotVars, loopVars, timeVars,
              TypeInv, TypeOK, SectionOK
<1> QED
  BY <1>1, QueueStepType, QueueRequestType, RunStepType, BootStepType,
     DisturbanceType DEF Next

\* The empty state directory.
LEMMA InitType == Init => TypeInv
<1> SUFFICES ASSUME Init PROVE TypeInv
  OBVIOUS
<1>1. NoItem \in ItemType(Tasks, RunIds)
  BY IdleType DEF NoItem, NoMarker, ItemType, OffFile
<1>2. NoMeta \in MetaType
  BY DEF NoMeta, MetaType, RunStatus, PauseKind, None
<1>3. /\ NoLive \in LiveType /\ NoPaused \in [run: RunIds, kind: PauseKind]
      /\ NoPaused.kind = "none"
  BY IdFacts DEF NoLive, LiveType, NoPaused, PauseKind, None
<1>4. Idle.at = "idle"
  BY DEF Idle
<1>5. count \in CountType
  BY DEF Init, CountType
<1>6. SectionOK
  BY <1>3, <1>4 DEF Init, SectionOK
<1>7. /\ item \in [Items -> ItemType(Tasks, RunIds)] /\ meta \in [Runs -> MetaType]
      /\ ckpt \in [Runs -> CkptType] /\ heard \in [Runs -> SUBSET Nat]
  BY <1>1, <1>2, NoCkptType DEF Init
<1>8. /\ order \in Seq(Items) /\ sleepers \in Seq(SleeperType)
      /\ active \in RunIds /\ pc \in PcType
  BY IdFacts, IdleType DEF Init
<1> QED
  BY <1>3, <1>5, <1>6, <1>7, <1>8 DEF Init, TypeInv, TypeOK

\* Type correctness of every reachable state, crashes and boots included: no
\* rebuild writes an entry with a missing or foreign field, and every section of
\* the event loop has the item and the run it works on.
THEOREM TypeCorrect == Spec => []TypeOK
<1>1. Spec => []TypeInv
  BY InitType, NextType, PTL DEF Spec
<1> QED
  BY <1>1, PTL DEF TypeInv

-----------------------------------------------------------------------------
(***************************************************************************)
(* Every entry the service writes passes the guard isQueueItem.  One that  *)
(* did not would make readQueue return an empty queue.                     *)
(***************************************************************************)

\* A dispatch cycle writes its own copy of the item, taken before its sleep: the
\* copy must stay acceptable too, in the cycle that runs and in the sleeping ones.
IsMarker(m) == IsQueueItem(m) /\ m.status = "active"
Dispatching == {"mark", "submit", "start", "bind"}
EntriesInv ==
  /\ EntriesValid
  /\ pc.at \in {"submit", "start", "bind"} => IsMarker(pc.m)
  /\ \A k \in DOMAIN sleepers : IsMarker(sleepers[k].m)
  /\ At("mark") => item[pc.i].status = "waiting"

\* The empty state directory has no entries and no dispatch cycles.
LEMMA InitEntries == Init => EntriesInv
<1> SUFFICES ASSUME Init PROVE EntriesInv
  OBVIOUS
<1>1. NoItem.status = "absent"
  BY DEF NoItem, NormalizeNewItem
<1>2. EntriesValid
  BY <1>1 DEF Init, EntriesValid, FileStatus
<1>3. sleepers = << >> /\ pc.at = "idle"
  BY DEF Init, Idle
<1> QED
  BY <1>2, <1>3 DEF EntriesInv, At

\* A step that leaves the file and the sleeping cycles alone and is not
\* dispatching.
LEMMA FileStill ==
  ASSUME EntriesInv, UNCHANGED <<item, sleepers>>, pc'.at \notin Dispatching
  PROVE  EntriesInv'
  BY DEF EntriesInv, EntriesValid, At, Dispatching

\* A step that replaces one entry by an acceptable one.
LEMMA EntryReplaced ==
  ASSUME TypeOK, EntriesInv, NEW i, NEW it, item' = [item EXCEPT ![i] = it],
         IsQueueItem(it)
  PROVE  EntriesValid'
  BY DEF TypeOK, EntriesInv, EntriesValid

\* The same, with nothing dispatching behind it.
LEMMA EntryStep ==
  ASSUME TypeOK, EntriesInv, NEW i, NEW it, item' = [item EXCEPT ![i] = it],
         IsQueueItem(it), UNCHANGED sleepers, pc'.at \notin Dispatching
  PROVE  EntriesInv'
  BY EntryReplaced DEF EntriesInv, At, Dispatching

\* The marker a cycle starts with is acceptable.
LEMMA MarkForValid ==
  ASSUME TypeOK, EntriesInv, NEW i \in Items, MarkFor(i), UNCHANGED sleepers,
         item[i].status = "waiting"
  PROVE  EntriesInv'
<1>1. IsQueueItem(item[i])
  BY DEF EntriesInv, EntriesValid, FileStatus
<1>2. IsQueueItem(DispatchingItem(item[i]))
  BY <1>1, KeepPointersValid
<1>3. DispatchingItem(item[i]).status = "active"
  BY DEF DispatchingItem, KeepPointers, CarriedFields, NormalizeNewItem
<1>4. item' = [item EXCEPT ![i] = DispatchingItem(item[i])]
  BY DEF MarkFor, Replace
<1>5. pc'.at = "submit" /\ pc'.m = DispatchingItem(item[i])
  BY DEF MarkFor, TypeOK, PcType
<1>6. EntriesValid'
  BY <1>2, <1>4, EntryReplaced
<1> QED
  BY <1>2, <1>3, <1>5, <1>6 DEF EntriesInv, IsMarker, At

\* The repair pass writes only acceptable entries.
LEMMA RepairedItemValid ==
  ASSUME TypeOK, NEW it \in ItemType(Tasks, RunIds), IsQueueItem(it)
  PROVE  IsQueueItem(RepairedItem(it))
<1>1. it.runId \in RunIds
  BY DEF ItemType
<1>2. ReadMeta(it.runId).status \in ReadableStatus
  BY <1>1, ReadMetaType
<1>3. it.status = "suspended" => it.runId # None
  BY DEF IsQueueItem
<1>4. it.runId # None =>
        /\ IsQueueItem(RepairBoundActive(it, ReadMeta(it.runId),
                                         PauseState(it.runId)))
        /\ IsQueueItem(RepairSuspended(it, ReadMeta(it.runId)))
        /\ IsQueueItem(RepairNeedsInput(it, ReadMeta(it.runId)))
  BY <1>2, RepairValid
<1>5. \A t : IsQueueItem(RepairMarker(it, UniqueRunning, t))
  BY RepairMarkerValid
<1> QED
  BY <1>3, <1>4, <1>5 DEF RepairedItem

\* An entry off the file is left alone.
LEMMA RepairLeavesOffFile ==
  ASSUME NEW it, it.status \notin FileStatus
  PROVE  RepairedItem(it) = it
  BY DEF RepairedItem, FileStatus

\* What a settled run's item becomes is acceptable.
LEMMA SettledAsValid ==
  ASSUME NEW r \in Runs, NEW it, IsQueueItem(it),
         meta[r].status \in SettleableStatus \cup {"suspended"}
  PROVE  IsQueueItem(SettledAs(it, r))
<1>1. IsQueueItem(SuspendedItem(it, r)) /\ IsQueueItem(ReleaseToWaiting(it))
  BY IdFacts, DropPointersValid, KeepPointersValid
<1>2. ASSUME meta[r].status \in SettleableStatus
      PROVE  IsQueueItem(SettledItem(it, ReadMeta(r), r))
  <2>1. ReadMeta(r).status \in SettleableStatus
    BY <1>2 DEF ReadMeta, SettleableStatus
  <2> QED
    BY <2>1, SettledValid
<1> QED
  BY <1>1, <1>2 DEF SettledAs, SettleableStatus

\* The steps of the run in the slot never write the queue file.
LEMMA RunStepEntries ==
  ASSUME TypeInv, EntriesInv, RunStep
  PROVE  EntriesInv'
<1> USE DEF fileVars, runVars, pauseVars, slotVars, loopVars, timeVars
<1>0. pc \in PcType
  BY DEF TypeInv, TypeOK
<1>1. CASE SubmitAccepted
  <2>1. pc'.at = "start" /\ pc'.m = pc.m
    BY <1>0, <1>1 DEF SubmitAccepted, PcType
  <2> QED
    BY <1>1, <2>1 DEF SubmitAccepted, EntriesInv, EntriesValid, At
<1>2. CASE StartRun
  <2>1. pc'.at = "bind" /\ pc'.m = pc.m
    BY <1>0, <1>2, GotoType DEF StartRun, Labels
  <2> QED
    BY <1>2, <2>1 DEF StartRun, EntriesInv, EntriesValid, At
<1>3. CASE \/ SafePoint \/ OperatorPause \/ StartWriteCapableRole
           \/ WriteWorkspace \/ Park \/ Suspend \/ RoleCallSucceeds \/ PauseRun
  <2>1. UNCHANGED <<item, sleepers, pc>>
    BY <1>3 DEF SafePoint, OperatorPause, StartWriteCapableRole, WriteWorkspace,
                Park, Suspend, RoleCallSucceeds, PauseRun
  <2> QED
    BY <2>1 DEF EntriesInv, EntriesValid, At
<1>4. ASSUME NEW s, NEW q, NEW k, TerminalMeta(s, q, k)
      PROVE  pc'.at = "cleanup"
  BY <1>4, IdleType DEF TerminalMeta, Enter, PcType
<1>5. ASSUME NEW s, NEW q, Finish(s, q)
      PROVE  EntriesInv'
  BY <1>4, <1>5, FileStill DEF Finish, Dispatching
<1>6. CASE Unwind
  BY <1>4, <1>6, FileStill DEF Unwind, Dispatching
<1>7. CASE Cleanup
  <2>1. pc'.at = "settle"
    BY <1>0, <1>7, GotoType DEF Cleanup, Labels
  <2> QED
    BY <1>7, <2>1, FileStill DEF Cleanup, Dispatching
<1>8. ASSUME NEW r \in Runs, ResumeRun(r)
      PROVE  EntriesInv'
  <2>1. BeginResume(r, "none") /\ UNCHANGED <<item, sleepers>>
    BY <1>8 DEF ResumeRun
  <2>2. pc'.at \in {"startResume", "terminate"}
    BY <2>1, BeginResumeType DEF Callers
  <2> QED
    BY <2>1, <2>2, FileStill DEF Dispatching
<1>9. CASE StartResume
  <2>1. pc'.at \in {"reactivateSuspended", "reactivateError"}
    BY <1>0, <1>9, GotoType DEF StartResume, Labels
  <2> QED
    BY <1>9, <2>1, FileStill DEF StartResume, Dispatching
<1>10. CASE TerminateMeta
  <2>1. pc'.at \in {"dropCheckpoint", "cancel"}
    BY <1>0, <1>10, GotoType DEF TerminateMeta, Labels
  <2> QED
    BY <1>10, <2>1, FileStill DEF TerminateMeta, Dispatching
<1>11. CASE DropCheckpoint
  <2>1. pc'.at = "cancel"
    BY <1>0, <1>11, GotoType DEF DropCheckpoint, Labels
  <2> QED
    BY <1>11, <2>1, FileStill DEF DropCheckpoint, Dispatching
<1> QED
  BY <1>1, <1>2, <1>3, <1>5, <1>6, <1>7, <1>8, <1>9, <1>10, <1>11 DEF RunStep

\* Neither does the boot reconciliation.
LEMMA BootStepEntries ==
  ASSUME TypeInv, EntriesInv, BootStep
  PROVE  EntriesInv'
<1> USE DEF fileVars, runVars, pauseVars, slotVars, loopVars, timeVars
<1>1. ASSUME NEW label \in {"tick", "scan"}, NEW c \in Callers,
             Enter(label, None, None, c)
      PROVE  pc'.at \notin Dispatching
  BY <1>1, EnterType, IdFacts DEF Labels, Dispatching
<1>2. CASE Boot \/ AdoptPaused \/ ResumeWinner \/ NothingToResume
  <2>1. UNCHANGED <<item, sleepers>>
    BY <1>2 DEF Boot, AdoptPaused, ResumeWinner, NothingToResume
  <2>2. \E label \in {"tick", "scan"}, c \in Callers : Enter(label, None, None, c)
    BY <1>2 DEF Boot, AdoptPaused, ResumeWinner, NothingToResume, Callers
  <2> QED
    BY <1>1, <2>1, <2>2, FileStill
<1>3. ASSUME NEW r \in Runs, ReconcileRun(r) \/ Supersede(r)
      PROVE  EntriesInv'
  <2>1. UNCHANGED <<item, sleepers, pc>>
    BY <1>3 DEF ReconcileRun, Supersede
  <2> QED
    BY <2>1 DEF EntriesInv, EntriesValid, At
<1> QED
  BY <1>2, <1>3 DEF BootStep

\* A crash forgets the dispatch cycles and leaves the file as it is.
LEMMA DisturbanceEntries ==
  ASSUME TypeInv, EntriesInv, Disturbance
  PROVE  EntriesInv'
<1> USE DEF fileVars, runVars, pauseVars, slotVars, loopVars, timeVars
<1>1. CASE Crash \/ Exit
  <2>1. item' = item /\ sleepers' = << >> /\ pc'.at = "idle"
    BY <1>1 DEF Crash, Exit, ProcessEnds, Idle
  <2> QED
    BY <2>1 DEF EntriesInv, EntriesValid, At
<1>2. ASSUME UNCHANGED <<item, sleepers, pc>>
      PROVE  EntriesInv'
  BY <1>2 DEF EntriesInv, EntriesValid, At
<1>3. CASE ObserveShutdown
  BY <1>2, <1>3 DEF ObserveShutdown
<1>4. ASSUME NEW r \in Runs, LoseCheckpoint(r)
      PROVE  EntriesInv'
  BY <1>2, <1>4 DEF LoseCheckpoint
<1> QED
  BY <1>1, <1>3, <1>4 DEF Disturbance

\* The steps the queue takes by itself.
LEMMA QueueStepEntries ==
  ASSUME TypeInv, EntriesInv, QueueStep
  PROVE  EntriesInv'
<1> USE DEF fileVars, runVars, pauseVars, slotVars, loopVars, timeVars
<1>0. /\ pc.caller \in Callers /\ pc.i \in Items \cup {None} /\ pc \in PcType
      /\ TypeOK /\ item \in [Items -> ItemType(Tasks, RunIds)]
  BY DEF TypeInv, TypeOK, PcType
<1>1. ASSUME NEW i \in Items \cup {None}, Leave(pc.caller, i)
      PROVE  pc'.at \notin Dispatching
  BY <1>0, <1>1, LeaveType DEF Dispatching
<1>2. ASSUME NEW i \in Items, item[i].status \in FileStatus
      PROVE  IsQueueItem(item[i])
  BY <1>2 DEF EntriesInv, EntriesValid
<1>3. CASE TickCleanup
  BY <1>3 DEF TickCleanup, EntriesInv, EntriesValid, At
<1>4. CASE TickRepair
  <2>1. item' = [i \in Items |-> RepairedItem(item[i])] /\ sleepers' = sleepers
    BY <1>4 DEF TickRepair
  <2>2. pc'.at \notin Dispatching
    <3>1. Goto("dispatch") \/ Leave(pc.caller, pc.i)
      BY <1>4 DEF TickRepair
    <3> QED
      BY <1>0, <1>1, <3>1, GotoType DEF Labels, Dispatching
  <2>3. ASSUME NEW i \in Items, item'[i].status \in FileStatus
        PROVE  IsQueueItem(item'[i])
    <3>1. CASE item[i].status \in FileStatus
      BY <1>0, <1>2, <2>1, <3>1, RepairedItemValid
    <3>2. CASE item[i].status \notin FileStatus
      BY <2>1, <2>3, <3>2, RepairLeavesOffFile
    <3> QED
      BY <3>1, <3>2
  <2> QED
    BY <2>1, <2>2, <2>3 DEF EntriesInv, EntriesValid, At, Dispatching
<1>5. CASE DispatchNone
  BY <1>0, <1>1, <1>5, FileStill DEF DispatchNone
<1>6. CASE DispatchHead
  <2>1. PICK i \in Items :
          /\ IsFirst(i, WithStatus("waiting"))
          /\ \/ /\ Replace(i, [DispatchingItem(item[i])
                                 EXCEPT !.runId = item[i].resumeRunId])
                /\ pc' = [pc EXCEPT !.at = "resumeAnswered", !.i = i,
                                    !.r = item[i].resumeRunId]
             \/ MarkFor(i)
    BY <1>6 DEF DispatchHead
  <2>2. item[i].status = "waiting" /\ sleepers' = sleepers
    BY <1>6, <2>1 DEF DispatchHead, IsFirst, WithStatus
  <2>3. CASE MarkFor(i)
    BY <1>0, <2>2, <2>3, MarkForValid
  <2>4. CASE /\ Replace(i, [DispatchingItem(item[i])
                              EXCEPT !.runId = item[i].resumeRunId])
             /\ pc' = [pc EXCEPT !.at = "resumeAnswered", !.i = i,
                                 !.r = item[i].resumeRunId]
    <3> DEFINE it == [DispatchingItem(item[i])
                        EXCEPT !.runId = item[i].resumeRunId]
    <3>1. IsQueueItem(item[i])
      BY <1>2, <2>2 DEF FileStatus
    <3>2. IsQueueItem(it)
      BY <3>1 DEF IsQueueItem, DispatchingItem, KeepPointers, CarriedFields,
                  NormalizeNewItem, FileStatus, None
    <3>3. item' = [item EXCEPT ![i] = it]
      BY <2>4 DEF Replace
    <3>4. pc'.at \notin Dispatching
      BY <1>0, <2>4 DEF PcType, Dispatching
    <3> HIDE DEF it
    <3> QED
      BY <1>0, <2>2, <3>2, <3>3, <3>4, EntryStep
  <2> QED
    BY <2>1, <2>3, <2>4
<1>7. CASE MarkFallback
  <2>1. pc.i \in Items /\ item[pc.i].status = "waiting"
    BY <1>7 DEF MarkFallback, TypeInv, SectionOK, EntriesInv, At
  <2> QED
    BY <1>0, <1>7, <2>1, MarkForValid DEF MarkFallback
<1>8. CASE SubmitRefused
  <2>1. IsQueueItem(ReleaseToWaiting(pc.m))
    BY <1>8, KeepPointersValid DEF SubmitRefused, EntriesInv, IsMarker, At
  <2>2. item' = [item EXCEPT ![pc.i] = ReleaseToWaiting(pc.m)]
        /\ sleepers' = sleepers /\ pc'.at \notin Dispatching
    BY <1>0, <1>1, <1>8 DEF SubmitRefused, Replace
  <2> QED
    BY <1>0, <2>1, <2>2, EntryStep
<1>9. CASE SubmitCollides
  <2> DEFINE s == [i |-> pc.i, m |-> pc.m, n |-> pc.n + 1, ready |-> FALSE,
                   caller |-> IF pc.caller = "probe" THEN "none" ELSE pc.caller]
  <2>1. IsMarker(s.m)
    BY <1>9 DEF SubmitCollides, EntriesInv, At
  <2>2. sleepers' = Append(sleepers, s) /\ item' = item
    BY <1>9 DEF SubmitCollides
  <2>3. pc'.at \notin Dispatching
    <3>1. Leave("probe", None) \/ pc' = Idle
      BY <1>9 DEF SubmitCollides
    <3> QED
      BY <3>1, LeaveType DEF Callers, Idle, Dispatching
  <2> HIDE DEF s
  <2>4. ASSUME NEW k \in DOMAIN sleepers'
        PROVE  IsMarker(sleepers'[k].m)
    <3>1. sleepers \in Seq(SleeperType)
      BY <1>0 DEF TypeOK
    <3>2. CASE k \in DOMAIN sleepers
      BY <2>2, <3>1, <3>2 DEF EntriesInv
    <3>3. CASE k = Len(sleepers) + 1
      BY <2>1, <2>2, <3>1, <3>3
    <3> QED
      BY <2>2, <3>1, <3>2, <3>3
  <2> QED
    BY <2>2, <2>3, <2>4 DEF EntriesInv, EntriesValid, At, Dispatching
<1>10. CASE WakeSleeper
  <2> DEFINE s == Head(sleepers)
  <2>1. sleepers \in Seq(SleeperType) /\ sleepers # << >>
    BY <1>0, <1>10 DEF WakeSleeper, TypeOK
  <2>2. s \in SleeperType /\ IsMarker(s.m)
    BY <2>1, HeadTailProperties DEF EntriesInv
  <2>3. s.caller \in Callers /\ s.i \in Items
    BY <2>2 DEF SleeperType
  <2>4. item' = item /\ sleepers' = Tail(sleepers)
    BY <1>10 DEF WakeSleeper
  <2>5. ASSUME NEW k \in DOMAIN sleepers'
        PROVE  IsMarker(sleepers'[k].m)
    BY <2>1, <2>4 DEF EntriesInv
  <2>6. \/ pc'.at = "submit" /\ pc'.m = s.m
        \/ Leave(s.caller, s.i)
    BY <1>10, IdleType DEF WakeSleeper, PcType
  <2> HIDE DEF s
  <2>7. \/ pc'.at = "submit" /\ IsMarker(pc'.m)
        \/ pc'.at \notin Dispatching
    BY <2>2, <2>3, <2>6, LeaveType DEF Dispatching
  <2> QED
    BY <2>4, <2>5, <2>7 DEF EntriesInv, EntriesValid, At, Dispatching
<1>11. CASE BindRun
  <2>1. pc.m \in ItemType(Tasks, RunIds) /\ IsMarker(pc.m)
    BY <1>0, <1>11 DEF BindRun, EntriesInv, At, PcType
  <2>2. IsQueueItem([pc.m EXCEPT !.runId = pc.r])
    BY <2>1 DEF IsMarker, IsQueueItem, ItemType
  <2>3. item' = [item EXCEPT ![pc.i] = [pc.m EXCEPT !.runId = pc.r]]
        /\ sleepers' = sleepers /\ pc'.at \notin Dispatching
    BY <1>0, <1>1, <1>11 DEF BindRun, Replace
  <2> QED
    BY <1>0, <2>2, <2>3, EntryStep
<1>12. CASE ResumeAnswered
  <2>1. sleepers' = sleepers /\ pc.i \in Items
    BY <1>12 DEF ResumeAnswered, TypeInv, SectionOK, At
  <2>2. CASE Goto("startAnswered") /\ UNCHANGED fileVars
    <3>1. pc'.at = "startAnswered"
      BY <1>0, <2>2, GotoType DEF Labels
    <3> QED
      BY <2>1, <2>2, <3>1, FileStill DEF Dispatching
  <2>3. CASE Replace(pc.i, BriefedFallback(item[pc.i], pc.r)) /\ Goto("mark")
    <3> DEFINE it == BriefedFallback(item[pc.i], pc.r)
    <3>1. IsQueueItem(it)
      BY DropPointersValid
    <3>2. it.status = "waiting"
      BY DEF BriefedFallback, CarriedFields, NormalizeNewItem
    <3>3. item' = [item EXCEPT ![pc.i] = it]
      BY <2>3 DEF Replace
    <3>4. pc'.at = "mark" /\ pc'.i = pc.i
      BY <1>0, <2>3, GotoType DEF Labels
    <3> HIDE DEF it
    <3>5. EntriesValid'
      BY <1>0, <3>1, <3>3, EntryReplaced
    <3>6. item'[pc'.i].status = "waiting"
      BY <1>0, <2>1, <3>2, <3>3, <3>4
    <3> QED
      BY <2>1, <3>4, <3>5, <3>6 DEF EntriesInv, At
  <2> QED
    BY <1>12, <2>2, <2>3 DEF ResumeAnswered
<1>13. CASE StartAnswered
  BY <1>0, <1>1, <1>13, FileStill DEF StartAnswered
<1>14. ASSUME At("settle"), ReplaceSettled(pc.r), sleepers' = sleepers,
              pc'.at \notin Dispatching
       PROVE  EntriesInv'
  <2>1. /\ pc.r \in Runs
        /\ meta[pc.r].status \in SettleableStatus \cup {"suspended"}
    BY <1>14 DEF TypeInv, SectionOK, At
  <2>2. CASE UNCHANGED fileVars
    BY <1>14, <2>2, FileStill
  <2>3. CASE \E i \in Items : /\ IsFirst(i, BoundTo("active", pc.r))
                              /\ Replace(i, SettledAs(item[i], pc.r))
    <3>1. PICK i \in Items : /\ IsFirst(i, BoundTo("active", pc.r))
                             /\ Replace(i, SettledAs(item[i], pc.r))
      BY <2>3
    <3>2. item[i].status = "active"
      BY <3>1 DEF IsFirst, BoundTo
    <3>3. IsQueueItem(SettledAs(item[i], pc.r))
      BY <1>2, <2>1, <3>2, SettledAsValid DEF FileStatus
    <3> QED
      BY <1>0, <1>14, <3>1, <3>3, EntryStep DEF Replace
  <2> QED
    BY <1>14, <2>2, <2>3 DEF ReplaceSettled
<1>15. CASE SettleSuspended
  BY <1>14, <1>15 DEF SettleSuspended, Idle, Dispatching
<1>16. CASE SettleTerminal
  <2>1. pc'.at = "tick"
    BY <1>16, EnterType, IdFacts DEF SettleTerminal, Labels, Callers
  <2> QED
    BY <1>14, <1>16, <2>1 DEF SettleTerminal, Dispatching
<1>17. ASSUME NEW label, NEW status, Reactivate(label, status)
       PROVE  EntriesInv'
  <2>1. \/ UNCHANGED fileVars
        \/ \E i \in Items : Replace(i, BoundItem(item[i], pc.r))
    BY <1>17 DEF Reactivate
  <2>2. sleepers' = sleepers /\ pc'.at \notin Dispatching
    BY <1>1, <1>17 DEF Reactivate
  <2>3. \A i \in Items : IsQueueItem(BoundItem(item[i], pc.r))
    BY DropPointersValid
  <2> QED
    BY <1>0, <2>1, <2>2, <2>3, EntryStep, FileStill DEF Replace
<1>18. CASE SubmitNowReturns
  <2>1. sleepers' = sleepers /\ pc'.at \notin Dispatching
    BY <1>18 DEF SubmitNowReturns, Idle, Dispatching
  <2>2. \/ item' = item
        \/ item' = [item EXCEPT ![pc.i].status = "removed"]
    BY <1>18 DEF SubmitNowReturns
  <2>3. ASSUME NEW i \in Items, item'[i].status \in FileStatus
        PROVE  item'[i] = item[i]
    <3>1. CASE i = pc.i /\ item' = [item EXCEPT ![pc.i].status = "removed"]
      <4>1. item'[i].status = "removed"
        BY <1>0, <3>1 DEF ItemType
      <4> QED
        BY <2>3, <4>1 DEF FileStatus
    <3>2. CASE i # pc.i /\ item' = [item EXCEPT ![pc.i].status = "removed"]
      BY <1>0, <3>2
    <3> QED
      BY <2>2, <3>1, <3>2
  <2> QED
    BY <1>2, <2>1, <2>3 DEF EntriesInv, EntriesValid, At, Dispatching
<1>19. CASE CancelTerminated
  <2>1. \/ UNCHANGED fileVars
        \/ \E i \in Items : Replace(i, CancelledItem(item[i]))
    BY <1>0, <1>19 DEF CancelTerminated
  <2>2. sleepers' = sleepers /\ (pc' = Idle \/ Enter("tick", None, None, pc.caller))
    BY <1>19 DEF CancelTerminated
  <2>3. pc'.at \notin Dispatching
    BY <1>0, <2>2, EnterType, IdFacts DEF Labels, Idle, Dispatching
  <2>4. \A i \in Items : IsQueueItem(CancelledItem(item[i]))
    BY DropPointersValid
  <2> QED
    BY <1>0, <2>1, <2>2, <2>3, <2>4, EntryStep, FileStill DEF Replace
<1>20. CASE HandleHealthy
  <2>1. UNCHANGED <<item, sleepers>>
    BY <1>20 DEF HandleHealthy
  <2>2. pc'.at \notin Dispatching
    <3>1. CASE Enter("tick", None, None, "none")
      BY <3>1, EnterType, IdFacts DEF Labels, Callers, Dispatching
    <3>2. CASE paused.kind = "provider" /\ BeginResume(paused.run, "probe")
      <4>1. paused.run \in Runs /\ "probe" \in Callers
        BY <3>2 DEF TypeInv, SectionOK, Callers
      <4> QED
        BY <3>2, <4>1, BeginResumeType DEF Dispatching
    <3> QED
      BY <1>20, <3>1, <3>2 DEF HandleHealthy
  <2> QED
    BY <2>1, <2>2, FileStill
<1> QED
  BY <1>3, <1>4, <1>5, <1>6, <1>7, <1>8, <1>9, <1>10, <1>11, <1>12, <1>13,
     <1>15, <1>16, <1>17, <1>18, <1>19, <1>20 DEF QueueStep

\* The requests the queue answers, the probe and the clock.
LEMMA QueueRequestEntries ==
  ASSUME TypeInv, EntriesInv, QueueRequest
  PROVE  EntriesInv'
<1> USE DEF fileVars, runVars, pauseVars, slotVars, loopVars, timeVars
<1>0. TypeOK /\ item \in [Items -> ItemType(Tasks, RunIds)]
  BY DEF TypeInv, TypeOK
<1>1. ASSUME NEW label \in {"tick", "terminate", "recover"},
             NEW i \in Items \cup {None}, NEW r \in RunIds, NEW c \in Callers,
             Enter(label, i, r, c)
      PROVE  pc'.at \notin Dispatching
  BY <1>1, EnterType DEF Labels, Dispatching
<1>2. /\ {"none", "now", "answer"} \subseteq Callers /\ None \in RunIds
      /\ \A i \in Items : item[i].runId \in RunIds
  BY <1>0, IdFacts DEF Callers, ItemType
<1>3. pc = Idle => pc.at \notin Dispatching
  BY DEF Idle, Dispatching
<1>4. ASSUME NEW i \in Items, NEW t \in Tasks, NEW r \in Lineage,
             NEW h \in BOOLEAN, Enqueue(i, t, r, h)
      PROVE  EntriesInv'
  <2>1. item' = [item EXCEPT ![i] = NormalizeNewItem(t, r)]
        /\ sleepers' = sleepers /\ Enter("tick", None, None, "none")
    BY <1>4 DEF Enqueue
  <2>2. pc'.at \notin Dispatching
    BY <1>1, <1>2, <2>1
  <2> QED
    BY <1>0, <2>1, <2>2, NewItemValid, EntryStep
<1>5. ASSUME NEW i \in Items, NEW t \in Tasks, SubmitNow(i, t)
      PROVE  EntriesInv'
  <2>1. item' = [item EXCEPT ![i] = NormalizeNewItem(t, None)]
        /\ sleepers' = sleepers /\ Enter("tick", i, None, "now")
    BY <1>5 DEF SubmitNow
  <2>2. pc'.at \notin Dispatching
    BY <1>1, <1>2, <2>1
  <2> QED
    BY <1>0, <2>1, <2>2, NewItemValid, EntryStep
<1>6. ASSUME NEW i \in Items, NEW t \in Tasks, EditTask(i, t)
      PROVE  EntriesInv'
  <2>1. IsQueueItem(item[i])
    BY <1>6 DEF EditTask, EntriesInv, EntriesValid, FileStatus
  <2>2. IsQueueItem([item[i] EXCEPT !.task = t])
    BY <1>0, <2>1 DEF IsQueueItem, ItemType
  <2>3. item' = [item EXCEPT ![i] = [item[i] EXCEPT !.task = t]]
        /\ sleepers' = sleepers /\ pc' = pc /\ pc = Idle
    BY <1>6 DEF EditTask, Replace, Serving, LoopFree
  <2> QED
    BY <1>0, <1>3, <2>2, <2>3, EntryStep
<1>7. ASSUME NEW i \in Items, NEW p, Reorder(i, p)
      PROVE  EntriesInv'
  BY <1>7 DEF Reorder, EntriesInv, EntriesValid, At
<1>8. ASSUME NEW i \in Items, Cancel(i)
      PROVE  EntriesInv'
  <2>1. item' = [item EXCEPT ![i] = CancelledItem(item[i])]
        /\ sleepers' = sleepers /\ pc' = pc /\ pc = Idle
    BY <1>8 DEF Cancel, Replace, Serving, LoopFree
  <2> QED
    BY <1>0, <1>3, <2>1, DropPointersValid, EntryStep
<1>9. ASSUME NEW i \in Items, TerminateItem(i)
      PROVE  EntriesInv'
  <2>1. UNCHANGED <<item, sleepers>> /\ Enter("terminate", i, item[i].runId, "none")
    BY <1>9 DEF TerminateItem
  <2> QED
    BY <1>1, <1>2, <2>1, FileStill
<1>10. ASSUME NEW i \in Items, Answer(i)
       PROVE  EntriesInv'
  <2>1. CASE /\ Enter("terminate", i, item[i].runId, "answer")
             /\ UNCHANGED fileVars
    BY <1>1, <1>2, <1>10, <2>1, FileStill DEF Answer
  <2>2. CASE /\ item' = [item EXCEPT ![i] =
                  RecordAnswer(item[i], count.answers + 1,
                               AnswerTarget(i).run, AnswerTarget(i).call)]
             /\ Enter("tick", None, None, "none")
    <3>1. AnswerTarget(i).call # None => AnswerTarget(i).run # None
      <4>1. PauseState(item[i].runId).kind = "parked_ask" => item[i].runId \in Runs
        BY <1>0, <1>2, PauseStateType
      <4> QED
        BY <4>1, IdFacts DEF AnswerTarget
    <3>2. count.answers + 1 # None
      BY <1>0 DEF TypeOK, CountType, None
    <3>3. IsQueueItem(RecordAnswer(item[i], count.answers + 1,
                                   AnswerTarget(i).run, AnswerTarget(i).call))
      BY <3>1, <3>2, RecordAnswerValid
    <3>4. sleepers' = sleepers /\ pc'.at \notin Dispatching
      BY <1>1, <1>2, <1>10, <2>2 DEF Answer
    <3> QED
      BY <1>0, <2>2, <3>3, <3>4, EntryStep
  <2> QED
    BY <1>10, <2>1, <2>2 DEF Answer
<1>11. ASSUME NEW i \in Items, Requeue(i)
       PROVE  EntriesInv'
  <2>1. item' = [item EXCEPT ![i] = RequeuedItem(item[i])]
        /\ sleepers' = sleepers /\ Enter("tick", None, None, "none")
    BY <1>11 DEF Requeue
  <2>2. pc'.at \notin Dispatching
    BY <1>1, <1>2, <2>1
  <2> QED
    BY <1>0, <2>1, <2>2, DropPointersValid, EntryStep
<1>12. ASSUME NEW r \in Runs, TerminateSuspendedRun(r)
       PROVE  EntriesInv'
  <2>1. UNCHANGED <<item, sleepers>> /\ Enter("terminate", None, r, "none")
        /\ r \in RunIds
    BY <1>12, IdFacts DEF TerminateSuspendedRun
  <2> QED
    BY <1>1, <1>2, <2>1, FileStill
<1>13. CASE ProbeHealthy
  <2>1. UNCHANGED <<item, sleepers>> /\ Enter("recover", None, None, "none")
    BY <1>13 DEF ProbeHealthy
  <2> QED
    BY <1>1, <1>2, <2>1, FileStill
<1>14. CASE ProbeFails
  BY <1>14 DEF ProbeFails, EntriesInv, EntriesValid, At
<1>15. CASE SecondPasses
  <2>1. /\ pc' = pc /\ item' = item
        /\ sleepers' = [k \in DOMAIN sleepers |->
                          [sleepers[k] EXCEPT !.ready = TRUE]]
    BY <1>15 DEF SecondPasses
  <2>2. \A k \in DOMAIN sleepers :
          [sleepers[k] EXCEPT !.ready = TRUE].m = sleepers[k].m
    <3>1. \A k \in DOMAIN sleepers : sleepers[k] \in SleeperType
      BY <1>0 DEF TypeOK
    <3> QED
      BY <3>1 DEF SleeperType
  <2> QED
    BY <2>1, <2>2 DEF EntriesInv, EntriesValid, At
<1> QED
  BY <1>4, <1>5, <1>6, <1>7, <1>8, <1>9, <1>10, <1>11, <1>12, <1>13, <1>14,
     <1>15 DEF QueueRequest

\* Every step of the service.
LEMMA NextEntries ==
  ASSUME TypeInv, EntriesInv, [Next]_vars
  PROVE  EntriesInv'
<1>1. CASE UNCHANGED vars
  BY <1>1 DEF vars, fileVars, timeVars, EntriesInv, EntriesValid, At
<1> QED
  BY <1>1, QueueStepEntries, QueueRequestEntries, RunStepEntries,
     BootStepEntries, DisturbanceEntries DEF Next

\* Every entry the service ever leaves in the queue file is one isQueueItem
\* accepts, through every crash, repair, overlapping retry and answer, so a reader
\* never drops the file for an entry the service wrote.
THEOREM EntriesAlwaysValid == Spec => []EntriesValid
<1>1. Init => TypeInv /\ EntriesInv
  BY InitType, InitEntries
<1>2. TypeInv /\ EntriesInv /\ [Next]_vars => (TypeInv /\ EntriesInv)'
  BY NextType, NextEntries
<1>3. EntriesInv => EntriesValid
  BY DEF EntriesInv
<1> QED
  BY <1>1, <1>2, <1>3, PTL DEF Spec

-----------------------------------------------------------------------------
(***************************************************************************)
(* The service implements the task lifecycle its document promises: the    *)
(* initial states map to the abstract initial state, and every step of the *)
(* service, crashes and boot repairs included, maps to a step of           *)
(* TaskLifecycle or to a stutter.                                          *)
(***************************************************************************)

\* A section that is about to write an item relies on the status the item had when
\* the section began: a dispatch cycle on its marker, a termination on the paused
\* item it was asked to cancel.
Dispatched  == {"resumeAnswered", "submit", "start", "bind"}
Terminating == {"terminate", "dropCheckpoint", "cancel"}
LifecycleInv ==
  /\ pc.at \in Dispatched => item[pc.i].status = "active"
  /\ pc.at \in Terminating /\ pc.i # None =>
       item[pc.i].status \in {"needs_input", "suspended"}

\* The status of an item goes from s to t along the table, or stays.
Along(s, t) == t = s \/ t \in Lifecycle!Moves[s]

\* What TaskLifecycle asks of a step beyond the type of the statuses.
MoveStep ==
  /\ \A i \in Items : Along(item[i].status, item'[i].status)
  /\ \A i, j \in Items :
       /\ item[i].status = "waiting" /\ item'[i].status # "waiting"
       /\ item[j].status = "waiting" /\ item'[j].status # "waiting"
       => i = j

-----------------------------------------------------------------------------
(* The moves of one item.                                                  *)

\* The status every rebuild of the queue model gives.
LEMMA RebuildStatus ==
  ASSUME NEW it
  PROVE  /\ ReleaseToWaiting(it).status = "waiting"
         /\ DispatchingItem(it).status = "active"
         /\ CancelledItem(it).status = "cancelled"
         /\ RequeuedItem(it).status = "waiting"
         /\ \A r : /\ ReleaseContinuing(it, r).status = "waiting"
                   /\ BriefedFallback(it, r).status = "waiting"
                   /\ BoundItem(it, r).status = "active"
                   /\ SuspendedItem(it, r).status = "suspended"
         /\ \A a, r, c : RecordAnswer(it, a, r, c).status = "waiting"
  BY DEF ReleaseToWaiting, DispatchingItem, CancelledItem, RequeuedItem,
         ReleaseContinuing, BriefedFallback, BoundItem, SuspendedItem,
         RecordAnswer, KeepPointers, CarriedFields, NormalizeNewItem

\* A settled item is done, failed or waits for the operator's input.
LEMMA SettledStatus ==
  ASSUME NEW it, NEW m, m.status \in SettleableStatus, NEW r
  PROVE  SettledItem(it, m, r).status \in {"done", "error", "needs_input"}
  BY DEF SettledItem, MappedStatus, SettleableStatus, NormalizeNewItem

\* The repair pass moves an item along the table, and no item out of the waiting
\* list.
LEMMA RepairMoves ==
  ASSUME TypeOK, NEW it \in ItemType(Tasks, RunIds)
  PROVE  /\ Along(it.status, RepairedItem(it).status)
         /\ it.status = "waiting" => RepairedItem(it) = it
<1> DEFINE m == ReadMeta(it.runId)
<1>1. m.status \in ReadableStatus
  BY ReadMetaType DEF ItemType
<1>2. m.status \in {"success", "error", "needs_clarification"} =>
        SettledItem(it, m, it.runId).status \in {"done", "error", "needs_input"}
  BY SettledStatus DEF SettleableStatus
<1> HIDE DEF m
<1>3. CASE it.status = "needs_input"
  <2>1. RepairedItem(it) \in {it, CancelledItem(it)}
    BY <1>3 DEF RepairedItem, RepairNeedsInput
  <2> QED
    BY <1>3, <2>1, RebuildStatus DEF Along, Lifecycle!Moves
<1>4. CASE it.status = "suspended"
  <2>1. RepairedItem(it) = RepairSuspended(it, m)
    BY <1>4 DEF RepairedItem, m
  <2>2. RepairSuspended(it, m).status \in
          {"suspended", "active", "done", "error", "needs_input", "cancelled"}
    BY <1>2, <1>4, RebuildStatus DEF RepairSuspended, SettleableStatus
  <2> QED
    BY <1>4, <2>1, <2>2 DEF Along, Lifecycle!Moves
<1>5. CASE it.status = "active" /\ it.runId # None
  <2>1. RepairedItem(it) = RepairBoundActive(it, m, PauseState(it.runId))
    BY <1>5 DEF RepairedItem, m
  <2>2. \A p : RepairBoundActive(it, m, p).status \in
          {"waiting", "active", "suspended", "done", "error", "needs_input",
           "cancelled"}
    BY <1>1, <1>2, <1>5, RebuildStatus
       DEF RepairBoundActive, ReadableStatus, SettleableStatus
  <2> QED
    BY <1>5, <2>1, <2>2 DEF Along, Lifecycle!Moves
<1>6. CASE it.status = "active" /\ it.runId = None
  <2>1. \E r, t : RepairedItem(it) = RepairMarker(it, r, t)
    BY <1>6 DEF RepairedItem
  <2>2. \A r, t : RepairMarker(it, r, t).status \in {"active", "waiting"}
    BY RebuildStatus DEF RepairMarker
  <2> QED
    BY <1>6, <2>1, <2>2 DEF Along, Lifecycle!Moves
<1>7. CASE it.status \notin {"needs_input", "suspended", "active"}
  BY <1>7 DEF RepairedItem, Along
<1> QED
  BY <1>3, <1>4, <1>5, <1>6, <1>7

\* The settlement moves the settled run's active item along the table.
LEMMA SettledAsMoves ==
  ASSUME NEW r \in Runs, NEW it, it.status = "active",
         meta[r].status \in SettleableStatus \cup {"suspended"}
  PROVE  Along(it.status, SettledAs(it, r).status)
<1>1. CASE meta[r].status \in SettleableStatus
  <2>1. ReadMeta(r).status \in SettleableStatus
    BY <1>1 DEF ReadMeta, SettleableStatus
  <2>2. SettledAs(it, r) \in {ReleaseToWaiting(it), SettledItem(it, ReadMeta(r), r)}
    BY <1>1 DEF SettledAs, SettleableStatus
  <2> QED
    BY <2>1, <2>2, RebuildStatus, SettledStatus DEF Along, Lifecycle!Moves
<1>2. CASE meta[r].status = "suspended"
  <2>1. SettledAs(it, r) = SuspendedItem(it, r)
    BY <1>2 DEF SettledAs
  <2> QED
    BY <2>1, RebuildStatus DEF Along, Lifecycle!Moves
<1> QED
  BY <1>1, <1>2

-----------------------------------------------------------------------------
(* The steps.                                                              *)

\* A step that leaves the items alone moves none.
LEMMA NoMove ==
  ASSUME UNCHANGED item
  PROVE  MoveStep
  BY DEF MoveStep, Along

\* A step that replaces one item along the table.
LEMMA OneMove ==
  ASSUME TypeOK, NEW i, NEW it, item' = [item EXCEPT ![i] = it],
         Along(item[i].status, it.status)
  PROVE  MoveStep
<1>1. \A j \in Items : item'[j] = IF j = i THEN it ELSE item[j]
  BY DEF TypeOK
<1> QED
  BY <1>1 DEF MoveStep, Along

\* A step that ends with no section relying on an item.
LEMMA NothingHeld ==
  ASSUME pc'.at \notin Dispatched \cup Terminating
  PROVE  LifecycleInv'
  BY DEF LifecycleInv

\* A step that leaves items and continuation alone.
LEMMA NothingMoves ==
  ASSUME LifecycleInv, UNCHANGED <<item, pc>>
  PROVE  LifecycleInv' /\ MoveStep
  BY NoMove DEF LifecycleInv

\* The start of a resume, or of the discard of a run that cannot resume, is about
\* no item.
LEMMA BeginResumeMoves ==
  ASSUME NEW r \in Runs, NEW caller \in Callers, BeginResume(r, caller)
  PROVE  LifecycleInv'
<1>1. \E label \in {"startResume", "terminate"} : Enter(label, None, r, caller)
  BY DEF BeginResume
<1>2. pc'.at \in {"startResume", "terminate"} /\ pc'.i = None
  BY <1>1, EnterType, IdFacts DEF Labels
<1> QED
  BY <1>2 DEF LifecycleInv, Dispatched

\* The steps of the run in the slot, and of the explicit resume and termination,
\* never write the queue file; a start and a termination go on with their item.
LEMMA RunStepMoves ==
  ASSUME TypeInv, LifecycleInv, RunStep
  PROVE  LifecycleInv' /\ MoveStep
<1> USE DEF fileVars, runVars, pauseVars, slotVars, loopVars, timeVars
<1>0. pc \in PcType
  BY DEF TypeInv, TypeOK
<1>1. CASE SubmitAccepted
  <2>1. pc'.at = "start" /\ pc'.i = pc.i /\ item' = item /\ pc.at = "submit"
    BY <1>0, <1>1 DEF SubmitAccepted, PcType, At
  <2> QED
    BY <2>1, NoMove DEF LifecycleInv, Dispatched, Terminating
<1>2. CASE StartRun
  <2>1. pc'.at = "bind" /\ pc'.i = pc.i /\ item' = item /\ pc.at = "start"
    BY <1>0, <1>2, GotoType DEF StartRun, Labels, At
  <2> QED
    BY <2>1, NoMove DEF LifecycleInv, Dispatched, Terminating
<1>3. CASE \/ SafePoint \/ OperatorPause \/ StartWriteCapableRole
           \/ WriteWorkspace \/ Park \/ Suspend \/ RoleCallSucceeds \/ PauseRun
  <2>1. UNCHANGED <<item, pc>>
    BY <1>3 DEF SafePoint, OperatorPause, StartWriteCapableRole, WriteWorkspace,
                Park, Suspend, RoleCallSucceeds, PauseRun
  <2> QED
    BY <2>1, NothingMoves
<1>4. ASSUME NEW s, NEW q, NEW k, TerminalMeta(s, q, k), UNCHANGED item
      PROVE  LifecycleInv' /\ MoveStep
  <2>1. pc'.at = "cleanup"
    BY <1>4, IdleType DEF TerminalMeta, Enter, PcType
  <2> QED
    BY <1>4, <2>1, NoMove, NothingHeld DEF Dispatched, Terminating
<1>5. ASSUME NEW s, NEW q, Finish(s, q)
      PROVE  LifecycleInv' /\ MoveStep
  BY <1>4, <1>5 DEF Finish
<1>6. CASE Unwind
  BY <1>4, <1>6 DEF Unwind
<1>7. CASE Cleanup
  <2>1. pc'.at = "settle" /\ item' = item
    BY <1>0, <1>7, GotoType DEF Cleanup, Labels
  <2> QED
    BY <2>1, NoMove, NothingHeld DEF Dispatched, Terminating
<1>8. ASSUME NEW r \in Runs, ResumeRun(r)
      PROVE  LifecycleInv' /\ MoveStep
  BY <1>8, BeginResumeMoves, NoMove DEF ResumeRun, Callers
<1>9. CASE StartResume
  <2>1. pc'.at \in {"reactivateSuspended", "reactivateError"} /\ item' = item
    BY <1>0, <1>9, GotoType DEF StartResume, Labels
  <2> QED
    BY <2>1, NoMove, NothingHeld DEF Dispatched, Terminating
<1>10. CASE TerminateMeta \/ DropCheckpoint
  <2>1. /\ pc'.at \in {"dropCheckpoint", "cancel"} /\ pc'.i = pc.i
        /\ item' = item /\ pc.at \in {"terminate", "dropCheckpoint"}
    BY <1>0, <1>10, GotoType DEF TerminateMeta, DropCheckpoint, Labels, At
  <2> QED
    BY <2>1, NoMove DEF LifecycleInv, Dispatched, Terminating
<1> QED
  BY <1>1, <1>2, <1>3, <1>5, <1>6, <1>7, <1>8, <1>9, <1>10 DEF RunStep

\* Neither the boot reconciliation nor a crash writes the queue file.
LEMMA BootAndCrashMoves ==
  ASSUME TypeInv, LifecycleInv, BootStep \/ Disturbance
  PROVE  LifecycleInv' /\ MoveStep
<1> USE DEF fileVars, runVars, pauseVars, slotVars, loopVars, timeVars
<1>1. ASSUME NEW label \in {"tick", "scan"}, NEW c \in Callers,
             Enter(label, None, None, c)
      PROVE  pc'.at \notin Dispatched \cup Terminating
  BY <1>1, EnterType, IdFacts DEF Labels, Dispatched, Terminating
<1>2. CASE Boot \/ AdoptPaused \/ ResumeWinner \/ NothingToResume
  <2>1. item' = item
    BY <1>2 DEF Boot, AdoptPaused, ResumeWinner, NothingToResume
  <2>2. \E label \in {"tick", "scan"}, c \in Callers : Enter(label, None, None, c)
    BY <1>2 DEF Boot, AdoptPaused, ResumeWinner, NothingToResume, Callers
  <2> QED
    BY <1>1, <2>1, <2>2, NoMove, NothingHeld
<1>3. ASSUME NEW r \in Runs, ReconcileRun(r) \/ Supersede(r) \/ LoseCheckpoint(r)
      PROVE  LifecycleInv' /\ MoveStep
  BY <1>3, NothingMoves DEF ReconcileRun, Supersede, LoseCheckpoint
<1>4. CASE ObserveShutdown
  BY <1>4, NothingMoves DEF ObserveShutdown
<1>5. CASE Crash \/ Exit
  <2>1. item' = item /\ pc'.at = "idle"
    BY <1>5 DEF Crash, Exit, ProcessEnds, Idle
  <2> QED
    BY <2>1, NoMove, NothingHeld DEF Dispatched, Terminating
<1> QED
  BY <1>2, <1>3, <1>4, <1>5 DEF BootStep, Disturbance

\* The steps the queue takes by itself.
LEMMA QueueStepMoves ==
  ASSUME TypeInv, EntriesInv, LifecycleInv, QueueStep
  PROVE  LifecycleInv' /\ MoveStep
<1> USE DEF fileVars, runVars, pauseVars, slotVars, loopVars, timeVars
<1>0. /\ pc.caller \in Callers /\ pc.i \in Items \cup {None} /\ pc \in PcType
      /\ TypeOK /\ item \in [Items -> ItemType(Tasks, RunIds)]
  BY DEF TypeInv, TypeOK, PcType
<1>1. ASSUME NEW c \in Callers, NEW i \in Items \cup {None}, Leave(c, i)
      PROVE  pc'.at \notin Dispatched \cup Terminating
  BY <1>1, LeaveType DEF Dispatched, Terminating
<1>2. ASSUME UNCHANGED item, pc'.at \notin Dispatched \cup Terminating
      PROVE  LifecycleInv' /\ MoveStep
  BY <1>2, NoMove, NothingHeld
<1>3. ASSUME NEW i \in Items, NEW it, item' = [item EXCEPT ![i] = it],
             Along(item[i].status, it.status),
             pc'.at \notin Dispatched \cup Terminating
      PROVE  LifecycleInv' /\ MoveStep
  BY <1>0, <1>3, OneMove, NothingHeld
<1>4. ASSUME NEW i \in Items, MarkFor(i), item[i].status = "waiting"
      PROVE  LifecycleInv' /\ MoveStep
  <2>1. /\ item' = [item EXCEPT ![i] = DispatchingItem(item[i])]
        /\ pc'.at = "submit" /\ pc'.i = i
    BY <1>0, <1>4 DEF MarkFor, Replace, PcType
  <2>2. Along(item[i].status, DispatchingItem(item[i]).status)
    BY <1>4, RebuildStatus DEF Along, Lifecycle!Moves
  <2>3. item'[i].status = "active"
    BY <1>0, <2>1, RebuildStatus
  <2> QED
    BY <1>0, <2>1, <2>2, <2>3, OneMove DEF LifecycleInv, Terminating
<1>5. CASE TickCleanup
  BY <1>5, NothingMoves DEF TickCleanup
<1>6. CASE TickRepair
  <2>1. item' = [i \in Items |-> RepairedItem(item[i])]
    BY <1>6 DEF TickRepair
  <2>2. pc'.at \notin Dispatched \cup Terminating
    <3>1. Goto("dispatch") \/ Leave(pc.caller, pc.i)
      BY <1>6 DEF TickRepair
    <3> QED
      BY <1>0, <1>1, <3>1, GotoType DEF Labels, Dispatched, Terminating
  <2>3. \A i \in Items : /\ Along(item[i].status, item'[i].status)
                         /\ item[i].status = "waiting" => item'[i].status = "waiting"
    BY <1>0, <2>1, RepairMoves
  <2> QED
    BY <2>2, <2>3, NothingHeld DEF MoveStep
<1>7. CASE DispatchNone
  BY <1>0, <1>1, <1>2, <1>7 DEF DispatchNone
<1>8. CASE DispatchHead
  <2>1. PICK i \in Items :
          /\ IsFirst(i, WithStatus("waiting"))
          /\ \/ /\ Replace(i, [DispatchingItem(item[i])
                                 EXCEPT !.runId = item[i].resumeRunId])
                /\ pc' = [pc EXCEPT !.at = "resumeAnswered", !.i = i,
                                    !.r = item[i].resumeRunId]
             \/ MarkFor(i)
    BY <1>8 DEF DispatchHead
  <2>2. item[i].status = "waiting"
    BY <2>1 DEF IsFirst, WithStatus
  <2>3. CASE MarkFor(i)
    BY <1>4, <2>2, <2>3
  <2>4. CASE /\ Replace(i, [DispatchingItem(item[i])
                              EXCEPT !.runId = item[i].resumeRunId])
             /\ pc' = [pc EXCEPT !.at = "resumeAnswered", !.i = i,
                                 !.r = item[i].resumeRunId]
    <3> DEFINE it == [DispatchingItem(item[i])
                        EXCEPT !.runId = item[i].resumeRunId]
    <3>1. it.status = "active"
      BY RebuildStatus DEF DispatchingItem, KeepPointers, CarriedFields,
                           NormalizeNewItem
    <3>2. item' = [item EXCEPT ![i] = it]
      BY <2>4 DEF Replace
    <3>3. pc'.at = "resumeAnswered" /\ pc'.i = i
      BY <1>0, <2>4 DEF PcType
    <3> HIDE DEF it
    <3>4. Along(item[i].status, it.status)
      BY <2>2, <3>1 DEF Along, Lifecycle!Moves
    <3>5. item'[i].status = "active"
      BY <1>0, <3>1, <3>2
    <3> QED
      BY <1>0, <3>2, <3>3, <3>4, <3>5, OneMove DEF LifecycleInv, Terminating
  <2> QED
    BY <2>1, <2>3, <2>4
<1>9. CASE MarkFallback
  <2>1. pc.i \in Items /\ item[pc.i].status = "waiting"
    BY <1>9 DEF MarkFallback, TypeInv, SectionOK, EntriesInv, At
  <2> QED
    BY <1>4, <1>9, <2>1 DEF MarkFallback
<1>10. CASE SubmitRefused
  <2>1. pc.i \in Items /\ item[pc.i].status = "active"
    BY <1>10 DEF SubmitRefused, TypeInv, SectionOK, LifecycleInv, Dispatched, At
  <2>2. item' = [item EXCEPT ![pc.i] = ReleaseToWaiting(pc.m)]
        /\ pc'.at \notin Dispatched \cup Terminating
    BY <1>0, <1>1, <1>10 DEF SubmitRefused, Replace
  <2>3. Along(item[pc.i].status, ReleaseToWaiting(pc.m).status)
    BY <2>1, RebuildStatus DEF Along, Lifecycle!Moves
  <2> QED
    BY <1>3, <2>1, <2>2, <2>3
<1>11. CASE SubmitCollides
  <2>1. Leave("probe", None) \/ pc' = Idle
    BY <1>11 DEF SubmitCollides
  <2>2. pc'.at \notin Dispatched \cup Terminating
    BY <1>1, <2>1 DEF Callers, Idle, Dispatched, Terminating
  <2> QED
    BY <1>2, <1>11, <2>2 DEF SubmitCollides
<1>12. CASE WakeSleeper
  <2> DEFINE s == Head(sleepers)
  <2>1. sleepers \in Seq(SleeperType) /\ sleepers # << >>
    BY <1>0, <1>12 DEF WakeSleeper, TypeOK
  <2>2. s \in SleeperType
    BY <2>1, HeadTailProperties
  <2>3. s.caller \in Callers /\ s.i \in Items
    BY <2>2 DEF SleeperType
  <2>4. item' = item
    BY <1>12 DEF WakeSleeper
  <2>5. \/ pc'.at = "submit" /\ pc'.i = s.i /\ item[s.i].status = "active"
        \/ Leave(s.caller, s.i)
    BY <1>12, IdleType DEF WakeSleeper, PcType
  <2> HIDE DEF s
  <2>6. CASE pc'.at = "submit" /\ pc'.i = s.i /\ item[s.i].status = "active"
    BY <2>4, <2>6, NoMove DEF LifecycleInv, Terminating
  <2>7. CASE Leave(s.caller, s.i)
    BY <1>1, <1>2, <2>3, <2>4, <2>7
  <2> QED
    BY <2>5, <2>6, <2>7
<1>13. CASE BindRun
  <2>1. /\ pc.i \in Items /\ item[pc.i].status = "active" /\ pc.m.status = "active"
        /\ pc.m \in ItemType(Tasks, RunIds)
    BY <1>0, <1>13 DEF BindRun, TypeInv, SectionOK, LifecycleInv, EntriesInv,
                       IsMarker, Dispatched, At, PcType
  <2>2. [pc.m EXCEPT !.runId = pc.r].status = "active"
    BY <2>1 DEF ItemType
  <2>3. item' = [item EXCEPT ![pc.i] = [pc.m EXCEPT !.runId = pc.r]]
        /\ pc'.at \notin Dispatched \cup Terminating
    BY <1>0, <1>1, <1>13 DEF BindRun, Replace
  <2> QED
    BY <1>3, <2>1, <2>2, <2>3 DEF Along
<1>14. CASE ResumeAnswered
  <2>1. pc.i \in Items /\ item[pc.i].status = "active"
    BY <1>14 DEF ResumeAnswered, TypeInv, SectionOK, LifecycleInv, Dispatched, At
  <2>2. CASE Goto("startAnswered") /\ UNCHANGED fileVars
    <3>1. pc'.at = "startAnswered"
      BY <1>0, <2>2, GotoType DEF Labels
    <3> QED
      BY <1>2, <2>2, <3>1 DEF Dispatched, Terminating
  <2>3. CASE Replace(pc.i, BriefedFallback(item[pc.i], pc.r)) /\ Goto("mark")
    <3>1. pc'.at = "mark"
      BY <1>0, <2>3, GotoType DEF Labels
    <3>2. Along(item[pc.i].status, BriefedFallback(item[pc.i], pc.r).status)
      BY <2>1, RebuildStatus DEF Along, Lifecycle!Moves
    <3> QED
      BY <1>3, <2>1, <2>3, <3>1, <3>2 DEF Replace, Dispatched, Terminating
  <2> QED
    BY <1>14, <2>2, <2>3 DEF ResumeAnswered
<1>15. CASE StartAnswered
  BY <1>0, <1>1, <1>2, <1>15 DEF StartAnswered
<1>16. ASSUME At("settle"), ReplaceSettled(pc.r),
              pc'.at \notin Dispatched \cup Terminating
       PROVE  LifecycleInv' /\ MoveStep
  <2>1. /\ pc.r \in Runs
        /\ meta[pc.r].status \in SettleableStatus \cup {"suspended"}
    BY <1>16 DEF TypeInv, SectionOK, At
  <2>2. CASE UNCHANGED fileVars
    BY <1>2, <1>16, <2>2
  <2>3. CASE \E i \in Items : /\ IsFirst(i, BoundTo("active", pc.r))
                              /\ Replace(i, SettledAs(item[i], pc.r))
    <3>1. PICK i \in Items : /\ IsFirst(i, BoundTo("active", pc.r))
                             /\ Replace(i, SettledAs(item[i], pc.r))
      BY <2>3
    <3>2. item[i].status = "active"
      BY <3>1 DEF IsFirst, BoundTo
    <3>3. Along(item[i].status, SettledAs(item[i], pc.r).status)
      BY <2>1, <3>2, SettledAsMoves
    <3> QED
      BY <1>3, <1>16, <3>1, <3>3 DEF Replace
  <2> QED
    BY <1>16, <2>2, <2>3 DEF ReplaceSettled
<1>17. CASE SettleSuspended
  BY <1>16, <1>17 DEF SettleSuspended, Idle, Dispatched, Terminating
<1>18. CASE SettleTerminal
  <2>1. pc'.at = "tick"
    BY <1>18, EnterType, IdFacts DEF SettleTerminal, Labels, Callers
  <2> QED
    BY <1>16, <1>18, <2>1 DEF SettleTerminal, Dispatched, Terminating
<1>19. ASSUME NEW label, NEW status \in {"error", "suspended"},
              Reactivate(label, status)
       PROVE  LifecycleInv' /\ MoveStep
  <2>1. pc'.at \notin Dispatched \cup Terminating
    BY <1>0, <1>1, <1>19 DEF Reactivate
  <2>2. CASE UNCHANGED fileVars
    BY <1>2, <2>1, <2>2
  <2>3. CASE \E i \in Items : /\ IsFirst(i, BoundTo(status, pc.r))
                              /\ Replace(i, BoundItem(item[i], pc.r))
    <3>1. PICK i \in Items : /\ IsFirst(i, BoundTo(status, pc.r))
                             /\ Replace(i, BoundItem(item[i], pc.r))
      BY <2>3
    <3>2. item[i].status = status
      BY <3>1 DEF IsFirst, BoundTo
    <3>3. BoundItem(item[i], pc.r).status = "active"
      BY RebuildStatus
    <3>4. Along(item[i].status, BoundItem(item[i], pc.r).status)
      BY <3>2, <3>3 DEF Along, Lifecycle!Moves
    <3> QED
      BY <1>3, <2>1, <3>1, <3>4 DEF Replace
  <2> QED
    BY <1>19, <2>2, <2>3 DEF Reactivate
<1>20. CASE SubmitNowReturns
  <2>1. pc'.at \notin Dispatched \cup Terminating
    BY <1>20 DEF SubmitNowReturns, Idle, Dispatched, Terminating
  <2>2. CASE UNCHANGED fileVars
    BY <1>2, <2>1, <2>2
  <2>3. CASE /\ item[pc.i].status = "waiting"
             /\ item' = [item EXCEPT ![pc.i].status = "removed"]
    <3>1. CASE pc.i \in Items
      <4> DEFINE it == [item[pc.i] EXCEPT !.status = "removed"]
      <4>1. it.status = "removed" /\ item' = [item EXCEPT ![pc.i] = it]
        BY <1>0, <2>3, <3>1 DEF ItemType
      <4> HIDE DEF it
      <4>2. Along(item[pc.i].status, it.status)
        BY <2>3, <4>1 DEF Along, Lifecycle!Moves
      <4> QED
        BY <1>3, <2>1, <3>1, <4>1, <4>2
    <3>2. CASE pc.i \notin Items
      BY <1>0, <1>2, <2>1, <2>3, <3>2
    <3> QED
      BY <3>1, <3>2
  <2> QED
    BY <1>20, <2>2, <2>3 DEF SubmitNowReturns
<1>21. CASE CancelTerminated
  <2>1. pc'.at \notin Dispatched \cup Terminating
    <3>1. pc' = Idle \/ Enter("tick", None, None, pc.caller)
      BY <1>21 DEF CancelTerminated
    <3> QED
      BY <1>0, <3>1, EnterType, IdFacts
         DEF Labels, Idle, Dispatched, Terminating
  <2>2. \/ UNCHANGED fileVars
        \/ \E i \in Items : /\ item[i].status \in {"needs_input", "suspended"}
                            /\ Replace(i, CancelledItem(item[i]))
    <3>1. CASE pc.i # None
      BY <1>0, <1>21, <3>1
         DEF CancelTerminated, LifecycleInv, Terminating, At
    <3>2. CASE pc.i = None
      BY <1>21, <3>2 DEF CancelTerminated, IsFirst, BoundTo
    <3> QED
      BY <3>1, <3>2
  <2>3. ASSUME NEW i \in Items, item[i].status \in {"needs_input", "suspended"},
               Replace(i, CancelledItem(item[i]))
        PROVE  LifecycleInv' /\ MoveStep
    <3>1. Along(item[i].status, CancelledItem(item[i]).status)
      BY <2>3, RebuildStatus DEF Along, Lifecycle!Moves
    <3> QED
      BY <1>3, <2>1, <2>3, <3>1 DEF Replace
  <2> QED
    BY <1>2, <2>1, <2>2, <2>3
<1>22. CASE HandleHealthy
  <2>1. item' = item
    BY <1>22 DEF HandleHealthy
  <2>2. CASE Enter("tick", None, None, "none")
    <3>1. pc'.at = "tick"
      BY <2>2, EnterType, IdFacts DEF Labels, Callers
    <3> QED
      BY <1>2, <2>1, <3>1 DEF Dispatched, Terminating
  <2>3. CASE paused.kind = "provider" /\ BeginResume(paused.run, "probe")
    <3>1. paused.run \in Runs /\ "probe" \in Callers
      BY <2>3 DEF TypeInv, SectionOK, Callers
    <3> QED
      BY <2>1, <2>3, <3>1, BeginResumeMoves, NoMove
  <2> QED
    BY <1>22, <2>2, <2>3 DEF HandleHealthy
<1> QED
  BY <1>5, <1>6, <1>7, <1>8, <1>9, <1>10, <1>11, <1>12, <1>13, <1>14, <1>15,
     <1>17, <1>18, <1>19, <1>20, <1>21, <1>22 DEF QueueStep

\* The requests the queue answers, the probe and the clock.
LEMMA QueueRequestMoves ==
  ASSUME TypeInv, LifecycleInv, QueueRequest
  PROVE  LifecycleInv' /\ MoveStep
<1> USE DEF fileVars, runVars, pauseVars, slotVars, loopVars, timeVars
<1>0. TypeOK /\ item \in [Items -> ItemType(Tasks, RunIds)]
  BY DEF TypeInv, TypeOK
<1>1. ASSUME NEW label \in {"tick", "recover"},
             NEW i \in Items \cup {None}, NEW r \in RunIds, NEW c \in Callers,
             Enter(label, i, r, c)
      PROVE  pc'.at \notin Dispatched \cup Terminating
  BY <1>1, EnterType DEF Labels, Dispatched, Terminating
<1>2. /\ {"none", "now", "answer"} \subseteq Callers /\ None \in RunIds
      /\ \A i \in Items : item[i].runId \in RunIds
  BY <1>0, IdFacts DEF Callers, ItemType
<1>3. pc = Idle => pc.at \notin Dispatched \cup Terminating
  BY DEF Idle, Dispatched, Terminating
<1>4. ASSUME UNCHANGED item, pc'.at \notin Dispatched \cup Terminating
      PROVE  LifecycleInv' /\ MoveStep
  BY <1>4, NoMove, NothingHeld
<1>5. ASSUME NEW i \in Items, NEW it, item' = [item EXCEPT ![i] = it],
             Along(item[i].status, it.status),
             pc'.at \notin Dispatched \cup Terminating
      PROVE  LifecycleInv' /\ MoveStep
  BY <1>0, <1>5, OneMove, NothingHeld
<1>6. ASSUME NEW i \in Items, NEW t, NEW r, item[i].status = "absent",
             item' = [item EXCEPT ![i] = NormalizeNewItem(t, r)],
             pc'.at \notin Dispatched \cup Terminating
      PROVE  LifecycleInv' /\ MoveStep
  <2>1. NormalizeNewItem(t, r).status = "waiting"
    BY DEF NormalizeNewItem
  <2>2. Along(item[i].status, NormalizeNewItem(t, r).status)
    BY <1>6, <2>1 DEF Along, Lifecycle!Moves
  <2> QED
    BY <1>5, <1>6, <2>2
<1>7. ASSUME NEW i \in Items, NEW t \in Tasks, NEW r \in Lineage,
             NEW h \in BOOLEAN, Enqueue(i, t, r, h)
      PROVE  LifecycleInv' /\ MoveStep
  <2>1. /\ item' = [item EXCEPT ![i] = NormalizeNewItem(t, r)]
        /\ item[i].status = "absent" /\ Enter("tick", None, None, "none")
    BY <1>7 DEF Enqueue, NewId
  <2> QED
    BY <1>1, <1>2, <1>6, <2>1
<1>8. ASSUME NEW i \in Items, NEW t \in Tasks, SubmitNow(i, t)
      PROVE  LifecycleInv' /\ MoveStep
  <2>1. /\ item' = [item EXCEPT ![i] = NormalizeNewItem(t, None)]
        /\ item[i].status = "absent" /\ Enter("tick", i, None, "now")
    BY <1>8 DEF SubmitNow, NewId
  <2> QED
    BY <1>1, <1>2, <1>6, <2>1
<1>9. ASSUME NEW i \in Items, NEW t \in Tasks, EditTask(i, t)
      PROVE  LifecycleInv' /\ MoveStep
  <2>1. item' = [item EXCEPT ![i] = [item[i] EXCEPT !.task = t]]
        /\ pc' = pc /\ pc = Idle
    BY <1>9 DEF EditTask, Replace, Serving, LoopFree
  <2>2. [item[i] EXCEPT !.task = t].status = item[i].status
    BY <1>0 DEF ItemType
  <2> QED
    BY <1>3, <1>5, <2>1, <2>2 DEF Along
<1>10. ASSUME NEW i \in Items, NEW p, Reorder(i, p)
       PROVE  LifecycleInv' /\ MoveStep
  BY <1>10, NothingMoves DEF Reorder
<1>11. ASSUME NEW i \in Items, Cancel(i)
       PROVE  LifecycleInv' /\ MoveStep
  <2>1. item' = [item EXCEPT ![i] = CancelledItem(item[i])]
        /\ pc' = pc /\ pc = Idle /\ item[i].status = "waiting"
    BY <1>11 DEF Cancel, Replace, Serving, LoopFree
  <2>2. Along(item[i].status, CancelledItem(item[i]).status)
    BY <2>1, RebuildStatus DEF Along, Lifecycle!Moves
  <2> QED
    BY <1>3, <1>5, <2>1, <2>2
<1>12. ASSUME NEW i \in Items, NEW c \in Callers, UNCHANGED item,
              Enter("terminate", i, item[i].runId, c),
              item[i].status \in {"needs_input", "suspended"}
       PROVE  LifecycleInv' /\ MoveStep
  <2>1. pc'.at = "terminate" /\ pc'.i = i
    BY <1>2, <1>12, EnterType DEF Labels
  <2> QED
    BY <1>12, <2>1, NoMove DEF LifecycleInv, Dispatched
<1>13. ASSUME NEW i \in Items, TerminateItem(i)
       PROVE  LifecycleInv' /\ MoveStep
  BY <1>2, <1>12, <1>13 DEF TerminateItem
<1>14. ASSUME NEW i \in Items, Answer(i)
       PROVE  LifecycleInv' /\ MoveStep
  <2>1. item[i].status = "needs_input"
    BY <1>14 DEF Answer
  <2>2. CASE /\ Enter("terminate", i, item[i].runId, "answer")
             /\ UNCHANGED fileVars
    BY <1>2, <1>12, <2>1, <2>2
  <2>3. CASE /\ item' = [item EXCEPT ![i] =
                  RecordAnswer(item[i], count.answers + 1,
                               AnswerTarget(i).run, AnswerTarget(i).call)]
             /\ Enter("tick", None, None, "none")
    <3>1. Along(item[i].status,
                RecordAnswer(item[i], count.answers + 1, AnswerTarget(i).run,
                             AnswerTarget(i).call).status)
      BY <2>1, RebuildStatus DEF Along, Lifecycle!Moves
    <3> QED
      BY <1>1, <1>2, <1>5, <2>3, <3>1
  <2> QED
    BY <1>14, <2>2, <2>3 DEF Answer
<1>15. ASSUME NEW i \in Items, Requeue(i)
       PROVE  LifecycleInv' /\ MoveStep
  <2>1. item' = [item EXCEPT ![i] = RequeuedItem(item[i])]
        /\ item[i].status = "error" /\ Enter("tick", None, None, "none")
    BY <1>15 DEF Requeue
  <2>2. Along(item[i].status, RequeuedItem(item[i]).status)
    BY <2>1, RebuildStatus DEF Along, Lifecycle!Moves
  <2> QED
    BY <1>1, <1>2, <1>5, <2>1, <2>2
<1>16. ASSUME NEW r \in Runs, TerminateSuspendedRun(r)
       PROVE  LifecycleInv' /\ MoveStep
  <2>1. item' = item /\ Enter("terminate", None, r, "none") /\ r \in RunIds
    BY <1>16, IdFacts DEF TerminateSuspendedRun
  <2>2. pc'.at = "terminate" /\ pc'.i = None
    BY <1>2, <2>1, EnterType DEF Labels
  <2> QED
    BY <2>1, <2>2, NoMove DEF LifecycleInv, Dispatched
<1>17. CASE ProbeHealthy
  <2>1. item' = item /\ Enter("recover", None, None, "none")
    BY <1>17 DEF ProbeHealthy
  <2> QED
    BY <1>1, <1>2, <1>4, <2>1
<1>18. CASE ProbeFails \/ SecondPasses
  BY <1>18, NothingMoves DEF ProbeFails, SecondPasses
<1> QED
  BY <1>7, <1>8, <1>9, <1>10, <1>11, <1>13, <1>14, <1>15, <1>16, <1>17, <1>18
     DEF QueueRequest

-----------------------------------------------------------------------------
(* The refinement.                                                         *)

\* A step that moves the items along the table is a step of the lifecycle, as far
\* as the statuses can tell.
LEMMA MoveStepRefines ==
  ASSUME TypeInv, TypeInv', MoveStep
  PROVE  [Lifecycle!Next]_([i \in Items |-> item[i].status])
<1> DEFINE status == [i \in Items |-> item[i].status]
<1>1. \A i \in Items : item[i].status \in Lifecycle!Status
                       /\ item'[i].status \in Lifecycle!Status
  BY DEF TypeInv, TypeOK, ItemType, FileStatus, OffFile, Lifecycle!Status
<1>2. status' \in [Items -> Lifecycle!Status]
  BY <1>1
<1>3. Lifecycle!Next
  BY <1>1, <1>2 DEF Lifecycle!Next, MoveStep, Along
<1> QED
  BY <1>3

\* Every step of the service.
LEMMA NextMoves ==
  ASSUME TypeInv, EntriesInv, LifecycleInv, [Next]_vars
  PROVE  LifecycleInv' /\ MoveStep
<1>1. CASE UNCHANGED vars
  BY <1>1, NothingMoves DEF vars, fileVars
<1> QED
  BY <1>1, QueueStepMoves, QueueRequestMoves, RunStepMoves, BootAndCrashMoves
     DEF Next

\* The service moves its tasks only along the lifecycle of docs/queueing.md, one
\* task out of the waiting list at a time: a settled task never runs again except
\* by a requeue or a resume, whatever crashes, collisions and boot repairs do.
THEOREM ServiceImplementsLifecycle == Spec => LifecycleSpec
<1>1. Init => TypeInv /\ EntriesInv /\ LifecycleInv
  <2>1. Init => pc.at \notin Dispatched \cup Terminating
    BY DEF Init, Idle, Dispatched, Terminating
  <2> QED
    BY <2>1, InitType, InitEntries DEF LifecycleInv
<1>2. TypeInv /\ EntriesInv /\ LifecycleInv /\ [Next]_vars
        => (TypeInv /\ EntriesInv /\ LifecycleInv)'
  BY NextType, NextEntries, NextMoves
<1>3. Init => Lifecycle!Init
  <2>1. NoItem.status = "absent"
    BY DEF NoItem, NormalizeNewItem
  <2> QED
    BY <2>1 DEF Init, Lifecycle!Init
<1>4. TypeInv /\ TypeInv' /\ EntriesInv /\ LifecycleInv /\ [Next]_vars
        => [Lifecycle!Next]_([i \in Items |-> item[i].status])
  BY NextMoves, MoveStepRefines
<1> QED
  BY <1>1, <1>2, <1>3, <1>4, PTL DEF Spec, LifecycleSpec, Lifecycle!Spec

-----------------------------------------------------------------------------
(***************************************************************************)
(* The file lists every entry once.  The one operation that rebuilds the   *)
(* list is the reorder, which takes the moved entry out of the waiting     *)
(* sublist, splices it in again and deals the sublist out over the places  *)
(* of the waiting entries: it is a permutation because ranks are.          *)
(***************************************************************************)

LEMMA RankGrows ==
  ASSUME NEW n \in Nat, NEW S \in SUBSET (1..n), NEW j \in S, NEW k \in S, j < k
  PROVE  Rank(S, j) < Rank(S, k)
<1> DEFINE J == {q \in S : q <= j}
           K == {q \in S : q <= k}
<1>1. IsFiniteSet(K)
  <2>1. IsFiniteSet(1..n)
    BY FS_Interval
  <2>2. K \subseteq 1..n
    OBVIOUS
  <2> QED
    BY <2>1, <2>2, FS_Subset
<1>2. J \subseteq K
  <2>1. S \subseteq Int
    OBVIOUS
  <2> SUFFICES ASSUME NEW q \in S, q <= j
               PROVE  q <= k
    OBVIOUS
  <2> QED
    BY <2>1
<1>3. k \in K /\ k \notin J
  OBVIOUS
<1> HIDE DEF J, K
<1>4. Cardinality(J) <= Cardinality(K) /\ (Cardinality(J) = Cardinality(K) => J = K)
  BY <1>1, <1>2, FS_Subset
<1>5. Cardinality(J) \in Nat /\ Cardinality(K) \in Nat
  BY <1>1, <1>2, FS_Subset, FS_CardinalityType
<1>6. Cardinality(J) < Cardinality(K)
  BY <1>3, <1>4, <1>5
<1> QED
  BY <1>6 DEF Rank, J, K

\* The ranks of a set of positions are the numbers from 1 to its size, each once.
LEMMA RankFacts ==
  ASSUME NEW n \in Nat, NEW S \in SUBSET (1..n)
  PROVE  /\ IsFiniteSet(S) /\ Cardinality(S) \in Nat
         /\ \A k \in S : Rank(S, k) \in 1..Cardinality(S)
         /\ \A j, k \in S : Rank(S, j) = Rank(S, k) => j = k
         /\ \A m \in 1..Cardinality(S) : \E k \in S : Rank(S, k) = m
<1>1. IsFiniteSet(S) /\ Cardinality(S) \in Nat
  <2>1. IsFiniteSet(1..n)
    BY FS_Interval
  <2> QED
    BY <2>1, FS_Subset, FS_CardinalityType
<1> DEFINE N == Cardinality(S)
<1>2. ASSUME NEW k \in S
      PROVE  Rank(S, k) \in 1..N
  <2> DEFINE K == {q \in S : q <= k}
  <2>1. K \subseteq S /\ k \in K
    OBVIOUS
  <2>2. IsFiniteSet(K) /\ Cardinality(K) <= N
    BY <1>1, <2>1, FS_Subset
  <2>3. Cardinality(K) \in Nat /\ Cardinality(K) # 0
    BY <2>1, <2>2, FS_CardinalityType, FS_EmptySet
  <2> HIDE DEF K, N
  <2>4. Cardinality(K) \in 1..N
    BY <1>1, <2>2, <2>3 DEF N
  <2> QED
    BY <2>4 DEF Rank, K
<1>3. ASSUME NEW j \in S, NEW k \in S, Rank(S, j) = Rank(S, k)
      PROVE  j = k
  <2>1. Rank(S, j) \in Nat /\ Rank(S, k) \in Nat
    BY <1>1, <1>2
  <2>2. j < k => Rank(S, j) < Rank(S, k)
    BY RankGrows
  <2>3. k < j => Rank(S, k) < Rank(S, j)
    BY RankGrows
  <2> QED
    BY <1>3, <2>1, <2>2, <2>3
<1> DEFINE f == [k \in S |-> Rank(S, k)]
<1>4. f \in Injection(S, 1..N)
  BY <1>2, <1>3 DEF Injection, IsInjective
<1>5. IsFiniteSet(1..N) /\ Cardinality(1..N) = N
  BY <1>1, FS_Interval
<1>6. f \in Surjection(S, 1..N)
  <2> HIDE DEF f, N
  <2> QED
    BY <1>4, <1>5, FS_Injection DEF N
<1>7. ASSUME NEW m \in 1..N
      PROVE  \E k \in S : Rank(S, k) = m
  BY <1>6 DEF Surjection
<1> QED
  BY <1>1, <1>2, <1>3, <1>7

\* So the n-th position is the one of rank n.
LEMMA NthFacts ==
  ASSUME NEW n \in Nat, NEW S \in SUBSET (1..n)
  PROVE  /\ \A m \in 1..Cardinality(S) : Nth(S, m) \in S /\ Rank(S, Nth(S, m)) = m
         /\ \A k \in S : Nth(S, Rank(S, k)) = k
<1>1. \A m \in 1..Cardinality(S) : Nth(S, m) \in S /\ Rank(S, Nth(S, m)) = m
  <2> TAKE m \in 1..Cardinality(S)
  <2>1. \E k \in S : Rank(S, k) = m
    BY RankFacts
  <2> QED
    BY <2>1, Zenon DEF Nth
<1>2. \A k \in S : Nth(S, Rank(S, k)) = k
  <2> TAKE k \in S
  <2> DEFINE r == Rank(S, k)
  <2>1. r \in 1..Cardinality(S)
    BY RankFacts
  <2>2. Nth(S, r) \in S /\ Rank(S, Nth(S, r)) = r
    BY <1>1, <2>1
  <2> QED
    BY <2>2, RankFacts
<1> QED
  BY <1>1, <1>2

\* An order that lists every entry of the file once.
Lists(o, S) ==
  /\ \A j, k \in DOMAIN o : o[j] = o[k] => j = k
  /\ \A i \in Items : i \in S <=> \E k \in DOMAIN o : o[k] = i
OnFile == {i \in Items : item[i].status \in FileStatus}
OrderInv == Lists(order, OnFile)

\* The reorder deals the sublist out over its own places.
LEMMA ReorderLists ==
  ASSUME TypeInv, OrderInv, NEW i \in Items, NEW p \in Nat, Reorder(i, p)
  PROVE  OrderInv'
<1> DEFINE W == WaitingPlaces
           O == OtherPlaces(i)
           N == Cardinality(O)
           at == IF p > N THEN N ELSE p
<1>1. order \in Seq(Items) /\ item' = item
      /\ order' = [k \in DOMAIN order |->
                    IF k \in W THEN MovedWaiting(i, p, Rank(W, k)) ELSE order[k]]
  BY DEF TypeInv, TypeOK, Reorder
<1>2. PICK len \in Nat : DOMAIN order = 1..len
  BY <1>1
<1>3. W \in SUBSET (1..len) /\ O \in SUBSET (1..len)
  BY <1>2 DEF WaitingPlaces, OtherPlaces
<1>4. PICK k0 \in W : order[k0] = i
  BY DEF OrderInv, Lists, OnFile, Reorder, IsWaiting, WaitingPlaces, FileStatus
<1>5. W = O \cup {k0} /\ k0 \notin O
  BY <1>4 DEF OrderInv, Lists, OtherPlaces, WaitingPlaces
<1>6. N \in Nat /\ Cardinality(W) = N + 1
  <2>1. IsFiniteSet(O) /\ N \in Nat
    BY <1>2, <1>3, RankFacts
  <2> QED
    BY <1>5, <2>1, FS_AddElement
<1>7. at \in 0..N
  BY <1>6
\* Where the n-th entry of the moved sublist comes from.
<1> DEFINE From(n) == CASE n <= at    -> Nth(O, n)
                        [] n = at + 1 -> k0
                        [] n > at + 1 -> Nth(O, n - 1)
<1>8. \A n \in 1..(N + 1) : MovedWaiting(i, p, n) = order[From(n)]
  BY <1>4, <1>6, <1>7 DEF MovedWaiting
<1> HIDE DEF at
<1>9. \A m \in 1..N : Nth(O, m) \in O /\ Rank(O, Nth(O, m)) = m
  BY <1>2, <1>3, NthFacts
<1>10. \A n \in 1..(N + 1) : From(n) \in W
  BY <1>5, <1>6, <1>7, <1>9
<1>11. ASSUME NEW n \in 1..(N + 1), NEW m \in 1..(N + 1), From(n) = From(m)
       PROVE  n = m
  <2> DEFINE r(q) == IF q <= at THEN q ELSE q - 1
  <2>1. \A q \in 1..(N + 1) : q # at + 1 =>
          r(q) \in 1..N /\ From(q) = Nth(O, r(q)) /\ From(q) # k0
                        /\ Rank(O, From(q)) = r(q)
    <3> TAKE q \in 1..(N + 1)
    <3> HAVE q # at + 1
    <3>1. r(q) \in 1..N /\ From(q) = Nth(O, r(q))
      BY <1>6, <1>7
    <3> HIDE DEF From, r
    <3> QED
      BY <1>5, <1>9, <3>1
  <2>2. \A q \in 1..(N + 1) : q = at + 1 => From(q) = k0
    BY <1>6, <1>7
  <2> HIDE DEF From
  <2>3. CASE n # at + 1 /\ m # at + 1
    <3>1. r(n) = r(m)
      BY <1>11, <2>1, <2>3
    <3> QED
      BY <1>6, <1>7, <2>3, <3>1
  <2> QED
    BY <1>11, <2>1, <2>2, <2>3
<1>12. ASSUME NEW q \in W
       PROVE  \E n \in 1..(N + 1) : From(n) = q
  <2>1. CASE q = k0
    <3>1. at + 1 \in 1..(N + 1) /\ From(at + 1) = k0
      BY <1>6, <1>7
    <3> QED
      BY <2>1, <3>1
  <2>2. CASE q \in O
    <3> DEFINE m == Rank(O, q)
    <3>1. m \in 1..N /\ Nth(O, m) = q
      BY <1>2, <1>3, <2>2, RankFacts, NthFacts
    <3> HIDE DEF m
    <3>2. CASE m <= at
      <4>1. m \in 1..(N + 1) /\ From(m) = Nth(O, m)
        BY <1>6, <1>7, <3>1, <3>2
      <4> QED
        BY <3>1, <4>1
    <3>3. CASE m > at
      <4>1. m + 1 \in 1..(N + 1) /\ From(m + 1) = Nth(O, m)
        BY <1>6, <1>7, <3>1, <3>3
      <4> QED
        BY <3>1, <4>1
    <3> QED
      BY <1>7, <3>1, <3>2, <3>3
  <2> QED
    BY <1>5, <2>1, <2>2
<1> DEFINE Src(k) == IF k \in W THEN From(Rank(W, k)) ELSE k
<1>13. \A k \in W : Rank(W, k) \in 1..(N + 1)
  BY <1>2, <1>3, <1>6, RankFacts
<1>14. DOMAIN order' = DOMAIN order /\ \A k \in DOMAIN order : order'[k] = order[Src(k)]
  BY <1>1, <1>8, <1>13
<1> HIDE DEF From
<1>15. \A k \in DOMAIN order : Src(k) \in DOMAIN order
                               /\ (Src(k) \in W <=> k \in W)
  BY <1>2, <1>3, <1>10, <1>13
<1>16. ASSUME NEW j \in DOMAIN order, NEW k \in DOMAIN order, Src(j) = Src(k)
       PROVE  j = k
  <2>1. CASE j \in W /\ k \in W
    <3>1. Rank(W, j) = Rank(W, k)
      BY <1>11, <1>13, <1>16, <2>1
    <3> QED
      BY <1>2, <1>3, <2>1, <3>1, RankFacts
  <2> QED
    BY <1>15, <1>16, <2>1
<1>17. ASSUME NEW q \in DOMAIN order
       PROVE  \E k \in DOMAIN order : Src(k) = q
  <2>1. CASE q \in W
    <3>1. PICK n \in 1..(N + 1) : From(n) = q
      BY <1>12, <2>1
    <3>2. PICK k \in W : Rank(W, k) = n
      BY <1>2, <1>3, <1>6, <3>1, RankFacts
    <3> QED
      BY <1>2, <1>3, <3>1, <3>2
  <2>2. CASE q \notin W
    BY <2>2
  <2> QED
    BY <2>1, <2>2
<1> HIDE DEF Src
<1>18. \A j, k \in DOMAIN order' : order'[j] = order'[k] => j = k
  BY <1>14, <1>15, <1>16 DEF OrderInv, Lists
<1>19. \A q \in Items : (\E k \in DOMAIN order : order[k] = q)
                          <=> (\E k \in DOMAIN order' : order'[k] = q)
  BY <1>14, <1>15, <1>17
<1>20. OnFile' = OnFile
  BY <1>1 DEF OnFile
<1> QED
  BY <1>18, <1>19, <1>20 DEF OrderInv, Lists

\* The pieces the other operations rebuild the list from.
LEMMA PrependLists ==
  ASSUME NEW o \in Seq(Items), NEW S, NEW i \in Items, Lists(o, S \ {i}),
         i \in S
  PROVE  Lists(<<i>> \o o, S)
<1> DEFINE p == <<i>> \o o
<1>1. p \in Seq(Items) /\ Len(p) = Len(o) + 1 /\ Len(o) \in Nat
  OBVIOUS
<1>2. \A k \in 1..Len(p) : p[k] = IF k = 1 THEN i ELSE o[k - 1]
  OBVIOUS
<1>3. DOMAIN p = 1..Len(p) /\ DOMAIN o = 1..Len(o)
  BY <1>1
<1>4. \A k \in DOMAIN o : o[k] # i /\ o[k] \in Items
  BY DEF Lists
<1> HIDE DEF p
<1>5. ASSUME NEW j \in DOMAIN p, NEW k \in DOMAIN p, p[j] = p[k]
      PROVE  j = k
  <2>1. CASE j = 1 \/ k = 1
    <3>1. ASSUME NEW q \in DOMAIN p, q # 1
          PROVE  p[q] # i
      <4>1. q - 1 \in DOMAIN o /\ p[q] = o[q - 1]
        BY <1>1, <1>2, <1>3, <3>1
      <4> QED
        BY <1>4, <4>1
    <3>2. 1 \in DOMAIN p /\ p[1] = i
      BY <1>1, <1>2, <1>3
    <3> QED
      BY <1>5, <2>1, <3>1, <3>2
  <2>2. CASE j # 1 /\ k # 1
    <3>1. j - 1 \in DOMAIN o /\ k - 1 \in DOMAIN o /\ o[j - 1] = o[k - 1]
      BY <1>1, <1>2, <1>3, <1>5, <2>2
    <3>2. j - 1 = k - 1
      BY <3>1 DEF Lists
    <3> QED
      BY <1>1, <1>3, <3>2
  <2> QED
    BY <2>1, <2>2
<1>6. ASSUME NEW q \in Items
      PROVE  q \in S <=> \E k \in DOMAIN p : p[k] = q
  <2>1. CASE q = i
    <3>1. 1 \in DOMAIN p /\ p[1] = i
      BY <1>1, <1>2, <1>3
    <3> QED
      BY <2>1, <3>1
  <2>2. CASE q # i
    <3>1. q \in S <=> \E k \in DOMAIN o : o[k] = q
      BY <2>2 DEF Lists
    <3>2. ASSUME NEW k \in DOMAIN o
          PROVE  k + 1 \in DOMAIN p /\ p[k + 1] = o[k]
      BY <1>1, <1>2, <1>3
    <3>3. ASSUME NEW k \in DOMAIN p, p[k] = q
          PROVE  k - 1 \in DOMAIN o /\ o[k - 1] = q
      BY <1>1, <1>2, <1>3, <2>2, <3>3
    <3> QED
      BY <3>1, <3>2, <3>3
  <2> QED
    BY <2>1, <2>2
<1> QED
  BY <1>5, <1>6 DEF Lists, p

LEMMA AppendLists ==
  ASSUME NEW o \in Seq(Items), NEW S, NEW i \in Items, Lists(o, S \ {i}),
         i \in S
  PROVE  Lists(Append(o, i), S)
<1> DEFINE p == Append(o, i)
           n == Len(o) + 1
<1>1. p \in Seq(Items) /\ Len(p) = n /\ Len(o) \in Nat
  OBVIOUS
<1>2. \A k \in 1..n : p[k] = IF k = n THEN i ELSE o[k]
  OBVIOUS
<1>3. DOMAIN p = 1..n /\ DOMAIN o = 1..Len(o)
  BY <1>1
<1>4. \A k \in DOMAIN o : o[k] # i /\ k \in DOMAIN p /\ k # n
  BY <1>1, <1>3 DEF Lists
<1>5. \A k \in DOMAIN p : k = n \/ k \in DOMAIN o
  BY <1>1, <1>3
<1>6. n \in DOMAIN p
  BY <1>1, <1>3
<1> HIDE DEF p, n
<1> QED
  BY <1>2, <1>3, <1>4, <1>5, <1>6 DEF Lists, p

LEMMA WithoutLists ==
  ASSUME TypeOK, NEW S, Lists(order, S), NEW k \in DOMAIN order
  PROVE  WithoutPos(k) \in Seq(Items) /\ Lists(WithoutPos(k), S \ {order[k]})
<1> DEFINE p == WithoutPos(k)
           n == Len(order)
           From(j) == IF j < k THEN j ELSE j + 1
<1>1. order \in Seq(Items) /\ n \in Nat /\ DOMAIN order = 1..n /\ k \in 1..n
  BY DEF TypeOK
<1>2. /\ p \in Seq(Items) /\ Len(p) = n - 1
      /\ \A j \in 1..(n - 1) : p[j] = order[From(j)]
  <2> DEFINE front == SubSeq(order, 1, k - 1)
             back  == SubSeq(order, k + 1, n)
  <2>1. /\ front \in Seq(Items) /\ Len(front) = k - 1
        /\ \A j \in 1..(k - 1) : front[j] = order[j]
    BY <1>1
  <2>2. /\ back \in Seq(Items) /\ Len(back) = n - k
        /\ \A j \in 1..(n - k) : back[j] = order[k + j]
    BY <1>1
  <2>3. p = front \o back
    BY DEF WithoutPos
  <2> HIDE DEF front, back, p
  <2>4. p \in Seq(Items) /\ Len(p) = n - 1
    <3>1. p \in Seq(Items) /\ Len(p) = Len(front) + Len(back)
      BY <2>1, <2>2, <2>3, ConcatProperties
    <3> QED
      BY <1>1, <2>1, <2>2, <3>1
  <2>5. \A j \in 1..(n - 1) :
          p[j] = IF j <= k - 1 THEN front[j] ELSE back[j - (k - 1)]
    <3> TAKE j \in 1..(n - 1)
    <3>1. j \in 1..(Len(front) + Len(back))
      BY <1>1, <2>1, <2>2
    <3>2. p[j] = IF j <= Len(front) THEN front[j] ELSE back[j - Len(front)]
      BY <2>1, <2>2, <2>3, <3>1, ConcatProperties
    <3> QED
      BY <2>1, <3>2
  <2>6. \A j \in 1..(n - 1) : j > k - 1 => j - (k - 1) \in 1..(n - k)
    BY <1>1
  <2>7. ASSUME NEW j \in 1..(n - 1)
        PROVE  p[j] = order[From(j)]
    <3>1. CASE j < k
      BY <1>1, <2>1, <2>5, <3>1
    <3>2. CASE ~(j < k)
      <4>1. p[j] = back[j - (k - 1)] /\ j - (k - 1) \in 1..(n - k)
        BY <1>1, <2>5, <2>6, <3>2
      <4>2. k + (j - (k - 1)) = j + 1
        BY <1>1
      <4> QED
        BY <2>2, <3>2, <4>1, <4>2
    <3> QED
      BY <3>1, <3>2
  <2> QED
    BY <2>4, <2>7
<1>3. DOMAIN p = 1..(n - 1)
  BY <1>1, <1>2
<1>4. \A j \in 1..(n - 1) : From(j) \in 1..n /\ From(j) # k
  BY <1>1
<1>5. \A i, j \in 1..(n - 1) : From(i) = From(j) => i = j
  BY <1>1
<1>6. ASSUME NEW q \in 1..n, q # k
      PROVE  \E j \in 1..(n - 1) : From(j) = q
  <2>1. CASE q < k
    <3>1. q \in 1..(n - 1) /\ From(q) = q
      BY <1>1, <2>1
    <3> QED
      BY <3>1
  <2>2. CASE q > k
    <3>1. q - 1 \in 1..(n - 1) /\ From(q - 1) = q
      BY <1>1, <2>2
    <3> QED
      BY <3>1
  <2> QED
    BY <1>1, <1>6, <2>1, <2>2
<1> HIDE DEF p, n, From
<1>7. \A i, j \in DOMAIN p : p[i] = p[j] => i = j
  BY <1>1, <1>2, <1>3, <1>4, <1>5 DEF Lists
<1>8. ASSUME NEW i \in Items
      PROVE  i \in S \ {order[k]} <=> \E j \in DOMAIN p : p[j] = i
  <2>1. ASSUME i \in S \ {order[k]}
        PROVE  \E j \in DOMAIN p : p[j] = i
    <3>1. PICK q \in 1..n : order[q] = i
      BY <1>1, <2>1 DEF Lists
    <3>2. PICK j \in 1..(n - 1) : From(j) = q
      BY <1>6, <2>1, <3>1
    <3> QED
      BY <1>2, <1>3, <3>1, <3>2
  <2>2. ASSUME NEW j \in DOMAIN p, p[j] = i
        PROVE  i \in S \ {order[k]}
    <3>1. order[From(j)] = i /\ From(j) \in DOMAIN order /\ From(j) # k
      BY <1>1, <1>2, <1>3, <1>4, <2>2
    <3> QED
      BY <3>1 DEF Lists
  <2> QED
    BY <2>1, <2>2
<1> QED
  BY <1>2, <1>7, <1>8 DEF Lists, p

-----------------------------------------------------------------------------
(* The steps.                                                              *)

\* The steps that leave the list, and what is on file, alone.
ListKept == order' = order /\ OnFile' = OnFile

LEMMA KeptLists ==
  ASSUME OrderInv, ListKept
  PROVE  OrderInv'
  BY DEF OrderInv, ListKept

LEMMA StillKept ==
  ASSUME UNCHANGED fileVars
  PROVE  ListKept
  BY DEF ListKept, OnFile, fileVars

LEMMA RewriteKept ==
  ASSUME TypeOK, NEW i \in Items, NEW it, Replace(i, it),
         item[i].status \in FileStatus, it.status \in FileStatus
  PROVE  ListKept
<1>1. \A j \in Items : item'[j] = IF j = i THEN it ELSE item[j]
  BY DEF TypeOK, Replace
<1> QED
  BY <1>1 DEF ListKept, OnFile, Replace

LEMMA QueueStepLists ==
  ASSUME TypeInv, EntriesInv, LifecycleInv, OrderInv, QueueStep
  PROVE  OrderInv'
<1> USE DEF fileVars, runVars, pauseVars, slotVars, loopVars, timeVars
<1>0. TypeOK /\ pc \in PcType /\ item \in [Items -> ItemType(Tasks, RunIds)]
  BY DEF TypeInv, TypeOK
<1>1. {"waiting", "active", "suspended", "needs_input", "done", "error", "cancelled"}
        = FileStatus
  BY DEF FileStatus
<1>2. CASE \/ TickCleanup \/ DispatchNone \/ SubmitCollides \/ WakeSleeper
           \/ StartAnswered \/ HandleHealthy
  BY <1>2, StillKept, KeptLists
     DEF TickCleanup, DispatchNone, SubmitCollides, WakeSleeper, StartAnswered,
         HandleHealthy
<1>3. CASE TickRepair
  <2>1. item' = [i \in Items |-> RepairedItem(item[i])] /\ order' = order
    BY <1>3 DEF TickRepair
  <2>2. ASSUME NEW i \in Items
        PROVE  item'[i].status \in FileStatus <=> item[i].status \in FileStatus
    <3>1. CASE item[i].status \notin FileStatus
      BY <2>1, <3>1, RepairLeavesOffFile
    <3>2. CASE item[i].status \in FileStatus
      <4>1. /\ Along(item[i].status, item'[i].status)
            /\ item[i].status = "waiting" => item'[i].status = "waiting"
        BY <1>0, <2>1, RepairMoves
      <4> QED
        BY <3>2, <4>1 DEF Along, Lifecycle!Moves, FileStatus
    <3> QED
      BY <3>1, <3>2
  <2>3. OnFile' = OnFile
    BY <2>2 DEF OnFile
  <2> QED
    BY <2>1, <2>3, KeptLists DEF ListKept
<1>4. ASSUME NEW i \in Items, NEW it, Replace(i, it),
             item[i].status \in FileStatus, it.status \in FileStatus
      PROVE  OrderInv'
  BY <1>0, <1>4, RewriteKept, KeptLists
<1>5. ASSUME NEW i \in Items, MarkFor(i), item[i].status = "waiting"
      PROVE  OrderInv'
  BY <1>1, <1>4, <1>5, RebuildStatus DEF MarkFor
<1>6. CASE DispatchHead
  <2>1. PICK i \in Items :
          /\ item[i].status = "waiting"
          /\ \/ Replace(i, [DispatchingItem(item[i])
                              EXCEPT !.runId = item[i].resumeRunId])
             \/ MarkFor(i)
    BY <1>6 DEF DispatchHead, IsFirst, WithStatus
  <2>2. [DispatchingItem(item[i]) EXCEPT !.runId = item[i].resumeRunId].status
          = "active"
    BY DEF DispatchingItem, KeepPointers, CarriedFields, NormalizeNewItem
  <2> QED
    <3> DEFINE it == [DispatchingItem(item[i]) EXCEPT !.runId = item[i].resumeRunId]
    <3>1. it.status \in FileStatus /\ item[i].status \in FileStatus
      BY <2>1, <2>2 DEF FileStatus
    <3>2. Replace(i, it) => OrderInv'
      <4> HIDE DEF it
      <4> QED
        BY <1>4, <3>1
    <3> QED
      BY <1>5, <2>1, <3>2
<1>7. CASE MarkFallback
  <2>1. pc.i \in Items /\ item[pc.i].status = "waiting"
    BY <1>7 DEF MarkFallback, TypeInv, SectionOK, EntriesInv, At
  <2> QED
    BY <1>5, <1>7, <2>1 DEF MarkFallback
<1>8. CASE SubmitRefused
  <2>1. /\ pc.i \in Items /\ item[pc.i].status = "active"
        /\ Replace(pc.i, ReleaseToWaiting(pc.m))
    BY <1>8 DEF SubmitRefused, TypeInv, SectionOK, LifecycleInv, Dispatched, At
  <2> QED
    BY <1>1, <1>4, <2>1, RebuildStatus
<1>9. CASE BindRun
  <2>1. /\ pc.i \in Items /\ item[pc.i].status = "active" /\ pc.m.status = "active"
        /\ pc.m \in ItemType(Tasks, RunIds)
        /\ Replace(pc.i, [pc.m EXCEPT !.runId = pc.r])
    BY <1>0, <1>9 DEF BindRun, TypeInv, SectionOK, LifecycleInv, EntriesInv,
                      IsMarker, Dispatched, At, PcType
  <2>2. [pc.m EXCEPT !.runId = pc.r].status = "active"
    BY <2>1 DEF ItemType
  <2> QED
    <3> DEFINE it == [pc.m EXCEPT !.runId = pc.r]
    <3>1. it.status \in FileStatus /\ item[pc.i].status \in FileStatus
      BY <2>1, <2>2 DEF FileStatus
    <3>2. Replace(pc.i, it)
      BY <2>1
    <3> HIDE DEF it
    <3> QED
      BY <1>4, <2>1, <3>1, <3>2
<1>10. CASE ResumeAnswered
  <2>1. pc.i \in Items /\ item[pc.i].status = "active"
    BY <1>10 DEF ResumeAnswered, TypeInv, SectionOK, LifecycleInv, Dispatched, At
  <2>2. UNCHANGED fileVars \/ Replace(pc.i, BriefedFallback(item[pc.i], pc.r))
    BY <1>10 DEF ResumeAnswered
  <2> QED
    BY <1>1, <1>4, <2>1, <2>2, RebuildStatus, StillKept, KeptLists
<1>11. CASE SettleSuspended \/ SettleTerminal
  <2>1. /\ pc.r \in Runs
        /\ meta[pc.r].status \in SettleableStatus \cup {"suspended"}
    BY <1>11 DEF SettleSuspended, SettleTerminal, TypeInv, SectionOK, At
  <2>2. \/ UNCHANGED fileVars
        \/ \E i \in Items : /\ item[i].status = "active"
                            /\ Replace(i, SettledAs(item[i], pc.r))
    BY <1>11
       DEF SettleSuspended, SettleTerminal, ReplaceSettled, IsFirst, BoundTo
  <2>3. ASSUME NEW i \in Items, item[i].status = "active"
        PROVE  SettledAs(item[i], pc.r).status \in FileStatus
    BY <2>1, <2>3, SettledAsMoves DEF Along, Lifecycle!Moves, FileStatus
  <2> QED
    BY <1>1, <1>4, <2>2, <2>3, StillKept, KeptLists
<1>12. ASSUME NEW label, NEW status \in {"error", "suspended"},
              Reactivate(label, status)
       PROVE  OrderInv'
  <2>1. \/ UNCHANGED fileVars
        \/ \E i \in Items : /\ item[i].status = status
                            /\ Replace(i, BoundItem(item[i], pc.r))
    BY <1>12 DEF Reactivate, IsFirst, BoundTo
  <2> QED
    BY <1>1, <1>4, <2>1, RebuildStatus, StillKept, KeptLists
<1>13. CASE CancelTerminated
  <2>1. \/ UNCHANGED fileVars
        \/ \E i \in Items : /\ item[i].status \in {"needs_input", "suspended"}
                            /\ Replace(i, CancelledItem(item[i]))
    <3>1. CASE pc.i # None
      BY <1>0, <1>13, <3>1
         DEF CancelTerminated, LifecycleInv, Terminating, At, PcType
    <3>2. CASE pc.i = None
      BY <1>13, <3>2 DEF CancelTerminated, IsFirst, BoundTo
    <3> QED
      BY <3>1, <3>2
  <2> QED
    BY <1>1, <1>4, <2>1, RebuildStatus, StillKept, KeptLists
<1>14. CASE SubmitNowReturns
  <2>1. CASE UNCHANGED fileVars
    BY <2>1, StillKept, KeptLists
  <2>2. CASE \E k \in DOMAIN order :
               /\ order[k] = pc.i
               /\ order' = WithoutPos(k)
               /\ item' = [item EXCEPT ![pc.i].status = "removed"]
    <3>1. PICK k \in DOMAIN order :
               /\ order[k] = pc.i
               /\ order' = WithoutPos(k)
               /\ item' = [item EXCEPT ![pc.i].status = "removed"]
      BY <2>2
    <3>2. pc.i \in Items
      BY <1>0, <3>1 DEF TypeOK
    <3>3. \A j \in Items : item'[j].status = IF j = pc.i THEN "removed"
                                                        ELSE item[j].status
      BY <1>0, <3>1, <3>2 DEF ItemType
    <3>4. OnFile' = OnFile \ {pc.i}
      BY <3>3 DEF OnFile, FileStatus
    <3>5. Lists(order', OnFile \ {pc.i})
      BY <1>0, <3>1, WithoutLists DEF OrderInv
    <3> QED
      BY <3>4, <3>5 DEF OrderInv
  <2> QED
    BY <1>14, <2>1, <2>2 DEF SubmitNowReturns
<1> QED
  BY <1>2, <1>3, <1>6, <1>7, <1>8, <1>9, <1>10, <1>11, <1>12, <1>13, <1>14
     DEF QueueStep

LEMMA QueueRequestLists ==
  ASSUME TypeInv, OrderInv, QueueRequest
  PROVE  OrderInv'
<1> USE DEF fileVars, runVars, pauseVars, slotVars, loopVars, timeVars
<1>0. TypeOK /\ item \in [Items -> ItemType(Tasks, RunIds)] /\ order \in Seq(Items)
      /\ MaxItems \in Nat
  BY BoundsAssumption DEF TypeInv, TypeOK
<1>1. {"waiting", "active", "suspended", "needs_input", "done", "error", "cancelled"}
        = FileStatus
  BY DEF FileStatus
<1>2. ASSUME NEW i \in Items, NEW it, item' = [item EXCEPT ![i] = it],
             it.status \in FileStatus
      PROVE  OnFile' = OnFile \cup {i}
  <2>1. \A j \in Items : item'[j] = IF j = i THEN it ELSE item[j]
    BY <1>0, <1>2
  <2> QED
    BY <1>2, <2>1 DEF OnFile
<1>3. \A t, c : NormalizeNewItem(t, c).status = "waiting"
  BY DEF NormalizeNewItem
\* A new entry goes to one end of the list.
<1>4. ASSUME NEW i \in Items, NEW t, NEW c, item[i].status = "absent",
             item' = [item EXCEPT ![i] = NormalizeNewItem(t, c)],
             order' = <<i>> \o order \/ order' = Append(order, i)
      PROVE  OrderInv'
  <2>1. OnFile' = OnFile \cup {i}
    BY <1>1, <1>2, <1>3, <1>4
  <2>2. (OnFile \cup {i}) \ {i} = OnFile
    BY <1>4 DEF OnFile, FileStatus
  <2>3. Lists(order, (OnFile \cup {i}) \ {i})
    BY <2>2 DEF OrderInv
  <2>4. Lists(<<i>> \o order, OnFile \cup {i}) /\ Lists(Append(order, i), OnFile \cup {i})
    BY <1>0, <2>3, PrependLists, AppendLists
  <2> QED
    BY <1>4, <2>1, <2>4 DEF OrderInv
\* One that is listed moves to one end.
<1>5. ASSUME NEW i \in Items, NEW it, it.status = "waiting",
             item' = [item EXCEPT ![i] = it], NEW k \in DOMAIN order, order[k] = i,
             order' = <<i>> \o WithoutPos(k) \/ order' = Append(WithoutPos(k), i)
      PROVE  OrderInv'
  <2>1. i \in OnFile
    BY <1>5 DEF OrderInv, Lists
  <2>2. OnFile' = OnFile
    BY <1>1, <1>2, <1>5, <2>1
  <2>3. WithoutPos(k) \in Seq(Items) /\ Lists(WithoutPos(k), OnFile \ {i})
    BY <1>0, <1>5, WithoutLists DEF OrderInv
  <2>4. Lists(<<i>> \o WithoutPos(k), OnFile) /\ Lists(Append(WithoutPos(k), i), OnFile)
    BY <2>1, <2>3, PrependLists, AppendLists
  <2> QED
    BY <1>5, <2>2, <2>4 DEF OrderInv
<1>6. ASSUME NEW i \in Items, NEW t, NEW r, NEW h,
             Enqueue(i, t, r, h) \/ SubmitNow(i, t)
      PROVE  OrderInv'
  BY <1>4, <1>6 DEF Enqueue, SubmitNow, NewId
<1>7. ASSUME NEW i \in Items, NEW t, EditTask(i, t)
      PROVE  OrderInv'
  <2>1. Replace(i, [item[i] EXCEPT !.task = t]) /\ item[i].status = "waiting"
    BY <1>7 DEF EditTask
  <2>2. [item[i] EXCEPT !.task = t].status = "waiting"
    BY <1>0, <2>1 DEF ItemType
  <2> QED
    <3> DEFINE it == [item[i] EXCEPT !.task = t]
    <3>1. it.status \in FileStatus /\ item[i].status \in FileStatus
      BY <2>1, <2>2 DEF FileStatus
    <3>2. Replace(i, it)
      BY <2>1
    <3> HIDE DEF it
    <3> QED
      BY <1>0, <3>1, <3>2, RewriteKept, KeptLists
<1>8. ASSUME NEW i \in Items, NEW p \in 0..MaxItems, Reorder(i, p)
      PROVE  OrderInv'
  BY <1>0, <1>8, ReorderLists
<1>9. ASSUME NEW i \in Items, Cancel(i)
      PROVE  OrderInv'
  BY <1>0, <1>1, <1>9, RebuildStatus, RewriteKept, KeptLists DEF Cancel
<1>10. ASSUME NEW i \in Items, TerminateItem(i)
       PROVE  OrderInv'
  BY <1>10, StillKept, KeptLists DEF TerminateItem
<1>11. ASSUME NEW i \in Items, Answer(i)
       PROVE  OrderInv'
  <2> DEFINE it == RecordAnswer(item[i], count.answers + 1, AnswerTarget(i).run,
                                AnswerTarget(i).call)
  <2>1. it.status = "waiting"
    BY RebuildStatus
  <2>2. \/ UNCHANGED fileVars
        \/ /\ item' = [item EXCEPT ![i] = it]
           /\ \E k \in DOMAIN order :
                order[k] = i /\ order' = <<i>> \o WithoutPos(k)
    BY <1>11 DEF Answer
  <2> HIDE DEF it
  <2> QED
    BY <1>5, <2>1, <2>2, StillKept, KeptLists
<1>12. ASSUME NEW i \in Items, Requeue(i)
       PROVE  OrderInv'
  <2>1. /\ item' = [item EXCEPT ![i] = RequeuedItem(item[i])]
        /\ \E k \in DOMAIN order :
             order[k] = i /\ order' = Append(WithoutPos(k), i)
    BY <1>12 DEF Requeue
  <2> QED
    BY <1>5, <2>1, RebuildStatus
<1>13. CASE ProbeHealthy \/ ProbeFails \/ SecondPasses
  BY <1>13, StillKept, KeptLists DEF ProbeHealthy, ProbeFails, SecondPasses
<1>14. ASSUME NEW r \in Runs, TerminateSuspendedRun(r)
       PROVE  OrderInv'
  BY <1>14, StillKept, KeptLists DEF TerminateSuspendedRun
<1> QED
  BY <1>6, <1>7, <1>8, <1>9, <1>10, <1>11, <1>12, <1>13, <1>14 DEF QueueRequest

\* No run, boot or crash writes the list.
LEMMA OthersLists ==
  ASSUME OrderInv, RunStep \/ BootStep \/ Disturbance
  PROVE  OrderInv'
<1>1. UNCHANGED fileVars
  BY DEF RunStep, SubmitAccepted, StartRun, SafePoint, OperatorPause,
         StartWriteCapableRole, WriteWorkspace, Park, Suspend, RoleCallSucceeds,
         Unwind, Cleanup, PauseRun, StartResume, TerminateMeta, DropCheckpoint,
         Finish, ResumeRun, BootStep, Boot, AdoptPaused, ResumeWinner,
         NothingToResume, ReconcileRun, Supersede, Disturbance, Crash,
         ObserveShutdown, Exit, LoseCheckpoint
<1> QED
  BY <1>1, StillKept, KeptLists

\* The queue file is always well formed: every entry passes the reader's guard and is
\* listed once, through every reorder, answer, requeue, rollback, crash and repair, for
\* any number of items.
THEOREM QueueFileWellFormed == Spec => []QueueWellFormed
<1> DEFINE Inv == TypeInv /\ EntriesInv /\ LifecycleInv /\ OrderInv
<1>1. Init => Inv
  <2> SUFFICES ASSUME Init PROVE Inv
    OBVIOUS
  <2>1. NoItem.status = "absent"
    BY DEF NoItem, NormalizeNewItem
  <2>2. OrderInv
    BY <2>1 DEF Init, OrderInv, Lists, OnFile, FileStatus
  <2>3. LifecycleInv
    BY DEF Init, Idle, LifecycleInv, Dispatched, Terminating
  <2> QED
    BY <2>2, <2>3, InitType, InitEntries
<1>2. Inv /\ [Next]_vars => Inv'
  <2> SUFFICES ASSUME Inv, [Next]_vars PROVE Inv'
    OBVIOUS
  <2>1. OrderInv'
    <3>1. CASE UNCHANGED vars
      BY <3>1, StillKept, KeptLists DEF vars
    <3> QED
      BY <3>1, QueueStepLists, QueueRequestLists, OthersLists DEF Next
  <2> QED
    BY <2>1, NextType, NextEntries, NextMoves
<1>3. Inv => QueueWellFormed
  <2> SUFFICES ASSUME Inv PROVE QueueWellFormed
    OBVIOUS
  <2>1. order \in Seq(Items)
    BY DEF TypeInv, TypeOK
  <2>2. \A k \in DOMAIN order : order[k] \in Items
    BY <2>1
  <2> QED
    BY <2>2 DEF QueueWellFormed, EntriesInv, OrderInv, Lists, OnFile
<1> QED
  BY <1>1, <1>2, <1>3, PTL DEF Spec
=============================================================================
