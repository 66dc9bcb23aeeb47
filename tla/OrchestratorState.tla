-------------------------- MODULE OrchestratorState --------------------------
(***************************************************************************)
(* The state of the orchestration service: what is on disk (queue file,    *)
(* run metas, checkpoints, pause markers), what the process holds in       *)
(* memory (run slot, paused-run binding, live run, collision sleepers,     *)
(* provider gate), and the event loop.                                     *)
(*                                                                         *)
(* The service is one JavaScript event loop.  A handler runs without       *)
(* interruption up to its first real await; `pc' is the continuation of    *)
(* the section that holds the loop, and every step of a section makes one  *)
(* durable write, so a crash can fall between any two of them.  Other      *)
(* handlers, the live run and the timers only run while pc is Idle.        *)
(***************************************************************************)
EXTENDS QueueModel, Sequences, FiniteSets

CONSTANTS
  MaxItems,            \* queue items ever minted
  Tasks,               \* task texts
  Questions,           \* question texts an ask or a direct finish can carry
  MaxRuns,             \* run directories ever created
  MaxCollisionRetries, \* MAX_COLLISION_RETRIES (3 in the code)
  MaxSleepers,         \* bound: collision retries asleep at once
  MaxAsks,             \* bound: tool calls that park
  MaxAnswers,          \* bound: recorded answers
  MaxCrashes,          \* bound: crashes and shutdowns
  MaxLosses,           \* bound: checkpoints lost to corruption
  MaxEdits,            \* bound: operator edits and reorders
  Lineage,             \* the runs an operator names as continuesFrom (None: none)
  RunEvents            \* what the explored runs can do besides taking turns

ASSUME BoundsAssumption ==
  /\ {MaxItems, MaxRuns, MaxCollisionRetries, MaxSleepers, MaxAsks,
      MaxAnswers, MaxCrashes, MaxLosses, MaxEdits} \subseteq Nat
  /\ Tasks # {} /\ None \notin Tasks
  /\ Questions \subseteq Nat \ {None}
  /\ Lineage \subseteq (1..MaxRuns) \cup {None}
  /\ RunEvents \subseteq {"success", "error", "needs_clarification", "park",
                          "suspend", "pause", "write"}

Items == 1..MaxItems
Runs  == 1..MaxRuns
RunIds == Runs \cup {None}

VARIABLES
  \* on disk
  item,        \* the queue entries by id
  order,       \* the file order of their ids
  meta,        \* meta.json of every run directory
  ckpt,        \* checkpoint.json of every run directory
  pauseReq,    \* the runs with a pause-requested.json marker
  \* in memory
  phase,       \* "down", "boot" (reconciling, first tick) or "up"
  pc,          \* the synchronous section that holds the event loop
  active,      \* activeRunId
  paused,      \* pausedRun: the run that outranks all waiting work, and its kind
  probing,     \* a provider probe is scheduled or in flight
  live,        \* the executor state of the active run
  pauseSignal, \* the operator-pause queue of the active run holds a request
  sleepers,    \* dispatch cycles asleep after a run-id collision, oldest first
  gate,        \* the provider gate's canDispatch
  shutdown,    \* shutdownObserved
  scan,        \* runs the boot reconciliation has still to read
  \* environment and history
  secondTaken, \* a run directory was created in the current clock second
  heard,       \* per run: the answers its durable conversation contains
  dirty,       \* the runs that have changed the workspace
  count        \* the bounded events used up

fileVars  == <<item, order>>
runVars   == <<meta, ckpt, pauseReq, heard, dirty>>
pauseVars == <<paused, probing>>
slotVars  == <<active, pauseVars, live, pauseSignal>>
loopVars  == <<phase, gate, shutdown, scan>>
timeVars  == <<sleepers, secondTaken>>
vars == <<fileVars, runVars, slotVars, loopVars, timeVars, pc, count>>

-----------------------------------------------------------------------------
(* Types.                                                                  *)

RunStatus == {"nodir", "nometa", "running", "suspended", "success", "error",
              "needs_clarification", "interrupted"}
PauseKind == {"none", "provider", "operator"}

\* `question' is the one a needs_clarification summary names; `kind' tells a
\* provider suspension from an operator pause; `superseded' is the message that
\* isSupersededSuspendedRun recognises.
MetaType == [status: RunStatus, task: Tasks \cup {None}, question: Nat,
             kind: PauseKind, superseded: BOOLEAN]

\* `call'/`question' are parkedAsk; `delivered'/`consumed' are clarificationAnswer.
CkptType == [has: BOOLEAN, call: Nat, question: Nat, delivered: Nat,
             consumed: BOOLEAN, suspension: BOOLEAN, pause: BOOLEAN,
             wrote: BOOLEAN]
NoCkpt == [has |-> FALSE, call |-> None, question |-> None, delivered |-> None,
           consumed |-> FALSE, suspension |-> FALSE, pause |-> FALSE,
           wrote |-> FALSE]

\* `answer' is in the live conversation and not yet in a checkpoint.
LiveType == [stage: {"none", "running", "parked", "suspending", "pausing"},
             tracked: BOOLEAN, wrote: BOOLEAN, answer: Nat, delivered: Nat]
NoLive == [stage |-> "none", tracked |-> FALSE, wrote |-> FALSE,
           answer |-> None, delivered |-> None]

NoPaused == [run |-> None, kind |-> "none"]

\* A section's continuation: the step to take, the item and run it is about, the
\* dispatching marker and collision attempt of a dispatch cycle, and who awaits it.
Labels == {"idle", "tick", "dispatch", "resumeAnswered", "startAnswered",
           "mark", "submit", "start", "bind", "afterNow", "terminate",
           "dropCheckpoint", "cancel", "startResume", "reactivateError",
           "reactivateSuspended", "cleanup", "settle", "scan", "recover"}
Callers == {"none", "now", "boot", "probe", "answer"}
PcType == [at: Labels, i: Items \cup {None}, r: RunIds,
           m: ItemType(Tasks, RunIds), n: Nat, caller: Callers]
NoMarker == NormalizeNewItem(CHOOSE t \in Tasks : TRUE, None)
Idle == [at |-> "idle", i |-> None, r |-> None, m |-> NoMarker, n |-> 0,
         caller |-> "none"]

SleeperType == [i: Items, m: ItemType(Tasks, RunIds), n: Nat, caller: Callers,
                ready: BOOLEAN]
CountType == [asks: Nat, answers: Nat, crashes: Nat, losses: Nat, edits: Nat]

TypeOK ==
  /\ item \in [Items -> ItemType(Tasks, RunIds)] /\ order \in Seq(Items)
  /\ meta \in [Runs -> MetaType] /\ ckpt \in [Runs -> CkptType]
  /\ pauseReq \subseteq Runs /\ heard \in [Runs -> SUBSET Nat]
  /\ dirty \subseteq Runs
  /\ phase \in {"down", "boot", "up"} /\ pc \in PcType
  /\ active \in RunIds /\ live \in LiveType
  /\ paused \in [run: RunIds, kind: PauseKind] /\ probing \in BOOLEAN
  /\ pauseSignal \in BOOLEAN /\ gate \in BOOLEAN /\ shutdown \in BOOLEAN
  /\ scan \subseteq Runs /\ sleepers \in Seq(SleeperType)
  /\ secondTaken \in BOOLEAN /\ count \in CountType

-----------------------------------------------------------------------------
(* Reading the queue file.                                                 *)

\* `items.find': i is the first entry of the file that is in S.
IsFirst(i, S) ==
  \E k \in DOMAIN order :
     /\ order[k] = i /\ i \in S
     /\ \A j \in 1..(k - 1) : order[j] \notin S

WithStatus(s) == {i \in Items : item[i].status = s}
BoundTo(s, r) == {i \in Items : item[i].status = s /\ item[i].runId = r}
Minted == {i \in Items : item[i].status # "absent"}

\* The order without the entry at position k, and withReplacedItem.
WithoutPos(k) ==
  SubSeq(order, 1, k - 1) \o SubSeq(order, k + 1, Len(order))
Replace(i, it) == item' = [item EXCEPT ![i] = it] /\ order' = order

(* Reading a run directory.                                                *)

\* parseRunMetaText: a directory without a readable meta reads as null.
ReadMeta(r) ==
  IF r \notin Runs \/ meta[r].status \in {"nodir", "nometa"}
    THEN [status |-> "none", question |-> None, superseded |-> FALSE]
    ELSE [status |-> meta[r].status, question |-> meta[r].question,
          superseded |-> meta[r].superseded]

\* createReadPauseStateById.
PauseState(r) ==
  LET none == [kind |-> "none", call |-> None, question |-> None,
               delivered |-> None, consumed |-> FALSE]
  IN IF r \notin Runs \/ ~ckpt[r].has \/ ckpt[r].pause \/ ckpt[r].suspension
       THEN none
     ELSE IF ckpt[r].call # None
       THEN [none EXCEPT !.kind = "parked_ask", !.call = ckpt[r].call,
                         !.question = ckpt[r].question]
       ELSE [none EXCEPT !.kind = "clarification",
                         !.delivered = ckpt[r].delivered,
                         !.consumed = ckpt[r].consumed]

\* A running meta re-asserted over whatever the run's meta said before.
RunningMeta(task) == [status |-> "running", task |-> task, question |-> None,
                      kind |-> "none", superseded |-> FALSE]
InterruptedMeta(r, superseded) ==
  [meta[r] EXCEPT !.status = "interrupted", !.question = None,
                  !.kind = "none", !.superseded = superseded]

-----------------------------------------------------------------------------
(* The event loop.                                                         *)

At(label) == pc.at = label
Goto(label) == pc' = [pc EXCEPT !.at = label]
Enter(label, i, r, caller) ==
  pc' = [Idle EXCEPT !.at = label, !.i = i, !.r = r, !.caller = caller]

\* A section awaited by caller returns: submitNow and the recovery coordinator go
\* on in the same turn of the loop, and the boot sequence opens the server.
Leave(caller, i) ==
  /\ pc' = CASE caller = "now" -> [Idle EXCEPT !.at = "afterNow", !.i = i]
             [] caller = "probe" -> [Idle EXCEPT !.at = "tick"]
             [] OTHER -> Idle
  /\ phase' = IF caller = "boot" THEN "up" ELSE phase

\* A new turn may start.  Once a shutdown has drained the active run the process
\* only exits.
LoopFree == pc = Idle /\ ~(shutdown /\ active = None)
Serving == LoopFree /\ phase = "up"

\* Bound: no request that ends in a tick is taken while MaxSleepers retries are
\* asleep.
Accepting == Serving /\ Len(sleepers) < MaxSleepers

Used(field) == count' = [count EXCEPT ![field] = @ + 1]
=============================================================================
