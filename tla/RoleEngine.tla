----------------------------- MODULE RoleEngine -----------------------------
(***************************************************************************)
(* The engine of one run (executor/engine.ts with interrupt-engine.ts,      *)
(* handler-interlude.ts, context/context-manager.ts, resume.ts and the      *)
(* checkpoint recorder): a stack of role frames that call the model,        *)
(* dispatch its tool calls, delegate to children, ask the operator, and are *)
(* preempted at their safe points by handler roles. The recursion of        *)
(* runRole is the stack; an action is what happens between two durable      *)
(* writes (an appended log event or a written checkpoint), so a crash falls *)
(* between any two of them. The operator, the provider and the model's      *)
(* replies are the environment.                                             *)
(***************************************************************************)
EXTENDS Conversation

CONSTANTS
  Batches,        \* the tool batches a working role's model may return
  HandlerBatches, \* those of a handler role's model
  Requests,       \* the kinds of operator requests submitted
  MaxAgentDepth,  \* executor.maxAgentDepth
  Cadence,        \* interruptTriggers.everyToolCalls times the effort's scale
  MaxRecovery,    \* MAX_CONTEXT_RECOVERY_ATTEMPTS (3 in the code)
  MaxResumes,     \* bound: resumes by the operator
  Budget,         \* bound: how often each kind of environment event happens
  MaxEvents       \* bound: environment events together, the model's replies included

ASSUME EngineBounds == Batches \subseteq Seq(STRING) /\ HandlerBatches \subseteq Seq(STRING)

VARIABLES
  status,  \* how the run stands: running, settled one way, or crashed
  stack,   \* the live frames, root first
  rec,     \* the recorder's and the registry's volatile state
  park,    \* RunParkTracker
  jour,    \* the invocation journal
  queue,   \* InterruptQueue
  pausing, \* an operator pause waits in OperatorPauseQueue
  log,     \* the run log's lifecycle events
  disk,    \* state.json
  ran,     \* ghost: how often each tool call was executed
  used     \* the counters that bound the environment

volatile == <<stack, rec, park, jour, queue, pausing>>
vars == <<status, volatile, log, disk, ran, used>>

NewRec(counter) == [counter |-> counter, interlude |-> NoInterlude, pre |-> << >>, frozen |-> FALSE,
                    suspended |-> FALSE, paused |-> FALSE]
NewPark == [question |-> FALSE, ask |-> 0, role |-> 0, wrote |-> FALSE, tracked |-> TRUE]
NewJournal == [started |-> {}, ended |-> {}]

Frame(id, hand) ==
  [id |-> id, hand |-> hand, hist |-> << >>, pend |-> NoPending,
   press |-> None, comp |-> FALSE, tries |-> 0, calls |-> 0, mark |-> 0, abort |-> FALSE, inject |-> FALSE,
   pc |-> "top", turn |-> << >>, idx |-> 0, val |-> None, note |-> FALSE, mode |-> "live",
   trig |-> None, intr |-> 0, action |-> None]

Events == {"turns", "pressures", "rejections", "failures", "crashes", "pauses", "requests"}
Spent == FoldSet(LAMBDA e, n : n + used[e], 0, Events)
May(event) == used[event] < Budget[event] /\ Spent < MaxEvents

Top == stack[Len(stack)]
Batch(f) == f.turn
At(pc) == status = "running" /\ stack # << >> /\ Top.pc = pc
Put(f) == [stack EXCEPT ![Len(stack)] = f]
Goto(f, pc) == [f EXCEPT !.pc = pc]
Push(f, message) == [f EXCEPT !.hist = Append(@, message)]
EndWith(f, card) == [f EXCEPT !.pc = "end", !.val = card]
HasHandler(st) == \E k \in DOMAIN st : st[k].hand

Init ==
  /\ status = "new" /\ stack = << >> /\ rec = NewRec(0) /\ park = NewPark /\ jour = NewJournal
  /\ queue = << >> /\ pausing = FALSE /\ log = EmptyBag /\ disk = NoCheckpoint
  /\ ran = EmptyBag
  /\ used = [turns |-> 0, pressures |-> 0, rejections |-> 0, failures |-> 0, crashes |-> 0, pauses |-> 0,
             requests |-> 0, resumes |-> 0, tools |-> 0, interrupts |-> 0]

----
(***************************************************************************)
(* The checkpoint recorder.                                                 *)
(***************************************************************************)

serializeFrame(f) ==
  [id |-> f.id, hist |-> f.hist, pend |-> f.pend, press |-> f.press, comp |-> f.comp,
   tries |-> f.tries, calls |-> f.calls, mark |-> f.mark, abort |-> f.abort, inject |-> f.inject]

Restored(s) ==
  [Frame(s.id, FALSE) EXCEPT !.hist = s.hist, !.pend = s.pend, !.press = s.press, !.comp = s.comp, !.tries = s.tries,
                             !.calls = s.calls, !.mark = s.mark, !.abort = s.abort, !.inject = s.inject]

\* The frames of the working roles: the handlers' are on top of them.
WorkFrames(st) == [k \in {j \in DOMAIN st : ~st[j].hand} |-> serializeFrame(st[k])]

Writable(how, r, st) == ~r.frozen /\ (how = "ordinary" => ~HasHandler(st))

\* Mutant of Checkpoint: whether a writer was started is not persisted.
Checkpoint_ForgetsWriter(how, r, st, p) ==
  [counter |-> r.counter, wrote |-> FALSE, ask |-> p.ask, askRole |-> p.role,
   interlude |-> r.interlude, suspended |-> r.suspended, paused |-> r.paused,
   frames |-> WorkFrames(st)]

Checkpoint(how, r, st, p) ==
  [counter |-> r.counter, wrote |-> p.wrote, ask |-> p.ask, askRole |-> p.role,
   interlude |-> r.interlude, suspended |-> r.suspended, paused |-> r.paused,
   frames |-> IF how # "ordinary" /\ r.interlude # NoInterlude /\ r.pre # << >>
              THEN r.pre ELSE WorkFrames(st)]

PreInterlude(how, r, c) ==
  IF r.interlude = NoInterlude THEN << >> ELSE IF how = "ordinary" THEN c.frames ELSE r.pre

\* writeCheckpoint(mode) after the stack, the recorder and the park tracker became st, r and p.
Write(how, st, r, p) ==
  /\ stack' = st /\ park' = p
  /\ IF Writable(how, r, st)
     THEN LET c == Checkpoint(how, r, st, p)
          IN disk' = c /\ rec' = [r EXCEPT !.pre = PreInterlude(how, r, c)]
     ELSE disk' = disk /\ rec' = r

\* registry.register and the journaled role_start of a fresh role.
StartRole(st, hand, writer) ==
  LET id == rec.counter + 1
      inv == <<"role", id>>
  IN /\ stack' = Append(st, Frame(id, hand))
     /\ rec' = [rec EXCEPT !.counter = id]
     /\ jour' = [jour EXCEPT !.started = @ \cup {inv}]
     /\ log' = IF inv \in jour.started \cup jour.ended THEN log ELSE Logged(log, {Start(inv)})
     /\ park' = [park EXCEPT !.wrote = @ \/ writer]

StartRun ==
  /\ status = "new" /\ status' = "running"
  /\ StartRole(<< >>, FALSE, FALSE)
  /\ UNCHANGED <<queue, pausing, disk, ran, used>>

----
(***************************************************************************)
(* The loop top: park mark, routed marks, interrupts, context, checkpoint,  *)
(* pause and the model request, in that order.                              *)
(***************************************************************************)

\* captureParkCheckpoint and the park card: only the parked role writes, and freezes
\* the recorder in the same synchronous step.
Unwind(f) ==
  /\ stack' = Put(EndWith(f, "park"))
  /\ IF park.role = f.id
     THEN LET c == Checkpoint("ordinary", rec, stack', park)
          IN disk' = c /\ rec' = [rec EXCEPT !.frozen = TRUE, !.pre = PreInterlude("ordinary", rec, c)]
     ELSE UNCHANGED <<rec, disk>>

ParkAtLoopTop ==
  /\ At("top") /\ park.question
  /\ Unwind(Top)
  /\ UNCHANGED <<status, park, jour, queue, pausing, log, ran, used>>

Injected(f) == IF f.inject THEN [Push(f, UserMessage("plan")) EXCEPT !.inject = FALSE] ELSE f

ContextOwed == rec.interlude.trigger \in {"context_pressure", "context_budget_exceeded"}
LoopCheckDue(f) == ~f.hand /\ ~ContextOwed /\ f.calls >= f.mark + Cadence

\* runHandlerInterlude begins with the interrupt event.
StartInterlude(f, trigger) ==
  LET id == used.interrupts + 1 IN
  /\ stack' = Put([f EXCEPT !.pc = "mark", !.trig = trigger, !.intr = id])
  /\ log' = Logged(log, {Start(<<"interrupt", id>>)})
  /\ jour' = [jour EXCEPT !.started = @ \cup {<<"interrupt", id>>}]
  /\ used' = [used EXCEPT !.interrupts = id]

\* routeOperatorInterrupt: a notice goes into the root's history at once; a plan
\* modification marks the chain below the root for abort and the root for injection.
Routed(kind, f) ==
  LET st == Put(f) IN
  CASE kind = "notice" -> [st EXCEPT ![1] = Push(@, UserMessage("notice"))]
    [] kind = "plan" /\ Len(st) = 1 -> Put(Push(f, UserMessage("plan")))
    [] OTHER -> [k \in DOMAIN st |-> IF k = 1 THEN [st[k] EXCEPT !.inject = TRUE]
                                     ELSE [st[k] EXCEPT !.abort = TRUE]]

\* drainInterrupts, after the loop check when one was due.
DrainRequest(f) ==
  IF f.hand \/ ContextOwed \/ queue = << >>
  THEN stack' = Put(Goto(f, "context")) /\ UNCHANGED <<queue, log, jour, used>>
  ELSE /\ queue' = Tail(queue)
       /\ IF Head(queue) = "inquiry"
          THEN StartInterlude(f, "inquiry")
          ELSE /\ LET st == Routed(Head(queue), f) IN
                  stack' = [st EXCEPT ![Len(st)] =
                              IF @.abort THEN EndWith(@, "interrupted") ELSE Goto(@, "context")]
               /\ UNCHANGED <<log, jour, used>>

drainInterrupts ==
  /\ At("top") /\ ~park.question
  /\ LET f == Injected(Top) IN
     CASE Top.abort -> stack' = Put(EndWith(Top, "interrupted")) /\ UNCHANGED <<queue, log, jour, used>>
       [] ~Top.abort /\ LoopCheckDue(f) -> StartInterlude(f, "loop_check") /\ UNCHANGED queue
       [] OTHER -> DrainRequest(f)
  /\ UNCHANGED <<status, rec, park, pausing, disk, ran>>

drainAfterLoopCheck ==
  /\ At("drain") /\ DrainRequest(Top)
  /\ UNCHANGED <<status, rec, park, pausing, disk, ran>>

\* resolveSafePoint: an owed compaction, then the pressure response.
resolveSafePoint ==
  /\ At("context")
  /\ CASE Top.comp -> StartInterlude(Top, "context_budget_exceeded")
       [] ~Top.comp /\ Top.press = "pending" /\ Len(stack) = 1 -> StartInterlude(Top, "context_pressure")
       [] OTHER ->
            /\ stack' = Put(Goto(IF Top.press = "pending"
                                 THEN [Push(Top, UserMessage("pressure")) EXCEPT !.press = "sent"]
                                 ELSE Top, "safe"))
            /\ UNCHANGED <<log, jour, used>>
  /\ UNCHANGED <<status, rec, park, queue, pausing, disk, ran>>

\* The safe point's checkpoint.
SafePoint ==
  /\ At("safe")
  /\ Write("ordinary", Put(Goto(Top, "ready")), rec, park)
  /\ UNCHANGED <<status, jour, queue, pausing, log, ran, used>>

\* The run leaves the process: the last write of the recorder, then the status, and
\* nothing volatile survives.
Forget ==
  /\ stack' = << >> /\ rec' = NewRec(0) /\ park' = NewPark /\ jour' = NewJournal
  /\ queue' = << >> /\ pausing' = FALSE

Leave(how, r, st) ==
  /\ disk' = Checkpoint(how, r, stack, park)
  /\ status' = st /\ Forget

\* An operator pause: consumed by a working role only, and written by runRole.
TakePause ==
  /\ At("ready") /\ pausing /\ ~Top.hand
  /\ Leave("pause", [rec EXCEPT !.paused = TRUE], "paused")
  /\ UNCHANGED <<log, ran, used>>

CallModel ==
  /\ At("ready") /\ ~(pausing /\ ~Top.hand)
  /\ stack' = Put(Goto(Top, "llm"))
  /\ UNCHANGED <<status, rec, park, jour, queue, pausing, log, disk, ran, used>>

----
(***************************************************************************)
(* The handler interlude.                                                   *)
(***************************************************************************)

\* Mutant of MarkInterlude: the record is kept in memory and left to the next write.
MarkInterlude_Unwritten ==
  /\ At("mark")
  /\ stack' = Put(Goto(Top, "handler"))
  /\ rec' = [rec EXCEPT !.interlude = [target |-> Top.id, trigger |-> Top.trig, queued |-> queue]]
  /\ UNCHANGED <<status, park, disk, jour, queue, pausing, log, ran, used>>

\* A nested interlude leaves the outer record alone: the outer one is replayed.
MarkInterlude ==
  /\ At("mark")
  /\ LET st == Put(Goto(Top, "handler"))
         r == [rec EXCEPT !.interlude = [target |-> Top.id, trigger |-> Top.trig, queued |-> queue]]
     IN IF HasHandler(stack) THEN stack' = st /\ UNCHANGED <<rec, park, disk>>
        ELSE Write("ordinary", st, r, park)
  /\ UNCHANGED <<status, jour, queue, pausing, log, ran, used>>

StartHandler ==
  /\ At("handler")
  /\ StartRole(Put(Goto(Top, "wait handler")), TRUE, FALSE)
  /\ UNCHANGED <<status, queue, pausing, disk, ran, used>>

\* applyContextBackstop: drop the oldest blocks, never the last one.
Compacted(hist) ==
  {SubSeq(hist, i, Len(hist)) : i \in {j \in DOMAIN hist : hist[j].m # "tool"}} \cup
  (IF hist = << >> THEN {<< >>} ELSE {})

\* The resolution each trigger applies with the handler's card, and its interrupt_resolved.
Resolutions(f) ==
  LET g == Goto(f, "unmark") IN
  CASE f.trig = "loop_check" -> {[g EXCEPT !.mark = f.calls]}
    [] f.trig = "inquiry" -> {g}
    [] f.trig = "context_pressure" -> {[Push(g, UserMessage("pressure")) EXCEPT !.press = "sent"]}
    [] f.trig = "context_budget_exceeded" /\ f.val = "success" ->
         {[Push(g, UserMessage("managed")) EXCEPT !.comp = FALSE]}
    [] OTHER -> {[g EXCEPT !.comp = FALSE, !.hist = h, !.action = "unfit"] : h \in Compacted(f.hist)}
                \cup {[Push([g EXCEPT !.hist = h], UserMessage("recovery")) EXCEPT !.comp = FALSE] :
                        h \in Compacted(f.hist)}

ResolveInterlude ==
  /\ At("handled")
  /\ \E f \in Resolutions(Top) : stack' = Put(f)
  /\ log' = Logged(log, {Terminal(<<"interrupt", Top.intr>>)})
  /\ jour' = [jour EXCEPT !.ended = @ \cup {<<"interrupt", Top.intr>>}]
  /\ UNCHANGED <<status, rec, park, queue, pausing, disk, ran, used>>

\* Where the role goes on: a loop check is followed by the drain of a request, an
\* overflow by the pressure check; an abort or a hopeless compaction ends the role.
AfterInterlude(f) ==
  LET g == [f EXCEPT !.action = None, !.trig = None] IN
  CASE f.trig = "loop_check" /\ f.action = "abort" -> EndWith(g, "error")
    [] f.trig = "context_budget_exceeded" /\ f.action = "unfit" -> EndWith(g, "error")
    [] f.trig = "loop_check" /\ f.action # "abort" -> Goto(g, "drain")
    [] f.trig = "context_pressure" -> Goto(g, "safe")
    [] OTHER -> Goto(g, "context")

ClearInterlude ==
  /\ At("unmark")
  /\ LET st == Put(AfterInterlude(Top)) IN
     IF HasHandler(stack) THEN stack' = st /\ UNCHANGED <<rec, park, disk>>
     ELSE Write("ordinary", st, [rec EXCEPT !.interlude = NoInterlude], park)
  /\ UNCHANGED <<status, jour, queue, pausing, log, ran, used>>

----
(***************************************************************************)
(* The model's reply (handleLlmResult).                                     *)
(***************************************************************************)

\* A provider failure suspends the run where it stands; requests queued behind a
\* handler ride its interlude record.
SuspendedRec ==
  [rec EXCEPT !.suspended = TRUE,
              !.interlude = IF @ = NoInterlude THEN @ ELSE [@ EXCEPT !.queued = queue]]

ProviderFails ==
  /\ At("llm") /\ May("failures")
  /\ used' = [used EXCEPT !.failures = @ + 1]
  /\ Leave("suspension", SuspendedRec, "suspended")
  /\ UNCHANGED <<log, ran>>

\* llm_unavailable, or a role budget found exceeded around the call.
ModelUnavailable ==
  /\ At("llm")
  /\ stack' = Put(EndWith(Top, "error"))
  /\ UNCHANGED <<status, rec, park, jour, queue, pausing, log, disk, ran, used>>

\* observeRejection: the compaction is owed at the next turn boundary.
ContextRejected ==
  /\ At("llm") /\ May("rejections")
  /\ used' = [used EXCEPT !.rejections = @ + 1]
  /\ LET f == [Top EXCEPT !.tries = @ + 1] IN
     stack' = Put(IF f.tries > MaxRecovery THEN EndWith(f, "error")
                  ELSE [Goto(f, "top") EXCEPT !.comp = TRUE])
  /\ UNCHANGED <<status, rec, park, jour, queue, pausing, log, disk, ran>>

\* trigger_interrupt is the loop-check handler's tool: the guild gives it to no other role.
Below == stack[Len(stack) - 1]
Offered(f) == IF ~f.hand THEN Batches
              ELSE {b \in HandlerBatches : Below.trig = "loop_check" \/ Range(b) \cap {"abort", "redirect"} = {}}

\* A reply without tool calls is an implicit finish.
ModelReplies ==
  /\ At("llm") /\ May("turns")
  /\ \E b \in Offered(Top), pressed \in BOOLEAN :
       LET calls == [k \in DOMAIN b |-> [id |-> used.tools + k, tool |-> b[k]]]
           f == [Push(Top, Turn(calls)) EXCEPT !.tries = 0, !.press = IF pressed THEN "pending" ELSE @]
       IN /\ pressed => Top.press = None /\ May("pressures") /\ Spent + 1 < MaxEvents
          /\ stack' = Put(IF b = << >> THEN EndWith(f, "success")
                          ELSE [f EXCEPT !.pc = "disp", !.turn = calls, !.idx = 1, !.mode = "live"])
          /\ used' = [used EXCEPT !.turns = @ + 1, !.tools = @ + Len(b),
                                  !.pressures = IF pressed THEN @ + 1 ELSE @]
  /\ UNCHANGED <<status, rec, park, jour, queue, pausing, log, disk, ran>>

----
(***************************************************************************)
(* dispatchToolCallSequence. mode says on whose behalf it runs: a live      *)
(* turn, the turn of a parked ask, the rest of a turn a resume completes,   *)
(* the call a resume reconciles, or the child call a resume waits for.      *)
(***************************************************************************)

Call(f) == Batch(f)[f.idx]
IsLast(f) == f.idx = Len(Batch(f))
Inv(f) == <<"tool", Call(f).id>>
Onward(f) == [f EXCEPT !.idx = @ + 1, !.pc = "disp", !.mode = IF @ = "reconcile" THEN "rest" ELSE @]
LoopTop(f) == [f EXCEPT !.pc = "top", !.mode = "live", !.turn = << >>, !.idx = 0, !.val = None]
Noted(f) == IF f.note THEN [Push(f, UserMessage("note")) EXCEPT !.note = FALSE] ELSE f

\* Every call of the turn is settled: back to the loop top.
DispatchDone ==
  /\ At("disp") /\ Top.idx > Len(Batch(Top))
  /\ LET f == LoopTop(Noted(Top)) IN
     IF Top.mode = "parked" THEN Write("ordinary", Put(f), rec, park)
     ELSE stack' = Put(f) /\ UNCHANGED <<rec, park, disk>>
  /\ UNCHANGED <<status, jour, queue, pausing, log, ran, used>>

\* The park mark between two dispatches.
DispatchParks ==
  /\ At("disp") /\ Top.idx <= Len(Batch(Top)) /\ park.question
  /\ Unwind([Top EXCEPT !.pend = NoPending])
  /\ UNCHANGED <<status, park, jour, queue, pausing, log, ran, used>>

\* validateCall refuses an unknown or forbidden tool before any invocation exists.
DispatchInvalid ==
  /\ At("disp") /\ Top.idx <= Len(Batch(Top)) /\ ~park.question /\ Call(Top).tool = "bad"
  /\ LET f == [Push(Top, ToolMessage(Call(Top).id, "invalid")) EXCEPT !.calls = @ + 1] IN
     IF IsLast(Top) THEN Write("ordinary", Put(Onward([f EXCEPT !.pend = NoPending])), rec, park)
     ELSE stack' = Put(Onward(f)) /\ UNCHANGED <<rec, park, disk>>
  /\ UNCHANGED <<status, jour, queue, pausing, log, ran, used>>

\* The pre-dispatch checkpoint.
DispatchCall ==
  /\ At("disp") /\ Top.idx <= Len(Batch(Top)) /\ ~park.question /\ Call(Top).tool # "bad"
  /\ Write("ordinary", Put([Top EXCEPT !.pend = Pending(Batch(Top), Top.idx), !.pc = "start"]), rec, park)
  /\ UNCHANGED <<status, jour, queue, pausing, log, ran, used>>

\* The journal: a start or a terminal already known is not written again.
toolStarted(inv) ==
  /\ jour' = [jour EXCEPT !.started = @ \cup {inv}]
  /\ log' = IF inv \in jour.started \cup jour.ended THEN log ELSE Logged(log, {Start(inv)})

\* The journaled start of every call but an ask, whose backend logs it.
BeginCall ==
  /\ At("start")
  /\ IF Call(Top).tool = "ask" THEN UNCHANGED <<log, jour>> ELSE toolStarted(Inv(Top))
  /\ stack' = Put(Goto(Top, "exec"))
  /\ UNCHANGED <<status, rec, park, queue, pausing, disk, ran, used>>

Settled(f, val) == [f EXCEPT !.pc = "res", !.val = val]
Executed == ran' = Logged(ran, {Call(Top).id})

\* A tool or a finish. trigger_interrupt leaves its decision on the suspended target,
\* and a redirect its message.
ExecuteTool ==
  /\ At("exec") /\ ~suspendsChild(Call(Top).tool) /\ Call(Top).tool # "ask"
  /\ Executed
  /\ LET tool == Call(Top).tool
         st == Put(Settled(Top, IF IsFinish(tool) THEN CardOf[tool] ELSE "ok"))
     IN stack' = CASE tool = "abort" -> [st EXCEPT ![Len(st) - 1].action = "abort"]
                   [] tool = "redirect" -> [st EXCEPT ![Len(st) - 1] =
                                             [Push(@, UserMessage("redirect")) EXCEPT !.action = "redirect"]]
                   [] OTHER -> st
  /\ UNCHANGED <<status, rec, park, jour, queue, pausing, log, disk, used>>

\* runChild: refused past the depth budget, otherwise the child role starts.
SpawnAgent ==
  /\ At("exec") /\ suspendsChild(Call(Top).tool)
  /\ IF Len(stack) > MaxAgentDepth
     THEN stack' = Put(Settled(Top, "refused")) /\ UNCHANGED <<rec, jour, log, park>>
     ELSE StartRole(Put(Goto(Top, "wait")), Top.hand, isWriteCapableRole(Call(Top).tool))
  /\ UNCHANGED <<status, queue, pausing, disk, ran, used>>

\* ask_human: a queue-tracked run that has not started a writer parks, any other waits.
AskParks ==
  /\ At("exec") /\ Call(Top).tool = "ask" /\ park.tracked /\ ~park.wrote /\ ~Top.hand
  /\ park' = [park EXCEPT !.question = TRUE, !.ask = Call(Top).id, !.role = Top.id]
  /\ log' = Logged(log, {Start(Inv(Top))})
  /\ jour' = [jour EXCEPT !.started = @ \cup {Inv(Top)}]
  /\ stack' = Put(Settled(Top, "parked"))
  /\ UNCHANGED <<status, rec, queue, pausing, disk, ran, used>>

AskWaits ==
  /\ At("exec") /\ Call(Top).tool = "ask" /\ ~(park.tracked /\ ~park.wrote /\ ~Top.hand)
  /\ log' = Logged(log, {Start(Inv(Top))})
  /\ stack' = Put(Goto(Top, "asking"))
  /\ UNCHANGED <<status, rec, park, jour, queue, pausing, disk, ran, used>>

\* Malformed arguments: the ask gets a closed generic lifecycle instead.
AskRejected ==
  /\ At("exec") /\ Call(Top).tool = "ask"
  /\ log' = Logged(log, {Terminal(Inv(Top))} \cup (IF Inv(Top) \in jour.started THEN {} ELSE {Start(Inv(Top))}))
  /\ jour' = [started |-> jour.started \cup {Inv(Top)}, ended |-> jour.ended \cup {Inv(Top)}]
  /\ stack' = Put(Settled(Top, "invalid"))
  /\ UNCHANGED <<status, rec, park, queue, pausing, disk, ran, used>>

submitAnswer ==
  /\ At("asking")
  /\ log' = Logged(log, {Terminal(Inv(Top))})
  /\ jour' = [started |-> jour.started \cup {Inv(Top)}, ended |-> jour.ended \cup {Inv(Top)}]
  /\ stack' = Put(Settled(Top, "answer"))
  /\ UNCHANGED <<status, rec, park, queue, pausing, disk, ran, used>>

\* The child's card is checkpointed on the parent's pending call before it is delivered.
RecordChildCard ==
  /\ At("carded")
  /\ Write("ordinary", Put([Top EXCEPT !.pend.card = Top.val, !.pc = "res"]), rec, park)
  /\ UNCHANGED <<status, jour, queue, pausing, log, ran, used>>

\* recordToolResult: the journaled terminal (a resumed child call may owe its start too),
\* the tool message and the count. A replayed terminal is not written again.
recordToolResult ==
  /\ At("res")
  /\ LET inv == Inv(Top)
         silent == Call(Top).tool = "ask" \/ Top.mode = "replay"
         g == [Push(Top, ToolMessage(Call(Top).id, Top.val)) EXCEPT !.calls = @ + 1]
         f == IF IsFinish(Call(Top).tool) THEN [g EXCEPT !.pc = "closing", !.idx = @ + 1] ELSE Goto(g, "settle")
     IN /\ stack' = Put(CASE Top.mode = "child" -> [Onward(f) EXCEPT !.pend = NoPending, !.mode = "rest"]
                          [] Top.mode = "replay" -> [f EXCEPT !.mode = "reconcile"]
                          [] OTHER -> f)
        /\ IF silent \/ inv \in jour.ended THEN UNCHANGED <<log, jour>>
           ELSE /\ log' = Logged(log, {Terminal(inv)} \cup
                                      (IF inv \in jour.started THEN {} ELSE {Start(inv)}))
                /\ jour' = [started |-> jour.started \cup {inv}, ended |-> jour.ended \cup {inv}]
  /\ UNCHANGED <<status, rec, park, queue, pausing, disk, ran, used>>

\* A call that does not end the role: the last one closes the turn on disk, except that
\* the reconciled one is written with its marker still set.
KeepsPending(f) == f.mode = "reconcile"

SettleCall ==
  /\ At("settle")
  /\ IF IsLast(Top)
     THEN Write("ordinary", Put(Onward([Top EXCEPT !.pend = IF KeepsPending(Top) THEN @ ELSE NoPending])), rec, park)
     ELSE stack' = Put(Onward(Top)) /\ UNCHANGED <<rec, park, disk>>
  /\ UNCHANGED <<status, jour, queue, pausing, log, ran, used>>

\* Mutant of Unanswered: the calls a final card left unexecuted stay unanswered.
Unanswered_Never(f) == FALSE

\* closeUnexecutedCalls, one later call of the turn at a time: an interrupted lifecycle and
\* message, unless the history has them already.
Unanswered(f) == ToolMessage(Call(f).id, "unexecuted") \notin Range(f.hist)

\* allocateToolCall: an id the journal knows already gets a generated one.
Allocated(c) == IF <<"tool", c.id>> \in jour.started THEN <<"generated", c.id>> ELSE <<"tool", c.id>>

closeUnexecutedCalls ==
  /\ At("closing") /\ Top.idx <= Len(Batch(Top))
  /\ LET inv == Allocated(Call(Top))
         f == [Top EXCEPT !.idx = @ + 1]
     IN IF Unanswered(Top)
        THEN /\ stack' = Put([Push(f, ToolMessage(Call(Top).id, "unexecuted")) EXCEPT !.calls = @ + 1])
             /\ log' = Logged(log, {Start(inv), Terminal(inv)})
             /\ jour' = [started |-> jour.started \cup {inv}, ended |-> jour.ended \cup {inv}]
        ELSE stack' = Put(f) /\ UNCHANGED <<log, jour>>
  /\ UNCHANGED <<status, rec, park, queue, pausing, disk, ran, used>>

\* The fully answered turn is written; the role ends with the card, unless a resume's
\* note must still be heard after a reconciled finish.
FinishTurn ==
  /\ At("closing") /\ Top.idx > Len(Batch(Top))
  /\ LET f == [Top EXCEPT !.pend = NoPending]
         next == IF f.mode = "reconcile" /\ f.note
                 THEN LoopTop(Noted(f))
                 ELSE EndWith(Noted(f), f.val)
         c == Checkpoint("ordinary", rec, Put(f), park)
     IN /\ stack' = Put(next)
        /\ IF Writable("ordinary", rec, stack)
           THEN disk' = c /\ rec' = [rec EXCEPT !.pre = PreInterlude("ordinary", rec, c)]
           ELSE UNCHANGED <<disk, rec>>
  /\ UNCHANGED <<status, park, jour, queue, pausing, log, ran, used>>

----
(***************************************************************************)
(* The end of a role and of the run.                                        *)
(***************************************************************************)

\* A clarification that pauses the whole run leaves the role's invocation open.
PausesRun(f) == f.val \in {"needs_clarification", "park"} /\ (Len(stack) = 1 \/ park.ask # 0)

RoleTerminal(f) == IF PausesRun(f) \/ <<"role", f.id>> \in jour.ended THEN {} ELSE {<<"role", f.id>>}

\* The card reaches the caller: the parent of a child or the target of a handler.
Delivered(f, card) == [f EXCEPT !.val = card, !.pc = IF f.pc = "wait" THEN "carded" ELSE "handled"]

EndChild ==
  /\ At("end") /\ Len(stack) > 1
  /\ LET f == Top
         rest == Front(stack)
         ends == RoleTerminal(f)
     IN /\ stack' = [rest EXCEPT ![Len(rest)] = Delivered(@, f.val)]
        /\ log' = Logged(log, {Terminal(i) : i \in ends})
        /\ jour' = [jour EXCEPT !.ended = @ \cup ends]
  /\ UNCHANGED <<status, rec, park, queue, pausing, disk, ran, used>>

\* The root's card settles the run; a finish it must be resumable from is written once more.
Outcome(card) == CASE card = "success" -> "finishing"
                   [] card \in {"error", "interrupted"} -> "error"
                   [] card = "park" -> "parked"
                   [] OTHER -> "clarify"

EndRoot ==
  /\ At("end") /\ Len(stack) = 1
  /\ disk' = IF Top.val \notin {"success", "park"} /\ park.ask = 0 /\ completedFinishCard(Top.hist) # None
             THEN Checkpoint("ordinary", rec, stack, park) ELSE disk
  /\ log' = Logged(log, {Terminal(i) : i \in RoleTerminal(Top)})
  /\ status' = Outcome(Top.val) /\ Forget
  /\ UNCHANGED <<ran, used>>

\* deleteCheckpoint, after the terminal meta of a run that is not kept resumable.
DeleteCheckpoint ==
  /\ status = "finishing" /\ status' = "done"
  /\ disk' = NoCheckpoint
  /\ UNCHANGED <<volatile, log, ran, used>>

----
(***************************************************************************)
(* The operator, the crash and the resumes.                                 *)
(***************************************************************************)

\* Requests reach the process only while the engine awaits the model, a tool or an answer:
\* everything else it does, it does synchronously.
Awaiting == At("llm") \/ At("exec") \/ At("asking")

SubmitRequest ==
  /\ Awaiting /\ May("requests")
  /\ \E kind \in Requests : queue' = Append(queue, kind)
  /\ used' = [used EXCEPT !.requests = @ + 1]
  /\ UNCHANGED <<status, stack, rec, park, jour, pausing, log, disk, ran>>

RequestPause ==
  /\ Awaiting /\ May("pauses")
  /\ pausing' = TRUE
  /\ used' = [used EXCEPT !.pauses = @ + 1]
  /\ UNCHANGED <<status, stack, rec, park, jour, queue, log, disk, ran>>

Crash ==
  /\ status \in {"running", "finishing"} /\ May("crashes")
  /\ status' = "crashed" /\ Forget
  /\ used' = [used EXCEPT !.crashes = @ + 1]
  /\ UNCHANGED <<log, disk, ran>>

\* What a boot makes of the checkpoint of a run that was running: unreadable ones are
\* interrupted for good, a recorded pause or question is materialised.
BootFinds ==
  /\ status = "crashed"
  /\ ~isRunCheckpoint(disk) \/ disk.suspended \/ disk.paused \/ disk.ask # 0
  /\ status' = CASE ~isRunCheckpoint(disk) -> "lost"
                 [] disk.suspended -> "suspended"
                 [] disk.paused -> "paused"
                 [] OTHER -> "parked"
  /\ UNCHANGED <<volatile, log, disk, ran, used>>

LeafOf(c) == c.frames[Len(c.frames)]

\* restorePending and the resumed role's entry into its loop.
ResumedLeaf(s, note, explicit) ==
  LET f == [Restored(s) EXCEPT !.turn = s.pend.calls, !.idx = s.pend.idx, !.note = note] IN
  CASE s.pend.card # None -> [f EXCEPT !.pc = "carded", !.val = s.pend.card, !.mode = "child"]
    [] s.pend.card = None /\ s.pend # NoPending -> Goto(f, "recon")
    [] OTHER -> IF ~note /\ ~explicit /\ completedFinishCard(s.hist) # None
                THEN EndWith(f, completedFinishCard(s.hist))
                ELSE Noted(f)

ResumedParent(s) == [Restored(s) EXCEPT !.turn = s.pend.calls, !.idx = s.pend.idx, !.pc = "wait", !.mode = "child"]

\* continueParkedTurn: the calls of the turn that holds the ask.
AskTurn(hist, ask) ==
  hist[CHOOSE i \in DOMAIN hist : hist[i].m = "assistant" /\ ask \in CallIds(hist[i].calls)].calls

\* deliverParkedAnswer: the last message becomes the answer, and the turn goes on after the ask.
AnsweredLeaf(c) ==
  LET s == LeafOf(c)
      turn == AskTurn(s.hist, c.ask)
  IN [Restored(s) EXCEPT !.hist = [s.hist EXCEPT ![Len(s.hist)] = ToolMessage(c.ask, "answer")],
                         !.turn = turn, !.pc = "disp", !.mode = "parked",
                         !.idx = 1 + CHOOSE k \in DOMAIN turn : turn[k].id = c.ask]

\* resumeExecutor and resumeRoleStack from checkpoint c: the markers are cleared on disk, the
\* journal is seeded, stale invocations are closed, the frames re-enter root first and an
\* interrupted interlude's requests are submitted again.
Reenter(c, leaf, tracked, answered) ==
  LET n == Len(c.frames)
      stale == planStaleInvocationTerminals(log, LiveRoles(c), PendingIds(c))
      owed == {Terminal(i) : i \in stale \cup (answered \ TerminatedIn(log))}
  IN /\ status' = "running"
     /\ disk' = [c EXCEPT !.suspended = FALSE, !.paused = FALSE]
     /\ log' = Logged(log, owed)
     /\ jour' = SeedJournal(log', LiveRoles(c))
     /\ stack' = [k \in 1 .. n |-> IF k < n THEN ResumedParent(c.frames[k]) ELSE leaf]
     /\ rec' = [NewRec(c.counter) EXCEPT !.interlude = c.interlude]
     /\ park' = [NewPark EXCEPT !.wrote = c.wrote, !.tracked = tracked]
     /\ queue' = (IF c.interlude.trigger = "inquiry" THEN <<"inquiry">> ELSE << >>) \o c.interlude.queued
     /\ pausing' = FALSE
     /\ UNCHANGED ran

\* Boot reconciliation.
BootResume ==
  /\ status = "crashed" /\ isRunCheckpoint(disk) /\ ~disk.suspended /\ ~disk.paused /\ disk.ask = 0
  /\ Reenter(disk, ResumedLeaf(LeafOf(disk), FALSE, FALSE), FALSE, {})
  /\ UNCHANGED used

\* The operator's resume of an errored, suspended or paused run, with or without a note.
ExplicitResume ==
  /\ status \in {"error", "suspended", "paused"} /\ isRunCheckpoint(disk)
  /\ used.resumes < MaxResumes
  /\ \E note \in BOOLEAN : Reenter(disk, ResumedLeaf(LeafOf(disk), note, TRUE), FALSE, {})
  /\ used' = [used EXCEPT !.resumes = @ + 1]

\* A suspended or paused run whose checkpoint cannot be read is gone.
ResumeRefused ==
  /\ status \in {"suspended", "paused", "parked", "clarify"} /\ ~isRunCheckpoint(disk)
  /\ status' = "lost"
  /\ UNCHANGED <<volatile, log, disk, ran, used>>

\* The queue's answer to a run that waits for the operator: to the parked ask, when the
\* checkpoint has one, or as a note appended to the leaf on disk first.
AnswerResume ==
  /\ status \in {"parked", "clarify"} /\ isRunCheckpoint(disk) /\ used.resumes < MaxResumes
  /\ LET c == [disk EXCEPT !.frames[Len(disk.frames)].hist = Append(@, UserMessage("answer"))]
     IN IF disk.ask # 0 THEN Reenter(disk, AnsweredLeaf(disk), TRUE, {<<"tool", disk.ask>>})
        ELSE Reenter(c, ResumedLeaf(LeafOf(c), FALSE, FALSE), TRUE, {})
  /\ used' = [used EXCEPT !.resumes = @ + 1]

\* reconcilePendingInvocation: a terminal in the log is replayed into the history, anything
\* else is dispatched again under the recorded id.
ReplayedValue(tool) == CASE IsFinish(tool) -> CardOf[tool] [] suspendsChild(tool) -> "refused"
                         [] tool = "ask" -> "answer" [] OTHER -> "ok"

\* Mutant of reconcilePendingInvocation: the log is not consulted.
reconcilePendingInvocation_Redispatches ==
  /\ At("recon")
  /\ stack' = Put([Goto(Top, "start") EXCEPT !.mode = "reconcile"])
  /\ UNCHANGED <<status, rec, park, jour, queue, pausing, log, disk, ran, used>>

reconcilePendingInvocation ==
  /\ At("recon")
  /\ stack' = Put(IF Inv(Top) \in TerminatedIn(log)
                  THEN [Settled(Top, ReplayedValue(Call(Top).tool)) EXCEPT !.mode = "replay"]
                  ELSE [Goto(Top, "start") EXCEPT !.mode = "reconcile"])
  /\ UNCHANGED <<status, rec, park, jour, queue, pausing, log, disk, ran, used>>

----
RoleStep ==
  \/ ParkAtLoopTop \/ drainInterrupts \/ drainAfterLoopCheck \/ resolveSafePoint \/ SafePoint
  \/ TakePause \/ CallModel
  \/ MarkInterlude \/ StartHandler \/ ResolveInterlude \/ ClearInterlude
  \/ DispatchDone \/ DispatchParks \/ DispatchInvalid \/ DispatchCall \/ BeginCall
  \/ ExecuteTool \/ SpawnAgent \/ AskParks \/ AskWaits \/ RecordChildCard \/ recordToolResult
  \/ SettleCall \/ closeUnexecutedCalls \/ FinishTurn
  \/ EndChild \/ EndRoot \/ reconcilePendingInvocation

Environment ==
  \/ StartRun \/ ProviderFails \/ ModelUnavailable \/ ContextRejected \/ ModelReplies
  \/ AskRejected \/ submitAnswer \/ SubmitRequest \/ RequestPause \/ DeleteCheckpoint
  \/ Crash \/ BootFinds \/ BootResume \/ ExplicitResume \/ ResumeRefused \/ AnswerResume

Next == RoleStep \/ Environment
EngineSpec == Init /\ [][Next]_vars

----
(***************************************************************************)
(* Properties.                                                              *)
(***************************************************************************)

\* A request never leaves a tool call unanswered, whatever was replayed, closed, parked,
\* compacted or resumed before it.
AllAnswered ==
  \A k \in DOMAIN stack : stack[k].pc = "llm" =>
    LET h == stack[k].hist IN
    \A i \in DOMAIN h : h[i].m = "assistant" =>
      \A id \in CallIds(h[i].calls) : \E j \in i + 1 .. Len(h) : h[j].m = "tool" /\ h[j].id = id

\* Every invocation of the log has at most one terminal, and all are closed when the run is done.
InvocationsClosed ==
  /\ \A e \in BagToSet(log) : e[1] = "end" => Times(e, log) = 1
  /\ \A e \in BagToSet(log) : e[1] = "start" /\ Times(e, log) > 1 => used.crashes > 0
  /\ TerminatedIn(log) \subseteq StartedIn(log)
  /\ status = "done" => StartedIn(log) = TerminatedIn(log)

\* While a handler runs, the interlude it serves is on disk with the target as the leaf.
InterludeDurable ==
  \A k \in DOMAIN stack : stack[k].pc = "wait handler" /\ ~HasHandler(SubSeq(stack, 1, k)) =>
    /\ disk.interlude.target = stack[k].id /\ disk.interlude.trigger = stack[k].trig
    /\ LeafOf(disk).id = stack[k].id

\* A run parked on a question has not started a role that may write to the workspace: no
\* such delegation is answered or under way in the parked conversation.
ParkedBeforeWrite ==
  disk.ask # 0 => \A k \in DOMAIN disk.frames :
    LET f == disk.frames[k] IN
    /\ f.pend # NoPending => ~isWriteCapableRole(PendingCall(f.pend).tool)
    /\ \A i, j \in DOMAIN f.hist : f.hist[i].m = "assistant" /\ f.hist[j].m = "tool" /\ f.hist[j].val \notin Unexecuted =>
         \A c \in Range(f.hist[i].calls) : c.id = f.hist[j].id => ~isWriteCapableRole(c.tool)

\* A call whose terminal is in the log is never executed again.
NoReExecution ==
  [][\A id \in BagToSet(ran') : Times(id, ran') > Times(id, ran) => <<"tool", id>> \notin TerminatedIn(log)]_vars

=============================================================================
