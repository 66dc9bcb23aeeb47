----------------------------- MODULE EngineProofs -----------------------------
(***************************************************************************)
(* The pre-write rule inside a run, for any batches the model returns, any *)
(* depth of delegation and any number of interludes, crashes and resumes:  *)
(* what a run has on disk while it is parked on a question holds no        *)
(* delegation to a writer that was answered or is under way.               *)
(***************************************************************************)
EXTENDS RoleEngine, SequenceTheorems, TLAPS

(***************************************************************************)
(* The invariant.  tools is the sequence of the tools the models have      *)
(* asked for so far: the call with id i asked for tools[i].  w says that a *)
(* writer may have been started.                                           *)
(***************************************************************************)

Labels == {"top", "drain", "context", "safe", "ready", "llm", "mark", "handler", "wait handler", "handled",
           "unmark", "disp", "start", "exec", "asking", "wait", "carded", "res", "settle", "closing",
           "end", "recon"}
Modes == {"live", "parked", "rest", "reconcile", "replay", "child"}
Pressures == {None, "pending", "sent"}
Triggers == {None, "loop_check", "inquiry", "context_pressure", "context_budget_exceeded"}
Actions == {None, "abort", "redirect", "unfit"}
Notes == {"plan", "notice", "pressure", "managed", "recovery", "redirect", "note", "answer"}
Kinds == Requests \cup {"inquiry"}

\* What a call may answer, a card included.
Values == {None, "ok", "invalid", "answer", "parked"} \cup Cards \cup Unexecuted

Calls(tools) == {c \in [id : DOMAIN tools, tool : STRING] : c.tool = tools[c.id]}

\* Until a writer is started the only answers to a delegation to one are refusals.
Answers(tools, w) ==
  {x \in [m : {"tool"}, id : DOMAIN tools, val : Values] :
     w \/ x.val \in Unexecuted \/ ~isWriteCapableRole(tools[x.id])}

Messages(tools, w) ==
  [m : {"assistant"}, calls : Seq(Calls(tools))] \cup Answers(tools, w) \cup [m : {"user"}, what : Notes]

\* The marker of a call under way; the card of a writer is never on it.
Pendings(tools, w) ==
  {NoPending} \cup
  {p \in [calls : Seq(Calls(tools)), idx : Nat, card : Values] :
     /\ p.idx \in DOMAIN p.calls
     /\ p.card # None /\ ~w => ~isWriteCapableRole(PendingCall(p).tool)}

\* The marker stands on a delegation to a writer.
Delegates(p) == p # NoPending /\ isWriteCapableRole(PendingCall(p).tool)

FrameType(tools, w) ==
  [id : Nat, hand : BOOLEAN, hist : Seq(Messages(tools, w)), pend : Pendings(tools, w),
   press : Pressures, comp : BOOLEAN, tries : Nat, calls : Nat, mark : Nat, abort : BOOLEAN, inject : BOOLEAN,
   pc : Labels, turn : Seq(Calls(tools)), idx : Nat, val : Values, note : BOOLEAN, mode : Modes,
   trig : Triggers, intr : Nat, action : Actions]

\* Where a frame is in its turn: on a call of it, on the call its marker names, and on
\* no delegation to a writer unless one was refused.
OnACall == {"start", "exec", "asking", "wait", "carded", "res", "recon"}
OnMarkedCall == OnACall \ {"res"}
OnHarmlessCall(f) == f.pc \in {"asking", "wait", "carded"} \/ (f.pc = "res" /\ f.val \notin Unexecuted)

Placed(f, w) ==
  /\ f.pc \in OnACall => f.idx \in DOMAIN f.turn
  /\ f.pc \in {"disp", "closing"} => f.idx # 0
  /\ f.pc \in OnMarkedCall => f.pend # NoPending /\ f.pend.calls = f.turn /\ f.pend.idx = f.idx
  /\ OnHarmlessCall(f) /\ ~w => ~isWriteCapableRole(Call(f).tool)

Frames(tools, w) == {f \in FrameType(tools, w) : Placed(f, w)}

\* The frames below the top wait, the handlers' frames are above the others.
Layered(st) == \E n \in 0 .. Len(st) : \A k \in DOMAIN st : (st[k].hand => k > n) /\ (k > n => st[k].hand)

Waits(st) ==
  \A k \in DOMAIN st : k < Len(st) =>
    st[k].pc = "wait" \/ (st[k].pc = "wait handler" /\ st[k + 1].hand)

StackOK(st, tools, w) == st \in Seq(Frames(tools, w)) /\ Layered(st) /\ Waits(st)

SavedType(tools, w) ==
  [id : Nat, hist : Seq(Messages(tools, w)), pend : Pendings(tools, w), press : Pressures, comp : BOOLEAN,
   tries : Nat, calls : Nat, mark : Nat, abort : BOOLEAN, inject : BOOLEAN]

\* What may be on disk: until a writer is started no frame waits for one but the leaf,
\* whose delegation may be about to be dispatched.
SavedOK(frames, tools, w) ==
  /\ frames \in Seq(SavedType(tools, w))
  /\ ~w => \A k \in DOMAIN frames : k < Len(frames) => ~Delegates(frames[k].pend)

Interludes == [target : Nat, trigger : Triggers, queued : Seq(Kinds)]

RecOK(r, tools, w) ==
  /\ r \in [counter : Nat, interlude : Interludes, pre : Seq(SavedType(tools, w)), frozen : BOOLEAN,
            suspended : BOOLEAN, paused : BOOLEAN]
  /\ SavedOK(r.pre, tools, w)

\* A question is open: no writer was started, none is delegated to, no handler runs, and
\* the stack unwinds.
Unwinding == {"res", "settle", "closing", "disp", "top", "end", "carded"}

ParkOK(p, st) ==
  /\ p \in [question : BOOLEAN, ask : Nat, role : Nat, wrote : BOOLEAN, tracked : BOOLEAN]
  /\ p.ask # 0 => p.question
  /\ p.question => /\ ~p.wrote
                   /\ \A k \in DOMAIN st : /\ ~st[k].hand /\ ~Delegates(st[k].pend)
                                           /\ k = Len(st) => st[k].pc \in Unwinding

DiskOK(c, tools) ==
  /\ c \in [counter : Nat, wrote : BOOLEAN, ask : Nat, askRole : Nat, interlude : Interludes,
            suspended : BOOLEAN, paused : BOOLEAN, frames : Seq(SavedType(tools, c.wrote))]
  /\ SavedOK(c.frames, tools, c.wrote)
  /\ c.ask # 0 => ~c.wrote /\ \A k \in DOMAIN c.frames : ~Delegates(c.frames[k].pend)

UsedType == [turns : Nat, pressures : Nat, rejections : Nat, failures : Nat, crashes : Nat, pauses : Nat,
             requests : Nat, resumes : Nat, tools : Nat, interrupts : Nat]

EngineInv(tools) ==
  /\ tools \in Seq(STRING) /\ used \in UsedType /\ used.tools = Len(tools) /\ queue \in Seq(Kinds)
  /\ StackOK(stack, tools, park.wrote)
  /\ RecOK(rec, tools, park.wrote)
  /\ ParkOK(park, stack)
  /\ DiskOK(disk, tools)

-----------------------------------------------------------------------------
(* Histories, markers and frames.                                          *)

\* A call of a turn is one the tools account for.
LEMMA CallOf ==
  ASSUME NEW tools, NEW w, NEW f \in Frames(tools, w), f.idx \in DOMAIN f.turn
  PROVE  /\ Call(f) \in Calls(tools) /\ Call(f).id \in DOMAIN tools
         /\ Call(f).tool \in STRING /\ Call(f).tool = tools[Call(f).id]
  BY DEF Frames, FrameType, Call, Batch, Calls

\* Counting an event of the environment leaves the count of the calls alone.
LEMMA CountedUse ==
  ASSUME used \in UsedType
  PROVE  \A e \in {"failures", "rejections", "pauses", "resumes", "crashes", "requests"} :
           [used EXCEPT ![e] = @ + 1] \in UsedType /\ [used EXCEPT ![e] = @ + 1].tools = used.tools
  BY DEF UsedType

\* A role may hear the operator and the platform at any time, and a call is answered
\* as long as the answer does not vouch for a writer.
LEMMA MessageKinds ==
  ASSUME NEW tools, NEW w
  PROVE  /\ \A what \in Notes : UserMessage(what) \in Messages(tools, w)
         /\ \A calls \in Seq(Calls(tools)) : Turn(calls) \in Messages(tools, w)
         /\ \A id \in DOMAIN tools, val \in Values :
              w \/ val \in Unexecuted \/ ~isWriteCapableRole(tools[id]) =>
                ToolMessage(id, val) \in Messages(tools, w)
  BY DEF Messages, Answers, UserMessage, Turn, ToolMessage

\* No marker is a marker.
LEMMA NoPendingType ==
  ASSUME NEW tools, NEW w
  PROVE  NoPending \in Pendings(tools, w) /\ ~Delegates(NoPending)
  BY DEF Pendings, Delegates

\* The marker of a call that is about to be dispatched.
LEMMA PendingType ==
  ASSUME NEW tools, NEW w, NEW calls \in Seq(Calls(tools)), NEW i \in DOMAIN calls
  PROVE  /\ Pending(calls, i) \in Pendings(tools, w)
         /\ Pending(calls, i) # NoPending
         /\ Pending(calls, i).calls = calls /\ Pending(calls, i).idx = i
  <1> DEFINE p == Pending(calls, i)
  <1>1. i \in Nat /\ i # 0
    OBVIOUS
  <1>2. p.calls = calls /\ p.idx = i /\ p.card = None
    BY DEF Pending
  <1>3. p \in [calls : Seq(Calls(tools)), idx : Nat, card : Values]
    BY <1>1 DEF Pending, None, Values
  <1>4. p # NoPending
    BY <1>1, <1>2 DEF NoPending
  <1> HIDE DEF p
  <1>5. p \in Pendings(tools, w)
    BY <1>2, <1>3 DEF Pendings
  <1> QED
    BY <1>2, <1>4, <1>5 DEF p

\* A started writer only widens what a frame may hold, and more calls do so too.
LEMMA Widen ==
  ASSUME NEW tools \in Seq(STRING), NEW more \in Seq(STRING), NEW w \in BOOLEAN, NEW v \in BOOLEAN, w => v
  PROVE  /\ Calls(tools) \subseteq Calls(tools \o more)
         /\ Messages(tools, w) \subseteq Messages(tools \o more, v)
         /\ Pendings(tools, w) \subseteq Pendings(tools \o more, v)
         /\ SavedType(tools, w) \subseteq SavedType(tools \o more, v)
         /\ Frames(tools, w) \subseteq Frames(tools \o more, v)
  <1> DEFINE all == tools \o more
  <1>1. DOMAIN tools \subseteq DOMAIN all /\ \A i \in DOMAIN tools : all[i] = tools[i]
    OBVIOUS
  <1> HIDE DEF all
  <1>2. Calls(tools) \subseteq Calls(all)
    BY <1>1 DEF Calls
  <1>3. Seq(Calls(tools)) \subseteq Seq(Calls(all))
    BY <1>2
  <1>4. Answers(tools, w) \subseteq Answers(all, v)
    BY <1>1 DEF Answers
  <1>5. Messages(tools, w) \subseteq Messages(all, v)
    BY <1>3, <1>4 DEF Messages
  <1>6. Pendings(tools, w) \subseteq Pendings(all, v)
    BY <1>3 DEF Pendings
  <1>7. Seq(Messages(tools, w)) \subseteq Seq(Messages(all, v))
    BY <1>5
  <1>8. SavedType(tools, w) \subseteq SavedType(all, v)
    BY <1>6, <1>7 DEF SavedType
  <1>9. FrameType(tools, w) \subseteq FrameType(all, v)
    BY <1>3, <1>6, <1>7 DEF FrameType
  <1>10. Frames(tools, w) \subseteq Frames(all, v)
    BY <1>9 DEF Frames, Placed
  <1> QED
    BY <1>2, <1>5, <1>6, <1>8, <1>10 DEF all

-----------------------------------------------------------------------------
(* The stack.                                                              *)

\* The running frame is one of the stack's.
LEMMA TopOK ==
  ASSUME NEW tools, NEW w, StackOK(stack, tools, w), stack # << >>
  PROVE  /\ Top \in Frames(tools, w) /\ Len(stack) \in Nat \ {0} /\ Len(stack) \in DOMAIN stack
         /\ Top = stack[Len(stack)]
  <1>1. stack \in Seq(Frames(tools, w))
    BY DEF StackOK
  <1>2. Len(stack) \in Nat \ {0} /\ DOMAIN stack = 1 .. Len(stack)
    BY <1>1
  <1>3. stack[Len(stack)] \in Frames(tools, w)
    BY <1>1, <1>2
  <1> QED
    BY <1>2, <1>3 DEF Top

\* Replacing the running frame by one of the same kind keeps the stack in order.
LEMMA PutOK ==
  ASSUME NEW tools, NEW w, StackOK(stack, tools, w), stack # << >>,
         NEW g \in Frames(tools, w), g.hand = Top.hand
  PROVE  /\ StackOK(Put(g), tools, w)
         /\ Len(Put(g)) = Len(stack) /\ DOMAIN Put(g) = DOMAIN stack /\ Put(g) # << >>
         /\ \A k \in DOMAIN stack : Put(g)[k] = IF k = Len(stack) THEN g ELSE stack[k]
  <1> DEFINE n == Len(stack)
             st == Put(g)
  <1>1. n \in Nat \ {0} /\ n \in DOMAIN stack /\ Top = stack[n] /\ DOMAIN stack = 1 .. n
    BY TopOK DEF StackOK
  <1>2. /\ st \in Seq(Frames(tools, w)) /\ Len(st) = n /\ DOMAIN st = DOMAIN stack
        /\ \A k \in DOMAIN stack : st[k] = IF k = n THEN g ELSE stack[k]
    BY <1>1 DEF StackOK, Put
  <1> HIDE DEF st, n
  <1>3. \A k \in DOMAIN stack : st[k].hand = stack[k].hand
    BY <1>1, <1>2
  <1>4. Layered(st)
    <2>1. Layered(stack)
      BY DEF StackOK
    <2> QED
      BY <2>1, <1>2, <1>3 DEF Layered, n
  <1>5. ASSUME NEW k \in DOMAIN st, k < Len(st)
        PROVE  st[k].pc = "wait" \/ (st[k].pc = "wait handler" /\ st[k + 1].hand)
    <2>1. k \in DOMAIN stack /\ k + 1 \in DOMAIN stack /\ k < n
      BY <1>1, <1>2, <1>5
    <2>2. st[k] = stack[k] /\ st[k + 1].hand = stack[k + 1].hand
      BY <1>2, <1>3, <2>1
    <2>3. Waits(stack)
      BY DEF StackOK
    <2> QED
      BY <2>1, <2>2, <2>3 DEF Waits, n
  <1>6. st # << >>
    BY <1>1, <1>2
  <1> QED
    BY <1>2, <1>4, <1>5, <1>6 DEF StackOK, Waits, st, n

\* While a question is open the running frame may only move on unwinding.
LEMMA PutAsked ==
  ASSUME NEW tools, NEW w, StackOK(stack, tools, w), stack # << >>, ParkOK(park, stack),
         NEW g \in Frames(tools, w), g.hand = Top.hand,
         park.question => ~Delegates(g.pend) /\ g.pc \in Unwinding
  PROVE  ParkOK(park, Put(g))
  BY PutOK, TopOK DEF ParkOK

\* Where the running frame is when it may move on.
LEMMA Asked ==
  ASSUME NEW tools, NEW w, StackOK(stack, tools, w), stack # << >>, ParkOK(park, stack), park.question
  PROVE  ~Top.hand /\ ~Delegates(Top.pend) /\ Top.pc \in Unwinding /\ ~park.wrote
  BY TopOK DEF ParkOK

-----------------------------------------------------------------------------
(* The checkpoint.                                                         *)

\* What is written of a frame.
LEMMA SerialType ==
  ASSUME NEW tools, NEW w, NEW f \in Frames(tools, w)
  PROVE  serializeFrame(f) \in SavedType(tools, w) /\ serializeFrame(f).pend = f.pend
  BY DEF Frames, FrameType, SavedType, serializeFrame

\* A frame that waits for a child does not wait for a writer, until one is started.
LEMMA WaitsForNoWriter ==
  ASSUME NEW tools, NEW w, NEW f \in Frames(tools, w), f.pc = "wait", ~w
  PROVE  ~Delegates(f.pend)
  BY DEF Frames, Placed, OnACall, OnMarkedCall, OnHarmlessCall, Delegates, PendingCall, Call, Batch

\* The working roles' frames can be saved.
LEMMA WorkFramesSaved ==
  ASSUME NEW tools, NEW w, NEW st, StackOK(st, tools, w)
  PROVE  /\ SavedOK(WorkFrames(st), tools, w)
         /\ \A k \in DOMAIN WorkFrames(st) : k \in DOMAIN st /\ WorkFrames(st)[k].pend = st[k].pend
  <1> DEFINE fs == WorkFrames(st)
  <1>1. PICK m \in 0 .. Len(st) : \A k \in DOMAIN st : (st[k].hand => k > m) /\ (k > m => st[k].hand)
    BY DEF StackOK, Layered
  <1>2. st \in Seq(Frames(tools, w)) /\ DOMAIN st = 1 .. Len(st) /\ Len(st) \in Nat
    BY DEF StackOK
  <1>3. {j \in DOMAIN st : ~st[j].hand} = 1 .. m
    BY <1>1, <1>2
  <1>4. fs = [k \in 1 .. m |-> serializeFrame(st[k])]
    BY <1>3 DEF WorkFrames
  <1>5. \A k \in 1 .. m : k \in DOMAIN st /\ st[k] \in Frames(tools, w)
    BY <1>2
  <1>6. \A k \in 1 .. m : fs[k] \in SavedType(tools, w) /\ fs[k].pend = st[k].pend
    BY <1>4, <1>5, SerialType
  <1>7. fs \in Seq(SavedType(tools, w)) /\ Len(fs) = m /\ DOMAIN fs = 1 .. m
    <2>1. m \in Nat
      OBVIOUS
    <2>2. fs \in [1 .. m -> SavedType(tools, w)]
      BY <1>4, <1>6
    <2> HIDE DEF fs
    <2> QED
      BY <2>1, <2>2
  <1>8. ASSUME ~w, NEW k \in DOMAIN fs, k < Len(fs)
        PROVE  ~Delegates(fs[k].pend)
    <2>1. k \in DOMAIN st /\ k + 1 \in DOMAIN st /\ k < Len(st) /\ ~st[k + 1].hand
      BY <1>1, <1>2, <1>7, <1>8
    <2>2. Waits(st)
      BY DEF StackOK
    <2>3. st[k].pc = "wait"
      <3>1. st[k].pc = "wait" \/ (st[k].pc = "wait handler" /\ st[k + 1].hand)
        BY <2>1, <2>2 DEF Waits
      <3> QED
        BY <2>1, <3>1
    <2>4. st[k] \in Frames(tools, w)
      BY <2>1, <1>2
    <2> QED
      BY <2>3, <2>4, <1>6, <1>7, <1>8, WaitsForNoWriter
  <1> QED
    BY <1>5, <1>6, <1>7, <1>8 DEF SavedOK

\* What is written is fit to be on disk: with an open question only by an ordinary write.
LEMMA CheckpointSaved ==
  ASSUME NEW tools, NEW how, NEW r, NEW st, NEW p,
         StackOK(st, tools, p.wrote), RecOK(r, tools, p.wrote), ParkOK(p, st),
         p.ask # 0 => how = "ordinary"
  PROVE  DiskOK(Checkpoint(how, r, st, p), tools)
  <1> DEFINE c == Checkpoint(how, r, st, p)
             fs == WorkFrames(st)
  <1>1. /\ SavedOK(fs, tools, p.wrote)
        /\ \A k \in DOMAIN fs : k \in DOMAIN st /\ fs[k].pend = st[k].pend
    BY WorkFramesSaved
  <1> HIDE DEF fs
  <1>2. c.frames = fs \/ (c.frames = r.pre /\ how # "ordinary")
    BY DEF Checkpoint, fs
  <1>3. SavedOK(c.frames, tools, p.wrote)
    BY <1>1, <1>2 DEF RecOK
  <1>4. c.wrote = p.wrote /\ c.ask = p.ask
    BY DEF Checkpoint
  <1>5. c = [counter |-> r.counter, wrote |-> p.wrote, ask |-> p.ask, askRole |-> p.role,
             interlude |-> r.interlude, suspended |-> r.suspended, paused |-> r.paused, frames |-> c.frames]
    BY DEF Checkpoint
  <1> HIDE DEF c
  <1>6. c \in [counter : Nat, wrote : BOOLEAN, ask : Nat, askRole : Nat, interlude : Interludes,
               suspended : BOOLEAN, paused : BOOLEAN, frames : Seq(SavedType(tools, p.wrote))]
    BY <1>3, <1>5 DEF SavedOK, RecOK, ParkOK
  <1>7. c.ask # 0 => ~c.wrote /\ \A k \in DOMAIN c.frames : ~Delegates(c.frames[k].pend)
    BY <1>1, <1>2, <1>4 DEF ParkOK
  <1> QED
    BY <1>3, <1>4, <1>6, <1>7 DEF DiskOK, c

-----------------------------------------------------------------------------
(* What a step does to a frame.                                            *)

\* The rest of a frame, which a move to another point of the loop leaves alone.
Same(f, g) == g.id = f.id /\ g.hand = f.hand /\ g.pend = f.pend /\ g.turn = f.turn /\ g.idx = f.idx

\* Outside a turn's calls a frame may be anywhere.
LEMMA Loose ==
  ASSUME NEW tools, NEW w, NEW f \in FrameType(tools, w), f.pc \notin OnACall \cup {"disp", "closing"}
  PROVE  f \in Frames(tools, w)
  BY DEF Frames, Placed, OnACall, OnMarkedCall, OnHarmlessCall

LEMMA GotoType ==
  ASSUME NEW tools, NEW w, NEW f \in FrameType(tools, w), NEW l \in Labels
  PROVE  /\ Goto(f, l) \in FrameType(tools, w) /\ Goto(f, l).pc = l
         /\ Same(f, Goto(f, l)) /\ Goto(f, l).val = f.val /\ Goto(f, l).hist = f.hist
  BY DEF FrameType, Goto, Same

LEMMA PushType ==
  ASSUME NEW tools, NEW w, NEW f \in FrameType(tools, w), NEW x \in Messages(tools, w)
  PROVE  /\ Push(f, x) \in FrameType(tools, w) /\ Push(f, x).pc = f.pc
         /\ Same(f, Push(f, x)) /\ Push(f, x).val = f.val
  <1> DEFINE h == Append(f.hist, x)
             g == [f EXCEPT !.hist = h]
  <1>1. h \in Seq(Messages(tools, w))
    BY DEF FrameType
  <1>2. Push(f, x) = g
    BY DEF Push
  <1> HIDE DEF h
  <1>3. g \in FrameType(tools, w) /\ g.pc = f.pc /\ Same(f, g) /\ g.val = f.val
    BY <1>1 DEF FrameType, Same
  <1> QED
    BY <1>2, <1>3

LEMMA EndWithType ==
  ASSUME NEW tools, NEW w, NEW f \in FrameType(tools, w), NEW card \in Values
  PROVE  /\ EndWith(f, card) \in Frames(tools, w) /\ EndWith(f, card).pc = "end"
         /\ EndWith(f, card) \in FrameType(tools, w) /\ Same(f, EndWith(f, card))
  <1>1. EndWith(f, card) \in FrameType(tools, w) /\ EndWith(f, card).pc = "end" /\ Same(f, EndWith(f, card))
    BY DEF FrameType, EndWith, Same, Labels
  <1> QED
    BY <1>1, Loose DEF OnACall

LEMMA SettledType ==
  ASSUME NEW tools, NEW w, NEW f \in FrameType(tools, w), NEW val \in Values
  PROVE  /\ Settled(f, val) \in FrameType(tools, w) /\ Settled(f, val).pc = "res"
         /\ Settled(f, val).val = val /\ Same(f, Settled(f, val))
  BY DEF FrameType, Settled, Same, Labels

LEMMA NotedType ==
  ASSUME NEW tools, NEW w, NEW f \in FrameType(tools, w)
  PROVE  /\ Noted(f) \in FrameType(tools, w) /\ Noted(f).pc = f.pc /\ Same(f, Noted(f)) /\ Noted(f).val = f.val
  <1>1. UserMessage("note") \in Messages(tools, w)
    BY MessageKinds DEF Notes
  <1> DEFINE g == Push(f, UserMessage("note"))
  <1>2. g \in FrameType(tools, w) /\ g.pc = f.pc /\ Same(f, g) /\ g.val = f.val
    BY <1>1, PushType
  <1> HIDE DEF g
  <1>3. /\ [g EXCEPT !.note = FALSE] \in FrameType(tools, w) /\ [g EXCEPT !.note = FALSE].pc = f.pc
        /\ Same(f, [g EXCEPT !.note = FALSE]) /\ [g EXCEPT !.note = FALSE].val = f.val
    BY <1>2 DEF FrameType, Same
  <1>4. Same(f, f)
    BY DEF Same
  <1> QED
    BY <1>3, <1>4 DEF Noted, g

LEMMA InjectedType ==
  ASSUME NEW tools, NEW w, NEW f \in FrameType(tools, w)
  PROVE  /\ Injected(f) \in FrameType(tools, w) /\ Injected(f).pc = f.pc /\ Same(f, Injected(f))
  <1>1. UserMessage("plan") \in Messages(tools, w)
    BY MessageKinds DEF Notes
  <1> DEFINE g == Push(f, UserMessage("plan"))
  <1>2. g \in FrameType(tools, w) /\ g.pc = f.pc /\ Same(f, g)
    BY <1>1, PushType
  <1> HIDE DEF g
  <1>3. /\ [g EXCEPT !.inject = FALSE] \in FrameType(tools, w) /\ [g EXCEPT !.inject = FALSE].pc = f.pc
        /\ Same(f, [g EXCEPT !.inject = FALSE])
    BY <1>2 DEF FrameType, Same
  <1>4. Same(f, f)
    BY DEF Same
  <1> QED
    BY <1>3, <1>4 DEF Injected, g

\* Back at the loop top a frame has left its turn.
LEMMA LoopTopType ==
  ASSUME NEW tools, NEW w, NEW f \in FrameType(tools, w)
  PROVE  /\ LoopTop(f) \in Frames(tools, w) /\ LoopTop(f).pc = "top" /\ LoopTop(f).hand = f.hand
         /\ LoopTop(f).pend = f.pend
  <1>1. << >> \in Seq(Calls(tools))
    OBVIOUS
  <1>2. /\ LoopTop(f) \in FrameType(tools, w) /\ LoopTop(f).pc = "top" /\ LoopTop(f).hand = f.hand
        /\ LoopTop(f).pend = f.pend
    BY <1>1 DEF FrameType, LoopTop, Labels, Modes, Values, None
  <1> QED
    BY <1>2, Loose DEF OnACall

\* The next call of the turn is due.
LEMMA OnwardType ==
  ASSUME NEW tools, NEW w, NEW f \in FrameType(tools, w)
  PROVE  /\ Onward(f) \in Frames(tools, w) /\ Onward(f).pc = "disp" /\ Onward(f).hand = f.hand
         /\ Onward(f).pend = f.pend /\ Onward(f) \in FrameType(tools, w)
  <1>1. f.idx \in Nat /\ f.mode \in Modes
    BY DEF FrameType
  <1>2. f.idx + 1 \in Nat /\ f.idx + 1 # 0 /\ (IF f.mode = "reconcile" THEN "rest" ELSE f.mode) \in Modes
    BY <1>1 DEF Modes
  <1> DEFINE i == f.idx + 1
             m == IF f.mode = "reconcile" THEN "rest" ELSE f.mode
             g == [f EXCEPT !.idx = i, !.pc = "disp", !.mode = m]
  <1>3. Onward(f) = g
    BY DEF Onward
  <1>4. i \in Nat /\ m \in Modes /\ "disp" \in Labels
    BY <1>2 DEF Labels
  <1> HIDE DEF i, m
  <1>5. /\ g \in FrameType(tools, w) /\ g.pc = "disp" /\ g.hand = f.hand /\ g.pend = f.pend /\ g.idx = i
    BY <1>4 DEF FrameType
  <1>6. g \in Frames(tools, w)
    BY <1>2, <1>5 DEF Frames, Placed, OnACall, OnMarkedCall, OnHarmlessCall, i
  <1> QED
    BY <1>3, <1>5, <1>6

-----------------------------------------------------------------------------
(* The shapes of a step.                                                   *)

\* The running frame moves on and nothing is written.
LEMMA MoveOK ==
  ASSUME NEW tools, EngineInv(tools), stack # << >>,
         NEW g \in Frames(tools, park.wrote), g.hand = Top.hand,
         park.question => ~Delegates(g.pend) /\ g.pc \in Unwinding,
         stack' = Put(g), UNCHANGED <<rec, park, disk>>,
         queue' \in Seq(Kinds), used' \in UsedType, used'.tools = used.tools
  PROVE  EngineInv(tools)'
  <1>1. StackOK(stack, tools, park.wrote) /\ ParkOK(park, stack)
    BY DEF EngineInv
  <1>2. StackOK(Put(g), tools, park.wrote)
    BY <1>1, PutOK
  <1>3. ParkOK(park, Put(g))
    BY <1>1, PutAsked
  <1> QED
    BY <1>2, <1>3 DEF EngineInv

\* The record of an interlude's frames is what was just written.
LEMMA PreOK ==
  ASSUME NEW tools, NEW w, NEW r, RecOK(r, tools, w), NEW c, DiskOK(c, tools), c.wrote = w
  PROVE  RecOK([r EXCEPT !.pre = PreInterlude("ordinary", r, c)], tools, w)
  <1> DEFINE pre == PreInterlude("ordinary", r, c)
  <1>1. SavedOK(c.frames, tools, w)
    BY DEF DiskOK
  <1>2. pre = << >> \/ pre = c.frames
    BY DEF PreInterlude
  <1>3. SavedOK(<< >>, tools, w)
    BY DEF SavedOK
  <1>4. SavedOK(pre, tools, w)
    BY <1>1, <1>2, <1>3
  <1> HIDE DEF pre
  <1>5. [r EXCEPT !.pre = pre].pre = pre
    BY DEF RecOK
  <1>6. pre \in Seq(SavedType(tools, w))
    BY <1>4 DEF SavedOK
  <1>7. [r EXCEPT !.pre = pre] \in [counter : Nat, interlude : Interludes, pre : Seq(SavedType(tools, w)),
                                    frozen : BOOLEAN, suspended : BOOLEAN, paused : BOOLEAN]
    BY <1>6 DEF RecOK
  <1> QED
    BY <1>4, <1>5, <1>7 DEF RecOK, pre

\* An ordinary write of a sound stack.
LEMMA WriteOK ==
  ASSUME NEW tools, EngineInv(tools), NEW st, NEW r,
         StackOK(st, tools, park.wrote), RecOK(r, tools, park.wrote), ParkOK(park, st),
         Write("ordinary", st, r, park), UNCHANGED <<queue, used>>
  PROVE  EngineInv(tools)'
  <1> DEFINE c == Checkpoint("ordinary", r, st, park)
  <1>1. DiskOK(c, tools)
    BY CheckpointSaved
  <1>2. c.wrote = park.wrote
    BY DEF Checkpoint
  <1> HIDE DEF c
  <1>3. RecOK([r EXCEPT !.pre = PreInterlude("ordinary", r, c)], tools, park.wrote)
    BY <1>1, <1>2, PreOK
  <1>4. stack' = st /\ park' = park
    BY DEF Write
  <1>5. \/ disk' = c /\ rec' = [r EXCEPT !.pre = PreInterlude("ordinary", r, c)]
        \/ disk' = disk /\ rec' = r
    BY DEF Write, c
  <1>6. DiskOK(disk, tools)
    BY DEF EngineInv
  <1>7. DiskOK(disk', tools) /\ RecOK(rec', tools, park.wrote)
    BY <1>1, <1>3, <1>5, <1>6
  <1> QED
    BY <1>4, <1>7 DEF EngineInv

\* The running frame moves on with an ordinary write.
LEMMA MoveWriteOK ==
  ASSUME NEW tools, EngineInv(tools), stack # << >>,
         NEW g \in Frames(tools, park.wrote), g.hand = Top.hand,
         park.question => ~Delegates(g.pend) /\ g.pc \in Unwinding,
         NEW r, RecOK(r, tools, park.wrote),
         Write("ordinary", Put(g), r, park), UNCHANGED <<queue, used>>
  PROVE  EngineInv(tools)'
  <1>1. StackOK(stack, tools, park.wrote) /\ ParkOK(park, stack)
    BY DEF EngineInv
  <1>2. StackOK(Put(g), tools, park.wrote)
    BY <1>1, PutOK
  <1>3. ParkOK(park, Put(g))
    BY <1>1, PutAsked
  <1> QED
    BY <1>2, <1>3, WriteOK

\* The run leaves the process.
LEMMA ForgetOK ==
  ASSUME NEW tools, EngineInv(tools), Forget, DiskOK(disk', tools), used' \in UsedType, used'.tools = used.tools
  PROVE  EngineInv(tools)'
  <1>1. StackOK(<< >>, tools, FALSE)
    BY DEF StackOK, Layered, Waits
  <1>2. SavedOK(<< >>, tools, FALSE)
    BY DEF SavedOK
  <1>3. NoInterlude \in Interludes
    BY DEF NoInterlude, Interludes, Triggers
  <1>4. RecOK(NewRec(0), tools, FALSE)
    BY <1>2, <1>3 DEF RecOK, NewRec, SavedOK
  <1>5. ParkOK(NewPark, << >>) /\ NewPark.wrote = FALSE
    BY DEF ParkOK, NewPark
  <1>6. stack' = << >> /\ rec' = NewRec(0) /\ park' = NewPark /\ queue' = << >>
    BY DEF Forget
  <1>7. queue' \in Seq(Kinds) /\ tools \in Seq(STRING)
    BY <1>6 DEF EngineInv
  <1>8. StackOK(stack', tools, park'.wrote) /\ RecOK(rec', tools, park'.wrote) /\ ParkOK(park', stack')
    BY <1>1, <1>4, <1>5, <1>6
  <1> QED
    BY <1>7, <1>8 DEF EngineInv

\* A run leaves with a last write, and with no open question.
LEMMA LeaveOK ==
  ASSUME NEW tools, EngineInv(tools), NEW how, NEW r, RecOK(r, tools, park.wrote), park.ask = 0,
         disk' = Checkpoint(how, r, stack, park), Forget, used' \in UsedType, used'.tools = used.tools
  PROVE  EngineInv(tools)'
  <1>1. DiskOK(Checkpoint(how, r, stack, park), tools)
    BY CheckpointSaved DEF EngineInv
  <1> QED
    BY <1>1, ForgetOK

\* What is known of the running frame.
LEMMA Running ==
  ASSUME NEW tools, EngineInv(tools), NEW l, At(l)
  PROVE  /\ stack # << >> /\ Top \in Frames(tools, park.wrote) /\ Top \in FrameType(tools, park.wrote)
         /\ Top.pc = l /\ Placed(Top, park.wrote) /\ Same(Top, Top)
         /\ park.question => ~Top.hand /\ ~Delegates(Top.pend) /\ l \in Unwinding /\ ~park.wrote
         /\ StackOK(stack, tools, park.wrote) /\ ParkOK(park, stack)
         /\ RecOK(rec, tools, park.wrote) /\ DiskOK(disk, tools)
         /\ used \in UsedType /\ used.tools = Len(tools) /\ queue \in Seq(Kinds)
  <1>1. /\ StackOK(stack, tools, park.wrote) /\ ParkOK(park, stack)
        /\ RecOK(rec, tools, park.wrote) /\ DiskOK(disk, tools)
        /\ used \in UsedType /\ used.tools = Len(tools) /\ queue \in Seq(Kinds)
    BY DEF EngineInv
  <1>2. stack # << >> /\ Top.pc = l
    BY DEF At
  <1>3. Top \in Frames(tools, park.wrote)
    BY <1>1, <1>2, TopOK
  <1>4. Top \in FrameType(tools, park.wrote) /\ Placed(Top, park.wrote)
    BY <1>3 DEF Frames
  <1>5. park.question => ~Top.hand /\ ~Delegates(Top.pend) /\ Top.pc \in Unwinding /\ ~park.wrote
    BY <1>1, <1>2, Asked
  <1> QED
    BY <1>1, <1>2, <1>3, <1>4, <1>5 DEF Same

\* A frame that stays where it is in its turn may hear a message or be marked.
LEMMA Beside ==
  ASSUME NEW tools, NEW w, NEW f \in Frames(tools, w), NEW g \in FrameType(tools, w),
         g.pc = f.pc, Same(f, g), g.val = f.val
  PROVE  g \in Frames(tools, w)
  <1>1. Placed(f, w)
    BY DEF Frames
  <1>2. Call(g) = Call(f)
    BY DEF Same, Call, Batch
  <1>3. OnHarmlessCall(g) => OnHarmlessCall(f)
    BY DEF OnHarmlessCall
  <1>4. Placed(g, w)
    BY <1>1, <1>2, <1>3 DEF Placed, Same
  <1> QED
    BY <1>4 DEF Frames

\* A change of every frame that moves none but the running one keeps the stack in order.
LEMMA EachFrame ==
  ASSUME NEW tools, NEW w, NEW st, StackOK(st, tools, w), NEW nt \in Seq(Frames(tools, w)), Len(nt) = Len(st),
         \A k \in DOMAIN st : nt[k].hand = st[k].hand /\ (k < Len(st) => nt[k].pc = st[k].pc)
  PROVE  StackOK(nt, tools, w)
  <1>1. st \in Seq(Frames(tools, w)) /\ Layered(st) /\ Waits(st)
    BY DEF StackOK
  <1>2. DOMAIN st = 1 .. Len(st) /\ DOMAIN nt = 1 .. Len(st) /\ Len(st) \in Nat
    BY <1>1
  <1>3. Layered(nt)
    BY <1>1, <1>2 DEF Layered
  <1>4. ASSUME NEW k \in DOMAIN nt, k < Len(nt)
        PROVE  nt[k].pc = "wait" \/ (nt[k].pc = "wait handler" /\ nt[k + 1].hand)
    <2>1. k \in DOMAIN st /\ k + 1 \in DOMAIN st /\ k < Len(st)
      BY <1>2, <1>4
    <2>2. st[k].pc = "wait" \/ (st[k].pc = "wait handler" /\ st[k + 1].hand)
      BY <2>1, <1>1 DEF Waits
    <2>3. nt[k].pc = st[k].pc /\ nt[k + 1].hand = st[k + 1].hand
      BY <2>1
    <2> QED
      BY <2>2, <2>3
  <1>5. Waits(nt)
    BY <1>4 DEF Waits
  <1> QED
    BY <1>3, <1>5 DEF StackOK

\* Without an open question the park tracker asks nothing of the stack.
LEMMA NotAsked ==
  ASSUME NEW st, NEW nt, ParkOK(park, st), ~park.question
  PROVE  ParkOK(park, nt)
  BY DEF ParkOK

-----------------------------------------------------------------------------
(* The loop top.                                                           *)

\* The park card: the parked role's conversation is written, and the recorder freezes.
LEMMA UnwindOK ==
  ASSUME NEW tools, EngineInv(tools), stack # << >>,
         NEW f \in FrameType(tools, park.wrote), f.hand = Top.hand, ~Delegates(f.pend),
         Unwind(f), UNCHANGED <<park, queue, used>>
  PROVE  EngineInv(tools)'
  <1> DEFINE g == EndWith(f, "park")
             st == Put(g)
             r == [rec EXCEPT !.frozen = TRUE]
             c == Checkpoint("ordinary", rec, st, park)
  <1>1. g \in Frames(tools, park.wrote) /\ g.pc = "end" /\ g.hand = Top.hand /\ g.pend = f.pend
    BY EndWithType DEF Values, Cards, Same
  <1>2. /\ StackOK(stack, tools, park.wrote) /\ ParkOK(park, stack)
        /\ RecOK(rec, tools, park.wrote) /\ DiskOK(disk, tools)
    BY DEF EngineInv
  <1>3. park.question => ~Delegates(g.pend) /\ g.pc \in Unwinding
    BY <1>1 DEF Unwinding
  <1>4. stack' = st
    BY DEF Unwind
  <1>5. \/ disk' = c /\ rec' = [rec EXCEPT !.frozen = TRUE, !.pre = PreInterlude("ordinary", rec, c)]
        \/ disk' = disk /\ rec' = rec
    BY <1>4 DEF Unwind
  <1> HIDE DEF g
  <1>6. StackOK(st, tools, park.wrote) /\ ParkOK(park, st)
    BY <1>1, <1>2, <1>3, PutOK, PutAsked
  <1> HIDE DEF st
  <1>7. DiskOK(c, tools) /\ c.wrote = park.wrote
    BY <1>2, <1>6, CheckpointSaved DEF Checkpoint
  <1> HIDE DEF c
  <1>8. RecOK(r, tools, park.wrote) /\ r.interlude = rec.interlude
    BY <1>2 DEF RecOK
  <1>9. /\ [rec EXCEPT !.frozen = TRUE, !.pre = PreInterlude("ordinary", rec, c)]
             = [r EXCEPT !.pre = PreInterlude("ordinary", r, c)]
    BY <1>8 DEF PreInterlude
  <1> HIDE DEF r
  <1>10. RecOK([r EXCEPT !.pre = PreInterlude("ordinary", r, c)], tools, park.wrote)
    BY <1>7, <1>8, PreOK
  <1>11. RecOK(rec', tools, park.wrote) /\ DiskOK(disk', tools)
    BY <1>2, <1>5, <1>7, <1>9, <1>10
  <1> QED
    BY <1>4, <1>6, <1>11 DEF EngineInv

LEMMA ParkAtLoopTopOK ==
  ASSUME NEW tools, EngineInv(tools), ParkAtLoopTop
  PROVE  EngineInv(tools)'
  <1>1. At("top") /\ park.question /\ Unwind(Top) /\ UNCHANGED <<park, queue, used>>
    BY DEF ParkAtLoopTop
  <1> QED
    BY <1>1, Running, UnwindOK

\* An interrupt begins.
LEMMA StartInterludeOK ==
  ASSUME NEW tools, EngineInv(tools), stack # << >>, ~park.question,
         NEW f \in FrameType(tools, park.wrote), f.hand = Top.hand, NEW trigger \in Triggers,
         StartInterlude(f, trigger), UNCHANGED <<rec, park, disk>>, queue' \in Seq(Kinds)
  PROVE  EngineInv(tools)'
  <1> DEFINE id == used.interrupts + 1
             g == [f EXCEPT !.pc = "mark", !.trig = trigger, !.intr = id]
  <1>1. used \in UsedType /\ used.tools = Len(tools)
    BY DEF EngineInv
  <1>2. id \in Nat
    BY <1>1 DEF UsedType
  <1>3. stack' = Put(g) /\ used' = [used EXCEPT !.interrupts = id]
    BY DEF StartInterlude
  <1> HIDE DEF id
  <1>4. used' \in UsedType /\ used'.tools = used.tools
    BY <1>1, <1>2, <1>3 DEF UsedType
  <1>5. g \in FrameType(tools, park.wrote) /\ g.pc = "mark" /\ g.hand = Top.hand
    BY <1>2 DEF FrameType, Labels
  <1> HIDE DEF g
  <1>6. g \in Frames(tools, park.wrote)
    BY <1>5, Loose DEF OnACall
  <1> QED
    BY <1>3, <1>4, <1>5, <1>6, MoveOK

\* A routed request touches every frame of the chain and moves none.
LEMMA RoutedOK ==
  ASSUME NEW tools, NEW w, StackOK(stack, tools, w), stack # << >>,
         NEW f \in Frames(tools, w), f.hand = Top.hand, NEW kind
  PROVE  /\ Routed(kind, f) \in Seq(Frames(tools, w)) /\ Len(Routed(kind, f)) = Len(stack)
         /\ \A k \in DOMAIN stack : /\ Routed(kind, f)[k].hand = Put(f)[k].hand
                                    /\ Routed(kind, f)[k].pc = Put(f)[k].pc
  <1> DEFINE st == Put(f)
             n == Len(stack)
             notice(g) == Push(g, UserMessage("notice"))
             plan(g) == Push(g, UserMessage("plan"))
             inject(g) == [g EXCEPT !.inject = TRUE]
             abort(g) == [g EXCEPT !.abort = TRUE]
  <1>1. /\ st \in Seq(Frames(tools, w)) /\ Len(st) = n /\ DOMAIN st = 1 .. n /\ DOMAIN stack = 1 .. n
        /\ n \in Nat \ {0} /\ st[n] = f
    BY PutOK, TopOK DEF StackOK
  <1>2. \A k \in 1 .. n : st[k] \in Frames(tools, w)
    BY <1>1
  <1>3. ASSUME NEW g \in Frames(tools, w)
        PROVE  /\ notice(g) \in Frames(tools, w) /\ notice(g).hand = g.hand /\ notice(g).pc = g.pc
               /\ plan(g) \in Frames(tools, w) /\ plan(g).hand = g.hand /\ plan(g).pc = g.pc
               /\ inject(g) \in Frames(tools, w) /\ inject(g).hand = g.hand /\ inject(g).pc = g.pc
               /\ abort(g) \in Frames(tools, w) /\ abort(g).hand = g.hand /\ abort(g).pc = g.pc
    <2>1. g \in FrameType(tools, w)
      BY DEF Frames
    <2>2. UserMessage("notice") \in Messages(tools, w) /\ UserMessage("plan") \in Messages(tools, w)
      BY MessageKinds DEF Notes
    <2>3. /\ notice(g) \in FrameType(tools, w) /\ Same(g, notice(g)) /\ notice(g).pc = g.pc
          /\ notice(g).val = g.val
          /\ plan(g) \in FrameType(tools, w) /\ Same(g, plan(g)) /\ plan(g).pc = g.pc /\ plan(g).val = g.val
      BY <2>1, <2>2, PushType
    <2>4. /\ inject(g) \in FrameType(tools, w) /\ inject(g).pc = g.pc
          /\ Same(g, inject(g)) /\ inject(g).val = g.val
      BY <2>1 DEF FrameType, Same
    <2>5. /\ abort(g) \in FrameType(tools, w) /\ abort(g).pc = g.pc
          /\ Same(g, abort(g)) /\ abort(g).val = g.val
      BY <2>1 DEF FrameType, Same
    <2> HIDE DEF notice, plan, inject, abort
    <2> QED
      BY <2>3, <2>4, <2>5, Beside DEF Same
  <1>4. \/ Routed(kind, f) = [st EXCEPT ![1] = notice(st[1])]
        \/ Routed(kind, f) = Put(plan(f)) /\ n = 1
        \/ Routed(kind, f) = [k \in DOMAIN st |-> IF k = 1 THEN inject(st[k]) ELSE abort(st[k])]
    BY <1>1 DEF Routed
  <1>5. Put(plan(f)) = [st EXCEPT ![n] = plan(st[n])]
    BY <1>1 DEF Put
  <1> HIDE DEF st, n, notice, plan, inject, abort
  <1>6. CASE Routed(kind, f) = [st EXCEPT ![1] = notice(st[1])]
    <2> DEFINE R == [st EXCEPT ![1] = notice(st[1])]
    <2>1. \A k \in 1 .. n : R[k] \in Frames(tools, w) /\ R[k].hand = st[k].hand /\ R[k].pc = st[k].pc
      BY <1>1, <1>2, <1>3
    <2>2. R \in Seq(Frames(tools, w)) /\ Len(R) = n
      BY <1>1, <2>1
    <2> HIDE DEF R
    <2> QED
      BY <1>1, <1>6, <2>1, <2>2 DEF n, st, R
  <1>7. CASE Routed(kind, f) = Put(plan(f)) /\ n = 1
    <2> DEFINE R == [st EXCEPT ![n] = plan(st[n])]
    <2>1. \A k \in 1 .. n : R[k] \in Frames(tools, w) /\ R[k].hand = st[k].hand /\ R[k].pc = st[k].pc
      BY <1>1, <1>2, <1>3
    <2>2. R \in Seq(Frames(tools, w)) /\ Len(R) = n
      BY <1>1, <2>1
    <2>3. Routed(kind, f) = R
      BY <1>5, <1>7
    <2> HIDE DEF R
    <2> QED
      BY <1>1, <2>1, <2>2, <2>3 DEF n, st
  <1>8. CASE Routed(kind, f) = [k \in DOMAIN st |-> IF k = 1 THEN inject(st[k]) ELSE abort(st[k])]
    <2> DEFINE R == [k \in DOMAIN st |-> IF k = 1 THEN inject(st[k]) ELSE abort(st[k])]
    <2>1. \A k \in 1 .. n : R[k] \in Frames(tools, w) /\ R[k].hand = st[k].hand /\ R[k].pc = st[k].pc
      BY <1>1, <1>2, <1>3
    <2>2. R \in [1 .. n -> Frames(tools, w)]
      BY <1>1, <2>1
    <2>3. Routed(kind, f) = R
      BY <1>8
    <2> HIDE DEF R
    <2>4. R \in Seq(Frames(tools, w)) /\ Len(R) = n
      BY <1>1, <2>2
    <2> QED
      BY <1>1, <2>1, <2>3, <2>4 DEF n, st
  <1> QED
    BY <1>4, <1>6, <1>7, <1>8

\* No question is open while the running frame is elsewhere.
LEMMA NoQuestion ==
  ASSUME NEW tools, EngineInv(tools), NEW l, At(l), l \notin Unwinding
  PROVE  ~park.question /\ park.ask = 0
  BY Running DEF ParkOK

\* A frame that goes on to a point outside a turn's calls.
LEMMA GotoLoose ==
  ASSUME NEW tools, NEW w, NEW f \in FrameType(tools, w), NEW l \in Labels \ (OnACall \cup {"disp", "closing"})
  PROVE  /\ Goto(f, l) \in Frames(tools, w) /\ Goto(f, l).pc = l /\ Goto(f, l).hand = f.hand
         /\ Goto(f, l).pend = f.pend
  BY GotoType, Loose DEF Same

\* drainInterrupts takes the next request.
LEMMA DrainRequestOK ==
  ASSUME NEW tools, EngineInv(tools), stack # << >>, ~park.question,
         NEW f \in FrameType(tools, park.wrote), f.hand = Top.hand, f.pc \in {"top", "drain"},
         DrainRequest(f), UNCHANGED <<rec, park, disk>>
  PROVE  EngineInv(tools)'
  <1>1. used \in UsedType /\ queue \in Seq(Kinds) /\ StackOK(stack, tools, park.wrote) /\ ParkOK(park, stack)
    BY DEF EngineInv
  <1>2. f \in Frames(tools, park.wrote)
    BY Loose DEF OnACall
  <1>3. CASE f.hand \/ ContextOwed \/ queue = << >>
    <2>1. stack' = Put(Goto(f, "context")) /\ UNCHANGED <<queue, used>>
      BY <1>3 DEF DrainRequest
    <2>2. "context" \in Labels \ (OnACall \cup {"disp", "closing"})
      BY DEF Labels, OnACall
    <2>3. Goto(f, "context") \in Frames(tools, park.wrote) /\ Goto(f, "context").hand = Top.hand
      BY <2>2, GotoLoose
    <2> QED
      BY <1>1, <2>1, <2>3, MoveOK
  <1>4. CASE ~(f.hand \/ ContextOwed \/ queue = << >>)
    <2>1. queue' = Tail(queue) /\ queue # << >>
      BY <1>4 DEF DrainRequest
    <2>2. queue' \in Seq(Kinds)
      BY <1>1, <2>1
    <2>3. CASE Head(queue) = "inquiry"
      <3>1. StartInterlude(f, "inquiry")
        BY <1>4, <2>3 DEF DrainRequest
      <3>2. "inquiry" \in Triggers
        BY DEF Triggers
      <3> QED
        BY <2>2, <3>1, <3>2, StartInterludeOK
    <2>4. CASE Head(queue) # "inquiry"
      <3> DEFINE st == Routed(Head(queue), f)
                 n == Len(stack)
                 last == IF st[n].abort THEN EndWith(st[n], "interrupted") ELSE Goto(st[n], "context")
                 nt == [st EXCEPT ![n] = last]
      <3>1. /\ st \in Seq(Frames(tools, park.wrote)) /\ Len(st) = n /\ n \in Nat \ {0}
            /\ DOMAIN st = 1 .. n /\ DOMAIN stack = 1 .. n
        BY <1>1, <1>2, RoutedOK, TopOK DEF StackOK
      <3>2. \A k \in 1 .. n : st[k].hand = stack[k].hand /\ (k < n => st[k].pc = stack[k].pc)
        BY <1>1, <1>2, <3>1, RoutedOK, PutOK, TopOK
      <3>3. stack' = nt /\ UNCHANGED used
        BY <1>4, <2>4, <3>1 DEF DrainRequest
      <3> HIDE DEF st, n
      <3>4. st[n] \in Frames(tools, park.wrote) /\ st[n] \in FrameType(tools, park.wrote)
        BY <3>1 DEF Frames
      <3>5. last \in Frames(tools, park.wrote) /\ last.hand = st[n].hand
        <4>1. "interrupted" \in Values /\ "context" \in Labels
          BY DEF Values, Cards, Labels
        <4>2. /\ EndWith(st[n], "interrupted") \in Frames(tools, park.wrote)
              /\ EndWith(st[n], "interrupted").hand = st[n].hand
          BY <3>4, <4>1, EndWithType DEF Same
        <4>3. /\ Goto(st[n], "context") \in FrameType(tools, park.wrote)
              /\ Goto(st[n], "context").hand = st[n].hand /\ Goto(st[n], "context").pc = "context"
          BY <3>4, <4>1, GotoType DEF Same
        <4>4. Goto(st[n], "context") \in Frames(tools, park.wrote)
          BY <4>3, Loose DEF OnACall
        <4> QED
          BY <4>2, <4>3, <4>4
      <3> HIDE DEF last
      <3>6. /\ nt \in Seq(Frames(tools, park.wrote)) /\ Len(nt) = n
            /\ \A k \in 1 .. n : nt[k].hand = stack[k].hand /\ (k < n => nt[k].pc = stack[k].pc)
        BY <3>1, <3>2, <3>5
      <3> HIDE DEF nt
      <3>7. StackOK(nt, tools, park.wrote)
        BY <1>1, <3>1, <3>6, EachFrame DEF n
      <3>8. ParkOK(park, nt)
        BY <1>1, NotAsked
      <3> QED
        BY <2>2, <3>3, <3>7, <3>8 DEF EngineInv
    <2> QED
      BY <2>3, <2>4
  <1> QED
    BY <1>3, <1>4

LEMMA DrainInterruptsOK ==
  ASSUME NEW tools, EngineInv(tools), drainInterrupts
  PROVE  EngineInv(tools)'
  <1> DEFINE f == Injected(Top)
  <1>1. At("top") /\ ~park.question /\ UNCHANGED <<rec, park, disk>>
    BY DEF drainInterrupts
  <1>2. /\ stack # << >> /\ Top \in FrameType(tools, park.wrote) /\ Top.pc = "top" /\ queue \in Seq(Kinds)
        /\ used \in UsedType
    BY <1>1, Running
  <1>3. f \in FrameType(tools, park.wrote) /\ f.pc = "top" /\ f.hand = Top.hand
    BY <1>2, InjectedType DEF Same
  <1>4. \/ stack' = Put(EndWith(Top, "interrupted")) /\ UNCHANGED <<queue, used>>
        \/ StartInterlude(f, "loop_check") /\ UNCHANGED queue
        \/ DrainRequest(f)
    BY DEF drainInterrupts
  <1>5. "interrupted" \in Values /\ "loop_check" \in Triggers
    BY DEF Values, Cards, Triggers
  <1>6. EndWith(Top, "interrupted") \in Frames(tools, park.wrote) /\ EndWith(Top, "interrupted").hand = Top.hand
    BY <1>2, <1>5, EndWithType DEF Same
  <1> HIDE DEF f
  <1>7. CASE stack' = Put(EndWith(Top, "interrupted")) /\ UNCHANGED <<queue, used>>
    BY <1>1, <1>2, <1>6, <1>7, MoveOK
  <1>8. CASE StartInterlude(f, "loop_check") /\ UNCHANGED queue
    BY <1>1, <1>2, <1>3, <1>5, <1>8, StartInterludeOK
  <1>9. CASE DrainRequest(f)
    BY <1>1, <1>2, <1>3, <1>9, DrainRequestOK
  <1> QED
    BY <1>4, <1>7, <1>8, <1>9

LEMMA DrainAfterLoopCheckOK ==
  ASSUME NEW tools, EngineInv(tools), drainAfterLoopCheck
  PROVE  EngineInv(tools)'
  <1>1. At("drain") /\ DrainRequest(Top) /\ UNCHANGED <<rec, park, disk>>
    BY DEF drainAfterLoopCheck
  <1>2. ~park.question
    BY <1>1, NoQuestion DEF Unwinding
  <1> QED
    BY <1>1, <1>2, Running, DrainRequestOK

LEMMA ResolveSafePointOK ==
  ASSUME NEW tools, EngineInv(tools), resolveSafePoint
  PROVE  EngineInv(tools)'
  <1>1. At("context") /\ UNCHANGED <<rec, park, queue, disk>>
    BY DEF resolveSafePoint
  <1>2. /\ stack # << >> /\ Top \in FrameType(tools, park.wrote) /\ queue \in Seq(Kinds) /\ used \in UsedType
        /\ ~park.question
    BY <1>1, Running, NoQuestion DEF Unwinding
  <1>3. {"context_budget_exceeded", "context_pressure"} \subseteq Triggers
    BY DEF Triggers
  <1> DEFINE h == [Push(Top, UserMessage("pressure")) EXCEPT !.press = "sent"]
             g == Goto(IF Top.press = "pending" THEN h ELSE Top, "safe")
  <1>4. \/ StartInterlude(Top, "context_budget_exceeded")
        \/ StartInterlude(Top, "context_pressure")
        \/ stack' = Put(g) /\ UNCHANGED used
    BY DEF resolveSafePoint
  <1>5. h \in FrameType(tools, park.wrote) /\ h.hand = Top.hand
    <2>1. UserMessage("pressure") \in Messages(tools, park.wrote)
      BY MessageKinds DEF Notes
    <2> DEFINE p == Push(Top, UserMessage("pressure"))
    <2>2. p \in FrameType(tools, park.wrote) /\ p.hand = Top.hand
      BY <1>2, <2>1, PushType DEF Same
    <2> HIDE DEF p
    <2>3. [p EXCEPT !.press = "sent"] \in FrameType(tools, park.wrote) /\ [p EXCEPT !.press = "sent"].hand = p.hand
      BY <2>2 DEF FrameType, Pressures
    <2> QED
      BY <2>2, <2>3 DEF p
  <1> HIDE DEF h
  <1>6. g \in Frames(tools, park.wrote) /\ g.hand = Top.hand
    <2>1. "safe" \in Labels
      BY DEF Labels
    <2>2. g \in FrameType(tools, park.wrote) /\ g.hand = Top.hand /\ g.pc = "safe"
      BY <1>2, <1>5, <2>1, GotoType DEF Same
    <2> HIDE DEF g
    <2> QED
      BY <2>2, Loose DEF OnACall
  <1> HIDE DEF g
  <1>7. CASE StartInterlude(Top, "context_budget_exceeded")
    BY <1>1, <1>2, <1>3, <1>7, StartInterludeOK
  <1>8. CASE StartInterlude(Top, "context_pressure")
    BY <1>1, <1>2, <1>3, <1>8, StartInterludeOK
  <1>9. CASE stack' = Put(g) /\ UNCHANGED used
    BY <1>1, <1>2, <1>6, <1>9, MoveOK
  <1> QED
    BY <1>4, <1>7, <1>8, <1>9

LEMMA SafePointOK ==
  ASSUME NEW tools, EngineInv(tools), SafePoint
  PROVE  EngineInv(tools)'
  <1>1. At("safe") /\ Write("ordinary", Put(Goto(Top, "ready")), rec, park) /\ UNCHANGED <<queue, used>>
    BY DEF SafePoint
  <1>2. /\ stack # << >> /\ Top \in FrameType(tools, park.wrote) /\ ~park.question /\ RecOK(rec, tools, park.wrote)
    BY <1>1, Running, NoQuestion DEF Unwinding
  <1>3. "ready" \in Labels \ (OnACall \cup {"disp", "closing"})
    BY DEF Labels, OnACall
  <1>4. Goto(Top, "ready") \in Frames(tools, park.wrote) /\ Goto(Top, "ready").hand = Top.hand
    BY <1>2, <1>3, GotoLoose
  <1> QED
    BY <1>1, <1>2, <1>4, MoveWriteOK

LEMMA TakePauseOK ==
  ASSUME NEW tools, EngineInv(tools), TakePause
  PROVE  EngineInv(tools)'
  <1> DEFINE r == [rec EXCEPT !.paused = TRUE]
  <1>1. At("ready") /\ disk' = Checkpoint("pause", r, stack, park) /\ Forget /\ UNCHANGED used
    BY DEF TakePause, Leave
  <1>2. park.ask = 0 /\ RecOK(rec, tools, park.wrote) /\ used \in UsedType
    BY <1>1, Running, NoQuestion DEF Unwinding
  <1>3. RecOK(r, tools, park.wrote)
    BY <1>2 DEF RecOK
  <1> HIDE DEF r
  <1> QED
    BY <1>1, <1>2, <1>3, LeaveOK

LEMMA CallModelOK ==
  ASSUME NEW tools, EngineInv(tools), CallModel
  PROVE  EngineInv(tools)'
  <1>1. At("ready") /\ stack' = Put(Goto(Top, "llm")) /\ UNCHANGED <<rec, park, disk, queue, used>>
    BY DEF CallModel
  <1>2. /\ stack # << >> /\ Top \in FrameType(tools, park.wrote) /\ ~park.question /\ used \in UsedType
        /\ queue \in Seq(Kinds)
    BY <1>1, Running, NoQuestion DEF Unwinding
  <1>3. "llm" \in Labels \ (OnACall \cup {"disp", "closing"})
    BY DEF Labels, OnACall
  <1>4. Goto(Top, "llm") \in Frames(tools, park.wrote) /\ Goto(Top, "llm").hand = Top.hand
    BY <1>2, <1>3, GotoLoose
  <1> QED
    BY <1>1, <1>2, <1>4, MoveOK

-----------------------------------------------------------------------------
(* The handler interlude.                                                  *)

LEMMA MarkInterludeOK ==
  ASSUME NEW tools, EngineInv(tools), MarkInterlude
  PROVE  EngineInv(tools)'
  <1> DEFINE g == Goto(Top, "handler")
             r == [rec EXCEPT !.interlude = [target |-> Top.id, trigger |-> Top.trig, queued |-> queue]]
  <1>1. /\ At("mark") /\ UNCHANGED <<queue, used>>
        /\ \/ stack' = Put(g) /\ UNCHANGED <<rec, park, disk>>
           \/ Write("ordinary", Put(g), r, park)
    BY DEF MarkInterlude
  <1>2. /\ stack # << >> /\ Top \in FrameType(tools, park.wrote) /\ ~park.question /\ used \in UsedType
        /\ queue \in Seq(Kinds) /\ RecOK(rec, tools, park.wrote)
    BY <1>1, Running, NoQuestion DEF Unwinding
  <1>3. "handler" \in Labels \ (OnACall \cup {"disp", "closing"})
    BY DEF Labels, OnACall
  <1>4. g \in Frames(tools, park.wrote) /\ g.hand = Top.hand
    BY <1>2, <1>3, GotoLoose
  <1>5. [target |-> Top.id, trigger |-> Top.trig, queued |-> queue] \in Interludes
    BY <1>2 DEF Interludes, FrameType
  <1>6. RecOK(r, tools, park.wrote)
    BY <1>2, <1>5 DEF RecOK
  <1> HIDE DEF g, r
  <1>7. CASE stack' = Put(g) /\ UNCHANGED <<rec, park, disk>>
    BY <1>1, <1>2, <1>4, <1>7, MoveOK
  <1>8. CASE Write("ordinary", Put(g), r, park)
    BY <1>1, <1>2, <1>4, <1>6, <1>8, MoveWriteOK
  <1> QED
    BY <1>1, <1>7, <1>8

\* A started writer widens what the stack, the recorder and the disk may hold.
LEMMA WidenStack ==
  ASSUME NEW tools \in Seq(STRING), NEW more \in Seq(STRING), NEW w \in BOOLEAN, NEW v \in BOOLEAN, w => v
  PROVE  /\ \A st : StackOK(st, tools, w) => StackOK(st, tools \o more, v)
         /\ \A r : RecOK(r, tools, w) => RecOK(r, tools \o more, v)
         /\ \A c : DiskOK(c, tools) => DiskOK(c, tools \o more)
  <1> DEFINE all == tools \o more
  <1>1. /\ Frames(tools, w) \subseteq Frames(all, v)
        /\ SavedType(tools, w) \subseteq SavedType(all, v)
    BY Widen
  <1>2. \A u \in BOOLEAN : SavedType(tools, u) \subseteq SavedType(all, u)
    BY Widen
  <1> HIDE DEF all
  <1>3. \A st : StackOK(st, tools, w) => StackOK(st, all, v)
    BY <1>1 DEF StackOK
  <1>4. \A fs : SavedOK(fs, tools, w) => SavedOK(fs, all, v)
    BY <1>1 DEF SavedOK
  <1>5. \A fs, u : u \in BOOLEAN /\ SavedOK(fs, tools, u) => SavedOK(fs, all, u)
    BY <1>2 DEF SavedOK
  <1>6. Seq(SavedType(tools, w)) \subseteq Seq(SavedType(all, v))
    BY <1>1
  <1>7. \A r : RecOK(r, tools, w) => RecOK(r, all, v)
    BY <1>4, <1>6 DEF RecOK
  <1>8. ASSUME NEW c, DiskOK(c, tools)
        PROVE  DiskOK(c, all)
    <2>1. c.wrote \in BOOLEAN
      BY <1>8 DEF DiskOK
    <2>2. Seq(SavedType(tools, c.wrote)) \subseteq Seq(SavedType(all, c.wrote))
      BY <1>2, <2>1
    <2>3. SavedOK(c.frames, all, c.wrote)
      BY <1>5, <1>8, <2>1 DEF DiskOK
    <2> QED
      BY <1>8, <2>2, <2>3 DEF DiskOK
  <1> QED
    BY <1>3, <1>7, <1>8 DEF all

LEMMA WidenWriter ==
  ASSUME NEW tools \in Seq(STRING), NEW w \in BOOLEAN, NEW v \in BOOLEAN, w => v
  PROVE  /\ \A st : StackOK(st, tools, w) => StackOK(st, tools, v)
         /\ \A r : RecOK(r, tools, w) => RecOK(r, tools, v)
         /\ FrameType(tools, w) \subseteq FrameType(tools, v)
  <1>1. tools \o << >> = tools /\ << >> \in Seq(STRING)
    OBVIOUS
  <1>2. /\ \A st : StackOK(st, tools, w) => StackOK(st, tools \o << >>, v)
        /\ \A r : RecOK(r, tools, w) => RecOK(r, tools \o << >>, v)
    BY <1>1, WidenStack
  <1>3. /\ Messages(tools, w) \subseteq Messages(tools \o << >>, v)
        /\ Pendings(tools, w) \subseteq Pendings(tools \o << >>, v)
    BY <1>1, Widen
  <1>4. Seq(Messages(tools, w)) \subseteq Seq(Messages(tools, v)) /\ Pendings(tools, w) \subseteq Pendings(tools, v)
    BY <1>1, <1>3
  <1>5. FrameType(tools, w) \subseteq FrameType(tools, v)
    BY <1>4 DEF FrameType
  <1> QED
    BY <1>1, <1>2, <1>5

\* A fresh role's frame.
LEMMA FreshFrame ==
  ASSUME NEW tools, NEW w, NEW id \in Nat, NEW hand \in BOOLEAN
  PROVE  /\ Frame(id, hand) \in Frames(tools, w) /\ Frame(id, hand).hand = hand
         /\ Frame(id, hand).pc = "top" /\ Frame(id, hand).pend = NoPending
         /\ Frame(id, hand) \in FrameType(tools, w)
  <1>1. << >> \in Seq(Messages(tools, w)) /\ << >> \in Seq(Calls(tools)) /\ NoPending \in Pendings(tools, w)
    BY NoPendingType
  <1>2. None \in Pressures /\ "top" \in Labels /\ None \in Values /\ "live" \in Modes /\ None \in Triggers /\ None \in Actions
    BY DEF Pressures, Labels, Values, Modes, Triggers, Actions
  <1>3. /\ Frame(id, hand) \in FrameType(tools, w) /\ Frame(id, hand).hand = hand
        /\ Frame(id, hand).pc = "top" /\ Frame(id, hand).pend = NoPending
    BY <1>1, <1>2 DEF FrameType, Frame
  <1> QED
    BY <1>3, Loose DEF OnACall

\* Frame f waits for g, the frame above it.
WaitsFor(f, g) == (f.hand => g.hand) /\ (f.pc = "wait" \/ (f.pc = "wait handler" /\ g.hand))

\* A frame pushed on one that waits for it.
LEMMA AppendOK ==
  ASSUME NEW tools, NEW w, NEW st, StackOK(st, tools, w), st # << >>, NEW f \in Frames(tools, w),
         WaitsFor(st[Len(st)], f)
  PROVE  StackOK(Append(st, f), tools, w)
  <1> DEFINE n == Len(st)
             nt == Append(st, f)
  <1>1. st \in Seq(Frames(tools, w)) /\ Layered(st) /\ Waits(st)
    BY DEF StackOK
  <1>2. n \in Nat /\ n # 0 /\ DOMAIN st = 1 .. n
    BY <1>1
  <1>3. nt \in Seq(Frames(tools, w))
    BY <1>1
  <1>4. Len(nt) = n + 1 /\ DOMAIN nt = 1 .. n + 1
    BY <1>1, <1>2
  <1>5. nt[n + 1] = f
    BY <1>1, <1>2
  <1>6. \A k \in 1 .. n : nt[k] = st[k]
    BY <1>1, <1>2
  <1>7. st[n].hand => f.hand
    BY DEF WaitsFor
  <1>8. st[n].pc = "wait" \/ (st[n].pc = "wait handler" /\ f.hand)
    BY DEF WaitsFor
  <1>9. PICK m \in 0 .. n : \A k \in DOMAIN st : (st[k].hand => k > m) /\ (k > m => st[k].hand)
    BY <1>1 DEF Layered
  <1> HIDE DEF nt, n
  <1>10. ASSUME f.hand
         PROVE  \E l \in 0 .. Len(nt) : \A k \in DOMAIN nt : (nt[k].hand => k > l) /\ (k > l => nt[k].hand)
    <2>1. m \in 0 .. Len(nt)
      BY <1>2, <1>4, <1>9
    <2>2. ASSUME NEW k \in DOMAIN nt
          PROVE  (nt[k].hand => k > m) /\ (k > m => nt[k].hand)
      <3>1. CASE k = n + 1
        BY <1>2, <1>5, <1>9, <1>10, <3>1
      <3>2. CASE k # n + 1
        <4>1. k \in DOMAIN st /\ nt[k] = st[k]
          BY <1>2, <1>4, <1>6, <2>2, <3>2
        <4> QED
          BY <1>9, <4>1
      <3> QED
        BY <3>1, <3>2
    <2> QED
      BY <2>1, <2>2
  <1>11. ASSUME ~f.hand
         PROVE  \E l \in 0 .. Len(nt) : \A k \in DOMAIN nt : (nt[k].hand => k > l) /\ (k > l => nt[k].hand)
    <2>1. n \in DOMAIN st /\ ~st[n].hand
      BY <1>2, <1>7, <1>11
    <2>2. m = n
      BY <1>2, <1>9, <2>1
    <2>3. ASSUME NEW k \in DOMAIN nt
          PROVE  (nt[k].hand => k > n + 1) /\ (k > n + 1 => nt[k].hand)
      <3>1. ~(k > n + 1)
        BY <1>2, <1>4, <2>3
      <3>2. CASE k = n + 1
        BY <1>5, <1>11, <3>1, <3>2
      <3>3. CASE k # n + 1
        <4>1. k \in DOMAIN st /\ nt[k] = st[k] /\ ~(k > m)
          BY <1>2, <1>4, <1>6, <2>2, <2>3, <3>3
        <4> QED
          BY <1>9, <3>1, <4>1
      <3> QED
        BY <3>2, <3>3
    <2>4. n + 1 \in 0 .. Len(nt)
      BY <1>2, <1>4
    <2> QED
      BY <2>3, <2>4
  <1>12. Layered(nt)
    BY <1>10, <1>11 DEF Layered
  <1>13. ASSUME NEW k \in DOMAIN nt, k < Len(nt)
         PROVE  nt[k].pc = "wait" \/ (nt[k].pc = "wait handler" /\ nt[k + 1].hand)
    <2>1. k \in 1 .. n /\ k \in Nat
      BY <1>2, <1>4, <1>13
    <2>2. CASE k = n
      <3>1. nt[k] = st[n] /\ nt[k + 1] = f
        BY <1>5, <1>6, <2>1, <2>2
      <3> QED
        BY <1>8, <3>1
    <2>3. CASE k # n
      <3>1. k \in DOMAIN st /\ k < n /\ k + 1 \in 1 .. n
        BY <1>2, <2>1, <2>3
      <3>2. st[k].pc = "wait" \/ (st[k].pc = "wait handler" /\ st[k + 1].hand)
        BY <1>1, <3>1 DEF Waits, n
      <3>3. nt[k].pc = st[k].pc /\ nt[k + 1].hand = st[k + 1].hand
        BY <1>6, <2>1, <3>1
      <3> QED
        BY <3>2, <3>3
    <2> QED
      BY <2>2, <2>3
  <1>14. Waits(nt)
    BY <1>13 DEF Waits
  <1>15. StackOK(nt, tools, w)
    BY <1>3, <1>12, <1>14 DEF StackOK
  <1> QED
    BY <1>15 DEF nt

\* A role starts on top of a frame that waits for it.
LEMMA StartRoleOK ==
  ASSUME NEW tools, EngineInv(tools), stack # << >>, ~park.question,
         NEW hand \in BOOLEAN, NEW writer \in BOOLEAN,
         NEW w \in BOOLEAN, park.wrote => w, writer => w, w => park.wrote \/ writer,
         NEW g \in Frames(tools, w), g.hand = Top.hand, WaitsFor(g, Frame(rec.counter + 1, hand)),
         StartRole(Put(g), hand, writer), UNCHANGED <<disk, queue, used>>
  PROVE  EngineInv(tools)'
  <1> DEFINE id == rec.counter + 1
             st == Put(g)
             fresh == Frame(id, hand)
             nt == Append(st, fresh)
             p == [park EXCEPT !.wrote = @ \/ writer]
             r == [rec EXCEPT !.counter = id]
  <1>1. /\ StackOK(stack, tools, park.wrote) /\ ParkOK(park, stack) /\ RecOK(rec, tools, park.wrote)
        /\ DiskOK(disk, tools) /\ tools \in Seq(STRING) /\ queue \in Seq(Kinds)
        /\ used \in UsedType /\ used.tools = Len(tools)
    BY DEF EngineInv
  <1>2. park.wrote \in BOOLEAN
    BY <1>1 DEF ParkOK
  <1>3. stack' = nt /\ rec' = r /\ park' = p
    BY DEF StartRole
  <1>4. ParkOK(p, nt) /\ p.wrote = w
    <2>1. park \in [question : BOOLEAN, ask : Nat, role : Nat, wrote : BOOLEAN, tracked : BOOLEAN] /\ park.ask = 0
      BY <1>1 DEF ParkOK
    <2> HIDE DEF nt
    <2>2. (park.wrote \/ writer) = w
      BY <1>2
    <2>3. p = [park EXCEPT !.wrote = w]
      BY <2>1, <2>2
    <2> HIDE DEF p
    <2>4. /\ p \in [question : BOOLEAN, ask : Nat, role : Nat, wrote : BOOLEAN, tracked : BOOLEAN]
          /\ p.ask = 0 /\ ~p.question /\ p.wrote = w
      BY <2>1, <2>3
    <2> QED
      BY <2>4 DEF ParkOK
  <1>5. StackOK(stack, tools, w) /\ RecOK(rec, tools, w)
    BY <1>1, <1>2, WidenWriter
  <1>6. StackOK(st, tools, w) /\ st # << >> /\ st[Len(st)] = g
    BY <1>5, PutOK, TopOK
  <1>7. id \in Nat
    <2>1. rec.counter \in Nat
      BY <1>1 DEF RecOK
    <2> QED
      BY <2>1
  <1> HIDE DEF id
  <1>8. RecOK(r, tools, w)
    BY <1>5, <1>7 DEF RecOK
  <1>9. fresh \in Frames(tools, w) /\ WaitsFor(g, fresh)
    BY <1>7, FreshFrame DEF id
  <1> HIDE DEF fresh, st, r, p
  <1>10. StackOK(nt, tools, w)
    BY <1>6, <1>9, AppendOK
  <1> HIDE DEF nt
  <1>11. DiskOK(disk', tools) /\ queue' \in Seq(Kinds) /\ used' \in UsedType /\ used'.tools = Len(tools)
    BY <1>1
  <1> QED
    BY <1>1, <1>3, <1>4, <1>8, <1>10, <1>11 DEF EngineInv

LEMMA StartHandlerOK ==
  ASSUME NEW tools, EngineInv(tools), StartHandler
  PROVE  EngineInv(tools)'
  <1> DEFINE l == "wait handler"
             g == Goto(Top, l)
  <1>1. At("handler") /\ StartRole(Put(g), TRUE, FALSE) /\ UNCHANGED <<disk, queue, used>>
    BY DEF StartHandler
  <1>2. /\ stack # << >> /\ Top \in FrameType(tools, park.wrote) /\ ~park.question /\ ParkOK(park, stack)
    BY <1>1, Running, NoQuestion DEF Unwinding
  <1>3. l \in Labels \ (OnACall \cup {"disp", "closing"})
    BY DEF Labels, OnACall
  <1>4. WaitsFor(g, Frame(rec.counter + 1, TRUE))
    BY DEF WaitsFor, Frame, Goto
  <1> HIDE DEF l
  <1>5. g \in Frames(tools, park.wrote) /\ g.hand = Top.hand
    BY <1>2, <1>3, GotoLoose
  <1>6. park.wrote \in BOOLEAN
    BY <1>2 DEF ParkOK
  <1> HIDE DEF g
  <1> QED
    BY <1>1, <1>2, <1>4, <1>5, <1>6, StartRoleOK

\* The run starts with its root.
LEMMA StartRunOK ==
  ASSUME NEW tools, EngineInv(tools), StartRun
  PROVE  EngineInv(tools)'
  <1> DEFINE id == rec.counter + 1
             fresh == Frame(id, FALSE)
             nt == Append(<< >>, fresh)
             p == [park EXCEPT !.wrote = @ \/ FALSE]
             r == [rec EXCEPT !.counter = id]
  <1>1. /\ ParkOK(park, stack) /\ RecOK(rec, tools, park.wrote)
        /\ DiskOK(disk, tools) /\ tools \in Seq(STRING) /\ queue \in Seq(Kinds)
        /\ used \in UsedType /\ used.tools = Len(tools)
    BY DEF EngineInv
  <1>2. /\ stack' = nt /\ rec' = r /\ park' = p /\ UNCHANGED <<disk, queue, used>>
    BY DEF StartRun, StartRole
  <1>3. park \in [question : BOOLEAN, ask : Nat, role : Nat, wrote : BOOLEAN, tracked : BOOLEAN]
    BY <1>1 DEF ParkOK
  <1>4. (park.wrote \/ FALSE) = park.wrote
    BY <1>3
  <1>5. p = park
    BY <1>3, <1>4
  <1>6. id \in Nat
    <2>1. rec.counter \in Nat
      BY <1>1 DEF RecOK
    <2> QED
      BY <2>1
  <1> HIDE DEF id
  <1>7. RecOK(r, tools, park.wrote)
    BY <1>1, <1>6 DEF RecOK
  <1>8. fresh \in Frames(tools, park.wrote) /\ fresh.hand = FALSE /\ fresh.pend = NoPending /\ fresh.pc = "top"
    BY <1>6, FreshFrame
  <1> HIDE DEF fresh
  <1>9. nt = <<fresh>>
    OBVIOUS
  <1> HIDE DEF nt, p, r
  <1>10. nt \in Seq(Frames(tools, park.wrote)) /\ Len(nt) = 1 /\ DOMAIN nt = {1} /\ nt[1] = fresh
    BY <1>8, <1>9
  <1>11. Layered(nt)
    <2>1. 1 \in 0 .. Len(nt) /\ \A k \in DOMAIN nt : (nt[k].hand => k > 1) /\ (k > 1 => nt[k].hand)
      BY <1>8, <1>10
    <2> QED
      BY <2>1 DEF Layered
  <1>12. Waits(nt)
    <2>1. \A k \in DOMAIN nt : ~(k < Len(nt))
      BY <1>10
    <2> QED
      BY <2>1 DEF Waits
  <1>13. ParkOK(park, nt)
    <2>1. ~Delegates(NoPending)
      BY NoPendingType
    <2>2. \A k \in DOMAIN nt : ~nt[k].hand /\ ~Delegates(nt[k].pend) /\ nt[k].pc \in Unwinding
      BY <1>8, <1>10, <2>1 DEF Unwinding
    <2> QED
      BY <1>1, <2>2 DEF ParkOK
  <1>14. StackOK(nt, tools, park.wrote)
    BY <1>10, <1>11, <1>12 DEF StackOK
  <1> QED
    BY <1>1, <1>2, <1>5, <1>7, <1>13, <1>14 DEF EngineInv

\* What remains of a history when its oldest blocks are dropped.
LEMMA CompactedType ==
  ASSUME NEW tools, NEW w, NEW hist \in Seq(Messages(tools, w)), NEW h \in Compacted(hist)
  PROVE  h \in Seq(Messages(tools, w))
  <1>1. CASE h = << >>
    BY <1>1
  <1>2. ASSUME NEW i \in DOMAIN hist, h = SubSeq(hist, i, Len(hist))
        PROVE  h \in Seq(Messages(tools, w))
    <2>1. Len(hist) \in Nat /\ DOMAIN hist = 1 .. Len(hist) /\ i \in 1 .. Len(hist)
      BY <1>2
    <2>2. \A j \in i .. Len(hist) : hist[j] \in Messages(tools, w)
      BY <2>1
    <2> QED
      BY <1>2, <2>1, <2>2, SubSeqProperties
  <1> QED
    BY <1>1, <1>2 DEF Compacted

\* Frame g is f with another content, at the same point and in the same layer.
Alike(tools, w, f, g) == g \in FrameType(tools, w) /\ g.pc = f.pc /\ g.hand = f.hand

\* What an interrupt and a reply set on a frame.
LEMMA FieldType ==
  ASSUME NEW tools, NEW w, NEW f \in FrameType(tools, w)
  PROVE  /\ \A h \in Seq(Messages(tools, w)) : Alike(tools, w, f, [f EXCEPT !.hist = h])
         /\ \A n \in Nat : Alike(tools, w, f, [f EXCEPT !.mark = n])
         /\ Alike(tools, w, f, [f EXCEPT !.comp = FALSE])
         /\ \A a \in Actions : Alike(tools, w, f, [f EXCEPT !.action = a])
         /\ \A a \in Pressures : Alike(tools, w, f, [f EXCEPT !.press = a])
         /\ \A x \in Messages(tools, w) : Alike(tools, w, f, Push(f, x))
  <1>1. \A x \in Messages(tools, w) : Alike(tools, w, f, Push(f, x))
    BY PushType DEF Alike, Same
  <1>2. /\ \A h \in Seq(Messages(tools, w)) : Alike(tools, w, f, [f EXCEPT !.hist = h])
        /\ \A n \in Nat : Alike(tools, w, f, [f EXCEPT !.mark = n])
        /\ Alike(tools, w, f, [f EXCEPT !.comp = FALSE])
        /\ \A a \in Actions : Alike(tools, w, f, [f EXCEPT !.action = a])
        /\ \A a \in Pressures : Alike(tools, w, f, [f EXCEPT !.press = a])
    BY DEF FrameType, Alike
  <1> QED
    BY <1>1, <1>2

\* A resolution leaves the frame on its way out of the interlude.
LEMMA ResolutionType ==
  ASSUME NEW tools, NEW w, NEW f \in FrameType(tools, w), NEW t \in Resolutions(f)
  PROVE  t \in Frames(tools, w) /\ t.hand = f.hand
  <1> DEFINE g == Goto(f, "unmark")
             p == Push(g, UserMessage("pressure"))
             d == Push(g, UserMessage("managed"))
             k(h) == [g EXCEPT !.hist = h]
             c(h) == Push(k(h), UserMessage("recovery"))
             Fits(x) == x \in FrameType(tools, w) /\ x.pc = "unmark" /\ x.hand = f.hand
  <1>1. "unmark" \in Labels /\ "sent" \in Pressures /\ "unfit" \in Actions
    BY DEF Labels, Pressures, Actions
  <1>2. /\ UserMessage("pressure") \in Messages(tools, w) /\ UserMessage("managed") \in Messages(tools, w)
        /\ UserMessage("recovery") \in Messages(tools, w)
    BY MessageKinds DEF Notes
  <1>3. Fits(g)
    BY <1>1, GotoType DEF Same
  <1>4. f.calls \in Nat /\ f.hist \in Seq(Messages(tools, w))
    BY DEF FrameType
  <1>5. \/ t = [g EXCEPT !.mark = f.calls] \/ t = g
        \/ t = [p EXCEPT !.press = "sent"]
        \/ t = [d EXCEPT !.comp = FALSE]
        \/ \E h \in Compacted(f.hist) : \/ t = [g EXCEPT !.comp = FALSE, !.hist = h, !.action = "unfit"]
                                        \/ t = [c(h) EXCEPT !.comp = FALSE]
    BY DEF Resolutions
  <1> HIDE DEF g
  <1>6. \A x : Fits(x) =>
           /\ \A h \in Seq(Messages(tools, w)) : Fits([x EXCEPT !.hist = h])
           /\ \A n \in Nat : Fits([x EXCEPT !.mark = n])
           /\ Fits([x EXCEPT !.comp = FALSE])
           /\ \A a \in Actions : Fits([x EXCEPT !.action = a])
           /\ \A a \in Pressures : Fits([x EXCEPT !.press = a])
           /\ \A m \in Messages(tools, w) : Fits(Push(x, m))
    <2>1. \A x, y : Fits(x) /\ Alike(tools, w, x, y) => Fits(y)
      BY DEF Alike
    <2>2. \A x : Fits(x) => x \in FrameType(tools, w)
      OBVIOUS
    <2> HIDE DEF Fits
    <2> TAKE x
    <2> HAVE Fits(x)
    <2>3. x \in FrameType(tools, w)
      BY <2>2
    <2>4. /\ \A h \in Seq(Messages(tools, w)) : Alike(tools, w, x, [x EXCEPT !.hist = h])
          /\ \A n \in Nat : Alike(tools, w, x, [x EXCEPT !.mark = n])
          /\ Alike(tools, w, x, [x EXCEPT !.comp = FALSE])
          /\ \A a \in Actions : Alike(tools, w, x, [x EXCEPT !.action = a])
          /\ \A a \in Pressures : Alike(tools, w, x, [x EXCEPT !.press = a])
          /\ \A m \in Messages(tools, w) : Alike(tools, w, x, Push(x, m))
      BY <2>3, FieldType
    <2> QED
      BY <2>1, <2>4
  <1> HIDE DEF Fits
  <1>7. \A h \in Compacted(f.hist) : h \in Seq(Messages(tools, w))
    BY <1>4, CompactedType
  <1>8. ASSUME NEW h \in Compacted(f.hist)
        PROVE  Fits([c(h) EXCEPT !.comp = FALSE]) /\ Fits([g EXCEPT !.comp = FALSE, !.hist = h, !.action = "unfit"])
    <2>1. h \in Seq(Messages(tools, w))
      BY <1>7
    <2>2. Fits(c(h))
      BY <1>2, <1>3, <1>6, <2>1
    <2>3. Fits([c(h) EXCEPT !.comp = FALSE])
      BY <1>6, <2>2
    <2> DEFINE g1 == [g EXCEPT !.comp = FALSE]
               g2 == [g1 EXCEPT !.hist = h]
    <2>4. Fits(g1)
      BY <1>3, <1>6
    <2> HIDE DEF g1
    <2>5. Fits(g2)
      BY <1>6, <2>1, <2>4
    <2> HIDE DEF g2
    <2>6. Fits([g2 EXCEPT !.action = "unfit"])
      BY <1>1, <1>6, <2>5
    <2>7. [g EXCEPT !.comp = FALSE, !.hist = h, !.action = "unfit"] = [g2 EXCEPT !.action = "unfit"]
      BY DEF g1, g2
    <2> QED
      BY <2>3, <2>6, <2>7
  <1>9. Fits(p) /\ Fits(d)
    BY <1>2, <1>3, <1>6
  <1> HIDE DEF p, d, c
  <1>10. Fits([g EXCEPT !.mark = f.calls]) /\ Fits([p EXCEPT !.press = "sent"]) /\ Fits([d EXCEPT !.comp = FALSE])
    BY <1>1, <1>3, <1>4, <1>6, <1>9
  <1>11. Fits(t)
    BY <1>3, <1>5, <1>8, <1>10
  <1> QED
    BY <1>11, Loose DEF OnACall, Fits

LEMMA ResolveInterludeOK ==
  ASSUME NEW tools, EngineInv(tools), ResolveInterlude
  PROVE  EngineInv(tools)'
  <1>1. /\ At("handled") /\ UNCHANGED <<rec, park, disk, queue, used>>
        /\ \E f \in Resolutions(Top) : stack' = Put(f)
    BY DEF ResolveInterlude
  <1>2. /\ stack # << >> /\ Top \in FrameType(tools, park.wrote) /\ ~park.question /\ used \in UsedType
        /\ queue \in Seq(Kinds)
    BY <1>1, Running, NoQuestion DEF Unwinding
  <1>3. PICK f \in Resolutions(Top) : stack' = Put(f)
    BY <1>1
  <1>4. f \in Frames(tools, park.wrote) /\ f.hand = Top.hand
    BY <1>2, ResolutionType
  <1> QED
    BY <1>1, <1>2, <1>3, <1>4, MoveOK

LEMMA ClearInterludeOK ==
  ASSUME NEW tools, EngineInv(tools), ClearInterlude
  PROVE  EngineInv(tools)'
  <1> DEFINE g == [Top EXCEPT !.action = None, !.trig = None]
             f == AfterInterlude(Top)
             r == [rec EXCEPT !.interlude = NoInterlude]
  <1>1. /\ At("unmark") /\ UNCHANGED <<queue, used>>
        /\ \/ stack' = Put(f) /\ UNCHANGED <<rec, park, disk>>
           \/ Write("ordinary", Put(f), r, park)
    BY DEF ClearInterlude
  <1>2. /\ stack # << >> /\ Top \in FrameType(tools, park.wrote) /\ ~park.question /\ used \in UsedType
        /\ queue \in Seq(Kinds) /\ RecOK(rec, tools, park.wrote)
    BY <1>1, Running, NoQuestion DEF Unwinding
  <1>3. g \in FrameType(tools, park.wrote) /\ g.hand = Top.hand
    BY <1>2 DEF FrameType, Actions, Triggers
  <1>4. f = EndWith(g, "error") \/ \E l \in {"drain", "safe", "context"} : f = Goto(g, l)
    BY DEF AfterInterlude
  <1> HIDE DEF g
  <1>5. "error" \in Values /\ {"drain", "safe", "context"} \subseteq Labels \ (OnACall \cup {"disp", "closing"})
    BY DEF Values, Cards, Labels, OnACall
  <1>6. f \in Frames(tools, park.wrote) /\ f.hand = Top.hand
    BY <1>3, <1>4, <1>5, EndWithType, GotoLoose DEF Same
  <1>7. NoInterlude \in Interludes
    BY DEF NoInterlude, Interludes, Triggers
  <1>8. RecOK(r, tools, park.wrote)
    BY <1>2, <1>7 DEF RecOK
  <1> HIDE DEF f, r
  <1>9. CASE stack' = Put(f) /\ UNCHANGED <<rec, park, disk>>
    BY <1>1, <1>2, <1>6, <1>9, MoveOK
  <1>10. CASE Write("ordinary", Put(f), r, park)
    BY <1>1, <1>2, <1>6, <1>8, <1>10, MoveWriteOK
  <1> QED
    BY <1>1, <1>9, <1>10

-----------------------------------------------------------------------------
(* The model's reply.                                                      *)

LEMMA ProviderFailsOK ==
  ASSUME NEW tools, EngineInv(tools), ProviderFails
  PROVE  EngineInv(tools)'
  <1> DEFINE r == SuspendedRec
  <1>1. /\ At("llm") /\ disk' = Checkpoint("suspension", r, stack, park) /\ Forget
        /\ used' = [used EXCEPT !.failures = @ + 1]
    BY DEF ProviderFails, Leave
  <1>2. park.ask = 0 /\ RecOK(rec, tools, park.wrote) /\ used \in UsedType /\ queue \in Seq(Kinds)
    BY <1>1, Running, NoQuestion DEF Unwinding
  <1>3. rec.interlude \in Interludes
    BY <1>2 DEF RecOK
  <1> DEFINE i == IF rec.interlude = NoInterlude THEN rec.interlude ELSE [rec.interlude EXCEPT !.queued = queue]
  <1>4. i \in Interludes
    BY <1>2, <1>3 DEF Interludes
  <1>5. r = [rec EXCEPT !.suspended = TRUE, !.interlude = i]
    BY DEF SuspendedRec
  <1> HIDE DEF i, r
  <1>6. RecOK(r, tools, park.wrote)
    <2> DEFINE R == [counter : Nat, interlude : Interludes, pre : Seq(SavedType(tools, park.wrote)), frozen : BOOLEAN,
                     suspended : BOOLEAN, paused : BOOLEAN]
    <2>1. rec \in R /\ SavedOK(rec.pre, tools, park.wrote)
      BY <1>2 DEF RecOK
    <2>2. r \in R /\ r.pre = rec.pre
      BY <2>1, <1>4, <1>5
    <2> QED
      BY <2>1, <2>2 DEF RecOK
  <1>7. used' \in UsedType /\ used'.tools = used.tools
    BY <1>1, <1>2, CountedUse
  <1> QED
    BY <1>1, <1>2, <1>6, <1>7, LeaveOK

LEMMA ModelUnavailableOK ==
  ASSUME NEW tools, EngineInv(tools), ModelUnavailable
  PROVE  EngineInv(tools)'
  <1>1. At("llm") /\ stack' = Put(EndWith(Top, "error")) /\ UNCHANGED <<rec, park, disk, queue, used>>
    BY DEF ModelUnavailable
  <1>2. /\ stack # << >> /\ Top \in FrameType(tools, park.wrote) /\ ~park.question /\ used \in UsedType
        /\ queue \in Seq(Kinds)
    BY <1>1, Running, NoQuestion DEF Unwinding
  <1>3. "error" \in Values
    BY DEF Values, Cards
  <1>4. EndWith(Top, "error") \in Frames(tools, park.wrote) /\ EndWith(Top, "error").hand = Top.hand
    BY <1>2, <1>3, EndWithType DEF Same
  <1> QED
    BY <1>1, <1>2, <1>4, MoveOK

LEMMA ContextRejectedOK ==
  ASSUME NEW tools, EngineInv(tools), ContextRejected
  PROVE  EngineInv(tools)'
  <1> DEFINE f == [Top EXCEPT !.tries = @ + 1]
             h == Goto(f, "top")
             g == IF f.tries > MaxRecovery THEN EndWith(f, "error") ELSE [h EXCEPT !.comp = TRUE]
  <1>1. /\ At("llm") /\ stack' = Put(g) /\ UNCHANGED <<rec, park, disk, queue>>
        /\ used' = [used EXCEPT !.rejections = @ + 1]
    BY DEF ContextRejected
  <1>2. /\ stack # << >> /\ Top \in FrameType(tools, park.wrote) /\ ~park.question /\ used \in UsedType
        /\ queue \in Seq(Kinds)
    BY <1>1, Running, NoQuestion DEF Unwinding
  <1>3. "error" \in Values /\ "top" \in Labels
    BY DEF Values, Cards, Labels
  <1>4. f \in FrameType(tools, park.wrote) /\ f.hand = Top.hand
    <2>1. Top.tries + 1 \in Nat
      BY <1>2 DEF FrameType
    <2> DEFINE n == Top.tries + 1
    <2> HIDE DEF n
    <2>2. f = [Top EXCEPT !.tries = n]
      BY DEF n
    <2>3. n \in Nat
      BY <2>1 DEF n
    <2> HIDE DEF f
    <2> QED
      BY <1>2, <2>2, <2>3 DEF FrameType
  <1> HIDE DEF f
  <1>5. h \in FrameType(tools, park.wrote) /\ h.hand = Top.hand /\ h.pc = "top"
    BY <1>3, <1>4, GotoType DEF Same
  <1> HIDE DEF h
  <1>6. /\ [h EXCEPT !.comp = TRUE] \in FrameType(tools, park.wrote) /\ [h EXCEPT !.comp = TRUE].hand = Top.hand
        /\ [h EXCEPT !.comp = TRUE].pc = "top"
    BY <1>5 DEF FrameType
  <1>7. [h EXCEPT !.comp = TRUE] \in Frames(tools, park.wrote)
    BY <1>6, Loose DEF OnACall
  <1>8. EndWith(f, "error") \in Frames(tools, park.wrote) /\ EndWith(f, "error").hand = Top.hand
    BY <1>3, <1>4, EndWithType DEF Same
  <1>9. g \in Frames(tools, park.wrote) /\ g.hand = Top.hand
    BY <1>6, <1>7, <1>8
  <1>10. used' \in UsedType /\ used'.tools = used.tools
    BY <1>1, <1>2, CountedUse
  <1> HIDE DEF g
  <1> QED
    BY <1>1, <1>2, <1>9, <1>10, MoveOK

LEMMA ModelRepliesOK ==
  ASSUME NEW tools, EngineInv(tools), ModelReplies
  PROVE  \E all : EngineInv(all)'
  <1> DEFINE w == park.wrote
             m == Len(tools)
  <1>1. At("llm") /\ UNCHANGED <<rec, park, disk, queue>>
    BY DEF ModelReplies
  <1>2. /\ stack # << >> /\ Top \in Frames(tools, w) /\ ~park.question /\ used \in UsedType
        /\ queue \in Seq(Kinds) /\ StackOK(stack, tools, w) /\ ParkOK(park, stack)
        /\ RecOK(rec, tools, w) /\ DiskOK(disk, tools) /\ used.tools = m
    BY <1>1, Running, NoQuestion DEF Unwinding
  <1>3. tools \in Seq(STRING) /\ w \in BOOLEAN
    BY <1>2 DEF EngineInv, ParkOK
  <1>4. PICK b \in Offered(Top), pressed \in BOOLEAN :
          LET calls == [k \in DOMAIN b |-> [id |-> used.tools + k, tool |-> b[k]]]
              f == [Push(Top, Turn(calls)) EXCEPT !.tries = 0, !.press = IF pressed THEN "pending" ELSE @]
          IN /\ stack' = Put(IF b = << >> THEN EndWith(f, "success")
                             ELSE [f EXCEPT !.pc = "disp", !.turn = calls, !.idx = 1, !.mode = "live"])
             /\ used' = [used EXCEPT !.turns = @ + 1, !.tools = @ + Len(b),
                                     !.pressures = IF pressed THEN @ + 1 ELSE @]
    BY DEF ModelReplies
  <1> DEFINE all == tools \o b
             calls == [k \in DOMAIN b |-> [id |-> used.tools + k, tool |-> b[k]]]
             p == Push(Top, Turn(calls))
             s == IF pressed THEN "pending" ELSE p.press
             f == [p EXCEPT !.tries = 0, !.press = s]
             t == [f EXCEPT !.pc = "disp", !.turn = calls, !.idx = 1, !.mode = "live"]
             g == IF b = << >> THEN EndWith(f, "success") ELSE t
  <1>5. b \in Seq(STRING)
    <2>1. b \in Batches \/ b \in HandlerBatches
      BY DEF Offered
    <2> QED
      BY <2>1, EngineBounds
  <1>6. stack' = Put(g)
    BY <1>4
  <1>7. calls \in Seq(Calls(all))
    <2>1. m \in Nat /\ Len(b) \in Nat /\ DOMAIN b = 1 .. Len(b) /\ \A k \in DOMAIN b : b[k] \in STRING
      BY <1>3, <1>5
    <2>2. DOMAIN all = 1 .. m + Len(b) /\ \A k \in 1 .. Len(b) : all[m + k] = b[k]
      BY <1>3, <1>5
    <2> DEFINE n == Len(b)
    <2> HIDE DEF m, n, all
    <2>3. ASSUME NEW k \in 1 .. n
          PROVE  [id |-> m + k, tool |-> b[k]] \in Calls(all)
      <3>1. m + k \in DOMAIN all /\ all[m + k] = b[k] /\ b[k] \in STRING
        BY <2>1, <2>2 DEF n
      <3> QED
        BY <3>1 DEF Calls
    <2>4. calls = [k \in 1 .. n |-> [id |-> m + k, tool |-> b[k]]]
      BY <1>2, <2>1 DEF n
    <2>5. calls \in [1 .. n -> Calls(all)]
      BY <2>3, <2>4
    <2> HIDE DEF calls
    <2> QED
      BY <2>1, <2>5 DEF n
  <1>8. Top \in FrameType(all, w)
    <2>1. Top \in Frames(all, w)
      BY <1>2, <1>3, <1>5, Widen
    <2> QED
      BY <2>1 DEF Frames
  <1>9. Turn(calls) \in Messages(all, w)
    BY <1>7, MessageKinds
  <1> HIDE DEF calls
  <1>10. p \in FrameType(all, w) /\ p.hand = Top.hand
    BY <1>8, <1>9, PushType DEF Same
  <1> HIDE DEF p
  <1>11. s \in Pressures
    BY <1>10 DEF FrameType, Pressures
  <1> HIDE DEF s
  <1>12. f \in FrameType(all, w) /\ f.hand = Top.hand
    BY <1>10, <1>11 DEF FrameType
  <1> HIDE DEF f
  <1>13. /\ t \in FrameType(all, w) /\ t.hand = Top.hand /\ t.pc = "disp" /\ t.idx # 0
    <2>1. 1 \in Nat /\ "disp" \in Labels /\ "live" \in Modes
      BY DEF Labels, Modes
    <2>2. t \in FrameType(all, w)
      BY <1>7, <1>12, <2>1 DEF FrameType
    <2>3. t.hand = f.hand /\ t.pc = "disp" /\ t.idx = 1
      BY <1>12 DEF FrameType
    <2> QED
      BY <1>12, <2>2, <2>3
  <1> HIDE DEF t
  <1>14. t \in Frames(all, w)
    BY <1>13 DEF Frames, Placed, OnACall, OnMarkedCall, OnHarmlessCall
  <1>15. "success" \in Values
    BY DEF Values, Cards
  <1>16. EndWith(f, "success") \in Frames(all, w) /\ EndWith(f, "success").hand = Top.hand
    BY <1>12, <1>15, EndWithType DEF Same
  <1>17. g \in Frames(all, w) /\ g.hand = Top.hand
    BY <1>13, <1>14, <1>16
  <1> HIDE DEF g
  <1>18. StackOK(stack, all, w) /\ RecOK(rec, all, w) /\ DiskOK(disk, all)
    BY <1>2, <1>3, <1>5, WidenStack
  <1>19. StackOK(Put(g), all, w)
    BY <1>2, <1>17, <1>18, PutOK
  <1>20. ParkOK(park, Put(g))
    BY <1>2, NotAsked
  <1>21. used' \in UsedType /\ used'.tools = Len(all) /\ all \in Seq(STRING)
    <2>1. /\ used.turns \in Nat /\ used.pressures \in Nat /\ used.tools \in Nat /\ Len(b) \in Nat
          /\ Len(all) = m + Len(b) /\ all \in Seq(STRING)
      BY <1>2, <1>3, <1>5 DEF UsedType
    <2> DEFINE x == used.turns + 1
               y == used.tools + Len(b)
               z == IF pressed THEN used.pressures + 1 ELSE used.pressures
    <2>2. x \in Nat /\ y \in Nat /\ z \in Nat /\ y = Len(all)
      BY <1>2, <2>1
    <2>3. used' = [used EXCEPT !.turns = x, !.tools = y, !.pressures = z]
      BY <1>4
    <2> HIDE DEF x, y, z, all
    <2>4. used' \in UsedType /\ used'.tools = y
      BY <1>2, <2>2, <2>3 DEF UsedType
    <2> QED
      BY <2>1, <2>2, <2>4
  <1> HIDE DEF all
  <1>22. EngineInv(all)'
    BY <1>1, <1>2, <1>6, <1>18, <1>19, <1>20, <1>21 DEF EngineInv
  <1> QED
    BY <1>22

-----------------------------------------------------------------------------
(* The dispatch of a turn's calls.                                         *)

\* The answer to the call under way.
LEMMA AnswerType ==
  ASSUME NEW tools, NEW w, NEW f \in Frames(tools, w), f.idx \in DOMAIN f.turn, NEW val \in Values,
         w \/ val \in Unexecuted \/ ~isWriteCapableRole(Call(f).tool)
  PROVE  ToolMessage(Call(f).id, val) \in Messages(tools, w)
  <1>1. Call(f).id \in DOMAIN tools /\ Call(f).tool = tools[Call(f).id]
    BY CallOf
  <1> QED
    BY <1>1, MessageKinds

\* An answered call is counted.
LEMMA CountedType ==
  ASSUME NEW tools, NEW w, NEW f \in FrameType(tools, w), NEW x \in Messages(tools, w)
  PROVE  LET g == [Push(f, x) EXCEPT !.calls = @ + 1]
         IN g \in FrameType(tools, w) /\ g.pc = f.pc /\ Same(f, g) /\ g.val = f.val
  <1> DEFINE p == Push(f, x)
             n == p.calls + 1
             g == [p EXCEPT !.calls = n]
  <1>1. p \in FrameType(tools, w) /\ p.pc = f.pc /\ Same(f, p) /\ p.val = f.val
    BY PushType
  <1> HIDE DEF p
  <1>2. n \in Nat
    <2>1. p.calls \in Nat
      BY <1>1 DEF FrameType
    <2> QED
      BY <2>1
  <1> HIDE DEF n
  <1>3. g \in FrameType(tools, w) /\ g.pc = p.pc /\ Same(p, g) /\ g.val = p.val
    BY <1>1, <1>2 DEF FrameType, Same
  <1>4. [Push(f, x) EXCEPT !.calls = @ + 1] = g
    BY DEF p, n
  <1> HIDE DEF g
  <1>5. g \in FrameType(tools, w) /\ g.pc = f.pc /\ Same(f, g) /\ g.val = f.val
    BY <1>1, <1>3 DEF Same
  <1> QED
    BY <1>4, <1>5

\* The marker is taken off a frame.
LEMMA ClearedType ==
  ASSUME NEW tools, NEW w, NEW f \in FrameType(tools, w)
  PROVE  LET g == [f EXCEPT !.pend = NoPending]
         IN /\ g \in FrameType(tools, w) /\ g.pc = f.pc /\ g.hand = f.hand /\ g.val = f.val
            /\ g.turn = f.turn /\ g.idx = f.idx /\ ~Delegates(g.pend)
  <1>1. NoPending \in Pendings(tools, w) /\ ~Delegates(NoPending)
    BY NoPendingType
  <1> QED
    BY <1>1 DEF FrameType

LEMMA DispatchDoneOK ==
  ASSUME NEW tools, EngineInv(tools), DispatchDone
  PROVE  EngineInv(tools)'
  <1> DEFINE h == Noted(Top)
             f == LoopTop(h)
  <1>1. /\ At("disp") /\ UNCHANGED <<queue, used>>
        /\ \/ stack' = Put(f) /\ UNCHANGED <<rec, park, disk>>
           \/ Write("ordinary", Put(f), rec, park)
    BY DEF DispatchDone
  <1>2. /\ stack # << >> /\ Top \in FrameType(tools, park.wrote) /\ used \in UsedType
        /\ queue \in Seq(Kinds) /\ RecOK(rec, tools, park.wrote)
        /\ park.question => ~Delegates(Top.pend)
    BY <1>1, Running
  <1>3. h \in FrameType(tools, park.wrote) /\ h.hand = Top.hand /\ h.pend = Top.pend
    BY <1>2, NotedType DEF Same
  <1> HIDE DEF h
  <1>4. f \in Frames(tools, park.wrote) /\ f.hand = Top.hand /\ f.pend = Top.pend /\ f.pc = "top"
    BY <1>3, LoopTopType
  <1> HIDE DEF f
  <1>5. park.question => ~Delegates(f.pend) /\ f.pc \in Unwinding
    BY <1>2, <1>4 DEF Unwinding
  <1>6. CASE stack' = Put(f) /\ UNCHANGED <<rec, park, disk>>
    BY <1>1, <1>2, <1>4, <1>5, <1>6, MoveOK
  <1>7. CASE Write("ordinary", Put(f), rec, park)
    BY <1>1, <1>2, <1>4, <1>5, <1>7, MoveWriteOK
  <1> QED
    BY <1>1, <1>6, <1>7

LEMMA DispatchParksOK ==
  ASSUME NEW tools, EngineInv(tools), DispatchParks
  PROVE  EngineInv(tools)'
  <1> DEFINE f == [Top EXCEPT !.pend = NoPending]
  <1>1. At("disp") /\ Unwind(f) /\ UNCHANGED <<park, queue, used>>
    BY DEF DispatchParks
  <1>2. stack # << >> /\ Top \in FrameType(tools, park.wrote)
    BY <1>1, Running
  <1>3. f \in FrameType(tools, park.wrote) /\ f.hand = Top.hand /\ ~Delegates(f.pend)
    BY <1>2, ClearedType
  <1> HIDE DEF f
  <1> QED
    BY <1>1, <1>2, <1>3, UnwindOK

\* Where the dispatch stands there is a call.
LEMMA AtACall ==
  ASSUME NEW tools, NEW w, NEW f \in Frames(tools, w), f.pc \in {"disp", "closing"}, f.idx <= Len(Batch(f))
  PROVE  f.idx \in DOMAIN f.turn
  <1>1. f.idx \in Nat /\ f.idx # 0 /\ f.turn \in Seq(Calls(tools))
    BY DEF Frames, FrameType, Placed
  <1>2. Len(f.turn) \in Nat /\ DOMAIN f.turn = 1 .. Len(f.turn) /\ f.idx <= Len(f.turn)
    BY <1>1 DEF Batch
  <1> QED
    BY <1>1, <1>2

LEMMA DispatchInvalidOK ==
  ASSUME NEW tools, EngineInv(tools), DispatchInvalid
  PROVE  EngineInv(tools)'
  <1> DEFINE w == park.wrote
             x == ToolMessage(Call(Top).id, "invalid")
             f == [Push(Top, x) EXCEPT !.calls = @ + 1]
             c == [f EXCEPT !.pend = NoPending]
             g == Onward(c)
             h == Onward(f)
  <1>1. /\ At("disp") /\ UNCHANGED <<queue, used>> /\ ~park.question /\ Call(Top).tool = "bad"
        /\ Top.idx <= Len(Batch(Top))
        /\ \/ stack' = Put(h) /\ UNCHANGED <<rec, park, disk>>
           \/ Write("ordinary", Put(g), rec, park)
    BY DEF DispatchInvalid
  <1>2. /\ stack # << >> /\ Top \in FrameType(tools, w) /\ used \in UsedType /\ Top \in Frames(tools, w)
        /\ queue \in Seq(Kinds) /\ RecOK(rec, tools, w) /\ Top.pc = "disp"
    BY <1>1, Running
  <1>3. Top.idx \in DOMAIN Top.turn
    BY <1>1, <1>2, AtACall
  <1>4. "invalid" \in Values /\ ~isWriteCapableRole(Call(Top).tool)
    BY <1>1 DEF Values, isWriteCapableRole
  <1>5. x \in Messages(tools, w)
    BY <1>2, <1>3, <1>4, AnswerType
  <1> HIDE DEF x
  <1>6. f \in FrameType(tools, w) /\ f.hand = Top.hand
    BY <1>2, <1>5, CountedType DEF Same
  <1> HIDE DEF f
  <1>7. c \in FrameType(tools, w) /\ c.hand = Top.hand
    BY <1>6, ClearedType
  <1> HIDE DEF c
  <1>8. h \in Frames(tools, w) /\ h.hand = Top.hand
    BY <1>6, OnwardType
  <1>9. g \in Frames(tools, w) /\ g.hand = Top.hand
    BY <1>7, OnwardType
  <1> HIDE DEF g, h
  <1>10. CASE stack' = Put(h) /\ UNCHANGED <<rec, park, disk>>
    BY <1>1, <1>2, <1>8, <1>10, MoveOK
  <1>11. CASE Write("ordinary", Put(g), rec, park)
    BY <1>1, <1>2, <1>9, <1>11, MoveWriteOK
  <1> QED
    BY <1>1, <1>10, <1>11

LEMMA DispatchCallOK ==
  ASSUME NEW tools, EngineInv(tools), DispatchCall
  PROVE  EngineInv(tools)'
  <1> DEFINE w == park.wrote
             p == Pending(Top.turn, Top.idx)
             g == [Top EXCEPT !.pend = p, !.pc = "start"]
  <1>1. /\ At("disp") /\ UNCHANGED <<queue, used>> /\ ~park.question
        /\ Top.idx <= Len(Batch(Top)) /\ Write("ordinary", Put(g), rec, park)
    BY DEF DispatchCall, Batch
  <1>2. /\ stack # << >> /\ Top \in FrameType(tools, w) /\ Top \in Frames(tools, w)
        /\ RecOK(rec, tools, w) /\ Top.pc = "disp"
    BY <1>1, Running
  <1>3. Top.idx \in DOMAIN Top.turn
    BY <1>1, <1>2, AtACall
  <1>4. p \in Pendings(tools, w) /\ p # NoPending /\ p.calls = Top.turn /\ p.idx = Top.idx
    <2>1. Top.turn \in Seq(Calls(tools))
      BY <1>2 DEF FrameType
    <2>2. \A calls \in Seq(Calls(tools)) : \A i \in DOMAIN calls :
            /\ Pending(calls, i) \in Pendings(tools, w) /\ Pending(calls, i) # NoPending
            /\ Pending(calls, i).calls = calls /\ Pending(calls, i).idx = i
      BY PendingType
    <2> QED
      BY <1>3, <2>1, <2>2
  <1> HIDE DEF p
  <1>5. /\ g \in FrameType(tools, w) /\ g.pc = "start" /\ g.hand = Top.hand
        /\ g.pend = p /\ g.turn = Top.turn /\ g.idx = Top.idx
    BY <1>2, <1>4 DEF FrameType, Labels
  <1> HIDE DEF g
  <1>6. g \in Frames(tools, w)
    BY <1>3, <1>4, <1>5 DEF Frames, Placed, OnACall, OnMarkedCall, OnHarmlessCall
  <1> QED
    BY <1>1, <1>2, <1>5, <1>6, MoveWriteOK

\* A frame goes on within the call its marker names; only where that vouches for the
\* call does it matter which call it is.
LEMMA WithinCall ==
  ASSUME NEW tools, NEW w, NEW f \in Frames(tools, w), f.pc \in OnMarkedCall, NEW g \in FrameType(tools, w),
         Same(f, g), g.pc \in OnACall, OnHarmlessCall(g) /\ ~w => ~isWriteCapableRole(Call(f).tool)
  PROVE  g \in Frames(tools, w)
  <1>1. Placed(f, w)
    BY DEF Frames
  <1>2. /\ f.idx \in DOMAIN f.turn /\ f.pend # NoPending /\ f.pend.calls = f.turn /\ f.pend.idx = f.idx
    BY <1>1 DEF Placed, OnMarkedCall
  <1>3. Call(g) = Call(f)
    BY DEF Same, Call, Batch
  <1>4. Placed(g, w)
    BY <1>2, <1>3 DEF Placed, Same, OnACall
  <1> QED
    BY <1>4 DEF Frames

LEMMA BeginCallOK ==
  ASSUME NEW tools, EngineInv(tools), BeginCall
  PROVE  EngineInv(tools)'
  <1> DEFINE w == park.wrote
             g == Goto(Top, "exec")
  <1>1. /\ At("start") /\ UNCHANGED <<rec, park, disk, queue, used>> /\ stack' = Put(g)
    BY DEF BeginCall
  <1>2. /\ stack # << >> /\ Top \in FrameType(tools, w) /\ Top \in Frames(tools, w) /\ Top.pc = "start"
        /\ ~park.question /\ used \in UsedType /\ queue \in Seq(Kinds)
    BY <1>1, Running, NoQuestion DEF Unwinding
  <1>3. "exec" \in Labels /\ "start" \in OnMarkedCall /\ "exec" \in OnACall
    BY DEF Labels, OnMarkedCall, OnACall
  <1>4. g \in FrameType(tools, w) /\ g.pc = "exec" /\ Same(Top, g)
    BY <1>2, <1>3, GotoType
  <1> HIDE DEF g
  <1>5. ~OnHarmlessCall(g)
    BY <1>4 DEF OnHarmlessCall
  <1>6. g \in Frames(tools, w)
    BY <1>2, <1>3, <1>4, <1>5, WithinCall
  <1> QED
    BY <1>1, <1>2, <1>4, <1>6, MoveOK DEF Same

\* A call is settled with an answer that fits it.
LEMMA SettledWithin ==
  ASSUME NEW tools, NEW w, NEW f \in Frames(tools, w), f.pc \in OnMarkedCall, NEW val \in Values,
         w \/ val \in Unexecuted \/ ~isWriteCapableRole(Call(f).tool)
  PROVE  /\ Settled(f, val) \in Frames(tools, w) /\ Settled(f, val).hand = f.hand
         /\ Settled(f, val).pend = f.pend /\ Settled(f, val).pc = "res"
  <1> DEFINE g == Settled(f, val)
  <1>1. f \in FrameType(tools, w)
    BY DEF Frames
  <1>2. g \in FrameType(tools, w) /\ g.pc = "res" /\ g.val = val /\ Same(f, g)
    BY <1>1, SettledType
  <1> HIDE DEF g
  <1>3. "res" \in OnACall
    BY DEF OnACall
  <1>4. OnHarmlessCall(g) => val \notin Unexecuted
    BY <1>2 DEF OnHarmlessCall
  <1>5. g \in Frames(tools, w)
    BY <1>2, <1>3, <1>4, WithinCall
  <1>6. g.hand = f.hand /\ g.pend = f.pend /\ g.pc = "res"
    BY <1>2 DEF Same
  <1> QED
    BY <1>5, <1>6 DEF g

LEMMA ExecuteToolOK ==
  ASSUME NEW tools, EngineInv(tools), ExecuteTool
  PROVE  EngineInv(tools)'
  <1> DEFINE w == park.wrote
             tool == Call(Top).tool
             val == IF IsFinish(tool) THEN CardOf[tool] ELSE "ok"
             g == Settled(Top, val)
             st == Put(g)
             n == Len(stack)
             x == UserMessage("redirect")
             A == [st EXCEPT ![n - 1].action = "abort"]
             R == [st EXCEPT ![n - 1] = [Push(@, x) EXCEPT !.action = "redirect"]]
  <1>1. /\ At("exec") /\ UNCHANGED <<rec, park, disk, queue, used>> /\ ~suspendsChild(tool)
    BY DEF ExecuteTool
  <1>2. /\ stack # << >> /\ Top \in Frames(tools, w) /\ Top.pc = "exec" /\ StackOK(stack, tools, w)
        /\ ~park.question /\ used \in UsedType /\ queue \in Seq(Kinds) /\ ParkOK(park, stack)
    BY <1>1, Running, NoQuestion DEF Unwinding
  <1>3. "exec" \in OnMarkedCall /\ ~isWriteCapableRole(tool)
    BY <1>1 DEF OnMarkedCall, OnACall, suspendsChild, isWriteCapableRole
  <1>4. val \in Values
    BY DEF Values, Cards, CardOf, IsFinish
  <1> HIDE DEF val
  <1>5. g \in Frames(tools, w) /\ g.hand = Top.hand
    BY <1>2, <1>3, <1>4, SettledWithin
  <1> HIDE DEF g
  <1>6. /\ StackOK(st, tools, w) /\ Len(st) = n /\ DOMAIN st = 1 .. n /\ n \in Nat /\ n # 0
    BY <1>2, <1>5, PutOK, TopOK DEF StackOK
  <1>7. stack' = st \/ stack' = A \/ stack' = R
    <2>1. Len(st) = n
      BY <1>6
    <2> QED
      BY <2>1 DEF ExecuteTool, g, val
  <1>8. st \in Seq(Frames(tools, w)) /\ \A k \in 1 .. n : st[k] \in Frames(tools, w)
    <2>1. st \in Seq(Frames(tools, w))
      BY <1>6 DEF StackOK
    <2> QED
      BY <1>6, <2>1
  <1> HIDE DEF n, st
  <1>9. x \in Messages(tools, w) /\ {"abort", "redirect"} \subseteq Actions
    BY MessageKinds DEF Notes, Actions
  <1> HIDE DEF x
  <1>10. ASSUME NEW f \in Frames(tools, w)
         PROVE  /\ [f EXCEPT !.action = "abort"] \in Frames(tools, w)
                /\ [f EXCEPT !.action = "abort"].hand = f.hand /\ [f EXCEPT !.action = "abort"].pc = f.pc
                /\ [Push(f, x) EXCEPT !.action = "redirect"] \in Frames(tools, w)
                /\ [Push(f, x) EXCEPT !.action = "redirect"].hand = f.hand
                /\ [Push(f, x) EXCEPT !.action = "redirect"].pc = f.pc
    <2>1. f \in FrameType(tools, w)
      BY DEF Frames
    <2> DEFINE a == [f EXCEPT !.action = "abort"]
               p == Push(f, x)
               b == [p EXCEPT !.action = "redirect"]
    <2>2. a \in FrameType(tools, w) /\ a.pc = f.pc /\ Same(f, a) /\ a.val = f.val
      BY <1>9, <2>1 DEF FrameType, Same
    <2>3. p \in FrameType(tools, w) /\ p.pc = f.pc /\ Same(f, p) /\ p.val = f.val
      BY <1>9, <2>1, PushType
    <2> HIDE DEF a, p
    <2>4. b \in FrameType(tools, w) /\ b.pc = p.pc /\ Same(p, b) /\ b.val = p.val
      BY <1>9, <2>3 DEF FrameType, Same
    <2> HIDE DEF b
    <2>5. b.pc = f.pc /\ Same(f, b) /\ b.val = f.val
      BY <2>3, <2>4 DEF Same
    <2>6. a \in Frames(tools, w) /\ b \in Frames(tools, w)
      BY <2>2, <2>4, <2>5, Beside
    <2>7. a.hand = f.hand /\ b.hand = f.hand
      BY <2>2, <2>5 DEF Same
    <2> QED
      BY <2>2, <2>5, <2>6, <2>7 DEF a, b, p
  <1>11. CASE stack' = st
    BY <1>1, <1>2, <1>5, <1>11, MoveOK DEF st
  <1>12. ASSUME NEW nt, nt = A \/ nt = R
         PROVE  StackOK(nt, tools, w)
    <2>1. DOMAIN nt = 1 .. n /\ \A k \in 1 .. n : nt[k] \in Frames(tools, w) /\ nt[k].hand = st[k].hand /\ nt[k].pc = st[k].pc
      <3>1. CASE nt = A
        BY <1>6, <1>8, <1>10, <3>1
      <3>2. CASE nt = R
        BY <1>6, <1>8, <1>10, <3>2
      <3> QED
        BY <1>12, <3>1, <3>2
    <2>2. nt = [k \in 1 .. n |-> nt[k]]
      <3>1. CASE nt = A
        BY <1>6, <3>1
      <3>2. CASE nt = R
        BY <1>6, <3>2
      <3> QED
        BY <1>12, <3>1, <3>2
    <2>3. nt \in [1 .. n -> Frames(tools, w)]
      BY <2>1, <2>2
    <2>4. nt \in Seq(Frames(tools, w)) /\ Len(nt) = n
      BY <1>6, <2>3
    <2> QED
      BY <1>6, <2>1, <2>4, EachFrame
  <1>13. CASE stack' = A \/ stack' = R
    <2>1. StackOK(stack', tools, w)
      BY <1>12, <1>13
    <2>2. ParkOK(park, stack')
      BY <1>2, NotAsked
    <2> QED
      BY <1>1, <2>1, <2>2 DEF EngineInv
  <1> QED
    BY <1>7, <1>11, <1>13

LEMMA SpawnAgentOK ==
  ASSUME NEW tools, EngineInv(tools), SpawnAgent
  PROVE  EngineInv(tools)'
  <1> DEFINE w == park.wrote
             g == Goto(Top, "wait")
             h == Settled(Top, "refused")
             writer == isWriteCapableRole(Call(Top).tool)
             v == w \/ writer
  <1>1. /\ At("exec") /\ UNCHANGED <<disk, queue, used>>
        /\ \/ stack' = Put(h) /\ UNCHANGED <<rec, park>>
           \/ StartRole(Put(g), Top.hand, writer)
    BY DEF SpawnAgent
  <1>2. /\ stack # << >> /\ Top \in Frames(tools, w) /\ Top \in FrameType(tools, w) /\ Top.pc = "exec"
        /\ ~park.question /\ used \in UsedType /\ queue \in Seq(Kinds) /\ ParkOK(park, stack)
        /\ tools \in Seq(STRING)
    BY <1>1, Running, NoQuestion DEF Unwinding, EngineInv
  <1>3. /\ "refused" \in Values /\ "refused" \in Unexecuted /\ "exec" \in OnMarkedCall /\ "wait" \in OnACall
        /\ "wait" \in Labels
    BY DEF Values, Unexecuted, OnMarkedCall, OnACall, Labels
  <1>4. CASE stack' = Put(h) /\ UNCHANGED <<rec, park>>
    <2>1. h \in Frames(tools, w) /\ h.hand = Top.hand
      BY <1>2, <1>3, SettledWithin
    <2> HIDE DEF h
    <2> QED
      BY <1>1, <1>2, <1>4, <2>1, MoveOK
  <1>5. CASE StartRole(Put(g), Top.hand, writer)
    <2>1. w \in BOOLEAN /\ writer \in BOOLEAN
      BY <1>2 DEF ParkOK, isWriteCapableRole
    <2>2. v \in BOOLEAN /\ (w => v) /\ (writer => v) /\ (v => w \/ writer)
      BY <2>1
    <2>3. WaitsFor(g, Frame(rec.counter + 1, Top.hand))
      BY <1>2 DEF WaitsFor, Frame, Goto, FrameType
    <2> HIDE DEF v
    <2>4. Top \in Frames(tools, v)
      <3>1. tools \o << >> = tools /\ << >> \in Seq(STRING)
        BY <1>2
      <3>2. Frames(tools, w) \subseteq Frames(tools \o << >>, v)
        BY <1>2, <2>1, <2>2, <3>1, Widen
      <3> QED
        BY <1>2, <3>1, <3>2
    <2>5. g \in FrameType(tools, v) /\ g.pc = "wait" /\ Same(Top, g)
      BY <1>3, <2>4, GotoType DEF Frames
    <2> HIDE DEF g
    <2>6. g \in Frames(tools, v)
      BY <1>2, <1>3, <2>2, <2>4, <2>5, WithinCall
    <2>7. g.hand = Top.hand /\ Top.hand \in BOOLEAN
      BY <1>2, <2>5 DEF Same, FrameType
    <2> HIDE DEF writer
    <2> QED
      BY <1>1, <1>2, <1>5, <2>1, <2>2, <2>3, <2>6, <2>7, StartRoleOK
  <1> QED
    BY <1>1, <1>4, <1>5

\* While no handler runs and no writer was started, the frames below the running one
\* wait for no writer.
LEMMA NoWriterBelow ==
  ASSUME NEW tools, NEW w, NEW st, StackOK(st, tools, w), ~w, NEW k \in DOMAIN st, k < Len(st), ~st[Len(st)].hand
  PROVE  ~st[k].hand /\ st[k].pc = "wait" /\ ~Delegates(st[k].pend)
  <1>1. st \in Seq(Frames(tools, w)) /\ Layered(st) /\ Waits(st)
    BY DEF StackOK
  <1>2. DOMAIN st = 1 .. Len(st) /\ Len(st) \in Nat /\ Len(st) \in DOMAIN st /\ k + 1 \in DOMAIN st
    BY <1>1
  <1>3. \A j \in DOMAIN st : ~st[j].hand
    <2>1. PICK m \in 0 .. Len(st) : \A j \in DOMAIN st : (st[j].hand => j > m) /\ (j > m => st[j].hand)
      BY <1>1 DEF Layered
    <2>2. ~(Len(st) > m)
      BY <1>2, <2>1
    <2>3. \A j \in DOMAIN st : ~(j > m)
      BY <1>2, <2>1, <2>2
    <2> QED
      BY <2>1, <2>3
  <1>4. st[k].pc = "wait" \/ (st[k].pc = "wait handler" /\ st[k + 1].hand)
    BY <1>1 DEF Waits
  <1>5. st[k].pc = "wait"
    BY <1>2, <1>3, <1>4
  <1>6. st[k] \in Frames(tools, w)
    BY <1>1
  <1> QED
    BY <1>3, <1>5, <1>6, WaitsForNoWriter

LEMMA AskParksOK ==
  ASSUME NEW tools, EngineInv(tools), AskParks
  PROVE  EngineInv(tools)'
  <1> DEFINE w == park.wrote
             g == Settled(Top, "parked")
             st == Put(g)
             n == Len(stack)
             id == Call(Top).id
             p == [park EXCEPT !.question = TRUE, !.ask = id, !.role = Top.id]
  <1>1. /\ At("exec") /\ UNCHANGED <<rec, disk, queue, used>> /\ Call(Top).tool = "ask" /\ ~park.wrote /\ ~Top.hand
        /\ stack' = st /\ park' = p
    BY DEF AskParks
  <1>2. /\ stack # << >> /\ Top \in Frames(tools, w) /\ Top \in FrameType(tools, w) /\ Top.pc = "exec"
        /\ StackOK(stack, tools, w) /\ ParkOK(park, stack) /\ tools \in Seq(STRING) /\ Placed(Top, w)
    BY <1>1, Running DEF EngineInv
  <1>3. "exec" \in OnMarkedCall /\ "exec" \in OnACall /\ ~isWriteCapableRole(Call(Top).tool) /\ "parked" \in Values
    BY <1>1 DEF OnMarkedCall, OnACall, isWriteCapableRole, Values
  <1>4. g \in Frames(tools, w) /\ g.hand = Top.hand /\ g.pend = Top.pend /\ g.pc = "res"
    BY <1>2, <1>3, SettledWithin
  <1> HIDE DEF g
  <1>5. /\ StackOK(st, tools, w) /\ DOMAIN st = 1 .. n /\ n \in Nat /\ n # 0
        /\ \A k \in 1 .. n : st[k] = IF k = n THEN g ELSE stack[k]
        /\ Len(st) = n
    <2>1. StackOK(st, tools, w) /\ Len(st) = n /\ \A k \in DOMAIN stack : st[k] = IF k = n THEN g ELSE stack[k]
      BY <1>2, <1>4, PutOK
    <2>2. DOMAIN stack = 1 .. n /\ n \in Nat /\ n # 0 /\ DOMAIN st = DOMAIN stack
      BY <1>2, <1>4, PutOK, TopOK DEF StackOK
    <2> QED
      BY <2>1, <2>2
  <1>6. Top.idx \in DOMAIN Top.turn /\ Top.pend # NoPending /\ Top.pend.calls = Top.turn /\ Top.pend.idx = Top.idx
    BY <1>2, <1>3 DEF Placed
  <1>7. ~Delegates(Top.pend)
    BY <1>3, <1>6 DEF Delegates, PendingCall, Call, Batch
  <1>8. id \in Nat /\ Top.id \in Nat
    <2>1. id \in DOMAIN tools
      BY <1>2, <1>6, CallOf
    <2> HIDE DEF id
    <2>2. id \in Nat
      BY <1>2, <2>1
    <2> QED
      BY <1>2, <2>2 DEF FrameType
  <1> HIDE DEF id, st, n
  <1>9. p \in [question : BOOLEAN, ask : Nat, role : Nat, wrote : BOOLEAN, tracked : BOOLEAN]
    BY <1>2, <1>8 DEF ParkOK
  <1>10. p.question = TRUE /\ p.wrote = park.wrote
    BY <1>2 DEF ParkOK
  <1> HIDE DEF p
  <1>11. ASSUME NEW k \in DOMAIN st
         PROVE  ~st[k].hand /\ ~Delegates(st[k].pend) /\ (k = Len(st) => st[k].pc \in Unwinding)
    <2>1. CASE k = n
      <3>1. st[k] = g
        BY <1>5, <2>1
      <3> QED
        BY <1>1, <1>4, <1>7, <3>1 DEF Unwinding
    <2>2. CASE k # n
      <3>1. k < Len(st) /\ k # Len(st) /\ st[Len(st)] = g
        BY <1>5, <2>2
      <3>2. ~st[Len(st)].hand
        BY <1>1, <1>4, <3>1
      <3> QED
        BY <1>1, <1>5, <3>1, <3>2, NoWriterBelow
    <2> QED
      BY <2>1, <2>2
  <1>12. ParkOK(p, st)
    BY <1>1, <1>9, <1>10, <1>11 DEF ParkOK
  <1> QED
    BY <1>1, <1>5, <1>10, <1>12 DEF EngineInv

LEMMA AskWaitsOK ==
  ASSUME NEW tools, EngineInv(tools), AskWaits
  PROVE  EngineInv(tools)'
  <1> DEFINE w == park.wrote
             g == Goto(Top, "asking")
  <1>1. /\ At("exec") /\ UNCHANGED <<rec, park, disk, queue, used>> /\ stack' = Put(g) /\ Call(Top).tool = "ask"
    BY DEF AskWaits
  <1>2. /\ stack # << >> /\ Top \in FrameType(tools, w) /\ Top \in Frames(tools, w) /\ Top.pc = "exec"
        /\ ~park.question /\ used \in UsedType /\ queue \in Seq(Kinds)
    BY <1>1, Running, NoQuestion DEF Unwinding
  <1>3. "asking" \in Labels /\ "exec" \in OnMarkedCall /\ "asking" \in OnACall /\ ~isWriteCapableRole(Call(Top).tool)
    BY <1>1 DEF Labels, OnMarkedCall, OnACall, isWriteCapableRole
  <1>4. g \in FrameType(tools, w) /\ g.pc = "asking" /\ Same(Top, g)
    BY <1>2, <1>3, GotoType
  <1> HIDE DEF g
  <1>5. g \in Frames(tools, w)
    BY <1>2, <1>3, <1>4, WithinCall
  <1>6. g.hand = Top.hand
    BY <1>4 DEF Same
  <1> QED
    BY <1>1, <1>2, <1>5, <1>6, MoveOK

LEMMA AskRejectedOK ==
  ASSUME NEW tools, EngineInv(tools), AskRejected
  PROVE  EngineInv(tools)'
  <1> DEFINE w == park.wrote
             g == Settled(Top, "invalid")
  <1>1. /\ At("exec") /\ UNCHANGED <<rec, park, disk, queue, used>> /\ stack' = Put(g) /\ Call(Top).tool = "ask"
    BY DEF AskRejected
  <1>2. /\ stack # << >> /\ Top \in Frames(tools, w) /\ Top.pc = "exec"
        /\ ~park.question /\ used \in UsedType /\ queue \in Seq(Kinds)
    BY <1>1, Running, NoQuestion DEF Unwinding
  <1>3. "invalid" \in Values /\ "exec" \in OnMarkedCall /\ ~isWriteCapableRole(Call(Top).tool)
    BY <1>1 DEF Values, OnMarkedCall, OnACall, isWriteCapableRole
  <1>4. g \in Frames(tools, w) /\ g.hand = Top.hand
    BY <1>2, <1>3, SettledWithin
  <1> HIDE DEF g
  <1> QED
    BY <1>1, <1>2, <1>4, MoveOK

LEMMA SubmitAnswerOK ==
  ASSUME NEW tools, EngineInv(tools), submitAnswer
  PROVE  EngineInv(tools)'
  <1> DEFINE w == park.wrote
             g == Settled(Top, "answer")
  <1>1. /\ At("asking") /\ UNCHANGED <<rec, park, disk, queue, used>> /\ stack' = Put(g)
    BY DEF submitAnswer
  <1>2. /\ stack # << >> /\ Top \in Frames(tools, w) /\ Top.pc = "asking" /\ Placed(Top, w)
        /\ ~park.question /\ used \in UsedType /\ queue \in Seq(Kinds)
    BY <1>1, Running, NoQuestion DEF Unwinding
  <1>3. "answer" \in Values /\ "asking" \in OnMarkedCall
    BY DEF Values, OnMarkedCall, OnACall
  <1>4. w \/ ~isWriteCapableRole(Call(Top).tool)
    BY <1>2 DEF Placed, OnHarmlessCall
  <1>5. g \in Frames(tools, w) /\ g.hand = Top.hand
    BY <1>2, <1>3, <1>4, SettledWithin
  <1> HIDE DEF g
  <1> QED
    BY <1>1, <1>2, <1>5, MoveOK

-----------------------------------------------------------------------------
(* The results of a turn's calls.                                          *)

\* The card of a child on its parent's marker.
LEMMA CardedPending ==
  ASSUME NEW tools, NEW w, NEW p \in Pendings(tools, w), p # NoPending, NEW card \in Values,
         w \/ ~isWriteCapableRole(PendingCall(p).tool)
  PROVE  LET q == [p EXCEPT !.card = card]
         IN q \in Pendings(tools, w) /\ q # NoPending /\ q.calls = p.calls /\ q.idx = p.idx
  <1> DEFINE q == [p EXCEPT !.card = card]
  <1>1. p \in [calls : Seq(Calls(tools)), idx : Nat, card : Values] /\ p.idx \in DOMAIN p.calls
    BY DEF Pendings
  <1>2. q \in [calls : Seq(Calls(tools)), idx : Nat, card : Values] /\ q.calls = p.calls /\ q.idx = p.idx
    BY <1>1
  <1> HIDE DEF q
  <1>3. PendingCall(q) = PendingCall(p)
    BY <1>2 DEF PendingCall
  <1>4. q \in Pendings(tools, w)
    BY <1>1, <1>2, <1>3 DEF Pendings
  <1>5. p.idx # 0
    BY <1>1
  <1>6. q # NoPending
    BY <1>2, <1>5 DEF NoPending
  <1> QED
    BY <1>2, <1>4, <1>6 DEF q

LEMMA RecordChildCardOK ==
  ASSUME NEW tools, EngineInv(tools), RecordChildCard
  PROVE  EngineInv(tools)'
  <1> DEFINE w == park.wrote
             q == [Top.pend EXCEPT !.card = Top.val]
             g == [Top EXCEPT !.pend = q, !.pc = "res"]
  <1>1. At("carded") /\ UNCHANGED <<queue, used>> /\ Write("ordinary", Put([Top EXCEPT !.pend.card = Top.val, !.pc = "res"]), rec, park)
    BY DEF RecordChildCard
  <1>2. /\ stack # << >> /\ Top \in FrameType(tools, w) /\ Top.pc = "carded" /\ RecOK(rec, tools, w)
        /\ park.question => ~Delegates(Top.pend)
    BY <1>1, Running
  <1>3. Placed(Top, w)
    BY <1>1, Running
  <1>4. /\ Top.idx \in DOMAIN Top.turn /\ Top.pend # NoPending /\ Top.pend.calls = Top.turn /\ Top.pend.idx = Top.idx
        /\ w \/ ~isWriteCapableRole(Call(Top).tool)
    BY <1>2, <1>3 DEF Placed, OnACall, OnMarkedCall, OnHarmlessCall
  <1>5. PendingCall(Top.pend) = Call(Top)
    BY <1>4 DEF PendingCall, Call, Batch
  <1>6. Top.pend \in Pendings(tools, w) /\ Top.val \in Values
    BY <1>2 DEF FrameType
  <1>7. q \in Pendings(tools, w) /\ q # NoPending /\ q.calls = Top.pend.calls /\ q.idx = Top.pend.idx
    BY <1>4, <1>5, <1>6, CardedPending
  <1>8. [Top EXCEPT !.pend.card = Top.val, !.pc = "res"] = g
    BY <1>2 DEF FrameType
  <1> HIDE DEF q
  <1>9. /\ g \in FrameType(tools, w) /\ g.pc = "res" /\ g.hand = Top.hand /\ g.pend = q
        /\ g.turn = Top.turn /\ g.idx = Top.idx
    BY <1>2, <1>7 DEF FrameType, Labels
  <1> HIDE DEF g
  <1>10. Call(g) = Call(Top)
    BY <1>9 DEF Call, Batch
  <1>11. g \in Frames(tools, w)
    BY <1>4, <1>9, <1>10 DEF Frames, Placed, OnMarkedCall
  <1>12. park.question => ~Delegates(g.pend) /\ g.pc \in Unwinding
    <2>1. PendingCall(q) = PendingCall(Top.pend)
      BY <1>7 DEF PendingCall
    <2> QED
      BY <1>2, <1>4, <1>7, <1>9, <2>1 DEF Delegates, Unwinding
  <1> QED
    BY <1>1, <1>2, <1>8, <1>9, <1>11, <1>12, MoveWriteOK

LEMMA RecordToolResultOK ==
  ASSUME NEW tools, EngineInv(tools), recordToolResult
  PROVE  EngineInv(tools)'
  <1> DEFINE w == park.wrote
             x == ToolMessage(Call(Top).id, Top.val)
             g == [Push(Top, x) EXCEPT !.calls = @ + 1]
             c == [g EXCEPT !.pc = "closing", !.idx = @ + 1]
             f == IF IsFinish(Call(Top).tool) THEN c ELSE Goto(g, "settle")
             o == Onward(f)
             a == [o EXCEPT !.pend = NoPending, !.mode = "rest"]
             b == [f EXCEPT !.mode = "reconcile"]
             h == CASE Top.mode = "child" -> a [] Top.mode = "replay" -> b [] OTHER -> f
  <1>1. /\ At("res") /\ UNCHANGED <<rec, park, disk, queue, used>> /\ stack' = Put(h)
    BY DEF recordToolResult
  <1>2. /\ stack # << >> /\ Top \in Frames(tools, w) /\ Top.pc = "res" /\ Placed(Top, w) /\ Top \in FrameType(tools, w)
        /\ used \in UsedType /\ queue \in Seq(Kinds)
    BY <1>1, Running
  <1>13. park.question => ~Delegates(Top.pend)
    BY <1>1, Running
  <1>3. Top.idx \in DOMAIN Top.turn /\ (w \/ Top.val \in Unexecuted \/ ~isWriteCapableRole(Call(Top).tool))
    BY <1>2 DEF Placed, OnACall, OnHarmlessCall
  <1>4. x \in Messages(tools, w)
    <2>1. Top.val \in Values
      BY <1>2 DEF FrameType
    <2> QED
      BY <1>2, <1>3, <2>1, AnswerType
  <1> HIDE DEF x
  <1>5. g \in FrameType(tools, w) /\ g.hand = Top.hand /\ g.pend = Top.pend
    BY <1>2, <1>4, CountedType DEF Same
  <1> HIDE DEF g
  <1> DEFINE Fits(y) == y \in Frames(tools, w) /\ y \in FrameType(tools, w) /\ y.hand = Top.hand
  <1>6. Fits(c) /\ c.pend = Top.pend /\ c.pc = "closing"
    <2>1. g.idx \in Nat
      BY <1>5 DEF FrameType
    <2> DEFINE i == g.idx + 1
    <2>2. i \in Nat /\ i # 0
      BY <2>1
    <2>3. c = [g EXCEPT !.pc = "closing", !.idx = i]
      OBVIOUS
    <2> HIDE DEF i, c
    <2>4. "closing" \in Labels
      BY DEF Labels
    <2>5. c \in FrameType(tools, w)
      BY <1>5, <2>2, <2>3, <2>4 DEF FrameType
    <2>6. c.hand = g.hand /\ c.pend = g.pend /\ c.pc = "closing" /\ c.idx = i
      BY <1>5, <2>3 DEF FrameType
    <2>7. c \in Frames(tools, w)
      BY <2>2, <2>5, <2>6 DEF Frames, Placed, OnACall, OnMarkedCall, OnHarmlessCall
    <2> QED
      BY <1>5, <2>5, <2>6, <2>7
  <1> HIDE DEF c
  <1>7. "settle" \in Labels \ (OnACall \cup {"disp", "closing"})
    BY DEF Labels, OnACall
  <1>8. /\ Goto(g, "settle") \in Frames(tools, w) /\ Goto(g, "settle").pc = "settle"
        /\ Goto(g, "settle").hand = Top.hand /\ Goto(g, "settle").pend = Top.pend
    BY <1>5, <1>7, GotoLoose
  <1>9. f \in Frames(tools, w) /\ f \in FrameType(tools, w) /\ f.hand = Top.hand /\ f.pend = Top.pend /\ f.pc \in {"closing", "settle"}
    BY <1>6, <1>8 DEF Frames
  <1> HIDE DEF f
  <1>10. o \in FrameType(tools, w) /\ o.hand = Top.hand /\ o.pc = "disp" /\ o \in Frames(tools, w)
    BY <1>9, OnwardType
  <1> HIDE DEF o
  <1>11. a \in Frames(tools, w) /\ a.hand = Top.hand /\ ~Delegates(a.pend) /\ a.pc = "disp"
    <2>1. NoPending \in Pendings(tools, w) /\ ~Delegates(NoPending)
      BY NoPendingType
    <2>2. a \in FrameType(tools, w) /\ a.hand = o.hand /\ a.pend = NoPending /\ a.pc = o.pc /\ a.idx = o.idx
      BY <1>10, <2>1 DEF FrameType, Modes
    <2> HIDE DEF a
    <2>3. o.idx # 0
      BY <1>10 DEF Frames, Placed
    <2>4. a \in Frames(tools, w)
      BY <1>10, <2>2, <2>3 DEF Frames, Placed, OnACall, OnMarkedCall, OnHarmlessCall
    <2> QED
      BY <1>10, <2>1, <2>2, <2>4
  <1> HIDE DEF a
  <1>12. b \in Frames(tools, w) /\ b.hand = Top.hand /\ b.pend = Top.pend /\ b.pc = f.pc
    <2>1. b \in FrameType(tools, w) /\ b.pc = f.pc /\ Same(f, b) /\ b.val = f.val
      BY <1>9 DEF FrameType, Modes, Same
    <2> HIDE DEF b
    <2>2. b \in Frames(tools, w)
      BY <1>9, <2>1, Beside
    <2> QED
      BY <1>9, <2>1, <2>2 DEF Same
  <1> HIDE DEF b
  <1>14. h \in Frames(tools, w) /\ h.hand = Top.hand
    BY <1>9, <1>11, <1>12
  <1>15. park.question => ~Delegates(h.pend) /\ h.pc \in Unwinding
    <2>1. h.pc \in {"disp", "closing", "settle"} /\ (~Delegates(Top.pend) => ~Delegates(h.pend))
      BY <1>9, <1>11, <1>12
    <2> QED
      BY <1>13, <2>1 DEF Unwinding
  <1> HIDE DEF h
  <1> QED
    BY <1>1, <1>2, <1>14, <1>15, MoveOK

LEMMA SettleCallOK ==
  ASSUME NEW tools, EngineInv(tools), SettleCall
  PROVE  EngineInv(tools)'
  <1> DEFINE w == park.wrote
             p == IF KeepsPending(Top) THEN Top.pend ELSE NoPending
             c == [Top EXCEPT !.pend = p]
             g == Onward(c)
             h == Onward(Top)
  <1>1. /\ At("settle") /\ UNCHANGED <<queue, used>>
        /\ \/ stack' = Put(h) /\ UNCHANGED <<rec, park, disk>>
           \/ Write("ordinary", Put(g), rec, park)
    BY DEF SettleCall
  <1>2. /\ stack # << >> /\ Top \in FrameType(tools, w) /\ used \in UsedType
        /\ queue \in Seq(Kinds) /\ RecOK(rec, tools, w)
        /\ park.question => ~Delegates(Top.pend)
    BY <1>1, Running
  <1>3. p \in Pendings(tools, w) /\ (~Delegates(Top.pend) => ~Delegates(p))
    BY <1>2, NoPendingType DEF FrameType
  <1> HIDE DEF p
  <1>4. c \in FrameType(tools, w) /\ c.hand = Top.hand /\ c.pend = p
    BY <1>2, <1>3 DEF FrameType
  <1> HIDE DEF c
  <1>5. h \in Frames(tools, w) /\ h.hand = Top.hand /\ h.pend = Top.pend /\ h.pc = "disp"
    BY <1>2, OnwardType
  <1>6. g \in Frames(tools, w) /\ g.hand = Top.hand /\ g.pend = p /\ g.pc = "disp"
    BY <1>4, OnwardType
  <1> HIDE DEF g, h
  <1>7. park.question => ~Delegates(g.pend) /\ g.pc \in Unwinding /\ ~Delegates(h.pend) /\ h.pc \in Unwinding
    BY <1>2, <1>3, <1>5, <1>6 DEF Unwinding
  <1>8. CASE stack' = Put(h) /\ UNCHANGED <<rec, park, disk>>
    BY <1>1, <1>2, <1>5, <1>7, <1>8, MoveOK
  <1>9. CASE Write("ordinary", Put(g), rec, park)
    BY <1>1, <1>2, <1>6, <1>7, <1>9, MoveWriteOK
  <1> QED
    BY <1>1, <1>8, <1>9

LEMMA CloseUnexecutedCallsOK ==
  ASSUME NEW tools, EngineInv(tools), closeUnexecutedCalls
  PROVE  EngineInv(tools)'
  <1> DEFINE w == park.wrote
             f == [Top EXCEPT !.idx = @ + 1]
             x == ToolMessage(Call(Top).id, "unexecuted")
             g == [Push(f, x) EXCEPT !.calls = @ + 1]
  <1>1. /\ At("closing") /\ UNCHANGED <<rec, park, disk, queue, used>> /\ (stack' = Put(g) \/ stack' = Put(f))
        /\ Top.idx <= Len(Batch(Top))
    BY DEF closeUnexecutedCalls
  <1>2. /\ stack # << >> /\ Top \in FrameType(tools, w) /\ Top \in Frames(tools, w) /\ Top.pc = "closing"
        /\ used \in UsedType /\ queue \in Seq(Kinds)
        /\ park.question => ~Delegates(Top.pend)
    BY <1>1, Running
  <1>3. Top.idx \in DOMAIN Top.turn
    BY <1>1, <1>2, AtACall
  <1>4. "unexecuted" \in Values /\ "unexecuted" \in Unexecuted
    BY DEF Values, Unexecuted
  <1>5. x \in Messages(tools, w)
    BY <1>2, <1>3, <1>4, AnswerType
  <1> HIDE DEF x
  <1>6. f \in FrameType(tools, w) /\ f.pc = "closing" /\ f.hand = Top.hand /\ f.pend = Top.pend /\ f.idx # 0
    <2>1. Top.idx \in Nat
      BY <1>2 DEF FrameType
    <2> DEFINE i == Top.idx + 1
    <2>2. i \in Nat /\ i # 0 /\ f = [Top EXCEPT !.idx = i]
      BY <2>1
    <2> HIDE DEF i, f
    <2> QED
      BY <1>2, <2>2 DEF FrameType
  <1> HIDE DEF f
  <1>7. /\ g \in FrameType(tools, w) /\ g.pc = "closing" /\ g.hand = Top.hand /\ g.pend = Top.pend /\ g.idx # 0
    BY <1>5, <1>6, CountedType DEF Same
  <1> HIDE DEF g
  <1>8. f \in Frames(tools, w) /\ g \in Frames(tools, w)
    BY <1>6, <1>7 DEF Frames, Placed, OnACall, OnMarkedCall, OnHarmlessCall
  <1>9. park.question => ~Delegates(f.pend) /\ f.pc \in Unwinding /\ ~Delegates(g.pend) /\ g.pc \in Unwinding
    BY <1>2, <1>6, <1>7 DEF Unwinding
  <1>10. CASE stack' = Put(f)
    BY <1>1, <1>2, <1>6, <1>8, <1>9, <1>10, MoveOK
  <1>11. CASE stack' = Put(g)
    BY <1>1, <1>2, <1>7, <1>8, <1>9, <1>11, MoveOK
  <1> QED
    BY <1>1, <1>10, <1>11

LEMMA FinishTurnOK ==
  ASSUME NEW tools, EngineInv(tools), FinishTurn
  PROVE  EngineInv(tools)'
  <1> DEFINE w == park.wrote
             f == [Top EXCEPT !.pend = NoPending]
             m == Noted(f)
             next == IF f.mode = "reconcile" /\ f.note THEN LoopTop(m) ELSE EndWith(m, f.val)
             c == Checkpoint("ordinary", rec, Put(f), park)
             pre == [rec EXCEPT !.pre = PreInterlude("ordinary", rec, c)]
  <1>1. /\ At("closing") /\ UNCHANGED <<park, queue, used>> /\ stack' = Put(next)
        /\ (disk' = c /\ rec' = pre) \/ UNCHANGED <<disk, rec>>
    BY DEF FinishTurn
  <1>2. /\ stack # << >> /\ Top \in FrameType(tools, w) /\ Top \in Frames(tools, w) /\ Top.pc = "closing"
        /\ Placed(Top, w) /\ RecOK(rec, tools, w) /\ DiskOK(disk, tools)
        /\ StackOK(stack, tools, w) /\ ParkOK(park, stack)
    BY <1>1, Running
  <1>3. /\ f \in FrameType(tools, w) /\ f.pc = "closing" /\ f.hand = Top.hand /\ f.val = Top.val
        /\ f.idx = Top.idx /\ ~Delegates(f.pend)
    BY <1>2, ClearedType
  <1> HIDE DEF f
  <1>4. f \in Frames(tools, w)
    BY <1>2, <1>3 DEF Frames, Placed, OnACall, OnMarkedCall, OnHarmlessCall
  <1>5. m \in FrameType(tools, w) /\ m.hand = Top.hand /\ ~Delegates(m.pend)
    BY <1>3, NotedType DEF Same
  <1> HIDE DEF m
  <1>6. f.val \in Values
    BY <1>3 DEF FrameType
  <1>7. LoopTop(m) \in Frames(tools, w) /\ LoopTop(m).hand = Top.hand /\ ~Delegates(LoopTop(m).pend) /\ LoopTop(m).pc = "top"
    BY <1>5, LoopTopType
  <1>8. /\ EndWith(m, f.val) \in Frames(tools, w) /\ EndWith(m, f.val).hand = Top.hand
        /\ ~Delegates(EndWith(m, f.val).pend) /\ EndWith(m, f.val).pc = "end"
    BY <1>5, <1>6, EndWithType DEF Same
  <1>9. next \in Frames(tools, w) /\ next.hand = Top.hand /\ ~Delegates(next.pend) /\ next.pc \in {"top", "end"}
    BY <1>7, <1>8
  <1> HIDE DEF next
  <1>10. StackOK(Put(next), tools, w) /\ ParkOK(park, Put(next))
    BY <1>2, <1>9, PutOK, PutAsked DEF Unwinding
  <1>11. StackOK(Put(f), tools, w) /\ ParkOK(park, Put(f))
    BY <1>2, <1>3, <1>4, PutOK, PutAsked DEF Unwinding
  <1>12. DiskOK(c, tools) /\ c.wrote = w
    BY <1>2, <1>11, CheckpointSaved DEF Checkpoint
  <1> HIDE DEF c
  <1>13. RecOK(pre, tools, w)
    BY <1>2, <1>12, PreOK
  <1> HIDE DEF pre
  <1>14. RecOK(rec', tools, w) /\ DiskOK(disk', tools)
    BY <1>1, <1>2, <1>12, <1>13
  <1> QED
    BY <1>1, <1>10, <1>14 DEF EngineInv

-----------------------------------------------------------------------------
(* The end of a role and of the run.                                       *)

\* The frame a child's card is delivered to.
LEMMA DeliveredType ==
  ASSUME NEW tools, NEW w, NEW f \in Frames(tools, w), NEW card \in Values,
         f.pc = "wait" \/ f.pc = "wait handler"
  PROVE  /\ Delivered(f, card) \in Frames(tools, w) /\ Delivered(f, card).hand = f.hand
         /\ Delivered(f, card).pend = f.pend
         /\ f.pc = "wait" => Delivered(f, card).pc = "carded"
  <1> DEFINE l == IF f.pc = "wait" THEN "carded" ELSE "handled"
             g == [f EXCEPT !.val = card, !.pc = l]
  <1>1. f \in FrameType(tools, w) /\ Placed(f, w)
    BY DEF Frames
  <1>2. l \in Labels
    BY DEF Labels
  <1>3. f.pc # "wait" => l \notin OnACall \cup {"disp", "closing"}
    BY DEF OnACall
  <1>4. f.pc = "wait" => l = "carded"
    OBVIOUS
  <1>5. Delivered(f, card) = g
    BY DEF Delivered
  <1> HIDE DEF l
  <1>6. g \in FrameType(tools, w) /\ g.pc = l /\ Same(f, g)
    BY <1>1, <1>2 DEF FrameType, Same
  <1> HIDE DEF g
  <1>7. g \in Frames(tools, w)
    <2>1. CASE f.pc = "wait"
      <3>1. "wait" \in OnMarkedCall /\ "carded" \in OnACall
        BY DEF OnMarkedCall, OnACall
      <3>2. w \/ ~isWriteCapableRole(Call(f).tool)
        BY <1>1, <2>1 DEF Placed, OnHarmlessCall
      <3> QED
        BY <1>4, <1>6, <2>1, <3>1, <3>2, WithinCall
    <2>2. CASE f.pc # "wait"
      BY <1>3, <1>6, <2>2, Loose
    <2> QED
      BY <2>1, <2>2
  <1>8. g.hand = f.hand /\ g.pend = f.pend /\ (f.pc = "wait" => g.pc = "carded")
    BY <1>4, <1>6 DEF Same
  <1> QED
    BY <1>5, <1>7, <1>8

\* The stack without its running frame, the card delivered to the frame below it.
PoppedStack(st, m, card) == [Front(st) EXCEPT ![m] = Delivered(@, card)]

\* Sequence nt is st without its last frame, the card delivered to the frame below it.
Popped(nt, st, m) ==
  /\ Len(nt) = m /\ DOMAIN nt = 1 .. m
  /\ \A k \in 1 .. m : /\ nt[k].hand = st[k].hand /\ nt[k].pend = st[k].pend
                       /\ k = m /\ st[k].pc = "wait" => nt[k].pc = "carded"

LEMMA PopOK ==
  ASSUME NEW tools, NEW w, NEW st, StackOK(st, tools, w), NEW card \in Values, NEW m \in Nat, Len(st) = m + 1, m # 0
  PROVE  StackOK(PoppedStack(st, m, card), tools, w) /\ Popped(PoppedStack(st, m, card), st, m)
  <1> DEFINE nt == PoppedStack(st, m, card)
             g == Delivered(st[m], card)
  <1>1. st \in Seq(Frames(tools, w)) /\ Layered(st) /\ Waits(st)
    BY DEF StackOK
  <1>2. Len(st) \in Nat /\ DOMAIN st = 1 .. Len(st) /\ m \in Nat /\ m \in DOMAIN st /\ Len(st) = m + 1
    BY <1>1
  <1>3. Front(st) = [k \in 1 .. m |-> st[k]]
    <2>1. Front(st) = SubSeq(st, 1, Len(st) - 1)
      BY DEF Front
    <2> QED
      BY <1>1, <1>2, <2>1, SubSeqProperties
  <1>4. \A k \in 1 .. m : st[k] \in Frames(tools, w)
    BY <1>1, <1>2
  <1>5. st[m].pc = "wait" \/ st[m].pc = "wait handler"
    <2>1. m < Len(st) /\ Waits(st)
      BY <1>1, <1>2
    <2> QED
      BY <1>2, <2>1 DEF Waits
  <1>6. g \in Frames(tools, w) /\ g.hand = st[m].hand /\ g.pend = st[m].pend /\ (st[m].pc = "wait" => g.pc = "carded")
    <2>1. st[m] \in Frames(tools, w)
      BY <1>2, <1>4
    <2> DEFINE f == st[m]
    <2>2. f \in Frames(tools, w) /\ (f.pc = "wait" \/ f.pc = "wait handler")
      BY <1>5, <2>1
    <2> HIDE DEF f
    <2>3. /\ Delivered(f, card) \in Frames(tools, w) /\ Delivered(f, card).hand = f.hand
          /\ Delivered(f, card).pend = f.pend
          /\ f.pc = "wait" => Delivered(f, card).pc = "carded"
      BY <2>2, DeliveredType
    <2> QED
      BY <2>3 DEF f
  <1>7. nt = [k \in 1 .. m |-> IF k = m THEN g ELSE st[k]]
    <2> DEFINE rest == Front(st)
    <2>1. nt = [rest EXCEPT ![m] = Delivered(@, card)]
      BY DEF PoppedStack
    <2> HIDE DEF rest, nt
    <2>2. rest[m] = st[m] /\ m \in 1 .. m
      BY <1>2, <1>3 DEF rest
    <2>3. nt = [rest EXCEPT ![m] = g]
      BY <2>1, <2>2
    <2>4. rest = [k \in 1 .. m |-> st[k]]
      BY <1>3 DEF rest
    <2> HIDE DEF g
    <2> QED
      BY <2>2, <2>3, <2>4
  <1> HIDE DEF g, nt
  <1>8. nt \in [1 .. m -> Frames(tools, w)]
    BY <1>4, <1>6, <1>7
  <1>9. nt \in Seq(Frames(tools, w)) /\ Len(nt) = m /\ DOMAIN nt = 1 .. m
    <2>1. m \in Nat
      OBVIOUS
    <2> QED
      BY <1>8, <2>1
  <1>10. /\ \A k \in 1 .. m : nt[k].hand = st[k].hand
         /\ \A k \in 1 .. m : nt[k].pend = st[k].pend
         /\ st[m].pc = "wait" => nt[m].pc = "carded"
    BY <1>2, <1>6, <1>7
  <1>11. Layered(nt)
    <2>1. PICK i \in 0 .. Len(st) : \A k \in DOMAIN st : (st[k].hand => k > i) /\ (k > i => st[k].hand)
      BY <1>1 DEF Layered
    <2> DEFINE j == IF i > m THEN m ELSE i
    <2>2. j \in 0 .. m /\ \A k \in 1 .. m : (k > j => k > i) /\ (k > i => k > j)
      BY <1>2, <2>1
    <2> HIDE DEF j
    <2>3. \A k \in 1 .. m : k \in DOMAIN st
      BY <1>2
    <2>4. \A k \in DOMAIN nt : (nt[k].hand => k > j) /\ (k > j => nt[k].hand)
      BY <1>9, <1>10, <2>1, <2>2, <2>3
    <2> QED
      BY <1>9, <2>2, <2>4 DEF Layered
  <1>12. ASSUME NEW k \in DOMAIN nt, k < Len(nt)
         PROVE  nt[k].pc = "wait" \/ (nt[k].pc = "wait handler" /\ nt[k + 1].hand)
    <2>1. k \in DOMAIN st /\ k < Len(st) /\ k # m /\ k + 1 \in 1 .. m /\ k \in 1 .. m
      BY <1>2, <1>9, <1>12
    <2>2. st[k].pc = "wait" \/ (st[k].pc = "wait handler" /\ st[k + 1].hand)
      BY <1>1, <2>1 DEF Waits
    <2>3. nt[k].pc = st[k].pc /\ nt[k + 1].hand = st[k + 1].hand
      BY <1>7, <1>10, <2>1
    <2> QED
      BY <2>2, <2>3
  <1>13. Waits(nt)
    BY <1>12 DEF Waits
  <1>14. StackOK(nt, tools, w)
    BY <1>9, <1>11, <1>13 DEF StackOK
  <1>15. Popped(nt, st, m)
    BY <1>9, <1>10 DEF Popped
  <1> QED
    BY <1>14, <1>15 DEF nt

LEMMA EndChildOK ==
  ASSUME NEW tools, EngineInv(tools), EndChild
  PROVE  EngineInv(tools)'
  <1> DEFINE w == park.wrote
             n == Len(stack)
             m == n - 1
             nt == PoppedStack(stack, m, Top.val)
  <1>1. At("end") /\ UNCHANGED <<rec, park, disk, queue, used>> /\ n > 1
    BY DEF EndChild
  <1>2. /\ stack # << >> /\ Top \in FrameType(tools, w) /\ StackOK(stack, tools, w) /\ ParkOK(park, stack)
    BY <1>1, Running
  <1>3. n \in Nat /\ DOMAIN stack = 1 .. n /\ m \in Nat /\ m = Len(stack) - 1 /\ m > 0 /\ Len(stack) = n /\ stack \in Seq(Frames(tools, w))
    BY <1>1, <1>2 DEF StackOK
  <1>4. Top.val \in Values
    BY <1>2 DEF FrameType
  <1>5. stack' = nt
    <2>1. Len(Front(stack)) = m
      <3>1. Front(stack) = SubSeq(stack, 1, m)
        BY DEF Front
      <3> QED
        BY <1>3, <3>1, SubSeqProperties
    <2> QED
      BY <2>1 DEF EndChild, PoppedStack
  <1>6. StackOK(nt, tools, w) /\ Popped(nt, stack, m)
    <2>1. m # 0 /\ Len(stack) = m + 1
      BY <1>3
    <2> HIDE DEF m
    <2> QED
      BY <1>2, <1>3, <1>4, <2>1, PopOK
  <1> HIDE DEF nt
  <1>8. /\ Len(nt) = m /\ DOMAIN nt = 1 .. m
        /\ \A k \in 1 .. m : /\ nt[k].hand = stack[k].hand /\ nt[k].pend = stack[k].pend
                             /\ k = m /\ stack[k].pc = "wait" => nt[k].pc = "carded"
    BY <1>6 DEF Popped
  <1>7. ParkOK(park, nt)
    <2>1. ASSUME park.question, NEW k \in DOMAIN nt
          PROVE  ~nt[k].hand /\ ~Delegates(nt[k].pend) /\ (k = Len(nt) => nt[k].pc \in Unwinding)
      <3>1. k \in DOMAIN stack /\ k < Len(stack) /\ k \in 1 .. m
        <4>1. k \in 1 .. m
          BY <1>8
        <4> QED
          BY <1>3, <4>1
      <3>2. ~park.wrote /\ ~stack[k].hand /\ ~Delegates(stack[k].pend) /\ ~stack[n].hand
        BY <1>2, <1>3, <2>1, <3>1 DEF ParkOK
      <3>3. stack[k].pc = "wait"
        BY <1>2, <3>1, <3>2, NoWriterBelow
      <3>4. k = m => nt[k].pc = "carded"
        BY <1>8, <3>1, <3>3
      <3>5. "carded" \in Unwinding
        BY DEF Unwinding
      <3>6. nt[k].hand = stack[k].hand /\ nt[k].pend = stack[k].pend
        BY <1>8, <3>1
      <3>7. ~nt[k].hand /\ ~Delegates(nt[k].pend)
        BY <3>2, <3>6
      <3>8. k = Len(nt) => nt[k].pc \in Unwinding
        BY <1>8, <3>4, <3>5
      <3> QED
        BY <3>7, <3>8
    <2> QED
      BY <1>2, <2>1 DEF ParkOK
  <1> QED
    BY <1>1, <1>5, <1>6, <1>7 DEF EngineInv

LEMMA EndRootOK ==
  ASSUME NEW tools, EngineInv(tools), EndRoot
  PROVE  EngineInv(tools)'
  <1> DEFINE c == Checkpoint("ordinary", rec, stack, park)
  <1>1. Forget /\ UNCHANGED used /\ (disk' = c \/ disk' = disk)
    BY DEF EndRoot
  <1>2. /\ StackOK(stack, tools, park.wrote) /\ ParkOK(park, stack) /\ RecOK(rec, tools, park.wrote)
        /\ DiskOK(disk, tools) /\ used \in UsedType
    BY DEF EngineInv
  <1>3. DiskOK(c, tools)
    BY <1>2, CheckpointSaved
  <1> HIDE DEF c
  <1>4. DiskOK(disk', tools)
    BY <1>1, <1>2, <1>3
  <1> QED
    BY <1>1, <1>2, <1>4, ForgetOK

\* Nothing is on disk.
LEMMA NothingOnDisk ==
  ASSUME NEW tools
  PROVE  DiskOK(NoCheckpoint, tools)
  <1>1. NoInterlude \in Interludes
    BY DEF NoInterlude, Interludes, Triggers
  <1>2. SavedOK(<< >>, tools, FALSE)
    BY DEF SavedOK
  <1> QED
    BY <1>1, <1>2 DEF DiskOK, NoCheckpoint, SavedOK

LEMMA DeleteCheckpointOK ==
  ASSUME NEW tools, EngineInv(tools), DeleteCheckpoint
  PROVE  EngineInv(tools)'
  <1>1. disk' = NoCheckpoint /\ UNCHANGED <<stack, rec, park, queue, used>>
    BY DEF DeleteCheckpoint, volatile
  <1>2. DiskOK(disk', tools)
    BY <1>1, NothingOnDisk
  <1> QED
    BY <1>1, <1>2 DEF EngineInv

-----------------------------------------------------------------------------
(* The operator, the crash and the boot.                                   *)

LEMMA SubmitRequestOK ==
  ASSUME NEW tools, EngineInv(tools), SubmitRequest
  PROVE  EngineInv(tools)'
  <1>1. /\ UNCHANGED <<stack, rec, park, disk>> /\ used' = [used EXCEPT !.requests = @ + 1]
    BY DEF SubmitRequest
  <1>5. PICK kind \in Requests : queue' = Append(queue, kind)
    BY DEF SubmitRequest
  <1>2. queue \in Seq(Kinds) /\ used \in UsedType
    BY DEF EngineInv
  <1>3. queue' \in Seq(Kinds)
    BY <1>2, <1>5 DEF Kinds
  <1>4. used' \in UsedType /\ used'.tools = used.tools
    BY <1>1, <1>2, CountedUse
  <1> QED
    BY <1>1, <1>3, <1>4 DEF EngineInv

LEMMA RequestPauseOK ==
  ASSUME NEW tools, EngineInv(tools), RequestPause
  PROVE  EngineInv(tools)'
  <1>1. UNCHANGED <<stack, rec, park, disk, queue>> /\ used' = [used EXCEPT !.pauses = @ + 1]
    BY DEF RequestPause
  <1>2. used \in UsedType
    BY DEF EngineInv
  <1>3. used' \in UsedType /\ used'.tools = used.tools
    BY <1>1, <1>2 DEF UsedType
  <1> QED
    BY <1>1, <1>3 DEF EngineInv

LEMMA CrashOK ==
  ASSUME NEW tools, EngineInv(tools), Crash
  PROVE  EngineInv(tools)'
  <1>1. Forget /\ UNCHANGED disk /\ used' = [used EXCEPT !.crashes = @ + 1]
    BY DEF Crash
  <1>2. used \in UsedType /\ DiskOK(disk, tools)
    BY DEF EngineInv
  <1>3. used' \in UsedType /\ used'.tools = used.tools
    BY <1>1, <1>2 DEF UsedType
  <1> QED
    BY <1>1, <1>2, <1>3, ForgetOK

LEMMA StandsOK ==
  ASSUME NEW tools, EngineInv(tools), BootFinds \/ ResumeRefused
  PROVE  EngineInv(tools)'
  BY DEF EngineInv, BootFinds, ResumeRefused, volatile

-----------------------------------------------------------------------------
(* The resumes.                                                            *)

\* Every frame but the leaf waits for a child.
ReadableStack(c) == Len(c.frames) > 0 /\ \A k \in 1 .. Len(c.frames) - 1 : c.frames[k].pend # NoPending

\* What a checkpoint must have to be resumed.
LEMMA Resumable ==
  ASSUME NEW c, isRunCheckpoint(c)
  PROVE  /\ Len(c.frames) > 0 /\ ReadableStack(c)
         /\ c.ask # 0 =>
              /\ LeafOf(c).hist # << >>
              /\ \E k \in DOMAIN LeafOf(c).hist :
                   /\ LeafOf(c).hist[k].m = "assistant"
                   /\ [id |-> c.ask, tool |-> "ask"] \in Range(LeafOf(c).hist[k].calls)
  BY DEF isRunCheckpoint, LeafOf, ReadableStack

\* The card of a completed finish is a card.
LEMMA FinishCard ==
  ASSUME NEW hist
  PROVE  completedFinishCard(hist) \in Values
  <1> DEFINE i == LastTurn(hist)
             results == SubSeq(hist, i + 1, Len(hist))
             calls == hist[i].calls
             ResultOf(id) == results[SelectLastInSeq(results, LAMBDA x : x.id = id)].val
             Finished(k) == IsFinish(calls[k].tool) /\ ResultOf(calls[k].id) \in Cards
             First(k) == Finished(k) /\ \A j \in 1 .. k - 1 : ~Finished(j)
             chosen == CHOOSE k \in DOMAIN calls : First(k)
  <1>1. \/ completedFinishCard(hist) = None
        \/ (\E k \in DOMAIN calls : First(k)) /\ completedFinishCard(hist) = ResultOf(calls[chosen].id)
    BY Zenon DEF completedFinishCard
  <1> HIDE DEF i, results, calls, ResultOf, Finished
  <1>2. (\E k \in DOMAIN calls : First(k)) => First(chosen)
    BY Zenon
  <1> HIDE DEF chosen
  <1>3. First(chosen) => ResultOf(calls[chosen].id) \in Cards
    BY DEF Finished
  <1>4. None \in Values /\ Cards \subseteq Values
    BY DEF Values
  <1> QED
    BY <1>1, <1>2, <1>3, <1>4

\* A frame read back from disk.
LEMMA RestoredType ==
  ASSUME NEW tools, NEW w, NEW s \in SavedType(tools, w)
  PROVE  /\ Restored(s) \in FrameType(tools, w) /\ Restored(s).hand = FALSE /\ Restored(s).pc = "top"
         /\ Restored(s).pend = s.pend /\ Restored(s).hist = s.hist
         /\ s.pend \in Pendings(tools, w) /\ s.hist \in Seq(Messages(tools, w))
         /\ s.pend.calls \in Seq(Calls(tools)) /\ s.pend.idx \in Nat
  <1> DEFINE f == Frame(s.id, FALSE)
  <1>1. s.id \in Nat /\ s.pend \in Pendings(tools, w) /\ s.hist \in Seq(Messages(tools, w))
    BY DEF SavedType
  <1>2. f \in FrameType(tools, w) /\ f.hand = FALSE /\ f.pc = "top"
    BY <1>1, FreshFrame
  <1>3. Restored(s) = [f EXCEPT !.hist = s.hist, !.pend = s.pend, !.press = s.press, !.comp = s.comp,
                                !.tries = s.tries, !.calls = s.calls, !.mark = s.mark, !.abort = s.abort,
                                !.inject = s.inject]
    BY DEF Restored
  <1> HIDE DEF f
  <1>4. /\ Restored(s) \in FrameType(tools, w) /\ Restored(s).hand = FALSE /\ Restored(s).pc = "top"
        /\ Restored(s).pend = s.pend /\ Restored(s).hist = s.hist
    <2> DEFINE g == [f EXCEPT !.hist = s.hist, !.pend = s.pend, !.press = s.press, !.comp = s.comp]
               e == [g EXCEPT !.tries = s.tries, !.calls = s.calls, !.mark = s.mark]
    <2>1. g \in FrameType(tools, w) /\ g.hand = FALSE /\ g.pc = "top" /\ g.pend = s.pend /\ g.hist = s.hist
      BY <1>1, <1>2 DEF FrameType, SavedType
    <2>2. Restored(s) = [e EXCEPT !.abort = s.abort, !.inject = s.inject]
      BY <1>2, <1>3 DEF FrameType
    <2> HIDE DEF g
    <2>3. e \in FrameType(tools, w) /\ e.hand = FALSE /\ e.pc = "top" /\ e.pend = s.pend /\ e.hist = s.hist
      BY <2>1 DEF FrameType, SavedType
    <2> HIDE DEF e
    <2> QED
      BY <2>2, <2>3 DEF FrameType, SavedType
  <1>5. s.pend.calls \in Seq(Calls(tools)) /\ s.pend.idx \in Nat
    <2>1. CASE s.pend = NoPending
      <3>1. s.pend.calls = << >> /\ s.pend.idx = 0
        BY <2>1 DEF NoPending
      <3> QED
        BY <3>1
    <2>2. CASE s.pend # NoPending
      BY <1>1, <2>2 DEF Pendings
    <2> QED
      BY <2>1, <2>2
  <1> QED
    BY <1>1, <1>4, <1>5

\* The leaf of a checkpoint.
LEMMA LeafType ==
  ASSUME NEW tools, NEW c, DiskOK(c, tools), Len(c.frames) > 0
  PROVE  LeafOf(c) \in SavedType(tools, c.wrote)
  <1>1. c.frames \in Seq(SavedType(tools, c.wrote))
    BY DEF DiskOK, SavedOK
  <1> QED
    BY <1>1 DEF LeafOf

\* What a marker says of the call it stands on.
LEMMA MarkedCall ==
  ASSUME NEW tools, NEW w, NEW p \in Pendings(tools, w), p # NoPending
  PROVE  /\ p.idx \in DOMAIN p.calls /\ p.card \in Values
         /\ p.card # None => w \/ ~isWriteCapableRole(PendingCall(p).tool)
         /\ ~Delegates(p) => ~isWriteCapableRole(PendingCall(p).tool)
  BY DEF Pendings, Delegates

LEMMA ResumedParentOK ==
  ASSUME NEW tools, NEW w, NEW s \in SavedType(tools, w), s.pend # NoPending, w \/ ~Delegates(s.pend)
  PROVE  ResumedParent(s) \in Frames(tools, w) /\ ResumedParent(s).hand = FALSE /\ ResumedParent(s).pc = "wait"
  <1> DEFINE e == Restored(s)
             g == [e EXCEPT !.turn = s.pend.calls, !.idx = s.pend.idx, !.pc = "wait", !.mode = "child"]
  <1>1. /\ e \in FrameType(tools, w) /\ e.hand = FALSE /\ e.pend = s.pend /\ s.pend \in Pendings(tools, w)
        /\ s.pend.calls \in Seq(Calls(tools)) /\ s.pend.idx \in Nat
    BY RestoredType
  <1>2. ResumedParent(s) = g
    BY DEF ResumedParent
  <1> HIDE DEF e
  <1>3. "wait" \in Labels /\ "child" \in Modes
    BY DEF Labels, Modes
  <1>4. g \in FrameType(tools, w)
    BY <1>1, <1>3 DEF FrameType
  <1>5. /\ g.hand = FALSE /\ g.pc = "wait" /\ g.pend = s.pend
        /\ g.turn = s.pend.calls /\ g.idx = s.pend.idx
    BY <1>1 DEF FrameType
  <1> HIDE DEF g
  <1>6. s.pend.idx \in DOMAIN s.pend.calls /\ (w \/ ~isWriteCapableRole(PendingCall(s.pend).tool))
    BY <1>1, MarkedCall
  <1>7. Call(g) = PendingCall(s.pend)
    BY <1>5 DEF Call, Batch, PendingCall
  <1>8. Placed(g, w)
    BY <1>5, <1>6, <1>7 DEF Placed, OnACall, OnMarkedCall
  <1> QED
    BY <1>2, <1>4, <1>5, <1>8 DEF Frames

LEMMA ResumedLeafOK ==
  ASSUME NEW tools, NEW w, NEW s \in SavedType(tools, w), NEW note \in BOOLEAN, NEW explicit
  PROVE  ResumedLeaf(s, note, explicit) \in Frames(tools, w) /\ ResumedLeaf(s, note, explicit).hand = FALSE
  <1> DEFINE e == Restored(s)
             f == [e EXCEPT !.turn = s.pend.calls, !.idx = s.pend.idx, !.note = note]
             c == [f EXCEPT !.pc = "carded", !.val = s.pend.card, !.mode = "child"]
             card == completedFinishCard(s.hist)
             l == ResumedLeaf(s, note, explicit)
  <1>1. /\ e \in FrameType(tools, w) /\ e.hand = FALSE /\ e.pend = s.pend /\ s.pend \in Pendings(tools, w)
        /\ s.pend.calls \in Seq(Calls(tools)) /\ s.pend.idx \in Nat /\ e.pc = "top"
    BY RestoredType
  <1>2. \/ l = c /\ s.pend.card # None
        \/ l = Goto(f, "recon") /\ s.pend # NoPending
        \/ l = EndWith(f, card)
        \/ l = Noted(f)
    BY DEF ResumedLeaf
  <1> HIDE DEF e, l
  <1>3. f \in FrameType(tools, w)
    BY <1>1 DEF FrameType
  <1>4. /\ f.hand = FALSE /\ f.pc = "top" /\ f.pend = s.pend
        /\ f.turn = s.pend.calls /\ f.idx = s.pend.idx
    BY <1>1 DEF FrameType
  <1> HIDE DEF f
  <1>5. CASE l = c /\ s.pend.card # None
    <2>1. s.pend # NoPending
      BY <1>5 DEF NoPending
    <2>2. /\ s.pend.idx \in DOMAIN s.pend.calls /\ s.pend.card \in Values
          /\ w \/ ~isWriteCapableRole(PendingCall(s.pend).tool)
      BY <1>1, <1>5, <2>1, MarkedCall
    <2>3. "carded" \in Labels /\ "child" \in Modes
      BY DEF Labels, Modes
    <2>4. c \in FrameType(tools, w)
      BY <1>3, <2>2, <2>3 DEF FrameType
    <2>5. /\ c.hand = FALSE /\ c.pc = "carded" /\ c.pend = s.pend
          /\ c.turn = s.pend.calls /\ c.idx = s.pend.idx
      BY <1>3, <1>4 DEF FrameType
    <2> HIDE DEF c
    <2>6. Call(c) = PendingCall(s.pend)
      BY <2>5 DEF Call, Batch, PendingCall
    <2>7. Placed(c, w)
      BY <2>1, <2>2, <2>5, <2>6 DEF Placed, OnACall, OnMarkedCall
    <2> QED
      BY <1>5, <2>4, <2>5, <2>7 DEF Frames, l
  <1>6. CASE l = Goto(f, "recon") /\ s.pend # NoPending
    <2> DEFINE g == Goto(f, "recon")
    <2>1. s.pend.idx \in DOMAIN s.pend.calls
      BY <1>1, <1>6, MarkedCall
    <2>2. "recon" \in Labels
      BY DEF Labels
    <2>3. g \in FrameType(tools, w) /\ g.pc = "recon" /\ Same(f, g)
      BY <1>3, <2>2, GotoType
    <2> HIDE DEF g
    <2>4. ~OnHarmlessCall(g)
      BY <2>3 DEF OnHarmlessCall
    <2>5. g.hand = FALSE /\ g.pend = s.pend /\ g.turn = s.pend.calls /\ g.idx = s.pend.idx
      BY <1>4, <2>3 DEF Same
    <2>6. Placed(g, w)
      BY <1>6, <2>1, <2>3, <2>4, <2>5 DEF Placed
    <2>7. g \in Frames(tools, w)
      BY <2>3, <2>6 DEF Frames
    <2> QED
      BY <1>6, <2>5, <2>7 DEF g, l
  <1>7. CASE l = EndWith(f, card)
    <2>1. card \in Values
      BY FinishCard
    <2> HIDE DEF card
    <2>2. EndWith(f, card) \in Frames(tools, w) /\ EndWith(f, card).hand = FALSE
      BY <1>3, <1>4, <2>1, EndWithType DEF Same
    <2> QED
      BY <1>7, <2>2 DEF l
  <1>8. CASE l = Noted(f)
    <2> DEFINE g == Noted(f)
    <2>1. g \in FrameType(tools, w) /\ g.pc = "top" /\ g.hand = FALSE
      BY <1>3, <1>4, NotedType DEF Same
    <2> HIDE DEF g
    <2>2. g \in Frames(tools, w)
      BY <2>1, Loose DEF OnACall
    <2> QED
      BY <1>8, <2>1, <2>2 DEF g, l
  <1> QED
    BY <1>2, <1>5, <1>6, <1>7, <1>8

\* The turn of a parked ask, and the ask itself: a call of no delegation.
LEMMA AskTurnType ==
  ASSUME NEW tools, NEW w, NEW hist \in Seq(Messages(tools, w)), NEW ask,
         \E k \in DOMAIN hist : hist[k].m = "assistant" /\ [id |-> ask, tool |-> "ask"] \in Range(hist[k].calls)
  PROVE  /\ AskTurn(hist, ask) \in Seq(Calls(tools)) /\ \E k \in DOMAIN AskTurn(hist, ask) : AskTurn(hist, ask)[k].id = ask
         /\ ask \in DOMAIN tools /\ ~isWriteCapableRole(tools[ask])
  <1> DEFINE Holds(i) == hist[i].m = "assistant" /\ ask \in CallIds(hist[i].calls)
             c == CHOOSE i \in DOMAIN hist : Holds(i)
             ac == [id |-> ask, tool |-> "ask"]
  <1>1. \A i \in DOMAIN hist : hist[i].m = "assistant" => hist[i].calls \in Seq(Calls(tools))
    <2>1. \A x \in Messages(tools, w) : x.m = "assistant" => x.calls \in Seq(Calls(tools))
      BY DEF Messages, Answers
    <2> QED
      BY <2>1
  <1>2. PICK k \in DOMAIN hist : hist[k].m = "assistant" /\ ac \in Range(hist[k].calls)
    OBVIOUS
  <1>3. PICK j \in DOMAIN hist[k].calls : hist[k].calls[j] = ac
    BY <1>2 DEF Range
  <1>4. ac.id = ask /\ ac.tool = "ask"
    OBVIOUS
  <1> HIDE DEF ac
  <1>5. Holds(k)
    BY <1>2, <1>3, <1>4 DEF CallIds
  <1>6. c \in DOMAIN hist /\ Holds(c)
    BY <1>5
  <1>7. AskTurn(hist, ask) = hist[c].calls
    BY DEF AskTurn
  <1> HIDE DEF c
  <1>8. AskTurn(hist, ask) \in Seq(Calls(tools)) /\ \E i \in DOMAIN AskTurn(hist, ask) : AskTurn(hist, ask)[i].id = ask
    BY <1>1, <1>6, <1>7 DEF CallIds
  <1>9. ac \in Calls(tools)
    BY <1>1, <1>2, <1>3
  <1>10. ask \in DOMAIN tools /\ ~isWriteCapableRole(tools[ask])
    BY <1>4, <1>9 DEF Calls, isWriteCapableRole
  <1> QED
    BY <1>8, <1>10


\* The answer to a parked ask takes the place of its parked result, and the turn goes on
\* after the ask.
LEMMA AnsweredLeafOK ==
  ASSUME NEW tools, NEW c, DiskOK(c, tools), isRunCheckpoint(c), c.ask # 0
  PROVE  AnsweredLeaf(c) \in Frames(tools, c.wrote) /\ AnsweredLeaf(c).hand = FALSE
  <1> DEFINE s == LeafOf(c)
             w == c.wrote
             e == Restored(s)
             turn == AskTurn(s.hist, c.ask)
             at == CHOOSE k \in DOMAIN turn : turn[k].id = c.ask
             i == 1 + at
             h == [s.hist EXCEPT ![Len(s.hist)] = ToolMessage(c.ask, "answer")]
             f == [e EXCEPT !.hist = h, !.turn = turn, !.pc = "disp", !.mode = "parked", !.idx = i]
  <1>1. s \in SavedType(tools, w)
    <2>1. c.frames \in Seq(SavedType(tools, w)) /\ Len(c.frames) > 0
      BY Resumable DEF DiskOK, SavedOK
    <2> QED
      BY <2>1 DEF LeafOf
  <1>2. /\ e \in FrameType(tools, w) /\ e.hand = FALSE /\ s.hist \in Seq(Messages(tools, w))
    <2> HIDE DEF s, w
    <2> QED
      BY <1>1, RestoredType
  <1>3. /\ s.hist # << >>
        /\ \E k \in DOMAIN s.hist : /\ s.hist[k].m = "assistant"
                                    /\ [id |-> c.ask, tool |-> "ask"] \in Range(s.hist[k].calls)
    BY Resumable
  <1>4. /\ turn \in Seq(Calls(tools)) /\ \E k \in DOMAIN turn : turn[k].id = c.ask
        /\ c.ask \in DOMAIN tools /\ ~isWriteCapableRole(tools[c.ask])
    BY <1>2, <1>3, AskTurnType
  <1>5. AnsweredLeaf(c) = f
    BY DEF AnsweredLeaf
  <1>6. ToolMessage(c.ask, "answer") \in Messages(tools, w)
    <2>1. "answer" \in Values
      BY DEF Values
    <2> QED
      BY <1>4, <2>1, MessageKinds
  <1> HIDE DEF turn, s, e, w
  <1>7. h \in Seq(Messages(tools, w))
    BY <1>2, <1>3, <1>6
  <1>8. at \in Nat /\ at # 0
    BY <1>4
  <1> HIDE DEF h, at
  <1>9. i \in Nat /\ i # 0
    BY <1>8
  <1> HIDE DEF i
  <1>10. "disp" \in Labels /\ "parked" \in Modes
    BY DEF Labels, Modes
  <1>11. f \in FrameType(tools, w)
    BY <1>2, <1>4, <1>7, <1>9, <1>10 DEF FrameType
  <1>12. f.pc = "disp" /\ f.hand = FALSE /\ f.idx = i
    BY <1>2 DEF FrameType
  <1> HIDE DEF f
  <1>13. Placed(f, w)
    BY <1>9, <1>12 DEF Placed, OnACall, OnMarkedCall, OnHarmlessCall
  <1>14. f \in Frames(tools, w)
    BY <1>11, <1>13 DEF Frames
  <1> QED
    BY <1>5, <1>12, <1>14 DEF w

\* Some run is resumed from checkpoint c with the given leaf.
Resumes(c, leaf, tracked) ==
  /\ stack' = [k \in 1 .. Len(c.frames) |-> IF k < Len(c.frames) THEN ResumedParent(c.frames[k]) ELSE leaf]
  /\ disk' = [c EXCEPT !.suspended = FALSE, !.paused = FALSE]
  /\ rec' = [NewRec(c.counter) EXCEPT !.interlude = c.interlude]
  /\ park' = [NewPark EXCEPT !.wrote = c.wrote, !.tracked = tracked]
  /\ queue' = (IF c.interlude.trigger = "inquiry" THEN <<"inquiry">> ELSE << >>) \o c.interlude.queued

LEMMA ReenterResumes ==
  ASSUME NEW c, NEW leaf, NEW tracked, NEW answered, Reenter(c, leaf, tracked, answered)
  PROVE  Resumes(c, leaf, tracked)
  BY DEF Reenter, Resumes

\* The resumed stack: the parents wait for their children, the leaf goes on.
LEMMA ResumedStackOK ==
  ASSUME NEW tools, NEW c, DiskOK(c, tools), ReadableStack(c),
         NEW leaf \in Frames(tools, c.wrote), leaf.hand = FALSE, NEW st,
         st = [k \in 1 .. Len(c.frames) |-> IF k < Len(c.frames) THEN ResumedParent(c.frames[k]) ELSE leaf]
  PROVE  StackOK(st, tools, c.wrote)
  <1> DEFINE n == Len(c.frames)
             w == c.wrote
  <1>1. /\ c.frames \in Seq(SavedType(tools, w)) /\ n \in Nat \ {0} /\ DOMAIN c.frames = 1 .. n
        /\ \A k \in 1 .. n - 1 : c.frames[k].pend # NoPending
    <2>1. c.frames \in Seq(SavedType(tools, w))
      BY DEF DiskOK, SavedOK
    <2>2. Len(c.frames) > 0 /\ \A k \in 1 .. Len(c.frames) - 1 : c.frames[k].pend # NoPending
      BY DEF ReadableStack
    <2> QED
      BY <2>1, <2>2
  <1>2. ASSUME NEW k \in 1 .. n, k < n
        PROVE  st[k] \in Frames(tools, w) /\ st[k].hand = FALSE /\ st[k].pc = "wait"
    <2> DEFINE p == c.frames[k]
    <2>1. p \in SavedType(tools, w) /\ p.pend # NoPending
      BY <1>1, <1>2
    <2>2. w \/ ~Delegates(p.pend)
      BY <1>1, <1>2 DEF DiskOK, SavedOK
    <2>3. st[k] = ResumedParent(p)
      BY <1>2
    <2> HIDE DEF p, w
    <2> QED
      BY <2>1, <2>2, <2>3, ResumedParentOK
  <1>3. st[n] = leaf
    <2>1. n \in 1 .. n /\ ~(n < n)
      BY <1>1
    <2> QED
      BY <2>1
  <1> HIDE DEF n, w
  <1>4. st \in Seq(Frames(tools, w)) /\ Len(st) = n /\ DOMAIN st = 1 .. n
    <2>1. st \in [1 .. n -> Frames(tools, w)]
      <3>1. \A k \in 1 .. n : st[k] \in Frames(tools, w)
        <4> TAKE k \in 1 .. n
        <4>1. k = n \/ k < n
          BY <1>1
        <4> QED
          BY <4>1, <1>2, <1>3 DEF w
      <3>2. st = [k \in 1 .. n |-> st[k]]
        BY DEF n
      <3> QED
        BY <3>1, <3>2
    <2> QED
      BY <2>1, <1>1
  <1>5. \A k \in 1 .. n : st[k].hand = FALSE
    <2> TAKE k \in 1 .. n
    <2>1. k = n \/ k < n
      BY <1>1
    <2> QED
      BY <2>1, <1>2, <1>3
  <1>6. Layered(st)
    <2>1. n \in 0 .. Len(st)
      BY <1>1, <1>4
    <2>2. \A k \in DOMAIN st : ~st[k].hand
      BY <1>4, <1>5
    <2>3. \A k \in DOMAIN st : ~(k > n)
      BY <1>1, <1>4
    <2> QED
      BY <2>1, <2>2, <2>3 DEF Layered
  <1>7. Waits(st)
    BY <1>2, <1>4 DEF Waits
  <1> QED
    BY <1>4, <1>6, <1>7 DEF StackOK, w

\* A run that re-enters from a checkpoint is in order.
LEMMA ReenterOK ==
  ASSUME NEW tools \in Seq(STRING), NEW c, DiskOK(c, tools), ReadableStack(c),
         NEW leaf \in Frames(tools, c.wrote), leaf.hand = FALSE, NEW tracked \in BOOLEAN,
         Resumes(c, leaf, tracked), used' \in UsedType, used'.tools = Len(tools)
  PROVE  EngineInv(tools)'
  <1>1. /\ c.counter \in Nat /\ c.wrote \in BOOLEAN /\ c.interlude \in Interludes
        /\ c.interlude.queued \in Seq(Kinds)
    BY DEF DiskOK, Interludes
  <1>2. StackOK(stack', tools, c.wrote)
    BY ResumedStackOK DEF Resumes
  <1>3. park'.wrote = c.wrote /\ ~park'.question /\ ParkOK(park', stack')
    BY <1>1 DEF Resumes, NewPark, ParkOK
  <1>4. rec' \in [counter : Nat, interlude : Interludes, pre : Seq(SavedType(tools, c.wrote)), frozen : BOOLEAN,
                  suspended : BOOLEAN, paused : BOOLEAN] /\ rec'.pre = << >>
    <2>1. rec' = [counter |-> c.counter, interlude |-> c.interlude, pre |-> << >>, frozen |-> FALSE,
                  suspended |-> FALSE, paused |-> FALSE]
      BY DEF Resumes, NewRec
    <2>2. << >> \in Seq(SavedType(tools, c.wrote))
      OBVIOUS
    <2> QED
      BY <2>1, <2>2, <1>1
  <1>5. RecOK(rec', tools, c.wrote)
    BY <1>4 DEF RecOK, SavedOK
  <1>6. queue' \in Seq(Kinds)
    <2> DEFINE again == IF c.interlude.trigger = "inquiry" THEN <<"inquiry">> ELSE << >>
    <2>1. again \in Seq(Kinds)
      <3>1. "inquiry" \in Kinds
        BY DEF Kinds
      <3>2. <<"inquiry">> \in Seq(Kinds) /\ << >> \in Seq(Kinds)
        BY <3>1
      <3> QED
        BY <3>2
    <2>2. queue' = again \o c.interlude.queued
      BY DEF Resumes
    <2> HIDE DEF again
    <2> QED
      BY <2>1, <2>2, <1>1
  <1>7. /\ disk' \in [counter : Nat, wrote : BOOLEAN, ask : Nat, askRole : Nat, interlude : Interludes,
                      suspended : BOOLEAN, paused : BOOLEAN, frames : Seq(SavedType(tools, c.wrote))]
        /\ disk'.wrote = c.wrote /\ disk'.ask = c.ask /\ disk'.frames = c.frames
    BY DEF Resumes, DiskOK
  <1>8. DiskOK(disk', tools)
    BY <1>7 DEF DiskOK
  <1> QED
    BY <1>2, <1>3, <1>5, <1>6, <1>8 DEF EngineInv


\* The resumes of the boot and of the operator.
LEMMA ResumeCounted ==
  ASSUME used \in UsedType, used' = [used EXCEPT !.resumes = @ + 1]
  PROVE  used' \in UsedType /\ used'.tools = used.tools
  BY DEF UsedType

LEMMA BootResumeOK ==
  ASSUME NEW tools, EngineInv(tools), BootResume
  PROVE  EngineInv(tools)'
  <1> DEFINE leaf == ResumedLeaf(LeafOf(disk), FALSE, FALSE)
  <1>1. tools \in Seq(STRING) /\ DiskOK(disk, tools) /\ isRunCheckpoint(disk)
    BY DEF EngineInv, BootResume
  <1>2. LeafOf(disk) \in SavedType(tools, disk.wrote)
    BY <1>1, Resumable, LeafType
  <1>3. leaf \in Frames(tools, disk.wrote) /\ leaf.hand = FALSE
    <2> DEFINE s == LeafOf(disk)
               w == disk.wrote
    <2> HIDE DEF s, w
    <2>1. s \in SavedType(tools, w)
      BY <1>2 DEF s, w
    <2>2. \A note \in BOOLEAN : ResumedLeaf(s, note, FALSE) \in Frames(tools, w) /\ ResumedLeaf(s, note, FALSE).hand = FALSE
      BY <2>1, ResumedLeafOK
    <2> QED
      BY <2>2 DEF s, w
  <1>4. Resumes(disk, leaf, FALSE)
    BY ReenterResumes DEF BootResume
  <1>5. used' \in UsedType /\ used'.tools = Len(tools)
    BY DEF EngineInv, BootResume
  <1> HIDE DEF leaf
  <1> QED
    BY <1>1, <1>3, <1>4, <1>5, Resumable, ReenterOK

LEMMA ExplicitResumeOK ==
  ASSUME NEW tools, EngineInv(tools), ExplicitResume
  PROVE  EngineInv(tools)'
  <1>1. PICK note \in BOOLEAN : Reenter(disk, ResumedLeaf(LeafOf(disk), note, TRUE), FALSE, {})
    BY DEF ExplicitResume
  <1> DEFINE leaf == ResumedLeaf(LeafOf(disk), note, TRUE)
  <1>2. tools \in Seq(STRING) /\ DiskOK(disk, tools) /\ isRunCheckpoint(disk)
    BY DEF EngineInv, ExplicitResume
  <1>3. LeafOf(disk) \in SavedType(tools, disk.wrote)
    BY <1>2, Resumable, LeafType
  <1>4. leaf \in Frames(tools, disk.wrote) /\ leaf.hand = FALSE
    BY <1>3, ResumedLeafOK
  <1>5. Resumes(disk, leaf, FALSE)
    BY <1>1, ReenterResumes
  <1>6. used' \in UsedType /\ used'.tools = Len(tools)
    BY ResumeCounted DEF EngineInv, ExplicitResume
  <1> HIDE DEF leaf
  <1> QED
    BY <1>2, <1>4, <1>5, <1>6, Resumable, ReenterOK

\* The checkpoint a note is appended to is as fit as before.
LEMMA NotedOnDisk ==
  ASSUME NEW tools, NEW c, DiskOK(c, tools), isRunCheckpoint(c), c.ask = 0,
         NEW d, d = [c EXCEPT !.frames[Len(c.frames)].hist = Append(@, UserMessage("answer"))]
  PROVE  DiskOK(d, tools) /\ ReadableStack(d)
  <1> DEFINE n == Len(c.frames)
             w == c.wrote
             s == LeafOf(c)
             g == [s EXCEPT !.hist = Append(@, UserMessage("answer"))]
             fs == [c.frames EXCEPT ![n] = g]
  <1>1. c.frames \in Seq(SavedType(tools, w)) /\ n \in Nat \ {0} /\ n \in DOMAIN c.frames
    <2>1. c.frames \in Seq(SavedType(tools, w))
      BY DEF DiskOK, SavedOK
    <2>2. n > 0
      BY Resumable
    <2> QED
      BY <2>1, <2>2
  <1>2. s \in SavedType(tools, w) /\ s = c.frames[n]
    BY <1>1 DEF LeafOf
  <1>3. UserMessage("answer") \in Messages(tools, w)
    <2>1. "answer" \in Notes
      BY DEF Notes
    <2> QED
      BY <2>1, MessageKinds
  <1>4. d.frames = fs
    BY <1>1, <1>2 DEF DiskOK
  <1>5. g \in SavedType(tools, w) /\ g.pend = s.pend
    <2> DEFINE m == UserMessage("answer")
    <2> HIDE DEF s, w, m
    <2>1. s.hist \in Seq(Messages(tools, w)) /\ Append(s.hist, m) \in Seq(Messages(tools, w))
      BY <1>2, <1>3 DEF SavedType, m
    <2>2. g = [s EXCEPT !.hist = Append(s.hist, m)]
      BY <1>2 DEF SavedType, m
    <2> QED
      BY <1>2, <2>1, <2>2 DEF SavedType
  <1> HIDE DEF g, s
  <1>6. /\ fs \in Seq(SavedType(tools, w)) /\ Len(fs) = n /\ DOMAIN fs = DOMAIN c.frames
        /\ \A k \in DOMAIN c.frames : fs[k].pend = c.frames[k].pend
    BY <1>1, <1>2, <1>5
  <1>7. SavedOK(fs, tools, w)
    BY <1>6 DEF DiskOK, SavedOK
  <1>8. \A k \in 1 .. n - 1 : fs[k].pend # NoPending
    <2>1. \A k \in 1 .. n - 1 : c.frames[k].pend # NoPending
      BY Resumable DEF ReadableStack
    <2>2. \A k \in 1 .. n - 1 : k \in DOMAIN c.frames
      BY <1>1
    <2> QED
      BY <1>6, <2>1, <2>2
  <1> HIDE DEF fs
  <1>9. d = [c EXCEPT !.frames = fs]
    BY <1>4 DEF DiskOK
  <1>10. /\ d \in [counter : Nat, wrote : BOOLEAN, ask : Nat, askRole : Nat, interlude : Interludes,
                   suspended : BOOLEAN, paused : BOOLEAN, frames : Seq(SavedType(tools, w))]
         /\ d.wrote = w /\ d.ask = 0 /\ d.frames = fs
    BY <1>6, <1>9 DEF DiskOK
  <1> HIDE DEF w, n
  <1>11. DiskOK(d, tools)
    BY <1>7, <1>10 DEF DiskOK
  <1>12. ReadableStack(d)
    BY <1>1, <1>6, <1>8, <1>10 DEF ReadableStack
  <1> QED
    BY <1>11, <1>12


LEMMA AnswerResumeOK ==
  ASSUME NEW tools, EngineInv(tools), AnswerResume
  PROVE  EngineInv(tools)'
  <1> DEFINE c == [disk EXCEPT !.frames[Len(disk.frames)].hist = Append(@, UserMessage("answer"))]
  <1>1. tools \in Seq(STRING) /\ DiskOK(disk, tools) /\ isRunCheckpoint(disk)
    BY DEF EngineInv, AnswerResume
  <1>2. used' \in UsedType /\ used'.tools = Len(tools)
    BY ResumeCounted DEF EngineInv, AnswerResume
  <1>3. CASE disk.ask # 0
    <2> DEFINE leaf == AnsweredLeaf(disk)
    <2>1. leaf \in Frames(tools, disk.wrote) /\ leaf.hand = FALSE
      BY <1>1, <1>3, AnsweredLeafOK
    <2>2. Resumes(disk, leaf, TRUE)
      BY <1>3, ReenterResumes DEF AnswerResume
    <2> HIDE DEF leaf
    <2> QED
      BY <1>1, <1>2, <2>1, <2>2, Resumable, ReenterOK
  <1>4. CASE disk.ask = 0
    <2>1. Reenter(c, ResumedLeaf(LeafOf(c), FALSE, FALSE), TRUE, {})
      BY <1>4, Zenon DEF AnswerResume
    <2>2. DiskOK(c, tools) /\ ReadableStack(c)
      BY <1>1, <1>4, NotedOnDisk
    <2> HIDE DEF c
    <2> DEFINE s == LeafOf(c)
               w == c.wrote
               leaf == ResumedLeaf(s, FALSE, FALSE)
    <2>3. s \in SavedType(tools, w)
      BY <2>2, LeafType DEF ReadableStack
    <2>4. Resumes(c, leaf, TRUE)
      BY <2>1, ReenterResumes
    <2> HIDE DEF s, w
    <2>5. \A note \in BOOLEAN : ResumedLeaf(s, note, FALSE) \in Frames(tools, w) /\ ResumedLeaf(s, note, FALSE).hand = FALSE
      BY <2>3, ResumedLeafOK
    <2>6. leaf \in Frames(tools, w) /\ leaf.hand = FALSE
      BY <2>5
    <2> HIDE DEF leaf
    <2> QED
      BY <1>1, <1>2, <2>2, <2>4, <2>6, ReenterOK DEF w
  <1> QED
    BY <1>3, <1>4

\* What a replayed result answers fits its call: that of a delegation is a refusal.
LEMMA ReplayedType ==
  ASSUME NEW tool
  PROVE  ReplayedValue(tool) \in Values /\ (ReplayedValue(tool) \in Unexecuted \/ ~isWriteCapableRole(tool))
  <1> DEFINE v == ReplayedValue(tool)
  <1>1. CASE IsFinish(tool)
    <2>1. tool \in {"finish", "fail", "clarify"}
      BY <1>1 DEF IsFinish, CardOf
    <2>2. CardOf[tool] \in Cards /\ ~isWriteCapableRole(tool)
      BY <2>1 DEF CardOf, Cards, isWriteCapableRole
    <2>3. v = CardOf[tool]
      BY <1>1, <2>1 DEF ReplayedValue, suspendsChild
    <2> QED
      BY <2>2, <2>3 DEF Values
  <1>2. CASE ~IsFinish(tool) /\ suspendsChild(tool)
    <2>1. v = "refused"
      BY <1>2 DEF ReplayedValue, suspendsChild
    <2> QED
      BY <2>1 DEF Values, Unexecuted
  <1>3. CASE ~IsFinish(tool) /\ ~suspendsChild(tool)
    <2>1. v \in {"answer", "ok"}
      BY <1>3 DEF ReplayedValue
    <2>2. ~isWriteCapableRole(tool)
      BY <1>3 DEF suspendsChild, isWriteCapableRole
    <2> QED
      BY <2>1, <2>2 DEF Values
  <1> QED
    BY <1>1, <1>2, <1>3

LEMMA ReconcileOK ==
  ASSUME NEW tools, EngineInv(tools), reconcilePendingInvocation
  PROVE  EngineInv(tools)'
  <1> DEFINE w == park.wrote
             v == ReplayedValue(Call(Top).tool)
             s == Settled(Top, v)
             t == Goto(Top, "start")
             a == [s EXCEPT !.mode = "replay"]
             b == [t EXCEPT !.mode = "reconcile"]
  <1>1. /\ At("recon") /\ UNCHANGED <<rec, park, disk, queue, used>>
        /\ stack' = Put(a) \/ stack' = Put(b)
    BY DEF reconcilePendingInvocation
  <1>2. /\ stack # << >> /\ Top \in FrameType(tools, w) /\ Top \in Frames(tools, w) /\ Top.pc = "recon"
        /\ ~park.question /\ used \in UsedType /\ queue \in Seq(Kinds)
    BY <1>1, Running, NoQuestion DEF Unwinding
  <1>3. "recon" \in OnMarkedCall /\ "start" \in OnACall /\ "start" \in Labels /\ "replay" \in Modes /\ "reconcile" \in Modes
    BY DEF Labels, OnMarkedCall, OnACall, Modes
  <1>4. v \in Values /\ (v \in Unexecuted \/ ~isWriteCapableRole(Call(Top).tool))
    BY ReplayedType
  <1> HIDE DEF v
  <1>5. s \in Frames(tools, w) /\ s.hand = Top.hand
    BY <1>2, <1>3, <1>4, SettledWithin
  <1>6. t \in FrameType(tools, w) /\ t.pc = "start" /\ Same(Top, t)
    BY <1>2, <1>3, GotoType
  <1> HIDE DEF s, t
  <1>7. ~OnHarmlessCall(t)
    BY <1>6 DEF OnHarmlessCall
  <1>8. t \in Frames(tools, w) /\ t.hand = Top.hand
    BY <1>2, <1>3, <1>6, <1>7, WithinCall DEF Same
  <1>9. \A f \in Frames(tools, w), m \in Modes :
          [f EXCEPT !.mode = m] \in Frames(tools, w) /\ [f EXCEPT !.mode = m].hand = f.hand
    <2> TAKE f \in Frames(tools, w), m \in Modes
    <2> DEFINE g == [f EXCEPT !.mode = m]
    <2>1. f \in FrameType(tools, w)
      BY DEF Frames
    <2>2. g \in FrameType(tools, w) /\ g.pc = f.pc /\ Same(f, g) /\ g.val = f.val
      BY <2>1 DEF FrameType, Same
    <2> HIDE DEF g
    <2>3. g \in Frames(tools, w) /\ g.hand = f.hand
      BY <2>2, Beside DEF Same
    <2> QED
      BY <2>3 DEF g
  <1>10. a \in Frames(tools, w) /\ a.hand = Top.hand
    BY <1>3, <1>5, <1>9
  <1>11. b \in Frames(tools, w) /\ b.hand = Top.hand
    BY <1>3, <1>8, <1>9
  <1> HIDE DEF a, b
  <1>12. CASE stack' = Put(a)
    BY <1>1, <1>2, <1>10, <1>12, MoveOK
  <1>13. CASE stack' = Put(b)
    BY <1>1, <1>2, <1>11, <1>13, MoveOK
  <1> QED
    BY <1>1, <1>12, <1>13


-----------------------------------------------------------------------------
(* The specification.                                                      *)

\* Before the run starts nothing has been asked for and nothing is on disk.
LEMMA InitOK == Init => EngineInv(<< >>)
  <1> SUFFICES ASSUME Init PROVE EngineInv(<< >>)
    OBVIOUS
  <1>1. NoInterlude \in Interludes
    BY DEF NoInterlude, Interludes, Triggers
  <1>2. << >> \in Seq(STRING) /\ Len(<< >>) = 0 /\ << >> \in Seq(Kinds)
    OBVIOUS
  <1>3. used \in UsedType /\ used.tools = 0 /\ queue \in Seq(Kinds)
    BY <1>2 DEF Init, UsedType
  <1>4. park.question = FALSE /\ park.wrote = FALSE /\ ParkOK(park, stack)
    BY DEF Init, NewPark, ParkOK
  <1>5. StackOK(stack, << >>, park.wrote)
    <2>1. stack = << >> /\ stack \in Seq(Frames(<< >>, park.wrote)) /\ Len(stack) = 0 /\ DOMAIN stack = {}
      BY DEF Init
    <2>2. Layered(stack)
      BY <2>1 DEF Layered
    <2> QED
      BY <2>1, <2>2 DEF StackOK, Waits
  <1>6. RecOK(rec, << >>, park.wrote)
    <2>1. rec = [counter |-> 0, interlude |-> NoInterlude, pre |-> << >>, frozen |-> FALSE,
                 suspended |-> FALSE, paused |-> FALSE]
      BY DEF Init, NewRec
    <2>2. SavedOK(<< >>, << >>, park.wrote)
      BY DEF SavedOK
    <2> QED
      BY <1>1, <2>1, <2>2 DEF RecOK
  <1>7. DiskOK(disk, << >>)
    BY NothingOnDisk DEF Init
  <1> QED
    BY <1>2, <1>3, <1>4, <1>5, <1>6, <1>7 DEF EngineInv

\* A step that changes nothing keeps the invariant.
LEMMA StutterOK ==
  ASSUME NEW tools, EngineInv(tools), UNCHANGED vars
  PROVE  EngineInv(tools)'
  BY DEF EngineInv, vars, volatile

\* What the invariant says of a parked conversation: a call that was answered with
\* anything but a refusal did not delegate to a writer.
LEMMA InvParkedBeforeWrite ==
  ASSUME NEW tools, EngineInv(tools)
  PROVE  ParkedBeforeWrite
  <1> SUFFICES ASSUME disk.ask # 0, NEW k \in DOMAIN disk.frames
               PROVE  LET f == disk.frames[k] IN
                      /\ f.pend # NoPending => ~isWriteCapableRole(PendingCall(f.pend).tool)
                      /\ \A i, j \in DOMAIN f.hist :
                           f.hist[i].m = "assistant" /\ f.hist[j].m = "tool" /\ f.hist[j].val \notin Unexecuted =>
                             \A c \in Range(f.hist[i].calls) : c.id = f.hist[j].id => ~isWriteCapableRole(c.tool)
    BY DEF ParkedBeforeWrite
  <1> DEFINE f == disk.frames[k]
             w == disk.wrote
  <1>1. DiskOK(disk, tools)
    BY DEF EngineInv
  <1>2. disk.frames \in Seq(SavedType(tools, w)) /\ ~w /\ ~Delegates(f.pend)
    BY <1>1 DEF DiskOK
  <1>3. f \in SavedType(tools, w)
    BY <1>2
  <1> HIDE DEF f, w
  <1>4. f.hist \in Seq(Messages(tools, w))
    BY <1>2, <1>3 DEF SavedType
  <1>5. \A i \in DOMAIN f.hist : f.hist[i] \in Messages(tools, w)
    BY <1>4
  <1>6. f.pend # NoPending => ~isWriteCapableRole(PendingCall(f.pend).tool)
    BY <1>2 DEF Delegates
  <1>7. \A x \in Messages(tools, w) : x.m = "assistant" => x.calls \in Seq(Calls(tools))
    BY DEF Messages, Answers
  <1>8. \A x \in Messages(tools, w) :
          x.m = "tool" => x.val \in Unexecuted \/ ~isWriteCapableRole(tools[x.id])
    BY <1>2 DEF Messages, Answers
  <1>9. ASSUME NEW i \in DOMAIN f.hist, NEW j \in DOMAIN f.hist, f.hist[i].m = "assistant", f.hist[j].m = "tool",
               f.hist[j].val \notin Unexecuted, NEW c \in Range(f.hist[i].calls), c.id = f.hist[j].id
        PROVE  ~isWriteCapableRole(c.tool)
    <2>1. f.hist[i] \in Messages(tools, w) /\ f.hist[j] \in Messages(tools, w)
      BY <1>5
    <2>2. f.hist[i].calls \in Seq(Calls(tools))
      BY <1>7, <1>9, <2>1
    <2>3. c \in Calls(tools)
      BY <2>2 DEF Range
    <2>4. c.tool = tools[c.id]
      BY <2>3 DEF Calls
    <2>5. ~isWriteCapableRole(tools[f.hist[j].id])
      BY <1>8, <1>9, <2>1
    <2> QED
      BY <1>9, <2>4, <2>5
  <1> QED
    BY <1>6, <1>9 DEF f

\* Every step of a role keeps the invariant, with the same calls asked for.
LEMMA RoleStepOK ==
  ASSUME NEW tools, EngineInv(tools), RoleStep
  PROVE  EngineInv(tools)'
  <1>1. CASE ParkAtLoopTop BY <1>1, ParkAtLoopTopOK
  <1>2. CASE drainInterrupts BY <1>2, DrainInterruptsOK
  <1>3. CASE drainAfterLoopCheck BY <1>3, DrainAfterLoopCheckOK
  <1>4. CASE resolveSafePoint BY <1>4, ResolveSafePointOK
  <1>5. CASE SafePoint BY <1>5, SafePointOK
  <1>6. CASE TakePause BY <1>6, TakePauseOK
  <1>7. CASE CallModel BY <1>7, CallModelOK
  <1>8. CASE MarkInterlude BY <1>8, MarkInterludeOK
  <1>9. CASE StartHandler BY <1>9, StartHandlerOK
  <1>10. CASE ResolveInterlude BY <1>10, ResolveInterludeOK
  <1>11. CASE ClearInterlude BY <1>11, ClearInterludeOK
  <1>12. CASE DispatchDone BY <1>12, DispatchDoneOK
  <1>13. CASE DispatchParks BY <1>13, DispatchParksOK
  <1>14. CASE DispatchInvalid BY <1>14, DispatchInvalidOK
  <1>15. CASE DispatchCall BY <1>15, DispatchCallOK
  <1>16. CASE BeginCall BY <1>16, BeginCallOK
  <1>17. CASE ExecuteTool BY <1>17, ExecuteToolOK
  <1>18. CASE SpawnAgent BY <1>18, SpawnAgentOK
  <1>19. CASE AskParks BY <1>19, AskParksOK
  <1>20. CASE AskWaits BY <1>20, AskWaitsOK
  <1>21. CASE RecordChildCard BY <1>21, RecordChildCardOK
  <1>22. CASE recordToolResult BY <1>22, RecordToolResultOK
  <1>23. CASE SettleCall BY <1>23, SettleCallOK
  <1>24. CASE closeUnexecutedCalls BY <1>24, CloseUnexecutedCallsOK
  <1>25. CASE FinishTurn BY <1>25, FinishTurnOK
  <1>26. CASE EndChild BY <1>26, EndChildOK
  <1>27. CASE EndRoot BY <1>27, EndRootOK
  <1>28. CASE reconcilePendingInvocation BY <1>28, ReconcileOK
  <1> QED
    BY <1>1, <1>2, <1>3, <1>4, <1>5, <1>6, <1>7, <1>8, <1>9, <1>10, <1>11, <1>12, <1>13, <1>14, <1>15, <1>16,
       <1>17, <1>18, <1>19, <1>20, <1>21, <1>22, <1>23, <1>24, <1>25, <1>26, <1>27, <1>28 DEF RoleStep

\* Every step of the environment keeps the invariant; a reply of the model adds the calls
\* it asks for.
LEMMA EnvironmentOK ==
  ASSUME NEW tools, EngineInv(tools), Environment
  PROVE  \E all : EngineInv(all)'
  <1>1. CASE StartRun BY <1>1, StartRunOK
  <1>2. CASE ProviderFails BY <1>2, ProviderFailsOK
  <1>3. CASE ModelUnavailable BY <1>3, ModelUnavailableOK
  <1>4. CASE ContextRejected BY <1>4, ContextRejectedOK
  <1>5. CASE ModelReplies BY <1>5, ModelRepliesOK
  <1>6. CASE AskRejected BY <1>6, AskRejectedOK
  <1>7. CASE submitAnswer BY <1>7, SubmitAnswerOK
  <1>8. CASE SubmitRequest BY <1>8, SubmitRequestOK
  <1>9. CASE RequestPause BY <1>9, RequestPauseOK
  <1>10. CASE DeleteCheckpoint BY <1>10, DeleteCheckpointOK
  <1>11. CASE Crash BY <1>11, CrashOK
  <1>12. CASE BootFinds \/ ResumeRefused BY <1>12, StandsOK
  <1>13. CASE BootResume BY <1>13, BootResumeOK
  <1>14. CASE ExplicitResume BY <1>14, ExplicitResumeOK
  <1>15. CASE AnswerResume BY <1>15, AnswerResumeOK
  <1> QED
    BY <1>1, <1>2, <1>3, <1>4, <1>5, <1>6, <1>7, <1>8, <1>9, <1>10, <1>11, <1>12, <1>13, <1>14, <1>15 DEF Environment

\* The state of a run is in order after every step, for some sequence of calls asked for.
THEOREM EngineStaysInOrder == EngineSpec => [](\E tools : EngineInv(tools))
  <1> DEFINE Inv0 == \E tools : EngineInv(tools)
  <1>1. Init => Inv0
    BY InitOK
  <1>2. Inv0 /\ [Next]_vars => Inv0'
    <2> SUFFICES ASSUME NEW tools, EngineInv(tools), [Next]_vars PROVE \E all : EngineInv(all)'
      OBVIOUS
    <2>1. CASE RoleStep BY <2>1, RoleStepOK
    <2>2. CASE Environment BY <2>2, EnvironmentOK
    <2>3. CASE UNCHANGED vars BY <2>3, StutterOK
    <2> QED
      BY <2>1, <2>2, <2>3 DEF Next
  <1> QED
    BY <1>1, <1>2, PTL DEF EngineSpec

\* A run parked on a question has not started a role that may write to the workspace: in
\* what is on disk no delegation to one is under way, and none was answered but by a
\* refusal, whatever crashed, was resumed, replayed or preempted on the way.
THEOREM EngineParksBeforeWrite == EngineSpec => []ParkedBeforeWrite
  <1>1. (\E tools : EngineInv(tools)) => ParkedBeforeWrite
    BY InvParkedBeforeWrite
  <1> QED
    BY <1>1, EngineStaysInOrder, PTL

=============================================================================
