---------------------------- MODULE HistoryProofs ----------------------------
(***************************************************************************)
(* The conversations of a run: no role asks the model with a tool call     *)
(* unanswered, for any batches, any depth of agents and handlers, and any  *)
(* number of interrupts, compactions, failures, pauses, questions, crashes *)
(* and resumes (executor/engine.ts, executor/checkpoint.ts).               *)
(*                                                                         *)
(* Within a turn calls are unanswered, and a checkpoint is written there   *)
(* too.  HistoryInv says which: in a live frame the calls from the one     *)
(* under way on, in a saved one those from the marker on, the question     *)
(* that waits for the operator aside; and it keeps the marker, the turn    *)
(* and the log in step, so that the turn a resume goes on with is the      *)
(* turn those calls are of.                                                *)
(***************************************************************************)
EXTENDS ExecutionProofs

(***************************************************************************)
(* The invariant.                                                          *)
(***************************************************************************)

\* A history answers every call its turns made but those that are out; an answer comes
\* after its turn.
Answered(h, out) ==
  \A i \in DOMAIN h : h[i].m = "assistant" =>
    \A x \in CallIds(h[i].calls) \ out : \E j \in DOMAIN h : i < j /\ h[j].m = "tool" /\ h[j].id = x
Ordered(h) ==
  \A i, j \in DOMAIN h : h[i].m = "assistant" /\ h[j].m = "tool" /\ h[j].id \in CallIds(h[i].calls) => i < j

\* The last turn of a history with calls, if one is left of it, is t.
IsTurn(x) == x.m = "assistant" /\ x.calls # << >>
LastIs(h, t) ==
  \A i \in DOMAIN h : IsTurn(h[i]) => h[i].calls = t \/ \E j \in DOMAIN h : i < j /\ IsTurn(h[j])

\* The i-th call of the turn t is dispatched: all before it were answered and none was a finish.
During(h, t, i) == Answered(h, Rest(t, i)) /\ LastIs(h, t) /\ NoFinish(t, 1, i)

\* What is left to answer once the marked call is settled by a resume, the marked call included.
MarkedRest(p) == Rest(p.calls, p.idx)
Marked(h, p) == p # NoPending => LastIs(h, p.calls) /\ NoFinish(p.calls, 1, p.idx)
Done(p, ended) == p # NoPending => PendingCall(p).id \in ended
\* The turn of a marker is in the history, unless its last call ended before a compaction
\* dropped it.
Backed(h, p, ended) ==
  p # NoPending => p.calls \in HistTurns(h) \/ (p.idx = Len(p.calls) /\ Done(p, ended))

\* A question's answer, the last message, holds the place of the operator's.
AskedIn(h, ask) ==
  /\ h # << >> /\ h[Len(h)].m = "tool" /\ h[Len(h)].id = ask
  /\ \E i \in DOMAIN h : h[i].m = "assistant" /\
       \E k \in DOMAIN h[i].calls : h[i].calls[k] = [id |-> ask, tool |-> "ask"] /\ During(h, h[i].calls, k + 1)

\* A frame between turns, and one that ended with a card of its own.
LoopLabels == {"top", "drain", "context", "safe", "ready", "llm", "mark", "handler", "wait handler", "handled", "unmark"}
Between(f) == f.pc \in LoopLabels \/ (f.pc = "end" /\ f.val # "park")

\* Where a frame is in its turn and what its history answers.
Told(f) ==
  /\ Ordered(f.hist)
  /\ f.pc \in OnACall \cup {"disp"} => During(f.hist, f.turn, f.idx)
  /\ f.pc = "settle" => During(f.hist, f.turn, f.idx + 1)
  /\ f.pc = "closing" => Answered(f.hist, Rest(f.turn, f.idx))
  /\ Between(f) => Answered(f.hist, {}) /\ Marked(f.hist, f.pend)

\* The turn under way is in the history, unless a leftover marker's is being settled again.
Held(f, ended) ==
  f.pc \in OnACall \cup {"disp", "settle"} =>
    \/ f.turn \in HistTurns(f.hist)
    \/ f.pc = "disp" /\ f.idx > Len(f.turn)
    \/ f.pc \in {"recon", "carded", "res", "settle"} /\ f.idx = Len(f.turn) /\ Call(f).id \in ended

\* The marker: it names the call under way, and is cleared or left behind by a settled one.
OnMarker(f) == f.pend # NoPending /\ f.pend.calls = f.turn /\ f.pend.idx = f.idx
Carries(f, ended, asked) ==
  /\ f.pc \in OnACall \cup {"settle"} => f.idx \in DOMAIN f.turn /\ OnMarker(f)
  /\ f.pend.card # None => suspendsChild(PendingCall(f.pend).tool)
  /\ f.pc \in {"start", "exec", "asking", "wait", "recon"} => f.pend.card = None
  /\ f.pc \in {"wait", "carded"} => suspendsChild(Call(f).tool)
  /\ f.pc = "res" /\ (f.mode = "replay" \/ (Call(f).tool = "ask" /\ ~asked)) => Call(f).id \in ended
  /\ f.pc = "settle" => Call(f).id \in ended \/ asked
  /\ f.mode = "replay" => f.pc = "res"
  /\ f.pc = "disp" => \/ f.idx <= Len(f.turn)
                      \/ f.pend # NoPending => f.pend.calls = f.turn /\ f.pend.idx = Len(f.turn)
  /\ f.pc = "disp" => Done(f.pend, ended) \/ (asked /\ f.idx <= Len(f.turn))
  /\ Between(f) => Done(f.pend, ended) /\ (f.pend # NoPending => f.pend.idx = Len(f.pend.calls))

FrameH(f, ended, asked) == Told(f) /\ Held(f, ended) /\ Carries(f, ended, asked)

\* The frames are numbered apart.
Numbered(st, counter) ==
  /\ \A j, k \in DOMAIN st : j # k => st[j].id # st[k].id
  /\ \A k \in DOMAIN st : st[k].id \in 1 .. counter

\* What is on disk: every history a resume goes on with is complete up to the marker.
ChildCallOf(s) == s.pend # NoPending /\ suspendsChild(PendingCall(s.pend).tool)
SavedH(s, ended) == Ordered(s.hist) /\ Marked(s.hist, s.pend) /\ Backed(s.hist, s.pend, ended)
Whole(s) == Answered(s.hist, MarkedRest(s.pend))
ParentH(s) == ChildCallOf(s) /\ s.pend.card = None /\ s.pend.calls \in HistTurns(s.hist) /\ Whole(s)
LeafH(s, ask, role) ==
  /\ s.pend.card # None => ChildCallOf(s)
  /\ ask = 0 => Whole(s)
  /\ ask # 0 => role = s.id /\ s.pend = NoPending /\ AskedIn(s.hist, ask)

DiskH(c, ended) ==
  /\ Numbered(c.frames, c.counter)
  /\ \A k \in DOMAIN c.frames : /\ SavedH(c.frames[k], ended)
                                /\ k < Len(c.frames) => ParentH(c.frames[k])
                                /\ k = Len(c.frames) => LeafH(c.frames[k], c.ask, c.askRole)
  /\ c.ask # 0 => c.frames # << >> /\ ~c.paused /\ ~c.suspended

\* The open question: the parked role goes on to unwind, writes the question and freezes the
\* recorder; the roles below it unwind and write nothing.
Asking(f, p) ==
  /\ f.id = p.role /\ f.pc \in {"res", "settle", "disp", "top"} /\ f.mode # "child"
  /\ f.pc = "res" => Call(f) = [id |-> p.ask, tool |-> "ask"] /\ f.turn \in HistTurns(f.hist)
  /\ f.pc # "res" => AskedIn(f.hist, p.ask)
  /\ f.pc = "top" \/ (f.pc = "disp" /\ f.idx > Len(f.turn)) => f.pend = NoPending
Unwinds(f, p, r) ==
  /\ f.pc = "end" => f.val = "park"
  /\ f.pc # "closing"
  /\ f.pc = "res" => ~IsFinish(Call(f).tool)
  /\ r.frozen => (f.id = p.role => f.pc = "end")
  /\ ~r.frozen => Asking(f, p)
\* A tracked run is fresh, or resumed where nothing is replayed.
Unreplayed(f) == ~f.note /\ f.mode \notin {"reconcile", "replay"} /\ f.pc # "recon"

ParkH(p, r, st, c) ==
  /\ p.question <=> p.ask # 0
  /\ p.tracked => \A k \in DOMAIN st : Unreplayed(st[k])
  /\ p.question => p.tracked /\ \A k \in DOMAIN st : IF k = Len(st) THEN Unwinds(st[k], p, r) ELSE st[k].id # p.role
  /\ r.frozen => c.ask = p.ask

\* A question on disk is the open one, or the one whose turn goes on after its answer.
AfterAnswer(st) ==
  /\ \A k \in DOMAIN st : ~st[k].hand
  /\ \A k \in DOMAIN st : k = Len(st) => st[k].pc = "disp" /\ st[k].mode = "parked"
\* A root that asks for clarification, or is parked again, leaves no marker.
Unmarked(c) == c.ask = 0 /\ c.frames # << >> /\ LeafOf(c).pend = NoPending
Settles(st, r, c) ==
  \A k \in DOMAIN st : k = 1 /\ k = Len(st) /\ st[k].pc = "end" /\ st[k].val \notin {"success", "error", "interrupted"} =>
    r.frozen \/ (Unmarked(c) /\ st[k].pend = NoPending)

StatusH(how, st, r, p, c) ==
  /\ (how = "running") <=> (st # << >>)
  /\ how # "running" => r = NewRec(0) /\ p = NewPark
  /\ how = "new" => c = NoCheckpoint
  /\ how \in {"error", "suspended", "paused"} => c.ask = 0
  /\ how \in {"parked", "clarify"} /\ c.ask = 0 => c.frames = << >> \/ LeafOf(c).pend = NoPending
  /\ how = "running" => Settles(st, r, c) /\ c.counter <= r.counter /\ ~st[1].hand
  /\ how = "running" /\ c.ask # 0 => (p.question /\ c.ask = p.ask) \/ AfterAnswer(st)
  /\ ~r.suspended /\ ~r.paused

FramesH(st, ended, asked) == \A k \in DOMAIN st : FrameH(st[k], ended, asked)

HistoryInv ==
  /\ FramesH(stack, Ended(log), park.question) /\ Numbered(stack, rec.counter)
  /\ DiskH(disk, Ended(log)) /\ ParkH(park, rec, stack, disk) /\ StatusH(status, stack, rec, park, disk)
  /\ jour.ended \subseteq TerminatedIn(log)

-----------------------------------------------------------------------------
(* Histories.                                                              *)

\* What a message that is no turn, and a compaction, leave of a history.
Hears(h, g) ==
  /\ Ordered(h) => Ordered(g)
  /\ \A out : Answered(h, out) => Answered(g, out)
  /\ \A t : LastIs(h, t) => LastIs(g, t)

\* A history with a message more.
LEMMA Pushed ==
  ASSUME NEW S, NEW h \in Seq(S), NEW x
  PROVE  LET g == Append(h, x) IN
         /\ Len(h) \in Nat /\ DOMAIN h = 1 .. Len(h) /\ DOMAIN g = 1 .. Len(h) + 1 /\ Len(g) = Len(h) + 1
         /\ \A i \in DOMAIN h : i \in DOMAIN g /\ g[i] = h[i] /\ i < Len(h) + 1
         /\ g[Len(h) + 1] = x /\ \A i \in DOMAIN g : i \in DOMAIN h \/ i = Len(h) + 1
         /\ \A i \in DOMAIN g : i \in Nat
  <1> DEFINE g == Append(h, x)
  <1>1. h \in Seq(S \cup {x})
    OBVIOUS
  <1>2. /\ Len(h) \in Nat /\ DOMAIN h = 1 .. Len(h) /\ DOMAIN g = 1 .. Len(h) + 1 /\ Len(g) = Len(h) + 1
        /\ g[Len(h) + 1] = x /\ \A i \in 1 .. Len(h) : g[i] = h[i]
    BY <1>1
  <1> HIDE DEF g
  <1>3. (\A i \in DOMAIN h : i \in DOMAIN g /\ g[i] = h[i] /\ i < Len(h) + 1)
        /\ (\A i \in DOMAIN g : i \in DOMAIN h \/ i = Len(h) + 1) /\ \A i \in DOMAIN g : i \in Nat
    BY <1>2
  <1> QED
    BY <1>2, <1>3 DEF g

\* A message that is no turn takes no answer back, and keeps the turns.
LEMMA PushHears ==
  ASSUME NEW S, NEW h \in Seq(S), NEW x, x.m # "assistant"
  PROVE  Hears(h, Append(h, x)) /\ HistTurns(Append(h, x)) = HistTurns(h)
  <1> DEFINE g == Append(h, x)
             n == Len(h) + 1
  <1>1. /\ n \in Nat
        /\ \A i \in DOMAIN h : i \in DOMAIN g /\ g[i] = h[i] /\ i < n
        /\ n \in DOMAIN g /\ g[n] = x /\ \A i \in DOMAIN g : i \in DOMAIN h \/ i = n
    BY Pushed
  <1> HIDE DEF g, n
  <1>2. ASSUME NEW i \in DOMAIN g, g[i].m = "assistant"
        PROVE  i \in DOMAIN h /\ g[i] = h[i]
    BY <1>1, <1>2
  <1>3. Ordered(h) => Ordered(g)
    BY <1>1, <1>2 DEF Ordered
  <1>4. ASSUME NEW out, Answered(h, out)
        PROVE  Answered(g, out)
    BY <1>1, <1>2, <1>4 DEF Answered
  <1>5. ASSUME NEW t, LastIs(h, t)
        PROVE  LastIs(g, t)
    <2> SUFFICES ASSUME NEW i \in DOMAIN g, IsTurn(g[i])
                 PROVE  g[i].calls = t \/ \E j \in DOMAIN g : i < j /\ IsTurn(g[j])
      BY DEF LastIs
    <2>1. i \in DOMAIN h /\ g[i] = h[i]
      BY <1>2 DEF IsTurn
    <2>2. h[i].calls = t \/ \E j \in DOMAIN h : i < j /\ IsTurn(h[j])
      BY <1>5, <2>1 DEF LastIs
    <2> QED
      BY <1>1, <2>1, <2>2
  <1>6. HistTurns(g) = HistTurns(h)
    BY <1>1, <1>2 DEF HistTurns
  <1> QED
    BY <1>3, <1>4, <1>5, <1>6 DEF Hears, g

\* An answer is one call less to answer.
LEMMA PushAnswers ==
  ASSUME NEW S, NEW h \in Seq(S), NEW id, NEW val, NEW out, Answered(h, out)
  PROVE  Answered(Append(h, ToolMessage(id, val)), out \ {id})
  <1> DEFINE x == ToolMessage(id, val)
             g == Append(h, x)
             n == Len(h) + 1
  <1>1. x.m = "tool" /\ x.id = id
    BY DEF ToolMessage
  <1> HIDE DEF x
  <1>2. /\ n \in Nat
        /\ \A i \in DOMAIN h : i \in DOMAIN g /\ g[i] = h[i] /\ i < n
        /\ n \in DOMAIN g /\ g[n] = x /\ \A i \in DOMAIN g : i \in DOMAIN h \/ i = n
    BY Pushed
  <1> HIDE DEF g, n
  <1>3. ASSUME NEW i \in DOMAIN g, g[i].m = "assistant", NEW c \in CallIds(g[i].calls) \ (out \ {id})
        PROVE  \E j \in DOMAIN g : i < j /\ g[j].m = "tool" /\ g[j].id = c
    <2>1. i \in DOMAIN h /\ g[i] = h[i] /\ i < n
      BY <1>1, <1>2, <1>3
    <2>2. CASE c = id
      BY <1>1, <1>2, <2>1, <2>2
    <2>3. CASE c # id
      <3>1. c \in CallIds(h[i].calls) \ out /\ h[i].m = "assistant"
        BY <1>3, <2>1, <2>3
      <3>2. \E j \in DOMAIN h : i < j /\ h[j].m = "tool" /\ h[j].id = c
        BY <2>1, <3>1 DEF Answered
      <3> QED
        BY <1>2, <3>2
    <2> QED
      BY <2>2, <2>3
  <1> QED
    BY <1>3 DEF Answered, g, x

\* A new turn, none of whose calls was answered before.
LEMMA PushesTurn ==
  ASSUME NEW S, NEW h \in Seq(S), NEW calls, Ordered(h), Answered(h, {}),
         \A j \in DOMAIN h : h[j].m = "tool" => h[j].id \notin CallIds(calls)
  PROVE  LET g == Append(h, Turn(calls)) IN
         /\ Ordered(g) /\ Answered(g, CallIds(calls)) /\ calls \in HistTurns(g)
         /\ HistTurns(h) \subseteq HistTurns(g)
         /\ calls # << >> => LastIs(g, calls)
         /\ calls = << >> => \A t : LastIs(h, t) => LastIs(g, t)
  <1> DEFINE x == Turn(calls)
             g == Append(h, x)
             n == Len(h) + 1
  <1>1. x.m = "assistant" /\ x.calls = calls
    BY DEF Turn
  <1> HIDE DEF x
  <1>2. /\ n \in Nat /\ \A i \in DOMAIN g : i \in Nat
        /\ \A i \in DOMAIN h : i \in DOMAIN g /\ g[i] = h[i] /\ i < n
        /\ n \in DOMAIN g /\ g[n] = x /\ \A i \in DOMAIN g : i \in DOMAIN h \/ i = n
    BY Pushed
  <1> HIDE DEF g, n
  <1>3. Ordered(g)
    <2> SUFFICES ASSUME NEW i \in DOMAIN g, NEW j \in DOMAIN g, g[i].m = "assistant", g[j].m = "tool",
                        g[j].id \in CallIds(g[i].calls)
                 PROVE  i < j
      BY DEF Ordered
    <2>1. j \in DOMAIN h /\ g[j] = h[j]
      BY <1>1, <1>2
    <2>2. i \in DOMAIN h /\ g[i] = h[i]
      BY <1>1, <1>2, <2>1
    <2> QED
      BY <2>1, <2>2 DEF Ordered
  <1>4. Answered(g, CallIds(calls))
    <2> SUFFICES ASSUME NEW i \in DOMAIN g, g[i].m = "assistant", NEW c \in CallIds(g[i].calls) \ CallIds(calls)
                 PROVE  \E j \in DOMAIN g : i < j /\ g[j].m = "tool" /\ g[j].id = c
      BY DEF Answered
    <2>1. i \in DOMAIN h /\ g[i] = h[i]
      BY <1>1, <1>2
    <2>2. \E j \in DOMAIN h : i < j /\ h[j].m = "tool" /\ h[j].id = c
      BY <2>1 DEF Answered
    <2> QED
      BY <1>2, <2>2
  <1>5. calls \in HistTurns(g) /\ HistTurns(h) \subseteq HistTurns(g)
    BY <1>1, <1>2 DEF HistTurns
  <1>6. calls # << >> => LastIs(g, calls)
    BY <1>1, <1>2 DEF LastIs, IsTurn
  <1>7. ASSUME calls = << >>, NEW t, LastIs(h, t)
        PROVE  LastIs(g, t)
    <2> SUFFICES ASSUME NEW i \in DOMAIN g, IsTurn(g[i])
                 PROVE  g[i].calls = t \/ \E j \in DOMAIN g : i < j /\ IsTurn(g[j])
      BY DEF LastIs
    <2>1. i \in DOMAIN h /\ g[i] = h[i]
      BY <1>1, <1>2, <1>7 DEF IsTurn
    <2>2. h[i].calls = t \/ \E j \in DOMAIN h : i < j /\ IsTurn(h[j])
      BY <1>7, <2>1 DEF LastIs
    <2> QED
      BY <1>2, <2>1, <2>2
  <1> QED
    BY <1>3, <1>4, <1>5, <1>6, <1>7 DEF g, x

\* A compaction drops the oldest messages.
LEMMA SuffixHears ==
  ASSUME NEW S, NEW h \in Seq(S), NEW k \in DOMAIN h
  PROVE  Hears(h, SubSeq(h, k, Len(h)))
  <1> DEFINE g == SubSeq(h, k, Len(h))
             d == k - 1
  <1>1. /\ d \in Nat /\ DOMAIN h = 1 .. Len(h) /\ Len(h) \in Nat /\ k \in Nat
        /\ DOMAIN g = 1 .. Len(h) - d /\ \A i \in 1 .. Len(h) - d : g[i] = h[i + d]
    OBVIOUS
  <1> HIDE DEF g
  <1> HIDE DEF d
  <1>0. \A i \in DOMAIN g : i \in Nat /\ i + d \in DOMAIN h /\ g[i] = h[i + d]
    BY <1>1
  <1>2. ASSUME NEW i \in DOMAIN g, NEW j \in DOMAIN h, i + d < j
        PROVE  j - d \in DOMAIN g /\ g[j - d] = h[j] /\ i < j - d
    BY <1>1, <1>2
  <1>3. ASSUME Ordered(h)
        PROVE  Ordered(g)
    <2> SUFFICES ASSUME NEW i \in DOMAIN g, NEW j \in DOMAIN g, g[i].m = "assistant", g[j].m = "tool",
                        g[j].id \in CallIds(g[i].calls)
                 PROVE  i < j
      BY DEF Ordered
    <2>1. i + d \in DOMAIN h /\ g[i] = h[i + d] /\ j + d \in DOMAIN h /\ g[j] = h[j + d] /\ i \in Nat /\ j \in Nat
      BY <1>0
    <2>2. i + d < j + d
      BY <1>3, <2>1 DEF Ordered
    <2> QED
      BY <1>1, <2>1, <2>2
  <1>4. ASSUME NEW out, Answered(h, out)
        PROVE  Answered(g, out)
    <2> SUFFICES ASSUME NEW i \in DOMAIN g, g[i].m = "assistant", NEW c \in CallIds(g[i].calls) \ out
                 PROVE  \E j \in DOMAIN g : i < j /\ g[j].m = "tool" /\ g[j].id = c
      BY DEF Answered
    <2>1. i + d \in DOMAIN h /\ g[i] = h[i + d]
      BY <1>0
    <2>2. PICK j \in DOMAIN h : i + d < j /\ h[j].m = "tool" /\ h[j].id = c
      BY <1>4, <2>1 DEF Answered
    <2> QED
      BY <1>2, <2>2
  <1>5. ASSUME NEW t, LastIs(h, t)
        PROVE  LastIs(g, t)
    <2> SUFFICES ASSUME NEW i \in DOMAIN g, IsTurn(g[i])
                 PROVE  g[i].calls = t \/ \E j \in DOMAIN g : i < j /\ IsTurn(g[j])
      BY DEF LastIs
    <2>1. i + d \in DOMAIN h /\ g[i] = h[i + d]
      BY <1>0
    <2>2. h[i + d].calls = t \/ \E j \in DOMAIN h : i + d < j /\ IsTurn(h[j])
      BY <1>5, <2>1 DEF LastIs
    <2> QED
      BY <1>2, <2>1, <2>2
  <1> QED
    BY <1>3, <1>4, <1>5 DEF Hears, g

\* More may be left to answer.
LEMMA AnsweredMore ==
  ASSUME NEW h, NEW out, NEW more, Answered(h, out), out \subseteq more
  PROVE  Answered(h, more)
  BY DEF Answered

\* The history hears, and hears more.
LEMMA HearsOn ==
  ASSUME NEW f, NEW g, NEW h
  PROVE  Hears(f, f) /\ (Hears(f, g) /\ Hears(g, h) => Hears(f, h))
  BY DEF Hears

\* What is known of a turn and of a marker stays known.
LEMMA HearsTurn ==
  ASSUME NEW f, NEW g, Hears(f, g)
  PROVE  /\ \A t, i : During(f, t, i) => During(g, t, i)
         /\ \A p : Marked(f, p) => Marked(g, p)
  BY DEF Hears, During, Marked

-----------------------------------------------------------------------------
(* Frames.                                                                 *)

\* A frame that stays in its turn and hears no more than messages.
Like(f, g) == Keeps(f, g) /\ g.id = f.id /\ Hears(f.hist, g.hist) /\ (g.note => f.note)

\* Hearing no more than messages is reflexive and transitive, and keeps a frame's shape.
LEMMA LikeOn ==
  ASSUME NEW f, NEW g, NEW h
  PROVE  /\ Shaped(f) => Like(f, f)
         /\ Like(f, g) /\ Like(g, h) => Like(f, h)
         /\ Like(f, g) => Shaped(g)
  <1>1. Shaped(f) => Like(f, f)
    BY HearsOn DEF Like, Keeps
  <1>2. Like(f, g) /\ Like(g, h) => Like(f, h)
    <2>1. Hears(f.hist, g.hist) /\ Hears(g.hist, h.hist) => Hears(f.hist, h.hist)
      BY HearsOn
    <2> QED
      BY <2>1, KeepsOn DEF Like
  <1> QED
    BY <1>1, <1>2 DEF Like, Keeps

\* A field that says nothing of its calls may change.
LEMMA FieldLike ==
  ASSUME NEW f, Shaped(f), NEW v
  PROVE  /\ Like(f, [f EXCEPT !.pc = v]) /\ Like(f, [f EXCEPT !.press = v]) /\ Like(f, [f EXCEPT !.comp = v])
         /\ Like(f, [f EXCEPT !.tries = v]) /\ Like(f, [f EXCEPT !.calls = v]) /\ Like(f, [f EXCEPT !.mark = v])
         /\ Like(f, [f EXCEPT !.abort = v]) /\ Like(f, [f EXCEPT !.inject = v]) /\ Like(f, [f EXCEPT !.val = v])
         /\ Like(f, [f EXCEPT !.note = FALSE]) /\ Like(f, [f EXCEPT !.trig = v]) /\ Like(f, [f EXCEPT !.intr = v])
         /\ Like(f, [f EXCEPT !.action = v])
  <1> USE DEF Shaped, Fields
  <1>0. Hears(f.hist, f.hist)
    BY HearsOn
  <1>1. ASSUME NEW g, Keeps(f, g), g.id = f.id, g.hist = f.hist, g.note => f.note
        PROVE  Like(f, g)
    BY <1>0, <1>1 DEF Like
  <1>2. Keeps(f, [f EXCEPT !.note = FALSE])
    BY FieldKept
  <1>3. /\ Like(f, [f EXCEPT !.pc = v]) /\ Like(f, [f EXCEPT !.press = v]) /\ Like(f, [f EXCEPT !.comp = v])
        /\ Like(f, [f EXCEPT !.tries = v])
    BY <1>1, FieldKept
  <1>4. /\ Like(f, [f EXCEPT !.calls = v]) /\ Like(f, [f EXCEPT !.mark = v])
        /\ Like(f, [f EXCEPT !.abort = v]) /\ Like(f, [f EXCEPT !.inject = v]) /\ Like(f, [f EXCEPT !.val = v])
    BY <1>1, FieldKept
  <1>5. /\ Like(f, [f EXCEPT !.note = FALSE]) /\ Like(f, [f EXCEPT !.trig = v]) /\ Like(f, [f EXCEPT !.intr = v])
        /\ Like(f, [f EXCEPT !.action = v])
    BY <1>1, <1>2, FieldKept
  <1> QED
    BY <1>3, <1>4, <1>5

\* A message of the operator or the platform.
LEMMA PushLike ==
  ASSUME NEW f, Shaped(f), NEW x, x.m # "assistant"
  PROVE  /\ Like(f, Push(f, x)) /\ Push(f, x).hist = Append(f.hist, x)
         /\ HistTurns(Push(f, x).hist) = HistTurns(f.hist) /\ Push(f, x).pc = f.pc /\ Push(f, x).val = f.val
  <1> DEFINE h == Append(f.hist, x)
  <1>1. PICK S : f.hist \in Seq(S)
    BY DEF Shaped
  <1>2. Hears(f.hist, h) /\ HistTurns(h) = HistTurns(f.hist)
    BY <1>1, PushHears
  <1>3. h \in Seq(S \cup {x})
    BY <1>1, PushedTurns
  <1> HIDE DEF h
  <1>4. /\ Push(f, x) = [f EXCEPT !.hist = h] /\ [f EXCEPT !.hist = h].hist = h
        /\ [f EXCEPT !.hist = h].pc = f.pc /\ [f EXCEPT !.hist = h].val = f.val
    BY DEF Push, h, Shaped, Fields
  <1>5. Like(f, [f EXCEPT !.hist = h])
    BY <1>2, <1>3 DEF Like, Keeps, Shaped, Fields
  <1> QED
    BY <1>2, <1>4, <1>5 DEF h

\* A frame that is told something stays where it is.
LEMMA SpeakLike ==
  ASSUME NEW f, Shaped(f)
  PROVE  \A what : /\ Like(f, Push(f, UserMessage(what))) /\ HistTurns(Push(f, UserMessage(what)).hist) = HistTurns(f.hist)
                   /\ Push(f, UserMessage(what)).pc = f.pc /\ Push(f, UserMessage(what)).val = f.val
  <1>1. \A what : UserMessage(what).m # "assistant"
    BY DEF UserMessage
  <1> QED
    BY <1>1, PushLike

\* The changes of a frame that leave it where it is in its turn.
LEMMA ChangeLike ==
  ASSUME NEW f, Shaped(f)
  PROVE  /\ \A l : Like(f, Goto(f, l)) /\ Goto(f, l).pc = l /\ Goto(f, l).val = f.val
         /\ \A card : Like(f, EndWith(f, card)) /\ EndWith(f, card).pc = "end" /\ EndWith(f, card).val = card
         /\ \A val : Like(f, Settled(f, val)) /\ Settled(f, val).pc = "res" /\ Settled(f, val).val = val
         /\ Like(f, Noted(f)) /\ Noted(f).pc = f.pc /\ Noted(f).val = f.val /\ Noted(f).note = FALSE
         /\ Like(f, Injected(f)) /\ Injected(f).pc = f.pc /\ Injected(f).val = f.val
  <1>1. Like(f, f)
    BY LikeOn
  <1>2. ASSUME NEW g, NEW v, Like(f, g)
        PROVE  Like(f, [g EXCEPT !.pc = v]) /\ Like(f, [g EXCEPT !.val = v])
               /\ Like(f, [g EXCEPT !.note = FALSE]) /\ Like(f, [g EXCEPT !.inject = v])
    <2>1. Shaped(g)
      BY <1>2, LikeOn
    <2>2. Like(g, [g EXCEPT !.pc = v]) /\ Like(g, [g EXCEPT !.val = v])
          /\ Like(g, [g EXCEPT !.note = FALSE]) /\ Like(g, [g EXCEPT !.inject = v])
      BY <2>1, FieldLike
    <2> QED
      BY <1>2, <2>2, LikeOn
  <1>3. \A l : Like(f, Goto(f, l)) /\ Goto(f, l).pc = l /\ Goto(f, l).val = f.val
    BY <1>1, <1>2 DEF Goto, Shaped, Fields
  <1>4. \A card : Like(f, EndWith(f, card)) /\ EndWith(f, card).pc = "end" /\ EndWith(f, card).val = card
    <2> SUFFICES ASSUME NEW card
                 PROVE  Like(f, EndWith(f, card)) /\ EndWith(f, card).pc = "end" /\ EndWith(f, card).val = card
      OBVIOUS
    <2>1. Like(f, [[f EXCEPT !.pc = "end"] EXCEPT !.val = card])
      BY <1>1, <1>2
    <2> QED
      BY <2>1 DEF EndWith, Shaped, Fields
  <1>5. \A val : Like(f, Settled(f, val)) /\ Settled(f, val).pc = "res" /\ Settled(f, val).val = val
    <2> SUFFICES ASSUME NEW val
                 PROVE  Like(f, Settled(f, val)) /\ Settled(f, val).pc = "res" /\ Settled(f, val).val = val
      OBVIOUS
    <2>1. Like(f, [[f EXCEPT !.pc = "res"] EXCEPT !.val = val])
      BY <1>1, <1>2
    <2> QED
      BY <2>1 DEF Settled, Shaped, Fields
  <1>6. Like(f, Noted(f)) /\ Noted(f).pc = f.pc /\ Noted(f).val = f.val /\ Noted(f).note = FALSE
    <2> DEFINE g == Push(f, UserMessage("note"))
    <2>1. Like(f, g) /\ g.pc = f.pc /\ g.val = f.val
      BY SpeakLike
    <2>2. Shaped(g)
      BY <2>1, LikeOn
    <2> HIDE DEF g
    <2>3. /\ [g EXCEPT !.note = FALSE].pc = f.pc /\ [g EXCEPT !.note = FALSE].val = f.val
          /\ [g EXCEPT !.note = FALSE].note = FALSE
      BY <2>1, <2>2 DEF Shaped, Fields
    <2>4. CASE f.note
      BY <1>2, <2>1, <2>3, <2>4 DEF Noted, g
    <2>5. CASE ~f.note
      BY <1>1, <2>5 DEF Noted
    <2> QED
      BY <2>4, <2>5
  <1>7. Like(f, Injected(f)) /\ Injected(f).pc = f.pc /\ Injected(f).val = f.val
    <2> DEFINE g == Push(f, UserMessage("plan"))
    <2>1. Like(f, g) /\ g.pc = f.pc /\ g.val = f.val
      BY SpeakLike
    <2>2. Shaped(g)
      BY <2>1, LikeOn
    <2> HIDE DEF g
    <2>3. [g EXCEPT !.inject = FALSE].pc = f.pc /\ [g EXCEPT !.inject = FALSE].val = f.val
      BY <2>1, <2>2 DEF Shaped, Fields
    <2>4. CASE f.inject
      BY <1>2, <2>1, <2>3, <2>4 DEF Injected, g
    <2>5. CASE ~f.inject
      BY <1>1, <2>5 DEF Injected
    <2> QED
      BY <2>4, <2>5
  <1> QED
    BY <1>3, <1>4, <1>5, <1>6, <1>7

\* A frame at another label, and one that ends with a card.
LEMMA GoLike ==
  ASSUME NEW f, Shaped(f), NEW l, NEW g, g = Goto(f, l)
  PROVE  Like(f, g) /\ Shaped(g) /\ g.pc = l /\ g.val = f.val
  BY ChangeLike, LikeOn

\* So does one that ends with a card.
LEMMA EndLike ==
  ASSUME NEW f, Shaped(f), NEW card, NEW g, g = EndWith(f, card)
  PROVE  Like(f, g) /\ Shaped(g) /\ g.pc = "end" /\ g.val = card
  BY ChangeLike, LikeOn

\* The labels of the loop are none of those within a turn.
LEMMA Apartness ==
  LoopLabels \cap (OnACall \cup {"disp", "settle", "closing", "end"}) = {}
  BY DEF LoopLabels, OnACall

\* A frame between turns that stays between turns.
LEMMA LoopFrame ==
  ASSUME NEW e, NEW a, NEW f, FrameH(f, e, a), f.pc \in LoopLabels, NEW g, Like(f, g), g.pc \in LoopLabels \cup {"end"}
  PROVE  FrameH(g, e, a)
  <1>1. Between(f) /\ g.pend = f.pend /\ Hears(f.hist, g.hist)
    BY DEF Between, Like, Keeps
  <1>2. g.pc \notin OnACall \cup {"disp", "settle", "closing"}
    BY Apartness DEF OnACall
  <1>3. Ordered(g.hist) /\ Answered(g.hist, {}) /\ Marked(g.hist, g.pend)
    BY <1>1, HearsTurn DEF FrameH, Told, Hears
  <1>4. Told(g) /\ Held(g, e)
    BY <1>2, <1>3 DEF Told, Held
  <1>5. Carries(g, e, a)
    <2>1. f.pc # "res" /\ g.mode = f.mode
      BY DEF LoopLabels, Like, Keeps
    <2> QED
      BY <1>1, <1>2, <2>1 DEF FrameH, Carries, OnACall
  <1> QED
    BY <1>4, <1>5 DEF FrameH

\* A frame that stays where it is.
LEMMA StayFrame ==
  ASSUME NEW e, NEW a, NEW f, FrameH(f, e, a), NEW g, Like(f, g), g.pc = f.pc, g.val = f.val,
         HistTurns(f.hist) \subseteq HistTurns(g.hist)
  PROVE  FrameH(g, e, a)
  <1>1. /\ g.pend = f.pend /\ g.turn = f.turn /\ g.idx = f.idx /\ g.mode = f.mode /\ Hears(f.hist, g.hist)
        /\ Between(g) = Between(f) /\ Call(g) = Call(f)
    BY DEF Between, Like, Keeps, Call, Batch
  <1>2. Told(g)
    BY <1>1, HearsTurn DEF FrameH, Told, Hears
  <1>3. Held(g, e)
    BY <1>1 DEF FrameH, Held
  <1>4. Carries(g, e, a)
    BY <1>1 DEF FrameH, Carries, OnMarker
  <1> QED
    BY <1>2, <1>3, <1>4 DEF FrameH

\* More calls have ended.
LEMMA MoreEnded ==
  ASSUME NEW e, NEW a, NEW f, FrameH(f, e, a), NEW more, e \subseteq more, NEW b, a => b
  PROVE  FrameH(f, more, b)
  <1>1. Held(f, more)
    BY DEF FrameH, Held
  <1>2. Carries(f, more, b)
    BY DEF FrameH, Carries, Done
  <1> QED
    BY <1>1, <1>2 DEF FrameH

-----------------------------------------------------------------------------
(* The disk.                                                               *)

\* More calls have ended.
LEMMA DiskMore ==
  ASSUME NEW c, NEW e, DiskH(c, e), NEW more, e \subseteq more
  PROVE  DiskH(c, more)
  BY DEF DiskH, SavedH, Backed, Done

\* What a frame between turns leaves on disk.
LEMMA LoopSaves ==
  ASSUME NEW e, NEW a, NEW f, FrameH(f, e, a), Between(f), NEW role
  PROVE  SavedH(f, e) /\ Whole(f) /\ LeafH(f, 0, role)
  <1>1. Ordered(f.hist) /\ Marked(f.hist, f.pend) /\ Answered(f.hist, {})
    BY DEF FrameH, Told
  <1>2. Backed(f.hist, f.pend, e)
    BY DEF FrameH, Carries, Backed
  <1>3. Whole(f)
    BY <1>1, AnsweredMore DEF Whole
  <1>4. f.pend.card # None => ChildCallOf(f)
    BY DEF FrameH, Carries, ChildCallOf, NoPending
  <1> QED
    BY <1>1, <1>2, <1>3, <1>4 DEF SavedH, LeafH

\* What a frame that waits for its child leaves on disk.
LEMMA WaitSaves ==
  ASSUME NEW e, NEW a, NEW f, FrameH(f, e, a), f.pc = "wait", NEW role
  PROVE  SavedH(f, e) /\ ParentH(f) /\ LeafH(f, 0, role)
  <1>1. f.pc \in OnACall /\ f.idx \in DOMAIN f.turn /\ OnMarker(f)
    BY DEF FrameH, Carries, OnACall
  <1>2. Ordered(f.hist) /\ During(f.hist, f.turn, f.idx) /\ f.turn \in HistTurns(f.hist)
    BY <1>1 DEF FrameH, Told, Held
  <1>3. Marked(f.hist, f.pend) /\ Whole(f) /\ Backed(f.hist, f.pend, e)
    BY <1>1, <1>2 DEF OnMarker, During, Marked, Whole, MarkedRest, Backed
  <1>4. ChildCallOf(f) /\ f.pend.card = None
    BY <1>1 DEF FrameH, Carries, ChildCallOf, OnMarker, PendingCall, Call, Batch
  <1> QED
    BY <1>1, <1>2, <1>3, <1>4 DEF SavedH, ParentH, LeafH, OnMarker

\* What is written of a frame says the same of its history.
LEMMA SerialH ==
  ASSUME NEW f, NEW e, NEW ask, NEW role
  PROVE  /\ serializeFrame(f).id = f.id
         /\ SavedH(serializeFrame(f), e) = SavedH(f, e) /\ ParentH(serializeFrame(f)) = ParentH(f)
         /\ LeafH(serializeFrame(f), ask, role) = LeafH(f, ask, role)
  BY DEF serializeFrame, SavedH, ParentH, LeafH, ChildCallOf, Whole

\* The working roles' frames are the first ones.
LEMMA WorkFramesAre ==
  ASSUME NEW tools, NEW w, NEW st, StackOK(st, tools, w)
  PROVE  \E m \in 0 .. Len(st) : /\ WorkFrames(st) = [k \in 1 .. m |-> serializeFrame(st[k])]
                                 /\ Len(WorkFrames(st)) = m /\ DOMAIN WorkFrames(st) = 1 .. m
                                 /\ Len(st) \in Nat /\ DOMAIN st = 1 .. Len(st)
                                 /\ \A k \in DOMAIN st : (st[k].hand => k > m) /\ (k > m => st[k].hand)
                                 /\ \A k \in 1 .. m : k < m => st[k].pc = "wait"
                                 /\ \A k \in 1 .. m : k < Len(st) => st[k].pc \in LoopLabels \cup {"wait"}
  <1> DEFINE fs == WorkFrames(st)
  <1>1. PICK m \in 0 .. Len(st) : \A k \in DOMAIN st : (st[k].hand => k > m) /\ (k > m => st[k].hand)
    BY DEF StackOK, Layered
  <1>2. st \in Seq(Frames(tools, w)) /\ DOMAIN st = 1 .. Len(st) /\ Len(st) \in Nat
    BY DEF StackOK
  <1>3. {j \in DOMAIN st : ~st[j].hand} = 1 .. m
    BY <1>1, <1>2
  <1>4. fs = [k \in 1 .. m |-> serializeFrame(st[k])]
    BY <1>3 DEF WorkFrames
  <1>5. Len(fs) = m /\ DOMAIN fs = 1 .. m
    <2>1. m \in Nat
      OBVIOUS
    <2>2. DEFINE S == {serializeFrame(st[k]) : k \in 1 .. m}
    <2>3. fs \in [1 .. m -> S]
      BY <1>4
    <2> HIDE DEF fs, S
    <2> QED
      BY <2>1, <2>3
  <1>6. \A k \in DOMAIN st : (st[k].hand => k > m) /\ (k > m => st[k].hand)
    BY <1>1, <1>2
  <1>7. ASSUME NEW k \in 1 .. m, k < Len(st)
        PROVE  (st[k].pc = "wait" \/ st[k].pc \in LoopLabels) /\ (k < m => st[k].pc = "wait")
    <2>1. k \in DOMAIN st /\ (k < m => k + 1 \in DOMAIN st /\ ~st[k + 1].hand)
      BY <1>2, <1>6, <1>7
    <2>2. st[k].pc = "wait" \/ (st[k].pc \in LoopLabels /\ st[k + 1].hand)
      BY <1>7, <2>1, Zenon DEF StackOK, Waits, LoopLabels
    <2> QED
      BY <2>1, <2>2
  <1> QED
    BY <1>2, <1>4, <1>5, <1>6, <1>7

\* The frames of a stack as they are written.
LEMMA SavesH ==
  ASSUME NEW tools, NEW w, NEW st, StackOK(st, tools, w), NEW e, NEW a, FramesH(st, e, a), NEW c,
         Numbered(st, c.counter), c.frames = WorkFrames(st),
         \A k \in DOMAIN st : k = Len(st) /\ ~st[k].hand => SavedH(st[k], e) /\ LeafH(st[k], c.ask, c.askRole),
         c.ask # 0 => st # << >> /\ (\A k \in DOMAIN st : ~st[k].hand) /\ ~c.paused /\ ~c.suspended
  PROVE  DiskH(c, e)
  <1>1. PICK m \in 0 .. Len(st) : /\ WorkFrames(st) = [k \in 1 .. m |-> serializeFrame(st[k])]
                                  /\ Len(WorkFrames(st)) = m /\ DOMAIN WorkFrames(st) = 1 .. m
                                  /\ Len(st) \in Nat /\ DOMAIN st = 1 .. Len(st)
                                  /\ \A k \in DOMAIN st : (st[k].hand => k > m) /\ (k > m => st[k].hand)
                                  /\ \A k \in 1 .. m : k < m => st[k].pc = "wait"
                                  /\ \A k \in 1 .. m : k < Len(st) => st[k].pc \in LoopLabels \cup {"wait"}
    BY WorkFramesAre
  <1>2. \A k \in 1 .. m : k \in DOMAIN st /\ c.frames[k] = serializeFrame(st[k]) /\ FrameH(st[k], e, a)
    BY <1>1 DEF FramesH
  <1>3. Numbered(c.frames, c.counter)
    <2>1. \A k \in DOMAIN c.frames : k \in DOMAIN st /\ c.frames[k].id = st[k].id
      BY <1>1, <1>2 DEF serializeFrame
    <2> QED
      BY <2>1 DEF Numbered
  <1>4. ASSUME NEW k \in DOMAIN c.frames
        PROVE  /\ SavedH(c.frames[k], e)
               /\ k < Len(c.frames) => ParentH(c.frames[k])
               /\ k = Len(c.frames) => LeafH(c.frames[k], c.ask, c.askRole)
    <2> DEFINE f == st[k]
    <2>0. k \in 1 .. m /\ Len(c.frames) = m /\ m \in Nat /\ k \in Nat /\ m <= Len(st) /\ Len(st) \in Nat
      BY <1>1
    <2>1. /\ k \in DOMAIN st /\ c.frames[k] = serializeFrame(f) /\ FrameH(f, e, a) /\ ~f.hand
          /\ (k < m => f.pc = "wait") /\ (k < Len(st) => (f.pc = "wait" \/ f.pc \in LoopLabels))
      <3>1. k \in DOMAIN st /\ c.frames[k] = serializeFrame(f) /\ FrameH(f, e, a)
        BY <2>0, <1>2
      <3>2. ~f.hand
        BY <2>0, <3>1, <1>1
      <3>3. k < m => f.pc = "wait"
        BY <2>0, <1>1
      <3>4. k < Len(st) => f.pc = "wait" \/ f.pc \in LoopLabels
        BY <2>0, <1>1
      <3> QED
        BY <3>1, <3>2, <3>3, <3>4
    <2>2. CASE k = Len(st)
      <3>1. k = m /\ SavedH(f, e) /\ LeafH(f, c.ask, c.askRole)
        BY <2>0, <2>1, <2>2
      <3> HIDE DEF f
      <3>2. SavedH(c.frames[k], e) /\ LeafH(c.frames[k], c.ask, c.askRole)
        BY <2>1, <3>1, SerialH
      <3> QED
        BY <2>0, <3>1, <3>2
    <2>3. CASE k # Len(st)
      <3> HIDE DEF f
      <3>1. k < Len(st) /\ (f.pc = "wait" \/ f.pc \in LoopLabels)
        BY <2>0, <2>1, <2>3
      <3>2. k = m => c.ask = 0
        <4>1. k + 1 \in DOMAIN st
          BY <2>0, <1>1, <3>1
        <4> QED
          BY <2>0, <1>1, <4>1
      <3>3. CASE f.pc = "wait"
        <4>1. SavedH(f, e) /\ ParentH(f) /\ LeafH(f, 0, c.askRole)
          BY <2>1, <3>3, WaitSaves
        <4>2. SavedH(c.frames[k], e) /\ ParentH(c.frames[k]) /\ LeafH(c.frames[k], 0, c.askRole)
          BY <2>1, <4>1, SerialH
        <4> QED
          BY <2>0, <3>2, <4>2
      <3>4. CASE f.pc \in LoopLabels
        <4>1. Between(f)
          BY <3>4 DEF Between
        <4>2. SavedH(f, e) /\ LeafH(f, 0, c.askRole)
          BY <2>1, <4>1, LoopSaves
        <4>3. k = m
          <5>1. f.pc # "wait"
            BY <3>4 DEF LoopLabels
          <5> QED
            BY <2>0, <2>1, <5>1
        <4>4. SavedH(c.frames[k], e) /\ LeafH(c.frames[k], 0, c.askRole)
          <5>1. /\ SavedH(serializeFrame(f), e) = SavedH(f, e)
                /\ LeafH(serializeFrame(f), 0, c.askRole) = LeafH(f, 0, c.askRole)
            BY SerialH
          <5> QED
            BY <2>1, <4>2, <5>1
        <4> QED
          BY <2>0, <3>2, <4>3, <4>4
      <3> QED
        BY <3>1, <3>3, <3>4
    <2> QED
      BY <2>2, <2>3
  <1>5. c.ask # 0 => c.frames # << >>
    <2> SUFFICES ASSUME c.ask # 0 PROVE DOMAIN c.frames # {}
      BY <1>1
    <2>1. Len(st) # 0
      BY DEF StackOK
    <2>2. 1 \in DOMAIN st /\ ~st[1].hand
      BY <1>1, <2>1
    <2> QED
      BY <1>1, <2>2
  <1> QED
    BY <1>3, <1>4, <1>5 DEF DiskH


-----------------------------------------------------------------------------
(* A step of the running frame.                                            *)

\* What the invariants say of the running frame.
LEMMA RunningH ==
  ASSUME NEW tools, EngineInv(tools), NEW of, ExecInv(of), HistoryInv, NEW l, At(l)
  PROVE  /\ status = "running" /\ stack # << >> /\ Len(stack) \in Nat \ {0} /\ Len(stack) \in DOMAIN stack
         /\ DOMAIN stack = 1 .. Len(stack) /\ Top = stack[Len(stack)] /\ Top.pc = l /\ Shaped(Top)
         /\ Top \in FrameType(tools, park.wrote) /\ FrameH(Top, Ended(log), park.question) /\ FrameX(Top, of)
         /\ \A k \in DOMAIN stack : Shaped(stack[k])
         /\ park.question => Unwinds(Top, park, rec) /\ park.tracked /\ park.ask # 0
         /\ park.tracked => Unreplayed(Top)
         /\ l \notin Unwinding => ~park.question /\ park.ask = 0 /\ ~rec.frozen
         /\ disk.ask # 0 /\ l # "disp" => park.question /\ disk.ask = park.ask
         /\ (rec.frozen => park.question) /\ (~park.question => park.ask = 0) /\ (park.question => ~Top.hand)
  <1>1. /\ status = "running" /\ stack # << >> /\ Len(stack) \in Nat \ {0} /\ Len(stack) \in DOMAIN stack
        /\ DOMAIN stack = 1 .. Len(stack) /\ Top = stack[Len(stack)] /\ Top.pc = l /\ Shaped(Top)
        /\ Top \in FrameType(tools, park.wrote) /\ FrameX(Top, of)
    BY RunningX
  <1>2. FrameH(Top, Ended(log), park.question) /\ \A k \in DOMAIN stack : Shaped(stack[k])
    BY <1>1, AllShaped DEF HistoryInv, FramesH
  <1>3. /\ park.question => Unwinds(Top, park, rec) /\ park.tracked /\ park.ask # 0
        /\ park.tracked => Unreplayed(Top)
        /\ ~park.question => park.ask = 0
    BY <1>1 DEF HistoryInv, ParkH
  <1>4. (rec.frozen => park.question) /\ (park.question => l \in Unwinding /\ ~Top.hand)
    BY <1>1 DEF ExecInv, RecX, EngineInv, ParkOK
  <1>5. disk.ask # 0 /\ l # "disp" => park.question /\ disk.ask = park.ask
    <2> SUFFICES ASSUME disk.ask # 0, l # "disp" PROVE park.question /\ disk.ask = park.ask
      OBVIOUS
    <2>1. (park.question /\ disk.ask = park.ask) \/ AfterAnswer(stack)
      BY <1>1 DEF HistoryInv, StatusH
    <2>2. ~AfterAnswer(stack)
      BY <1>1 DEF AfterAnswer
    <2> QED
      BY <2>1, <2>2
  <1> QED
    BY <1>1, <1>2, <1>3, <1>4, <1>5

\* A frame that hears a message where it stands.
Stays(f, g) == Like(f, g) /\ g.pc = f.pc /\ g.val = f.val /\ HistTurns(f.hist) \subseteq HistTurns(g.hist)

\* The running frame moves on, the ones below stay; the park tracker asks what it asked.
Moved(f, g) == g.id = f.id /\ g.hand = f.hand /\ (Unreplayed(f) => Unreplayed(g))
Steps(st, tt) ==
  /\ DOMAIN tt = DOMAIN st /\ Len(tt) = Len(st) /\ Moved(st[Len(st)], tt[Len(st)])
  /\ \A k \in DOMAIN st : k # Len(st) => Stays(st[k], tt[k])
SamePark(p, q) == q.question = p.question /\ q.ask = p.ask /\ q.role = p.role /\ q.tracked = p.tracked

\* A frame that stays has moved to no other place of a tracked run.
LEMMA StaysMoved ==
  ASSUME NEW f, NEW g, Stays(f, g)
  PROVE  Moved(f, g)
  BY DEF Stays, Moved, Like, Keeps, Unreplayed

\* A step of the running frame keeps the invariant when it keeps its frame's, and the disk's.
LEMMA StepH ==
  ASSUME NEW tools, EngineInv(tools), NEW of, ExecInv(of), HistoryInv, NEW l, At(l), Steps(stack, stack'),
         NEW g, g = stack'[Len(stack)], FrameH(g, Ended(log'), park.question),
         park.question => Unwinds(g, park, rec'),
         TerminatedIn(log) \subseteq TerminatedIn(log'), jour'.ended \subseteq TerminatedIn(log'),
         SamePark(park, park'), status' = status,
         rec'.counter = rec.counter, rec'.suspended = rec.suspended, rec'.paused = rec.paused,
         DiskH(disk', Ended(log')), disk'.counter <= rec.counter, rec'.frozen => disk'.ask = park.ask,
         disk'.ask # 0 => (park.question /\ disk'.ask = park.ask) \/ AfterAnswer(stack'),
         Settles(stack', rec', disk')
  PROVE  HistoryInv'
  <1> DEFINE n == Len(stack)
  <1>1. /\ status = "running" /\ n \in Nat \ {0} /\ n \in DOMAIN stack
        /\ DOMAIN stack = 1 .. n /\ Top = stack[n]
    BY RunningH
  <1>2. /\ DOMAIN stack' = DOMAIN stack /\ Len(stack') = n /\ Moved(stack[n], g)
        /\ \A k \in DOMAIN stack : k # n => Stays(stack[k], stack'[k])
    BY DEF Steps
  <1> HIDE DEF n
  <1>3. \A k \in DOMAIN stack : Moved(stack[k], stack'[k])
    BY <1>2, StaysMoved DEF n
  <1>4. FramesH(stack', Ended(log'), park'.question)
    <2>1. park'.question = park.question
      BY DEF SamePark
    <2>2. Ended(log) \subseteq Ended(log')
      BY DEF Ended
    <2>3. ASSUME NEW k \in DOMAIN stack, k # n
          PROVE  FrameH(stack'[k], Ended(log'), park.question)
      <3>1. FrameH(stack[k], Ended(log), park.question)
        BY DEF HistoryInv, FramesH
      <3>2. FrameH(stack'[k], Ended(log), park.question)
        BY <3>1, <2>3, <1>2, StayFrame DEF Stays
      <3> QED
        BY <3>2, <2>2, MoreEnded
    <2> QED
      BY <1>2, <2>1, <2>3 DEF FramesH, n
  <1>5. Numbered(stack', rec'.counter)
    BY <1>2, <1>3 DEF HistoryInv, Numbered, Moved
  <1>6. ParkH(park', rec', stack', disk')
    <2>1. ParkH(park, rec, stack, disk)
      BY DEF HistoryInv
    <2>2. park'.question <=> park'.ask # 0
      BY <2>1 DEF ParkH, SamePark
    <2>3. park'.tracked => \A k \in DOMAIN stack' : Unreplayed(stack'[k])
      BY <2>1, <1>2, <1>3 DEF ParkH, SamePark, Moved
    <2>4. ASSUME park'.question
          PROVE  park'.tracked /\ \A k \in DOMAIN stack' : IF k = n THEN Unwinds(stack'[k], park', rec') ELSE stack'[k].id # park'.role
      <3>1. park.question /\ Unwinds(g, park, rec') /\ park'.role = park.role /\ park'.ask = park.ask /\ park'.tracked = park.tracked
        BY <2>4 DEF SamePark
      <3>2. Unwinds(g, park', rec')
        BY <3>1 DEF Unwinds, Asking
      <3>3. park.tracked /\ \A k \in DOMAIN stack : k # n => stack[k].id # park.role
        BY <2>1, <3>1 DEF ParkH, n
      <3>4. \A k \in DOMAIN stack : stack'[k].id = stack[k].id
        BY <1>3 DEF Moved
      <3> QED
        BY <1>2, <3>1, <3>2, <3>3, <3>4 DEF n
    <2>5. rec'.frozen => disk'.ask = park'.ask
      BY DEF SamePark
    <2> QED
      BY <1>2, <2>2, <2>3, <2>4, <2>5 DEF ParkH
  <1>7. StatusH(status', stack', rec', park', disk')
    <2>1. StatusH(status, stack, rec, park, disk) /\ status' = "running"
      BY <1>1 DEF HistoryInv
    <2>2. stack' # << >> /\ stack'[1].hand = stack[1].hand
      BY <1>1, <1>2, <1>3 DEF Moved
    <2>3. ~stack[1].hand /\ ~rec.suspended /\ ~rec.paused
      BY <1>1, <2>1 DEF StatusH
    <2>4. disk'.ask # 0 => (park'.question /\ disk'.ask = park'.ask) \/ AfterAnswer(stack')
      BY DEF SamePark
    <2> QED
      BY <2>1, <2>2, <2>3, <2>4 DEF StatusH
  <1> QED
    BY <1>4, <1>5, <1>6, <1>7 DEF HistoryInv

\* Replacing the running frame leaves the frames below it as they are.
LEMMA PutSteps ==
  ASSUME NEW tools, EngineInv(tools), NEW of, ExecInv(of), HistoryInv, NEW l, At(l), NEW g, Moved(Top, g)
  PROVE  Steps(stack, Put(g)) /\ Put(g)[Len(stack)] = g
  <1>1. \A k \in DOMAIN stack : Shaped(stack[k]) /\ Len(stack) \in DOMAIN stack /\ Top = stack[Len(stack)]
        /\ Len(stack) \in Nat /\ DOMAIN stack = 1 .. Len(stack)
    BY RunningH
  <1>2. Len(stack) \in DOMAIN stack /\ Top = stack[Len(stack)] /\ Len(stack) \in Nat /\ DOMAIN stack = 1 .. Len(stack)
    BY RunningH
  <1>3. \A k \in DOMAIN stack : Stays(stack[k], stack[k])
    BY <1>1, LikeOn DEF Stays
  <1>4. /\ DOMAIN Put(g) = DOMAIN stack
        /\ \A k \in DOMAIN stack : Put(g)[k] = IF k = Len(stack) THEN g ELSE stack[k]
    BY <1>2 DEF Put
  <1>5. Len(Put(g)) = Len(stack)
    <2>1. stack \in Seq(Frames(tools, park.wrote))
      BY DEF EngineInv, StackOK
    <2> QED
      BY <1>2, <2>1 DEF Put
  <1> QED
    BY <1>2, <1>3, <1>4, <1>5 DEF Steps

\* The cards of a run that leaves nothing to be answered.
Final == {"success", "error", "interrupted"}

\* A step that changes neither the disk nor the recorder keeps the invariant when it keeps
\* the running frame's part.
LEMMA MoveH ==
  ASSUME NEW tools, EngineInv(tools), NEW of, ExecInv(of), HistoryInv, NEW l, At(l), Steps(stack, stack'),
         NEW g, g = stack'[Len(stack)], FrameH(g, Ended(log'), park.question),
         park.question => Unwinds(g, park, rec), g.pc = "end" => g.val \in Final,
         TerminatedIn(log) \subseteq TerminatedIn(log'), jour'.ended \subseteq TerminatedIn(log'),
         SamePark(park, park'), UNCHANGED <<status, rec, disk>>,
         l = "disp" /\ AfterAnswer(stack) => AfterAnswer(stack')
  PROVE  HistoryInv'
  <1>1. DiskH(disk', Ended(log'))
    <2>1. Ended(log) \subseteq Ended(log')
      BY DEF Ended
    <2> QED
      BY <2>1, DiskMore DEF HistoryInv
  <1>2. StatusH(status, stack, rec, park, disk) /\ ParkH(park, rec, stack, disk) /\ status = "running"
    BY RunningH DEF HistoryInv
  <1>3. disk'.counter <= rec.counter /\ (rec'.frozen => disk'.ask = park.ask)
    BY <1>2 DEF StatusH, ParkH
  <1>4. disk'.ask # 0 => (park.question /\ disk'.ask = park.ask) \/ AfterAnswer(stack')
    <2>1. CASE l = "disp"
      BY <1>2, <2>1 DEF StatusH
    <2>2. CASE l # "disp"
      BY <2>2, RunningH
    <2> QED
      BY <2>1, <2>2
  <1>5. Settles(stack', rec', disk')
    BY DEF Settles, Steps, Final
  <1> QED
    BY <1>1, <1>3, <1>4, <1>5, StepH

\* A step that writes a checkpoint, when the recorder may.
LEMMA MoveWriteH ==
  ASSUME NEW tools, EngineInv(tools), NEW all, EngineInv(all)', NEW of, ExecInv(of), HistoryInv, NEW l, At(l),
         NEW g, Moved(Top, g), FrameH(g, Ended(log), park.question),
         park.question => Unwinds(g, park, rec), g.pc = "end" => g.val \in Final,
         NEW r, RecOK(r, tools, park.wrote), r.counter = rec.counter, r.frozen = rec.frozen,
         r.suspended = rec.suspended, r.paused = rec.paused,
         ~g.hand /\ ~rec.frozen => SavedH(g, Ended(log)) /\ LeafH(g, park.ask, park.role),
         Write("ordinary", Put(g), r, park), UNCHANGED <<status, log, jour>>
  PROVE  HistoryInv'
  <1> DEFINE e == Ended(log)
             c == Checkpoint("ordinary", r, stack', park)
  <1>0. stack' = Put(g) /\ park' = park /\ log' = log
    BY DEF Write
  <1>1. Steps(stack, stack') /\ g = stack'[Len(stack)]
    BY <1>0, PutSteps
  <1>2. \/ Writable("ordinary", r, stack') /\ disk' = c /\ rec' = [r EXCEPT !.pre = PreInterlude("ordinary", r, c)]
        \/ ~Writable("ordinary", r, stack') /\ disk' = disk /\ rec' = r
    BY <1>0 DEF Write
  <1>3. /\ rec'.counter = rec.counter /\ rec'.suspended = rec.suspended /\ rec'.paused = rec.paused
        /\ rec'.frozen = rec.frozen
    BY <1>2 DEF RecOK
  <1>4. /\ StatusH(status, stack, rec, park, disk) /\ ParkH(park, rec, stack, disk) /\ status = "running"
        /\ DiskH(disk, e) /\ FramesH(stack, e, park.question) /\ Numbered(stack, rec.counter)
        /\ jour.ended \subseteq TerminatedIn(log)
    BY RunningH DEF HistoryInv
  <1>5. park.question => Unwinds(g, park, rec')
    BY <1>3 DEF Unwinds
  <1>6. Settles(stack', rec', disk')
    BY <1>1 DEF Settles, Steps, Final
  <1>7. /\ DiskH(disk', e) /\ disk'.counter <= rec.counter /\ (rec'.frozen => disk'.ask = park.ask)
        /\ disk'.ask # 0 => (park.question /\ disk'.ask = park.ask) \/ AfterAnswer(stack')
    <2>1. CASE Writable("ordinary", r, stack')
      <3>1. disk' = c /\ ~rec.frozen /\ ~HasHandler(stack')
        BY <1>2, <2>1 DEF Writable
      <3>2. /\ c.frames = WorkFrames(stack') /\ c.ask = park.ask /\ c.askRole = park.role /\ c.counter = rec.counter
            /\ c.paused = rec.paused /\ c.suspended = rec.suspended
        BY DEF Checkpoint
      <3> HIDE DEF c
      <3>3. ~g.hand /\ (\A k \in DOMAIN stack' : ~stack'[k].hand)
        <4>1. Len(stack) \in DOMAIN stack'
          BY <1>1, RunningH DEF Steps
        <4> QED
          BY <3>1, <4>1, <1>1 DEF HasHandler
      <3>4. SavedH(g, e) /\ LeafH(g, c.ask, c.askRole)
        BY <3>1, <3>2, <3>3
      <3>5. FramesH(stack', e, park.question)
        <4>1. \A k \in DOMAIN stack : k # Len(stack) => FrameH(stack'[k], e, park.question)
          BY <1>1, <1>4, StayFrame DEF FramesH, Steps, Stays
        <4> QED
          BY <4>1, <1>1 DEF FramesH, Steps
      <3>6. Numbered(stack', c.counter)
        <4>1. \A k \in DOMAIN stack : stack'[k].id = stack[k].id
          BY <1>1, StaysMoved DEF Steps, Moved
        <4> QED
          BY <4>1, <1>1, <1>4, <3>2 DEF Numbered, Steps
      <3>7. StackOK(stack', all, park.wrote)
        BY <1>0 DEF EngineInv
      <3>8. \A k \in DOMAIN stack' : k = Len(stack') /\ ~stack'[k].hand => SavedH(stack'[k], e) /\ LeafH(stack'[k], c.ask, c.askRole)
        BY <1>1, <3>4 DEF Steps
      <3>9. c.ask # 0 => stack' # << >> /\ ~c.paused /\ ~c.suspended
        <4>1. stack' # << >> /\ ~rec.paused /\ ~rec.suspended
          BY <1>1, <1>4, RunningH DEF Steps, StatusH
        <4> QED
          BY <4>1, <3>2
      <3>10. DiskH(c, e)
        BY <3>2, <3>3, <3>5, <3>6, <3>7, <3>8, <3>9, SavesH
      <3>11. rec.counter \in Nat
        BY DEF EngineInv, RecOK
      <3> QED
        BY <3>1, <3>2, <3>10, <3>11, RunningH, <1>3
    <2>2. CASE ~Writable("ordinary", r, stack')
      <3>1. disk' = disk
        BY <1>2, <2>2
      <3>2. rec.frozen \/ HasHandler(stack')
        BY <2>2 DEF Writable
      <3>3. disk.ask # 0 => (park.question /\ disk.ask = park.ask) \/ AfterAnswer(stack)
        BY <1>4 DEF StatusH
      <3>4. HasHandler(stack') => ~AfterAnswer(stack)
        <4>1. \A k \in DOMAIN stack : stack'[k].hand = stack[k].hand
          BY <1>1, StaysMoved DEF Steps, Moved
        <4> QED
          BY <4>1, <1>1 DEF Steps, HasHandler, AfterAnswer
      <3>5. rec.frozen => park.question /\ disk.ask = park.ask
        BY <1>4, RunningH DEF ParkH
      <3>6. disk.ask # 0 => park.question /\ disk.ask = park.ask
        BY <3>2, <3>3, <3>4, <3>5
      <3> QED
        BY <3>1, <3>5, <3>6, <1>3, <1>4 DEF StatusH
    <2> QED
      BY <2>1, <2>2
  <1>8. TerminatedIn(log) \subseteq TerminatedIn(log') /\ jour'.ended \subseteq TerminatedIn(log') /\ SamePark(park, park')
    BY <1>0, <1>4 DEF SamePark
  <1> QED
    BY <1>0, <1>1, <1>3, <1>5, <1>6, <1>7, <1>8, StepH

-----------------------------------------------------------------------------
(* The loop top.                                                           *)

\* A log that grows tells all it told.
LEMMA LogsMore ==
  ASSUME NEW lg, NEW events
  PROVE  /\ TerminatedIn(lg) \subseteq TerminatedIn(Logged(lg, events))
         /\ \A inv : Terminal(inv) \in events => inv \in TerminatedIn(Logged(lg, events))
  <1> DEFINE more == Logged(lg, events)
  <1>1. DOMAIN more = DOMAIN lg \cup events
    BY LoggedHas
  <1> HIDE DEF more
  <1>2. \A inv : Terminal(inv)[2] = inv
    BY DEF Terminal
  <1>3. \A inv : Terminal(inv) \in DOMAIN more => inv \in TerminatedIn(more)
    BY <1>2 DEF TerminatedIn, BagToSet, BagIn
  <1>4. \A inv \in TerminatedIn(lg) : Terminal(inv) \in DOMAIN lg
    BY DEF TerminatedIn, BagToSet, BagIn
  <1> QED
    BY <1>1, <1>3, <1>4 DEF more

\* A frame between turns moves on between turns; nothing is written.
LEMMA LoopH ==
  ASSUME NEW tools, EngineInv(tools), NEW of, ExecInv(of), HistoryInv, NEW l, At(l), l \in LoopLabels, ~park.question,
         DOMAIN stack' = DOMAIN stack, Len(stack') = Len(stack),
         \A k \in DOMAIN stack : k # Len(stack) => Stays(stack[k], stack'[k]),
         NEW g, g = stack'[Len(stack)], Like(Top, g), g.pc \in LoopLabels \cup {"end"}, g.pc = "end" => g.val \in Final,
         TerminatedIn(log) \subseteq TerminatedIn(log'), jour'.ended \subseteq TerminatedIn(log'),
         UNCHANGED <<status, rec, park, disk>>
  PROVE  HistoryInv'
  <1>1. Top.pc = l /\ FrameH(Top, Ended(log), park.question) /\ Top = stack[Len(stack)]
    BY RunningH
  <1>2. Moved(Top, g)
    BY DEF Moved, Like, Keeps, Unreplayed, LoopLabels
  <1>3. Steps(stack, stack')
    BY <1>1, <1>2 DEF Steps
  <1>4. FrameH(g, Ended(log'), park.question)
    <2>1. FrameH(g, Ended(log), park.question)
      BY <1>1, LoopFrame
    <2>2. Ended(log) \subseteq Ended(log')
      BY DEF Ended
    <2> QED
      BY <2>1, <2>2, MoreEnded
  <1>5. SamePark(park, park') /\ l # "disp"
    BY DEF SamePark, LoopLabels
  <1> QED
    BY <1>3, <1>4, <1>5, MoveH

\* The same where only the running frame changes.
LEMMA LoopPutH ==
  ASSUME NEW tools, EngineInv(tools), NEW of, ExecInv(of), HistoryInv, NEW l, At(l), l \in LoopLabels, ~park.question,
         NEW g, stack' = Put(g), Like(Top, g), g.pc \in LoopLabels \cup {"end"}, g.pc = "end" => g.val \in Final,
         TerminatedIn(log) \subseteq TerminatedIn(log'), jour'.ended \subseteq TerminatedIn(log'),
         UNCHANGED <<status, rec, park, disk>>
  PROVE  HistoryInv'
  <1>1. Top = stack[Len(stack)]
    BY RunningH
  <1>2. Moved(Top, g)
    BY DEF Moved, Like, Keeps, Unreplayed, LoopLabels
  <1>3. Steps(stack, stack') /\ stack'[Len(stack)] = g
    BY <1>2, PutSteps
  <1> QED
    BY <1>3, LoopH DEF Steps

\* What does not touch the log.
LEMMA LogStands ==
  ASSUME HistoryInv, UNCHANGED log, jour'.ended = jour.ended
  PROVE  TerminatedIn(log) \subseteq TerminatedIn(log') /\ jour'.ended \subseteq TerminatedIn(log')
  BY DEF HistoryInv

\* An interlude begins between turns of its target.
LEMMA StartInterludeH ==
  ASSUME NEW tools, EngineInv(tools), NEW of, ExecInv(of), HistoryInv, NEW l, At(l), l \in LoopLabels, ~park.question,
         NEW f, Like(Top, f), NEW trigger, StartInterlude(f, trigger), UNCHANGED <<status, rec, park, disk>>
  PROVE  HistoryInv'
  <1> DEFINE id == used.interrupts + 1
             f1 == [f EXCEPT !.pc = "mark"]
             f2 == [f1 EXCEPT !.trig = trigger]
             g == [f2 EXCEPT !.intr = id]
  <1>1. /\ stack' = Put(g) /\ log' = Logged(log, {Start(<<"interrupt", id>>)})
        /\ jour' = [jour EXCEPT !.started = @ \cup {<<"interrupt", id>>}]
    BY DEF StartInterlude
  <1> HIDE DEF id
  <1>2. Like(f, f1) /\ f1.pc = "mark" /\ Shaped(f1)
    <2>1. Shaped(f)
      BY LikeOn
    <2>2. Like(f, f1)
      BY <2>1, FieldLike
    <2> QED
      BY <2>1, <2>2, LikeOn DEF Shaped, Fields
  <1> HIDE DEF f1
  <1>3. Like(f1, f2) /\ f2.pc = "mark" /\ Shaped(f2)
    BY <1>2, LikeOn, FieldLike DEF Shaped, Fields
  <1> HIDE DEF f2
  <1>4. Like(f2, g) /\ g.pc = "mark"
    BY <1>3, LikeOn, FieldLike DEF Shaped, Fields
  <1> HIDE DEF g
  <1>5. Like(Top, g)
    BY <1>2, <1>3, <1>4, LikeOn
  <1>6. TerminatedIn(log) \subseteq TerminatedIn(log') /\ jour'.ended \subseteq TerminatedIn(log')
    <2>1. jour'.ended = jour.ended
      BY <1>1
    <2>2. TerminatedIn(log) \subseteq TerminatedIn(log')
      BY <1>1, LogsMore
    <2> QED
      BY <2>1, <2>2 DEF HistoryInv
  <1> QED
    BY <1>1, <1>4, <1>5, <1>6, LoopPutH DEF LoopLabels

\* A routed request moves no frame of the chain.
LEMMA RoutedH ==
  ASSUME NEW tools, EngineInv(tools), NEW l, At(l), NEW f \in Frames(tools, park.wrote), Like(Top, f), NEW kind
  PROVE  /\ DOMAIN Routed(kind, f) = DOMAIN stack /\ Len(Routed(kind, f)) = Len(stack)
         /\ Stays(f, Routed(kind, f)[Len(stack)])
         /\ \A k \in DOMAIN stack : k # Len(stack) => Stays(stack[k], Routed(kind, f)[k])
  <1> DEFINE st == Put(f)
             n == Len(stack)
             notice(g) == Push(g, UserMessage("notice"))
             plan(g) == Push(g, UserMessage("plan"))
             inject(g) == [g EXCEPT !.inject = TRUE]
             abort(g) == [g EXCEPT !.abort = TRUE]
  <1>1. /\ StackOK(stack, tools, park.wrote) /\ stack # << >> /\ f.hand = Top.hand
        /\ n \in DOMAIN stack /\ DOMAIN stack = 1 .. n
    BY Running, TopOK DEF Like, Keeps, StackOK
  <1>2. Routed(kind, f) \in Seq(Frames(tools, park.wrote)) /\ Len(Routed(kind, f)) = n
    BY <1>1, RoutedOK
  <1>3. /\ DOMAIN st = DOMAIN stack /\ Len(st) = n /\ st[n] = f
        /\ \A k \in DOMAIN stack : k # n => st[k] = stack[k]
    BY <1>1, PutOK
  <1>4. DOMAIN Routed(kind, f) = DOMAIN stack
    BY <1>1, <1>2
  <1>5. \A k \in DOMAIN stack : Shaped(st[k]) /\ Stays(st[k], st[k])
    <2>1. \A k \in DOMAIN stack : Shaped(st[k])
      BY <1>3, AllShaped DEF Like, Keeps
    <2> QED
      BY <2>1, LikeOn DEF Stays
  <1>6. \A g : Shaped(g) => Stays(g, notice(g)) /\ Stays(g, plan(g)) /\ Stays(g, inject(g)) /\ Stays(g, abort(g))
    <2> SUFFICES ASSUME NEW g, Shaped(g)
                 PROVE  Stays(g, notice(g)) /\ Stays(g, plan(g)) /\ Stays(g, inject(g)) /\ Stays(g, abort(g))
      OBVIOUS
    <2>1. Stays(g, notice(g)) /\ Stays(g, plan(g))
      BY SpeakLike DEF Stays
    <2>2. Like(g, inject(g)) /\ Like(g, abort(g))
      BY FieldLike
    <2>3. /\ inject(g).pc = g.pc /\ inject(g).val = g.val /\ inject(g).hist = g.hist
          /\ abort(g).pc = g.pc /\ abort(g).val = g.val /\ abort(g).hist = g.hist
      BY DEF Shaped, Fields
    <2> QED
      BY <2>1, <2>2, <2>3 DEF Stays
  <1>7. \/ Routed(kind, f) = [st EXCEPT ![1] = notice(st[1])]
        \/ Routed(kind, f) = Put(plan(f)) /\ n = 1
        \/ Routed(kind, f) = [k \in DOMAIN st |-> IF k = 1 THEN inject(st[k]) ELSE abort(st[k])]
    BY <1>3 DEF Routed
  <1>8. Put(plan(f)) = [st EXCEPT ![n] = plan(st[n])]
    BY <1>1, <1>3 DEF Put
  <1> HIDE DEF st, n, notice, plan, inject, abort
  <1>9. \A k \in DOMAIN stack : Stays(st[k], Routed(kind, f)[k])
    <2>1. CASE Routed(kind, f) = [st EXCEPT ![1] = notice(st[1])]
      BY <1>3, <1>5, <1>6, <2>1
    <2>2. CASE Routed(kind, f) = Put(plan(f)) /\ n = 1
      BY <1>3, <1>5, <1>6, <1>8, <2>2
    <2>3. CASE Routed(kind, f) = [k \in DOMAIN st |-> IF k = 1 THEN inject(st[k]) ELSE abort(st[k])]
      BY <1>3, <1>5, <1>6, <2>3
    <2> QED
      BY <1>7, <2>1, <2>2, <2>3
  <1>10. Stays(f, Routed(kind, f)[n])
    BY <1>1, <1>3, <1>9
  <1>11. \A k \in DOMAIN stack : k # n => Stays(stack[k], Routed(kind, f)[k])
    BY <1>3, <1>9
  <1> QED
    BY <1>2, <1>4, <1>10, <1>11 DEF n

\* A request taken off the queue is noted, or starts an interlude.
LEMMA DrainRequestH ==
  ASSUME NEW tools, EngineInv(tools), NEW of, ExecInv(of), HistoryInv, NEW l, At(l), l \in LoopLabels, ~park.question,
         NEW f \in Frames(tools, park.wrote), Like(Top, f), DrainRequest(f), UNCHANGED <<status, rec, park, disk>>
  PROVE  HistoryInv'
  <1>1. Shaped(f)
    BY LikeOn
  <1>2. CASE f.hand \/ ContextOwed \/ queue = << >>
    <2>1. stack' = Put(Goto(f, "context")) /\ UNCHANGED <<log, jour>>
      BY <1>2 DEF DrainRequest
    <2>2. Like(Top, Goto(f, "context")) /\ Goto(f, "context").pc = "context"
      BY <1>1, ChangeLike, LikeOn
    <2> QED
      BY <2>1, <2>2, LogStands, LoopPutH DEF LoopLabels
  <1>3. CASE ~(f.hand \/ ContextOwed \/ queue = << >>) /\ Head(queue) = "inquiry"
    <2>1. StartInterlude(f, "inquiry")
      BY <1>3 DEF DrainRequest
    <2> QED
      BY <2>1, StartInterludeH
  <1>4. CASE ~(f.hand \/ ContextOwed \/ queue = << >>) /\ Head(queue) # "inquiry"
    <2> DEFINE st == Routed(Head(queue), f)
               n == Len(stack)
               last == IF st[n].abort THEN EndWith(st[n], "interrupted") ELSE Goto(st[n], "context")
    <2>1. /\ DOMAIN st = DOMAIN stack /\ Len(st) = n /\ Stays(f, st[n])
          /\ \A k \in DOMAIN stack : k # n => Stays(stack[k], st[k])
      BY RoutedH
    <2>2. stack' = [st EXCEPT ![n] = last] /\ UNCHANGED <<log, jour>>
      BY <1>4, <2>1 DEF DrainRequest
    <2>3. n \in DOMAIN stack
      BY RunningH
    <2>4. Len([st EXCEPT ![n] = last]) = Len(st)
      <3>1. st \in Seq(Frames(tools, park.wrote))
        BY RoutedOK, Running, TopOK DEF Like, Keeps
      <3> HIDE DEF st, last
      <3> QED
        BY <3>1, <2>1, <2>3
    <2> HIDE DEF st, n
    <2>5. Like(Top, last) /\ last.pc \in {"end", "context"} /\ (last.pc = "end" => last.val = "interrupted")
      <3>1. Like(f, st[n]) /\ Shaped(st[n])
        BY <2>1, LikeOn DEF Stays
      <3>2. /\ Like(st[n], EndWith(st[n], "interrupted")) /\ EndWith(st[n], "interrupted").pc = "end"
            /\ EndWith(st[n], "interrupted").val = "interrupted"
            /\ Like(st[n], Goto(st[n], "context")) /\ Goto(st[n], "context").pc = "context"
        BY <3>1, GoLike, EndLike
      <3> QED
        BY <3>1, <3>2, LikeOn
    <2> HIDE DEF last
    <2>6. /\ DOMAIN stack' = DOMAIN stack /\ Len(stack') = n /\ stack'[n] = last
          /\ \A k \in DOMAIN stack : k # n => Stays(stack[k], stack'[k])
      BY <2>1, <2>2, <2>3, <2>4
    <2>7. TerminatedIn(log) \subseteq TerminatedIn(log') /\ jour'.ended \subseteq TerminatedIn(log')
      BY <2>2, LogStands
    <2> QED
      BY <2>5, <2>6, <2>7, LoopH DEF LoopLabels, Final, n
  <1> QED
    BY <1>2, <1>3, <1>4

\* A drain tells the frame its notices, or begins an interlude, between turns.
LEMMA DrainInterruptsH ==
  ASSUME NEW tools, EngineInv(tools), NEW of, ExecInv(of), HistoryInv, drainInterrupts
  PROVE  HistoryInv'
  <1> DEFINE f == Injected(Top)
  <1>1. At("top") /\ ~park.question /\ UNCHANGED <<status, rec, park, disk>>
    BY DEF drainInterrupts
  <1>2. Shaped(Top) /\ Top \in FrameType(tools, park.wrote) /\ Top.pc = "top" /\ "top" \in LoopLabels
    BY <1>1, RunningH DEF LoopLabels
  <1>3. Like(Top, f) /\ f.pc = "top"
    BY <1>2, ChangeLike
  <1>4. f \in Frames(tools, park.wrote)
    BY <1>2, <1>3, InjectedType, Loose DEF OnACall
  <1>5. \/ stack' = Put(EndWith(Top, "interrupted")) /\ UNCHANGED <<log, jour>>
        \/ StartInterlude(f, "loop_check")
        \/ DrainRequest(f)
    BY DEF drainInterrupts
  <1> HIDE DEF f
  <1>6. CASE stack' = Put(EndWith(Top, "interrupted")) /\ UNCHANGED <<log, jour>>
    <2>1. /\ Like(Top, EndWith(Top, "interrupted")) /\ EndWith(Top, "interrupted").pc = "end"
          /\ EndWith(Top, "interrupted").val = "interrupted"
      BY <1>2, EndLike
    <2> QED
      BY <1>1, <1>2, <1>6, <2>1, LogStands, LoopPutH DEF Final
  <1>7. CASE StartInterlude(f, "loop_check")
    BY <1>1, <1>2, <1>3, <1>7, StartInterludeH
  <1>8. CASE DrainRequest(f)
    BY <1>1, <1>2, <1>3, <1>4, <1>8, DrainRequestH
  <1> QED
    BY <1>5, <1>6, <1>7, <1>8

\* A label of the loop past its top: no question is open.
LEMMA PastTheTop ==
  ASSUME NEW tools, EngineInv(tools), NEW of, ExecInv(of), HistoryInv, NEW l, At(l), l \in LoopLabels \ {"top"}
  PROVE  /\ ~park.question /\ park.ask = 0 /\ ~rec.frozen /\ Top.pc = l
         /\ Shaped(Top) /\ Like(Top, Top) /\ Top \in Frames(tools, park.wrote) /\ RecOK(rec, tools, park.wrote)
  <1>1. l \notin Unwinding
    BY DEF LoopLabels, Unwinding
  <1>2. ~park.question /\ park.ask = 0 /\ ~rec.frozen
    BY <1>1, RunningH
  <1>3. Shaped(Top) /\ Top.pc = l
    BY RunningH
  <1>4. Top \in Frames(tools, park.wrote) /\ RecOK(rec, tools, park.wrote)
    BY Running
  <1> QED
    BY <1>2, <1>3, <1>4, LikeOn

\* So does the drain behind the loop check.
LEMMA DrainAfterLoopCheckH ==
  ASSUME NEW tools, EngineInv(tools), NEW of, ExecInv(of), HistoryInv, drainAfterLoopCheck
  PROVE  HistoryInv'
  <1>1. At("drain") /\ DrainRequest(Top) /\ UNCHANGED <<status, rec, park, disk>> /\ "drain" \in LoopLabels \ {"top"}
    BY DEF drainAfterLoopCheck, LoopLabels
  <1>2. Like(Top, Top) /\ Top \in Frames(tools, park.wrote) /\ ~park.question
    BY <1>1, PastTheTop
  <1> QED
    BY <1>1, <1>2, DrainRequestH

\* The context is resolved between turns, by an interlude or a notice.
LEMMA ResolveSafePointH ==
  ASSUME NEW tools, EngineInv(tools), NEW of, ExecInv(of), HistoryInv, resolveSafePoint
  PROVE  HistoryInv'
  <1> DEFINE p == Push(Top, UserMessage("pressure"))
             h == [p EXCEPT !.press = "sent"]
             g == Goto(IF Top.press = "pending" THEN h ELSE Top, "safe")
  <1>1. At("context") /\ UNCHANGED <<status, rec, park, disk>> /\ "context" \in LoopLabels \ {"top"}
    BY DEF resolveSafePoint, LoopLabels
  <1>2. Shaped(Top) /\ Like(Top, Top) /\ ~park.question
    BY <1>1, PastTheTop
  <1>3. \/ StartInterlude(Top, "context_budget_exceeded") \/ StartInterlude(Top, "context_pressure")
        \/ stack' = Put(g) /\ UNCHANGED <<log, jour>>
    BY DEF resolveSafePoint
  <1>4. Like(Top, p) /\ Shaped(p)
    BY <1>2, SpeakLike, LikeOn
  <1> HIDE DEF p
  <1>5. Like(Top, h) /\ Shaped(h)
    BY <1>4, FieldLike, LikeOn
  <1> HIDE DEF h
  <1>6. Like(Top, g) /\ g.pc = "safe"
    BY <1>2, <1>5, ChangeLike, LikeOn
  <1> HIDE DEF g
  <1>7. CASE stack' = Put(g) /\ UNCHANGED <<log, jour>>
    BY <1>1, <1>2, <1>6, <1>7, LogStands, LoopPutH DEF LoopLabels
  <1> QED
    BY <1>1, <1>2, <1>3, <1>7, StartInterludeH

\* A frame between turns that goes on between turns, and writes what stands.
LEMMA LoopWriteH ==
  ASSUME NEW tools, EngineInv(tools), NEW all, EngineInv(all)', NEW of, ExecInv(of), HistoryInv,
         NEW l, At(l), l \in LoopLabels \ {"top"}, NEW g, Like(Top, g), g.pc \in LoopLabels \cup {"end"},
         g.pc = "end" => g.val \in Final,
         NEW r, RecOK(r, tools, park.wrote), r.counter = rec.counter, r.frozen = rec.frozen,
         r.suspended = rec.suspended, r.paused = rec.paused,
         Write("ordinary", Put(g), r, park), UNCHANGED <<status, log, jour>>
  PROVE  HistoryInv'
  <1>1. ~park.question /\ park.ask = 0
    BY PastTheTop
  <1>2. FrameH(g, Ended(log), park.question)
    BY RunningH, LoopFrame
  <1>3. Moved(Top, g)
    BY DEF Moved, Like, Keeps, Unreplayed, LoopLabels
  <1>4. Between(g)
    BY DEF Between, Final
  <1>5. SavedH(g, Ended(log)) /\ LeafH(g, park.ask, park.role)
    BY <1>1, <1>2, <1>4, LoopSaves
  <1> QED
    BY <1>1, <1>2, <1>3, <1>5, MoveWriteH

\* The safe point writes the stack with its leaf between turns.
LEMMA SafePointH ==
  ASSUME NEW tools, EngineInv(tools), NEW all, EngineInv(all)', NEW of, ExecInv(of), HistoryInv, SafePoint
  PROVE  HistoryInv'
  <1> DEFINE g == Goto(Top, "ready")
  <1>1. /\ At("safe") /\ Write("ordinary", Put(g), rec, park) /\ UNCHANGED <<status, log, jour>>
        /\ "safe" \in LoopLabels \ {"top"}
    BY DEF SafePoint, LoopLabels
  <1>2. Shaped(Top) /\ RecOK(rec, tools, park.wrote)
    BY <1>1, PastTheTop
  <1>3. Like(Top, g) /\ g.pc = "ready"
    BY <1>2, GoLike
  <1> HIDE DEF g
  <1> QED
    BY <1>1, <1>2, <1>3, LoopWriteH DEF LoopLabels

\* The request itself is made with the history as it is.
LEMMA CallModelH ==
  ASSUME NEW tools, EngineInv(tools), NEW of, ExecInv(of), HistoryInv, CallModel
  PROVE  HistoryInv'
  <1>1. /\ At("ready") /\ stack' = Put(Goto(Top, "llm")) /\ UNCHANGED <<status, rec, park, log, jour, disk>>
        /\ "ready" \in LoopLabels \ {"top"}
    BY DEF CallModel, LoopLabels
  <1>2. Shaped(Top) /\ ~park.question
    BY <1>1, PastTheTop
  <1>3. Like(Top, Goto(Top, "llm")) /\ Goto(Top, "llm").pc = "llm"
    BY <1>2, GoLike
  <1> QED
    BY <1>1, <1>2, <1>3, LogStands, LoopPutH DEF LoopLabels

\* A model that is unavailable ends its role with an error.
LEMMA ModelUnavailableH ==
  ASSUME NEW tools, EngineInv(tools), NEW of, ExecInv(of), HistoryInv, ModelUnavailable
  PROVE  HistoryInv'
  <1> DEFINE g == EndWith(Top, "error")
  <1>1. /\ At("llm") /\ stack' = Put(g) /\ UNCHANGED <<status, rec, park, log, jour, disk>>
        /\ "llm" \in LoopLabels \ {"top"}
    BY DEF ModelUnavailable, LoopLabels
  <1>2. Shaped(Top) /\ ~park.question
    BY <1>1, PastTheTop
  <1>3. Like(Top, g) /\ g.pc = "end" /\ g.val = "error"
    BY <1>2, EndLike
  <1> HIDE DEF g
  <1> QED
    BY <1>1, <1>2, <1>3, LogStands, LoopPutH DEF Final

\* A rejected context ends the role, or sends it back to the top to be compacted.
LEMMA ContextRejectedH ==
  ASSUME NEW tools, EngineInv(tools), NEW of, ExecInv(of), HistoryInv, ContextRejected
  PROVE  HistoryInv'
  <1> DEFINE f == [Top EXCEPT !.tries = @ + 1]
             h == Goto(f, "top")
             g == IF f.tries > MaxRecovery THEN EndWith(f, "error") ELSE [h EXCEPT !.comp = TRUE]
  <1>1. /\ At("llm") /\ stack' = Put(g) /\ UNCHANGED <<status, rec, park, log, jour, disk>>
        /\ "llm" \in LoopLabels \ {"top"}
    BY DEF ContextRejected, LoopLabels
  <1>2. Shaped(Top) /\ ~park.question
    BY <1>1, PastTheTop
  <1>3. Like(Top, f) /\ Shaped(f)
    <2>1. PICK v : f = [Top EXCEPT !.tries = v]
      OBVIOUS
    <2> HIDE DEF f
    <2>2. Like(Top, f)
      BY <1>2, <2>1, FieldLike
    <2> QED
      BY <2>2, LikeOn
  <1> HIDE DEF f
  <1>4. /\ Like(f, h) /\ h.pc = "top" /\ Shaped(h)
        /\ Like(f, EndWith(f, "error")) /\ EndWith(f, "error").pc = "end" /\ EndWith(f, "error").val = "error"
    BY <1>3, GoLike, EndLike
  <1> HIDE DEF h
  <1>5. Like(h, [h EXCEPT !.comp = TRUE]) /\ [h EXCEPT !.comp = TRUE].pc = "top"
    BY <1>4, FieldLike DEF Shaped, Fields
  <1>6. Like(f, g) /\ g.pc \in {"end", "top"} /\ (g.pc = "end" => g.val = "error")
    BY <1>4, <1>5, LikeOn
  <1> HIDE DEF g
  <1>7. Like(Top, g)
    BY <1>3, <1>6, LikeOn
  <1> QED
    BY <1>1, <1>2, <1>6, <1>7, LogStands, LoopPutH DEF LoopLabels, Final

-----------------------------------------------------------------------------
(* The handler interlude.                                                  *)

\* The interlude's mark is written with the target as the leaf, between its turns.
LEMMA MarkInterludeH ==
  ASSUME NEW tools, EngineInv(tools), NEW all, EngineInv(all)', NEW of, ExecInv(of), HistoryInv, MarkInterlude
  PROVE  HistoryInv'
  <1> DEFINE g == Goto(Top, "handler")
             i == [target |-> Top.id, trigger |-> Top.trig, queued |-> queue]
             r == [rec EXCEPT !.interlude = i]
  <1>1. /\ At("mark") /\ UNCHANGED <<status, log, jour>> /\ "mark" \in LoopLabels \ {"top"}
        /\ \/ stack' = Put(g) /\ UNCHANGED <<rec, park, disk>>
           \/ Write("ordinary", Put(g), r, park)
    BY DEF MarkInterlude, LoopLabels
  <1>2. Shaped(Top) /\ ~park.question /\ RecOK(rec, tools, park.wrote) /\ Top \in FrameType(tools, park.wrote)
        /\ queue \in Seq(Kinds)
    BY <1>1, PastTheTop, Running
  <1>3. Like(Top, g) /\ g.pc = "handler"
    BY <1>2, GoLike
  <1>4. i \in Interludes
    BY <1>2 DEF FrameType, Interludes
  <1> HIDE DEF g, i
  <1>5. /\ RecOK(r, tools, park.wrote) /\ r.counter = rec.counter /\ r.frozen = rec.frozen
        /\ r.suspended = rec.suspended /\ r.paused = rec.paused
    BY <1>2, <1>4 DEF RecOK
  <1> HIDE DEF r
  <1>6. CASE stack' = Put(g) /\ UNCHANGED <<rec, park, disk>>
    BY <1>1, <1>2, <1>3, <1>6, LogStands, LoopPutH DEF LoopLabels
  <1>7. CASE Write("ordinary", Put(g), r, park)
    BY <1>1, <1>3, <1>5, <1>7, LoopWriteH DEF LoopLabels
  <1> QED
    BY <1>1, <1>6, <1>7

\* A compaction takes no answer from what it leaves.
LEMMA CompactedLike ==
  ASSUME NEW f, Shaped(f), NEW h \in Compacted(f.hist)
  PROVE  Like(f, [f EXCEPT !.hist = h]) /\ [f EXCEPT !.hist = h].pc = f.pc
  <1>1. PICK S : f.hist \in Seq(S)
    BY DEF Shaped
  <1>2. Hears(f.hist, h)
    <2>1. CASE h = f.hist
      BY <2>1, HearsOn
    <2>2. ASSUME NEW k \in DOMAIN f.hist, h = SubSeq(f.hist, k, Len(f.hist))
          PROVE  Hears(f.hist, h)
      BY <1>1, <2>2, SuffixHears
    <2> QED
      BY <2>1, <2>2 DEF Compacted
  <1>3. Keeps(f, [f EXCEPT !.hist = h]) /\ [f EXCEPT !.hist = h].pc = f.pc
    BY CompactedKept
  <1>4. /\ [f EXCEPT !.hist = h].id = f.id /\ [f EXCEPT !.hist = h].note = f.note
        /\ [f EXCEPT !.hist = h].hist = h
    BY DEF Shaped, Fields
  <1> QED
    BY <1>2, <1>3, <1>4 DEF Like

\* However an interlude is resolved, the target hears no more than messages.
LEMMA ResolutionLike ==
  ASSUME NEW f, Shaped(f), NEW t \in Resolutions(f)
  PROVE  Like(f, t) /\ t.pc = "unmark"
  <1> DEFINE g == Goto(f, "unmark")
             p == Push(g, UserMessage("pressure"))
             d == Push(g, UserMessage("managed"))
             k(h) == [g EXCEPT !.hist = h]
             c(h) == Push(k(h), UserMessage("recovery"))
             Fits(x) == Like(f, x) /\ x.pc = "unmark"
  <1>1. \/ t = [g EXCEPT !.mark = f.calls] \/ t = g
        \/ t = [p EXCEPT !.press = "sent"]
        \/ t = [d EXCEPT !.comp = FALSE]
        \/ \E h \in Compacted(f.hist) : \/ t = [g EXCEPT !.comp = FALSE, !.hist = h, !.action = "unfit"]
                                        \/ t = [c(h) EXCEPT !.comp = FALSE]
    BY DEF Resolutions
  <1>2. Fits(g) /\ Shaped(g) /\ g.hist = f.hist
    <2>1. g.hist = f.hist
      BY DEF Shaped, Fields, Goto
    <2> QED
      BY <2>1, GoLike
  <1> HIDE DEF g
  <1>3. \A x, y : Fits(x) /\ Like(x, y) /\ y.pc = x.pc => Fits(y)
    BY LikeOn
  <1>4. \A x : Fits(x) => Shaped(x)
    BY LikeOn
  <1>5. \A x : Fits(x) =>
          /\ \A v : Fits([x EXCEPT !.mark = v]) /\ Fits([x EXCEPT !.press = v]) /\ Fits([x EXCEPT !.comp = v])
                    /\ Fits([x EXCEPT !.action = v])
          /\ \A what : Fits(Push(x, UserMessage(what)))
    <2> HIDE DEF Fits
    <2> TAKE x
    <2> HAVE Fits(x)
    <2>1. Shaped(x)
      BY <1>4
    <2>2. \A v : /\ Like(x, [x EXCEPT !.mark = v]) /\ [x EXCEPT !.mark = v].pc = x.pc
                 /\ Like(x, [x EXCEPT !.press = v]) /\ [x EXCEPT !.press = v].pc = x.pc
                 /\ Like(x, [x EXCEPT !.comp = v]) /\ [x EXCEPT !.comp = v].pc = x.pc
                 /\ Like(x, [x EXCEPT !.action = v]) /\ [x EXCEPT !.action = v].pc = x.pc
      <3> SUFFICES ASSUME NEW v
                   PROVE  /\ Like(x, [x EXCEPT !.mark = v]) /\ [x EXCEPT !.mark = v].pc = x.pc
                          /\ Like(x, [x EXCEPT !.press = v]) /\ [x EXCEPT !.press = v].pc = x.pc
                          /\ Like(x, [x EXCEPT !.comp = v]) /\ [x EXCEPT !.comp = v].pc = x.pc
                          /\ Like(x, [x EXCEPT !.action = v]) /\ [x EXCEPT !.action = v].pc = x.pc
        OBVIOUS
      <3>1. /\ Like(x, [x EXCEPT !.mark = v]) /\ Like(x, [x EXCEPT !.press = v])
            /\ Like(x, [x EXCEPT !.comp = v]) /\ Like(x, [x EXCEPT !.action = v])
        BY <2>1, FieldLike
      <3> QED
        BY <2>1, <3>1, FieldKept
    <2>3. \A what : Like(x, Push(x, UserMessage(what))) /\ Push(x, UserMessage(what)).pc = x.pc
      BY <2>1, SpeakLike
    <2> QED
      BY <1>3, <2>2, <2>3
  <1>6. ASSUME NEW h \in Compacted(f.hist)
        PROVE  Fits([c(h) EXCEPT !.comp = FALSE]) /\ Fits([g EXCEPT !.comp = FALSE, !.hist = h, !.action = "unfit"])
    <2>1. Like(g, k(h)) /\ k(h).pc = g.pc
      BY <1>2, CompactedLike
    <2>2. Fits(k(h))
      BY <1>2, <1>3, <2>1
    <2> HIDE DEF k, Fits
    <2>3. Fits(c(h))
      BY <1>5, <2>2
    <2> HIDE DEF c
    <2>4. Fits([c(h) EXCEPT !.comp = FALSE])
      BY <1>5, <2>3
    <2> DEFINE g1 == [k(h) EXCEPT !.comp = FALSE]
    <2>5. Fits(g1)
      BY <1>5, <2>2
    <2>6. [g EXCEPT !.comp = FALSE, !.hist = h, !.action = "unfit"] = [g1 EXCEPT !.action = "unfit"]
      BY DEF k
    <2> HIDE DEF g1
    <2>7. Fits([g1 EXCEPT !.action = "unfit"])
      BY <1>5, <2>5
    <2> QED
      BY <2>4, <2>6, <2>7
  <1> HIDE DEF Fits
  <1>7. Fits(p) /\ Fits(d)
    BY <1>2, <1>5
  <1> HIDE DEF p, d, c
  <1>8. Fits([g EXCEPT !.mark = f.calls]) /\ Fits([p EXCEPT !.press = "sent"]) /\ Fits([d EXCEPT !.comp = FALSE])
    BY <1>2, <1>5, <1>7
  <1>9. Fits(t)
    BY <1>1, <1>2, <1>6, <1>8
  <1> QED
    BY <1>9 DEF Fits

\* An interlude's resolution is a message of its target.
LEMMA ResolveInterludeH ==
  ASSUME NEW tools, EngineInv(tools), NEW of, ExecInv(of), HistoryInv, ResolveInterlude
  PROVE  HistoryInv'
  <1> DEFINE inv == <<"interrupt", Top.intr>>
  <1>1. /\ At("handled") /\ UNCHANGED <<status, rec, park, disk>> /\ "handled" \in LoopLabels \ {"top"}
        /\ \E f \in Resolutions(Top) : stack' = Put(f)
        /\ log' = Logged(log, {Terminal(inv)}) /\ jour'.ended = jour.ended \cup {inv}
    <2>1. jour'.ended = jour.ended \cup {inv}
      <3>1. jour' = [jour EXCEPT !.ended = @ \cup {inv}]
        BY DEF ResolveInterlude
      <3> QED
        BY <3>1
    <2> QED
      BY <2>1 DEF ResolveInterlude, LoopLabels
  <1> HIDE DEF inv
  <1>2. Shaped(Top) /\ ~park.question
    BY <1>1, PastTheTop
  <1>3. PICK f \in Resolutions(Top) : stack' = Put(f)
    BY <1>1
  <1>4. Like(Top, f) /\ f.pc = "unmark"
    BY <1>2, ResolutionLike
  <1>5. TerminatedIn(log) \subseteq TerminatedIn(log') /\ jour'.ended \subseteq TerminatedIn(log')
    <2>1. TerminatedIn(log) \subseteq TerminatedIn(log') /\ inv \in TerminatedIn(log')
      BY <1>1, LogsMore
    <2> QED
      BY <1>1, <2>1 DEF HistoryInv
  <1> QED
    BY <1>1, <1>2, <1>3, <1>4, <1>5, LoopPutH DEF LoopLabels

\* Its mark is cleared by a write between turns.
LEMMA ClearInterludeH ==
  ASSUME NEW tools, EngineInv(tools), NEW all, EngineInv(all)', NEW of, ExecInv(of), HistoryInv, ClearInterlude
  PROVE  HistoryInv'
  <1> DEFINE h == [Top EXCEPT !.action = None]
             g == [h EXCEPT !.trig = None]
             f == AfterInterlude(Top)
             r == [rec EXCEPT !.interlude = NoInterlude]
  <1>1. /\ At("unmark") /\ UNCHANGED <<status, log, jour>> /\ "unmark" \in LoopLabels \ {"top"}
        /\ \/ stack' = Put(f) /\ UNCHANGED <<rec, park, disk>>
           \/ Write("ordinary", Put(f), r, park)
    BY DEF ClearInterlude, LoopLabels
  <1>2. Shaped(Top) /\ ~park.question /\ RecOK(rec, tools, park.wrote)
    BY <1>1, PastTheTop
  <1>3. Like(Top, h) /\ Shaped(h)
    BY <1>2, FieldLike, LikeOn
  <1>4. [Top EXCEPT !.action = None, !.trig = None] = g
    OBVIOUS
  <1>5. f = EndWith(g, "error") \/ \E l \in {"drain", "safe", "context"} : f = Goto(g, l)
    BY <1>4 DEF AfterInterlude
  <1> HIDE DEF h, f
  <1>6. Like(Top, g) /\ Shaped(g)
    BY <1>3, FieldLike, LikeOn
  <1> HIDE DEF g
  <1>7. Like(Top, f) /\ f.pc \in {"end", "drain", "safe", "context"} /\ (f.pc = "end" => f.val = "error")
    <2>1. CASE f = EndWith(g, "error")
      BY <1>6, <2>1, EndLike, LikeOn
    <2>2. ASSUME NEW l \in {"drain", "safe", "context"}, f = Goto(g, l)
          PROVE  Like(Top, f) /\ f.pc = l
      BY <1>6, <2>2, GoLike, LikeOn
    <2> QED
      BY <1>5, <2>1, <2>2
  <1>8. NoInterlude \in Interludes
    BY DEF NoInterlude, Interludes, Triggers
  <1>9. /\ RecOK(r, tools, park.wrote) /\ r.counter = rec.counter /\ r.frozen = rec.frozen
        /\ r.suspended = rec.suspended /\ r.paused = rec.paused
    BY <1>2, <1>8 DEF RecOK
  <1> HIDE DEF r
  <1>10. CASE stack' = Put(f) /\ UNCHANGED <<rec, park, disk>>
    BY <1>1, <1>2, <1>7, <1>10, LogStands, LoopPutH DEF LoopLabels, Final
  <1>11. CASE Write("ordinary", Put(f), r, park)
    BY <1>1, <1>7, <1>9, <1>11, LoopWriteH DEF LoopLabels, Final
  <1> QED
    BY <1>1, <1>10, <1>11

-----------------------------------------------------------------------------
(* A run parks, pauses or is suspended.                                    *)

\* A frame that unwinds.
LEMMA UnwoundFrame ==
  ASSUME NEW e, NEW a, NEW f, FrameH(f, e, a), f.pc \in {"top", "disp"}, NEW g, g.hist = f.hist,
         g.pend \in {f.pend, NoPending}, g.mode = f.mode, g.pc = "end", g.val = "park"
  PROVE  FrameH(g, e, a)
  <1>1. Told(g) /\ Held(g, e)
    BY DEF FrameH, Told, Held, Between, LoopLabels, OnACall
  <1>2. Carries(g, e, a)
    <2>1. (g.pend.card # None => suspendsChild(PendingCall(g.pend).tool)) /\ g.mode # "replay"
      BY DEF FrameH, Carries, NoPending
    <2> QED
      BY <2>1 DEF Carries, Between, LoopLabels, OnACall
  <1> QED
    BY <1>1, <1>2 DEF FrameH

\* The parked role writes the question and freezes the recorder; those below it write nothing.
LEMMA UnwindH ==
  ASSUME NEW tools, EngineInv(tools), NEW all, EngineInv(all)', NEW of, ExecInv(of), HistoryInv,
         NEW l \in {"top", "disp"}, At(l), park.question, NEW f, f.id = Top.id, NEW g, g = EndWith(f, "park"),
         Moved(Top, g), g.hist = Top.hist, g.pend \in {Top.pend, NoPending}, g.mode = Top.mode,
         g.pc = "end", g.val = "park",
         l = "top" => f = Top, l = "disp" => Top.idx <= Len(Top.turn) /\ g.pend = NoPending,
         l = "top" => g.pend = Top.pend,
         Unwind(f), UNCHANGED <<status, park, jour, log>>
  PROVE  HistoryInv'
  <1> DEFINE e == Ended(log)
             c == Checkpoint("ordinary", rec, stack', park)
  <1>1. /\ Top.pc = l /\ FrameH(Top, e, park.question) /\ Unwinds(Top, park, rec) /\ park.ask # 0
    BY RunningH
  <1>2. stack' = Put(g)
    BY DEF Unwind
  <1>3. Steps(stack, stack') /\ g = stack'[Len(stack)]
    BY <1>2, PutSteps
  <1>4. FrameH(g, e, park.question)
    BY <1>1, UnwoundFrame
  <1>5. /\ StatusH(status, stack, rec, park, disk) /\ ParkH(park, rec, stack, disk) /\ status = "running"
        /\ DiskH(disk, e) /\ FramesH(stack, e, park.question) /\ Numbered(stack, rec.counter)
        /\ jour.ended \subseteq TerminatedIn(log)
    BY RunningH DEF HistoryInv
  <1>6. /\ rec'.frozen /\ rec'.counter = rec.counter /\ rec'.suspended = rec.suspended /\ rec'.paused = rec.paused
        /\ DiskH(disk', e) /\ disk'.counter <= rec.counter /\ disk'.ask = park.ask
    <2>1. CASE park.role = f.id
      <3>1. ~rec.frozen
        BY <1>1, <2>1 DEF Unwinds
      <3>2. AskedIn(Top.hist, park.ask) /\ (l = "top" => Top.pend = NoPending)
        BY <1>1, <3>1 DEF Unwinds, Asking
      <3>3. disk' = c /\ rec' = [rec EXCEPT !.frozen = TRUE, !.pre = PreInterlude("ordinary", rec, c)]
        BY <2>1 DEF Unwind
      <3>4. /\ c.frames = WorkFrames(stack') /\ c.ask = park.ask /\ c.askRole = park.role /\ c.counter = rec.counter
            /\ c.paused = rec.paused /\ c.suspended = rec.suspended
        BY DEF Checkpoint
      <3> HIDE DEF c
      <3>5. FramesH(stack', e, park.question)
        <4>1. \A k \in DOMAIN stack : k # Len(stack) => FrameH(stack'[k], e, park.question)
          BY <1>3, <1>5, StayFrame DEF FramesH, Steps, Stays
        <4> QED
          BY <4>1, <1>3, <1>4 DEF FramesH, Steps
      <3>6. Numbered(stack', c.counter)
        <4>1. \A k \in DOMAIN stack : stack'[k].id = stack[k].id
          BY <1>3, StaysMoved DEF Steps, Moved
        <4> QED
          BY <4>1, <1>3, <1>5, <3>4 DEF Numbered, Steps
      <3>7. StackOK(stack', all, park.wrote)
        BY DEF EngineInv
      <3>8. SavedH(g, e) /\ LeafH(g, c.ask, c.askRole)
        <4>1. g.pend = NoPending /\ g.id = park.role /\ AskedIn(g.hist, park.ask) /\ Ordered(g.hist)
          BY <1>4, <2>1, <3>2 DEF FrameH, Told, Moved
        <4> QED
          BY <1>1, <3>4, <4>1 DEF SavedH, LeafH, Marked, Backed, NoPending
      <3>9. \A k \in DOMAIN stack' : k = Len(stack') /\ ~stack'[k].hand => SavedH(stack'[k], e) /\ LeafH(stack'[k], c.ask, c.askRole)
        BY <1>3, <3>8 DEF Steps
      <3>10. stack' # << >> /\ (\A k \in DOMAIN stack' : ~stack'[k].hand) /\ ~c.paused /\ ~c.suspended
        <4>1. ~rec.paused /\ ~rec.suspended
          BY <1>5 DEF StatusH
        <4>2. \A k \in DOMAIN stack' : ~stack'[k].hand
          BY DEF EngineInv, ParkOK
        <4>3. stack' # << >>
          <5>1. Len(stack) \in DOMAIN stack'
            BY <1>3, RunningH DEF Steps
          <5> QED
            BY <5>1
        <4> QED
          BY <4>1, <4>2, <4>3, <3>4
      <3>11. DiskH(c, e)
        BY <3>4, <3>5, <3>6, <3>7, <3>9, <3>10, SavesH
      <3>12. rec.counter \in Nat
        BY DEF EngineInv, RecOK
      <3>13. /\ rec'.frozen /\ rec'.counter = rec.counter /\ rec'.suspended = rec.suspended /\ rec'.paused = rec.paused
        BY <3>3 DEF EngineInv, RecOK
      <3> QED
        BY <3>3, <3>4, <3>11, <3>12, <3>13
    <2>2. CASE park.role # f.id
      <3>1. rec.frozen
        BY <1>1, <2>2 DEF Unwinds, Asking
      <3>2. UNCHANGED <<rec, disk>>
        BY <2>2 DEF Unwind
      <3> QED
        BY <1>5, <3>1, <3>2 DEF ParkH, StatusH
    <2> QED
      BY <2>1, <2>2
  <1>7. Unwinds(g, park, rec')
    BY <1>6 DEF Unwinds
  <1>8. Settles(stack', rec', disk')
    BY <1>6 DEF Settles
  <1>9. SamePark(park, park')
    BY DEF SamePark
  <1> QED
    BY <1>3, <1>4, <1>5, <1>6, <1>7, <1>8, <1>9, StepH

\* A question that unwinds ends at the top of the loop, frozen with its answer's place on disk.
LEMMA ParkAtLoopTopH ==
  ASSUME NEW tools, EngineInv(tools), NEW all, EngineInv(all)', NEW of, ExecInv(of), HistoryInv, ParkAtLoopTop
  PROVE  HistoryInv'
  <1> DEFINE g == EndWith(Top, "park")
  <1>1. At("top") /\ park.question /\ Unwind(Top) /\ UNCHANGED <<status, park, jour, log>>
    BY DEF ParkAtLoopTop
  <1>2. Shaped(Top)
    BY <1>1, RunningH
  <1>3. /\ Like(Top, g) /\ g.pc = "end" /\ g.val = "park"
    BY <1>2, EndLike
  <1>4. g.hist = Top.hist /\ g.pend = Top.pend /\ g.mode = Top.mode
    BY <1>2 DEF EndWith, Shaped, Fields
  <1>5. Moved(Top, g)
    BY <1>3 DEF Moved, Like, Keeps, Unreplayed
  <1> HIDE DEF g
  <1> QED
    BY <1>1, <1>3, <1>4, <1>5, UnwindH DEF g, Like

\* Or between two calls of the turn that asked it.
LEMMA DispatchParksH ==
  ASSUME NEW tools, EngineInv(tools), NEW all, EngineInv(all)', NEW of, ExecInv(of), HistoryInv, DispatchParks
  PROVE  HistoryInv'
  <1> DEFINE f == [Top EXCEPT !.pend = NoPending]
             g == EndWith(f, "park")
  <1>1. At("disp") /\ park.question /\ Unwind(f) /\ UNCHANGED <<status, park, jour, log>> /\ Top.idx <= Len(Top.turn)
    BY DEF DispatchParks, Batch
  <1>2. Shaped(Top)
    BY <1>1, RunningH
  <1>3. /\ g.pc = "end" /\ g.val = "park" /\ g.hist = Top.hist /\ g.pend = NoPending /\ g.mode = Top.mode
        /\ g.id = Top.id /\ g.hand = Top.hand /\ g.note = Top.note /\ f.id = Top.id
    BY <1>2 DEF EndWith, Shaped, Fields
  <1>5. Moved(Top, g)
    BY <1>3 DEF Moved, Unreplayed
  <1> HIDE DEF f
  <1> QED
    BY <1>1, <1>3, <1>5, UnwindH

\* A process that is gone leaves the disk and the log.
LEMMA ForgetH ==
  ASSUME Forget, status' \notin {"running", "new"}, DiskH(disk', Ended(log')),
         status' \in {"error", "suspended", "paused"} => disk'.ask = 0,
         status' \in {"parked", "clarify"} /\ disk'.ask = 0 => disk'.frames = << >> \/ LeafOf(disk').pend = NoPending
  PROVE  HistoryInv'
  <1>1. stack' = << >> /\ rec' = NewRec(0) /\ park' = NewPark /\ jour' = NewJournal
    BY DEF Forget
  <1>2. DOMAIN stack' = {}
    BY <1>1
  <1>3. FramesH(stack', Ended(log'), park'.question) /\ Numbered(stack', rec'.counter)
    BY <1>2 DEF FramesH, Numbered
  <1>4. ParkH(park', rec', stack', disk')
    BY <1>1, <1>2 DEF ParkH, NewPark, NewRec
  <1>5. StatusH(status', stack', rec', park', disk')
    BY <1>1 DEF StatusH, NewRec
  <1>6. jour'.ended \subseteq TerminatedIn(log')
    BY <1>1 DEF NewJournal
  <1> QED
    BY <1>3, <1>4, <1>5, <1>6 DEF HistoryInv

\* The last write of a run between turns.
LEMMA LeaveH ==
  ASSUME NEW tools, EngineInv(tools), NEW of, ExecInv(of), HistoryInv, NEW l, At(l), l \in LoopLabels \ {"top"},
         NEW how, NEW r, r.counter = rec.counter, r.pre = rec.pre, NEW st \in {"suspended", "paused"},
         Leave(how, r, st), UNCHANGED log
  PROVE  HistoryInv'
  <1> DEFINE e == Ended(log)
             c == Checkpoint(how, r, stack, park)
  <1>1. park.ask = 0 /\ disk.ask = 0 /\ Top.pc = l /\ Between(Top) /\ Top = stack[Len(stack)]
    <2>1. ~park.question /\ park.ask = 0 /\ Top.pc = l
      BY PastTheTop
    <2>2. disk.ask = 0 /\ Top = stack[Len(stack)]
      BY <2>1, RunningH DEF LoopLabels
    <2> QED
      BY <2>1, <2>2 DEF Between
  <1>2. /\ StatusH(status, stack, rec, park, disk) /\ status = "running"
        /\ DiskH(disk, e) /\ FramesH(stack, e, park.question) /\ Numbered(stack, rec.counter)
    BY RunningH DEF HistoryInv
  <1>3. disk' = c /\ status' = st /\ Forget
    BY DEF Leave
  <1>4. c.ask = 0 /\ c.counter = rec.counter /\ (c.frames = WorkFrames(stack) \/ (c.frames = rec.pre /\ rec.pre # << >>))
    BY <1>1 DEF Checkpoint
  <1> HIDE DEF c
  <1>5. DiskH(c, e)
    <2>1. CASE c.frames = WorkFrames(stack)
      <3>1. StackOK(stack, tools, park.wrote)
        BY DEF EngineInv
      <3>2. SavedH(Top, e) /\ LeafH(Top, 0, c.askRole)
        BY <1>1, RunningH, LoopSaves
      <3> QED
        BY <1>1, <1>2, <1>4, <2>1, <3>1, <3>2, SavesH
    <2>2. CASE c.frames = rec.pre /\ rec.pre # << >>
      <3>1. c.frames = disk.frames
        BY <2>2 DEF ExecInv, RecX
      <3>2. disk.counter \in Nat /\ rec.counter \in Nat /\ disk.counter <= rec.counter
        BY <1>2 DEF EngineInv, DiskOK, RecOK, StatusH
      <3>3. Numbered(c.frames, c.counter)
        BY <1>2, <1>4, <3>1, <3>2 DEF DiskH, Numbered
      <3>4. \A k \in DOMAIN c.frames : /\ SavedH(c.frames[k], e)
                                       /\ k < Len(c.frames) => ParentH(c.frames[k])
                                       /\ k = Len(c.frames) => LeafH(c.frames[k], 0, c.askRole)
        BY <1>1, <1>2, <3>1 DEF DiskH, LeafH
      <3> QED
        BY <1>4, <3>3, <3>4 DEF DiskH
    <2> QED
      BY <1>4, <2>1, <2>2
  <1> QED
    BY <1>3, <1>4, <1>5, ForgetH

\* A pause is taken between turns and written with a history that is whole.
LEMMA TakePauseH ==
  ASSUME NEW tools, EngineInv(tools), NEW of, ExecInv(of), HistoryInv, TakePause
  PROVE  HistoryInv'
  <1> DEFINE r == [rec EXCEPT !.paused = TRUE]
  <1>1. At("ready") /\ Leave("pause", r, "paused") /\ UNCHANGED log /\ "ready" \in LoopLabels \ {"top"}
    BY DEF TakePause, LoopLabels
  <1>2. r.counter = rec.counter /\ r.pre = rec.pre
    OBVIOUS
  <1> QED
    BY <1>1, <1>2, LeaveH

\* A provider failure writes the stack where it stands, its leaf between turns.
LEMMA ProviderFailsH ==
  ASSUME NEW tools, EngineInv(tools), NEW of, ExecInv(of), HistoryInv, ProviderFails
  PROVE  HistoryInv'
  <1>1. At("llm") /\ Leave("suspension", SuspendedRec, "suspended") /\ UNCHANGED log /\ "llm" \in LoopLabels \ {"top"}
    BY DEF ProviderFails, LoopLabels
  <1>2. SuspendedRec.counter = rec.counter /\ SuspendedRec.pre = rec.pre
    BY DEF SuspendedRec
  <1> QED
    BY <1>1, <1>2, LeaveH

-----------------------------------------------------------------------------
(* A role starts.                                                          *)

\* A fresh frame has nothing to answer.
LEMMA StartFrame ==
  ASSUME NEW id, NEW hand, NEW e, NEW a, NEW f, f = Frame(id, hand)
  PROVE  FrameH(f, e, a) /\ f.id = id /\ f.hand = hand /\ f.pc = "top" /\ Unreplayed(f)
  <1>1. /\ f.id = id /\ f.pc = "top" /\ f.note = FALSE /\ f.mode = "live" /\ f.hist = << >>
        /\ f.pend = NoPending
    BY DEF Frame
  <1>0. f.hand = hand
    BY Zenon DEF Frame
  <1>2. Ordered(f.hist) /\ Answered(f.hist, {}) /\ Marked(f.hist, f.pend)
    BY <1>1 DEF Ordered, Answered, Marked
  <1>3. Told(f) /\ Held(f, e)
    BY <1>1, <1>2 DEF Told, Held, OnACall
  <1>4. Carries(f, e, a)
    BY <1>1 DEF Carries, Done, NoPending, OnACall
  <1> QED
    BY <1>0, <1>1, <1>3, <1>4 DEF FrameH, Unreplayed

\* What a role's start does to the log and the journal.
LEMMA StartedRole ==
  ASSUME HistoryInv, NEW st, NEW hand, NEW writer, StartRole(st, hand, writer)
  PROVE  TerminatedIn(log) \subseteq TerminatedIn(log') /\ jour'.ended \subseteq TerminatedIn(log')
  <1> DEFINE inv == <<"role", rec.counter + 1>>
  <1>1. /\ jour' = [jour EXCEPT !.started = @ \cup {inv}]
        /\ log' = log \/ log' = Logged(log, {Start(inv)})
    BY DEF StartRole
  <1>2. TerminatedIn(log) \subseteq TerminatedIn(log')
    BY <1>1, LogsMore
  <1>3. jour'.ended = jour.ended
    BY <1>1
  <1> QED
    BY <1>2, <1>3 DEF HistoryInv

\* A fresh run has a root without a history.
LEMMA StartRunH ==
  ASSUME NEW tools, EngineInv(tools), HistoryInv, StartRun
  PROVE  HistoryInv'
  <1> DEFINE f == Frame(rec.counter + 1, FALSE)
  <1>1. status = "new" /\ status' = "running" /\ StartRole(<< >>, FALSE, FALSE) /\ disk' = disk
    BY DEF StartRun
  <1>2. /\ stack' = Append(<< >>, f) /\ rec' = [rec EXCEPT !.counter = rec.counter + 1]
        /\ park' = [park EXCEPT !.wrote = @ \/ FALSE]
    BY <1>1 DEF StartRole
  <1>3. StatusH(status, stack, rec, park, disk) /\ DiskH(disk, Ended(log))
    BY DEF HistoryInv
  <1>4. rec = NewRec(0) /\ park = NewPark /\ disk = NoCheckpoint
    BY <1>1, <1>3 DEF StatusH
  <1>5. /\ FrameH(f, Ended(log'), park'.question) /\ f.id = rec.counter + 1 /\ ~f.hand /\ f.pc = "top" /\ Unreplayed(f)
    <2> DEFINE hand == FALSE
    <2>1. f = Frame(rec.counter + 1, hand)
      OBVIOUS
    <2> HIDE DEF f, hand
    <2>2. /\ FrameH(f, Ended(log'), park'.question) /\ f.id = rec.counter + 1 /\ f.hand = hand /\ f.pc = "top"
          /\ Unreplayed(f)
      BY <2>1, StartFrame
    <2> QED
      BY <2>2 DEF hand
  <1> HIDE DEF f
  <1>6. DOMAIN stack' = {1} /\ stack'[1] = f /\ Len(stack') = 1 /\ stack' # << >>
    BY <1>2
  <1>7. FramesH(stack', Ended(log'), park'.question)
    BY <1>5, <1>6 DEF FramesH
  <1>8. Numbered(stack', rec'.counter)
    BY <1>2, <1>4, <1>5, <1>6 DEF Numbered, NewRec
  <1>9. TerminatedIn(log) \subseteq TerminatedIn(log') /\ jour'.ended \subseteq TerminatedIn(log')
    BY <1>1, StartedRole
  <1>10. DiskH(disk', Ended(log'))
    <2>1. Ended(log) \subseteq Ended(log')
      BY <1>9 DEF Ended
    <2> QED
      BY <1>1, <1>3, <2>1, DiskMore
  <1>11. /\ park'.question = FALSE /\ park'.ask = 0 /\ rec'.frozen = FALSE /\ rec'.counter = 1
         /\ rec'.suspended = FALSE /\ rec'.paused = FALSE
    BY <1>2, <1>4 DEF NewPark, NewRec
  <1>12. ParkH(park', rec', stack', disk')
    BY <1>5, <1>6, <1>11 DEF ParkH
  <1>13. StatusH(status', stack', rec', park', disk')
    BY <1>1, <1>4, <1>5, <1>6, <1>11 DEF StatusH, Settles, NoCheckpoint
  <1> QED
    BY <1>7, <1>8, <1>9, <1>10, <1>12, <1>13 DEF HistoryInv

\* A role starts above the running one, which waits for it.
LEMMA StartAboveH ==
  ASSUME NEW tools, EngineInv(tools), NEW of, ExecInv(of), HistoryInv, NEW l \in {"handler", "exec"}, At(l),
         NEW g, Moved(Top, g), FrameH(g, Ended(log), park.question),
         NEW hand, NEW writer, StartRole(Put(g), hand, writer), UNCHANGED <<status, disk>>
  PROVE  HistoryInv'
  <1> DEFINE st == Put(g)
             n == Len(stack)
             f == Frame(rec.counter + 1, hand)
             e == Ended(log')
  <1>1. /\ status = "running" /\ n \in Nat \ {0} /\ n \in DOMAIN stack /\ DOMAIN stack = 1 .. n /\ Top = stack[n]
        /\ ~park.question /\ park.ask = 0 /\ ~rec.frozen /\ disk.ask = 0 /\ rec.counter \in Nat
    <2>1. ~park.question /\ park.ask = 0 /\ ~rec.frozen
      BY RunningH DEF Unwinding
    <2>2. disk.ask = 0
      BY <2>1, RunningH
    <2>3. rec.counter \in Nat
      BY DEF EngineInv, RecOK
    <2> QED
      BY <2>1, <2>2, <2>3, RunningH
  <1>2. Steps(stack, st) /\ st[n] = g /\ st \in Seq(Range(st))
    <2>1. stack \in Seq(Frames(tools, park.wrote))
      BY DEF EngineInv, StackOK
    <2>2. st \in Seq(Frames(tools, park.wrote) \cup {g})
      BY <2>1, <1>1 DEF Put
    <2>3. st \in Seq(Range(st))
      <3> HIDE DEF st
      <3> QED
        BY <2>2 DEF Range
    <2> QED
      BY <2>3, PutSteps
  <1>3. /\ stack' = Append(st, f) /\ rec' = [rec EXCEPT !.counter = rec.counter + 1]
        /\ park' = [park EXCEPT !.wrote = @ \/ writer]
    BY DEF StartRole
  <1>4. /\ FrameH(f, e, park.question) /\ f.id = rec.counter + 1 /\ f.pc = "top" /\ Unreplayed(f)
    BY StartFrame
  <1>5. TerminatedIn(log) \subseteq TerminatedIn(log') /\ jour'.ended \subseteq TerminatedIn(log')
    BY StartedRole
  <1> HIDE DEF st, f, n
  <1>6. /\ Len(stack') = n + 1 /\ DOMAIN stack' = 1 .. n + 1 /\ stack'[n + 1] = f
        /\ \A k \in 1 .. n : stack'[k] = st[k]
    BY <1>1, <1>2, <1>3 DEF Steps, n
  <1>7. Ended(log) \subseteq e
    BY <1>5 DEF Ended
  <1>8. ASSUME NEW k \in 1 .. n
        PROVE  Moved(stack[k], stack'[k]) /\ FrameH(stack'[k], e, park.question)
    <2>1. k = n => Moved(stack[k], stack'[k]) /\ FrameH(stack'[k], Ended(log), park.question)
      BY <1>1, <1>2, <1>6 DEF n
    <2>2. k # n => Moved(stack[k], stack'[k]) /\ FrameH(stack'[k], Ended(log), park.question)
      <3> SUFFICES ASSUME k # n PROVE Moved(stack[k], stack'[k]) /\ FrameH(stack'[k], Ended(log), park.question)
        OBVIOUS
      <3>1. Stays(stack[k], stack'[k])
        BY <1>1, <1>2, <1>6 DEF Steps, n
      <3>2. FrameH(stack[k], Ended(log), park.question)
        BY <1>1 DEF HistoryInv, FramesH
      <3> QED
        BY <3>1, <3>2, StaysMoved, StayFrame DEF Stays
    <2> QED
      BY <1>7, <2>1, <2>2, MoreEnded
  <1>9. /\ park'.question = park.question /\ park'.ask = park.ask /\ park'.tracked = park.tracked
        /\ rec'.frozen = rec.frozen /\ rec'.counter = rec.counter + 1
        /\ rec'.suspended = rec.suspended /\ rec'.paused = rec.paused
    BY <1>3 DEF EngineInv, ParkOK, RecOK
  <1>10. FramesH(stack', e, park'.question)
    BY <1>1, <1>4, <1>6, <1>8, <1>9 DEF FramesH
  <1>11. Numbered(stack', rec'.counter)
    <2>1. Numbered(stack, rec.counter)
      BY DEF HistoryInv
    <2>2. \A k \in 1 .. n : stack'[k].id = stack[k].id /\ stack'[k].id \in 1 .. rec.counter
      BY <1>1, <1>8, <2>1 DEF Moved, Numbered
    <2>3. \A j, k \in 1 .. n : j # k => stack'[j].id # stack'[k].id
      BY <1>1, <2>1, <2>2 DEF Numbered
    <2>4. ASSUME NEW j \in DOMAIN stack', NEW k \in DOMAIN stack', j # k
          PROVE  stack'[j].id # stack'[k].id
      <3>1. (j \in 1 .. n \/ j = n + 1) /\ (k \in 1 .. n \/ k = n + 1)
        BY <1>1, <1>6
      <3>2. \A i \in 1 .. n : stack'[i].id # rec.counter + 1
        BY <1>1, <2>2
      <3> QED
        BY <1>4, <1>6, <2>3, <3>1, <3>2, <2>4
    <2>5. \A k \in DOMAIN stack' : stack'[k].id \in 1 .. rec'.counter
      BY <1>1, <1>4, <1>6, <1>9, <2>2
    <2> QED
      BY <2>4, <2>5 DEF Numbered
  <1>12. DiskH(disk', e)
    BY <1>7, DiskMore DEF HistoryInv
  <1>13. ParkH(park', rec', stack', disk')
    <2>1. ParkH(park, rec, stack, disk)
      BY DEF HistoryInv
    <2>2. park.tracked => \A k \in DOMAIN stack' : Unreplayed(stack'[k])
      BY <1>1, <1>4, <1>6, <1>8, <2>1 DEF ParkH, Moved
    <2> QED
      BY <1>1, <1>9, <2>2 DEF ParkH
  <1>14. StatusH(status', stack', rec', park', disk')
    <2>1. StatusH(status, stack, rec, park, disk)
      BY DEF HistoryInv
    <2>2. stack' # << >> /\ ~stack'[1].hand
      BY <1>1, <1>6, <1>8, <2>1 DEF StatusH, Moved
    <2>3. Settles(stack', rec', disk')
      BY <1>1, <1>6 DEF Settles
    <2>4. disk.counter \in Nat /\ disk.counter <= rec'.counter
      BY <1>1, <1>9, <2>1 DEF StatusH, EngineInv, DiskOK
    <2> QED
      BY <1>1, <1>9, <2>1, <2>2, <2>3, <2>4 DEF StatusH
  <1> QED
    BY <1>5, <1>10, <1>11, <1>12, <1>13, <1>14 DEF HistoryInv

\* A handler begins with a history of its own, above a target that waits.
LEMMA StartHandlerH ==
  ASSUME NEW tools, EngineInv(tools), NEW of, ExecInv(of), HistoryInv, StartHandler
  PROVE  HistoryInv'
  <1> DEFINE w == "wait handler"
             g == Goto(Top, w)
  <1>0. w \in LoopLabels
    BY DEF LoopLabels
  <1>1. At("handler") /\ StartRole(Put(g), TRUE, FALSE) /\ UNCHANGED <<status, disk>> /\ "handler" \in LoopLabels \ {"top"}
    BY DEF StartHandler, LoopLabels
  <1> HIDE DEF w
  <1>2. Like(Top, g) /\ g.pc = w
    <2>1. Shaped(Top)
      BY <1>1, PastTheTop
    <2> QED
      BY <2>1, GoLike
  <1> HIDE DEF g
  <1>3. FrameH(g, Ended(log), park.question)
    <2>1. FrameH(Top, Ended(log), park.question) /\ Top.pc = "handler"
      BY <1>1, RunningH
    <2> QED
      BY <1>0, <1>1, <1>2, <2>1, LoopFrame
  <1>4. Moved(Top, g)
    <2>1. Top.pc = "handler" /\ w # "recon"
      BY <1>1, RunningH DEF w
    <2> QED
      BY <1>2, <2>1 DEF Moved, Like, Keeps, Unreplayed
  <1> QED
    BY <1>1, <1>3, <1>4, StartAboveH

-----------------------------------------------------------------------------
(* The calls of a turn.                                                    *)

\* A frame that goes on, or is settled, hears what it heard.
LEMMA GoHist ==
  ASSUME NEW f, Shaped(f), NEW l, NEW g, g = Goto(f, l)
  PROVE  Like(f, g) /\ Shaped(g) /\ g.pc = l /\ g.val = f.val /\ g.hist = f.hist
  <1>1. g.hist = f.hist
    BY DEF Goto, Shaped, Fields
  <1> QED
    BY <1>1, GoLike

\* A settled call leaves the history to the result that is about to be recorded.
LEMMA SettledLike ==
  ASSUME NEW f, Shaped(f), NEW v, NEW g, g = Settled(f, v)
  PROVE  Like(f, g) /\ Shaped(g) /\ g.pc = "res" /\ g.val = v /\ g.hist = f.hist
  <1>1. g.hist = f.hist
    BY DEF Settled, Shaped, Fields
  <1> QED
    BY <1>1, ChangeLike, LikeOn

\* A call under way gets on.
LEMMA WithinFrame ==
  ASSUME NEW e, NEW a, NEW f, FrameH(f, e, a), f.pc \in {"start", "exec", "asking", "wait"},
         NEW g, Like(f, g), HistTurns(f.hist) \subseteq HistTurns(g.hist),
         g.pc \in {"exec", "asking", "wait", "carded", "res"},
         NEW more, e \subseteq more, NEW b, a => b,
         g.pc \in {"wait", "carded"} => suspendsChild(Call(f).tool),
         g.pc = "res" /\ Call(f).tool = "ask" /\ ~b => Call(f).id \in more
  PROVE  FrameH(g, more, b)
  <1>1. /\ g.pend = f.pend /\ g.turn = f.turn /\ g.idx = f.idx /\ g.mode = f.mode /\ Hears(f.hist, g.hist)
        /\ Call(g) = Call(f) /\ f.pc \in OnACall /\ g.pc \in OnACall
    BY DEF Like, Keeps, Call, Batch, OnACall
  <1>2. g.pc \notin LoopLabels \cup {"end", "disp", "settle", "closing", "start", "recon"}
    BY DEF LoopLabels
  <1>3. Told(g)
    <2>1. Ordered(g.hist)
      BY <1>1 DEF FrameH, Told, Hears
    <2>2. During(g.hist, g.turn, g.idx)
      BY <1>1, HearsTurn DEF FrameH, Told
    <2> QED
      BY <1>2, <2>1, <2>2 DEF Told, Between
  <1>4. Held(g, more)
    BY <1>1 DEF FrameH, Held
  <1>5. Carries(g, more, b)
    <2>1. f.idx \in DOMAIN f.turn /\ OnMarker(f) /\ f.pend.card = None /\ f.mode # "replay"
      BY <1>1 DEF FrameH, Carries
    <2> QED
      BY <1>1, <1>2, <2>1 DEF Carries, OnMarker, Between
  <1> QED
    BY <1>3, <1>4, <1>5 DEF FrameH

\* The call the running frame is on gets on, or is settled.
LEMMA WithinH ==
  ASSUME NEW tools, EngineInv(tools), NEW of, ExecInv(of), HistoryInv, NEW l \in {"start", "exec", "asking"}, At(l),
         Steps(stack, stack'), NEW g, g = stack'[Len(stack)], Like(Top, g),
         HistTurns(Top.hist) \subseteq HistTurns(g.hist), g.pc \in {"exec", "asking", "res"},
         g.pc = "res" /\ Call(Top).tool = "ask" => Call(Top).id \in Ended(log'),
         TerminatedIn(log) \subseteq TerminatedIn(log'), jour'.ended \subseteq TerminatedIn(log'),
         UNCHANGED <<status, rec, park, disk>>
  PROVE  HistoryInv'
  <1>1. ~park.question /\ FrameH(Top, Ended(log), park.question) /\ Top.pc = l
    BY RunningH DEF Unwinding
  <1>2. Ended(log) \subseteq Ended(log')
    BY DEF Ended
  <1>3. FrameH(g, Ended(log'), park.question)
    BY <1>1, <1>2, WithinFrame
  <1>4. SamePark(park, park')
    BY DEF SamePark
  <1> QED
    BY <1>1, <1>3, <1>4, MoveH

\* A frame that stays in its turn is not replayed anew.
LEMMA LikeMoved ==
  ASSUME NEW f, NEW g, Like(f, g), g.pc # "recon" \/ f.pc = "recon"
  PROVE  Moved(f, g)
  BY DEF Moved, Like, Keeps, Unreplayed

\* A call goes from its marker to its execution.
LEMMA BeginCallH ==
  ASSUME NEW tools, EngineInv(tools), NEW of, ExecInv(of), HistoryInv, BeginCall
  PROVE  HistoryInv'
  <1> DEFINE g == Goto(Top, "exec")
  <1>1. /\ At("start") /\ stack' = Put(g) /\ UNCHANGED <<status, rec, park, disk>>
        /\ UNCHANGED <<log, jour>> \/ toolStarted(Inv(Top))
    BY DEF BeginCall
  <1>2. Shaped(Top)
    BY <1>1, RunningH
  <1>3. Like(Top, g) /\ g.pc = "exec" /\ g.hist = Top.hist
    BY <1>2, GoHist
  <1> HIDE DEF g
  <1>4. Steps(stack, stack') /\ stack'[Len(stack)] = g
    BY <1>1, <1>3, LikeMoved, PutSteps
  <1>5. TerminatedIn(log) \subseteq TerminatedIn(log') /\ jour'.ended \subseteq TerminatedIn(log')
    <2>1. CASE UNCHANGED <<log, jour>>
      BY <2>1, LogStands
    <2>2. CASE toolStarted(Inv(Top))
      <3>1. /\ jour' = [jour EXCEPT !.started = @ \cup {Inv(Top)}]
            /\ log' = log \/ log' = Logged(log, {Start(Inv(Top))})
        BY <2>2 DEF toolStarted
      <3>2. TerminatedIn(log) \subseteq TerminatedIn(log')
        BY <3>1, LogsMore
      <3>3. jour'.ended = jour.ended
        BY <3>1
      <3> QED
        BY <3>2, <3>3 DEF HistoryInv
    <2> QED
      BY <1>1, <2>1, <2>2
  <1> QED
    BY <1>1, <1>3, <1>4, <1>5, WithinH

\* The terminal of the call the running frame is on ends it.
LEMMA EndsOwnCall ==
  ASSUME NEW tools, EngineInv(tools), NEW of, ExecInv(of), HistoryInv, NEW l \in OnACall, At(l),
         NEW events, Terminal(Inv(Top)) \in events, log' = Logged(log, events),
         jour'.ended = jour.ended \cup {Inv(Top)}
  PROVE  /\ TerminatedIn(log) \subseteq TerminatedIn(log') /\ jour'.ended \subseteq TerminatedIn(log')
         /\ Call(Top).id \in Ended(log')
  <1>1. TerminatedIn(log) \subseteq TerminatedIn(log') /\ Inv(Top) \in TerminatedIn(log')
    BY LogsMore
  <1>2. Call(Top).id \in Nat
    BY OnCallX
  <1> QED
    BY <1>1, <1>2 DEF HistoryInv, Ended, Inv

\* It is executed once its turn is known to hold it; a handler tells its target what it decided.
LEMMA ExecuteToolH ==
  ASSUME NEW tools, EngineInv(tools), NEW of, ExecInv(of), HistoryInv, ExecuteTool
  PROVE  HistoryInv'
  <1> DEFINE tool == Call(Top).tool
             v == IF IsFinish(tool) THEN CardOf[tool] ELSE "ok"
             g == Settled(Top, v)
             st == Put(g)
             n == Len(stack)
             x == UserMessage("redirect")
             a(f) == [f EXCEPT !.action = "abort"]
             r(f) == [Push(f, x) EXCEPT !.action = "redirect"]
  <1>1. At("exec") /\ UNCHANGED <<status, rec, park, log, jour, disk>> /\ tool # "ask"
    BY DEF ExecuteTool
  <1>2. Shaped(Top) /\ n \in Nat \ {0} /\ DOMAIN stack = 1 .. n
    BY <1>1, RunningH
  <1>3. Like(Top, g) /\ g.pc = "res" /\ g.hist = Top.hist
    BY <1>2, SettledLike
  <1> HIDE DEF v, g
  <1>4. Steps(stack, st) /\ st[n] = g
    BY <1>1, <1>3, LikeMoved, PutSteps
  <1>5. stack' = st \/ stack' = [st EXCEPT ![n - 1] = a(@)] \/ stack' = [st EXCEPT ![n - 1] = r(@)]
    <2>1. Len(st) = n
      BY <1>4 DEF Steps
    <2> QED
      BY <2>1 DEF ExecuteTool, g, v
  <1>6. Len(stack') = n
    <2>1. stack \in Seq(Frames(tools, park.wrote))
      BY DEF EngineInv, StackOK
    <2>2. st \in Seq(Frames(tools, park.wrote) \cup {g}) /\ Len(st) = n
      BY <2>1, <1>2 DEF Put
    <2> HIDE DEF st, a, r, n
    <2>3. \A b : Len([st EXCEPT ![n - 1] = b]) = n
      <3> SUFFICES ASSUME NEW b PROVE Len([st EXCEPT ![n - 1] = b]) = n
        OBVIOUS
      <3>1. st \in Seq(Frames(tools, park.wrote) \cup {g, b})
        BY <2>2
      <3> QED
        BY <2>2, <3>1
    <2> QED
      BY <1>5, <2>2, <2>3
  <1> HIDE DEF st, x
  <1>7. ASSUME NEW f, Shaped(f)
        PROVE  Stays(f, a(f)) /\ Stays(f, r(f))
    <2> DEFINE p == Push(f, x)
    <2>1. Like(f, p) /\ HistTurns(p.hist) = HistTurns(f.hist) /\ p.pc = f.pc /\ p.val = f.val /\ Shaped(p)
      BY <1>7, SpeakLike, LikeOn DEF x
    <2> HIDE DEF p
    <2>2. Like(p, [p EXCEPT !.action = "redirect"])
      BY <2>1, FieldLike
    <2>3. /\ [p EXCEPT !.action = "redirect"].pc = p.pc /\ [p EXCEPT !.action = "redirect"].val = p.val
          /\ [p EXCEPT !.action = "redirect"].hist = p.hist
      BY <2>1 DEF Shaped, Fields
    <2>4. Stays(f, r(f))
      BY <2>1, <2>2, <2>3, LikeOn DEF Stays, p
    <2>5. Like(f, a(f)) /\ a(f).pc = f.pc /\ a(f).val = f.val /\ a(f).hist = f.hist
      BY <1>7, FieldLike DEF Shaped, Fields
    <2> QED
      BY <2>4, <2>5 DEF Stays
  <1>8. \A k \in DOMAIN stack : Shaped(stack[k]) /\ Stays(stack[k], stack[k])
    <2>1. \A k \in DOMAIN stack : Shaped(stack[k])
      BY <1>1, RunningH
    <2> QED
      BY <2>1, LikeOn DEF Stays
  <1>9. \A k \in DOMAIN stack : k # n => st[k] = stack[k]
    BY <1>2 DEF st, Put
  <1>10. /\ DOMAIN stack' = DOMAIN stack /\ stack'[n] = g
         /\ \A k \in DOMAIN stack : k # n => stack'[k] = st[k] \/ stack'[k] = a(st[k]) \/ stack'[k] = r(st[k])
    <2>1. DOMAIN st = DOMAIN stack /\ n # n - 1 /\ n \in DOMAIN stack
      <3>1. DOMAIN st = DOMAIN stack
        BY <1>4 DEF Steps
      <3> HIDE DEF n
      <3> QED
        BY <1>2, <3>1
    <2> HIDE DEF a, r, n
    <2>2. CASE stack' = st
      BY <1>4, <2>1, <2>2
    <2>3. CASE stack' = [st EXCEPT ![n - 1] = a(@)]
      BY <1>4, <2>1, <2>3
    <2>4. CASE stack' = [st EXCEPT ![n - 1] = r(@)]
      BY <1>4, <2>1, <2>4
    <2> QED
      BY <1>5, <2>2, <2>3, <2>4
  <1> HIDE DEF a, r
  <1>11. Steps(stack, stack')
    <2>1. Moved(stack[n], stack'[n])
      BY <1>4, <1>10 DEF Steps
    <2>2. \A k \in DOMAIN stack : k # n => Stays(stack[k], stack'[k])
      BY <1>7, <1>8, <1>9, <1>10
    <2> QED
      BY <1>6, <1>10, <2>1, <2>2 DEF Steps
  <1> QED
    BY <1>1, <1>3, <1>10, <1>11, LogStands, WithinH

\* A delegation begins a child with a history of its own; the call stays marked.
LEMMA SpawnAgentH ==
  ASSUME NEW tools, EngineInv(tools), NEW of, ExecInv(of), HistoryInv, SpawnAgent
  PROVE  HistoryInv'
  <1> DEFINE g == Settled(Top, "refused")
             h == Goto(Top, "wait")
  <1>1. /\ At("exec") /\ UNCHANGED <<status, disk>> /\ suspendsChild(Call(Top).tool)
        /\ \/ stack' = Put(g) /\ UNCHANGED <<rec, jour, log, park>>
           \/ StartRole(Put(h), Top.hand, isWriteCapableRole(Call(Top).tool))
    BY DEF SpawnAgent
  <1>2. Shaped(Top) /\ Top.pc = "exec" /\ FrameH(Top, Ended(log), park.question)
    BY <1>1, RunningH
  <1>3. /\ Like(Top, g) /\ g.pc = "res" /\ g.hist = Top.hist
        /\ Like(Top, h) /\ h.pc = "wait" /\ h.hist = Top.hist
    BY <1>2, SettledLike, GoHist
  <1> HIDE DEF g, h
  <1>4. CASE stack' = Put(g) /\ UNCHANGED <<rec, jour, log, park>>
    <2>1. Steps(stack, stack') /\ stack'[Len(stack)] = g
      BY <1>1, <1>3, <1>4, LikeMoved, PutSteps
    <2>2. Call(Top).tool # "ask"
      BY <1>1 DEF suspendsChild
    <2> QED
      BY <1>1, <1>3, <1>4, <2>1, <2>2, LogStands, WithinH
  <1>5. CASE StartRole(Put(h), Top.hand, isWriteCapableRole(Call(Top).tool))
    <2>1. FrameH(h, Ended(log), park.question)
      BY <1>1, <1>2, <1>3, WithinFrame
    <2>2. Moved(Top, h)
      BY <1>3, LikeMoved
    <2> QED
      BY <1>1, <1>5, <2>1, <2>2, StartAboveH
  <1> QED
    BY <1>1, <1>4, <1>5

\* An ask that blocks stays on its marker.
LEMMA AskWaitsH ==
  ASSUME NEW tools, EngineInv(tools), NEW of, ExecInv(of), HistoryInv, AskWaits
  PROVE  HistoryInv'
  <1> DEFINE g == Goto(Top, "asking")
  <1>1. /\ At("exec") /\ stack' = Put(g) /\ UNCHANGED <<status, rec, park, jour, disk>>
        /\ log' = Logged(log, {Start(Inv(Top))})
    BY DEF AskWaits
  <1>2. Shaped(Top)
    BY <1>1, RunningH
  <1>3. Like(Top, g) /\ g.pc = "asking" /\ g.hist = Top.hist
    BY <1>2, GoHist
  <1> HIDE DEF g
  <1>4. Steps(stack, stack') /\ stack'[Len(stack)] = g
    BY <1>1, <1>3, LikeMoved, PutSteps
  <1>5. TerminatedIn(log) \subseteq TerminatedIn(log') /\ jour'.ended \subseteq TerminatedIn(log')
    BY <1>1, LogsMore DEF HistoryInv
  <1> QED
    BY <1>1, <1>3, <1>4, <1>5, WithinH

\* An ask is answered, or refused, and ends.
LEMMA AskEndsH ==
  ASSUME NEW tools, EngineInv(tools), NEW of, ExecInv(of), HistoryInv, NEW l \in {"exec", "asking"}, At(l),
         NEW v, stack' = Put(Settled(Top, v)),
         NEW events, Terminal(Inv(Top)) \in events, log' = Logged(log, events),
         jour'.ended = jour.ended \cup {Inv(Top)}, UNCHANGED <<status, rec, park, disk>>
  PROVE  HistoryInv'
  <1> DEFINE g == Settled(Top, v)
  <1>1. Shaped(Top) /\ l \in OnACall
    BY RunningH DEF OnACall
  <1>2. Like(Top, g) /\ g.pc = "res" /\ g.hist = Top.hist /\ stack' = Put(g)
    BY <1>1, SettledLike
  <1> HIDE DEF g
  <1>3. Steps(stack, stack') /\ stack'[Len(stack)] = g
    BY <1>2, LikeMoved, PutSteps
  <1>4. /\ TerminatedIn(log) \subseteq TerminatedIn(log') /\ jour'.ended \subseteq TerminatedIn(log')
        /\ Call(Top).id \in Ended(log')
    BY <1>1, EndsOwnCall
  <1> QED
    BY <1>2, <1>3, <1>4, WithinH

\* A rejected ask is settled with an error.
LEMMA AskRejectedH ==
  ASSUME NEW tools, EngineInv(tools), NEW of, ExecInv(of), HistoryInv, AskRejected
  PROVE  HistoryInv'
  <1> DEFINE inv == Inv(Top)
             events == {Terminal(inv)} \cup (IF inv \in jour.started THEN {} ELSE {Start(inv)})
  <1>1. /\ At("exec") /\ stack' = Put(Settled(Top, "invalid")) /\ UNCHANGED <<status, rec, park, disk>>
        /\ log' = Logged(log, events) /\ jour' = [started |-> jour.started \cup {inv}, ended |-> jour.ended \cup {inv}]
    BY DEF AskRejected
  <1>2. Terminal(inv) \in events /\ jour'.ended = jour.ended \cup {inv}
    BY <1>1
  <1> HIDE DEF events
  <1> QED
    BY <1>1, <1>2, AskEndsH

\* An answer settles the ask that waits for it.
LEMMA SubmitAnswerH ==
  ASSUME NEW tools, EngineInv(tools), NEW of, ExecInv(of), HistoryInv, submitAnswer
  PROVE  HistoryInv'
  <1> DEFINE inv == Inv(Top)
             events == {Terminal(inv)}
  <1>1. /\ At("asking") /\ stack' = Put(Settled(Top, "answer")) /\ UNCHANGED <<status, rec, park, disk>>
        /\ log' = Logged(log, events) /\ jour' = [started |-> jour.started \cup {inv}, ended |-> jour.ended \cup {inv}]
    BY DEF submitAnswer
  <1>2. Terminal(inv) \in events /\ jour'.ended = jour.ended \cup {inv}
    BY <1>1
  <1> HIDE DEF events
  <1> QED
    BY <1>1, <1>2, AskEndsH

\* The question that parks the run: the role that asked it is the one that will write it.
LEMMA AskParksH ==
  ASSUME NEW tools, EngineInv(tools), NEW of, ExecInv(of), HistoryInv, AskParks
  PROVE  HistoryInv'
  <1> DEFINE g == Settled(Top, "parked")
             n == Len(stack)
             c == Call(Top).id
             e == Ended(log')
  <1>1. /\ At("exec") /\ UNCHANGED <<status, rec, disk>> /\ stack' = Put(g) /\ Call(Top).tool = "ask"
        /\ log' = Logged(log, {Start(Inv(Top))}) /\ jour' = [jour EXCEPT !.started = @ \cup {Inv(Top)}]
        /\ park' = [park EXCEPT !.question = TRUE, !.ask = c, !.role = Top.id] /\ park.tracked
    BY DEF AskParks
  <1>2. /\ status = "running" /\ Shaped(Top) /\ Top.pc = "exec" /\ FrameH(Top, Ended(log), park.question)
        /\ FrameX(Top, of) /\ n \in Nat \ {0} /\ n \in DOMAIN stack /\ DOMAIN stack = 1 .. n /\ Top = stack[n]
        /\ ~park.question /\ ~rec.frozen /\ disk.ask = 0
    <2>1. ~park.question /\ ~rec.frozen
      BY <1>1, RunningH DEF Unwinding
    <2>2. disk.ask = 0
      BY <1>1, <2>1, RunningH
    <2> QED
      BY <1>1, <2>1, <2>2, RunningH
  <1>3. Like(Top, g) /\ g.pc = "res" /\ g.hist = Top.hist
    BY <1>2, SettledLike
  <1> HIDE DEF g
  <1>4. Steps(stack, stack') /\ stack'[n] = g
    BY <1>1, <1>3, LikeMoved, PutSteps
  <1>5. TerminatedIn(log) \subseteq TerminatedIn(log') /\ jour'.ended \subseteq TerminatedIn(log')
    <2>1. jour'.ended = jour.ended
      BY <1>1
    <2> QED
      BY <1>1, <2>1, LogsMore DEF HistoryInv
  <1>6. Ended(log) \subseteq e
    BY <1>5 DEF Ended
  <1>7. /\ park'.question = TRUE /\ park'.ask = c /\ park'.role = Top.id /\ park'.tracked
    <2>1. ParkOK(park, stack)
      BY <1>1, Running
    <2> QED
      BY <1>1, <2>1 DEF ParkOK
  <1>8. Call(Top) = [id |-> c, tool |-> "ask"] /\ c # 0 /\ Call(g) = Call(Top)
    <2>1. "exec" \in OnACall
      BY DEF OnACall
    <2>2. Top.idx \in DOMAIN Top.turn /\ c \in DOMAIN of
      BY <1>1, <2>1, OnCallX
    <2>3. Call(Top) \in Calls(tools)
      <3>1. Top \in Frames(tools, park.wrote)
        BY <1>1, RunningX
      <3> QED
        BY <2>2, <3>1, CallOf
    <2>4. c # 0
      BY <2>2 DEF ExecInv
    <2> QED
      BY <1>1, <1>3, <2>3, <2>4 DEF Calls, Like, Keeps, Call, Batch
  <1>9. FramesH(stack', e, TRUE)
    <2>1. FrameH(g, e, TRUE)
      BY <1>2, <1>3, <1>6, WithinFrame
    <2>2. ASSUME NEW k \in DOMAIN stack, k # n
          PROVE  FrameH(stack'[k], e, TRUE)
      <3>1. FrameH(stack[k], Ended(log), park.question) /\ Stays(stack[k], stack'[k])
        BY <1>4, <2>2 DEF HistoryInv, FramesH, Steps
      <3>2. FrameH(stack'[k], Ended(log), park.question)
        BY <3>1, StayFrame DEF Stays
      <3> QED
        BY <1>2, <1>6, <3>2, MoreEnded
    <2> QED
      BY <1>2, <1>4, <2>1, <2>2 DEF FramesH, Steps
  <1>10. \A k \in DOMAIN stack : Moved(stack[k], stack'[k])
    BY <1>4, StaysMoved DEF Steps
  <1>11. Numbered(stack', rec'.counter)
    BY <1>1, <1>4, <1>10 DEF HistoryInv, Numbered, Moved, Steps
  <1>12. DiskH(disk', e)
    BY <1>1, <1>6, DiskMore DEF HistoryInv
  <1>13. ParkH(park', rec', stack', disk')
    <2>1. \A k \in DOMAIN stack' : Unreplayed(stack'[k])
      BY <1>1, <1>4, <1>10 DEF HistoryInv, ParkH, Moved, Steps
    <2>2. Asking(g, park')
      <3>1. Top.turn \in HistTurns(Top.hist) /\ Top.mode # "child"
        BY <1>2 DEF FrameH, Held, FrameX, OnACall
      <3> QED
        BY <1>3, <1>7, <1>8, <3>1 DEF Asking, Like, Keeps
    <2>3. Unwinds(g, park', rec')
      <3>1. ~IsFinish(Call(g).tool)
        BY <1>8 DEF IsFinish, CardOf
      <3> QED
        BY <1>1, <1>2, <1>3, <2>2, <3>1 DEF Unwinds
    <2>4. ASSUME NEW k \in DOMAIN stack', k # n
          PROVE  stack'[k].id # park'.role
      <3>1. k \in DOMAIN stack /\ stack'[k].id = stack[k].id /\ stack[k].id # Top.id
        BY <1>2, <1>4, <1>10, <2>4 DEF HistoryInv, Numbered, Moved, Steps
      <3> QED
        BY <1>7, <3>1
    <2>5. Len(stack') = n
      BY <1>4 DEF Steps
    <2> QED
      BY <1>1, <1>2, <1>4, <1>7, <1>8, <2>1, <2>3, <2>4, <2>5 DEF ParkH
  <1>14. StatusH(status', stack', rec', park', disk')
    <2>1. StatusH(status, stack, rec, park, disk)
      BY DEF HistoryInv
    <2>2. stack' # << >> /\ stack'[1].hand = stack[1].hand
      BY <1>2, <1>4, <1>10 DEF Moved, Steps
    <2>3. Settles(stack', rec', disk')
      BY <1>3, <1>4 DEF Settles, Steps
    <2> QED
      BY <1>1, <1>2, <2>1, <2>2, <2>3 DEF StatusH
  <1> QED
    BY <1>5, <1>7, <1>9, <1>11, <1>12, <1>13, <1>14 DEF HistoryInv

\* From one call of a turn to the next.
LEMMA RestOn ==
  ASSUME NEW of, NEW t \in Turns(of), NEW i \in DOMAIN t
  PROVE  /\ i \in Nat /\ i # 0 /\ t # << >> /\ Len(t) \in Nat /\ DOMAIN t = 1 .. Len(t)
         /\ Rest(t, i) \ {t[i].id} \subseteq Rest(t, i + 1)
         /\ NoFinish(t, 1, i) /\ ~IsFinish(t[i].tool) => NoFinish(t, 1, i + 1)
  <1>1. i \in Nat /\ i # 0 /\ DOMAIN t = 1 .. Len(t) /\ Len(t) \in Nat /\ t # << >>
    BY DEF Turns
  <1>2. \A j \in DOMAIN t : i <= j => j = i \/ i + 1 <= j
    BY <1>1
  <1>3. \A j \in DOMAIN t : j < i + 1 => j = i \/ j < i
    BY <1>1
  <1>4. Rest(t, i) \ {t[i].id} \subseteq Rest(t, i + 1)
    BY <1>2 DEF Rest
  <1>5. NoFinish(t, 1, i) /\ ~IsFinish(t[i].tool) => NoFinish(t, 1, i + 1)
    BY <1>3 DEF NoFinish
  <1> QED
    BY <1>1, <1>4, <1>5

\* No finish is among fewer calls.
LEMMA FewerFinish ==
  ASSUME NEW of, NEW t \in Turns(of), NEW i \in Nat, NEW j \in Nat, i <= j, NoFinish(t, 1, j)
  PROVE  NoFinish(t, 1, i)
  <1>1. \A k \in DOMAIN t : k \in Nat
    BY DEF Turns
  <1> QED
    BY <1>1 DEF NoFinish

\* What the answer of the i-th call of a turn adds to a history.
Tells(h, g, t, i) ==
  /\ Hears(h, g) /\ HistTurns(g) = HistTurns(h)
  /\ Answered(h, Rest(t, i)) => Answered(g, Rest(t, i + 1))
  /\ During(h, t, i) /\ ~IsFinish(t[i].tool) => During(g, t, i + 1)

\* The answer to the i-th call leaves only the calls behind it to be answered.
LEMMA AnswerTells ==
  ASSUME NEW S, NEW h \in Seq(S), NEW of, NEW t \in Turns(of), NEW i \in DOMAIN t, NEW val,
         NEW g, g = Append(h, ToolMessage(t[i].id, val))
  PROVE  Tells(h, g, t, i)
  <1> DEFINE x == ToolMessage(t[i].id, val)
  <1>1. x.m # "assistant"
    BY DEF ToolMessage
  <1> HIDE DEF x
  <1>2. Hears(h, g) /\ HistTurns(g) = HistTurns(h)
    BY <1>1, PushHears DEF x
  <1>3. ASSUME Answered(h, Rest(t, i))
        PROVE  Answered(g, Rest(t, i + 1))
    <2>1. Answered(g, Rest(t, i) \ {t[i].id})
      BY <1>3, PushAnswers
    <2> QED
      BY <2>1, RestOn, AnsweredMore
  <1>4. ASSUME During(h, t, i), ~IsFinish(t[i].tool)
        PROVE  During(g, t, i + 1)
    <2>1. LastIs(g, t)
      BY <1>2, <1>4 DEF Hears, During
    <2>2. NoFinish(t, 1, i + 1)
      BY <1>4, RestOn DEF During
    <2> QED
      BY <1>3, <1>4, <2>1, <2>2 DEF During
  <1> QED
    BY <1>2, <1>3, <1>4 DEF Tells

\* The frame that answers the call it is on.
LEMMA AnswerFrame ==
  ASSUME NEW of, NEW f, Shaped(f), f.turn \in Turns(of), f.idx \in DOMAIN f.turn, NEW val,
         NEW g, g = [Push(f, ToolMessage(Call(f).id, val)) EXCEPT !.calls = @ + 1]
  PROVE  /\ Like(f, g) /\ Shaped(g) /\ g.pc = f.pc /\ g.val = f.val /\ g.note = f.note
         /\ g.hist = Append(f.hist, ToolMessage(Call(f).id, val))
         /\ Tells(f.hist, g.hist, f.turn, f.idx)
  <1> DEFINE x == ToolMessage(Call(f).id, val)
             p == Push(f, x)
  <1>1. x.m # "assistant"
    BY DEF ToolMessage
  <1>2. PICK S : f.hist \in Seq(S)
    BY DEF Shaped
  <1>3. Tells(f.hist, Append(f.hist, x), f.turn, f.idx)
    BY <1>2, AnswerTells DEF Call, Batch
  <1> HIDE DEF x
  <1>4. Like(f, p) /\ p.hist = Append(f.hist, x) /\ p.pc = f.pc /\ p.val = f.val /\ p.note = f.note
    <2>1. p.note = f.note
      BY DEF Push, Shaped, Fields
    <2> QED
      BY <1>1, <2>1, PushLike
  <1>5. Shaped(p)
    BY <1>4, LikeOn
  <1>6. PICK v : g = [p EXCEPT !.calls = v]
    BY DEF x
  <1> HIDE DEF p
  <1>7. Like(p, g) /\ g.hist = p.hist /\ g.pc = p.pc /\ g.val = p.val /\ g.note = p.note
    <2>1. g.hist = p.hist /\ g.pc = p.pc /\ g.val = p.val /\ g.note = p.note
      BY <1>5, <1>6 DEF Shaped, Fields
    <2>2. Like(p, [p EXCEPT !.calls = v])
      BY <1>5, FieldLike
    <2> QED
      BY <1>6, <2>1, <2>2
  <1>8. Like(f, g) /\ Shaped(g)
    BY <1>4, <1>7, LikeOn
  <1> QED
    BY <1>3, <1>4, <1>7, <1>8 DEF x

\* A frame about to dispatch the next call of its turn, or done with the turn.
LEMMA NextFrame ==
  ASSUME NEW e, NEW a, NEW g, g.pc = "disp", Ordered(g.hist), During(g.hist, g.turn, g.idx), g.mode # "replay",
         g.pend.card # None => suspendsChild(PendingCall(g.pend).tool),
         g.turn \in HistTurns(g.hist) \/ g.idx > Len(g.turn),
         g.idx <= Len(g.turn) \/ (g.pend # NoPending => g.pend.calls = g.turn /\ g.pend.idx = Len(g.turn)),
         Done(g.pend, e) \/ (a /\ g.idx <= Len(g.turn))
  PROVE  FrameH(g, e, a)
  <1>1. ~Between(g) /\ g.pc \notin OnACall
    BY DEF Between, LoopLabels, OnACall
  <1>2. Told(g) /\ Held(g, e)
    BY <1>1 DEF Told, Held
  <1>3. Carries(g, e, a)
    BY <1>1 DEF Carries
  <1> QED
    BY <1>2, <1>3 DEF FrameH

\* A history that answers all, or all but the question, with no marker.
LEMMA ClosedSaves ==
  ASSUME NEW g, g.pend = NoPending, Ordered(g.hist), NEW e, NEW role
  PROVE  /\ SavedH(g, e)
         /\ Answered(g.hist, {}) => LeafH(g, 0, role)
         /\ \A ask : ask # 0 /\ AskedIn(g.hist, ask) /\ role = g.id => LeafH(g, ask, role)
  <1>1. SavedH(g, e) /\ g.pend.card = None
    BY DEF SavedH, Marked, Backed, NoPending
  <1>2. Answered(g.hist, {}) => Whole(g)
    BY AnsweredMore DEF Whole
  <1> QED
    BY <1>1, <1>2 DEF LeafH

\* The call under way is written as the marker.
LEMMA DispatchCallH ==
  ASSUME NEW tools, EngineInv(tools), NEW all, EngineInv(all)', NEW of, ExecInv(of), HistoryInv, DispatchCall
  PROVE  HistoryInv'
  <1> DEFINE p == Pending(Batch(Top), Top.idx)
             g == [Top EXCEPT !.pend = p, !.pc = "start"]
             e == Ended(log)
  <1>1. /\ At("disp") /\ Top.idx <= Len(Batch(Top)) /\ ~park.question /\ UNCHANGED <<status, log, jour>>
        /\ Write("ordinary", Put(g), rec, park)
    BY DEF DispatchCall
  <1>2. /\ FrameX(Top, of) /\ Top.pc = "disp" /\ Shaped(Top) /\ RecOK(rec, tools, park.wrote)
        /\ FrameH(Top, e, park.question) /\ park.ask = 0
    BY <1>1, RunningH, Running
  <1>3. Top.idx \in DOMAIN Top.turn /\ Top.turn \in Turns(of) /\ Top.idx \in Nat /\ Top.idx # 0
    BY <1>1, OnCallX, RestOn
  <1>4. p.calls = Top.turn /\ p.idx = Top.idx /\ p.card = None /\ p # NoPending
    <2>1. p.calls = Top.turn /\ p.idx = Top.idx /\ p.card = None
      BY DEF Pending, Batch
    <2> HIDE DEF p
    <2> QED
      BY <2>1, <1>3 DEF NoPending
  <1> HIDE DEF p
  <1>5. /\ g.hand = Top.hand /\ g.hist = Top.hist /\ g.pend = p /\ g.turn = Top.turn /\ g.idx = Top.idx
        /\ g.pc = "start" /\ g.mode = Top.mode /\ g.id = Top.id /\ g.note = Top.note
    BY <1>2 DEF Shaped, Fields
  <1> HIDE DEF g
  <1>6. /\ Ordered(Top.hist) /\ During(Top.hist, Top.turn, Top.idx) /\ Top.turn \in HistTurns(Top.hist)
        /\ Top.mode # "replay"
    <2>1. Len(Top.turn) \in Nat
      BY <1>3, RestOn
    <2>2. ~(Top.idx > Len(Top.turn))
      BY <1>1, <1>3, <2>1 DEF Batch
    <2> QED
      BY <1>2, <2>2 DEF FrameH, Told, Held, Carries
  <1>7. FrameH(g, e, park.question)
    <2>1. ~Between(g) /\ g.pc \in OnACall
      BY <1>5 DEF Between, LoopLabels, OnACall
    <2>2. Told(g) /\ Held(g, e)
      BY <1>5, <1>6, <2>1 DEF Told, Held
    <2>3. Carries(g, e, park.question)
      BY <1>3, <1>4, <1>5, <1>6, <2>1 DEF Carries, OnMarker
    <2> QED
      BY <2>2, <2>3 DEF FrameH
  <1>8. SavedH(g, e) /\ LeafH(g, park.ask, park.role)
    BY <1>2, <1>4, <1>5, <1>6 DEF SavedH, LeafH, Marked, Backed, Whole, MarkedRest, During
  <1>9. Moved(Top, g)
    BY <1>5 DEF Moved, Unreplayed
  <1> QED
    BY <1>1, <1>2, <1>5, <1>7, <1>8, <1>9, MoveWriteH

\* A call that is not valid is answered at once.
LEMMA DispatchInvalidH ==
  ASSUME NEW tools, EngineInv(tools), NEW all, EngineInv(all)', NEW of, ExecInv(of), HistoryInv, DispatchInvalid
  PROVE  HistoryInv'
  <1> DEFINE v == "invalid"
             f == [Push(Top, ToolMessage(Call(Top).id, v)) EXCEPT !.calls = @ + 1]
             c == [f EXCEPT !.pend = NoPending]
             g == Onward(c)
             h == Onward(f)
             e == Ended(log)
  <1>1. /\ At("disp") /\ Top.idx <= Len(Batch(Top)) /\ ~park.question /\ UNCHANGED <<status, log, jour>>
        /\ Call(Top).tool = "bad"
        /\ \/ IsLast(Top) /\ Write("ordinary", Put(g), rec, park)
           \/ ~IsLast(Top) /\ stack' = Put(h) /\ UNCHANGED <<rec, park, disk>>
    BY DEF DispatchInvalid
  <1> HIDE DEF v
  <1>2. /\ FrameX(Top, of) /\ Top.pc = "disp" /\ Shaped(Top) /\ RecOK(rec, tools, park.wrote)
        /\ FrameH(Top, e, park.question) /\ park.ask = 0
    BY <1>1, RunningH, Running
  <1>3. Top.idx \in DOMAIN Top.turn /\ Top.turn \in Turns(of) /\ Top.idx \in Nat /\ Len(Top.turn) \in Nat
        /\ Call(Top) = Top.turn[Top.idx]
    BY <1>1, OnCallX, RestOn
  <1>0. f = [Push(Top, ToolMessage(Call(Top).id, v)) EXCEPT !.calls = @ + 1]
    OBVIOUS
  <1> HIDE DEF f
  <1>4. /\ Like(Top, f) /\ Shaped(f) /\ f.note = Top.note /\ Tells(Top.hist, f.hist, Top.turn, Top.idx)
    <2>1. Shaped(Top) /\ Top.turn \in Turns(of) /\ Top.idx \in DOMAIN Top.turn
      BY <1>2, <1>3
    <2> QED
      BY <1>0, <2>1, AnswerFrame
  <1>5. ~IsFinish(Top.turn[Top.idx].tool)
    BY <1>1, <1>3 DEF IsFinish, CardOf
  <1>6. /\ Ordered(f.hist) /\ During(f.hist, Top.turn, Top.idx + 1) /\ Top.turn \in HistTurns(f.hist)
        /\ Top.mode # "replay" /\ Done(Top.pend, e)
        /\ Top.pend.card # None => suspendsChild(PendingCall(Top.pend).tool)
    <2>1. ~(Top.idx > Len(Top.turn))
      BY <1>1, <1>3 DEF Batch
    <2> QED
      BY <1>1, <1>2, <1>4, <1>5, <2>1 DEF FrameH, Told, Held, Carries, Tells, Hears
  <1>7. CASE IsLast(Top) /\ Write("ordinary", Put(g), rec, park)
    <2>1. /\ Shaped(c) /\ c.hand = f.hand /\ c.hist = f.hist /\ c.pend = NoPending /\ c.turn = f.turn /\ c.idx = f.idx
          /\ c.mode = f.mode /\ c.id = f.id /\ c.note = f.note
      <3>1. c.id = f.id
        BY <1>4 DEF Shaped, Fields
      <3> QED
        BY <1>4, <3>1, ClearedShape
    <2> HIDE DEF c
    <2>2. /\ g.hand = c.hand /\ g.pend = c.pend /\ g.hist = c.hist /\ g.turn = c.turn /\ g.idx = c.idx + 1
          /\ g.pc = "disp" /\ g.mode = (IF c.mode = "reconcile" THEN "rest" ELSE c.mode)
          /\ g.id = c.id /\ g.note = c.note
      <3>1. g.id = c.id /\ g.note = c.note
        BY <2>1 DEF Onward, Shaped, Fields
      <3> QED
        BY <2>1, <3>1, OnwardShape
    <2> HIDE DEF g
    <2>3. /\ g.hand = Top.hand /\ g.pend = NoPending /\ g.hist = f.hist /\ g.turn = Top.turn /\ g.idx = Top.idx + 1
          /\ g.pc = "disp" /\ g.mode = (IF Top.mode = "reconcile" THEN "rest" ELSE Top.mode)
          /\ g.id = Top.id /\ g.note = Top.note
      BY <1>4, <2>1, <2>2 DEF Like, Keeps
    <2>4. g.idx > Len(g.turn)
      BY <1>3, <1>7, <2>3 DEF IsLast, Batch
    <2>5. FrameH(g, e, park.question)
      <3>1. Done(g.pend, e) /\ g.pend.card = None /\ g.mode # "replay"
        BY <1>6, <2>3 DEF Done, NoPending
      <3> QED
        BY <1>6, <2>3, <2>4, <3>1, NextFrame
    <2>6. SavedH(g, e) /\ LeafH(g, park.ask, park.role)
      <3>1. Rest(Top.turn, Top.idx + 1) = {}
        BY <1>3, <2>3, <2>4, NothingLeft, RestOn
      <3>2. Answered(g.hist, {})
        BY <1>6, <2>3, <3>1 DEF During
      <3> QED
        BY <1>2, <1>6, <2>3, <3>2, ClosedSaves
    <2>7. Moved(Top, g)
      BY <2>3 DEF Moved, Unreplayed
    <2> QED
      BY <1>1, <1>2, <1>7, <2>3, <2>5, <2>6, <2>7, MoveWriteH
  <1>8. CASE ~IsLast(Top) /\ stack' = Put(h) /\ UNCHANGED <<rec, park, disk>>
    <2>1. /\ h.hand = f.hand /\ h.pend = f.pend /\ h.hist = f.hist /\ h.turn = f.turn /\ h.idx = f.idx + 1
          /\ h.pc = "disp" /\ h.mode = (IF f.mode = "reconcile" THEN "rest" ELSE f.mode)
          /\ h.id = f.id /\ h.note = f.note
      <3>1. h.id = f.id /\ h.note = f.note
        BY <1>4 DEF Onward, Shaped, Fields
      <3> QED
        BY <1>4, <3>1, OnwardShape
    <2> HIDE DEF h
    <2>3. /\ h.hand = Top.hand /\ h.pend = Top.pend /\ h.hist = f.hist /\ h.turn = Top.turn /\ h.idx = Top.idx + 1
          /\ h.pc = "disp" /\ h.mode = (IF Top.mode = "reconcile" THEN "rest" ELSE Top.mode)
          /\ h.id = Top.id /\ h.note = Top.note
      BY <1>4, <2>1 DEF Like, Keeps
    <2>4. h.idx <= Len(h.turn)
      BY <1>1, <1>3, <1>8, <2>3 DEF IsLast, Batch
    <2>5. FrameH(h, e, park.question)
      BY <1>6, <2>3, <2>4, NextFrame
    <2>6. Moved(Top, h)
      BY <2>3 DEF Moved, Unreplayed
    <2>7. Steps(stack, stack') /\ stack'[Len(stack)] = h
      BY <1>1, <1>8, <2>6, PutSteps
    <2>8. AfterAnswer(stack) => AfterAnswer(stack')
      <3>1. \A k \in DOMAIN stack : stack'[k].hand = stack[k].hand
        BY <2>7, StaysMoved DEF Steps, Moved
      <3>2. Top = stack[Len(stack)] /\ Len(stack) \in DOMAIN stack
        BY <1>1, RunningH
      <3> QED
        BY <2>3, <2>7, <3>1, <3>2 DEF AfterAnswer, Steps
    <2>9. TerminatedIn(log) \subseteq TerminatedIn(log') /\ jour'.ended \subseteq TerminatedIn(log') /\ SamePark(park, park')
      BY <1>1, <1>8, LogStands DEF SamePark
    <2>10. FrameH(h, Ended(log'), park.question)
      BY <1>1, <2>5
    <2> QED
      BY <1>1, <1>8, <2>3, <2>7, <2>8, <2>9, <2>10, MoveH
  <1> QED
    BY <1>1, <1>7, <1>8

\* A frame moved on to the next call of its turn.
LEMMA OnwardIs ==
  ASSUME NEW f, Shaped(f), NEW g, g = Onward(f)
  PROVE  /\ g.hand = f.hand /\ g.pend = f.pend /\ g.hist = f.hist /\ g.turn = f.turn /\ g.idx = f.idx + 1
         /\ g.pc = "disp" /\ g.mode = (IF f.mode = "reconcile" THEN "rest" ELSE f.mode)
         /\ g.id = f.id /\ g.note = f.note /\ g.val = f.val /\ Shaped(g)
  <1>1. g.id = f.id /\ g.note = f.note /\ g.val = f.val
    BY DEF Onward, Shaped, Fields
  <1> QED
    BY <1>1, OnwardShape

\* The marker of a frame is another, or none.
LEMMA PendIs ==
  ASSUME NEW f, Shaped(f), NEW p, NEW g, g = [f EXCEPT !.pend = p]
  PROVE  /\ g.hand = f.hand /\ g.pend = p /\ g.hist = f.hist /\ g.turn = f.turn /\ g.idx = f.idx
         /\ g.pc = f.pc /\ g.mode = f.mode /\ g.id = f.id /\ g.note = f.note /\ g.val = f.val /\ Shaped(g)
  <1>1. g.id = f.id
    BY DEF Shaped, Fields
  <1> QED
    BY <1>1, ClearedShape

\* Only the running frame moves, and nothing is written.
LEMMA PutMoveH ==
  ASSUME NEW tools, EngineInv(tools), NEW of, ExecInv(of), HistoryInv, NEW l, At(l), l # "disp",
         NEW g, Moved(Top, g), stack' = Put(g), FrameH(g, Ended(log'), park.question),
         park.question => Unwinds(g, park, rec), g.pc = "end" => g.val \in Final,
         TerminatedIn(log) \subseteq TerminatedIn(log'), jour'.ended \subseteq TerminatedIn(log'),
         UNCHANGED <<status, rec, park, disk>>
  PROVE  HistoryInv'
  <1>1. Steps(stack, stack') /\ stack'[Len(stack)] = g
    BY PutSteps
  <1>2. SamePark(park, park')
    BY DEF SamePark
  <1> QED
    BY <1>1, <1>2, MoveH

\* The role that asked goes on to the park mark with the question's answer as it was.
LEMMA AsksOn ==
  ASSUME NEW f, NEW p, NEW r, Unwinds(f, p, r), f.pc # "end", NEW g, g.id = f.id, g.pc \in {"settle", "disp", "top"},
         g.mode # "child", f.pc # "res" => g.hist = f.hist,
         f.pc = "res" /\ ~r.frozen => AskedIn(g.hist, p.ask),
         ~r.frozen /\ (g.pc = "top" \/ (g.pc = "disp" /\ g.idx > Len(g.turn))) => g.pend = NoPending
  PROVE  Unwinds(g, p, r)
  <1>1. r.frozen => g.id # p.role
    BY DEF Unwinds
  <1>2. ~r.frozen => Asking(g, p)
    BY DEF Unwinds, Asking
  <1> QED
    BY <1>1, <1>2 DEF Unwinds

\* A settled call is behind the frame, on disk too when it is the last of its turn.
LEMMA SettleCallH ==
  ASSUME NEW tools, EngineInv(tools), NEW all, EngineInv(all)', NEW of, ExecInv(of), HistoryInv, SettleCall
  PROVE  HistoryInv'
  <1> DEFINE q == IF KeepsPending(Top) THEN Top.pend ELSE NoPending
             c == [Top EXCEPT !.pend = q]
             g == Onward(c)
             h == Onward(Top)
             e == Ended(log)
  <1>1. /\ At("settle") /\ UNCHANGED <<status, log, jour>>
        /\ \/ IsLast(Top) /\ Write("ordinary", Put(g), rec, park)
           \/ ~IsLast(Top) /\ stack' = Put(h) /\ UNCHANGED <<rec, park, disk>>
    BY DEF SettleCall
  <1>2. /\ FrameX(Top, of) /\ Top.pc = "settle" /\ Shaped(Top) /\ RecOK(rec, tools, park.wrote)
        /\ FrameH(Top, e, park.question)
    BY <1>1, RunningH, Running
  <1>3. /\ park.question => Unwinds(Top, park, rec) /\ Unreplayed(Top) /\ park.ask # 0
        /\ ~park.question => park.ask = 0
    BY <1>1, RunningH
  <1>4. /\ Top.idx \in DOMAIN Top.turn /\ OnMarker(Top) /\ Ordered(Top.hist) /\ During(Top.hist, Top.turn, Top.idx + 1)
        /\ Top.mode # "replay" /\ (Call(Top).id \in e \/ park.question)
        /\ Top.pend.card # None => suspendsChild(PendingCall(Top.pend).tool)
        /\ Top.turn \in HistTurns(Top.hist) \/ (Top.idx = Len(Top.turn) /\ Call(Top).id \in e)
    BY <1>2 DEF FrameH, Told, Held, Carries
  <1>5. Top.turn \in Turns(of) /\ Top.idx \in Nat /\ Len(Top.turn) \in Nat /\ DOMAIN Top.turn = 1 .. Len(Top.turn)
    BY <1>2, <1>4, RestOn DEF FrameX
  <1>6. Top.mode # "child"
    BY <1>2 DEF FrameX
  <1>7. CASE ~IsLast(Top) /\ stack' = Put(h) /\ UNCHANGED <<rec, park, disk>>
    <2>1. /\ h.hand = Top.hand /\ h.pend = Top.pend /\ h.hist = Top.hist /\ h.turn = Top.turn /\ h.idx = Top.idx + 1
          /\ h.pc = "disp" /\ h.mode = (IF Top.mode = "reconcile" THEN "rest" ELSE Top.mode)
          /\ h.id = Top.id /\ h.note = Top.note
      BY <1>2, OnwardIs
    <2> HIDE DEF h
    <2>2. Top.idx # Len(Top.turn)
      BY <1>7 DEF IsLast, Batch
    <2>3. h.idx <= Len(h.turn) /\ ~(h.idx > Len(h.turn))
      BY <1>4, <1>5, <2>1, <2>2
    <2>4. Done(h.pend, e) \/ park.question
      BY <1>4, <2>1 DEF Done, OnMarker, PendingCall, Call, Batch
    <2>5. h.mode # "replay" /\ h.mode # "child"
      BY <1>4, <1>6, <2>1
    <2>6. FrameH(h, e, park.question)
      BY <1>4, <2>1, <2>2, <2>3, <2>4, <2>5, NextFrame
    <2>7. park.question => Unwinds(h, park, rec)
      BY <1>2, <1>3, <2>1, <2>3, <2>5, AsksOn
    <2>8. Moved(Top, h)
      BY <2>1 DEF Moved, Unreplayed
    <2>9. TerminatedIn(log) \subseteq TerminatedIn(log') /\ jour'.ended \subseteq TerminatedIn(log')
      BY <1>1, LogStands
    <2>10. FrameH(h, Ended(log'), park.question)
      BY <1>1, <2>6
    <2> QED
      BY <1>1, <1>7, <2>1, <2>7, <2>8, <2>9, <2>10, PutMoveH
  <1>8. CASE IsLast(Top) /\ Write("ordinary", Put(g), rec, park)
    <2>1. q = NoPending \/ (q = Top.pend /\ Top.mode = "reconcile" /\ ~park.question /\ Call(Top).id \in e)
      BY <1>3, <1>4 DEF KeepsPending, Unreplayed
    <2> HIDE DEF q
    <2>2. /\ c.hand = Top.hand /\ c.pend = q /\ c.hist = Top.hist /\ c.turn = Top.turn /\ c.idx = Top.idx
          /\ c.mode = Top.mode /\ c.id = Top.id /\ c.note = Top.note /\ Shaped(c)
      BY <1>2, PendIs
    <2> HIDE DEF c
    <2>3. /\ g.hand = c.hand /\ g.pend = c.pend /\ g.hist = c.hist /\ g.turn = c.turn /\ g.idx = c.idx + 1
          /\ g.pc = "disp" /\ g.mode = (IF c.mode = "reconcile" THEN "rest" ELSE c.mode)
          /\ g.id = c.id /\ g.note = c.note
      BY <2>2, OnwardIs
    <2> HIDE DEF g
    <2>4. /\ g.hand = Top.hand /\ g.pend = q /\ g.hist = Top.hist /\ g.turn = Top.turn /\ g.idx = Top.idx + 1
          /\ g.pc = "disp" /\ g.mode = (IF Top.mode = "reconcile" THEN "rest" ELSE Top.mode)
          /\ g.id = Top.id /\ g.note = Top.note
      BY <2>2, <2>3
    <2>5. Top.idx = Len(Top.turn) /\ g.idx > Len(g.turn)
      BY <1>5, <1>8, <2>4 DEF IsLast, Batch
    <2>6. /\ q.card # None => suspendsChild(PendingCall(q).tool)
          /\ q # NoPending => q.calls = Top.turn /\ q.idx = Len(Top.turn)
          /\ Done(q, e)
      BY <1>4, <2>1, <2>5 DEF NoPending, OnMarker, Done, PendingCall, Call, Batch
    <2>7. g.mode # "replay" /\ g.mode # "child"
      BY <1>4, <1>6, <2>4
    <2>8. FrameH(g, e, park.question)
      BY <1>4, <2>4, <2>5, <2>6, <2>7, NextFrame
    <2>9. park.question => Unwinds(g, park, rec)
      BY <1>2, <1>3, <2>1, <2>4, <2>7, AsksOn
    <2>10. Moved(Top, g)
      BY <2>4 DEF Moved, Unreplayed
    <2>11. Answered(g.hist, {}) /\ LastIs(g.hist, Top.turn) /\ NoFinish(Top.turn, 1, Top.idx) /\ Ordered(g.hist)
      <3>1. Rest(Top.turn, Top.idx + 1) = {}
        BY <1>5, <2>4, <2>5, NothingLeft
      <3>2. NoFinish(Top.turn, 1, Top.idx)
        BY <1>4, <1>5, FewerFinish DEF During
      <3> QED
        BY <1>4, <2>4, <3>1, <3>2 DEF During
    <2>12. ~rec.frozen => SavedH(g, e) /\ LeafH(g, park.ask, park.role)
      <3> SUFFICES ASSUME ~rec.frozen PROVE SavedH(g, e) /\ LeafH(g, park.ask, park.role)
        OBVIOUS
      <3>1. CASE q = NoPending
        <4>1. park.question => AskedIn(g.hist, park.ask) /\ park.role = g.id
          BY <1>2, <1>3, <2>4 DEF Unwinds, Asking
        <4> QED
          BY <1>3, <2>4, <2>11, <3>1, <4>1, ClosedSaves
      <3>2. CASE q # NoPending
        <4>1. park.ask = 0
          BY <1>3, <2>1, <3>2
        <4>2. Marked(g.hist, q) /\ Backed(g.hist, q, e) /\ Whole(g)
          BY <2>4, <2>5, <2>6, <2>11, AnsweredMore DEF Marked, Backed, Whole
        <4> QED
          BY <2>4, <2>6, <2>11, <3>2, <4>1, <4>2 DEF SavedH, LeafH, ChildCallOf
      <3> QED
        BY <3>1, <3>2
    <2> QED
      BY <1>1, <1>2, <1>8, <2>4, <2>8, <2>9, <2>10, <2>12, MoveWriteH
  <1> QED
    BY <1>1, <1>7, <1>8

\* A frame back at its loop top.
LEMMA LoopTopIs ==
  ASSUME NEW f, Shaped(f), NEW g, g = LoopTop(f)
  PROVE  /\ g.hand = f.hand /\ g.pend = f.pend /\ g.hist = f.hist /\ g.pc = "top" /\ g.mode = "live"
         /\ g.id = f.id /\ g.note = f.note
  <1>1. g.id = f.id /\ g.note = f.note
    BY DEF LoopTop, Shaped, Fields
  <1> QED
    BY <1>1, LoopTopShape

\* A frame that hears a resume's note, if there is one.
LEMMA NotedIs ==
  ASSUME NEW f, Shaped(f), NEW g, g = Noted(f)
  PROVE  /\ Like(f, g) /\ Shaped(g) /\ g.note = FALSE /\ g.pc = f.pc /\ g.val = f.val
         /\ g.id = f.id /\ g.hand = f.hand /\ g.pend = f.pend /\ g.turn = f.turn /\ g.idx = f.idx /\ g.mode = f.mode
         /\ ~f.note => g.hist = f.hist
  <1>1. Like(f, g) /\ g.note = FALSE /\ g.pc = f.pc /\ g.val = f.val
    BY ChangeLike
  <1>2. ~f.note => g.hist = f.hist
    BY DEF Noted
  <1>3. Shaped(g)
    BY <1>1, LikeOn
  <1> QED
    BY <1>1, <1>2, <1>3 DEF Like, Keeps

\* A frame that is done with its turn, between turns.
LEMMA RestingFrame ==
  ASSUME NEW e, NEW a, NEW g, g.pc \in LoopLabels \cup {"end"}, Ordered(g.hist),
         Between(g) => Answered(g.hist, {}) /\ Marked(g.hist, g.pend), g.mode # "replay",
         g.pend.card # None => suspendsChild(PendingCall(g.pend).tool),
         Between(g) => Done(g.pend, e) /\ (g.pend # NoPending => g.pend.idx = Len(g.pend.calls))
  PROVE  FrameH(g, e, a)
  <1>1. g.pc \notin OnACall \cup {"disp", "settle", "closing"}
    BY Apartness DEF OnACall
  <1>2. Told(g) /\ Held(g, e)
    BY <1>1 DEF Told, Held
  <1>3. Carries(g, e, a)
    BY <1>1 DEF Carries, OnACall
  <1> QED
    BY <1>2, <1>3 DEF FrameH

\* The turn is over: the role goes back to its loop top.
LEMMA DispatchDoneH ==
  ASSUME NEW tools, EngineInv(tools), NEW all, EngineInv(all)', NEW of, ExecInv(of), HistoryInv, DispatchDone
  PROVE  HistoryInv'
  <1> DEFINE h == Noted(Top)
             g == LoopTop(h)
             e == Ended(log)
  <1>1. /\ At("disp") /\ Top.idx > Len(Batch(Top)) /\ UNCHANGED <<status, log, jour>>
        /\ \/ Write("ordinary", Put(g), rec, park)
           \/ Top.mode # "parked" /\ stack' = Put(g) /\ UNCHANGED <<rec, park, disk>>
    BY DEF DispatchDone
  <1>2. /\ FrameX(Top, of) /\ Top.pc = "disp" /\ Shaped(Top) /\ RecOK(rec, tools, park.wrote)
        /\ FrameH(Top, e, park.question)
    BY <1>1, RunningH, Running
  <1>3. /\ park.question => Unwinds(Top, park, rec) /\ Unreplayed(Top) /\ park.ask # 0
        /\ ~park.question => park.ask = 0
    BY <1>1, RunningH
  <1>4. /\ Top.turn \in Turns(of) /\ Top.idx \in Nat /\ Len(Top.turn) \in Nat /\ DOMAIN Top.turn = 1 .. Len(Top.turn)
        /\ ~(Top.idx <= Len(Top.turn)) /\ Top.idx > Len(Top.turn)
    <2>1. Top.turn \in Turns(of) /\ Top.idx \in Nat
      BY <1>2 DEF FrameX
    <2>2. Len(Top.turn) \in Nat /\ DOMAIN Top.turn = 1 .. Len(Top.turn)
      BY <2>1 DEF Turns
    <2> QED
      BY <1>1, <2>1, <2>2 DEF Batch
  <1>5. /\ Ordered(Top.hist) /\ During(Top.hist, Top.turn, Top.idx) /\ Top.mode # "replay" /\ Done(Top.pend, e)
        /\ Top.pend.card # None => suspendsChild(PendingCall(Top.pend).tool)
        /\ Top.pend # NoPending => Top.pend.calls = Top.turn /\ Top.pend.idx = Len(Top.turn)
    BY <1>2, <1>4 DEF FrameH, Told, Held, Carries
  <1>6. Answered(Top.hist, {}) /\ Marked(Top.hist, Top.pend)
    <2>1. Rest(Top.turn, Top.idx) = {}
      BY <1>4, NothingLeft
    <2>2. NoFinish(Top.turn, 1, Len(Top.turn))
      BY <1>4, <1>5, FewerFinish DEF During
    <2> QED
      BY <1>5, <2>1, <2>2 DEF During, Marked
  <1>7. /\ Like(Top, h) /\ Shaped(h) /\ h.note = FALSE /\ h.id = Top.id /\ h.hand = Top.hand /\ h.pend = Top.pend
        /\ ~Top.note => h.hist = Top.hist
    BY <1>2, NotedIs
  <1> HIDE DEF h
  <1>8. /\ g.hand = Top.hand /\ g.pend = Top.pend /\ g.hist = h.hist /\ g.pc = "top" /\ g.mode = "live"
        /\ g.id = Top.id /\ g.note = FALSE
    BY <1>7, LoopTopIs
  <1> HIDE DEF g
  <1>9. Ordered(g.hist) /\ Answered(g.hist, {}) /\ Marked(g.hist, g.pend) /\ Between(g)
    <2>1. Hears(Top.hist, g.hist)
      BY <1>7, <1>8 DEF Like
    <2>2. Between(g)
      BY <1>8 DEF Between, LoopLabels
    <2> QED
      BY <1>5, <1>6, <1>8, <2>1, <2>2, HearsTurn DEF Hears
  <1>10. FrameH(g, e, park.question)
    <2>1. g.pend # NoPending => g.pend.idx = Len(g.pend.calls)
      BY <1>5, <1>8
    <2>2. g.pc \in LoopLabels \cup {"end"} /\ g.mode # "replay"
      BY <1>8 DEF LoopLabels
    <2> QED
      BY <1>5, <1>8, <1>9, <2>1, <2>2, RestingFrame
  <1>11. park.question => g.hist = Top.hist
    BY <1>3, <1>7, <1>8 DEF Unreplayed
  <1>12. park.question /\ ~rec.frozen => g.pend = NoPending /\ AskedIn(g.hist, park.ask) /\ park.role = g.id
    BY <1>2, <1>3, <1>4, <1>8, <1>11 DEF Unwinds, Asking
  <1>13. park.question => Unwinds(g, park, rec)
    BY <1>2, <1>3, <1>8, <1>11, <1>12, AsksOn
  <1>14. Moved(Top, g)
    BY <1>8 DEF Moved, Unreplayed
  <1>15. CASE Write("ordinary", Put(g), rec, park)
    <2>1. ~rec.frozen => SavedH(g, e) /\ LeafH(g, park.ask, park.role)
      <3>1. CASE park.ask = 0
        BY <1>9, <1>10, <3>1, LoopSaves
      <3>2. CASE park.ask # 0
        BY <1>3, <1>9, <1>12, <3>2, ClosedSaves
      <3> QED
        BY <3>1, <3>2
    <2> QED
      BY <1>1, <1>2, <1>8, <1>10, <1>13, <1>14, <1>15, <2>1, MoveWriteH
  <1>16. CASE Top.mode # "parked" /\ stack' = Put(g) /\ UNCHANGED <<rec, park, disk>>
    <2>1. Steps(stack, stack') /\ stack'[Len(stack)] = g
      BY <1>1, <1>14, <1>16, PutSteps
    <2>2. ~AfterAnswer(stack)
      <3>1. Top = stack[Len(stack)] /\ Len(stack) \in DOMAIN stack
        BY <1>1, RunningH
      <3> QED
        BY <1>16, <3>1 DEF AfterAnswer
    <2>3. TerminatedIn(log) \subseteq TerminatedIn(log') /\ jour'.ended \subseteq TerminatedIn(log') /\ SamePark(park, park')
      BY <1>1, <1>16, LogStands DEF SamePark
    <2>4. FrameH(g, Ended(log'), park.question)
      BY <1>1, <1>10
    <2> QED
      BY <1>1, <1>8, <1>13, <1>16, <2>1, <2>2, <2>3, <2>4, MoveH
  <1> QED
    BY <1>1, <1>15, <1>16

\* The child's card is on disk before it is delivered.
LEMMA RecordChildCardH ==
  ASSUME NEW tools, EngineInv(tools), NEW all, EngineInv(all)', NEW of, ExecInv(of), HistoryInv, RecordChildCard
  PROVE  HistoryInv'
  <1> DEFINE p == [Top.pend EXCEPT !.card = Top.val]
             g == [Top EXCEPT !.pend.card = Top.val, !.pc = "res"]
             e == Ended(log)
  <1>1. At("carded") /\ UNCHANGED <<status, log, jour>> /\ Write("ordinary", Put(g), rec, park)
    BY DEF RecordChildCard
  <1>2. /\ FrameX(Top, of) /\ Top.pc = "carded" /\ Shaped(Top) /\ RecOK(rec, tools, park.wrote)
        /\ Top \in FrameType(tools, park.wrote) /\ FrameH(Top, e, park.question)
    BY <1>1, RunningH, Running
  <1>3. /\ Top.idx \in DOMAIN Top.turn /\ OnMarker(Top) /\ Ordered(Top.hist) /\ During(Top.hist, Top.turn, Top.idx)
        /\ Top.mode # "replay" /\ suspendsChild(Call(Top).tool)
        /\ Top.turn \in HistTurns(Top.hist) \/ (Top.idx = Len(Top.turn) /\ Call(Top).id \in e)
    BY <1>2 DEF FrameH, Told, Held, Carries, OnACall
  <1>4. p.calls = Top.turn /\ p.idx = Top.idx /\ p # NoPending
    <2>1. Top.pend \in Pendings(tools, park.wrote)
      BY <1>2 DEF FrameType
    <2>2. p.calls = Top.pend.calls /\ p.idx = Top.pend.idx
      BY <2>1 DEF Pendings, NoPending
    <2>3. Top.idx # 0
      <3>1. Top.turn \in Turns(of)
        BY <1>2 DEF FrameX
      <3> QED
        BY <1>3, <3>1, RestOn
    <2>4. p.calls = Top.turn /\ p.idx = Top.idx
      BY <1>3, <2>2 DEF OnMarker
    <2> HIDE DEF p
    <2> QED
      BY <2>3, <2>4 DEF NoPending
  <1>5. g.hand = Top.hand /\ g.hist = Top.hist /\ g.pend = p /\ g.turn = Top.turn /\ g.idx = Top.idx
        /\ g.pc = "res" /\ g.mode = Top.mode /\ g.id = Top.id /\ g.note = Top.note
    BY <1>2 DEF Shaped, Fields
  <1> HIDE DEF p, g
  <1>6. /\ PendingCall(p) = Call(Top) /\ Call(g) = Call(Top) /\ Call(Top).tool # "ask" /\ ~IsFinish(Call(Top).tool)
    <2>1. PendingCall(p) = Call(Top) /\ Call(g) = Call(Top)
      BY <1>4, <1>5 DEF PendingCall, Call, Batch
    <2> QED
      BY <1>3, <2>1 DEF suspendsChild, IsFinish, CardOf
  <1>7. FrameH(g, e, park.question)
    <2>1. ~Between(g) /\ g.pc \in OnACall
      BY <1>5 DEF Between, LoopLabels, OnACall
    <2>2. Told(g) /\ Held(g, e)
      BY <1>3, <1>5, <1>6, <2>1 DEF Told, Held
    <2>3. Carries(g, e, park.question)
      BY <1>3, <1>4, <1>5, <1>6, <2>1 DEF Carries, OnMarker
    <2> QED
      BY <2>2, <2>3 DEF FrameH
  <1>8. park.question => rec.frozen /\ Unwinds(Top, park, rec) /\ park.ask # 0
    <2>1. park.question => Unwinds(Top, park, rec) /\ park.ask # 0
      BY <1>1, RunningH
    <2> QED
      BY <1>2, <2>1 DEF Unwinds, Asking
  <1>9. park.question => Unwinds(g, park, rec)
    BY <1>2, <1>5, <1>6, <1>8 DEF Unwinds
  <1>10. ~rec.frozen => SavedH(g, e) /\ LeafH(g, park.ask, park.role)
    <2> SUFFICES ASSUME ~rec.frozen PROVE SavedH(g, e) /\ LeafH(g, park.ask, park.role)
      OBVIOUS
    <2>1. park.ask = 0
      BY <1>1, <1>8, RunningH
    <2>2. Marked(g.hist, p) /\ Whole(g) /\ Backed(g.hist, p, e) /\ ChildCallOf(g)
      BY <1>3, <1>4, <1>5, <1>6 DEF Marked, Whole, MarkedRest, Backed, ChildCallOf, During, Done
    <2> QED
      BY <1>3, <1>5, <2>1, <2>2 DEF SavedH, LeafH
  <1>11. Moved(Top, g)
    BY <1>5 DEF Moved, Unreplayed
  <1> QED
    BY <1>1, <1>2, <1>5, <1>7, <1>9, <1>10, <1>11, MoveWriteH

\* A frame in another mode, with its marker or without one.
LEMMA ModeIs ==
  ASSUME NEW f, Shaped(f), NEW m, NEW g, g = [f EXCEPT !.mode = m]
  PROVE  /\ g.hand = f.hand /\ g.hist = f.hist /\ g.turn = f.turn /\ g.idx = f.idx /\ g.pc = f.pc /\ g.mode = m
         /\ g.id = f.id /\ g.note = f.note /\ g.pend = f.pend
  BY DEF Shaped, Fields

\* A frame whose call is answered: closing its turn after a finish, and settled otherwise.
LEMMA ClosingIs ==
  ASSUME NEW h, Shaped(h), NEW f, f = [h EXCEPT !.pc = "closing", !.idx = @ + 1]
  PROVE  /\ f.hand = h.hand /\ f.hist = h.hist /\ f.pend = h.pend /\ f.turn = h.turn /\ f.mode = h.mode
         /\ f.id = h.id /\ f.note = h.note /\ Shaped(f) /\ f.pc = "closing" /\ f.idx = h.idx + 1
  BY DEF Shaped, Fields

\* Nor does a result that is settled next.
LEMMA SettlesIs ==
  ASSUME NEW h, Shaped(h), NEW f, f = Goto(h, "settle")
  PROVE  /\ f.hand = h.hand /\ f.hist = h.hist /\ f.pend = h.pend /\ f.turn = h.turn /\ f.mode = h.mode
         /\ f.id = h.id /\ f.note = h.note /\ Shaped(f) /\ f.pc = "settle" /\ f.idx = h.idx
  BY DEF Shaped, Fields, Goto

\* A settled call, and a turn that is closed after its finish.
LEMMA SettledFrame ==
  ASSUME NEW e, NEW a, NEW f, FrameH(f, e, a), f.pc = "res", NEW g, g.pc = "settle",
         g.pend = f.pend, g.turn = f.turn, g.idx = f.idx, g.mode # "replay", Ordered(g.hist),
         HistTurns(g.hist) = HistTurns(f.hist), During(g.hist, f.turn, f.idx + 1),
         NEW more, e \subseteq more, Call(f).id \in more \/ a
  PROVE  FrameH(g, more, a)
  <1>1. ~Between(g) /\ g.pc \notin OnACall \cup {"disp", "closing", "end"}
    BY DEF Between, LoopLabels, OnACall
  <1>2. Call(g) = Call(f)
    BY DEF Call, Batch
  <1>3. f.pc \in OnACall
    BY DEF OnACall
  <1>4. Told(g)
    BY <1>1 DEF Told
  <1>5. Held(g, more)
    BY <1>1, <1>2, <1>3 DEF FrameH, Held
  <1>6. Carries(g, more, a)
    BY <1>1, <1>2, <1>3 DEF FrameH, Carries, OnMarker
  <1> QED
    BY <1>4, <1>5, <1>6 DEF FrameH

\* A frame that closes the rest of its turn owes the answers to what it has not closed.
LEMMA ClosingFrame ==
  ASSUME NEW e, NEW a, NEW g, g.pc = "closing", Ordered(g.hist), Answered(g.hist, Rest(g.turn, g.idx)),
         g.mode # "replay", g.pend.card # None => suspendsChild(PendingCall(g.pend).tool)
  PROVE  FrameH(g, e, a)
  <1>1. ~Between(g) /\ g.pc \notin OnACall \cup {"disp", "settle", "end"}
    BY DEF Between, LoopLabels, OnACall
  <1> QED
    BY <1>1 DEF FrameH, Told, Held, Carries, OnACall

\* The result of the question is the last message: its turn is in the history.
LEMMA AskIsTold ==
  ASSUME NEW S, NEW h \in Seq(S), NEW t, NEW i \in DOMAIN t, t \in HistTurns(h), NEW ask,
         t[i] = [id |-> ask, tool |-> "ask"], NEW val, NEW g, g = Append(h, ToolMessage(ask, val)),
         During(g, t, i + 1)
  PROVE  AskedIn(g, ask)
  <1> DEFINE x == ToolMessage(ask, val)
  <1>1. /\ Len(h) \in Nat /\ Len(g) = Len(h) + 1 /\ g[Len(h) + 1] = x
        /\ \A k \in DOMAIN h : k \in DOMAIN g /\ g[k] = h[k]
    BY Pushed
  <1>2. x.m = "tool" /\ x.id = ask
    BY DEF ToolMessage
  <1> HIDE DEF x
  <1>3. g # << >> /\ g[Len(g)].m = "tool" /\ g[Len(g)].id = ask
    <2>1. g[Len(g)] = x
      BY <1>1
    <2>2. Len(g) # 0
      BY <1>1
    <2> QED
      BY <1>2, <2>1, <2>2
  <1>4. PICK k \in DOMAIN h : h[k].m = "assistant" /\ h[k].calls = t
    BY DEF HistTurns
  <1>5. k \in DOMAIN g /\ g[k].m = "assistant" /\ g[k].calls = t
    BY <1>1, <1>4
  <1> QED
    BY <1>3, <1>5 DEF AskedIn

\* The log after a result: the call has ended, unless it is the open question's.
LEMMA ResultEnds ==
  ASSUME NEW tools, EngineInv(tools), NEW of, ExecInv(of), HistoryInv, recordToolResult
  PROVE  /\ TerminatedIn(log) \subseteq TerminatedIn(log') /\ jour'.ended \subseteq TerminatedIn(log')
         /\ Call(Top).id \in Ended(log') \/ park.question
  <1> DEFINE inv == Inv(Top)
             events == {Terminal(inv)} \cup (IF inv \in jour.started THEN {} ELSE {Start(inv)})
             silent == Call(Top).tool = "ask" \/ Top.mode = "replay"
  <1>1. /\ At("res")
        /\ silent \/ inv \in jour.ended => UNCHANGED <<log, jour>>
        /\ ~(silent \/ inv \in jour.ended) =>
             log' = Logged(log, events) /\ jour' = [started |-> jour.started \cup {inv}, ended |-> jour.ended \cup {inv}]
    BY DEF recordToolResult
  <1>2. Top.pc = "res" /\ FrameH(Top, Ended(log), park.question) /\ "res" \in OnACall
    BY <1>1, RunningH DEF OnACall
  <1>3. Call(Top).id \in Nat
    <2>1. Call(Top).id \in DOMAIN of
      BY <1>1, <1>2, OnCallX
    <2> QED
      BY <2>1 DEF ExecInv, EngineInv, UsedType
  <1>4. CASE silent \/ inv \in jour.ended
    <2>1. UNCHANGED <<log, jour>>
      BY <1>1, <1>4
    <2>2. silent => Call(Top).id \in Ended(log) \/ park.question
      BY <1>2 DEF FrameH, Carries
    <2>3. inv \in jour.ended => Call(Top).id \in Ended(log)
      BY <1>3 DEF HistoryInv, Ended, Inv
    <2> QED
      BY <1>4, <2>1, <2>2, <2>3, LogStands
  <1>5. CASE ~(silent \/ inv \in jour.ended)
    <2>1. log' = Logged(log, events) /\ jour'.ended = jour.ended \cup {inv} /\ Terminal(inv) \in events
      BY <1>1, <1>5
    <2> HIDE DEF events, silent
    <2> QED
      BY <1>1, <1>2, <2>1, EndsOwnCall
  <1> QED
    BY <1>4, <1>5

\* The result of a call is in the history; after a finish the calls that follow are closed.
LEMMA RecordToolResultH ==
  ASSUME NEW tools, EngineInv(tools), NEW of, ExecInv(of), HistoryInv, recordToolResult
  PROVE  HistoryInv'
  <1> DEFINE v == Top.val
             h == [Push(Top, ToolMessage(Call(Top).id, v)) EXCEPT !.calls = @ + 1]
             d == IsFinish(Call(Top).tool)
             f == IF d THEN [h EXCEPT !.pc = "closing", !.idx = @ + 1] ELSE Goto(h, "settle")
             g == CASE Top.mode = "child" -> [Onward(f) EXCEPT !.pend = NoPending, !.mode = "rest"]
                    [] Top.mode = "replay" -> [f EXCEPT !.mode = "reconcile"]
                    [] OTHER -> f
             e == Ended(log)
             m == Ended(log')
  <1>1. At("res") /\ UNCHANGED <<status, rec, park, disk>> /\ stack' = Put(g)
    BY DEF recordToolResult
  <1>2. /\ FrameX(Top, of) /\ Top.pc = "res" /\ Shaped(Top) /\ FrameH(Top, e, park.question) /\ "res" \in OnACall
        /\ park.question => Unwinds(Top, park, rec) /\ park.tracked
        /\ park.tracked => Unreplayed(Top)
    BY <1>1, RunningH DEF OnACall
  <1>3. Top.idx \in DOMAIN Top.turn /\ Top.turn \in Turns(of) /\ Top.idx \in Nat /\ Call(Top) = Top.turn[Top.idx]
    <2>1. Top.idx \in DOMAIN Top.turn
      BY <1>1, <1>2, OnCallX
    <2> QED
      BY <1>2, <2>1, NextCall DEF FrameX, Call, Batch
  <1>4. /\ TerminatedIn(log) \subseteq TerminatedIn(log') /\ jour'.ended \subseteq TerminatedIn(log')
        /\ Call(Top).id \in m \/ park.question
    BY ResultEnds
  <1>5. e \subseteq m
    BY <1>4 DEF Ended
  <1>0. h = [Push(Top, ToolMessage(Call(Top).id, v)) EXCEPT !.calls = @ + 1]
    OBVIOUS
  <1> HIDE DEF h
  <1>6. /\ Like(Top, h) /\ Shaped(h) /\ h.note = Top.note /\ Tells(Top.hist, h.hist, Top.turn, Top.idx)
        /\ h.hist = Append(Top.hist, ToolMessage(Call(Top).id, v))
    <2>1. Shaped(Top) /\ Top.turn \in Turns(of) /\ Top.idx \in DOMAIN Top.turn
      BY <1>2, <1>3
    <2> HIDE DEF v
    <2> QED
      BY <1>0, <2>1, AnswerFrame
  <1>7. d \in BOOLEAN /\ (Top.mode = "child" => ~d) /\ (park.question => ~d)
    BY <1>2 DEF FrameX, Unwinds, IsFinish
  <1>8. f = IF d THEN [h EXCEPT !.pc = "closing", !.idx = @ + 1] ELSE Goto(h, "settle")
    OBVIOUS
  <1>9. g = IF Top.mode = "child" THEN [Onward(f) EXCEPT !.pend = NoPending, !.mode = "rest"]
            ELSE IF Top.mode = "replay" THEN [f EXCEPT !.mode = "reconcile"] ELSE f
    OBVIOUS
  <1> HIDE DEF d, f, g, v
  <1>10. /\ f.hand = Top.hand /\ f.hist = h.hist /\ f.pend = Top.pend /\ f.turn = Top.turn /\ f.mode = Top.mode
         /\ f.id = Top.id /\ f.note = Top.note /\ Shaped(f)
         /\ d => f.pc = "closing" /\ f.idx = Top.idx + 1
         /\ ~d => f.pc = "settle" /\ f.idx = Top.idx
    <2>1. /\ f.hand = h.hand /\ f.hist = h.hist /\ f.pend = h.pend /\ f.turn = h.turn /\ f.mode = h.mode
          /\ f.id = h.id /\ f.note = h.note /\ Shaped(f)
          /\ d => f.pc = "closing" /\ f.idx = h.idx + 1
          /\ ~d => f.pc = "settle" /\ f.idx = h.idx
      <3>1. CASE d
        <4>1. f = [h EXCEPT !.pc = "closing", !.idx = @ + 1]
          BY <1>8, <3>1
        <4> QED
          BY <1>6, <3>1, <4>1, ClosingIs
      <3>2. CASE ~d
        <4>1. f = Goto(h, "settle")
          BY <1>8, <3>2
        <4> QED
          BY <1>6, <3>2, <4>1, SettlesIs
      <3> QED
        BY <3>1, <3>2
    <2> QED
      BY <1>6, <2>1 DEF Like, Keeps
  <1>11. /\ g.hand = Top.hand /\ g.hist = h.hist /\ g.turn = Top.turn /\ g.id = Top.id /\ g.note = Top.note
         /\ g.mode \notin {"child", "replay"}
         /\ g.mode = "reconcile" => Top.mode \in {"replay", "reconcile"}
         /\ IF Top.mode = "child" THEN g.pc = "disp" /\ g.idx = Top.idx + 1 /\ g.pend = NoPending
            ELSE g.pc = f.pc /\ g.idx = f.idx /\ g.pend = Top.pend
    <2>1. CASE Top.mode = "child"
      <3> DEFINE o == Onward(f)
      <3>1. /\ o.hand = f.hand /\ o.hist = f.hist /\ o.turn = f.turn /\ o.idx = f.idx + 1
            /\ o.pc = "disp" /\ o.id = f.id /\ o.note = f.note /\ Shaped(o)
        BY <1>10, OnwardIs
      <3>2. g = [o EXCEPT !.pend = NoPending, !.mode = "rest"]
        BY <1>9, <2>1
      <3> DEFINE w == "rest"
      <3>4. g = [o EXCEPT !.pend = NoPending, !.mode = w]
        BY <3>2
      <3> HIDE DEF o, w
      <3>3. /\ g.hand = o.hand /\ g.hist = o.hist /\ g.turn = o.turn /\ g.idx = o.idx /\ g.pc = o.pc /\ g.mode = "rest"
            /\ g.id = o.id /\ g.note = o.note /\ g.pend = NoPending
        <4>1. /\ g.hand = o.hand /\ g.hist = o.hist /\ g.turn = o.turn /\ g.idx = o.idx /\ g.pc = o.pc /\ g.mode = w
              /\ g.id = o.id /\ g.note = o.note /\ g.pend = NoPending
          <5>1. Shaped(o)
            BY <3>1
          <5> HIDE DEF e, m
          <5> QED
            BY <3>4, <5>1 DEF Shaped, Fields
        <4> QED
          BY <4>1 DEF w
      <3> QED
        BY <1>7, <1>10, <2>1, <3>1, <3>3
    <2>2. CASE Top.mode = "replay"
      <3> DEFINE w == "reconcile"
      <3>1. g = [f EXCEPT !.mode = w]
        BY <1>9, <2>2
      <3> HIDE DEF w
      <3>2. /\ g.hand = f.hand /\ g.hist = f.hist /\ g.turn = f.turn /\ g.idx = f.idx /\ g.pc = f.pc /\ g.mode = "reconcile"
            /\ g.id = f.id /\ g.note = f.note /\ g.pend = f.pend
        <4>1. /\ g.hand = f.hand /\ g.hist = f.hist /\ g.turn = f.turn /\ g.idx = f.idx /\ g.pc = f.pc /\ g.mode = w
              /\ g.id = f.id /\ g.note = f.note /\ g.pend = f.pend
          BY <1>10, <3>1, ModeIs
        <4> QED
          BY <4>1 DEF w
      <3> QED
        BY <1>10, <2>2, <3>2
    <2>3. CASE Top.mode \notin {"child", "replay"}
      <3>1. g = f
        BY <1>9, <2>3
      <3> QED
        BY <1>10, <2>3, <3>1
    <2> QED
      BY <2>1, <2>2, <2>3
  <1>12. /\ Ordered(h.hist) /\ HistTurns(h.hist) = HistTurns(Top.hist)
         /\ Answered(h.hist, Rest(Top.turn, Top.idx + 1))
         /\ ~d => During(h.hist, Top.turn, Top.idx + 1)
         /\ Top.pend.card # None => suspendsChild(PendingCall(Top.pend).tool)
         /\ Top.turn \in HistTurns(Top.hist) \/ Top.idx = Len(Top.turn)
    BY <1>2, <1>3, <1>6 DEF FrameH, Told, Held, Carries, Tells, Hears, During, d
  <1>13. FrameH(g, m, park.question)
    <2>1. CASE Top.mode = "child"
      <3>1. /\ g.pc = "disp" /\ Ordered(g.hist) /\ During(g.hist, g.turn, g.idx) /\ g.mode # "replay"
            /\ g.pend.card = None /\ Done(g.pend, m) /\ g.pend = NoPending
        BY <1>7, <1>11, <1>12, <2>1 DEF Done, NoPending
      <3>2. g.turn \in HistTurns(g.hist) \/ g.idx > Len(g.turn)
        BY <1>3, <1>11, <1>12, <2>1
      <3> QED
        BY <3>1, <3>2, NextFrame
    <2>2. CASE Top.mode # "child" /\ d
      BY <1>10, <1>11, <1>12, <2>2, ClosingFrame
    <2>3. CASE Top.mode # "child" /\ ~d
      <3>1. /\ g.pc = "settle" /\ g.pend = Top.pend /\ g.turn = Top.turn /\ g.idx = Top.idx /\ g.mode # "replay"
            /\ Ordered(g.hist) /\ HistTurns(g.hist) = HistTurns(Top.hist) /\ During(g.hist, Top.turn, Top.idx + 1)
        BY <1>10, <1>11, <1>12, <2>3
      <3> QED
        BY <1>2, <1>4, <1>5, <3>1, SettledFrame
    <2> QED
      BY <1>7, <2>1, <2>2, <2>3
  <1>14. park.question => Unwinds(g, park, rec)
    <2> SUFFICES ASSUME park.question PROVE Unwinds(g, park, rec)
      OBVIOUS
    <2>1. g.id = Top.id /\ g.pc \in {"settle", "disp", "top"} /\ g.mode # "child" /\ ~d
      BY <1>7, <1>10, <1>11
    <2>2. ~rec.frozen => AskedIn(g.hist, park.ask)
      <3> SUFFICES ASSUME ~rec.frozen PROVE AskedIn(g.hist, park.ask)
        OBVIOUS
      <3>1. Call(Top) = [id |-> park.ask, tool |-> "ask"] /\ Top.turn \in HistTurns(Top.hist)
        BY <1>2 DEF Unwinds, Asking
      <3>2. g.hist = Append(Top.hist, ToolMessage(park.ask, v)) /\ During(g.hist, Top.turn, Top.idx + 1)
        BY <1>6, <1>11, <1>12, <2>1, <3>1
      <3>3. PICK S : Top.hist \in Seq(S)
        BY <1>2 DEF Shaped
      <3>4. Top.turn[Top.idx] = [id |-> park.ask, tool |-> "ask"]
        BY <1>3, <3>1
      <3> QED
        BY <1>3, <3>1, <3>2, <3>3, <3>4, AskIsTold
    <2>3. ~rec.frozen /\ (g.pc = "top" \/ (g.pc = "disp" /\ g.idx > Len(g.turn))) => g.pend = NoPending
      BY <1>7, <1>10, <1>11
    <2>4. Unwinds(Top, park, rec) /\ Top.pc # "end"
      BY <1>2
    <2> QED
      BY <1>2, <2>1, <2>2, <2>3, <2>4, AsksOn
  <1>15. Moved(Top, g)
    <2>1. g.pc # "recon"
      BY <1>7, <1>10, <1>11
    <2> QED
      BY <1>11, <2>1 DEF Moved, Unreplayed
  <1>16. g.pc # "end"
    BY <1>7, <1>10, <1>11
  <1> QED
    BY <1>1, <1>4, <1>13, <1>14, <1>15, <1>16, PutMoveH

\* A call that was closed before is answered already.
LEMMA ClosedBefore ==
  ASSUME NEW of, NEW t \in Turns(of), NEW i \in DOMAIN t, NEW h, Ordered(h), Answered(h, Rest(t, i)), NEW val,
         ToolMessage(t[i].id, val) \in Range(h)
  PROVE  Answered(h, Rest(t, i + 1))
  <1>1. Rest(t, i) \ {t[i].id} \subseteq Rest(t, i + 1)
    BY RestOn
  <1>2. PICK j \in DOMAIN h : h[j].m = "tool" /\ h[j].id = t[i].id
    BY DEF Range, ToolMessage
  <1> SUFFICES ASSUME NEW k \in DOMAIN h, h[k].m = "assistant", NEW x \in CallIds(h[k].calls) \ Rest(t, i + 1)
               PROVE  \E n \in DOMAIN h : k < n /\ h[n].m = "tool" /\ h[n].id = x
    BY DEF Answered
  <1>3. CASE x = t[i].id
    BY <1>2, <1>3 DEF Ordered
  <1>4. CASE x # t[i].id
    BY <1>1, <1>4 DEF Answered
  <1> QED
    BY <1>3, <1>4

\* A call that was left unexecuted is closed, once.
LEMMA CloseUnexecutedCallsH ==
  ASSUME NEW tools, EngineInv(tools), NEW of, ExecInv(of), HistoryInv, closeUnexecutedCalls
  PROVE  HistoryInv'
  <1> DEFINE f == [Top EXCEPT !.idx = @ + 1]
             x == ToolMessage(Call(Top).id, "unexecuted")
             p == Push(f, x)
             g == [p EXCEPT !.calls = @ + 1]
             inv == Allocated(Call(Top))
             events == {Start(inv), Terminal(inv)}
             e == Ended(log)
  <1>1. /\ At("closing") /\ Top.idx <= Len(Batch(Top)) /\ UNCHANGED <<status, rec, park, disk>>
        /\ \/ stack' = Put(g) /\ log' = Logged(log, events)
              /\ jour' = [started |-> jour.started \cup {inv}, ended |-> jour.ended \cup {inv}]
           \/ ~Unanswered(Top) /\ stack' = Put(f) /\ UNCHANGED <<log, jour>>
    BY DEF closeUnexecutedCalls
  <1>2. /\ FrameX(Top, of) /\ Top.pc = "closing" /\ Shaped(Top) /\ FrameH(Top, e, park.question)
        /\ ~park.question
    <2>1. ~park.question
      BY <1>1, RunningH DEF Unwinds
    <2> QED
      BY <1>1, <2>1, RunningH
  <1>3. Top.idx \in DOMAIN Top.turn /\ Top.turn \in Turns(of) /\ Call(Top) = Top.turn[Top.idx]
    <2>1. Top.idx \in DOMAIN Top.turn /\ Call(Top) = Top.turn[Top.idx]
      BY <1>1, OnCallX
    <2> QED
      BY <1>2, <2>1 DEF FrameX
  <1>4. /\ Ordered(Top.hist) /\ Answered(Top.hist, Rest(Top.turn, Top.idx)) /\ Top.mode # "replay"
        /\ Top.pend.card # None => suspendsChild(PendingCall(Top.pend).tool)
    BY <1>2 DEF FrameH, Told, Carries
  <1>5. /\ f.hand = Top.hand /\ f.hist = Top.hist /\ f.turn = Top.turn /\ f.pend = Top.pend /\ f.id = Top.id
        /\ f.mode = Top.mode /\ f.pc = "closing" /\ f.idx = Top.idx + 1 /\ f.note = Top.note /\ Shaped(f)
    BY <1>2 DEF Shaped, Fields
  <1> HIDE DEF f
  <1>6. CASE /\ stack' = Put(g) /\ log' = Logged(log, events)
             /\ jour' = [started |-> jour.started \cup {inv}, ended |-> jour.ended \cup {inv}]
    <2>1. x.m # "assistant"
      BY DEF ToolMessage
    <2>2. PICK S : Top.hist \in Seq(S)
      BY <1>2 DEF Shaped
    <2>3. Tells(Top.hist, Append(Top.hist, x), Top.turn, Top.idx)
      BY <1>3, <2>2, AnswerTells
    <2> HIDE DEF x
    <2>4. /\ p.hand = f.hand /\ p.hist = Append(f.hist, x) /\ p.turn = f.turn /\ p.pend = f.pend /\ p.id = f.id
          /\ p.mode = f.mode /\ p.pc = f.pc /\ p.idx = f.idx /\ p.note = f.note /\ Shaped(p)
      <3>1. Like(f, p) /\ p.hist = Append(f.hist, x) /\ p.pc = f.pc
        BY <1>5, <2>1, PushLike
      <3>2. Shaped(p)
        BY <1>5, <3>1, LikeOn
      <3>3. p.note = f.note
        BY <1>5 DEF Push, Shaped, Fields
      <3> QED
        BY <3>1, <3>2, <3>3 DEF Like, Keeps
    <2> HIDE DEF p
    <2>5. /\ g.hand = p.hand /\ g.hist = p.hist /\ g.turn = p.turn /\ g.pend = p.pend /\ g.id = p.id
          /\ g.mode = p.mode /\ g.pc = p.pc /\ g.idx = p.idx /\ g.note = p.note
      BY <2>4 DEF Shaped, Fields
    <2> HIDE DEF g
    <2>6. Ordered(g.hist) /\ Answered(g.hist, Rest(g.turn, g.idx))
      BY <1>4, <1>5, <2>3, <2>4, <2>5 DEF Tells, Hears
    <2>7. FrameH(g, Ended(log'), park.question)
      BY <1>4, <1>5, <2>4, <2>5, <2>6, ClosingFrame
    <2>8. Moved(Top, g) /\ g.pc # "end"
      BY <1>5, <2>4, <2>5 DEF Moved, Unreplayed
    <2>9. TerminatedIn(log) \subseteq TerminatedIn(log') /\ jour'.ended \subseteq TerminatedIn(log')
      <3>1. Terminal(inv) \in events /\ jour'.ended = jour.ended \cup {inv}
        BY <1>6
      <3> HIDE DEF events, inv
      <3> QED
        BY <1>6, <3>1, LogsMore DEF HistoryInv
    <2> QED
      BY <1>1, <1>2, <1>6, <2>7, <2>8, <2>9, PutMoveH
  <1>7. CASE ~Unanswered(Top) /\ stack' = Put(f) /\ UNCHANGED <<log, jour>>
    <2>1. Answered(f.hist, Rest(f.turn, f.idx)) /\ Ordered(f.hist)
      <3>1. ToolMessage(Top.turn[Top.idx].id, "unexecuted") \in Range(Top.hist)
        BY <1>3, <1>7 DEF Unanswered
      <3> QED
        BY <1>3, <1>4, <1>5, <3>1, ClosedBefore
    <2>2. FrameH(f, Ended(log'), park.question)
      BY <1>4, <1>5, <2>1, ClosingFrame
    <2>3. Moved(Top, f) /\ f.pc # "end"
      BY <1>5 DEF Moved, Unreplayed
    <2>4. TerminatedIn(log) \subseteq TerminatedIn(log') /\ jour'.ended \subseteq TerminatedIn(log')
      BY <1>7, LogStands
    <2> QED
      BY <1>1, <1>2, <1>7, <2>2, <2>3, <2>4, PutMoveH
  <1> QED
    BY <1>1, <1>6, <1>7

\* The turn is answered in whole: it is on disk without a marker, and the role ends with
\* its card or goes on to hear a resume's note.
LEMMA FinishTurnH ==
  ASSUME NEW tools, EngineInv(tools), NEW of, ExecInv(of), HistoryInv, FinishTurn
  PROVE  HistoryInv'
  <1> DEFINE f == [Top EXCEPT !.pend = NoPending]
             h == Noted(f)
             g == IF f.mode = "reconcile" /\ f.note THEN LoopTop(h) ELSE EndWith(h, f.val)
             st == Put(f)
             c == Checkpoint("ordinary", rec, st, park)
             e == Ended(log)
             n == Len(stack)
             w == park.wrote
  <1>1. /\ At("closing") /\ Top.idx > Len(Batch(Top)) /\ UNCHANGED <<status, park, jour, log>> /\ stack' = Put(g)
        /\ IF Writable("ordinary", rec, stack)
           THEN disk' = c /\ rec' = [rec EXCEPT !.pre = PreInterlude("ordinary", rec, c)]
           ELSE UNCHANGED <<disk, rec>>
    BY DEF FinishTurn
  <1>2. /\ FrameX(Top, of) /\ Top.pc = "closing" /\ Shaped(Top) /\ FrameH(Top, e, park.question)
        /\ ~park.question /\ park.ask = 0 /\ ~rec.frozen /\ disk.ask = 0 /\ status = "running"
        /\ n \in Nat \ {0} /\ n \in DOMAIN stack /\ DOMAIN stack = 1 .. n /\ Top = stack[n]
    <2>1. ~park.question
      BY <1>1, RunningH DEF Unwinds
    <2>2. park.ask = 0 /\ ~rec.frozen /\ disk.ask = 0
      <3>1. disk.ask # 0 => park.question
        BY <1>1, RunningH
      <3> QED
        BY <1>1, <2>1, <3>1, RunningH
    <2> QED
      BY <1>1, <2>1, <2>2, RunningH
  <1>3. /\ Ordered(Top.hist) /\ Answered(Top.hist, {}) /\ Top.mode # "replay" /\ Answered(Top.hist, Rest(Top.turn, Top.idx))
    <2>1. Top.idx \in Nat /\ DOMAIN Top.turn = 1 .. Len(Top.turn) /\ Len(Top.turn) \in Nat
      BY <1>2 DEF FrameX, Turns
    <2>2. Rest(Top.turn, Top.idx) = {}
      BY <1>1, <2>1, NothingLeft DEF Batch
    <2> QED
      BY <1>2, <2>2 DEF FrameH, Told, Carries
  <1>4. /\ f.hand = Top.hand /\ f.pend = NoPending /\ f.hist = Top.hist /\ f.turn = Top.turn /\ f.idx = Top.idx
        /\ f.pc = "closing" /\ f.mode = Top.mode /\ f.id = Top.id /\ f.note = Top.note /\ f.val = Top.val /\ Shaped(f)
    <2>1. f = [Top EXCEPT !.pend = NoPending] /\ Shaped(Top)
      BY <1>2
    <2> HIDE DEF f
    <2>2. /\ f.hand = Top.hand /\ f.pend = NoPending /\ f.hist = Top.hist /\ f.turn = Top.turn /\ f.idx = Top.idx
          /\ f.pc = Top.pc /\ f.mode = Top.mode /\ f.id = Top.id /\ f.note = Top.note /\ f.val = Top.val /\ Shaped(f)
      BY <2>1, PendIs
    <2> QED
      BY <1>2, <2>2
  <1>5. StackOK(st, tools, w)
    <2>1. /\ stack # << >> /\ Top \in FrameType(tools, w) /\ Placed(Top, w) /\ StackOK(stack, tools, w)
      BY <1>1, Running
    <2>2. f \in FrameType(tools, w)
      BY <2>1, ClearedType
    <2> HIDE DEF f
    <2>3. f \in Frames(tools, w)
      BY <1>2, <1>4, <2>1, <2>2 DEF Frames, Placed, OnACall, OnMarkedCall, OnHarmlessCall
    <2> QED
      BY <1>4, <2>1, <2>3, PutOK
  <1> HIDE DEF f
  <1>6. /\ Like(f, h) /\ Shaped(h) /\ h.note = FALSE /\ h.pend = f.pend /\ h.id = f.id /\ h.hand = f.hand /\ h.mode = f.mode
    BY <1>4, NotedIs
  <1> HIDE DEF h
  <1>7. /\ g.hand = Top.hand /\ g.pend = NoPending /\ g.hist = h.hist /\ g.pc \in {"top", "end"} /\ g.id = Top.id
        /\ g.note = FALSE /\ g.mode \in {"live", Top.mode}
    <2>1. CASE g = LoopTop(h)
      <3>1. /\ g.hand = h.hand /\ g.pend = h.pend /\ g.hist = h.hist /\ g.pc = "top" /\ g.mode = "live"
            /\ g.id = h.id /\ g.note = h.note
        BY <1>6, <2>1, LoopTopIs
      <3> HIDE DEF g
      <3> QED
        BY <1>4, <1>6, <3>1
    <2>2. CASE g = EndWith(h, f.val)
      <3>1. /\ g.hand = h.hand /\ g.pend = h.pend /\ g.hist = h.hist /\ g.pc = "end" /\ g.mode = h.mode
            /\ g.id = h.id /\ g.note = h.note
        BY <1>6, <2>2 DEF EndWith, Shaped, Fields
      <3> HIDE DEF g
      <3> QED
        BY <1>4, <1>6, <3>1
    <2> QED
      BY <2>1, <2>2
  <1> HIDE DEF g
  <1>8. FrameH(g, e, park.question)
    <2>1. Ordered(g.hist) /\ Answered(g.hist, {})
      BY <1>3, <1>4, <1>6, <1>7 DEF Like, Hears
    <2>2. g.pc \in LoopLabels \cup {"end"} /\ g.mode # "replay"
      BY <1>3, <1>7 DEF LoopLabels
    <2>3. Marked(g.hist, g.pend) /\ Done(g.pend, e) /\ g.pend.card = None /\ g.pend = NoPending
      BY <1>7 DEF Marked, Done, NoPending
    <2> QED
      BY <2>1, <2>2, <2>3, RestingFrame
  <1>9. Moved(Top, g) /\ Moved(Top, f)
    BY <1>2, <1>4, <1>7 DEF Moved, Unreplayed
  <1>10. Steps(stack, stack') /\ stack'[n] = g /\ Steps(stack, st) /\ st[n] = f
    BY <1>1, <1>9, PutSteps
  <1>11. /\ c.frames = WorkFrames(st) /\ c.ask = 0 /\ c.counter = rec.counter
    BY <1>2 DEF Checkpoint
  <1> HIDE DEF c, st
  <1>12. DiskH(c, e)
    <2>1. FrameH(f, e, park.question)
      <3>1. f.mode # "replay" /\ Ordered(f.hist) /\ Answered(f.hist, Rest(f.turn, f.idx)) /\ f.pend.card = None
        BY <1>3, <1>4 DEF NoPending
      <3> QED
        BY <1>4, <3>1, ClosingFrame
    <2>2. FramesH(st, e, park.question)
      <3>1. \A k \in DOMAIN stack : k # n => FrameH(st[k], e, park.question)
        BY <1>10, StayFrame DEF HistoryInv, FramesH, Steps, Stays
      <3> QED
        BY <1>10, <2>1, <3>1 DEF FramesH, Steps
    <2>3. Numbered(st, c.counter)
      <3>1. \A k \in DOMAIN stack : st[k].id = stack[k].id
        BY <1>10, StaysMoved DEF Steps, Moved
      <3>2. Numbered(stack, rec.counter)
        BY DEF HistoryInv
      <3> QED
        BY <1>10, <1>11, <3>1, <3>2 DEF Numbered, Steps
    <2>4. \A k \in DOMAIN st : k = Len(st) /\ ~st[k].hand => SavedH(st[k], e) /\ LeafH(st[k], c.ask, c.askRole)
      <3>1. SavedH(f, e) /\ LeafH(f, 0, c.askRole)
        BY <1>3, <1>4, ClosedSaves
      <3>2. Len(st) = n
        BY <1>10 DEF Steps
      <3> QED
        BY <1>10, <1>11, <3>1, <3>2
    <2> QED
      BY <1>5, <1>11, <2>2, <2>3, <2>4, SavesH
  <1>13. /\ rec'.counter = rec.counter /\ rec'.suspended = rec.suspended /\ rec'.paused = rec.paused
         /\ rec'.frozen = rec.frozen
    <2>1. RecOK(rec, tools, w)
      BY <1>1, Running
    <2> QED
      BY <1>1, <2>1 DEF RecOK
  <1>14. disk' = c \/ disk' = disk
    BY <1>1
  <1>15. DiskH(disk, e) /\ disk.counter <= rec.counter /\ rec.counter \in Nat
    BY <1>2 DEF HistoryInv, StatusH, EngineInv, RecOK
  <1>16. Settles(stack', rec', disk')
    <2> SUFFICES ASSUME NEW k \in DOMAIN stack', k = 1, k = Len(stack')
                 PROVE  Unmarked(disk') /\ stack'[k].pend = NoPending
      BY DEF Settles
    <2>1. n = 1 /\ stack'[1] = g
      BY <1>10 DEF Steps
    <2>2. ~Top.hand
      BY <1>2, <2>1 DEF HistoryInv, StatusH
    <2>3. Writable("ordinary", rec, stack)
      BY <1>2, <2>1, <2>2 DEF Writable, HasHandler
    <2>4. disk' = c
      BY <1>1, <2>3
    <2>5. WorkFrames(st)[1] = serializeFrame(f) /\ Len(WorkFrames(st)) = 1
      <3>1. Len(st) = 1 /\ DOMAIN st = DOMAIN stack /\ st[1] = f
        BY <1>10, <2>1 DEF Steps
      <3>2. PICK m \in 0 .. Len(st) : /\ WorkFrames(st) = [i \in 1 .. m |-> serializeFrame(st[i])]
                                      /\ Len(WorkFrames(st)) = m /\ DOMAIN WorkFrames(st) = 1 .. m
                                      /\ \A i \in DOMAIN st : i > m => st[i].hand
        BY <1>5, WorkFramesAre
      <3>3. m = 1
        <4>1. 1 \in DOMAIN st /\ ~st[1].hand
          BY <1>2, <1>4, <2>1, <2>2, <3>1
        <4>2. ~(1 > m) /\ m \in 0 .. 1
          BY <3>1, <3>2, <4>1
        <4> QED
          BY <4>2
      <3> QED
        BY <3>1, <3>2, <3>3
    <2>6. LeafOf(c).pend = NoPending /\ c.frames # << >>
      <3>1. serializeFrame(f).pend = NoPending
        BY <1>4 DEF serializeFrame
      <3>2. c.frames[Len(c.frames)] = serializeFrame(f) /\ c.frames # << >>
        <4>1. Len(c.frames) = 1 /\ c.frames[1] = serializeFrame(f)
          BY <1>11, <2>5
        <4>2. c.frames # << >>
          BY <4>1
        <4> QED
          BY <4>1, <4>2
      <3> QED
        BY <3>1, <3>2 DEF LeafOf
    <2> QED
      BY <1>7, <1>11, <2>1, <2>4, <2>6 DEF Unmarked
  <1>17. TerminatedIn(log) \subseteq TerminatedIn(log') /\ jour'.ended \subseteq TerminatedIn(log')
    BY <1>1, LogStands
  <1>18. DiskH(disk', Ended(log')) /\ disk'.counter <= rec.counter /\ disk'.ask = 0
    BY <1>1, <1>2, <1>11, <1>12, <1>14, <1>15
  <1>19. SamePark(park, park') /\ status' = status /\ FrameH(g, Ended(log'), park.question) /\ ~rec'.frozen
    BY <1>1, <1>2, <1>8, <1>13 DEF SamePark
  <1> HIDE DEF n, e
  <1> QED
    BY <1>1, <1>2, <1>10, <1>13, <1>16, <1>17, <1>18, <1>19, StepH DEF n

\* A resumed call is replayed from the log, or dispatched again in a turn the history has.
LEMMA ReconcileH ==
  ASSUME NEW tools, EngineInv(tools), NEW of, ExecInv(of), HistoryInv, reconcilePendingInvocation
  PROVE  HistoryInv'
  <1> DEFINE v == ReplayedValue(Call(Top).tool)
             q == "replay"
             t == "reconcile"
             i == "start"
             s == Settled(Top, v)
             r == Goto(Top, i)
             a == [s EXCEPT !.mode = q]
             b == [r EXCEPT !.mode = t]
             e == Ended(log)
  <1>1. /\ At("recon") /\ UNCHANGED <<status, rec, park, disk, log, jour>>
        /\ \/ Inv(Top) \in TerminatedIn(log) /\ stack' = Put(a)
           \/ Inv(Top) \notin TerminatedIn(log) /\ stack' = Put(b)
    BY DEF reconcilePendingInvocation
  <1>2. /\ Top.pc = "recon" /\ Shaped(Top) /\ FrameH(Top, e, park.question) /\ ~park.question /\ ~Unreplayed(Top)
        /\ "recon" \in OnACall
    <2>1. ~park.question
      BY <1>1, RunningH DEF Unwinding
    <2> QED
      BY <1>1, <2>1, RunningH DEF Unreplayed, OnACall
  <1>3. Call(Top).id \in Nat
    BY <1>1, OnCallX DEF OnACall
  <1>4. Inv(Top) \in TerminatedIn(log) <=> Call(Top).id \in e
    BY <1>3 DEF Ended, Inv
  <1> HIDE DEF v, e, q, t, i
  <1>5. Like(Top, s) /\ Shaped(s) /\ s.pc = "res" /\ s.hist = Top.hist
    BY <1>2, SettledLike
  <1>6. Like(Top, r) /\ Shaped(r) /\ r.pc = "start" /\ r.hist = Top.hist
    <2>1. Like(Top, r) /\ Shaped(r) /\ r.pc = i /\ r.hist = Top.hist
      BY <1>2, GoHist
    <2> QED
      BY <2>1 DEF i
  <1> HIDE DEF s, r
  <1>7. /\ a.hand = s.hand /\ a.hist = s.hist /\ a.turn = s.turn /\ a.idx = s.idx /\ a.pc = s.pc /\ a.mode = q
        /\ a.id = s.id /\ a.pend = s.pend
    BY <1>5, ModeIs
  <1>8. /\ b.hand = r.hand /\ b.hist = r.hist /\ b.turn = r.turn /\ b.idx = r.idx /\ b.pc = r.pc /\ b.mode = t
        /\ b.id = r.id /\ b.pend = r.pend
    BY <1>6, ModeIs
  <1> HIDE DEF a, b
  <1>9. ASSUME NEW g, g.hand = Top.hand, g.hist = Top.hist, g.turn = Top.turn, g.idx = Top.idx, g.pend = Top.pend,
               g.id = Top.id, stack' = Put(g),
               \/ g.pc = "res" /\ g.mode = "replay" /\ Call(Top).id \in e
               \/ g.pc = "start" /\ g.mode = "reconcile" /\ Call(Top).id \notin e
        PROVE  HistoryInv'
    <2>1. /\ g.pc \in OnACall \cap {"res", "start"} /\ ~Between(g) /\ Call(g) = Call(Top)
          /\ g.pc \notin {"disp", "settle", "closing", "end", "wait", "carded", "recon"}
      BY <1>9 DEF OnACall, Between, LoopLabels, Call, Batch
    <2>2. Told(g)
      BY <1>2, <1>9, <2>1 DEF FrameH, Told
    <2>3. Held(g, e)
      BY <1>2, <1>9, <2>1 DEF FrameH, Held
    <2>4. Carries(g, e, park.question)
      BY <1>2, <1>9, <2>1 DEF FrameH, Carries, OnMarker
    <2>5. FrameH(g, Ended(log'), park.question)
      <3>1. FrameH(g, e, park.question)
        BY <2>2, <2>3, <2>4 DEF FrameH
      <3> QED
        BY <1>1, <3>1 DEF e
    <2>6. Moved(Top, g)
      BY <1>2, <1>9 DEF Moved
    <2>7. TerminatedIn(log) \subseteq TerminatedIn(log') /\ jour'.ended \subseteq TerminatedIn(log')
      BY <1>1, LogStands
    <2> QED
      BY <1>1, <1>2, <1>9, <2>1, <2>5, <2>6, <2>7, PutMoveH
  <1>10. CASE Inv(Top) \in TerminatedIn(log) /\ stack' = Put(a)
    <2>1. /\ a.hand = Top.hand /\ a.hist = Top.hist /\ a.turn = Top.turn /\ a.idx = Top.idx /\ a.pend = Top.pend
          /\ a.id = Top.id /\ a.pc = "res" /\ a.mode = "replay" /\ Call(Top).id \in e
      BY <1>4, <1>5, <1>7, <1>10 DEF Like, Keeps, q
    <2> QED
      BY <1>9, <1>10, <2>1
  <1>11. CASE Inv(Top) \notin TerminatedIn(log) /\ stack' = Put(b)
    <2>1. /\ b.hand = Top.hand /\ b.hist = Top.hist /\ b.turn = Top.turn /\ b.idx = Top.idx /\ b.pend = Top.pend
          /\ b.id = Top.id /\ b.pc = "start" /\ b.mode = "reconcile" /\ Call(Top).id \notin e
      BY <1>4, <1>6, <1>8, <1>11 DEF Like, Keeps, t
    <2> QED
      BY <1>9, <1>11, <2>1
  <1> QED
    BY <1>1, <1>10, <1>11

\* A frame with a message more.
LEMMA PushIs ==
  ASSUME NEW f, Shaped(f), NEW x, NEW p, p = Push(f, x)
  PROVE  /\ Shaped(p) /\ p.hist = Append(f.hist, x) /\ p.pend = f.pend /\ p.turn = f.turn /\ p.idx = f.idx
         /\ p.mode = f.mode /\ p.id = f.id /\ p.hand = f.hand /\ p.note = f.note /\ p.pc = f.pc
  <1>1. PICK S : f.hist \in Seq(S)
    BY DEF Shaped
  <1>2. /\ p.hist = Append(f.hist, x) /\ p.pend = f.pend /\ p.turn = f.turn /\ p.idx = f.idx
        /\ p.mode = f.mode /\ p.id = f.id /\ p.hand = f.hand /\ p.note = f.note /\ p.pc = f.pc
        /\ DOMAIN p = DOMAIN f
    BY DEF Push, Shaped, Fields
  <1>3. Append(f.hist, x) \in Seq(S \cup {x})
    BY <1>1
  <1>4. \E T : p.hist \in Seq(T)
    BY <1>2, <1>3
  <1> QED
    BY <1>2, <1>4 DEF Shaped

\* The calls of a reply are answered by nothing in a history of calls asked for before.
LEMMA FreshCalls ==
  ASSUME NEW tools, NEW w, NEW h \in Seq(Messages(tools, w)), tools \in Seq(STRING),
         NEW calls, \A k \in DOMAIN calls : k \in Nat \ {0} /\ calls[k].id = Len(tools) + k
  PROVE  \A j \in DOMAIN h : h[j].m = "tool" => h[j].id \notin CallIds(calls)
  <1> SUFFICES ASSUME NEW j \in DOMAIN h, h[j].m = "tool", NEW k \in DOMAIN calls, h[j].id = calls[k].id
               PROVE  FALSE
    BY DEF CallIds
  <1>1. h[j] \in Messages(tools, w)
    OBVIOUS
  <1>2. h[j].id \in DOMAIN tools
    BY <1>1 DEF Messages, Answers
  <1>3. h[j].id \in 1 .. Len(tools) /\ Len(tools) \in Nat
    BY <1>2
  <1> QED
    BY <1>3

\* A reply is a turn that is in the history and all still to be answered, or the role's end.
LEMMA ModelRepliesH ==
  ASSUME NEW tools, EngineInv(tools), NEW of, ExecInv(of), HistoryInv, ModelReplies
  PROVE  HistoryInv'
  <1>1. At("llm") /\ UNCHANGED <<status, rec, park, jour, log, disk>>
    BY DEF ModelReplies
  <1>2. PICK b \in Offered(Top), pressed \in BOOLEAN :
          LET calls == [k \in DOMAIN b |-> [id |-> used.tools + k, tool |-> b[k]]]
              f == [Push(Top, Turn(calls)) EXCEPT !.tries = 0, !.press = IF pressed THEN "pending" ELSE @]
          IN stack' = Put(IF b = << >> THEN EndWith(f, "success")
                          ELSE [f EXCEPT !.pc = "disp", !.turn = calls, !.idx = 1, !.mode = "live"])
    BY DEF ModelReplies
  <1> DEFINE calls == [k \in DOMAIN b |-> [id |-> used.tools + k, tool |-> b[k]]]
             x == Turn(calls)
             s == IF pressed THEN "pending" ELSE Push(Top, x).press
             f == [Push(Top, x) EXCEPT !.tries = 0, !.press = s]
             g == [f EXCEPT !.pc = "disp", !.turn = calls, !.idx = 1, !.mode = "live"]
             h == EndWith(f, "success")
             e == Ended(log)
  <1>3. (b # << >> /\ stack' = Put(g)) \/ (b = << >> /\ stack' = Put(h))
    BY <1>2
  <1>4. /\ Top.pc = "llm" /\ Shaped(Top) /\ FrameH(Top, e, park.question) /\ ~park.question
        /\ Top.hist \in Seq(Messages(tools, park.wrote))
    <2>1. ~park.question
      BY <1>1, RunningH DEF Unwinding
    <2>2. Top \in FrameType(tools, park.wrote)
      BY <1>1, RunningH
    <2>3. Top.hist \in Seq(Messages(tools, park.wrote))
      BY <2>2 DEF FrameType
    <2> QED
      BY <1>1, <2>1, <2>3, RunningH
  <1>5. b \in Seq(STRING)
    <2>1. b \in Batches \/ b \in HandlerBatches
      BY DEF Offered
    <2> QED
      BY <2>1, EngineBounds
  <1>6. /\ DOMAIN calls = 1 .. Len(b) /\ Len(b) \in Nat /\ (b = << >> <=> Len(b) = 0)
        /\ \A k \in DOMAIN calls : k \in Nat \ {0} /\ calls[k].id = Len(tools) + k
    <2>1. used.tools = Len(tools)
      BY DEF EngineInv
    <2> QED
      BY <1>5, <2>1
  <1>7. Len(calls) = Len(b) /\ (b = << >> <=> calls = << >>)
    <2>1. calls = [k \in 1 .. Len(b) |-> [id |-> used.tools + k, tool |-> b[k]]]
      BY <1>5
    <2>2. Len(calls) = Len(b)
      BY <1>6, <2>1
    <2>3. b = << >> => calls = << >>
      BY <1>6, <2>1
    <2> QED
      BY <1>6, <2>2, <2>3
  <1>8. \A j \in DOMAIN Top.hist : Top.hist[j].m = "tool" => Top.hist[j].id \notin CallIds(calls)
    <2>1. tools \in Seq(STRING)
      BY DEF EngineInv
    <2> HIDE DEF calls
    <2> QED
      BY <1>4, <1>6, <2>1, FreshCalls
  <1> HIDE DEF calls
  <1>9. Ordered(Top.hist) /\ Answered(Top.hist, {}) /\ Marked(Top.hist, Top.pend) /\ Done(Top.pend, e)
        /\ (Top.pend # NoPending => Top.pend.idx = Len(Top.pend.calls)) /\ Top.mode # "replay"
        /\ (Top.pend.card # None => suspendsChild(PendingCall(Top.pend).tool))
    <2>1. Between(Top)
      BY <1>4 DEF Between, LoopLabels
    <2> QED
      BY <1>4, <2>1 DEF FrameH, Told, Carries
  <1>10. /\ Ordered(Append(Top.hist, x)) /\ Answered(Append(Top.hist, x), CallIds(calls))
         /\ calls \in HistTurns(Append(Top.hist, x))
         /\ calls # << >> => LastIs(Append(Top.hist, x), calls)
         /\ calls = << >> => \A t : LastIs(Top.hist, t) => LastIs(Append(Top.hist, x), t)
    <2> DEFINE S == Messages(tools, park.wrote)
    <2>1. Top.hist \in Seq(S)
      BY <1>4
    <2> HIDE DEF S, e
    <2> QED
      BY <2>1, <1>8, <1>9, PushesTurn
  <1>11. /\ Shaped(f) /\ f.hist = Append(Top.hist, x) /\ f.pend = Top.pend /\ f.turn = Top.turn /\ f.idx = Top.idx
         /\ f.mode = Top.mode /\ f.id = Top.id /\ f.hand = Top.hand /\ f.note = Top.note
    <2> DEFINE p == Push(Top, x)
    <2>1. p = Push(Top, x) /\ Shaped(Top) /\ f = [p EXCEPT !.tries = 0, !.press = s]
      BY <1>4
    <2> HIDE DEF p, x, f, s, e
    <2>2. /\ Shaped(p) /\ p.hist = Append(Top.hist, x) /\ p.pend = Top.pend /\ p.turn = Top.turn /\ p.idx = Top.idx
          /\ p.mode = Top.mode /\ p.id = Top.id /\ p.hand = Top.hand /\ p.note = Top.note
      BY <2>1, PushIs
    <2>3. /\ Shaped(f) /\ f.hist = p.hist /\ f.pend = p.pend /\ f.turn = p.turn /\ f.idx = p.idx
          /\ f.mode = p.mode /\ f.id = p.id /\ f.hand = p.hand /\ f.note = p.note
      BY <2>1, <2>2 DEF Shaped, Fields
    <2> QED
      BY <2>2, <2>3
  <1> HIDE DEF f, x
  <1>12. CASE b # << >> /\ stack' = Put(g)
    <2>1. /\ g.hist = f.hist /\ g.pend = f.pend /\ g.turn = calls /\ g.idx = 1 /\ g.mode = "live" /\ g.pc = "disp"
          /\ g.id = f.id /\ g.hand = f.hand /\ g.note = f.note
      BY <1>11 DEF Shaped, Fields
    <2> HIDE DEF g
    <2>2. During(g.hist, g.turn, g.idx)
      <3>1. CallIds(calls) \subseteq Rest(calls, 1)
        BY <1>6 DEF CallIds, Rest
      <3>2. Answered(g.hist, Rest(calls, 1))
        BY <1>10, <1>11, <2>1, <3>1, AnsweredMore
      <3>3. NoFinish(calls, 1, 1)
        BY <1>6 DEF NoFinish
      <3>4. LastIs(g.hist, calls)
        BY <1>7, <1>10, <1>11, <1>12, <2>1
      <3> QED
        BY <2>1, <3>2, <3>3, <3>4 DEF During
    <2>3. g.turn \in HistTurns(g.hist) /\ g.idx <= Len(g.turn)
      BY <1>6, <1>7, <1>10, <1>11, <1>12, <2>1
    <2>4. FrameH(g, e, park.question)
      BY <1>9, <1>10, <1>11, <2>1, <2>2, <2>3, NextFrame
    <2>5. FrameH(g, Ended(log'), park.question)
      BY <1>1, <2>4
    <2>6. Moved(Top, g)
      BY <1>11, <2>1 DEF Moved, Unreplayed
    <2>7. TerminatedIn(log) \subseteq TerminatedIn(log') /\ jour'.ended \subseteq TerminatedIn(log')
      BY <1>1, LogStands
    <2> QED
      BY <1>1, <1>4, <1>12, <2>1, <2>5, <2>6, <2>7, PutMoveH
  <1>13. CASE b = << >> /\ stack' = Put(h)
    <2>1. /\ h.hist = f.hist /\ h.pend = f.pend /\ h.mode = f.mode /\ h.pc = "end" /\ h.val = "success"
          /\ h.id = f.id /\ h.hand = f.hand /\ h.note = f.note
      BY <1>11 DEF EndWith, Shaped, Fields
    <2> HIDE DEF h
    <2>2. calls = << >> /\ CallIds(calls) = {}
      BY <1>7, <1>13, NoTurn
    <2>3. Answered(h.hist, {}) /\ Ordered(h.hist) /\ Marked(h.hist, h.pend)
      BY <1>9, <1>10, <1>11, <2>1, <2>2 DEF Marked
    <2>4. FrameH(h, e, park.question)
      BY <1>9, <1>11, <2>1, <2>3, RestingFrame
    <2>5. FrameH(h, Ended(log'), park.question)
      BY <1>1, <2>4
    <2>6. Moved(Top, h)
      BY <1>4, <1>11, <2>1 DEF Moved, Unreplayed
    <2>7. TerminatedIn(log) \subseteq TerminatedIn(log') /\ jour'.ended \subseteq TerminatedIn(log')
      BY <1>1, LogStands
    <2> QED
      BY <1>1, <1>4, <1>13, <2>1, <2>5, <2>6, <2>7, PutMoveH DEF Final
  <1> QED
    BY <1>3, <1>12, <1>13

-----------------------------------------------------------------------------
(* The end of a role and of the run.                                       *)

\* The frame a card is delivered to goes on with it.
GoesOn(f, g) ==
  /\ Like(f, g) /\ g.hist = f.hist /\ g.hand = f.hand /\ g.id = f.id /\ g.pend = f.pend
  /\ f.pc = "wait" => g.pc = "carded"
  /\ f.pc = "wait handler" => g.pc = "handled"
AwaitsCard(f) == Shaped(f) /\ f.pc \in {"wait", "wait handler"}

\* A frame that receives the card it waits for goes on with it.
LEMMA DeliveredLike ==
  ASSUME NEW f, AwaitsCard(f), NEW card, NEW g, g = Delivered(f, card)
  PROVE  GoesOn(f, g)
  <1>0. Shaped(f) /\ f.pc \in {"wait", "wait handler"}
    BY DEF AwaitsCard
  <1> DEFINE p == IF f.pc = "wait" THEN "carded" ELSE "handled"
             h == [f EXCEPT !.val = card]
             d == [h EXCEPT !.pc = p]
  <1>1. g = d
    BY <1>0 DEF Delivered, Shaped, Fields
  <1>2. (f.pc = "wait" => p = "carded") /\ (f.pc = "wait handler" => p = "handled")
    OBVIOUS
  <1>3. Like(f, h) /\ h.hist = f.hist /\ h.hand = f.hand /\ h.id = f.id /\ h.pend = f.pend
    <2>1. Like(f, h)
      BY <1>0, FieldLike
    <2> QED
      BY <1>0, <2>1 DEF Shaped, Fields
  <1> HIDE DEF p, h
  <1>4. Shaped(h)
    BY <1>3, LikeOn
  <1>5. Like(h, d) /\ d.hist = h.hist /\ d.hand = h.hand /\ d.id = h.id /\ d.pend = h.pend /\ d.pc = p
    <2>1. Like(h, d)
      BY <1>4, FieldLike
    <2> QED
      BY <1>4, <2>1 DEF Shaped, Fields
  <1> HIDE DEF d
  <1>6. Like(f, d)
    BY <1>3, <1>5, LikeOn
  <1> QED
    BY <1>0, <1>1, <1>2, <1>3, <1>5, <1>6 DEF GoesOn

\* The card of a child or a handler goes on to the frame below.
LEMMA EndChildH ==
  ASSUME NEW tools, EngineInv(tools), NEW of, ExecInv(of), HistoryInv, EndChild
  PROVE  HistoryInv'
  <1> DEFINE n == Len(stack)
             m == n - 1
             nt == PoppedStack(stack, m, Top.val)
             d == Delivered(stack[m], Top.val)
             ends == RoleTerminal(Top)
             events == {Terminal(i) : i \in ends}
             e == Ended(log)
             more == Ended(log')
  <1>1. /\ At("end") /\ UNCHANGED <<status, rec, park, disk>> /\ n > 1
        /\ log' = Logged(log, events) /\ jour' = [jour EXCEPT !.ended = @ \cup ends]
    BY DEF EndChild
  <1>2. /\ n \in Nat /\ n \in DOMAIN stack /\ DOMAIN stack = 1 .. n
        /\ status = "running"
        /\ park.question => Unwinds(Top, park, rec)
        /\ Top.pc = "end"
        /\ disk.ask # 0 => park.question /\ disk.ask = park.ask
    <2>1. disk.ask # 0 => park.question /\ disk.ask = park.ask
      BY <1>1, RunningH
    <2> QED
      BY <1>1, <2>1, RunningH
  <1>3. \A k \in DOMAIN stack : Shaped(stack[k]) /\ (k # n => stack[k].pc \in {"wait", "wait handler"})
    BY <1>1, AllShaped, RunningX
  <1>4. m \in Nat /\ m # 0 /\ n = m + 1 /\ m \in DOMAIN stack /\ m # n /\ DOMAIN stack = 1 .. m + 1
    <2>1. n \in Nat /\ n > 1 /\ DOMAIN stack = 1 .. n
      BY <1>1, <1>2
    <2> HIDE DEF n
    <2>2. n - 1 \in Nat /\ n - 1 # 0 /\ n = (n - 1) + 1 /\ n - 1 \in 1 .. n /\ n - 1 # n
      BY <2>1
    <2> QED
      BY <2>1, <2>2
  <1>5. /\ DOMAIN nt = 1 .. m /\ Len(Front(stack)) = m
        /\ \A k \in 1 .. m : nt[k] = IF k = m THEN d ELSE stack[k]
    <2>1. stack \in Seq(Frames(tools, park.wrote))
      BY DEF EngineInv, StackOK
    <2> HIDE DEF m
    <2> QED
      BY <1>4, <2>1, PoppedX
  <1>6. stack' = nt
    BY <1>5 DEF EndChild, PoppedStack
  <1>7. Len(nt) = m
    <2>1. stack \in Seq(Frames(tools, park.wrote))
      BY DEF EngineInv, StackOK
    <2>2. Front(stack) = SubSeq(stack, 1, n - 1)
      BY DEF Front
    <2>3. Front(stack) \in Seq(Frames(tools, park.wrote)) /\ Len(Front(stack)) = m
      <3>1. SubSeq(stack, 1, n - 1) \in Seq(Frames(tools, park.wrote))
        <4>1. \A k \in 1 .. n - 1 : stack[k] \in Frames(tools, park.wrote)
          <5> HIDE DEF n, m, nt
          <5>1. \A k \in DOMAIN stack : stack[k] \in Frames(tools, park.wrote)
            BY <2>1
          <5>2. 1 .. n - 1 \subseteq DOMAIN stack
            BY <1>2
          <5> QED
            BY <5>1, <5>2
        <4> QED
          BY <2>1, <4>1, SubSeqProperties
      <3> QED
        BY <1>5, <2>2, <3>1
    <2>4. \E b : nt = [Front(stack) EXCEPT ![m] = b]
      BY DEF PoppedStack
    <2> HIDE DEF n, m, nt
    <2>5. PICK b : nt = [Front(stack) EXCEPT ![m] = b]
      BY <2>4
    <2>6. Front(stack) \in Seq(Frames(tools, park.wrote) \cup {b})
      BY <2>3
    <2> QED
      BY <2>3, <2>5, <2>6
  <1> HIDE DEF nt
  <1>8. /\ Like(stack[m], d) /\ d.hist = stack[m].hist /\ d.hand = stack[m].hand /\ d.id = stack[m].id
        /\ stack[m].pc = "wait" => d.pc = "carded"
        /\ stack[m].pc = "wait handler" => d.pc = "handled"
    <2>1. Shaped(stack[m]) /\ stack[m].pc \in {"wait", "wait handler"}
      BY <1>3, <1>4
    <2>2. d = Delivered(stack[m], Top.val)
      OBVIOUS
    <2> DEFINE card == Top.val
               f == stack[m]
    <2>3. d = Delivered(f, card) /\ AwaitsCard(f)
      BY <2>1, <2>2 DEF AwaitsCard
    <2> HIDE DEF m, d, f, card
    <2>4. GoesOn(f, d)
      BY <2>3, DeliveredLike
    <2> QED
      BY <2>4 DEF GoesOn, f
  <1> HIDE DEF d
  <1>9. TerminatedIn(log) \subseteq TerminatedIn(log') /\ jour'.ended \subseteq TerminatedIn(log')
    <2>1. jour'.ended = jour.ended \cup ends \/ jour'.ended = jour.ended
      BY <1>1
    <2>2. \A i \in ends : Terminal(i) \in events
      OBVIOUS
    <2> HIDE DEF events, ends
    <2> QED
      BY <1>1, <2>1, <2>2, LogsMore DEF HistoryInv
  <1>10. e \subseteq more
    BY <1>9 DEF Ended
  <1> HIDE DEF n, m, e, more
  <1>11. \A k \in DOMAIN stack : FrameH(stack[k], e, park.question)
    BY DEF HistoryInv, FramesH, e
  <1>12. FrameH(d, more, park.question)
    <2>1. FrameH(stack[m], e, park.question) /\ stack[m].pc \in {"wait", "wait handler"}
      BY <1>3, <1>4, <1>11
    <2>2. CASE stack[m].pc = "wait"
      <3>1. suspendsChild(Call(stack[m]).tool)
        BY <2>1, <2>2 DEF FrameH, Carries
      <3> QED
        BY <1>8, <1>10, <2>1, <2>2, <3>1, WithinFrame
    <2>3. CASE stack[m].pc = "wait handler"
      <3>1. stack[m].pc \in LoopLabels /\ d.pc \in LoopLabels \cup {"end"}
        BY <1>8, <2>3 DEF LoopLabels
      <3>2. FrameH(d, e, park.question)
        BY <1>8, <2>1, <3>1, LoopFrame
      <3> QED
        BY <1>10, <3>2, MoreEnded
    <2> QED
      BY <2>1, <2>2, <2>3
  <1>13. \A k \in 1 .. m : k # m => k \in DOMAIN stack /\ k # n /\ nt[k] = stack[k]
    BY <1>4, <1>5
  <1>14. nt[m] = d /\ m \in 1 .. m
    BY <1>4, <1>5
  <1>15. FramesH(stack', Ended(log'), park'.question)
    <2>1. \A k \in 1 .. m : k # m => FrameH(nt[k], more, park.question)
      BY <1>10, <1>11, <1>13, MoreEnded
    <2> QED
      BY <1>1, <1>5, <1>6, <1>12, <1>14, <2>1 DEF FramesH, more
  <1>16. \A k \in 1 .. m : k \in DOMAIN stack /\ nt[k].id = stack[k].id /\ nt[k].hand = stack[k].hand
    BY <1>4, <1>8, <1>13, <1>14
  <1>17. Numbered(stack', rec'.counter)
    BY <1>1, <1>5, <1>6, <1>16 DEF HistoryInv, Numbered
  <1>18. DiskH(disk', Ended(log'))
    <2>1. DiskH(disk, e)
      BY DEF HistoryInv, e
    <2> QED
      BY <1>1, <1>10, <2>1, DiskMore DEF more
  <1>19. ParkH(park', rec', stack', disk')
    <2>1. ParkH(park, rec, stack, disk)
      BY DEF HistoryInv
    <2>2. d.pc \in {"carded", "handled"} /\ (Unreplayed(stack[m]) => Unreplayed(d))
      <3>1. d.pc \in {"carded", "handled"}
        BY <1>3, <1>4, <1>8
      <3> QED
        BY <1>8, <3>1 DEF Like, Keeps, Unreplayed
    <2>3. ASSUME park.tracked, NEW k \in 1 .. m PROVE Unreplayed(nt[k])
      BY <1>13, <1>14, <1>16, <2>1, <2>2, <2>3 DEF ParkH
    <2>4. ASSUME park.question
          PROVE  park.tracked /\ \A k \in 1 .. m : IF k = m THEN Unwinds(nt[k], park, rec) ELSE nt[k].id # park.role
      <3>1. rec.frozen
        BY <1>2, <2>4 DEF Unwinds, Asking
      <3>2. \A k \in DOMAIN stack : k # n => stack[k].id # park.role
        BY <2>1, <2>4 DEF ParkH, n
      <3>3. Unwinds(d, park, rec)
        <4>1. d.id # park.role
          BY <1>4, <1>8, <3>2
        <4> QED
          BY <2>2, <3>1, <4>1 DEF Unwinds
      <3> QED
        BY <1>13, <1>14, <2>1, <2>4, <3>2, <3>3 DEF ParkH
    <2> QED
      BY <1>1, <1>5, <1>6, <1>7, <2>1, <2>3, <2>4 DEF ParkH
  <1>20. StatusH(status', stack', rec', park', disk')
    <2>1. StatusH(status, stack, rec, park, disk)
      BY DEF HistoryInv
    <2>2. stack' # << >> /\ ~stack'[1].hand
      <3>1. 1 \in 1 .. m
        BY <1>4
      <3>2. stack' # << >>
        BY <1>5, <1>6, <3>1
      <3> QED
        BY <1>2, <1>6, <1>16, <2>1, <3>1, <3>2 DEF StatusH
    <2>3. Settles(stack', rec', disk')
      <3>1. nt[m].pc # "end"
        BY <1>3, <1>4, <1>8, <1>14
      <3> QED
        BY <1>6, <1>7, <3>1 DEF Settles
    <2> QED
      BY <1>1, <1>2, <2>1, <2>2, <2>3 DEF StatusH
  <1> QED
    BY <1>9, <1>15, <1>17, <1>18, <1>19, <1>20 DEF HistoryInv

\* The root's card settles the run: one that asks for clarification leaves no marker, and
\* neither an error nor a success leaves a question.
LEMMA EndRootH ==
  ASSUME NEW tools, EngineInv(tools), NEW of, ExecInv(of), HistoryInv, EndRoot
  PROVE  HistoryInv'
  <1> DEFINE v == Top.val
             e == Ended(log)
             more == Ended(log')
             c == Checkpoint("ordinary", rec, stack, park)
             writes == v \notin {"success", "park"} /\ park.ask = 0 /\ completedFinishCard(Top.hist) # None
  <1>1. /\ At("end") /\ Len(stack) = 1 /\ disk' = (IF writes THEN c ELSE disk)
        /\ log' = Logged(log, {Terminal(i) : i \in RoleTerminal(Top)})
        /\ status' = Outcome(v) /\ Forget
    BY DEF EndRoot
  <1>2. /\ status = "running" /\ DOMAIN stack = {1} /\ Top = stack[1] /\ Top.pc = "end"
        /\ FrameH(Top, e, park.question)
        /\ park.question => v = "park"
        /\ disk.ask # 0 => park.question /\ disk.ask = park.ask
        /\ rec.frozen => park.question
        /\ ~park.question => park.ask = 0
    <2>1. /\ status = "running" /\ DOMAIN stack = 1 .. Len(stack) /\ Top = stack[Len(stack)] /\ Top.pc = "end"
          /\ FrameH(Top, e, park.question) /\ (rec.frozen => park.question) /\ (~park.question => park.ask = 0)
      BY <1>1, RunningH
    <2>2. park.question => v = "park"
      <3>1. park.question => Unwinds(Top, park, rec)
        BY <1>1, RunningH
      <3> QED
        BY <2>1, <3>1 DEF Unwinds
    <2>3. disk.ask # 0 => park.question /\ disk.ask = park.ask
      BY <1>1, RunningH
    <2> QED
      BY <1>1, <2>1, <2>2, <2>3
  <1>3. /\ StatusH(status, stack, rec, park, disk) /\ DiskH(disk, e) /\ ParkH(park, rec, stack, disk)
        /\ FramesH(stack, e, park.question) /\ Numbered(stack, rec.counter)
    BY DEF HistoryInv
  <1>4. e \subseteq more
    <2> DEFINE events == {Terminal(i) : i \in RoleTerminal(Top)}
    <2>1. log' = Logged(log, events)
      BY <1>1
    <2> HIDE DEF events
    <2>2. TerminatedIn(log) \subseteq TerminatedIn(log')
      BY <2>1, LogsMore
    <2> QED
      BY <2>2 DEF Ended
  <1>5. c.ask = park.ask /\ c.counter = rec.counter /\ c.frames = WorkFrames(stack)
    BY DEF Checkpoint
  <1>6. ~stack[1].hand /\ Settles(stack, rec, disk)
    BY <1>2, <1>3 DEF StatusH
  <1>7. v \notin Final => rec.frozen \/ (Unmarked(disk) /\ Top.pend = NoPending)
    BY <1>1, <1>2, <1>6 DEF Settles, Final
  <1> HIDE DEF c, e, more
  <1>8. writes => DiskH(c, e)
    <2> SUFFICES ASSUME writes PROVE DiskH(c, e)
      OBVIOUS
    <2>1. StackOK(stack, tools, park.wrote)
      BY DEF EngineInv
    <2>2. Between(Top) /\ c.ask = 0
      BY <1>2, <1>5 DEF Between
    <2>3. SavedH(Top, e) /\ LeafH(Top, 0, c.askRole)
      BY <1>2, <2>2, LoopSaves
    <2> QED
      BY <1>2, <1>3, <1>5, <2>1, <2>2, <2>3, SavesH
  <1>9. DiskH(disk', more)
    <2>1. DiskH(disk', e)
      BY <1>1, <1>3, <1>8
    <2> QED
      BY <1>4, <2>1, DiskMore
  <1>10. writes => c.frames # << >> /\ LeafOf(c).pend = Top.pend
    <2>1. StackOK(stack, tools, park.wrote)
      BY DEF EngineInv
    <2>2. PICK m \in 0 .. Len(stack) :
             /\ WorkFrames(stack) = [k \in 1 .. m |-> serializeFrame(stack[k])]
             /\ Len(WorkFrames(stack)) = m /\ DOMAIN WorkFrames(stack) = 1 .. m
             /\ \A k \in DOMAIN stack : stack[k].hand \/ ~(k > m)
      BY <2>1, WorkFramesAre
    <2>3. m = 1
      BY <1>1, <1>2, <1>6, <2>2
    <2>4. Len(c.frames) = 1 /\ c.frames[1] = serializeFrame(stack[1]) /\ DOMAIN c.frames = 1 .. 1
      BY <1>5, <2>2, <2>3
    <2> QED
      BY <1>2, <2>4 DEF LeafOf, serializeFrame
  <1> HIDE DEF v
  <1>11. v \in Final => disk'.ask = 0
    BY <1>1, <1>2, <1>5 DEF Final
  <1>12. v \notin Final /\ disk'.ask = 0 => LeafOf(disk').pend = NoPending
    <2> SUFFICES ASSUME v \notin Final, disk'.ask = 0 PROVE LeafOf(disk').pend = NoPending
      OBVIOUS
    <2>1. CASE rec.frozen
      <3>1. park.ask # 0 /\ disk.ask = park.ask
        BY <1>2, <1>3, <2>1 DEF ParkH
      <3> QED
        BY <1>1, <3>1
    <2>2. CASE ~rec.frozen
      BY <1>1, <1>7, <1>10, <2>2 DEF Unmarked
    <2> QED
      BY <2>1, <2>2
  <1>13. /\ status' \notin {"running", "new", "suspended", "paused"}
         /\ status' = "error" => v \in Final
         /\ status' \in {"parked", "clarify"} => v \notin Final
    <2>1. status' = Outcome(v)
      BY <1>1
    <2>2. CASE v = "success"
      BY <2>1, <2>2 DEF Outcome, Final
    <2>3. CASE v \in {"error", "interrupted"}
      BY <2>1, <2>3 DEF Outcome, Final
    <2>4. CASE v = "park"
      BY <2>1, <2>4 DEF Outcome, Final
    <2>5. CASE v \notin {"success", "error", "interrupted", "park"}
      BY <2>1, <2>5 DEF Outcome, Final
    <2> QED
      BY <2>2, <2>3, <2>4, <2>5
  <1> QED
    BY <1>1, <1>9, <1>11, <1>12, <1>13, ForgetH DEF more

\* A run that is done has no checkpoint left.
LEMMA DeleteCheckpointH ==
  ASSUME HistoryInv, DeleteCheckpoint
  PROVE  HistoryInv'
  <1>1. status = "finishing" /\ status' = "done" /\ disk' = NoCheckpoint /\ UNCHANGED <<stack, rec, park, jour, log>>
    BY DEF DeleteCheckpoint, volatile
  <1>2. /\ FramesH(stack', Ended(log'), park'.question) /\ Numbered(stack', rec'.counter)
        /\ jour'.ended \subseteq TerminatedIn(log')
    BY <1>1 DEF HistoryInv
  <1>3. StatusH(status, stack, rec, park, disk) /\ ParkH(park, rec, stack, disk)
    BY DEF HistoryInv
  <1>4. stack = << >> /\ rec = NewRec(0) /\ park = NewPark
    BY <1>1, <1>3 DEF StatusH
  <1>5. disk'.frames = << >> /\ disk'.ask = 0 /\ disk'.counter = 0 /\ DOMAIN disk'.frames = {}
    BY <1>1 DEF NoCheckpoint
  <1>6. DiskH(disk', Ended(log'))
    BY <1>5 DEF DiskH, Numbered
  <1>7. ParkH(park', rec', stack', disk')
    BY <1>1, <1>3, <1>4 DEF ParkH, NewRec
  <1>8. StatusH(status', stack', rec', park', disk')
    BY <1>1, <1>4 DEF StatusH, NewRec
  <1> QED
    BY <1>2, <1>6, <1>7, <1>8 DEF HistoryInv

\* What says nothing of histories.
LEMMA SameH ==
  ASSUME HistoryInv, UNCHANGED <<status, stack, rec, park, jour, log, disk>>
  PROVE  HistoryInv'
  BY DEF HistoryInv

\* A run that is settled another way, where it stands.
LEMMA SettledAnotherWay ==
  ASSUME HistoryInv, status \notin {"running", "new"}, status' \notin {"running", "new", "error"},
         status' \in {"suspended", "paused"} => disk.ask = 0,
         status' = "parked" => disk.ask # 0, status' # "clarify",
         UNCHANGED <<stack, rec, park, jour, log, disk>>
  PROVE  HistoryInv'
  <1>1. StatusH(status, stack, rec, park, disk)
    BY DEF HistoryInv
  <1>2. StatusH(status', stack', rec', park', disk')
    BY <1>1 DEF StatusH
  <1> QED
    BY <1>2 DEF HistoryInv

\* A boot classifies the checkpoint and leaves it as it is.
LEMMA BootFindsH ==
  ASSUME HistoryInv, BootFinds
  PROVE  HistoryInv'
  <1>1. /\ status = "crashed" /\ UNCHANGED <<stack, rec, park, jour, log, disk>>
        /\ \/ status' = "lost"
           \/ disk.suspended /\ status' = "suspended"
           \/ disk.paused /\ status' = "paused"
           \/ ~disk.suspended /\ ~disk.paused /\ status' = "parked" /\ disk.ask # 0
    BY DEF BootFinds, volatile
  <1>2. disk.ask # 0 => ~disk.paused /\ ~disk.suspended
    BY DEF HistoryInv, DiskH
  <1> QED
    BY <1>1, <1>2, SettledAnotherWay

\* A run whose resume is refused is gone.
LEMMA ResumeRefusedH ==
  ASSUME HistoryInv, ResumeRefused
  PROVE  HistoryInv'
  <1>1. /\ status \in {"suspended", "paused", "parked", "clarify"} /\ status' = "lost"
        /\ UNCHANGED <<stack, rec, park, jour, log, disk>>
    BY DEF ResumeRefused, volatile
  <1> QED
    BY <1>1, SettledAnotherWay

\* A crash leaves what was written last.
LEMMA CrashH ==
  ASSUME HistoryInv, Crash
  PROVE  HistoryInv'
  <1>1. status' = "crashed" /\ Forget /\ UNCHANGED <<log, disk>>
    BY DEF Crash
  <1>2. DiskH(disk', Ended(log'))
    BY <1>1 DEF HistoryInv
  <1> QED
    BY <1>1, <1>2, ForgetH

-----------------------------------------------------------------------------
(* The resumes.                                                            *)

\* A frame read back from disk.
LEMMA RestoredH ==
  ASSUME NEW tools, NEW w, NEW s \in SavedType(tools, w)
  PROVE  /\ Shaped(Restored(s)) /\ Restored(s).hand = FALSE /\ Restored(s).hist = s.hist
         /\ Restored(s).pend = s.pend /\ Restored(s).pc = "top" /\ Restored(s).mode = "live"
         /\ Restored(s).id = s.id /\ Restored(s).note = FALSE
  <1>1. Restored(s).id = s.id /\ Restored(s).note = FALSE
    BY DEF Restored, Frame
  <1> QED
    BY <1>1, RestoredShape

\* A frame on the call its marker names.
LEMMA MarkerFrame ==
  ASSUME NEW tools, NEW w, NEW s \in SavedType(tools, w), NEW e, SavedH(s, e), Whole(s), s.pend # NoPending,
         NEW f, f.hist = s.hist, f.pend = s.pend, f.turn = s.pend.calls, f.idx = s.pend.idx, f.mode # "replay",
         f.pc \in {"wait", "carded", "recon"},
         f.pc = "wait" => s.pend.calls \in HistTurns(s.hist),
         f.pc \in {"wait", "recon"} => s.pend.card = None,
         s.pend.card # None => ChildCallOf(s),
         f.pc \in {"wait", "carded"} => ChildCallOf(s)
  PROVE  FrameH(f, e, FALSE)
  <1>1. f.pc \in OnACall /\ ~Between(f) /\ f.pc \notin {"disp", "settle", "closing", "start", "exec", "asking", "res", "end"}
    BY DEF OnACall, Between, LoopLabels
  <1>2. f.idx \in DOMAIN f.turn
    BY DEF SavedType, Pendings
  <1>3. Call(f) = PendingCall(s.pend)
    BY DEF Call, Batch, PendingCall
  <1>4. During(f.hist, f.turn, f.idx) /\ Ordered(f.hist)
    BY DEF SavedH, Marked, Whole, MarkedRest, During
  <1>5. Told(f)
    BY <1>1, <1>4 DEF Told
  <1>6. Held(f, e)
    <2>1. f.pc = "wait" \/ s.pend.calls \in HistTurns(s.hist) \/ (s.pend.idx = Len(s.pend.calls) /\ Done(s.pend, e))
      BY DEF SavedH, Backed
    <2> QED
      BY <1>1, <1>3, <2>1 DEF Held, Done
  <1>7. Carries(f, e, FALSE)
    <2>1. OnMarker(f)
      BY DEF OnMarker
    <2>2. f.pend.card # None => suspendsChild(PendingCall(f.pend).tool)
      BY DEF ChildCallOf
    <2>3. f.pc \in {"wait", "carded"} => suspendsChild(Call(f).tool)
      BY <1>3 DEF ChildCallOf
    <2> QED
      BY <1>1, <1>2, <2>1, <2>2, <2>3 DEF Carries
  <1> QED
    BY <1>5, <1>6, <1>7 DEF FrameH

\* A parent waits for the child its marker names.
LEMMA ResumedParentH ==
  ASSUME NEW tools, NEW w, NEW s \in SavedType(tools, w), NEW e, SavedH(s, e), ParentH(s),
         NEW g, g = ResumedParent(s)
  PROVE  FrameH(g, e, FALSE) /\ g.id = s.id /\ ~g.hand /\ Unreplayed(g)
  <1> DEFINE r == Restored(s)
             f == [r EXCEPT !.turn = s.pend.calls, !.idx = s.pend.idx, !.pc = "wait", !.mode = "child"]
  <1>1. Shaped(r) /\ r.hand = FALSE /\ r.hist = s.hist /\ r.pend = s.pend /\ r.id = s.id /\ r.note = FALSE
    BY RestoredH
  <1>2. g = f
    BY DEF ResumedParent
  <1> HIDE DEF r
  <1>3. /\ g.hist = s.hist /\ g.pend = s.pend /\ g.turn = s.pend.calls /\ g.idx = s.pend.idx
        /\ g.pc = "wait" /\ g.mode = "child" /\ g.id = s.id /\ g.hand = FALSE /\ g.note = FALSE
    BY <1>1, <1>2 DEF Shaped, Fields
  <1> HIDE DEF f
  <1>4. /\ Whole(s) /\ s.pend # NoPending /\ s.pend.calls \in HistTurns(s.hist) /\ s.pend.card = None
        /\ ChildCallOf(s) /\ g.mode # "replay" /\ g.pc \in {"wait", "carded", "recon"}
    BY <1>3 DEF ParentH, ChildCallOf
  <1>5. FrameH(g, e, FALSE)
    BY <1>3, <1>4, MarkerFrame
  <1> QED
    BY <1>3, <1>5 DEF Unreplayed

\* The leaf goes on at its marker, at the top of its loop, or ends with the card it had.
ResumesAs(l, s, note, e) ==
  /\ FrameH(l, e, FALSE) /\ l.id = s.id /\ ~l.hand
  /\ ~note /\ s.pend = NoPending => Unreplayed(l)
  /\ l.pc = "end" => s.pend = NoPending /\ l.pend = NoPending

\* The leaf of a resumed stack.
LEMMA ResumedLeafH ==
  ASSUME NEW tools, NEW w, NEW s \in SavedType(tools, w), NEW e, SavedH(s, e), Whole(s),
         s.pend.card # None => ChildCallOf(s), NEW note \in BOOLEAN, NEW explicit,
         NEW l, l = ResumedLeaf(s, note, explicit)
  PROVE  ResumesAs(l, s, note, e)
  <1> DEFINE r == Restored(s)
             f == [r EXCEPT !.turn = s.pend.calls, !.idx = s.pend.idx, !.note = note]
             c == [f EXCEPT !.pc = "carded", !.val = s.pend.card, !.mode = "child"]
             card == completedFinishCard(s.hist)
  <1>1. /\ Shaped(r) /\ r.hand = FALSE /\ r.hist = s.hist /\ r.pend = s.pend /\ r.pc = "top" /\ r.mode = "live"
        /\ r.id = s.id
    BY RestoredH
  <1>2. \/ l = c /\ s.pend.card # None
        \/ l = Goto(f, "recon") /\ s.pend # NoPending /\ s.pend.card = None
        \/ s.pend = NoPending /\ (l = EndWith(f, card) \/ l = Noted(f))
    <2>1. CASE s.pend.card # None
      BY <2>1 DEF ResumedLeaf
    <2>2. CASE s.pend.card = None /\ s.pend # NoPending
      BY <2>2 DEF ResumedLeaf
    <2>3. CASE s.pend.card = None /\ s.pend = NoPending
      BY <2>3 DEF ResumedLeaf
    <2> QED
      BY <2>1, <2>2, <2>3
  <1> HIDE DEF r
  <1>3. /\ Shaped(f) /\ f.hand = FALSE /\ f.hist = s.hist /\ f.pend = s.pend /\ f.turn = s.pend.calls
        /\ f.idx = s.pend.idx /\ f.pc = "top" /\ f.mode = "live" /\ f.id = s.id /\ f.note = note
    BY <1>1 DEF Shaped, Fields
  <1> HIDE DEF f, card
  <1>4. CASE l = c /\ s.pend.card # None
    <2>1. /\ l.hand = FALSE /\ l.hist = s.hist /\ l.pend = s.pend /\ l.turn = s.pend.calls /\ l.idx = s.pend.idx
          /\ l.pc = "carded" /\ l.mode = "child" /\ l.id = s.id
      BY <1>3, <1>4 DEF Shaped, Fields
    <2>2. /\ ChildCallOf(s) /\ s.pend # NoPending /\ l.mode # "replay" /\ l.pc \in {"wait", "carded", "recon"}
          /\ l.pc # "wait" /\ l.pc \notin {"wait", "recon"}
      BY <1>4, <2>1 DEF ChildCallOf
    <2>3. FrameH(l, e, FALSE)
      BY <2>1, <2>2, MarkerFrame
    <2> QED
      BY <1>4, <2>1, <2>2, <2>3 DEF ResumesAs, NoPending, ChildCallOf
  <1>5. CASE l = Goto(f, "recon") /\ s.pend # NoPending /\ s.pend.card = None
    <2>1. /\ l.hand = FALSE /\ l.hist = s.hist /\ l.pend = s.pend /\ l.turn = s.pend.calls /\ l.idx = s.pend.idx
          /\ l.pc = "recon" /\ l.mode = "live" /\ l.id = s.id
      BY <1>3, <1>5 DEF Goto, Shaped, Fields
    <2>2. /\ l.mode # "replay" /\ l.pc \in {"wait", "carded", "recon"} /\ l.pc # "wait"
          /\ l.pc \notin {"wait", "carded"} /\ l.pc # "end"
      BY <2>1
    <2>3. FrameH(l, e, FALSE)
      BY <1>5, <2>1, <2>2, MarkerFrame
    <2> QED
      BY <1>5, <2>1, <2>2, <2>3 DEF ResumesAs
  <1>6. CASE s.pend = NoPending /\ (l = EndWith(f, card) \/ l = Noted(f))
    <2>1. Rest(s.pend.calls, s.pend.idx) = {}
      BY <1>6 DEF Rest, NoPending
    <2>2. Ordered(f.hist) /\ Answered(f.hist, {})
      BY <1>3, <2>1 DEF SavedH, Whole, MarkedRest
    <2>3. FrameH(f, e, FALSE)
      <3>1. f.pc \in LoopLabels
        BY <1>3 DEF LoopLabels
      <3>2. f.pend = NoPending /\ f.pend.card = None /\ f.mode # "replay"
        BY <1>3, <1>6 DEF NoPending
      <3> QED
        BY <2>2, <3>1, <3>2, RestingFrame DEF Marked, Done
    <2>4. Like(f, l) /\ l.pc \in {"top", "end"} /\ (l.pc = "end" \/ l.note = FALSE)
      <3>1. CASE l = EndWith(f, card)
        BY <1>3, <3>1, EndLike
      <3>2. CASE l = Noted(f)
        BY <1>3, <3>2, NotedIs
      <3> QED
        BY <1>6, <3>1, <3>2
    <2>5. f.pc \in LoopLabels /\ l.pc \in LoopLabels \cup {"end"}
      BY <1>3, <2>4 DEF LoopLabels
    <2>6. FrameH(l, e, FALSE)
      BY <2>3, <2>4, <2>5, LoopFrame
    <2>7. l.id = s.id /\ l.hand = FALSE /\ l.pend = s.pend /\ l.mode = "live"
      BY <1>3, <2>4 DEF Like, Keeps
    <2>8. ~note => Unreplayed(l)
      <3>1. ~note => ~l.note
        BY <1>3, <2>4 DEF Like
      <3>2. l.pc # "recon"
        BY <2>4
      <3> QED
        BY <2>7, <3>1, <3>2 DEF Unreplayed
    <2> QED
      BY <1>6, <2>6, <2>7, <2>8 DEF ResumesAs
  <1> QED
    BY <1>2, <1>4, <1>5, <1>6

\* The operator's answer takes the place of the question's: no other answer, and no turn, is
\* lost.
Replaced(h, n, ask, val) == [h EXCEPT ![n] = ToolMessage(ask, val)]

\* Replacing an answer by another one to the same call loses nothing.
LEMMA ReplacedHears ==
  ASSUME NEW S, NEW h \in Seq(S), NEW n \in DOMAIN h, NEW ask, h[n].m = "tool", h[n].id = ask, NEW val,
         NEW g, g = Replaced(h, n, ask, val)
  PROVE  Hears(h, g) /\ HistTurns(g) = HistTurns(h)
  <1> DEFINE x == ToolMessage(ask, val)
  <1>1. x.m = "tool" /\ x.id = ask
    BY DEF ToolMessage
  <1>2. DOMAIN g = DOMAIN h /\ \A i \in DOMAIN h : g[i] = IF i = n THEN x ELSE h[i]
    BY DEF Replaced
  <1> HIDE DEF x
  <1>3. \A i \in DOMAIN h : /\ h[i].m = "assistant" <=> g[i].m = "assistant"
                            /\ h[i].m = "assistant" => g[i].calls = h[i].calls
                            /\ h[i].m = "tool" <=> g[i].m = "tool"
                            /\ h[i].m = "tool" => g[i].id = h[i].id
    BY <1>1, <1>2
  <1>4. Ordered(h) => Ordered(g)
    <2> SUFFICES ASSUME Ordered(h), NEW i \in DOMAIN h, NEW k \in DOMAIN h, g[i].m = "assistant", g[k].m = "tool",
                        g[k].id \in CallIds(g[i].calls)
                 PROVE  i < k
      BY <1>2 DEF Ordered
    <2> QED
      BY <1>3 DEF Ordered
  <1>5. \A out : Answered(h, out) => Answered(g, out)
    <2> SUFFICES ASSUME NEW out, Answered(h, out), NEW i \in DOMAIN h, h[i].m = "assistant", NEW y \in CallIds(h[i].calls) \ out
                 PROVE  \E k \in DOMAIN h : i < k /\ g[k].m = "tool" /\ g[k].id = y
      BY <1>2, <1>3 DEF Answered
    <2>1. PICK k \in DOMAIN h : i < k /\ h[k].m = "tool" /\ h[k].id = y
      BY DEF Answered
    <2> QED
      BY <1>3, <2>1
  <1>6. \A i \in DOMAIN h : (IsTurn(g[i]) <=> IsTurn(h[i])) /\ (IsTurn(h[i]) => g[i].calls = h[i].calls)
    BY <1>3 DEF IsTurn
  <1>7. \A t : LastIs(h, t) => LastIs(g, t)
    <2>1. ASSUME NEW t, LastIs(h, t), NEW i \in DOMAIN g, IsTurn(g[i])
          PROVE  g[i].calls = t \/ \E k \in DOMAIN g : i < k /\ IsTurn(g[k])
      <3>1. i \in DOMAIN h /\ IsTurn(h[i])
        BY <1>2, <1>6, <2>1
      <3>2. CASE h[i].calls = t
        BY <1>6, <3>1, <3>2
      <3>3. CASE h[i].calls # t
        <4>1. PICK k \in DOMAIN h : i < k /\ IsTurn(h[k])
          BY <2>1, <3>1, <3>3 DEF LastIs
        <4> QED
          BY <1>2, <1>6, <4>1
      <3> QED
        BY <3>2, <3>3
    <2> QED
      BY <2>1 DEF LastIs
  <1>8. HistTurns(g) = HistTurns(h)
    BY <1>2, <1>3 DEF HistTurns
  <1> QED
    BY <1>4, <1>5, <1>7, <1>8 DEF Hears

\* The leaf that gets the answer goes on after the ask: all before it was answered.
Answering(s, ask) ==
  LET turn == AskTurn(s.hist, ask)
  IN [Restored(s) EXCEPT !.hist = [s.hist EXCEPT ![Len(s.hist)] = ToolMessage(ask, "answer")],
                         !.turn = turn, !.pc = "disp", !.mode = "parked",
                         !.idx = 1 + CHOOSE k \in DOMAIN turn : turn[k].id = ask]
AnswersAs(l, s, e) ==
  /\ FrameH(l, e, FALSE) /\ l.id = s.id /\ ~l.hand /\ Unreplayed(l)
  /\ l.pc = "disp" /\ l.mode = "parked"

\* The role that asked goes on behind the answered call.
LEMMA AnsweringH ==
  ASSUME NEW tools, NEW w, NEW s \in SavedType(tools, w), NEW ask, ask # 0, NEW role, NEW of, NEW e,
         SavedTurns(s, of), SavedH(s, e), LeafH(s, ask, role), NEW l, l = Answering(s, ask)
  PROVE  AnswersAs(l, s, e)
  <1> DEFINE n == Len(s.hist)
             r == Restored(s)
             t == AskTurn(s.hist, ask)
             j == CHOOSE k \in DOMAIN t : t[k].id = ask
             h == [s.hist EXCEPT ![n] = ToolMessage(ask, "answer")]
             f == [r EXCEPT !.hist = h, !.turn = t, !.pc = "disp", !.mode = "parked", !.idx = 1 + j]
  <1>1. /\ Shaped(r) /\ r.hand = FALSE /\ r.hist = s.hist /\ r.pend = s.pend /\ r.id = s.id /\ r.note = FALSE
    BY RestoredH
  <1>2. /\ s.pend = NoPending /\ AskedIn(s.hist, ask) /\ Ordered(s.hist)
        /\ HistTurns(s.hist) \subseteq Turns(of) /\ s.hist \in Seq(Messages(tools, w))
    BY DEF LeafH, SavedH, SavedTurns, SavedType
  <1>3. l = f
    BY DEF Answering
  <1> HIDE DEF r
  <1>4. PICK i \in DOMAIN s.hist : /\ s.hist[i].m = "assistant"
                                   /\ \E k \in DOMAIN s.hist[i].calls :
                                        /\ s.hist[i].calls[k] = [id |-> ask, tool |-> "ask"]
                                        /\ During(s.hist, s.hist[i].calls, k + 1)
    BY <1>2 DEF AskedIn
  <1> DEFINE u == s.hist[i].calls
  <1>5. PICK k \in DOMAIN u : u[k] = [id |-> ask, tool |-> "ask"] /\ During(s.hist, u, k + 1)
    BY <1>4
  <1>6. u \in HistTurns(s.hist) /\ u \in Turns(of) /\ u[k].id = ask
    BY <1>2, <1>4, <1>5 DEF HistTurns
  <1>7. t \in HistTurns(s.hist) /\ t \in Turns(of) /\ ask \in CallIds(t)
    <2>1. [id |-> ask, tool |-> "ask"] \in Range(u)
      BY <1>5 DEF Range
    <2>2. t \in HistTurns(s.hist) /\ ask \in CallIds(t)
      BY <1>2, <1>4, <2>1, AskedTurn
    <2> QED
      BY <1>2, <2>2
  <1>8. n \in DOMAIN s.hist /\ s.hist[n].m = "tool" /\ s.hist[n].id = ask
    BY <1>2 DEF AskedIn
  <1> HIDE DEF t, n
  <1>9. PICK p \in DOMAIN t : t[p].id = ask
    BY <1>7 DEF CallIds
  <1>10. of[ask] = t /\ of[ask] = u
    BY <1>6, <1>7, <1>9, AfterTheAsk
  <1>11. j \in DOMAIN t /\ t[j].id = ask
    BY <1>9
  <1> HIDE DEF j, u
  <1>12. t = u /\ j = k /\ j \in Nat
    <2>1. t = u
      BY <1>10
    <2>2. \A x, y \in DOMAIN t : t[x].id = t[y].id => x = y
      BY <1>7 DEF Turns
    <2>3. j = k
      BY <1>5, <1>6, <1>11, <2>1, <2>2
    <2>4. j \in Nat
      BY <1>7, <1>11, NextCall
    <2> QED
      BY <2>1, <2>3, <2>4
  <1>13. Hears(s.hist, h) /\ HistTurns(h) = HistTurns(s.hist)
    <2> DEFINE v == "answer"
               S == Messages(tools, w)
               m == s.hist
    <2>1. h = Replaced(m, n, ask, v) /\ m \in Seq(S) /\ n \in DOMAIN m /\ m[n].m = "tool" /\ m[n].id = ask
      BY <1>2, <1>8 DEF Replaced
    <2> HIDE DEF v, h, S, m
    <2>2. Hears(m, h) /\ HistTurns(h) = HistTurns(m)
      BY <2>1, ReplacedHears
    <2> QED
      BY <2>2 DEF m
  <1> HIDE DEF h
  <1>14. /\ l.hand = FALSE /\ l.hist = h /\ l.turn = t /\ l.pc = "disp" /\ l.mode = "parked" /\ l.idx = 1 + j
         /\ l.pend = NoPending /\ l.id = s.id /\ l.note = FALSE
    BY <1>1, <1>2, <1>3 DEF Shaped, Fields
  <1> HIDE DEF f
  <1>15. l.idx = k + 1
    BY <1>12, <1>14
  <1>16. Ordered(l.hist) /\ During(l.hist, l.turn, l.idx) /\ l.turn \in HistTurns(l.hist)
    <2>1. During(h, u, k + 1)
      BY <1>5, <1>13, HearsTurn
    <2> QED
      BY <1>2, <1>7, <1>12, <1>13, <1>14, <1>15, <2>1 DEF Hears
  <1>17. FrameH(l, e, FALSE)
    <2>1. l.mode # "replay" /\ l.pend.card = None /\ Done(l.pend, e)
      BY <1>14 DEF NoPending, Done
    <2> QED
      BY <1>14, <1>16, <2>1, NextFrame
  <1> QED
    BY <1>14, <1>17 DEF Unreplayed, AnswersAs

\* A resume: the parents wait, the leaf goes on, and what was written before still stands.
LEMMA ReenterH ==
  ASSUME NEW tools, NEW c, DiskOK(c, tools), DiskH(c, Ended(log)),
         Len(c.frames) \in Nat \ {0}, DOMAIN c.frames = 1 .. Len(c.frames),
         NEW leaf, FrameH(leaf, Ended(log), FALSE), leaf.id = LeafOf(c).id, ~leaf.hand,
         NEW tracked, tracked => Unreplayed(leaf),
         c.ask # 0 => leaf.pc = "disp" /\ leaf.mode = "parked",
         leaf.pc = "end" /\ leaf.val \notin Final => Unmarked(c) /\ leaf.pend = NoPending,
         NEW answered, Reenter(c, leaf, tracked, answered)
  PROVE  HistoryInv'
  <1> DEFINE n == Len(c.frames)
             e == Ended(log)
             more == Ended(log')
             owed == {Terminal(i) : i \in planStaleInvocationTerminals(log, LiveRoles(c), PendingIds(c))
                                            \cup (answered \ TerminatedIn(log))}
             st == [k \in 1 .. n |-> IF k < n THEN ResumedParent(c.frames[k]) ELSE leaf]
             w == c.wrote
  <1>1. /\ status' = "running" /\ disk' = [c EXCEPT !.suspended = FALSE, !.paused = FALSE]
        /\ log' = Logged(log, owed) /\ jour' = SeedJournal(log', LiveRoles(c)) /\ stack' = st
        /\ rec' = [NewRec(c.counter) EXCEPT !.interlude = c.interlude]
        /\ park' = [NewPark EXCEPT !.wrote = c.wrote, !.tracked = tracked]
    BY DEF Reenter
  <1>2. /\ disk'.frames = c.frames /\ disk'.ask = c.ask /\ disk'.askRole = c.askRole /\ disk'.counter = c.counter
        /\ disk'.suspended = FALSE /\ disk'.paused = FALSE
    BY <1>1 DEF DiskOK
  <1>3. /\ rec'.counter = c.counter /\ rec'.frozen = FALSE /\ rec'.suspended = FALSE /\ rec'.paused = FALSE
        /\ park'.question = FALSE /\ park'.ask = 0 /\ park'.tracked = tracked
    BY <1>1 DEF NewRec, NewPark
  <1>4. jour'.ended = TerminatedIn(log')
    BY <1>1 DEF SeedJournal
  <1> HIDE DEF owed
  <1>5. e \subseteq more
    <2>1. TerminatedIn(log) \subseteq TerminatedIn(log')
      BY <1>1, LogsMore
    <2> QED
      BY <2>1 DEF Ended
  <1>6. /\ DOMAIN st = 1 .. n /\ Len(st) = n
        /\ \A k \in 1 .. n : st[k] = IF k < n THEN ResumedParent(c.frames[k]) ELSE leaf
    <2> HIDE DEF n
    <2>1. n \in Nat
      BY DEF n
    <2> DEFINE S == {IF k < n THEN ResumedParent(c.frames[k]) ELSE leaf : k \in 1 .. n}
    <2>2. st \in [1 .. n -> S]
      OBVIOUS
    <2>3. DOMAIN st = 1 .. n /\ \A k \in 1 .. n : st[k] = IF k < n THEN ResumedParent(c.frames[k]) ELSE leaf
      OBVIOUS
    <2> HIDE DEF st, S
    <2>4. Len(st) = n
      BY <2>1, <2>2
    <2> QED
      BY <2>3, <2>4
  <1> HIDE DEF st
  <1>7. n \in Nat /\ 1 \in 1 .. n /\ n \in 1 .. n /\ (\A k \in 1 .. n : k < n \/ k = n) /\ ~(n < n)
    <2>1. n \in Nat \ {0}
      OBVIOUS
    <2> HIDE DEF n
    <2> QED
      BY <2>1
  <1>8. DOMAIN c.frames = 1 .. n /\ LeafOf(c) = c.frames[n]
    BY DEF LeafOf
  <1> HIDE DEF n, w, e, more
  <1>9. ASSUME NEW k \in 1 .. n, k < n
        PROVE  FrameH(st[k], e, FALSE) /\ st[k].id = c.frames[k].id /\ ~st[k].hand /\ Unreplayed(st[k])
    <2> DEFINE s == c.frames[k]
               g == st[k]
    <2>1. g = ResumedParent(s) /\ s \in SavedType(tools, w)
      BY <1>6, <1>8, <1>9 DEF DiskOK, SavedOK, w
    <2>2. SavedH(s, e) /\ ParentH(s)
      BY <1>8, <1>9 DEF DiskH, n, e
    <2> HIDE DEF s, g
    <2>3. FrameH(g, e, FALSE) /\ g.id = s.id /\ ~g.hand /\ Unreplayed(g)
      BY <2>1, <2>2, ResumedParentH
    <2> QED
      BY <2>3 DEF g, s
  <1>10. st[n] = leaf
    BY <1>6, <1>7
  <1>11. \A k \in 1 .. n : /\ FrameH(st[k], e, FALSE) /\ st[k].id = c.frames[k].id /\ ~st[k].hand
                           /\ tracked => Unreplayed(st[k])
    <2>1. FrameH(leaf, e, FALSE) /\ leaf.id = c.frames[n].id
      BY <1>8 DEF e
    <2> QED
      BY <1>7, <1>9, <1>10, <2>1
  <1>12. FramesH(stack', more, park'.question)
    <2>1. \A k \in 1 .. n : FrameH(st[k], more, FALSE)
      BY <1>5, <1>11, MoreEnded
    <2> QED
      BY <1>1, <1>3, <1>6, <2>1 DEF FramesH
  <1>13. Numbered(stack', rec'.counter)
    <2>1. Numbered(c.frames, c.counter)
      BY DEF DiskH
    <2>2. /\ DOMAIN stack' = DOMAIN c.frames /\ rec'.counter = c.counter
          /\ \A k \in DOMAIN c.frames : stack'[k].id = c.frames[k].id
      BY <1>1, <1>3, <1>6, <1>8, <1>11
    <2> QED
      BY <2>1, <2>2 DEF Numbered
  <1>14. DiskH(disk', more)
    <2>1. DiskH(disk', e)
      BY <1>2 DEF DiskH, e
    <2> QED
      BY <1>5, <2>1, DiskMore
  <1>15. ParkH(park', rec', stack', disk')
    BY <1>1, <1>3, <1>6, <1>11 DEF ParkH
  <1>16. stack' # << >>
    BY <1>1, <1>6, <1>7
  <1>17. Settles(stack', rec', disk')
    <2> SUFFICES ASSUME NEW k \in 1 .. n, k = n, st[k].pc = "end", st[k].val \notin Final
                 PROVE  Unmarked(disk') /\ st[k].pend = NoPending
      BY <1>1, <1>6 DEF Settles, Final
    <2>1. Unmarked(c) /\ leaf.pend = NoPending
      BY <1>10
    <2> QED
      BY <1>2, <1>10, <2>1 DEF Unmarked, LeafOf
  <1>18. c.ask # 0 => AfterAnswer(stack')
    BY <1>1, <1>6, <1>10, <1>11 DEF AfterAnswer
  <1>19. StatusH(status', stack', rec', park', disk')
    <2>1. c.counter \in Nat
      BY DEF DiskOK
    <2>2. rec'.counter = c.counter /\ disk'.counter <= rec'.counter
      BY <1>2, <1>3, <2>1
    <2>3. ~stack'[1].hand
      BY <1>1, <1>7, <1>11
    <2>4. status' = "running" /\ disk'.ask = c.ask /\ rec'.suspended = FALSE /\ rec'.paused = FALSE
      BY <1>1, <1>2, <1>3
    <2> QED
      BY <1>16, <1>17, <1>18, <2>2, <2>3, <2>4 DEF StatusH
  <1> QED
    BY <1>4, <1>12, <1>13, <1>14, <1>15, <1>19 DEF HistoryInv, more

\* What is known of a checkpoint that is resumed, and of its leaf.
LEMMA ReadyH ==
  ASSUME NEW tools, NEW c, DiskOK(c, tools), NEW of, NEW touched, DiskX(c, of, touched), Ready(c, of),
         NEW e, DiskH(c, e)
  PROVE  /\ Len(c.frames) \in Nat \ {0} /\ DOMAIN c.frames = 1 .. Len(c.frames) /\ c.frames # << >>
         /\ LeafOf(c) \in SavedType(tools, c.wrote) /\ SavedTurns(LeafOf(c), of)
         /\ SavedH(LeafOf(c), e) /\ LeafH(LeafOf(c), c.ask, c.askRole)
  <1> DEFINE n == Len(c.frames)
  <1>1. n \in Nat \ {0} /\ DOMAIN c.frames = 1 .. n
    BY DEF Ready
  <1>2. LeafOf(c) = c.frames[n]
    BY DEF LeafOf
  <1>3. n \in DOMAIN c.frames
    <2> HIDE DEF n
    <2> QED
      BY <1>1
  <1>4. SavedH(LeafOf(c), e) /\ LeafH(LeafOf(c), c.ask, c.askRole)
    BY <1>2, <1>3 DEF DiskH
  <1> QED
    BY <1>1, <1>3, <1>4, ReadyLeaf

\* A resume that answers no question.
LEMMA ResumeH ==
  ASSUME NEW tools, NEW c, DiskOK(c, tools), NEW of, NEW touched, DiskX(c, of, touched), Ready(c, of),
         DiskH(c, Ended(log)), c.ask = 0, NEW note \in BOOLEAN, NEW explicit, NEW tracked,
         tracked => ~note /\ LeafOf(c).pend = NoPending,
         NEW leaf, leaf = ResumedLeaf(LeafOf(c), note, explicit),
         NEW answered, Reenter(c, leaf, tracked, answered)
  PROVE  HistoryInv'
  <1> DEFINE s == LeafOf(c)
             w == c.wrote
             e == Ended(log)
  <1>1. /\ Len(c.frames) \in Nat \ {0} /\ DOMAIN c.frames = 1 .. Len(c.frames) /\ c.frames # << >>
        /\ s \in SavedType(tools, w) /\ SavedH(s, e) /\ LeafH(s, c.ask, c.askRole)
    BY ReadyH
  <1>2. leaf = ResumedLeaf(s, note, explicit)
    OBVIOUS
  <1>3. tracked => ~note /\ s.pend = NoPending
    OBVIOUS
  <1> HIDE DEF s, w, e
  <1>4. Whole(s) /\ (s.pend.card # None => ChildCallOf(s))
    BY <1>1 DEF LeafH
  <1>5. /\ FrameH(leaf, e, FALSE) /\ leaf.id = s.id /\ ~leaf.hand
        /\ ~note /\ s.pend = NoPending => Unreplayed(leaf)
        /\ leaf.pc = "end" => s.pend = NoPending /\ leaf.pend = NoPending
    <2>1. ResumesAs(leaf, s, note, e)
      BY <1>1, <1>2, <1>4, ResumedLeafH
    <2> QED
      BY <2>1 DEF ResumesAs
  <1>6. leaf.pc = "end" => Unmarked(c) /\ leaf.pend = NoPending
    BY <1>1, <1>5 DEF Unmarked, s
  <1>7. tracked => Unreplayed(leaf)
    BY <1>3, <1>5
  <1>8. FrameH(leaf, Ended(log), FALSE) /\ leaf.id = LeafOf(c).id /\ ~leaf.hand
    BY <1>5 DEF s, e
  <1> QED
    BY <1>1, <1>6, <1>7, <1>8, ReenterH

\* A boot resumes a run without a note.
LEMMA BootResumeH ==
  ASSUME NEW tools, EngineInv(tools), NEW of, ExecInv(of), HistoryInv, BootResume
  PROVE  HistoryInv'
  <1> DEFINE leaf == ResumedLeaf(LeafOf(disk), FALSE, FALSE)
             none == {}
             t == Touched(log)
  <1>1. isRunCheckpoint(disk) /\ disk.ask = 0 /\ Reenter(disk, leaf, FALSE, none)
    BY DEF BootResume
  <1>2. DiskOK(disk, tools) /\ DiskX(disk, of, t) /\ Ready(disk, of) /\ DiskH(disk, Ended(log))
    BY <1>1, OnDiskX DEF HistoryInv
  <1>3. leaf = ResumedLeaf(LeafOf(disk), FALSE, FALSE)
    OBVIOUS
  <1> HIDE DEF leaf, none, t
  <1>4. \E note \in BOOLEAN, explicit, tracked \in BOOLEAN :
          /\ leaf = ResumedLeaf(LeafOf(disk), note, explicit) /\ ~tracked
          /\ Reenter(disk, leaf, tracked, none)
    BY <1>1, <1>3
  <1> QED
    BY <1>1, <1>2, <1>4, ResumeH

\* The operator's resume, with a note or without.
LEMMA ExplicitResumeH ==
  ASSUME NEW tools, EngineInv(tools), NEW of, ExecInv(of), HistoryInv, ExplicitResume
  PROVE  HistoryInv'
  <1>1. PICK note \in BOOLEAN : Reenter(disk, ResumedLeaf(LeafOf(disk), note, TRUE), FALSE, {})
    BY DEF ExplicitResume
  <1> DEFINE leaf == ResumedLeaf(LeafOf(disk), note, TRUE)
             none == {}
             t == Touched(log)
  <1>2. isRunCheckpoint(disk) /\ disk.ask = 0
    BY DEF ExplicitResume, HistoryInv, StatusH
  <1>3. DiskOK(disk, tools) /\ DiskX(disk, of, t) /\ Ready(disk, of) /\ DiskH(disk, Ended(log))
    BY <1>2, OnDiskX DEF HistoryInv
  <1>4. leaf = ResumedLeaf(LeafOf(disk), note, TRUE) /\ Reenter(disk, leaf, FALSE, none)
    BY <1>1
  <1> HIDE DEF leaf, none, t
  <1>5. \E explicit, tracked \in BOOLEAN :
          /\ leaf = ResumedLeaf(LeafOf(disk), note, explicit) /\ ~tracked
          /\ Reenter(disk, leaf, tracked, none)
    BY <1>4
  <1> QED
    BY <1>2, <1>3, <1>5, ResumeH

\* An answer appended to the leaf on disk is no turn: what the checkpoint answers stands.
LEMMA NotedDiskH ==
  ASSUME NEW tools, NEW c, DiskOK(c, tools), NEW of, NEW touched, DiskX(c, of, touched), Ready(c, of),
         NEW e, DiskH(c, e), c.ask = 0,
         NEW d, d = [c EXCEPT !.frames[Len(c.frames)].hist = Append(@, UserMessage("answer"))]
  PROVE  DiskH(d, e) /\ d.ask = 0 /\ LeafOf(d).pend = LeafOf(c).pend
  <1> DEFINE n == Len(c.frames)
             w == c.wrote
             s == c.frames[n]
             x == UserMessage("answer")
             h == Append(s.hist, x)
             g == [s EXCEPT !.hist = h]
             fs == [c.frames EXCEPT ![n] = g]
  <1>1. n \in Nat \ {0} /\ DOMAIN c.frames = 1 .. n /\ n \in DOMAIN c.frames
    <2>1. n \in Nat \ {0} /\ DOMAIN c.frames = 1 .. n
      BY DEF Ready
    <2> HIDE DEF n
    <2> QED
      BY <2>1
  <1>2. c.frames \in Seq(SavedType(tools, w)) /\ s \in SavedType(tools, w)
    BY <1>1 DEF DiskOK, SavedOK
  <1>3. d.frames = fs /\ d.ask = 0 /\ d.counter = c.counter /\ d.askRole = c.askRole
    BY <1>1, <1>2 DEF DiskOK
  <1>4. Hears(s.hist, h) /\ HistTurns(h) = HistTurns(s.hist)
    <2> DEFINE m == s.hist
               S == Messages(tools, w)
    <2>1. x.m # "assistant"
      BY DEF UserMessage
    <2>2. m \in Seq(S) /\ h = Append(m, x)
      BY <1>2 DEF SavedType
    <2> HIDE DEF x, m, h, S
    <2>3. Hears(m, h) /\ HistTurns(h) = HistTurns(m)
      BY <2>1, <2>2, PushHears
    <2> QED
      BY <2>3 DEF m
  <1>5. g.pend = s.pend /\ g.hist = h /\ g.id = s.id
    <2> HIDE DEF s, h
    <2> QED
      BY <1>2 DEF SavedType
  <1> HIDE DEF g, h
  <1>6. /\ DOMAIN fs = DOMAIN c.frames /\ Len(fs) = n
        /\ \A k \in DOMAIN c.frames : fs[k] = IF k = n THEN g ELSE c.frames[k]
    BY <1>1, <1>2
  <1> HIDE DEF fs
  <1>7. Numbered(d.frames, d.counter)
    <2>1. \A k \in DOMAIN c.frames : fs[k].id = c.frames[k].id
      BY <1>5, <1>6
    <2>2. Numbered(c.frames, c.counter)
      BY DEF DiskH
    <2> QED
      BY <1>3, <1>6, <2>1, <2>2 DEF Numbered
  <1>8. SavedH(s, e) /\ LeafH(s, 0, c.askRole)
    BY <1>1 DEF DiskH
  <1> HIDE DEF s
  <1>9. SavedH(g, e)
    <2>1. Ordered(g.hist) /\ Marked(g.hist, g.pend)
      BY <1>4, <1>5, <1>8, HearsTurn DEF SavedH, Hears
    <2>2. Backed(g.hist, g.pend, e)
      BY <1>4, <1>5, <1>8 DEF SavedH, Backed
    <2> QED
      BY <2>1, <2>2 DEF SavedH
  <1>10. LeafH(g, 0, c.askRole)
    <2>1. Whole(g)
      BY <1>4, <1>5, <1>8 DEF LeafH, Whole, Hears
    <2>2. g.pend.card # None => ChildCallOf(g)
      BY <1>5, <1>8 DEF LeafH, ChildCallOf
    <2> QED
      BY <2>1, <2>2 DEF LeafH
  <1>11. ASSUME NEW k \in DOMAIN c.frames
         PROVE  /\ SavedH(fs[k], e)
                /\ k < n => ParentH(fs[k])
                /\ k = n => LeafH(fs[k], 0, c.askRole)
    <2>1. CASE k = n
      <3>1. ~(k < n)
        <4> HIDE DEF n
        <4> QED
          BY <1>1, <2>1
      <3> QED
        BY <1>6, <1>9, <1>10, <2>1, <3>1
    <2>2. CASE k # n
      BY <1>6, <2>2 DEF DiskH
    <2> QED
      BY <2>1, <2>2
  <1>12. DiskH(d, e)
    BY <1>3, <1>6, <1>7, <1>11 DEF DiskH
  <1>13. LeafOf(d).pend = LeafOf(c).pend
    <2>1. LeafOf(d) = g /\ LeafOf(c) = s
      BY <1>1, <1>3, <1>6 DEF LeafOf, s
    <2> QED
      BY <1>5, <2>1
  <1> QED
    BY <1>3, <1>12, <1>13

\* The operator's answer: in the place of the question's, or as a note to the leaf.
LEMMA AnswerResumeH ==
  ASSUME NEW tools, EngineInv(tools), NEW of, ExecInv(of), HistoryInv, AnswerResume
  PROVE  HistoryInv'
  <1> DEFINE c == [disk EXCEPT !.frames[Len(disk.frames)].hist = Append(@, UserMessage("answer"))]
             t == Touched(log)
             e == Ended(log)
  <1>1. isRunCheckpoint(disk) /\ status \in {"parked", "clarify"}
    BY DEF AnswerResume
  <1>2. DiskOK(disk, tools) /\ DiskX(disk, of, t) /\ Ready(disk, of) /\ DiskH(disk, e)
    BY <1>1, OnDiskX DEF HistoryInv
  <1> HIDE DEF t, e
  <1>3. CASE disk.ask # 0
    <2> DEFINE leaf == AnsweredLeaf(disk)
               asked == {<<"tool", disk.ask>>}
               s == LeafOf(disk)
               w == disk.wrote
               ask == disk.ask
               role == disk.askRole
               yes == TRUE
    <2>1. Reenter(disk, leaf, yes, asked)
      BY <1>3 DEF AnswerResume
    <2>2. /\ Len(disk.frames) \in Nat \ {0} /\ DOMAIN disk.frames = 1 .. Len(disk.frames)
          /\ s \in SavedType(tools, w) /\ SavedTurns(s, of) /\ SavedH(s, e) /\ LeafH(s, ask, role)
      BY <1>2, ReadyH
    <2>3. leaf = Answering(s, ask)
      BY DEF AnsweredLeaf, Answering
    <2> HIDE DEF leaf, asked, s, w, ask, role
    <2>4. ask # 0
      BY <1>3 DEF ask
    <2>5. /\ FrameH(leaf, e, FALSE) /\ leaf.id = s.id /\ ~leaf.hand /\ Unreplayed(leaf)
          /\ leaf.pc = "disp" /\ leaf.mode = "parked"
      <3>1. AnswersAs(leaf, s, e)
        BY <2>2, <2>3, <2>4, AnsweringH
      <3> QED
        BY <3>1 DEF AnswersAs
    <2>6. FrameH(leaf, Ended(log), FALSE) /\ leaf.id = LeafOf(disk).id /\ leaf.pc # "end"
      BY <2>5 DEF s, e
    <2> HIDE DEF yes
    <2> QED
      BY <1>2, <2>1, <2>2, <2>5, <2>6, ReenterH DEF e
  <1>4. CASE disk.ask = 0
    <2> DEFINE leaf == ResumedLeaf(LeafOf(c), FALSE, FALSE)
               none == {}
    <2>1. Reenter(c, leaf, TRUE, none)
      BY <1>4, Zenon DEF AnswerResume
    <2>2. DiskOK(c, tools) /\ DiskX(c, of, t) /\ Ready(c, of) /\ DiskH(c, e) /\ c.ask = 0 /\ LeafOf(c).pend = LeafOf(disk).pend
      <3>1. c = [disk EXCEPT !.frames[Len(disk.frames)].hist = Append(@, UserMessage("answer"))]
        OBVIOUS
      <3> HIDE DEF c
      <3> QED
        BY <1>1, <1>2, <1>4, <3>1, NotedOnDisk, NotedDiskX, NotedDiskH
    <2>3. LeafOf(disk).pend = NoPending
      <3>1. disk.frames # << >>
        BY <1>2, ReadyH
      <3>2. StatusH(status, stack, rec, park, disk)
        BY DEF HistoryInv
      <3> QED
        BY <1>1, <1>4, <3>1, <3>2 DEF StatusH
    <2> HIDE DEF c
    <2>4. leaf = ResumedLeaf(LeafOf(c), FALSE, FALSE)
      OBVIOUS
    <2> HIDE DEF leaf, none
    <2>5. \E note \in BOOLEAN : \E explicit, tracked :
            /\ leaf = ResumedLeaf(LeafOf(c), note, explicit) /\ ~note
            /\ Reenter(c, leaf, tracked, none)
      BY <2>1, <2>4
    <2> QED
      BY <2>2, <2>3, <2>5, ResumeH DEF e
  <1> QED
    <2>1. disk.ask = 0 \/ disk.ask # 0
      OBVIOUS
    <2> QED
      BY <1>3, <1>4, <2>1

-----------------------------------------------------------------------------
(* The steps, and the theorem.                                             *)

\* A run that was not started has nothing to answer.
LEMMA InitH ==
  ASSUME Init
  PROVE  HistoryInv
  <1>1. /\ status = "new" /\ stack = << >> /\ rec = NewRec(0) /\ park = NewPark /\ jour = NewJournal
        /\ disk = NoCheckpoint
    BY DEF Init
  <1>2. DOMAIN stack = {}
    BY <1>1
  <1>3. DOMAIN disk.frames = {} /\ disk.ask = 0 /\ disk.frames = << >>
    BY <1>1 DEF NoCheckpoint
  <1>4. FramesH(stack, Ended(log), park.question) /\ Numbered(stack, rec.counter)
    BY <1>2 DEF FramesH, Numbered
  <1>5. DiskH(disk, Ended(log))
    BY <1>3 DEF DiskH, Numbered
  <1>6. ParkH(park, rec, stack, disk)
    BY <1>1, <1>2 DEF ParkH, NewPark, NewRec
  <1>7. StatusH(status, stack, rec, park, disk)
    BY <1>1 DEF StatusH, NewRec
  <1>8. jour.ended \subseteq TerminatedIn(log)
    BY <1>1 DEF NewJournal
  <1> QED
    BY <1>4, <1>5, <1>6, <1>7, <1>8 DEF HistoryInv

\* Every step of a role keeps what its history answers.
LEMMA RoleStepH ==
  ASSUME NEW tools, EngineInv(tools), NEW all, EngineInv(all)', NEW of, ExecInv(of), HistoryInv, RoleStep
  PROVE  HistoryInv'
  <1>1. CASE ParkAtLoopTop BY <1>1, ParkAtLoopTopH
  <1>2. CASE drainInterrupts BY <1>2, DrainInterruptsH
  <1>3. CASE drainAfterLoopCheck BY <1>3, DrainAfterLoopCheckH
  <1>4. CASE resolveSafePoint BY <1>4, ResolveSafePointH
  <1>5. CASE SafePoint BY <1>5, SafePointH
  <1>6. CASE TakePause BY <1>6, TakePauseH
  <1>7. CASE CallModel BY <1>7, CallModelH
  <1>8. CASE MarkInterlude BY <1>8, MarkInterludeH
  <1>9. CASE StartHandler BY <1>9, StartHandlerH
  <1>10. CASE ResolveInterlude BY <1>10, ResolveInterludeH
  <1>11. CASE ClearInterlude BY <1>11, ClearInterludeH
  <1>12. CASE DispatchDone BY <1>12, DispatchDoneH
  <1>13. CASE DispatchParks BY <1>13, DispatchParksH
  <1>14. CASE DispatchInvalid BY <1>14, DispatchInvalidH
  <1>15. CASE DispatchCall BY <1>15, DispatchCallH
  <1>16. CASE BeginCall BY <1>16, BeginCallH
  <1>17. CASE ExecuteTool BY <1>17, ExecuteToolH
  <1>18. CASE SpawnAgent BY <1>18, SpawnAgentH
  <1>19. CASE AskParks BY <1>19, AskParksH
  <1>20. CASE AskWaits BY <1>20, AskWaitsH
  <1>21. CASE RecordChildCard BY <1>21, RecordChildCardH
  <1>22. CASE recordToolResult BY <1>22, RecordToolResultH
  <1>23. CASE SettleCall BY <1>23, SettleCallH
  <1>24. CASE closeUnexecutedCalls BY <1>24, CloseUnexecutedCallsH
  <1>25. CASE FinishTurn BY <1>25, FinishTurnH
  <1>26. CASE EndChild BY <1>26, EndChildH
  <1>27. CASE EndRoot BY <1>27, EndRootH
  <1>28. CASE reconcilePendingInvocation BY <1>28, ReconcileH
  <1> QED
    BY <1>1, <1>2, <1>3, <1>4, <1>5, <1>6, <1>7, <1>8, <1>9, <1>10, <1>11, <1>12, <1>13, <1>14, <1>15, <1>16,
       <1>17, <1>18, <1>19, <1>20, <1>21, <1>22, <1>23, <1>24, <1>25, <1>26, <1>27, <1>28 DEF RoleStep

\* So does every step of the environment, a crash and the resumes included.
LEMMA EnvironmentH ==
  ASSUME NEW tools, EngineInv(tools), NEW of, ExecInv(of), HistoryInv, Environment
  PROVE  HistoryInv'
  <1>1. CASE StartRun BY <1>1, StartRunH
  <1>2. CASE ProviderFails BY <1>2, ProviderFailsH
  <1>3. CASE ModelUnavailable BY <1>3, ModelUnavailableH
  <1>4. CASE ContextRejected BY <1>4, ContextRejectedH
  <1>5. CASE ModelReplies BY <1>5, ModelRepliesH
  <1>6. CASE AskRejected BY <1>6, AskRejectedH
  <1>7. CASE submitAnswer BY <1>7, SubmitAnswerH
  <1>8. CASE SubmitRequest BY <1>8, SameH DEF SubmitRequest
  <1>9. CASE RequestPause BY <1>9, SameH DEF RequestPause
  <1>10. CASE DeleteCheckpoint BY <1>10, DeleteCheckpointH
  <1>11. CASE Crash BY <1>11, CrashH
  <1>12. CASE BootFinds BY <1>12, BootFindsH
  <1>13. CASE ResumeRefused BY <1>13, ResumeRefusedH
  <1>14. CASE BootResume BY <1>14, BootResumeH
  <1>15. CASE ExplicitResume BY <1>15, ExplicitResumeH
  <1>16. CASE AnswerResume BY <1>16, AnswerResumeH
  <1> QED
    BY <1>1, <1>2, <1>3, <1>4, <1>5, <1>6, <1>7, <1>8, <1>9, <1>10, <1>11, <1>12, <1>13, <1>14, <1>15,
       <1>16 DEF Environment

\* A role that awaits the model is between turns: its history answers all of them.
LEMMA AnswersAll ==
  ASSUME HistoryInv, \A k \in DOMAIN stack : Shaped(stack[k])
  PROVE  AllAnswered
  <1> SUFFICES ASSUME NEW k \in DOMAIN stack, stack[k].pc = "llm", NEW i \in DOMAIN stack[k].hist,
                      stack[k].hist[i].m = "assistant", NEW x \in CallIds(stack[k].hist[i].calls)
               PROVE  \E j \in i + 1 .. Len(stack[k].hist) : stack[k].hist[j].m = "tool" /\ stack[k].hist[j].id = x
    BY DEF AllAnswered
  <1> DEFINE h == stack[k].hist
  <1>1. Told(stack[k])
    BY DEF HistoryInv, FramesH, FrameH
  <1>2. Between(stack[k])
    BY DEF Between, LoopLabels
  <1>3. Answered(h, {})
    BY <1>1, <1>2 DEF Told
  <1>4. PICK S : h \in Seq(S)
    BY DEF Shaped
  <1> HIDE DEF h
  <1>5. PICK j \in DOMAIN h : i < j /\ h[j].m = "tool" /\ h[j].id = x
    BY <1>3 DEF Answered, h
  <1>6. j \in i + 1 .. Len(h)
    BY <1>4, <1>5 DEF h
  <1> QED
    BY <1>5, <1>6 DEF h

\* No request leaves a tool call of its conversation unanswered, whatever was replayed,
\* closed, parked, compacted, preempted or resumed before it.
THEOREM RequestsAnswerEveryCall == EngineSpec => []AllAnswered
  <1> DEFINE Inv0 == (\E tools : EngineInv(tools)) /\ (\E of : ExecInv(of))
  <1>1. Init => HistoryInv
    BY InitH
  <1>2. Inv0 /\ Inv0' /\ HistoryInv /\ [Next]_vars => HistoryInv'
    <2> SUFFICES ASSUME NEW tools, EngineInv(tools), NEW of, ExecInv(of), NEW all, EngineInv(all)', HistoryInv, [Next]_vars
                 PROVE  HistoryInv'
      OBVIOUS
    <2>1. CASE RoleStep BY <2>1, RoleStepH
    <2>2. CASE Environment BY <2>2, EnvironmentH
    <2>3. CASE UNCHANGED vars BY <2>3, SameH DEF vars, volatile
    <2> QED
      BY <2>1, <2>2, <2>3 DEF Next
  <1>3. EngineSpec => []Inv0
    BY EngineKeepsCallsApart
  <1>4. Inv0 /\ HistoryInv => AllAnswered
    <2> SUFFICES ASSUME NEW tools, EngineInv(tools), HistoryInv PROVE AllAnswered
      OBVIOUS
    <2> QED
      BY AllShaped, AnswersAll
  <1> QED
    BY <1>1, <1>2, <1>3, <1>4, PTL DEF EngineSpec

=============================================================================
