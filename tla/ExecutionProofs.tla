--------------------------- MODULE ExecutionProofs ---------------------------
(***************************************************************************)
(* No call is executed again once the log has its terminal, for any        *)
(* batches the model returns, any depth of delegation, and any number of   *)
(* interludes, parks, pauses, crashes and resumes of a run.                *)
(***************************************************************************)
EXTENDS EngineProofs

(***************************************************************************)
(* The invariant.  of maps every call asked for so far to its turn.  A     *)
(* call is begun at most once because what may still be begun (by the live *)
(* frames, or by a resume from what is on disk) is apart from what the log *)
(* has heard of, and from what a live frame is about to log.               *)
(***************************************************************************)

\* The turns the calls asked for make up: no call is in two, or twice in one.
Turns(of) ==
  {t \in Seq([id : DOMAIN of, tool : STRING]) :
     /\ \A k \in DOMAIN t : of[t[k].id] = t
     /\ \A j, k \in DOMAIN t : t[j].id = t[k].id => j = k}

\* The turns of a history, and the calls a role is answerable for.
HistTurns(h) == {h[i].calls : i \in {j \in DOMAIN h : h[j].m = "assistant"}}
OwnSaved(s) == (UNION {CallIds(t) : t \in HistTurns(s.hist)}) \cup CallIds(s.pend.calls)
Own(f) == OwnSaved(f) \cup CallIds(f.turn)

\* No finish is among the calls i .. k - 1: what follows one is closed, never executed.
NoFinish(t, i, k) == \A j \in DOMAIN t : i <= j /\ j < k => ~IsFinish(t[j].tool)

\* The calls that may still be begun from the i-th call on, and after it; the i-th call
\* and those that are closed with it when it, or a later one, is a finish.
From(t, i) == {t[k].id : k \in {j \in DOMAIN t : i <= j /\ t[j].tool # "bad" /\ NoFinish(t, i, j)}}
After(t, i) == {t[k].id : k \in {j \in DOMAIN t : i < j /\ t[j].tool # "bad" /\ NoFinish(t, i, j)}}
Here(t, i) == {t[k].id : k \in {j \in DOMAIN t : i <= j /\ (j = i \/ ~NoFinish(t, i, j))}}
Rest(t, i) == {t[k].id : k \in {j \in DOMAIN t : i <= j}}

\* The calls a frame may still begin, and those it may log something about before it
\* dispatches again.
Later(f) ==
  IF f.pc = "disp" THEN From(f.turn, f.idx)
  ELSE IF f.pc = "settle" THEN From(f.turn, f.idx + 1)
  ELSE IF f.pc \in OnACall THEN After(f.turn, f.idx) ELSE {}
Open(f) ==
  IF f.pc = "closing" THEN Rest(f.turn, f.idx)
  ELSE IF f.pc \in OnACall THEN Here(f.turn, f.idx) ELSE {}

\* What a resume may begin: the calls after a marker, and those after a parked ask.
AheadOf(p) == After(p.calls, p.idx)
AskRest(of, ask) == UNION {From(of[ask], k + 1) : k \in {j \in DOMAIN of[ask] : of[ask][j].id = ask}}
Ahead(c, of) ==
  (UNION {AheadOf(c.frames[k].pend) : k \in DOMAIN c.frames}) \cup (IF c.ask = 0 THEN {} ELSE AskRest(of, c.ask))

\* The calls the log has a terminal of, and those it has any event of.
Ended(lg) == {x \in Nat : <<"tool", x>> \in TerminatedIn(lg)}
Touched(lg) == {x \in Nat : <<"tool", x>> \in StartedIn(lg) \cup TerminatedIn(lg)}

SavedTurns(s, of) == HistTurns(s.hist) \subseteq Turns(of) /\ s.pend.calls \in Turns(of)

\* A frame: a marker vouches for no more than the frame would begin; a child call that a
\* resume waits for is not a finish.
FrameX(f, of) ==
  /\ SavedTurns(f, of) /\ f.turn \in Turns(of) /\ f.idx \in Nat
  /\ AheadOf(f.pend) \subseteq Later(f)
  /\ f.mode = "child" => f.pc \in {"wait", "carded", "res"} /\ ~IsFinish(Call(f).tool)

StackX(st, of, touched) ==
  /\ \A k \in DOMAIN st : FrameX(st[k], of) /\ Later(st[k]) \cap touched = {}
  /\ \A i, j \in DOMAIN st : i # j => Own(st[i]) \cap Own(st[j]) = {}

\* No frame is about to log a call of the set; a handler knows none of them.
Apart(st, set) ==
  \A k \in DOMAIN st : Open(st[k]) \cap set = {} /\ (st[k].hand => Own(st[k]) \cap set = {})

ParkX(p, st, of, touched) ==
  p.ask # 0 => /\ p.ask \in touched /\ AskRest(of, p.ask) \cap touched = {}
               /\ \A k \in DOMAIN st : Open(st[k]) \cap AskRest(of, p.ask) = {}

DiskX(c, of, touched) ==
  /\ \A k \in DOMAIN c.frames : SavedTurns(c.frames[k], of)
  /\ \A i, j \in DOMAIN c.frames : i # j => OwnSaved(c.frames[i]) \cap OwnSaved(c.frames[j]) = {}
  /\ c.ask # 0 => c.ask \in touched
  /\ Ahead(c, of) \cap touched = {}

Standing(st, p, c, of, touched) ==
  /\ StackX(st, of, touched) /\ Apart(st, Ahead(c, of))
  /\ DiskX(c, of, touched) /\ ParkX(p, st, of, touched)

\* A call that is about to be begun has not ended.
Fresh(st, lg) == \A k \in DOMAIN st : st[k].pc \in {"start", "exec"} => Call(st[k]).id \notin Ended(lg)

\* What stands for the frames below an interlude is what is on disk.
RecX(r, c, p, how) ==
  /\ r.frozen => p.question
  /\ r.pre \in {<< >>, c.frames}
  /\ how # "running" => r.pre = << >>

\* Every call asked for is in a turn, its own.
Turned(of) == \A x \in DOMAIN of : of[x] \in Turns(of)

Counted(bag) == \A x \in DOMAIN bag : bag[x] \in Nat

ExecInv(of) ==
  /\ DOMAIN of = 1 .. used.tools /\ Turned(of) /\ Touched(log) \subseteq DOMAIN of
  /\ Standing(stack, park, disk, of, Touched(log))
  /\ Fresh(stack, log) /\ RecX(rec, disk, park, status) /\ Counted(ran)

-----------------------------------------------------------------------------
(* Turns and what is left of them.                                         *)

\* A call of a turn names an id and a tool.
LEMMA TypedTurn ==
  ASSUME NEW ids, NEW t \in Seq([id : ids, tool : STRING])
  PROVE  /\ DOMAIN t = 1 .. Len(t) /\ Len(t) \in Nat
         /\ \A k \in DOMAIN t : t[k].id \in ids /\ t[k].tool \in STRING
  <1> DEFINE C == [id : ids, tool : STRING]
  <1>1. \A c \in C : c.id \in ids /\ c.tool \in STRING
    OBVIOUS
  <1>2. t \in Seq(C)
    OBVIOUS
  <1> HIDE DEF C
  <1>3. DOMAIN t = 1 .. Len(t) /\ Len(t) \in Nat /\ \A k \in DOMAIN t : t[k] \in C
    BY <1>2
  <1> QED
    BY <1>1, <1>3

\* More ids make for more turns.
LEMMA WiderTurns ==
  ASSUME NEW ids, NEW more, ids \subseteq more
  PROVE  Seq([id : ids, tool : STRING]) \subseteq Seq([id : more, tool : STRING])
  <1> DEFINE A == [id : ids, tool : STRING]
             B == [id : more, tool : STRING]
  <1>1. A \subseteq B
    OBVIOUS
  <1> HIDE DEF A, B
  <1> SUFFICES Seq(A) \subseteq Seq(B)
    BY DEF A, B
  <1> QED
    BY <1>1

\* What is left of a turn is a part of it; what may be begun after a call is not closed
\* with it.
LEMMA Parts ==
  ASSUME NEW of, NEW t \in Turns(of), NEW i \in Nat
  PROVE  /\ From(t, i) \subseteq CallIds(t) /\ After(t, i) \subseteq CallIds(t)
         /\ Here(t, i) \subseteq CallIds(t) /\ Rest(t, i) \subseteq CallIds(t)
         /\ After(t, i) \cap Here(t, i) = {}
         /\ CallIds(t) \subseteq DOMAIN of
  <1>1. t \in Seq([id : DOMAIN of, tool : STRING])
    BY DEF Turns
  <1>2. CallIds(t) \subseteq DOMAIN of
    <2>1. \A k \in DOMAIN t : t[k].id \in DOMAIN of
      BY <1>1, TypedTurn
    <2> QED
      BY <2>1 DEF CallIds
  <1>3. ASSUME NEW x \in After(t, i), x \in Here(t, i)
        PROVE  FALSE
    <2>1. PICK j \in DOMAIN t : x = t[j].id /\ i < j /\ NoFinish(t, i, j)
      BY DEF After
    <2>2. PICK k \in DOMAIN t : x = t[k].id /\ (k = i \/ ~NoFinish(t, i, k))
      BY <1>3 DEF Here
    <2>3. j = k
      BY <2>1, <2>2 DEF Turns
    <2>4. j \in Nat
      BY <1>1
    <2> QED
      BY <2>1, <2>2, <2>3, <2>4
  <1> QED
    BY <1>2, <1>3 DEF From, After, Here, Rest, CallIds

\* No call is left of the empty turn, and none may be begun after the last.
LEMMA NothingLeft ==
  ASSUME NEW i, NEW t, i \in Nat, DOMAIN t = 1 .. Len(t), Len(t) \in Nat, i > Len(t)
  PROVE  From(t, i) = {} /\ After(t, i) = {} /\ Rest(t, i) = {}
  BY DEF From, After, Rest

\* No call is in the empty turn, or left to a resume that finds no marker.
LEMMA NoTurn ==
  ASSUME NEW of
  PROVE  /\ << >> \in Turns(of) /\ CallIds(<< >>) = {} /\ \A i \in Nat : After(<< >>, i) = {}
         /\ NoPending.calls = << >> /\ AheadOf(NoPending) = {}
  BY DEF Turns, CallIds, After, NoPending, AheadOf

\* From one call of a turn to the next.
LEMMA NextCall ==
  ASSUME NEW of, NEW t \in Turns(of), NEW i \in DOMAIN t
  PROVE  /\ i \in Nat /\ i + 1 \in Nat /\ t[i].id \in DOMAIN of /\ t[i].id \in CallIds(t)
         /\ t[i].id \in Here(t, i) /\ t[i].id \in Rest(t, i) /\ Rest(t, i + 1) \subseteq Rest(t, i)
         /\ ~IsFinish(t[i].tool) => From(t, i + 1) = After(t, i)
         /\ IsFinish(t[i].tool) => After(t, i) = {} /\ Rest(t, i + 1) \subseteq Here(t, i)
         /\ t[i].tool = "bad" => From(t, i) = From(t, i + 1)
         /\ t[i].tool # "bad" => t[i].id \in From(t, i)
         /\ After(t, i) \subseteq From(t, i)
  <1>1. t \in Seq([id : DOMAIN of, tool : STRING]) /\ DOMAIN t \subseteq Nat /\ i \in Nat
    BY DEF Turns
  <1>2. t[i].id \in DOMAIN of /\ t[i].id \in CallIds(t)
    BY <1>1, TypedTurn DEF CallIds
  <1>3. ~IsFinish(t[i].tool) => From(t, i + 1) = After(t, i)
    <2> SUFFICES ASSUME ~IsFinish(t[i].tool) PROVE From(t, i + 1) = After(t, i)
      OBVIOUS
    <2>1. \A j \in DOMAIN t : i + 1 <= j <=> i < j
      BY <1>1
    <2>2. \A j \in DOMAIN t : NoFinish(t, i + 1, j) <=> NoFinish(t, i, j)
      BY <1>1 DEF NoFinish
    <2> QED
      BY <2>1, <2>2 DEF From, After
  <1>4. IsFinish(t[i].tool) => After(t, i) = {} /\ Rest(t, i + 1) \subseteq Here(t, i)
    <2> SUFFICES ASSUME IsFinish(t[i].tool) PROVE After(t, i) = {} /\ Rest(t, i + 1) \subseteq Here(t, i)
      OBVIOUS
    <2>1. \A j \in DOMAIN t : i < j => ~NoFinish(t, i, j)
      BY <1>1 DEF NoFinish
    <2>2. \A j \in DOMAIN t : i + 1 <= j => i < j /\ i <= j
      BY <1>1
    <2> QED
      BY <2>1, <2>2 DEF After, Rest, Here
  <1>5. t[i].tool = "bad" => From(t, i) = From(t, i + 1)
    <2> SUFFICES ASSUME t[i].tool = "bad" PROVE From(t, i) = From(t, i + 1)
      OBVIOUS
    <2>1. ~IsFinish(t[i].tool)
      BY DEF IsFinish, CardOf
    <2>2. \A j \in DOMAIN t : (i + 1 <= j <=> i <= j /\ j # i)
      BY <1>1
    <2>3. \A j \in DOMAIN t : NoFinish(t, i + 1, j) <=> NoFinish(t, i, j)
      BY <1>1, <2>1 DEF NoFinish
    <2> QED
      BY <2>2, <2>3 DEF From
  <1>6. t[i].tool # "bad" => t[i].id \in From(t, i)
    BY <1>1 DEF From, NoFinish
  <1>7. After(t, i) \subseteq From(t, i)
    BY <1>1 DEF After, From
  <1>8. t[i].id \in Here(t, i) /\ t[i].id \in Rest(t, i)
    BY <1>1 DEF Here, Rest
  <1>9. Rest(t, i + 1) \subseteq Rest(t, i)
    BY <1>1 DEF Rest
  <1> QED
    BY <1>1, <1>2, <1>3, <1>4, <1>5, <1>6, <1>7, <1>8, <1>9

\* The calls after an ask are those after its place in its turn.
LEMMA AfterTheAsk ==
  ASSUME NEW of, NEW t \in Turns(of), NEW i \in DOMAIN t
  PROVE  of[t[i].id] = t /\ AskRest(of, t[i].id) = From(t, i + 1)
  BY DEF Turns, AskRest

\* More calls leave the turns known so far alone.
LEMMA MoreTurns ==
  ASSUME NEW of, NEW all, DOMAIN of \subseteq DOMAIN all, \A x \in DOMAIN of : all[x] = of[x]
  PROVE  /\ Turns(of) \subseteq Turns(all)
         /\ \A ask \in DOMAIN of : AskRest(all, ask) = AskRest(of, ask)
  <1>1. Seq([id : DOMAIN of, tool : STRING]) \subseteq Seq([id : DOMAIN all, tool : STRING])
    BY WiderTurns
  <1>2. ASSUME NEW t \in Turns(of)
        PROVE  t \in Turns(all)
    <2>1. \A k \in DOMAIN t : t[k].id \in DOMAIN of
      BY TypedTurn DEF Turns
    <2> QED
      BY <1>1, <2>1 DEF Turns
  <1> QED
    BY <1>2 DEF AskRest

\* What a frame may begin or log is its own, and it logs nothing it may still begin.
LEMMA FrameCalls ==
  ASSUME NEW of, NEW f, FrameX(f, of)
  PROVE  /\ Later(f) \subseteq CallIds(f.turn) /\ Open(f) \subseteq CallIds(f.turn)
         /\ CallIds(f.turn) \subseteq Own(f) /\ OwnSaved(f) \subseteq Own(f)
         /\ Later(f) \cap Open(f) = {} /\ AheadOf(f.pend) \cap Open(f) = {} /\ AheadOf(f.pend) \subseteq OwnSaved(f)
         /\ Own(f) \subseteq DOMAIN of
  <1>1. f.turn \in Turns(of) /\ f.idx \in Nat /\ f.idx + 1 \in Nat /\ AheadOf(f.pend) \subseteq Later(f)
    BY DEF FrameX
  <1>2. Later(f) \subseteq CallIds(f.turn) /\ Open(f) \subseteq CallIds(f.turn)
    BY <1>1, Parts DEF Later, Open
  <1>3. Later(f) \cap Open(f) = {}
    BY <1>1, Parts DEF Later, Open, OnACall
  <1>4. AheadOf(f.pend) \subseteq CallIds(f.pend.calls)
    BY DEF AheadOf, After, CallIds
  <1>5. \A t \in Turns(of) : CallIds(t) \subseteq DOMAIN of
    BY Parts
  <1>6. Own(f) \subseteq DOMAIN of
    BY <1>1, <1>5 DEF Own, OwnSaved, FrameX, SavedTurns
  <1> QED
    BY <1>1, <1>2, <1>3, <1>4, <1>6 DEF Own, OwnSaved

-----------------------------------------------------------------------------
(* The log.                                                                *)

\* The log is a bag of events.
LEMMA HeardOf ==
  ASSUME NEW lg, NEW x \in Nat
  PROVE  /\ x \in Ended(lg) <=> Terminal(<<"tool", x>>) \in DOMAIN lg
         /\ x \in Touched(lg) <=> \/ Start(<<"tool", x>>) \in DOMAIN lg
                                  \/ Terminal(<<"tool", x>>) \in DOMAIN lg
  <1> DEFINE inv == <<"tool", x>>
  <1>1. Start(inv)[2] = inv /\ Terminal(inv)[2] = inv
    BY DEF Start, Terminal
  <1> HIDE DEF inv
  <1>2. inv \in StartedIn(lg) <=> Start(inv) \in DOMAIN lg
    BY <1>1 DEF StartedIn, BagToSet, BagIn
  <1>3. inv \in TerminatedIn(lg) <=> Terminal(inv) \in DOMAIN lg
    BY <1>1 DEF TerminatedIn, BagToSet, BagIn
  <1> QED
    BY <1>2, <1>3 DEF Ended, Touched, inv

\* An event that is logged is in the log, with all that was.
LEMMA LoggedHas ==
  ASSUME NEW lg, NEW events
  PROVE  DOMAIN Logged(lg, events) = DOMAIN lg \cup events
  BY DEF Logged, SetToBag, (+)

\* Events of roles, of interrupts and of generated ids tell nothing of a call.
LEMMA LogsNoCall ==
  ASSUME NEW lg, NEW events,
         \A x \in Nat : Start(<<"tool", x>>) \notin events /\ Terminal(<<"tool", x>>) \notin events
  PROVE  Touched(Logged(lg, events)) = Touched(lg) /\ Ended(Logged(lg, events)) = Ended(lg)
  <1> DEFINE more == Logged(lg, events)
  <1>1. DOMAIN more = DOMAIN lg \cup events
    BY LoggedHas
  <1> HIDE DEF more
  <1>2. \A x \in Nat : (x \in Touched(more) <=> x \in Touched(lg)) /\ (x \in Ended(more) <=> x \in Ended(lg))
    BY <1>1, HeardOf
  <1> QED
    BY <1>2 DEF Touched, Ended, more

\* Events of one call.
LEMMA LogsACall ==
  ASSUME NEW lg, NEW events, NEW c, events \subseteq {Start(<<"tool", c>>), Terminal(<<"tool", c>>)}
  PROVE  /\ Touched(lg) \subseteq Touched(Logged(lg, events))
         /\ Touched(Logged(lg, events)) \subseteq Touched(lg) \cup {c}
         /\ Terminal(<<"tool", c>>) \notin events => Ended(Logged(lg, events)) = Ended(lg)
         /\ c \in Nat /\ events # {} => c \in Touched(Logged(lg, events))
  <1> DEFINE more == Logged(lg, events)
  <1>1. DOMAIN more = DOMAIN lg \cup events
    BY LoggedHas
  <1> HIDE DEF more
  <1>2. \A x \in Nat : x # c => Start(<<"tool", x>>) \notin events /\ Terminal(<<"tool", x>>) \notin events
    BY DEF Start, Terminal
  <1>3. \A x : Start(<<"tool", x>>) # Terminal(<<"tool", c>>)
    BY DEF Start, Terminal
  <1>4. \A x \in Nat : /\ x \in Touched(lg) => x \in Touched(more)
                       /\ x \in Touched(more) /\ x # c => x \in Touched(lg)
    BY <1>1, <1>2, HeardOf
  <1>5. Terminal(<<"tool", c>>) \notin events => Ended(more) = Ended(lg)
    <2> SUFFICES ASSUME Terminal(<<"tool", c>>) \notin events
                 PROVE  \A x \in Nat : x \in Ended(more) <=> x \in Ended(lg)
      BY DEF Ended
    <2>1. \A x \in Nat : Terminal(<<"tool", x>>) \notin events
      BY <1>2
    <2> QED
      BY <1>1, <2>1, HeardOf
  <1>6. c \in Nat /\ events # {} => c \in Touched(more)
    BY <1>1, HeardOf
  <1> QED
    BY <1>4, <1>5, <1>6 DEF Touched, more

\* The log of a call that is begun.
LEMMA LogsStart ==
  ASSUME NEW lg, NEW c \in Nat
  PROVE  /\ Touched(lg) \subseteq Touched(Logged(lg, {Start(<<"tool", c>>)}))
         /\ Touched(Logged(lg, {Start(<<"tool", c>>)})) \subseteq Touched(lg) \cup {c}
         /\ Ended(Logged(lg, {Start(<<"tool", c>>)})) = Ended(lg)
         /\ c \in Touched(Logged(lg, {Start(<<"tool", c>>)}))
  <1>1. Terminal(<<"tool", c>>) \notin {Start(<<"tool", c>>)}
    BY DEF Start, Terminal
  <1> QED
    BY <1>1, LogsACall

-----------------------------------------------------------------------------
(* What stands of a run when its frames move on.                           *)

\* A frame moves on: it becomes answerable for nothing more, and begins nothing.
Advances(f, g, of) ==
  /\ FrameX(g, of) /\ g.hand = f.hand
  /\ Own(g) \subseteq Own(f) /\ Later(g) \subseteq Later(f) /\ Open(g) \subseteq Open(f)

AllAdvance(st, tt, of) == DOMAIN tt \subseteq DOMAIN st /\ \A k \in DOMAIN tt : Advances(st[k], tt[k], of)

\* What a frame is about to log, no frame is about to begin.
LEMMA Unlogged ==
  ASSUME NEW of, NEW st, NEW touched, StackX(st, of, touched), NEW i \in DOMAIN st, NEW k \in DOMAIN st
  PROVE  Later(st[k]) \cap Open(st[i]) = {}
  <1>1. FrameX(st[k], of) /\ FrameX(st[i], of)
    BY DEF StackX
  <1>2. CASE k = i
    BY <1>1, <1>2, FrameCalls
  <1>3. CASE k # i
    <2>1. Own(st[k]) \cap Own(st[i]) = {}
      BY <1>3 DEF StackX
    <2>2. Later(st[k]) \subseteq Own(st[k]) /\ Open(st[i]) \subseteq Own(st[i])
      BY <1>1, FrameCalls
    <2> QED
      BY <2>1, <2>2
  <1> QED
    BY <1>2, <1>3

\* Frames move on, some may be gone, and the log may hear of what one of them was about
\* to log: everything stands.
LEMMA Moves ==
  ASSUME NEW of, NEW st, NEW tt, NEW p, NEW q, NEW c, NEW touched, NEW more, NEW i \in DOMAIN st,
         Standing(st, p, c, of, touched), AllAdvance(st, tt, of), q.ask = p.ask,
         touched \subseteq more, more \subseteq touched \cup Open(st[i])
  PROVE  Standing(tt, q, c, of, more)
  <1>1. StackX(st, of, touched) /\ Apart(st, Ahead(c, of)) /\ DiskX(c, of, touched) /\ ParkX(p, st, of, touched)
    BY DEF Standing
  <1>2. /\ DOMAIN tt \subseteq DOMAIN st
        /\ \A k \in DOMAIN tt : FrameX(tt[k], of) /\ tt[k].hand = st[k].hand /\ Own(tt[k]) \subseteq Own(st[k])
        /\ \A k \in DOMAIN tt : Later(tt[k]) \subseteq Later(st[k]) /\ Open(tt[k]) \subseteq Open(st[k])
    BY DEF AllAdvance, Advances
  <1>3. StackX(tt, of, more)
    <2>1. ASSUME NEW k \in DOMAIN tt
          PROVE  Later(tt[k]) \cap more = {}
      <3>1. k \in DOMAIN st
        BY <1>2
      <3>2. Later(st[k]) \cap touched = {}
        BY <1>1, <3>1 DEF StackX
      <3>3. Later(st[k]) \cap Open(st[i]) = {}
        BY <1>1, <3>1, Unlogged
      <3> QED
        BY <1>2, <3>2, <3>3
    <2>2. ASSUME NEW j \in DOMAIN tt, NEW k \in DOMAIN tt, j # k
          PROVE  Own(tt[j]) \cap Own(tt[k]) = {}
      <3>1. Own(st[j]) \cap Own(st[k]) = {}
        BY <1>1, <1>2, <2>2 DEF StackX
      <3> QED
        BY <1>2, <3>1
    <2> QED
      BY <1>2, <2>1, <2>2 DEF StackX
  <1>4. Apart(tt, Ahead(c, of))
    <2> SUFFICES ASSUME NEW k \in DOMAIN tt
                 PROVE  Open(tt[k]) \cap Ahead(c, of) = {} /\ (tt[k].hand => Own(tt[k]) \cap Ahead(c, of) = {})
      BY DEF Apart
    <2>1. Open(st[k]) \cap Ahead(c, of) = {} /\ (st[k].hand => Own(st[k]) \cap Ahead(c, of) = {})
      BY <1>1, <1>2 DEF Apart
    <2> QED
      BY <1>2, <2>1
  <1>5. DiskX(c, of, more)
    <2>1. Open(st[i]) \cap Ahead(c, of) = {}
      BY <1>1 DEF Apart
    <2>2. Ahead(c, of) \cap touched = {} /\ (c.ask # 0 => c.ask \in touched)
      BY <1>1 DEF DiskX
    <2>3. Ahead(c, of) \cap more = {} /\ (c.ask # 0 => c.ask \in more)
      BY <2>1, <2>2
    <2> QED
      BY <1>1, <2>3 DEF DiskX
  <1>6. ParkX(q, tt, of, more)
    <2> SUFFICES ASSUME p.ask # 0
                 PROVE  /\ p.ask \in more /\ AskRest(of, p.ask) \cap more = {}
                        /\ \A k \in DOMAIN tt : Open(tt[k]) \cap AskRest(of, p.ask) = {}
      BY DEF ParkX
    <2>1. /\ p.ask \in touched /\ AskRest(of, p.ask) \cap touched = {}
          /\ \A k \in DOMAIN st : Open(st[k]) \cap AskRest(of, p.ask) = {}
      BY <1>1 DEF ParkX
    <2>2. p.ask \in more /\ AskRest(of, p.ask) \cap more = {}
      BY <2>1
    <2>3. ASSUME NEW k \in DOMAIN tt
          PROVE  Open(tt[k]) \cap AskRest(of, p.ask) = {}
      BY <1>2, <2>1
    <2> QED
      BY <2>2, <2>3
  <1> QED
    BY <1>3, <1>4, <1>5, <1>6 DEF Standing

\* What the working roles' frames have on disk.
LEMMA Saves ==
  ASSUME NEW of, NEW st, NEW p, NEW c, NEW touched, StackX(st, of, touched), ParkX(p, st, of, touched),
         c.frames = WorkFrames(st), c.ask = p.ask
  PROVE  DiskX(c, of, touched)
  <1>1. DOMAIN c.frames \subseteq DOMAIN st /\ \A k \in DOMAIN c.frames : c.frames[k] = serializeFrame(st[k])
    BY DEF WorkFrames
  <1>2. \A f : serializeFrame(f).hist = f.hist /\ serializeFrame(f).pend = f.pend
    BY DEF serializeFrame
  <1>3. \A k \in DOMAIN c.frames : c.frames[k].hist = st[k].hist /\ c.frames[k].pend = st[k].pend
    BY <1>1, <1>2
  <1>4. \A k \in DOMAIN c.frames : OwnSaved(c.frames[k]) = OwnSaved(st[k])
    BY <1>3 DEF OwnSaved
  <1>5. ASSUME NEW k \in DOMAIN c.frames
        PROVE  SavedTurns(c.frames[k], of) /\ AheadOf(c.frames[k].pend) \cap touched = {}
    <2>1. FrameX(st[k], of) /\ Later(st[k]) \cap touched = {}
      BY <1>1 DEF StackX
    <2> QED
      BY <1>3, <2>1 DEF FrameX, SavedTurns
  <1>6. ASSUME NEW i \in DOMAIN c.frames, NEW j \in DOMAIN c.frames, i # j
        PROVE  OwnSaved(c.frames[i]) \cap OwnSaved(c.frames[j]) = {}
    <2>1. i \in DOMAIN st /\ j \in DOMAIN st
      BY <1>1
    <2>2. Own(st[i]) \cap Own(st[j]) = {}
      BY <2>1, <1>6 DEF StackX
    <2>3. OwnSaved(st[i]) \subseteq Own(st[i]) /\ OwnSaved(st[j]) \subseteq Own(st[j])
      BY DEF Own
    <2> QED
      BY <1>4, <2>2, <2>3
  <1>7. c.ask # 0 => c.ask \in touched /\ AskRest(of, c.ask) \cap touched = {}
    BY DEF ParkX
  <1>8. Ahead(c, of) \cap touched = {}
    BY <1>5, <1>7 DEF Ahead
  <1> QED
    BY <1>5, <1>6, <1>7, <1>8 DEF DiskX

\* The same frames on disk, with the park tracker's question.
LEMMA SavesAgain ==
  ASSUME NEW of, NEW st, NEW p, NEW c, NEW d, NEW touched, DiskX(d, of, touched), ParkX(p, st, of, touched),
         c.frames = d.frames, c.ask = p.ask
  PROVE  DiskX(c, of, touched)
  <1>1. /\ \A k \in DOMAIN c.frames : SavedTurns(c.frames[k], of)
        /\ \A i, j \in DOMAIN c.frames : i # j => OwnSaved(c.frames[i]) \cap OwnSaved(c.frames[j]) = {}
        /\ Ahead(d, of) \cap touched = {}
    BY DEF DiskX
  <1>2. c.ask # 0 => c.ask \in touched /\ AskRest(of, c.ask) \cap touched = {}
    BY DEF ParkX
  <1>3. \A k \in DOMAIN c.frames : AheadOf(c.frames[k].pend) \cap touched = {}
    BY <1>1 DEF Ahead
  <1>4. Ahead(c, of) \cap touched = {}
    BY <1>2, <1>3 DEF Ahead
  <1> QED
    BY <1>1, <1>2, <1>4 DEF DiskX

\* After a checkpoint of all the frames everything stands.
LEMMA Writes ==
  ASSUME NEW of, NEW st, NEW p, NEW c, NEW touched, StackX(st, of, touched), ParkX(p, st, of, touched),
         \A k \in DOMAIN st : ~st[k].hand, c.frames = WorkFrames(st), c.ask = p.ask
  PROVE  Standing(st, p, c, of, touched)
  <1>1. DiskX(c, of, touched)
    BY Saves
  <1>2. DOMAIN c.frames \subseteq DOMAIN st /\ \A k \in DOMAIN c.frames : c.frames[k] = serializeFrame(st[k])
    BY DEF WorkFrames
  <1>3. \A f : serializeFrame(f).pend = f.pend
    BY DEF serializeFrame
  <1>4. \A k \in DOMAIN c.frames : k \in DOMAIN st /\ c.frames[k].pend = st[k].pend
    BY <1>2, <1>3
  <1>5. ASSUME NEW k \in DOMAIN st, NEW j \in DOMAIN c.frames
        PROVE  Open(st[k]) \cap AheadOf(c.frames[j].pend) = {}
    <2>1. FrameX(st[j], of) /\ Later(st[j]) \cap Open(st[k]) = {}
      BY <1>4, Unlogged DEF StackX
    <2> QED
      BY <1>4, <2>1 DEF FrameX
  <1>6. \A k \in DOMAIN st : c.ask # 0 => Open(st[k]) \cap AskRest(of, c.ask) = {}
    BY DEF ParkX
  <1>7. \A k \in DOMAIN st : Open(st[k]) \cap Ahead(c, of) = {}
    BY <1>5, <1>6 DEF Ahead
  <1> QED
    BY <1>1, <1>7 DEF Standing, Apart

-----------------------------------------------------------------------------
(* Frames.                                                                 *)

Fields == {"id", "hand", "hist", "pend", "press", "comp", "tries", "calls", "mark", "abort", "inject",
           "pc", "turn", "idx", "val", "note", "mode", "trig", "intr", "action"}

Shaped(f) == DOMAIN f = Fields /\ \E S : f.hist \in Seq(S)

\* What the invariant looks at of a frame but its point in the loop is the same, or less.
Keeps(f, g) ==
  /\ Shaped(g) /\ g.hand = f.hand /\ g.pend = f.pend /\ g.turn = f.turn /\ g.idx = f.idx /\ g.mode = f.mode
  /\ HistTurns(g.hist) \subseteq HistTurns(f.hist)

\* A frame of the invariant has the fields of one.
LEMMA FrameShaped ==
  ASSUME NEW tools, NEW w, NEW f \in FrameType(tools, w)
  PROVE  Shaped(f) /\ Keeps(f, f)
  BY DEF Shaped, Keeps, FrameType, Fields

\* Changes that keep a frame's calls keep them one after the other.
LEMMA KeepsOn ==
  ASSUME NEW f, NEW g, NEW h, Keeps(f, g), Keeps(g, h)
  PROVE  Keeps(f, h)
  BY DEF Keeps

\* A frame whose calls are kept has the fields of one.
LEMMA Kept ==
  ASSUME NEW f, NEW g, Keeps(f, g)
  PROVE  Shaped(g)
  BY DEF Keeps

\* A message that is no turn adds no turn.
LEMMA PushedTurns ==
  ASSUME NEW S, NEW h \in Seq(S), NEW x
  PROVE  /\ HistTurns(Append(h, x)) \subseteq HistTurns(h) \cup (IF x.m = "assistant" THEN {x.calls} ELSE {})
         /\ Append(h, x) \in Seq(S \cup {x})
  <1> DEFINE g == Append(h, x)
  <1>1. h \in Seq(S \cup {x})
    OBVIOUS
  <1>2. /\ g \in Seq(S \cup {x}) /\ DOMAIN g = 1 .. Len(h) + 1 /\ DOMAIN h = 1 .. Len(h) /\ Len(h) \in Nat
        /\ \A i \in 1 .. Len(h) : g[i] = h[i]
        /\ g[Len(h) + 1] = x
    BY <1>1
  <1> HIDE DEF g
  <1>3. \A i \in DOMAIN g : (i \in DOMAIN h /\ g[i] = h[i]) \/ g[i] = x
    BY <1>2
  <1> QED
    BY <1>2, <1>3 DEF HistTurns, g

\* A field that says nothing of its calls may change.
LEMMA FieldKept ==
  ASSUME NEW f, Shaped(f), NEW v
  PROVE  /\ Keeps(f, [f EXCEPT !.pc = v]) /\ [f EXCEPT !.pc = v].pc = v
         /\ Keeps(f, [f EXCEPT !.press = v]) /\ [f EXCEPT !.press = v].pc = f.pc
         /\ Keeps(f, [f EXCEPT !.comp = v]) /\ [f EXCEPT !.comp = v].pc = f.pc
         /\ Keeps(f, [f EXCEPT !.tries = v]) /\ [f EXCEPT !.tries = v].pc = f.pc
         /\ Keeps(f, [f EXCEPT !.calls = v]) /\ [f EXCEPT !.calls = v].pc = f.pc
         /\ Keeps(f, [f EXCEPT !.mark = v]) /\ [f EXCEPT !.mark = v].pc = f.pc
         /\ Keeps(f, [f EXCEPT !.abort = v]) /\ [f EXCEPT !.abort = v].pc = f.pc
         /\ Keeps(f, [f EXCEPT !.inject = v]) /\ [f EXCEPT !.inject = v].pc = f.pc
         /\ Keeps(f, [f EXCEPT !.val = v]) /\ [f EXCEPT !.val = v].pc = f.pc
         /\ Keeps(f, [f EXCEPT !.note = v]) /\ [f EXCEPT !.note = v].pc = f.pc
         /\ Keeps(f, [f EXCEPT !.trig = v]) /\ [f EXCEPT !.trig = v].pc = f.pc
         /\ Keeps(f, [f EXCEPT !.intr = v]) /\ [f EXCEPT !.intr = v].pc = f.pc
         /\ Keeps(f, [f EXCEPT !.action = v]) /\ [f EXCEPT !.action = v].pc = f.pc
  BY DEF Shaped, Keeps, Fields

\* A message that is no turn of the model adds no call to a frame.
LEMMA PushKept ==
  ASSUME NEW f, Shaped(f)
  PROVE  /\ \A what : Keeps(f, Push(f, UserMessage(what))) /\ Push(f, UserMessage(what)).pc = f.pc
         /\ \A id, val : Keeps(f, Push(f, ToolMessage(id, val))) /\ Push(f, ToolMessage(id, val)).pc = f.pc
  <1>1. ASSUME NEW x, x.m # "assistant"
        PROVE  Keeps(f, Push(f, x)) /\ Push(f, x).pc = f.pc
    <2> DEFINE h == Append(f.hist, x)
    <2>1. PICK S : f.hist \in Seq(S)
      BY DEF Shaped
    <2>2. HistTurns(h) \subseteq HistTurns(f.hist) /\ h \in Seq(S \cup {x})
      BY <1>1, <2>1, PushedTurns
    <2>3. Push(f, x) = [f EXCEPT !.hist = h]
      BY DEF Push
    <2> HIDE DEF h
    <2> QED
      BY <2>2, <2>3 DEF Keeps, Shaped, Fields
  <1>2. \A what : UserMessage(what).m # "assistant"
    BY DEF UserMessage
  <1>3. \A id, val : ToolMessage(id, val).m # "assistant"
    BY DEF ToolMessage
  <1> QED
    BY <1>1, <1>2, <1>3

\* The changes of a frame that leave it where it is in its turn.
LEMMA ChangeKept ==
  ASSUME NEW f, Shaped(f)
  PROVE  /\ \A l : Keeps(f, Goto(f, l)) /\ Goto(f, l).pc = l
         /\ \A card : Keeps(f, EndWith(f, card)) /\ EndWith(f, card).pc = "end"
         /\ \A val : Keeps(f, Settled(f, val)) /\ Settled(f, val).pc = "res"
         /\ Keeps(f, Noted(f)) /\ Noted(f).pc = f.pc
         /\ Keeps(f, Injected(f)) /\ Injected(f).pc = f.pc
  <1>1. Keeps(f, f)
    BY DEF Keeps
  <1>2. \A l : Keeps(f, Goto(f, l)) /\ Goto(f, l).pc = l
    BY DEF Shaped, Keeps, Fields, Goto
  <1>3. \A card : Keeps(f, EndWith(f, card)) /\ EndWith(f, card).pc = "end"
    BY DEF Shaped, Keeps, Fields, EndWith
  <1>4. \A val : Keeps(f, Settled(f, val)) /\ Settled(f, val).pc = "res"
    BY DEF Shaped, Keeps, Fields, Settled
  <1>5. Keeps(f, Noted(f)) /\ Noted(f).pc = f.pc
    <2> DEFINE g == Push(f, UserMessage("note"))
    <2>1. Keeps(f, g) /\ g.pc = f.pc /\ Shaped(g)
      BY PushKept DEF Keeps
    <2> HIDE DEF g
    <2>2. Keeps(f, [g EXCEPT !.note = FALSE]) /\ [g EXCEPT !.note = FALSE].pc = f.pc
      BY <2>1 DEF Shaped, Keeps, Fields
    <2> QED
      BY <1>1, <2>2 DEF Noted, g
  <1>6. Keeps(f, Injected(f)) /\ Injected(f).pc = f.pc
    <2> DEFINE g == Push(f, UserMessage("plan"))
    <2>1. Keeps(f, g) /\ g.pc = f.pc /\ Shaped(g)
      BY PushKept DEF Keeps
    <2> HIDE DEF g
    <2>2. Keeps(f, [g EXCEPT !.inject = FALSE]) /\ [g EXCEPT !.inject = FALSE].pc = f.pc
      BY <2>1 DEF Shaped, Keeps, Fields
    <2> QED
      BY <1>1, <2>2 DEF Injected, g
  <1> QED
    BY <1>2, <1>3, <1>4, <1>5, <1>6

\* Where a frame has calls of a turn before it.
Busy == OnACall \cup {"disp", "settle", "closing"}

\* A frame between turns has nothing before it.
LEMMA Idle ==
  ASSUME NEW f, f.pc \notin Busy
  PROVE  Later(f) = {} /\ Open(f) = {} /\ \A of : FrameX(f, of) => AheadOf(f.pend) = {} /\ f.mode # "child"
  <1>1. Later(f) = {} /\ Open(f) = {}
    BY DEF Busy, Later, Open
  <1> QED
    BY <1>1 DEF FrameX, Busy, OnACall

\* A frame that comes to rest has moved on.
LEMMA ComesToRest ==
  ASSUME NEW of, NEW f, NEW g, FrameX(f, of), g.hand = f.hand, HistTurns(g.hist) \subseteq HistTurns(f.hist),
         g.pend = f.pend \/ g.pend = NoPending, AheadOf(g.pend) = {}, g.turn = f.turn \/ g.turn = << >>,
         g.idx \in Nat, g.pc \notin Busy, g.mode # "child"
  PROVE  Advances(f, g, of)
  <1>1. /\ HistTurns(f.hist) \subseteq Turns(of) /\ f.pend.calls \in Turns(of) /\ f.turn \in Turns(of)
    BY DEF FrameX, SavedTurns
  <1>2. g.pend.calls \in Turns(of) /\ g.turn \in Turns(of)
    BY <1>1, NoTurn
  <1>3. CallIds(g.pend.calls) \subseteq CallIds(f.pend.calls) /\ CallIds(g.turn) \subseteq CallIds(f.turn)
    BY NoTurn
  <1>4. Own(g) \subseteq Own(f)
    BY <1>3 DEF Own, OwnSaved
  <1>5. FrameX(g, of)
    BY <1>1, <1>2 DEF FrameX, SavedTurns
  <1> QED
    BY <1>4, <1>5, Idle DEF Advances

\* A frame that is on no call stays apart from every call while it is on none.
LEMMA IdleAdvance ==
  ASSUME NEW of, NEW f, NEW g, FrameX(f, of), f.pc \notin Busy, Keeps(f, g), g.pc \notin Busy
  PROVE  Advances(f, g, of)
  BY Idle, ComesToRest DEF Keeps, FrameX

\* A frame that stays where it is in its turn.
LEMMA StaysAdvance ==
  ASSUME NEW of, NEW f, NEW g, FrameX(f, of), Keeps(f, g), g.pc = f.pc
  PROVE  Advances(f, g, of)
  <1>1. Own(g) \subseteq Own(f)
    BY DEF Keeps, Own, OwnSaved
  <1>2. Later(g) = Later(f) /\ Open(g) = Open(f)
    BY DEF Keeps, Later, Open
  <1>3. Call(g) = Call(f)
    BY DEF Keeps, Call, Batch
  <1>4. FrameX(g, of)
    BY <1>2, <1>3 DEF Keeps, FrameX, SavedTurns
  <1> QED
    BY <1>1, <1>2, <1>4 DEF Advances, Keeps

-----------------------------------------------------------------------------
(* The shapes of a step.                                                   *)

\* What is known of the running frame.
LEMMA RunningX ==
  ASSUME NEW tools, EngineInv(tools), NEW of, ExecInv(of), NEW l, At(l)
  PROVE  /\ status = "running" /\ stack # << >> /\ Len(stack) \in Nat \ {0} /\ Len(stack) \in DOMAIN stack
         /\ Top = stack[Len(stack)] /\ Top \in Frames(tools, park.wrote) /\ Top \in FrameType(tools, park.wrote)
         /\ Top.pc = l /\ Shaped(Top) /\ Keeps(Top, Top) /\ FrameX(Top, of)
         /\ \A k \in DOMAIN stack : k # Len(stack) => stack[k].pc \in {"wait", "wait handler"}
         /\ DOMAIN stack = 1 .. Len(stack)
  <1>1. /\ stack # << >> /\ Top \in Frames(tools, park.wrote) /\ Top \in FrameType(tools, park.wrote)
        /\ Top.pc = l /\ StackOK(stack, tools, park.wrote)
    BY Running
  <1>2. status = "running"
    BY DEF At
  <1>3. Len(stack) \in Nat \ {0} /\ Len(stack) \in DOMAIN stack /\ Top = stack[Len(stack)]
    BY <1>1, TopOK
  <1>4. FrameX(Top, of)
    BY <1>3 DEF ExecInv, Standing, StackX
  <1>5. DOMAIN stack = 1 .. Len(stack)
    BY <1>1 DEF StackOK
  <1>6. \A k \in DOMAIN stack : k # Len(stack) => stack[k].pc \in {"wait", "wait handler"}
    <2>1. \A k \in DOMAIN stack : k # Len(stack) => k < Len(stack)
      BY <1>3, <1>5
    <2>2. Waits(stack)
      BY <1>1 DEF StackOK
    <2> QED
      BY <2>1, <2>2 DEF Waits
  <1> QED
    BY <1>1, <1>2, <1>3, <1>4, <1>5, <1>6, FrameShaped

\* The frames move on; the log hears at most of what one was about to log.
LEMMA AdvanceStep ==
  ASSUME NEW of, ExecInv(of), NEW i \in DOMAIN stack, AllAdvance(stack, stack', of), Fresh(stack', log'),
         Touched(log) \subseteq Touched(log'), Touched(log') \subseteq Touched(log) \cup Open(stack[i]),
         used'.tools = used.tools, status' = status, disk' = disk, park'.ask = park.ask,
         park.question => park'.question, rec'.pre = rec.pre, rec'.frozen = rec.frozen, Counted(ran')
  PROVE  ExecInv(of)'
  <1>1. Standing(stack, park, disk, of, Touched(log)) /\ Touched(log) \subseteq DOMAIN of
    BY DEF ExecInv
  <1>2. Standing(stack', park', disk', of, Touched(log'))
    BY <1>1, Moves
  <1>3. Open(stack[i]) \subseteq DOMAIN of
    <2>1. FrameX(stack[i], of)
      BY <1>1 DEF Standing, StackX
    <2> QED
      BY <2>1, FrameCalls
  <1>4. RecX(rec', disk', park', status')
    BY DEF ExecInv, RecX
  <1> QED
    BY <1>1, <1>2, <1>3, <1>4 DEF ExecInv

\* Only the running frame moves.
LEMMA PutAdvances ==
  ASSUME NEW tools, EngineInv(tools), NEW of, ExecInv(of), NEW l, At(l), NEW g, Advances(Top, g, of), NEW lg,
         g.pc \in {"start", "exec"} => Call(g).id \notin Ended(lg)
  PROVE  AllAdvance(stack, Put(g), of) /\ Fresh(Put(g), lg)
  <1>1. /\ Top = stack[Len(stack)] /\ Len(stack) \in DOMAIN stack
        /\ \A k \in DOMAIN stack : k # Len(stack) => stack[k].pc \in {"wait", "wait handler"}
    BY RunningX
  <1>2. /\ DOMAIN Put(g) = DOMAIN stack /\ Put(g)[Len(stack)] = g
        /\ \A k \in DOMAIN stack : k # Len(stack) => Put(g)[k] = stack[k]
    BY <1>1 DEF Put
  <1>3. \A k \in DOMAIN stack : Advances(stack[k], stack[k], of)
    BY DEF ExecInv, Standing, StackX, Advances
  <1>4. AllAdvance(stack, Put(g), of)
    BY <1>1, <1>2, <1>3 DEF AllAdvance
  <1>5. Fresh(Put(g), lg)
    BY <1>1, <1>2 DEF Fresh
  <1> QED
    BY <1>4, <1>5

\* The running frame moves on and nothing is written.
LEMMA MoveX ==
  ASSUME NEW tools, EngineInv(tools), NEW of, ExecInv(of), NEW l, At(l), NEW g, Advances(Top, g, of),
         g.pc \in {"start", "exec"} => Call(g).id \notin Ended(log'), stack' = Put(g),
         Touched(log) \subseteq Touched(log'), Touched(log') \subseteq Touched(log) \cup Open(Top),
         used'.tools = used.tools, status' = status, disk' = disk, park'.ask = park.ask,
         park.question => park'.question, rec'.pre = rec.pre, rec'.frozen = rec.frozen, Counted(ran')
  PROVE  ExecInv(of)'
  <1>1. Top = stack[Len(stack)] /\ Len(stack) \in DOMAIN stack
    BY RunningX
  <1>2. AllAdvance(stack, stack', of) /\ Fresh(stack', log')
    BY PutAdvances
  <1> QED
    BY <1>1, <1>2, AdvanceStep

\* A write of a stack that stands.
LEMMA WriteX ==
  ASSUME NEW tools, EngineInv(tools), NEW of, NEW touched, NEW st, NEW r, RecOK(r, tools, park.wrote),
         StackX(st, of, touched), ParkX(park, st, of, touched), RecX(r, disk, park, "running"),
         Writable("ordinary", r, st) \/ (Apart(st, Ahead(disk, of)) /\ DiskX(disk, of, touched)),
         Write("ordinary", st, r, park)
  PROVE  Standing(stack', park', disk', of, touched) /\ RecX(rec', disk', park', "running")
  <1> DEFINE c == Checkpoint("ordinary", r, st, park)
             pre == PreInterlude("ordinary", r, c)
  <1>1. stack' = st /\ park' = park
    BY DEF Write
  <1>2. CASE Writable("ordinary", r, st)
    <2>1. c.frames = WorkFrames(st) /\ c.ask = park.ask
      BY DEF Checkpoint
    <2>2. \A k \in DOMAIN st : ~st[k].hand
      BY <1>2 DEF Writable, HasHandler
    <2>3. pre \in {<< >>, c.frames}
      BY DEF PreInterlude
    <2>4. disk' = c /\ rec' = [r EXCEPT !.pre = pre]
      BY <1>2 DEF Write
    <2> HIDE DEF c, pre
    <2>5. Standing(st, park, c, of, touched)
      BY <2>1, <2>2, Writes
    <2>6. rec'.pre = pre /\ rec'.frozen = r.frozen
      BY <2>4 DEF RecOK
    <2> QED
      BY <1>1, <2>3, <2>4, <2>5, <2>6 DEF RecX
  <1>3. CASE ~Writable("ordinary", r, st)
    <2>1. disk' = disk /\ rec' = r
      BY <1>3 DEF Write
    <2> QED
      BY <1>1, <1>3, <2>1 DEF Standing
  <1> QED
    BY <1>2, <1>3

\* The running frame moves on with an ordinary write.
LEMMA MoveWriteX ==
  ASSUME NEW tools, EngineInv(tools), NEW of, ExecInv(of), NEW l, At(l), NEW g, Advances(Top, g, of),
         g.pc \notin {"start", "exec"}, NEW r, RecOK(r, tools, park.wrote), r.pre = rec.pre, r.frozen = rec.frozen,
         Write("ordinary", Put(g), r, park), UNCHANGED <<status, log, ran, used>>
  PROVE  ExecInv(of)'
  <1>1. /\ Top = stack[Len(stack)] /\ Len(stack) \in DOMAIN stack /\ status = "running"
        /\ AllAdvance(stack, Put(g), of) /\ Fresh(Put(g), log)
    BY RunningX, PutAdvances
  <1>2. Standing(stack, park, disk, of, Touched(log)) /\ RecX(rec, disk, park, status)
    BY DEF ExecInv
  <1>3. Standing(Put(g), park, disk, of, Touched(log))
    BY <1>1, <1>2, Moves
  <1>4. RecX(r, disk, park, "running")
    BY <1>2 DEF RecX
  <1>5. Standing(stack', park', disk', of, Touched(log)) /\ RecX(rec', disk', park', "running")
    BY <1>3, <1>4, WriteX DEF Standing
  <1>6. stack' = Put(g)
    BY DEF Write
  <1> QED
    BY <1>1, <1>5, <1>6 DEF ExecInv

\* The run leaves the process.
LEMMA ForgetX ==
  ASSUME NEW of, ExecInv(of), Forget, DiskX(disk', of, Touched(log')), Touched(log') = Touched(log),
         used'.tools = used.tools, ran' = ran
  PROVE  ExecInv(of)'
  <1>1. /\ stack' = << >> /\ DOMAIN stack' = {} /\ park'.ask = 0
        /\ rec'.pre = << >> /\ rec'.frozen = FALSE
    BY DEF Forget, NewPark, NewRec
  <1>2. Standing(stack', park', disk', of, Touched(log'))
    BY <1>1 DEF Standing, StackX, Apart, ParkX
  <1>3. Fresh(stack', log') /\ RecX(rec', disk', park', status')
    BY <1>1 DEF Fresh, RecX
  <1> QED
    BY <1>2, <1>3 DEF ExecInv

\* Between turns the running frame moves on; the log hears of no call.
LEMMA IdleX ==
  ASSUME NEW tools, EngineInv(tools), NEW of, ExecInv(of), NEW l, At(l), l \notin Busy,
         NEW g, Keeps(Top, g), g.pc \notin Busy, stack' = Put(g), Touched(log') = Touched(log),
         used'.tools = used.tools, UNCHANGED <<status, disk, park, ran>>, rec'.pre = rec.pre, rec'.frozen = rec.frozen
  PROVE  ExecInv(of)'
  <1>1. Advances(Top, g, of)
    BY RunningX, IdleAdvance
  <1>2. g.pc \notin {"start", "exec"} /\ Counted(ran')
    BY DEF Busy, OnACall, ExecInv
  <1> QED
    BY <1>1, <1>2, MoveX

\* Every frame of the stack is a frame.
LEMMA AllShaped ==
  ASSUME NEW tools, EngineInv(tools)
  PROVE  \A k \in DOMAIN stack : Shaped(stack[k]) /\ Keeps(stack[k], stack[k])
  <1>1. stack \in Seq(Frames(tools, park.wrote))
    BY DEF EngineInv, StackOK
  <1>2. \A k \in DOMAIN stack : stack[k] \in Frames(tools, park.wrote)
    BY <1>1
  <1> QED
    BY <1>2, FrameShaped DEF Frames

-----------------------------------------------------------------------------
(* The loop top.                                                           *)

\* The park card.
LEMMA UnwindX ==
  ASSUME NEW tools, EngineInv(tools), NEW of, ExecInv(of), NEW l, At(l), park.question, NEW f,
         Advances(Top, EndWith(f, "park"), of), EndWith(f, "park").pc = "end",
         Unwind(f), UNCHANGED <<status, park, log, ran, used>>
  PROVE  ExecInv(of)'
  <1> DEFINE g == EndWith(f, "park")
             c == Checkpoint("ordinary", rec, stack', park)
             pre == PreInterlude("ordinary", rec, c)
  <1>1. /\ stack' = Put(g) /\ status = "running"
        /\ Top = stack[Len(stack)] /\ Len(stack) \in DOMAIN stack
    BY RunningX DEF Unwind
  <1> HIDE DEF g
  <1>2. AllAdvance(stack, stack', of) /\ Fresh(stack', log)
    BY <1>1, PutAdvances DEF g
  <1>3. Standing(stack, park, disk, of, Touched(log)) /\ RecX(rec, disk, park, status)
    BY DEF ExecInv
  <1>4. Standing(stack', park, disk, of, Touched(log))
    BY <1>1, <1>2, <1>3, Moves
  <1>5. CASE disk' = c /\ rec' = [rec EXCEPT !.frozen = TRUE, !.pre = pre]
    <2>1. c.frames = WorkFrames(stack') /\ c.ask = park.ask
      BY DEF Checkpoint
    <2>2. \A k \in DOMAIN stack' : ~stack'[k].hand
      <3>1. \A k \in DOMAIN stack : ~stack[k].hand
        BY DEF EngineInv, ParkOK
      <3> QED
        BY <1>2, <3>1 DEF AllAdvance, Advances
    <2>3. pre \in {<< >>, c.frames}
      BY DEF PreInterlude
    <2> HIDE DEF c, pre
    <2>4. Standing(stack', park, c, of, Touched(log))
      BY <1>4, <2>1, <2>2, Writes DEF Standing
    <2>5. rec'.pre = pre
      BY <1>5 DEF EngineInv, RecOK
    <2> QED
      BY <1>1, <1>2, <1>5, <2>3, <2>4, <2>5 DEF ExecInv, RecX
  <1>6. CASE UNCHANGED <<rec, disk>>
    BY <1>2, <1>4, <1>6 DEF ExecInv
  <1> QED
    BY <1>5, <1>6 DEF Unwind

\* A park at the loop top begins no call.
LEMMA ParkAtLoopTopX ==
  ASSUME NEW tools, EngineInv(tools), NEW of, ExecInv(of), ParkAtLoopTop
  PROVE  ExecInv(of)'
  <1>1. At("top") /\ park.question /\ Unwind(Top) /\ UNCHANGED <<status, park, log, ran, used>>
    BY DEF ParkAtLoopTop
  <1>2. FrameX(Top, of) /\ Top.pc = "top" /\ Keeps(Top, EndWith(Top, "park")) /\ EndWith(Top, "park").pc = "end"
    <2>1. FrameX(Top, of) /\ Top.pc = "top" /\ Shaped(Top)
      BY <1>1, RunningX
    <2> QED
      BY <2>1, ChangeKept
  <1>3. Advances(Top, EndWith(Top, "park"), of)
    BY <1>2, IdleAdvance DEF Busy, OnACall
  <1> QED
    BY <1>1, <1>2, <1>3, UnwindX

\* An interrupt's events are of no call.
LEMMA LogsInterrupt ==
  ASSUME NEW lg, NEW id
  PROVE  /\ Touched(Logged(lg, {Start(<<"interrupt", id>>)})) = Touched(lg)
         /\ Touched(Logged(lg, {Terminal(<<"interrupt", id>>)})) = Touched(lg)
         /\ Ended(Logged(lg, {Terminal(<<"interrupt", id>>)})) = Ended(lg)
  BY LogsNoCall DEF Start, Terminal

\* An interlude starts from a loop top: its interrupt is logged, and no call.
LEMMA StartInterludeX ==
  ASSUME NEW tools, EngineInv(tools), NEW of, ExecInv(of), NEW l, At(l), l \notin Busy,
         NEW f, Keeps(Top, f), NEW trigger, StartInterlude(f, trigger), UNCHANGED <<status, rec, park, disk, ran>>
  PROVE  ExecInv(of)'
  <1> DEFINE id == used.interrupts + 1
             g == [f EXCEPT !.pc = "mark", !.trig = trigger, !.intr = id]
  <1>1. /\ stack' = Put(g) /\ log' = Logged(log, {Start(<<"interrupt", id>>)})
        /\ used' = [used EXCEPT !.interrupts = id]
    BY DEF StartInterlude
  <1> HIDE DEF id
  <1>2. Keeps(Top, g) /\ g.pc = "mark"
    BY DEF Keeps, Shaped, Fields
  <1> HIDE DEF g
  <1>3. used'.tools = used.tools
    BY <1>1 DEF EngineInv, UsedType
  <1>4. Touched(log') = Touched(log)
    BY <1>1, LogsInterrupt
  <1> QED
    BY <1>1, <1>2, <1>3, <1>4, IdleX DEF Busy, OnACall

\* A routed request moves no frame of the chain.
LEMMA RoutedX ==
  ASSUME NEW tools, EngineInv(tools), NEW l, At(l), NEW f \in Frames(tools, park.wrote), Keeps(Top, f), NEW kind
  PROVE  /\ DOMAIN Routed(kind, f) = DOMAIN stack /\ Len(Routed(kind, f)) = Len(stack)
         /\ Keeps(f, Routed(kind, f)[Len(stack)]) /\ Routed(kind, f)[Len(stack)].pc = f.pc
         /\ \A k \in DOMAIN stack : k # Len(stack) => /\ Keeps(stack[k], Routed(kind, f)[k])
                                                      /\ Routed(kind, f)[k].pc = stack[k].pc
  <1> DEFINE st == Put(f)
             n == Len(stack)
             notice(g) == Push(g, UserMessage("notice"))
             plan(g) == Push(g, UserMessage("plan"))
             inject(g) == [g EXCEPT !.inject = TRUE]
             abort(g) == [g EXCEPT !.abort = TRUE]
             Like(g, h) == Keeps(g, h) /\ h.pc = g.pc
  <1>1. /\ StackOK(stack, tools, park.wrote) /\ stack # << >> /\ f.hand = Top.hand
        /\ n \in DOMAIN stack /\ DOMAIN stack = 1 .. n
    BY Running, TopOK DEF Keeps, StackOK
  <1>2. Routed(kind, f) \in Seq(Frames(tools, park.wrote)) /\ Len(Routed(kind, f)) = n
    BY <1>1, RoutedOK
  <1>3. /\ DOMAIN st = DOMAIN stack /\ Len(st) = n /\ st[n] = f
        /\ \A k \in DOMAIN stack : k # n => st[k] = stack[k]
    BY <1>1, PutOK
  <1>4. DOMAIN Routed(kind, f) = DOMAIN stack
    BY <1>1, <1>2
  <1>5. \A k \in DOMAIN stack : Shaped(st[k]) /\ Like(st[k], st[k])
    BY <1>3, AllShaped DEF Keeps
  <1>6. \A g : Shaped(g) => Like(g, notice(g)) /\ Like(g, plan(g)) /\ Like(g, inject(g)) /\ Like(g, abort(g))
    BY PushKept, FieldKept
  <1>7. \/ Routed(kind, f) = [st EXCEPT ![1] = notice(st[1])]
        \/ Routed(kind, f) = Put(plan(f)) /\ n = 1
        \/ Routed(kind, f) = [k \in DOMAIN st |-> IF k = 1 THEN inject(st[k]) ELSE abort(st[k])]
    BY <1>3 DEF Routed
  <1>8. Put(plan(f)) = [st EXCEPT ![n] = plan(st[n])]
    BY <1>1, <1>3 DEF Put
  <1> HIDE DEF st, n, notice, plan, inject, abort, Like
  <1>9. \A k \in DOMAIN stack : Like(st[k], Routed(kind, f)[k])
    <2>1. CASE Routed(kind, f) = [st EXCEPT ![1] = notice(st[1])]
      BY <1>3, <1>5, <1>6, <2>1
    <2>2. CASE Routed(kind, f) = Put(plan(f)) /\ n = 1
      BY <1>3, <1>5, <1>6, <1>8, <2>2
    <2>3. CASE Routed(kind, f) = [k \in DOMAIN st |-> IF k = 1 THEN inject(st[k]) ELSE abort(st[k])]
      BY <1>3, <1>5, <1>6, <2>3
    <2> QED
      BY <1>7, <2>1, <2>2, <2>3
  <1>10. Like(f, Routed(kind, f)[n])
    BY <1>1, <1>3, <1>9
  <1>11. \A k \in DOMAIN stack : k # n => Like(stack[k], Routed(kind, f)[k])
    BY <1>3, <1>9
  <1> QED
    BY <1>2, <1>4, <1>10, <1>11 DEF n, Like

\* A request taken off the queue is noted, or starts an interlude.
LEMMA DrainRequestX ==
  ASSUME NEW tools, EngineInv(tools), NEW of, ExecInv(of), NEW l, At(l), l \notin Busy,
         NEW f \in Frames(tools, park.wrote), Keeps(Top, f), f.pc \notin Busy, DrainRequest(f),
         UNCHANGED <<status, rec, park, disk, ran>>
  PROVE  ExecInv(of)'
  <1>1. CASE f.hand \/ ContextOwed \/ queue = << >>
    <2>1. stack' = Put(Goto(f, "context")) /\ UNCHANGED <<log, used>>
      BY <1>1 DEF DrainRequest
    <2>2. Keeps(Top, Goto(f, "context")) /\ Goto(f, "context").pc = "context"
      <3>1. Shaped(f)
        BY Kept
      <3>2. Keeps(f, Goto(f, "context")) /\ Goto(f, "context").pc = "context"
        BY <3>1, ChangeKept
      <3> QED
        BY <3>2, KeepsOn
    <2> QED
      BY <2>1, <2>2, IdleX DEF Busy, OnACall
  <1>2. CASE ~(f.hand \/ ContextOwed \/ queue = << >>) /\ Head(queue) = "inquiry"
    <2>1. StartInterlude(f, "inquiry")
      BY <1>2 DEF DrainRequest
    <2> QED
      BY <2>1, StartInterludeX
  <1>3. CASE ~(f.hand \/ ContextOwed \/ queue = << >>) /\ Head(queue) # "inquiry"
    <2> DEFINE st == Routed(Head(queue), f)
               n == Len(stack)
               last == IF st[n].abort THEN EndWith(st[n], "interrupted") ELSE Goto(st[n], "context")
    <2>1. /\ DOMAIN st = DOMAIN stack /\ Len(st) = n /\ Keeps(f, st[n]) /\ st[n].pc = f.pc
          /\ \A k \in DOMAIN stack : k # n => Keeps(stack[k], st[k]) /\ st[k].pc = stack[k].pc
      BY RoutedX
    <2>2. stack' = [st EXCEPT ![n] = last] /\ UNCHANGED <<log, used>>
      BY <1>3, <2>1 DEF DrainRequest
    <2>3. /\ n \in DOMAIN stack /\ Top = stack[n] /\ FrameX(Top, of) /\ Top.pc = l
          /\ \A k \in DOMAIN stack : k # n => stack[k].pc \in {"wait", "wait handler"}
      BY RunningX
    <2> HIDE DEF st, n
    <2>4. Keeps(st[n], last) /\ last.pc \in {"end", "context"}
      <3>1. Shaped(st[n])
        BY <2>1, Kept
      <3> QED
        BY <3>1 DEF Shaped, Keeps, Fields, EndWith, Goto
    <2> HIDE DEF last
    <2>5. Advances(Top, last, of)
      <3>1. Keeps(Top, last)
        BY <2>1, <2>4, KeepsOn
      <3> QED
        BY <2>3, <2>4, <3>1, IdleAdvance DEF Busy, OnACall
    <2>6. DOMAIN stack' = DOMAIN stack /\ stack'[n] = last /\ \A k \in DOMAIN stack : k # n => stack'[k] = st[k]
      BY <2>1, <2>2, <2>3
    <2>7. \A k \in DOMAIN stack : k # n => Advances(stack[k], stack'[k], of)
      <3>1. \A k \in DOMAIN stack : FrameX(stack[k], of)
        BY DEF ExecInv, Standing, StackX
      <3> QED
        BY <2>1, <2>6, <3>1, StaysAdvance
    <2>8. AllAdvance(stack, stack', of)
      BY <2>3, <2>5, <2>6, <2>7 DEF AllAdvance
    <2>9. Fresh(stack', log')
      BY <2>1, <2>3, <2>4, <2>6 DEF Fresh
    <2>10. Counted(ran') /\ UNCHANGED log
      BY <2>2 DEF ExecInv
    <2> QED
      BY <2>2, <2>3, <2>8, <2>9, <2>10, AdvanceStep
  <1> QED
    BY <1>1, <1>2, <1>3

\* Draining the interrupts of a loop top begins no call.
LEMMA DrainInterruptsX ==
  ASSUME NEW tools, EngineInv(tools), NEW of, ExecInv(of), drainInterrupts
  PROVE  ExecInv(of)'
  <1> DEFINE f == Injected(Top)
  <1>1. At("top") /\ UNCHANGED <<status, rec, park, disk, ran>>
    BY DEF drainInterrupts
  <1>2. Shaped(Top) /\ Top \in FrameType(tools, park.wrote) /\ Top.pc = "top"
    BY <1>1, RunningX
  <1>3. Keeps(Top, f) /\ f.pc = "top"
    BY <1>2, ChangeKept
  <1>4. f \in Frames(tools, park.wrote)
    BY <1>2, <1>3, InjectedType, Loose DEF OnACall
  <1>5. \/ stack' = Put(EndWith(Top, "interrupted")) /\ UNCHANGED <<log, used>>
        \/ StartInterlude(f, "loop_check")
        \/ DrainRequest(f)
    BY DEF drainInterrupts
  <1> HIDE DEF f
  <1>6. "top" \notin Busy /\ "end" \notin Busy
    BY DEF Busy, OnACall
  <1>7. CASE stack' = Put(EndWith(Top, "interrupted")) /\ UNCHANGED <<log, used>>
    <2>1. Keeps(Top, EndWith(Top, "interrupted")) /\ EndWith(Top, "interrupted").pc = "end"
      BY <1>2, ChangeKept
    <2> QED
      BY <1>1, <1>6, <1>7, <2>1, IdleX
  <1>8. CASE StartInterlude(f, "loop_check")
    BY <1>1, <1>3, <1>6, <1>8, StartInterludeX
  <1>9. CASE DrainRequest(f)
    BY <1>1, <1>3, <1>4, <1>6, <1>9, DrainRequestX
  <1> QED
    BY <1>5, <1>7, <1>8, <1>9

\* Nor does the drain after the loop check.
LEMMA DrainAfterLoopCheckX ==
  ASSUME NEW tools, EngineInv(tools), NEW of, ExecInv(of), drainAfterLoopCheck
  PROVE  ExecInv(of)'
  <1>1. At("drain") /\ DrainRequest(Top) /\ UNCHANGED <<status, rec, park, disk, ran>>
    BY DEF drainAfterLoopCheck
  <1>2. Keeps(Top, Top) /\ Top \in Frames(tools, park.wrote) /\ Top.pc = "drain"
    BY <1>1, RunningX
  <1>3. "drain" \notin Busy
    BY DEF Busy, OnACall
  <1> QED
    BY <1>1, <1>2, <1>3, DrainRequestX

\* Nor does the context check before the safe point.
LEMMA ResolveSafePointX ==
  ASSUME NEW tools, EngineInv(tools), NEW of, ExecInv(of), resolveSafePoint
  PROVE  ExecInv(of)'
  <1> DEFINE p == Push(Top, UserMessage("pressure"))
             h == [p EXCEPT !.press = "sent"]
             g == Goto(IF Top.press = "pending" THEN h ELSE Top, "safe")
  <1>1. At("context") /\ UNCHANGED <<status, rec, park, disk, ran>>
    BY DEF resolveSafePoint
  <1>2. Shaped(Top) /\ Keeps(Top, Top)
    BY <1>1, RunningX
  <1>3. \/ StartInterlude(Top, "context_budget_exceeded") \/ StartInterlude(Top, "context_pressure")
        \/ stack' = Put(g) /\ UNCHANGED <<log, used>>
    BY DEF resolveSafePoint
  <1>4. Keeps(Top, p) /\ Shaped(p)
    BY <1>2, PushKept DEF Keeps
  <1> HIDE DEF p
  <1>5. Keeps(Top, h) /\ Shaped(h)
    <2>1. Keeps(p, h)
      BY <1>4, FieldKept
    <2> QED
      BY <1>4, <2>1, KeepsOn, Kept
  <1> HIDE DEF h
  <1>6. Keeps(Top, g) /\ g.pc = "safe"
    BY <1>2, <1>5, ChangeKept, KeepsOn
  <1> HIDE DEF g
  <1>7. "context" \notin Busy /\ "safe" \notin Busy
    BY DEF Busy, OnACall
  <1> QED
    BY <1>1, <1>2, <1>3, <1>6, <1>7, StartInterludeX, IdleX

LEMMA SafePointX ==
  ASSUME NEW tools, EngineInv(tools), NEW of, ExecInv(of), SafePoint
  PROVE  ExecInv(of)'
  <1> DEFINE g == Goto(Top, "ready")
  <1>1. At("safe") /\ Write("ordinary", Put(g), rec, park) /\ UNCHANGED <<status, log, ran, used>>
    BY DEF SafePoint
  <1>2. FrameX(Top, of) /\ Top.pc = "safe" /\ Shaped(Top) /\ RecOK(rec, tools, park.wrote)
    BY <1>1, RunningX, Running
  <1>3. Keeps(Top, g) /\ g.pc = "ready"
    BY <1>2, ChangeKept
  <1> HIDE DEF g
  <1>4. Advances(Top, g, of)
    BY <1>2, <1>3, IdleAdvance DEF Busy, OnACall
  <1> QED
    BY <1>1, <1>2, <1>3, <1>4, MoveWriteX

\* A last write before the run leaves the process: of the frames, or again of those below
\* an interlude.
LEMMA LeaveX ==
  ASSUME NEW of, ExecInv(of), NEW how, NEW r, r.pre = rec.pre, disk' = Checkpoint(how, r, stack, park), Forget,
         UNCHANGED <<log, ran>>, used'.tools = used.tools
  PROVE  ExecInv(of)'
  <1> DEFINE c == Checkpoint(how, r, stack, park)
  <1>1. /\ c.ask = park.ask /\ (c.frames = r.pre \/ c.frames = WorkFrames(stack))
        /\ c.frames = r.pre => r.pre # << >> \/ c.frames = WorkFrames(stack)
    BY DEF Checkpoint
  <1> HIDE DEF c
  <1>2. Standing(stack, park, disk, of, Touched(log)) /\ rec.pre \in {<< >>, disk.frames}
    BY DEF ExecInv, RecX
  <1>3. DiskX(c, of, Touched(log))
    <2>1. CASE c.frames = WorkFrames(stack)
      BY <1>1, <1>2, <2>1, Saves DEF Standing
    <2>2. CASE c.frames = disk.frames
      BY <1>1, <1>2, <2>2, SavesAgain DEF Standing
    <2> QED
      BY <1>1, <1>2, <2>1, <2>2
  <1> QED
    BY <1>3, ForgetX DEF c

\* A pause leaves the process with what stands on disk.
LEMMA TakePauseX ==
  ASSUME NEW tools, EngineInv(tools), NEW of, ExecInv(of), TakePause
  PROVE  ExecInv(of)'
  <1> DEFINE r == [rec EXCEPT !.paused = TRUE]
  <1>1. disk' = Checkpoint("pause", r, stack, park) /\ Forget /\ UNCHANGED <<log, ran, used>>
    BY DEF TakePause, Leave
  <1>2. r.pre = rec.pre
    BY DEF EngineInv, RecOK
  <1> HIDE DEF r
  <1> QED
    BY <1>1, <1>2, LeaveX

\* A provider failure leaves the process with what stands on disk.
LEMMA ProviderFailsX ==
  ASSUME NEW tools, EngineInv(tools), NEW of, ExecInv(of), ProviderFails
  PROVE  ExecInv(of)'
  <1>1. /\ disk' = Checkpoint("suspension", SuspendedRec, stack, park) /\ Forget /\ UNCHANGED <<log, ran>>
        /\ used' = [used EXCEPT !.failures = @ + 1]
    BY DEF ProviderFails, Leave
  <1>2. SuspendedRec.pre = rec.pre
    BY DEF EngineInv, RecOK, SuspendedRec
  <1>3. used'.tools = used.tools
    BY <1>1, CountedUse DEF EngineInv
  <1> QED
    BY <1>1, <1>2, <1>3, LeaveX

\* Asking the model leaves the calls as they are.
LEMMA CallModelX ==
  ASSUME NEW tools, EngineInv(tools), NEW of, ExecInv(of), CallModel
  PROVE  ExecInv(of)'
  <1>1. At("ready") /\ stack' = Put(Goto(Top, "llm")) /\ UNCHANGED <<status, rec, park, log, disk, ran, used>>
    BY DEF CallModel
  <1>2. Shaped(Top)
    BY <1>1, RunningX
  <1>3. Keeps(Top, Goto(Top, "llm")) /\ Goto(Top, "llm").pc = "llm"
    BY <1>2, ChangeKept
  <1> QED
    BY <1>1, <1>3, IdleX DEF Busy, OnACall

\* A model that cannot be reached ends the role, on no call.
LEMMA ModelUnavailableX ==
  ASSUME NEW tools, EngineInv(tools), NEW of, ExecInv(of), ModelUnavailable
  PROVE  ExecInv(of)'
  <1>1. At("llm") /\ stack' = Put(EndWith(Top, "error")) /\ UNCHANGED <<status, rec, park, log, disk, ran, used>>
    BY DEF ModelUnavailable
  <1>2. Shaped(Top)
    BY <1>1, RunningX
  <1>3. Keeps(Top, EndWith(Top, "error")) /\ EndWith(Top, "error").pc = "end"
    BY <1>2, ChangeKept
  <1> QED
    BY <1>1, <1>3, IdleX DEF Busy, OnACall

\* A rejected context is retried, or ends the role.
LEMMA ContextRejectedX ==
  ASSUME NEW tools, EngineInv(tools), NEW of, ExecInv(of), ContextRejected
  PROVE  ExecInv(of)'
  <1> DEFINE f == [Top EXCEPT !.tries = @ + 1]
             h == Goto(f, "top")
             g == IF f.tries > MaxRecovery THEN EndWith(f, "error") ELSE [h EXCEPT !.comp = TRUE]
  <1>1. /\ At("llm") /\ stack' = Put(g) /\ UNCHANGED <<status, rec, park, log, disk, ran>>
        /\ used' = [used EXCEPT !.rejections = @ + 1]
    BY DEF ContextRejected
  <1>2. Shaped(Top)
    BY <1>1, RunningX
  <1>3. Keeps(Top, f) /\ Shaped(f)
    BY <1>2, FieldKept, Kept
  <1> HIDE DEF f
  <1>4. Keeps(f, h) /\ h.pc = "top" /\ Shaped(h) /\ Keeps(f, EndWith(f, "error")) /\ EndWith(f, "error").pc = "end"
    BY <1>3, ChangeKept, Kept
  <1> HIDE DEF h
  <1>5. Keeps(h, [h EXCEPT !.comp = TRUE]) /\ [h EXCEPT !.comp = TRUE].pc = "top"
    BY <1>4, FieldKept
  <1>6. Keeps(f, [h EXCEPT !.comp = TRUE])
    BY <1>4, <1>5, KeepsOn
  <1>7. Keeps(f, g) /\ g.pc \in {"end", "top"}
    BY <1>4, <1>5, <1>6
  <1> HIDE DEF g
  <1>8. Keeps(Top, g)
    BY <1>3, <1>7, KeepsOn
  <1>9. used'.tools = used.tools
    BY <1>1, CountedUse DEF EngineInv
  <1> QED
    BY <1>1, <1>7, <1>8, <1>9, IdleX DEF Busy, OnACall

-----------------------------------------------------------------------------
(* The handler interlude.                                                  *)

\* The frames are on disk when the interlude is marked.
LEMMA MarkInterludeX ==
  ASSUME NEW tools, EngineInv(tools), NEW of, ExecInv(of), MarkInterlude
  PROVE  ExecInv(of)'
  <1> DEFINE g == Goto(Top, "handler")
             i == [target |-> Top.id, trigger |-> Top.trig, queued |-> queue]
             r == [rec EXCEPT !.interlude = i]
  <1>1. /\ At("mark") /\ UNCHANGED <<status, log, ran, used>>
        /\ \/ stack' = Put(g) /\ UNCHANGED <<rec, park, disk>>
           \/ Write("ordinary", Put(g), r, park)
    BY DEF MarkInterlude
  <1>2. /\ FrameX(Top, of) /\ Top.pc = "mark" /\ Shaped(Top) /\ RecOK(rec, tools, park.wrote)
        /\ Top \in FrameType(tools, park.wrote) /\ queue \in Seq(Kinds)
    BY <1>1, RunningX, Running
  <1>3. Keeps(Top, g) /\ g.pc = "handler"
    BY <1>2, ChangeKept
  <1>4. i \in Interludes
    BY <1>2 DEF FrameType, Interludes
  <1> HIDE DEF g, i
  <1>5. RecOK(r, tools, park.wrote) /\ r.pre = rec.pre /\ r.frozen = rec.frozen
    BY <1>2, <1>4 DEF RecOK
  <1> HIDE DEF r
  <1>6. "mark" \notin Busy /\ g.pc \notin Busy /\ g.pc \notin {"start", "exec"}
    BY <1>3 DEF Busy, OnACall
  <1>7. Advances(Top, g, of)
    BY <1>2, <1>3, <1>6, IdleAdvance
  <1>8. CASE stack' = Put(g) /\ UNCHANGED <<rec, park, disk>>
    BY <1>1, <1>3, <1>6, <1>8, IdleX
  <1>9. CASE Write("ordinary", Put(g), r, park)
    BY <1>1, <1>5, <1>6, <1>7, <1>9, MoveWriteX
  <1> QED
    BY <1>1, <1>8, <1>9

\* A frame that has nothing joins the stack.
LEMMA JoinsX ==
  ASSUME NEW of, NEW st, NEW p, NEW q, NEW c, NEW touched, Standing(st, p, c, of, touched), q.ask = p.ask,
         NEW tt, NEW n, DOMAIN tt = DOMAIN st \cup {n}, n \notin DOMAIN st, \A k \in DOMAIN st : tt[k] = st[k],
         FrameX(tt[n], of), Own(tt[n]) = {}
  PROVE  Standing(tt, q, c, of, touched)
  <1>1. Later(tt[n]) = {} /\ Open(tt[n]) = {}
    BY FrameCalls
  <1>2. StackX(tt, of, touched)
    <2>1. \A k \in DOMAIN tt : FrameX(tt[k], of) /\ Later(tt[k]) \cap touched = {}
      BY <1>1 DEF Standing, StackX
    <2>2. \A i, j \in DOMAIN st : i # j => Own(st[i]) \cap Own(st[j]) = {}
      BY DEF Standing, StackX
    <2>3. \A i, j \in DOMAIN tt : i # j => Own(tt[i]) \cap Own(tt[j]) = {}
      BY <2>2
    <2> QED
      BY <2>1, <2>3 DEF StackX
  <1>3. Apart(tt, Ahead(c, of)) /\ ParkX(q, tt, of, touched)
    BY <1>1 DEF Standing, Apart, ParkX
  <1> QED
    BY <1>2, <1>3 DEF Standing

\* A role starts on top of the stack.
LEMMA StartRoleX ==
  ASSUME NEW tools, EngineInv(tools), NEW of, ExecInv(of), NEW st, NEW S, st \in Seq(S),
         Standing(st, park, disk, of, Touched(log)), Fresh(st, log), NEW hand, NEW writer,
         StartRole(st, hand, writer), status' = "running", UNCHANGED <<disk, ran, used>>
  PROVE  ExecInv(of)'
  <1> DEFINE id == rec.counter + 1
             f == Frame(id, hand)
             n == Len(st) + 1
  <1>1. /\ stack' = Append(st, f) /\ rec' = [rec EXCEPT !.counter = id] /\ park' = [park EXCEPT !.wrote = @ \/ writer]
        /\ log' = log \/ log' = Logged(log, {Start(<<"role", id>>)})
    BY DEF StartRole
  <1>2. rec'.pre = rec.pre /\ rec'.frozen = rec.frozen
    BY <1>1 DEF EngineInv, RecOK
  <1>3. park'.ask = park.ask /\ park'.question = park.question
    BY <1>1 DEF EngineInv, ParkOK
  <1>4. Touched(log') = Touched(log) /\ Ended(log') = Ended(log)
    <2>1. \A x \in Nat : /\ Start(<<"tool", x>>) \notin {Start(<<"role", id>>)}
                         /\ Terminal(<<"tool", x>>) \notin {Start(<<"role", id>>)}
      BY DEF Start, Terminal
    <2> HIDE DEF id
    <2> QED
      BY <1>1, <2>1, LogsNoCall
  <1>5. FrameX(f, of) /\ Own(f) = {} /\ f.pc = "top"
    <2>1. f.hist = << >> /\ f.pend = NoPending /\ f.turn = << >> /\ f.idx = 0 /\ f.mode = "live" /\ f.pc = "top"
      BY DEF Frame
    <2> HIDE DEF f
    <2>2. HistTurns(f.hist) = {}
      BY <2>1 DEF HistTurns
    <2> QED
      BY <2>1, <2>2, NoTurn DEF FrameX, SavedTurns, Own, OwnSaved
  <1> HIDE DEF f
  <1>6. /\ DOMAIN stack' = DOMAIN st \cup {n} /\ n \notin DOMAIN st /\ stack'[n] = f
        /\ \A k \in DOMAIN st : stack'[k] = st[k]
    <2>1. Append(st, f) \in Seq(S \cup {f}) /\ Len(st) \in Nat /\ DOMAIN st = 1 .. Len(st)
      BY PushedTurns
    <2> QED
      BY <1>1, <2>1
  <1> HIDE DEF n
  <1>7. Standing(stack', park', disk', of, Touched(log'))
    BY <1>3, <1>4, <1>5, <1>6, JoinsX
  <1>8. Fresh(stack', log')
    BY <1>4, <1>5, <1>6 DEF Fresh
  <1>9. RecX(rec', disk', park', status')
    BY <1>2, <1>3 DEF ExecInv, RecX
  <1> QED
    BY <1>4, <1>7, <1>8, <1>9 DEF ExecInv

\* A role starts above the running one.
LEMMA StartAboveX ==
  ASSUME NEW tools, EngineInv(tools), NEW of, ExecInv(of), NEW l, At(l), NEW g, Advances(Top, g, of),
         g.pc \notin {"start", "exec"}, NEW hand, NEW writer,
         StartRole(Put(g), hand, writer), UNCHANGED <<status, disk, ran, used>>
  PROVE  ExecInv(of)'
  <1>1. AllAdvance(stack, Put(g), of) /\ Fresh(Put(g), log)
    BY PutAdvances
  <1>2. Len(stack) \in DOMAIN stack /\ status = "running"
    BY RunningX
  <1>3. Standing(Put(g), park, disk, of, Touched(log))
    BY <1>1, <1>2, Moves DEF ExecInv
  <1> DEFINE S == Frames(tools, park.wrote) \cup {g}
  <1>4. Put(g) \in Seq(S)
    <2>1. stack \in Seq(Frames(tools, park.wrote))
      BY DEF EngineInv, StackOK
    <2>2. stack \in Seq(S) /\ g \in S
      BY <2>1
    <2> HIDE DEF S
    <2> QED
      BY <1>2, <2>2 DEF Put
  <1> HIDE DEF S
  <1> QED
    BY <1>1, <1>2, <1>3, <1>4, StartRoleX

\* The handler starts with no call of its own.
LEMMA StartHandlerX ==
  ASSUME NEW tools, EngineInv(tools), NEW of, ExecInv(of), StartHandler
  PROVE  ExecInv(of)'
  <1> DEFINE g == Goto(Top, "wait handler")
  <1>1. At("handler") /\ StartRole(Put(g), TRUE, FALSE) /\ UNCHANGED <<status, disk, ran, used>>
    BY DEF StartHandler
  <1>2. FrameX(Top, of) /\ Top.pc = "handler" /\ Shaped(Top)
    BY <1>1, RunningX
  <1>3. Keeps(Top, g) /\ g.pc = "wait handler"
    BY <1>2, ChangeKept
  <1> HIDE DEF g
  <1>4. "handler" \notin Busy /\ g.pc \notin Busy /\ g.pc \notin {"start", "exec"}
    BY <1>3 DEF Busy, OnACall
  <1>5. Advances(Top, g, of)
    BY <1>2, <1>3, <1>4, IdleAdvance
  <1> QED
    BY <1>1, <1>4, <1>5, StartAboveX

\* A run starts with one role and no call.
LEMMA StartRunX ==
  ASSUME NEW tools, EngineInv(tools), NEW of, ExecInv(of), StartRun
  PROVE  ExecInv(of)'
  <1>1. StartRole(<< >>, FALSE, FALSE) /\ status' = "running" /\ UNCHANGED <<disk, ran, used>>
    BY DEF StartRun
  <1>2. Standing(<< >>, park, disk, of, Touched(log)) /\ Fresh(<< >>, log)
    BY DEF ExecInv, Standing, StackX, Apart, ParkX, Fresh
  <1>3. << >> \in Seq({})
    OBVIOUS
  <1> QED
    BY <1>1, <1>2, <1>3, StartRoleX

\* Dropping the oldest blocks of a history drops turns.
LEMMA CompactedTurns ==
  ASSUME NEW S, NEW hist \in Seq(S), NEW h \in Compacted(hist)
  PROVE  HistTurns(h) \subseteq HistTurns(hist) /\ h \in Seq(S)
  <1>1. CASE h = << >>
    BY <1>1 DEF HistTurns
  <1>2. ASSUME NEW i \in DOMAIN hist, h = SubSeq(hist, i, Len(hist))
        PROVE  HistTurns(h) \subseteq HistTurns(hist) /\ h \in Seq(S)
    <2>1. Len(hist) \in Nat /\ DOMAIN hist = 1 .. Len(hist) /\ i \in 1 .. Len(hist)
      BY <1>2
    <2>2. \A j \in i .. Len(hist) : hist[j] \in S
      BY <2>1
    <2>3. /\ h \in Seq(S) /\ Len(h) = Len(hist) - i + 1
          /\ \A j \in 1 .. (Len(hist) - i + 1) : h[j] = hist[i + j - 1]
      BY <1>2, <2>1, <2>2, SubSeqProperties
    <2>4. \A j \in DOMAIN h : i + j - 1 \in DOMAIN hist /\ h[j] = hist[i + j - 1]
      BY <2>1, <2>3
    <2> QED
      BY <2>3, <2>4 DEF HistTurns
  <1> QED
    BY <1>1, <1>2 DEF Compacted

\* A compacted history holds no turn the history did not.
LEMMA CompactedKept ==
  ASSUME NEW f, Shaped(f), NEW h \in Compacted(f.hist)
  PROVE  Keeps(f, [f EXCEPT !.hist = h]) /\ [f EXCEPT !.hist = h].pc = f.pc
  <1>1. PICK S : f.hist \in Seq(S)
    BY DEF Shaped
  <1>2. HistTurns(h) \subseteq HistTurns(f.hist) /\ h \in Seq(S)
    BY <1>1, CompactedTurns
  <1> QED
    BY <1>2 DEF Keeps, Shaped, Fields

\* However an interlude is resolved, the target's calls are kept.
LEMMA ResolutionKept ==
  ASSUME NEW f, Shaped(f), NEW t \in Resolutions(f)
  PROVE  Keeps(f, t) /\ t.pc = "unmark"
  <1> DEFINE g == Goto(f, "unmark")
             p == Push(g, UserMessage("pressure"))
             d == Push(g, UserMessage("managed"))
             k(h) == [g EXCEPT !.hist = h]
             c(h) == Push(k(h), UserMessage("recovery"))
             Fits(x) == Keeps(f, x) /\ x.pc = "unmark"
  <1>1. \/ t = [g EXCEPT !.mark = f.calls] \/ t = g
        \/ t = [p EXCEPT !.press = "sent"]
        \/ t = [d EXCEPT !.comp = FALSE]
        \/ \E h \in Compacted(f.hist) : \/ t = [g EXCEPT !.comp = FALSE, !.hist = h, !.action = "unfit"]
                                        \/ t = [c(h) EXCEPT !.comp = FALSE]
    BY DEF Resolutions
  <1>2. Fits(g) /\ Shaped(g) /\ g.hist = f.hist
    <2>1. g.hist = f.hist
      BY DEF Shaped, Fields, Goto
    <2> QED
      BY <2>1, ChangeKept, Kept
  <1> HIDE DEF g
  <1>3. \A x, y : Fits(x) /\ Keeps(x, y) /\ y.pc = x.pc => Fits(y)
    BY KeepsOn
  <1>4. \A x : Fits(x) => Shaped(x)
    BY Kept
  <1>5. \A x : Fits(x) =>
          /\ \A v : Fits([x EXCEPT !.mark = v]) /\ Fits([x EXCEPT !.press = v]) /\ Fits([x EXCEPT !.comp = v])
                    /\ Fits([x EXCEPT !.action = v])
          /\ \A what : Fits(Push(x, UserMessage(what)))
    <2> HIDE DEF Fits
    <2> TAKE x
    <2> HAVE Fits(x)
    <2>1. Shaped(x)
      BY <1>4
    <2>2. /\ \A v : /\ Keeps(x, [x EXCEPT !.mark = v]) /\ [x EXCEPT !.mark = v].pc = x.pc
                    /\ Keeps(x, [x EXCEPT !.press = v]) /\ [x EXCEPT !.press = v].pc = x.pc
                    /\ Keeps(x, [x EXCEPT !.comp = v]) /\ [x EXCEPT !.comp = v].pc = x.pc
                    /\ Keeps(x, [x EXCEPT !.action = v]) /\ [x EXCEPT !.action = v].pc = x.pc
          /\ \A what : Keeps(x, Push(x, UserMessage(what))) /\ Push(x, UserMessage(what)).pc = x.pc
      BY <2>1, FieldKept, PushKept
    <2> QED
      BY <1>3, <2>2
  <1>6. ASSUME NEW h \in Compacted(f.hist)
        PROVE  Fits([c(h) EXCEPT !.comp = FALSE]) /\ Fits([g EXCEPT !.comp = FALSE, !.hist = h, !.action = "unfit"])
    <2>1. Keeps(g, k(h)) /\ k(h).pc = g.pc
      BY <1>2, CompactedKept
    <2>2. Fits(k(h))
      BY <1>2, <1>3, <2>1
    <2> HIDE DEF k, Fits
    <2>3. Fits(c(h))
      BY <1>5, <2>2
    <2> HIDE DEF c
    <2>4. Fits([c(h) EXCEPT !.comp = FALSE])
      BY <1>5, <2>3
    <2> DEFINE g1 == [k(h) EXCEPT !.comp = FALSE]
    <2>5. Fits(g1)
      BY <1>5, <2>2
    <2>6. [g EXCEPT !.comp = FALSE, !.hist = h, !.action = "unfit"] = [g1 EXCEPT !.action = "unfit"]
      BY DEF k
    <2> HIDE DEF g1
    <2>7. Fits([g1 EXCEPT !.action = "unfit"])
      BY <1>5, <2>5
    <2> QED
      BY <2>4, <2>6, <2>7
  <1> HIDE DEF Fits
  <1>7. Fits(p) /\ Fits(d)
    BY <1>2, <1>5
  <1> HIDE DEF p, d, c
  <1>8. Fits([g EXCEPT !.mark = f.calls]) /\ Fits([p EXCEPT !.press = "sent"]) /\ Fits([d EXCEPT !.comp = FALSE])
    BY <1>2, <1>5, <1>7
  <1>9. Fits(t)
    BY <1>1, <1>2, <1>6, <1>8
  <1> QED
    BY <1>9 DEF Fits

\* Resolving an interlude logs the terminal of its interrupt, and of no call.
LEMMA ResolveInterludeX ==
  ASSUME NEW tools, EngineInv(tools), NEW of, ExecInv(of), ResolveInterlude
  PROVE  ExecInv(of)'
  <1>1. /\ At("handled") /\ UNCHANGED <<status, rec, park, disk, ran, used>>
        /\ \E f \in Resolutions(Top) : stack' = Put(f)
        /\ log' = Logged(log, {Terminal(<<"interrupt", Top.intr>>)})
    BY DEF ResolveInterlude
  <1>2. Shaped(Top)
    BY <1>1, RunningX
  <1>3. PICK f \in Resolutions(Top) : stack' = Put(f)
    BY <1>1
  <1>4. Keeps(Top, f) /\ f.pc = "unmark"
    BY <1>2, ResolutionKept
  <1>5. Touched(log') = Touched(log)
    BY <1>1, LogsInterrupt
  <1> QED
    BY <1>1, <1>3, <1>4, <1>5, IdleX DEF Busy, OnACall

\* The interlude is cleared on disk, for the frames that stand.
LEMMA ClearInterludeX ==
  ASSUME NEW tools, EngineInv(tools), NEW of, ExecInv(of), ClearInterlude
  PROVE  ExecInv(of)'
  <1> DEFINE h == [Top EXCEPT !.action = None]
             g == [h EXCEPT !.trig = None]
             f == AfterInterlude(Top)
             r == [rec EXCEPT !.interlude = NoInterlude]
  <1>1. /\ At("unmark") /\ UNCHANGED <<status, log, ran, used>>
        /\ \/ stack' = Put(f) /\ UNCHANGED <<rec, park, disk>>
           \/ Write("ordinary", Put(f), r, park)
    BY DEF ClearInterlude
  <1>2. FrameX(Top, of) /\ Top.pc = "unmark" /\ Shaped(Top) /\ RecOK(rec, tools, park.wrote)
    BY <1>1, RunningX, Running
  <1>3. Keeps(Top, h) /\ Shaped(h)
    BY <1>2, FieldKept, Kept
  <1>4. [Top EXCEPT !.action = None, !.trig = None] = g
    OBVIOUS
  <1>5. f = EndWith(g, "error") \/ \E l \in {"drain", "safe", "context"} : f = Goto(g, l)
    BY <1>4 DEF AfterInterlude
  <1> HIDE DEF h, f
  <1>6. Keeps(Top, g) /\ Shaped(g)
    <2>1. Keeps(h, g)
      BY <1>3, FieldKept
    <2> QED
      BY <1>3, <2>1, KeepsOn, Kept
  <1> HIDE DEF g
  <1>7. Keeps(Top, f) /\ f.pc \in {"end", "drain", "safe", "context"}
    <2>1. Keeps(g, f) /\ f.pc \in {"end", "drain", "safe", "context"}
      BY <1>5, <1>6, ChangeKept
    <2> QED
      BY <1>6, <2>1, KeepsOn
  <1>8. NoInterlude \in Interludes
    BY DEF NoInterlude, Interludes, Triggers
  <1>9. RecOK(r, tools, park.wrote) /\ r.pre = rec.pre /\ r.frozen = rec.frozen
    BY <1>2, <1>8 DEF RecOK
  <1> HIDE DEF r
  <1>10. "unmark" \notin Busy /\ f.pc \notin Busy /\ f.pc \notin {"start", "exec"}
    BY <1>7 DEF Busy, OnACall
  <1>11. Advances(Top, f, of)
    BY <1>2, <1>7, <1>10, IdleAdvance
  <1>12. CASE stack' = Put(f) /\ UNCHANGED <<rec, park, disk>>
    BY <1>1, <1>7, <1>10, <1>12, IdleX
  <1>13. CASE Write("ordinary", Put(f), r, park)
    BY <1>1, <1>9, <1>10, <1>11, <1>13, MoveWriteX
  <1> QED
    BY <1>1, <1>12, <1>13

-----------------------------------------------------------------------------
(* The calls of a turn.                                                    *)

\* Leaving a turn behind, or staying on what is left of it, for the frame's next label.
LEMMA LoopTopShape ==
  ASSUME NEW f, Shaped(f)
  PROVE  /\ LoopTop(f).hand = f.hand /\ LoopTop(f).pend = f.pend /\ LoopTop(f).hist = f.hist
         /\ LoopTop(f).turn = << >> /\ LoopTop(f).idx = 0 /\ LoopTop(f).pc = "top" /\ LoopTop(f).mode = "live"
  BY DEF Shaped, Fields, LoopTop

\* A frame moved on to the next call of its turn.
LEMMA OnwardShape ==
  ASSUME NEW f, Shaped(f)
  PROVE  /\ Onward(f).hand = f.hand /\ Onward(f).pend = f.pend /\ Onward(f).hist = f.hist
         /\ Onward(f).turn = f.turn /\ Onward(f).idx = f.idx + 1 /\ Onward(f).pc = "disp"
         /\ Onward(f).mode = (IF f.mode = "reconcile" THEN "rest" ELSE f.mode) /\ Shaped(Onward(f))
  BY DEF Shaped, Fields, Onward

\* The marker is cleared.
LEMMA ClearedShape ==
  ASSUME NEW f, Shaped(f), NEW p
  PROVE  LET g == [f EXCEPT !.pend = p]
         IN /\ Shaped(g) /\ g.hand = f.hand /\ g.hist = f.hist /\ g.pend = p /\ g.turn = f.turn /\ g.idx = f.idx
            /\ g.pc = f.pc /\ g.mode = f.mode /\ g.val = f.val /\ g.note = f.note
  BY DEF Shaped, Fields

\* Where a frame that has settled what it was on goes on: the next call, with nothing new
\* to begin.
LEMMA OnwardX ==
  ASSUME NEW of, NEW f, NEW g, FrameX(f, of), g.hand = f.hand, HistTurns(g.hist) \subseteq HistTurns(f.hist),
         g.pend = f.pend \/ g.pend = NoPending, g.turn = f.turn, g.idx = f.idx + 1, g.pc = "disp",
         g.mode # "child", From(f.turn, f.idx + 1) \subseteq Later(f), AheadOf(f.pend) \subseteq From(f.turn, f.idx + 1)
  PROVE  Advances(f, g, of)
  <1>1. /\ HistTurns(f.hist) \subseteq Turns(of) /\ f.pend.calls \in Turns(of) /\ f.turn \in Turns(of)
        /\ f.idx + 1 \in Nat
    BY DEF FrameX, SavedTurns
  <1>2. g.pend.calls \in Turns(of) /\ CallIds(g.pend.calls) \subseteq CallIds(f.pend.calls)
    BY <1>1, NoTurn
  <1>3. Own(g) \subseteq Own(f)
    BY <1>2 DEF Own, OwnSaved
  <1>4. Later(g) = From(f.turn, f.idx + 1) /\ Open(g) = {}
    BY DEF Later, Open, OnACall
  <1>5. AheadOf(g.pend) \subseteq Later(g)
    BY <1>4, NoTurn
  <1>6. FrameX(g, of)
    BY <1>1, <1>2, <1>5 DEF FrameX, SavedTurns
  <1> QED
    BY <1>3, <1>4, <1>6 DEF Advances

\* A call under way gets on.
LEMMA WithinX ==
  ASSUME NEW of, NEW f, NEW g, FrameX(f, of), f.pc \in OnACall, g.pc \in OnACall, g.hand = f.hand,
         HistTurns(g.hist) \subseteq HistTurns(f.hist), g.turn = f.turn, g.idx = f.idx,
         g.pend.calls = f.pend.calls, g.pend.idx = f.pend.idx,
         g.mode = "child" => f.mode = "child" /\ g.pc \in {"wait", "carded", "res"}
  PROVE  Advances(f, g, of) /\ Call(g) = Call(f)
  <1>1. Own(g) \subseteq Own(f)
    BY DEF Own, OwnSaved
  <1>2. Later(g) = Later(f) /\ Open(g) = Open(f)
    BY DEF Later, Open, OnACall
  <1>3. Call(g) = Call(f)
    BY DEF Call, Batch
  <1>4. AheadOf(g.pend) = AheadOf(f.pend)
    BY DEF AheadOf
  <1>5. FrameX(g, of)
    BY <1>2, <1>3, <1>4 DEF FrameX, SavedTurns
  <1> QED
    BY <1>1, <1>2, <1>3, <1>5 DEF Advances

\* The same for a frame whose marker is left alone.
LEMMA KeptWithin ==
  ASSUME NEW of, NEW f, NEW g, FrameX(f, of), f.pc \in OnACall, g.pc \in OnACall, Keeps(f, g),
         f.mode = "child" => g.pc \in {"wait", "carded", "res"}
  PROVE  Advances(f, g, of) /\ Call(g) = Call(f)
  BY WithinX DEF Keeps

\* The call the running frame is on.
LEMMA OnCallX ==
  ASSUME NEW tools, EngineInv(tools), NEW of, ExecInv(of), NEW l, At(l),
         l \in OnACall \/ (l \in {"disp", "closing"} /\ Top.idx <= Len(Batch(Top)))
  PROVE  /\ Top.idx \in DOMAIN Top.turn /\ Top.turn \in Turns(of) /\ Call(Top) = Top.turn[Top.idx]
         /\ Call(Top).id \in Nat /\ Call(Top).id \in DOMAIN of /\ Top.idx \in Nat
  <1>1. Top.idx \in DOMAIN Top.turn
    <2>1. Top \in Frames(tools, park.wrote) /\ Top.pc = l
      BY RunningX
    <2>2. CASE l \in OnACall
      BY <2>1, <2>2 DEF Frames, Placed
    <2>3. CASE l \in {"disp", "closing"} /\ Top.idx <= Len(Batch(Top))
      BY <2>1, <2>3, AtACall
    <2> QED
      BY <2>2, <2>3
  <1>2. Top.turn \in Turns(of)
    BY RunningX DEF FrameX
  <1>3. Call(Top) = Top.turn[Top.idx]
    BY DEF Call, Batch
  <1>4. Top.turn[Top.idx].id \in DOMAIN of /\ Top.idx \in Nat
    BY <1>1, <1>2, NextCall
  <1>5. DOMAIN of \subseteq Nat
    BY DEF ExecInv
  <1> QED
    BY <1>1, <1>2, <1>3, <1>4, <1>5

\* The turn is over: the role goes back to its loop top.
LEMMA DispatchDoneX ==
  ASSUME NEW tools, EngineInv(tools), NEW of, ExecInv(of), DispatchDone
  PROVE  ExecInv(of)'
  <1> DEFINE h == Noted(Top)
             g == LoopTop(h)
  <1>1. /\ At("disp") /\ Top.idx > Len(Batch(Top)) /\ UNCHANGED <<status, log, ran, used>>
        /\ \/ Write("ordinary", Put(g), rec, park)
           \/ stack' = Put(g) /\ UNCHANGED <<rec, park, disk>>
    BY DEF DispatchDone
  <1>2. FrameX(Top, of) /\ Top.pc = "disp" /\ Shaped(Top) /\ RecOK(rec, tools, park.wrote)
    BY <1>1, RunningX, Running
  <1>3. Keeps(Top, h) /\ Shaped(h)
    BY <1>2, ChangeKept, Kept
  <1> HIDE DEF h
  <1>4. /\ g.hand = h.hand /\ g.pend = h.pend /\ g.hist = h.hist /\ g.turn = << >> /\ g.idx = 0 /\ g.pc = "top"
        /\ g.mode = "live"
    BY <1>3, LoopTopShape
  <1> HIDE DEF g
  <1>5. AheadOf(Top.pend) = {}
    <2>1. Top.turn \in Seq(Calls(tools)) /\ Top.idx \in Nat
      BY <1>1, RunningX DEF FrameType
    <2>2. DOMAIN Top.turn = 1 .. Len(Top.turn) /\ Len(Top.turn) \in Nat /\ Top.idx > Len(Top.turn)
      BY <1>1, <2>1 DEF Batch
    <2>3. From(Top.turn, Top.idx) = {}
      BY <2>1, <2>2, NothingLeft
    <2> QED
      BY <1>2, <2>3 DEF FrameX, Later
  <1>6. g.hand = Top.hand /\ g.pend = Top.pend /\ HistTurns(g.hist) \subseteq HistTurns(Top.hist)
    BY <1>3, <1>4 DEF Keeps
  <1>7. g.pc \notin Busy /\ g.mode # "child" /\ g.pc \notin {"start", "exec"} /\ Counted(ran)
    BY <1>4 DEF Busy, OnACall, ExecInv
  <1>8. Advances(Top, g, of)
    BY <1>2, <1>4, <1>5, <1>6, <1>7, ComesToRest
  <1>9. CASE Write("ordinary", Put(g), rec, park)
    BY <1>1, <1>2, <1>7, <1>8, <1>9, MoveWriteX
  <1>10. CASE stack' = Put(g) /\ UNCHANGED <<rec, park, disk>>
    BY <1>1, <1>7, <1>8, <1>10, MoveX
  <1> QED
    BY <1>1, <1>9, <1>10

\* A parked role leaves the calls after its ask to the resume.
LEMMA DispatchParksX ==
  ASSUME NEW tools, EngineInv(tools), NEW of, ExecInv(of), DispatchParks
  PROVE  ExecInv(of)'
  <1> DEFINE f == [Top EXCEPT !.pend = NoPending]
             g == EndWith(f, "park")
  <1>1. At("disp") /\ park.question /\ Unwind(f) /\ UNCHANGED <<status, park, log, ran, used>>
    BY DEF DispatchParks
  <1>2. FrameX(Top, of) /\ Top.pc = "disp" /\ Shaped(Top)
    BY <1>1, RunningX
  <1>3. /\ Shaped(f) /\ f.hand = Top.hand /\ f.hist = Top.hist /\ f.pend = NoPending /\ f.turn = Top.turn
        /\ f.idx = Top.idx /\ f.mode = Top.mode
    BY <1>2, ClearedShape
  <1> HIDE DEF f
  <1>4. Keeps(f, g) /\ g.pc = "end"
    BY <1>3, ChangeKept
  <1> HIDE DEF g
  <1>5. /\ g.hand = Top.hand /\ g.pend = NoPending /\ HistTurns(g.hist) \subseteq HistTurns(Top.hist)
        /\ g.turn = Top.turn /\ g.idx \in Nat /\ g.mode # "child" /\ g.pc \notin Busy
    BY <1>2, <1>3, <1>4 DEF Keeps, FrameX, Busy, OnACall
  <1>6. AheadOf(g.pend) = {}
    BY <1>5, NoTurn
  <1>7. Advances(Top, g, of)
    BY <1>2, <1>5, <1>6, ComesToRest
  <1> QED
    BY <1>1, <1>4, <1>7, UnwindX DEF g

\* A call that is not valid is answered and never begun.
LEMMA DispatchInvalidX ==
  ASSUME NEW tools, EngineInv(tools), NEW of, ExecInv(of), DispatchInvalid
  PROVE  ExecInv(of)'
  <1> DEFINE m == ToolMessage(Call(Top).id, "invalid")
             p == Push(Top, m)
             f == [p EXCEPT !.calls = @ + 1]
             e == [f EXCEPT !.pend = NoPending]
  <1>1. /\ At("disp") /\ Top.idx <= Len(Batch(Top)) /\ UNCHANGED <<status, log, ran, used>> /\ Call(Top).tool = "bad"
        /\ \/ Write("ordinary", Put(Onward(e)), rec, park)
           \/ stack' = Put(Onward(f)) /\ UNCHANGED <<rec, park, disk>>
    BY DEF DispatchInvalid
  <1>2. FrameX(Top, of) /\ Top.pc = "disp" /\ Shaped(Top) /\ RecOK(rec, tools, park.wrote)
    BY <1>1, RunningX, Running
  <1>3. Keeps(Top, p) /\ Shaped(p)
    BY <1>2, PushKept, Kept
  <1> HIDE DEF p
  <1>4. Keeps(p, f)
    BY <1>3, FieldKept
  <1> HIDE DEF f
  <1>5. Keeps(Top, f) /\ Shaped(f)
    BY <1>3, <1>4, KeepsOn, Kept
  <1>6. /\ Shaped(e) /\ e.hand = f.hand /\ e.hist = f.hist /\ e.pend = NoPending /\ e.turn = f.turn /\ e.idx = f.idx
        /\ e.mode = f.mode
    BY <1>5, ClearedShape
  <1> HIDE DEF e
  <1>7. From(Top.turn, Top.idx + 1) = Later(Top) /\ AheadOf(Top.pend) \subseteq From(Top.turn, Top.idx + 1)
    <2>1. Top.idx \in DOMAIN Top.turn /\ Top.turn \in Turns(of) /\ Top.turn[Top.idx].tool = "bad"
      BY <1>1, OnCallX
    <2>2. From(Top.turn, Top.idx) = From(Top.turn, Top.idx + 1)
      BY <2>1, NextCall
    <2> QED
      BY <1>2, <2>2 DEF Later, FrameX
  <1>8. ASSUME NEW h, h = f \/ h = e
        PROVE  Advances(Top, Onward(h), of) /\ Onward(h).pc \notin {"start", "exec"}
    <2>1. /\ Shaped(h) /\ h.hand = Top.hand /\ HistTurns(h.hist) \subseteq HistTurns(Top.hist)
          /\ h.pend = Top.pend \/ h.pend = NoPending
          /\ h.turn = Top.turn /\ h.idx = Top.idx /\ h.mode # "child"
      BY <1>2, <1>5, <1>6, <1>8 DEF Keeps, FrameX
    <2> DEFINE g == Onward(h)
    <2>2. /\ g.hand = h.hand /\ g.pend = h.pend /\ g.hist = h.hist /\ g.turn = h.turn /\ g.idx = h.idx + 1
          /\ g.pc = "disp" /\ g.mode = (IF h.mode = "reconcile" THEN "rest" ELSE h.mode)
      BY <2>1, OnwardShape
    <2> HIDE DEF g
    <2>3. Advances(Top, g, of)
      BY <1>2, <1>7, <2>1, <2>2, OnwardX
    <2> QED
      BY <2>2, <2>3 DEF g
  <1>9. Counted(ran)
    BY DEF ExecInv
  <1>10. CASE Write("ordinary", Put(Onward(e)), rec, park)
    BY <1>1, <1>2, <1>8, <1>10, MoveWriteX
  <1>11. CASE stack' = Put(Onward(f)) /\ UNCHANGED <<rec, park, disk>>
    BY <1>1, <1>8, <1>9, <1>11, MoveX
  <1> QED
    BY <1>1, <1>10, <1>11

\* Handlers are on top of the others: when there is one, the running frame is one.
LEMMA HandlerOnTop ==
  ASSUME NEW tools, NEW w, NEW st, StackOK(st, tools, w), HasHandler(st)
  PROVE  Len(st) \in DOMAIN st /\ st[Len(st)].hand
  <1>1. st \in Seq(Frames(tools, w)) /\ DOMAIN st = 1 .. Len(st) /\ Len(st) \in Nat
    BY DEF StackOK
  <1>2. PICK n \in 0 .. Len(st) : \A k \in DOMAIN st : (st[k].hand => k > n) /\ (k > n => st[k].hand)
    BY DEF StackOK, Layered
  <1>3. PICK k \in DOMAIN st : st[k].hand
    BY DEF HasHandler
  <1>4. Len(st) \in DOMAIN st /\ Len(st) > n
    BY <1>1, <1>2, <1>3
  <1> QED
    BY <1>2, <1>4

\* The marker of the call that is next: it vouches for what comes after the call.
LEMMA MarkedX ==
  ASSUME NEW of, NEW f, FrameX(f, of), Shaped(f), f.pc = "disp", f.idx \in DOMAIN f.turn,
         f.turn[f.idx].tool # "bad"
  PROVE  LET g == [f EXCEPT !.pend = Pending(Batch(f), f.idx), !.pc = "start"]
         IN /\ FrameX(g, of) /\ g.hand = f.hand /\ Own(g) \subseteq Own(f) /\ Later(g) \subseteq Later(f)
            /\ g.pc = "start" /\ Call(g) = Call(f) /\ Call(g).id \in Later(f) /\ Open(g) \subseteq Own(f)
  <1> DEFINE p == Pending(Batch(f), f.idx)
             g == [f EXCEPT !.pend = p, !.pc = "start"]
  <1>1. p.calls = f.turn /\ p.idx = f.idx
    BY DEF Pending, Batch
  <1> HIDE DEF p
  <1>2. /\ g.hand = f.hand /\ g.hist = f.hist /\ g.pend = p /\ g.turn = f.turn /\ g.idx = f.idx /\ g.pc = "start"
        /\ g.mode = f.mode
    BY DEF Shaped, Fields
  <1> HIDE DEF g
  <1>3. HistTurns(f.hist) \subseteq Turns(of) /\ f.turn \in Turns(of) /\ f.idx \in Nat /\ f.mode # "child"
    BY DEF FrameX, SavedTurns
  <1>4. Later(g) = After(f.turn, f.idx) /\ Open(g) = Here(f.turn, f.idx) /\ Later(f) = From(f.turn, f.idx)
    BY <1>2 DEF Later, Open, OnACall
  <1>5. After(f.turn, f.idx) \subseteq From(f.turn, f.idx) /\ f.turn[f.idx].id \in From(f.turn, f.idx)
    BY <1>3, NextCall
  <1>6. Call(g) = Call(f) /\ Call(f) = f.turn[f.idx]
    BY <1>2 DEF Call, Batch
  <1>7. Own(g) \subseteq Own(f)
    BY <1>1, <1>2 DEF Own, OwnSaved
  <1>8. FrameX(g, of)
    BY <1>1, <1>2, <1>3, <1>4 DEF FrameX, SavedTurns, AheadOf
  <1>9. Open(g) \subseteq Own(f)
    BY <1>8, <1>7, FrameCalls
  <1> QED
    BY <1>2, <1>4, <1>5, <1>6, <1>7, <1>8, <1>9 DEF g, p

\* A call the log has heard nothing of has not ended.
LEMMA UntouchedFresh ==
  ASSUME NEW lg
  PROVE  Ended(lg) \subseteq Touched(lg)
  BY DEF Ended, Touched

\* The marker written before a call vouches for what follows the call in its turn.
LEMMA DispatchCallX ==
  ASSUME NEW tools, EngineInv(tools), NEW of, ExecInv(of), DispatchCall
  PROVE  ExecInv(of)'
  <1> DEFINE g == [Top EXCEPT !.pend = Pending(Batch(Top), Top.idx), !.pc = "start"]
             n == Len(stack)
             st == Put(g)
             touched == Touched(log)
  <1>1. /\ At("disp") /\ Top.idx <= Len(Batch(Top)) /\ ~park.question /\ Call(Top).tool # "bad"
        /\ Write("ordinary", st, rec, park) /\ UNCHANGED <<status, log, ran, used>>
    BY DEF DispatchCall
  <1>2. /\ FrameX(Top, of) /\ Top.pc = "disp" /\ Shaped(Top) /\ RecOK(rec, tools, park.wrote)
        /\ StackOK(stack, tools, park.wrote) /\ ParkOK(park, stack) /\ status = "running"
        /\ n \in DOMAIN stack /\ Top = stack[n]
        /\ \A k \in DOMAIN stack : k # n => stack[k].pc \in {"wait", "wait handler"}
    BY <1>1, RunningX, Running
  <1>3. Top.idx \in DOMAIN Top.turn /\ Call(Top) = Top.turn[Top.idx] /\ Call(Top).id \in Nat
    BY <1>1, OnCallX
  <1>4. /\ FrameX(g, of) /\ g.hand = Top.hand /\ Own(g) \subseteq Own(Top) /\ Later(g) \subseteq Later(Top)
        /\ g.pc = "start" /\ Call(g).id \in Later(Top) /\ Open(g) \subseteq Own(Top)
    BY <1>1, <1>2, <1>3, MarkedX
  <1> HIDE DEF g
  <1>5. /\ DOMAIN st = DOMAIN stack /\ st[n] = g
        /\ \A k \in DOMAIN stack : k # n => st[k] = stack[k]
    BY <1>2 DEF Put
  <1> HIDE DEF st, touched
  <1>6. /\ StackX(stack, of, touched) /\ Apart(stack, Ahead(disk, of)) /\ DiskX(disk, of, touched)
        /\ RecX(rec, disk, park, status)
    BY DEF ExecInv, Standing, touched
  <1>7. StackX(st, of, touched)
    <2>1. ASSUME NEW k \in DOMAIN st
          PROVE  FrameX(st[k], of) /\ Later(st[k]) \cap touched = {} /\ Own(st[k]) \subseteq Own(stack[k])
      <3>1. FrameX(stack[k], of) /\ Later(stack[k]) \cap touched = {}
        BY <1>5, <1>6 DEF StackX
      <3>2. CASE k = n
        BY <1>2, <1>4, <1>5, <3>1, <3>2
      <3>3. CASE k # n
        BY <1>5, <3>1, <3>3
      <3> QED
        BY <3>2, <3>3
    <2>2. ASSUME NEW i \in DOMAIN st, NEW j \in DOMAIN st, i # j
          PROVE  Own(st[i]) \cap Own(st[j]) = {}
      <3>1. Own(stack[i]) \cap Own(stack[j]) = {}
        BY <1>5, <1>6, <2>2 DEF StackX
      <3> QED
        BY <2>1, <3>1
    <2> QED
      BY <2>1, <2>2 DEF StackX
  <1>8. park.ask = 0
    BY <1>1, <1>2 DEF ParkOK
  <1>9. Writable("ordinary", rec, st) \/ Apart(st, Ahead(disk, of))
    <2> SUFFICES ASSUME ~Writable("ordinary", rec, st) PROVE Apart(st, Ahead(disk, of))
      OBVIOUS
    <2>1. ~rec.frozen
      BY <1>1, <1>6 DEF RecX
    <2>2. HasHandler(st)
      BY <2>1 DEF Writable
    <2>3. \A k \in DOMAIN st : st[k].hand = stack[k].hand
      BY <1>2, <1>4, <1>5
    <2>4. HasHandler(stack)
      BY <1>5, <2>2, <2>3 DEF HasHandler
    <2>5. Top.hand
      BY <1>2, <2>4, HandlerOnTop
    <2>6. Own(Top) \cap Ahead(disk, of) = {}
      BY <1>2, <1>6, <2>5 DEF Apart
    <2>7. ASSUME NEW k \in DOMAIN st
          PROVE  Open(st[k]) \cap Ahead(disk, of) = {} /\ (st[k].hand => Own(st[k]) \cap Ahead(disk, of) = {})
      <3>1. CASE k = n
        BY <1>4, <1>5, <2>6, <3>1
      <3>2. CASE k # n
        BY <1>5, <1>6, <3>2 DEF Apart
      <3> QED
        BY <3>1, <3>2
    <2> QED
      BY <2>7 DEF Apart
  <1>10. Standing(stack', park', disk', of, touched) /\ RecX(rec', disk', park', "running")
    <2>1. ParkX(park, st, of, touched) /\ RecX(rec, disk, park, "running")
      BY <1>2, <1>6, <1>8 DEF ParkX
    <2> QED
      BY <1>1, <1>2, <1>6, <1>7, <1>9, <2>1, WriteX
  <1>11. Fresh(stack', log')
    <2>1. stack' = st /\ log' = log
      BY <1>1 DEF Write
    <2>2. Call(g).id \notin Ended(log)
      <3>1. Later(Top) \cap touched = {}
        BY <1>2, <1>6 DEF StackX
      <3> QED
        BY <1>4, <3>1, UntouchedFresh DEF touched
    <2>3. \A k \in DOMAIN st : st[k].pc \in {"start", "exec"} => k = n
      BY <1>2, <1>5
    <2> QED
      BY <1>5, <2>1, <2>2, <2>3 DEF Fresh
  <1> QED
    BY <1>1, <1>2, <1>10, <1>11 DEF ExecInv, touched

\* The start of a call is logged by the frame it is the call of.
LEMMA BeginCallX ==
  ASSUME NEW tools, EngineInv(tools), NEW of, ExecInv(of), BeginCall
  PROVE  ExecInv(of)'
  <1> DEFINE g == Goto(Top, "exec")
             c == Call(Top).id
  <1>1. /\ At("start") /\ stack' = Put(g) /\ UNCHANGED <<status, rec, park, disk, ran, used>>
        /\ log' = log \/ log' = Logged(log, {Start(<<"tool", c>>)})
    BY DEF BeginCall, toolStarted, Inv
  <1>2. FrameX(Top, of) /\ Top.pc = "start" /\ Shaped(Top) /\ Top = stack[Len(stack)] /\ Len(stack) \in DOMAIN stack
    BY <1>1, RunningX
  <1>3. Keeps(Top, g) /\ g.pc = "exec"
    BY <1>2, ChangeKept
  <1> HIDE DEF g
  <1>4. "start" \in OnACall /\ "exec" \in OnACall /\ Top.mode # "child"
    BY <1>2 DEF OnACall, FrameX
  <1>5. Advances(Top, g, of) /\ Call(g) = Call(Top)
    BY <1>2, <1>3, <1>4, KeptWithin
  <1>6. Top.idx \in DOMAIN Top.turn /\ Top.turn \in Turns(of) /\ Call(Top) = Top.turn[Top.idx] /\ c \in Nat
    BY <1>1, <1>4, OnCallX
  <1>7. c \in Open(Top)
    <2>1. c \in Here(Top.turn, Top.idx)
      BY <1>6, NextCall
    <2> QED
      BY <1>2, <1>4, <2>1 DEF Open
  <1>8. c \notin Ended(log)
    BY <1>2 DEF ExecInv, Fresh
  <1> HIDE DEF c
  <1>9. /\ Touched(log) \subseteq Touched(log') /\ Touched(log') \subseteq Touched(log) \cup {c}
        /\ Ended(log') = Ended(log)
    BY <1>1, <1>6, LogsStart
  <1>10. Call(g).id \notin Ended(log')
    BY <1>5, <1>8, <1>9 DEF c
  <1>11. Counted(ran')
    BY <1>1 DEF ExecInv
  <1>12. Touched(log') \subseteq Touched(log) \cup Open(Top)
    BY <1>7, <1>9
  <1> QED
    BY <1>1, <1>5, <1>9, <1>10, <1>11, <1>12, MoveX

\* One more execution of one call is counted.
LEMMA CountsOne ==
  ASSUME NEW bag, Counted(bag), NEW c
  PROVE  /\ Counted(Logged(bag, {c}))
         /\ \A x \in DOMAIN Logged(bag, {c}) : x # c => x \in DOMAIN bag /\ Logged(bag, {c})[x] = bag[x]
  BY DEF Counted, Logged, SetToBag, (+)

\* The execution counts a call that is apart from all others.
LEMMA ExecuteToolX ==
  ASSUME NEW tools, EngineInv(tools), NEW of, ExecInv(of), ExecuteTool
  PROVE  ExecInv(of)'
  <1> DEFINE tool == Call(Top).tool
             v == IF IsFinish(tool) THEN CardOf[tool] ELSE "ok"
             g == Settled(Top, v)
             st == Put(g)
             n == Len(stack)
             x == UserMessage("redirect")
             A == [st EXCEPT ![n - 1].action = "abort"]
             R == [st EXCEPT ![n - 1] = [Push(@, x) EXCEPT !.action = "redirect"]]
             a(f) == [f EXCEPT !.action = "abort"]
             r(f) == [Push(f, x) EXCEPT !.action = "redirect"]
  <1>1. At("exec") /\ UNCHANGED <<status, rec, park, log, disk, used>> /\ ran' = Logged(ran, {Call(Top).id})
    BY DEF ExecuteTool, Executed
  <1>2. /\ FrameX(Top, of) /\ Top.pc = "exec" /\ Shaped(Top) /\ Top = stack[n] /\ n \in DOMAIN stack /\ n \in Nat
        /\ DOMAIN stack = 1 .. n
        /\ \A k \in DOMAIN stack : k # n => stack[k].pc \in {"wait", "wait handler"}
    BY <1>1, RunningX
  <1>3. n \in Nat /\ n \in DOMAIN stack /\ n # n - 1 /\ DOMAIN stack = 1 .. n
    <2>1. n \in Nat /\ n \in DOMAIN stack /\ DOMAIN stack = 1 .. n
      BY <1>2
    <2> HIDE DEF n
    <2> QED
      BY <2>1
  <1>4. Keeps(Top, g) /\ g.pc = "res"
    BY <1>2 DEF Shaped, Keeps, Fields, Settled
  <1>5. "exec" \in OnACall /\ "res" \in OnACall /\ Top.mode # "child"
    BY <1>2 DEF OnACall, FrameX
  <1> HIDE DEF v, g
  <1>6. Advances(Top, g, of)
    BY <1>2, <1>4, <1>5, KeptWithin
  <1>7. /\ DOMAIN st = DOMAIN stack /\ st[n] = g /\ Len(st) = n
        /\ \A k \in DOMAIN stack : k # n => st[k] = stack[k]
    <2> DEFINE S == Frames(tools, park.wrote) \cup {g}
    <2>1. stack \in Seq(S) /\ g \in S
      <3>1. stack \in Seq(Frames(tools, park.wrote))
        BY DEF EngineInv, StackOK
      <3> QED
        BY <3>1
    <2> HIDE DEF S
    <2>2. st = [stack EXCEPT ![n] = g]
      BY DEF Put
    <2> HIDE DEF st, n
    <2>3. Len(stack) = n
      BY DEF n
    <2>4. Len(st) = n
      BY <1>3, <2>1, <2>2, <2>3
    <2>5. DOMAIN st = DOMAIN stack /\ \A k \in DOMAIN stack : st[k] = IF k = n THEN g ELSE stack[k]
      BY <2>2
    <2>6. n \in DOMAIN stack
      BY <1>3
    <2> QED
      BY <2>4, <2>5, <2>6
  <1>8. stack' = st \/ stack' = A \/ stack' = R
    BY <1>7 DEF ExecuteTool, g, v
  <1> HIDE DEF st
  <1>9. /\ DOMAIN stack' = DOMAIN stack /\ stack'[n] = g
        /\ \A k \in DOMAIN stack : k # n => \/ stack'[k] = stack[k]
                                            \/ stack'[k] = a(stack[k])
                                            \/ stack'[k] = r(stack[k])
    <2>1. CASE stack' = st
      BY <1>2, <1>7, <2>1
    <2> HIDE DEF x, n
    <2>2. CASE stack' = A
      <3>1. DOMAIN stack' = DOMAIN st /\ \A k \in DOMAIN st : stack'[k] = IF k = n - 1 THEN a(st[k]) ELSE st[k]
        BY <2>2
      <3> HIDE DEF a, r
      <3>2. n \in DOMAIN stack /\ n # n - 1
        BY <1>3
      <3>3. stack'[n] = g
        BY <1>7, <3>1, <3>2
      <3>4. ASSUME NEW k \in DOMAIN stack, k # n
            PROVE  stack'[k] = stack[k] \/ stack'[k] = a(stack[k])
        BY <1>7, <3>1, <3>4
      <3> QED
        BY <1>7, <3>1, <3>3, <3>4
    <2>3. CASE stack' = R
      <3>1. DOMAIN stack' = DOMAIN st /\ \A k \in DOMAIN st : stack'[k] = IF k = n - 1 THEN r(st[k]) ELSE st[k]
        BY <2>3
      <3> HIDE DEF a, r
      <3>2. n \in DOMAIN stack /\ n # n - 1
        BY <1>3
      <3>3. stack'[n] = g
        BY <1>7, <3>1, <3>2
      <3>4. ASSUME NEW k \in DOMAIN stack, k # n
            PROVE  stack'[k] = stack[k] \/ stack'[k] = r(stack[k])
        BY <1>7, <3>1, <3>4
      <3> QED
        BY <1>7, <3>1, <3>3, <3>4
    <2> QED
      BY <1>8, <2>1, <2>2, <2>3
  <1> HIDE DEF n
  <1>10. ASSUME NEW f, Shaped(f)
        PROVE  Keeps(f, a(f)) /\ a(f).pc = f.pc /\ Keeps(f, r(f)) /\ r(f).pc = f.pc
    <2> DEFINE p == Push(f, x)
    <2>1. Keeps(f, p) /\ p.pc = f.pc /\ Shaped(p)
      BY <1>10, PushKept, Kept
    <2> HIDE DEF p
    <2>2. Keeps(p, [p EXCEPT !.action = "redirect"]) /\ [p EXCEPT !.action = "redirect"].pc = p.pc
      BY <2>1, FieldKept
    <2>3. Keeps(f, [p EXCEPT !.action = "redirect"])
      BY <2>1, <2>2, KeepsOn
    <2>4. Keeps(f, a(f)) /\ a(f).pc = f.pc
      BY <1>10, FieldKept
    <2> QED
      BY <2>1, <2>2, <2>3, <2>4 DEF p
  <1> HIDE DEF a, r
  <1>11. ASSUME NEW k \in DOMAIN stack, k # n
         PROVE  Advances(stack[k], stack'[k], of) /\ stack'[k].pc = stack[k].pc
    <2>1. Shaped(stack[k]) /\ Keeps(stack[k], stack[k])
      BY AllShaped
    <2>2. FrameX(stack[k], of)
      BY DEF ExecInv, Standing, StackX
    <2>3. /\ Keeps(stack[k], a(stack[k])) /\ a(stack[k]).pc = stack[k].pc
          /\ Keeps(stack[k], r(stack[k])) /\ r(stack[k]).pc = stack[k].pc
      BY <1>10, <2>1
    <2>4. Keeps(stack[k], stack'[k]) /\ stack'[k].pc = stack[k].pc
      BY <1>9, <1>11, <2>1, <2>3
    <2> QED
      BY <2>2, <2>4, StaysAdvance
  <1>12. AllAdvance(stack, stack', of)
    <2>1. ASSUME NEW k \in DOMAIN stack
          PROVE  Advances(stack[k], stack'[k], of)
      BY <1>2, <1>6, <1>9, <1>11
    <2> QED
      BY <1>9, <2>1 DEF AllAdvance
  <1>13. Fresh(stack', log')
    <2>1. ASSUME NEW k \in DOMAIN stack
          PROVE  stack'[k].pc \notin {"start", "exec"}
      <3>1. CASE k = n
        BY <1>4, <1>9, <3>1
      <3>2. CASE k # n
        BY <1>2, <1>11, <3>2
      <3> QED
        BY <3>1, <3>2
    <2> QED
      BY <1>9, <2>1 DEF Fresh
  <1>14. Counted(ran')
    BY <1>1, CountsOne DEF ExecInv
  <1> QED
    BY <1>1, <1>2, <1>12, <1>13, <1>14, AdvanceStep

\* A child role starts with no call of its own.
LEMMA SpawnAgentX ==
  ASSUME NEW tools, EngineInv(tools), NEW of, ExecInv(of), SpawnAgent
  PROVE  ExecInv(of)'
  <1> DEFINE g == Settled(Top, "refused")
             h == Goto(Top, "wait")
  <1>1. /\ At("exec") /\ UNCHANGED <<status, disk, ran, used>>
        /\ \/ stack' = Put(g) /\ UNCHANGED <<rec, log, park>>
           \/ StartRole(Put(h), Top.hand, isWriteCapableRole(Call(Top).tool))
    BY DEF SpawnAgent
  <1>2. FrameX(Top, of) /\ Top.pc = "exec" /\ Shaped(Top)
    BY <1>1, RunningX
  <1>3. Keeps(Top, g) /\ g.pc = "res" /\ Keeps(Top, h) /\ h.pc = "wait"
    BY <1>2, ChangeKept
  <1> HIDE DEF g, h
  <1>4. "exec" \in OnACall /\ "res" \in OnACall /\ "wait" \in OnACall /\ Top.mode # "child"
    BY <1>2 DEF OnACall, FrameX
  <1>5. Advances(Top, g, of) /\ Advances(Top, h, of)
    BY <1>2, <1>3, <1>4, KeptWithin
  <1>6. Counted(ran)
    BY DEF ExecInv
  <1>7. CASE stack' = Put(g) /\ UNCHANGED <<rec, log, park>>
    BY <1>1, <1>3, <1>5, <1>6, <1>7, MoveX
  <1>8. CASE StartRole(Put(h), Top.hand, isWriteCapableRole(Call(Top).tool))
    BY <1>1, <1>3, <1>5, <1>8, StartAboveX
  <1> QED
    BY <1>1, <1>7, <1>8

\* What the log hears of the call the running frame is on is what it was about to log.
LEMMA LogsOwnCall ==
  ASSUME NEW tools, EngineInv(tools), NEW of, ExecInv(of), NEW l, At(l), l \in OnACall,
         NEW events, events \subseteq {Start(Inv(Top)), Terminal(Inv(Top))}, NEW lg, lg = Logged(log, events)
  PROVE  /\ Touched(log) \subseteq Touched(lg) /\ Touched(lg) \subseteq Touched(log) \cup Open(Top)
         /\ Call(Top).id \in Open(Top)
         /\ events # {} => Call(Top).id \in Touched(lg)
         /\ Touched(lg) \subseteq Touched(log) \cup {Call(Top).id}
  <1> DEFINE c == Call(Top).id
  <1>1. Top.idx \in DOMAIN Top.turn /\ Top.turn \in Turns(of) /\ Call(Top) = Top.turn[Top.idx] /\ c \in Nat
    BY OnCallX
  <1>2. c \in Open(Top)
    <2>1. c \in Here(Top.turn, Top.idx)
      BY <1>1, NextCall
    <2>2. Top.pc = l
      BY RunningX
    <2>3. Top.pc # "closing"
      BY <2>2 DEF OnACall
    <2> QED
      BY <2>1, <2>2, <2>3 DEF Open
  <1>3. events \subseteq {Start(<<"tool", c>>), Terminal(<<"tool", c>>)}
    BY DEF Inv
  <1> HIDE DEF c
  <1>4. /\ Touched(log) \subseteq Touched(lg) /\ Touched(lg) \subseteq Touched(log) \cup {c}
        /\ events # {} => c \in Touched(lg)
    BY <1>1, <1>3, LogsACall
  <1> QED
    BY <1>2, <1>4 DEF c

\* A call under way is settled.
LEMMA SettledX ==
  ASSUME NEW tools, EngineInv(tools), NEW of, ExecInv(of), NEW l, At(l), l \in OnACall, NEW val
  PROVE  /\ Advances(Top, Settled(Top, val), of) /\ Settled(Top, val).pc = "res"
         /\ Later(Settled(Top, val)) = After(Top.turn, Top.idx)
  <1> DEFINE g == Settled(Top, val)
  <1>1. FrameX(Top, of) /\ Top.pc = l /\ Shaped(Top)
    BY RunningX
  <1>2. Keeps(Top, g) /\ g.pc = "res" /\ "res" \in OnACall
    BY <1>1, ChangeKept DEF OnACall
  <1> HIDE DEF g
  <1>3. Advances(Top, g, of)
    BY <1>1, <1>2, KeptWithin
  <1>4. Later(g) = After(Top.turn, Top.idx)
    BY <1>2 DEF Keeps, Later, OnACall
  <1> QED
    BY <1>2, <1>3, <1>4 DEF g

\* A parked ask is logged, and what follows it stays apart.
LEMMA AskParksX ==
  ASSUME NEW tools, EngineInv(tools), NEW of, ExecInv(of), AskParks
  PROVE  ExecInv(of)'
  <1> DEFINE g == Settled(Top, "parked")
             n == Len(stack)
             c == Call(Top).id
             t == Top.turn
             i == Top.idx
             events == {Start(Inv(Top))}
  <1>1. /\ At("exec") /\ UNCHANGED <<status, rec, disk, ran, used>> /\ stack' = Put(g) /\ Call(Top).tool = "ask"
        /\ log' = Logged(log, events)
        /\ park' = [park EXCEPT !.question = TRUE, !.ask = c, !.role = Top.id]
    BY DEF AskParks
  <1>2. "exec" \in OnACall
    BY DEF OnACall
  <1>3. /\ i \in DOMAIN t /\ t \in Turns(of) /\ Call(Top) = t[i] /\ c = t[i].id /\ c \in Nat
        /\ Top = stack[n] /\ n \in DOMAIN stack
    BY <1>1, <1>2, OnCallX, RunningX
  <1>4. Advances(Top, g, of) /\ g.pc = "res" /\ Later(g) = After(t, i)
    BY <1>1, <1>2, SettledX
  <1> HIDE DEF g
  <1>5. /\ Touched(log) \subseteq Touched(log') /\ Touched(log') \subseteq Touched(log) \cup Open(Top)
        /\ c \in Touched(log')
    BY <1>1, <1>2, LogsOwnCall
  <1>6. AllAdvance(stack, stack', of) /\ Fresh(stack', log')
    BY <1>1, <1>4, PutAdvances
  <1>7. Standing(stack', park, disk, of, Touched(log'))
    BY <1>3, <1>5, <1>6, Moves DEF ExecInv
  <1>8. park'.ask = c /\ park'.question = TRUE
    <2>1. ParkOK(park, stack)
      BY <1>1, Running
    <2> QED
      BY <1>1, <2>1 DEF ParkOK
  <1>9. AskRest(of, c) = Later(g)
    <2>1. ~IsFinish(t[i].tool)
      BY <1>1, <1>3 DEF IsFinish, CardOf
    <2>2. From(t, i + 1) = After(t, i)
      BY <1>3, <2>1, NextCall
    <2>3. AskRest(of, t[i].id) = From(t, i + 1)
      BY <1>3, AfterTheAsk
    <2> QED
      BY <1>3, <1>4, <2>2, <2>3
  <1>10. n \in DOMAIN stack' /\ stack'[n] = g
    BY <1>1, <1>3 DEF Put
  <1>11. StackX(stack', of, Touched(log'))
    BY <1>7 DEF Standing
  <1>12. AskRest(of, c) \cap Touched(log') = {}
    BY <1>9, <1>10, <1>11 DEF StackX
  <1>13. \A k \in DOMAIN stack' : Open(stack'[k]) \cap AskRest(of, c) = {}
    BY <1>9, <1>10, <1>11, Unlogged
  <1>14. ParkX(park', stack', of, Touched(log'))
    BY <1>5, <1>8, <1>12, <1>13 DEF ParkX
  <1>15. Standing(stack', park', disk', of, Touched(log'))
    BY <1>1, <1>7, <1>14 DEF Standing
  <1>16. RecX(rec', disk', park', status')
    BY <1>1, <1>8 DEF ExecInv, RecX
  <1>17. Touched(log') \subseteq DOMAIN of
    <2>1. FrameX(Top, of)
      BY <1>1, RunningX
    <2>2. Open(Top) \subseteq DOMAIN of
      BY <2>1, FrameCalls
    <2> QED
      BY <1>5, <2>2 DEF ExecInv
  <1> QED
    BY <1>1, <1>6, <1>15, <1>16, <1>17 DEF ExecInv

\* An ask that waits is logged by the frame it is the call of.
LEMMA AskWaitsX ==
  ASSUME NEW tools, EngineInv(tools), NEW of, ExecInv(of), AskWaits
  PROVE  ExecInv(of)'
  <1> DEFINE g == Goto(Top, "asking")
             events == {Start(Inv(Top))}
  <1>1. /\ At("exec") /\ UNCHANGED <<status, rec, park, disk, ran, used>> /\ stack' = Put(g)
        /\ log' = Logged(log, events)
    BY DEF AskWaits
  <1>2. FrameX(Top, of) /\ Top.pc = "exec" /\ Shaped(Top)
    BY <1>1, RunningX
  <1>3. Keeps(Top, g) /\ g.pc = "asking"
    BY <1>2, ChangeKept
  <1> HIDE DEF g
  <1>4. "exec" \in OnACall /\ "asking" \in OnACall /\ Top.mode # "child"
    BY <1>2 DEF OnACall, FrameX
  <1>5. Advances(Top, g, of)
    BY <1>2, <1>3, <1>4, KeptWithin
  <1>6. Touched(log) \subseteq Touched(log') /\ Touched(log') \subseteq Touched(log) \cup Open(Top)
    BY <1>1, <1>4, LogsOwnCall
  <1>7. Counted(ran')
    BY <1>1 DEF ExecInv
  <1> QED
    BY <1>1, <1>3, <1>5, <1>6, <1>7, MoveX

\* A malformed ask is closed by the frame it is the call of.
LEMMA AskRejectedX ==
  ASSUME NEW tools, EngineInv(tools), NEW of, ExecInv(of), AskRejected
  PROVE  ExecInv(of)'
  <1> DEFINE g == Settled(Top, "invalid")
             events == {Terminal(Inv(Top))} \cup (IF Inv(Top) \in jour.started THEN {} ELSE {Start(Inv(Top))})
  <1>1. /\ At("exec") /\ UNCHANGED <<status, rec, park, disk, ran, used>> /\ stack' = Put(g)
        /\ log' = Logged(log, events)
    BY DEF AskRejected
  <1>2. "exec" \in OnACall
    BY DEF OnACall
  <1>3. Advances(Top, g, of) /\ g.pc = "res"
    BY <1>1, <1>2, SettledX
  <1>4. events \subseteq {Start(Inv(Top)), Terminal(Inv(Top))}
    OBVIOUS
  <1> HIDE DEF g, events
  <1>5. Touched(log) \subseteq Touched(log') /\ Touched(log') \subseteq Touched(log) \cup Open(Top)
    BY <1>1, <1>2, <1>4, LogsOwnCall
  <1>6. Counted(ran')
    BY <1>1 DEF ExecInv
  <1> QED
    BY <1>1, <1>3, <1>5, <1>6, MoveX

\* An answer closes the ask the frame waits for.
LEMMA SubmitAnswerX ==
  ASSUME NEW tools, EngineInv(tools), NEW of, ExecInv(of), submitAnswer
  PROVE  ExecInv(of)'
  <1> DEFINE g == Settled(Top, "answer")
             events == {Terminal(Inv(Top))}
  <1>1. /\ At("asking") /\ UNCHANGED <<status, rec, park, disk, ran, used>> /\ stack' = Put(g)
        /\ log' = Logged(log, events)
    BY DEF submitAnswer
  <1>2. "asking" \in OnACall
    BY DEF OnACall
  <1>3. Advances(Top, g, of) /\ g.pc = "res"
    BY <1>1, <1>2, SettledX
  <1> HIDE DEF g
  <1>4. Touched(log) \subseteq Touched(log') /\ Touched(log') \subseteq Touched(log) \cup Open(Top)
    BY <1>1, <1>2, LogsOwnCall
  <1>5. Counted(ran')
    BY <1>1 DEF ExecInv
  <1> QED
    BY <1>1, <1>3, <1>4, <1>5, MoveX

\* The child's card is on disk before it is delivered.
LEMMA RecordChildCardX ==
  ASSUME NEW tools, EngineInv(tools), NEW of, ExecInv(of), RecordChildCard
  PROVE  ExecInv(of)'
  <1> DEFINE p == [Top.pend EXCEPT !.card = Top.val]
             g == [Top EXCEPT !.pend.card = Top.val, !.pc = "res"]
  <1>1. At("carded") /\ UNCHANGED <<status, log, ran, used>> /\ Write("ordinary", Put(g), rec, park)
    BY DEF RecordChildCard
  <1>2. /\ FrameX(Top, of) /\ Top.pc = "carded" /\ Shaped(Top) /\ RecOK(rec, tools, park.wrote)
        /\ Top \in FrameType(tools, park.wrote)
    BY <1>1, RunningX, Running
  <1>3. p.calls = Top.pend.calls /\ p.idx = Top.pend.idx
    <2>1. Top.pend \in Pendings(tools, park.wrote)
      BY <1>2 DEF FrameType
    <2> QED
      BY <2>1 DEF Pendings, NoPending
  <1>4. g.hand = Top.hand /\ g.hist = Top.hist /\ g.pend = p /\ g.turn = Top.turn /\ g.idx = Top.idx
        /\ g.pc = "res" /\ g.mode = Top.mode
    BY <1>2 DEF Shaped, Fields
  <1> HIDE DEF p, g
  <1>5. "carded" \in OnACall /\ "res" \in OnACall
    BY DEF OnACall
  <1>6. Advances(Top, g, of)
    BY <1>2, <1>3, <1>4, <1>5, WithinX
  <1> QED
    BY <1>1, <1>2, <1>4, <1>6, MoveWriteX

\* A call that has its result: what is left of the turn is closed after a finish, and
\* begun after any other call.
LEMMA ResultX ==
  ASSUME NEW of, NEW f, NEW g, FrameX(f, of), f.pc = "res", f.idx \in DOMAIN f.turn, g.hand = f.hand,
         HistTurns(g.hist) \subseteq HistTurns(f.hist), g.turn = f.turn, g.pend = f.pend \/ g.pend = NoPending,
         g.mode # "child",
         \/ IsFinish(Call(f).tool) /\ g.pc = "closing" /\ g.idx = f.idx + 1
         \/ ~IsFinish(Call(f).tool) /\ g.pc = "settle" /\ g.idx = f.idx
         \/ ~IsFinish(Call(f).tool) /\ g.pc = "disp" /\ g.idx = f.idx + 1
  PROVE  Advances(f, g, of)
  <1> DEFINE t == f.turn
             i == f.idx
  <1>1. /\ HistTurns(f.hist) \subseteq Turns(of) /\ f.pend.calls \in Turns(of) /\ t \in Turns(of)
        /\ i \in Nat /\ i + 1 \in Nat /\ Call(f) = t[i] /\ AheadOf(f.pend) \subseteq Later(f)
    BY DEF FrameX, SavedTurns, Call, Batch
  <1>2. /\ ~IsFinish(t[i].tool) => From(t, i + 1) = After(t, i)
        /\ IsFinish(t[i].tool) => After(t, i) = {} /\ Rest(t, i + 1) \subseteq Here(t, i)
    BY <1>1, NextCall
  <1>3. Later(f) = After(t, i) /\ Open(f) = Here(t, i)
    BY DEF Later, Open, OnACall
  <1>4. g.pend.calls \in Turns(of) /\ CallIds(g.pend.calls) \subseteq CallIds(f.pend.calls)
    BY <1>1, NoTurn
  <1>5. Own(g) \subseteq Own(f)
    BY <1>4 DEF Own, OwnSaved
  <1>6. Later(g) = After(t, i) /\ Open(g) \subseteq Here(t, i) /\ g.idx \in Nat
    BY <1>1, <1>2 DEF Later, Open, OnACall
  <1>7. AheadOf(g.pend) \subseteq Later(g)
    BY <1>1, <1>3, <1>6, NoTurn
  <1>8. FrameX(g, of)
    BY <1>1, <1>4, <1>6, <1>7 DEF FrameX, SavedTurns
  <1> QED
    BY <1>3, <1>5, <1>6, <1>8 DEF Advances

\* A frame with another mode, and with its marker cleared.
LEMMA ModeShape ==
  ASSUME NEW f, Shaped(f), NEW m
  PROVE  /\ LET g == [f EXCEPT !.mode = m]
            IN g.hand = f.hand /\ g.hist = f.hist /\ g.turn = f.turn
               /\ g.pend = f.pend /\ g.idx = f.idx /\ g.pc = f.pc /\ g.mode = m
         /\ LET g == [f EXCEPT !.pend = NoPending, !.mode = m]
            IN g.hand = f.hand /\ g.hist = f.hist /\ g.turn = f.turn
               /\ g.pend = NoPending /\ g.idx = f.idx /\ g.pc = f.pc /\ g.mode = m
  BY DEF Shaped, Fields

\* The terminal of a call is logged by the frame it is the call of, which moves on.
LEMMA RecordToolResultX ==
  ASSUME NEW tools, EngineInv(tools), NEW of, ExecInv(of), recordToolResult
  PROVE  ExecInv(of)'
  <1> DEFINE p == Push(Top, ToolMessage(Call(Top).id, Top.val))
             h == [p EXCEPT !.calls = @ + 1]
             d == IsFinish(Call(Top).tool)
             f == IF d THEN [h EXCEPT !.pc = "closing", !.idx = @ + 1] ELSE Goto(h, "settle")
             g == CASE Top.mode = "child" -> [Onward(f) EXCEPT !.pend = NoPending, !.mode = "rest"]
                    [] Top.mode = "replay" -> [f EXCEPT !.mode = "reconcile"]
                    [] OTHER -> f
             events == {Terminal(Inv(Top))} \cup (IF Inv(Top) \in jour.started THEN {} ELSE {Start(Inv(Top))})
  <1>1. /\ At("res") /\ UNCHANGED <<status, rec, park, disk, ran, used>> /\ stack' = Put(g)
        /\ log' = log \/ log' = Logged(log, events)
    BY DEF recordToolResult
  <1>2. FrameX(Top, of) /\ Top.pc = "res" /\ Shaped(Top) /\ Top.idx \in DOMAIN Top.turn /\ "res" \in OnACall
    <2>1. "res" \in OnACall
      BY DEF OnACall
    <2> QED
      BY <1>1, <2>1, RunningX, OnCallX
  <1>3. Keeps(Top, p) /\ Shaped(p)
    BY <1>2, PushKept, Kept
  <1> HIDE DEF p
  <1>4. Keeps(Top, h)
    <2>1. Keeps(p, h)
      BY <1>3, FieldKept
    <2> QED
      BY <1>3, <2>1, KeepsOn
  <1> HIDE DEF h, d
  <1>5. /\ Shaped(f) /\ f.hand = Top.hand /\ HistTurns(f.hist) \subseteq HistTurns(Top.hist) /\ f.turn = Top.turn
        /\ f.pend = Top.pend /\ f.mode = Top.mode
        /\ d => f.pc = "closing" /\ f.idx = Top.idx + 1
        /\ ~d => f.pc = "settle" /\ f.idx = Top.idx
    <2> DEFINE a == [h EXCEPT !.pc = "closing", !.idx = @ + 1]
               b == Goto(h, "settle")
    <2>4. a = [h EXCEPT !.pc = "closing", !.idx = @ + 1] /\ b = Goto(h, "settle")
      OBVIOUS
    <2>5. (d \in BOOLEAN => (d => f = a) /\ (~d => f = b))
      OBVIOUS
    <2> HIDE DEF a, b, f
    <2>1. /\ Shaped(a) /\ a.hand = Top.hand /\ HistTurns(a.hist) \subseteq HistTurns(Top.hist) /\ a.turn = Top.turn
          /\ a.pend = Top.pend /\ a.mode = Top.mode /\ a.pc = "closing" /\ a.idx = Top.idx + 1
          /\ Shaped(b) /\ b.hand = Top.hand /\ HistTurns(b.hist) \subseteq HistTurns(Top.hist) /\ b.turn = Top.turn
          /\ b.pend = Top.pend /\ b.mode = Top.mode /\ b.pc = "settle" /\ b.idx = Top.idx
      BY <1>2, <1>4, <2>4 DEF Shaped, Keeps, Fields, Goto
    <2>2. d \in BOOLEAN
      BY DEF d, IsFinish
    <2> QED
      BY <2>1, <2>2, <2>5
  <1>6. Top.mode = "child" => ~d
    BY <1>2 DEF FrameX, d
  <1> HIDE DEF f
  <1>7. Advances(Top, g, of) /\ g.pc \notin {"start", "exec"}
    <2>1. CASE Top.mode = "child"
      <3> DEFINE o == Onward(f)
      <3>1. /\ o.hand = f.hand /\ o.pend = f.pend /\ o.hist = f.hist /\ o.turn = f.turn /\ o.idx = f.idx + 1
            /\ o.pc = "disp" /\ Shaped(o)
        BY <1>5, OnwardShape
      <3>2. g = [o EXCEPT !.pend = NoPending, !.mode = "rest"]
        BY <2>1
      <3> HIDE DEF o, g
      <3>3. /\ g.hand = o.hand /\ g.hist = o.hist /\ g.turn = o.turn /\ g.pend = NoPending /\ g.idx = o.idx
            /\ g.pc = o.pc /\ g.mode = "rest"
        BY <3>1, <3>2, ModeShape
      <3>4. ~IsFinish(Call(Top).tool) /\ f.idx = Top.idx
        BY <1>5, <1>6, <2>1 DEF d
      <3> QED
        BY <1>2, <1>5, <3>1, <3>3, <3>4, ResultX
    <2>2. CASE Top.mode = "replay"
      <3>1. g = [f EXCEPT !.mode = "reconcile"]
        BY <2>2
      <3> HIDE DEF g
      <3>2. /\ g.hand = f.hand /\ g.hist = f.hist /\ g.turn = f.turn /\ g.pend = f.pend /\ g.idx = f.idx
            /\ g.pc = f.pc /\ g.mode = "reconcile"
        BY <1>5, <3>1, ModeShape
      <3> QED
        BY <1>2, <1>5, <3>2, ResultX DEF d
    <2>3. CASE Top.mode \notin {"child", "replay"}
      <3>1. g = f
        BY <2>3
      <3> HIDE DEF g
      <3> QED
        BY <1>2, <1>5, <2>3, <3>1, ResultX DEF d
    <2> QED
      BY <2>1, <2>2, <2>3
  <1>8. events \subseteq {Start(Inv(Top)), Terminal(Inv(Top))}
    OBVIOUS
  <1> HIDE DEF g, events
  <1>9. Touched(log) \subseteq Touched(log') /\ Touched(log') \subseteq Touched(log) \cup Open(Top)
    BY <1>1, <1>2, <1>8, LogsOwnCall
  <1>10. Counted(ran')
    BY <1>1 DEF ExecInv
  <1> QED
    BY <1>1, <1>7, <1>9, <1>10, MoveX

\* A settled call is behind the frame, on disk too when it is the last of its turn.
LEMMA SettleCallX ==
  ASSUME NEW tools, EngineInv(tools), NEW of, ExecInv(of), SettleCall
  PROVE  ExecInv(of)'
  <1> DEFINE q == IF KeepsPending(Top) THEN Top.pend ELSE NoPending
             e == [Top EXCEPT !.pend = q]
  <1>1. /\ At("settle") /\ UNCHANGED <<status, log, ran, used>>
        /\ \/ Write("ordinary", Put(Onward(e)), rec, park)
           \/ stack' = Put(Onward(Top)) /\ UNCHANGED <<rec, park, disk>>
    BY DEF SettleCall
  <1>2. FrameX(Top, of) /\ Top.pc = "settle" /\ Shaped(Top) /\ RecOK(rec, tools, park.wrote)
    BY <1>1, RunningX, Running
  <1>3. q = Top.pend \/ q = NoPending
    OBVIOUS
  <1> HIDE DEF q
  <1>4. /\ Shaped(e) /\ e.hand = Top.hand /\ e.hist = Top.hist /\ e.pend = q /\ e.turn = Top.turn /\ e.idx = Top.idx
        /\ e.mode = Top.mode
    BY <1>2, ClearedShape
  <1> HIDE DEF e
  <1>5. From(Top.turn, Top.idx + 1) = Later(Top) /\ AheadOf(Top.pend) \subseteq From(Top.turn, Top.idx + 1)
    BY <1>2 DEF Later, FrameX
  <1>6. ASSUME NEW h, h = Top \/ h = e
        PROVE  Advances(Top, Onward(h), of) /\ Onward(h).pc \notin {"start", "exec"}
    <2>1. /\ Shaped(h) /\ h.hand = Top.hand /\ h.hist = Top.hist
          /\ h.pend = Top.pend \/ h.pend = NoPending
          /\ h.turn = Top.turn /\ h.idx = Top.idx /\ h.mode # "child"
      BY <1>2, <1>3, <1>4, <1>6 DEF FrameX
    <2> DEFINE g == Onward(h)
    <2>2. /\ g.hand = h.hand /\ g.pend = h.pend /\ g.hist = h.hist /\ g.turn = h.turn /\ g.idx = h.idx + 1
          /\ g.pc = "disp" /\ g.mode = (IF h.mode = "reconcile" THEN "rest" ELSE h.mode)
      BY <2>1, OnwardShape
    <2> HIDE DEF g
    <2>3. Advances(Top, g, of)
      BY <1>2, <1>5, <2>1, <2>2, OnwardX
    <2> QED
      BY <2>2, <2>3 DEF g
  <1>7. Counted(ran)
    BY DEF ExecInv
  <1>8. CASE Write("ordinary", Put(Onward(e)), rec, park)
    BY <1>1, <1>2, <1>6, <1>8, MoveWriteX
  <1>9. CASE stack' = Put(Onward(Top)) /\ UNCHANGED <<rec, park, disk>>
    BY <1>1, <1>6, <1>7, <1>9, MoveX
  <1> QED
    BY <1>1, <1>8, <1>9

\* A frame that closes what its finish left open.
LEMMA ClosingX ==
  ASSUME NEW of, NEW f, NEW g, FrameX(f, of), f.pc = "closing", f.idx \in DOMAIN f.turn, g.hand = f.hand,
         HistTurns(g.hist) \subseteq HistTurns(f.hist), g.turn = f.turn, g.pend = f.pend,
         g.mode = f.mode, g.pc = "closing", g.idx = f.idx + 1
  PROVE  Advances(f, g, of) /\ f.turn[f.idx].id \in Open(f)
  <1>1. f.turn \in Turns(of) /\ f.idx \in Nat /\ f.mode # "child"
    BY DEF FrameX
  <1>2. /\ f.idx + 1 \in Nat /\ Rest(f.turn, f.idx + 1) \subseteq Rest(f.turn, f.idx)
        /\ f.turn[f.idx].id \in Rest(f.turn, f.idx)
    BY <1>1, NextCall
  <1>3. Later(g) = {} /\ Later(f) = {} /\ Open(g) = Rest(f.turn, f.idx + 1) /\ Open(f) = Rest(f.turn, f.idx)
    BY DEF Later, Open, OnACall
  <1>4. Own(g) \subseteq Own(f)
    BY DEF Own, OwnSaved
  <1>5. FrameX(g, of)
    BY <1>1, <1>2, <1>3 DEF FrameX, SavedTurns
  <1> QED
    BY <1>2, <1>3, <1>4, <1>5 DEF Advances

\* The calls after a finish are closed by the frame that will never begin them.
LEMMA CloseUnexecutedCallsX ==
  ASSUME NEW tools, EngineInv(tools), NEW of, ExecInv(of), closeUnexecutedCalls
  PROVE  ExecInv(of)'
  <1> DEFINE f == [Top EXCEPT !.idx = @ + 1]
             p == Push(f, ToolMessage(Call(Top).id, "unexecuted"))
             g == [p EXCEPT !.calls = @ + 1]
             inv == Allocated(Call(Top))
             c == Call(Top).id
             events == {Start(inv), Terminal(inv)}
  <1>1. /\ At("closing") /\ Top.idx <= Len(Batch(Top)) /\ UNCHANGED <<status, rec, park, disk, ran, used>>
        /\ \/ stack' = Put(g) /\ log' = Logged(log, events)
           \/ stack' = Put(f) /\ log' = log
    BY DEF closeUnexecutedCalls
  <1>2. FrameX(Top, of) /\ Top.pc = "closing" /\ Shaped(Top)
    BY <1>1, RunningX
  <1>3. Top.idx \in DOMAIN Top.turn /\ Call(Top) = Top.turn[Top.idx] /\ c \in Nat
    BY <1>1, OnCallX
  <1>4. /\ Shaped(f) /\ f.hand = Top.hand /\ f.hist = Top.hist /\ f.turn = Top.turn /\ f.pend = Top.pend
        /\ f.mode = Top.mode /\ f.pc = "closing" /\ f.idx = Top.idx + 1
    BY <1>2 DEF Shaped, Fields
  <1> HIDE DEF f
  <1>5. Keeps(f, p) /\ Shaped(p) /\ p.pc = f.pc
    BY <1>4, PushKept, Kept
  <1> HIDE DEF p
  <1>6. Keeps(f, g) /\ g.pc = f.pc
    <2>1. Keeps(p, g) /\ g.pc = p.pc
      BY <1>5, FieldKept
    <2> QED
      BY <1>5, <2>1, KeepsOn
  <1> HIDE DEF g
  <1>7. /\ g.hand = Top.hand /\ HistTurns(g.hist) \subseteq HistTurns(Top.hist) /\ g.turn = Top.turn
        /\ g.pend = Top.pend
        /\ g.mode = Top.mode /\ g.pc = "closing" /\ g.idx = Top.idx + 1
    BY <1>4, <1>6 DEF Keeps
  <1>8. Advances(Top, f, of) /\ Advances(Top, g, of) /\ c \in Open(Top)
    BY <1>2, <1>3, <1>4, <1>7, ClosingX
  <1>9. Counted(ran')
    BY <1>1 DEF ExecInv
  <1>10. inv = <<"tool", c>> \/ inv = <<"generated", c>>
    BY DEF Allocated
  <1> HIDE DEF inv, c
  <1>11. CASE stack' = Put(g) /\ log' = Logged(log, events)
    <2>1. Touched(log) \subseteq Touched(log') /\ Touched(log') \subseteq Touched(log) \cup {c}
      <3>1. CASE inv = <<"tool", c>>
        <4>1. events \subseteq {Start(<<"tool", c>>), Terminal(<<"tool", c>>)}
          BY <3>1
        <4> HIDE DEF events
        <4> QED
          BY <1>11, <4>1, LogsACall
      <3>2. CASE inv = <<"generated", c>>
        <4>1. \A x \in Nat : Start(<<"tool", x>>) \notin events /\ Terminal(<<"tool", x>>) \notin events
          BY <3>2 DEF Start, Terminal
        <4> HIDE DEF events
        <4> QED
          BY <1>11, <4>1, LogsNoCall
      <3> QED
        BY <1>10, <3>1, <3>2
    <2>2. Touched(log') \subseteq Touched(log) \cup Open(Top)
      BY <1>8, <2>1
    <2> QED
      BY <1>1, <1>7, <1>8, <1>9, <1>11, <2>1, <2>2, MoveX
  <1>12. CASE stack' = Put(f) /\ log' = log
    BY <1>1, <1>4, <1>8, <1>9, <1>12, MoveX
  <1> QED
    BY <1>1, <1>11, <1>12

\* The answered turn is on disk, and nothing of it is left.
LEMMA FinishTurnX ==
  ASSUME NEW tools, EngineInv(tools), NEW of, ExecInv(of), FinishTurn
  PROVE  ExecInv(of)'
  <1> DEFINE f == [Top EXCEPT !.pend = NoPending]
             h == Noted(f)
             g == IF f.mode = "reconcile" /\ f.note THEN LoopTop(h) ELSE EndWith(h, f.val)
             st == Put(f)
             c == Checkpoint("ordinary", rec, st, park)
             pre == PreInterlude("ordinary", rec, c)
             n == Len(stack)
  <1>1. /\ At("closing") /\ UNCHANGED <<status, park, log, ran, used>> /\ stack' = Put(g)
        /\ \/ Writable("ordinary", rec, stack) /\ disk' = c /\ rec' = [rec EXCEPT !.pre = pre]
           \/ UNCHANGED <<disk, rec>>
    BY DEF FinishTurn
  <1>2. /\ FrameX(Top, of) /\ Top.pc = "closing" /\ Shaped(Top) /\ Top = stack[n] /\ n \in DOMAIN stack
        /\ status = "running" /\ RecOK(rec, tools, park.wrote)
    BY <1>1, RunningX, Running
  <1>3. /\ Shaped(f) /\ f.hand = Top.hand /\ f.hist = Top.hist /\ f.pend = NoPending /\ f.turn = Top.turn
        /\ f.idx = Top.idx /\ f.mode = Top.mode /\ f.pc = "closing"
    BY <1>2, ClearedShape
  <1> HIDE DEF f
  <1>4. Advances(Top, f, of)
    <2>1. Own(f) \subseteq Own(Top) /\ f.pend.calls \in Turns(of) /\ AheadOf(f.pend) = {}
      BY <1>3, NoTurn DEF Own, OwnSaved
    <2>2. Later(f) = Later(Top) /\ Open(f) = Open(Top)
      BY <1>2, <1>3 DEF Later, Open
    <2>3. FrameX(f, of)
      BY <1>2, <1>3, <2>1 DEF FrameX, SavedTurns
    <2> QED
      BY <1>3, <2>1, <2>2, <2>3 DEF Advances
  <1>5. Keeps(f, h) /\ h.pc = f.pc /\ Shaped(h)
    BY <1>3, ChangeKept, Kept
  <1> HIDE DEF h
  <1>6. /\ g.hand = f.hand /\ HistTurns(g.hist) \subseteq HistTurns(f.hist) /\ g.pend = f.pend
        /\ g.turn = f.turn \/ g.turn = << >>
        /\ g.idx \in Nat /\ g.pc \notin Busy /\ g.mode # "child"
    <2>1. f.mode # "child" /\ f.idx \in Nat
      BY <1>2, <1>3 DEF FrameX
    <2>2. CASE g = LoopTop(h)
      <3>1. /\ g.hand = h.hand /\ g.pend = h.pend /\ g.hist = h.hist /\ g.turn = << >> /\ g.idx = 0 /\ g.pc = "top"
            /\ g.mode = "live"
        BY <1>5, <2>2, LoopTopShape
      <3> HIDE DEF g
      <3> QED
        BY <1>5, <3>1 DEF Keeps, Busy, OnACall
    <2>3. CASE g = EndWith(h, f.val)
      <3>1. Keeps(h, g) /\ g.pc = "end"
        BY <1>5, <2>3, ChangeKept
      <3> HIDE DEF g
      <3> QED
        BY <1>5, <2>1, <3>1 DEF Keeps, Busy, OnACall
    <2> QED
      BY <2>2, <2>3
  <1> HIDE DEF g
  <1>7. Advances(f, g, of) /\ Advances(Top, g, of)
    <2>1. FrameX(f, of) /\ AheadOf(g.pend) = {} /\ (g.pend = f.pend \/ g.pend = NoPending)
      BY <1>3, <1>4, <1>6, NoTurn DEF Advances
    <2>2. Advances(f, g, of)
      BY <1>6, <2>1, ComesToRest
    <2> QED
      BY <1>4, <2>2 DEF Advances
  <1>8. g.pc \notin {"start", "exec"} /\ Counted(ran) /\ f.pc \notin {"start", "exec"}
    BY <1>3, <1>6 DEF Busy, OnACall, ExecInv
  <1>9. CASE UNCHANGED <<disk, rec>>
    BY <1>1, <1>7, <1>8, <1>9, MoveX
  <1>10. CASE Writable("ordinary", rec, stack) /\ disk' = c /\ rec' = [rec EXCEPT !.pre = pre]
    <2>1. AllAdvance(stack, st, of) /\ AllAdvance(stack, stack', of) /\ Fresh(stack', log)
      BY <1>1, <1>4, <1>7, <1>8, PutAdvances
    <2>2. Standing(st, park, disk, of, Touched(log))
      BY <1>2, <2>1, Moves DEF ExecInv
    <2>3. c.frames = WorkFrames(st) /\ c.ask = park.ask
      BY DEF Checkpoint
    <2>4. pre \in {<< >>, c.frames}
      BY DEF PreInterlude
    <2>5. \A k \in DOMAIN st : ~st[k].hand
      <3>1. \A k \in DOMAIN stack : ~stack[k].hand
        BY <1>10 DEF Writable, HasHandler
      <3> QED
        BY <2>1, <3>1 DEF AllAdvance, Advances
    <2> HIDE DEF c, pre
    <2>6. Standing(st, park, c, of, Touched(log))
      BY <2>2, <2>3, <2>5, Writes DEF Standing
    <2>7. AllAdvance(st, stack', of)
      <3>1. /\ DOMAIN st = DOMAIN stack /\ DOMAIN stack' = DOMAIN stack /\ st[n] = f /\ stack'[n] = g
            /\ \A k \in DOMAIN stack : k # n => st[k] = stack[k] /\ stack'[k] = stack[k]
        BY <1>1, <1>2 DEF Put
      <3>2. \A k \in DOMAIN stack : Advances(stack[k], stack[k], of)
        BY DEF ExecInv, Standing, StackX, Advances
      <3> HIDE DEF st
      <3> QED
        BY <1>7, <3>1, <3>2 DEF AllAdvance
    <2>8. n \in DOMAIN st
      BY <1>2 DEF Put
    <2> HIDE DEF st
    <2>9. Standing(stack', park', disk', of, Touched(log'))
      BY <1>1, <1>10, <2>6, <2>7, <2>8, Moves
    <2>10. RecX(rec', disk', park', status')
      <3>1. rec'.pre = pre /\ rec'.frozen = rec.frozen
        BY <1>2, <1>10 DEF RecOK
      <3> QED
        BY <1>1, <1>2, <1>10, <2>4, <3>1 DEF ExecInv, RecX
    <2> QED
      BY <1>1, <2>1, <2>9, <2>10 DEF ExecInv
  <1> QED
    BY <1>1, <1>9, <1>10

\* A role's terminal is of no call.
LEMMA LogsRole ==
  ASSUME NEW lg, NEW f
  PROVE  Touched(Logged(lg, {Terminal(i) : i \in RoleTerminal(f)})) = Touched(lg)
  <1> DEFINE events == {Terminal(i) : i \in RoleTerminal(f)}
  <1>1. \A x \in Nat : Start(<<"tool", x>>) \notin events /\ Terminal(<<"tool", x>>) \notin events
    <2>1. \A i \in RoleTerminal(f) : i[1] = "role"
      BY DEF RoleTerminal
    <2>2. \A x \in Nat : <<"tool", x>>[1] = "tool"
      OBVIOUS
    <2> QED
      BY <2>1, <2>2 DEF Start, Terminal
  <1> HIDE DEF events
  <1>2. Touched(Logged(lg, events)) = Touched(lg)
    BY <1>1, LogsNoCall
  <1> QED
    BY <1>2 DEF events

\* The card of a child or of a handler is delivered to the frame below.
LEMMA DeliveredX ==
  ASSUME NEW of, NEW f, FrameX(f, of), Shaped(f), f.pc \in {"wait", "wait handler"}, NEW card
  PROVE  Advances(f, Delivered(f, card), of) /\ Delivered(f, card).pc \in {"carded", "handled"}
  <1> DEFINE p == IF f.pc = "wait" THEN "carded" ELSE "handled"
             h == [f EXCEPT !.val = card]
             g == [h EXCEPT !.pc = p]
  <1>1. Delivered(f, card) = g
    BY DEF Delivered, Shaped, Fields
  <1>2. Keeps(f, h)
    BY FieldKept
  <1>3. Shaped(h)
    BY <1>2, Kept
  <1> HIDE DEF p, h
  <1>4. Keeps(h, g) /\ g.pc = p
    BY <1>3 DEF Shaped, Keeps, Fields
  <1>5. Keeps(f, g) /\ g.pc = p
    BY <1>2, <1>4, KeepsOn
  <1> HIDE DEF g
  <1>6. CASE f.pc = "wait"
    <2>1. f.pc \in OnACall /\ g.pc \in OnACall /\ g.pc = "carded"
      BY <1>5, <1>6 DEF OnACall, p
    <2> QED
      BY <1>1, <1>5, <2>1, KeptWithin
  <1>7. CASE f.pc = "wait handler"
    <2>1. f.pc \notin Busy /\ g.pc \notin Busy /\ g.pc = "handled"
      BY <1>5, <1>7 DEF Busy, OnACall, p
    <2> QED
      BY <1>1, <1>5, <2>1, IdleAdvance
  <1> QED
    BY <1>6, <1>7

\* What is left of a stack once its top is gone.
LEMMA PoppedX ==
  ASSUME NEW S, NEW st \in Seq(S), NEW m \in Nat, Len(st) = m + 1, m # 0, NEW card
  PROVE  /\ DOMAIN PoppedStack(st, m, card) = 1 .. m /\ Len(Front(st)) = m
         /\ \A k \in 1 .. m : PoppedStack(st, m, card)[k] = IF k = m THEN Delivered(st[m], card) ELSE st[k]
  <1> DEFINE rest == Front(st)
             g == Delivered(st[m], card)
  <1>1. Len(rest) = m /\ rest = [k \in 1 .. m |-> st[k]]
    <2>1. rest = SubSeq(st, 1, Len(st) - 1)
      BY DEF Front
    <2>2. Len(st) - 1 = m
      OBVIOUS
    <2> QED
      BY <2>1, <2>2, SubSeqProperties
  <1>2. PoppedStack(st, m, card) = [rest EXCEPT ![m] = Delivered(@, card)] /\ rest[m] = st[m]
    BY <1>1 DEF PoppedStack
  <1> HIDE DEF rest
  <1>3. PoppedStack(st, m, card) = [rest EXCEPT ![m] = g]
    BY <1>2
  <1> HIDE DEF g
  <1>4. /\ DOMAIN PoppedStack(st, m, card) = 1 .. m
        /\ \A k \in 1 .. m : PoppedStack(st, m, card)[k] = IF k = m THEN g ELSE st[k]
    BY <1>1, <1>3
  <1> QED
    BY <1>1, <1>4 DEF g, rest

\* A child that ends leaves its parent the card, and takes its calls along.
LEMMA EndChildX ==
  ASSUME NEW tools, EngineInv(tools), NEW of, ExecInv(of), EndChild
  PROVE  ExecInv(of)'
  <1> DEFINE n == Len(stack)
             m == n - 1
             nt == PoppedStack(stack, m, Top.val)
  <1>1. At("end") /\ UNCHANGED <<status, rec, park, disk, ran, used>> /\ n > 1
        /\ log' = Logged(log, {Terminal(i) : i \in RoleTerminal(Top)})
    BY DEF EndChild
  <1>2. /\ n \in Nat /\ n \in DOMAIN stack /\ DOMAIN stack = 1 .. n
        /\ \A k \in DOMAIN stack : k # n => stack[k].pc \in {"wait", "wait handler"}
    BY <1>1, RunningX
  <1>3. \A k \in DOMAIN stack : Shaped(stack[k])
    BY AllShaped
  <1>4. m \in Nat /\ m # 0 /\ n = m + 1 /\ m \in DOMAIN stack /\ m # n
    <2>1. n \in Nat /\ n > 1 /\ DOMAIN stack = 1 .. n
      BY <1>1, <1>2
    <2> HIDE DEF n
    <2>2. n - 1 \in Nat /\ n - 1 # 0 /\ n = (n - 1) + 1 /\ n - 1 \in 1 .. n /\ n - 1 # n
      BY <2>1
    <2> QED
      BY <2>1, <2>2
  <1>5. stack \in Seq(Frames(tools, park.wrote))
    BY DEF EngineInv, StackOK
  <1>6. /\ DOMAIN nt = 1 .. m /\ Len(Front(stack)) = m
        /\ \A k \in 1 .. m : nt[k] = IF k = m THEN Delivered(stack[m], Top.val) ELSE stack[k]
    <2> HIDE DEF m
    <2> QED
      BY <1>4, <1>5, PoppedX
  <1>7. stack' = nt
    BY <1>6 DEF EndChild, PoppedStack
  <1> HIDE DEF nt
  <1>8. \A k \in DOMAIN stack : FrameX(stack[k], of) /\ Advances(stack[k], stack[k], of)
    BY DEF ExecInv, Standing, StackX, Advances
  <1> DEFINE d == Delivered(stack[m], Top.val)
  <1>9. Advances(stack[m], d, of) /\ d.pc \in {"carded", "handled"}
    <2>1. FrameX(stack[m], of) /\ Shaped(stack[m]) /\ stack[m].pc \in {"wait", "wait handler"}
      BY <1>2, <1>3, <1>4, <1>8
    <2> QED
      BY <2>1, DeliveredX
  <1> HIDE DEF d, m
  <1>10. \A k \in 1 .. m : k \in DOMAIN stack /\ k # n
    <2>1. DOMAIN stack = 1 .. n /\ n \in Nat /\ m \in Nat /\ n = m + 1
      BY <1>2, <1>4
    <2> HIDE DEF n
    <2>2. \A k \in 1 .. m : k \in 1 .. n /\ k # n
      BY <2>1
    <2> QED
      BY <2>1, <2>2
  <1>11. AllAdvance(stack, nt, of)
    BY <1>6, <1>8, <1>9, <1>10 DEF AllAdvance, d
  <1>12. Fresh(nt, log')
    BY <1>2, <1>6, <1>9, <1>10 DEF Fresh, d
  <1>13. Touched(log') = Touched(log)
    BY <1>1, LogsRole
  <1>14. Counted(ran')
    BY <1>1 DEF ExecInv
  <1> QED
    BY <1>1, <1>2, <1>7, <1>11, <1>12, <1>13, <1>14, AdvanceStep

\* The root that ends leaves what is on disk.
LEMMA EndRootX ==
  ASSUME NEW tools, EngineInv(tools), NEW of, ExecInv(of), EndRoot
  PROVE  ExecInv(of)'
  <1> DEFINE c == Checkpoint("ordinary", rec, stack, park)
  <1>1. /\ Forget /\ UNCHANGED <<ran, used>> /\ (disk' = c \/ disk' = disk)
        /\ log' = Logged(log, {Terminal(i) : i \in RoleTerminal(Top)})
    BY DEF EndRoot
  <1>2. Touched(log') = Touched(log)
    BY <1>1, LogsRole
  <1>3. c.frames = WorkFrames(stack) /\ c.ask = park.ask
    BY DEF Checkpoint
  <1> HIDE DEF c
  <1>4. DiskX(c, of, Touched(log)) /\ DiskX(disk, of, Touched(log))
    <2>1. /\ StackX(stack, of, Touched(log)) /\ ParkX(park, stack, of, Touched(log))
          /\ DiskX(disk, of, Touched(log))
      BY DEF ExecInv, Standing
    <2> QED
      BY <1>3, <2>1, Saves
  <1> QED
    BY <1>1, <1>2, <1>4, ForgetX

\* Nothing is ahead of a run whose checkpoint is gone.
LEMMA NothingAhead ==
  ASSUME NEW of, NEW touched
  PROVE  DiskX(NoCheckpoint, of, touched) /\ Ahead(NoCheckpoint, of) = {}
  <1>1. DOMAIN NoCheckpoint.frames = {} /\ NoCheckpoint.ask = 0
    BY DEF NoCheckpoint
  <1>2. Ahead(NoCheckpoint, of) = {}
    BY <1>1 DEF Ahead
  <1> QED
    BY <1>1, <1>2 DEF DiskX

\* A deleted checkpoint lets no call begin.
LEMMA DeleteCheckpointX ==
  ASSUME NEW of, ExecInv(of), DeleteCheckpoint
  PROVE  ExecInv(of)'
  <1>1. /\ status = "finishing" /\ status' = "done" /\ disk' = NoCheckpoint
        /\ UNCHANGED <<stack, rec, park, log, ran, used>>
    BY DEF DeleteCheckpoint, volatile
  <1>2. Standing(stack', park', disk', of, Touched(log'))
    BY <1>1, NothingAhead DEF ExecInv, Standing, Apart
  <1>3. RecX(rec', disk', park', status')
    BY <1>1 DEF ExecInv, RecX
  <1> QED
    BY <1>1, <1>2, <1>3 DEF ExecInv

\* A request, a pause, and what a boot makes of a run change nothing of this.
LEMMA StandsX ==
  ASSUME NEW of, ExecInv(of), UNCHANGED <<stack, rec, park, log, disk, ran>>, used'.tools = used.tools,
         status' = status \/ status # "running"
  PROVE  ExecInv(of)'
  <1>1. CASE status' = status
    BY <1>1 DEF ExecInv
  <1>2. CASE status # "running"
    BY <1>2 DEF ExecInv, RecX
  <1> QED
    BY <1>1, <1>2

\* What the operator asks for begins no call.
LEMMA OperatorX ==
  ASSUME NEW tools, EngineInv(tools), NEW of, ExecInv(of), SubmitRequest \/ RequestPause
  PROVE  ExecInv(of)'
  <1>1. used \in UsedType
    BY DEF EngineInv
  <1>2. used'.tools = used.tools /\ UNCHANGED <<status, stack, rec, park, log, disk, ran>>
    BY <1>1, CountedUse DEF SubmitRequest, RequestPause
  <1> QED
    BY <1>2, StandsX

\* What a boot finds on disk stays there.
LEMMA BootX ==
  ASSUME NEW of, ExecInv(of), BootFinds \/ ResumeRefused
  PROVE  ExecInv(of)'
  <1>1. UNCHANGED <<stack, rec, park, log, disk, ran, used>> /\ status # "running"
    BY DEF BootFinds, ResumeRefused, volatile
  <1> QED
    BY <1>1, StandsX

\* A crash leaves the log and the disk.
LEMMA CrashX ==
  ASSUME NEW tools, EngineInv(tools), NEW of, ExecInv(of), Crash
  PROVE  ExecInv(of)'
  <1>1. used \in UsedType
    BY DEF EngineInv
  <1>2. Forget /\ UNCHANGED <<log, disk, ran>> /\ used'.tools = used.tools
    BY <1>1, CountedUse DEF Crash
  <1>3. DiskX(disk', of, Touched(log'))
    BY <1>2 DEF ExecInv, Standing
  <1> QED
    BY <1>2, <1>3, ForgetX

\* The call a resume reconciles: replayed when its terminal is in the log, and dispatched
\* again only when it is not.
LEMMA ReconcileX ==
  ASSUME NEW tools, EngineInv(tools), NEW of, ExecInv(of), reconcilePendingInvocation
  PROVE  ExecInv(of)'
  <1> DEFINE val == ReplayedValue(Call(Top).tool)
             s == Settled(Top, val)
             r == Goto(Top, "start")
             a == [s EXCEPT !.mode = "replay"]
             b == [r EXCEPT !.mode = "reconcile"]
             g == IF Inv(Top) \in TerminatedIn(log) THEN a ELSE b
  <1>1. At("recon") /\ stack' = Put(g) /\ UNCHANGED <<status, rec, park, disk, log, ran, used>>
    BY DEF reconcilePendingInvocation
  <1>2. FrameX(Top, of) /\ Top.pc = "recon" /\ Shaped(Top)
    BY <1>1, RunningX
  <1>3. Call(Top).id \in Nat
    BY <1>1, OnCallX DEF OnACall
  <1>4. Keeps(Top, s) /\ s.pc = "res" /\ Keeps(Top, r) /\ r.pc = "start"
    BY <1>2, ChangeKept
  <1> HIDE DEF s, r
  <1>5. /\ a.hand = s.hand /\ a.hist = s.hist /\ a.turn = s.turn /\ a.pend = s.pend /\ a.idx = s.idx
        /\ a.pc = s.pc /\ a.mode = "replay"
        /\ b.hand = r.hand /\ b.hist = r.hist /\ b.turn = r.turn /\ b.pend = r.pend /\ b.idx = r.idx
        /\ b.pc = r.pc /\ b.mode = "reconcile"
    BY <1>4, ModeShape DEF Keeps
  <1> HIDE DEF a, b
  <1>6. "recon" \in OnACall /\ "res" \in OnACall /\ "start" \in OnACall
    BY DEF OnACall
  <1>7. Advances(Top, a, of) /\ Advances(Top, b, of) /\ Call(b) = Call(Top)
    BY <1>2, <1>4, <1>5, <1>6, WithinX DEF Keeps
  <1>8. Inv(Top) \notin TerminatedIn(log) => Call(b).id \notin Ended(log)
    BY <1>3, <1>7 DEF Ended, Inv
  <1>9. Advances(Top, g, of) /\ (g.pc \in {"start", "exec"} => Call(g).id \notin Ended(log))
    BY <1>4, <1>5, <1>7, <1>8
  <1> HIDE DEF g
  <1>10. Counted(ran')
    BY <1>1 DEF ExecInv
  <1> QED
    BY <1>1, <1>9, <1>10, MoveX

(***************************************************************************)
(* The resumes.                                                             *)
(***************************************************************************)

\* What a resume relies on of a checkpoint: a delegation under every frame that waits, no
\* marker beside a parked ask, and the ask's turn in the leaf's history.
Ready(c, of) ==
  /\ Len(c.frames) \in Nat \ {0} /\ DOMAIN c.frames = 1 .. Len(c.frames)
  /\ \A k \in DOMAIN c.frames : k # Len(c.frames) \/ c.frames[k].pend.card # None =>
       c.frames[k].pend # NoPending /\ suspendsChild(PendingCall(c.frames[k].pend).tool)
  /\ c.ask # 0 => LeafOf(c).pend = NoPending /\ AskRest(of, c.ask) \subseteq OwnSaved(LeafOf(c))

\* The turn an ask is in, among those of a history.
LEMMA AskedTurn ==
  ASSUME NEW of, NEW hist, HistTurns(hist) \subseteq Turns(of), NEW ask,
         \E k \in DOMAIN hist : hist[k].m = "assistant" /\ [id |-> ask, tool |-> "ask"] \in Range(hist[k].calls)
  PROVE  /\ AskTurn(hist, ask) \in HistTurns(hist) /\ ask \in CallIds(AskTurn(hist, ask))
  <1> DEFINE Holds(i) == hist[i].m = "assistant" /\ ask \in CallIds(hist[i].calls)
             j == CHOOSE i \in DOMAIN hist : Holds(i)
             ac == [id |-> ask, tool |-> "ask"]
  <1>1. ac.id = ask
    OBVIOUS
  <1>2. PICK k \in DOMAIN hist : hist[k].m = "assistant" /\ ac \in Range(hist[k].calls)
    OBVIOUS
  <1> HIDE DEF ac
  <1>3. Holds(k)
    BY <1>1, <1>2 DEF CallIds, Range
  <1>4. j \in DOMAIN hist /\ Holds(j)
    BY <1>3
  <1>5. AskTurn(hist, ask) = hist[j].calls
    BY DEF AskTurn
  <1> HIDE DEF j
  <1> QED
    BY <1>4, <1>5 DEF HistTurns

\* What is left of that turn after the ask.
LEMMA AskRestOf ==
  ASSUME NEW of, NEW t \in Turns(of), NEW ask \in CallIds(t)
  PROVE  AskRest(of, ask) \subseteq CallIds(t)
  <1>1. PICK k \in DOMAIN t : t[k].id = ask
    BY DEF CallIds
  <1>2. k + 1 \in Nat
    BY NextCall
  <1>3. AskRest(of, ask) = From(t, k + 1)
    BY <1>1, AfterTheAsk
  <1> QED
    BY <1>2, <1>3, Parts

\* A readable checkpoint whose calls are apart can be resumed from.
LEMMA ReadyX ==
  ASSUME NEW tools, NEW c, DiskOK(c, tools), isRunCheckpoint(c), NEW of, NEW touched, DiskX(c, of, touched)
  PROVE  Ready(c, of)
  <1> DEFINE n == Len(c.frames)
             s == LeafOf(c)
  <1>1. n \in Nat \ {0} /\ DOMAIN c.frames = 1 .. n /\ n \in DOMAIN c.frames /\ s = c.frames[n]
    <2>1. c.frames \in Seq(SavedType(tools, c.wrote)) /\ n > 0
      BY Resumable DEF DiskOK, SavedOK
    <2> QED
      BY <2>1 DEF LeafOf
  <1>2. /\ \A k \in 1 .. n - 1 : /\ c.frames[k].pend # NoPending /\ suspendsChild(PendingCall(c.frames[k].pend).tool)
        /\ s.pend.card # None => s.pend # NoPending /\ suspendsChild(PendingCall(s.pend).tool)
        /\ c.ask # 0 => s.pend = NoPending
    BY DEF isRunCheckpoint, LeafOf
  <1>3. \A k \in DOMAIN c.frames : k = n \/ k \in 1 .. n - 1
    <2>1. n \in Nat \ {0} /\ DOMAIN c.frames = 1 .. n
      BY <1>1
    <2> HIDE DEF n
    <2> QED
      BY <2>1
  <1>4. \A k \in DOMAIN c.frames : k # n \/ c.frames[k].pend.card # None =>
          c.frames[k].pend # NoPending /\ suspendsChild(PendingCall(c.frames[k].pend).tool)
    BY <1>1, <1>2, <1>3
  <1>5. ASSUME c.ask # 0
        PROVE  AskRest(of, c.ask) \subseteq OwnSaved(s)
    <2> DEFINE t == AskTurn(s.hist, c.ask)
    <2>1. HistTurns(s.hist) \subseteq Turns(of)
      BY <1>1 DEF DiskX, SavedTurns
    <2>2. \E k \in DOMAIN s.hist :
            s.hist[k].m = "assistant" /\ [id |-> c.ask, tool |-> "ask"] \in Range(s.hist[k].calls)
      BY <1>5, Resumable
    <2>3. t \in HistTurns(s.hist) /\ c.ask \in CallIds(t)
      BY <2>1, <2>2, AskedTurn
    <2> HIDE DEF t, s
    <2>4. AskRest(of, c.ask) \subseteq CallIds(t)
      BY <2>1, <2>3, AskRestOf
    <2> QED
      BY <2>3, <2>4 DEF OwnSaved
  <1> QED
    BY <1>1, <1>2, <1>4, <1>5 DEF Ready

\* A frame that re-enters on the call its marker stands on.
LEMMA OnMarkerX ==
  ASSUME NEW of, NEW s, SavedTurns(s, of), s.pend.idx \in Nat, NEW f, f.hist = s.hist, f.pend = s.pend,
         f.turn = s.pend.calls, f.idx = s.pend.idx, f.pc \in OnACall,
         f.mode = "child" => f.pc \in {"wait", "carded", "res"} /\ suspendsChild(PendingCall(s.pend).tool)
  PROVE  FrameX(f, of) /\ Own(f) = OwnSaved(s) /\ Later(f) = AheadOf(s.pend)
         /\ Open(f) = Here(s.pend.calls, s.pend.idx)
  <1>1. Later(f) = AheadOf(s.pend) /\ Open(f) = Here(s.pend.calls, s.pend.idx)
    BY DEF Later, Open, OnACall, AheadOf
  <1>2. Own(f) = OwnSaved(s)
    BY DEF Own, OwnSaved
  <1>3. Call(f) = PendingCall(s.pend)
    BY DEF Call, Batch, PendingCall
  <1>4. suspendsChild(PendingCall(s.pend).tool) => ~IsFinish(PendingCall(s.pend).tool)
    BY DEF suspendsChild, IsFinish, CardOf
  <1> QED
    BY <1>1, <1>2, <1>3, <1>4 DEF FrameX, SavedTurns

\* A frame that re-enters at the top of its loop, or to end.
LEMMA UnmarkedX ==
  ASSUME NEW of, NEW s, SavedTurns(s, of), s.pend = NoPending, NEW f, HistTurns(f.hist) \subseteq HistTurns(s.hist),
         f.pend = NoPending, f.turn = << >>, f.idx \in Nat, f.pc \notin Busy, f.mode # "child"
  PROVE  FrameX(f, of) /\ Own(f) \subseteq OwnSaved(s) /\ Later(f) = {} /\ Open(f) = {}
  <1>1. Later(f) = {} /\ Open(f) = {}
    BY Idle
  <1>2. CallIds(f.turn) = {} /\ f.turn \in Turns(of) /\ AheadOf(f.pend) = {}
    BY NoTurn
  <1>3. Own(f) \subseteq OwnSaved(s)
    BY <1>2 DEF Own, OwnSaved
  <1> QED
    BY <1>1, <1>2, <1>3 DEF FrameX, SavedTurns

\* A frame read back from disk is live, at the top of its loop and on no call.
LEMMA RestoredShape ==
  ASSUME NEW tools, NEW w, NEW s \in SavedType(tools, w)
  PROVE  /\ Shaped(Restored(s)) /\ Restored(s).hand = FALSE /\ Restored(s).hist = s.hist
         /\ Restored(s).pend = s.pend /\ Restored(s).pc = "top" /\ Restored(s).mode = "live"
         /\ s.pend.idx \in Nat /\ s.pend \in Pendings(tools, w)
  <1>1. Restored(s).mode = "live"
    BY DEF Restored, Frame
  <1> QED
    BY <1>1, RestoredType, FrameShaped

\* A parent restored from its marker waits for the call the marker names.
LEMMA ResumedParentX ==
  ASSUME NEW tools, NEW w, NEW s \in SavedType(tools, w), NEW of, SavedTurns(s, of),
         suspendsChild(PendingCall(s.pend).tool)
  PROVE  LET f == ResumedParent(s)
         IN /\ FrameX(f, of) /\ f.hand = FALSE /\ f.pc = "wait" /\ Own(f) = OwnSaved(s)
            /\ Later(f) = AheadOf(s.pend) /\ Open(f) = Here(s.pend.calls, s.pend.idx)
  <1> DEFINE e == Restored(s)
             f == [e EXCEPT !.turn = s.pend.calls, !.idx = s.pend.idx, !.pc = "wait", !.mode = "child"]
  <1>1. /\ Shaped(e) /\ e.hand = FALSE /\ e.hist = s.hist /\ e.pend = s.pend /\ s.pend.idx \in Nat
    BY RestoredShape
  <1>2. ResumedParent(s) = f
    BY DEF ResumedParent
  <1> HIDE DEF e
  <1>3. /\ f.hand = FALSE /\ f.hist = s.hist /\ f.pend = s.pend /\ f.turn = s.pend.calls /\ f.idx = s.pend.idx
        /\ f.pc = "wait" /\ f.mode = "child"
    BY <1>1 DEF Shaped, Fields
  <1> HIDE DEF f
  <1>4. f.pc \in OnACall
    BY <1>3 DEF OnACall
  <1>5. /\ FrameX(f, of) /\ Own(f) = OwnSaved(s) /\ Later(f) = AheadOf(s.pend)
        /\ Open(f) = Here(s.pend.calls, s.pend.idx)
    BY <1>1, <1>3, <1>4, OnMarkerX
  <1> QED
    BY <1>2, <1>3, <1>5

\* The leaf: on its marker, delivering the card it holds or reconciling its call, and
\* otherwise at the top of its loop or done.
LEMMA ResumedLeafX ==
  ASSUME NEW tools, NEW w, NEW s \in SavedType(tools, w), NEW of, SavedTurns(s, of), NEW note \in BOOLEAN, NEW explicit,
         s.pend.card # None => s.pend # NoPending /\ suspendsChild(PendingCall(s.pend).tool)
  PROVE  LET l == ResumedLeaf(s, note, explicit)
         IN /\ FrameX(l, of) /\ l.hand = FALSE /\ l.pc \notin {"start", "exec"} /\ Own(l) \subseteq OwnSaved(s)
            /\ Later(l) \subseteq AheadOf(s.pend)
            /\ Open(l) = {} \/ (s.pend # NoPending /\ Open(l) = Here(s.pend.calls, s.pend.idx))
  <1> DEFINE e == Restored(s)
             f == [e EXCEPT !.turn = s.pend.calls, !.idx = s.pend.idx, !.note = note]
             c == [f EXCEPT !.pc = "carded", !.val = s.pend.card, !.mode = "child"]
             card == completedFinishCard(s.hist)
             l == ResumedLeaf(s, note, explicit)
  <1>1. /\ Shaped(e) /\ e.hand = FALSE /\ e.hist = s.hist /\ e.pend = s.pend /\ s.pend.idx \in Nat
        /\ e.pc = "top" /\ e.mode = "live"
    BY RestoredShape
  <1>2. \/ l = c /\ s.pend.card # None
        \/ l = Goto(f, "recon") /\ s.pend # NoPending
        \/ s.pend = NoPending /\ (l = EndWith(f, card) \/ l = Noted(f))
    <2>1. CASE s.pend.card # None
      BY <2>1 DEF ResumedLeaf
    <2>2. CASE s.pend.card = None /\ s.pend # NoPending
      BY <2>2 DEF ResumedLeaf
    <2>3. CASE s.pend.card = None /\ s.pend = NoPending
      BY <2>3 DEF ResumedLeaf
    <2> QED
      BY <2>1, <2>2, <2>3
  <1> HIDE DEF e, l
  <1>3. /\ Shaped(f) /\ f.hand = FALSE /\ f.hist = s.hist /\ f.pend = s.pend /\ f.turn = s.pend.calls
        /\ f.idx = s.pend.idx /\ f.pc = "top" /\ f.mode = "live"
    BY <1>1 DEF Shaped, Fields
  <1> HIDE DEF f
  <1>4. CASE l = c /\ s.pend.card # None
    <2>1. /\ c.hand = FALSE /\ c.hist = s.hist /\ c.pend = s.pend /\ c.turn = s.pend.calls /\ c.idx = s.pend.idx
          /\ c.pc = "carded" /\ c.mode = "child"
      BY <1>3 DEF Shaped, Fields
    <2> HIDE DEF c
    <2>2. c.pc \in OnACall
      BY <2>1 DEF OnACall
    <2>3. s.pend # NoPending /\ suspendsChild(PendingCall(s.pend).tool)
      BY <1>4
    <2>4. /\ FrameX(c, of) /\ Own(c) = OwnSaved(s) /\ Later(c) = AheadOf(s.pend)
          /\ Open(c) = Here(s.pend.calls, s.pend.idx)
      BY <1>1, <2>1, <2>2, <2>3, OnMarkerX
    <2> QED
      BY <1>4, <2>1, <2>3, <2>4 DEF l
  <1>5. CASE l = Goto(f, "recon") /\ s.pend # NoPending
    <2> DEFINE g == Goto(f, "recon")
    <2>1. Keeps(f, g) /\ g.pc = "recon" /\ g.hist = f.hist
      <3>1. g.hist = f.hist
        BY <1>3 DEF Goto, Shaped, Fields
      <3> QED
        BY <1>3, <3>1, ChangeKept
    <2> HIDE DEF g
    <2>2. /\ g.hand = FALSE /\ g.hist = s.hist /\ g.pend = s.pend /\ g.turn = s.pend.calls /\ g.idx = s.pend.idx
          /\ g.mode = "live" /\ g.pc \in OnACall
      BY <1>3, <2>1 DEF Keeps, OnACall
    <2>3. /\ FrameX(g, of) /\ Own(g) = OwnSaved(s) /\ Later(g) = AheadOf(s.pend)
          /\ Open(g) = Here(s.pend.calls, s.pend.idx)
      BY <1>1, <2>2, OnMarkerX
    <2> QED
      BY <1>5, <2>1, <2>2, <2>3 DEF l, g
  <1>6. CASE s.pend = NoPending /\ (l = EndWith(f, card) \/ l = Noted(f))
    <2>1. Keeps(f, l) /\ l.pc \in {"end", "top"}
      BY <1>3, <1>6, ChangeKept
    <2>2. /\ l.hand = FALSE /\ HistTurns(l.hist) \subseteq HistTurns(s.hist) /\ l.pend = NoPending /\ l.turn = << >>
          /\ l.idx \in Nat /\ l.mode # "child" /\ l.pc \notin Busy /\ l.pc \notin {"start", "exec"}
      BY <1>1, <1>3, <1>6, <2>1, NoTurn DEF Keeps, Busy, OnACall
    <2>3. FrameX(l, of) /\ Own(l) \subseteq OwnSaved(s) /\ Later(l) = {} /\ Open(l) = {}
      BY <1>6, <2>2, UnmarkedX
    <2> QED
      BY <2>2, <2>3 DEF l
  <1> QED
    BY <1>2, <1>4, <1>5, <1>6

\* The leaf that gets the answer goes on after the ask.
LEMMA AnsweredLeafX ==
  ASSUME NEW tools, NEW c, DiskOK(c, tools), isRunCheckpoint(c), c.ask # 0,
         NEW of, NEW touched, DiskX(c, of, touched)
  PROVE  LET l == AnsweredLeaf(c)
         IN /\ FrameX(l, of) /\ l.hand = FALSE /\ l.pc \notin {"start", "exec"} /\ Own(l) \subseteq OwnSaved(LeafOf(c))
            /\ Later(l) = AskRest(of, c.ask) /\ Open(l) = {}
  <1> DEFINE s == LeafOf(c)
             e == Restored(s)
             t == AskTurn(s.hist, c.ask)
             j == CHOOSE k \in DOMAIN t : t[k].id = c.ask
             h == [s.hist EXCEPT ![Len(s.hist)] = ToolMessage(c.ask, "answer")]
             l == [e EXCEPT !.hist = h, !.turn = t, !.pc = "disp", !.mode = "parked", !.idx = 1 + j]
  <1>1. Len(c.frames) > 0 /\ Len(c.frames) \in DOMAIN c.frames /\ s = c.frames[Len(c.frames)]
    <2>1. c.frames \in Seq(SavedType(tools, c.wrote)) /\ Len(c.frames) > 0
      BY Resumable DEF DiskOK, SavedOK
    <2> QED
      BY <2>1 DEF LeafOf
  <1>2. s \in SavedType(tools, c.wrote)
    BY <1>1, LeafType
  <1>3. SavedTurns(s, of) /\ s.pend = NoPending
    <2>1. s.pend = NoPending
      BY DEF isRunCheckpoint, LeafOf
    <2> QED
      BY <1>1, <2>1 DEF DiskX
  <1>4. /\ Shaped(e) /\ e.hand = FALSE /\ e.hist = s.hist /\ e.pend = s.pend
    <2> DEFINE w == c.wrote
    <2> HIDE DEF s, w
    <2>1. s \in SavedType(tools, w)
      BY <1>2 DEF w
    <2> QED
      BY <2>1, RestoredShape
  <1>5. \E k \in DOMAIN s.hist : s.hist[k].m = "assistant" /\ [id |-> c.ask, tool |-> "ask"] \in Range(s.hist[k].calls)
    BY Resumable
  <1>6. t \in HistTurns(s.hist) /\ c.ask \in CallIds(t)
    BY <1>3, <1>5, AskedTurn DEF SavedTurns
  <1>7. AnsweredLeaf(c) = l
    BY DEF AnsweredLeaf
  <1>8. s.hist \in Seq(Messages(tools, c.wrote))
    BY <1>2, RestoredType
  <1> HIDE DEF s, e, t
  <1>9. j \in DOMAIN t /\ t[j].id = c.ask
    BY <1>6 DEF CallIds
  <1>10. HistTurns(h) \subseteq HistTurns(s.hist)
    <2> DEFINE answer == ToolMessage(c.ask, "answer")
    <2>1. answer.m = "tool"
      BY DEF ToolMessage
    <2> HIDE DEF answer
    <2>2. DOMAIN h = DOMAIN s.hist /\ \A k \in DOMAIN s.hist : h[k] = IF k = Len(s.hist) THEN answer ELSE s.hist[k]
      BY <1>8 DEF answer
    <2> HIDE DEF h
    <2>3. \A k \in DOMAIN h : h[k].m = "assistant" => k \in DOMAIN s.hist /\ h[k] = s.hist[k]
      BY <2>1, <2>2
    <2> QED
      BY <2>3 DEF HistTurns
  <1>11. t \in Turns(of)
    BY <1>3, <1>6 DEF SavedTurns
  <1>12. j \in Nat /\ 1 + j = j + 1 /\ 1 + j \in Nat /\ AskRest(of, c.ask) = From(t, j + 1)
    <2>1. j \in Nat
      BY <1>9, <1>11, NextCall
    <2> HIDE DEF j
    <2> QED
      BY <1>9, <1>11, <2>1, AfterTheAsk
  <1> HIDE DEF h, j
  <1>13. /\ l.hand = FALSE /\ l.hist = h /\ l.turn = t /\ l.pc = "disp" /\ l.mode = "parked" /\ l.idx = 1 + j
         /\ l.pend = NoPending
    BY <1>3, <1>4 DEF Shaped, Fields
  <1> HIDE DEF l
  <1>14. Later(l) = AskRest(of, c.ask) /\ Open(l) = {}
    BY <1>12, <1>13 DEF Later, Open, OnACall
  <1>15. Own(l) \subseteq OwnSaved(s)
    BY <1>3, <1>6, <1>10, <1>13 DEF Own, OwnSaved
  <1>16. FrameX(l, of)
    <2>1. AheadOf(NoPending) = {}
      BY NoTurn
    <2> QED
      BY <1>3, <1>10, <1>11, <1>12, <1>13, <2>1 DEF FrameX, SavedTurns
  <1> QED
    BY <1>7, <1>13, <1>14, <1>15, <1>16 DEF s

\* A terminal of a call the log has heard of is no news of any call.
LEMMA LogsKnown ==
  ASSUME NEW lg, NEW invs, \A x \in Nat : <<"tool", x>> \in invs => x \in Touched(lg)
  PROVE  Touched(Logged(lg, {Terminal(i) : i \in invs})) = Touched(lg)
  <1> DEFINE events == {Terminal(i) : i \in invs}
             more == Logged(lg, events)
  <1>1. DOMAIN more = DOMAIN lg \cup events
    BY LoggedHas
  <1>2. \A x \in Nat : Start(<<"tool", x>>) \notin events /\ (Terminal(<<"tool", x>>) \in events => x \in Touched(lg))
    BY DEF Start, Terminal
  <1> HIDE DEF events, more
  <1>3. \A x \in Nat : x \in Touched(more) <=> x \in Touched(lg)
    BY <1>1, <1>2, HeardOf
  <1> QED
    BY <1>3 DEF Touched, more, events

\* The leaf a resume goes on with: it may begin what a resume of the checkpoint may, and is
\* on the call its marker stands on, if on any.
Reenters(leaf, c, of) ==
  /\ FrameX(leaf, of) /\ ~leaf.hand /\ leaf.pc \notin {"start", "exec"}
  /\ Own(leaf) \subseteq OwnSaved(LeafOf(c)) /\ Later(leaf) \subseteq Ahead(c, of)
  /\ \/ Open(leaf) = {}
     \/ LeafOf(c).pend # NoPending /\ Open(leaf) = Here(LeafOf(c).pend.calls, LeafOf(c).pend.idx)

\* The frames re-enter on what the checkpoint says, and begin nothing the log has heard of.
LEMMA ReenteredX ==
  ASSUME NEW of, NEW tools, NEW c, DiskOK(c, tools), NEW touched, DiskX(c, of, touched), Ready(c, of),
         NEW leaf, Reenters(leaf, c, of),
         NEW st, DOMAIN st = 1 .. Len(c.frames),
         \A k \in DOMAIN st : st[k] = IF k < Len(c.frames) THEN ResumedParent(c.frames[k]) ELSE leaf
  PROVE  StackX(st, of, touched) /\ Apart(st, Ahead(c, of)) /\ \A k \in DOMAIN st : st[k].pc \notin {"start", "exec"}
  <1> DEFINE n == Len(c.frames)
             w == c.wrote
             Saved(k) == c.frames[k]
             Stands(k) == Here(c.frames[k].pend.calls, c.frames[k].pend.idx)
  <1>1. n \in Nat \ {0} /\ DOMAIN c.frames = 1 .. n /\ n \in DOMAIN c.frames /\ LeafOf(c) = c.frames[n]
    <2>1. n \in Nat \ {0} /\ DOMAIN c.frames = 1 .. n
      BY DEF Ready
    <2> HIDE DEF n
    <2>2. n \in DOMAIN c.frames
      BY <2>1
    <2> QED
      BY <2>1, <2>2 DEF LeafOf, n
  <1>2. \A k \in DOMAIN c.frames : k # n => k < n
    <2>1. n \in Nat \ {0} /\ DOMAIN c.frames = 1 .. n
      BY <1>1
    <2> HIDE DEF n
    <2> QED
      BY <2>1
  <1>3. /\ DOMAIN st = DOMAIN c.frames /\ st[n] = leaf
        /\ \A k \in DOMAIN c.frames : k # n => st[k] = ResumedParent(c.frames[k])
    BY <1>1, <1>2
  <1>4. \A k \in DOMAIN c.frames : c.frames[k] \in SavedType(tools, w) /\ SavedTurns(c.frames[k], of)
    BY DEF DiskX, DiskOK, SavedOK
  <1>5. \A k \in DOMAIN c.frames : AheadOf(c.frames[k].pend) \subseteq Ahead(c, of)
    BY DEF Ahead
  <1>6. \A k \in DOMAIN c.frames : c.frames[k].pend.calls \in Turns(of) /\ c.frames[k].pend.idx \in Nat
    BY <1>4, RestoredShape DEF SavedTurns
  <1> HIDE DEF n, w
  <1>7. ASSUME NEW k \in DOMAIN c.frames
        PROVE  /\ FrameX(st[k], of) /\ ~st[k].hand /\ st[k].pc \notin {"start", "exec"}
               /\ Own(st[k]) \subseteq OwnSaved(c.frames[k]) /\ Later(st[k]) \subseteq Ahead(c, of)
               /\ Open(st[k]) = {} \/ (c.frames[k].pend # NoPending /\ Open(st[k]) = Stands(k))
    <2>1. CASE k = n
      BY <1>1, <1>3, <2>1 DEF Reenters
    <2>2. CASE k # n
      <3> DEFINE s == c.frames[k]
                 f == ResumedParent(s)
      <3>1. s.pend # NoPending /\ suspendsChild(PendingCall(s.pend).tool)
        BY <2>2 DEF Ready, n
      <3>2. s \in SavedType(tools, w) /\ SavedTurns(s, of)
        BY <1>4
      <3> HIDE DEF s
      <3>3. /\ FrameX(f, of) /\ f.hand = FALSE /\ f.pc = "wait" /\ Own(f) = OwnSaved(s)
            /\ Later(f) = AheadOf(s.pend) /\ Open(f) = Here(s.pend.calls, s.pend.idx)
        BY <3>1, <3>2, ResumedParentX
      <3>4. st[k] = f
        BY <1>3, <2>2 DEF s
      <3> HIDE DEF f
      <3> QED
        BY <1>5, <3>1, <3>3, <3>4 DEF s
    <2> QED
      BY <2>1, <2>2
  <1>8. Ahead(c, of) \cap touched = {}
    BY DEF DiskX
  <1>9. \A i, j \in DOMAIN c.frames : i # j => OwnSaved(c.frames[i]) \cap OwnSaved(c.frames[j]) = {}
    BY DEF DiskX
  <1>10. StackX(st, of, touched)
    <2>1. \A k \in DOMAIN st : FrameX(st[k], of) /\ Later(st[k]) \cap touched = {}
      BY <1>3, <1>7, <1>8
    <2>2. \A k \in DOMAIN c.frames : Own(st[k]) \subseteq OwnSaved(c.frames[k])
      BY <1>7
    <2>3. \A i, j \in DOMAIN st : i # j => Own(st[i]) \cap Own(st[j]) = {}
      <3>1. ASSUME NEW i \in DOMAIN c.frames, NEW j \in DOMAIN c.frames, i # j
            PROVE  Own(st[i]) \cap Own(st[j]) = {}
        <4> DEFINE a == st[i]
                   b == st[j]
        <4>1. Own(a) \subseteq OwnSaved(c.frames[i]) /\ Own(b) \subseteq OwnSaved(c.frames[j])
          BY <2>2
        <4>2. OwnSaved(c.frames[i]) \cap OwnSaved(c.frames[j]) = {}
          BY <1>9, <3>1
        <4> HIDE DEF a, b
        <4>3. Own(a) \cap Own(b) = {}
          BY <4>1, <4>2
        <4> QED
          BY <4>3 DEF a, b
      <3> QED
        BY <1>3, <3>1
    <2> QED
      BY <2>1, <2>3 DEF StackX
  <1>11. ASSUME NEW k \in DOMAIN c.frames, NEW x \in Open(st[k]), x \in Ahead(c, of)
         PROVE  FALSE
    <2>1. c.frames[k].pend # NoPending /\ x \in Stands(k)
      BY <1>7, <1>11
    <2>2. \A j \in DOMAIN c.frames : /\ Stands(j) \subseteq OwnSaved(c.frames[j])
                                     /\ AheadOf(c.frames[j].pend) \subseteq OwnSaved(c.frames[j])
                                     /\ AheadOf(c.frames[j].pend) \cap Stands(j) = {}
      <3>1. ASSUME NEW j \in DOMAIN c.frames
            PROVE  /\ Stands(j) \subseteq CallIds(c.frames[j].pend.calls)
                   /\ AheadOf(c.frames[j].pend) \subseteq CallIds(c.frames[j].pend.calls)
                   /\ AheadOf(c.frames[j].pend) \cap Stands(j) = {}
        BY <1>6, Parts DEF AheadOf
      <3> QED
        BY <3>1 DEF OwnSaved
    <2>3. CASE \E j \in DOMAIN c.frames : x \in AheadOf(c.frames[j].pend)
      BY <1>9, <2>1, <2>2, <2>3
    <2>4. CASE c.ask # 0 /\ x \in AskRest(of, c.ask)
      <3>1. c.frames[n].pend = NoPending /\ x \in OwnSaved(c.frames[n])
        BY <1>1, <2>4 DEF Ready
      <3> QED
        BY <1>1, <1>9, <2>1, <2>2, <3>1
    <2> QED
      BY <1>11, <2>3, <2>4 DEF Ahead
  <1>12. Apart(st, Ahead(c, of))
    BY <1>3, <1>7, <1>11 DEF Apart
  <1> QED
    BY <1>3, <1>7, <1>10, <1>12

\* A resume: what is stale, and the answered ask, are closed; nothing of it was to be begun.
LEMMA ReenterX ==
  ASSUME NEW of, ExecInv(of), NEW tools, NEW c, DiskOK(c, tools), DiskX(c, of, Touched(log)), Ready(c, of),
         NEW leaf, Reenters(leaf, c, of),
         NEW tracked, NEW answered, answered = {} \/ (answered = {<<"tool", c.ask>>} /\ c.ask # 0),
         Reenter(c, leaf, tracked, answered), used'.tools = used.tools
  PROVE  ExecInv(of)'
  <1> DEFINE stale == planStaleInvocationTerminals(log, LiveRoles(c), PendingIds(c))
             invs == stale \cup (answered \ TerminatedIn(log))
             st == [k \in 1 .. Len(c.frames) |-> IF k < Len(c.frames) THEN ResumedParent(c.frames[k]) ELSE leaf]
  <1>1. /\ stack' = st /\ log' = Logged(log, {Terminal(i) : i \in invs}) /\ ran' = ran
        /\ disk' = [c EXCEPT !.suspended = FALSE, !.paused = FALSE]
        /\ rec' = [NewRec(c.counter) EXCEPT !.interlude = c.interlude]
        /\ park' = [NewPark EXCEPT !.wrote = c.wrote, !.tracked = tracked]
    BY DEF Reenter
  <1>2. disk'.frames = c.frames /\ disk'.ask = c.ask
    BY <1>1 DEF DiskOK
  <1>3. park'.ask = 0 /\ rec'.pre = << >> /\ rec'.frozen = FALSE
    BY <1>1 DEF NewPark, NewRec
  <1>4. Touched(log') = Touched(log)
    <2>1. \A x \in Nat : <<"tool", x>> \in stale => x \in Touched(log)
      BY DEF planStaleInvocationTerminals, Touched
    <2>2. \A x \in Nat : <<"tool", x>> \in answered => x \in Touched(log)
      BY DEF DiskX
    <2>3. \A x \in Nat : <<"tool", x>> \in invs => x \in Touched(log)
      BY <2>1, <2>2
    <2> HIDE DEF invs
    <2> QED
      BY <1>1, <2>3, LogsKnown
  <1> HIDE DEF invs, stale
  <1>5. /\ StackX(st, of, Touched(log)) /\ Apart(st, Ahead(c, of))
        /\ \A k \in DOMAIN st : st[k].pc \notin {"start", "exec"}
    <2> DEFINE touched == Touched(log)
    <2>1. /\ DOMAIN st = 1 .. Len(c.frames)
          /\ \A k \in DOMAIN st : st[k] = IF k < Len(c.frames) THEN ResumedParent(c.frames[k]) ELSE leaf
      OBVIOUS
    <2>2. DiskX(c, of, touched)
      OBVIOUS
    <2> HIDE DEF st, touched
    <2>3. StackX(st, of, touched) /\ Apart(st, Ahead(c, of)) /\ \A k \in DOMAIN st : st[k].pc \notin {"start", "exec"}
      BY <2>1, <2>2, ReenteredX
    <2> QED
      BY <2>3 DEF touched
  <1> HIDE DEF st
  <1>6. Ahead(disk', of) = Ahead(c, of)
    BY <1>2 DEF Ahead
  <1>7. DiskX(disk', of, Touched(log))
    BY <1>2, <1>6 DEF DiskX
  <1>8. Standing(stack', park', disk', of, Touched(log'))
    BY <1>1, <1>3, <1>4, <1>5, <1>6, <1>7 DEF Standing, ParkX
  <1>9. Fresh(stack', log')
    BY <1>1, <1>5 DEF Fresh
  <1>10. RecX(rec', disk', park', status')
    BY <1>3 DEF RecX
  <1> QED
    BY <1>1, <1>4, <1>8, <1>9, <1>10 DEF ExecInv

LEMMA ReadyLeaf ==
  ASSUME NEW tools, NEW c, DiskOK(c, tools), NEW of, NEW touched, DiskX(c, of, touched), Ready(c, of)
  PROVE  /\ LeafOf(c) \in SavedType(tools, c.wrote) /\ SavedTurns(LeafOf(c), of)
         /\ AheadOf(LeafOf(c).pend) \subseteq Ahead(c, of)
         /\ LeafOf(c).pend.card # None =>
              LeafOf(c).pend # NoPending /\ suspendsChild(PendingCall(LeafOf(c).pend).tool)
  <1> DEFINE n == Len(c.frames)
  <1>1. n \in Nat \ {0} /\ DOMAIN c.frames = 1 .. n
    BY DEF Ready
  <1>2. n \in DOMAIN c.frames
    <2> HIDE DEF n
    <2> QED
      BY <1>1
  <1>3. LeafOf(c) = c.frames[n]
    BY DEF LeafOf
  <1>4. c.frames \in Seq(SavedType(tools, c.wrote))
    BY DEF DiskOK, SavedOK
  <1>5. /\ LeafOf(c) \in SavedType(tools, c.wrote) /\ SavedTurns(LeafOf(c), of)
        /\ AheadOf(LeafOf(c).pend) \subseteq Ahead(c, of)
    BY <1>2, <1>3, <1>4 DEF DiskX, Ahead
  <1> QED
    BY <1>2, <1>3, <1>5 DEF Ready

\* The leaf of such a checkpoint begins no call the checkpoint does not let it.
LEMMA LeafReenters ==
  ASSUME NEW tools, NEW c, DiskOK(c, tools), NEW of, NEW touched, DiskX(c, of, touched), Ready(c, of),
         NEW note \in BOOLEAN, NEW explicit
  PROVE  Reenters(ResumedLeaf(LeafOf(c), note, explicit), c, of)
  <1> DEFINE s == LeafOf(c)
             w == c.wrote
             l == ResumedLeaf(s, note, explicit)
  <1>1. /\ s \in SavedType(tools, w) /\ SavedTurns(s, of) /\ AheadOf(s.pend) \subseteq Ahead(c, of)
        /\ s.pend.card # None => s.pend # NoPending /\ suspendsChild(PendingCall(s.pend).tool)
    BY ReadyLeaf
  <1> HIDE DEF s, w
  <1>2. /\ FrameX(l, of) /\ l.hand = FALSE /\ l.pc \notin {"start", "exec"} /\ Own(l) \subseteq OwnSaved(s)
        /\ Later(l) \subseteq AheadOf(s.pend)
        /\ Open(l) = {} \/ (s.pend # NoPending /\ Open(l) = Here(s.pend.calls, s.pend.idx))
    BY <1>1, ResumedLeafX
  <1> HIDE DEF l
  <1>3. Reenters(l, c, of)
    BY <1>1, <1>2 DEF Reenters, s
  <1> QED
    BY <1>3 DEF l, s

\* What is on disk in a reachable state.
LEMMA OnDiskX ==
  ASSUME NEW tools, EngineInv(tools), NEW of, ExecInv(of), isRunCheckpoint(disk)
  PROVE  DiskOK(disk, tools) /\ DiskX(disk, of, Touched(log)) /\ Ready(disk, of)
  <1>1. DiskOK(disk, tools) /\ DiskX(disk, of, Touched(log))
    BY DEF EngineInv, ExecInv, Standing
  <1> QED
    BY <1>1, ReadyX

\* Counting a resume asks for no call.
LEMMA ResumeCountedX ==
  ASSUME NEW tools, EngineInv(tools), used' = [used EXCEPT !.resumes = @ + 1]
  PROVE  used'.tools = used.tools
  <1>1. used \in UsedType
    BY DEF EngineInv
  <1> QED
    BY <1>1, ResumeCounted

\* The boot resumes from what is on disk.
LEMMA BootResumeX ==
  ASSUME NEW tools, EngineInv(tools), NEW of, ExecInv(of), BootResume
  PROVE  ExecInv(of)'
  <1> DEFINE leaf == ResumedLeaf(LeafOf(disk), FALSE, FALSE)
             none == {}
  <1>1. /\ isRunCheckpoint(disk) /\ Reenter(disk, leaf, FALSE, none) /\ used' = used
    BY DEF BootResume
  <1>2. DiskOK(disk, tools) /\ DiskX(disk, of, Touched(log)) /\ Ready(disk, of)
    BY <1>1, OnDiskX
  <1>3. Reenters(leaf, disk, of)
    <2>1. \A note \in BOOLEAN : Reenters(ResumedLeaf(LeafOf(disk), note, FALSE), disk, of)
      BY <1>2, LeafReenters
    <2> QED
      BY <2>1
  <1>4. none = {}
    OBVIOUS
  <1> HIDE DEF leaf, none
  <1>5. \E tracked : Reenter(disk, leaf, tracked, none)
    BY <1>1
  <1> QED
    BY <1>1, <1>2, <1>3, <1>4, <1>5, ReenterX

\* So does the operator, with or without a note.
LEMMA ExplicitResumeX ==
  ASSUME NEW tools, EngineInv(tools), NEW of, ExecInv(of), ExplicitResume
  PROVE  ExecInv(of)'
  <1>1. PICK note \in BOOLEAN : Reenter(disk, ResumedLeaf(LeafOf(disk), note, TRUE), FALSE, {})
    BY DEF ExplicitResume
  <1> DEFINE leaf == ResumedLeaf(LeafOf(disk), note, TRUE)
             none == {}
  <1>2. isRunCheckpoint(disk) /\ used'.tools = used.tools
    BY ResumeCountedX DEF ExplicitResume
  <1>3. DiskOK(disk, tools) /\ DiskX(disk, of, Touched(log)) /\ Ready(disk, of)
    BY <1>2, OnDiskX
  <1>4. Reenters(leaf, disk, of)
    BY <1>3, LeafReenters
  <1>5. none = {} /\ \E tracked : Reenter(disk, leaf, tracked, none)
    BY <1>1
  <1> HIDE DEF leaf, none
  <1> QED
    BY <1>2, <1>3, <1>4, <1>5, ReenterX

\* A note appended to the leaf's history on disk brings no turn and begins nothing.
LEMMA NotedDiskX ==
  ASSUME NEW tools, NEW c, DiskOK(c, tools), NEW of, NEW touched, DiskX(c, of, touched), Ready(c, of), c.ask = 0,
         NEW d, d = [c EXCEPT !.frames[Len(c.frames)].hist = Append(@, UserMessage("answer"))]
  PROVE  DiskX(d, of, touched) /\ Ready(d, of)
  <1> DEFINE n == Len(c.frames)
             s == c.frames[n]
             h == Append(s.hist, UserMessage("answer"))
             g == [s EXCEPT !.hist = h]
             fs == [c.frames EXCEPT ![n] = g]
  <1>1. n \in Nat \ {0} /\ DOMAIN c.frames = 1 .. n /\ n \in DOMAIN c.frames
    <2>1. n \in Nat \ {0} /\ DOMAIN c.frames = 1 .. n
      BY DEF Ready
    <2> HIDE DEF n
    <2> QED
      BY <2>1
  <1>2. c.frames \in Seq(SavedType(tools, c.wrote)) /\ s \in SavedType(tools, c.wrote)
    BY <1>1 DEF DiskOK, SavedOK
  <1>3. d.frames = fs /\ d.ask = 0
    BY <1>1, <1>2 DEF DiskOK
  <1>4. HistTurns(h) \subseteq HistTurns(s.hist)
    <2> DEFINE m == UserMessage("answer")
    <2>1. m.m = "user"
      BY DEF UserMessage
    <2>2. s.hist \in Seq(Messages(tools, c.wrote))
      BY <1>2, RestoredType
    <2> HIDE DEF m, s
    <2> QED
      BY <2>1, <2>2, PushedTurns DEF m
  <1>5. g.pend = s.pend /\ g.hist = h
    <2> HIDE DEF s, h
    <2> QED
      BY <1>2 DEF SavedType
  <1> HIDE DEF g, h
  <1>6. /\ DOMAIN fs = DOMAIN c.frames /\ Len(fs) = n
        /\ \A k \in DOMAIN c.frames : fs[k] = IF k = n THEN g ELSE c.frames[k]
    BY <1>1, <1>2
  <1> HIDE DEF fs
  <1>7. \A k \in DOMAIN c.frames :
          fs[k].pend = c.frames[k].pend /\ HistTurns(fs[k].hist) \subseteq HistTurns(c.frames[k].hist)
    BY <1>4, <1>5, <1>6
  <1>8. \A k \in DOMAIN c.frames : OwnSaved(fs[k]) \subseteq OwnSaved(c.frames[k])
    BY <1>7 DEF OwnSaved
  <1>9. Ahead(d, of) = Ahead(c, of)
    <2>1. (UNION {AheadOf(fs[k].pend) : k \in DOMAIN c.frames})
          = (UNION {AheadOf(c.frames[k].pend) : k \in DOMAIN c.frames})
      BY <1>7
    <2> QED
      BY <1>3, <1>6, <2>1 DEF Ahead
  <1>10. \A k \in DOMAIN c.frames : SavedTurns(fs[k], of)
    BY <1>7 DEF DiskX, SavedTurns
  <1>11. \A i, j \in DOMAIN c.frames : i # j => OwnSaved(fs[i]) \cap OwnSaved(fs[j]) = {}
    BY <1>8 DEF DiskX
  <1>12. DiskX(d, of, touched)
    BY <1>3, <1>6, <1>9, <1>10, <1>11 DEF DiskX
  <1>13. Len(d.frames) = Len(c.frames) /\ DOMAIN d.frames = DOMAIN c.frames /\ d.ask = 0
         /\ \A k \in DOMAIN c.frames : d.frames[k].pend = c.frames[k].pend
    BY <1>3, <1>6, <1>7
  <1>14. Ready(d, of)
    BY <1>13 DEF Ready
  <1> QED
    BY <1>12, <1>14

\* So does an answer, to the parked ask or as a note.
LEMMA AnswerResumeX ==
  ASSUME NEW tools, EngineInv(tools), NEW of, ExecInv(of), AnswerResume
  PROVE  ExecInv(of)'
  <1> DEFINE c == [disk EXCEPT !.frames[Len(disk.frames)].hist = Append(@, UserMessage("answer"))]
  <1>1. isRunCheckpoint(disk) /\ used'.tools = used.tools
    BY ResumeCountedX DEF AnswerResume
  <1>2. DiskOK(disk, tools) /\ DiskX(disk, of, Touched(log)) /\ Ready(disk, of)
    BY <1>1, OnDiskX
  <1>3. CASE disk.ask # 0
    <2> DEFINE leaf == AnsweredLeaf(disk)
               asked == {<<"tool", disk.ask>>}
    <2>1. Reenter(disk, leaf, TRUE, asked)
      BY <1>3 DEF AnswerResume
    <2>2. Reenters(leaf, disk, of)
      <3>1. /\ FrameX(leaf, of) /\ leaf.hand = FALSE /\ leaf.pc \notin {"start", "exec"}
            /\ Own(leaf) \subseteq OwnSaved(LeafOf(disk)) /\ Later(leaf) = AskRest(of, disk.ask) /\ Open(leaf) = {}
        BY <1>1, <1>2, <1>3, AnsweredLeafX
      <3>2. AskRest(of, disk.ask) \subseteq Ahead(disk, of)
        BY <1>3 DEF Ahead
      <3> HIDE DEF leaf
      <3> QED
        BY <3>1, <3>2 DEF Reenters
    <2>3. \E tracked : Reenter(disk, leaf, tracked, asked)
      BY <2>1
    <2>4. asked = {<<"tool", disk.ask>>}
      OBVIOUS
    <2> HIDE DEF leaf, asked
    <2> QED
      BY <1>1, <1>2, <1>3, <2>2, <2>3, <2>4, ReenterX
  <1>4. CASE disk.ask = 0
    <2> DEFINE leaf == ResumedLeaf(LeafOf(c), FALSE, FALSE)
               none == {}
    <2>1. Reenter(c, leaf, TRUE, none)
      BY <1>4, Zenon DEF AnswerResume
    <2>2. DiskOK(c, tools) /\ DiskX(c, of, Touched(log)) /\ Ready(c, of)
      <3>1. c = [disk EXCEPT !.frames[Len(disk.frames)].hist = Append(@, UserMessage("answer"))]
        OBVIOUS
      <3> HIDE DEF c
      <3> QED
        BY <1>1, <1>2, <1>4, <3>1, NotedOnDisk, NotedDiskX
    <2> HIDE DEF c
    <2>3. Reenters(leaf, c, of)
      <3>1. \A note \in BOOLEAN, explicit \in BOOLEAN : Reenters(ResumedLeaf(LeafOf(c), note, explicit), c, of)
        BY <2>2, LeafReenters
      <3> QED
        BY <3>1
    <2>4. none = {} /\ \E tracked : Reenter(c, leaf, tracked, none)
      BY <2>1
    <2> HIDE DEF leaf, none
    <2> QED
      BY <1>1, <2>2, <2>3, <2>4, ReenterX
  <1> QED
    <2>1. disk.ask = 0 \/ disk.ask # 0
      OBVIOUS
    <2> QED
      BY <1>3, <1>4, <2>1

(***************************************************************************)
(* The model's reply: new calls, apart from every other.                    *)
(***************************************************************************)

\* all knows the calls of knows, and more.
More(of, all) == DOMAIN of \subseteq DOMAIN all /\ \A x \in DOMAIN of : all[x] = of[x]

\* What stands, stands with the turns of more calls.
LEMMA LiftX ==
  ASSUME NEW of, NEW all, More(of, all),
         NEW st, NEW p, NEW c, NEW touched, Standing(st, p, c, of, touched), touched \subseteq DOMAIN of
  PROVE  Standing(st, p, c, all, touched) /\ Ahead(c, all) = Ahead(c, of)
  <1>1. Turns(of) \subseteq Turns(all) /\ \A ask \in DOMAIN of : AskRest(all, ask) = AskRest(of, ask)
    BY MoreTurns DEF More
  <1>2. /\ c.ask # 0 => AskRest(all, c.ask) = AskRest(of, c.ask)
        /\ p.ask # 0 => AskRest(all, p.ask) = AskRest(of, p.ask)
    BY <1>1 DEF Standing, DiskX, ParkX
  <1>3. Ahead(c, all) = Ahead(c, of)
    BY <1>2 DEF Ahead
  <1>4. \A f : FrameX(f, of) => FrameX(f, all)
    BY <1>1 DEF FrameX, SavedTurns
  <1>5. StackX(st, all, touched)
    BY <1>4 DEF Standing, StackX
  <1>6. DiskX(c, all, touched)
    BY <1>1, <1>3 DEF Standing, DiskX, SavedTurns
  <1>7. ParkX(p, st, all, touched)
    BY <1>2 DEF Standing, ParkX
  <1> QED
    BY <1>3, <1>5, <1>6, <1>7 DEF Standing

\* A resume begins no call that was not asked for.
LEMMA AheadKnown ==
  ASSUME NEW of, Turned(of), NEW tools, NEW c, DiskOK(c, tools), NEW touched, DiskX(c, of, touched),
         touched \subseteq DOMAIN of
  PROVE  Ahead(c, of) \subseteq DOMAIN of
  <1> DEFINE w == c.wrote
  <1>1. \A k \in DOMAIN c.frames : c.frames[k] \in SavedType(tools, w)
    BY DEF DiskOK, SavedOK
  <1> HIDE DEF w
  <1>2. ASSUME NEW k \in DOMAIN c.frames
        PROVE  AheadOf(c.frames[k].pend) \subseteq DOMAIN of
    <2>1. c.frames[k].pend.calls \in Turns(of) /\ c.frames[k].pend.idx \in Nat
      BY <1>1, RestoredType DEF DiskX, SavedTurns
    <2> QED
      BY <2>1, Parts DEF AheadOf
  <1>3. ASSUME c.ask # 0
        PROVE  AskRest(of, c.ask) \subseteq DOMAIN of
    <2>1. of[c.ask] \in Turns(of)
      BY <1>3 DEF Turned, DiskX
    <2> DEFINE t == of[c.ask]
    <2>2. t \in Turns(of)
      BY <2>1
    <2>3. AskRest(of, c.ask) = UNION {From(t, k + 1) : k \in {j \in DOMAIN t : t[j].id = c.ask}}
      BY DEF AskRest
    <2> HIDE DEF t
    <2>4. \A k \in DOMAIN t : From(t, k + 1) \subseteq DOMAIN of
      <3>1. \A k \in DOMAIN t : k + 1 \in Nat
        BY <2>2, NextCall
      <3> QED
        BY <2>2, <3>1, Parts
    <2> QED
      BY <2>3, <2>4
  <1> QED
    BY <1>2, <1>3 DEF Ahead

\* The calls of a reply are numbered on: m calls, after the n there are.
NumberedOn(n, m, of, calls, all) ==
  /\ DOMAIN of = 1 .. n /\ calls \in Seq([id : Nat, tool : STRING]) /\ Len(calls) = m
  /\ \A k \in DOMAIN calls : calls[k].id = n + k
  /\ DOMAIN all = 1 .. n + m /\ \A x \in 1 .. n : all[x] = of[x]
  /\ \A x \in 1 .. n + m : x \notin 1 .. n => all[x] = calls

\* They are a turn of their own.
LEMMA NewTurn ==
  ASSUME NEW n \in Nat, NEW m \in Nat, NEW of, Turned(of), NEW calls, NEW all, NumberedOn(n, m, of, calls, all)
  PROVE  More(of, all) /\ calls \in Turns(all) /\ Turned(all) /\ CallIds(calls) \cap DOMAIN of = {}
  <1> USE DEF NumberedOn
  <1>1. DOMAIN calls = 1 .. m
    OBVIOUS
  <1>2. \A k \in 1 .. m : n + k \in 1 .. n + m /\ n + k \notin 1 .. n
    OBVIOUS
  <1>3. DOMAIN of \subseteq DOMAIN all /\ \A x \in DOMAIN of : all[x] = of[x]
    OBVIOUS
  <1>4. \A k \in 1 .. m : all[n + k] = calls
    BY <1>2
  <1>5. calls \in Seq([id : DOMAIN all, tool : STRING])
    <2> DEFINE S == [id : DOMAIN all, tool : STRING]
               C == [id : Nat, tool : STRING]
    <2>1. \A c \in C : c.id \in DOMAIN all => c \in S
      OBVIOUS
    <2>2. calls \in Seq(C)
      OBVIOUS
    <2>3. \A k \in 1 .. m : calls[k].id \in DOMAIN all
      BY <1>1, <1>2
    <2> HIDE DEF S, C
    <2>4. \A k \in 1 .. m : calls[k] \in C
      BY <1>1, <2>2
    <2>5. \A k \in 1 .. m : calls[k] \in S
      BY <2>1, <2>3, <2>4
    <2>6. calls = [k \in 1 .. m |-> calls[k]]
      BY <1>1, <2>2
    <2>7. calls \in [1 .. m -> S]
      BY <2>5, <2>6
    <2>8. calls \in Seq(S)
      BY <2>7
    <2> QED
      BY <2>8 DEF S
  <1>6. calls \in Turns(all)
    <2>1. \A k \in DOMAIN calls : all[calls[k].id] = calls
      BY <1>1, <1>4
    <2>2. \A j, k \in DOMAIN calls : calls[j].id = calls[k].id => j = k
      BY <1>1
    <2> QED
      BY <1>5, <2>1, <2>2 DEF Turns
  <1>7. Turns(of) \subseteq Turns(all)
    BY <1>3, MoreTurns
  <1>8. Turned(all)
    <2>1. \A x \in DOMAIN all : all[x] \in Turns(of) \/ all[x] = calls
      BY <1>3 DEF Turned
    <2> QED
      BY <1>6, <1>7, <2>1 DEF Turned
  <1>9. CallIds(calls) \cap DOMAIN of = {}
    BY <1>1, <1>2 DEF CallIds
  <1> QED
    BY <1>3, <1>6, <1>8, <1>9 DEF More

\* The frame with the reply in its history: at the first call of it, or at its end.
Replied(f, calls, g) ==
  /\ g.hand = f.hand /\ g.pend = f.pend /\ HistTurns(g.hist) \subseteq HistTurns(f.hist) \cup {calls}
  /\ \/ g.turn = calls /\ g.idx = 1 /\ g.pc = "disp" /\ g.mode = "live"
     \/ g.turn = f.turn /\ g.idx = f.idx /\ g.pc = "end" /\ g.mode = f.mode

\* The frame the model replied to, in either case.
LEMMA ReplyShape ==
  ASSUME NEW f, Shaped(f), NEW calls, NEW s, NEW r, r = [Push(f, Turn(calls)) EXCEPT !.tries = 0, !.press = s],
         NEW none \in BOOLEAN, NEW g,
         g = IF none THEN EndWith(r, "success")
             ELSE [r EXCEPT !.pc = "disp", !.turn = calls, !.idx = 1, !.mode = "live"]
  PROVE  Replied(f, calls, g)
  <1> DEFINE x == Turn(calls)
             h == Append(f.hist, x)
             p == Push(f, Turn(calls))
  <1>1. x.calls = calls
    BY DEF Turn
  <1>2. p = [f EXCEPT !.hist = h]
    BY DEF Push
  <1>3. HistTurns(h) \subseteq HistTurns(f.hist) \cup {calls}
    <2>1. PICK S : f.hist \in Seq(S)
      BY DEF Shaped
    <2> HIDE DEF x
    <2>2. HistTurns(h) \subseteq HistTurns(f.hist) \cup (IF x.m = "assistant" THEN {x.calls} ELSE {})
      BY <2>1, PushedTurns
    <2> QED
      BY <1>1, <2>2
  <1>4. r = [p EXCEPT !.tries = 0, !.press = s]
    OBVIOUS
  <1> HIDE DEF x, h, p
  <1>5. /\ DOMAIN p = Fields /\ p.hist = h /\ p.hand = f.hand /\ p.pend = f.pend /\ p.turn = f.turn /\ p.idx = f.idx
        /\ p.mode = f.mode
    BY <1>2 DEF Shaped, Fields
  <1>6. /\ DOMAIN r = Fields /\ r.hist = h /\ r.hand = f.hand /\ r.pend = f.pend /\ r.turn = f.turn /\ r.idx = f.idx
        /\ r.mode = f.mode
    BY <1>5, <1>4 DEF Fields
  <1>7. CASE none
    BY <1>3, <1>6, <1>7 DEF EndWith, Fields, Replied
  <1>8. CASE ~none
    BY <1>3, <1>6, <1>8 DEF Fields, Replied
  <1> QED
    BY <1>7, <1>8

LEMMA RepliedX ==
  ASSUME NEW of, NEW all, Turns(of) \subseteq Turns(all), NEW f, FrameX(f, of), f.pc \notin Busy,
         NEW calls \in Turns(all), NEW g, Replied(f, calls, g)
  PROVE  /\ FrameX(g, all) /\ Own(g) \subseteq Own(f) \cup CallIds(calls)
         /\ Later(g) \subseteq CallIds(calls) /\ Open(g) = {}
  <1>1. AheadOf(f.pend) = {} /\ f.mode # "child"
    BY Idle
  <1> USE DEF Replied
  <1>2. Open(g) = {}
    BY DEF Open, OnACall
  <1>3. Later(g) \subseteq CallIds(calls)
    <2>1. From(calls, 1) \subseteq CallIds(calls)
      BY Parts
    <2> QED
      BY <2>1 DEF Later, OnACall
  <1>4. Own(g) \subseteq Own(f) \cup CallIds(calls)
    BY DEF Own, OwnSaved
  <1>5. FrameX(g, all)
    BY <1>1 DEF FrameX, SavedTurns
  <1> QED
    BY <1>2, <1>3, <1>4, <1>5

\* The reply's calls are asked for by nobody else.
LEMMA ModelRepliesX ==
  ASSUME NEW tools, EngineInv(tools), NEW of, ExecInv(of), ModelReplies
  PROVE  \E all : ExecInv(all)'
  <1>1. PICK n : n = used.tools
    OBVIOUS
  <1> DEFINE touched == Touched(log)
  <1>2. At("llm") /\ UNCHANGED <<status, rec, park, log, disk, ran>>
    BY DEF ModelReplies
  <1>3. /\ FrameX(Top, of) /\ Top.pc = "llm" /\ Shaped(Top) /\ Top = stack[Len(stack)] /\ Len(stack) \in DOMAIN stack
        /\ \A k \in DOMAIN stack : k # Len(stack) => stack[k].pc \in {"wait", "wait handler"}
    BY <1>2, RunningX
  <1>4. PICK b \in Offered(Top), pressed \in BOOLEAN :
          LET calls == [k \in DOMAIN b |-> [id |-> used.tools + k, tool |-> b[k]]]
              f == [Push(Top, Turn(calls)) EXCEPT !.tries = 0, !.press = IF pressed THEN "pending" ELSE @]
          IN /\ stack' = Put(IF b = << >> THEN EndWith(f, "success")
                             ELSE [f EXCEPT !.pc = "disp", !.turn = calls, !.idx = 1, !.mode = "live"])
             /\ used' = [used EXCEPT !.turns = @ + 1, !.tools = @ + Len(b),
                                     !.pressures = IF pressed THEN @ + 1 ELSE @]
    BY DEF ModelReplies
  <1>5. PICK m : m = Len(b)
    OBVIOUS
  <1>6. PICK calls : calls = [k \in DOMAIN b |-> [id |-> n + k, tool |-> b[k]]]
    OBVIOUS
  <1>7. PICK all : all = [x \in 1 .. n + m |-> IF x \in 1 .. n THEN of[x] ELSE calls]
    OBVIOUS
  <1> DEFINE s == IF pressed THEN "pending" ELSE Push(Top, Turn(calls)).press
             f == [Push(Top, Turn(calls)) EXCEPT !.tries = 0, !.press = s]
             g == IF b = << >> THEN EndWith(f, "success")
                  ELSE [f EXCEPT !.pc = "disp", !.turn = calls, !.idx = 1, !.mode = "live"]
  <1>8. b \in Seq(STRING)
    <2>1. b \in Batches \/ b \in HandlerBatches
      BY DEF Offered
    <2> QED
      BY <2>1, EngineBounds
  <1>9. stack' = Put(g)
    BY <1>4, <1>1, <1>6
  <1>10. used'.tools = n + m /\ n \in Nat
    BY <1>4, <1>1, <1>5 DEF EngineInv, UsedType
  <1>11. DOMAIN of = 1 .. n /\ Turned(of) /\ touched \subseteq DOMAIN of /\ Standing(stack, park, disk, of, touched)
    BY <1>1 DEF ExecInv
  <1>12. /\ m \in Nat /\ calls \in Seq([id : Nat, tool : STRING]) /\ Len(calls) = m
        /\ \A k \in DOMAIN calls : calls[k].id = n + k
    <2>1. DOMAIN b = 1 .. m /\ m \in Nat /\ \A k \in 1 .. m : b[k] \in STRING /\ n + k \in Nat
      BY <1>8, <1>10, <1>5
    <2> DEFINE S == [id : Nat, tool : STRING]
    <2>2. \A k \in 1 .. m : [id |-> n + k, tool |-> b[k]] \in S
      BY <2>1
    <2>3. calls \in [1 .. m -> S]
      BY <1>6, <2>1, <2>2
    <2>4. \A k \in 1 .. m : calls[k].id = n + k
      BY <1>6, <2>1
    <2> HIDE DEF S
    <2>5. calls \in Seq(S) /\ Len(calls) = m /\ DOMAIN calls = 1 .. m
      BY <2>1, <2>3
    <2> QED
      BY <2>1, <2>4, <2>5 DEF S
  <1>13. /\ DOMAIN all = 1 .. n + m /\ \A x \in 1 .. n : all[x] = of[x]
        /\ \A x \in 1 .. n + m : x \notin 1 .. n => all[x] = calls
    BY <1>7, <1>10, <1>11, <1>12
  <1>14. Replied(Top, calls, g)
    <2> DEFINE none == b = << >>
    <2>1. g = IF none THEN EndWith(f, "success")
              ELSE [f EXCEPT !.pc = "disp", !.turn = calls, !.idx = 1, !.mode = "live"]
      OBVIOUS
    <2>2. none \in BOOLEAN
      OBVIOUS
    <2>3. \E w : f = [Push(Top, Turn(calls)) EXCEPT !.tries = 0, !.press = w]
      OBVIOUS
    <2> HIDE DEF g, f, none
    <2> QED
      BY <1>3, <2>1, <2>2, <2>3, ReplyShape
  <1> HIDE DEF g, touched, f, s
  <1>15. /\ DOMAIN of \subseteq DOMAIN all /\ More(of, all)
         /\ calls \in Turns(all) /\ Turned(all) /\ CallIds(calls) \cap DOMAIN of = {}
    <2>1. NumberedOn(n, m, of, calls, all)
      BY <1>11, <1>12, <1>13 DEF NumberedOn
    <2>2. More(of, all) /\ calls \in Turns(all) /\ Turned(all) /\ CallIds(calls) \cap DOMAIN of = {}
      BY <1>10, <1>11, <1>12, <2>1, NewTurn
    <2> QED
      BY <2>2 DEF More
  <1>16. g.hand = Top.hand /\ g.pc \notin {"start", "exec"}
    BY <1>14 DEF Replied
  <1>17. Turns(of) \subseteq Turns(all)
    BY <1>15, MoreTurns DEF More
  <1>18. /\ FrameX(g, all) /\ Own(g) \subseteq Own(Top) \cup CallIds(calls)
         /\ Later(g) \subseteq CallIds(calls) /\ Open(g) = {}
    <2>1. Top.pc \notin Busy
      BY <1>3 DEF Busy, OnACall
    <2> QED
      BY <1>3, <1>15, <1>14, <1>17, <2>1, RepliedX
  <1>19. Standing(stack, park, disk, all, touched) /\ Ahead(disk, all) = Ahead(disk, of)
    <2> DEFINE st == stack
               p == park
               c == disk
    <2> HIDE DEF st, p, c
    <2>1. Standing(st, p, c, of, touched)
      BY <1>11 DEF st, p, c
    <2>2. Standing(st, p, c, all, touched) /\ Ahead(c, all) = Ahead(c, of)
      <3>1. More(of, all)
        BY <1>15
      <3>2. touched \subseteq DOMAIN of
        BY <1>11
      <3> QED
        BY <2>1, <3>1, <3>2, LiftX
    <2> QED
      BY <2>2 DEF st, p, c
  <1>20. Ahead(disk, all) \cap CallIds(calls) = {}
    <2>1. DiskOK(disk, tools) /\ DiskX(disk, of, touched)
      BY <1>11 DEF EngineInv, Standing
    <2>2. Ahead(disk, of) \subseteq DOMAIN of
      BY <1>11, <2>1, AheadKnown
    <2> QED
      BY <1>15, <1>19, <2>2
  <1> DEFINE st == Put(g)
             i == Len(stack)
  <1>21. /\ DOMAIN st = DOMAIN stack /\ i \in DOMAIN stack /\ st[i] = g /\ stack[i] = Top
         /\ \A k \in DOMAIN stack : k # i => st[k] = stack[k]
    BY <1>3 DEF Put
  <1> HIDE DEF st, i
  <1>22. \A k \in DOMAIN stack : FrameX(stack[k], of) /\ Own(stack[k]) \subseteq DOMAIN of
    <2>1. \A k \in DOMAIN stack : FrameX(stack[k], of)
      BY <1>11 DEF Standing, StackX
    <2> QED
      BY <2>1, FrameCalls
  <1>23. StackX(st, all, touched)
    <2>1. \A k \in DOMAIN stack : FrameX(stack[k], all) /\ Later(stack[k]) \cap touched = {}
      BY <1>19 DEF Standing, StackX
    <2>2. Later(g) \cap touched = {}
      BY <1>11, <1>15, <1>18
    <2>3. \A k \in DOMAIN st : FrameX(st[k], all) /\ Later(st[k]) \cap touched = {}
      BY <1>18, <1>21, <2>1, <2>2
    <2>4. \A j, k \in DOMAIN stack : j # k => Own(stack[j]) \cap Own(stack[k]) = {}
      BY <1>19 DEF Standing, StackX
    <2>5. \A k \in DOMAIN stack : k # i => Own(g) \cap Own(stack[k]) = {}
      <3>1. ASSUME NEW k \in DOMAIN stack, k # i
            PROVE  Own(g) \cap Own(stack[k]) = {}
        <4>1. Own(Top) \cap Own(stack[k]) = {} /\ Own(stack[k]) \subseteq DOMAIN of
          BY <1>21, <1>22, <2>4, <3>1
        <4> QED
          BY <1>15, <1>18, <4>1
      <3> QED
        BY <3>1
    <2>6. \A j, k \in DOMAIN st : j # k => Own(st[j]) \cap Own(st[k]) = {}
      <3>1. ASSUME NEW j \in DOMAIN stack, NEW k \in DOMAIN stack, j # k
            PROVE  Own(st[j]) \cap Own(st[k]) = {}
        <4>1. CASE j # i /\ k # i
          BY <1>21, <2>4, <3>1, <4>1
        <4>2. CASE j = i
          BY <1>21, <2>5, <3>1, <4>2
        <4>3. CASE k = i
          BY <1>21, <2>5, <3>1, <4>3
        <4> QED
          BY <4>1, <4>2, <4>3
      <3> QED
        BY <1>21, <3>1
    <2> QED
      BY <2>3, <2>6 DEF StackX
  <1>24. Apart(st, Ahead(disk, all))
    <2>1. Apart(stack, Ahead(disk, all))
      BY <1>19 DEF Standing
    <2>2. Open(g) \cap Ahead(disk, all) = {} /\ (g.hand => Own(g) \cap Ahead(disk, all) = {})
      BY <1>16, <1>18, <1>20, <1>21, <2>1 DEF Apart
    <2> QED
      BY <1>21, <2>1, <2>2 DEF Apart
  <1>25. ParkX(park, st, all, touched)
    BY <1>18, <1>19, <1>21 DEF Standing, ParkX
  <1>26. Standing(st, park, disk, all, touched)
    BY <1>19, <1>23, <1>24, <1>25 DEF Standing
  <1>27. Fresh(st, log)
    BY <1>3, <1>16, <1>21 DEF Fresh, i
  <1>28. RecX(rec, disk, park, status) /\ Counted(ran)
    BY DEF ExecInv
  <1>29. stack' = st
    BY <1>9 DEF st
  <1>30. touched \subseteq DOMAIN all
    BY <1>11, <1>15
  <1>31. ExecInv(all)'
    <2>1. used'.tools = n + m /\ Touched(log)' = touched /\ log' = log
      BY <1>2, <1>10 DEF touched
    <2>2. (DOMAIN all = 1 .. used.tools)' /\ (Touched(log) \subseteq DOMAIN all)'
      BY <1>13, <1>30, <2>1 DEF touched
    <2>3. Standing(stack, park, disk, all, Touched(log))'
      BY <1>2, <1>26, <1>29, <2>1 DEF touched
    <2>4. Fresh(stack, log)' /\ RecX(rec, disk, park, status)' /\ Counted(ran)'
      BY <1>2, <1>27, <1>28, <1>29
    <2> QED
      BY <1>15, <2>2, <2>3, <2>4 DEF ExecInv
  <1> QED
    BY <1>31

-----------------------------------------------------------------------------
(* Every step.                                                             *)

\* Nothing is asked for, logged or executed before the run starts.
LEMMA InitX == Init => ExecInv(<< >>)
  <1> SUFFICES ASSUME Init PROVE ExecInv(<< >>)
    OBVIOUS
  <1>1. DOMAIN << >> = {} /\ 1 .. 0 = {}
    OBVIOUS
  <1>2. stack = << >> /\ DOMAIN stack = {}
    BY <1>1 DEF Init
  <1>3. disk = NoCheckpoint /\ disk.frames = << >> /\ DOMAIN disk.frames = {} /\ disk.ask = 0
    BY <1>1 DEF Init, NoCheckpoint
  <1>4. used.tools = 0 /\ park.ask = 0 /\ rec.frozen = FALSE /\ rec.pre = << >>
    BY DEF Init, NewPark, NewRec
  <1>5. DOMAIN log = {} /\ DOMAIN ran = {}
    BY DEF Init, EmptyBag, SetToBag
  <1>6. Touched(log) = {}
    BY <1>5, HeardOf DEF Touched
  <1>7. Ahead(disk, << >>) = {}
    BY <1>3 DEF Ahead
  <1>8. Standing(stack, park, disk, << >>, {})
    BY <1>2, <1>3, <1>4, <1>7 DEF Standing, StackX, Apart, ParkX, DiskX
  <1>9. Fresh(stack, log) /\ RecX(rec, disk, park, status) /\ Counted(ran)
    BY <1>2, <1>4, <1>5 DEF Fresh, RecX, Counted
  <1> QED
    BY <1>1, <1>4, <1>6, <1>8, <1>9 DEF ExecInv, Turned

\* Nothing changes when nothing does.
LEMMA StutterX ==
  ASSUME NEW of, ExecInv(of), UNCHANGED vars
  PROVE  ExecInv(of)'
  <1>1. UNCHANGED <<status, stack, rec, park, log, disk, ran, used>>
    BY DEF vars, volatile
  <1>2. Touched(log)' = Touched(log)
    BY <1>1
  <1> QED
    BY <1>1, <1>2 DEF ExecInv

\* Every step of a role keeps the calls apart.
LEMMA RoleStepX ==
  ASSUME NEW tools, EngineInv(tools), NEW of, ExecInv(of), RoleStep
  PROVE  ExecInv(of)'
  <1>1. CASE ParkAtLoopTop BY <1>1, ParkAtLoopTopX
  <1>2. CASE drainInterrupts BY <1>2, DrainInterruptsX
  <1>3. CASE drainAfterLoopCheck BY <1>3, DrainAfterLoopCheckX
  <1>4. CASE resolveSafePoint BY <1>4, ResolveSafePointX
  <1>5. CASE SafePoint BY <1>5, SafePointX
  <1>6. CASE TakePause BY <1>6, TakePauseX
  <1>7. CASE CallModel BY <1>7, CallModelX
  <1>8. CASE MarkInterlude BY <1>8, MarkInterludeX
  <1>9. CASE StartHandler BY <1>9, StartHandlerX
  <1>10. CASE ResolveInterlude BY <1>10, ResolveInterludeX
  <1>11. CASE ClearInterlude BY <1>11, ClearInterludeX
  <1>12. CASE DispatchDone BY <1>12, DispatchDoneX
  <1>13. CASE DispatchParks BY <1>13, DispatchParksX
  <1>14. CASE DispatchInvalid BY <1>14, DispatchInvalidX
  <1>15. CASE DispatchCall BY <1>15, DispatchCallX
  <1>16. CASE BeginCall BY <1>16, BeginCallX
  <1>17. CASE ExecuteTool BY <1>17, ExecuteToolX
  <1>18. CASE SpawnAgent BY <1>18, SpawnAgentX
  <1>19. CASE AskParks BY <1>19, AskParksX
  <1>20. CASE AskWaits BY <1>20, AskWaitsX
  <1>21. CASE RecordChildCard BY <1>21, RecordChildCardX
  <1>22. CASE recordToolResult BY <1>22, RecordToolResultX
  <1>23. CASE SettleCall BY <1>23, SettleCallX
  <1>24. CASE closeUnexecutedCalls BY <1>24, CloseUnexecutedCallsX
  <1>25. CASE FinishTurn BY <1>25, FinishTurnX
  <1>26. CASE EndChild BY <1>26, EndChildX
  <1>27. CASE EndRoot BY <1>27, EndRootX
  <1>28. CASE reconcilePendingInvocation BY <1>28, ReconcileX
  <1> QED
    BY <1>1, <1>2, <1>3, <1>4, <1>5, <1>6, <1>7, <1>8, <1>9, <1>10, <1>11, <1>12, <1>13, <1>14, <1>15, <1>16,
       <1>17, <1>18, <1>19, <1>20, <1>21, <1>22, <1>23, <1>24, <1>25, <1>26, <1>27, <1>28 DEF RoleStep

\* Every step of the environment keeps the calls apart; a reply of the model adds those it
\* asks for.
LEMMA EnvironmentX ==
  ASSUME NEW tools, EngineInv(tools), NEW of, ExecInv(of), Environment
  PROVE  \E all : ExecInv(all)'
  <1>1. CASE StartRun BY <1>1, StartRunX
  <1>2. CASE ProviderFails BY <1>2, ProviderFailsX
  <1>3. CASE ModelUnavailable BY <1>3, ModelUnavailableX
  <1>4. CASE ContextRejected BY <1>4, ContextRejectedX
  <1>5. CASE ModelReplies BY <1>5, ModelRepliesX
  <1>6. CASE AskRejected BY <1>6, AskRejectedX
  <1>7. CASE submitAnswer BY <1>7, SubmitAnswerX
  <1>8. CASE SubmitRequest \/ RequestPause BY <1>8, OperatorX
  <1>9. CASE DeleteCheckpoint BY <1>9, DeleteCheckpointX
  <1>10. CASE Crash BY <1>10, CrashX
  <1>11. CASE BootFinds \/ ResumeRefused BY <1>11, BootX
  <1>12. CASE BootResume BY <1>12, BootResumeX
  <1>13. CASE ExplicitResume BY <1>13, ExplicitResumeX
  <1>14. CASE AnswerResume BY <1>14, AnswerResumeX
  <1> QED
    BY <1>1, <1>2, <1>3, <1>4, <1>5, <1>6, <1>7, <1>8, <1>9, <1>10, <1>11, <1>12, <1>13, <1>14 DEF Environment

\* Nothing but the execution of a call counts as one.
LEMMA OnlyExecutes ==
  ASSUME Next, ~ExecuteTool
  PROVE  ran' = ran
  <1>1. CASE ParkAtLoopTop BY <1>1 DEF ParkAtLoopTop
  <1>2. CASE drainInterrupts BY <1>2 DEF drainInterrupts
  <1>3. CASE drainAfterLoopCheck BY <1>3 DEF drainAfterLoopCheck
  <1>4. CASE resolveSafePoint BY <1>4 DEF resolveSafePoint
  <1>5. CASE SafePoint BY <1>5 DEF SafePoint
  <1>6. CASE TakePause BY <1>6 DEF TakePause
  <1>7. CASE CallModel BY <1>7 DEF CallModel
  <1>8. CASE MarkInterlude BY <1>8 DEF MarkInterlude
  <1>9. CASE StartHandler BY <1>9 DEF StartHandler
  <1>10. CASE ResolveInterlude BY <1>10 DEF ResolveInterlude
  <1>11. CASE ClearInterlude BY <1>11 DEF ClearInterlude
  <1>12. CASE DispatchDone BY <1>12 DEF DispatchDone
  <1>13. CASE DispatchParks BY <1>13 DEF DispatchParks
  <1>14. CASE DispatchInvalid BY <1>14 DEF DispatchInvalid
  <1>15. CASE DispatchCall BY <1>15 DEF DispatchCall
  <1>16. CASE BeginCall BY <1>16 DEF BeginCall
  <1>17. CASE SpawnAgent BY <1>17 DEF SpawnAgent
  <1>18. CASE AskParks BY <1>18 DEF AskParks
  <1>19. CASE AskWaits BY <1>19 DEF AskWaits
  <1>20. CASE RecordChildCard BY <1>20 DEF RecordChildCard
  <1>21. CASE recordToolResult BY <1>21 DEF recordToolResult
  <1>22. CASE SettleCall BY <1>22 DEF SettleCall
  <1>23. CASE closeUnexecutedCalls BY <1>23 DEF closeUnexecutedCalls
  <1>24. CASE FinishTurn BY <1>24 DEF FinishTurn
  <1>25. CASE EndChild BY <1>25 DEF EndChild
  <1>26. CASE EndRoot BY <1>26 DEF EndRoot
  <1>27. CASE reconcilePendingInvocation BY <1>27 DEF reconcilePendingInvocation
  <1>28. CASE StartRun BY <1>28 DEF StartRun
  <1>29. CASE ProviderFails BY <1>29 DEF ProviderFails
  <1>30. CASE ModelUnavailable BY <1>30 DEF ModelUnavailable
  <1>31. CASE ContextRejected BY <1>31 DEF ContextRejected
  <1>32. CASE ModelReplies BY <1>32 DEF ModelReplies
  <1>33. CASE AskRejected BY <1>33 DEF AskRejected
  <1>34. CASE submitAnswer BY <1>34 DEF submitAnswer
  <1>35. CASE SubmitRequest BY <1>35 DEF SubmitRequest
  <1>36. CASE RequestPause BY <1>36 DEF RequestPause
  <1>37. CASE DeleteCheckpoint BY <1>37 DEF DeleteCheckpoint
  <1>38. CASE Crash BY <1>38 DEF Crash
  <1>39. CASE BootFinds BY <1>39 DEF BootFinds
  <1>40. CASE ResumeRefused BY <1>40 DEF ResumeRefused
  <1>41. CASE BootResume BY <1>41 DEF BootResume, Reenter
  <1>42. CASE ExplicitResume BY <1>42 DEF ExplicitResume, Reenter
  <1>43. CASE AnswerResume BY <1>43 DEF AnswerResume, Reenter
  <1> QED
    BY <1>1, <1>2, <1>3, <1>4, <1>5, <1>6, <1>7, <1>8, <1>9, <1>10, <1>11, <1>12, <1>13, <1>14, <1>15, <1>16,
       <1>17, <1>18, <1>19, <1>20, <1>21, <1>22, <1>23, <1>24, <1>25, <1>26, <1>27, <1>28, <1>29, <1>30, <1>31,
       <1>32, <1>33, <1>34, <1>35, <1>36, <1>37, <1>38, <1>39, <1>40, <1>41, <1>42,
       <1>43 DEF Next, RoleStep, Environment

\* The execution of a call counts that call alone, and the log has no terminal of it.
LEMMA ExecutesTheUnended ==
  ASSUME NEW tools, EngineInv(tools), NEW of, ExecInv(of), ExecuteTool, NEW id \in BagToSet(ran'),
         Times(id, ran') > Times(id, ran)
  PROVE  <<"tool", id>> \notin TerminatedIn(log)
  <1> DEFINE c == Call(Top).id
  <1>1. At("exec") /\ ran' = Logged(ran, {c})
    BY DEF ExecuteTool, Executed
  <1>2. c \in Nat
    BY <1>1, OnCallX DEF OnACall
  <1>3. c \notin Ended(log)
    BY <1>1, RunningX DEF ExecInv, Fresh
  <1> HIDE DEF c
  <1>4. id = c
    <2> SUFFICES ASSUME id # c PROVE FALSE
      OBVIOUS
    <2>1. id \in DOMAIN ran' /\ Counted(ran)
      BY DEF BagToSet, ExecInv
    <2>2. id \in DOMAIN ran /\ ran'[id] = ran[id]
      BY <1>1, <2>1, CountsOne
    <2>3. Times(id, ran') = ran'[id] /\ Times(id, ran) = ran[id] /\ ran[id] \in Nat
      BY <2>1, <2>2 DEF Times, BagIn, BagToSet, Counted
    <2> QED
      BY <2>2, <2>3
  <1> QED
    BY <1>2, <1>3, <1>4 DEF Ended

-----------------------------------------------------------------------------
(* The theorems.                                                           *)

\* Of the calls asked for so far, those that a live frame or a resume may still begin are
\* apart from those the log has heard of, in every reachable state of a run.
THEOREM EngineKeepsCallsApart == EngineSpec => []((\E tools : EngineInv(tools)) /\ (\E of : ExecInv(of)))
  <1> DEFINE Inv0 == (\E tools : EngineInv(tools)) /\ (\E of : ExecInv(of))
  <1>1. Init => Inv0
    BY InitOK, InitX
  <1>2. Inv0 /\ [Next]_vars => Inv0'
    <2> SUFFICES ASSUME NEW tools, EngineInv(tools), NEW of, ExecInv(of), [Next]_vars
                 PROVE  (\E all : EngineInv(all)') /\ (\E all : ExecInv(all)')
      OBVIOUS
    <2>1. CASE RoleStep BY <2>1, RoleStepOK, RoleStepX
    <2>2. CASE Environment BY <2>2, EnvironmentOK, EnvironmentX
    <2>3. CASE UNCHANGED vars BY <2>3, StutterOK, StutterX
    <2> QED
      BY <2>1, <2>2, <2>3 DEF Next
  <1> QED
    BY <1>1, <1>2, PTL DEF EngineSpec

\* A call whose terminal is in the log is never executed again, whatever crashed, was
\* resumed, reconciled, replayed, preempted or answered on the way.
THEOREM EngineNeverReExecutes == EngineSpec => NoReExecution
  <1> DEFINE Inv0 == (\E tools : EngineInv(tools)) /\ (\E of : ExecInv(of))
             Unended == \A id \in BagToSet(ran') : Times(id, ran') > Times(id, ran) =>
                          <<"tool", id>> \notin TerminatedIn(log)
  <1>1. ASSUME Inv0, [Next]_vars
        PROVE  [Unended]_vars
    <2>1. PICK tools : EngineInv(tools)
      BY <1>1
    <2>2. PICK of : ExecInv(of)
      BY <1>1
    <2>3. CASE ExecuteTool
      BY <2>1, <2>2, <2>3, ExecutesTheUnended
    <2>4. CASE Next /\ ~ExecuteTool
      <3>1. ran' = ran /\ Counted(ran)
        BY <2>2, <2>4, OnlyExecutes DEF ExecInv
      <3>2. \A id : Times(id, ran) \in Nat
        BY <3>1 DEF Times, BagIn, BagToSet, Counted
      <3>3. \A id : Times(id, ran') = Times(id, ran)
        BY <3>1
      <3>4. \A id : ~(Times(id, ran') > Times(id, ran))
        BY <3>2, <3>3
      <3> QED
        BY <3>4
    <2> QED
      BY <1>1, <2>3, <2>4
  <1>2. Inv0 /\ [Next]_vars => [Unended]_vars
    BY <1>1
  <1>3. EngineSpec => []Inv0
    BY EngineKeepsCallsApart
  <1> QED
    BY <1>2, <1>3, PTL DEF EngineSpec, NoReExecution

=============================================================================
