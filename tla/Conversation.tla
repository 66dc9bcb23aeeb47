---------------------------- MODULE Conversation ----------------------------
(***************************************************************************)
(* What a role's conversation, its pending invocation and a run checkpoint  *)
(* look like (executor/types.ts, checkpoint.ts, invocation.ts), and the     *)
(* pure readers of them: which turn is complete, which checkpoint is        *)
(* trusted, which invocations of a log are stale. A message keeps its role, *)
(* the calls an assistant turn made and the call a tool result answers;     *)
(* texts, reasoning and token counts are left out, and so is the protected  *)
(* prefix (system prompt and task) every history starts with.               *)
(***************************************************************************)
EXTENDS Naturals, Sequences, SequencesExt, FiniteSets, Bags

None == "none"

\* What a call that was not executed answers: its role had ended, or a delegation past the
\* depth budget was refused.
Unexecuted == {"unexecuted", "refused"}

\* A result card's status, and the platform's own cards: the park card is a
\* needs_clarification, an abort an error.
Cards == {"success", "error", "needs_clarification", "park", "interrupted"}

\* The card a finish call's arguments carry, by the kind of finish the model asks for.
CardOf == [finish |-> "success", fail |-> "error", clarify |-> "needs_clarification"]
IsFinish(tool) == tool \in DOMAIN CardOf

Turn(calls) == [m |-> "assistant", calls |-> calls]
ToolMessage(id, val) == [m |-> "tool", id |-> id, val |-> val]
UserMessage(what) == [m |-> "user", what |-> what]

\* suspendsChild: the calls that run a child role inside the turn. An agent's role has
\* workspace-mutating tools, a scout's has none (isWriteCapableRole).
suspendsChild(tool) == tool \in {"agent", "scout"}
isWriteCapableRole(tool) == tool = "agent"

CallIds(calls) == {calls[k].id : k \in DOMAIN calls}

LastTurn(hist) == SelectLastInSeq(hist, LAMBDA x : x.m = "assistant" /\ x.calls # << >>)

\* completedFinishCard: the card of the first finish of a turn that is answered in whole and
\* is the tail of the history.
completedFinishCard(hist) ==
  LET i == LastTurn(hist)
      results == SubSeq(hist, i + 1, Len(hist))
      calls == hist[i].calls
      \* results.set(id, message): a later message for the same id replaces the earlier one
      ResultOf(id) == results[SelectLastInSeq(results, LAMBDA x : x.id = id)].val
      Finished(k) == IsFinish(calls[k].tool) /\ ResultOf(calls[k].id) \in Cards
      First(k) == Finished(k) /\ \A j \in 1 .. k - 1 : ~Finished(j)
  IN IF /\ i > 0
        /\ \A k \in DOMAIN results : results[k].m = "tool"
        /\ CallIds(calls) \subseteq {results[k].id : k \in DOMAIN results}
        /\ \E k \in DOMAIN calls : First(k)
     THEN ResultOf(calls[CHOOSE k \in DOMAIN calls : First(k)].id)
     ELSE None

----
(***************************************************************************)
(* The pending invocation of a frame and the checkpoint of a run.           *)
(***************************************************************************)

NoPending == [calls |-> << >>, idx |-> 0, card |-> None]
Pending(calls, idx) == [calls |-> calls, idx |-> idx, card |-> None]
PendingCall(p) == p.calls[p.idx]

\* What runHandlerInterlude records before the handler starts; target 0 is no interlude.
NoInterlude == [target |-> 0, trigger |-> None, queued |-> << >>]

NoCheckpoint == [counter |-> 0, wrote |-> FALSE, ask |-> 0, askRole |-> 0,
                 interlude |-> NoInterlude, suspended |-> FALSE, paused |-> FALSE,
                 frames |-> << >>]

\* isRunCheckpoint: the structure a checkpoint must have before it is resumed.
isRunCheckpoint(c) ==
  LET n == Len(c.frames)
      leaf == c.frames[n]
      last == leaf.hist[Len(leaf.hist)]
      ChildCall(f) == f.pend # NoPending /\ suspendsChild(PendingCall(f.pend).tool)
  IN /\ n > 0
     /\ \A k \in 1 .. n - 1 : ChildCall(c.frames[k]) /\ c.frames[k].pend.card = None
     /\ leaf.pend.card # None => ChildCall(leaf)
     /\ c.interlude # NoInterlude =>
          c.ask = 0 /\ c.interlude.target = leaf.id /\ leaf.pend = NoPending
     /\ c.paused =>
          /\ ~c.suspended /\ c.ask = 0
          /\ c.interlude = NoInterlude /\ leaf.pend = NoPending
     /\ c.ask # 0 =>
          /\ c.askRole = leaf.id /\ leaf.pend = NoPending
          /\ leaf.hist # << >> /\ last.m = "tool" /\ last.id = c.ask
          /\ \E k \in DOMAIN leaf.hist :
               leaf.hist[k].m = "assistant" /\ [id |-> c.ask, tool |-> "ask"] \in Range(leaf.hist[k].calls)

----
(***************************************************************************)
(* The invocation lifecycle in the run log. An invocation is <<kind, id>>;  *)
(* the log is the bag of its starts (role_start, tool_call, ask_human,      *)
(* interrupt) and terminals (role_finished, tool_result, human_answer,      *)
(* interrupt_resolved).                                                     *)
(***************************************************************************)

Start(inv) == <<"start", inv>>
Terminal(inv) == <<"end", inv>>
Logged(log, events) == log (+) SetToBag(events)
Times(e, bag) == IF BagIn(e, bag) THEN bag[e] ELSE 0

StartedIn(log) == {inv \in {e[2] : e \in BagToSet(log)} : BagIn(Start(inv), log)}
TerminatedIn(log) == {inv \in {e[2] : e \in BagToSet(log)} : BagIn(Terminal(inv), log)}

\* seedEvents and seedStartedCallIds: the journal of a resumed run.
SeedJournal(log, roles) == [started |-> StartedIn(log) \cup TerminatedIn(log) \cup roles,
                            ended |-> TerminatedIn(log)]

\* planStaleInvocationTerminals: the starts nobody will close any more.
planStaleInvocationTerminals(log, liveRoles, exempt) ==
  (StartedIn(log) \ TerminatedIn(log)) \ (liveRoles \cup exempt)

\* The invocations a checkpoint still stands for.
LiveRoles(c) == {<<"role", c.frames[k].id>> : k \in DOMAIN c.frames}
PendingIds(c) ==
  {<<"tool", PendingCall(c.frames[k].pend).id>> :
     k \in {j \in DOMAIN c.frames : c.frames[j].pend # NoPending}}
  \cup (IF c.ask = 0 THEN {} ELSE {<<"tool", c.ask>>})
=============================================================================
