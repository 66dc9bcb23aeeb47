---------------------------- MODULE QuestionPrompts ----------------------------
(***************************************************************************)
(* The question prompt of the page (static/ts/question-prompt.ts and its callers  *)
(* in static/ts/app.ts): two sources, the live question of the running run and     *)
(* the question a parked queue item waits on; one open key; the keys already         *)
(* handled; and the reads that arrive late, out of order or not at all.               *)
(*                                                                         *)
(* The service is what the page meets: a slot with a run that may ask, and one queue   *)
(* item that may park, be answered, wait for the slot and resume.                       *)
(***************************************************************************)
EXTENDS Integers, Sequences, SequencesExt

CONSTANTS
  None,             \* null
  Runs,             \* run ids
  ItemRun,          \* the run of the queue item
  Questions,        \* the texts a task may park on
  BothAtOnce,       \* whether a parked task may be terminated from its row while its answer is sent
  SuppressedLimit,  \* QUESTION_PROMPT_SUPPRESSED_KEY_LIMIT
  MaxPromptEvents   \* bounds: how often each event of the environment happens, and all of them

VARIABLES
  svc,      \* the service: the active run, its pending live question, the queue item
  prompt,   \* the page's state
  calls,    \* requests in flight
  handled,  \* the keys the operator has dealt with since the selection changed
  allowed   \* how often each event of the environment may still happen

pvars == <<svc, prompt, calls, handled, allowed>>

NoItem == [status |-> "gone", q |-> None, run |-> None]
Parked(q) == [status |-> "needs_input", q |-> q, run |-> ItemRun]
Item(status, run) == [status |-> status, q |-> None, run |-> run]

Use(event) ==
  /\ allowed[event] > 0 /\ allowed.all > 0
  /\ allowed' = [allowed EXCEPT ![event] = @ - 1, !.all = @ - 1]

PromptInit ==
  /\ \E q \in {CHOOSE q \in Questions : TRUE} :
       svc \in {[active |-> run, asks |-> None, item |-> Parked(q)] : run \in ({None} \cup Runs) \ {ItemRun}} \cup
              {[active |-> ItemRun, asks |-> 0, item |-> Item("active", ItemRun)]}
  /\ prompt = [screen |-> "watch", sel |-> ItemRun, active |-> None, asked |-> None, item |-> NoItem,
               openKey |-> None, suppressed |-> << >>, resumeItem |-> FALSE, answering |-> FALSE,
               terminating |-> FALSE]
  /\ calls = {} /\ handled = {} /\ allowed = MaxPromptEvents

----
(***************************************************************************)
(* Keys and derivations.                                                    *)
(***************************************************************************)

liveKey(run, id) == <<"live", run, id>>
parkedKey(q) == <<"parked", ItemRun, q>>

\* parkedQuestionPrompt, with the stale rule: the run of a parked item that is active
\* again no longer waits for an answer.
parkedQuestionPrompt(p) ==
  IF p.item.status = "needs_input" /\ p.active # ItemRun THEN parkedKey(p.item.q) ELSE None

\* deriveQuestionPrompt: the live question of the selected run, or else its parked one.
deriveQuestionPrompt(p) ==
  IF p.active # None /\ p.sel = p.active /\ p.asked # None THEN liveKey(p.active, p.asked)
  ELSE IF p.sel = ItemRun THEN parkedQuestionPrompt(p) ELSE None

\* resolveQuestionPromptForKey, whatever run is selected.
Resolves(p, key) ==
  \/ p.active # None /\ p.asked # None /\ key = liveKey(p.active, p.asked)
  \/ key # None /\ key = parkedQuestionPrompt(p)

reconcileQuestionPromptOpenKey(p) == IF Resolves(p, p.openKey) THEN p.openKey ELSE None

suppress(keys, key) ==
  LET all == Append(Remove(keys, key), key)
  IN  IF Len(all) > SuppressedLimit THEN Tail(all) ELSE all

\* shouldAutoOpenQuestionPrompt
shouldAutoOpen_IgnoresSuppressed(p, key) == key # None /\ p.screen = "watch"
shouldAutoOpen(p, key) ==
  key # None /\ p.screen = "watch" /\ ~Contains(p.suppressed, key)

\* autoOpenQuestionPrompt, run by every ingress that may bring a prompt.
autoOpen(p) ==
  LET held == [p EXCEPT !.openKey = reconcileQuestionPromptOpenKey(p)]
      key == deriveQuestionPrompt(held)
  IN  IF shouldAutoOpen(held, key) THEN [held EXCEPT !.openKey = key] ELSE held

\* rollbackQuestionPromptHandling: a failed attempt puts the prompt back.
rollback_KeepsSuppressed(p, key) == [p EXCEPT !.openKey = IF @ = None THEN key ELSE @]
rollback(p, key) ==
  [p EXCEPT !.suppressed = Remove(@, key), !.openKey = IF @ = None THEN key ELSE @]

\* switchRunView: a change of selection forgets what was handled, a reactivation of the
\* same run does not.
switchRunView(p, run) ==
  [p EXCEPT !.screen = "watch", !.sel = run, !.openKey = None,
            !.suppressed = IF run = p.sel THEN @ ELSE << >>]

----
(***************************************************************************)
(* The operator.                                                            *)
(***************************************************************************)

\* here: sent under the selection that still stands.
Command(kind, key) == [kind |-> kind, key |-> key, reply |-> None, here |-> key # None]
Left(sends) == {[c EXCEPT !.here = FALSE] : c \in sends}

SelectRun(run) ==
  /\ Use("clicks") /\ run # prompt.sel
  /\ prompt' = autoOpen(switchRunView(prompt, run))
  /\ handled' = {} /\ calls' = Left(calls)
  /\ UNCHANGED svc

\* SetScreen away from the watch screen; a click on the selected run comes back.
SetScreen ==
  /\ Use("clicks")
  /\ prompt' = IF prompt.screen = "watch" THEN [prompt EXCEPT !.screen = "history"]
               ELSE autoOpen([prompt EXCEPT !.screen = "watch"])
  /\ UNCHANGED <<svc, calls, handled>>

CloseQuestionPrompt ==
  /\ Use("clicks") /\ prompt.openKey # None
  /\ prompt' = [prompt EXCEPT !.openKey = None, !.suppressed = suppress(@, prompt.openKey)]
  /\ handled' = handled \cup {prompt.openKey}
  /\ UNCHANGED <<svc, calls>>

\* OpenQueueQuestion and OpenParkedQuestion, OpenCurrentQuestionPrompt.
OpenQuestionPrompt ==
  /\ Use("clicks")
  /\ \E key \in {parkedQuestionPrompt(prompt), deriveQuestionPrompt(prompt)} \ {None} :
       prompt' = [prompt EXCEPT !.openKey = key]
  /\ UNCHANGED <<svc, calls, handled>>

\* SubmitAnswer: the prompt stays open while the answer is in flight.
SubmitAnswer ==
  /\ Use("clicks") /\ ~prompt.answering
  /\ prompt.openKey # None /\ prompt.openKey[1] = "live" /\ Resolves(prompt, prompt.openKey)
  /\ prompt' = [prompt EXCEPT !.answering = TRUE]
  /\ calls' = calls \cup {Command("answer", prompt.openKey)}
  /\ UNCHANGED <<svc, handled>>

\* SubmitQueueAnswer: suppressed from the moment the request leaves.
SubmitQueueAnswer ==
  /\ Use("clicks") /\ ~prompt.answering /\ (BothAtOnce \/ ~prompt.terminating)
  /\ prompt.openKey # None /\ prompt.openKey[1] = "parked" /\ Resolves(prompt, prompt.openKey)
  /\ prompt' = [prompt EXCEPT !.answering = TRUE, !.suppressed = suppress(@, prompt.openKey)]
  /\ calls' = calls \cup {Command("queueAnswer", prompt.openKey)}
  /\ handled' = handled \cup {prompt.openKey}
  /\ UNCHANGED svc

\* TerminateQueueItem, from the modal of the parked item, where an answer in flight
\* disables it, or from its row, where it does not.
TerminateQueueItem ==
  /\ Use("clicks") /\ ~prompt.terminating /\ (BothAtOnce \/ ~prompt.answering) /\ prompt.item.status = "needs_input"
  /\ \E key \in {parkedQuestionPrompt(prompt)} :
       /\ prompt' = [prompt EXCEPT !.terminating = TRUE, !.openKey = None,
                                   !.suppressed = IF key = None THEN @ ELSE suppress(@, key)]
       /\ calls' = calls \cup {Command("terminate", key)}
       /\ handled' = handled \cup ({key} \ {None})
  /\ UNCHANGED svc

----
(***************************************************************************)
(* The service and its reads.                                               *)
(***************************************************************************)

\* Tick: a read of the run list, of the questions or of the queue, as old as it likes when
\* it arrives; each poll has one request in flight.
Read(kind, what) == [kind |-> kind, key |-> None, reply |-> what, here |-> FALSE]
Polls == {Read("list", svc.active), Read("questions", svc.asks), Read("queue", svc.item)}
Tick ==
  /\ \E poll \in Polls :
       /\ \A c \in calls : c.kind # poll.kind
       /\ calls' = calls \cup {poll}
  /\ UNCHANGED <<svc, prompt, handled, allowed>>

\* The run asks, each time with a fresh id, ends or parks; another run or the answered item
\* takes the slot.
Asks == svc.active # None /\ svc.asks = None /\ svc' = [svc EXCEPT !.asks = allowed.all]
Ends == /\ svc.active # None
        /\ \E item \in IF svc.active = ItemRun
                       THEN {Item("done", ItemRun)} \cup {Parked(q) : q \in Questions} ELSE {svc.item} :
             svc' = [active |-> None, asks |-> None, item |-> item]
Starts == /\ svc.active = None
          /\ \/ svc' = [svc EXCEPT !.active = ItemRun, !.item = Item("active", ItemRun)] /\ svc.item.status = "waiting"
             \/ \E run \in Runs \ {ItemRun} : svc' = [svc EXCEPT !.active = run]
Cancels == svc.item.status = "waiting" /\ svc' = [svc EXCEPT !.item = Item("cancelled", None)]
ServiceMoves == Use("moves") /\ (Asks \/ Ends \/ Starts \/ Cancels) /\ UNCHANGED <<prompt, calls, handled>>

\* The command handlers; an idle queue dispatches the answered item at once.
Served(c) ==
  CASE c.kind = "answer" ->
         IF svc.asks = c.key[3] THEN [ok |-> TRUE, svc |-> [svc EXCEPT !.asks = None]]
         ELSE [ok |-> FALSE, svc |-> svc]
    [] c.kind = "queueAnswer" ->
         IF svc.item.status # "needs_input" THEN [ok |-> FALSE, svc |-> svc]
         ELSE IF svc.active = None
         THEN [ok |-> TRUE, svc |-> [active |-> ItemRun, asks |-> None, item |-> Item("active", ItemRun)]]
         ELSE [ok |-> TRUE, svc |-> [svc EXCEPT !.item = Item("waiting", None)]]
    [] c.kind = "terminate" ->
         IF svc.item.status # "needs_input" THEN [ok |-> FALSE, svc |-> svc]
         ELSE [ok |-> TRUE, svc |-> [svc EXCEPT !.item = Item("cancelled", ItemRun)]]
    [] c.kind \in {"queue0", "answered"} -> [ok |-> svc.item, svc |-> svc]
    [] c.kind = "questions0" -> [ok |-> svc.asks, svc |-> svc]

Serve(c) ==
  /\ c \in calls /\ c.kind \notin {"list", "questions", "queue"} /\ c.reply = None
  /\ \E served \in {Served(c)} :
       /\ svc' = served.svc
       /\ calls' = (calls \ {c}) \cup {[c EXCEPT !.reply = <<served.ok>>]}
  /\ UNCHANGED <<prompt, handled, allowed>>

----
(***************************************************************************)
(* The answers.                                                             *)
(***************************************************************************)

Then(p, sends) == [prompt |-> p, sends |-> sends]

\* ReactivateRunForAnswer: the run the answer resumed is selected again.
reactivate(p, run) == autoOpen(switchRunView(p, run))

\* GotQueue: a deferred resume is followed once its item carries a run.
GotQueue(p, item) ==
  LET q == [p EXCEPT !.item = item]
      over == [q EXCEPT !.resumeItem = FALSE]
  IN  IF ~p.resumeItem THEN autoOpen(q)
      ELSE IF item.status \in {"gone", "cancelled"} THEN autoOpen(over)
      ELSE IF item.run # None THEN reactivate(over, item.run)
      ELSE autoOpen(q)

\* ApplyAnsweredQueue: the read that follows an accepted answer.
ApplyAnsweredQueue(p, item) ==
  LET q == [p EXCEPT !.item = item]
  IN  IF item.run # None THEN reactivate([q EXCEPT !.resumeItem = FALSE], item.run)
      ELSE autoOpen([q EXCEPT !.resumeItem = TRUE])

\* settleLiveAnswerPrompt
settleLiveAnswerPrompt(p, key, ok) ==
  IF ~ok THEN rollback(p, key)
  ELSE [p EXCEPT !.openKey = IF @ = key THEN None ELSE @, !.suppressed = suppress(@, key)]

GotQuestions(p, asked) == Then(autoOpen([p EXCEPT !.asked = asked]), {})

\* AnswerSent: an accepted answer reads the questions again.
AnswerSent(p, c, ok) ==
  Then([settleLiveAnswerPrompt(p, c.key, ok) EXCEPT !.answering = FALSE],
       IF ok THEN {Command("questions0", None)} ELSE {})
AnswerFailed(p, c) == Then([rollback(p, c.key) EXCEPT !.answering = FALSE], {})

\* GotQueueAfterAnswer: an accepted answer reads the queue for the run it resumed.
GotQueueAfterAnswer(p, c, ok) ==
  IF ok THEN Then([p EXCEPT !.answering = FALSE, !.openKey = IF @ = c.key THEN None ELSE @],
                  {Command("answered", None)})
  ELSE Then([rollback(p, c.key) EXCEPT !.answering = FALSE], {})
QueueAnswerFailed(p, c) ==
  Then([rollback(p, c.key) EXCEPT !.answering = FALSE], {Command("queue0", None)})

\* GotQueueAfterTerminate: the queue read that follows drives the row, refused or not.
GotQueueAfterTerminate(p, c, ok) ==
  LET q == [p EXCEPT !.terminating = FALSE]
  IN  Then(IF ok \/ c.key = None THEN q ELSE rollback(q, c.key), {Command("queue0", None)})
TerminateQueueFailed(p, c) == GotQueueAfterTerminate(p, c, FALSE)

Handle(p, c) ==
  CASE c.kind = "list" -> Then(autoOpen([p EXCEPT !.active = c.reply]), {})
    [] c.kind = "questions" -> GotQuestions(p, c.reply)
    [] c.kind = "queue" -> Then(GotQueue(p, c.reply), {})
    [] c.kind = "questions0" -> GotQuestions(p, c.reply[1])
    [] c.kind = "queue0" -> Then(GotQueue(p, c.reply[1]), {})
    [] c.kind = "answered" -> Then(ApplyAnsweredQueue(p, c.reply[1]), {})
    [] c.kind = "answer" -> AnswerSent(p, c, c.reply[1])
    [] c.kind = "queueAnswer" -> GotQueueAfterAnswer(p, c, c.reply[1])
    [] c.kind = "terminate" -> GotQueueAfterTerminate(p, c, c.reply[1])

\* A failed read keeps what is held.
Failure(p, c) ==
  CASE c.kind = "answer" -> AnswerFailed(p, c)
    [] c.kind = "queueAnswer" -> QueueAnswerFailed(p, c)
    [] c.kind = "terminate" -> TerminateQueueFailed(p, c)
    [] OTHER -> Then(p, {})

Accepted(c) == c.kind \in {"answer", "queueAnswer", "terminate"} /\ c.reply = <<TRUE>>
Refused(c) == c.kind \in {"answer", "queueAnswer", "terminate"} /\ c.reply = <<FALSE>>

\* What counts as dealt with: an accepted answer or termination, until the selection
\* changes; a refused or lost one is the operator's to repeat.
Dealt(p, c, ok) ==
  handled' = IF p.sel # prompt.sel THEN {} ELSE IF ok /\ c.here THEN handled \cup {c.key} ELSE handled \ {c.key}

Deliver(c) ==
  /\ c \in calls /\ (c.kind \in {"list", "questions", "queue"} \/ c.reply # None)
  /\ \E done \in {Handle(prompt, c)} :
       /\ prompt' = done.prompt
       /\ calls' = (IF done.prompt.sel # prompt.sel THEN Left(calls \ {c}) ELSE calls \ {c}) \cup done.sends
       /\ IF Accepted(c) \/ Refused(c) THEN Dealt(done.prompt, c, Accepted(c))
          ELSE handled' = IF done.prompt.sel # prompt.sel THEN {} ELSE handled
  /\ UNCHANGED <<svc, allowed>>

CallFails(c) ==
  /\ c \in calls /\ Use("faults")
  /\ \E done \in {Failure(prompt, c)} :
       /\ prompt' = done.prompt
       /\ calls' = (calls \ {c}) \cup done.sends
       /\ Dealt(done.prompt, c, FALSE)
  /\ UNCHANGED svc

Calls == \E c \in calls : Serve(c) \/ Deliver(c)

PromptNext ==
  \/ ServiceMoves \/ Tick \/ Calls
  \/ SetScreen \/ CloseQuestionPrompt \/ OpenQuestionPrompt
  \/ SubmitAnswer \/ SubmitQueueAnswer \/ TerminateQueueItem
  \/ \E run \in Runs : SelectRun(run)
  \/ \E c \in calls : CallFails(c)

\* The timers run, and what is not lost is served and delivered.
About(kinds) == \E c \in calls : c.kind \in kinds /\ (Serve(c) \/ Deliver(c))
Polled(kind) == (\E c \in calls : c.kind = kind /\ Deliver(c))
                \/ (Tick /\ \E c \in calls' \ calls : c.kind = kind)
Answered == {"answer", "queueAnswer", "terminate", "queue0", "answered", "questions0"}
PromptFairness ==
  /\ WF_pvars(Polled("list")) /\ WF_pvars(Polled("questions")) /\ WF_pvars(Polled("queue"))
  /\ WF_pvars(About(Answered))

PromptSpec == PromptInit /\ [][PromptNext]_pvars /\ PromptFairness

----
(***************************************************************************)
(* Properties.                                                              *)
(***************************************************************************)

\* A prompt the operator has answered, dismissed or terminated does not come back by
\* itself while the selection stands, however stale the reads that still carry it; only a
\* failed attempt or an explicit click brings it back.
HandledStaysClosed ==
  [][prompt'.openKey \notin {None, prompt.openKey} /\ ~OpenQuestionPrompt => prompt'.openKey \notin handled']_pvars

\* The question the selected run really waits on ends up in front of the operator on the
\* watch screen, unless they dealt with it: no failed answer, lost read or stale key hides
\* it for good.
OpenIsShown ==
  prompt.screen = "watch" =>
    LET real == IF svc.active = prompt.sel /\ svc.asks # None THEN liveKey(svc.active, svc.asks)
                ELSE IF prompt.sel = ItemRun /\ svc.item.status = "needs_input" THEN parkedKey(svc.item.q)
                ELSE None
    IN  real # None => prompt.openKey = real \/ real \in handled
QuestionIsShown == <>[]OpenIsShown

\* An answered item that had to wait for the slot is followed onto the watch screen once it
\* resumes: the page does not wait for a resume that has happened, or never will.
Followed == prompt.resumeItem => svc.item.status = "waiting"
ResumeIsFollowed == <>[]Followed
=============================================================================
