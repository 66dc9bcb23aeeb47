------------------------------ MODULE RunThread ------------------------------
(* One run's append-only log, as the engine, the human backend and the resume  *)
(* paths write it (executor.ts, human-backend.ts, builtin-tools.ts,            *)
(* stale-invocations.ts), and the conversation a task thread derives from the  *)
(* log, the run meta and the queue item (task-thread/derive.ts,                *)
(* run-log/derive/history.ts).  Texts are tokens: a question, an answer, an    *)
(* inquiry or a note is the pair of its kind and its number.                   *)
EXTENDS Absent, Naturals, Sequences, SequencesExt, FiniteSets, FiniteSetsExt

CONSTANTS
    MaxSteps,       \* bound on the steps of one run's life, hence on its log
    MaxAsks,        \* bound on the questions asked
    MaxCrashes,     \* bound on service crashes
    MaxInquiries    \* bound on operator inquiries

ASSUME RunThreadAssumption ==
    /\ {MaxSteps, MaxAsks, MaxCrashes, MaxInquiries} \subseteq Nat
    /\ None \notin Nat \cup STRING

VARIABLES
    log,    \* the events of log.jsonl
    run,    \* what the run is doing, and what its checkpoint remembers
    meta,   \* meta.json
    item,   \* the queue item of the run
    now,    \* the clock: every event of one step carries the same timestamp
    crashes \* crashes so far

runVars == <<log, run, meta, item, now, crashes>>

----------------------------------------------------------------------------
(* The log.                                                                 *)

Blank == [id |-> None, text |-> None, status |-> None, depth |-> 0,
          paused |-> FALSE, role |-> "root", call |-> None]
Event(type, fields) ==
    [f \in DOMAIN Blank |-> IF f \in DOMAIN fields THEN fields[f] ELSE Blank[f]]
        @@ [type |-> type, at |-> now]
EventsOf(type) == {i \in 1..Len(log) : log[i].type = type}

\* A paused finish leaves the role invocation open; any other closes it for good.
RootTerminated == \E i \in EventsOf("role_finished") :
                     log[i].depth = 0 /\ ~log[i].paused
RootFinished(status, text, pausesRun) ==
    IF RootTerminated THEN <<>>
    ELSE <<Event("role_finished", [status |-> status, text |-> text, paused |-> pausesRun])>>

\* The terminal resumes write for each start the crash left open, the newest first.
StaleTerminals(exempt) ==
    LET answered == {log[i].call : i \in EventsOf("human_answer")}
        resolved == {log[i].call : i \in EventsOf("interrupt_resolved")}
        open == {i \in EventsOf("ask_human") : log[i].call \notin answered \cup exempt}
                \cup {i \in EventsOf("interrupt") : log[i].call \notin resolved}
        newest == {i \in open : \A j \in open : log[j].call = log[i].call => j <= i}
        Close(i) == IF log[i].type = "ask_human"
                    THEN Event("human_answer", [id |-> log[i].id, call |-> log[i].call,
                                                text |-> <<"no answer">>])
                    ELSE Event("interrupt_resolved", [call |-> log[i].call, status |-> "failed"])
        order == Reverse(SetToSortSeq(newest, <))
    IN  [k \in DOMAIN order |-> Close(order[k])]

\* The call ids the resumed checkpoint still answers itself.
ExemptCalls == IF run.ask # None /\ run.asker = "root" THEN {<<"ask", run.ask>>} ELSE {}
Resumed(note) == <<Event("run_resumed", [text |-> note])>> \o StaleTerminals(ExemptCalls)

----------------------------------------------------------------------------
(* The run.  `does` is "new", "working", "asking", "inquiry", "settled" or    *)
(* "noted"; `ask` the question it waits on, `inquiry` the one being answered. *)

NewRun == [does |-> "new", ask |-> None, asker |-> None, parked |-> FALSE,
           inquiry |-> None, asks |-> 0, inquiries |-> 0, up |-> TRUE]

RunInit == /\ log = <<>>
           /\ run = NewRun
           /\ meta = None
           /\ item = [status |-> "active", text |-> None, at |-> None]
           /\ now = 1
           /\ crashes = 0

Tick == now < MaxSteps /\ now' = now + 1
Live(does) == run.up /\ run.does = does /\ Tick /\ UNCHANGED crashes
Write(events) == log' = log \o events
Running == [status |-> "running", text |-> None, at |-> None]
ItemIs(status, text) == [status |-> status, text |-> text, at |-> now]

Start == /\ Live("new")
         /\ Write(<<Event("role_start", [text |-> <<"task">>])>>)
         /\ run' = [run EXCEPT !.does = "working"]
         /\ meta' = Running
         /\ UNCHANGED item

ChildFinishes == /\ Live("working")
                 /\ \A i \in EventsOf("role_finished") : log[i].depth = 0
                 /\ \E s \in {"success", "needs_clarification"} :
                       Write(<<Event("role_finished", [depth |-> 1, role |-> "child", status |-> s,
                                                       text |-> <<"child">>])>>)
                 /\ UNCHANGED <<run, meta, item>>

AskEvent(n) == Event("ask_human", [id |-> n, call |-> <<"ask", n>>, text |-> <<"q", n>>])

\* A blocking question: the backend logs it and keeps it pending.
Ask == /\ Live(run.does)
       /\ run.does \in {"working", "inquiry"} /\ run.asks < MaxAsks
       /\ LET n == run.asks + 1 IN
             /\ Write(<<AskEvent(n)>>)
             /\ run' = [run EXCEPT !.does = "asking", !.ask = n, !.asks = n,
                          !.asker = IF run.does = "inquiry" THEN "handler" ELSE "root"]
       /\ UNCHANGED <<meta, item>>

Answer == /\ Live("asking") /\ ~run.parked
          /\ Write(<<Event("human_answer", [id |-> run.ask, call |-> <<"ask", run.ask>>,
                                            text |-> <<"a", now>>])>>)
          /\ run' = [run EXCEPT !.does = IF run.asker = "handler" THEN "inquiry" ELSE "working",
                                !.ask = None, !.asker = None]
          /\ UNCHANGED <<meta, item>>

Settle(status, text, i) == /\ run' = [run EXCEPT !.does = "settled"]
                           /\ meta' = [status |-> status, text |-> text, at |-> now]
                           /\ item' = i

\* A question before the first write parks the run.
Park == /\ Live("working") /\ run.asks < MaxAsks
        /\ LET n == run.asks + 1 IN
              /\ Write(<<AskEvent(n)>> \o RootFinished("needs_clarification", <<"q", n>>, TRUE))
              /\ run' = [run EXCEPT !.does = "settled", !.ask = n, !.asks = n,
                                    !.asker = "root", !.parked = TRUE]
              /\ meta' = [status |-> "needs_clarification", text |-> <<"q", n>>, at |-> now]
              /\ item' = ItemIs("needs_input", <<"q", n>>)

\* The root finishes by asking for clarification.
Clarify == /\ Live("working") /\ run.asks < MaxAsks
           /\ Write(RootFinished("needs_clarification", <<"c", now>>, TRUE))
           /\ run' = [run EXCEPT !.does = "settled", !.asks = @ + 1]
           /\ meta' = [status |-> "needs_clarification", text |-> <<"c", now>>, at |-> now]
           /\ item' = ItemIs("needs_input", <<"c", now>>)

Finish == /\ Live("working")
          /\ \E s \in {"success", "error"} :
                /\ Write(RootFinished(s, <<s>>, FALSE))
                /\ Settle(s, <<s>>, ItemIs(IF s = "success" THEN "done" ELSE "error", <<s>>))

Suspend == /\ Live(run.does) /\ run.does \in {"working", "inquiry"}
           /\ Write(<<Event("provider_failure", [text |-> <<"failure">>])>>)
           /\ Settle("suspended", <<"suspension">>, item)

Pause == /\ Live("working")
         /\ Write(<<Event("run_paused", Blank)>>)
         /\ Settle("suspended", <<"pause">>, item)

----------------------------------------------------------------------------
(* Operator interrupts.                                                      *)

Inquire(n) == <<Event("interrupt", [id |-> n, call |-> <<"inquiry", now>>, text |-> <<"i", n>>])>>
Inquiry == /\ Live("working") /\ run.inquiries < MaxInquiries
           /\ LET n == run.inquiries + 1 IN
                 \/ /\ Write(Inquire(n))
                    /\ run' = [run EXCEPT !.does = "inquiry", !.inquiry = n, !.inquiries = n]
                 \/ /\ Write(<<Event("inquiry_dropped", [text |-> <<"i", n>>])>>)
                    /\ run' = [run EXCEPT !.inquiries = n]
           /\ UNCHANGED <<meta, item>>

Resolve == /\ Live("inquiry")
           /\ \E s \in {"answered", "failed"} :
                 Write(<<Event("interrupt_resolved",
                           [call |-> log[CHOOSE i \in EventsOf("interrupt") :
                                            \A j \in EventsOf("interrupt") : j <= i].call,
                            status |-> s, id |-> run.inquiry, text |-> <<"ia", run.inquiry>>])>>)
           /\ run' = [run EXCEPT !.does = "working", !.inquiry = None]
           /\ UNCHANGED <<meta, item>>

PlanChange == /\ Live("working") /\ run.inquiries < MaxInquiries
              /\ Write(<<Event("plan_modification", [text |-> <<"plan">>])>>)
              /\ run' = [run EXCEPT !.inquiries = @ + 1]
              /\ UNCHANGED <<meta, item>>

Notice == /\ Live("working") /\ run.inquiries < MaxInquiries
          /\ Write(<<Event("operator_notice", [text |-> <<"notice">>])>>)
          /\ run' = [run EXCEPT !.inquiries = @ + 1]
          /\ UNCHANGED <<meta, item>>

----------------------------------------------------------------------------
(* Resumes, crashes and terminations.                                        *)

\* The synthetic question id a clarification answer is logged under.
clarification == 0

\* Where the restored stack re-enters: a pending ask is asked again, an
\* interlude runs again, anything else goes on working.
Reenter(r) == IF r.ask # None /\ r.asker = "root" THEN [r EXCEPT !.does = "asking"]
              ELSE IF r.inquiry # None
                   THEN [r EXCEPT !.does = "inquiry", !.ask = None, !.asker = None]
                   ELSE [r EXCEPT !.does = "working"]
Replayed(r) == CASE Reenter(r).does = "asking" -> <<AskEvent(r.ask)>>
                 [] Reenter(r).does = "inquiry" -> Inquire(r.inquiry)
                 [] OTHER -> <<>>
ResumeWith(note) == /\ Write(Resumed(note) \o Replayed(run))
                    /\ run' = [Reenter(run) EXCEPT !.up = TRUE]
                    /\ meta' = Running

Paused == run.up /\ run.does = "settled" /\ Tick /\ UNCHANGED crashes

\* The operator or the recovery resumes a suspended, paused or errored run.
Resume == /\ Paused /\ meta.status \in {"suspended", "error"}
          /\ \E note \in {None, <<"note", now>>} : ResumeWith(note)
          /\ item' = [item EXCEPT !.status = "active"]

\* The parked question's answer: the boundary, then the answer.
AnswerParked == /\ Paused /\ meta.status = "needs_clarification" /\ run.parked
                /\ Write(Resumed(None)
                         \o <<Event("human_answer", [id |-> run.ask, call |-> <<"ask", run.ask>>,
                                                     text |-> <<"a", now>>])>>)
                /\ run' = [run EXCEPT !.does = "working", !.ask = None, !.asker = None,
                                      !.parked = FALSE]
                /\ meta' = Running
                /\ item' = [item EXCEPT !.status = "active"]

\* A clarification is first appended to the checkpoint ...
NoteClarification == /\ Paused /\ meta.status = "needs_clarification" /\ ~run.parked
                     /\ run' = [run EXCEPT !.does = "noted"]
                     /\ item' = [item EXCEPT !.status = "active"]
                     /\ UNCHANGED <<log, meta>>
\* ... and then logged behind the boundary.
LogClarification == /\ Live("noted")
                    /\ Write(Resumed(None)
                             \o <<Event("human_answer", [id |-> clarification,
                                    call |-> <<"clarification">>, text |-> <<"a", now>>,
                                    status |-> meta.text])>>)
                    /\ run' = [run EXCEPT !.does = "working"]
                    /\ meta' = Running
                    /\ UNCHANGED item

Terminate == /\ Paused /\ meta.status \in {"suspended", "needs_clarification"}
             /\ Write(StaleTerminals({}) \o RootFinished("error", <<"interrupted">>, FALSE)
                      \o <<Event("run_terminated", [text |-> <<"terminated">>])>>)
             /\ run' = run
             /\ meta' = [status |-> "interrupted", text |-> <<"terminated">>,
                         at |-> IF meta.status = "suspended" THEN now ELSE meta.at]
             /\ item' = ItemIs("cancelled", item.text)

Crash == /\ run.up /\ run.does # "new" /\ crashes < MaxCrashes
         /\ crashes' = crashes + 1
         /\ run' = [run EXCEPT !.up = FALSE]
         /\ UNCHANGED <<log, meta, item, now>>

\* The boot resumes a run that was live, finds its checkpoint gone, or leaves a settled one.
Boot == /\ ~run.up /\ Tick /\ UNCHANGED crashes
        /\ \/ /\ run.does \in {"working", "asking", "inquiry", "noted"}
              /\ ResumeWith(None)
              /\ UNCHANGED item
           \/ /\ run.does \in {"working", "asking", "inquiry"}
              /\ run' = [run EXCEPT !.does = "settled", !.up = TRUE]
              /\ meta' = [status |-> "interrupted", text |-> <<"interrupted">>, at |-> now]
              /\ item' = ItemIs("error", <<"interrupted">>)
              /\ UNCHANGED log
           \/ /\ run.does = "settled"
              /\ run' = [run EXCEPT !.up = TRUE]
              /\ UNCHANGED <<log, meta, item>>

RunNext == \/ Start \/ ChildFinishes \/ Ask \/ Answer \/ Park \/ Clarify \/ Finish
           \/ Suspend \/ Pause \/ Inquiry \/ Resolve \/ PlanChange \/ Notice
           \/ Resume \/ AnswerParked \/ NoteClarification \/ LogClarification
           \/ Terminate \/ Crash \/ Boot

RunSpec == RunInit /\ [][RunNext]_runVars
=============================================================================
