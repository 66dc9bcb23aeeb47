-------------------------------- MODULE MCPage --------------------------------
(* What the page follows: the feeds and the delta stream (MCFeeds), the view of    *)
(* the run it watches (RunWatch) and the questions the service asks                *)
(* (QuestionPrompts).  Each has its own picture of the service and of the          *)
(* selection; `part` says which of them a behaviour is about, and the others       *)
(* stay as they began.                                                           *)
EXTENDS MCFeeds

CONSTANTS
    Null, WatchRuns,                                 \* the runs of RunWatch and QuestionPrompts
    MaxWatchEvents,                                  \* RunWatch's bound
    ItemRun, Questions, BothAtOnce, SuppressedLimit, MaxPromptEvents \* QuestionPrompts'

ASSUME PromptConstants ==
    ItemRun \in WatchRuns /\ BothAtOnce \in BOOLEAN /\ SuppressedLimit \in Nat \ {0}

VARIABLES
    runs, ui, net, seen, budget,           \* RunWatch's state
    svc, prompt, calls, handled, allowed   \* QuestionPrompts' state

Watch == INSTANCE RunWatch WITH Runs <- WatchRuns, None <- Null
Prompts == INSTANCE QuestionPrompts WITH Runs <- WatchRuns, None <- Null
watchVars == <<runs, ui, net, seen, budget>>
promptVars == <<svc, prompt, calls, handled, allowed>>
pageVars == <<feedVars, watchVars, promptVars>>

WatchEvents == [clicks |-> 2, moves |-> 2, faults |-> 1, all |-> 3]
PromptEvents == [clicks |-> 1, moves |-> 2, faults |-> 1, all |-> 3]

PageInit ==
    /\ part \in {"feeds", "stream", "watch", "prompts"}
    /\ FeedsInit /\ (part = "feeds" \/ kind = "list") /\ Live!StreamInit
    /\ Watch!WatchInit /\ (part = "watch" \/ \A r \in WatchRuns : runs[r].status # "absent")
    /\ Prompts!PromptInit /\ (part = "prompts" \/ svc.active = ItemRun)
PageNext ==
    \/ MCNext /\ UNCHANGED <<watchVars, promptVars>>
    \/ part = "watch" /\ Watch!WatchNext /\ UNCHANGED <<feedVars, promptVars>>
    \/ part = "prompts" /\ Prompts!PromptNext /\ UNCHANGED <<feedVars, watchVars>>

\* The fairness of each, of the behaviours about it.
PageFairness ==
    /\ MCFairness
    /\ WF_watchVars(part = "watch" /\ Watch!ListProgress)
    /\ WF_watchVars(part = "watch" /\ Watch!ViewProgress)
    /\ WF_watchVars(part = "watch" /\ Watch!OtherProgress)
    /\ \A which \in {"list", "questions", "queue"} :
          WF_promptVars(part = "prompts" /\ Prompts!Polled(which))
    /\ WF_promptVars(part = "prompts" /\ Prompts!About(Prompts!Answered))

PageSpec == PageInit /\ [][PageNext]_pageVars /\ PageFairness

(* The watch shows a view in its status whenever it has stopped reading it, and catches  *)
(* up with its run in the end (RunWatch, of the behaviours about the watch).      *)
ViewFollowsTheRun == []Watch!SettledIsShown /\ <>[](part # "watch" \/ Watch!CaughtUp)

(* What pops by itself was seen unfinished (RunWatch's PopsOnEvidence).           *)
PopsOnEvidence == Watch!PopsOnEvidence

(* QuestionPrompts' properties, stated there: what was handled stays closed; in    *)
(* the end an open question is shown and a resumed item is followed.              *)
HandledStaysClosed == Prompts!HandledStaysClosed
PromptsCatchUp ==
    <>[](part # "prompts" \/ Prompts!OpenIsShown) /\ <>[](part # "prompts" \/ Prompts!Followed)
=============================================================================
