---------------------------- MODULE TaskSummarizer ----------------------------
(***************************************************************************)
(* The thread summariser of the service (task-thread/summarizer.ts, summary.ts):     *)
(* one model call at a time per run, a trailing call for a thread that moved on        *)
(* meanwhile, a stored artifact bound to the fingerprint it was made from, and a         *)
(* cooldown after a failure. One run; its thread is its fingerprint, a number that         *)
(* grows with every change.                                                                 *)
(*                                                                         *)
(* A state is a record; the operators return the next state, and what is answered.  *)
(***************************************************************************)
EXTENDS Absent, Integers, FiniteSets

NoState == [attempt |-> None, trailing |-> None, failed |-> None, cooling |-> FALSE, seen |-> None]

\* The service: the thread, the artifact on disk, whether the run is held in memory, its
\* state, and the model calls under way.
Service(readable, fp) ==
  [readable |-> readable, fp |-> fp, artifact |-> None, held |-> FALSE, state |-> NoState, llm |-> {}]

Snapshot(state) == [state |-> state, fp |-> None]

forgetIdle(s) == IF s.state.attempt = None THEN [s EXCEPT !.held = FALSE, !.state = NoState] ELSE s

\* peek: an artifact counts only for the fingerprint it names.
peeked(s) ==
  CASE s.artifact = s.fp -> [state |-> "ready", fp |-> s.artifact]
    [] s.artifact # s.fp /\ ~s.held -> Snapshot("none")
    [] s.artifact # s.fp /\ s.held /\ s.state.attempt # None ->
         Snapshot(IF s.fp \in {s.state.attempt, s.state.trailing} THEN "pending" ELSE "none")
    [] OTHER -> Snapshot(IF s.state.failed = s.fp /\ s.state.cooling THEN "failed" ELSE "none")
afterPeek(s) ==
  IF s.artifact = s.fp THEN forgetIdle(s)
  ELSE IF s.held THEN [s EXCEPT !.state.seen = s.fp] ELSE s

beginAttempt(s, fp) == [s EXCEPT !.state.attempt = fp, !.llm = @ \cup {fp}]

\* request. A run with a call under way is not read again: its last seen fingerprint is
\* enough to tell whether a trailing call is due.
request_EveryTime(s) ==
  IF ~s.readable THEN [service |-> forgetIdle(s), reply |-> Snapshot("none")]
  ELSE [service |-> beginAttempt([afterPeek(s) EXCEPT !.held = TRUE, !.state.seen = s.fp], s.fp),
        reply |-> Snapshot("pending")]
request(s) ==
  IF s.held /\ s.state.attempt # None /\ s.state.seen # None
  THEN [service |-> IF s.state.seen = s.state.attempt THEN s
                    ELSE [s EXCEPT !.state.trailing = s.state.seen],
        reply |-> Snapshot("pending")]
  ELSE IF ~s.readable THEN [service |-> forgetIdle(s), reply |-> Snapshot("none")]
  ELSE IF peeked(s).state = "ready" THEN [service |-> afterPeek(s), reply |-> peeked(s)]
  ELSE LET kept == [afterPeek(s) EXCEPT !.held = TRUE, !.state.seen = s.fp]
       IN  IF peeked(s).state = "failed" THEN [service |-> kept, reply |-> peeked(s)]
           ELSE [service |-> beginAttempt([kept EXCEPT !.state.trailing = None], s.fp),
                 reply |-> Snapshot("pending")]

markFailed(s, fp) == [s EXCEPT !.state.failed = fp, !.state.cooling = TRUE]

\* performAttempt, from the answer of the model on: "failed" is a call that did not
\* succeed, an answer that does not parse or a write that fails.
performed(s, fp, outcome) ==
  IF outcome = "failed" THEN markFailed(s, fp)
  ELSE IF s.fp # fp THEN s
  ELSE [s EXCEPT !.artifact = fp, !.state.failed = None, !.state.cooling = FALSE]

\* startTrailingAttempt, once the attempt is over.
trailed(s, fp) ==
  LET over == [s EXCEPT !.state.trailing = None]
  IN  IF s.state.trailing = None \/ s.fp = fp THEN over ELSE beginAttempt(over, s.fp)

attemptEnds(s, fp, outcome) ==
  LET done == performed([s EXCEPT !.llm = @ \ {fp}], fp, outcome)
  IN  trailed([done EXCEPT !.state.attempt = None], fp)
=============================================================================
