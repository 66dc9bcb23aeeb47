------------------------------ MODULE LlmClient ------------------------------
(***************************************************************************)
(* One call of the language model (createLlmCaller in executor/llm.ts): up  *)
(* to MaxAttempts HTTP round trips, each a connect phase and the fold of an *)
(* SSE stream, with the classification of every failure, the inline retry   *)
(* rule and the deltas a browser renders.  Texts, headers, token counts, the *)
(* spend of discarded attempts and delays are abstracted: a delta is the    *)
(* number of the attempt that produced it.                                  *)
(***************************************************************************)
EXTENDS ProviderFailure, Integers, Sequences

CONSTANTS
  MaxAttempts,  \* const maxAttempts of the caller (3 in the code)
  MaxLines,     \* bound: SSE lines read in one attempt
  Statuses      \* the HTTP statuses the endpoint answers errors with

ASSUME LlmBounds == MaxAttempts \in Nat \ {0} /\ MaxLines \in Nat /\ Statuses \subseteq Nat

VARIABLES
  call,   \* the call in progress
  shown,  \* what a client of the delta stream has accumulated: attempt numbers
  result  \* what the call returned, NoResult while it runs

llmVars == <<call, shown, result>>

NoResult == [kind |-> "none"]
NoCall == [phase |-> "idle", attempt |-> 0, items |-> FALSE, fresh |-> TRUE,
           lines |-> 0, emitted |-> 0, ended |-> "none"]

LlmInit == call = NoCall /\ shown = << >> /\ result = NoResult

----
(***************************************************************************)
(* The end of an attempt: a result, or a sleep before the next attempt.     *)
(***************************************************************************)

providerFailureResult(category, partial, retryAfter) ==
  [kind |-> "provider_failure", category |-> category, partial |-> partial,
   retryAfter |-> retryAfter]

Return(r) == /\ result' = r
             /\ call' = [call EXCEPT !.phase = "done"]
             /\ UNCHANGED shown

\* The backoff of the retry loop; the delay itself decides nothing.
SleepBeforeRetry(ended) ==
  /\ call' = [call EXCEPT !.phase = "sleep", !.ended = ended]
  /\ UNCHANGED <<shown, result>>

LastAttempt == call.attempt >= MaxAttempts

\* call(request): the first attempt opens its connection.
StartCall ==
  /\ call.phase = "idle"
  /\ call' = [NoCall EXCEPT !.phase = "connect", !.attempt = 1]
  /\ UNCHANGED <<shown, result>>

\* The fetch rejects, or the connect timeout aborts it.
ConnectFails ==
  /\ call.phase = "connect"
  /\ IF LastAttempt THEN Return(providerFailureResult("transient", FALSE, "none"))
     ELSE SleepBeforeRetry("failed")

\* An HTTP error, or a 2xx without a body, comes back with its body read.
HttpError(status, billing, keyword, retryAfter) ==
  LET category == classifyProviderFailure(FALSE, status, billing)
  IN
  /\ call.phase = "connect"
  /\ IF detectContextBudgetExceeded(status, keyword, billing)
     THEN Return([kind |-> "context_budget_exceeded"])
     ELSE IF category # "transient" \/ retryAfter = "long" \/ LastAttempt
     THEN Return(providerFailureResult(category, FALSE, retryAfter))
     ELSE SleepBeforeRetry("failed")

\* A 2xx hands back the byte stream; its fold starts with no items, and the
\* first delta of the attempt will be preceded by a reset.
StreamOpens ==
  /\ call.phase = "connect"
  /\ call' = [call EXCEPT !.phase = "stream", !.items = FALSE, !.fresh = TRUE,
                          !.lines = 0, !.emitted = 0]
  /\ UNCHANGED <<shown, result>>

\* sleep(backoffMs(attempt)) is over.
WakeForRetry ==
  /\ call.phase = "sleep"
  /\ call' = [call EXCEPT !.phase = "connect", !.attempt = @ + 1, !.items = FALSE,
                          !.fresh = TRUE, !.lines = 0, !.emitted = 0, !.ended = "none"]
  /\ UNCHANGED <<shown, result>>

----
(***************************************************************************)
(* The fold of one stream (llm-sse.ts and consumeResponsesStream).          *)
(***************************************************************************)

\* A line of the stream that leaves the fold running: a line that is no event, a
\* delta of text (with or without its text), a delta of tool arguments or an item
\* announcement, a terminal event without its response payload.
OpenLines == {"skip", "text", "blank", "item", "headless"}

FillsSlot(line) == line \in {"text", "blank", "item"}

emitAttemptDelta_NoReset(s) == Append(s, call.attempt)
\* The streaming tap: a reset clears what the client accumulated before the
\* first delta of every attempt.
emitAttemptDelta(s) == IF call.fresh THEN <<call.attempt>> ELSE Append(s, call.attempt)

\* applyPayload for a line that is not terminal.
StreamLine(line) ==
  /\ call.phase = "stream" /\ call.lines < MaxLines
  /\ shown' = IF line = "text" THEN emitAttemptDelta(shown) ELSE shown
  /\ call' = [call EXCEPT !.lines = @ + 1,
                          !.items = @ \/ FillsSlot(line),
                          !.fresh = @ /\ line # "text",
                          !.emitted = IF line = "text" THEN @ + 1 ELSE @]
  /\ UNCHANGED result

\* The payload of response.completed or response.incomplete: whether it carries
\* text, how many named function calls, whether one has no name, and whether the
\* token limit cut it short.
Responses == [text: BOOLEAN, calls: 0..1, nameless: BOOLEAN, cut: BOOLEAN]

FinishReason(r) ==
  IF r.calls > 0 \/ r.nameless THEN "tool_calls" ELSE IF r.cut THEN "length" ELSE "stop"

classifyParsedResponse(r) ==
  CASE r.text \/ r.calls > 0                                      -> "accept"
    [] ~(r.text \/ r.calls > 0) /\ FinishReason(r) = "length"     -> "fail_immediately"
    [] OTHER                                                      -> "fail_retryable"

\* A terminal event with a response: reading stops and the response decides.
StreamCompletes(r) ==
  /\ call.phase = "stream"
  /\ CASE classifyParsedResponse(r) = "accept" ->
            Return([kind |-> "success", calls |-> r.calls])
       [] classifyParsedResponse(r) = "fail_immediately" ->
            Return([kind |-> "llm_unavailable"])
       [] OTHER ->
            IF LastAttempt THEN Return([kind |-> "llm_unavailable"])
            ELSE SleepBeforeRetry("empty")

\* [DONE] or the end of the bytes without a terminal event: not retried.
StreamEndsEarly ==
  /\ call.phase = "stream"
  /\ Return(providerFailureResult("transient", call.items, "none"))

\* An error event ends the fold and is classified like an HTTP error.
StreamReportsError(numeric, textual, billing) ==
  /\ call.phase = "stream"
  /\ Return(providerFailureResult(classifyStreamProviderFailure(numeric, textual, billing),
                                  call.items, "none"))

\* May a failed read start the attempt over?
MayRetryStream(retryable) == retryable /\ ~call.items /\ ~LastAttempt

\* A read times out, fails, or overflows the line cap (which is never retried).
StreamBreaks(how) ==
  /\ call.phase = "stream"
  /\ IF MayRetryStream(how # "oversized") THEN SleepBeforeRetry("failed")
     ELSE Return(providerFailureResult("transient", call.items, "none"))

LlmStep ==
  \/ ConnectFails
  \/ \E status \in Statuses, billing, keyword \in BOOLEAN, retryAfter \in RetryAfter :
       HttpError(status, billing, keyword, retryAfter)
  \/ StreamOpens
  \/ WakeForRetry
  \/ \E line \in OpenLines : StreamLine(line)
  \/ \E r \in Responses : StreamCompletes(r)
  \/ StreamEndsEarly
  \/ \E numeric \in {0} \cup Statuses, textual \in {0, 400, 401, 403, 404, 429, 500}, billing \in BOOLEAN :
       StreamReportsError(numeric, textual, billing)
  \/ \E how \in {"idle", "read", "oversized"} : StreamBreaks(how)

\* The role loop takes the result and later calls again.
TakeResult ==
  /\ call.phase = "done"
  /\ call' = NoCall /\ result' = NoResult
  /\ UNCHANGED shown

LlmSpec == LlmInit /\ [][StartCall \/ LlmStep \/ TakeResult]_llmVars

----
\* A client never renders the text of two attempts at once, and once the current
\* attempt has sent text the client shows exactly that text (llm.ts:378, the lazy
\* reset).
ShownIsOneAttempt ==
  /\ \A i, j \in DOMAIN shown : shown[i] = shown[j]
  /\ call.phase = "stream" /\ call.emitted > 0 =>
       Len(shown) = call.emitted /\ shown[1] = call.attempt

\* The caller never repeats a request after a failure that had already produced
\* output: it would pay for the generation twice and could run its tool calls
\* twice (llm.ts:430, 440). Only a completed, empty response is asked for again.
NoReplayAfterOutput == call.phase = "sleep" /\ call.items => call.ended = "empty"
=============================================================================
