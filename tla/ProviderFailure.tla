--------------------------- MODULE ProviderFailure ---------------------------
(***************************************************************************)
(* The classification of a failed provider request (provider-failure.ts and *)
(* the context scan of llm.ts), shared by the role calls and the health      *)
(* probe. A body is reduced to what the code reads from it: whether it has a *)
(* billing signature, and whether it has a context keyword.                  *)
(***************************************************************************)
EXTENDS Naturals


\* Retry-After as the caller tells it apart: absent or unreadable, within the
\* inline wait limit, beyond it.
RetryAfter == {"none", "short", "long"}

classifyProviderFailure(transport, status, billing) ==
  CASE transport                            -> "transient"
    [] ~transport /\ status = 402           -> "billing"
    [] ~transport /\ status = 401           -> "auth"
    [] ~transport /\ status = 403           -> IF billing THEN "billing" ELSE "auth"
    [] ~transport /\ status = 429           -> IF billing THEN "billing" ELSE "transient"
    [] ~transport /\ status \in {408, 425}  -> "transient"
    [] ~transport /\ status \in (400..499) \ {401, 402, 403, 408, 425, 429}
                                            -> "request_rejected"
    [] OTHER                                -> "transient"

\* An error reported inside the stream: a numeric status first, then a textual
\* code, then a billing phrase, else a transport failure. The code is the status
\* its text stands for, 0 when the payload has neither.
classifyStreamProviderFailure(numeric, textual, billing) ==
  CASE numeric # 0                             -> classifyProviderFailure(FALSE, numeric, billing)
    [] numeric = 0 /\ textual \in {400, 401, 403, 404}
                                               -> classifyProviderFailure(FALSE, textual, billing)
    [] numeric = 0 /\ textual \notin {400, 401, 403, 404} /\ billing
                                               -> classifyProviderFailure(FALSE, 402, billing)
    [] numeric = 0 /\ textual \in {429, 500} /\ ~billing
                                               -> classifyProviderFailure(FALSE, textual, billing)
    [] OTHER                                   -> classifyProviderFailure(TRUE, 0, billing)

\* A keyword scan over three statuses; a quota body of a 429 is billing first.
detectContextBudgetExceeded(status, keyword, billing) ==
  status \in {400, 413, 429} /\ ~(status = 429 /\ billing) /\ keyword
=============================================================================
