------------------------------ MODULE MCProvider ------------------------------
(* One model call (LlmClient) and the service around its failures               *)
(* (ProviderService) share the classification of failures and no state: `part`   *)
(* says which of the two a behaviour is about, the other stays as it began.      *)
EXTENDS ProviderService, LlmClient

VARIABLE part   \* "service" or "call"

MCInit == part \in {"service", "call"} /\ ProviderInit /\ LlmInit
MCNext == \/ part = "service" /\ Step /\ UNCHANGED <<llmVars, part>>
          \/ part = "call" /\ (StartCall \/ LlmStep \/ TakeResult) /\ UNCHANGED <<pvars, part>>

\* ProviderFairness, of the behaviours about the service.
MCFairness ==
    /\ WF_pvars(part = "service" /\ TimePasses)
    /\ WF_pvars(part = "service" /\ LoopProgress)

MCSpec == MCInit /\ [][MCNext]_<<pvars, llmVars, part>> /\ MCFairness

\* While the gate is closed a probe is under way or timed, and its timer is sane.
ProbeIsComing == ClosedGateIsProbed /\ ProbeTimerSane
\* What a call has shown is of one attempt, and nothing is sent again behind shown text.
OutputIsOfOneAttempt == ShownIsOneAttempt /\ NoReplayAfterOutput
\* In the end a recovered provider resumes what may resume and wakes what waits.
RecoveryProgresses == AutoResumes /\ WaitingWorkWakes
=============================================================================
