------------------------------ MODULE MCEngine ------------------------------
(* Instances of RoleEngine: the batches the model may return. *)
EXTENDS RoleEngine

WorkBatches == {<<"scout", "ask">>, <<"agent", "bad", "clarify", "tool">>, <<"finish">>}
HandlerReplies == {<<"abort", "finish">>, <<"finish">>}
EachOnce == [e \in Events |-> IF e = "turns" THEN 3 ELSE 1]
AllRequests == {"plan", "inquiry"}

\* What a crash leaves a resume to work from: the log closes every invocation at most once,
\* and all of them in the end; while a handler runs, the interlude it serves is on disk, with
\* the frame it was for as the leaf.  (Whether the checkpoint around it is taken back is
\* another matter: EngineClaims.)
WorkIsOnRecord == InvocationsClosed /\ InterludeDurable
=============================================================================
