------------------------------- MODULE MCFeeds -------------------------------
(* The two ways the service reaches the page share no state: the polled replica  *)
(* feeds (Feeds) and the delta stream over a socket (LiveStream).  `part` says     *)
(* which of them a behaviour is about; the other stays as it began.              *)
EXTENDS Feeds, TLC

CONSTANTS MaxRuns, MaxConns, MaxAttempts, MaxDeltas, MaxSelects  \* LiveStream's bounds

ASSUME StreamBounds == MaxConns \in Nat /\ MaxRuns \in Nat

VARIABLES
    part,                                           \* "feeds", "stream" or another (MCPage)
    source, conn, hub, up, down, client, watchPage  \* LiveStream's state

Live == INSTANCE LiveStream WITH page <- watchPage
liveVars == <<source, conn, hub, up, down, client, watchPage>>
feedVars == <<fvars, liveVars, part>>

Events == [changes |-> 2, faults |-> 1, user |-> 3, all |-> 4]

MCInit == part \in {"feeds", "stream"} /\ FeedsInit /\ (part = "feeds" \/ kind = "list") /\ Live!StreamInit
MCNext == \/ part = "feeds" /\ FeedsNext /\ UNCHANGED <<liveVars, part>>
          \/ part = "stream" /\ Live!StreamStep /\ UNCHANGED <<fvars, part>>

\* The fairness of each, of the behaviours about it.
MCFairness ==
    /\ WF_fvars(part = "feeds" /\ Progress)
    /\ \A c \in 1..MaxConns :
          /\ WF_liveVars(part = "stream" /\ Live!HubReceives(c))
          /\ WF_liveVars(part = "stream" /\ Live!finishOpen(c))
          /\ WF_liveVars(part = "stream" /\ Live!SocketDown(c))
          /\ WF_liveVars(part = "stream" /\ Live!FrameArrives(c))
    /\ WF_liveVars(part = "stream" /\ Live!ReconnectTimer)

MCSpec == MCInit /\ [][MCNext]_feedVars /\ MCFairness

(* LiveStream's properties, stated there.                                        *)
PartialIsContinuous == Live!PartialIsContinuous
OneSocket == Live!OneSocket

(* A visible page ends up with what the service holds (Feeds' Converges), and one  *)
(* that watches the live run ends up subscribed to it (LiveStream).               *)
PageFollows == <>[](part # "feeds" \/ Shown) /\ Live!WatcherIsSubscribed
=============================================================================
