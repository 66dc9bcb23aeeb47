------------------------------ MODULE LiveStream ------------------------------
(***************************************************************************)
(* The live token stream end to end: the run-scoped delta channel            *)
(* (executor/stream-channel.ts), the hub that fans deltas out to sockets      *)
(* (web/stream-hub.ts), the browser's stream client with its reconnects       *)
(* (static/ts/stream-client.ts), and the partial turn the inspector shows     *)
(* (static/ts/live-partial.ts and the stream actions of app.ts).              *)
(*                                                                         *)
(* A delta is the run, the attempt and its number within the attempt; the     *)
(* first one of an attempt carries the reset flag (see LlmClient).            *)
(***************************************************************************)
EXTENDS Naturals, Sequences, SequencesExt, FiniteSets

CONSTANTS
  MaxRuns,     \* bound: runs that stream, one after the other
  MaxConns,    \* bound: sockets the browser opens
  MaxAttempts, \* bound: attempts of the model per run
  MaxDeltas,   \* bound: deltas of one attempt
  MaxSelects   \* bound: selections by the operator

StreamRuns == 1..MaxRuns
Conns == 1..MaxConns
None == 0

VARIABLES
  source, \* the bound run of the channel, its attempt and the deltas sent so far
  conn,   \* per socket: "unused", "connecting", "open", "closed" (by either end or the network)
  hub,    \* per socket: "gone", None (connected, unsubscribed) or the run it is subscribed to
  up,     \* per socket: subscribe messages on their way to the hub
  down,   \* per socket: acknowledgements and deltas on their way to the browser
  client, \* socket, activeConnection, desiredRunId, the reconnect timer, tornDown connections
  page    \* newest run the page knows of, the selected run, the live partial, selections left

svars == <<source, conn, hub, up, down, client, page>>

Gone == MaxRuns + 1
Ack == [run |-> None, attempt |-> 0, n |-> 0]

StreamInit ==
  /\ source = [run |-> 1, attempt |-> 1, n |-> 0]
  /\ conn = [c \in Conns |-> "unused"] /\ hub = [c \in Conns |-> Gone]
  /\ up = [c \in Conns |-> << >>] /\ down = [c \in Conns |-> << >>]
  /\ client = [sock |-> None, active |-> None, desired |-> None, timer |-> FALSE, torn |-> {}]
  /\ page = [known |-> 1, selected |-> None, partial |-> << >>, selects |-> MaxSelects]

----
(***************************************************************************)
(* The service.                                                             *)
(***************************************************************************)

\* publish: the delta is stamped with the bound run and sent to the sockets
\* subscribed to it.
Publish ==
  /\ source.run # None /\ source.n < MaxDeltas
  /\ source' = [source EXCEPT !.n = @ + 1]
  /\ down' = [c \in Conns |-> IF hub[c] = source.run /\ conn[c] = "open"
                              THEN Append(down[c], source') ELSE down[c]]
  \* A send into a socket that has died throws, and the hub drops the socket.
  /\ hub' = [c \in Conns |-> IF hub[c] = source.run /\ conn[c] = "closed" THEN Gone ELSE hub[c]]
  /\ UNCHANGED <<conn, up, client, page>>

\* The model's call is retried, or the next turn of the role begins.
NextAttempt ==
  /\ source.run # None /\ source.attempt < MaxAttempts /\ source.n > 0
  /\ source' = [source EXCEPT !.attempt = @ + 1, !.n = 0]
  /\ UNCHANGED <<conn, hub, up, down, client, page>>

\* The run ends and unbinds the channel; the next run of the slot binds it.
RunChanges ==
  /\ source.run \in 1..(MaxRuns - 1)
  /\ source' = [run |-> source.run + 1, attempt |-> 1, n |-> 0]
  /\ UNCHANGED <<conn, hub, up, down, client, page>>

\* onMessage: a subscription replaces the one before it and is acknowledged.
onMessage(c) == Head(up[c])

HubReceives(c) ==
  /\ up[c] # << >> /\ conn[c] = "open"
  /\ hub' = [hub EXCEPT ![c] = onMessage(c)]
  /\ up' = [up EXCEPT ![c] = Tail(@)]
  /\ down' = [down EXCEPT ![c] = Append(@, Ack)]
  /\ UNCHANGED <<source, conn, client, page>>

\* onClose: the hub hears of a socket that has closed.
HubDrops(c) ==
  /\ conn[c] = "closed" /\ hub[c] # Gone
  /\ hub' = [hub EXCEPT ![c] = Gone]
  /\ UNCHANGED <<source, conn, up, down, client, page>>

----
(***************************************************************************)
(* The browser.  A client state is passed through a step together with the    *)
(* sockets it closes and the messages it sends.                              *)
(***************************************************************************)

Fresh == {c \in Conns : conn[c] = "unused"}
NextConn == CHOOSE c \in Fresh : \A d \in Fresh : c <= d

\* connect: the handle is the client's socket from here on, before it is open.
Connected(cl) == [cl EXCEPT !.sock = NextConn, !.active = NextConn, !.timer = FALSE]

\* sendSubscribe on the current socket: queued when it is open; a socket that is
\* still connecting throws and is closed.
Send(cl) ==
  /\ up' = IF conn[cl.sock] = "open" THEN [up EXCEPT ![cl.sock] = Append(@, cl.desired)] ELSE up
  /\ conn' = IF conn[cl.sock] = "connecting" THEN [conn EXCEPT ![cl.sock] = "closed"] ELSE conn

\* The subscription starts for the selected run.
subscribe(run) ==
  LET cl == [client EXCEPT !.desired = run]
  IN  CASE client.sock # None -> client' = cl /\ Send(cl)
        [] client.sock = None /\ client.timer -> client' = cl /\ UNCHANGED <<up, conn>>
        [] client.sock = None /\ ~client.timer ->
             /\ Fresh # {}
             /\ client' = Connected(cl)
             /\ conn' = [conn EXCEPT ![NextConn] = "connecting"]
             /\ UNCHANGED up

unsubscribe ==
  /\ client' = [client EXCEPT !.desired = None, !.timer = FALSE, !.active = None, !.sock = None]
  /\ conn' = IF client.sock = None THEN conn ELSE [conn EXCEPT ![client.sock] = "closed"]
  /\ UNCHANGED up

\* hasPollableSelectedRun: the page takes the newest run it knows for live.
Live(run) == run = page.known

resetRunView(run) == [page EXCEPT !.selected = run, !.partial = << >>, !.selects = @ - 1]

\* The operator selects a run. The stream subscription restarts exactly when the
\* selected live run changes, and is torn down for a settled one.
SelectRun(run) ==
  /\ page.selects > 0 /\ run <= page.known
  /\ page' = resetRunView(run)
  /\ CASE Live(run) /\ client.desired # run  -> subscribe(run)
       [] ~Live(run) /\ client.desired # None -> unsubscribe
       [] OTHER -> UNCHANGED <<client, conn, up>>
  /\ UNCHANGED <<source, hub, down>>

\* A submission started the next run: the page selects it before any poll, and the
\* subscription moves over on the open socket.
FollowSubmitted ==
  /\ page.selects > 0 /\ page.known # source.run
  /\ page' = [resetRunView(source.run) EXCEPT !.known = source.run]
  /\ subscribe(source.run)
  /\ UNCHANGED <<source, hub, down>>

\* A poll of the run list: the selected run turns out to be settled, and a partial
\* of it is stale.
RunListPolled ==
  /\ page.known # source.run
  /\ page' = [page EXCEPT !.known = source.run, !.partial = << >>]
  /\ IF client.desired # None THEN unsubscribe ELSE UNCHANGED <<client, conn, up>>
  /\ UNCHANGED <<source, hub, down>>

\* The socket opens. A connection that has been replaced is closed at once.
finishOpen(c) ==
  /\ conn[c] = "connecting"
  /\ hub' = [hub EXCEPT ![c] = None]
  /\ IF client.active # c
     THEN /\ conn' = [conn EXCEPT ![c] = "closed"]
          /\ client' = [client EXCEPT !.torn = @ \cup {c}]
          /\ UNCHANGED <<up, page>>
     ELSE /\ conn' = [conn EXCEPT ![c] = "open"]
          /\ up' = [up EXCEPT ![c] = Append(@, client.desired)]
          /\ client' = [client EXCEPT !.sock = c]
          /\ page' = [page EXCEPT !.partial = << >>]
  /\ UNCHANGED <<source, down>>

\* The network or the server ends a socket: what was on its way is lost.
SocketBreaks(c) ==
  /\ conn[c] \in {"connecting", "open"}
  /\ conn' = [conn EXCEPT ![c] = "closed"]
  /\ UNCHANGED <<source, hub, up, down, client, page>>

\* A close or error event reaches the client after the frames that preceded it.
markDown_AnyConnection(c, cl) == TRUE
\* Events of a connection that was replaced do not disturb the current one.
markDown(c, cl) == cl.active = c

SocketDown(c) ==
  /\ conn[c] = "closed" /\ c \notin client.torn /\ down[c] = << >>
  /\ LET cl == [client EXCEPT !.torn = @ \cup {c}]
     IN  IF markDown(c, client)
         THEN /\ client' = [cl EXCEPT !.active = None, !.sock = None, !.timer = client.desired # None]
              /\ page' = [page EXCEPT !.partial = << >>]
         ELSE client' = cl /\ UNCHANGED page
  /\ UNCHANGED <<source, conn, hub, up, down>>

\* scheduleReconnect's timer.
ReconnectTimer ==
  /\ client.timer /\ Fresh # {}
  /\ client' = Connected(client)
  /\ conn' = [conn EXCEPT ![NextConn] = "connecting"]
  /\ UNCHANGED <<source, hub, up, down, page>>

----
\* nextLivePartial: a reset clears before it appends.
nextLivePartial_NoReset(partial, d) == Append(partial, d)
nextLivePartial(partial, d) == IF d.n = 1 THEN <<d>> ELSE Append(partial, d)

\* Only deltas of the selected run are folded.
GotLiveDelta(d) ==
  IF d.run = page.selected THEN [page EXCEPT !.partial = nextLivePartial(@, d)] ELSE page

\* A frame arrives; one of a connection that was replaced is dropped.
FrameArrives(c) ==
  /\ down[c] # << >>
  /\ down' = [down EXCEPT ![c] = Tail(@)]
  /\ page' = IF c \notin client.torn /\ client.active = c /\ Head(down[c]) # Ack
             THEN GotLiveDelta(Head(down[c])) ELSE page
  /\ UNCHANGED <<source, conn, hub, up, client>>

\* Frames on their way when a socket breaks may be lost.
FramesLost(c) ==
  /\ conn[c] = "closed" /\ down[c] # << >>
  /\ down' = [down EXCEPT ![c] = << >>]
  /\ UNCHANGED <<source, conn, hub, up, client, page>>

\* The poll of the log shows the turn the partial belongs to as completed
\* (activeLivePartial).
TurnCompleted ==
  /\ page.partial # << >>
  /\ \/ Last(page.partial).attempt < source.attempt
     \/ Last(page.partial).run # source.run
  /\ page' = [page EXCEPT !.partial = << >>]
  /\ UNCHANGED <<source, conn, hub, up, down, client>>

StreamStep ==
  \/ Publish \/ NextAttempt \/ RunChanges
  \/ \E run \in StreamRuns : SelectRun(run)
  \/ FollowSubmitted \/ RunListPolled \/ ReconnectTimer \/ TurnCompleted
  \/ \E c \in Conns :
       \/ HubReceives(c) \/ HubDrops(c) \/ finishOpen(c) \/ SocketBreaks(c)
       \/ SocketDown(c) \/ FrameArrives(c) \/ FramesLost(c)

StreamSpec ==
  /\ StreamInit /\ [][StreamStep]_svars
  /\ \A c \in Conns : /\ WF_svars(HubReceives(c)) /\ WF_svars(finishOpen(c))
                      /\ WF_svars(SocketDown(c)) /\ WF_svars(FrameArrives(c))
  /\ WF_svars(ReconnectTimer)

----
\* The text under an in-flight turn is one unbroken piece of one attempt of the
\* selected run: no mixture of attempts, no text of another run, no gap shown as
\* if it were continuous, whatever reconnects, selections and late frames
\* interleave (app.ts:2901, live-partial.ts:36, stream-client.ts:219).
PartialIsContinuous ==
  \A i \in DOMAIN page.partial :
    /\ page.partial[i].run = page.selected
    /\ page.partial[i].attempt = page.partial[1].attempt
    /\ page.partial[i].n = page.partial[1].n + i - 1

\* The browser never holds two sockets: every socket but the current one is closed
\* or will be closed by its own open event (stream-client.ts:175).
OneSocket ==
  \A c \in Conns : conn[c] = "open" => client.sock = c \/ client.active = c

\* A page that watches the live run ends up subscribed to it at the hub, however
\* many sockets broke on the way, while sockets are left to try
\* (stream-client.ts:130, 146).
WatcherIsSubscribed ==
  []<>(\/ client.desired = None
       \/ Fresh = {}
       \/ client.sock # None /\ hub[client.sock] = client.desired)
=============================================================================
