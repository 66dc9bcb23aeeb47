----------------------------- MODULE TurnInspector -----------------------------
(***************************************************************************)
(* The turn inspector of the page: a session (turn-inspector/session.ts)      *)
(* that loads windows of a growing run log, the whole log's and one for each   *)
(* instance the operator scopes to, through requests that are answered late,    *)
(* out of order or not at all (app.ts), and the endpoint that serves them       *)
(* (request-handler.ts, run-log/window).                                       *)
(***************************************************************************)
EXTENDS RunLogGrowth, TurnDerivation, FiniteSetsExt

CONSTANTS
  WindowSize,     \* INSPECTOR_WINDOW_SIZE
  PageLimit,      \* INSPECTOR_PAGE_LIMIT
  RetentionLimit, \* INSPECTOR_RETENTION_LIMIT
  Slots,          \* bound: requests in flight
  MaxActs         \* bounds: acts of the operator, reads, failed requests, and all of them

VARIABLES
  open,     \* the modal is open (and the session started)
  explicit, \* explicitScopeRoleId, or NoScope
  windows,  \* the unscoped window (at NoScope) and the scoped ones
  requests, \* per slot: a request in flight, and the length of the log when it was made
  tailing,  \* the slot of the tail poll in flight, or 0
  polled,   \* the selected run is polled: the page is on watch, its status not known settled
  actsLeft

inspectorVars == <<open, explicit, windows, requests, tailing, polled, actsLeft>>

Unset == -1
Scopes == 0..MaxIds
Window(state) == [state |-> state, events |-> << >>, total |-> Unset, tail |-> Unset, older |-> FALSE]
Absent == Window("absent")
initialWindowState == Window("loading")
Free == [kind |-> "free", scope |-> NoScope, offset |-> 0, limit |-> 0, fresh |-> FALSE, since |-> 0]
noWindows == [s \in Scopes |-> IF s = NoScope THEN initialWindowState ELSE Absent]

InspectorInit ==
  /\ open = FALSE /\ explicit = NoScope /\ windows = noWindows
  /\ requests = [s \in Slots |-> Free] /\ tailing = 0
  /\ polled = TRUE /\ actsLeft = MaxActs

Spend(act) == /\ actsLeft[act] > 0 /\ actsLeft.all > 0
              /\ actsLeft' = [actsLeft EXCEPT ![act] = @ - 1, !.all = @ - 1]

FreeSlots(reqs) == {s \in Slots : reqs[s] = Free}

\* issueRequest: the request belongs to the session that issued it.
LogRequest(kind, scope, offset, limit) ==
  [kind |-> kind, scope |-> scope, offset |-> offset, limit |-> limit, fresh |-> TRUE, since |-> Len(turnLog)]
Issued(reqs, r) == [reqs EXCEPT ![Min(FreeSlots(reqs))] = r]
probeRequest(scope) == LogRequest("probe", scope, 0, 1)
tailWindowOffset(total) == IF total > WindowSize THEN total - WindowSize ELSE 0
windowRequest(scope, total) == LogRequest("window", scope, tailWindowOffset(total), WindowSize)

----
(***************************************************************************)
(* The view.                                                                *)
(***************************************************************************)

\* mergeLogEvents: what is shown under a scope is its window and the whole log's,
\* each event once, in log order.
mergeLogEvents(first, second) ==
  LET all == ToSet(first) \cup ToSet(second) IN SelectSeq(Positions(turnLog), LAMBDA i : i \in all)
ShownEvents == IF explicit = NoScope THEN windows[NoScope].events
               ELSE mergeLogEvents(windows[explicit].events, windows[NoScope].events)
ShownScope == IF explicit # NoScope THEN explicit
              ELSE deriveDefaultScope(buildTurnIndex(turnLog, windows[NoScope].events))
Chain == deriveInstanceChain(turnLog, ShownEvents, ShownScope)

----
(***************************************************************************)
(* What the operator does.                                                  *)
(***************************************************************************)

\* OpenInspectorModal: a new session, with the scoped window asked for beside the
\* whole log's.
OpenInspectorModal(scope) ==
  /\ ~open /\ turnLog # << >> /\ Spend("acts")
  /\ scope # NoScope => StartOf(turnLog, Positions(turnLog), scope) # 0
  /\ Cardinality(FreeSlots(requests)) >= (IF scope = NoScope THEN 1 ELSE 2)
  /\ open' = TRUE /\ explicit' = scope
  /\ windows' = IF scope = NoScope THEN noWindows ELSE [noWindows EXCEPT ![scope] = initialWindowState]
  /\ requests' = LET first == Issued(requests, probeRequest(NoScope))
                 IN  IF scope = NoScope THEN first ELSE Issued(first, probeRequest(scope))
  /\ UNCHANGED <<logVars, tailing, polled>>

\* close: the windows go, requests of this session are stale, the tail poll is cancelled.
Superseded(reqs) == [s \in Slots |-> IF reqs[s] = Free \/ s = tailing THEN Free ELSE [reqs[s] EXCEPT !.fresh = FALSE]]
CloseInspectorModal ==
  /\ open /\ Spend("acts")
  /\ open' = FALSE /\ explicit' = NoScope /\ windows' = noWindows
  /\ requests' = Superseded(requests) /\ tailing' = 0
  /\ UNCHANGED <<logVars, polled>>

\* scope: a scope never loaded, or whose load failed, is asked for.
ScopeInspectorInstance(id) ==
  /\ open /\ id # explicit /\ Spend("acts")
  /\ id \in instancesOf(turnLog, ShownEvents) \cup ToSet(Chain)
  /\ explicit' = id
  /\ IF windows[id].state \in {"absent", "failed"}
     THEN /\ FreeSlots(requests) # {}
          /\ windows' = [windows EXCEPT ![id] = initialWindowState]
          /\ requests' = Issued(requests, probeRequest(id))
     ELSE UNCHANGED <<windows, requests>>
  /\ UNCHANGED <<logVars, open, tailing, polled>>

\* GotSelectedRun: a poll that reads the completion of the run resets the scope, and is
\* the last one.
RunCompletes ==
  /\ polled /\ stack = << >> /\ turnLog # << >> /\ Spend("reads")
  /\ explicit' = NoScope /\ polled' = FALSE
  /\ UNCHANGED <<logVars, open, windows, requests, tailing>>

\* The page reads that the run is paused, or runs again; it leaves the watch screen or
\* returns to it, its window in the background or not (RunWatch).
StatusRead ==
  /\ Spend("reads")
  /\ polled' = ~polled
  /\ UNCHANGED <<logVars, open, explicit, windows, requests, tailing>>

\* olderRequest: one page before the active window, one at a time.
LoadOlderTurns ==
  LET w == windows[explicit]
      from == IF w.tail > WindowSize THEN w.tail - WindowSize ELSE 0
  IN  /\ open /\ w.state = "ready" /\ ~w.older /\ w.tail > 0
      /\ Spend("acts") /\ FreeSlots(requests) # {}
      /\ windows' = [windows EXCEPT ![explicit].older = TRUE]
      /\ requests' = Issued(requests, LogRequest("older", explicit, from, w.tail - from))
      /\ UNCHANGED <<logVars, open, explicit, tailing, polled>>

\* InspectorTailRefresh: the poll of the run (PollSelectedRun) asks for what follows the
\* active window.
TailRefresh ==
  LET w == windows[explicit]
  IN  /\ polled /\ open /\ w.state = "ready" /\ tailing = 0
      /\ FreeSlots(requests) # {}
      /\ requests' = Issued(requests, LogRequest("tail", explicit, w.total, PageLimit))
      /\ tailing' = Min(FreeSlots(requests))
      /\ UNCHANGED <<logVars, open, explicit, windows, polled, actsLeft>>

----
(***************************************************************************)
(* The answers.                                                             *)
(***************************************************************************)

\* runLogPage, paginateLogEvents: the page of a request, answered at a moment between
\* its issue and its landing when the log was that long.
PageOf(r, length) ==
  LET seq == Filtered(SubSeq(turnLog, 1, length), r.scope)
      total == Len(seq)
  IN  [offset |-> r.offset, total |-> total, events |-> SubSeq(seq, r.offset + 1, Min({total, r.offset + r.limit}))]

\* tailRefreshMustResync, olderPageSpliced, tailPageAppended.
MustResync(page, w) == Len(page.events) + page.offset < page.total \/ Len(w.events) >= RetentionLimit
\* Mutant of Bridges: a tail that begins behind the window's end is appended.
Bridges_Beyond(page, w) == page.offset > w.total /\ page.events # << >>
Bridges(page, w) == page.offset = w.total /\ page.events # << >>
\* Mutant of SplicesBefore: a page is spliced wherever it ends.
SplicesBefore_Always(page, w) == TRUE
SplicesBefore(page, w) == page.offset + Len(page.events) = w.tail

\* receive, of a fresh answer: the window of its scope, and the request that follows.
Loaded(page) == [state |-> "ready", events |-> page.events, total |-> page.total, tail |-> page.offset, older |-> FALSE]
Landed(r, page) ==
  LET w == windows[r.scope]
      Becomes(window) == [window |-> window, follow |-> Free]
      AsksWindow == [window |-> w, follow |-> windowRequest(r.scope, page.total)]
  IN CASE r.kind = "probe" -> IF page.total = 0 THEN Becomes(Loaded(page)) ELSE AsksWindow
       [] r.kind = "window" -> Becomes(Loaded(page))
       [] r.kind = "older" /\ w.state = "ready" /\ SplicesBefore(page, w) ->
            Becomes([w EXCEPT !.events = page.events \o @, !.tail = page.offset, !.older = FALSE])
       [] r.kind = "older" /\ ~(w.state = "ready" /\ SplicesBefore(page, w)) -> Becomes([w EXCEPT !.older = FALSE])
       [] r.kind = "tail" /\ w.state = "ready" ->
            IF MustResync(page, w) THEN AsksWindow
            ELSE IF Bridges(page, w) THEN Becomes([w EXCEPT !.events = @ \o page.events, !.total = page.total])
            ELSE Becomes(w)
       [] OTHER -> Becomes(w)

requestIsCurrent(r) == r.fresh

\* InspectorLanded.
Land(s) ==
  LET r == requests[s]
      freed == [requests EXCEPT ![s] = Free]
  IN  /\ r # Free
      /\ tailing' = IF tailing = s THEN 0 ELSE tailing
      /\ IF requestIsCurrent(r)
         THEN \E got \in {Landed(r, page) : page \in {PageOf(r, length) : length \in r.since..Len(turnLog)}} :
                /\ windows' = [windows EXCEPT ![r.scope] = got.window]
                /\ requests' = IF got.follow = Free THEN freed ELSE Issued(freed, got.follow)
         ELSE UNCHANGED windows /\ requests' = freed
      /\ UNCHANGED <<logVars, open, explicit, polled, actsLeft>>

\* fail, and an error answer: a first load that fails empties its window, and the
\* scopes with it when it is the whole log's.
Fail(s) ==
  LET r == requests[s]
  IN  /\ r # Free /\ Spend("failures")
      /\ requests' = [requests EXCEPT ![s] = Free]
      /\ tailing' = IF tailing = s THEN 0 ELSE tailing
      /\ IF ~requestIsCurrent(r) \/ r.kind = "tail" THEN UNCHANGED <<windows, explicit>>
         ELSE IF r.kind = "older"
              THEN windows' = [windows EXCEPT ![r.scope].older = FALSE] /\ UNCHANGED explicit
              ELSE IF r.scope = NoScope
                   THEN windows' = [noWindows EXCEPT ![NoScope] = Window("failed")] /\ explicit' = NoScope
                   ELSE windows' = [windows EXCEPT ![r.scope] = Window("failed")] /\ UNCHANGED explicit
      /\ UNCHANGED <<logVars, open, polled>>

InspectorStep ==
  \/ \E id \in Scopes : OpenInspectorModal(id)
  \/ \E id \in Ids : ScopeInspectorInstance(id)
  \/ CloseInspectorModal \/ RunCompletes \/ StatusRead \/ LoadOlderTurns \/ TailRefresh
  \/ \E s \in Slots : Land(s) \/ Fail(s)

----
(***************************************************************************)
(* Properties.                                                              *)
(***************************************************************************)

\* A window reaches from its first event to the end of the log it was answered with.
Whole(w) == w.tail + Len(w.events) = w.total

\* Whatever answers were late, lost or out of order: a ready window holds events of
\* its scope in log order, none twice, and all of the range it says it holds unless
\* it was cut; a window that loads has its answer under way.
WindowsAreTheLog ==
  \A s \in Scopes :
    LET w == windows[s]
        seq == Filtered(turnLog, s)
    IN  /\ w.state = "ready" =>
             /\ Whole(w) => w.events = SubSeq(seq, w.tail + 1, w.total)
             /\ ToSet(w.events) \subseteq ToSet(seq)
             /\ \A k \in 1 .. Len(w.events) - 1 : w.events[k] < w.events[k + 1]
        /\ open /\ w.state = "loading" =>
             \E k \in Slots : requests[k].fresh /\ requests[k].scope = s
                              /\ requests[k].kind \in {"probe", "window"}

\* The event that ended the call begun at i: calls never overlap, so it is the next
\* turn event of the log; 0 for a call in flight or lost.
Outcome(i) ==
  LET k == SelectInSubSeq(turnLog, i + 1, Len(turnLog), LAMBDA e : e.type \notin Lifecycle)
  IN  IF k = 0 \/ turnLog[k].type = "llm_call_start" THEN 0 ELSE k

\* The transcript tells the turns as they were: every loaded answer of the instance
\* once, with the request it answers when that is loaded; no request in flight whose
\* outcome is loaded; the request in flight.
TurnsAreTold(shown, scope) ==
  LET turns == scopeTurnEntries(buildTurnIndex(turnLog, shown), scope)
      loaded == ToSet(shown)
      starts == {i \in loaded : turnLog[i].type = "llm_call_start"}
  IN /\ {t.at : t \in {u \in turns : u.kind = "completed"}}
          = {i \in loaded : turnLog[i].type = "llm_call" /\ turnLog[i].id = scope}
     /\ \A i \in starts : \E next \in {Outcome(i)} :
          \A t \in turns :
            /\ t.kind = "completed" /\ next = t.at => t.start = i
            /\ t.kind = "in_flight" /\ t.at = i => next \notin loaded
     /\ \A i \in starts : calling /\ i = Len(turnLog) /\ turnLog[i].id = scope =>
          \E t \in turns : t.kind = "in_flight" /\ t.at = i

\* The instances from the root to an instance, by the whole log.
Ancestry(id) == IF id = NoScope THEN << >> ELSE deriveInstanceChain(turnLog, Positions(turnLog), id)

\* The breadcrumb never names a wrong ancestor, and once the instance's own window
\* reaches back to its start it names all of them.
ChainIsTold(chain, scope) ==
  /\ IsSuffix(chain, Ancestry(scope))
  /\ LET w == windows[explicit]
     IN  explicit # NoScope /\ w.state = "ready" /\ w.tail = 0 /\ Whole(w) => chain = Ancestry(explicit)

TranscriptIsFaithful ==
  open => \A shown \in {ShownEvents}, scope \in {ShownScope}, chain \in {Chain} :
            TurnsAreTold(shown, scope) /\ ChainIsTold(chain, scope)

\* An inspector whose run is polled ends up with the end of its log, unless its window was
\* cut or failed.  When the polls stop the window stays as it was loaded: a run that
\* completes under a scoped inspector leaves the whole log's window, to which the scope
\* returns, without the log's end (app.ts:1055).
EndIsShown ==
  LET w == windows[explicit]
  IN  (open /\ polled) =>
        \/ w.state = "failed"
        \/ w.state = "ready" /\ (Whole(w) => w.total = Len(Filtered(turnLog, explicit)))

\* A window never misses what came between its request and its answer: the poll asks
\* for what follows it.
NoGap == \A s \in Scopes : windows[s].state = "ready" => Whole(windows[s])
=============================================================================
