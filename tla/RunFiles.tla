------------------------------ MODULE RunFiles ------------------------------
(* log.jsonl and meta.json of some runs, and the two caches that read them     *)
(* again only where they changed: the run view's snapshot cache                *)
(* (web/snapshot-cache.ts over web/lru-cache.ts) and the task thread's source  *)
(* cache (task-thread/reader.ts).  A file is a sequence of pieces: an event is *)
(* written as its first half, its second half and a newline, so a write cut    *)
(* short leaves a torn tail, and positions in the sequence are byte offsets.   *)
EXTENDS Absent, Naturals, Sequences, SequencesExt, FiniteSets, FiniteSetsExt

CONSTANTS
    Runs,           \* the run ids
    MaxEvents,      \* bound on the events appended to a log
    MaxTears,       \* bound on the writes cut short
    Irrelevant,     \* the events of no interest to a thread
    MaxRelevant,    \* MAX_CACHED_RELEVANT_EVENTS
    MaxCached       \* the entries a cache holds

VARIABLES
    files,      \* per run: the pieces of log.jsonl, and the version of meta.json
    appended,   \* per run: the events appended so far
    tears,      \* writes cut short so far
    snapshots,  \* createSnapshotCache: its entries, the eldest first
    sources,    \* createTaskThreadCoreReader: its entries, the eldest first
    answers     \* what the last request for each run was given

fileVars == <<files, appended, tears, snapshots, sources, answers>>

----------------------------------------------------------------------------
(* The files.                                                               *)

First(e) == <<"first", e>>
Second(e) == <<"second", e>>
Newline == <<"newline">>

statOrNull(file) == IF file.log = <<>> THEN None ELSE Len(file.log)
createReadRunSnapshotStats(r) == [meta |-> files[r].meta, log |-> statOrNull(files[r])]
readLogTextFrom(r, offset) == SubSeq(files[r].log, offset + 1, Len(files[r].log))

\* A line is an event when it is one event written whole, and nothing else.
IsEventLine(line) == Len(line) = 2 /\ line[1][1] = "first" /\ line[2] = Second(line[1][2])
parseLogEventLine(line) == IF IsEventLine(line) THEN <<line[1][2]>> ELSE <<>>

Newlines(text) == {k \in DOMAIN text : text[k] = Newline}
\* The line that a newline ends starts behind the newline before it.
LineEndingAt(text, k) ==
    SubSeq(text, Max({0} \cup {j \in Newlines(text) : j < k}) + 1, k - 1)
parseLogEvents(text) ==
    FlattenSeq([k \in DOMAIN text |->
        IF text[k] = Newline THEN parseLogEventLine(LineEndingAt(text, k)) ELSE <<>>])

\* The complete lines, and a last fragment only if it is a whole event already.
parseLogText_ConsumesFragment(text) ==
    LET settled == Max({0} \cup Newlines(text))
    IN  [events |-> parseLogEvents(SubSeq(text, 1, settled))
                      \o parseLogEventLine(SubSeq(text, settled + 1, Len(text))),
         consumed |-> Len(text)]
parseLogText(text) ==
    LET settled == Max({0} \cup Newlines(text))
        fragment == parseLogEventLine(SubSeq(text, settled + 1, Len(text)))
    IN  [events |-> parseLogEvents(SubSeq(text, 1, settled)) \o fragment,
         consumed |-> IF fragment = <<>> THEN settled ELSE Len(text)]
parseRelevantRegion(text) ==
    LET settled == Max({0} \cup Newlines(text))
        Relevant(events) == SelectSeq(events, LAMBDA e : e \notin Irrelevant)
        fragment == Relevant(parseLogEventLine(SubSeq(text, settled + 1, Len(text))))
    IN  [events |-> Relevant(parseLogEvents(SubSeq(text, 1, settled))) \o fragment,
         consumed |-> IF fragment = <<>> THEN settled ELSE Len(text)]

----------------------------------------------------------------------------
(* The caches.                                                              *)

CachedFor(cache, r) == LET hits == {k \in DOMAIN cache : cache[k].run = r}
                       IN  IF hits = {} THEN None ELSE cache[CHOOSE k \in hits : TRUE]
\* A read moves its entry to the young end; the eldest beyond the cap is dropped.
createLruReadCache(cache, entry) ==
    LET all == Append(SelectSeq(cache, LAMBDA c : c.run # entry.run), entry)
    IN  IF Len(all) > MaxCached THEN Tail(all) ELSE all

Grown(cached, stats) == /\ stats.log # None /\ cached.stats.log # None
                        /\ stats.log > cached.stats.log /\ stats.log >= cached.offset

\* The run view: unchanged, the tail behind the settled offset, or everything.
refreshEntry(r, stats, cached) ==
    LET full == parseLogText(readLogTextFrom(r, 0))
        Entry(events, offset) == [run |-> r, stats |-> stats, meta |-> files[r].meta,
                                  events |-> events, offset |-> offset]
    IN  IF cached = None THEN Entry(full.events, full.consumed)
        ELSE IF cached.stats.log = stats.log THEN Entry(cached.events, cached.offset)
        ELSE IF Grown(cached, stats)
        THEN LET tail == parseLogText(readLogTextFrom(r, cached.offset))
             IN  Entry(cached.events \o tail.events, cached.offset + tail.consumed)
        ELSE Entry(full.events, full.consumed)

\* The thread keeps the newest relevant events only.
boundCachedEvents(events, truncated) ==
    IF Len(events) <= MaxRelevant THEN [events |-> events, truncated |-> truncated]
    ELSE [events |-> SubSeq(events, Len(events) - MaxRelevant + 1, Len(events)), truncated |-> TRUE]
readRunSources(r, stats, cached) ==
    LET full == parseRelevantRegion(readLogTextFrom(r, 0))
        Entry(bound, offset) == [run |-> r, stats |-> stats, meta |-> files[r].meta,
                                 events |-> bound.events, truncated |-> bound.truncated,
                                 offset |-> offset]
    IN  IF cached = None THEN Entry(boundCachedEvents(full.events, FALSE), full.consumed)
        ELSE IF cached.stats.log = stats.log THEN Entry(cached, cached.offset)
        ELSE IF Grown(cached, stats)
        THEN LET tail == parseRelevantRegion(readLogTextFrom(r, cached.offset))
             IN  Entry(boundCachedEvents(cached.events \o tail.events, cached.truncated),
                       cached.offset + tail.consumed)
        ELSE Entry(boundCachedEvents(full.events, FALSE), full.consumed)

----------------------------------------------------------------------------
(* The service appends, a write is cut short, the service restarts.          *)

FilesInit == /\ files = [r \in Runs |-> [log |-> <<>>, meta |-> None]]
             /\ appended = [r \in Runs |-> 0]
             /\ tears = 0
             /\ snapshots = <<>> /\ sources = <<>>
             /\ answers = [r \in Runs |-> None]

\* Any append of pieces moves the file; an answer given before is out of date.
Put(r, pieces) == /\ files' = [files EXCEPT ![r].log = @ \o pieces]
                  /\ answers' = [answers EXCEPT ![r] = None]

createAppendLog(r) == /\ appended[r] < MaxEvents
                      /\ appended' = [appended EXCEPT ![r] = @ + 1]
                      /\ LET e == appended[r] + 1 IN Put(r, <<First(e), Second(e), Newline>>)
                      /\ UNCHANGED <<tears, snapshots, sources>>

\* The disk fills up in the middle of an append, or the service is killed there.
TornAppend(r) == /\ appended[r] < MaxEvents /\ tears < MaxTears
                 /\ appended' = [appended EXCEPT ![r] = @ + 1]
                 /\ tears' = tears + 1
                 /\ LET e == appended[r] + 1 IN
                       \E torn \in {<<First(e)>>, <<First(e), Second(e)>>} : Put(r, torn)
                 /\ \/ UNCHANGED <<snapshots, sources>>
                    \/ snapshots' = <<>> /\ sources' = <<>>

WriteMeta(r) == /\ files[r].meta \in {None, 1}
                /\ files' = [files EXCEPT ![r].meta = IF @ = None THEN 1 ELSE 2]
                /\ answers' = [answers EXCEPT ![r] = None]
                /\ UNCHANGED <<appended, tears, snapshots, sources>>

\* One poll reads the run view and the task thread of a run.
Request(r) ==
    LET stats == createReadRunSnapshotStats(r)
        snapshot == refreshEntry(r, stats, CachedFor(snapshots, r))
        source == readRunSources(r, stats, CachedFor(sources, r))
    IN  /\ stats.meta # None \/ stats.log # None
        /\ snapshots' = createLruReadCache(snapshots, snapshot)
        /\ sources' = createLruReadCache(sources, source)
        /\ answers' = [answers EXCEPT ![r] = [view |-> snapshot, thread |-> source]]
        /\ UNCHANGED <<files, appended, tears>>

FilesNext == \E r \in Runs : \/ createAppendLog(r) \/ TornAppend(r) \/ WriteMeta(r)
                             \/ Request(r)

FilesSpec == FilesInit /\ [][FilesNext]_fileVars

----------------------------------------------------------------------------
(* Properties.                                                               *)

\* A whole event whose newline never came, followed by the next append.
Glued(r) == \E k \in DOMAIN files[r].log :
               /\ k + 1 \in DOMAIN files[r].log
               /\ files[r].log[k][1] = "second" /\ files[r].log[k + 1] # Newline

(* However the log grew or tore between two polls, and whatever the caches      *)
(* evicted, a poll answers exactly what reading the whole file again     *)
(* would, no event lost and none twice, except where an append is glued to an   *)
(* event whose newline was never written.                                       *)
IncrementalIsWhole ==
    \A r \in Runs :
        answers[r] = None \/ Glued(r)
        \/ LET whole == parseLogText(files[r].log).events
               relevant == SelectSeq(whole, LAMBDA e : e \notin Irrelevant)
           IN  /\ answers[r].view.events = whole
               /\ answers[r].thread.events = boundCachedEvents(relevant, FALSE).events
               /\ answers[r].view.meta = files[r].meta
               /\ answers[r].thread.meta = files[r].meta

(* The thread says so when the bound has dropped an event of the log.           *)
DroppedIsTold ==
    \A r \in Runs :
        answers[r] = None \/ Glued(r)
        \/ ToSet(answers[r].view.events) \ Irrelevant \subseteq ToSet(answers[r].thread.events)
        \/ answers[r].thread.truncated
=============================================================================
