------------------------------- MODULE MCThread -------------------------------
(* The task thread, from the files of a run to the pane that shows it.  The      *)
(* parts share no state, so each is checked on its own: `part` says which one    *)
(* a behaviour is about, and the others stay as they began.                      *)
EXTENDS TaskThreadPane, TaskThread, RunFiles

CONSTANT LineageRuns    \* the run ids of the lineages

VARIABLES
    part,       \* "pane", "log", "files" or "lineage"
    lineage     \* what the runs name as their parents, which can be read, and the cap

others == <<part, lineage>>
allVars == <<tvars, runVars, fileVars, others>>

ThreadEvents == [clicks |-> 1, selects |-> 1, faults |-> 1, llmFailures |-> 2, growths |-> 1,
                 prunes |-> 1, all |-> 2]

\* Every lineage of the runs: parents that are missing, malformed or form a cycle.
Lineages == [parentOf : [LineageRuns -> LineageRuns \cup {None, "malformed"}],
             known : SUBSET LineageRuns, maxRuns : 1..Cardinality(LineageRuns)]
NoLineage == [parentOf |-> [r \in LineageRuns |-> None], known |-> {}, maxRuns |-> 1]

PartsInit == /\ ThreadInit /\ (part = "pane" \/ service.readable)
             /\ RunInit
             /\ FilesInit
             /\ lineage \in IF part = "lineage" THEN Lineages ELSE {NoLineage}
MCInit == part \in {"pane", "log", "files", "lineage"} /\ PartsInit

MCNext ==
    \/ part = "pane" /\ ThreadNext /\ UNCHANGED <<runVars, fileVars, others>>
    \/ part = "log" /\ RunNext /\ UNCHANGED <<tvars, fileVars, others>>
    \/ part = "files" /\ FilesNext /\ UNCHANGED <<tvars, runVars, others>>

MCFairness == /\ WF_tvars(part = "pane" /\ PaneProgress)
              /\ WF_tvars(part = "pane" /\ WireProgress)
              /\ WF_tvars(part = "pane" /\ (AttemptEnds \/ BecomesReadable))

MCSpec == MCInit /\ [][MCNext]_allVars /\ MCFairness

(* The thread on the page catches up with the run, unless its read failed and      *)
(* offers a retry (TaskThreadPane's ThreadCatchesUp).                              *)
PaneCatchesUp == <>[](part # "pane" \/ CaughtUp)

\* The parent of a run that can be followed: named, well formed and readable.
Steps == {s \in LineageRuns \X LineageRuns :
            s[2] = lineage.parentOf[s[1]] /\ s[2] \in lineage.known}
Parent(r) == {p \in LineageRuns : <<r, p>> \in Steps}
\* The ancestors of a run that is no ancestor of its own, nearest first.
Chains(r) == {c \in UNION {[1..n -> LineageRuns] : n \in 1..Cardinality(LineageRuns)} :
                c[1] = r /\ IsInjective(c) /\ \A k \in 1..(Len(c) - 1) : c[k + 1] \in Parent(c[k])}

(* The walk follows every parent that can be followed, repeats no run and stops      *)
(* within its cap, and it calls a lineage complete exactly when it ended at a run    *)
(* that names no parent.                                                             *)
LineageIsWalked ==
    part = "lineage" =>
    \A r \in LineageRuns :
        LET walk == deriveTaskLineage(r, lineage.parentOf, lineage.known, lineage.maxRuns)
            longest == CHOOSE c \in Chains(r) : \A d \in Chains(r) : Len(d) <= Len(c)
            n == IF Len(longest) <= lineage.maxRuns THEN Len(longest) ELSE lineage.maxRuns
        IN  /\ Reverse(walk.runs) = SubSeq(longest, 1, n)
            /\ (walk.truncatedReason = None) <=> (lineage.parentOf[longest[n]] = None)

\* The pane shows the summary of the thread it shows, and asks for it sparingly.
SummariesInOrder == SummaryMatchesThread /\ OneModelCall /\ RetriesBounded
\* The entries derived from the log say what the log says.
ThreadTellsTheLog ==
    part = "log" =>
        PausedShowsItsQuestion /\ AnswersPaired /\ InquiriesPaired /\ StatusFromEntries /\ LatestHumanSurvives
\* So do the readers that continue, bound and chain the logs.
ReadersAreFaithful == (part = "files" => IncrementalIsWhole /\ DroppedIsTold) /\ LineageIsWalked
\* What the pane waits for ends, and it catches up with the run.
PaneSettles == PendingEnds /\ PaneCatchesUp
=============================================================================
