------------------------------ MODULE GertLog ------------------------------
(***************************************************************************)
(* git_log and git_stat_files: walks from a commit along its first         *)
(* parents.  git_log walks twice: the first walk counts the rows, so that  *)
(* they can be allocated, and the second fills them; nothing but the       *)
(* count connects the two.                                                 *)
(*                                                                         *)
(* Commits never change, so a run starts with some history and one call,   *)
(* and a step is one iteration of a loop.                                  *)
(***************************************************************************)
EXTENDS Integers, Sequences, FiniteSets

CONSTANTS
  Files,     \* paths
  IntMax,    \* the largest value of a C int
  Histories, \* first-parent lines, the commit the walk starts from first
  Queries    \* the arguments of the call

ASSUME IntAssumption == IntMax \in Nat

\* A commit has a time and the set of files in its diff with the parent.
Commit == [time : Nat, touched : SUBSET Files]

\* The last commit of a line is a root, or its parent was cut off by a
\* shallow clone.
History == [line : Seq(Commit) \ {<<>>}, end : {"root", "shallow"}]

\* An empty path is no filter.
Query == [call : {"log", "stat"}, max : Nat, after : Nat, path : SUBSET Files]

ASSUME HistoryAssumption == Histories \subseteq History
ASSUME QueryAssumption == Queries \subseteq Query

VARIABLES
  hist,   \* the history of the repository
  query,  \* the call
  pc,     \* "count", "list" and "stat" are the loops; "done" and "error" end
  x,      \* the commit the walk is at
  i,      \* the loop variable
  len,    \* the number of rows git_log allocated
  rows,   \* the commits in the rows of git_log
  stat    \* the rows of git_stat_files

vars == <<hist, query, pc, x, i, len, rows, stat>>

Line == hist.line
Last == Len(Line)

\* commit_to_diff has no diff when the parent is not available.
HasDiff(c) == c < Last \/ hist.end = "root"

\* Rf_asInteger on a date: a number that does not fit becomes NA_INTEGER, the
\* smallest int.
AsInteger(t) == IF t <= IntMax THEN t ELSE -IntMax - 1

Include(c) ==
  /\ Line[c].time >= AsInteger(query.after)
  /\ \/ query.path = {}
     \/ HasDiff(c) /\ Line[c].touched \cap query.path # {}

NoStat == [commits |-> 0, head |-> 0, created |-> 0]

Init ==
  /\ hist \in Histories
  /\ query \in Queries
  /\ pc = IF query.call = "log" THEN "count" ELSE "stat"
  /\ x = 1
  /\ i = IF query.call = "log" THEN 1 ELSE 0
  /\ len = 0
  /\ rows = <<>>
  /\ stat = [f \in Files |-> NoStat]

-----------------------------------------------------------------------------
(* count_commit_ancestors.                                                 *)

\* The second walk starts over.
Allocate(n) == pc' = "list" /\ len' = n /\ x' = 1 /\ i' = 0

\* Mutant of CountStep: commits that are not included are counted.
CountsEvery ==
  /\ pc = "count" /\ i < query.max
  /\ IF x = Last THEN Allocate(i)
                 ELSE x' = x + 1 /\ i' = i + 1 /\ UNCHANGED <<pc, len>>
  /\ UNCHANGED <<hist, query, rows, stat>>

\* Mutant of CountStep: GIT_ENOTFOUND does not end the loop.
IgnoresMissingParent ==
  /\ pc = "count" /\ i < query.max
  /\ i' = IF Include(x) THEN i + 1 ELSE i
  /\ x' = IF x = Last THEN x ELSE x + 1
  /\ UNCHANGED <<hist, query, pc, len, rows, stat>>

\* One iteration below max: a commit that is not included takes the increment
\* of i back.
CountStep ==
  /\ pc = "count" /\ i < query.max
  /\ LET n == IF Include(x) THEN i ELSE i - 1 IN
     IF x = Last THEN Allocate(n)
                 ELSE x' = x + 1 /\ i' = n + 1 /\ UNCHANGED <<pc, len>>
  /\ UNCHANGED <<hist, query, rows, stat>>

\* The loop stops at max without looking at the commit it has reached.
CountFull ==
  /\ pc = "count" /\ i >= query.max
  /\ Allocate(query.max)
  /\ UNCHANGED <<hist, query, rows, stat>>

-----------------------------------------------------------------------------
(* R_git_commit_log.                                                       *)

\* Mutant of ListStep: a commit that is not included uses up its row.
ListLeavesGaps ==
  /\ pc = "list" /\ i < len
  /\ rows' = IF Include(x) THEN Append(rows, x) ELSE rows
  /\ i' = i + 1
  /\ CASE i < len - 1 /\ x < Last -> x' = x + 1 /\ pc' = pc
       [] i < len - 1 /\ x = Last -> x' = x /\ pc' = "error"
       [] OTHER -> UNCHANGED <<x, pc>>
  /\ UNCHANGED <<hist, query, len, stat>>

\* Mutant of ListStep: the result of git_commit_parent is not looked at.
ListRunsOff ==
  /\ pc = "list" /\ i < len
  /\ rows' = IF Include(x) THEN Append(rows, x) ELSE rows
  /\ LET n == IF Include(x) THEN i ELSE i - 1 IN
     /\ i' = n + 1
     /\ x' = IF n < len - 1 THEN x + 1 ELSE x
  /\ UNCHANGED <<hist, query, pc, len, stat>>

\* One iteration of the second walk; it fails when it needs a parent that is
\* not there.
ListStep ==
  /\ pc = "list" /\ i < len
  /\ rows' = IF Include(x) THEN Append(rows, x) ELSE rows
  /\ LET n == IF Include(x) THEN i ELSE i - 1 IN
     /\ i' = n + 1
     /\ CASE n < len - 1 /\ x < Last -> x' = x + 1 /\ pc' = pc
          [] n < len - 1 /\ x = Last -> x' = x /\ pc' = "error"
          [] OTHER -> UNCHANGED <<x, pc>>
  /\ UNCHANGED <<hist, query, len, stat>>

ListReturn ==
  /\ pc = "list" /\ i >= len
  /\ pc' = "done"
  /\ UNCHANGED <<hist, query, x, i, len, rows, stat>>

-----------------------------------------------------------------------------
(* R_git_stat_files.                                                       *)

\* Mutant of Counted: the first commit that is met is not kept.
CountedAgain(r, c) ==
  [commits |-> r.commits + 1, head |-> c, created |-> Line[c].time]

\* A file's row after commit c, which has the file in its diff.
Counted(r, c) ==
  [commits |-> r.commits + 1,
   head |-> IF r.commits = 0 THEN c ELSE r.head,
   created |-> Line[c].time]

\* One commit; the call fails at the edge of a shallow clone.
StatStep ==
  /\ pc = "stat" /\ i < query.max
  /\ IF HasDiff(x)
       THEN /\ stat' = [f \in Files |->
                 IF f \in Line[x].touched THEN Counted(stat[f], x) ELSE stat[f]]
            /\ IF x = Last THEN pc' = "done" /\ UNCHANGED <<x, i>>
                           ELSE x' = x + 1 /\ i' = i + 1 /\ UNCHANGED pc
       ELSE pc' = "error" /\ UNCHANGED <<x, i, stat>>
  /\ UNCHANGED <<hist, query, len, rows>>

StatReturn ==
  /\ pc = "stat" /\ i >= query.max
  /\ pc' = "done"
  /\ UNCHANGED <<hist, query, x, i, len, rows, stat>>

-----------------------------------------------------------------------------

Step ==
  \/ CountStep \/ CountFull \/ ListStep \/ ListReturn
  \/ StatStep \/ StatReturn

Ended == pc \in {"done", "error"}

Next == Step \/ (Ended /\ UNCHANGED vars)

Spec == Init /\ [][Next]_vars

\* R runs the C routine until it returns.
FairSpec == Spec /\ WF_vars(Step)

-----------------------------------------------------------------------------

\* The walk stays on the line and a row holds a commit of it.
TypeOK ==
  /\ hist \in History
  /\ query \in Query
  /\ pc \in {"count", "list", "stat", "done", "error"}
  /\ x \in 1 .. Last
  /\ i \in Nat
  /\ len \in 0 .. query.max
  /\ rows \in Seq(1 .. Last)
  /\ stat \in [Files -> [commits : 0 .. Last, head : 0 .. Last, created : Nat]]

\* What the documentation of git_log selects: commits from a date on, and with
\* a path those that touch it (as far as the clone can tell).
Wanted ==
  {c \in 1 .. Last :
     /\ Line[c].time >= query.after
     /\ query.path # {} => HasDiff(c) /\ Line[c].touched \cap query.path # {}}

\* When git_log returns, its rows are the first max wanted commits of the
\* history, each once and in order: the second walk fills exactly the rows
\* that the first one counted.  Dates that do not fit an int are excepted.
LogIsPrefix ==
  pc = "done" /\ query.call = "log" /\ query.after <= IntMax =>
    /\ \A j, k \in 1 .. Len(rows) : j < k => rows[j] < rows[k]
    /\ {rows[j] : j \in 1 .. Len(rows)} =
         {c \in Wanted : Cardinality({d \in Wanted : d <= c}) <= query.max}

\* git_log fails only when a filter leaves one row less than max, and the
\* history goes on past the last of them.
LogFailsOnlyOneShort ==
  pc = "error" /\ query.call = "log" /\ query.after <= IntMax =>
    /\ Cardinality(Wanted) = query.max - 1
    /\ Last \notin Wanted

\* A row of git_stat_files counts the commits, among the first max, that touch
\* the file; head is the youngest and created the time of the oldest of them.
StatIsSummary ==
  pc = "done" /\ query.call = "stat" =>
    \A f \in Files :
      LET touching == {c \in 1 .. Last : c <= query.max /\ f \in Line[c].touched}
      IN /\ stat[f].commits = Cardinality(touching)
         /\ touching = {} => stat[f] = NoStat
         /\ touching # {} =>
              /\ stat[f].head \in touching
              /\ \A c \in touching : stat[f].head <= c
              /\ \E c \in touching : /\ stat[f].created = Line[c].time
                                     /\ \A d \in touching : d <= c

\* Both loops end, although a commit that is not included does not advance
\* their counters.
CallReturns == <>Ended

\* git_log with a limit returns the commits there are: "lookup at most latest
\* n parent commits".
LogAnswers == query.call = "log" => pc # "error"

=============================================================================
