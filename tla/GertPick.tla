------------------------------ MODULE GertPick ------------------------------
(***************************************************************************)
(* git_cherry_pick, git_revert and git_rebase_commit, next to the calls of *)
(* GertMerge and on the same repository.  The three apply the change a     *)
(* commit made to another tree.  Cherry-pick and revert go through the     *)
(* index and the working directory; a rebase replays commits in memory and *)
(* touches branch and files only at its end.                               *)
(***************************************************************************)
EXTENDS GertMerge

\* The tree a commit started from; a root commit starts from nothing.
ParentTree(c) ==
  IF objs[c].parents = <<>> THEN EmptyTree ELSE TreeOf(objs[c].parents[1])

\* No mainline is ever passed, so libgit2 refuses merge commits.
IsMerge(c) == Len(objs[c].parents) > 1

\* git_cherrypick and git_revert merge one change into HEAD's tree and, with
\* FAIL_ON_CONFLICT, give up before they write anything.
Applied(before, after) == MergeTrees(before, HeadTree, after)
Applies(new) ==
  Tip # 0 /\ ~HasConflicts(new) /\ MergeAllowed(new) /\ CheckoutSafeOk(new)

\* What writing c's tree again as t on top of p gives: author, committer, date
\* and message are c's, so with c's own tree and parent it is c itself.
\* Whether another commit with that tree and parent agrees in them is open.
SameCommit(d, p, t) == objs[d].parents = <<p>> /\ objs[d].tree = t
Recommitted(c, p, t) ==
  IF SameCommit(c, p, t) THEN {c}
                         ELSE {NewId} \cup {d \in Ids : SameCommit(d, p, t)}

WriteCommit(d, p, t) ==
  objs' = IF d = NewId THEN Append(objs, NewCommit(<<p>>, t)) ELSE objs

-----------------------------------------------------------------------------
(* git_cherry_pick.                                                        *)

\* Mutant of CallCherryPick: the tree of the commit is taken whole.
PickTakesTree(s) ==
  \E c \in Ids :
    /\ Start(s, "cherry_pick") /\ Room
    /\ ~IsMerge(c) /\ Applies(TreeOf(c))
    /\ CheckoutSafe(TreeOf(c))
    /\ Keep(s, [NoFrame EXCEPT !.op = "pick", !.new = c])
    /\ Goto(s, "pickCleanup")
    /\ UNCHANGED <<objs, refs, head, mergeHead, origHead>>

\* Mutant of CallCherryPick: the working directory is not looked at.
PickOverEdits(s) ==
  \E c \in Ids :
    LET new == Applied(ParentTree(c), TreeOf(c)) IN
    /\ Start(s, "cherry_pick") /\ Room
    /\ Tip # 0 /\ ~IsMerge(c) /\ ~HasConflicts(new)
    /\ CheckoutSafe(new)
    /\ Keep(s, [NoFrame EXCEPT !.op = "pick", !.new = c])
    /\ Goto(s, "pickCleanup")
    /\ UNCHANGED <<objs, refs, head, mergeHead, origHead>>

\* A cherry-pick that does not apply changes nothing and is not a step.
CallCherryPick(s) ==
  \E c \in Ids :
    LET new == Applied(ParentTree(c), TreeOf(c)) IN
    /\ Start(s, "cherry_pick") /\ Room
    /\ ~IsMerge(c) /\ Applies(new)
    /\ CheckoutSafe(new)
    /\ Keep(s, [NoFrame EXCEPT !.op = "pick", !.new = c])
    /\ Goto(s, "pickCleanup")
    /\ UNCHANGED <<objs, refs, head, mergeHead, origHead>>

\* Removes CHERRY_PICK_HEAD, and any MERGE_HEAD with it.
PickCleanup(s) ==
  /\ pc[s] = "pickCleanup"
  /\ StateCleanup
  /\ Goto(s, "pickStatus")
  /\ UNCHANGED <<objs, refs, head, index, workdir, fr>>

\* Mutant of PickStatus: an empty cherry-pick waits for a change.
PickWaits(s) ==
  /\ pc[s] = "pickStatus"
  /\ index # HeadTree
  /\ Keep(s, [fr[s] EXCEPT !.snap = index])
  /\ Goto(s, "pickParent")
  /\ UNCHANGED repo

\* count_changes compares HEAD with the index; a conflict counts as a change.
PickStatus(s) ==
  /\ pc[s] = "pickStatus"
  /\ IF index # HeadTree
       THEN /\ Keep(s, [fr[s] EXCEPT !.snap = index])
            /\ Goto(s, "pickParent")
            /\ UNCHANGED repo
       ELSE Leave(s)

PickParent(s) ==
  /\ pc[s] = "pickParent"
  /\ IF Tip = 0 \/ HasConflicts(fr[s].snap)
       THEN Leave(s)
       ELSE /\ Keep(s, [fr[s] EXCEPT !.old = Tip])
            /\ Goto(s, "pickCreate")
            /\ UNCHANGED repo

\* Mutant of PickCreate: the commit is made although the branch has moved.
PickUnchecked(s) ==
  /\ pc[s] = "pickCreate"
  /\ \E d \in Recommitted(fr[s].new, fr[s].old, fr[s].snap) :
       /\ WriteCommit(d, fr[s].old, fr[s].snap)
       /\ refs' = [refs EXCEPT ![head] = d]
  /\ Goto(s, "pickFinish")
  /\ UNCHANGED <<head, index, workdir, mergeHead, origHead, fr>>

\* git_commit_create on HEAD with a single parent.
PickCreate(s) ==
  /\ pc[s] = "pickCreate"
  /\ TipIsFirstParent(<<fr[s].old>>)
  /\ \E d \in Recommitted(fr[s].new, fr[s].old, fr[s].snap) :
       /\ WriteCommit(d, fr[s].old, fr[s].snap)
       /\ refs' = [refs EXCEPT ![head] = d]
  /\ Goto(s, "pickFinish")
  /\ UNCHANGED <<head, index, workdir, mergeHead, origHead, fr>>

PickRefused(s) ==
  /\ pc[s] = "pickCreate"
  /\ ~TipIsFirstParent(<<fr[s].old>>)
  /\ Leave(s)

PickFinish(s) ==
  /\ pc[s] = "pickFinish"
  /\ StateCleanup
  /\ Return(s)
  /\ UNCHANGED <<objs, refs, head, index, workdir>>

-----------------------------------------------------------------------------
(* git_revert.                                                             *)

\* check_ref_in_history, before anything else is done.
CallRevert(s) ==
  \E c \in Past(Tip), commit \in BOOLEAN :
    /\ Start(s, IF commit THEN "revert" ELSE "revert_only") /\ Room
    /\ Keep(s, [NoFrame EXCEPT !.op = "pick", !.new = c, !.doCommit = commit])
    /\ Goto(s, "revert")
    /\ UNCHANGED repo

\* Mutant of RevertApply: GIT_MERGE_FAIL_ON_CONFLICT is not set.
RevertWithConflicts(s) ==
  /\ pc[s] = "revert"
  /\ LET c == fr[s].new
         new == Applied(TreeOf(c), ParentTree(c))
     IN IF ~IsMerge(c) /\ MergeAllowed(new) /\ CheckoutSafeOk(new)
          THEN /\ CheckoutSafe(new)
               /\ Goto(s, "revertCleanup")
               /\ UNCHANGED <<objs, refs, head, mergeHead, origHead, fr>>
          ELSE Leave(s)

RevertApply(s) ==
  /\ pc[s] = "revert"
  /\ LET c == fr[s].new
         new == Applied(TreeOf(c), ParentTree(c))
     IN IF ~IsMerge(c) /\ Applies(new)
          THEN /\ CheckoutSafe(new)
               /\ Goto(s, "revertCleanup")
               /\ UNCHANGED <<objs, refs, head, mergeHead, origHead, fr>>
          ELSE Leave(s)

\* Mutant of RevertCleanup: commit = TRUE is forgotten.
RevertStops(s) ==
  /\ pc[s] = "revertCleanup"
  /\ StateCleanup
  /\ Return(s)
  /\ UNCHANGED <<objs, refs, head, index, workdir>>

\* The revert is staged; with commit = TRUE git_commit follows.
RevertCleanup(s) ==
  /\ pc[s] = "revertCleanup"
  /\ StateCleanup
  /\ IF fr[s].doCommit THEN Goto(s, "commit") /\ UNCHANGED fr
                       ELSE Return(s)
  /\ UNCHANGED <<objs, refs, head, index, workdir>>

-----------------------------------------------------------------------------
(* git_rebase_commit and git_rebase_list.                                  *)

\* git_rebase_init: the commits of HEAD that upstream does not have, without
\* the merges.
Todo(upstream) == {c \in Past(Tip) \ Past(upstream) : ~IsMerge(c)}

\* Mutant of ListedConflicts: the flag is read after the conflict cleanup.
ListedAfterCleanup(upstream) == {}

\* git_rebase_list never commits, so each commit is merged with upstream
\* itself; these are the rows it marks as conflicting.
ListedConflicts(upstream) ==
  {c \in Todo(upstream) :
     HasConflicts(MergeTrees(ParentTree(c), TreeOf(upstream), TreeOf(c)))}

\* The bound leaves room for every commit that is to be replayed.
CallRebase(s) ==
  \E b \in Branches :
    LET todo == Todo(refs[b]) IN
    /\ Start(s, "rebase")
    /\ Len(objs) + Cardinality(Active) + Cardinality(todo) <= MaxCommits
    /\ Tip # 0 /\ refs[b] # 0
    /\ Keep(s, [NoFrame EXCEPT !.op = "rebase", !.ref = b, !.new = refs[b],
                               !.todo = todo, !.doCommit = todo # {}])
    /\ Goto(s, IF todo = {} THEN "rebaseTarget" ELSE "rebase")
    /\ UNCHANGED repo

\* Parents come before their children; the order of commits on parallel lines
\* is that of their dates.
NextTodo(todo) == {c \in todo : objs[c].past \cap todo = {c}}

ReplayTree(s, c) == MergeTrees(ParentTree(c), TreeOf(fr[s].new), TreeOf(c))

\* A conflict, and a commit that changes nothing any more (EAPPLIED), end the
\* call with an error.
Replays(s, c) ==
  ~HasConflicts(ReplayTree(s, c)) /\ ReplayTree(s, c) # TreeOf(fr[s].new)

\* Mutant of RebaseNext: the first replayed commit is taken for the last.
RebaseStopsEarly(s) ==
  /\ pc[s] = "rebase"
  /\ \E c \in NextTodo(fr[s].todo) :
       IF Replays(s, c)
         THEN \E d \in Recommitted(c, fr[s].new, ReplayTree(s, c)) :
                /\ WriteCommit(d, fr[s].new, ReplayTree(s, c))
                /\ Keep(s, [fr[s] EXCEPT !.new = d, !.todo = {}])
                /\ Goto(s, "rebaseTarget")
                /\ UNCHANGED <<refs, head, index, workdir, mergeHead, origHead>>
         ELSE Leave(s)

\* git_rebase_next and git_rebase_commit: the new commit is written to the
\* object database only, on top of the previous one.
RebaseNext(s) ==
  /\ pc[s] = "rebase"
  /\ \E c \in NextTodo(fr[s].todo) :
       IF Replays(s, c)
         THEN \E d \in Recommitted(c, fr[s].new, ReplayTree(s, c)) :
                /\ WriteCommit(d, fr[s].new, ReplayTree(s, c))
                /\ Keep(s, [fr[s] EXCEPT !.new = d, !.todo = @ \ {c}])
                /\ Goto(s, IF fr[s].todo = {c} THEN "rebaseTarget" ELSE "rebase")
                /\ UNCHANGED <<refs, head, index, workdir, mergeHead, origHead>>
         ELSE Leave(s)

\* Mutant of RebaseTarget: the branch is moved without a checkout.
RebaseMovesOnly(s) ==
  /\ pc[s] = "rebaseTarget"
  /\ LET target == IF fr[s].doCommit THEN fr[s].new ELSE refs[fr[s].ref] IN
     IF target # 0 /\ Tip # 0
       THEN /\ Keep(s, [fr[s] EXCEPT !.onto = head, !.old = Tip,
                                     !.new = target])
            /\ Goto(s, "move")
            /\ UNCHANGED repo
       ELSE Leave(s)

\* git_branch_set_target with the last new commit or, when there was nothing
\* to replay, with the upstream, whose name is resolved once more.
RebaseTarget(s) ==
  /\ pc[s] = "rebaseTarget"
  /\ LET target == IF fr[s].doCommit THEN fr[s].new ELSE refs[fr[s].ref] IN
     IF target # 0 /\ Tip # 0 /\ CheckoutSafeOk(TreeOf(target))
       THEN /\ CheckoutSafe(TreeOf(target))
            /\ Keep(s, [fr[s] EXCEPT !.onto = head, !.old = Tip,
                                     !.new = target])
            /\ Goto(s, "move")
            /\ UNCHANGED <<objs, refs, head, mergeHead, origHead>>
       ELSE Leave(s)

-----------------------------------------------------------------------------

PickContinue(s) ==
  \/ PickCleanup(s) \/ PickStatus(s) \/ PickParent(s)
  \/ PickCreate(s) \/ PickRefused(s) \/ PickFinish(s)
  \/ RevertApply(s) \/ RevertCleanup(s)
  \/ RebaseNext(s) \/ RebaseTarget(s)

PickStep(s) ==
  CallCherryPick(s) \/ CallRevert(s) \/ CallRebase(s) \/ PickContinue(s)

PickNext ==
  \/ Next
  \/ \E s \in Sessions : PickStep(s)

PickSpec == Init /\ [][PickNext]_vars

\* A session that has entered libgit2 keeps running unless it dies.
PickFairSpec ==
  PickSpec /\ \A s \in Sessions : WF_vars(Continue(s) \/ PickContinue(s))

-----------------------------------------------------------------------------
(* Properties of one session working alone.                                *)

\* git_cherry_pick commits the change of the chosen commit on top of HEAD and
\* nothing else, whatever was staged or edited before the call.
PicksOneChange ==
  [][\A s \in Sessions :
       pc[s] = "pickCreate" /\ pc'[s] = "pickFinish" =>
         /\ Tip # 0
         /\ TreeOf(refs[head])' =
              Applied(ParentTree(fr[s].new), TreeOf(fr[s].new))]_vars

\* The commits that tip has and upstream does not form a line.  Where a merge
\* joins parallel lines among them, a rebase that replays one line after the
\* other may end with other files, or meet a conflict that no single commit has.
Straight(tip, upstream) == \A c \in Past(tip) \ Past(upstream) : ~IsMerge(c)

\* git_rebase_commit puts the branch on top of upstream, and every file the
\* branch had changed since it left upstream has the content the branch gave
\* it: no local change is lost or overwritten.
RebaseKeepsWork ==
  [][\A s \in Sessions :
       LET upstream == refs[fr[s].ref]
           old == fr[s].old
           new == fr[s].new
           base == MergeBase(old, new)
       IN pc[s] = "move" /\ fr[s].op = "rebase" /\ refs' # refs =>
            /\ upstream \in Past(new)
            /\ Straight(old, upstream) =>
                 \A f \in Files :
                   TreeOf(old)[f] # TreeOf(base)[f] =>
                     TreeOf(new)[f] = TreeOf(old)[f]]_vars

\* When git_rebase_list marks no commit as conflicting, git_rebase_commit does
\* not run into a conflict, although it merges each commit with the one that
\* was replayed before it and the list merges it with upstream.
CleanListNoConflict ==
  \A s \in Sessions :
    LET upstream == refs[fr[s].ref] IN
    /\ pc[s] = "rebase"
    /\ Straight(Tip, upstream)
    /\ ListedConflicts(upstream) = {}
    => \A c \in NextTodo(fr[s].todo) : ~HasConflicts(ReplayTree(s, c))

\* When no file is edited by hand, cherry-pick, revert and rebase end with
\* their commits or without a trace: whatever call is over, HEAD, index and
\* working directory agree, unless a merge left conflicts.
NothingHalfDone ==
  Active = {} /\ ~HasConflicts(index) => index = HeadTree /\ workdir = HeadTree

=============================================================================
