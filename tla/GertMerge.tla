----------------------------- MODULE GertMerge -----------------------------
(***************************************************************************)
(* R sessions calling gert's merge, commit, reset and branch functions on  *)
(* one repository.  A session runs one call at a time and a call is a      *)
(* sequence of libgit2 calls; each action below is one step of a call, up  *)
(* to and including the next libgit2 call that reads or writes the         *)
(* repository.  Steps of different sessions interleave: nothing in gert or *)
(* libgit2 holds a lock from one libgit2 call to the next.                 *)
(*                                                                         *)
(* A failing libgit2 call raises an R error (bail_if): the call ends there *)
(* and keeps the effects it already had.                                   *)
(***************************************************************************)
EXTENDS GertRepo

CONSTANTS
  Sessions,    \* R processes working on the repository
  Calls,       \* the functions the sessions of a run call
  EditContent, \* what the user may write into a file of the working directory
  FirstBranch  \* a branch, the value of an unset branch register

AllCalls == {"merge", "stage_only", "squash", "no_commit", "fast_forward",
             "commit", "commit_all", "abort", "checkout", "force_checkout",
             "orphan", "create", "force_create", "delete", "soft", "mixed",
             "hard", "add", "rm", "edit", "crash"}
PickCalls == {"cherry_pick", "revert", "revert_only", "rebase"}
StashCalls == {"stash_save", "stash_pop", "stash_drop", "archive", "restore"}

ASSUME SessionAssumption ==
  /\ IsFiniteSet(Sessions)
  /\ Calls \subseteq AllCalls \cup PickCalls \cup StashCalls
  /\ EditContent \subseteq Content
  /\ FirstBranch \in Branches

VARIABLES
  pc,   \* where each session is in its call, "idle" between calls
  fr    \* the local variables of each session's call

vars == <<repo, pc, fr>>

Labels == {"idle", "ffAnalysis", "target", "move", "stage", "cleanup",
           "status", "commit", "heads", "parents", "create", "finish",
           "allAdd", "allStatus", "allRm", "reset", "abortCleanup",
           "branchTree", "setHead", "indexWrite",
           \* the steps of GertPick
           "pickCleanup", "pickStatus", "pickParent", "pickCreate",
           "pickFinish", "revert", "revertCleanup", "rebase", "rebaseTarget",
           \* and of GertStash
           "unstash", "restore"}

Frame == [op : {"none", "merge", "stage_only", "pick", "rebase", "archive"},
          ref : Branches,          \* the branch argument of the call
          doCommit : BOOLEAN,      \* arguments commit =, squash =, force =
          squash : BOOLEAN,
          force : BOOLEAN,
          clean : BOOLEAN,         \* R_git_merge_stage's result
          onto : Branches,         \* the branch behind the HEAD that was read
          old : Nat,               \* the commit it pointed at
          new : Nat,               \* the commit a branch is to be moved to
          mergeParent : Nat,       \* git_merge_parent_heads, 0 for NULL
          snap : Index,            \* the index as the handle last read it
          staged : SUBSET Files,   \* the staged rows of git_status
          modified : SUBSET Files, \* git_commit_all's two lists
          deleted : SUBSET Files,
          todo : SUBSET Nat]       \* the commits a rebase has yet to replay

NoFrame == [op |-> "none", ref |-> FirstBranch, doCommit |-> FALSE,
            squash |-> FALSE, force |-> FALSE, clean |-> FALSE,
            onto |-> FirstBranch, old |-> 0, new |-> 0, mergeParent |-> 0,
            snap |-> EmptyTree, staged |-> {},
            modified |-> {}, deleted |-> {}, todo |-> {}]

Init ==
  /\ RepoInit
  /\ pc = [s \in Sessions |-> "idle"]
  /\ fr = [s \in Sessions |-> NoFrame]

Goto(s, l) == pc' = [pc EXCEPT ![s] = l]
Keep(s, f) == fr' = [fr EXCEPT ![s] = f]
Return(s) == Goto(s, "idle") /\ Keep(s, NoFrame)

\* The call ends here, by an error or a plain return, and writes no more.
Leave(s) == Return(s) /\ UNCHANGED repo

Start(s, name) == pc[s] = "idle" /\ name \in Calls

\* A call makes at most one commit.  One that may do so starts only while
\* there is room for it, and for the others in progress, below MaxCommits.
Active == {s \in Sessions : pc[s] # "idle"}
Room == Len(objs) + Cardinality(Active) < MaxCommits

-----------------------------------------------------------------------------
(* git_merge, git_merge_stage_only and git_branch_fast_forward.            *)

\* A call that finds it is already up to date returns at once and is not a
\* step.  squash = TRUE and commit = FALSE are calls a run enables by name.
CallMerge(s) ==
  \E b \in Branches, commit, squash \in BOOLEAN :
    /\ Start(s, "merge") /\ Room
    /\ squash => "squash" \in Calls
    /\ ~commit => "no_commit" \in Calls
    /\ refs[b] # 0
    /\ Analysis(Tip, refs[b]) # "up_to_date"
    /\ Keep(s, [NoFrame EXCEPT !.op = "merge", !.ref = b,
                               !.doCommit = commit, !.squash = squash])
    /\ Goto(s, IF Analysis(Tip, refs[b]) = "fastforward" THEN "ffAnalysis"
                                                         ELSE "stage")
    /\ UNCHANGED repo

CallStageOnly(s) ==
  \E b \in Branches, squash \in BOOLEAN :
    /\ Start(s, "stage_only")
    /\ squash => "squash" \in Calls
    /\ Keep(s, [NoFrame EXCEPT !.op = "stage_only", !.ref = b,
                               !.squash = squash])
    /\ Goto(s, "stage")
    /\ UNCHANGED repo

CallFastForward(s) ==
  \E b \in Branches :
    /\ Start(s, "fast_forward")
    /\ Keep(s, [NoFrame EXCEPT !.ref = b])
    /\ Goto(s, "ffAnalysis")
    /\ UNCHANGED repo

\* Mutant of FastForwardAnalysis: the branch is moved whatever the analysis.
FastForwardAnyway(s) ==
  /\ pc[s] = "ffAnalysis"
  /\ Goto(s, "target") /\ UNCHANGED <<fr, repo>>

\* git_branch_fast_forward analyses again before it moves the branch.
FastForwardAnalysis(s) ==
  /\ pc[s] = "ffAnalysis"
  /\ IF refs[fr[s].ref] # 0 /\ Analysis(Tip, refs[fr[s].ref]) = "fastforward"
       THEN Goto(s, "target") /\ UNCHANGED <<fr, repo>>
       ELSE Leave(s)

\* R_git_branch_set_target: resolve the ref, read HEAD, check the tree out.
SetTargetCheckout(s) ==
  /\ pc[s] = "target"
  /\ LET target == refs[fr[s].ref] IN
     IF target # 0 /\ Tip # 0 /\ CheckoutSafeOk(TreeOf(target))
       THEN /\ CheckoutSafe(TreeOf(target))
            /\ Keep(s, [fr[s] EXCEPT !.onto = head, !.old = Tip,
                                     !.new = target])
            /\ Goto(s, "move")
            /\ UNCHANGED <<objs, refs, head, mergeHead, origHead>>
       ELSE Leave(s)

\* git_reference_set_target moves the branch only if it still points at the
\* commit that was read; when it fails the new tree stays checked out.
SetTargetMove(s) ==
  /\ pc[s] = "move"
  /\ refs' = IF refs[fr[s].onto] = fr[s].old
               THEN [refs EXCEPT ![fr[s].onto] = fr[s].new]
               ELSE refs
  /\ Return(s)
  /\ UNCHANGED <<objs, head, index, workdir, mergeHead, origHead>>

\* Mutant of Stage: the merge is checked out without git_merge's checks.
StageAnyway(s) ==
  /\ pc[s] = "stage"
  /\ LET theirs == refs[fr[s].ref]
         new == MergeResult(theirs)
     IN IF theirs # 0 /\ Tip # 0
          THEN /\ MergeCheckout(new, theirs)
               /\ mergeHead' = theirs
               /\ origHead' = Tip
               /\ UNCHANGED <<objs, refs, head>>
               /\ Keep(s, [fr[s] EXCEPT !.clean = ~HasConflicts(new)])
               /\ Goto(s, IF fr[s].squash THEN "cleanup" ELSE "status")
          ELSE Leave(s)

\* R_git_merge_stage.
Stage(s) ==
  /\ pc[s] = "stage"
  /\ LET theirs == refs[fr[s].ref]
         new == MergeResult(theirs)
     IN IF theirs # 0 /\ Tip # 0 /\ MergeAllowed(new)
          THEN /\ MergeCheckout(new, theirs)
               /\ mergeHead' = theirs
               /\ origHead' = Tip
               /\ UNCHANGED <<objs, refs, head>>
               /\ Keep(s, [fr[s] EXCEPT !.clean = ~HasConflicts(new)])
               /\ Goto(s, IF fr[s].squash THEN "cleanup" ELSE "status")
          ELSE /\ IF theirs # 0 THEN StateCleanup
                                ELSE UNCHANGED <<mergeHead, origHead>>
               /\ UNCHANGED <<objs, refs, head, index, workdir>>
               /\ Return(s)

\* squash = TRUE forgets the merge head.
StageCleanup(s) ==
  /\ pc[s] = "cleanup"
  /\ StateCleanup
  /\ Goto(s, "status")
  /\ UNCHANGED <<objs, refs, head, index, workdir, fr>>

\* git_merge looks at git_status; git_merge_stage_only just returns.
MergeStatus(s) ==
  /\ pc[s] = "status"
  /\ IF fr[s].op = "merge" /\ StatusRows # {} /\ fr[s].clean /\ fr[s].doCommit
       THEN Goto(s, "commit") /\ UNCHANGED <<fr, repo>>
       ELSE Leave(s)

-----------------------------------------------------------------------------
(* git_commit, git_commit_all.                                             *)

\* Mutant of ReadStatus: the working directory is committed, not the index.
ReadWorkdir(s) ==
  /\ IF StagedFiles # {}
       THEN /\ Keep(s, [fr[s] EXCEPT !.snap = workdir, !.staged = StagedFiles])
            /\ Goto(s, "heads")
            /\ UNCHANGED repo
       ELSE Leave(s)

\* git_status refreshes the handle's copy of the index.  That copy is what
\* R_git_commit_create writes as the tree: it reads the file no more.
ReadStatus(s) ==
  /\ IF StagedFiles # {}
       THEN /\ Keep(s, [fr[s] EXCEPT !.snap = index, !.staged = StagedFiles])
            /\ Goto(s, "heads")
            /\ UNCHANGED repo
       ELSE Leave(s)

CallCommit(s) == Start(s, "commit") /\ Room /\ StagedFiles # {} /\ ReadStatus(s)
CommitStatus(s) == pc[s] = "commit" /\ ReadStatus(s)

\* Mutant of CommitMergeHeads: the wrong state file is read.
ReadsOrigHead(s) ==
  /\ pc[s] = "heads"
  /\ Keep(s, [fr[s] EXCEPT !.mergeParent = IF mergeHead = 0 THEN 0
                                                            ELSE origHead])
  /\ Goto(s, "parents")
  /\ UNCHANGED repo

CommitMergeHeads(s) ==
  /\ pc[s] = "heads"
  /\ Keep(s, [fr[s] EXCEPT !.mergeParent = mergeHead])
  /\ Goto(s, "parents")
  /\ UNCHANGED repo

\* Mutant of CommitParents: the error of git_index_write_tree is lost.
ConflictsIgnored(s) ==
  /\ pc[s] = "parents"
  /\ Keep(s, [fr[s] EXCEPT !.old = Tip])
  /\ Goto(s, "create")
  /\ UNCHANGED repo

\* create_commit_list reads HEAD, git_index_write_tree refuses conflicts.
CommitParents(s) ==
  /\ pc[s] = "parents"
  /\ IF HasConflicts(fr[s].snap)
       THEN Leave(s)
       ELSE /\ Keep(s, [fr[s] EXCEPT !.old = Tip])
            /\ Goto(s, "create")
            /\ UNCHANGED repo

\* Mutant of ParentList: the loop over the merge heads runs once too often.
ParentTwice(f) ==
  CASE f.old = 0 -> <<>>
    [] f.old # 0 /\ f.mergeParent = 0 -> <<f.old>>
    [] OTHER -> <<f.old, f.mergeParent, f.mergeParent>>

\* Mutant of ParentList: the loop over the merge heads never runs.
FirstParentOnly(f) == IF f.old = 0 THEN <<>> ELSE <<f.old>>

\* An unborn HEAD gives no parents at all, whatever git_merge_parent_heads said.
ParentList(f) ==
  CASE f.old = 0 -> <<>>
    [] f.old # 0 /\ f.mergeParent = 0 -> <<f.old>>
    [] OTHER -> <<f.old, f.mergeParent>>

\* Mutant of CommitCreated: the commit is made without update_ref and the
\* branch is then set to it.
CommitUnchecked(s) ==
  /\ pc[s] = "create"
  /\ objs' = Append(objs, NewCommit(ParentList(fr[s]), fr[s].snap))
  /\ refs' = [refs EXCEPT ![head] = NewId]
  /\ UNCHANGED <<head, index, workdir, mergeHead, origHead>>
  /\ IF Len(ParentList(fr[s])) > 1
       THEN Goto(s, "finish") /\ UNCHANGED fr
       ELSE Return(s)

CommitCreated(s) ==
  /\ pc[s] = "create"
  /\ CommitCreate(ParentList(fr[s]), fr[s].snap)
  /\ UNCHANGED <<head, index, workdir, mergeHead, origHead>>
  /\ IF Len(ParentList(fr[s])) > 1
       THEN Goto(s, "finish") /\ UNCHANGED fr
       ELSE Return(s)

CommitRefused(s) ==
  /\ pc[s] = "create"
  /\ ~TipIsFirstParent(ParentList(fr[s]))
  /\ Leave(s)

\* Mutant of CommitFinish: the merging state is not left.
FinishKeepsState(s) ==
  /\ pc[s] = "finish"
  /\ Return(s)
  /\ UNCHANGED repo

CommitFinish(s) ==
  /\ pc[s] = "finish"
  /\ StateCleanup
  /\ Return(s)
  /\ UNCHANGED <<objs, refs, head, index, workdir>>

\* Mutant of Unstaged: conflicted rows are listed too.
UnstagedOrConflicted == {f \in Files : index[f] \notin {Absent, workdir[f]}}

\* git_commit_all lists the unstaged changes; conflicted paths are not listed.
Unstaged == {f \in Files : index[f] \notin {Absent, Conflict, workdir[f]}}

CallCommitAll(s) ==
  /\ Start(s, "commit_all") /\ Room
  /\ Keep(s, [NoFrame EXCEPT
       !.snap = index,
       !.modified = {f \in Unstaged : workdir[f] # Absent},
       !.deleted = {f \in Unstaged : workdir[f] = Absent}])
  /\ Goto(s, "allAdd")
  /\ UNCHANGED repo

\* git_add and git_rm on the handle that git_commit_all opened: they change
\* the copy of the index that git_status read and write all of it back.
WriteIndex(s, idx) ==
  /\ index' = idx
  /\ Keep(s, [fr[s] EXCEPT !.snap = idx])
  /\ UNCHANGED <<objs, refs, head, workdir, mergeHead, origHead>>

CommitAllAdd(s) ==
  /\ pc[s] = "allAdd"
  /\ IF fr[s].modified # {}
       THEN WriteIndex(s, [f \in Files |->
              IF f \in fr[s].modified THEN workdir[f] ELSE fr[s].snap[f]])
       ELSE UNCHANGED <<repo, fr>>
  /\ Goto(s, IF fr[s].modified # {} THEN "allStatus" ELSE "allRm")

\* git_add ends with a git_status, which reads the index again; that of git_rm
\* makes no difference, git_commit reads it once more.
CommitAllStatus(s) ==
  /\ pc[s] = "allStatus"
  /\ Keep(s, [fr[s] EXCEPT !.snap = index])
  /\ Goto(s, "allRm")
  /\ UNCHANGED repo

CommitAllRm(s) ==
  /\ pc[s] = "allRm"
  /\ IF fr[s].deleted # {}
       THEN WriteIndex(s, [f \in Files |->
              IF f \in fr[s].deleted THEN Absent ELSE fr[s].snap[f]])
       ELSE UNCHANGED <<repo, fr>>
  /\ Goto(s, "commit")

-----------------------------------------------------------------------------
(* git_merge_abort, git_reset_{soft,mixed,hard}.                           *)

CallAbort(s) ==
  /\ Start(s, "abort")
  /\ mergeHead # 0
  /\ Goto(s, "reset")
  /\ UNCHANGED <<repo, fr>>

\* git_reset_hard(ref = "HEAD"); libgit2 removes MERGE_HEAD as well.
AbortReset(s) ==
  /\ pc[s] = "reset"
  /\ IF Tip # 0
       THEN /\ CheckoutForce(HeadTree)
            /\ StateCleanup
            /\ Goto(s, "abortCleanup")
            /\ UNCHANGED <<objs, refs, head, fr>>
       ELSE Leave(s)

AbortCleanup(s) ==
  /\ pc[s] = "abortCleanup"
  /\ StateCleanup
  /\ Return(s)
  /\ UNCHANGED <<objs, refs, head, index, workdir>>

\* A reset is one libgit2 call.  A soft reset is refused in the middle of a
\* merge; a mixed reset is not, and leaves MERGE_HEAD behind.
SoftReset(c) ==
  /\ mergeHead = 0 /\ ~HasConflicts(index)
  /\ refs' = [refs EXCEPT ![head] = c]
  /\ UNCHANGED <<objs, head, index, workdir, mergeHead, origHead>>

MixedReset(c) ==
  /\ refs' = [refs EXCEPT ![head] = c]
  /\ index' = TreeOf(c)
  /\ UNCHANGED <<objs, head, workdir, mergeHead, origHead>>

HardReset(c) ==
  /\ CheckoutForce(TreeOf(c))
  /\ refs' = [refs EXCEPT ![head] = c]
  /\ StateCleanup
  /\ UNCHANGED <<objs, head>>

CallReset(s) ==
  \E b \in Branches :
    /\ refs[b] # 0
    /\ \/ Start(s, "soft") /\ SoftReset(refs[b])
       \/ Start(s, "mixed") /\ MixedReset(refs[b])
       \/ Start(s, "hard") /\ HardReset(refs[b])
    /\ UNCHANGED <<pc, fr>>

-----------------------------------------------------------------------------
(* git_branch_checkout, git_branch_create, git_branch_delete.              *)

\* The tree is checked out first and HEAD is switched by a second call.
CheckoutTree(s, b, force) ==
  /\ IF force THEN CheckoutForce(TreeOf(refs[b]))
              ELSE CheckoutSafeOk(TreeOf(refs[b])) /\ CheckoutSafe(TreeOf(refs[b]))
  /\ Goto(s, "setHead")
  /\ UNCHANGED <<objs, refs, head, mergeHead, origHead>>

CallCheckout(s) ==
  \E b \in Branches, force \in BOOLEAN :
    /\ Start(s, IF force THEN "force_checkout" ELSE "checkout")
    /\ refs[b] # 0
    /\ CheckoutTree(s, b, force)
    /\ Keep(s, [NoFrame EXCEPT !.ref = b])

\* git_branch_checkout(orphan = TRUE) on a name without a ref.  HEAD is switched
\* by a later call, which does not look whether there is such a branch by then.
CallOrphan(s) ==
  \E b \in Branches :
    /\ Start(s, "orphan")
    /\ refs[b] = 0
    /\ Keep(s, [NoFrame EXCEPT !.ref = b])
    /\ Goto(s, "setHead")
    /\ UNCHANGED repo

\* git_branch_create(branch, ref, checkout, force): the ref is made first.
\* libgit2 does not overwrite a branch without force, and never the one HEAD
\* names.
CallCreate(s) ==
  \E b, from \in Branches, checkout, force \in BOOLEAN :
    /\ Start(s, IF force THEN "force_create" ELSE "create")
    /\ refs[from] # 0
    /\ refs[b] # 0 => force /\ b # head
    /\ refs' = [refs EXCEPT ![b] = refs[from]]
    /\ IF checkout
         THEN /\ Keep(s, [NoFrame EXCEPT !.ref = b, !.force = force,
                                         !.new = refs[from]])
              /\ Goto(s, "branchTree")
         ELSE UNCHANGED <<pc, fr>>
    /\ UNCHANGED <<objs, head, index, workdir, mergeHead, origHead>>

CreateCheckout(s) ==
  /\ pc[s] = "branchTree"
  /\ LET target == TreeOf(fr[s].new) IN
     IF fr[s].force \/ CheckoutSafeOk(target)
       THEN /\ IF fr[s].force THEN CheckoutForce(target)
                              ELSE CheckoutSafe(target)
            /\ Goto(s, "setHead")
            /\ UNCHANGED <<objs, refs, head, mergeHead, origHead, fr>>
       ELSE Leave(s)

SetHead(s) ==
  /\ pc[s] = "setHead"
  /\ head' = fr[s].ref
  /\ Return(s)
  /\ UNCHANGED <<objs, refs, index, workdir, mergeHead, origHead>>

\* git_branch_delete refuses the branch HEAD names.
CallDelete(s) ==
  \E b \in Branches :
    /\ Start(s, "delete")
    /\ refs[b] # 0 /\ b # head
    /\ refs' = [refs EXCEPT ![b] = 0]
    /\ UNCHANGED <<objs, head, index, workdir, mergeHead, origHead, pc, fr>>

-----------------------------------------------------------------------------
(* git_add, git_rm, the user's editor, and a session that dies.            *)

\* Both read the index, change one entry of what they read and write all of it
\* back.  Adding a file that is gone stages its deletion; adding a conflicted
\* file resolves the conflict.
CallAdd(s) ==
  \E f \in Files :
    /\ Start(s, "add")
    /\ Keep(s, [NoFrame EXCEPT !.snap = [index EXCEPT ![f] = workdir[f]]])
    /\ Goto(s, "indexWrite")
    /\ UNCHANGED repo

CallRm(s) ==
  \E f \in Files :
    /\ Start(s, "rm")
    /\ Keep(s, [NoFrame EXCEPT !.snap = [index EXCEPT ![f] = Absent]])
    /\ Goto(s, "indexWrite")
    /\ UNCHANGED repo

IndexWrite(s) ==
  /\ pc[s] = "indexWrite"
  /\ index' = fr[s].snap
  /\ Return(s)
  /\ UNCHANGED <<objs, refs, head, workdir, mergeHead, origHead>>

Edit ==
  \E f \in Files, c \in EditContent :
    /\ "edit" \in Calls
    /\ workdir' = [workdir EXCEPT ![f] = c]
    /\ UNCHANGED <<objs, refs, head, index, mergeHead, origHead, pc, fr>>

Crash(s) ==
  /\ "crash" \in Calls
  /\ pc[s] # "idle"
  /\ Leave(s)

-----------------------------------------------------------------------------

\* The steps of a call that has been started.
Continue(s) ==
  \/ FastForwardAnalysis(s) \/ SetTargetCheckout(s) \/ SetTargetMove(s)
  \/ Stage(s) \/ StageCleanup(s) \/ MergeStatus(s)
  \/ CommitStatus(s) \/ CommitMergeHeads(s) \/ CommitParents(s)
  \/ CommitCreated(s) \/ CommitRefused(s) \/ CommitFinish(s)
  \/ CommitAllAdd(s) \/ CommitAllStatus(s) \/ CommitAllRm(s)
  \/ AbortReset(s) \/ AbortCleanup(s)
  \/ CreateCheckout(s) \/ SetHead(s) \/ IndexWrite(s)

Call(s) ==
  \/ CallMerge(s) \/ CallStageOnly(s) \/ CallFastForward(s)
  \/ CallCommit(s) \/ CallCommitAll(s)
  \/ CallAbort(s) \/ CallReset(s)
  \/ CallCheckout(s) \/ CallOrphan(s) \/ CallCreate(s) \/ CallDelete(s)
  \/ CallAdd(s) \/ CallRm(s)

Next ==
  \/ \E s \in Sessions : Call(s) \/ Continue(s) \/ Crash(s)
  \/ Edit

Spec == Init /\ [][Next]_vars

-----------------------------------------------------------------------------
(* Types and references.                                                   *)

\* The repository is well formed: the ancestor sets are right, and every
\* commit that a ref or a state file names is in the object database.
RepoOK ==
  /\ History(objs)
  /\ refs \in [Branches -> 0 .. Len(objs)]
  /\ head \in Branches
  /\ index \in Index
  /\ workdir \in Tree
  /\ mergeHead \in 0 .. Len(objs)
  /\ origHead \in 0 .. Len(objs)

FrameOK(f) ==
  /\ f \in Frame
  /\ f.old \in 0 .. Len(objs)
  /\ f.new \in 0 .. Len(objs)
  /\ f.mergeParent \in 0 .. Len(objs)
  /\ f.todo \subseteq Ids

\* The commits a running call holds exist, and the index it is about to
\* commit has no conflicts.
SessionsOK ==
  /\ pc \in [Sessions -> Labels]
  /\ fr \in [Sessions -> Frame]
  /\ \A s \in Sessions :
       /\ FrameOK(fr[s])
       /\ pc[s] \in {"create", "pickCreate"} => ~HasConflicts(fr[s].snap)

\* Every variable holds what the code can put there and names only commits
\* that exist.
TypeOK == RepoOK /\ SessionsOK

-----------------------------------------------------------------------------
(* Properties that hold whatever the sessions do.                          *)

\* A step that writes a commit object (create_commit_list and
\* git_commit_create in R_git_commit_create) never drops commits from a
\* branch: whoever moved the branch in the meantime, the branch's former tip
\* is an ancestor of the new commit.
CommitKeepsTip ==
  [][\A b \in Branches :
       /\ Len(objs') > Len(objs)
       /\ refs'[b] # refs[b]
       /\ refs[b] # 0
       => refs[b] \in objs'[refs'[b]].past]_vars

\* git_commit_all stages neither the markers of a conflicted merge nor the
\* conflict itself (conflicted rows are not in its lists): without git_add and
\* mixed resets, which resolve a conflict in the index and leave the markers in
\* the file, no commit contains them.
NoMarkersCommitted ==
  \A c \in Ids : \A f \in Files : TreeOf(c)[f] # Markers

\* A fast-forward, merge, checkout or branch creation without force never
\* replaces an uncommitted edit by what another commit has in that file.
\* (The forced checkout of a merge may still reset it to what HEAD has.)
EditsNotReplaced ==
  [][\A f \in Files :
       ~Edit /\ workdir'[f] # workdir[f]
       => workdir[f] = HeadTree[f] \/ workdir'[f] = HeadTree[f]]_vars

\* Whatever the sessions do, history changes by the moves of GertHistory: each
\* new commit goes on top of the branch HEAD names.
SharedHistory == INSTANCE GertHistory WITH Disciplined <- FALSE
SharedHistorySpec == SharedHistory!Spec

-----------------------------------------------------------------------------
(* Properties of one session working alone.                                *)

\* A commit changes, relative to its first parent, only files that git_status
\* reported as staged when git_commit checked it.
CommitsOnlyStaged ==
  [][\A s \in Sessions :
       pc[s] = "create" /\ pc'[s] # "create" /\ Len(objs') > Len(objs) =>
         \A f \in Files :
           f \notin fr[s].staged => objs'[Len(objs')].tree[f] = HeadTree[f]]_vars

\* The merge commit that git_merge or a later git_commit writes joins the
\* commit that was merged with the one it was merged into, and what git_merge
\* commits by itself, unless it squashes, is such a commit.
MergeJoinsItsSides ==
  [][\A s \in Sessions :
       pc[s] = "create" /\ pc'[s] # "create" /\ Len(objs') > Len(objs) =>
         LET parents == objs'[Len(objs')].parents IN
         /\ Len(parents) > 1 => parents = <<origHead, mergeHead>>
         /\ fr[s].op = "merge" /\ ~fr[s].squash => Len(parents) = 2]_vars

\* A merge commit's tree is the three-way merge of its parents: nothing of
\* either side is lost between staging the merge and committing it.
MergeTreeIsMerge ==
  \A c \in Ids : Len(objs[c].parents) = 2 =>
    LET p == objs[c].parents[1]
        q == objs[c].parents[2]
    IN objs[c].tree =
         MergeTrees(TreeOf(MergeBase(p, q)), TreeOf(p), TreeOf(q))

\* A clean merge with something to commit leaves the merging state again.
MergeConcludes ==
  (\E s \in Sessions :
     /\ pc[s] = "status"
     /\ fr[s].op = "merge" /\ fr[s].clean /\ fr[s].doCommit
     /\ StagedFiles # {})
    ~> mergeHead = 0

\* A session that works alone keeps the disciplined promise of GertHistory.
SerialHistory == INSTANCE GertHistory WITH Disciplined <- TRUE
SerialHistorySpec == SerialHistory!Spec

\* While a conflict is left in the index and no call is running, the
\* repository is merging and git_merge_abort can undo it.
ConflictsCanBeAborted ==
  Active = {} /\ HasConflicts(index) => mergeHead # 0

=============================================================================
