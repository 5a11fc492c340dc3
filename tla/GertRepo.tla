------------------------------ MODULE GertRepo ------------------------------
(***************************************************************************)
(* The repository gert works on, as the files under .git and the working   *)
(* directory that every process sees, and the libgit2 primitives that the  *)
(* C glue calls on it.  libgit2 is not part of gert: its primitives are    *)
(* modelled from how src/src/*.c calls them, one operator per primitive.   *)
(*                                                                         *)
(* Data is abstract.  A tree maps each file to one of a few contents, and  *)
(* two changes to the same file always conflict: changes that git would    *)
(* merge line by line are changes to two files here.  A commit is a number *)
(* (its position in objs), 0 stands for "no commit".                       *)
(***************************************************************************)
EXTENDS Integers, Sequences, FiniteSets

CONSTANTS
  Files,       \* paths tracked in the repository
  Content,     \* file contents, including Absent and Markers
  Absent,      \* "the file does not exist"
  Markers,     \* a file with conflict markers left by a merge
  Conflict,    \* the stage 1-3 entries of a conflicted path in the index
  Branches,    \* local branch names
  MergeFF,     \* FALSE when git config merge.ff forbids fast-forwards
  MaxCommits,  \* bound: commit objects ever created
  InitRepos    \* the repositories a run starts from

ASSUME ContentAssumption ==
  /\ Absent \in Content
  /\ Markers \in Content \ {Absent}
  /\ Conflict \notin Content
  /\ MergeFF \in BOOLEAN
  /\ MaxCommits \in Nat

VARIABLES
  objs,      \* the commits in the object database
  refs,      \* refs/heads: the commit each branch points at, 0 if no such ref
  head,      \* the branch HEAD names; its ref may be missing (unborn HEAD)
  index,     \* .git/index
  workdir,   \* the working directory
  mergeHead, \* .git/MERGE_HEAD, 0 when the repository is not merging
  origHead   \* .git/ORIG_HEAD as git_merge writes it

repo == <<objs, refs, head, index, workdir, mergeHead, origHead>>

Tree == [Files -> Content]
Index == [Files -> Content \cup {Conflict}]
EmptyTree == [f \in Files |-> Absent]

(***************************************************************************)
(* A commit carries the set of its ancestors, itself included.  The set is *)
(* a function of the parents and never changes, so it stands for a walk    *)
(* of the parent links.                                                    *)
(***************************************************************************)
Commit == [parents : Seq(Nat), tree : Tree, past : SUBSET Nat]

\* A database in which parents are older commits and the ancestor sets are
\* those that the parent links define; ancestry is transitive.
WellFormed(db, c) ==
  /\ \A i \in DOMAIN db[c].parents : db[c].parents[i] \in 1 .. c - 1
  /\ db[c].past = {c} \cup UNION {db[db[c].parents[i]].past :
                                    i \in DOMAIN db[c].parents}
  /\ db[c].past \subseteq 1 .. c
  /\ \A d \in db[c].past : db[d].past \subseteq db[c].past

History(db) == db \in Seq(Commit) /\ \A c \in 1 .. Len(db) : WellFormed(db, c)

ASSUME InitReposAssumption ==
  \A r \in InitRepos :
    /\ History(r.objs)
    /\ r.refs \in [Branches -> 0 .. Len(r.objs)]
    /\ r.head \in Branches

Ids == 1 .. Len(objs)
Past(c) == IF c = 0 THEN {} ELSE objs[c].past
TreeOf(c) == IF c = 0 THEN EmptyTree ELSE objs[c].tree

\* The commit HEAD resolves to: git_repository_head, 0 for an unborn branch.
Tip == refs[head]
HeadTree == TreeOf(Tip)

(***************************************************************************)
(* InitRepos is a set of records [objs, refs, head]; a run starts with a   *)
(* clean checkout of one of them.                                          *)
(***************************************************************************)
RepoInit ==
  \E r \in InitRepos :
    /\ objs = r.objs
    /\ refs = r.refs
    /\ head = r.head
    /\ index = IF r.refs[r.head] = 0 THEN EmptyTree
                                     ELSE r.objs[r.refs[r.head]].tree
    /\ workdir = index
    /\ mergeHead = 0
    /\ origHead = 0

-----------------------------------------------------------------------------
(* Three-way merge of trees: git_merge_trees.                              *)

MergeFile(base, ours, theirs) ==
  CASE ours = theirs -> ours
    [] ours # theirs /\ base = ours -> theirs
    [] ours # theirs /\ base # ours /\ base = theirs -> ours
    [] OTHER -> Conflict

MergeTrees(base, ours, theirs) ==
  [f \in Files |-> MergeFile(base[f], ours[f], theirs[f])]

\* What checkout writes for a conflicted path: markers when both sides have
\* the file, the surviving side when the other deleted it.
ConflictFile(ours, theirs) ==
  CASE ours = Absent -> theirs
    [] theirs = Absent -> ours
    [] OTHER -> Markers

-----------------------------------------------------------------------------
(* git_merge_base: the youngest common ancestor, 0 for unrelated histories.*)

CommonPast(a, b) == Past(a) \cap Past(b)
YoungestCommon(a, b, c) ==
  c \in CommonPast(a, b) /\ \A d \in CommonPast(a, b) : d <= c
MergeBase(a, b) ==
  IF \E c \in Ids : YoungestCommon(a, b, c)
    THEN CHOOSE c \in Ids : YoungestCommon(a, b, c)
    ELSE 0

\* git_merge_analysis as analysis_to_str reports it.
Analysis(ours, theirs) ==
  CASE ours = 0 -> "fastforward"
    [] ours # 0 /\ theirs \in Past(ours) -> "up_to_date"
    [] /\ ours # 0 /\ theirs \notin Past(ours)
       /\ ours \in Past(theirs) /\ MergeFF -> "fastforward"
    [] OTHER -> "normal"

-----------------------------------------------------------------------------
(* Checkout of a tree over the one HEAD names: git_checkout_tree.          *)

\* GIT_CHECKOUT_SAFE leaves alone what both trees agree on and refuses when
\* any other file holds something that is in neither of them.
CheckoutSafeOk(target) ==
  /\ \A f \in Files : index[f] # Conflict
  /\ \A f \in Files :
       HeadTree[f] # target[f] => workdir[f] \in {HeadTree[f], target[f]}

CheckoutSafe(target) ==
  /\ index' = [f \in Files |-> IF HeadTree[f] = target[f] THEN index[f]
                                                          ELSE target[f]]
  /\ workdir' = [f \in Files |-> IF HeadTree[f] = target[f] THEN workdir[f]
                                                            ELSE target[f]]

\* Untracked files survive GIT_CHECKOUT_FORCE, everything else is overwritten.
Untracked(f) == index[f] = Absent /\ HeadTree[f] = Absent

CheckoutForce(target) ==
  /\ index' = target
  /\ workdir' = [f \in Files |->
       IF target[f] = Absent /\ Untracked(f) THEN workdir[f] ELSE target[f]]

-----------------------------------------------------------------------------
(* git_merge: write MERGE_HEAD, merge the trees, refuse when uncommitted   *)
(* changes are in the way, check the result out with FORCE.  On an error   *)
(* it removes MERGE_HEAD.                                                  *)

MergeResult(theirs) ==
  MergeTrees(TreeOf(MergeBase(Tip, theirs)), HeadTree, TreeOf(theirs))

\* Staged changes must equal the result, and no file the merge changes may
\* have unstaged changes.
MergeAllowed(new) ==
  /\ \A f \in Files : index[f] # HeadTree[f] =>
                        index[f] = new[f] /\ index[f] # Conflict
  /\ \A f \in Files : new[f] # HeadTree[f] => workdir[f] = index[f]

MergeCheckout(new, theirs) ==
  /\ index' = new
  /\ workdir' = [f \in Files |->
       CASE new[f] = Conflict -> ConflictFile(HeadTree[f], TreeOf(theirs)[f])
         [] new[f] = Absent /\ Untracked(f) -> workdir[f]
         [] OTHER -> new[f]]

HasConflicts(idx) == \E f \in Files : idx[f] = Conflict

\* git_repository_state_cleanup.
StateCleanup == mergeHead' = 0 /\ UNCHANGED origHead

-----------------------------------------------------------------------------
(* git_commit_create on HEAD: refused unless the first parent is the tip   *)
(* of the branch HEAD names now; otherwise the branch moves to the new     *)
(* commit.                                                                 *)

TipIsFirstParent(parents) ==
  Tip # 0 => Len(parents) > 0 /\ parents[1] = Tip

NewId == Len(objs) + 1

NewCommit(parents, tree) ==
  [parents |-> parents, tree |-> tree,
   past |-> {NewId} \cup UNION {Past(parents[i]) : i \in DOMAIN parents}]

CommitCreate(parents, tree) ==
  /\ TipIsFirstParent(parents)
  /\ objs' = Append(objs, NewCommit(parents, tree))
  /\ refs' = [refs EXCEPT ![head] = NewId]

-----------------------------------------------------------------------------
(* git_status: a row per file that differs between HEAD and the index or   *)
(* between the index and the working directory.                            *)

\* The staged rows; a conflicted path is reported as not staged.
StagedFiles ==
  {f \in Files : index[f] # HeadTree[f] /\ index[f] # Conflict}

StatusRows == StagedFiles \cup {f \in Files : index[f] # workdir[f]}

=============================================================================
