---------------------------- MODULE GertWorktree ----------------------------
(***************************************************************************)
(* Linked worktrees: the metadata under .git/worktrees, one entry for each *)
(* name, and the folders they stand for.  Folders belong to the user, who  *)
(* deletes, refills and disconnects them without telling git, so that what *)
(* an entry says and what is on the disk drift apart.                      *)
(*                                                                         *)
(* git_worktree_add checks the path in R and calls C later; lock, unlock   *)
(* and prune look the entry up and act on it by a second libgit2 call.     *)
(* Other sessions and the user act in between.                             *)
(***************************************************************************)

CONSTANTS
  Sessions, Names,
  Paths,      \* where a worktree may be put
  Drive,      \* the paths on a drive that is not always connected
  Branches,
  MainBranch, \* checked out in the main working tree
  None,       \* no entry, nothing at a path
  Foreign,    \* what the user puts at a path
  Half,       \* an entry without its files: git_worktree_add failed on it
  Asked,      \* the flags that git_worktree_prune is called with
  Calls       \* the functions and user actions of a run

AllFlags == {"valid", "locked", "working_tree"}

ASSUME WorktreeAssumption ==
  /\ Drive \subseteq Paths
  /\ MainBranch \in Branches
  /\ Asked \subseteq SUBSET AllFlags
  /\ None \notin {Half, Foreign}
  /\ Names \cap {None, Foreign} = {}
  /\ None \notin [path : Paths, branch : Branches, locked : BOOLEAN]

VARIABLES
  meta,      \* .git/worktrees/<name>
  disk,      \* what is at each path
  connected, \* whether the drive is
  branches,  \* refs/heads
  pc, fr     \* where a session's call is, and its arguments

vars == <<meta, disk, connected, branches, pc, fr>>

Entry == [path : Paths, branch : Branches, locked : BOOLEAN]

\* A worktree's folder names its entry in its .git file.
Content == {None, Foreign} \cup Names

\* What git_worktree_add was asked for, and what the other calls looked up.
Request == [name : Names, path : Paths, branch : Branches, lock : BOOLEAN]
Handle == [name : Names, path : Paths, flags : SUBSET AllFlags]

Init ==
  /\ meta = [n \in Names |-> None]
  /\ disk = [p \in Paths |-> None]
  /\ connected = TRUE
  /\ branches = Branches
  /\ pc = [s \in Sessions |-> "idle"]
  /\ fr = [s \in Sessions |-> None]

-----------------------------------------------------------------------------
(* What the calls that only look report.                                   *)

Reachable(p) == p \in Drive => connected
At(p) == IF Reachable(p) THEN disk[p] ELSE None
Linked(n) == meta[n] \notin {None, Half}

\* git_worktree_validate looks whether there is anything at the path, not
\* whose it is.
ValidAt(p) == At(p) # None
Valid(n) == Linked(n) /\ ValidAt(meta[n].path)
Locked(n) == Linked(n) /\ meta[n].locked

\* Mutant of Prunable: the two flags are exchanged.
PrunableExchanged(n, p, flags) ==
  /\ Locked(n) => "valid" \in flags
  /\ ValidAt(p) => "locked" \in flags

Prunable(n, p, flags) ==
  /\ Locked(n) => "locked" \in flags
  /\ ValidAt(p) => "valid" \in flags

\* Worktrees whose folder cannot be opened are passed over.
CheckedOut(b) ==
  \/ b = MainBranch
  \/ \E n, m \in Names :
       /\ Linked(n) /\ At(meta[n].path) = m
       /\ Linked(m) /\ meta[m].branch = b

-----------------------------------------------------------------------------

Start(s, name) == pc[s] = "idle" /\ name \in Calls
Goes(s, f, l) == fr' = [fr EXCEPT ![s] = f] /\ pc' = [pc EXCEPT ![s] = l]
Return(s) == Goes(s, None, "idle")
Disk == <<disk, connected, branches>>

\* git_worktree_add in R.
CallAdd(s) ==
  \E n \in Names, p \in Paths, b \in Branches, lock \in BOOLEAN :
    /\ Start(s, "add")
    /\ At(p) \in {None, Foreign}          \* dir.exists(path), not so for a file
    /\ Reachable(p)                         \* dir.exists(dirname(path))
    /\ b \in branches                       \* git_branch_lookup
    /\ Goes(s, [name |-> n, path |-> p, branch |-> b, lock |-> lock], "add")
    /\ UNCHANGED <<meta, Disk>>

\* Mutant of Addable: only the HEAD of the main working tree is looked at.
AddableAgain(f) == f.branch # MainBranch /\ meta[f.name] = None

\* git_worktree_add in libgit2 refuses a branch that is checked out and a
\* name that has an entry.
Addable(f) == ~CheckedOut(f.branch) /\ meta[f.name] = None

\* Mutant of EntryOf: git_worktree_add gets name and path in the wrong order.
EntrySwapped(f) == [path |-> f.name, branch |-> f.branch, locked |-> f.lock]

EntryOf(f) == [path |-> f.path, branch |-> f.branch, locked |-> f.lock]

\* The entry is made first, then the folder, then the branch is checked out;
\* a failure removes nothing of what was made.
Add(s) ==
  /\ pc[s] = "add"
  /\ LET f == fr[s]
         free == At(f.path) = None /\ Reachable(f.path) IN
     \/ ~Addable(f) /\ UNCHANGED <<meta, disk>>
     \/ /\ Addable(f) /\ ~free
        /\ meta' = [meta EXCEPT ![f.name] = Half] /\ UNCHANGED disk
     \/ /\ Addable(f) /\ free
        /\ meta' = [meta EXCEPT ![f.name] = EntryOf(f)]
        /\ disk' = [disk EXCEPT ![f.path] = f.name]
  /\ Return(s)
  /\ UNCHANGED <<connected, branches>>

\* opts.flags of git_worktree_prune.
Flags(asked) == asked

\* git_worktree_lookup, the first half of lock, unlock and prune.
Lookup(s, n, asked, l) ==
  /\ Linked(n)
  /\ Goes(s, [name |-> n, path |-> meta[n].path, flags |-> Flags(asked)], l)
  /\ UNCHANGED <<meta, Disk>>

CallLock(s) == Start(s, "lock") /\ \E n \in Names : Lookup(s, n, {}, "lock")

CallUnlock(s) ==
  Start(s, "unlock") /\ \E n \in Names : Lookup(s, n, {}, "unlock")

CallPrune(s) ==
  /\ Start(s, "prune")
  /\ \E n \in Names, asked \in Asked : Lookup(s, n, asked, "prune")

\* git_worktree_remove is a prune with every flag.
CallRemove(s) ==
  Start(s, "remove") /\ \E n \in Names : Lookup(s, n, AllFlags, "prune")

\* Locking twice is an error, unlocking what is not locked is none; neither
\* changes anything, nor does locking an entry that is gone.
SetLock(s) ==
  /\ pc[s] \in {"lock", "unlock"}
  /\ LET n == fr[s].name IN
     meta' = IF Linked(n) THEN [meta EXCEPT ![n].locked = (pc[s] = "lock")]
                          ELSE meta
  /\ Return(s)
  /\ UNCHANGED Disk

\* The folder goes when that was asked for and there is one with a .git.
PruneTree(f) ==
  "working_tree" \in f.flags /\ At(f.path) \notin {None, Foreign}

\* git_worktree_prune in libgit2 looks at lock and folder once more.
Prune(s) ==
  /\ pc[s] = "prune"
  /\ LET f == fr[s] IN
     IF Linked(f.name) /\ Prunable(f.name, f.path, f.flags)
       THEN /\ meta' = [meta EXCEPT ![f.name] = None]
            /\ disk' = IF PruneTree(f) THEN [disk EXCEPT ![f.path] = None]
                                       ELSE disk
       ELSE UNCHANGED <<meta, disk>>
  /\ Return(s)
  /\ UNCHANGED <<connected, branches>>

\* git_branch_delete keeps a branch that is checked out.
CallDelete(s) ==
  \E b \in Branches :
    /\ Start(s, "branch")
    /\ ~CheckedOut(b)
    /\ branches' = branches \ {b}
    /\ UNCHANGED <<meta, disk, connected, pc, fr>>

\* git_branch_create with checkout = FALSE.
CallCreate(s) ==
  \E b \in Branches \ branches :
    /\ Start(s, "branch")
    /\ branches' = branches \cup {b}
    /\ UNCHANGED <<meta, disk, connected, pc, fr>>

\* The user deletes what is at a path or puts something there, and plugs the
\* drive in or out.
UserAct ==
  \/ \E p \in Paths :
       /\ "user" \in Calls
       /\ Reachable(p)
       /\ disk' = [disk EXCEPT ![p] = IF @ = None THEN Foreign ELSE None]
       /\ UNCHANGED connected
  \/ "drive" \in Calls /\ connected' = ~connected /\ UNCHANGED disk

User == UserAct /\ UNCHANGED <<meta, branches, pc, fr>>

Continue(s) == Add(s) \/ SetLock(s) \/ Prune(s)

Call(s) ==
  \/ CallAdd(s) \/ CallLock(s) \/ CallUnlock(s)
  \/ CallPrune(s) \/ CallRemove(s) \/ CallDelete(s) \/ CallCreate(s)

Next == (\E s \in Sessions : Call(s) \/ Continue(s)) \/ User

Spec == Init /\ [][Next]_vars

-----------------------------------------------------------------------------

\* The variables hold what the calls and the user can put there.
TypeOK ==
  /\ meta \in [Names -> Entry \cup {None, Half}]
  /\ disk \in [Paths -> Content]
  /\ connected \in BOOLEAN
  /\ branches \subseteq Branches
  /\ pc \in [Sessions -> {"idle", "add", "lock", "unlock", "prune"}]
  /\ DOMAIN fr = Sessions
  /\ \A s \in Sessions :
       fr[s] \in CASE pc[s] = "idle" -> {None}
                   [] pc[s] = "add" -> Request
                   [] OTHER -> Handle

\* An entry and its folder belong together: what git does at the path of n is
\* done in the working tree of n.  A folder that was put there by somebody else
\* is valid all the same.
Usable(n) == Linked(n) /\ At(meta[n].path) = n

\* Two working trees never have the same branch checked out (a commit in one
\* would move the branch under the other), nor that of the main working tree,
\* however adds, removals and deletions interleave.  Folders on a drive that
\* comes back are the exception: git_worktree_add cannot see them.
OneBranchOneTree ==
  \A n \in Names : Usable(n) /\ meta[n].path \notin Drive =>
    /\ meta[n].branch # MainBranch
    /\ \A m \in Names \ {n} :
         Usable(m) /\ meta[m].path \notin Drive => meta[m].branch # meta[n].branch

\* git_worktree_prune refuses valid or locked worktrees and keeps the folder
\* unless it is told otherwise: an entry and a folder disappear only by a call
\* that asked for just that, also when the worktree was locked or its drive
\* connected after the call looked it up.
PruneIsCautious ==
  [][/\ \A n \in Names : Linked(n) /\ meta'[n] = None =>
          \E s \in Sessions :
            /\ pc[s] = "prune" /\ pc'[s] = "idle" /\ fr[s].name = n
            /\ Locked(n) => "locked" \in fr[s].flags
            /\ Usable(n) /\ meta[n].path = fr[s].path => "valid" \in fr[s].flags
     /\ \A p \in Paths : disk[p] # None /\ disk'[p] = None /\ ~User =>
          \E s \in Sessions :
            /\ pc[s] = "prune" /\ pc'[s] = "idle" /\ fr[s].path = p
            /\ "working_tree" \in fr[s].flags]_vars
=============================================================================
