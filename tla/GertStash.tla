------------------------------ MODULE GertStash ------------------------------
(***************************************************************************)
(* The calls that move uncommitted work out of the way: git_stash_save,    *)
(* git_stash_pop, git_stash_drop, git_archive_zip, which stashes and pops  *)
(* around the zip, and git_restore, which throws changes away.  They work  *)
(* on the repository of GertMerge, next to its calls.                      *)
(*                                                                         *)
(* A stash call is one libgit2 call and so one step.  A call that fails    *)
(* before it changed anything is not a step.                               *)
(***************************************************************************)
EXTENDS GertMerge, SequencesExt

CONSTANT MaxStash \* bound on the number of entries

ASSUME StashAssumption == MaxStash \in Nat

VARIABLE stash    \* refs/stash and its reflog, newest entry first

stashVars == <<vars, stash>>

\* The tree of HEAD, the tracked and the untracked files at the time.
Entry == [base : Tree, work : Tree, extra : Tree]

StashInit == Init /\ stash = <<>>

History0 == <<objs, refs, head, mergeHead, origHead>>

-----------------------------------------------------------------------------
(* git_stash_save.                                                         *)

Dirty(untracked) ==
  \E f \in Files :
    IF Untracked(f) THEN untracked /\ workdir[f] # Absent
                    ELSE index[f] # HeadTree[f] \/ workdir[f] # index[f]

\* Mutant of Savable: conflicts are stashed as if they were files.
SavableAnyway(untracked) == Tip # 0 /\ Dirty(untracked)

\* Else git_stash_save fails, with GIT_ENOTFOUND when there is nothing to save.
Savable(untracked) == Tip # 0 /\ ~HasConflicts(index) /\ Dirty(untracked)

EntryOf(untracked) ==
  [base |-> HeadTree,
   work |-> [f \in Files |-> IF Untracked(f) THEN Absent ELSE workdir[f]],
   extra |-> [f \in Files |-> IF Untracked(f) /\ untracked THEN workdir[f]
                                                           ELSE Absent]]

\* The files go back to HEAD, or with keep_index to what is staged.
Save(keep, untracked) ==
  LET target == IF keep THEN index ELSE HeadTree IN
  /\ Savable(untracked) /\ Len(stash) < MaxStash
  /\ stash' = <<EntryOf(untracked)>> \o stash
  /\ index' = target
  /\ workdir' = [f \in Files |->
       IF Untracked(f) THEN IF untracked THEN Absent ELSE workdir[f]
                       ELSE target[f]]
  /\ UNCHANGED History0

CallStashSave(s) ==
  \E keep, untracked \in BOOLEAN :
    Start(s, "stash_save") /\ Save(keep, untracked) /\ UNCHANGED <<pc, fr>>

-----------------------------------------------------------------------------
(* git_stash_pop and git_stash_drop, by index.                             *)

\* Mutant of Merged: the entry and the commit it was made on are exchanged.
MergedBackwards(e) == MergeTrees(e.work, HeadTree, e.base)

Merged(e) == MergeTrees(e.base, HeadTree, e.work)

\* Mutant of Poppable: the checkout is forced.
PoppableAnyway(e) == Tip # 0 /\ index = HeadTree

\* Nothing may be staged, and no file to be written may have been changed.
Poppable(e) ==
  /\ Tip # 0 /\ index = HeadTree
  /\ \A f \in Files :
       /\ Merged(e)[f] # HeadTree[f] => workdir[f] \in {HeadTree[f], Merged(e)[f]}
       /\ e.extra[f] # Absent => workdir[f] = Absent /\ HeadTree[f] = Absent

\* The default options do not reinstate the index, so only new files are
\* staged; but when the changes conflict with HEAD, the merge is.
Unstash(e) ==
  LET new == Merged(e) IN
  /\ index' = [f \in Files |->
       IF HasConflicts(new) \/ (e.base[f] = Absent /\ HeadTree[f] = Absent)
         THEN new[f] ELSE index[f]]
  /\ workdir' = [f \in Files |->
       CASE new[f] = Conflict -> ConflictFile(HeadTree[f], e.work[f])
         [] new[f] \notin {Conflict, HeadTree[f]} -> new[f]
         [] e.extra[f] # Absent -> e.extra[f]
         [] OTHER -> workdir[f]]
  /\ UNCHANGED History0

Pop(i) ==
  /\ Poppable(stash[i])
  /\ Unstash(stash[i])
  /\ stash' = RemoveAt(stash, i)

CallStashPop(s) ==
  \E i \in DOMAIN stash : Start(s, "stash_pop") /\ Pop(i) /\ UNCHANGED <<pc, fr>>

CallStashDrop(s) ==
  \E i \in DOMAIN stash :
    /\ Start(s, "stash_drop")
    /\ stash' = RemoveAt(stash, i)
    /\ UNCHANGED vars

-----------------------------------------------------------------------------
(* git_archive_zip.                                                        *)

\* With changes to stash; without, it only reads.
CallArchive(s) ==
  /\ Start(s, "archive")
  /\ Save(FALSE, FALSE)
  /\ Keep(s, [NoFrame EXCEPT !.op = "archive", !.old = Tip, !.snap = workdir])
  /\ Goto(s, "unstash")

\* on.exit, after the files were zipped: entry 0, whose ever it is.  If it
\* cannot be popped the call ends with an error and leaves it.
ArchivePop(s) ==
  /\ pc[s] = "unstash"
  /\ \/ stash # <<>> /\ Pop(1)
     \/ (stash # <<>> => ~Poppable(stash[1])) /\ UNCHANGED <<repo, stash>>
  /\ Return(s)

-----------------------------------------------------------------------------
(* git_restore.                                                            *)

\* check_ref_in_history gives the commit, not the name, to what follows.
InHistory(c) == c \in Past(Tip)

\* After check_path_tracked; "." is every file.
CallRestore(s) ==
  \E b \in Branches, files \in (SUBSET {f \in Files : index[f] # Absent}) \cup {Files} :
    /\ Start(s, "restore")
    /\ files # {}
    /\ InHistory(refs[b])
    /\ Keep(s, [NoFrame EXCEPT !.new = refs[b], !.modified = files])
    /\ Goto(s, "restore")
    /\ UNCHANGED <<repo, stash>>

\* R_git_restore writes that commit, wherever its branch is by now; untracked
\* files stay.
RestoreFiles(s) ==
  /\ pc[s] = "restore"
  /\ LET target == TreeOf(fr[s].new)
         restored == {f \in fr[s].modified : target[f] # Absent \/ ~Untracked(f)} IN
       /\ index' = [f \in Files |-> IF f \in restored THEN target[f]
                                                      ELSE index[f]]
       /\ workdir' = [f \in Files |-> IF f \in restored THEN target[f]
                                                        ELSE workdir[f]]
  /\ Return(s)
  /\ UNCHANGED <<History0, stash>>

-----------------------------------------------------------------------------

StashStep(s) ==
  \/ CallStashSave(s) \/ CallStashPop(s) \/ CallStashDrop(s)
  \/ CallArchive(s) \/ ArchivePop(s)
  \/ CallRestore(s) \/ RestoreFiles(s)

StashNext ==
  \/ Next /\ UNCHANGED stash
  \/ \E s \in Sessions : StashStep(s)

StashSpec == StashInit /\ [][StashNext]_stashVars

-----------------------------------------------------------------------------

\* The repository is well formed and the stash holds what saves put there.
StashTypeOK ==
  /\ TypeOK
  /\ stash \in Seq(Entry) /\ Len(stash) <= MaxStash

\* What e changed is now in the files, in conflict, or what HEAD has anyway.
Arrives(e) ==
  \A f \in Files :
    /\ e.work[f] # e.base[f] =>
         e.work[f] \in {workdir'[f], HeadTree[f]} \/ index'[f] = Conflict
    /\ e.extra[f] # Absent => workdir'[f] = e.extra[f]

\* However saves, pops, archives, commits and edits of several sessions
\* interleave, and wherever a session dies, an uncommitted change that a stash
\* call takes out of a file is in the stash, and an entry that a pop or an
\* archive removes is in the files again, whoever saved it.
StashKeepsEdits ==
  [][stash' # stash =>
       /\ \A f \in Files :
            workdir[f] \notin {workdir'[f], HeadTree[f]} =>
              \E i \in DOMAIN stash' :
                workdir[f] \in {stash'[i].work[f], stash'[i].extra[f]}
       /\ Len(stash') < Len(stash) /\ <<index, workdir>>' # <<index, workdir>> =>
            \E i \in DOMAIN stash :
              stash' = RemoveAt(stash, i) /\ Arrives(stash[i])]_stashVars

\* The entry is the one that s saved when it started.
SavedBy(s, e) ==
  /\ e.base = TreeOf(fr[s].old)
  /\ \A f \in Files : e.work[f] = fr[s].snap[f] \/ (e.work[f] = Absent /\ e.base[f] = Absent)

\* git_archive_zip ends with every file as it found it, edits made during the
\* call aside, when it pops the entry it saved on the commit it saved it on:
\* deleted, staged and new files too.
ArchiveRestores ==
  [][\A s \in Sessions :
       /\ pc[s] = "unstash" /\ pc'[s] = "idle" /\ stash' # stash
       /\ Tip = fr[s].old /\ SavedBy(s, stash[1])
       => \A f \in Files :
            workdir[f] = HeadTree[f] /\ stash[1].work[f] # stash[1].base[f] =>
              workdir'[f] = fr[s].snap[f]]_stashVars
=============================================================================
