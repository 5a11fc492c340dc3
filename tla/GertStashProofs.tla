-------------------------- MODULE GertStashProofs --------------------------
(***************************************************************************)
(* Uncommitted work that is moved out of the way is never lost: what the   *)
(* stash calls and git_archive_zip promise for any number of sessions,     *)
(* files, contents and commits, next to every call of GertMerge.           *)
(***************************************************************************)
EXTENDS GertStash, GertMergeProofs, SequenceTheorems

USE DEF Ids, Tip

\* An entry as saves make them: what it holds of a file that was not tracked
\* is in extra alone.
WholeEntry ==
  {e \in Entry : \A f \in Files : e.extra[f] # Absent =>
                                    e.base[f] = Absent /\ e.work[f] = Absent}

StashInv == TypeOK /\ stash \in Seq(WholeEntry) /\ Len(stash) <= MaxStash

-----------------------------------------------------------------------------
(* The operators.                                                          *)

LEMMA CleanIndexType ==
  ASSUME NEW t \in Index, ~HasConflicts(t)
  PROVE  t \in Tree
  BY DEF HasConflicts, Index, Tree

LEMMA Removing ==
  ASSUME NEW S, NEW q \in Seq(S), NEW i \in DOMAIN q
  PROVE  RemoveAt(q, i) \in Seq(S) /\ Len(RemoveAt(q, i)) = Len(q) - 1
<1>1. Len(q) \in Nat /\ i \in 1 .. Len(q)
  OBVIOUS
<1>2. /\ SubSeq(q, 1, i - 1) \in Seq(S) /\ Len(SubSeq(q, 1, i - 1)) = i - 1
      /\ SubSeq(q, i + 1, Len(q)) \in Seq(S)
      /\ Len(SubSeq(q, i + 1, Len(q))) = Len(q) - i
  BY <1>1
<1>. DEFINE a == SubSeq(q, 1, i - 1)
            b == SubSeq(q, i + 1, Len(q))
<1>3. RemoveAt(q, i) = a \o b
  BY DEF RemoveAt
<1>. HIDE DEF a, b
<1>4. a \in Seq(S) /\ b \in Seq(S) /\ Len(a) = i - 1 /\ Len(b) = Len(q) - i
  BY <1>2 DEF a, b
<1>5. a \o b \in Seq(S) /\ Len(a \o b) = Len(a) + Len(b)
  BY <1>4, ConcatProperties
<1>. QED BY <1>1, <1>3, <1>4, <1>5

LEMMA EntryWhole ==
  ASSUME TypeOK, NEW untracked \in BOOLEAN
  PROVE  EntryOf(untracked) \in WholeEntry
<1>. DEFINE e == EntryOf(untracked)
<1>1. HeadTree \in Tree /\ workdir \in Tree
  BY HeadTreeType DEF TypeOK, RepoOK
<1>2. /\ e.base = HeadTree
      /\ e.work = [f \in Files |-> IF Untracked(f) THEN Absent ELSE workdir[f]]
      /\ e.extra = [f \in Files |-> IF Untracked(f) /\ untracked THEN workdir[f]
                                                              ELSE Absent]
      /\ e = [base |-> e.base, work |-> e.work, extra |-> e.extra]
  BY DEF EntryOf
<1>. HIDE DEF e
<1>3. e.work \in Tree /\ e.extra \in Tree
  BY <1>1, <1>2, ContentAssumption DEF Tree
<1>4. e \in Entry
  BY <1>1, <1>2, <1>3 DEF Entry
<1>. QED BY <1>2, <1>4 DEF WholeEntry, Untracked, e

\* What a save does: the files are of their types, every change it takes out
\* of a file is in the new entry, and the entries before it stay.
LEMMA Saving ==
  ASSUME StashInv, NEW keep \in BOOLEAN, NEW untracked \in BOOLEAN, Save(keep, untracked)
  PROVE  /\ UNCHANGED History0
         /\ index' \in Index /\ workdir' \in Tree
         /\ stash' \in Seq(WholeEntry) /\ Len(stash') <= MaxStash
         /\ Len(stash') = Len(stash) + 1
         /\ \A f \in Files : workdir'[f] # workdir[f] =>
              workdir[f] \in {stash'[1].work[f], stash'[1].extra[f]}
<1>. DEFINE target == IF keep THEN index ELSE HeadTree
            e == EntryOf(untracked)
<1>1. HeadTree \in Tree /\ workdir \in Tree /\ index \in Index /\ Len(stash) \in Nat
  BY HeadTreeType DEF StashInv, TypeOK, RepoOK
<1>2. target \in Tree
  BY <1>1, CleanIndexType DEF Save, Savable
<1>3. /\ UNCHANGED History0 /\ Len(stash) < MaxStash
      /\ stash' = <<e>> \o stash /\ index' = target
      /\ workdir' = [f \in Files |->
           IF Untracked(f) THEN IF untracked THEN Absent ELSE workdir[f]
                           ELSE target[f]]
  BY DEF Save
<1>. HIDE DEF target
<1>4. workdir' \in Tree /\ index' \in Index
  BY <1>1, <1>2, <1>3, ContentAssumption DEF Tree, Index
<1>5. e \in WholeEntry
  BY EntryWhole DEF StashInv
<1>6. \A f \in Files : workdir'[f] # workdir[f] => workdir[f] \in {e.work[f], e.extra[f]}
  BY <1>3 DEF EntryOf
<1>. HIDE DEF e
<1>7. /\ stash' \in Seq(WholeEntry) /\ Len(stash') = Len(stash) + 1 /\ stash'[1] = e
  <2>1. <<e>> \in Seq(WholeEntry) /\ Len(<<e>>) = 1 /\ <<e>>[1] = e
    BY <1>5
  <2>. QED BY <1>1, <1>3, <2>1 DEF StashInv
<1>. QED BY <1>1, <1>3, <1>4, <1>6, <1>7, StashAssumption

\* One file of a merge.
LEMMA MergedFile ==
  ASSUME NEW e \in WholeEntry, NEW f \in Files, TypeOK
  PROVE  LET o == HeadTree[f]
             new == Merged(e)[f] IN
         /\ o \in Content /\ e.work[f] \in Content /\ e.extra[f] \in Content
         /\ workdir[f] \in Content /\ new \in Content \cup {Conflict}
         /\ e.work[f] # e.base[f] => e.work[f] = o \/ new = e.work[f] \/ new = Conflict
         /\ e.work[f] # e.base[f] /\ e.base[f] = o => new = e.work[f]
         /\ e.base[f] = Absent /\ e.work[f] = Absent /\ o = Absent => new = o
<1>1. /\ HeadTree \in Tree /\ workdir \in Tree /\ e.base \in Tree /\ e.work \in Tree
      /\ e.extra \in Tree
  BY HeadTreeType DEF TypeOK, RepoOK, WholeEntry, Entry
<1>2. /\ HeadTree[f] \in Content /\ workdir[f] \in Content /\ e.base[f] \in Content
      /\ e.work[f] \in Content /\ e.extra[f] \in Content
  BY <1>1 DEF Tree
<1>3. Merged(e)[f] = MergeFile(e.base[f], HeadTree[f], e.work[f])
  BY DEF Merged, MergeTrees
<1>. QED BY <1>2, <1>3 DEF MergeFile

\* What popping an entry does: it takes no change out of a file, and what the
\* entry changed arrives.
LEMMA Popping ==
  ASSUME StashInv, NEW i \in DOMAIN stash, Pop(i)
  PROVE  /\ UNCHANGED History0
         /\ index' \in Index /\ workdir' \in Tree
         /\ stash' = RemoveAt(stash, i)
         /\ stash' \in Seq(WholeEntry) /\ Len(stash') <= MaxStash
         /\ \A f \in Files : workdir[f] \in {workdir'[f], HeadTree[f]}
         /\ Arrives(stash[i])
         /\ \A f \in Files :
              stash[i].base = HeadTree /\ stash[i].work[f] # stash[i].base[f] =>
                workdir'[f] = stash[i].work[f]
<1>. DEFINE e == stash[i]
            new == Merged(e)
<1>1. /\ TypeOK /\ index \in Index /\ workdir \in Tree /\ Len(stash) \in Nat
      /\ e \in WholeEntry /\ stash \in Seq(WholeEntry) /\ Len(stash) <= MaxStash
  BY DEF StashInv, TypeOK, RepoOK
<1>2. /\ Poppable(e) /\ UNCHANGED History0 /\ stash' = RemoveAt(stash, i)
      /\ index' = [f \in Files |->
           IF HasConflicts(new) \/ (e.base[f] = Absent /\ HeadTree[f] = Absent)
             THEN new[f] ELSE index[f]]
      /\ workdir' = [f \in Files |->
           CASE new[f] = Conflict -> ConflictFile(HeadTree[f], e.work[f])
             [] new[f] \notin {Conflict, HeadTree[f]} -> new[f]
             [] e.extra[f] # Absent -> e.extra[f]
             [] OTHER -> workdir[f]]
  BY DEF Pop, Unstash
<1>3. stash' \in Seq(WholeEntry) /\ Len(stash') <= MaxStash
  BY <1>1, <1>2, Removing, StashAssumption
<1>. DEFINE o(f) == HeadTree[f]
<1>4. ASSUME NEW f \in Files
      PROVE  /\ o(f) \in Content /\ e.work[f] \in Content /\ e.extra[f] \in Content
             /\ workdir[f] \in Content /\ new[f] \in Content \cup {Conflict}
             /\ e.work[f] # e.base[f] => e.work[f] = o(f) \/ new[f] = e.work[f] \/ new[f] = Conflict
             /\ e.work[f] # e.base[f] /\ e.base[f] = o(f) => new[f] = e.work[f]
             /\ e.base[f] = Absent /\ e.work[f] = Absent /\ o(f) = Absent => new[f] = o(f)
  <2>. HIDE DEF e
  <2>. QED BY <1>1, MergedFile
<1>5. ASSUME NEW f \in Files
      PROVE  /\ new[f] # o(f) => workdir[f] \in {o(f), new[f]}
             /\ e.extra[f] # Absent => /\ workdir[f] = Absent /\ o(f) = Absent
                                       /\ e.base[f] = Absent /\ e.work[f] = Absent
  BY <1>1, <1>2 DEF Poppable, WholeEntry
<1>. HIDE DEF e, new, o
<1>6. ASSUME NEW f \in Files
      PROVE  /\ index'[f] = IF HasConflicts(new) \/ (e.base[f] = Absent /\ o(f) = Absent)
                              THEN new[f] ELSE index[f]
             /\ new[f] = Conflict => workdir'[f] = ConflictFile(o(f), e.work[f])
             /\ new[f] # Conflict /\ new[f] # o(f) => workdir'[f] = new[f]
             /\ new[f] # Conflict /\ new[f] = o(f) /\ e.extra[f] # Absent =>
                  workdir'[f] = e.extra[f]
             /\ new[f] # Conflict /\ new[f] = o(f) /\ e.extra[f] = Absent =>
                  workdir'[f] = workdir[f]
  <2>1. index'[f] = IF HasConflicts(new) \/ (e.base[f] = Absent /\ o(f) = Absent)
                      THEN new[f] ELSE index[f]
    BY <1>2 DEF o
  <2>2. workdir'[f] = CASE new[f] = Conflict -> ConflictFile(o(f), e.work[f])
                        [] new[f] \notin {Conflict, o(f)} -> new[f]
                        [] e.extra[f] # Absent -> e.extra[f]
                        [] OTHER -> workdir[f]
    BY <1>2 DEF o
  <2>3. CASE new[f] = Conflict
    BY <1>4, <1>5, <2>1, <2>2, <2>3, ContentAssumption
  <2>4. CASE new[f] # Conflict /\ new[f] # o(f)
    <3>1. e.extra[f] = Absent \/ new[f] = o(f)
      BY <1>4, <1>5
    <3>. QED BY <2>1, <2>2, <2>4, <3>1
  <2>5. CASE new[f] # Conflict /\ new[f] = o(f)
    BY <2>1, <2>2, <2>5
  <2>. QED BY <2>3, <2>4, <2>5
<1>7. ASSUME NEW f \in Files
      PROVE  /\ index'[f] \in Content \cup {Conflict} /\ workdir'[f] \in Content
             /\ workdir[f] \in {workdir'[f], o(f)}
             /\ e.work[f] # e.base[f] =>
                  e.work[f] \in {workdir'[f], o(f)} \/ index'[f] = Conflict
             /\ e.extra[f] # Absent => workdir'[f] = e.extra[f]
             /\ e.work[f] # e.base[f] /\ e.base[f] = o(f) => workdir'[f] = e.work[f]
  <2>1. index[f] \in Content \cup {Conflict}
    BY <1>1 DEF Index
  <2>2. CASE new[f] = Conflict
    <3>1. HasConflicts(new) /\ Conflict \notin Content
      BY <2>2, ContentAssumption DEF HasConflicts
    <3>2. ConflictFile(o(f), e.work[f]) \in Content
      BY <1>4, ContentAssumption DEF ConflictFile
    <3>. QED BY <1>4, <1>5, <1>6, <2>2, <3>1, <3>2
  <2>3. CASE new[f] # Conflict /\ new[f] # o(f)
    BY <1>4, <1>5, <1>6, <2>1, <2>3, ContentAssumption
  <2>4. CASE new[f] # Conflict /\ new[f] = o(f)
    BY <1>4, <1>5, <1>6, <2>1, <2>4, ContentAssumption
  <2>. QED BY <2>2, <2>3, <2>4
<1>8. index' \in Index /\ workdir' \in Tree
  BY <1>2, <1>7 DEF Index, Tree
<1>9. Arrives(e)
  BY <1>7 DEF Arrives, o
<1>. QED BY <1>2, <1>3, <1>7, <1>8, <1>9 DEF e, o

-----------------------------------------------------------------------------
(* Types.                                                                  *)

\* A step that leaves commits, branches and state files alone.
LEMMA QuietRepo ==
  ASSUME TypeOK, UNCHANGED History0, index' \in Index, workdir' \in Tree
  PROVE  /\ RepoOK' /\ objs' = objs /\ Len(objs') \in Nat /\ Len(objs) <= Len(objs')
         /\ HeadTree' = HeadTree
  BY DEF TypeOK, RepoOK, History, History0, HeadTree, TreeOf

LEMMA OwnTypes ==
  ASSUME StashInv
  PROVE  /\ TypeOK /\ SessionsOK /\ RepoOK /\ Len(objs) \in Nat
         /\ index \in Index /\ workdir \in Tree
         /\ stash \in Seq(WholeEntry) /\ Len(stash) <= MaxStash
  BY DEF StashInv, TypeOK, RepoOK, History

LEMMA SaveStep ==
  ASSUME StashInv, NEW s \in Sessions, CallStashSave(s)
  PROVE  StashInv'
<1>1. PICK keep, untracked \in BOOLEAN : Save(keep, untracked) /\ UNCHANGED <<pc, fr>>
  BY DEF CallStashSave
<1>2. /\ UNCHANGED History0 /\ index' \in Index /\ workdir' \in Tree
      /\ stash' \in Seq(WholeEntry) /\ Len(stash') <= MaxStash
  BY <1>1, Saving
<1>3. RepoOK' /\ objs' = objs
  BY <1>2, OwnTypes, QuietRepo
<1>4. SessionsOK'
  BY <1>1, <1>3, OwnTypes DEF SessionsOK, FrameOK
<1>. QED BY <1>2, <1>3, <1>4 DEF StashInv, TypeOK

LEMMA PopStep ==
  ASSUME StashInv, NEW s \in Sessions, CallStashPop(s) \/ CallStashDrop(s)
  PROVE  StashInv'
<1>1. CASE CallStashPop(s)
  <2>1. PICK i \in DOMAIN stash : Pop(i) /\ UNCHANGED <<pc, fr>>
    BY <1>1 DEF CallStashPop
  <2>2. /\ UNCHANGED History0 /\ index' \in Index /\ workdir' \in Tree
        /\ stash' \in Seq(WholeEntry) /\ Len(stash') <= MaxStash
    BY <2>1, Popping
  <2>3. RepoOK' /\ objs' = objs
    BY <2>2, OwnTypes, QuietRepo
  <2>4. SessionsOK'
    BY <2>1, <2>3, OwnTypes DEF SessionsOK, FrameOK
  <2>. QED BY <2>2, <2>3, <2>4 DEF StashInv, TypeOK
<1>2. CASE CallStashDrop(s)
  <2>1. PICK i \in DOMAIN stash : stash' = RemoveAt(stash, i) /\ UNCHANGED vars
    BY <1>2 DEF CallStashDrop
  <2>2. stash' \in Seq(WholeEntry) /\ Len(stash') <= MaxStash
    BY <2>1, OwnTypes, Removing, StashAssumption
  <2>3. TypeOK'
    BY <2>1, OwnTypes, StepOK
  <2>. QED BY <2>2, <2>3 DEF StashInv
<1>. QED BY <1>1, <1>2

LEMMA ArchiveStep ==
  ASSUME StashInv, NEW s \in Sessions, CallArchive(s)
  PROVE  StashInv'
<1>. DEFINE f == [NoFrame EXCEPT !.op = "archive", !.old = Tip, !.snap = workdir]
<1>1. Save(FALSE, FALSE) /\ Keep(s, f) /\ Goto(s, "unstash")
  BY DEF CallArchive
<1>2. /\ UNCHANGED History0 /\ index' \in Index /\ workdir' \in Tree
      /\ stash' \in Seq(WholeEntry) /\ Len(stash') <= MaxStash
  BY <1>1, Saving
<1>3. RepoOK' /\ objs' = objs
  BY <1>2, OwnTypes, QuietRepo
<1>4. FrameOK(f)
  <2>1. FrameOK(NoFrame) /\ Tip \in 0 .. Len(objs) /\ Len(objs) \in Nat /\ workdir \in Index
    BY OwnTypes, NoFrameOK DEF RepoOK, Tree, Index
  <2>2. /\ f.old = Tip /\ f.new = NoFrame.new /\ f.mergeParent = NoFrame.mergeParent
        /\ f.todo = NoFrame.todo
    BY <2>1 DEF FrameOK, Frame
  <2>3. f \in Frame
    <3>1. NoFrame \in Frame /\ Tip \in Nat
      BY <2>1 DEF FrameOK
    <3>. HIDE DEF Tip
    <3>. QED BY <2>1, <3>1 DEF Frame
  <2>. QED BY <2>1, <2>2, <2>3 DEF FrameOK
<1>. HIDE DEF f
<1>5. SessionsOK'
  BY <1>1, <1>3, <1>4, OwnTypes, KeepStep DEF FrameOK, Labels
<1>. QED BY <1>2, <1>3, <1>5 DEF StashInv, TypeOK

LEMMA ArchivePopStep ==
  ASSUME StashInv, NEW s \in Sessions, ArchivePop(s)
  PROVE  StashInv'
<1>1. Return(s)
  BY DEF ArchivePop
<1>2. /\ UNCHANGED History0 /\ index' \in Index /\ workdir' \in Tree
      /\ stash' \in Seq(WholeEntry) /\ Len(stash') <= MaxStash
  <2>1. CASE stash # <<>> /\ Pop(1)
    <3>1. 1 \in DOMAIN stash
      BY <2>1, OwnTypes
    <3>. QED BY <2>1, <3>1, Popping
  <2>2. CASE UNCHANGED <<repo, stash>>
    BY <2>2, OwnTypes DEF repo, History0
  <2>. QED BY <2>1, <2>2 DEF ArchivePop
<1>3. /\ RepoOK' /\ Len(objs') \in Nat /\ Len(objs) <= Len(objs')
  BY <1>2, OwnTypes, QuietRepo
<1>4. SessionsOK'
  BY <1>1, <1>3, OwnTypes, ReturnStep
<1>. QED BY <1>2, <1>3, <1>4 DEF StashInv, TypeOK

LEMMA RestoreStep ==
  ASSUME StashInv, NEW s \in Sessions, CallRestore(s) \/ RestoreFiles(s)
  PROVE  StashInv' /\ UNCHANGED stash
<1>1. CASE CallRestore(s)
  <2>1. PICK b \in Branches, files \in (SUBSET {f \in Files : index[f] # Absent}) \cup {Files} :
          /\ Keep(s, [NoFrame EXCEPT !.new = refs[b], !.modified = files])
          /\ Goto(s, "restore") /\ UNCHANGED <<repo, stash>>
    BY <1>1 DEF CallRestore
  <2>. DEFINE f == [NoFrame EXCEPT !.new = refs[b], !.modified = files]
  <2>2. FrameOK(f)
    <3>1. /\ FrameOK(NoFrame) /\ files \in SUBSET Files
          /\ refs[b] \in 0 .. Len(objs) /\ refs[b] \in Nat
      BY OwnTypes, NoFrameOK DEF RepoOK
    <3>. QED BY <3>1 DEF FrameOK, Frame
  <2>3. RepoOK' /\ objs' = objs
    BY <2>1, OwnTypes, QuietRepo DEF repo, History0
  <2>4. Keep(s, f) /\ Goto(s, "restore")
    BY <2>1
  <2>. HIDE DEF f
  <2>5. SessionsOK'
    BY <2>2, <2>3, <2>4, OwnTypes, KeepStep DEF FrameOK, Labels
  <2>. QED BY <2>1, <2>3, <2>5, OwnTypes DEF StashInv, TypeOK
<1>2. CASE RestoreFiles(s)
  <2>. DEFINE target == TreeOf(fr[s].new)
  <2>1. /\ Return(s) /\ UNCHANGED <<History0, stash>>
    BY <1>2 DEF RestoreFiles
  <2>2. target \in Tree
    <3>1. fr[s].new \in 0 .. Len(objs) /\ History(objs)
      BY OwnTypes DEF RepoOK, SessionsOK, FrameOK
    <3>. QED BY <3>1, TreeType
  <2>. HIDE DEF target
  <2>3. index' \in Index /\ workdir' \in Tree
    BY <1>2, <2>2, OwnTypes DEF RestoreFiles, Index, Tree, target
  <2>4. RepoOK' /\ Len(objs') \in Nat /\ Len(objs) <= Len(objs')
    BY <2>1, <2>3, OwnTypes, QuietRepo
  <2>5. SessionsOK'
    BY <2>1, <2>4, OwnTypes, ReturnStep
  <2>. QED BY <2>1, <2>4, <2>5, OwnTypes DEF StashInv, TypeOK
<1>. QED BY <1>1, <1>2

LEMMA StashInvStep ==
  ASSUME StashInv, [StashNext]_stashVars
  PROVE  StashInv'
<1>1. CASE [Next]_vars /\ UNCHANGED stash
  <2>1. TypeOK'
    BY <1>1, OwnTypes, StepOK
  <2>. QED BY <1>1, <2>1, OwnTypes DEF StashInv
<1>2. ASSUME NEW s \in Sessions, StashStep(s)
      PROVE  StashInv'
  BY <1>2, SaveStep, PopStep, ArchiveStep, ArchivePopStep, RestoreStep DEF StashStep
<1>. QED BY <1>1, <1>2 DEF StashNext, stashVars

LEMMA StashInvariant == StashSpec => []StashInv
<1>1. StashInit => StashInv
  BY InitOK, StashAssumption DEF StashInit, StashInv
<1>2. StashInv /\ [StashNext]_stashVars => StashInv'
  BY StashInvStep
<1>. QED BY <1>1, <1>2, PTL DEF StashSpec

\* The repository stays well formed and the stash a list of whole entries.
THEOREM StashTypeCorrect == StashSpec => []StashTypeOK
<1>1. StashInv => StashTypeOK
  <2>1. WholeEntry \subseteq Entry
    BY DEF WholeEntry
  <2>. QED BY <2>1 DEF StashInv, StashTypeOK
<1>. QED BY <1>1, StashInvariant, PTL

-----------------------------------------------------------------------------
(* No edit is lost.                                                        *)

\* What the stash calls may do to uncommitted work in one step.
EditsSafe ==
  stash' # stash =>
    /\ \A f \in Files :
         workdir[f] \notin {workdir'[f], HeadTree[f]} =>
           \E i \in DOMAIN stash' :
             workdir[f] \in {stash'[i].work[f], stash'[i].extra[f]}
    /\ Len(stash') < Len(stash) /\ <<index, workdir>>' # <<index, workdir>> =>
         \E i \in DOMAIN stash :
           stash' = RemoveAt(stash, i) /\ Arrives(stash[i])

LEMMA SaveSafe ==
  ASSUME StashInv, NEW keep \in BOOLEAN, NEW untracked \in BOOLEAN, Save(keep, untracked)
  PROVE  EditsSafe
<1>1. /\ Len(stash') = Len(stash) + 1 /\ Len(stash) \in Nat
      /\ stash' \in Seq(WholeEntry)
      /\ \A f \in Files : workdir'[f] # workdir[f] =>
           workdir[f] \in {stash'[1].work[f], stash'[1].extra[f]}
  BY Saving, OwnTypes
<1>2. 1 \in DOMAIN stash' /\ ~(Len(stash') < Len(stash))
  BY <1>1
<1>. QED BY <1>1, <1>2 DEF EditsSafe

LEMMA PopSafe ==
  ASSUME StashInv, NEW i \in DOMAIN stash, Pop(i)
  PROVE  EditsSafe
<1>1. /\ stash' = RemoveAt(stash, i) /\ Arrives(stash[i])
      /\ \A f \in Files : workdir[f] \in {workdir'[f], HeadTree[f]}
  BY Popping
<1>. QED BY <1>1 DEF EditsSafe

LEMMA StepSafe ==
  ASSUME StashInv, [StashNext]_stashVars
  PROVE  EditsSafe
<1>1. CASE UNCHANGED stash
  BY <1>1 DEF EditsSafe
<1>2. ASSUME NEW s \in Sessions, StashStep(s)
      PROVE  EditsSafe
  <2>1. CASE CallStashSave(s) \/ CallArchive(s)
    BY <2>1, SaveSafe DEF CallStashSave, CallArchive
  <2>2. CASE CallStashPop(s)
    BY <2>2, PopSafe DEF CallStashPop
  <2>3. CASE CallStashDrop(s)
    BY <2>3 DEF CallStashDrop, EditsSafe, vars, repo
  <2>4. CASE ArchivePop(s)
    <3>1. CASE stash # <<>> /\ Pop(1)
      <4>1. 1 \in DOMAIN stash
        BY <3>1, OwnTypes
      <4>. QED BY <3>1, <4>1, PopSafe
    <3>. QED BY <2>4, <3>1, <1>1 DEF ArchivePop
  <2>5. CASE CallRestore(s) \/ RestoreFiles(s)
    BY <2>5, <1>1, RestoreStep
  <2>. QED BY <1>2, <2>1, <2>2, <2>3, <2>4, <2>5 DEF StashStep
<1>. QED BY <1>1, <1>2 DEF StashNext, stashVars

\* An uncommitted change that a stash call or git_archive_zip takes out of a
\* file is in the stash, and an entry that a pop or git_archive_zip removes is
\* in the files again, whoever saved it and whatever the files hold by then.
THEOREM StashIsSafe == StashSpec => StashKeepsEdits
<1>1. StashInv /\ [StashNext]_stashVars => [EditsSafe]_stashVars
  BY StepSafe
<1>2. StashSpec => [][EditsSafe]_stashVars
  BY <1>1, StashInvariant, PTL DEF StashSpec
<1>. QED BY <1>2 DEF StashKeepsEdits, EditsSafe

\* The step that ends git_archive_zip and pops an entry.
LEMMA ArchiveEnds ==
  ASSUME StashInv, [StashNext]_stashVars, NEW s \in Sessions,
         pc[s] = "unstash", pc'[s] = "idle", stash' # stash
  PROVE  1 \in DOMAIN stash /\ Pop(1)
<1>1. PICK t \in Sessions : StashStep(t)
  BY DEF StashNext, stashVars
<1>2. pc \in [Sessions -> Labels]
  BY OwnTypes DEF SessionsOK
<1>3. pc'[s] # pc[s]
  OBVIOUS
<1>4. ~CallRestore(t) /\ ~RestoreFiles(t)
  BY RestoreStep
<1>5. ~CallStashSave(t) /\ ~CallStashPop(t) /\ ~CallStashDrop(t)
  BY <1>3 DEF CallStashSave, CallStashPop, CallStashDrop, vars
<1>6. ~CallArchive(t)
  BY <1>2, <1>3 DEF CallArchive, Start, Goto
<1>7. ArchivePop(t)
  BY <1>1, <1>4, <1>5, <1>6 DEF StashStep
<1>. QED BY <1>7, OwnTypes DEF ArchivePop

\* git_archive_zip ends with every file as it found it when it pops what it
\* saved on the commit it saved it on.
THEOREM ArchiveIsHarmless == StashSpec => ArchiveRestores
<1>. DEFINE A ==
       \A s \in Sessions :
         /\ pc[s] = "unstash" /\ pc'[s] = "idle" /\ stash' # stash
         /\ Tip = fr[s].old /\ SavedBy(s, stash[1])
         => \A f \in Files :
              workdir[f] = HeadTree[f] /\ stash[1].work[f] # stash[1].base[f] =>
                workdir'[f] = fr[s].snap[f]
<1>1. ASSUME StashInv, [StashNext]_stashVars
      PROVE  A
  <2>. SUFFICES ASSUME NEW s \in Sessions,
                       pc[s] = "unstash", pc'[s] = "idle", stash' # stash,
                       Tip = fr[s].old, SavedBy(s, stash[1]), NEW f \in Files,
                       stash[1].work[f] # stash[1].base[f]
                PROVE  workdir'[f] = fr[s].snap[f]
    OBVIOUS
  <2>1. 1 \in DOMAIN stash /\ Pop(1)
    BY <1>1, ArchiveEnds
  <2>2. stash[1].base = HeadTree
    BY DEF SavedBy, HeadTree
  <2>3. workdir'[f] = stash[1].work[f]
    BY <1>1, <2>1, <2>2, Popping
  <2>. QED BY <2>3 DEF SavedBy
<1>2. StashInv /\ [StashNext]_stashVars => [A]_stashVars
  BY <1>1
<1>3. StashSpec => [][A]_stashVars
  BY <1>2, StashInvariant, PTL DEF StashSpec
<1>. QED BY <1>3 DEF ArchiveRestores
=============================================================================
