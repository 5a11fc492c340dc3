-------------------------- MODULE GertMergeProofs --------------------------
(***************************************************************************)
(* What holds for any number of sessions, files, contents, branches and    *)
(* commits, and for every selection of calls: every reference is to a      *)
(* commit that exists, history and uncommitted edits are safe from         *)
(* concurrent sessions, and every step is a move of GertHistory.           *)
(***************************************************************************)
EXTENDS GertMerge, TLAPS

USE DEF Ids, Tip

(***************************************************************************)
(* Facts about the repository operators.                                   *)
(***************************************************************************)

\* The tree of an existing commit, or the empty tree, is a tree.
LEMMA TreeType ==
  ASSUME History(objs), NEW c \in 0 .. Len(objs)
  PROVE  TreeOf(c) \in Tree
<1>1. EmptyTree \in Tree
  BY ContentAssumption DEF Tree, EmptyTree
<1>2. ASSUME c # 0 PROVE objs[c] \in Commit
  BY <1>2 DEF History
<1>3. QED
  BY <1>1, <1>2 DEF TreeOf, Commit

\* A merge puts contents and conflict entries into the index.
LEMMA MergeType ==
  ASSUME NEW b \in Tree, NEW o \in Tree, NEW t \in Tree
  PROVE  MergeTrees(b, o, t) \in Index
BY DEF MergeTrees, MergeFile, Tree, Index

\* The merge base is an existing commit or 0.
LEMMA BaseExists ==
  ASSUME History(objs), NEW a \in 0 .. Len(objs), NEW b \in 0 .. Len(objs)
  PROVE  MergeBase(a, b) \in 0 .. Len(objs)
BY DEF MergeBase

\* HEAD's tree is a tree.
LEMMA HeadTreeType ==
  ASSUME RepoOK
  PROVE  HeadTree \in Tree
<1>1. Tip \in 0 .. Len(objs)
  BY DEF RepoOK
<1>2. QED
  BY <1>1, TreeType DEF RepoOK, HeadTree

\* Checking out an existing commit leaves an index and a working directory.
LEMMA CheckoutType ==
  ASSUME RepoOK, NEW t \in Tree,
         CheckoutSafe(t) \/ CheckoutForce(t)
  PROVE  index' \in Index /\ workdir' \in Tree
<1>1. HeadTree \in Tree
  BY HeadTreeType
<1>2. index \in Index /\ workdir \in Tree
  BY DEF RepoOK
<1>3. CASE CheckoutSafe(t)
  BY <1>1, <1>2, <1>3 DEF CheckoutSafe, Index, Tree
<1>4. CASE CheckoutForce(t)
  BY <1>1, <1>2, <1>4 DEF CheckoutForce, Index, Tree
<1>5. QED
  BY <1>3, <1>4

\* Every commit is in its own past, which is made of existing commits and is
\* closed under ancestry.
LEMMA PastFacts ==
  ASSUME History(objs), NEW c \in Ids
  PROVE  /\ c \in objs[c].past
         /\ objs[c].past \subseteq Ids
         /\ \A d \in objs[c].past : objs[d].past \subseteq objs[c].past
<1>1. Len(objs) \in Nat /\ WellFormed(objs, c)
  BY DEF History
<1>2. objs[c].past \subseteq Ids
  <2>1. objs[c].past \subseteq 1 .. c
    BY <1>1, Zenon DEF WellFormed
  <2>2. QED
    BY <1>1, <2>1
<1>3. c \in objs[c].past
  BY <1>1, Zenon DEF WellFormed
<1>4. \A d \in objs[c].past : objs[d].past \subseteq objs[c].past
  BY <1>1, Zenon DEF WellFormed
<1>5. QED
  BY <1>2, <1>3, <1>4

\* A new commit on existing parents keeps the database well formed.
LEMMA AppendHistory ==
  ASSUME History(objs), NEW t \in Tree,
         NEW ps \in Seq(1 .. Len(objs)),
         objs' = Append(objs, NewCommit(ps, t))
  PROVE  /\ History(objs')
         /\ Len(objs') = Len(objs) + 1
         /\ \A c \in Ids : objs'[c] = objs[c]
         /\ objs'[Len(objs) + 1] = NewCommit(ps, t)
<1> DEFINE n == Len(objs) + 1
           new == NewCommit(ps, t)
<1>1. Len(objs) \in Nat /\ objs \in Seq(Commit)
  BY DEF History
<1>2. \A i \in DOMAIN ps : ps[i] \in Ids /\ Past(ps[i]) = objs[ps[i]].past
  BY <1>1 DEF Past
<1>3. \A c \in Ids : WellFormed(objs, c)
  BY DEF History
<1>4. /\ new.parents = ps
      /\ new.past = {n} \cup UNION {objs[ps[i]].past : i \in DOMAIN ps}
  BY <1>2 DEF NewCommit, NewId
<1>5. new.past \subseteq 1 .. n
  BY <1>1, <1>2, <1>3, <1>4 DEF WellFormed
<1>6. new \in Commit
  <2>1. ps \in Seq(Nat)
    BY <1>1
  <2>2. new = [parents |-> ps, tree |-> t, past |-> new.past]
    BY DEF NewCommit
  <2>3. new.past \in SUBSET Nat
    BY <1>1, <1>5
  <2>4. QED
    BY <2>1, <2>2, <2>3 DEF Commit
<1>7. /\ objs' \in Seq(Commit)
      /\ Len(objs') = n
      /\ \A c \in Ids : objs'[c] = objs[c]
      /\ objs'[n] = new
  BY <1>1, <1>6
<1> HIDE DEF new
<1>8. WellFormed(objs', n)
  <2>1. \A i \in DOMAIN ps : ps[i] \in 1 .. n - 1 /\ objs'[ps[i]] = objs[ps[i]]
    BY <1>1, <1>2, <1>7
  <2>2. new.past = {n} \cup UNION {objs'[ps[i]].past : i \in DOMAIN ps}
    BY <1>4, <2>1
  <2>3. ASSUME NEW d \in new.past
        PROVE  objs'[d].past \subseteq new.past
    <3>1. CASE d = n
      BY <3>1, <1>7
    <3>2. CASE d # n
      <4>1. PICK i \in DOMAIN ps : d \in objs[ps[i]].past
        BY <3>2, <1>4
      <4>2. ps[i] \in Ids
        BY <1>2
      <4>3. d \in Ids /\ objs[d].past \subseteq objs[ps[i]].past
        BY <4>1, <4>2, PastFacts
      <4>4. objs'[d] = objs[d]
        BY <4>3, <1>7
      <4>5. QED
        BY <4>3, <4>4, <1>4
    <3>3. QED
      BY <3>1, <3>2
  <2>4. /\ objs'[n].parents = ps
        /\ objs'[n].past = new.past
    BY <1>4, <1>7
  <2>5. \A i \in DOMAIN ps : ps[i] \in 1 .. n - 1
    BY <2>1
  <2>6. QED
    BY <1>5, <2>2, <2>3, <2>4, <2>5, Zenon DEF WellFormed
<1>9. ASSUME NEW c \in Ids
      PROVE  WellFormed(objs', c)
  <2>1. WellFormed(objs, c) /\ objs'[c] = objs[c]
    BY <1>3, <1>7
  <2>2. \A i \in DOMAIN objs[c].parents : objs[c].parents[i] \in 1 .. c - 1
    BY <2>1, Zenon DEF WellFormed
  <2>3. \A i \in DOMAIN objs[c].parents :
          objs'[objs[c].parents[i]] = objs[objs[c].parents[i]]
    BY <1>1, <1>7, <2>2
  <2>4. \A d \in objs[c].past : objs'[d] = objs[d]
    BY <1>7, PastFacts
  <2>5. {objs'[objs[c].parents[i]].past : i \in DOMAIN objs[c].parents}
          = {objs[objs[c].parents[i]].past : i \in DOMAIN objs[c].parents}
    BY <2>3
  <2>6. objs[c].past = {c} \cup UNION {objs[objs[c].parents[i]].past :
                                        i \in DOMAIN objs[c].parents}
    BY <2>1, Zenon DEF WellFormed
  <2>7. objs[c].past \subseteq 1 .. c
    BY <2>1, Zenon DEF WellFormed
  <2>8. \A d \in objs[c].past : objs'[d].past \subseteq objs[c].past
    BY <2>4, PastFacts
  <2>9. objs[c].past = {c} \cup UNION {objs'[objs[c].parents[i]].past :
                                        i \in DOMAIN objs[c].parents}
    BY <2>5, <2>6
  <2>10. /\ objs'[c].parents = objs[c].parents
         /\ objs'[c].past = objs[c].past
    BY <2>1
  <2>11. /\ \A i \in DOMAIN objs'[c].parents : objs'[c].parents[i] \in 1 .. c - 1
         /\ objs'[c].past \subseteq 1 .. c
         /\ \A d \in objs'[c].past : objs'[d].past \subseteq objs'[c].past
    BY <2>2, <2>7, <2>8, <2>10
  <2>12. objs'[c].past = {c} \cup UNION {objs'[objs'[c].parents[i]].past :
                                          i \in DOMAIN objs'[c].parents}
    BY <2>9, <2>10
  <2>13. QED
    BY <2>11, <2>12, Zenon DEF WellFormed
<1>10. \A c \in 1 .. Len(objs') : WellFormed(objs', c)
  BY <1>1, <1>7, <1>8, <1>9
<1>11. QED
  BY <1>7, <1>10 DEF History, new

(***************************************************************************)
(* Facts about sessions.                                                   *)
(***************************************************************************)

\* The frame of an idle session.
LEMMA NoFrameOK ==
  ASSUME Len(objs) \in Nat
  PROVE  FrameOK(NoFrame)
<1>1. EmptyTree \in Index
  BY ContentAssumption DEF EmptyTree, Index
<1>2. QED
  BY <1>1, SessionAssumption DEF FrameOK, Frame, NoFrame

\* A step of one session that puts a good frame in place.
LEMMA SessionStep ==
  ASSUME SessionsOK, NEW s \in Sessions, NEW l \in Labels, NEW f \in Frame,
         f.old \in 0 .. Len(objs'), f.new \in 0 .. Len(objs'),
         f.mergeParent \in 0 .. Len(objs'), f.todo \subseteq 1 .. Len(objs'),
         Len(objs) \in Nat, Len(objs') \in Nat, Len(objs) <= Len(objs'),
         l \in {"create", "pickCreate"} => ~HasConflicts(f.snap),
         pc' = [pc EXCEPT ![s] = l], fr' = [fr EXCEPT ![s] = f]
  PROVE  SessionsOK'
<1>1. /\ pc' \in [Sessions -> Labels]
      /\ fr' \in [Sessions -> Frame]
  BY DEF SessionsOK
<1>2. ASSUME NEW t \in Sessions
      PROVE  FrameOK(fr[t])' /\ (pc'[t] \in {"create", "pickCreate"} => ~HasConflicts(fr'[t].snap))
  <2>1. CASE t = s
    BY <2>1 DEF SessionsOK, FrameOK
  <2>2. CASE t # s
    BY <2>2 DEF SessionsOK, FrameOK
  <2>3. QED
    BY <2>1, <2>2
<1>3. QED
  BY <1>1, <1>2 DEF SessionsOK

\* Frames differ from NoFrame or from the session's frame in a few fields.
LEMMA ReturnStep ==
  ASSUME TypeOK, NEW s \in Sessions, Return(s), Len(objs') \in Nat,
         Len(objs) <= Len(objs')
  PROVE  SessionsOK'
<1>1. Len(objs) \in Nat
  BY DEF TypeOK, RepoOK, History
<1>2. FrameOK(NoFrame)
  BY <1>1, NoFrameOK
<1>3. /\ NoFrame \in Frame
      /\ NoFrame.old \in 0 .. Len(objs')
      /\ NoFrame.new \in 0 .. Len(objs')
      /\ NoFrame.mergeParent \in 0 .. Len(objs')
      /\ NoFrame.todo \subseteq 1 .. Len(objs')
  BY <1>2, <1>1 DEF FrameOK
<1>4. "idle" \in Labels
  BY DEF Labels
<1>5. /\ pc' = [pc EXCEPT ![s] = "idle"]
      /\ fr' = [fr EXCEPT ![s] = NoFrame]
  BY DEF Return, Goto, Keep
<1>6. QED
  BY <1>1, <1>3, <1>4, <1>5, SessionStep DEF TypeOK

\* A step that moves a session on without touching its frame.
LEMMA GotoStep ==
  ASSUME TypeOK, NEW s \in Sessions, NEW l \in Labels, Goto(s, l),
         l \notin {"create", "pickCreate"}, UNCHANGED fr, Len(objs') \in Nat,
         Len(objs) <= Len(objs')
  PROVE  SessionsOK'
<1>1. Len(objs) \in Nat /\ SessionsOK
  BY DEF TypeOK, RepoOK, History
<1>2. fr' = [fr EXCEPT ![s] = fr[s]]
  BY <1>1 DEF SessionsOK
<1>3. /\ fr[s] \in Frame
      /\ fr[s].old \in 0 .. Len(objs')
      /\ fr[s].new \in 0 .. Len(objs')
      /\ fr[s].mergeParent \in 0 .. Len(objs')
      /\ fr[s].todo \subseteq 1 .. Len(objs')
  BY <1>1 DEF SessionsOK, FrameOK
<1>4. pc' = [pc EXCEPT ![s] = l]
  BY DEF Goto
<1>5. QED
  BY <1>1, <1>2, <1>3, <1>4, SessionStep

\* A step that moves a session on with a new frame and makes no commit.
LEMMA KeepStep ==
  ASSUME TypeOK, NEW s \in Sessions, NEW l \in Labels, NEW f \in Frame,
         Goto(s, l), Keep(s, f), FrameOK(f), UNCHANGED objs,
         l \in {"create", "pickCreate"} => ~HasConflicts(f.snap)
  PROVE  SessionsOK'
<1>1. Len(objs) \in Nat /\ SessionsOK
  BY DEF TypeOK, RepoOK, History
<1>2. /\ f.old \in 0 .. Len(objs')
      /\ f.new \in 0 .. Len(objs')
      /\ f.mergeParent \in 0 .. Len(objs')
      /\ f.todo \subseteq 1 .. Len(objs')
      /\ Len(objs') \in Nat /\ Len(objs) <= Len(objs')
  BY <1>1 DEF FrameOK
<1>3. /\ pc' = [pc EXCEPT ![s] = l]
      /\ fr' = [fr EXCEPT ![s] = f]
  BY DEF Goto, Keep
<1>4. QED
  BY <1>1, <1>2, <1>3, SessionStep

\* A call that returns without writing.
LEMMA LeaveStep ==
  ASSUME TypeOK, NEW s \in Sessions, Leave(s)
  PROVE  TypeOK'
<1>1. UNCHANGED repo /\ Return(s)
  BY DEF Leave
<1>2. RepoOK'
  BY <1>1 DEF TypeOK, RepoOK, repo
<1>3. Len(objs) \in Nat /\ objs' = objs
  BY <1>1 DEF TypeOK, RepoOK, History, repo
<1>4. Len(objs') \in Nat /\ Len(objs) <= Len(objs')
  BY <1>3
<1>5. SessionsOK'
  BY <1>1, <1>4, ReturnStep
<1>6. QED
  BY <1>2, <1>5 DEF TypeOK

(***************************************************************************)
(* Steps that read the repository and write only the session's frame.      *)
(***************************************************************************)

LEMMA ReadSteps ==
  ASSUME TypeOK, NEW s \in Sessions,
         \/ CallMerge(s) \/ CallStageOnly(s) \/ CallFastForward(s)
         \/ FastForwardAnalysis(s) \/ MergeStatus(s)
         \/ CallCommit(s) \/ CommitStatus(s) \/ CommitMergeHeads(s)
         \/ CommitParents(s) \/ CommitRefused(s) \/ CallCommitAll(s)
         \/ CommitAllStatus(s) \/ CallAbort(s) \/ CallOrphan(s)
         \/ CallAdd(s) \/ CallRm(s) \/ Crash(s)
  PROVE  TypeOK'
<1>1. /\ Len(objs) \in Nat /\ RepoOK /\ SessionsOK
      /\ FrameOK(fr[s]) /\ FrameOK(NoFrame)
  BY NoFrameOK DEF TypeOK, RepoOK, SessionsOK, History
<1>2. ASSUME UNCHANGED repo PROVE RepoOK' /\ objs' = objs
  BY <1>1, <1>2 DEF RepoOK, repo
<1>3. ASSUME UNCHANGED repo, NEW l \in Labels, NEW f \in Frame,
             Goto(s, l), Keep(s, f), FrameOK(f),
             l \in {"create", "pickCreate"} => ~HasConflicts(f.snap)
      PROVE  TypeOK'
  BY <1>2, <1>3, KeepStep DEF TypeOK
<1>4. ASSUME UNCHANGED <<repo, fr>>, NEW l \in Labels, Goto(s, l),
             l \notin {"create", "pickCreate"}
      PROVE  TypeOK'
  BY <1>1, <1>2, <1>4, GotoStep DEF TypeOK
<1>5. CASE CallMerge(s)
  <2>1. PICK b \in Branches, commit, squash \in BOOLEAN :
          /\ Keep(s, [NoFrame EXCEPT !.op = "merge", !.ref = b,
                                     !.doCommit = commit, !.squash = squash])
          /\ Goto(s, IF Analysis(Tip, refs[b]) = "fastforward"
                       THEN "ffAnalysis" ELSE "stage")
          /\ UNCHANGED repo
    BY <1>5 DEF CallMerge
  <2> DEFINE f == [NoFrame EXCEPT !.op = "merge", !.ref = b,
                                  !.doCommit = commit, !.squash = squash]
             l == IF Analysis(Tip, refs[b]) = "fastforward"
                    THEN "ffAnalysis" ELSE "stage"
  <2>2. f \in Frame /\ FrameOK(f)
    BY <1>1 DEF FrameOK, Frame
  <2>3. l \in Labels /\ l \notin {"create", "pickCreate"}
    BY DEF Labels
  <2>4. QED
    BY <2>1, <2>2, <2>3, <1>3
<1>6. CASE CallStageOnly(s)
  <2>1. PICK b \in Branches, squash \in BOOLEAN :
          /\ Keep(s, [NoFrame EXCEPT !.op = "stage_only", !.ref = b,
                                     !.squash = squash])
          /\ Goto(s, "stage")
          /\ UNCHANGED repo
    BY <1>6 DEF CallStageOnly
  <2> DEFINE f == [NoFrame EXCEPT !.op = "stage_only", !.ref = b,
                                  !.squash = squash]
  <2>2. f \in Frame /\ FrameOK(f)
    BY <1>1 DEF FrameOK, Frame
  <2>3. QED
    BY <2>1, <2>2, <1>3 DEF Labels
<1>7. CASE CallFastForward(s)
  <2>1. PICK b \in Branches :
          /\ Keep(s, [NoFrame EXCEPT !.ref = b])
          /\ Goto(s, "ffAnalysis")
          /\ UNCHANGED repo
    BY <1>7 DEF CallFastForward
  <2> DEFINE f == [NoFrame EXCEPT !.ref = b]
  <2>2. f \in Frame /\ FrameOK(f)
    BY <1>1 DEF FrameOK, Frame
  <2>3. QED
    BY <2>1, <2>2, <1>3 DEF Labels
<1>8. CASE FastForwardAnalysis(s)
  BY <1>8, <1>4, LeaveStep DEF FastForwardAnalysis, Labels
<1>9. CASE MergeStatus(s)
  BY <1>9, <1>4, LeaveStep DEF MergeStatus, Labels
<1>10. CASE ReadStatus(s)
  <2>1. CASE StagedFiles # {}
    <3> DEFINE f == [fr[s] EXCEPT !.snap = index, !.staged = StagedFiles]
    <3>1. f \in Frame /\ FrameOK(f)
      <4>1. StagedFiles \in SUBSET Files
        BY DEF StagedFiles
      <4>2. QED
        BY <4>1, <1>1 DEF FrameOK, Frame, RepoOK
    <3>2. QED
      BY <2>1, <1>10, <3>1, <1>3 DEF ReadStatus, Labels
  <2>2. CASE ~(StagedFiles # {})
    BY <2>2, <1>10, LeaveStep DEF ReadStatus
  <2>3. QED
    BY <2>1, <2>2
<1>11. CASE CommitMergeHeads(s)
  <2> DEFINE f == [fr[s] EXCEPT !.mergeParent = mergeHead]
  <2>0. mergeHead \in 0 .. Len(objs) /\ mergeHead \in Nat
    BY <1>1 DEF RepoOK
  <2>1. f \in Frame /\ FrameOK(f)
    BY <1>1, <2>0 DEF FrameOK, Frame
  <2>2. QED
    BY <2>1, <1>11, <1>3 DEF CommitMergeHeads, Labels
<1>12. CASE CommitParents(s)
  <2>1. CASE HasConflicts(fr[s].snap)
    BY <2>1, <1>12, LeaveStep DEF CommitParents
  <2>2. CASE ~HasConflicts(fr[s].snap)
    <3> DEFINE f == [fr[s] EXCEPT !.old = Tip]
    <3>0. Tip \in 0 .. Len(objs) /\ Tip \in Nat
      BY <1>1 DEF RepoOK
    <3>1. f \in Frame /\ FrameOK(f) /\ f.snap = fr[s].snap
      BY <1>1, <3>0 DEF FrameOK, Frame
    <3>2. QED
      BY <2>2, <3>1, <1>12, <1>3 DEF CommitParents, Labels
  <2>3. QED
    BY <2>1, <2>2
<1>13. CASE CallCommitAll(s)
  <2> DEFINE f == [NoFrame EXCEPT
                     !.snap = index,
                     !.modified = {p \in Unstaged : workdir[p] # Absent},
                     !.deleted = {p \in Unstaged : workdir[p] = Absent}]
  <2>1. /\ {p \in Unstaged : workdir[p] # Absent} \in SUBSET Files
        /\ {p \in Unstaged : workdir[p] = Absent} \in SUBSET Files
    BY DEF Unstaged
  <2>2. f \in Frame /\ FrameOK(f)
    BY <1>1, <2>1 DEF FrameOK, Frame, RepoOK
  <2>3. Keep(s, f) /\ Goto(s, "allAdd") /\ UNCHANGED repo
    BY <1>13 DEF CallCommitAll
  <2>4. QED
    BY <2>2, <2>3, <1>3 DEF Labels
<1>14. CASE CallAbort(s)
  BY <1>14, <1>4 DEF CallAbort, Labels
<1>15. CASE CommitRefused(s) \/ Crash(s)
  BY <1>15, LeaveStep DEF CommitRefused, Crash
<1>16. CASE CommitAllStatus(s)
  <2> DEFINE f == [fr[s] EXCEPT !.snap = index]
  <2>1. f \in Frame /\ FrameOK(f)
    BY <1>1 DEF FrameOK, Frame, RepoOK
  <2>2. QED
    BY <2>1, <1>16, <1>3 DEF CommitAllStatus, Labels
<1>17. CASE CallOrphan(s)
  <2>1. PICK b \in Branches :
          /\ Keep(s, [NoFrame EXCEPT !.ref = b])
          /\ Goto(s, "setHead")
          /\ UNCHANGED repo
    BY <1>17 DEF CallOrphan
  <2> DEFINE f == [NoFrame EXCEPT !.ref = b]
  <2>2. f \in Frame /\ FrameOK(f)
    BY <1>1 DEF FrameOK, Frame
  <2>3. QED
    BY <2>1, <2>2, <1>3 DEF Labels
<1>18. CASE CallAdd(s) \/ CallRm(s)
  <2>1. PICK p \in Files, x \in Content :
          /\ Keep(s, [NoFrame EXCEPT !.snap = [index EXCEPT ![p] = x]])
          /\ Goto(s, "indexWrite")
          /\ UNCHANGED repo
    BY <1>1, <1>18, ContentAssumption DEF CallAdd, CallRm, RepoOK, Tree
  <2> DEFINE f == [NoFrame EXCEPT !.snap = [index EXCEPT ![p] = x]]
  <2>2. [index EXCEPT ![p] = x] \in Index
    BY <1>1 DEF RepoOK, Index
  <2>3. f \in Frame /\ FrameOK(f)
    BY <1>1, <2>2 DEF FrameOK, Frame
  <2>4. QED
    BY <2>1, <2>3, <1>3 DEF Labels
<1>19. QED
  BY <1>5, <1>6, <1>7, <1>8, <1>9, <1>10, <1>11, <1>12, <1>13, <1>14, <1>15,
     <1>16, <1>17, <1>18
  DEF CallCommit, CommitStatus

(***************************************************************************)
(* Steps that write refs, index, working directory or state files.         *)
(***************************************************************************)

\* What a step that makes no commit has to establish.
LEMMA RepoStep ==
  ASSUME RepoOK, UNCHANGED objs,
         refs' \in [Branches -> 0 .. Len(objs)], head' \in Branches,
         index' \in Index, workdir' \in Tree,
         mergeHead' \in 0 .. Len(objs), origHead' \in 0 .. Len(objs)
  PROVE  RepoOK'
BY DEF RepoOK

\* The result of merging an existing commit into HEAD is an index, and
\* checking it out gives an index and a working directory.
LEMMA StageType ==
  ASSUME RepoOK, NEW theirs \in 0 .. Len(objs),
         MergeCheckout(MergeResult(theirs), theirs)
  PROVE  index' \in Index /\ workdir' \in Tree
<1> DEFINE new == MergeResult(theirs)
<1>1. /\ History(objs) /\ Tip \in 0 .. Len(objs)
      /\ HeadTree \in Tree /\ TreeOf(theirs) \in Tree
  BY HeadTreeType, TreeType DEF RepoOK
<1>2. TreeOf(MergeBase(Tip, theirs)) \in Tree
  BY <1>1, BaseExists, TreeType
<1>3. new \in Index
  BY <1>1, <1>2, MergeType DEF MergeResult
<1> HIDE DEF new
<1>4. MergeCheckout(new, theirs) /\ workdir \in Tree
  BY DEF new, RepoOK
<1>5. \A p \in Files :
        /\ ConflictFile(HeadTree[p], TreeOf(theirs)[p]) \in Content
        /\ new[p] # Conflict => new[p] \in Content
        /\ workdir[p] \in Content
  BY <1>1, <1>3, <1>4, ContentAssumption DEF ConflictFile, Tree, Index
<1>6. workdir' \in Tree
  BY <1>4, <1>5 DEF MergeCheckout, Tree
<1>7. QED
  BY <1>3, <1>4, <1>6 DEF MergeCheckout

\* git_merge, fast-forward.
LEMMA MergeSteps ==
  ASSUME TypeOK, NEW s \in Sessions,
         \/ SetTargetCheckout(s) \/ SetTargetMove(s)
         \/ Stage(s) \/ StageCleanup(s)
  PROVE  TypeOK'
<1>1. /\ Len(objs) \in Nat /\ RepoOK /\ SessionsOK
      /\ fr[s] \in Frame /\ FrameOK(fr[s])
      /\ Tip \in 0 .. Len(objs) /\ refs[fr[s].ref] \in 0 .. Len(objs)
  BY DEF TypeOK, RepoOK, SessionsOK, History, Frame
<1>2. ASSUME UNCHANGED objs, Return(s) PROVE SessionsOK'
  BY <1>1, <1>2, ReturnStep
<1>3. CASE SetTargetCheckout(s)
  <2> DEFINE target == refs[fr[s].ref]
             f == [fr[s] EXCEPT !.onto = head, !.old = Tip, !.new = target]
  <2>1. CASE Leave(s)
    BY <2>1, LeaveStep
  <2>2. CASE ~Leave(s)
    <3>1. /\ CheckoutSafe(TreeOf(target))
          /\ Keep(s, f) /\ Goto(s, "move")
          /\ UNCHANGED <<objs, refs, head, mergeHead, origHead>>
      BY <2>2, <1>3 DEF SetTargetCheckout
    <3>2. TreeOf(target) \in Tree
      BY <1>1, TreeType DEF RepoOK
    <3>3. index' \in Index /\ workdir' \in Tree
      BY <1>1, <3>1, <3>2, CheckoutType
    <3>4. RepoOK'
      BY <1>1, <3>1, <3>3, RepoStep DEF RepoOK
    <3>5. f \in Frame /\ FrameOK(f)
      <4>1. target \in Nat /\ Tip \in Nat /\ head \in Branches
        BY <1>1 DEF RepoOK
      <4>2. QED
        BY <1>1, <4>1 DEF FrameOK, Frame
    <3>6. SessionsOK'
      BY <3>1, <3>5, KeepStep DEF Labels
    <3>7. QED
      BY <3>4, <3>6 DEF TypeOK
  <2>3. QED
    BY <2>1, <2>2
<1>4. CASE SetTargetMove(s)
  <2>1. /\ refs' \in [Branches -> 0 .. Len(objs)]
        /\ UNCHANGED <<objs, head, index, workdir, mergeHead, origHead>>
        /\ Return(s)
    BY <1>1, <1>4 DEF SetTargetMove, RepoOK, FrameOK
  <2>2. RepoOK'
    BY <1>1, <2>1, RepoStep DEF RepoOK
  <2>3. QED
    BY <2>1, <2>2, <1>2 DEF TypeOK
<1>5. CASE Stage(s)
  <2> DEFINE theirs == refs[fr[s].ref]
             new == MergeResult(theirs)
             f == [fr[s] EXCEPT !.clean = ~HasConflicts(new)]
             l == IF fr[s].squash THEN "cleanup" ELSE "status"
  <2>1. CASE theirs # 0 /\ Tip # 0 /\ MergeAllowed(new)
    <3>1. /\ MergeCheckout(new, theirs)
          /\ mergeHead' = theirs /\ origHead' = Tip
          /\ UNCHANGED <<objs, refs, head>>
          /\ Keep(s, f) /\ Goto(s, l)
      BY <1>5, <2>1 DEF Stage
    <3>2. index' \in Index /\ workdir' \in Tree
      BY <1>1, <3>1, StageType
    <3>3. RepoOK'
      BY <1>1, <3>1, <3>2, RepoStep DEF RepoOK
    <3>4. f \in Frame /\ FrameOK(f)
      <4>1. (~HasConflicts(new)) \in BOOLEAN
        BY DEF HasConflicts
      <4>2. QED
        BY <1>1, <4>1 DEF FrameOK, Frame
    <3>5. l \in Labels /\ l \notin {"create", "pickCreate"}
      BY DEF Labels
    <3>6. SessionsOK'
      BY <3>1, <3>4, <3>5, KeepStep
    <3>7. QED
      BY <3>3, <3>6 DEF TypeOK
  <2>2. CASE ~(theirs # 0 /\ Tip # 0 /\ MergeAllowed(new))
    <3>1. /\ UNCHANGED <<objs, refs, head, index, workdir, origHead>>
          /\ mergeHead' \in {0, mergeHead}
          /\ Return(s)
      BY <1>5, <2>2 DEF Stage, StateCleanup
    <3>2. RepoOK'
      BY <1>1, <3>1, RepoStep DEF RepoOK
    <3>3. QED
      BY <3>1, <3>2, <1>2 DEF TypeOK
  <2>3. QED
    BY <2>1, <2>2
<1>6. CASE StageCleanup(s)
  <2>1. /\ mergeHead' = 0 /\ Goto(s, "status")
        /\ UNCHANGED <<objs, refs, head, index, workdir, origHead, fr>>
    BY <1>6 DEF StageCleanup, StateCleanup
  <2>2. RepoOK'
    BY <1>1, <2>1, RepoStep DEF RepoOK
  <2>3. SessionsOK'
    BY <1>1, <2>1, GotoStep DEF Labels
  <2>4. QED
    BY <2>2, <2>3 DEF TypeOK
<1>7. QED
  BY <1>3, <1>4, <1>5, <1>6

\* The commit that R_git_commit_create makes: its parents exist, its tree is
\* the index git_commit read, and only the branch HEAD names moves.
LEMMA CommitCreatedStep ==
  ASSUME TypeOK, NEW s \in Sessions, CommitCreated(s)
  PROVE  /\ TypeOK'
         /\ \A c \in Ids : objs'[c] = objs[c]
         /\ Len(objs') = Len(objs) + 1
         /\ refs' = [refs EXCEPT ![head] = Len(objs')]
         /\ objs'[Len(objs')] = NewCommit(ParentList(fr[s]), fr[s].snap)
         /\ ParentList(fr[s]) \in Seq(Ids)
<1> DEFINE ps == ParentList(fr[s])
           t == fr[s].snap
<1>1. /\ Len(objs) \in Nat /\ RepoOK /\ SessionsOK /\ History(objs)
      /\ fr[s] \in Frame /\ FrameOK(fr[s]) /\ pc[s] = "create"
  BY DEF TypeOK, RepoOK, SessionsOK, History, CommitCreated
<1>2. ps \in Seq(Ids)
  <2>1. fr[s].old \in 0 .. Len(objs) /\ fr[s].mergeParent \in 0 .. Len(objs)
    BY <1>1 DEF FrameOK
  <2>2. CASE fr[s].old = 0
    BY <2>2 DEF ParentList
  <2>3. CASE fr[s].old # 0 /\ fr[s].mergeParent = 0
    <3>1. fr[s].old \in Ids
      BY <1>1, <2>1, <2>3
    <3>2. QED
      BY <2>3, <3>1 DEF ParentList
  <2>4. CASE fr[s].old # 0 /\ fr[s].mergeParent # 0
    <3>1. fr[s].old \in Ids /\ fr[s].mergeParent \in Ids
      BY <1>1, <2>1, <2>4
    <3>2. ps = <<fr[s].old, fr[s].mergeParent>>
      BY <2>4 DEF ParentList
    <3>3. QED
      BY <3>1, <3>2
  <2>5. QED
    BY <2>2, <2>3, <2>4
<1>3. t \in Tree
  <2>1. t \in Index /\ ~HasConflicts(t)
    BY <1>1 DEF SessionsOK, Frame
  <2>2. QED
    BY <2>1 DEF HasConflicts, Index, Tree
<1>4. /\ objs' = Append(objs, NewCommit(ps, t))
      /\ refs' = [refs EXCEPT ![head] = NewId]
      /\ UNCHANGED <<head, index, workdir, mergeHead, origHead>>
      /\ \/ Goto(s, "finish") /\ UNCHANGED fr
         \/ Return(s)
  BY DEF CommitCreated, CommitCreate
<1> HIDE DEF ps, t
<1>5. /\ History(objs')
      /\ Len(objs') = Len(objs) + 1
      /\ \A c \in Ids : objs'[c] = objs[c]
      /\ objs'[Len(objs) + 1] = NewCommit(ps, t)
  BY <1>1, <1>2, <1>3, <1>4, AppendHistory
<1>6. Len(objs') \in Nat /\ Len(objs) <= Len(objs')
  BY <1>1, <1>5
<1>7. refs' = [refs EXCEPT ![head] = Len(objs')]
  BY <1>4, <1>5 DEF NewId
<1>8. RepoOK'
  <2>1. refs' \in [Branches -> 0 .. Len(objs')]
    BY <1>1, <1>6, <1>7 DEF RepoOK
  <2>2. mergeHead \in 0 .. Len(objs') /\ origHead \in 0 .. Len(objs')
    BY <1>1, <1>6 DEF RepoOK
  <2>3. head \in Branches /\ index \in Index /\ workdir \in Tree
    BY <1>1 DEF RepoOK
  <2>4. QED
    BY <1>4, <1>5, <2>1, <2>2, <2>3 DEF RepoOK
<1>9. SessionsOK'
  BY <1>4, <1>6, GotoStep, ReturnStep DEF Labels
<1>10. TypeOK'
  BY <1>8, <1>9 DEF TypeOK
<1>11. QED
  BY <1>2, <1>5, <1>7, <1>10 DEF ps, t

\* The other steps of git_commit, git_commit_all, git_merge_abort, git_add
\* and git_rm.
LEMMA CommitSteps ==
  ASSUME TypeOK, NEW s \in Sessions,
         \/ CommitFinish(s) \/ CommitAllAdd(s) \/ CommitAllRm(s)
         \/ AbortReset(s) \/ AbortCleanup(s) \/ IndexWrite(s)
  PROVE  TypeOK'
<1>1. /\ Len(objs) \in Nat /\ RepoOK /\ SessionsOK
      /\ fr[s] \in Frame /\ FrameOK(fr[s]) /\ Tip \in 0 .. Len(objs)
  BY DEF TypeOK, RepoOK, SessionsOK, History
<1>2. ASSUME UNCHANGED objs, Return(s) PROVE SessionsOK'
  BY <1>1, <1>2, ReturnStep
<1>3. CASE CommitFinish(s) \/ AbortCleanup(s)
  <2>1. /\ mergeHead' = 0 /\ Return(s)
        /\ UNCHANGED <<objs, refs, head, index, workdir, origHead>>
    BY <1>3 DEF CommitFinish, AbortCleanup, StateCleanup
  <2>2. RepoOK'
    BY <1>1, <2>1, RepoStep DEF RepoOK
  <2>3. QED
    BY <2>1, <2>2, <1>2 DEF TypeOK
<1>4. ASSUME NEW idx \in Index, WriteIndex(s, idx), NEW l \in Labels,
             Goto(s, l), l \notin {"create", "pickCreate"}
      PROVE  TypeOK'
  <2> DEFINE f == [fr[s] EXCEPT !.snap = idx]
  <2>1. /\ index' = idx /\ Keep(s, f)
        /\ UNCHANGED <<objs, refs, head, workdir, mergeHead, origHead>>
    BY <1>4 DEF WriteIndex
  <2>2. RepoOK'
    BY <1>1, <2>1, RepoStep DEF RepoOK
  <2>3. f \in Frame /\ FrameOK(f)
    BY <1>1 DEF FrameOK, Frame
  <2>4. SessionsOK'
    BY <1>4, <2>1, <2>3, KeepStep
  <2>5. QED
    BY <2>2, <2>4 DEF TypeOK
<1>5. fr[s].snap \in Index /\ workdir \in Tree
  BY <1>1 DEF Frame, RepoOK
<1>6. CASE CommitAllAdd(s)
  <2> DEFINE idx == [p \in Files |-> IF p \in fr[s].modified THEN workdir[p]
                                      ELSE fr[s].snap[p]]
  <2>1. idx \in Index
    BY <1>5 DEF Index, Tree
  <2>2. PICK l \in Labels : Goto(s, l) /\ l \notin {"create", "pickCreate"}
    BY <1>6 DEF Labels, CommitAllAdd
  <2>3. CASE WriteIndex(s, idx)
    BY <2>1, <2>2, <2>3, <1>4
  <2>4. CASE UNCHANGED <<repo, fr>>
    <3>1. RepoOK' /\ objs' = objs
      BY <1>1, <2>4 DEF RepoOK, repo
    <3>2. SessionsOK'
      BY <1>1, <2>2, <2>4, <3>1, GotoStep
    <3>3. QED
      BY <3>1, <3>2 DEF TypeOK
  <2>5. QED
    BY <1>6, <2>3, <2>4 DEF CommitAllAdd
<1>7. CASE CommitAllRm(s)
  <2> DEFINE idx == [p \in Files |-> IF p \in fr[s].deleted THEN Absent
                                      ELSE fr[s].snap[p]]
  <2>1. idx \in Index
    BY <1>5, ContentAssumption DEF Index
  <2>2. "commit" \in Labels /\ Goto(s, "commit")
    BY <1>7 DEF Labels, CommitAllRm
  <2>3. CASE WriteIndex(s, idx)
    BY <2>1, <2>2, <2>3, <1>4
  <2>4. CASE UNCHANGED <<repo, fr>>
    <3>1. RepoOK' /\ objs' = objs
      BY <1>1, <2>4 DEF RepoOK, repo
    <3>2. SessionsOK'
      BY <1>1, <2>2, <2>4, <3>1, GotoStep
    <3>3. QED
      BY <3>1, <3>2 DEF TypeOK
  <2>5. QED
    BY <1>7, <2>3, <2>4 DEF CommitAllRm
<1>8. CASE AbortReset(s)
  <2>1. CASE Leave(s)
    BY <2>1, LeaveStep
  <2>2. CASE ~Leave(s)
    <3>1. /\ CheckoutForce(HeadTree) /\ mergeHead' = 0
          /\ Goto(s, "abortCleanup")
          /\ UNCHANGED <<objs, refs, head, origHead, fr>>
      BY <2>2, <1>8 DEF AbortReset, StateCleanup
    <3>2. index' \in Index /\ workdir' \in Tree
      BY <1>1, <3>1, HeadTreeType, CheckoutType
    <3>3. RepoOK'
      BY <1>1, <3>1, <3>2, RepoStep DEF RepoOK
    <3>4. SessionsOK'
      BY <1>1, <3>1, GotoStep DEF Labels
    <3>5. QED
      BY <3>3, <3>4 DEF TypeOK
  <2>3. QED
    BY <2>1, <2>2
<1>9. CASE IndexWrite(s)
  <2>1. /\ index' = fr[s].snap /\ Return(s)
        /\ UNCHANGED <<objs, refs, head, workdir, mergeHead, origHead>>
    BY <1>9 DEF IndexWrite
  <2>2. RepoOK'
    BY <1>1, <1>5, <2>1, RepoStep DEF RepoOK
  <2>3. QED
    BY <2>1, <2>2, <1>2 DEF TypeOK
<1>10. QED
  BY <1>3, <1>6, <1>7, <1>8, <1>9

\* The calls that are one step and leave the session idle, and the user.
LEMMA OneStepCalls ==
  ASSUME TypeOK,
         \/ \E s \in Sessions : CallReset(s) \/ CallDelete(s)
         \/ Edit
  PROVE  TypeOK'
<1>1. /\ Len(objs) \in Nat /\ RepoOK /\ SessionsOK
      /\ index \in Index /\ workdir \in Tree
      /\ refs \in [Branches -> 0 .. Len(objs)] /\ head \in Branches
      /\ mergeHead \in 0 .. Len(objs) /\ origHead \in 0 .. Len(objs)
  BY DEF TypeOK, RepoOK, SessionsOK, History
<1>2. ASSUME UNCHANGED <<objs, pc, fr>> PROVE SessionsOK'
  BY <1>1, <1>2 DEF SessionsOK, FrameOK
<1>3. ASSUME NEW s \in Sessions, CallReset(s)
      PROVE  TypeOK'
  <2>1. PICK b \in Branches :
          /\ \/ SoftReset(refs[b]) \/ MixedReset(refs[b]) \/ HardReset(refs[b])
          /\ UNCHANGED <<pc, fr>>
    BY <1>3 DEF CallReset
  <2>2. refs[b] \in 0 .. Len(objs) /\ TreeOf(refs[b]) \in Tree
    BY <1>1, TreeType DEF RepoOK
  <2>3. CASE SoftReset(refs[b])
    BY <1>1, <1>2, <2>1, <2>2, <2>3, RepoStep DEF SoftReset, TypeOK
  <2>4. CASE MixedReset(refs[b])
    <3>1. TreeOf(refs[b]) \in Index
      BY <2>2 DEF Tree, Index
    <3>2. QED
      BY <1>1, <1>2, <2>1, <2>2, <2>4, <3>1, RepoStep DEF MixedReset, TypeOK
  <2>5. CASE HardReset(refs[b])
    <3>1. index' \in Index /\ workdir' \in Tree
      BY <1>1, <2>2, <2>5, CheckoutType DEF HardReset
    <3>2. QED
      BY <1>1, <1>2, <2>1, <2>2, <2>5, <3>1, RepoStep
      DEF HardReset, StateCleanup, TypeOK
  <2>6. QED
    BY <2>1, <2>3, <2>4, <2>5
<1>4. ASSUME NEW s \in Sessions, CallDelete(s)
      PROVE  TypeOK'
  BY <1>1, <1>2, <1>4, RepoStep DEF CallDelete, TypeOK
<1>5. CASE Edit
  <2>1. workdir' \in Tree
    BY <1>1, <1>5, SessionAssumption DEF Edit, Tree
  <2>2. QED
    BY <1>1, <1>2, <1>5, <2>1, RepoStep DEF Edit, TypeOK
<1>6. QED
  BY <1>3, <1>4, <1>5

\* git_branch_checkout and git_branch_create.
LEMMA BranchSteps ==
  ASSUME TypeOK, NEW s \in Sessions,
         \/ CallCheckout(s) \/ CallCreate(s) \/ CreateCheckout(s)
         \/ SetHead(s)
  PROVE  TypeOK'
<1>1. /\ Len(objs) \in Nat /\ RepoOK /\ SessionsOK
      /\ fr[s] \in Frame /\ FrameOK(fr[s]) /\ FrameOK(NoFrame)
      /\ index \in Index /\ workdir \in Tree
      /\ refs \in [Branches -> 0 .. Len(objs)] /\ head \in Branches
      /\ mergeHead \in 0 .. Len(objs) /\ origHead \in 0 .. Len(objs)
  BY NoFrameOK DEF TypeOK, RepoOK, SessionsOK, History
<1>2. CASE CallCheckout(s)
  <2>1. PICK b \in Branches, force \in BOOLEAN :
          CheckoutTree(s, b, force) /\ Keep(s, [NoFrame EXCEPT !.ref = b])
    BY <1>2 DEF CallCheckout
  <2> DEFINE f == [NoFrame EXCEPT !.ref = b]
  <2>2. TreeOf(refs[b]) \in Tree
    BY <1>1, TreeType DEF RepoOK
  <2>3. /\ CheckoutForce(TreeOf(refs[b])) \/ CheckoutSafe(TreeOf(refs[b]))
        /\ Goto(s, "setHead")
        /\ UNCHANGED <<objs, refs, head, mergeHead, origHead>>
    BY <2>1 DEF CheckoutTree
  <2>4. index' \in Index /\ workdir' \in Tree
    BY <1>1, <2>2, <2>3, CheckoutType
  <2>5. RepoOK'
    BY <1>1, <2>3, <2>4, RepoStep
  <2>6. f \in Frame /\ FrameOK(f)
    BY <1>1 DEF FrameOK, Frame
  <2>7. SessionsOK'
    BY <2>1, <2>3, <2>6, KeepStep DEF Labels
  <2>8. QED
    BY <2>5, <2>7 DEF TypeOK
<1>3. CASE CallCreate(s)
  <2>1. PICK b \in Branches, from \in Branches,
             checkout \in BOOLEAN, force \in BOOLEAN :
          /\ refs' = [refs EXCEPT ![b] = refs[from]]
          /\ IF checkout
               THEN /\ Keep(s, [NoFrame EXCEPT !.ref = b, !.force = force,
                                               !.new = refs[from]])
                    /\ Goto(s, "branchTree")
               ELSE UNCHANGED <<pc, fr>>
          /\ UNCHANGED <<objs, head, index, workdir, mergeHead, origHead>>
    BY <1>3 DEF CallCreate
  <2> DEFINE f == [NoFrame EXCEPT !.ref = b, !.force = force,
                                  !.new = refs[from]]
  <2>2. refs[from] \in 0 .. Len(objs) /\ refs[from] \in Nat
    BY <1>1
  <2>3. RepoOK'
    BY <1>1, <2>1, <2>2, RepoStep
  <2>4. f \in Frame /\ FrameOK(f)
    BY <1>1, <2>2 DEF FrameOK, Frame
  <2>5. SessionsOK'
    <3>1. CASE checkout
      BY <2>1, <2>4, <3>1, KeepStep DEF Labels
    <3>2. CASE ~checkout
      BY <1>1, <2>1, <3>2 DEF SessionsOK, FrameOK
    <3>3. QED
      BY <3>1, <3>2
  <2>6. QED
    BY <2>3, <2>5 DEF TypeOK
<1>4. CASE CreateCheckout(s)
  <2> DEFINE target == TreeOf(fr[s].new)
  <2>1. CASE Leave(s)
    BY <2>1, LeaveStep
  <2>2. CASE ~Leave(s)
    <3>1. /\ CheckoutForce(target) \/ CheckoutSafe(target)
          /\ Goto(s, "setHead")
          /\ UNCHANGED <<objs, refs, head, mergeHead, origHead, fr>>
      BY <2>2, <1>4 DEF CreateCheckout
    <3>2. target \in Tree
      BY <1>1, TreeType DEF RepoOK, FrameOK
    <3>3. index' \in Index /\ workdir' \in Tree
      BY <1>1, <3>1, <3>2, CheckoutType
    <3>4. RepoOK'
      BY <1>1, <3>1, <3>3, RepoStep
    <3>5. SessionsOK'
      BY <1>1, <3>1, GotoStep DEF Labels
    <3>6. QED
      BY <3>4, <3>5 DEF TypeOK
  <2>3. QED
    BY <2>1, <2>2
<1>5. CASE SetHead(s)
  <2>1. /\ head' \in Branches /\ Return(s)
        /\ UNCHANGED <<objs, refs, index, workdir, mergeHead, origHead>>
    BY <1>1, <1>5 DEF SetHead, Frame
  <2>2. RepoOK'
    BY <1>1, <2>1, RepoStep
  <2>3. SessionsOK'
    BY <1>1, <2>1, ReturnStep
  <2>4. QED
    BY <2>2, <2>3 DEF TypeOK
<1>6. QED
  BY <1>2, <1>3, <1>4, <1>5

(***************************************************************************)
(* The invariant.                                                          *)
(***************************************************************************)

LEMMA InitOK ==
  ASSUME Init
  PROVE  TypeOK
<1>1. PICK r \in InitRepos :
        /\ objs = r.objs /\ refs = r.refs /\ head = r.head
        /\ index = IF r.refs[r.head] = 0 THEN EmptyTree
                                         ELSE r.objs[r.refs[r.head]].tree
        /\ workdir = index /\ mergeHead = 0 /\ origHead = 0
  BY DEF Init, RepoInit
<1>2. /\ History(objs) /\ refs \in [Branches -> 0 .. Len(objs)]
      /\ head \in Branches
  BY <1>1, InitReposAssumption
<1>3. Len(objs) \in Nat /\ Tip \in 0 .. Len(objs)
  BY <1>2 DEF History
<1>4. index = TreeOf(Tip)
  BY <1>1 DEF TreeOf
<1>5. workdir \in Tree /\ index \in Index
  <2>1. TreeOf(Tip) \in Tree
    BY <1>2, <1>3, TreeType
  <2>2. QED
    BY <1>1, <1>4, <2>1 DEF Tree, Index
<1>6. RepoOK
  BY <1>1, <1>2, <1>3, <1>5 DEF RepoOK
<1>7. FrameOK(NoFrame)
  BY <1>3, NoFrameOK
<1>8. SessionsOK
  BY <1>7 DEF Init, SessionsOK, Labels, FrameOK
<1>9. QED
  BY <1>6, <1>8 DEF TypeOK

LEMMA StepOK ==
  ASSUME TypeOK, [Next]_vars
  PROVE  TypeOK'
<1>1. CASE UNCHANGED vars
  BY <1>1 DEF TypeOK, RepoOK, SessionsOK, FrameOK, vars, repo
<1>2. CASE Edit
  BY <1>2, OneStepCalls
<1>3. ASSUME NEW s \in Sessions, Call(s)
      PROVE  TypeOK'
  BY <1>3, ReadSteps, OneStepCalls, BranchSteps DEF Call
<1>4. ASSUME NEW s \in Sessions, Continue(s)
      PROVE  TypeOK'
  BY <1>4, ReadSteps, MergeSteps, CommitCreatedStep, CommitSteps, BranchSteps
  DEF Continue
<1>5. ASSUME NEW s \in Sessions, Crash(s)
      PROVE  TypeOK'
  BY <1>5, ReadSteps
<1>6. QED
  BY <1>1, <1>2, <1>3, <1>4, <1>5 DEF Next

\* In every reachable state the repository is well formed and every commit
\* that a ref, MERGE_HEAD or a running call names exists: no interleaving of
\* gert calls, and no call that dies half way, leaves a dangling reference.
THEOREM TypeCorrect == Spec => []TypeOK
<1>1. Init => TypeOK
  BY InitOK
<1>2. TypeOK /\ [Next]_vars => TypeOK'
  BY StepOK
<1>3. QED
  BY <1>1, <1>2, PTL DEF Spec

-----------------------------------------------------------------------------
(***************************************************************************)
(* History: what each step does to commits, branches and HEAD.             *)
(***************************************************************************)

\* The steps that leave commits, branches and HEAD alone.
LEMMA QuietSteps ==
  ASSUME NEW s \in Sessions,
         \/ CallMerge(s) \/ CallStageOnly(s) \/ CallFastForward(s)
         \/ FastForwardAnalysis(s) \/ SetTargetCheckout(s)
         \/ Stage(s) \/ StageCleanup(s) \/ MergeStatus(s)
         \/ CallCommit(s) \/ CommitStatus(s) \/ CommitMergeHeads(s)
         \/ CommitParents(s) \/ CommitRefused(s) \/ CommitFinish(s)
         \/ CallCommitAll(s) \/ CommitAllAdd(s) \/ CommitAllStatus(s)
         \/ CommitAllRm(s)
         \/ CallAbort(s) \/ AbortReset(s) \/ AbortCleanup(s)
         \/ CallCheckout(s) \/ CallOrphan(s) \/ CreateCheckout(s)
         \/ CallAdd(s) \/ CallRm(s) \/ IndexWrite(s) \/ Crash(s)
  PROVE  UNCHANGED <<objs, refs, head>>
<1>1. CASE \/ CallMerge(s) \/ CallStageOnly(s) \/ CallFastForward(s)
           \/ FastForwardAnalysis(s) \/ MergeStatus(s)
  BY <1>1 DEF CallMerge, CallStageOnly, CallFastForward, FastForwardAnalysis,
              MergeStatus, Leave, repo
<1>2. CASE \/ CallCommit(s) \/ CommitStatus(s) \/ CommitMergeHeads(s)
           \/ CommitParents(s) \/ CommitRefused(s) \/ CallCommitAll(s)
           \/ CallAbort(s) \/ Crash(s)
  BY <1>2 DEF CallCommit, CommitStatus, ReadStatus, CommitMergeHeads,
              CommitParents, CommitRefused, CallCommitAll, CallAbort, Crash,
              Leave, repo
<1>3. CASE \/ SetTargetCheckout(s) \/ Stage(s) \/ StageCleanup(s)
           \/ CommitFinish(s) \/ AbortReset(s) \/ AbortCleanup(s)
  BY <1>3 DEF SetTargetCheckout, Stage, StageCleanup, CommitFinish,
              AbortReset, AbortCleanup, Leave, repo
<1>4. CASE \/ CommitAllAdd(s) \/ CommitAllStatus(s) \/ CommitAllRm(s)
           \/ CallAdd(s) \/ CallRm(s) \/ IndexWrite(s)
  BY <1>4 DEF CommitAllAdd, CommitAllStatus, CommitAllRm, WriteIndex, CallAdd,
              CallRm, IndexWrite, repo
<1>5. CASE CallCheckout(s) \/ CallOrphan(s) \/ CreateCheckout(s)
  BY <1>5 DEF CallCheckout, CheckoutTree, CallOrphan, CreateCheckout, Leave,
              repo
<1>6. QED
  BY <1>1, <1>2, <1>3, <1>4, <1>5

\* A step that is neither quiet nor a commit: a branch is moved, made or
\* deleted, or HEAD is switched.
LEMMA OtherSteps ==
  ASSUME Next, ~(UNCHANGED <<objs, refs, head>>),
         \A s \in Sessions : ~CommitCreated(s)
  PROVE  \E s \in Sessions : \/ SetTargetMove(s) \/ CallReset(s)
                             \/ CallCreate(s) \/ CallDelete(s)
                             \/ SetHead(s)
<1>1. CASE Edit
  BY <1>1 DEF Edit
<1>2. ASSUME NEW s \in Sessions, Call(s) \/ Continue(s) \/ Crash(s)
      PROVE  \/ SetTargetMove(s) \/ CallReset(s) \/ CallCreate(s)
             \/ CallDelete(s) \/ SetHead(s)
  BY <1>2, QuietSteps DEF Call, Continue
<1>3. QED
  BY <1>1, <1>2 DEF Next

\* Only CommitCreated writes a commit.
LEMMA OnlyCommitsAppend ==
  ASSUME Next, \A s \in Sessions : ~CommitCreated(s)
  PROVE  objs' = objs
<1>1. CASE UNCHANGED <<objs, refs, head>>
  BY <1>1
<1>2. ASSUME NEW s \in Sessions,
             \/ SetTargetMove(s) \/ CallReset(s) \/ CallCreate(s)
             \/ CallDelete(s) \/ SetHead(s)
      PROVE  objs' = objs
  BY <1>2 DEF SetTargetMove, CallReset, SoftReset, MixedReset, HardReset,
              CallCreate, CallDelete, SetHead
<1>3. QED
  BY <1>1, <1>2, OtherSteps

(***************************************************************************)
(* A commit keeps the tip it lands on.                                     *)
(***************************************************************************)

LEMMA CommitKeeps ==
  ASSUME TypeOK, NEW s \in Sessions, CommitCreated(s), NEW b \in Branches,
         refs'[b] # refs[b], refs[b] # 0
  PROVE  refs[b] \in objs'[refs'[b]].past
<1> DEFINE ps == ParentList(fr[s])
           n == Len(objs')
<1>1. /\ refs' = [refs EXCEPT ![head] = n]
      /\ objs'[n] = NewCommit(ps, fr[s].snap)
      /\ ps \in Seq(Ids)
  BY CommitCreatedStep
<1>2. /\ History(objs) /\ Len(objs) \in Nat
      /\ refs \in [Branches -> 0 .. Len(objs)]
  BY DEF TypeOK, RepoOK, History
<1>3. b = head /\ refs'[b] = n
  BY <1>1, <1>2
<1>4. TipIsFirstParent(ps)
  BY DEF CommitCreated, CommitCreate
<1> HIDE DEF ps, n
<1>5. Len(ps) > 0 /\ ps[1] = Tip /\ Tip # 0
  BY <1>3, <1>4 DEF TipIsFirstParent
<1>6. 1 \in DOMAIN ps /\ Tip \in Ids
  BY <1>1, <1>5
<1>7. Tip \in Past(ps[1])
  BY <1>2, <1>5, <1>6, PastFacts DEF Past
<1>8. Tip \in NewCommit(ps, fr[s].snap).past
  BY <1>6, <1>7 DEF NewCommit
<1>9. QED
  BY <1>1, <1>3, <1>8

\* A step that writes a commit keeps the tip of the branch it moves.
LEMMA NextKeepsTip ==
  ASSUME TypeOK, Next, NEW b \in Branches,
         Len(objs') > Len(objs), refs'[b] # refs[b], refs[b] # 0
  PROVE  refs[b] \in objs'[refs'[b]].past
<1>1. Len(objs) \in Nat
  BY DEF TypeOK, RepoOK, History
<1>2. PICK s \in Sessions : CommitCreated(s)
  BY <1>1, OnlyCommitsAppend
<1>3. QED
  BY <1>2, CommitKeeps

\* git_commit and git_merge never drop a commit from a branch, however many
\* sessions move that branch while the call runs.
THEOREM CommitsKeepTips == Spec => CommitKeepsTip
<1> DEFINE Keeps == \A b \in Branches :
                      /\ Len(objs') > Len(objs)
                      /\ refs'[b] # refs[b]
                      /\ refs[b] # 0
                      => refs[b] \in objs'[refs'[b]].past
<1>1. TypeOK /\ [Next]_vars => [Keeps]_vars
  BY NextKeepsTip
<1>2. QED
  BY <1>1, TypeCorrect, PTL DEF Spec, CommitKeepsTip

(***************************************************************************)
(* Spec implements GertHistory.                                            *)
(***************************************************************************)

\* The points where a call holds the commit it works on: before a branch is
\* moved, and in the calls of GertPick.
Holding == {"move", "pickCleanup", "pickStatus", "pickParent", "pickCreate",
            "revert", "rebase"}

\* A call that holds a commit holds an existing one.
MovesExist == \A s \in Sessions : pc[s] \in Holding => fr[s].new # 0

\* A step of one session leaves the others where they are.
LEMMA OtherSessions ==
  ASSUME SessionsOK, NEW s \in Sessions, Call(s) \/ Continue(s) \/ Crash(s),
         NEW t \in Sessions, t # s
  PROVE  pc'[t] = pc[t] /\ fr'[t] = fr[t]
<1> USE DEF Goto, Keep, Return, Leave, SessionsOK
<1>1. CASE \/ CallMerge(s) \/ CallStageOnly(s) \/ CallFastForward(s)
           \/ FastForwardAnalysis(s) \/ MergeStatus(s)
  BY <1>1 DEF CallMerge, CallStageOnly, CallFastForward, FastForwardAnalysis,
              MergeStatus
<1>2. CASE \/ SetTargetCheckout(s) \/ SetTargetMove(s) \/ Stage(s)
           \/ StageCleanup(s)
  BY <1>2 DEF SetTargetCheckout, SetTargetMove, Stage, StageCleanup
<1>3. CASE \/ CallCommit(s) \/ CommitStatus(s) \/ CommitMergeHeads(s)
           \/ CommitParents(s) \/ CommitCreated(s) \/ CommitRefused(s)
           \/ CommitFinish(s)
  BY <1>3 DEF CallCommit, CommitStatus, ReadStatus, CommitMergeHeads,
              CommitParents, CommitCreated, CommitRefused, CommitFinish
<1>4. CASE \/ CallCommitAll(s) \/ CommitAllAdd(s) \/ CommitAllStatus(s)
           \/ CommitAllRm(s)
  BY <1>4 DEF CallCommitAll, CommitAllAdd, CommitAllStatus, CommitAllRm,
              WriteIndex
<1>5. CASE \/ CallAbort(s) \/ AbortReset(s) \/ AbortCleanup(s)
           \/ CallReset(s) \/ Crash(s)
  BY <1>5 DEF CallAbort, AbortReset, AbortCleanup, CallReset, Crash
<1>6. CASE \/ CallCheckout(s) \/ CreateCheckout(s) \/ CallCreate(s)
           \/ SetHead(s)
  BY <1>6 DEF CallCheckout, CheckoutTree, CreateCheckout, CallCreate, SetHead
<1>7. CASE \/ CallOrphan(s) \/ CallDelete(s) \/ CallAdd(s) \/ CallRm(s)
           \/ IndexWrite(s)
  BY <1>7 DEF CallOrphan, CallDelete, CallAdd, CallRm, IndexWrite
<1>8. QED
  BY <1>1, <1>2, <1>3, <1>4, <1>5, <1>6, <1>7 DEF Call, Continue

\* Of these calls only R_git_branch_set_target's checkout holds a commit.
LEMMA OnlyCheckoutMoves ==
  ASSUME SessionsOK, NEW s \in Sessions, Call(s) \/ Continue(s) \/ Crash(s),
         pc'[s] \in Holding
  PROVE  SetTargetCheckout(s)
<1> USE DEF Start, Goto, Return, Leave, SessionsOK, Holding
<1>1. CASE \/ CallMerge(s) \/ CallStageOnly(s) \/ CallFastForward(s)
           \/ FastForwardAnalysis(s) \/ MergeStatus(s)
  BY <1>1 DEF CallMerge, CallStageOnly, CallFastForward, FastForwardAnalysis,
              MergeStatus
<1>2. CASE SetTargetMove(s) \/ Stage(s) \/ StageCleanup(s)
  BY <1>2 DEF SetTargetMove, Stage, StageCleanup
<1>3. CASE \/ CallCommit(s) \/ CommitStatus(s) \/ CommitMergeHeads(s)
           \/ CommitParents(s) \/ CommitCreated(s) \/ CommitRefused(s)
           \/ CommitFinish(s)
  BY <1>3 DEF CallCommit, CommitStatus, ReadStatus, CommitMergeHeads,
              CommitParents, CommitCreated, CommitRefused, CommitFinish
<1>4. CASE \/ CallCommitAll(s) \/ CommitAllAdd(s) \/ CommitAllStatus(s)
           \/ CommitAllRm(s)
  BY <1>4 DEF CallCommitAll, CommitAllAdd, CommitAllStatus, CommitAllRm,
              WriteIndex
<1>5. CASE \/ CallAbort(s) \/ AbortReset(s) \/ AbortCleanup(s)
           \/ CallReset(s) \/ Crash(s)
  BY <1>5 DEF CallAbort, AbortReset, AbortCleanup, CallReset, Crash
<1>6. CASE \/ CallCheckout(s) \/ CreateCheckout(s) \/ CallCreate(s)
           \/ SetHead(s)
  BY <1>6 DEF CallCheckout, CheckoutTree, CreateCheckout, CallCreate, SetHead
<1>7. CASE \/ CallOrphan(s) \/ CallDelete(s) \/ CallAdd(s) \/ CallRm(s)
           \/ IndexWrite(s)
  BY <1>7 DEF CallOrphan, CallDelete, CallAdd, CallRm, IndexWrite
<1>8. QED
  BY <1>1, <1>2, <1>3, <1>4, <1>5, <1>6, <1>7 DEF Call, Continue

LEMMA MovesStep ==
  ASSUME TypeOK, MovesExist, [Next]_vars
  PROVE  MovesExist'
<1>1. SessionsOK
  BY DEF TypeOK
<1>2. CASE UNCHANGED <<pc, fr>>
  BY <1>2 DEF MovesExist
<1>3. ASSUME NEW s \in Sessions, Call(s) \/ Continue(s) \/ Crash(s),
             NEW t \in Sessions, pc'[t] \in Holding
      PROVE  fr'[t].new # 0
  <2>1. CASE t # s
    BY <1>1, <1>3, <2>1, OtherSessions DEF MovesExist
  <2>2. CASE t = s /\ SetTargetCheckout(s)
    <3>1. CASE Leave(s)
      BY <1>1, <1>3, <2>2, <3>1 DEF Leave, Return, Goto, SessionsOK, Holding
    <3>2. CASE ~Leave(s)
      <4>1. /\ refs[fr[s].ref] # 0
            /\ Keep(s, [fr[s] EXCEPT !.onto = head, !.old = Tip,
                                     !.new = refs[fr[s].ref]])
        BY <2>2, <3>2 DEF SetTargetCheckout
      <4>2. QED
        BY <1>1, <2>2, <4>1 DEF Keep, SessionsOK, Frame
    <3>3. QED
      BY <3>1, <3>2
  <2>3. QED
    BY <1>1, <1>3, <2>1, <2>2, OnlyCheckoutMoves
<1>4. QED
  BY <1>2, <1>3 DEF Next, Edit, vars, MovesExist

\* The moves of GertHistory that a branch function makes.
LEMMA BranchMoves ==
  ASSUME TypeOK, MovesExist, NEW s \in Sessions,
         \/ SetTargetMove(s) \/ CallReset(s) \/ CallCreate(s)
         \/ CallDelete(s) \/ SetHead(s)
  PROVE  [SharedHistory!Next]_<<objs, refs, head>>
<1>1. /\ Len(objs) \in Nat
      /\ refs \in [Branches -> 0 .. Len(objs)] /\ head \in Branches
      /\ fr[s] \in Frame /\ FrameOK(fr[s])
  BY DEF TypeOK, RepoOK, SessionsOK, History
<1>2. ASSUME NEW b \in Branches, NEW c \in 0 .. Len(objs), c # 0,
             refs' = [refs EXCEPT ![b] = c], UNCHANGED <<objs, head>>
      PROVE  SharedHistory!Next
  <2>1. c \in SharedHistory!Ids
    BY <1>1, <1>2 DEF SharedHistory!Ids
  <2>2. SharedHistory!FastForward
    BY <1>2, <2>1 DEF SharedHistory!FastForward
  <2>3. QED
    BY <2>2 DEF SharedHistory!Next
<1>3. CASE SetTargetMove(s)
  <2>1. fr[s].new \in 0 .. Len(objs) /\ fr[s].new # 0 /\ fr[s].onto \in Branches
    BY <1>1, <1>3 DEF MovesExist, Holding, SetTargetMove, FrameOK, Frame
  <2>2. /\ \/ refs' = refs
           \/ refs' = [refs EXCEPT ![fr[s].onto] = fr[s].new]
        /\ UNCHANGED <<objs, head>>
    BY <1>3 DEF SetTargetMove
  <2>3. QED
    BY <1>2, <2>1, <2>2
<1>4. CASE CallReset(s)
  <2>1. PICK b \in Branches :
          /\ refs[b] # 0
          /\ SoftReset(refs[b]) \/ MixedReset(refs[b]) \/ HardReset(refs[b])
    BY <1>4 DEF CallReset
  <2>2. refs' = [refs EXCEPT ![head] = refs[b]] /\ UNCHANGED <<objs, head>>
    BY <2>1 DEF SoftReset, MixedReset, HardReset
  <2>3. QED
    BY <1>1, <1>2, <2>1, <2>2
<1>5. CASE CallCreate(s)
  <2>1. PICK b \in Branches, from \in Branches :
          /\ refs[from] # 0
          /\ refs' = [refs EXCEPT ![b] = refs[from]]
          /\ UNCHANGED <<objs, head>>
    BY <1>5 DEF CallCreate
  <2>2. QED
    BY <1>1, <1>2, <2>1
<1>6. CASE CallDelete(s)
  <2>1. SharedHistory!Delete
    BY <1>6 DEF CallDelete, SharedHistory!Delete
  <2>2. QED
    BY <2>1 DEF SharedHistory!Next
<1>7. CASE SetHead(s)
  <2>1. head' \in Branches /\ UNCHANGED <<objs, refs>>
    BY <1>1, <1>7 DEF SetHead, Frame
  <2>2. SharedHistory!Switch
    BY <2>1 DEF SharedHistory!Switch
  <2>3. QED
    BY <2>2 DEF SharedHistory!Next
<1>8. QED
  BY <1>3, <1>4, <1>5, <1>6, <1>7

\* A commit goes on top of the tip it lands on; only on an unborn branch can
\* it have other parents, those of the HEAD that create_commit_list read.
LEMMA CommitMoves ==
  ASSUME TypeOK, NEW s \in Sessions, CommitCreated(s)
  PROVE  SharedHistory!Next
<1> DEFINE ps == ParentList(fr[s])
           t == fr[s].snap
<1>1. /\ refs' = [refs EXCEPT ![head] = Len(objs) + 1]
      /\ objs' = Append(objs, NewCommit(ps, t))
      /\ head' = head /\ TipIsFirstParent(ps)
  BY DEF CommitCreated, CommitCreate, NewId
<1>2. /\ ps \in Seq(Ids) /\ Len(objs) \in Nat /\ SessionsOK
  BY CommitCreatedStep DEF TypeOK, RepoOK, History
<1>3. t \in [Files -> Content]
  <2>1. t \in Index /\ ~HasConflicts(t)
    BY <1>2 DEF SessionsOK, Frame, CommitCreated
  <2>2. QED
    BY <2>1 DEF HasConflicts, Index
<1>4. \/ ps = <<>>
      \/ \E c \in SharedHistory!Ids : ps = <<c>>
      \/ \E c, d \in SharedHistory!Ids : ps = <<c, d>>
  <2>1. \/ ps = <<>> \/ ps = <<fr[s].old>>
        \/ ps = <<fr[s].old, fr[s].mergeParent>>
    BY DEF ParentList
  <2>2. ps = <<fr[s].old>> => fr[s].old \in Ids
    <3>1. ASSUME ps = <<fr[s].old>> PROVE fr[s].old \in Ids
      <4>1. <<fr[s].old>> \in Seq(Ids)
        BY <1>2, <3>1
      <4>2. QED
        BY <4>1
    <3>2. QED
      BY <3>1
  <2>3. ps = <<fr[s].old, fr[s].mergeParent>>
          => fr[s].old \in Ids /\ fr[s].mergeParent \in Ids
    <3>1. ASSUME ps = <<fr[s].old, fr[s].mergeParent>>
          PROVE  fr[s].old \in Ids /\ fr[s].mergeParent \in Ids
      <4>1. <<fr[s].old, fr[s].mergeParent>> \in Seq(Ids)
        BY <1>2, <3>1
      <4>2. QED
        BY <4>1
    <3>2. QED
      BY <3>1
  <2> HIDE DEF ps
  <2>4. QED
    BY <2>1, <2>2, <2>3 DEF SharedHistory!Ids
<1> HIDE DEF ps, t
<1>5. SharedHistory!CommitOn(ps)
  <2>1. \A c : SharedHistory!Past(c) = Past(c)
    BY DEF SharedHistory!Past, Past
  <2>2. NewCommit(ps, t) =
          [parents |-> ps, tree |-> t,
           past |-> {Len(objs) + 1} \cup
                      UNION {SharedHistory!Past(ps[i]) : i \in DOMAIN ps}]
    BY <2>1 DEF NewCommit, NewId
  <2>3. Len(objs') = Len(objs) + 1
    BY <1>1 DEF TypeOK, RepoOK, History
  <2>4. QED
    BY <1>1, <1>3, <2>2, <2>3 DEF SharedHistory!CommitOn, SharedHistory!Added
<1>6. CASE refs[head] = 0
  <2>1. SharedHistory!FirstCommit
    BY <1>4, <1>5, <1>6 DEF SharedHistory!FirstCommit
  <2>2. QED
    BY <2>1 DEF SharedHistory!Next
<1>7. CASE refs[head] # 0
  <2>1. Len(ps) > 0 /\ ps[1] = refs[head]
    BY <1>1, <1>7 DEF TipIsFirstParent
  <2>2. CASE \E c \in SharedHistory!Ids : ps = <<c>>
    <3>1. ps = <<refs[head]>>
      BY <2>1, <2>2
    <3>2. SharedHistory!PlainCommit
      BY <1>5, <1>7, <3>1 DEF SharedHistory!PlainCommit
    <3>3. QED
      BY <3>2 DEF SharedHistory!Next
  <2>3. CASE \E c, d \in SharedHistory!Ids : ps = <<c, d>>
    <3>1. PICK d \in SharedHistory!Ids : ps = <<refs[head], d>>
      BY <2>1, <2>3
    <3>2. SharedHistory!MergeCommit
      BY <1>5, <1>7, <3>1 DEF SharedHistory!MergeCommit
    <3>3. QED
      BY <3>2 DEF SharedHistory!Next
  <2>4. QED
    BY <1>4, <2>1, <2>2, <2>3
<1>8. QED
  BY <1>6, <1>7

\* Every step is a move of GertHistory or changes nothing it shows.
LEMMA NextMoves ==
  ASSUME TypeOK, MovesExist, [Next]_vars
  PROVE  [SharedHistory!Next]_<<objs, refs, head>>
<1>1. CASE UNCHANGED <<objs, refs, head>>
  BY <1>1
<1>2. CASE UNCHANGED vars
  BY <1>2 DEF vars, repo
<1>3. CASE \E s \in Sessions : CommitCreated(s)
  BY <1>3, CommitMoves
<1>4. CASE Next /\ \A s \in Sessions : ~CommitCreated(s)
  BY <1>1, <1>4, OtherSteps, BranchMoves
<1>5. QED
  BY <1>2, <1>3, <1>4

\* However the steps of any number of sessions interleave, and wherever a
\* call dies, history changes by the moves of GertHistory alone.
THEOREM ImplementsHistory == Spec => SharedHistorySpec
<1>1. Init => SharedHistory!Init
  BY DEF Init, RepoInit, SharedHistory!Init
<1>2. Init => MovesExist
  BY DEF Init, MovesExist, Holding
<1>3. TypeOK /\ MovesExist /\ [Next]_vars => MovesExist'
  BY MovesStep
<1>4. TypeOK /\ MovesExist /\ [Next]_vars => [SharedHistory!Next]_SharedHistory!vars
  BY NextMoves DEF SharedHistory!vars
<1>5. QED
  BY <1>1, <1>2, <1>3, <1>4, TypeCorrect, PTL
  DEF Spec, SharedHistorySpec, SharedHistory!Spec

-----------------------------------------------------------------------------
(***************************************************************************)
(* Uncommitted edits are safe from every call that was not told to discard *)
(* them, however the sessions interleave.                                  *)
(***************************************************************************)

\* What a step may do to a file of the working directory.
Harmless(p) ==
  workdir'[p] # workdir[p] => workdir[p] = HeadTree[p] \/ workdir'[p] = HeadTree[p]

\* Nobody resets hard or passes force = TRUE.
NothingForced == Calls \cap {"hard", "force_checkout", "force_create"} = {}

\* A branch creation in progress is not a forced one.
NoForce == \A s \in Sessions : pc[s] = "branchTree" => ~fr[s].force

(***************************************************************************)
(* The libgit2 calls that write the working directory.                     *)
(***************************************************************************)

\* A safe checkout of t is refused when it would replace an edit.
LEMMA SafeHarmless ==
  ASSUME RepoOK, NEW t \in Tree, CheckoutSafeOk(t), CheckoutSafe(t),
         NEW p \in Files
  PROVE  Harmless(p)
BY HeadTreeType DEF CheckoutSafeOk, CheckoutSafe, Harmless

\* The forced checkout of a merge rewrites changed files only where
\* MergeAllowed saw no edit.
LEMMA StageHarmless ==
  ASSUME RepoOK, NEW theirs \in 0 .. Len(objs), NEW new,
         MergeAllowed(new), MergeCheckout(new, theirs), NEW p \in Files
  PROVE  Harmless(p)
<1>1. index[p] # HeadTree[p] => index[p] = new[p] /\ index[p] # Conflict
  BY DEF MergeAllowed
<1>2. new[p] # HeadTree[p] => workdir[p] = index[p]
  BY DEF MergeAllowed
<1>3. workdir'[p] = CASE new[p] = Conflict ->
                           ConflictFile(HeadTree[p], TreeOf(theirs)[p])
                      [] new[p] = Absent /\ Untracked(p) -> workdir[p]
                      [] OTHER -> new[p]
  BY DEF MergeCheckout
<1>4. HeadTree[p] \in Content
  BY HeadTreeType DEF Tree
<1>5. CASE new[p] = Conflict
  BY <1>1, <1>2, <1>4, <1>5, ContentAssumption DEF Harmless
<1>6. CASE new[p] # Conflict /\ new[p] = Absent /\ Untracked(p)
  BY <1>3, <1>6 DEF Harmless
<1>7. CASE new[p] # Conflict /\ ~(new[p] = Absent /\ Untracked(p))
  BY <1>1, <1>2, <1>3, <1>7 DEF Harmless
<1>8. QED
  BY <1>5, <1>6, <1>7

(***************************************************************************)
(* The steps.                                                              *)
(***************************************************************************)

\* The steps that never touch the working directory.
LEMMA WorkdirKept ==
  ASSUME NEW s \in Sessions,
         \/ CallMerge(s) \/ CallStageOnly(s) \/ CallFastForward(s)
         \/ FastForwardAnalysis(s) \/ SetTargetMove(s) \/ StageCleanup(s)
         \/ MergeStatus(s) \/ CallCommit(s) \/ CommitStatus(s)
         \/ CommitMergeHeads(s) \/ CommitParents(s) \/ CommitCreated(s)
         \/ CommitRefused(s) \/ CommitFinish(s)
         \/ CallCommitAll(s) \/ CommitAllAdd(s) \/ CommitAllStatus(s)
         \/ CommitAllRm(s)
         \/ CallAbort(s) \/ AbortCleanup(s) \/ CallOrphan(s)
         \/ CallCreate(s) \/ SetHead(s) \/ CallDelete(s)
         \/ CallAdd(s) \/ CallRm(s) \/ IndexWrite(s) \/ Crash(s)
  PROVE  workdir' = workdir
<1>1. CASE \/ CallMerge(s) \/ CallStageOnly(s) \/ CallFastForward(s)
           \/ FastForwardAnalysis(s) \/ MergeStatus(s) \/ SetTargetMove(s)
           \/ StageCleanup(s) \/ Crash(s)
  BY <1>1 DEF CallMerge, CallStageOnly, CallFastForward, FastForwardAnalysis,
              MergeStatus, SetTargetMove, StageCleanup, Crash, Leave, repo
<1>2. CASE \/ CallCommit(s) \/ CommitStatus(s) \/ CommitMergeHeads(s)
           \/ CommitParents(s) \/ CommitCreated(s) \/ CommitRefused(s)
           \/ CommitFinish(s)
  BY <1>2 DEF CallCommit, CommitStatus, ReadStatus, CommitMergeHeads,
              CommitParents, CommitCreated, CommitRefused, CommitFinish,
              Leave, repo
<1>3. CASE \/ CallCommitAll(s) \/ CommitAllAdd(s) \/ CommitAllStatus(s)
           \/ CommitAllRm(s) \/ CallAbort(s) \/ AbortCleanup(s)
  BY <1>3 DEF CallCommitAll, CommitAllAdd, CommitAllStatus, CommitAllRm,
              WriteIndex, CallAbort, AbortCleanup, repo
<1>4. CASE \/ CallOrphan(s) \/ CallCreate(s) \/ SetHead(s) \/ CallDelete(s)
           \/ CallAdd(s) \/ CallRm(s) \/ IndexWrite(s)
  BY <1>4 DEF CallOrphan, CallCreate, SetHead, CallDelete, CallAdd, CallRm,
              IndexWrite, repo
<1>5. QED
  BY <1>1, <1>2, <1>3, <1>4

\* A session reaches "branchTree" through CallCreate alone, or stays there.
LEMMA OnlyCreateBranches ==
  ASSUME SessionsOK, NEW s \in Sessions, Call(s) \/ Continue(s) \/ Crash(s),
         pc'[s] = "branchTree"
  PROVE  CallCreate(s)
<1> USE DEF Start, Goto, Return, Leave, SessionsOK
<1>1. CASE \/ CallMerge(s) \/ CallStageOnly(s) \/ CallFastForward(s)
           \/ FastForwardAnalysis(s) \/ MergeStatus(s)
  BY <1>1 DEF CallMerge, CallStageOnly, CallFastForward, FastForwardAnalysis,
              MergeStatus
<1>2. CASE \/ SetTargetCheckout(s) \/ SetTargetMove(s) \/ Stage(s)
           \/ StageCleanup(s)
  BY <1>2 DEF SetTargetCheckout, SetTargetMove, Stage, StageCleanup
<1>3. CASE \/ CallCommit(s) \/ CommitStatus(s) \/ CommitMergeHeads(s)
           \/ CommitParents(s) \/ CommitCreated(s) \/ CommitRefused(s)
           \/ CommitFinish(s)
  BY <1>3 DEF CallCommit, CommitStatus, ReadStatus, CommitMergeHeads,
              CommitParents, CommitCreated, CommitRefused, CommitFinish
<1>4. CASE \/ CallCommitAll(s) \/ CommitAllAdd(s) \/ CommitAllStatus(s)
           \/ CommitAllRm(s)
  BY <1>4 DEF CallCommitAll, CommitAllAdd, CommitAllStatus, CommitAllRm,
              WriteIndex
<1>5. CASE \/ CallAbort(s) \/ AbortReset(s) \/ AbortCleanup(s)
           \/ CallReset(s) \/ Crash(s)
  BY <1>5 DEF CallAbort, AbortReset, AbortCleanup, CallReset, Crash
<1>6. CASE CallCheckout(s) \/ CreateCheckout(s) \/ SetHead(s)
  BY <1>6 DEF CallCheckout, CheckoutTree, CreateCheckout, SetHead
<1>7. CASE \/ CallOrphan(s) \/ CallDelete(s) \/ CallAdd(s) \/ CallRm(s)
           \/ IndexWrite(s)
  BY <1>7 DEF CallOrphan, CallDelete, CallAdd, CallRm, IndexWrite
<1>8. QED
  BY <1>1, <1>2, <1>3, <1>4, <1>5, <1>6, <1>7 DEF Call, Continue

LEMMA NoForceStep ==
  ASSUME TypeOK, NoForce, [Next]_vars, "force_create" \notin Calls
  PROVE  NoForce'
<1>1. SessionsOK
  BY DEF TypeOK
<1>2. CASE UNCHANGED <<pc, fr>>
  BY <1>2 DEF NoForce
<1>3. ASSUME NEW s \in Sessions, Call(s) \/ Continue(s) \/ Crash(s),
             NEW t \in Sessions, pc'[t] = "branchTree"
      PROVE  ~fr'[t].force
  <2>1. CASE t # s
    BY <1>1, <1>3, <2>1, OtherSessions DEF NoForce
  <2>2. CASE t = s
    <3>1. CallCreate(s)
      BY <1>1, <1>3, <2>2, OnlyCreateBranches
    <3>2. PICK b \in Branches, from \in Branches,
               checkout \in BOOLEAN, force \in BOOLEAN :
            /\ Start(s, IF force THEN "force_create" ELSE "create")
            /\ IF checkout
                 THEN Keep(s, [NoFrame EXCEPT !.ref = b, !.force = force,
                                              !.new = refs[from]])
                 ELSE UNCHANGED <<pc, fr>>
      BY <3>1 DEF CallCreate
    <3>3. force = FALSE
      BY <3>2 DEF Start
    <3>4. checkout
      BY <1>3, <2>2, <3>2 DEF Start
    <3>5. fr'[s] = [NoFrame EXCEPT !.ref = b, !.force = force,
                                   !.new = refs[from]]
      BY <1>1, <3>2, <3>4 DEF Keep, SessionsOK
    <3>6. QED
      BY <2>2, <3>3, <3>5 DEF NoFrame
  <2>3. QED
    BY <2>1, <2>2
<1>4. QED
  BY <1>2, <1>3 DEF Next, Edit, vars, NoForce

\* The steps that check a tree out.
LEMMA CheckoutSteps ==
  ASSUME TypeOK, NoForce, NEW s \in Sessions, NEW p \in Files,
         Calls \cap {"hard", "force_checkout", "force_create"} = {},
         \/ SetTargetCheckout(s) \/ Stage(s) \/ AbortReset(s) \/ CallReset(s)
         \/ CallCheckout(s) \/ CreateCheckout(s)
  PROVE  Harmless(p)
<1>1. /\ RepoOK /\ FrameOK(fr[s]) /\ fr[s] \in Frame
      /\ refs \in [Branches -> 0 .. Len(objs)] /\ History(objs)
  BY DEF TypeOK, RepoOK, SessionsOK
<1>2. ASSUME workdir' = workdir PROVE Harmless(p)
  BY <1>2 DEF Harmless
<1>3. CASE SetTargetCheckout(s)
  <2>1. TreeOf(refs[fr[s].ref]) \in Tree
    BY <1>1, TreeType DEF Frame
  <2>2. QED
    BY <1>1, <1>2, <1>3, <2>1, SafeHarmless DEF SetTargetCheckout, Leave, repo
<1>4. CASE Stage(s)
  <2>1. refs[fr[s].ref] \in 0 .. Len(objs)
    BY <1>1 DEF Frame
  <2>2. \/ workdir' = workdir
        \/ /\ MergeAllowed(MergeResult(refs[fr[s].ref]))
           /\ MergeCheckout(MergeResult(refs[fr[s].ref]), refs[fr[s].ref])
    BY <1>4 DEF Stage
  <2>3. QED
    BY <1>1, <1>2, <2>1, <2>2, StageHarmless
<1>5. CASE AbortReset(s)
  <2>1. \/ workdir' = workdir
        \/ CheckoutForce(HeadTree)
    BY <1>5 DEF AbortReset, Leave, repo
  <2>2. QED
    BY <1>2, <2>1 DEF CheckoutForce, Harmless
<1>6. CASE CallReset(s)
  <2>1. workdir' = workdir
    BY <1>6 DEF CallReset, Start, SoftReset, MixedReset
  <2>2. QED
    BY <1>2, <2>1
<1>7. CASE CallCheckout(s)
  <2>1. PICK b \in Branches, force \in BOOLEAN :
          /\ Start(s, IF force THEN "force_checkout" ELSE "checkout")
          /\ CheckoutTree(s, b, force)
    BY <1>7 DEF CallCheckout
  <2>2. force = FALSE
    BY <2>1 DEF Start
  <2>3. TreeOf(refs[b]) \in Tree
    BY <1>1, TreeType
  <2>4. CheckoutSafeOk(TreeOf(refs[b])) /\ CheckoutSafe(TreeOf(refs[b]))
    BY <2>1, <2>2 DEF CheckoutTree
  <2>5. QED
    BY <1>1, <2>3, <2>4, SafeHarmless
<1>8. CASE CreateCheckout(s)
  <2>1. ~fr[s].force /\ TreeOf(fr[s].new) \in Tree
    BY <1>1, <1>8, TreeType DEF NoForce, CreateCheckout, FrameOK
  <2>2. \/ workdir' = workdir
        \/ CheckoutSafeOk(TreeOf(fr[s].new)) /\ CheckoutSafe(TreeOf(fr[s].new))
    BY <1>8, <2>1 DEF CreateCheckout, Leave, repo
  <2>3. QED
    BY <1>1, <1>2, <2>1, <2>2, SafeHarmless
<1>9. QED
  BY <1>3, <1>4, <1>5, <1>6, <1>7, <1>8

\* A step of gert is harmless; the user's editor is not gert.
LEMMA NextHarmless ==
  ASSUME NothingForced, TypeOK, NoForce, Next, ~Edit, NEW p \in Files
  PROVE  Harmless(p)
<1>1. PICK s \in Sessions : Call(s) \/ Continue(s) \/ Crash(s)
  BY DEF Next
<1>2. CASE workdir' = workdir
  BY <1>2 DEF Harmless
<1>3. CASE workdir' # workdir
  <2>1. \/ SetTargetCheckout(s) \/ Stage(s) \/ AbortReset(s) \/ CallReset(s)
        \/ CallCheckout(s) \/ CreateCheckout(s)
    BY <1>1, <1>3, WorkdirKept DEF Call, Continue
  <2>2. QED
    BY <2>1, CheckoutSteps DEF NothingForced
<1>4. QED
  BY <1>2, <1>3

\* As long as no session resets hard or forces a checkout, no gert call, of
\* any session and at any point of any other call, replaces an uncommitted
\* edit by what another commit has in that file.
THEOREM EditsKept ==
  NothingForced /\ Spec => EditsNotReplaced
<1>1. Init => NoForce
  BY DEF Init, NoForce
<1>2. NothingForced /\ TypeOK /\ NoForce /\ [Next]_vars => NoForce'
  BY NoForceStep DEF NothingForced
<1> DEFINE Kept == \A f \in Files :
                     ~Edit /\ workdir'[f] # workdir[f]
                     => workdir[f] = HeadTree[f] \/ workdir'[f] = HeadTree[f]
<1>3. NothingForced /\ TypeOK /\ NoForce /\ [Next]_vars => [Kept]_vars
  BY NextHarmless DEF Harmless
<1>4. NothingForced => NothingForced'
  BY DEF NothingForced
<1>5. QED
  BY <1>1, <1>2, <1>3, <1>4, TypeCorrect, PTL DEF Spec, EditsNotReplaced
=============================================================================
