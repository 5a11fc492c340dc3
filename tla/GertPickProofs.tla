--------------------------- MODULE GertPickProofs ---------------------------
(***************************************************************************)
(* In this order: the results about GertMerge, for sessions that           *)
(* cherry-pick, revert and rebase as well; a session that works alone      *)
(* (Alone), whose copies are current; one that also leaves its files to    *)
(* gert (Unattended), which ends every call in good order; what that one   *)
(* does to history; and what a rebase makes of a straight branch.          *)
(***************************************************************************)
EXTENDS GertPick, GertMergeProofs, FiniteSetTheorems, WellFoundedInduction

USE DEF Ids, Tip

(***************************************************************************)
(* Trees and commits.                                                      *)
(***************************************************************************)

\* An index without conflicts is a tree.
LEMMA CleanIndex ==
  ASSUME NEW t \in Index, ~HasConflicts(t)
  PROVE  t \in Tree
BY DEF HasConflicts, Index, Tree

LEMMA ParentTreeType ==
  ASSUME History(objs), NEW c \in Ids
  PROVE  ParentTree(c) \in Tree
<1> DEFINE ps == objs[c].parents
<1>1. Len(objs) \in Nat /\ objs[c] \in Commit /\ WellFormed(objs, c)
  BY DEF History
<1> ps \in Seq(Nat)
  BY <1>1 DEF Commit
<1>2. CASE ps = <<>>
  BY <1>2, ContentAssumption DEF ParentTree, EmptyTree, Tree
<1>3. CASE ps # <<>>
  <2>1. 1 \in DOMAIN ps
    BY <1>1, <1>3
  <2>2. ps[1] \in 1 .. c - 1
    BY <1>1, <2>1 DEF WellFormed
  <2>3. ps[1] \in 0 .. Len(objs)
    BY <1>1, <2>2
  <2>4. QED
    BY <1>3, <2>3, TreeType DEF ParentTree
<1>4. QED
  BY <1>2, <1>3

\* The change of an existing commit, applied to HEAD without conflicts.
LEMMA AppliedType ==
  ASSUME RepoOK, NEW b \in Tree, NEW a \in Tree, Applies(Applied(b, a))
  PROVE  Applied(b, a) \in Tree
<1>1. Applied(b, a) \in Index
  BY HeadTreeType, MergeType DEF Applied
<1>2. QED
  BY <1>1, CleanIndex DEF Applies

\* Writing a commit again adds at most one commit, whose parent is p.
LEMMA RecommitStep ==
  ASSUME History(objs), NEW c \in Ids, NEW p \in Ids, NEW t \in Tree,
         NEW d \in Recommitted(c, p, t), WriteCommit(d, p, t)
  PROVE  /\ History(objs')
         /\ Len(objs) \in Nat /\ Len(objs') \in Nat /\ Len(objs) <= Len(objs')
         /\ d \in 1 .. Len(objs')
         /\ p \in objs'[d].past
         /\ \A e \in Ids : objs'[e] = objs[e]
         /\ \/ objs' = objs /\ d \in Ids
            \/ /\ d = Len(objs) + 1
               /\ objs' = Append(objs, NewCommit(<<p>>, t))
<1>1. Len(objs) \in Nat
  BY DEF History
<1>2. <<p>> \in Seq(Ids) /\ 1 \in DOMAIN <<p>> /\ <<p>>[1] = p
  OBVIOUS
<1>3. p \in objs[p].past /\ Past(p) = objs[p].past
  BY PastFacts DEF Past
<1>4. CASE d = NewId
  <2>1. objs' = Append(objs, NewCommit(<<p>>, t))
    BY <1>4 DEF WriteCommit
  <2>2. /\ History(objs') /\ Len(objs') = Len(objs) + 1
        /\ \A e \in Ids : objs'[e] = objs[e]
        /\ objs'[d] = NewCommit(<<p>>, t)
    BY <1>1, <1>2, <1>4, <2>1, AppendHistory DEF NewId
  <2>3. p \in NewCommit(<<p>>, t).past
    BY <1>2, <1>3 DEF NewCommit
  <2>4. QED
    BY <1>1, <1>4, <2>1, <2>2, <2>3 DEF NewId
<1>5. CASE d # NewId
  <2>1. objs' = objs
    BY <1>5 DEF WriteCommit
  <2>2. d \in Ids /\ SameCommit(d, p, t)
    BY <1>5 DEF Recommitted
  <2>3. WellFormed(objs, d) /\ objs[d].parents = <<p>>
    BY <2>2 DEF History, SameCommit
  <2>4. p \in objs[d].past
    <3>1. objs[d].past = {d} \cup UNION {objs[objs[d].parents[i]].past :
                                           i \in DOMAIN objs[d].parents}
      BY <2>3 DEF WellFormed
    <3>2. objs[objs[d].parents[1]].past \subseteq objs[d].past
      BY <1>2, <2>3, <3>1
    <3>3. QED
      BY <1>3, <2>3, <3>2
  <2>5. QED
    BY <1>1, <2>1, <2>2, <2>4
<1>6. QED
  BY <1>4, <1>5

(***************************************************************************)
(* The invariant.                                                          *)
(***************************************************************************)

\* A cherry-pick commits on top of an existing commit.
ParentsExist == \A s \in Sessions : pc[s] = "pickCreate" => fr[s].old # 0

PickInv == TypeOK /\ MovesExist /\ ParentsExist

\* Steps that read the repository only.
LEMMA PickReads ==
  ASSUME TypeOK, NEW s \in Sessions,
         CallRevert(s) \/ PickStatus(s) \/ PickParent(s) \/ PickRefused(s)
         \/ CallRebase(s)
  PROVE  TypeOK'
<1>1. /\ Len(objs) \in Nat /\ RepoOK /\ SessionsOK /\ History(objs)
      /\ FrameOK(fr[s]) /\ FrameOK(NoFrame)
      /\ refs \in [Branches -> 0 .. Len(objs)] /\ head \in Branches
  BY NoFrameOK DEF TypeOK, RepoOK, SessionsOK, History
<1>2. ASSUME UNCHANGED repo, NEW l \in Labels, NEW f \in Frame,
             Goto(s, l), Keep(s, f), FrameOK(f),
             l \in {"create", "pickCreate"} => ~HasConflicts(f.snap)
      PROVE  TypeOK'
  <2>1. RepoOK' /\ objs' = objs
    BY <1>1, <1>2 DEF RepoOK, repo
  <2>2. QED
    BY <1>2, <2>1, KeepStep DEF TypeOK
<1>3. CASE CallRevert(s)
  <2>1. PICK c \in Past(Tip), commit \in BOOLEAN :
          /\ UNCHANGED repo
          /\ Keep(s, [NoFrame EXCEPT !.op = "pick", !.new = c,
                                     !.doCommit = commit])
          /\ Goto(s, "revert")
    BY <1>3 DEF CallRevert
  <2> DEFINE f == [NoFrame EXCEPT !.op = "pick", !.new = c, !.doCommit = commit]
  <2>2. c \in Ids
    <3>1. Tip # 0 /\ Tip \in Ids
      BY <1>1 DEF Past
    <3>2. QED
      BY <1>1, <3>1, PastFacts DEF Past
  <2>3. f \in Frame /\ FrameOK(f)
    <3>1. c \in Nat /\ c \in 0 .. Len(objs)
      BY <1>1, <2>2
    <3>2. QED
      BY <1>1, <3>1 DEF FrameOK, Frame, NoFrame
  <2>4. QED
    BY <2>1, <2>3, <1>2 DEF Labels
<1>4. CASE PickStatus(s)
  <2>1. CASE Leave(s)
    BY <2>1, LeaveStep
  <2>2. CASE ~Leave(s)
    <3> DEFINE f == [fr[s] EXCEPT !.snap = index]
    <3>1. Keep(s, f) /\ Goto(s, "pickParent") /\ UNCHANGED repo
      BY <1>4, <2>2 DEF PickStatus
    <3>2. f \in Frame /\ FrameOK(f)
      BY <1>1 DEF FrameOK, Frame, RepoOK
    <3>3. QED
      BY <3>1, <3>2, <1>2 DEF Labels
  <2>3. QED
    BY <2>1, <2>2
<1>5. CASE PickParent(s)
  <2>1. CASE Leave(s)
    BY <2>1, LeaveStep
  <2>2. CASE ~Leave(s)
    <3> DEFINE f == [fr[s] EXCEPT !.old = Tip]
    <3>1. /\ Keep(s, f) /\ Goto(s, "pickCreate") /\ UNCHANGED repo
          /\ ~HasConflicts(fr[s].snap)
      BY <1>5, <2>2 DEF PickParent
    <3>2. f \in Frame /\ FrameOK(f) /\ f.snap = fr[s].snap
      <4>1. Tip \in Nat /\ Tip \in 0 .. Len(objs)
        BY <1>1
      <4>2. QED
        BY <1>1, <4>1 DEF FrameOK, Frame
    <3>3. QED
      BY <3>1, <3>2, <1>2 DEF Labels
  <2>3. QED
    BY <2>1, <2>2
<1>6. CASE PickRefused(s)
  BY <1>6, LeaveStep DEF PickRefused
<1>7. CASE CallRebase(s)
  <2>1. PICK b \in Branches :
          LET todo == Todo(refs[b]) IN
          /\ Keep(s, [NoFrame EXCEPT !.op = "rebase", !.ref = b,
                                     !.new = refs[b], !.todo = todo,
                                     !.doCommit = todo # {}])
          /\ Goto(s, IF todo = {} THEN "rebaseTarget" ELSE "rebase")
          /\ Tip # 0
          /\ UNCHANGED repo
    BY <1>7 DEF CallRebase
  <2> DEFINE todo == Todo(refs[b])
             f == [NoFrame EXCEPT !.op = "rebase", !.ref = b, !.new = refs[b],
                                  !.todo = todo, !.doCommit = todo # {}]
             l == IF todo = {} THEN "rebaseTarget" ELSE "rebase"
  <2>2. todo \subseteq Ids
    <3>1. Tip \in Ids
      BY <1>1, <2>1
    <3>2. Past(Tip) \subseteq Ids
      BY <1>1, <3>1, PastFacts DEF Past
    <3>3. QED
      BY <3>2 DEF Todo
  <2>3. Keep(s, f) /\ Goto(s, l) /\ UNCHANGED repo
    BY <2>1
  <2> HIDE DEF todo
  <2>4. f \in Frame /\ FrameOK(f)
    <3>1. refs[b] \in 0 .. Len(objs) /\ refs[b] \in Nat
      BY <1>1
    <3>2. todo \in SUBSET Nat /\ (todo # {}) \in BOOLEAN
      BY <1>1, <2>2
    <3>3. QED
      BY <1>1, <2>2, <3>1, <3>2 DEF FrameOK, Frame, NoFrame
  <2>5. l \in Labels /\ l \notin {"create", "pickCreate"}
    BY DEF Labels
  <2>6. QED
    BY <2>3, <2>4, <2>5, <1>2
<1>8. QED
  BY <1>3, <1>4, <1>5, <1>6, <1>7

\* Steps that check a tree out: of a cherry-pick, a revert, a rebased branch.
LEMMA PickCheckouts ==
  ASSUME TypeOK, MovesExist, NEW s \in Sessions,
         CallCherryPick(s) \/ RevertApply(s) \/ RebaseTarget(s)
  PROVE  /\ TypeOK'
         /\ \/ UNCHANGED workdir
            \/ \E t \in Tree : CheckoutSafeOk(t) /\ CheckoutSafe(t)
<1>1. /\ Len(objs) \in Nat /\ RepoOK /\ SessionsOK /\ History(objs)
      /\ fr[s] \in Frame /\ FrameOK(fr[s])
      /\ NoFrame \in Frame /\ FrameOK(NoFrame)
      /\ refs \in [Branches -> 0 .. Len(objs)] /\ head \in Branches
  BY NoFrameOK DEF TypeOK, RepoOK, SessionsOK, History, FrameOK
<1>2. ASSUME NEW t \in Tree, CheckoutSafeOk(t), CheckoutSafe(t),
             UNCHANGED <<objs, refs, head, mergeHead, origHead>>
      PROVE  RepoOK'
  <2>1. index' \in Index /\ workdir' \in Tree
    BY <1>1, <1>2, CheckoutType
  <2>2. QED
    BY <1>1, <1>2, <2>1, RepoStep DEF RepoOK
<1>3. ASSUME Leave(s)
      PROVE  TypeOK' /\ UNCHANGED workdir
  BY <1>3, LeaveStep DEF Leave, repo
<1>4. CASE CallCherryPick(s)
  <2>1. PICK c \in Ids :
          LET new == Applied(ParentTree(c), TreeOf(c)) IN
          /\ Applies(new) /\ CheckoutSafe(new)
          /\ Keep(s, [NoFrame EXCEPT !.op = "pick", !.new = c])
          /\ Goto(s, "pickCleanup")
          /\ UNCHANGED <<objs, refs, head, mergeHead, origHead>>
    BY <1>4 DEF CallCherryPick
  <2> DEFINE new == Applied(ParentTree(c), TreeOf(c))
             f == [NoFrame EXCEPT !.op = "pick", !.new = c]
  <2>2. ParentTree(c) \in Tree /\ TreeOf(c) \in Tree
    BY <1>1, ParentTreeType, TreeType
  <2>3. new \in Tree /\ CheckoutSafeOk(new)
    BY <1>1, <2>1, <2>2, AppliedType DEF Applies
  <2>4. RepoOK'
    BY <1>2, <2>1, <2>3
  <2>5. f \in Frame /\ FrameOK(f)
    <3>1. c \in Nat /\ c \in 0 .. Len(objs)
      BY <1>1
    <3>2. QED
      BY <1>1, <3>1 DEF FrameOK, Frame
  <2>6. SessionsOK'
    BY <2>1, <2>5, KeepStep DEF Labels
  <2>7. QED
    BY <2>1, <2>3, <2>4, <2>6 DEF TypeOK
<1>5. CASE RevertApply(s)
  <2> DEFINE c == fr[s].new
             new == Applied(TreeOf(c), ParentTree(c))
  <2>1. CASE Leave(s)
    BY <2>1, <1>3
  <2>2. CASE ~Leave(s)
    <3>1. /\ Applies(new) /\ CheckoutSafe(new) /\ Goto(s, "revertCleanup")
          /\ UNCHANGED <<objs, refs, head, mergeHead, origHead, fr>>
      BY <1>5, <2>2 DEF RevertApply
    <3>2. new \in Tree /\ CheckoutSafeOk(new)
      <4>1. TreeOf(c) \in Tree
        BY <1>1, TreeType DEF FrameOK
      <4>2. c \in Ids
        BY <1>1, <1>5 DEF FrameOK, RevertApply, MovesExist, Holding
      <4>3. QED
        BY <1>1, <3>1, <4>1, <4>2, ParentTreeType, AppliedType DEF Applies
    <3>3. RepoOK'
      BY <1>2, <3>1, <3>2
    <3>4. SessionsOK'
      BY <1>1, <3>1, GotoStep DEF Labels
    <3>5. QED
      BY <3>1, <3>2, <3>3, <3>4 DEF TypeOK
  <2>3. QED
    BY <2>1, <2>2
<1>6. CASE RebaseTarget(s)
  <2> DEFINE target == IF fr[s].doCommit THEN fr[s].new ELSE refs[fr[s].ref]
             f == [fr[s] EXCEPT !.onto = head, !.old = Tip, !.new = target]
  <2>1. CASE Leave(s)
    BY <2>1, <1>3
  <2>2. CASE ~Leave(s)
    <3>1. /\ CheckoutSafeOk(TreeOf(target)) /\ CheckoutSafe(TreeOf(target))
          /\ Keep(s, f) /\ Goto(s, "move")
          /\ UNCHANGED <<objs, refs, head, mergeHead, origHead>>
      BY <1>6, <2>2 DEF RebaseTarget
    <3>2. target \in 0 .. Len(objs)
      BY <1>1 DEF FrameOK, Frame
    <3>3. TreeOf(target) \in Tree
      BY <1>1, <3>2, TreeType
    <3>4. RepoOK'
      BY <1>2, <3>1, <3>3
    <3>5. f \in Frame /\ FrameOK(f)
      <4>1. target \in Nat /\ Tip \in Nat /\ Tip \in 0 .. Len(objs)
        BY <1>1, <3>2
      <4> HIDE DEF target
      <4>2. QED
        BY <1>1, <3>2, <4>1 DEF FrameOK, Frame
    <3>6. SessionsOK'
      BY <3>1, <3>5, KeepStep DEF Labels
    <3>7. QED
      BY <3>1, <3>3, <3>4, <3>6 DEF TypeOK
  <2>3. QED
    BY <2>1, <2>2
<1>7. QED
  BY <1>4, <1>5, <1>6

\* Steps that only remove state files.
LEMMA PickCleanups ==
  ASSUME TypeOK, NEW s \in Sessions,
         PickCleanup(s) \/ PickFinish(s) \/ RevertCleanup(s)
  PROVE  TypeOK' /\ UNCHANGED <<objs, refs, head, workdir>>
<1>1. Len(objs) \in Nat /\ RepoOK
  BY DEF TypeOK, RepoOK, History
<1>2. /\ mergeHead' = 0
      /\ UNCHANGED <<objs, refs, head, index, workdir, origHead>>
      /\ \/ UNCHANGED fr /\ (Goto(s, "pickStatus") \/ Goto(s, "commit"))
         \/ Return(s)
  BY DEF PickCleanup, PickFinish, RevertCleanup, StateCleanup
<1>3. RepoOK'
  BY <1>1, <1>2, RepoStep DEF RepoOK
<1>4. SessionsOK'
  BY <1>1, <1>2, GotoStep, ReturnStep DEF Labels
<1>5. QED
  BY <1>2, <1>3, <1>4 DEF TypeOK

\* The commit of a cherry-pick: it lands on the tip and keeps it, or starts
\* an unborn branch.
LEMMA PickCreateStep ==
  ASSUME PickInv, NEW s \in Sessions, PickCreate(s)
  PROVE  /\ TypeOK' /\ UNCHANGED <<head, workdir>>
         /\ \E c, p \in Ids, t \in Tree : \E d \in Recommitted(c, p, t) :
              /\ WriteCommit(d, p, t)
              /\ refs' = [refs EXCEPT ![head] = d]
              /\ Tip # 0 => Tip = p
<1> DEFINE c == fr[s].new
           p == fr[s].old
           t == fr[s].snap
<1>1. /\ TypeOK /\ RepoOK /\ SessionsOK /\ History(objs) /\ FrameOK(fr[s])
      /\ head \in Branches /\ refs \in [Branches -> 0 .. Len(objs)]
      /\ fr[s] \in Frame
  BY DEF PickInv, TypeOK, RepoOK, SessionsOK, FrameOK
<1>2. c \in Ids /\ p \in Ids
  <2>1. c # 0 /\ p # 0
    BY DEF PickInv, MovesExist, ParentsExist, Holding, PickCreate
  <2>2. QED
    BY <1>1, <2>1 DEF FrameOK
<1>3. t \in Tree
  <2>1. t \in Index /\ ~HasConflicts(t)
    BY <1>1 DEF SessionsOK, Frame, PickCreate
  <2>2. QED
    BY <2>1, CleanIndex
<1>4. PICK d \in Recommitted(c, p, t) :
        /\ WriteCommit(d, p, t)
        /\ refs' = [refs EXCEPT ![head] = d]
        /\ Goto(s, "pickFinish")
        /\ UNCHANGED <<head, index, workdir, mergeHead, origHead, fr>>
  BY DEF PickCreate
<1>5. Tip # 0 => Tip = p
  BY DEF PickCreate, TipIsFirstParent
<1> HIDE DEF c, p, t
<1>6. /\ History(objs') /\ d \in 1 .. Len(objs')
      /\ Len(objs) \in Nat /\ Len(objs') \in Nat /\ Len(objs) <= Len(objs')
  BY <1>1, <1>2, <1>3, <1>4, RecommitStep
<1>7. RepoOK'
  <2>1. refs' \in [Branches -> 0 .. Len(objs')]
    BY <1>1, <1>4, <1>6
  <2>2. /\ mergeHead \in 0 .. Len(objs') /\ origHead \in 0 .. Len(objs')
        /\ index \in Index /\ workdir \in Tree
    BY <1>1, <1>6 DEF RepoOK
  <2>3. QED
    BY <1>1, <1>4, <1>6, <2>1, <2>2 DEF RepoOK
<1>8. SessionsOK'
  BY <1>1, <1>4, <1>6, GotoStep DEF Labels
<1>9. QED
  BY <1>2, <1>3, <1>4, <1>5, <1>7, <1>8 DEF TypeOK

\* A rebase writes its commits without touching any branch.
LEMMA RebaseNextStep ==
  ASSUME PickInv, NEW s \in Sessions, RebaseNext(s)
  PROVE  /\ TypeOK' /\ UNCHANGED <<refs, head, workdir>>
         /\ \/ UNCHANGED objs
            \/ \E c, p \in Ids, t \in Tree : \E d \in Recommitted(c, p, t) :
                 WriteCommit(d, p, t)
         /\ pc'[s] \in Holding => fr'[s].new # 0
<1> DEFINE p == fr[s].new
<1>1. /\ TypeOK /\ RepoOK /\ SessionsOK /\ History(objs) /\ FrameOK(fr[s])
      /\ head \in Branches /\ refs \in [Branches -> 0 .. Len(objs)]
      /\ fr[s] \in Frame
  BY DEF PickInv, TypeOK, RepoOK, SessionsOK, FrameOK
<1>2. p \in Ids
  <2>1. p # 0
    BY DEF PickInv, MovesExist, Holding, RebaseNext
  <2>2. QED
    BY <1>1, <2>1 DEF FrameOK
<1>3. CASE Leave(s)
  <2>1. TypeOK' /\ UNCHANGED repo
    BY <1>1, <1>3, LeaveStep DEF Leave
  <2>2. pc'[s] \notin Holding
    BY <1>1, <1>3 DEF Leave, Return, Goto, SessionsOK, Holding
  <2>3. QED
    BY <2>1, <2>2 DEF repo
<1>4. CASE ~Leave(s)
  <2>1. PICK c \in NextTodo(fr[s].todo) :
          /\ Replays(s, c)
          /\ \E d \in Recommitted(c, p, ReplayTree(s, c)) :
               /\ WriteCommit(d, p, ReplayTree(s, c))
               /\ Keep(s, [fr[s] EXCEPT !.new = d, !.todo = @ \ {c}])
               /\ Goto(s, IF fr[s].todo = {c} THEN "rebaseTarget" ELSE "rebase")
               /\ UNCHANGED <<refs, head, index, workdir, mergeHead, origHead>>
    BY <1>4 DEF RebaseNext
  <2> DEFINE t == ReplayTree(s, c)
             l == IF fr[s].todo = {c} THEN "rebaseTarget" ELSE "rebase"
  <2>2. PICK d \in Recommitted(c, p, t) :
          /\ WriteCommit(d, p, t)
          /\ Keep(s, [fr[s] EXCEPT !.new = d, !.todo = @ \ {c}])
          /\ Goto(s, l)
          /\ UNCHANGED <<refs, head, index, workdir, mergeHead, origHead>>
    BY <2>1
  <2>3. c \in Ids
    BY <1>1 DEF NextTodo, FrameOK
  <2>4. t \in Tree
    <3>1. /\ ParentTree(c) \in Tree /\ TreeOf(c) \in Tree
          /\ TreeOf(p) \in Tree
      BY <1>1, <1>2, <2>3, ParentTreeType, TreeType
    <3>2. t \in Index
      BY <3>1, MergeType DEF ReplayTree
    <3>3. QED
      BY <2>1, <3>2, CleanIndex DEF Replays
  <2> DEFINE f == [fr[s] EXCEPT !.new = d, !.todo = @ \ {c}]
  <2> HIDE DEF p, t
  <2>5. /\ History(objs') /\ d \in 1 .. Len(objs')
        /\ Len(objs) \in Nat /\ Len(objs') \in Nat /\ Len(objs) <= Len(objs')
    BY <1>1, <1>2, <2>2, <2>3, <2>4, RecommitStep
  <2>6. RepoOK'
    <3>1. /\ mergeHead \in 0 .. Len(objs') /\ origHead \in 0 .. Len(objs')
          /\ refs \in [Branches -> 0 .. Len(objs')]
          /\ index \in Index /\ workdir \in Tree
      BY <1>1, <2>5 DEF RepoOK
    <3>2. QED
      BY <1>1, <2>2, <2>5, <3>1 DEF RepoOK
  <2>7. /\ f \in Frame
        /\ f.old \in 0 .. Len(objs') /\ f.new \in 0 .. Len(objs')
        /\ f.mergeParent \in 0 .. Len(objs')
        /\ f.todo \subseteq 1 .. Len(objs')
        /\ f.new = d /\ d # 0
    <3>1. d \in Nat /\ d \in 0 .. Len(objs') /\ d # 0
      BY <2>5
    <3>2. f \in Frame /\ f.new = d
      BY <1>1, <3>1 DEF Frame
    <3>3. /\ f.old = fr[s].old /\ f.mergeParent = fr[s].mergeParent
          /\ f.todo \subseteq fr[s].todo
      BY <1>1 DEF Frame
    <3>4. QED
      BY <1>1, <2>5, <3>1, <3>2, <3>3 DEF FrameOK
  <2>8. /\ l \in Labels /\ l \notin {"create", "pickCreate"}
        /\ pc' = [pc EXCEPT ![s] = l] /\ fr' = [fr EXCEPT ![s] = f]
    BY <2>2 DEF Labels, Goto, Keep
  <2> HIDE DEF f, l
  <2>9. SessionsOK'
    BY <1>1, <2>5, <2>7, <2>8, SessionStep
  <2>10. fr'[s].new # 0
    BY <1>1, <2>7, <2>8 DEF SessionsOK
  <2>11. QED
    BY <1>2, <2>2, <2>3, <2>4, <2>6, <2>9, <2>10 DEF TypeOK
<1>5. QED
  BY <1>3, <1>4

(***************************************************************************)
(* The steps together.                                                     *)
(***************************************************************************)

\* A step of one session leaves the others where they are.
LEMMA OtherPickSessions ==
  ASSUME SessionsOK, NEW s \in Sessions, PickStep(s),
         NEW t \in Sessions, t # s
  PROVE  pc'[t] = pc[t] /\ fr'[t] = fr[t]
<1> USE DEF Goto, Keep, Return, Leave, SessionsOK
<1>1. CASE CallCherryPick(s) \/ CallRevert(s) \/ CallRebase(s)
  BY <1>1 DEF CallCherryPick, CallRevert, CallRebase
<1>2. CASE \/ PickCleanup(s) \/ PickStatus(s) \/ PickParent(s)
           \/ PickRefused(s) \/ PickFinish(s)
  BY <1>2 DEF PickCleanup, PickStatus, PickParent, PickRefused, PickFinish
<1>3. CASE PickCreate(s)
  BY <1>3 DEF PickCreate
<1>4. CASE RevertApply(s) \/ RevertCleanup(s) \/ RebaseTarget(s)
  BY <1>4 DEF RevertApply, RevertCleanup, RebaseTarget
<1>5. CASE RebaseNext(s)
  BY <1>5 DEF RebaseNext
<1>6. QED
  BY <1>1, <1>2, <1>3, <1>4, <1>5 DEF PickStep, PickContinue

\* A cherry-pick, revert or rebase that holds a commit holds an existing one,
\* and a cherry-pick reads its parent before it commits.
LEMMA PickHolds ==
  ASSUME PickInv, NEW s \in Sessions, PickStep(s)
  PROVE  /\ pc'[s] \in Holding => fr'[s].new # 0
         /\ pc'[s] = "pickCreate" => fr'[s].old # 0
<1>1. /\ SessionsOK /\ fr[s] \in Frame /\ Len(objs) \in Nat /\ RepoOK
      /\ pc[s] \in Holding => fr[s].new # 0
      /\ FrameOK(NoFrame)
  BY NoFrameOK DEF PickInv, TypeOK, RepoOK, SessionsOK, History, MovesExist
<1>2. ASSUME Return(s) PROVE pc'[s] = "idle"
  BY <1>1, <1>2 DEF Return, Goto, SessionsOK
<1>3. CASE CallCherryPick(s)
  <2>1. PICK c \in Ids : /\ Keep(s, [NoFrame EXCEPT !.op = "pick", !.new = c])
                         /\ Goto(s, "pickCleanup")
    BY <1>3 DEF CallCherryPick
  <2>2. QED
    BY <1>1, <2>1 DEF Keep, Goto, SessionsOK, NoFrame
<1>4. CASE CallRevert(s)
  <2>1. PICK c \in Past(Tip), commit \in BOOLEAN :
          /\ Keep(s, [NoFrame EXCEPT !.op = "pick", !.new = c,
                                     !.doCommit = commit])
          /\ Goto(s, "revert")
    BY <1>4 DEF CallRevert
  <2>2. c # 0
    <3>1. Tip \in Ids /\ History(objs)
      BY <1>1 DEF Past, RepoOK
    <3>2. QED
      BY <1>1, <3>1, PastFacts DEF Past
  <2>3. QED
    BY <1>1, <2>1, <2>2 DEF Keep, Goto, SessionsOK, NoFrame
<1>5. CASE CallRebase(s)
  <2>1. PICK b \in Branches :
          /\ refs[b] # 0
          /\ Keep(s, [NoFrame EXCEPT !.op = "rebase", !.ref = b,
                        !.new = refs[b], !.todo = Todo(refs[b]),
                        !.doCommit = Todo(refs[b]) # {}])
          /\ Goto(s, IF Todo(refs[b]) = {} THEN "rebaseTarget" ELSE "rebase")
    BY <1>5 DEF CallRebase
  <2>2. QED
    BY <1>1, <2>1 DEF Keep, Goto, SessionsOK, NoFrame
<1>6. CASE PickCleanup(s) \/ PickCreate(s)
  BY <1>1, <1>6 DEF PickCleanup, PickCreate, Goto, SessionsOK, Holding
<1>7. CASE PickStatus(s) \/ PickParent(s)
  <2>1. CASE Leave(s)
    BY <2>1, <1>2 DEF Leave, Holding
  <2>2. CASE ~Leave(s)
    <3>1. /\ pc[s] \in Holding /\ fr'[s].new = fr[s].new
          /\ \/ pc'[s] = "pickParent"
             \/ pc'[s] = "pickCreate" /\ fr'[s].old = Tip /\ Tip # 0
      BY <1>1, <1>7, <2>2
      DEF PickStatus, PickParent, Keep, Goto, SessionsOK, Holding, Frame
    <3>2. QED
      BY <1>1, <3>1
  <2>3. QED
    BY <2>1, <2>2
<1>8. CASE PickRefused(s) \/ PickFinish(s)
  BY <1>2, <1>8 DEF PickRefused, PickFinish, Leave, Holding
<1>9. CASE RevertApply(s) \/ RevertCleanup(s)
  BY <1>1, <1>2, <1>9
  DEF RevertApply, RevertCleanup, Leave, Goto, SessionsOK, Holding
<1>10. CASE RebaseTarget(s)
  <2>1. CASE Leave(s)
    BY <2>1, <1>2 DEF Leave, Holding
  <2>2. CASE ~Leave(s)
    <3> DEFINE target == IF fr[s].doCommit THEN fr[s].new ELSE refs[fr[s].ref]
    <3>1. /\ target # 0
          /\ Keep(s, [fr[s] EXCEPT !.onto = head, !.old = Tip, !.new = target])
          /\ Goto(s, "move")
      BY <1>10, <2>2 DEF RebaseTarget
    <3>2. QED
      BY <1>1, <3>1 DEF Keep, Goto, SessionsOK, Frame
  <2>3. QED
    BY <2>1, <2>2
<1>11. CASE RebaseNext(s)
  <2>1. pc'[s] # "pickCreate"
    BY <1>1, <1>11 DEF RebaseNext, Leave, Return, Goto, SessionsOK
  <2>2. QED
    BY <1>11, <2>1, RebaseNextStep
<1>12. QED
  BY <1>3, <1>4, <1>5, <1>6, <1>7, <1>8, <1>9, <1>10, <1>11
  DEF PickStep, PickContinue

\* No call of GertMerge gets to a cherry-pick's commit.
LEMMA NoPickCreate ==
  ASSUME PickInv, Next
  PROVE  ParentsExist'
<1>1. SessionsOK
  BY DEF PickInv, TypeOK
<1>2. CASE Edit
  BY <1>2 DEF Edit, PickInv, ParentsExist
<1>3. ASSUME NEW s \in Sessions, Call(s) \/ Continue(s) \/ Crash(s),
             NEW t \in Sessions, pc'[t] = "pickCreate"
      PROVE  fr'[t].old # 0
  <2>1. CASE t # s
    BY <1>1, <1>3, <2>1, OtherSessions DEF PickInv, ParentsExist
  <2>2. CASE t = s
    <3>1. SetTargetCheckout(s)
      BY <1>1, <1>3, <2>2, OnlyCheckoutMoves DEF Holding
    <3>2. QED
      BY <1>1, <1>3, <2>2, <3>1
      DEF SetTargetCheckout, Leave, Return, Goto, SessionsOK
  <2>3. QED
    BY <2>1, <2>2
<1>4. QED
  BY <1>2, <1>3 DEF Next, ParentsExist

LEMMA PickTypes ==
  ASSUME PickInv, NEW s \in Sessions, PickStep(s)
  PROVE  TypeOK'
BY PickReads, PickCheckouts, PickCleanups, PickCreateStep, RebaseNextStep
DEF PickInv, PickStep, PickContinue

LEMMA PickInvStep ==
  ASSUME PickInv, [PickNext]_vars
  PROVE  PickInv'
<1>1. CASE [Next]_vars
  <2>1. TypeOK' /\ MovesExist'
    BY <1>1, StepOK, MovesStep DEF PickInv
  <2>2. ParentsExist'
    <3>1. CASE Next
      BY <3>1, NoPickCreate
    <3>2. CASE UNCHANGED vars
      BY <3>2 DEF PickInv, ParentsExist, vars
    <3>3. QED
      BY <1>1, <3>1, <3>2
  <2>3. QED
    BY <2>1, <2>2 DEF PickInv
<1>2. ASSUME NEW s \in Sessions, PickStep(s)
      PROVE  PickInv'
  <2>1. TypeOK'
    BY <1>2, PickTypes
  <2>2. ASSUME NEW t \in Sessions
        PROVE  /\ pc'[t] \in Holding => fr'[t].new # 0
               /\ pc'[t] = "pickCreate" => fr'[t].old # 0
    <3>1. CASE t = s
      BY <1>2, <3>1, PickHolds
    <3>2. CASE t # s
      BY <1>2, <3>2, OtherPickSessions
      DEF PickInv, TypeOK, MovesExist, ParentsExist
    <3>3. QED
      BY <3>1, <3>2
  <2>3. QED
    BY <2>1, <2>2 DEF PickInv, MovesExist, ParentsExist
<1>3. QED
  BY <1>1, <1>2 DEF PickNext

\* The invariant holds initially and is kept, so it holds in every state.
LEMMA PickInvariant == PickSpec => []PickInv
<1>1. Init => PickInv
  BY InitOK DEF Init, PickInv, MovesExist, ParentsExist, Holding
<1>2. PickInv /\ [PickNext]_vars => PickInv'
  BY PickInvStep
<1>3. QED
  BY <1>1, <1>2, PTL DEF PickSpec

\* No cherry-pick, revert or rebase, alone or among other sessions, leaves a
\* reference to a commit that does not exist, or commits a conflict.
THEOREM PickTypeCorrect == PickSpec => []TypeOK
<1>1. PickInv => TypeOK
  BY DEF PickInv
<1>2. QED
  BY <1>1, PickInvariant, PTL

(***************************************************************************)
(* Branches, history and edits.                                            *)
(***************************************************************************)

\* What the steps of a cherry-pick, revert or rebase do to history.
LEMMA PickMoves ==
  ASSUME PickInv, NEW s \in Sessions, PickStep(s)
  PROVE  \/ UNCHANGED <<objs, refs, head>>
         \/ \E c, p \in Ids, t \in Tree : \E d \in Recommitted(c, p, t) :
              /\ WriteCommit(d, p, t)
              /\ head' = head
              /\ \/ refs' = refs
                 \/ refs' = [refs EXCEPT ![head] = d] /\ (Tip # 0 => Tip = p)
<1>1. CASE \/ CallCherryPick(s) \/ CallRevert(s) \/ CallRebase(s)
           \/ PickStatus(s) \/ PickParent(s) \/ PickRefused(s)
           \/ RevertApply(s) \/ RebaseTarget(s)
  BY <1>1 DEF CallCherryPick, CallRevert, CallRebase, PickStatus, PickParent,
              PickRefused, RevertApply, RebaseTarget, Leave, repo
<1>2. CASE PickCleanup(s) \/ PickFinish(s) \/ RevertCleanup(s)
  BY <1>2, PickCleanups DEF PickInv
<1>3. CASE PickCreate(s)
  BY <1>3, PickCreateStep
<1>4. CASE RebaseNext(s)
  BY <1>4, RebaseNextStep
<1>5. QED
  BY <1>1, <1>2, <1>3, <1>4 DEF PickStep, PickContinue

\* A cherry-pick never drops commits from the branch it lands on, and a
\* rebase writes its commits where no branch sees them.
THEOREM PicksKeepTips == PickSpec => CommitKeepsTip
<1> DEFINE Keeps == \A b \in Branches :
                      /\ Len(objs') > Len(objs)
                      /\ refs'[b] # refs[b]
                      /\ refs[b] # 0
                      => refs[b] \in objs'[refs'[b]].past
<1>1. PickInv /\ [PickNext]_vars => [Keeps]_vars
  <2> SUFFICES ASSUME PickInv, PickNext, NEW b \in Branches,
                      Len(objs') > Len(objs), refs'[b] # refs[b], refs[b] # 0
               PROVE  refs[b] \in objs'[refs'[b]].past
    OBVIOUS
  <2>1. /\ History(objs) /\ Len(objs) \in Nat
        /\ refs \in [Branches -> 0 .. Len(objs)]
    BY DEF PickInv, TypeOK, RepoOK, History
  <2>2. CASE Next
    BY <2>2, NextKeepsTip DEF PickInv
  <2>3. ASSUME NEW s \in Sessions, PickStep(s)
        PROVE  refs[b] \in objs'[refs'[b]].past
    <3>1. PICK c \in Ids, p \in Ids, t \in Tree :
            \E d \in Recommitted(c, p, t) :
              /\ WriteCommit(d, p, t)
              /\ refs' = [refs EXCEPT ![head] = d] /\ (Tip # 0 => Tip = p)
      BY <2>3, PickMoves
    <3>2. PICK d \in Recommitted(c, p, t) :
            /\ WriteCommit(d, p, t)
            /\ refs' = [refs EXCEPT ![head] = d] /\ (Tip # 0 => Tip = p)
      BY <3>1
    <3>3. b = head /\ refs'[b] = d /\ refs[b] = p
      BY <2>1, <3>2
    <3>4. QED
      BY <2>1, <3>2, <3>3, RecommitStep
  <2>4. QED
    BY <2>2, <2>3 DEF PickNext
<1>2. QED
  BY <1>1, PickInvariant, PTL DEF PickSpec, CommitKeepsTip

\* Cherry-picks, reverts and rebases of any number of sessions change history
\* by the moves of GertHistory alone.
THEOREM PicksImplementHistory == PickSpec => SharedHistorySpec
<1>1. Init => SharedHistory!Init
  BY DEF Init, RepoInit, SharedHistory!Init
<1>2. PickInv /\ [PickNext]_vars => [SharedHistory!Next]_SharedHistory!vars
  <2> SUFFICES ASSUME PickInv, [PickNext]_vars
               PROVE  [SharedHistory!Next]_<<objs, refs, head>>
    BY DEF SharedHistory!vars
  <2>1. CASE [Next]_vars
    BY <2>1, NextMoves DEF PickInv
  <2>2. ASSUME NEW s \in Sessions, PickStep(s)
        PROVE  [SharedHistory!Next]_<<objs, refs, head>>
    <3>1. CASE UNCHANGED <<objs, refs, head>>
      BY <3>1
    <3>2. CASE ~UNCHANGED <<objs, refs, head>>
      <4>1. PICK c \in Ids, p \in Ids, t \in Tree :
              \E d \in Recommitted(c, p, t) :
                /\ WriteCommit(d, p, t)
                /\ head' = head
                /\ \/ refs' = refs
                   \/ refs' = [refs EXCEPT ![head] = d] /\ (Tip # 0 => Tip = p)
        BY <2>2, <3>2, PickMoves
      <4>2. PICK d \in Recommitted(c, p, t) :
              /\ WriteCommit(d, p, t)
              /\ head' = head
              /\ \/ refs' = refs
                 \/ refs' = [refs EXCEPT ![head] = d] /\ (Tip # 0 => Tip = p)
        BY <4>1
      <4>3. /\ History(objs) /\ Len(objs) \in Nat /\ head \in Branches
            /\ refs \in [Branches -> 0 .. Len(objs)]
        BY DEF PickInv, TypeOK, RepoOK, History
      <4>4. p \in SharedHistory!Ids
        BY DEF SharedHistory!Ids
      <4>5. CASE objs' = objs /\ d \in Ids
        <5>1. refs' = [refs EXCEPT ![head] = d]
          BY <3>2, <4>2, <4>5
        <5>2. SharedHistory!FastForward
          BY <4>2, <4>3, <4>5, <5>1
          DEF SharedHistory!FastForward, SharedHistory!Ids
        <5>3. QED
          BY <5>2 DEF SharedHistory!Next
      <4>6. CASE d = Len(objs) + 1 /\ objs' = Append(objs, NewCommit(<<p>>, t))
        <5>1. SharedHistory!Added(<<p>>)
          <6>1. \A e : SharedHistory!Past(e) = Past(e)
            BY DEF SharedHistory!Past, Past
          <6>2. NewCommit(<<p>>, t) =
                  [parents |-> <<p>>, tree |-> t,
                   past |-> {Len(objs) + 1} \cup
                     UNION {SharedHistory!Past(<<p>>[i]) : i \in DOMAIN <<p>>}]
            BY <6>1 DEF NewCommit, NewId
          <6>3. Len(objs') = Len(objs) + 1
            BY <4>6 DEF TypeOK, RepoOK, History
          <6>4. QED
            BY <4>6, <6>2, <6>3 DEF SharedHistory!Added, Tree
        <5>2. CASE refs' = refs
          <6>1. SharedHistory!Replay
            BY <4>2, <4>4, <5>1, <5>2 DEF SharedHistory!Replay
          <6>2. QED
            BY <6>1 DEF SharedHistory!Next
        <5>3. CASE refs' = [refs EXCEPT ![head] = d] /\ (Tip # 0 => Tip = p)
          <6>1. SharedHistory!CommitOn(<<p>>)
            BY <4>2, <4>6, <5>1, <5>3 DEF SharedHistory!CommitOn
          <6>2. CASE Tip = 0
            <7>1. SharedHistory!FirstCommit
              BY <4>4, <6>1, <6>2 DEF SharedHistory!FirstCommit
            <7>2. QED
              BY <7>1 DEF SharedHistory!Next
          <6>3. CASE Tip # 0
            <7>1. SharedHistory!PlainCommit
              BY <5>3, <6>1, <6>3 DEF SharedHistory!PlainCommit
            <7>2. QED
              BY <7>1 DEF SharedHistory!Next
          <6>4. QED
            BY <6>2, <6>3
        <5>4. QED
          BY <4>2, <5>2, <5>3
      <4>7. QED
        BY <4>2, <4>3, <4>5, <4>6, RecommitStep
    <3>3. QED
      BY <3>1, <3>2
  <2>3. QED
    BY <2>1, <2>2 DEF PickNext
<1>3. QED
  BY <1>1, <1>2, PickInvariant, PTL
  DEF PickSpec, SharedHistorySpec, SharedHistory!Spec

\* A cherry-pick, revert or rebase takes no session into a branch creation.
LEMMA PickNoForce ==
  ASSUME TypeOK, NoForce, NEW s \in Sessions, PickStep(s)
  PROVE  NoForce'
<1>1. SessionsOK
  BY DEF TypeOK
<1>2. pc'[s] # "branchTree"
  <2> USE DEF Goto, Return, Leave, SessionsOK
  <2>1. CASE CallCherryPick(s) \/ CallRevert(s) \/ CallRebase(s)
    BY <1>1, <2>1 DEF CallCherryPick, CallRevert, CallRebase
  <2>2. CASE \/ PickCleanup(s) \/ PickStatus(s) \/ PickParent(s)
             \/ PickRefused(s) \/ PickFinish(s)
    BY <1>1, <2>2
    DEF PickCleanup, PickStatus, PickParent, PickRefused, PickFinish
  <2>3. CASE PickCreate(s) \/ RebaseNext(s)
    BY <1>1, <2>3 DEF PickCreate, RebaseNext
  <2>4. CASE RevertApply(s) \/ RevertCleanup(s) \/ RebaseTarget(s)
    BY <1>1, <2>4 DEF RevertApply, RevertCleanup, RebaseTarget
  <2>5. QED
    BY <2>1, <2>2, <2>3, <2>4 DEF PickStep, PickContinue
<1>3. QED
  BY <1>1, <1>2, OtherPickSessions DEF NoForce

LEMMA PickHarmless ==
  ASSUME PickInv, NEW s \in Sessions, PickStep(s), NEW p \in Files
  PROVE  Harmless(p)
<1>1. CASE UNCHANGED workdir
  BY <1>1 DEF Harmless
<1>2. CASE CallCherryPick(s) \/ RevertApply(s) \/ RebaseTarget(s)
  BY <1>1, <1>2, PickCheckouts, SafeHarmless DEF PickInv, TypeOK
<1>3. CASE \/ CallRevert(s) \/ PickStatus(s) \/ PickParent(s)
           \/ PickRefused(s) \/ CallRebase(s)
  BY <1>1, <1>3 DEF CallRevert, PickStatus, PickParent, PickRefused,
                    CallRebase, Leave, repo
<1>4. CASE PickCleanup(s) \/ PickFinish(s) \/ RevertCleanup(s)
  BY <1>1, <1>4, PickCleanups DEF PickInv
<1>5. CASE PickCreate(s) \/ RebaseNext(s)
  BY <1>1, <1>5, PickCreateStep, RebaseNextStep
<1>6. QED
  BY <1>2, <1>3, <1>4, <1>5 DEF PickStep, PickContinue

\* Uncommitted edits are safe from cherry-picks, reverts and rebases too.
THEOREM PicksKeepEdits ==
  NothingForced /\ PickSpec => EditsNotReplaced
<1>1. Init => NoForce
  BY DEF Init, NoForce
<1>2. NothingForced /\ PickInv /\ NoForce /\ [PickNext]_vars => NoForce'
  BY NoForceStep, PickNoForce DEF NothingForced, PickInv, PickNext
<1> DEFINE Kept == \A f \in Files :
                     ~Edit /\ workdir'[f] # workdir[f]
                     => workdir[f] = HeadTree[f] \/ workdir'[f] = HeadTree[f]
<1>3. NothingForced /\ PickInv /\ NoForce /\ [PickNext]_vars => [Kept]_vars
  BY NextHarmless, PickHarmless DEF Harmless, PickInv, PickNext
<1>4. NothingForced => NothingForced'
  BY DEF NothingForced
<1>5. QED
  BY <1>1, <1>2, <1>3, <1>4, PickInvariant, PTL DEF PickSpec, EditsNotReplaced

(***************************************************************************)
(* One session working alone.  What a call has read stays true until the   *)
(* call writes: the only step between that is not its own is the user's    *)
(* editor, which touches the working directory alone.                      *)
(***************************************************************************)

Alone == \E s : Sessions = {s}

\* The change of the commit that is picked, on top of HEAD.
Change(s) == Applied(ParentTree(fr[s].new), TreeOf(fr[s].new))

Committing == {"heads", "parents", "create"}
Picking == {"pickCleanup", "pickStatus", "pickParent", "pickCreate"}

\* The copies a commit is made from are those of the repository.
CopiesCurrent(s) ==
  /\ pc[s] \in Committing =>
       fr[s].snap = index /\ fr[s].staged = StagedFiles /\ StagedFiles # {}
  /\ pc[s] \in {"parents", "create"} => fr[s].mergeParent = mergeHead
  /\ pc[s] \in {"create", "pickCreate"} => fr[s].old = Tip
  /\ pc[s] \in Picking => fr[s].new \in Ids /\ index = Change(s)
  /\ pc[s] \in {"pickParent", "pickCreate"} => fr[s].snap = index

AloneInv == PickInv /\ \A s \in Sessions : CopiesCurrent(s)

\* A change that is allowed to be checked out becomes the index.
LEMMA ChangeCheckedOut ==
  ASSUME RepoOK, NEW new \in Tree, MergeAllowed(new), CheckoutSafe(new)
  PROVE  index' = new
<1>1. \A f \in Files : index'[f] = new[f]
  BY DEF CheckoutSafe, MergeAllowed
<1>2. index' \in [Files -> Content \cup {Conflict}] /\ new \in [Files -> Content]
  BY CheckoutType DEF Index, Tree
<1>3. QED
  BY <1>1, <1>2

\* The calls of GertMerge that read a copy to commit from.
LEMMA OnlyCommitReads ==
  ASSUME SessionsOK, NEW s \in Sessions, Call(s) \/ Continue(s) \/ Crash(s),
         pc'[s] \in Committing \cup Picking
  PROVE  \/ CallCommit(s) \/ CommitStatus(s) \/ CommitMergeHeads(s)
         \/ CommitParents(s)
<1> USE DEF Start, Goto, Return, Leave, SessionsOK, Committing, Picking
<1>1. CASE \/ CallMerge(s) \/ CallStageOnly(s) \/ CallFastForward(s)
           \/ FastForwardAnalysis(s) \/ MergeStatus(s)
  BY <1>1 DEF CallMerge, CallStageOnly, CallFastForward, FastForwardAnalysis,
              MergeStatus
<1>2. CASE \/ SetTargetCheckout(s) \/ SetTargetMove(s) \/ Stage(s)
           \/ StageCleanup(s)
  BY <1>2 DEF SetTargetCheckout, SetTargetMove, Stage, StageCleanup
<1>3. CASE CommitCreated(s) \/ CommitRefused(s) \/ CommitFinish(s)
  BY <1>3 DEF CommitCreated, CommitRefused, CommitFinish
<1>4. CASE \/ CallCommitAll(s) \/ CommitAllAdd(s) \/ CommitAllStatus(s)
           \/ CommitAllRm(s)
  BY <1>4 DEF CallCommitAll, CommitAllAdd, CommitAllStatus, CommitAllRm,
              WriteIndex
<1>5. CASE \/ CallAbort(s) \/ AbortReset(s) \/ AbortCleanup(s)
           \/ CallReset(s) \/ Crash(s)
  BY <1>5 DEF CallAbort, AbortReset, AbortCleanup, CallReset, Crash
<1>6. CASE \/ CallCheckout(s) \/ CreateCheckout(s) \/ CallCreate(s)
           \/ SetHead(s)
  BY <1>6 DEF CallCheckout, CheckoutTree, CreateCheckout, CallCreate, SetHead
<1>7. CASE \/ CallOrphan(s) \/ CallDelete(s) \/ CallAdd(s) \/ CallRm(s)
           \/ IndexWrite(s)
  BY <1>7 DEF CallOrphan, CallDelete, CallAdd, CallRm, IndexWrite
<1>8. QED
  BY <1>1, <1>2, <1>3, <1>4, <1>5, <1>6, <1>7 DEF Call, Continue

\* And those of the calls of this module.
LEMMA OnlyPickReads ==
  ASSUME SessionsOK, NEW s \in Sessions, PickStep(s),
         pc'[s] \in Committing \cup Picking
  PROVE  CallCherryPick(s) \/ PickCleanup(s) \/ PickStatus(s) \/ PickParent(s)
<1> USE DEF Start, Goto, Return, Leave, SessionsOK, Committing, Picking
<1>1. CASE CallRevert(s) \/ CallRebase(s)
  BY <1>1 DEF CallRevert, CallRebase
<1>2. CASE PickRefused(s) \/ PickFinish(s) \/ PickCreate(s) \/ RebaseNext(s)
  BY <1>2 DEF PickRefused, PickFinish, PickCreate, RebaseNext
<1>3. CASE RevertApply(s) \/ RevertCleanup(s) \/ RebaseTarget(s)
  BY <1>3 DEF RevertApply, RevertCleanup, RebaseTarget
<1>4. QED
  BY <1>1, <1>2, <1>3 DEF PickStep, PickContinue

LEMMA CommitCopies ==
  ASSUME AloneInv, NEW s \in Sessions,
         \/ CallCommit(s) \/ CommitStatus(s) \/ CommitMergeHeads(s)
         \/ CommitParents(s)
  PROVE  CopiesCurrent(s)'
<1>1. SessionsOK /\ fr[s] \in Frame /\ CopiesCurrent(s)
  BY DEF AloneInv, PickInv, TypeOK, SessionsOK
<1>2. CASE Leave(s)
  BY <1>1, <1>2 DEF Leave, Return, Goto, SessionsOK, CopiesCurrent, Committing,
                    Picking
<1>3. CASE ~Leave(s)
  <2>1. UNCHANGED repo
    BY <1>3 DEF CallCommit, CommitStatus, ReadStatus, CommitMergeHeads,
                CommitParents
  <2>2. StagedFiles' = StagedFiles /\ index' = index /\ mergeHead' = mergeHead
        /\ Tip' = Tip
    BY <2>1 DEF repo, StagedFiles, HeadTree, TreeOf
  <2>3. CASE CallCommit(s) \/ CommitStatus(s)
    <3>1. /\ StagedFiles # {}
          /\ Keep(s, [fr[s] EXCEPT !.snap = index, !.staged = StagedFiles])
          /\ Goto(s, "heads")
      BY <1>3, <2>3 DEF CallCommit, CommitStatus, ReadStatus
    <3>2. pc'[s] = "heads" /\ fr'[s].snap = index /\ fr'[s].staged = StagedFiles
      BY <1>1, <3>1 DEF Keep, Goto, SessionsOK, Frame
    <3>3. QED
      BY <2>2, <3>1, <3>2 DEF CopiesCurrent, Committing, Picking
  <2>4. CASE CommitMergeHeads(s)
    <3>1. /\ pc'[s] = "parents" /\ fr'[s].mergeParent = mergeHead
          /\ fr'[s].snap = fr[s].snap /\ fr'[s].staged = fr[s].staged
          /\ pc[s] = "heads"
      BY <1>1, <2>4 DEF CommitMergeHeads, Keep, Goto, SessionsOK, Frame
    <3>2. QED
      BY <1>1, <2>2, <3>1 DEF CopiesCurrent, Committing, Picking
  <2>5. CASE CommitParents(s)
    <3>1. /\ Keep(s, [fr[s] EXCEPT !.old = Tip]) /\ Goto(s, "create")
          /\ pc[s] = "parents"
      BY <1>3, <2>5 DEF CommitParents
    <3>2. /\ pc'[s] = "create" /\ fr'[s].mergeParent = fr[s].mergeParent
          /\ fr'[s].snap = fr[s].snap /\ fr'[s].staged = fr[s].staged
          /\ fr'[s].old = Tip
      BY <1>1, <3>1 DEF Keep, Goto, SessionsOK, Frame
    <3>3. QED
      BY <1>1, <2>2, <3>1, <3>2 DEF CopiesCurrent, Committing, Picking
  <2>6. QED
    BY <2>3, <2>4, <2>5
<1>4. QED
  BY <1>2, <1>3

LEMMA PickCopies ==
  ASSUME AloneInv, NEW s \in Sessions,
         CallCherryPick(s) \/ PickCleanup(s) \/ PickStatus(s) \/ PickParent(s)
  PROVE  CopiesCurrent(s)'
<1>1. /\ SessionsOK /\ fr[s] \in Frame /\ CopiesCurrent(s) /\ RepoOK
      /\ History(objs) /\ Len(objs) \in Nat
  BY DEF AloneInv, PickInv, TypeOK, SessionsOK, RepoOK, History
<1>2. CASE Leave(s)
  BY <1>1, <1>2 DEF Leave, Return, Goto, SessionsOK, CopiesCurrent, Committing,
                    Picking
<1>3. CASE ~Leave(s)
  <2>1. UNCHANGED <<objs, refs, head>>
    BY <1>3 DEF CallCherryPick, PickCleanup, PickStatus, PickParent, repo
  <2>2. Tip' = Tip /\ HeadTree' = HeadTree /\ Ids' = Ids
        /\ \A c \in Ids : ParentTree(c)' = ParentTree(c) /\ TreeOf(c)' = TreeOf(c)
    BY <2>1 DEF HeadTree, TreeOf, ParentTree
  <2>3. CASE CallCherryPick(s)
    <3>1. PICK c \in Ids :
            /\ Applies(Applied(ParentTree(c), TreeOf(c)))
            /\ CheckoutSafe(Applied(ParentTree(c), TreeOf(c)))
            /\ Keep(s, [NoFrame EXCEPT !.op = "pick", !.new = c])
            /\ Goto(s, "pickCleanup")
      BY <2>3 DEF CallCherryPick
    <3>2. pc'[s] = "pickCleanup" /\ fr'[s].new = c
      BY <1>1, <3>1 DEF Keep, Goto, SessionsOK, NoFrame
    <3>3. c \in 0 .. Len(objs)
      BY <1>1
    <3>4. Applied(ParentTree(c), TreeOf(c)) \in Tree
      BY <1>1, <3>1, <3>3, ParentTreeType, TreeType, AppliedType
    <3>5. index' = Applied(ParentTree(c), TreeOf(c))
      BY <1>1, <3>1, <3>4, ChangeCheckedOut DEF Applies
    <3>6. index' = Change(s)'
      BY <2>2, <3>2, <3>5 DEF Change, Applied
    <3>7. QED
      BY <2>2, <3>2, <3>6 DEF CopiesCurrent, Committing, Picking
  <2>4. CASE PickCleanup(s) \/ PickStatus(s) \/ PickParent(s)
    <3>1. /\ index' = index /\ fr'[s].new = fr[s].new /\ pc[s] \in Picking
          /\ \/ pc'[s] = "pickStatus"
             \/ pc'[s] = "pickParent" /\ fr'[s].snap = index
             \/ /\ pc'[s] = "pickCreate" /\ pc[s] = "pickParent"
                /\ fr'[s].snap = fr[s].snap /\ fr'[s].old = Tip
      BY <1>1, <1>3, <2>4 DEF PickCleanup, PickStatus, PickParent, Keep, Goto,
                              SessionsOK, Frame, Picking, repo
    <3>2. fr[s].new \in Ids /\ index = Change(s)
      BY <1>1, <3>1 DEF CopiesCurrent
    <3>3. Change(s)' = Change(s)
      BY <2>2, <3>1, <3>2 DEF Change, Applied
    <3>4. QED
      BY <1>1, <2>2, <3>1, <3>2, <3>3 DEF CopiesCurrent, Committing, Picking
  <2>5. QED
    BY <2>3, <2>4
<1>4. QED
  BY <1>2, <1>3

LEMMA AloneStep ==
  ASSUME Alone, AloneInv, [PickNext]_vars
  PROVE  AloneInv'
<1>1. PickInv' /\ SessionsOK
  BY PickInvStep DEF AloneInv, PickInv, TypeOK
<1>2. ASSUME NEW s \in Sessions,
             Call(s) \/ Continue(s) \/ Crash(s) \/ PickStep(s)
      PROVE  CopiesCurrent(s)'
  <2>1. CASE pc'[s] \in Committing \cup Picking
    BY <1>1, <1>2, <2>1, OnlyCommitReads, OnlyPickReads, CommitCopies, PickCopies
  <2>2. CASE pc'[s] \notin Committing \cup Picking
    BY <2>2 DEF CopiesCurrent, Committing, Picking
  <2>3. QED
    BY <2>1, <2>2
<1>3. CASE Edit \/ UNCHANGED vars
  <2>1. UNCHANGED <<objs, refs, head, index, mergeHead, pc, fr>>
    BY <1>3 DEF Edit, vars, repo
  <2>2. /\ StagedFiles' = StagedFiles /\ Tip' = Tip /\ Ids' = Ids
        /\ \A s \in Sessions : Change(s)' = Change(s)
    BY <2>1 DEF StagedFiles, HeadTree, TreeOf, Change, Applied, ParentTree
  <2>3. ASSUME NEW s \in Sessions PROVE CopiesCurrent(s)'
    BY <2>1, <2>2 DEF CopiesCurrent, AloneInv
  <2>4. QED
    BY <1>1, <2>3 DEF AloneInv
<1>4. CASE \E s \in Sessions : Call(s) \/ Continue(s) \/ Crash(s) \/ PickStep(s)
  BY <1>1, <1>2, <1>4 DEF Alone, AloneInv
<1>5. QED
  BY <1>3, <1>4 DEF PickNext, Next

LEMMA AloneInvariant == Alone /\ PickSpec => [](Alone /\ AloneInv)
<1>1. Init => AloneInv
  <2>1. Init => PickInv
    BY InitOK DEF Init, PickInv, MovesExist, ParentsExist, Holding
  <2>2. Init => \A s \in Sessions : CopiesCurrent(s)
    BY DEF Init, CopiesCurrent, Committing, Picking
  <2>3. QED
    BY <2>1, <2>2 DEF AloneInv
<1>2. Alone /\ AloneInv /\ [PickNext]_vars => (Alone /\ AloneInv)'
  BY AloneStep DEF Alone
<1>3. QED
  BY <1>1, <1>2, PTL DEF PickSpec

\* Where the steps of a pick start from.
LEMMA PickStarts ==
  ASSUME NEW s \in Sessions, PickStep(s)
  PROVE  /\ pc[s] \in {"idle", "revert", "revertCleanup", "rebase",
                       "rebaseTarget", "pickFinish"} \cup Picking
         /\ pc[s] = "pickCreate" => PickCreate(s) \/ PickRefused(s)
BY DEF PickStep, PickContinue, CallCherryPick, CallRevert, CallRebase, Start,
       PickCleanup, PickStatus, PickParent, PickCreate, PickRefused, PickFinish,
       RevertApply, RevertCleanup, RebaseNext, RebaseTarget, Picking

\* A session that has read all it commits from writes a commit by
\* R_git_commit_create alone.
LEMMA OnlyThisCommits ==
  ASSUME Alone, AloneInv, PickNext, NEW s \in Sessions,
         pc[s] = "create", Len(objs') > Len(objs)
  PROVE  CommitCreated(s)
<1>1. Len(objs) \in Nat
  BY DEF AloneInv, PickInv, TypeOK, RepoOK, History
<1>2. ~PickStep(s)
  BY PickStarts DEF Picking
<1>3. Next
  BY <1>2 DEF PickNext, Alone
<1>4. QED
  BY <1>1, <1>3, OnlyCommitsAppend DEF Alone

\* A commit of a session that works alone changes only files that git_status
\* reported as staged, whatever else the session does and the user edits.
THEOREM CommitsWhatIsStaged == Alone /\ PickSpec => CommitsOnlyStaged
<1> DEFINE Staged ==
      \A s \in Sessions :
        pc[s] = "create" /\ pc'[s] # "create" /\ Len(objs') > Len(objs) =>
          \A f \in Files :
            f \notin fr[s].staged => objs'[Len(objs')].tree[f] = HeadTree[f]
<1>1. Alone /\ AloneInv /\ [PickNext]_vars => [Staged]_vars
  <2> SUFFICES ASSUME Alone, AloneInv, PickNext, NEW s \in Sessions,
                      pc[s] = "create", Len(objs') > Len(objs),
                      NEW f \in Files, f \notin fr[s].staged
               PROVE  objs'[Len(objs')].tree[f] = HeadTree[f]
    BY DEF Staged
  <2>1. TypeOK /\ SessionsOK /\ CopiesCurrent(s)
    BY DEF AloneInv, PickInv, TypeOK
  <2>2. CommitCreated(s)
    BY OnlyThisCommits
  <2>3. objs'[Len(objs')] = NewCommit(ParentList(fr[s]), fr[s].snap)
    BY <2>1, <2>2, CommitCreatedStep
  <2>4. /\ fr[s].snap = index /\ fr[s].staged = StagedFiles
        /\ ~HasConflicts(fr[s].snap)
    BY <2>1 DEF CopiesCurrent, Committing, SessionsOK
  <2>5. index[f] = HeadTree[f]
    BY <2>4 DEF StagedFiles, HasConflicts
  <2>6. QED
    BY <2>3, <2>4, <2>5 DEF NewCommit
<1>2. QED
  BY <1>1, AloneInvariant, PTL DEF PickSpec, CommitsOnlyStaged

\* A cherry-pick of a session that works alone commits the change of the
\* chosen commit and nothing else, whatever was staged or edited before.
THEOREM PicksCommitOneChange == Alone /\ PickSpec => PicksOneChange
<1> DEFINE Picked ==
      \A s \in Sessions :
        pc[s] = "pickCreate" /\ pc'[s] = "pickFinish" =>
          /\ Tip # 0
          /\ TreeOf(refs[head])' =
               Applied(ParentTree(fr[s].new), TreeOf(fr[s].new))
<1>1. Alone /\ AloneInv /\ [PickNext]_vars => [Picked]_vars
  <2> SUFFICES ASSUME Alone, AloneInv, PickNext, NEW s \in Sessions,
                      pc[s] = "pickCreate", pc'[s] = "pickFinish"
               PROVE  Tip # 0 /\ TreeOf(refs[head])' = Change(s)
    BY DEF Picked, Change
  <2>1. /\ SessionsOK /\ RepoOK /\ CopiesCurrent(s) /\ Len(objs) \in Nat
        /\ History(objs) /\ fr[s] \in Frame /\ FrameOK(fr[s])
        /\ ~HasConflicts(fr[s].snap)
    BY DEF AloneInv, PickInv, TypeOK, SessionsOK, RepoOK, History
  <2>2. /\ fr[s].new \in Ids /\ fr[s].old = Tip /\ fr[s].snap = index
        /\ index = Change(s) /\ fr[s].old # 0
    BY <2>1 DEF CopiesCurrent, Picking, AloneInv, PickInv, ParentsExist
  <2>3. PickCreate(s)
    <3>1. ~(Call(s) \/ Continue(s) \/ Crash(s)) /\ ~Edit
      <4>1. ~Edit /\ ~Crash(s)
        BY <2>1 DEF Edit, Crash, Leave, Return, Goto, SessionsOK
      <4>2. ~Call(s)
        BY DEF Call, Start, CallMerge, CallStageOnly, CallFastForward,
               CallCommit, CallCommitAll, CallAbort, CallReset, CallCheckout,
               CallOrphan, CallCreate, CallDelete, CallAdd, CallRm
      <4>3. ~Continue(s)
        BY DEF Continue, FastForwardAnalysis, SetTargetCheckout, SetTargetMove,
               Stage, StageCleanup, MergeStatus, CommitStatus,
               CommitMergeHeads, CommitParents, CommitCreated, CommitRefused,
               CommitFinish, CommitAllAdd, CommitAllStatus, CommitAllRm,
               AbortReset, AbortCleanup, CreateCheckout, SetHead, IndexWrite
      <4>4. QED
        BY <4>1, <4>2, <4>3
    <3>2. PickStep(s)
      BY <3>1 DEF PickNext, Next, Alone
    <3>3. ~PickRefused(s)
      BY <2>1 DEF PickRefused, Leave, Return, Goto, SessionsOK
    <3>4. QED
      BY <3>2, <3>3, PickStarts
  <2> DEFINE c == fr[s].new
             p == fr[s].old
             t == fr[s].snap
  <2>4. PICK d \in Recommitted(c, p, t) :
          WriteCommit(d, p, t) /\ refs' = [refs EXCEPT ![head] = d]
    BY <2>3 DEF PickCreate
  <2>5. p \in Ids /\ t \in Tree
    BY <2>1, <2>2, CleanIndex DEF FrameOK, Frame
  <2>6. /\ d \in 1 .. Len(objs')
        /\ \/ objs' = objs /\ d \in Ids
           \/ d = Len(objs) + 1 /\ objs' = Append(objs, NewCommit(<<p>>, t))
        /\ \A e \in Ids : objs'[e] = objs[e]
    BY <2>1, <2>2, <2>4, <2>5, RecommitStep
  <2>7. refs'[head'] = d
    BY <2>1, <2>3, <2>4 DEF PickCreate, RepoOK
  <2>8. objs'[d].tree = t
    <3>1. CASE d = Len(objs) + 1 /\ objs' = Append(objs, NewCommit(<<p>>, t))
      BY <2>1, <3>1 DEF NewCommit, RepoOK, History
    <3>2. CASE objs' = objs /\ d \in Ids
      <4>1. SameCommit(d, p, t)
        BY <2>1, <2>4, <3>2 DEF Recommitted, NewId
      <4>2. QED
        BY <3>2, <4>1 DEF SameCommit
    <3>3. QED
      BY <2>6, <3>1, <3>2
  <2>9. QED
    BY <2>2, <2>6, <2>7, <2>8 DEF TreeOf
<1>2. QED
  BY <1>1, AloneInvariant, PTL DEF PickSpec, PicksOneChange

(***************************************************************************)
(* Databases that grow.                                                    *)
(***************************************************************************)

\* Commits are never changed.
Extended == Len(objs) <= Len(objs') /\ \A c \in Ids : objs'[c] = objs[c]

\* Later commits are not in the past of earlier ones, so they change neither
\* trees nor ancestors nor merge bases.
LEMMA OldCommits ==
  ASSUME History(objs), History(objs'), Extended,
         NEW a \in 0 .. Len(objs), NEW b \in 0 .. Len(objs)
  PROVE  /\ TreeOf(a)' = TreeOf(a) /\ Past(a)' = Past(a)
         /\ MergeBase(a, b)' = MergeBase(a, b)
<1>1. Len(objs) \in Nat /\ Len(objs') \in Nat
  BY DEF History
<1>2. /\ TreeOf(a)' = TreeOf(a) /\ Past(a)' = Past(a) /\ Past(b)' = Past(b)
      /\ Past(a) \subseteq Ids
  BY <1>1, PastFacts DEF Extended, TreeOf, Past
<1> DEFINE C == CommonPast(a, b)
           Young(c) == c \in C /\ \A d \in C : d <= c
<1>3. C \subseteq Ids /\ CommonPast(a, b)' = C
  BY <1>2 DEF CommonPast
<1>4. \A c : (YoungestCommon(a, b, c) <=> Young(c))
             /\ (YoungestCommon(a, b, c)' <=> Young(c))
  BY <1>3 DEF YoungestCommon
<1> HIDE DEF C
<1>5. \A c, d \in Ids : Young(c) /\ Young(d) => c = d
  BY <1>1, <1>3
<1>6. \A c : Young(c) => c \in Ids /\ c \in 1 .. Len(objs')
  BY <1>1, <1>3 DEF Extended
<1> HIDE DEF Young
<1>7. CASE \E c \in Ids : Young(c)
  <2>1. MergeBase(a, b) \in Ids /\ Young(MergeBase(a, b))
    BY <1>4, <1>7 DEF MergeBase
  <2>2. \E c \in 1 .. Len(objs') : YoungestCommon(a, b, c)'
    BY <1>4, <1>6, <1>7
  <2>3. MergeBase(a, b)' \in 1 .. Len(objs')
        /\ Young(MergeBase(a, b)')
    <3>1. MergeBase(a, b)' = CHOOSE c \in 1 .. Len(objs') : YoungestCommon(a, b, c)'
      BY <2>2 DEF MergeBase
    <3>2. QED
      BY <1>4, <2>2, <3>1
  <2>4. QED
    BY <1>2, <1>5, <1>6, <2>1, <2>3
<1>8. CASE ~ \E c \in Ids : Young(c)
  <2>1. MergeBase(a, b) = 0
    BY <1>4, <1>8 DEF MergeBase
  <2>2. MergeBase(a, b)' = 0
    BY <1>4, <1>6, <1>8 DEF MergeBase
  <2>3. QED
    BY <1>2, <2>1, <2>2
<1>9. QED
  BY <1>7, <1>8

(***************************************************************************)
(* A session that works alone and leaves the files to gert: nobody edits,  *)
(* stages or resets by hand, and no call is killed.                        *)
(***************************************************************************)

Unattended ==
  /\ Alone
  /\ Calls \subseteq {"merge", "squash", "fast_forward", "commit",
                      "commit_all", "abort", "checkout", "force_checkout",
                      "create", "force_create", "delete", "hard",
                      "cherry_pick", "revert", "rebase"}

MarkerFree(t) == \A f \in Files : t[f] # Markers

\* Only a conflict keeps the index from what is in the working directory.
IndexKept == \A f \in Files : index[f] \in {Conflict, workdir[f]}

Settled == HasConflicts(index) \/ index = HeadTree

\* MERGE_HEAD and ORIG_HEAD belong to the merge that is in the index, or
\* nothing is there to commit.
Joined ==
  \/ mergeHead = 0
  \/ index = HeadTree
  \/ /\ index = MergeResult(mergeHead)
     /\ origHead = Tip
     /\ mergeHead \notin Past(Tip)

\* What holds of the repository at any time.
InOrder ==
  /\ Tip # 0
  /\ IndexKept
  /\ MarkerFree(index)
  /\ NoMarkersCommitted
  /\ MergeTreeIsMerge

\* Between calls, and where a call has yet to check something out or has moved
\* the branch, there is nothing to commit.
Resting == {"idle", "ffAnalysis", "target", "stage", "reset", "branchTree",
            "rebase", "rebaseTarget", "revert", "finish", "pickFinish",
            "abortCleanup", "allAdd", "allRm"}
Merging == {"cleanup", "status", "commit"} \cup Committing
Picked == {"pickStatus", "pickParent", "pickCreate", "pickCleanup",
           "revertCleanup"}

\* What a call has done so far, and what it knows about it.
Orderly(s) ==
  /\ pc[s] \notin {"allStatus", "indexWrite"}
  /\ pc[s] \in Resting => Settled
  /\ pc[s] \in {"stage", "cleanup", "status"} =>
       fr[s].op = "merge" /\ fr[s].doCommit
  /\ pc[s] = "stage" => refs[fr[s].ref] \notin {0} \cup Past(Tip)
  /\ pc[s] = "cleanup" => fr[s].squash
  /\ pc[s] \in {"cleanup", "status"} => fr[s].clean = ~HasConflicts(index)
  /\ pc[s] \in Merging =>
       /\ HasConflicts(index) \/ Joined
       /\ fr[s].op = "merge" /\ ~fr[s].squash => mergeHead # 0
  /\ pc[s] \in {"allAdd", "allRm"} => fr[s].modified = {} /\ fr[s].deleted = {}
  /\ pc[s] \in Picked => ~HasConflicts(index)
  /\ pc[s] \in {"revert", "revertCleanup"} => fr[s].doCommit
  /\ pc[s] \in {"idle", "allAdd", "allRm", "revert", "revertCleanup"} =>
       fr[s].op # "merge"
  /\ pc[s] = "move" =>
       fr[s].onto = head /\ fr[s].old = Tip /\ index = TreeOf(fr[s].new)
  /\ pc[s] = "setHead" =>
       refs[fr[s].ref] # 0 /\ index = TreeOf(refs[fr[s].ref])
  /\ pc[s] = "branchTree" => refs[fr[s].ref] = fr[s].new /\ fr[s].new # 0

OrderInv == AloneInv /\ InOrder /\ \A s \in Sessions : Orderly(s)

(***************************************************************************)
(* Checkouts from a settled repository.                                    *)
(***************************************************************************)

\* A tree that a safe checkout or a forced one writes is then in index and
\* working directory.
LEMMA CleanCheckout ==
  ASSUME RepoOK, IndexKept, NEW t \in Tree,
         \/ Settled /\ CheckoutSafeOk(t) /\ CheckoutSafe(t)
         \/ CheckoutForce(t)
  PROVE  index' = t /\ workdir' = t
<1>1. /\ index \in [Files -> Content \cup {Conflict}]
      /\ workdir \in [Files -> Content] /\ t \in [Files -> Content]
      /\ index' \in [Files -> Content \cup {Conflict}]
      /\ workdir' \in [Files -> Content]
  BY CheckoutType DEF RepoOK, Index, Tree
<1>2. CASE Settled /\ CheckoutSafeOk(t) /\ CheckoutSafe(t)
  <2>1. index = HeadTree
    BY <1>2 DEF Settled, HasConflicts, CheckoutSafeOk
  <2>2. \A f \in Files : workdir[f] = HeadTree[f]
    BY <1>2, <2>1 DEF IndexKept, CheckoutSafeOk
  <2>3. \A f \in Files : index'[f] = t[f] /\ workdir'[f] = t[f]
    BY <1>2, <2>1, <2>2 DEF CheckoutSafe
  <2>4. QED
    BY <1>1, <2>3
<1>3. CASE CheckoutForce(t)
  <2>1. index' = t
    BY <1>3 DEF CheckoutForce
  <2>2. \A f \in Files : Untracked(f) => workdir[f] = Absent
    BY ContentAssumption DEF Untracked, IndexKept
  <2>3. \A f \in Files : workdir'[f] = t[f]
    BY <1>3, <2>2 DEF CheckoutForce
  <2>4. QED
    BY <1>1, <2>1, <2>3
<1>4. QED
  BY <1>2, <1>3

\* A merge that is allowed starts from a clean checkout and leaves only
\* conflicts between index and working directory.
LEMMA CleanStage ==
  ASSUME RepoOK, IndexKept, Settled, NEW theirs, NEW new,
         MergeAllowed(new), MergeCheckout(new, theirs)
  PROVE  index = HeadTree /\ index' = new /\ IndexKept'
<1>1. HeadTree \in [Files -> Content]
  BY HeadTreeType DEF Tree
<1>2. ~HasConflicts(index)
  BY <1>1, ContentAssumption DEF HasConflicts, MergeAllowed
<1>3. index = HeadTree /\ \A f \in Files : workdir[f] = HeadTree[f]
  BY <1>2 DEF Settled, IndexKept, HasConflicts
<1>4. index' = new
  BY DEF MergeCheckout
<1>5. ASSUME NEW f \in Files PROVE new[f] \in {Conflict, workdir'[f]}
  <2>1. workdir'[f] = CASE new[f] = Conflict ->
                             ConflictFile(HeadTree[f], TreeOf(theirs)[f])
                        [] new[f] = Absent /\ Untracked(f) -> workdir[f]
                        [] OTHER -> new[f]
    BY DEF MergeCheckout
  <2>2. CASE new[f] = Conflict
    BY <2>2
  <2>3. CASE new[f] # Conflict /\ new[f] = Absent /\ Untracked(f)
    BY <1>3, <2>1, <2>3 DEF Untracked
  <2>4. CASE new[f] # Conflict /\ ~(new[f] = Absent /\ Untracked(f))
    BY <2>1, <2>4
  <2>5. QED
    BY <2>2, <2>3, <2>4
<1>6. QED
  BY <1>3, <1>4, <1>5 DEF IndexKept

\* Trees of commits, and what merges make of them, are free of markers.
LEMMA CommitsMarkerFree ==
  ASSUME History(objs), NoMarkersCommitted
  PROVE  /\ \A c \in 0 .. Len(objs) : MarkerFree(TreeOf(c))
         /\ \A c \in Ids : MarkerFree(ParentTree(c))
<1>1. \A c \in 0 .. Len(objs) : MarkerFree(TreeOf(c))
  BY ContentAssumption
  DEF NoMarkersCommitted, MarkerFree, TreeOf, EmptyTree, History
<1>2. ASSUME NEW c \in Ids PROVE MarkerFree(ParentTree(c))
  <2>1. CASE objs[c].parents = <<>>
    BY <2>1, ContentAssumption DEF ParentTree, MarkerFree, EmptyTree
  <2>2. CASE objs[c].parents # <<>>
    <3>1. WellFormed(objs, c) /\ objs[c] \in Commit /\ Len(objs) \in Nat
      BY DEF History
    <3>2. objs[c].parents \in Seq(Nat)
      BY <3>1 DEF Commit
    <3>3. 1 \in DOMAIN objs[c].parents
      BY <2>2, <3>2
    <3>4. objs[c].parents[1] \in 0 .. Len(objs)
      BY <3>1, <3>3 DEF WellFormed
    <3>5. QED
      BY <1>1, <2>2, <3>4 DEF ParentTree
  <2>3. QED
    BY <2>1, <2>2
<1>3. QED
  BY <1>1, <1>2

LEMMA MergeMarkerFree ==
  ASSUME NEW b, NEW o, NEW t, MarkerFree(o), MarkerFree(t)
  PROVE  MarkerFree(MergeTrees(b, o, t))
<1>1. ASSUME NEW f \in Files PROVE MergeFile(b[f], o[f], t[f]) # Markers
  BY ContentAssumption DEF MergeFile, MarkerFree
<1>2. QED
  BY <1>1 DEF MarkerFree, MergeTrees

\* A merge commit's tree is the merge of its parents.
MergesSides(c) ==
  Len(objs[c].parents) = 2 =>
    LET p == objs[c].parents[1]
        q == objs[c].parents[2]
    IN objs[c].tree =
         MergeTrees(TreeOf(MergeBase(p, q)), TreeOf(p), TreeOf(q))

\* New commits have to be as the old ones are, and nothing else.
LEMMA GoodCommits ==
  ASSUME History(objs), History(objs'), Extended,
         NoMarkersCommitted, MergeTreeIsMerge,
         \A c \in 1 .. Len(objs') :
           c \notin Ids => MarkerFree(objs'[c].tree) /\ MergesSides(c)'
  PROVE  NoMarkersCommitted' /\ MergeTreeIsMerge'
<1>1. Len(objs) \in Nat /\ Len(objs') \in Nat
  BY DEF History
<1>2. NoMarkersCommitted'
  <2> SUFFICES ASSUME NEW c \in 1 .. Len(objs'), NEW f \in Files
               PROVE  objs'[c].tree[f] # Markers
    BY DEF NoMarkersCommitted, TreeOf
  <2>1. CASE c \in Ids
    BY <1>1, <2>1 DEF NoMarkersCommitted, Extended, TreeOf
  <2>2. CASE c \notin Ids
    BY <2>2 DEF MarkerFree
  <2>3. QED
    BY <2>1, <2>2
<1>3. ASSUME NEW c \in Ids PROVE MergesSides(c)'
  <2>1. objs'[c] = objs[c] /\ objs[c] \in Commit /\ WellFormed(objs, c)
    BY DEF Extended, History
  <2>2. objs[c].parents \in Seq(Nat)
    BY <2>1 DEF Commit
  <2>3. CASE Len(objs[c].parents) # 2
    BY <2>1, <2>3 DEF MergesSides
  <2>4. CASE Len(objs[c].parents) = 2
    <3>1. PICK p, q : p = objs[c].parents[1] /\ q = objs[c].parents[2]
      OBVIOUS
    <3>2. p \in 0 .. Len(objs) /\ q \in 0 .. Len(objs)
      BY <1>1, <2>1, <2>2, <2>4, <3>1 DEF WellFormed
    <3>3. /\ TreeOf(p)' = TreeOf(p) /\ TreeOf(q)' = TreeOf(q)
          /\ MergeBase(p, q)' = MergeBase(p, q)
      BY <3>2, OldCommits
    <3>4. MergeBase(p, q) \in 0 .. Len(objs)
      BY <3>2, BaseExists
    <3>5. TreeOf(MergeBase(p, q))' = TreeOf(MergeBase(p, q))
      BY <1>1, <3>3, <3>4 DEF TreeOf, Extended
    <3>6. objs[c].tree = MergeTrees(TreeOf(MergeBase(p, q)), TreeOf(p), TreeOf(q))
      BY <2>4, <3>1 DEF MergeTreeIsMerge
    <3>7. objs'[c].tree =
            MergeTrees(TreeOf(MergeBase(p, q)), TreeOf(p), TreeOf(q))'
      BY <2>1, <3>3, <3>5, <3>6 DEF MergeTrees
    <3>8. QED
      BY <2>1, <3>1, <3>7 DEF MergesSides
  <2>5. QED
    BY <2>3, <2>4
<1>4. MergeTreeIsMerge'
  BY <1>3 DEF MergeTreeIsMerge, MergesSides
<1>5. QED
  BY <1>2, <1>4

\* What a step without a commit leaves in order.
LEMMA SameCommits ==
  ASSUME RepoOK, InOrder, UNCHANGED objs
  PROVE  /\ NoMarkersCommitted' /\ MergeTreeIsMerge'
         /\ \A c : TreeOf(c)' = TreeOf(c) /\ Past(c)' = Past(c)
         /\ \A a, b \in 0 .. Len(objs) : MergeBase(a, b)' = MergeBase(a, b)
<1>1. /\ History(objs) /\ History(objs') /\ Extended /\ Ids' = Ids
      /\ \A c : TreeOf(c)' = TreeOf(c) /\ Past(c)' = Past(c)
  BY DEF RepoOK, Extended, TreeOf, Past, History
<1>2. QED
  BY <1>1, GoodCommits, OldCommits DEF InOrder

\* And one that leaves index, working directory and branches as they are.
LEMMA SameFiles ==
  ASSUME RepoOK, InOrder, UNCHANGED <<objs, refs, head, index, workdir>>
  PROVE  /\ InOrder'
         /\ Tip' = Tip /\ HeadTree' = HeadTree /\ StagedFiles' = StagedFiles
         /\ StatusRows' = StatusRows
         /\ HasConflicts(index)' = HasConflicts(index)
         /\ Settled' = Settled
         /\ UNCHANGED <<mergeHead, origHead>> => Joined' = Joined
         /\ mergeHead' = 0 => Joined'
<1>1. /\ \A c : TreeOf(c)' = TreeOf(c) /\ Past(c)' = Past(c)
      /\ NoMarkersCommitted' /\ MergeTreeIsMerge' /\ Tip' = Tip
  BY SameCommits
<1>2. HeadTree' = HeadTree
  BY <1>1 DEF HeadTree
<1>3. /\ StagedFiles' = StagedFiles /\ StatusRows' = StatusRows
      /\ HasConflicts(index)' = HasConflicts(index)
      /\ Settled' = Settled
  BY <1>2 DEF StagedFiles, StatusRows, HasConflicts, Settled
<1>4. InOrder'
  BY <1>1 DEF InOrder, IndexKept, MarkerFree
<1>5. ASSUME UNCHANGED <<mergeHead, origHead>> PROVE Joined' = Joined
  <2>1. mergeHead \in 0 .. Len(objs) /\ Tip \in 0 .. Len(objs)
    BY DEF RepoOK
  <2>2. MergeResult(mergeHead)' = MergeResult(mergeHead)
    <3>1. MergeBase(Tip, mergeHead)' = MergeBase(Tip, mergeHead)
      BY <1>1, <1>5, <2>1, SameCommits
    <3>2. QED
      BY <1>1, <1>2, <1>5, <3>1 DEF MergeResult
  <2>3. QED
    BY <1>1, <1>2, <1>5, <2>2 DEF Joined
<1>6. mergeHead' = 0 => Joined'
  BY DEF Joined
<1>7. QED
  BY <1>1, <1>2, <1>3, <1>4, <1>5, <1>6

(***************************************************************************)
(* The steps of an unattended session.                                     *)
(***************************************************************************)

LEMMA OrderFacts ==
  ASSUME OrderInv, NEW s \in Sessions
  PROVE  /\ TypeOK /\ RepoOK /\ SessionsOK /\ InOrder
         /\ fr[s] \in Frame /\ FrameOK(fr[s])
         /\ Orderly(s) /\ CopiesCurrent(s)
         /\ History(objs) /\ Len(objs) \in Nat
         /\ refs \in [Branches -> 0 .. Len(objs)] /\ head \in Branches
         /\ Tip \in Ids
         /\ pc \in [Sessions -> Labels] /\ fr \in [Sessions -> Frame]
<1>1. TypeOK /\ RepoOK /\ SessionsOK /\ InOrder /\ Orderly(s) /\ CopiesCurrent(s)
  BY DEF OrderInv, AloneInv, PickInv, TypeOK
<1>2. History(objs) /\ Len(objs) \in Nat
  BY <1>1 DEF RepoOK, History
<1>3. Tip \in Ids
  BY <1>1, <1>2 DEF RepoOK, InOrder
<1>4. QED
  BY <1>1, <1>2, <1>3 DEF SessionsOK, RepoOK

\* Where nothing is staged, there is nothing to commit.
LEMMA NothingStaged ==
  ASSUME RepoOK, StagedFiles = {}
  PROVE  Settled
<1>1. index \in [Files -> Content \cup {Conflict}] /\ HeadTree \in [Files -> Content]
  BY HeadTreeType DEF RepoOK, Index, Tree
<1>2. \A f \in Files : index[f] = HeadTree[f] \/ index[f] = Conflict
  BY DEF StagedFiles
<1>3. QED
  BY <1>1, <1>2 DEF Settled, HasConflicts

\* A call may end where there is nothing to commit.
LEMMA OrderReturn ==
  ASSUME OrderInv, NEW s \in Sessions, Return(s), Settled'
  PROVE  Orderly(s)'
<1>1. pc'[s] = "idle" /\ fr'[s] = NoFrame
  BY OrderFacts DEF Return, Goto, Keep
<1>2. QED
  BY <1>1 DEF Orderly, Resting, Merging, Committing, Picked, NoFrame

LEMMA OrderLeave ==
  ASSUME OrderInv, NEW s \in Sessions, Leave(s), Settled
  PROVE  InOrder' /\ Orderly(s)'
<1>1. RepoOK /\ InOrder
  BY OrderFacts
<1>2. InOrder' /\ Settled'
  BY <1>1, SameFiles DEF Leave, repo
<1>3. QED
  BY <1>2, OrderReturn DEF Leave

\* Steps that read only, at the start of a call.
LEMMA OrderCalls ==
  ASSUME Unattended, OrderInv, NEW s \in Sessions,
         \/ CallMerge(s) \/ CallFastForward(s) \/ FastForwardAnalysis(s)
         \/ CallCommitAll(s) \/ CallAbort(s) \/ CallRevert(s) \/ CallRebase(s)
  PROVE  InOrder' /\ Orderly(s)'
<1>1. /\ RepoOK /\ InOrder /\ Orderly(s) /\ fr[s] \in Frame
      /\ pc \in [Sessions -> Labels] /\ fr \in [Sessions -> Frame]
  BY OrderFacts
<1>2. CASE Leave(s) /\ FastForwardAnalysis(s)
  BY <1>1, <1>2, OrderLeave DEF FastForwardAnalysis, Orderly, Resting
<1>3. CASE ~(Leave(s) /\ FastForwardAnalysis(s))
  <2>1. UNCHANGED repo
    BY <1>3 DEF CallMerge, CallFastForward, FastForwardAnalysis,
                CallCommitAll, CallAbort, CallRevert, CallRebase
  <2>2. pc[s] \in {"idle", "ffAnalysis"} /\ Settled
    BY <1>1 DEF CallMerge, CallFastForward, FastForwardAnalysis, Start,
                CallCommitAll, CallAbort, CallRevert, CallRebase, Orderly,
                Resting
  <2>3. InOrder' /\ Settled' /\ Tip' = Tip /\ refs' = refs /\ Past(Tip)' = Past(Tip)
    BY <1>1, <2>1, <2>2, SameFiles DEF repo, Past
  <2> USE DEF Goto, Keep, Orderly, Resting, Merging, Committing, Picked
  <2>4. CASE CallMerge(s)
    <3>1. PICK b \in Branches, commit \in BOOLEAN, squash \in BOOLEAN :
            /\ ~commit => "no_commit" \in Calls
            /\ refs[b] # 0
            /\ Analysis(Tip, refs[b]) # "up_to_date"
            /\ Keep(s, [NoFrame EXCEPT !.op = "merge", !.ref = b,
                                       !.doCommit = commit, !.squash = squash])
            /\ Goto(s, IF Analysis(Tip, refs[b]) = "fastforward"
                         THEN "ffAnalysis" ELSE "stage")
      BY <2>4 DEF CallMerge
    <3>2. commit
      BY <3>1 DEF Unattended
    <3>3. refs[b] \notin {0} \cup Past(Tip)
      BY <1>1, <3>1 DEF Analysis, InOrder
    <3>4. /\ fr'[s].op = "merge" /\ fr'[s].ref = b /\ fr'[s].doCommit
          /\ pc'[s] \in {"ffAnalysis", "stage"}
      BY <1>1, <3>1, <3>2 DEF NoFrame
    <3>5. QED
      BY <2>3, <3>3, <3>4
  <2>5. CASE CallFastForward(s) \/ CallAbort(s) \/ FastForwardAnalysis(s)
    <3>1. pc'[s] \in {"ffAnalysis", "reset", "target"}
      BY <1>1, <1>3, <2>5 DEF CallFastForward, CallAbort, FastForwardAnalysis
    <3>2. QED
      BY <2>3, <3>1
  <2>6. CASE CallCommitAll(s)
    <3>1. Unstaged = {}
      BY <1>1 DEF Unstaged, InOrder, IndexKept
    <3>2. /\ fr'[s].modified = {} /\ fr'[s].deleted = {} /\ fr'[s].op = "none"
          /\ pc'[s] = "allAdd"
      BY <1>1, <2>6, <3>1 DEF CallCommitAll, NoFrame
    <3>3. QED
      BY <2>3, <3>2
  <2>7. CASE CallRevert(s)
    <3>1. PICK c \in Past(Tip), commit \in BOOLEAN :
            /\ Start(s, IF commit THEN "revert" ELSE "revert_only")
            /\ Keep(s, [NoFrame EXCEPT !.op = "pick", !.new = c,
                                       !.doCommit = commit])
            /\ Goto(s, "revert")
      BY <2>7 DEF CallRevert
    <3>2. commit
      BY <3>1 DEF Start, Unattended
    <3>3. fr'[s].op = "pick" /\ fr'[s].doCommit /\ pc'[s] = "revert"
      BY <1>1, <3>1, <3>2 DEF NoFrame
    <3>4. QED
      BY <2>3, <3>3
  <2>8. CASE CallRebase(s)
    <3>1. pc'[s] \in {"rebase", "rebaseTarget"}
      BY <1>1, <2>8 DEF CallRebase
    <3>2. QED
      BY <2>3, <3>1
  <2>9. QED
    BY <2>4, <2>5, <2>6, <2>7, <2>8
<1>4. QED
  BY <1>2, <1>3

\* Steps that read only, on the way to a commit.
LEMMA OrderReads ==
  ASSUME Unattended, OrderInv, NEW s \in Sessions,
         \/ MergeStatus(s) \/ CallCommit(s) \/ CommitStatus(s)
         \/ CommitMergeHeads(s) \/ CommitParents(s)
         \/ CommitAllAdd(s) \/ CommitAllStatus(s) \/ CommitAllRm(s)
         \/ PickStatus(s) \/ PickParent(s)
  PROVE  InOrder' /\ Orderly(s)'
<1>1. /\ RepoOK /\ InOrder /\ Orderly(s) /\ CopiesCurrent(s) /\ fr[s] \in Frame
      /\ pc \in [Sessions -> Labels] /\ fr \in [Sessions -> Frame]
  BY OrderFacts
<1>2. CASE Leave(s)
  <2>1. CASE MergeStatus(s)
    <3>1. CASE StatusRows = {}
      BY <1>1, <1>2, <3>1, NothingStaged, OrderLeave DEF StatusRows
    <3>2. CASE StatusRows # {}
      <4>1. HasConflicts(index)
        BY <1>1, <1>2, <2>1, <3>2
        DEF MergeStatus, Orderly, Leave, Return, Goto
      <4>2. QED
        BY <1>2, <4>1, OrderLeave DEF Settled
    <3>3. QED
      BY <3>1, <3>2
  <2>2. CASE CallCommit(s) \/ CommitStatus(s)
    <3>1. StagedFiles = {}
      BY <1>1, <1>2, <2>2
      DEF CallCommit, CommitStatus, ReadStatus, Leave, Return, Goto
    <3>2. QED
      BY <1>1, <1>2, <3>1, NothingStaged, OrderLeave
  <2>3. CASE \/ CommitMergeHeads(s) \/ CommitAllAdd(s) \/ CommitAllStatus(s)
             \/ CommitAllRm(s)
    BY <1>1, <1>2, <2>3
    DEF CommitMergeHeads, CommitAllAdd, CommitAllStatus, CommitAllRm, Orderly,
        Leave, Return, Goto
  <2>4. CASE CommitParents(s)
    <3>1. HasConflicts(index)
      BY <1>1, <1>2, <2>4
      DEF CommitParents, CopiesCurrent, Committing, Leave, Return, Goto
    <3>2. QED
      BY <1>2, <3>1, OrderLeave DEF Settled
  <2>5. CASE PickStatus(s)
    <3>1. index = HeadTree
      BY <1>1, <1>2, <2>5 DEF PickStatus, Leave, Return, Goto
    <3>2. QED
      BY <1>2, <3>1, OrderLeave DEF Settled
  <2>6. CASE PickParent(s)
    BY <1>1, <1>2, <2>6
    DEF PickParent, CopiesCurrent, Orderly, Picked, InOrder, Leave, Return, Goto
  <2>7. QED
    BY <2>1, <2>2, <2>3, <2>4, <2>5, <2>6
<1>3. CASE ~Leave(s)
  <2>1. UNCHANGED repo
    BY <1>1, <1>3
    DEF MergeStatus, CallCommit, CommitStatus, ReadStatus, CommitMergeHeads,
        CommitParents, CommitAllAdd, CommitAllStatus, CommitAllRm, PickStatus,
        PickParent, Orderly
  <2>2. /\ InOrder' /\ Settled' = Settled /\ Joined' = Joined
        /\ HasConflicts(index)' = HasConflicts(index) /\ mergeHead' = mergeHead
    BY <1>1, <2>1, SameFiles DEF repo
  <2> USE DEF Goto, Keep, Orderly, Resting, Merging, Committing, Picked
  <2>3. CASE MergeStatus(s)
    <3>1. pc[s] = "status" /\ pc'[s] = "commit" /\ fr'[s] = fr[s]
      BY <1>1, <1>3, <2>3 DEF MergeStatus
    <3>2. QED
      BY <1>1, <2>2, <3>1
  <2>4. CASE CallCommit(s) \/ CommitStatus(s)
    <3>1. /\ pc'[s] = "heads" /\ pc[s] \in {"idle", "commit"}
          /\ fr'[s].op = fr[s].op /\ fr'[s].squash = fr[s].squash
      <4>1. /\ Keep(s, [fr[s] EXCEPT !.snap = index, !.staged = StagedFiles])
            /\ Goto(s, "heads")
        BY <1>3, <2>4 DEF CallCommit, CommitStatus, ReadStatus
      <4>2. pc[s] \in {"idle", "commit"}
        BY <2>4 DEF CallCommit, CommitStatus, Start
      <4>3. QED
        BY <1>1, <4>1, <4>2 DEF Frame
    <3>2. HasConflicts(index) \/ Joined
      BY <1>1, <3>1 DEF Settled, Joined
    <3>3. QED
      BY <1>1, <2>2, <3>1, <3>2
  <2>5. CASE CommitMergeHeads(s) \/ CommitParents(s)
    <3>1. /\ pc'[s] \in {"parents", "create"} /\ pc[s] \in {"heads", "parents"}
          /\ fr'[s].op = fr[s].op /\ fr'[s].squash = fr[s].squash
      BY <1>1, <1>3, <2>5 DEF CommitMergeHeads, CommitParents, Frame
    <3>2. QED
      BY <1>1, <2>2, <3>1
  <2>6. CASE CommitAllAdd(s) \/ CommitAllRm(s)
    <3>1. /\ \/ pc[s] = "allAdd" /\ pc'[s] = "allRm"
             \/ pc[s] = "allRm" /\ pc'[s] = "commit"
          /\ fr'[s] = fr[s]
      BY <1>1, <2>6 DEF CommitAllAdd, CommitAllRm
    <3>2. Settled => HasConflicts(index) \/ Joined
      BY DEF Settled, Joined
    <3>3. QED
      BY <1>1, <2>2, <3>1, <3>2
  <2>7. CASE PickStatus(s) \/ PickParent(s)
    <3>1. pc'[s] \in {"pickParent", "pickCreate"} /\ pc[s] \in Picked
      BY <1>1, <1>3, <2>7 DEF PickStatus, PickParent
    <3>2. QED
      BY <1>1, <2>2, <3>1
  <2>8. CASE CommitAllStatus(s)
    BY <1>1, <2>8 DEF CommitAllStatus
  <2>9. QED
    BY <2>3, <2>4, <2>5, <2>6, <2>7, <2>8
<1>4. QED
  BY <1>2, <1>3

\* git_repository_state_cleanup.
LEMMA OrderCleanups ==
  ASSUME OrderInv, NEW s \in Sessions,
         \/ StageCleanup(s) \/ CommitFinish(s) \/ AbortCleanup(s)
         \/ PickCleanup(s) \/ PickFinish(s) \/ RevertCleanup(s)
  PROVE  InOrder' /\ Orderly(s)'
<1>1. /\ RepoOK /\ InOrder /\ Orderly(s) /\ fr[s] \in Frame
      /\ pc \in [Sessions -> Labels] /\ fr \in [Sessions -> Frame]
  BY OrderFacts
<1>2. UNCHANGED <<objs, refs, head, index, workdir>> /\ mergeHead' = 0
  BY DEF StageCleanup, CommitFinish, AbortCleanup, PickCleanup, PickFinish,
         RevertCleanup, StateCleanup
<1>3. /\ InOrder' /\ Settled' = Settled /\ Joined'
      /\ HasConflicts(index)' = HasConflicts(index)
  BY <1>1, <1>2, SameFiles
<1>4. CASE CommitFinish(s) \/ AbortCleanup(s) \/ PickFinish(s)
  <2>1. Return(s) /\ pc[s] \in Resting
    BY <1>4 DEF CommitFinish, AbortCleanup, PickFinish, Resting
  <2>2. QED
    BY <1>1, <1>3, <2>1, OrderReturn DEF Orderly
<1> USE DEF Goto, Keep, Orderly, Resting, Merging, Committing, Picked
<1>5. CASE StageCleanup(s)
  <2>1. pc[s] = "cleanup" /\ pc'[s] = "status" /\ fr'[s] = fr[s]
    BY <1>1, <1>5 DEF StageCleanup
  <2>2. QED
    BY <1>1, <1>3, <2>1
<1>6. CASE PickCleanup(s)
  <2>1. pc[s] = "pickCleanup" /\ pc'[s] = "pickStatus"
    BY <1>1, <1>6 DEF PickCleanup
  <2>2. QED
    BY <1>1, <1>3, <2>1
<1>7. CASE RevertCleanup(s)
  <2>1. pc[s] = "revertCleanup" /\ pc'[s] = "commit" /\ fr'[s] = fr[s]
    BY <1>1, <1>7 DEF RevertCleanup
  <2>2. QED
    BY <1>1, <1>3, <2>1
<1>8. QED
  BY <1>4, <1>5, <1>6, <1>7

\* What a checkout of a commit's tree from a settled repository leaves.
LEMMA OrderCheckout ==
  ASSUME OrderInv, NEW t \in Tree, MarkerFree(t),
         UNCHANGED <<objs, refs, head>>,
         \/ Settled /\ CheckoutSafeOk(t) /\ CheckoutSafe(t)
         \/ CheckoutForce(t)
  PROVE  /\ InOrder' /\ index' = t /\ ~HasConflicts(index)'
         /\ Tip' = Tip /\ HeadTree' = HeadTree
         /\ \A c : TreeOf(c)' = TreeOf(c)
<1>1. RepoOK /\ InOrder
  BY DEF OrderInv, AloneInv, PickInv, TypeOK
<1>2. index' = t /\ workdir' = t
  BY <1>1, CleanCheckout DEF InOrder
<1>3. /\ NoMarkersCommitted' /\ MergeTreeIsMerge' /\ Tip' = Tip
      /\ \A c : TreeOf(c)' = TreeOf(c)
  BY <1>1, SameCommits
<1>4. ~HasConflicts(index)'
  BY <1>2, ContentAssumption DEF HasConflicts, Tree
<1>5. InOrder'
  BY <1>1, <1>2, <1>3 DEF InOrder, IndexKept, MarkerFree
<1>6. QED
  BY <1>2, <1>3, <1>4, <1>5 DEF HeadTree

\* R_git_branch_set_target, after a fast-forward or a rebase.
LEMMA OrderTarget ==
  ASSUME OrderInv, NEW s \in Sessions, SetTargetCheckout(s) \/ RebaseTarget(s)
  PROVE  InOrder' /\ Orderly(s)'
<1>1. /\ RepoOK /\ InOrder /\ Orderly(s) /\ fr[s] \in Frame /\ FrameOK(fr[s])
      /\ pc \in [Sessions -> Labels] /\ fr \in [Sessions -> Frame]
      /\ History(objs) /\ refs \in [Branches -> 0 .. Len(objs)]
  BY OrderFacts
<1>2. Settled
  BY <1>1 DEF SetTargetCheckout, RebaseTarget, Orderly, Resting
<1>3. CASE Leave(s)
  BY <1>2, <1>3, OrderLeave
<1>4. CASE ~Leave(s)
  <2>1. PICK target \in 0 .. Len(objs) :
          /\ CheckoutSafeOk(TreeOf(target)) /\ CheckoutSafe(TreeOf(target))
          /\ Keep(s, [fr[s] EXCEPT !.onto = head, !.old = Tip, !.new = target])
          /\ Goto(s, "move")
          /\ UNCHANGED <<objs, refs, head>>
    <3>1. fr[s].new \in 0 .. Len(objs) /\ refs[fr[s].ref] \in 0 .. Len(objs)
      BY <1>1 DEF FrameOK, Frame
    <3>2. QED
      BY <1>4, <3>1 DEF SetTargetCheckout, RebaseTarget
  <2>2. TreeOf(target) \in Tree /\ MarkerFree(TreeOf(target))
    BY <1>1, TreeType, CommitsMarkerFree DEF InOrder
  <2>3. /\ InOrder' /\ index' = TreeOf(target) /\ Tip' = Tip
        /\ TreeOf(target)' = TreeOf(target)
    BY <1>2, <2>1, <2>2, OrderCheckout
  <2>4. /\ pc'[s] = "move" /\ fr'[s].onto = head /\ fr'[s].old = Tip
        /\ fr'[s].new = target
    BY <1>1, <2>1 DEF Keep, Goto, Frame
  <2>5. QED
    BY <2>1, <2>3, <2>4
    DEF Orderly, Resting, Merging, Committing, Picked, TreeOf
<1>5. QED
  BY <1>3, <1>4

\* git_reset_hard and the reset of git_merge_abort.
LEMMA OrderReset ==
  ASSUME Unattended, OrderInv, NEW s \in Sessions,
         AbortReset(s) \/ CallReset(s)
  PROVE  InOrder' /\ Orderly(s)'
<1>1. /\ RepoOK /\ InOrder /\ Orderly(s) /\ fr[s] \in Frame
      /\ pc \in [Sessions -> Labels] /\ fr \in [Sessions -> Frame]
      /\ History(objs) /\ refs \in [Branches -> 0 .. Len(objs)]
      /\ head \in Branches /\ Tip \in Ids /\ Len(objs) \in Nat
  BY OrderFacts
<1>2. CASE AbortReset(s)
  <2>1. /\ CheckoutForce(HeadTree) /\ UNCHANGED <<objs, refs, head, fr>>
        /\ Goto(s, "abortCleanup")
    BY <1>1, <1>2 DEF AbortReset, InOrder
  <2>2. HeadTree \in Tree /\ MarkerFree(HeadTree)
    BY <1>1, HeadTreeType, CommitsMarkerFree DEF InOrder, HeadTree
  <2>3. InOrder' /\ index' = HeadTree' /\ pc'[s] = "abortCleanup"
    BY <1>1, <2>1, <2>2, OrderCheckout DEF Goto
  <2>4. QED
    BY <2>3 DEF Orderly, Resting, Merging, Committing, Picked, Settled
<1>3. CASE CallReset(s)
  <2>1. PICK b \in Branches :
          /\ refs[b] # 0 /\ HardReset(refs[b]) /\ pc[s] = "idle"
          /\ UNCHANGED <<pc, fr>>
    BY <1>3 DEF CallReset, Start, Unattended
  <2> DEFINE t == TreeOf(refs[b])
  <2>2. /\ refs[b] \in Ids /\ UNCHANGED <<objs, head>>
        /\ refs' = [refs EXCEPT ![head] = refs[b]]
        /\ CheckoutForce(t)
    BY <1>1, <2>1 DEF HardReset
  <2>3. refs[b] \in 0 .. Len(objs)
    BY <2>2
  <2>4. t \in Tree /\ MarkerFree(t)
    BY <1>1, <2>3, TreeType, CommitsMarkerFree DEF InOrder
  <2>5. index' = t /\ workdir' = t
    BY <1>1, <2>2, <2>4, CleanCheckout DEF InOrder
  <2>6. Tip' = refs[b]
    BY <1>1, <2>2
  <2>7. HeadTree' = t
    BY <2>2, <2>6 DEF HeadTree, TreeOf
  <2>8. NoMarkersCommitted' /\ MergeTreeIsMerge'
    BY <1>1, <2>2, SameCommits
  <2> HIDE DEF t
  <2>9. InOrder'
    BY <2>1, <2>4, <2>5, <2>6, <2>8 DEF InOrder, IndexKept, MarkerFree
  <2>10. Settled'
    BY <2>5, <2>7 DEF Settled
  <2>11. QED
    BY <1>1, <2>1, <2>9, <2>10
    DEF Orderly, Resting, Merging, Committing, Picked
<1>4. QED
  BY <1>2, <1>3

\* git_branch_checkout and the checkout of git_branch_create.
LEMMA OrderBranches ==
  ASSUME OrderInv, NEW s \in Sessions, CallCheckout(s) \/ CreateCheckout(s)
  PROVE  InOrder' /\ Orderly(s)'
<1>1. /\ RepoOK /\ InOrder /\ Orderly(s) /\ fr[s] \in Frame /\ FrameOK(fr[s])
      /\ pc \in [Sessions -> Labels] /\ fr \in [Sessions -> Frame]
      /\ History(objs) /\ refs \in [Branches -> 0 .. Len(objs)]
  BY OrderFacts
<1>2. Settled
  BY <1>1 DEF CallCheckout, Start, CreateCheckout, Orderly, Resting
<1>3. CASE Leave(s) /\ CreateCheckout(s)
  BY <1>2, <1>3, OrderLeave
<1>4. CASE ~(Leave(s) /\ CreateCheckout(s))
  <2>1. PICK b \in Branches :
          /\ refs[b] # 0
          /\ \/ CheckoutSafeOk(TreeOf(refs[b])) /\ CheckoutSafe(TreeOf(refs[b]))
             \/ CheckoutForce(TreeOf(refs[b]))
          /\ fr'[s].ref = b
          /\ pc'[s] = "setHead"
          /\ UNCHANGED <<objs, refs, head>>
    <3>1. CASE CallCheckout(s)
      <4>1. PICK b \in Branches, force \in BOOLEAN :
              /\ refs[b] # 0 /\ CheckoutTree(s, b, force)
              /\ Keep(s, [NoFrame EXCEPT !.ref = b])
        BY <3>1 DEF CallCheckout
      <4>2. fr'[s].ref = b /\ pc'[s] = "setHead"
        BY <1>1, <4>1 DEF CheckoutTree, Keep, Goto, NoFrame
      <4>3. QED
        BY <4>1, <4>2 DEF CheckoutTree
    <3>2. CASE CreateCheckout(s)
      <4>1. /\ \/ /\ CheckoutSafeOk(TreeOf(fr[s].new))
                  /\ CheckoutSafe(TreeOf(fr[s].new))
               \/ CheckoutForce(TreeOf(fr[s].new))
            /\ Goto(s, "setHead") /\ UNCHANGED <<objs, refs, head, fr>>
            /\ pc[s] = "branchTree"
        BY <1>4, <3>2 DEF CreateCheckout
      <4>2. refs[fr[s].ref] = fr[s].new /\ fr[s].new # 0 /\ fr[s].ref \in Branches
        BY <1>1, <4>1 DEF Orderly, Frame
      <4>3. pc'[s] = "setHead" /\ fr'[s].ref = fr[s].ref
        BY <1>1, <4>1 DEF Goto
      <4>4. QED
        BY <4>1, <4>2, <4>3
    <3>3. QED
      BY <3>1, <3>2
  <2>2. TreeOf(refs[b]) \in Tree /\ MarkerFree(TreeOf(refs[b]))
    BY <1>1, TreeType, CommitsMarkerFree DEF InOrder
  <2>3. /\ InOrder' /\ index' = TreeOf(refs[b])
        /\ \A c : TreeOf(c)' = TreeOf(c)
    BY <1>2, <2>1, <2>2, OrderCheckout
  <2>4. index' = TreeOf(refs[fr[s].ref])' /\ refs'[fr'[s].ref] # 0
    BY <2>1, <2>3 DEF TreeOf
  <2>5. QED
    BY <2>1, <2>3, <2>4 DEF Orderly, Resting, Merging, Committing, Picked
<1>5. QED
  BY <1>3, <1>4

\* git_merge stages the merge.
LEMMA OrderStage ==
  ASSUME OrderInv, NEW s \in Sessions, Stage(s)
  PROVE  InOrder' /\ Orderly(s)'
<1>1. /\ RepoOK /\ InOrder /\ Orderly(s) /\ fr[s] \in Frame
      /\ pc \in [Sessions -> Labels] /\ fr \in [Sessions -> Frame]
      /\ History(objs) /\ Len(objs) \in Nat
      /\ refs \in [Branches -> 0 .. Len(objs)] /\ Tip \in Ids
  BY OrderFacts
<1>2. PICK theirs : theirs = refs[fr[s].ref]
  OBVIOUS
<1> DEFINE new == MergeResult(theirs)
<1>3. /\ pc[s] = "stage" /\ Settled /\ theirs \in Ids
      /\ theirs \notin Past(Tip) /\ fr[s].op = "merge" /\ fr[s].doCommit
  <2>1. pc[s] = "stage"
    BY DEF Stage
  <2>2. fr[s].ref \in Branches
    BY <1>1 DEF Frame
  <2>3. QED
    BY <1>1, <1>2, <2>1, <2>2 DEF Orderly, Resting
<1>4. CASE MergeAllowed(new)
  <2>1. /\ MergeCheckout(new, theirs) /\ mergeHead' = theirs /\ origHead' = Tip
        /\ UNCHANGED <<objs, refs, head>>
        /\ Keep(s, [fr[s] EXCEPT !.clean = ~HasConflicts(new)])
        /\ Goto(s, IF fr[s].squash THEN "cleanup" ELSE "status")
    BY <1>1, <1>2, <1>3, <1>4 DEF Stage
  <2>2. index' = new /\ IndexKept'
    BY <1>1, <1>3, <1>4, <2>1, CleanStage DEF InOrder
  <2>3. /\ NoMarkersCommitted' /\ MergeTreeIsMerge' /\ Tip' = Tip
        /\ \A c : TreeOf(c)' = TreeOf(c) /\ Past(c)' = Past(c)
        /\ \A a, b \in 0 .. Len(objs) : MergeBase(a, b)' = MergeBase(a, b)
    BY <1>1, <2>1, SameCommits
  <2>4. MarkerFree(new)
    <3>1. MarkerFree(HeadTree) /\ MarkerFree(TreeOf(theirs))
      BY <1>1, <1>3, CommitsMarkerFree DEF InOrder, HeadTree
    <3>2. QED
      BY <3>1, MergeMarkerFree DEF MergeResult
  <2>5. InOrder'
    BY <1>1, <2>2, <2>3, <2>4 DEF InOrder, MarkerFree
  <2>6. MergeResult(theirs)' = new
    <3>1. theirs \in 0 .. Len(objs) /\ Tip \in 0 .. Len(objs)
      BY <1>1, <1>3
    <3>2. MergeBase(Tip, theirs)' = MergeBase(Tip, theirs)
      BY <2>3, <3>1
    <3>3. QED
      BY <2>3, <3>2 DEF MergeResult, HeadTree
  <2>7. Joined'
    <3>1. MergeResult(mergeHead)' = new
      BY <2>1, <2>6 DEF MergeResult, TreeOf, MergeBase, YoungestCommon, CommonPast, Past
    <3>2. mergeHead' \notin Past(Tip)'
      BY <1>3, <2>1, <2>3
    <3>3. QED
      BY <2>1, <2>2, <2>3, <3>1, <3>2 DEF Joined
  <2>8. /\ pc'[s] = IF fr[s].squash THEN "cleanup" ELSE "status"
        /\ fr'[s].op = "merge" /\ fr'[s].doCommit /\ fr'[s].squash = fr[s].squash
        /\ fr'[s].clean = ~HasConflicts(new)
    BY <1>1, <1>3, <2>1 DEF Keep, Goto, Frame
  <2>9. HasConflicts(index)' = HasConflicts(new)
    BY <2>2 DEF HasConflicts
  <2>10. mergeHead' # 0
    BY <1>3, <2>1
  <2> HIDE DEF new
  <2>11. QED
    BY <1>1, <2>5, <2>7, <2>8, <2>9, <2>10
    DEF Orderly, Resting, Merging, Committing, Picked, Frame
<1>5. CASE ~MergeAllowed(new)
  <2>1. /\ UNCHANGED <<objs, refs, head, index, workdir>> /\ Return(s)
    BY <1>2, <1>5 DEF Stage
  <2>2. InOrder' /\ Settled'
    BY <1>1, <1>3, <2>1, SameFiles
  <2>3. QED
    BY <2>1, <2>2, OrderReturn
<1>6. QED
  BY <1>4, <1>5

\* The checkouts of git_cherry_pick and git_revert.
LEMMA OrderPicks ==
  ASSUME Unattended, OrderInv, NEW s \in Sessions,
         CallCherryPick(s) \/ RevertApply(s)
  PROVE  InOrder' /\ Orderly(s)'
<1>1. /\ RepoOK /\ InOrder /\ Orderly(s) /\ fr[s] \in Frame /\ FrameOK(fr[s])
      /\ pc \in [Sessions -> Labels] /\ fr \in [Sessions -> Frame]
      /\ History(objs) /\ Len(objs) \in Nat /\ MovesExist
  BY OrderFacts DEF OrderInv, AloneInv, PickInv
<1>2. Settled
  BY <1>1 DEF CallCherryPick, Start, RevertApply, Orderly, Resting
<1>3. CASE Leave(s) /\ RevertApply(s)
  BY <1>2, <1>3, OrderLeave
<1>4. ASSUME ~(Leave(s) /\ RevertApply(s))
      PROVE  \E b, a \in Tree :
               /\ MarkerFree(a) /\ Applies(Applied(b, a))
               /\ CheckoutSafe(Applied(b, a)) /\ UNCHANGED <<objs, refs, head>>
  <2>1. CASE CallCherryPick(s)
    <3>1. PICK c \in Ids :
            /\ Applies(Applied(ParentTree(c), TreeOf(c)))
            /\ CheckoutSafe(Applied(ParentTree(c), TreeOf(c)))
            /\ UNCHANGED <<objs, refs, head>>
      BY <2>1 DEF CallCherryPick
    <3>2. c \in 0 .. Len(objs)
      BY <1>1
    <3>3. ParentTree(c) \in Tree /\ TreeOf(c) \in Tree /\ MarkerFree(TreeOf(c))
      BY <1>1, <3>2, ParentTreeType, TreeType, CommitsMarkerFree DEF InOrder
    <3>4. QED
      BY <3>1, <3>3
  <2>2. CASE RevertApply(s)
    <3>1. PICK c : c = fr[s].new
      OBVIOUS
    <3>2. c \in Ids /\ c \in 0 .. Len(objs)
      BY <1>1, <2>2, <3>1 DEF RevertApply, FrameOK, MovesExist, Holding
    <3>3. /\ Applies(Applied(TreeOf(c), ParentTree(c)))
          /\ CheckoutSafe(Applied(TreeOf(c), ParentTree(c)))
          /\ UNCHANGED <<objs, refs, head>>
      BY <1>4, <2>2, <3>1 DEF RevertApply
    <3>4. /\ ParentTree(c) \in Tree /\ TreeOf(c) \in Tree
          /\ MarkerFree(ParentTree(c))
      BY <1>1, <3>2, ParentTreeType, TreeType, CommitsMarkerFree DEF InOrder
    <3>5. QED
      BY <3>3, <3>4
  <2>3. QED
    BY <2>1, <2>2
<1>5. CASE ~(Leave(s) /\ RevertApply(s))
  <2>1. PICK b \in Tree, a \in Tree :
          /\ MarkerFree(a) /\ Applies(Applied(b, a))
          /\ CheckoutSafe(Applied(b, a)) /\ UNCHANGED <<objs, refs, head>>
    BY <1>4, <1>5
  <2>2. PICK t : t = Applied(b, a)
    OBVIOUS
  <2>3. t \in Tree
    BY <1>1, <2>1, <2>2, AppliedType
  <2>4. MarkerFree(t)
    <3>1. MarkerFree(HeadTree)
      <4>1. Tip \in 0 .. Len(objs)
        BY <1>1 DEF RepoOK
      <4>2. QED
        BY <1>1, <4>1, CommitsMarkerFree DEF InOrder, HeadTree
    <3>2. QED
      BY <2>1, <2>2, <3>1, MergeMarkerFree DEF Applied
  <2>5. InOrder' /\ ~HasConflicts(index)'
    BY <1>2, <2>1, <2>2, <2>3, <2>4, OrderCheckout DEF Applies
  <2>6. CASE CallCherryPick(s)
    <3>1. pc'[s] = "pickCleanup"
      BY <1>1, <2>6 DEF CallCherryPick, Goto
    <3>2. QED
      BY <2>5, <3>1 DEF Orderly, Resting, Merging, Committing, Picked
  <2>7. CASE RevertApply(s)
    <3>1. pc[s] = "revert" /\ pc'[s] = "revertCleanup" /\ fr' = fr
      BY <1>1, <1>5, <2>7 DEF RevertApply, Goto
    <3>2. QED
      BY <1>1, <2>5, <3>1 DEF Orderly, Resting, Merging, Committing, Picked
  <2>8. QED
    BY <2>6, <2>7
<1>6. QED
  BY <1>3, <1>5

\* The steps that move a branch or HEAD and write no file.
LEMMA OrderMoves ==
  ASSUME OrderInv, NEW s \in Sessions,
         SetTargetMove(s) \/ SetHead(s) \/ CallCreate(s) \/ CallDelete(s)
  PROVE  InOrder' /\ Orderly(s)'
<1>1. /\ RepoOK /\ InOrder /\ Orderly(s) /\ fr[s] \in Frame /\ MovesExist
      /\ pc \in [Sessions -> Labels] /\ fr \in [Sessions -> Frame]
      /\ refs \in [Branches -> 0 .. Len(objs)] /\ head \in Branches
      /\ Len(objs) \in Nat /\ FrameOK(fr[s])
  BY OrderFacts DEF OrderInv, AloneInv, PickInv
<1>2. UNCHANGED <<objs, index, workdir>>
  BY DEF SetTargetMove, SetHead, CallCreate, CallDelete
<1>3. /\ NoMarkersCommitted' /\ MergeTreeIsMerge'
      /\ \A c : TreeOf(c)' = TreeOf(c)
  BY <1>1, <1>2, SameCommits
<1>4. Tip' # 0 => InOrder'
  BY <1>1, <1>2, <1>3 DEF InOrder, IndexKept, MarkerFree
<1>5. CASE SetTargetMove(s)
  <2>1. /\ fr[s].onto = head /\ fr[s].old = Tip /\ index = TreeOf(fr[s].new)
        /\ fr[s].new # 0
    BY <1>1, <1>5 DEF SetTargetMove, Orderly, MovesExist, Holding
  <2>2. Tip' = fr[s].new /\ Return(s)
    BY <1>1, <1>5, <2>1 DEF SetTargetMove
  <2>3. HeadTree' = TreeOf(fr[s].new)
    BY <1>2, <2>2 DEF HeadTree, TreeOf
  <2>4. Settled'
    BY <1>2, <2>1, <2>3 DEF Settled
  <2>5. QED
    BY <1>4, <2>1, <2>2, <2>4, OrderReturn
<1>6. CASE SetHead(s)
  <2>1. refs[fr[s].ref] # 0 /\ index = TreeOf(refs[fr[s].ref])
    BY <1>1, <1>6 DEF SetHead, Orderly
  <2>2. Tip' = refs[fr[s].ref] /\ Return(s)
    BY <1>6 DEF SetHead
  <2>3. HeadTree' = TreeOf(refs[fr[s].ref])
    BY <1>2, <2>2 DEF HeadTree, TreeOf
  <2>4. Settled'
    BY <1>2, <2>1, <2>3 DEF Settled
  <2>5. QED
    BY <1>4, <2>1, <2>2, <2>4, OrderReturn
<1>7. CASE CallCreate(s) \/ CallDelete(s)
  <2>1. PICK b \in Branches :
          /\ b # head /\ head' = head /\ pc[s] = "idle"
          /\ \/ refs' = [refs EXCEPT ![b] = 0] /\ UNCHANGED <<pc, fr>>
             \/ \E from \in Branches :
                  /\ refs[from] # 0
                  /\ refs' = [refs EXCEPT ![b] = refs[from]]
                  /\ \/ UNCHANGED <<pc, fr>>
                     \/ /\ pc'[s] = "branchTree" /\ fr'[s].ref = b
                        /\ fr'[s].new = refs[from]
    <3>1. CASE CallDelete(s)
      BY <3>1 DEF CallDelete, Start
    <3>2. CASE CallCreate(s)
      <4>1. PICK b \in Branches, from \in Branches,
                 checkout \in BOOLEAN, force \in BOOLEAN :
              /\ pc[s] = "idle"
              /\ refs[from] # 0
              /\ refs[b] # 0 => force /\ b # head
              /\ refs' = [refs EXCEPT ![b] = refs[from]]
              /\ IF checkout
                   THEN /\ Keep(s, [NoFrame EXCEPT !.ref = b, !.force = force,
                                                   !.new = refs[from]])
                        /\ Goto(s, "branchTree")
                   ELSE UNCHANGED <<pc, fr>>
              /\ head' = head
        BY <3>2 DEF CallCreate, Start
      <4>2. b # head
        BY <1>1, <4>1 DEF InOrder
      <4>3. \/ UNCHANGED <<pc, fr>>
            \/ /\ pc'[s] = "branchTree" /\ fr'[s].ref = b
               /\ fr'[s].new = refs[from]
        <5>1. CASE checkout
          <6>1. /\ Keep(s, [NoFrame EXCEPT !.ref = b, !.force = force,
                                           !.new = refs[from]])
                /\ Goto(s, "branchTree")
            BY <4>1, <5>1
          <6>2. QED
            BY <1>1, <6>1 DEF Keep, Goto, NoFrame
        <5>2. CASE ~checkout
          BY <4>1, <5>2
        <5>3. QED
          BY <5>1, <5>2
      <4>4. QED
        BY <4>1, <4>2, <4>3
    <3>3. QED
      BY <1>7, <3>1, <3>2
  <2>2. Tip' = Tip
    BY <1>1, <2>1
  <2>3. InOrder'
    BY <1>1, <1>4, <2>2 DEF InOrder
  <2>4. Settled'
    <3>1. HeadTree' = HeadTree
      BY <1>3, <2>2 DEF HeadTree
    <3>2. QED
      BY <1>1, <1>2, <2>1, <3>1 DEF Orderly, Resting, Settled, HasConflicts
  <2>5. CASE UNCHANGED <<pc, fr>>
    BY <1>1, <2>1, <2>3, <2>4, <2>5
    DEF Orderly, Resting, Merging, Committing, Picked
  <2>6. CASE ~UNCHANGED <<pc, fr>>
    <3>1. PICK from \in Branches :
            /\ refs[from] # 0 /\ refs' = [refs EXCEPT ![b] = refs[from]]
            /\ pc'[s] = "branchTree" /\ fr'[s].ref = b /\ fr'[s].new = refs[from]
      BY <2>1, <2>6
    <3>2. refs'[fr'[s].ref] = fr'[s].new /\ fr'[s].new # 0
      BY <1>1, <3>1
    <3>3. QED
      BY <2>3, <2>4, <3>1, <3>2
      DEF Orderly, Resting, Merging, Committing, Picked
  <2>7. QED
    BY <2>5, <2>6
<1>8. QED
  BY <1>5, <1>6, <1>7

\* git_commit_create, after a merge, a commit or a revert.
LEMMA OrderCommit ==
  ASSUME OrderInv, NEW s \in Sessions, CommitCreated(s)
  PROVE  /\ InOrder' /\ Orderly(s)'
         /\ objs'[Len(objs')].parents =
              IF mergeHead = 0 THEN <<Tip>> ELSE <<Tip, mergeHead>>
         /\ mergeHead # 0 => origHead = Tip /\ mergeHead \notin Past(Tip)
         /\ fr[s].op = "merge" /\ ~fr[s].squash => mergeHead # 0
<1>1. /\ TypeOK /\ RepoOK /\ InOrder /\ Orderly(s) /\ fr[s] \in Frame
      /\ pc \in [Sessions -> Labels] /\ fr \in [Sessions -> Frame]
      /\ CopiesCurrent(s) /\ SessionsOK /\ History(objs) /\ Len(objs) \in Nat
      /\ refs \in [Branches -> 0 .. Len(objs)] /\ head \in Branches
      /\ Tip \in Ids
  BY OrderFacts
<1>2. pc[s] = "create"
  BY DEF CommitCreated
<1>3. /\ fr[s].snap = index /\ StagedFiles # {} /\ fr[s].mergeParent = mergeHead
      /\ fr[s].old = Tip /\ Tip # 0 /\ ~HasConflicts(index)
  BY <1>1, <1>2 DEF CopiesCurrent, Committing, SessionsOK, InOrder
<1>4. index \in Tree
  BY <1>1, <1>3, CleanIndex DEF RepoOK
<1>5. /\ mergeHead # 0 => /\ index = MergeResult(mergeHead)
                          /\ origHead = Tip /\ mergeHead \notin Past(Tip)
      /\ fr[s].op = "merge" /\ ~fr[s].squash => mergeHead # 0
  <2>1. index # HeadTree
    BY <1>3 DEF StagedFiles
  <2>2. QED
    BY <1>1, <1>2, <1>3, <2>1 DEF Orderly, Merging, Committing, Joined
<1> DEFINE ps == IF mergeHead = 0 THEN <<Tip>> ELSE <<Tip, mergeHead>>
<1>6. ParentList(fr[s]) = ps
  BY <1>3 DEF ParentList
<1>7. /\ History(objs') /\ Len(objs') = Len(objs) + 1
      /\ \A c \in Ids : objs'[c] = objs[c]
      /\ refs' = [refs EXCEPT ![head] = Len(objs')]
      /\ objs'[Len(objs')] = NewCommit(ps, index)
  BY <1>1, <1>3, <1>6, CommitCreatedStep DEF TypeOK, RepoOK
<1>8. Extended /\ UNCHANGED <<head, index, workdir>>
  BY <1>1, <1>7 DEF Extended, CommitCreated
<1>9. PICK n : n = Len(objs')
  OBVIOUS
<1>10. objs'[n].parents = ps /\ objs'[n].tree = index
  BY <1>7, <1>9 DEF NewCommit
<1>11. MergesSides(n)'
  <2>1. CASE mergeHead = 0
    BY <1>10, <2>1 DEF MergesSides
  <2>2. CASE mergeHead # 0
    <3>1. PICK p, q : p = Tip /\ q = mergeHead
      OBVIOUS
    <3>2. p \in 0 .. Len(objs) /\ q \in 0 .. Len(objs)
      BY <1>1, <3>1 DEF RepoOK
    <3>3. /\ TreeOf(p)' = TreeOf(p) /\ TreeOf(q)' = TreeOf(q)
          /\ MergeBase(p, q)' = MergeBase(p, q)
      BY <1>1, <1>7, <1>8, <3>2, OldCommits
    <3>4. MergeBase(p, q) \in 0 .. Len(objs)
      BY <1>1, <3>2, BaseExists
    <3>5. TreeOf(MergeBase(p, q))' = TreeOf(MergeBase(p, q))
      BY <1>1, <1>8, <3>3, <3>4 DEF TreeOf, Extended
    <3>6. index = MergeTrees(TreeOf(MergeBase(p, q)), TreeOf(p), TreeOf(q))
      BY <1>5, <2>2, <3>1 DEF MergeResult, HeadTree
    <3>7. objs'[n].tree =
            MergeTrees(TreeOf(MergeBase(p, q)), TreeOf(p), TreeOf(q))'
      BY <1>10, <3>3, <3>5, <3>6 DEF MergeTrees
    <3>8. objs'[n].parents[1] = p /\ objs'[n].parents[2] = q
      BY <1>10, <2>2, <3>1
    <3>9. QED
      BY <3>7, <3>8 DEF MergesSides
  <2>3. QED
    BY <2>1, <2>2
<1>12. \A c \in 1 .. Len(objs') : c \notin Ids => c = n
  BY <1>1, <1>7, <1>9
<1>13. NoMarkersCommitted' /\ MergeTreeIsMerge'
  BY <1>1, <1>7, <1>8, <1>10, <1>11, <1>12, GoodCommits DEF InOrder
<1>14. Tip' = n /\ n # 0
  BY <1>1, <1>7, <1>8, <1>9
<1>15. HeadTree' = index
  BY <1>10, <1>14 DEF HeadTree, TreeOf
<1>16. InOrder'
  BY <1>1, <1>8, <1>13, <1>14 DEF InOrder, IndexKept, MarkerFree
<1>17. Settled'
  BY <1>8, <1>15 DEF Settled
<1>18. Orderly(s)'
  <2>1. CASE Return(s)
    BY <1>17, <2>1, OrderReturn
  <2>2. CASE ~Return(s)
    <3>1. pc'[s] = "finish"
      BY <1>1, <2>2 DEF CommitCreated, Goto
    <3>2. QED
      BY <1>17, <3>1 DEF Orderly, Resting, Merging, Committing, Picked
  <2>3. QED
    BY <2>1, <2>2
<1>19. QED
  BY <1>5, <1>9, <1>10, <1>16, <1>18

\* A commit that is written again, by a cherry-pick or a rebase.
LEMMA OrderRecommit ==
  ASSUME RepoOK, InOrder, NEW c \in Ids, NEW p \in Ids, NEW t \in Tree,
         MarkerFree(t), NEW d \in Recommitted(c, p, t), WriteCommit(d, p, t)
  PROVE  /\ NoMarkersCommitted' /\ MergeTreeIsMerge'
         /\ TreeOf(d)' = t /\ d # 0
         /\ \A e \in 0 .. Len(objs) : TreeOf(e)' = TreeOf(e)
<1>1. /\ History(objs) /\ History(objs')
      /\ Len(objs) \in Nat /\ Len(objs') \in Nat /\ Len(objs) <= Len(objs')
      /\ d \in 1 .. Len(objs')
      /\ \A e \in Ids : objs'[e] = objs[e]
      /\ \/ objs' = objs /\ d \in Ids
         \/ d = Len(objs) + 1 /\ objs' = Append(objs, NewCommit(<<p>>, t))
  BY RecommitStep DEF RepoOK
<1>2. Extended
  BY <1>1 DEF Extended
<1>3. \A e \in 0 .. Len(objs) : TreeOf(e)' = TreeOf(e)
  BY <1>1 DEF TreeOf
<1>4. CASE objs' = objs /\ d \in Ids
  <2>1. SameCommit(d, p, t)
    BY <1>1, <1>4 DEF Recommitted, NewId
  <2>2. TreeOf(d)' = t
    BY <1>1, <1>4, <2>1 DEF SameCommit, TreeOf
  <2>3. QED
    BY <1>1, <1>3, <1>4, <2>2, SameCommits
<1>5. CASE d = Len(objs) + 1 /\ objs' = Append(objs, NewCommit(<<p>>, t))
  <2>1. objs'[d] = NewCommit(<<p>>, t) /\ Len(objs') = Len(objs) + 1
    BY <1>1, <1>5 DEF History
  <2>2. objs'[d].tree = t /\ objs'[d].parents = <<p>>
    BY <2>1 DEF NewCommit
  <2>3. MergesSides(d)'
    BY <2>2 DEF MergesSides
  <2>4. \A e \in 1 .. Len(objs') : e \notin Ids => e = d
    BY <1>1, <1>5, <2>1
  <2>5. NoMarkersCommitted' /\ MergeTreeIsMerge'
    BY <1>1, <1>2, <2>2, <2>3, <2>4, GoodCommits DEF InOrder
  <2>6. TreeOf(d)' = t /\ d # 0
    BY <1>1, <2>2 DEF TreeOf
  <2>7. QED
    BY <1>3, <2>5, <2>6
<1>6. QED
  BY <1>1, <1>4, <1>5

\* The commit of a cherry-pick.
LEMMA OrderPickCommit ==
  ASSUME OrderInv, NEW s \in Sessions, PickCreate(s)
  PROVE  InOrder' /\ Orderly(s)'
<1>1. /\ RepoOK /\ InOrder /\ Orderly(s) /\ fr[s] \in Frame /\ FrameOK(fr[s])
      /\ pc \in [Sessions -> Labels] /\ fr \in [Sessions -> Frame]
      /\ CopiesCurrent(s) /\ Tip \in Ids /\ head \in Branches
      /\ refs \in [Branches -> 0 .. Len(objs)]
  BY OrderFacts
<1>2. PICK c, p, t : c = fr[s].new /\ p = fr[s].old /\ t = fr[s].snap
  OBVIOUS
<1>3. pc[s] = "pickCreate"
  BY DEF PickCreate
<1>4. /\ c \in Ids /\ p = Tip /\ t = index /\ ~HasConflicts(index)
  BY <1>1, <1>2, <1>3 DEF CopiesCurrent, Picking, Orderly, Picked
<1>5. t \in Tree /\ MarkerFree(t)
  BY <1>1, <1>4, CleanIndex DEF RepoOK, InOrder
<1>6. PICK d \in Recommitted(c, p, t) :
        WriteCommit(d, p, t) /\ refs' = [refs EXCEPT ![head] = d]
  BY <1>2 DEF PickCreate
<1>7. /\ NoMarkersCommitted' /\ MergeTreeIsMerge' /\ TreeOf(d)' = t /\ d # 0
  BY <1>1, <1>4, <1>5, <1>6, OrderRecommit
<1>8. /\ pc'[s] = "pickFinish" /\ UNCHANGED <<head, index, workdir>>
  BY <1>1 DEF PickCreate, Goto
<1>9. Tip' = d
  BY <1>1, <1>6, <1>8
<1>10. HeadTree' = t
  BY <1>7, <1>9 DEF HeadTree, TreeOf
<1>11. InOrder'
  BY <1>1, <1>7, <1>8, <1>9 DEF InOrder, IndexKept, MarkerFree
<1>12. Settled'
  BY <1>4, <1>8, <1>10 DEF Settled
<1>13. QED
  BY <1>8, <1>11, <1>12 DEF Orderly, Resting, Merging, Committing, Picked

\* A rebase replays one commit or ends; branch and files stay as they are.
LEMMA OrderReplay ==
  ASSUME OrderInv, NEW s \in Sessions, RebaseNext(s)
  PROVE  InOrder' /\ Orderly(s)'
<1>1. /\ RepoOK /\ InOrder /\ Orderly(s) /\ fr[s] \in Frame /\ FrameOK(fr[s])
      /\ pc \in [Sessions -> Labels] /\ fr \in [Sessions -> Frame]
      /\ Tip \in Ids /\ History(objs) /\ Len(objs) \in Nat /\ MovesExist
  BY OrderFacts DEF OrderInv, AloneInv, PickInv
<1>2. pc[s] = "rebase" /\ Settled
  BY <1>1 DEF RebaseNext, Orderly, Resting
<1>3. CASE Leave(s)
  BY <1>2, <1>3, OrderLeave
<1>4. CASE ~Leave(s)
  <2>1. PICK c \in NextTodo(fr[s].todo) :
          /\ Replays(s, c)
          /\ \E d \in Recommitted(c, fr[s].new, ReplayTree(s, c)) :
               /\ WriteCommit(d, fr[s].new, ReplayTree(s, c))
               /\ Goto(s, IF fr[s].todo = {c} THEN "rebaseTarget" ELSE "rebase")
               /\ UNCHANGED <<refs, head, index, workdir>>
    BY <1>4 DEF RebaseNext
  <2>2. PICK p, t : p = fr[s].new /\ t = ReplayTree(s, c)
    OBVIOUS
  <2>3. c \in Ids /\ p \in Ids
    BY <1>1, <1>2, <2>1, <2>2 DEF NextTodo, FrameOK, MovesExist, Holding
  <2>4. t \in Tree /\ MarkerFree(t)
    <3>1. c \in 0 .. Len(objs) /\ p \in 0 .. Len(objs)
      BY <1>1, <2>3
    <3>2. /\ ParentTree(c) \in Tree /\ TreeOf(p) \in Tree /\ TreeOf(c) \in Tree
          /\ MarkerFree(TreeOf(p)) /\ MarkerFree(TreeOf(c))
      BY <1>1, <2>3, <3>1, ParentTreeType, TreeType, CommitsMarkerFree
      DEF InOrder
    <3>3. t \in Index /\ MarkerFree(t)
      BY <2>2, <3>2, MergeType, MergeMarkerFree DEF ReplayTree
    <3>4. QED
      BY <2>1, <2>2, <3>3, CleanIndex DEF Replays
  <2>5. PICK d \in Recommitted(c, p, t) : WriteCommit(d, p, t)
    BY <2>1, <2>2
  <2>6. /\ NoMarkersCommitted' /\ MergeTreeIsMerge'
        /\ \A e \in 0 .. Len(objs) : TreeOf(e)' = TreeOf(e)
    BY <1>1, <2>3, <2>4, <2>5, OrderRecommit
  <2>7. UNCHANGED <<refs, head, index, workdir>>
    BY <2>1
  <2>8. InOrder'
    BY <1>1, <2>6, <2>7 DEF InOrder, IndexKept, MarkerFree
  <2>9. HeadTree' = HeadTree
    <3>1. PICK e : e = Tip
      OBVIOUS
    <3>2. e \in 0 .. Len(objs)
      BY <1>1, <3>1
    <3>3. Tip' = e /\ TreeOf(e)' = TreeOf(e)
      BY <2>6, <2>7, <3>1, <3>2
    <3>4. QED
      BY <3>1, <3>3 DEF HeadTree, TreeOf
  <2>10. Settled'
    BY <1>2, <2>7, <2>9 DEF Settled, HasConflicts
  <2>11. pc'[s] \in {"rebase", "rebaseTarget"}
    BY <1>1, <2>1 DEF Goto
  <2>12. QED
    BY <2>8, <2>10, <2>11 DEF Orderly, Resting, Merging, Committing, Picked
<1>5. QED
  BY <1>3, <1>4

\* A session that works alone is never told that the branch has moved.
LEMMA NeverRefused ==
  ASSUME OrderInv, NEW s \in Sessions
  PROVE  ~CommitRefused(s) /\ ~PickRefused(s)
<1>1. CopiesCurrent(s) /\ InOrder
  BY OrderFacts
<1>2. ~CommitRefused(s)
  <2> SUFFICES ASSUME CommitRefused(s) PROVE FALSE
    OBVIOUS
  <2>1. fr[s].old = Tip /\ Tip # 0 /\ ~TipIsFirstParent(ParentList(fr[s]))
    BY <1>1 DEF CommitRefused, CopiesCurrent, InOrder
  <2>2. Len(ParentList(fr[s])) > 0 /\ ParentList(fr[s])[1] = Tip
    BY <2>1 DEF ParentList
  <2>3. QED
    BY <2>1, <2>2 DEF TipIsFirstParent
<1>3. ~PickRefused(s)
  <2> SUFFICES ASSUME PickRefused(s) PROVE FALSE
    OBVIOUS
  <2>1. fr[s].old = Tip /\ ~TipIsFirstParent(<<fr[s].old>>)
    BY <1>1 DEF PickRefused, CopiesCurrent
  <2>2. Len(<<Tip>>) > 0 /\ <<Tip>>[1] = Tip
    OBVIOUS
  <2>3. QED
    BY <2>1, <2>2 DEF TipIsFirstParent
<1>4. QED
  BY <1>2, <1>3

\* The calls an unattended session does not make.
LEMMA NotCalled ==
  ASSUME Unattended, NEW s \in Sessions
  PROVE  /\ ~CallStageOnly(s) /\ ~CallOrphan(s) /\ ~CallAdd(s) /\ ~CallRm(s)
         /\ ~Crash(s) /\ ~Edit
<1> USE DEF Unattended, Start
<1>1. /\ {"stage_only", "orphan", "add", "rm", "crash", "edit"} \cap Calls = {}
  OBVIOUS
<1>2. ~CallStageOnly(s) /\ ~CallOrphan(s)
  BY <1>1 DEF CallStageOnly, CallOrphan
<1>3. ~CallAdd(s) /\ ~CallRm(s) /\ ~Crash(s) /\ ~Edit
  BY <1>1 DEF CallAdd, CallRm, Crash, Edit
<1>4. QED
  BY <1>2, <1>3

LEMMA OrderSteps ==
  ASSUME Unattended, OrderInv, NEW s \in Sessions,
         Call(s) \/ Continue(s) \/ Crash(s) \/ PickStep(s)
  PROVE  InOrder' /\ Orderly(s)'
<1>1. CASE Call(s) \/ Crash(s)
  BY <1>1, NotCalled, OrderCalls, OrderReads, OrderReset, OrderBranches,
     OrderMoves DEF Call
<1>2. CASE Continue(s)
  <2>1. ~IndexWrite(s)
    BY OrderFacts DEF IndexWrite, Orderly
  <2>2. QED
    BY <1>2, <2>1, NeverRefused, OrderCalls, OrderReads, OrderCleanups, OrderTarget,
       OrderReset, OrderBranches, OrderStage, OrderMoves, OrderCommit
    DEF Continue
<1>3. CASE PickStep(s)
  BY <1>3, NeverRefused, OrderCalls, OrderReads, OrderCleanups, OrderTarget,
     OrderPicks, OrderPickCommit, OrderReplay DEF PickStep, PickContinue
<1>4. QED
  BY <1>1, <1>2, <1>3

LEMMA OrderStep ==
  ASSUME Unattended, OrderInv, [PickNext]_vars
  PROVE  OrderInv'
<1>1. Alone /\ AloneInv /\ AloneInv'
  BY AloneStep DEF Unattended, OrderInv
<1>2. CASE UNCHANGED vars
  <2>1. RepoOK /\ InOrder
    BY <1>1 DEF OrderInv, AloneInv, PickInv, TypeOK
  <2>2. /\ InOrder' /\ Settled' = Settled /\ Joined' = Joined /\ Tip' = Tip
        /\ HasConflicts(index)' = HasConflicts(index)
        /\ UNCHANGED <<pc, fr, refs, head, index, mergeHead, objs>>
    BY <1>2, <2>1, SameFiles DEF vars, repo
  <2>3. \A c : TreeOf(c)' = TreeOf(c) /\ Past(c)' = Past(c)
    BY <2>2 DEF TreeOf, Past
  <2>4. ASSUME NEW s \in Sessions PROVE Orderly(s)'
    <3>1. Orderly(s)
      BY DEF OrderInv
    <3>2. Past(Tip)' = Past(Tip)
      BY <2>2, <2>3
    <3>3. TreeOf(fr[s].new)' = TreeOf(fr[s].new)
          /\ TreeOf(refs[fr[s].ref])' = TreeOf(refs[fr[s].ref])
      BY <2>2, <2>3
    <3>4. QED
      BY <2>2, <3>1, <3>2, <3>3
      DEF Orderly, Resting, Merging, Committing, Picked
  <2>5. QED
    BY <1>1, <2>2, <2>4 DEF OrderInv
<1>3. ASSUME NEW s \in Sessions,
             Call(s) \/ Continue(s) \/ Crash(s) \/ PickStep(s)
      PROVE  OrderInv'
  BY <1>1, <1>3, OrderSteps DEF OrderInv, Alone
<1>4. CASE Edit
  BY <1>4 DEF Unattended, Edit
<1>5. QED
  BY <1>2, <1>3, <1>4 DEF PickNext, Next

\* The history a run starts with, which gert need not have made itself.
GoodStart == Tip # 0 /\ NoMarkersCommitted /\ MergeTreeIsMerge

LEMMA OrderInvariant ==
  Unattended /\ GoodStart /\ PickSpec => [](Unattended /\ OrderInv)
<1>1. Unattended /\ GoodStart /\ Init => OrderInv
  <2> SUFFICES ASSUME Unattended, GoodStart, Init PROVE OrderInv
    OBVIOUS
  <2>1. AloneInv
    <3>1. PickInv
      BY InitOK DEF Init, PickInv, MovesExist, ParentsExist, Holding
    <3>2. \A s \in Sessions : CopiesCurrent(s)
      BY DEF Init, CopiesCurrent, Committing, Picking
    <3>3. QED
      BY <3>1, <3>2 DEF AloneInv
  <2>2. index = HeadTree /\ workdir = index /\ mergeHead = 0
    BY DEF Init, RepoInit, HeadTree, TreeOf
  <2>3. MarkerFree(index)
    <3>1. History(objs) /\ Tip \in 0 .. Len(objs)
      BY <2>1 DEF AloneInv, PickInv, TypeOK, RepoOK
    <3>2. QED
      BY <2>2, <3>1, CommitsMarkerFree DEF GoodStart, HeadTree
  <2>4. InOrder
    BY <2>2, <2>3 DEF InOrder, GoodStart, IndexKept
  <2>5. \A s \in Sessions : Orderly(s)
    BY <2>2 DEF Init, Orderly, Settled, Merging, Committing, Picked, NoFrame
  <2>6. QED
    BY <2>1, <2>4, <2>5 DEF OrderInv
<1>2. Unattended /\ OrderInv /\ [PickNext]_vars => (Unattended /\ OrderInv)'
  BY OrderStep DEF Unattended, Alone
<1>3. QED
  BY <1>1, <1>2, PTL DEF PickSpec

\* When a session leaves its files to gert, every call of it ends with HEAD,
\* index and working directory in agreement or with a merge in conflict: a
\* merge, cherry-pick, revert or rebase is done or leaves no trace.
THEOREM CallsFinish ==
  Unattended /\ GoodStart /\ PickSpec => []NothingHalfDone
<1>1. Unattended /\ OrderInv => NothingHalfDone
  <2> SUFFICES ASSUME Unattended, OrderInv, Active = {}, ~HasConflicts(index)
               PROVE  index = HeadTree /\ workdir = HeadTree
    BY DEF NothingHalfDone
  <2>1. PICK s \in Sessions : pc[s] = "idle"
    BY DEF Unattended, Alone, Active
  <2>2. RepoOK /\ InOrder /\ Orderly(s)
    BY <2>1, OrderFacts
  <2>3. index = HeadTree
    BY <2>1, <2>2 DEF Orderly, Resting, Settled
  <2>4. workdir \in [Files -> Content] /\ HeadTree \in [Files -> Content]
    BY <2>2, HeadTreeType DEF RepoOK, Tree
  <2>5. \A f \in Files : workdir[f] = HeadTree[f]
    BY <2>2, <2>3 DEF InOrder, IndexKept, HasConflicts
  <2>6. QED
    BY <2>3, <2>4, <2>5
<1>2. QED
  BY <1>1, OrderInvariant, PTL

\* Such a session commits no conflict markers: git_commit_all stages neither
\* them nor the conflict.
THEOREM MarkersStayOut ==
  Unattended /\ GoodStart /\ PickSpec => []NoMarkersCommitted
<1>1. OrderInv => NoMarkersCommitted
  BY DEF OrderInv, InOrder
<1>2. QED
  BY <1>1, OrderInvariant, PTL

\* Each of its merge commits has the three-way merge of its parents as tree.
THEOREM MergesAreWhole ==
  Unattended /\ GoodStart /\ PickSpec => []MergeTreeIsMerge
<1>1. OrderInv => MergeTreeIsMerge
  BY DEF OrderInv, InOrder
<1>2. QED
  BY <1>1, OrderInvariant, PTL

\* And joins the commit that was merged with the one it was merged into.
THEOREM MergesJoin ==
  Unattended /\ GoodStart /\ PickSpec => MergeJoinsItsSides
<1> DEFINE Joins ==
      \A s \in Sessions :
        pc[s] = "create" /\ pc'[s] # "create" /\ Len(objs') > Len(objs) =>
          LET parents == objs'[Len(objs')].parents IN
          /\ Len(parents) > 1 => parents = <<origHead, mergeHead>>
          /\ fr[s].op = "merge" /\ ~fr[s].squash => Len(parents) = 2
<1>1. Unattended /\ OrderInv /\ [PickNext]_vars => [Joins]_vars
  <2> SUFFICES ASSUME Unattended, OrderInv, PickNext, NEW s \in Sessions,
                      pc[s] = "create", Len(objs') > Len(objs)
               PROVE  LET parents == objs'[Len(objs')].parents IN
                      /\ Len(parents) > 1 => parents = <<origHead, mergeHead>>
                      /\ fr[s].op = "merge" /\ ~fr[s].squash =>
                           Len(parents) = 2
    BY DEF Joins
  <2>1. CommitCreated(s)
    BY OnlyThisCommits DEF Unattended, OrderInv
  <2>2. /\ objs'[Len(objs')].parents =
             IF mergeHead = 0 THEN <<Tip>> ELSE <<Tip, mergeHead>>
        /\ mergeHead # 0 => origHead = Tip
        /\ fr[s].op = "merge" /\ ~fr[s].squash => mergeHead # 0
    BY <2>1, OrderCommit
  <2>3. QED
    BY <2>2
<1>2. QED
  BY <1>1, OrderInvariant, PTL DEF PickSpec, MergeJoinsItsSides

(***************************************************************************)
(* What an unattended session does to history: it implements GertHistory   *)
(* with Disciplined, unless it resets or overwrites a branch.              *)
(***************************************************************************)

\* c is what a rebase of HEAD onto the branch u ends with: on top of u, and
\* with a commit for each of HEAD's own.
Replayed(u, c) ==
  /\ refs[u] \in Past(c)
  /\ Cardinality(Past(c) \ Past(refs[u])) = Cardinality(Todo(refs[u]))

\* A branch that is about to move keeps its commits, or a replay of them; as
\* far as a rebase has come, the commits it has written and those to be
\* replayed are as many as HEAD's own.
MovesForward(s) ==
  /\ pc[s] = "target" => Tip \in Past(refs[fr[s].ref])
  /\ pc[s] \in {"rebase", "rebaseTarget"} =>
       /\ refs[fr[s].ref] # 0
       /\ refs[fr[s].ref] \in Past(fr[s].new)
       /\ Cardinality(Past(fr[s].new) \ Past(refs[fr[s].ref]))
            + Cardinality(fr[s].todo) = Cardinality(Todo(refs[fr[s].ref]))
       /\ ~fr[s].doCommit => pc[s] = "rebaseTarget" /\ fr[s].new = refs[fr[s].ref]
       /\ pc[s] = "rebaseTarget" => fr[s].todo = {}
  /\ pc[s] = "move" =>
       Tip \in Past(fr[s].new) \/ \E u \in Branches : Replayed(u, fr[s].new)

ForwardInv == OrderInv /\ \A s \in Sessions : MovesForward(s)

\* The steps that decide where a branch goes.
LEMMA OnlyMoversMove ==
  ASSUME SessionsOK, NEW s \in Sessions,
         Call(s) \/ Continue(s) \/ Crash(s) \/ PickStep(s),
         pc'[s] \in {"target", "rebase", "rebaseTarget", "move"}
  PROVE  \/ FastForwardAnalysis(s) \/ SetTargetCheckout(s)
         \/ CallRebase(s) \/ RebaseNext(s) \/ RebaseTarget(s)
<1> USE DEF Start, Goto, Return, Leave, SessionsOK
<1>1. CASE \/ CallMerge(s) \/ CallStageOnly(s) \/ CallFastForward(s)
           \/ MergeStatus(s) \/ SetTargetMove(s) \/ Stage(s) \/ StageCleanup(s)
  BY <1>1 DEF CallMerge, CallStageOnly, CallFastForward, MergeStatus,
              SetTargetMove, Stage, StageCleanup
<1>2. CASE \/ CallCommit(s) \/ CommitStatus(s) \/ CommitMergeHeads(s)
           \/ CommitParents(s) \/ CommitCreated(s) \/ CommitRefused(s)
           \/ CommitFinish(s)
  BY <1>2 DEF CallCommit, CommitStatus, ReadStatus, CommitMergeHeads,
              CommitParents, CommitCreated, CommitRefused, CommitFinish
<1>3. CASE \/ CallCommitAll(s) \/ CommitAllAdd(s) \/ CommitAllStatus(s)
           \/ CommitAllRm(s)
  BY <1>3 DEF CallCommitAll, CommitAllAdd, CommitAllStatus, CommitAllRm,
              WriteIndex
<1>4. CASE \/ CallAbort(s) \/ AbortReset(s) \/ AbortCleanup(s)
           \/ CallReset(s) \/ Crash(s)
  BY <1>4 DEF CallAbort, AbortReset, AbortCleanup, CallReset, Crash
<1>5. CASE \/ CallCheckout(s) \/ CreateCheckout(s) \/ CallCreate(s)
           \/ SetHead(s)
  BY <1>5 DEF CallCheckout, CheckoutTree, CreateCheckout, CallCreate, SetHead
<1>6. CASE \/ CallOrphan(s) \/ CallDelete(s) \/ CallAdd(s) \/ CallRm(s)
           \/ IndexWrite(s)
  BY <1>6 DEF CallOrphan, CallDelete, CallAdd, CallRm, IndexWrite
<1>7. CASE \/ CallCherryPick(s) \/ CallRevert(s) \/ PickCleanup(s)
           \/ PickStatus(s) \/ PickParent(s) \/ PickRefused(s) \/ PickFinish(s)
  BY <1>7 DEF CallCherryPick, CallRevert, PickCleanup, PickStatus, PickParent,
              PickRefused, PickFinish
<1>8. CASE PickCreate(s) \/ RevertApply(s) \/ RevertCleanup(s)
  BY <1>8 DEF PickCreate, RevertApply, RevertCleanup
<1>9. QED
  BY <1>1, <1>2, <1>3, <1>4, <1>5, <1>6, <1>7, <1>8
  DEF Call, Continue, PickStep, PickContinue

\* A commit on top of p adds itself to the past of p.
LEMMA PastGrows ==
  ASSUME History(objs), NEW p \in Ids, NEW t \in Tree, NEW c \in Ids,
         NEW d \in Recommitted(c, p, t), WriteCommit(d, p, t),
         NEW u \in Ids, u \in Past(p)
  PROVE  /\ Past(u)' = Past(u)
         /\ u \in Past(d)'
         /\ IsFiniteSet(Past(p) \ Past(u))
         /\ Past(d)' = Past(p) \cup {d}
         /\ Past(d)' \ Past(u) = (Past(p) \ Past(u)) \cup {d}
         /\ d \notin Past(p) \ Past(u)
<1>1. /\ History(objs') /\ Len(objs) \in Nat /\ Len(objs') \in Nat
      /\ d \in 1 .. Len(objs') /\ Len(objs) <= Len(objs')
      /\ \A e \in Ids : objs'[e] = objs[e]
      /\ \/ objs' = objs /\ d \in Ids
         \/ d = Len(objs) + 1 /\ objs' = Append(objs, NewCommit(<<p>>, t))
  BY RecommitStep
<1>2. Past(u)' = Past(u) /\ Past(p)' = Past(p)
  BY <1>1 DEF Past
<1>3. WellFormed(objs, p) /\ WellFormed(objs, u) /\ WellFormed(objs', d)
  BY <1>1 DEF History
<1>4. Past(p) \subseteq 1 .. p /\ Past(u) \subseteq 1 .. u /\ u <= p
  <2>1. Past(p) = objs[p].past /\ Past(u) = objs[u].past
    BY <1>1 DEF Past
  <2>2. objs[p].past \subseteq 1 .. p /\ objs[u].past \subseteq 1 .. u
    BY <1>3 DEF WellFormed
  <2>3. u \in 1 .. p
    BY <2>1, <2>2
  <2>4. QED
    BY <2>1, <2>2, <2>3
<1>5. objs'[d].parents = <<p>>
  <2>1. CASE objs' = objs /\ d \in Ids
    <3>1. SameCommit(d, p, t)
      BY <1>1, <2>1 DEF Recommitted, NewId
    <3>2. QED
      BY <2>1, <3>1 DEF SameCommit
  <2>2. CASE d = Len(objs) + 1 /\ objs' = Append(objs, NewCommit(<<p>>, t))
    <3>1. objs'[d] = NewCommit(<<p>>, t)
      BY <1>1, <2>2 DEF History
    <3>2. QED
      BY <3>1 DEF NewCommit
  <2>3. QED
    BY <1>1, <2>1, <2>2
<1>6. p < d /\ objs'[d].past = {d} \cup objs'[p].past
  <2>1. DOMAIN <<p>> = {1} /\ <<p>>[1] = p
    OBVIOUS
  <2>2. p \in 1 .. d - 1
    BY <1>3, <1>5, <2>1 DEF WellFormed
  <2>3. objs'[d].past = {d} \cup UNION {objs'[<<p>>[i]].past : i \in {1}}
    BY <1>3, <1>5, <2>1 DEF WellFormed
  <2>4. QED
    BY <1>1, <2>1, <2>2, <2>3
<1>7. Past(d)' = {d} \cup Past(p)
  <2>1. Past(d)' = objs'[d].past /\ Past(p)' = objs'[p].past
    BY <1>1 DEF Past
  <2>2. QED
    BY <1>2, <1>6, <2>1
<1>8. d \notin Past(p) /\ d \notin Past(u)
  BY <1>1, <1>4, <1>6
<1>9. IsFiniteSet(Past(p) \ Past(u))
  <2>1. IsFiniteSet(1 .. p)
    BY FS_Interval
  <2>2. Past(p) \ Past(u) \subseteq 1 .. p
    BY <1>4
  <2>3. QED
    BY <2>1, <2>2, FS_Subset
<1>10. QED
  BY <1>2, <1>7, <1>8, <1>9

\* The commits to be replayed do not depend on what a rebase writes.
LEMMA TodoKept ==
  ASSUME RepoOK, RepoOK', Extended, UNCHANGED <<refs, head>>, Tip \in Ids,
         NEW u \in Ids
  PROVE  Todo(u)' = Todo(u)
<1>1. Len(objs) \in Nat /\ Len(objs') \in Nat /\ History(objs) /\ History(objs')
  BY DEF RepoOK, History
<1>2. PICK h : h = Tip
  OBVIOUS
<1>3. /\ Tip' = h /\ Past(h)' = Past(h) /\ Past(u)' = Past(u)
      /\ Past(h) \subseteq Ids
  BY <1>1, <1>2, PastFacts DEF Extended, Past
<1>4. \A c \in Past(h) : IsMerge(c)' = IsMerge(c)
  BY <1>3 DEF IsMerge, Extended
<1>5. QED
  BY <1>2, <1>3, <1>4 DEF Todo

LEMMA RebaseCounts ==
  ASSUME ForwardInv, NEW s \in Sessions, RebaseNext(s), ~Leave(s)
  PROVE  MovesForward(s)'
<1>1. /\ RepoOK /\ InOrder /\ Orderly(s) /\ fr[s] \in Frame /\ FrameOK(fr[s])
      /\ pc \in [Sessions -> Labels] /\ fr \in [Sessions -> Frame]
      /\ Tip \in Ids /\ History(objs) /\ Len(objs) \in Nat /\ MovesExist
      /\ refs \in [Branches -> 0 .. Len(objs)] /\ TypeOK
  BY OrderFacts DEF ForwardInv, OrderInv, AloneInv, PickInv
<1>2. PICK c, d :
        /\ c \in NextTodo(fr[s].todo) /\ Replays(s, c)
        /\ d \in Recommitted(c, fr[s].new, ReplayTree(s, c))
        /\ WriteCommit(d, fr[s].new, ReplayTree(s, c))
        /\ Keep(s, [fr[s] EXCEPT !.new = d, !.todo = @ \ {c}])
        /\ Goto(s, IF fr[s].todo = {c} THEN "rebaseTarget" ELSE "rebase")
        /\ UNCHANGED <<refs, head>> /\ pc[s] = "rebase"
  BY DEF RebaseNext
<1>3. PICK p, t, u, todo : /\ p = fr[s].new /\ t = ReplayTree(s, c)
                           /\ u = refs[fr[s].ref] /\ todo = fr[s].todo
  OBVIOUS
<1>4. /\ c \in Ids /\ c \in todo /\ todo \subseteq Ids /\ p \in Ids /\ u \in Ids
      /\ u \in Past(p)
      /\ Cardinality(Past(p) \ Past(u)) + Cardinality(todo) = Cardinality(Todo(u))
      /\ fr[s].doCommit /\ fr[s].ref \in Branches
  <2>1. /\ fr[s].new # 0 /\ fr[s].new \in 0 .. Len(objs)
        /\ fr[s].todo \subseteq Ids /\ fr[s].ref \in Branches
    BY <1>1, <1>2 DEF FrameOK, MovesExist, Holding, Frame
  <2>2. c \in todo
    BY <1>2, <1>3 DEF NextTodo
  <2>3. /\ u # 0 /\ u \in Past(p) /\ fr[s].doCommit
        /\ Cardinality(Past(p) \ Past(u)) + Cardinality(todo)
             = Cardinality(Todo(u))
    BY <1>2, <1>3 DEF ForwardInv, MovesForward
  <2>4. QED
    BY <1>1, <1>3, <2>1, <2>2, <2>3
<1>5. t \in Tree
  <2>1. c \in 0 .. Len(objs) /\ p \in 0 .. Len(objs)
    BY <1>1, <1>4
  <2>2. ParentTree(c) \in Tree /\ TreeOf(p) \in Tree /\ TreeOf(c) \in Tree
    BY <1>1, <1>4, <2>1, ParentTreeType, TreeType
  <2>3. t \in Index
    BY <1>3, <2>2, MergeType DEF ReplayTree
  <2>4. QED
    BY <1>2, <1>3, <2>3, CleanIndex DEF Replays
<1>6. d \in Recommitted(c, p, t) /\ WriteCommit(d, p, t)
  BY <1>2, <1>3
<1>7. /\ Past(u)' = Past(u) /\ u \in Past(d)'
      /\ IsFiniteSet(Past(p) \ Past(u))
      /\ Past(d)' \ Past(u) = (Past(p) \ Past(u)) \cup {d}
      /\ d \notin Past(p) \ Past(u)
  <2>1. /\ History(objs) /\ p \in Ids /\ t \in Tree /\ c \in Ids
        /\ d \in Recommitted(c, p, t) /\ WriteCommit(d, p, t)
        /\ u \in Ids /\ u \in Past(p)
    BY <1>1, <1>4, <1>5, <1>6
  <2>2. QED
    BY <2>1, PastGrows, ZenonT(60)
<1>8. Cardinality(Past(d)' \ Past(u)) = Cardinality(Past(p) \ Past(u)) + 1
  BY <1>7, FS_AddElement
<1>9. /\ Cardinality(todo \ {c}) = Cardinality(todo) - 1
      /\ Cardinality(todo) \in Nat /\ Cardinality(Past(p) \ Past(u)) \in Nat
  <2>1. IsFiniteSet(1 .. Len(objs))
    BY <1>1, FS_Interval
  <2>2. IsFiniteSet(todo)
    BY <1>4, <2>1, FS_Subset
  <2>3. QED
    BY <1>4, <1>7, <2>2, FS_RemoveElement, FS_CardinalityType
<1>10. Todo(u)' = Todo(u)
  <2>1. RepoOK'
    BY <1>1, RebaseNextStep DEF ForwardInv, OrderInv, AloneInv, PickInv, TypeOK
  <2>2. Extended
    BY <1>1, <1>4, <1>5, <1>6, RecommitStep DEF Extended
  <2>3. QED
    BY <1>1, <1>2, <1>4, <2>1, <2>2, TodoKept
<1>11. Cardinality(Past(d)' \ Past(u)) + Cardinality(todo \ {c}) = Cardinality(Todo(u)')
  BY <1>4, <1>8, <1>9, <1>10
<1>12. /\ pc'[s] = IF todo = {c} THEN "rebaseTarget" ELSE "rebase"
       /\ fr'[s].new = d /\ fr'[s].todo = todo \ {c} /\ fr'[s].ref = fr[s].ref
       /\ fr'[s].doCommit = fr[s].doCommit
  BY <1>1, <1>2, <1>3 DEF Keep, Goto, Frame
<1>13. /\ refs'[fr'[s].ref] = u
  BY <1>2, <1>3, <1>12
<1>14. /\ Past(fr[s].new)' = Past(d)' /\ Past(refs[fr[s].ref])' = Past(u)
       /\ Todo(refs[fr[s].ref])' = Todo(u)'
  BY <1>7, <1>12, <1>13 DEF Past, Todo
<1>15. QED
  BY <1>1, <1>4, <1>7, <1>11, <1>12, <1>13, <1>14 DEF MovesForward

LEMMA ForwardSteps ==
  ASSUME ForwardInv, NEW s \in Sessions,
         \/ FastForwardAnalysis(s) \/ SetTargetCheckout(s)
         \/ CallRebase(s) \/ RebaseTarget(s)
  PROVE  MovesForward(s)'
<1>1. /\ RepoOK /\ InOrder /\ Orderly(s) /\ fr[s] \in Frame /\ FrameOK(fr[s])
      /\ pc \in [Sessions -> Labels] /\ fr \in [Sessions -> Frame]
      /\ Tip \in Ids /\ History(objs) /\ Len(objs) \in Nat
      /\ refs \in [Branches -> 0 .. Len(objs)] /\ MovesForward(s)
  BY OrderFacts DEF ForwardInv
<1>2. CASE Leave(s)
  BY <1>1, <1>2 DEF Leave, Return, Goto, MovesForward
<1>3. CASE ~Leave(s)
  <2>1. UNCHANGED <<objs, refs, head>>
    BY <1>3 DEF FastForwardAnalysis, SetTargetCheckout, CallRebase,
                RebaseTarget, repo
  <2>2. /\ Tip' = Tip /\ \A c : Past(c)' = Past(c) /\ Todo(c)' = Todo(c)
        /\ \A u, c : Replayed(u, c)' = Replayed(u, c)
    BY <2>1 DEF Past, Todo, IsMerge, Replayed
  <2>3. CASE FastForwardAnalysis(s)
    <3>1. /\ refs[fr[s].ref] # 0
          /\ Analysis(Tip, refs[fr[s].ref]) = "fastforward"
          /\ Goto(s, "target") /\ UNCHANGED <<fr, repo>>
      BY <1>3, <2>3 DEF FastForwardAnalysis
    <3>2. Tip \in Past(refs[fr[s].ref])
      BY <1>1, <3>1 DEF Analysis
    <3>3. PICK u : u = refs[fr[s].ref]
      OBVIOUS
    <3>4. pc'[s] = "target" /\ refs'[fr'[s].ref] = u /\ Tip' \in Past(u)'
      BY <1>1, <2>1, <2>2, <3>1, <3>2, <3>3 DEF Goto
    <3>5. QED
      BY <3>4 DEF MovesForward, Past
  <2>4. CASE SetTargetCheckout(s) \/ RebaseTarget(s)
    <3>1. PICK target :
            /\ target = IF SetTargetCheckout(s) \/ ~fr[s].doCommit
                          THEN refs[fr[s].ref] ELSE fr[s].new
            /\ Keep(s, [fr[s] EXCEPT !.onto = head, !.old = Tip, !.new = target])
            /\ Goto(s, "move")
      BY <1>3, <2>4 DEF SetTargetCheckout, RebaseTarget
    <3>2. pc'[s] = "move" /\ fr'[s].new = target
      BY <1>1, <3>1 DEF Keep, Goto, Frame
    <3>3. Tip \in Past(target) \/ \E u \in Branches : Replayed(u, target)
      <4>1. CASE SetTargetCheckout(s)
        BY <1>1, <3>1, <4>1 DEF SetTargetCheckout, MovesForward
      <4>2. CASE RebaseTarget(s) /\ ~SetTargetCheckout(s)
        <5>1. PICK u \in Branches : u = fr[s].ref
          BY <1>1 DEF Frame
        <5>2. /\ refs[u] \in Past(target) /\ target = fr[s].new
              /\ Cardinality(Past(target) \ Past(refs[u])) + Cardinality({})
                   = Cardinality(Todo(refs[u]))
          BY <1>1, <3>1, <4>2, <5>1 DEF RebaseTarget, MovesForward
        <5>3. Cardinality({}) = 0
          BY FS_EmptySet
        <5>4. Cardinality(Past(target) \ Past(refs[u])) \in Nat
          <6>1. IsFiniteSet(1 .. Len(objs))
            BY <1>1, FS_Interval
          <6>2. target \in 0 .. Len(objs)
            BY <1>1, <5>2 DEF FrameOK, Frame
          <6>3. Past(target) \ Past(refs[u]) \subseteq 1 .. Len(objs)
            BY <1>1, <6>2, PastFacts DEF Past
          <6>4. QED
            BY <6>1, <6>3, FS_Subset, FS_CardinalityType
        <5>5. Replayed(u, target)
          BY <5>2, <5>3, <5>4 DEF Replayed
        <5>6. QED
          BY <5>5
      <4>3. QED
        BY <2>4, <4>1, <4>2
    <3>4. (Tip \in Past(target))' \/ \E u \in Branches : Replayed(u, target)'
      BY <2>2, <3>3
    <3>5. QED
      BY <3>2, <3>4 DEF MovesForward, Past, Replayed
  <2>5. CASE CallRebase(s)
    <3>1. PICK b \in Branches :
            /\ refs[b] # 0
            /\ Keep(s, [NoFrame EXCEPT !.op = "rebase", !.ref = b,
                          !.new = refs[b], !.todo = Todo(refs[b]),
                          !.doCommit = Todo(refs[b]) # {}])
            /\ Goto(s, IF Todo(refs[b]) = {} THEN "rebaseTarget" ELSE "rebase")
      BY <2>5 DEF CallRebase
    <3>2. PICK u, todo : u = refs[b] /\ todo = Todo(u)
      OBVIOUS
    <3>3. /\ pc'[s] = IF todo = {} THEN "rebaseTarget" ELSE "rebase"
          /\ fr'[s].ref = b /\ fr'[s].new = u /\ fr'[s].todo = todo
          /\ fr'[s].doCommit = (todo # {})
      BY <1>1, <3>1, <3>2 DEF Keep, Goto, NoFrame
    <3>4. u \in Ids /\ u \in Past(u)
      BY <1>1, <3>1, <3>2, PastFacts DEF Past
    <3>5. Past(u) \ Past(u) = {} /\ Cardinality({}) = 0
      BY FS_EmptySet
    <3>6. Cardinality(todo) \in Nat
      <4>1. IsFiniteSet(1 .. Len(objs))
        BY <1>1, FS_Interval
      <4>2. todo \subseteq 1 .. Len(objs)
        BY <1>1, <3>2, PastFacts DEF Todo, Past
      <4>3. QED
        BY <4>1, <4>2, FS_Subset, FS_CardinalityType
    <3>7. refs'[fr'[s].ref] = u /\ Past(u)' = Past(u) /\ Todo(u)' = todo
      BY <2>1, <2>2, <3>2, <3>3
    <3>8. Cardinality(Past(u)' \ Past(u)') + Cardinality(todo) = Cardinality(todo)
      BY <3>5, <3>6, <3>7
    <3>9. /\ Past(fr[s].new)' = Past(u)' /\ Past(refs[fr[s].ref])' = Past(u)'
          /\ Todo(refs[fr[s].ref])' = todo
      BY <3>3, <3>7 DEF Past, Todo
    <3>10. QED
      <4>1. /\ pc'[s] # "target" /\ pc'[s] # "move" /\ u # 0 /\ refs'[fr'[s].ref] # 0
        BY <3>3, <3>4, <3>7
      <4>2. /\ refs'[fr'[s].ref] \in Past(fr[s].new)'
            /\ Cardinality(Past(fr[s].new) \ Past(refs[fr[s].ref]))'
                 + Cardinality(fr'[s].todo) = Cardinality(Todo(refs[fr[s].ref]))'
        <5>1. u \in Past(u)'
          BY <3>4, <3>7
        <5>2. QED
          BY <3>3, <3>7, <3>8, <3>9, <5>1
      <4>3. /\ ~fr'[s].doCommit => pc'[s] = "rebaseTarget" /\ fr'[s].new = refs'[fr'[s].ref]
            /\ pc'[s] = "rebaseTarget" => fr'[s].todo = {}
        BY <3>3, <3>7
      <4>4. QED
        BY <4>1, <4>2, <4>3 DEF MovesForward
  <2>6. QED
    BY <2>3, <2>4, <2>5
<1>4. QED
  BY <1>2, <1>3

LEMMA ForwardStep ==
  ASSUME Unattended, ForwardInv, [PickNext]_vars
  PROVE  ForwardInv'
<1>1. OrderInv /\ OrderInv' /\ SessionsOK
  BY OrderStep DEF ForwardInv, OrderInv, AloneInv, PickInv, TypeOK
<1>2. CASE UNCHANGED vars
  <2>1. UNCHANGED <<objs, refs, head, pc, fr>>
    BY <1>2 DEF vars, repo
  <2>2. /\ Tip' = Tip /\ \A c : Past(c)' = Past(c) /\ Todo(c)' = Todo(c)
        /\ \A u, c : Replayed(u, c)' = Replayed(u, c)
    BY <2>1 DEF Past, Todo, IsMerge, Replayed
  <2>3. ASSUME NEW s \in Sessions PROVE MovesForward(s)'
    <3>1. MovesForward(s)
      BY DEF ForwardInv
    <3>2. PICK u, c : u = refs[fr[s].ref] /\ c = fr[s].new
      OBVIOUS
    <3>3. /\ Past(refs[fr[s].ref])' = Past(u) /\ Past(fr[s].new)' = Past(c)
          /\ Todo(refs[fr[s].ref])' = Todo(u)
          /\ \A b : Replayed(b, fr[s].new)' = Replayed(b, c)
      BY <2>1, <3>2 DEF Past, Todo, IsMerge, Replayed
    <3>4. QED
      BY <2>1, <2>2, <3>1, <3>2, <3>3 DEF MovesForward
  <2>4. QED
    BY <1>1, <2>3 DEF ForwardInv
<1>3. ASSUME NEW s \in Sessions,
             Call(s) \/ Continue(s) \/ Crash(s) \/ PickStep(s)
      PROVE  MovesForward(s)'
  <2>1. CASE pc'[s] \notin {"target", "rebase", "rebaseTarget", "move"}
    BY <2>1 DEF MovesForward
  <2>2. CASE RebaseNext(s) /\ Leave(s)
    BY <1>1, <2>2 DEF Leave, Return, Goto, MovesForward, SessionsOK
  <2>3. QED
    BY <1>1, <1>3, <2>1, <2>2, OnlyMoversMove, RebaseCounts, ForwardSteps
<1>4. CASE \E s \in Sessions : Call(s) \/ Continue(s) \/ Crash(s) \/ PickStep(s)
  BY <1>1, <1>3, <1>4 DEF ForwardInv, Unattended, Alone
<1>5. CASE Edit
  BY <1>5 DEF Unattended, Edit
<1>6. QED
  BY <1>2, <1>4, <1>5 DEF PickNext, Next

\* The calls that drop commits from a branch when they are told to.
NothingDropped == {"hard", "force_create"} \cap Calls = {}

\* A branch that moves forward, or onto a replay of its commits.
LEMMA SerialBranches ==
  ASSUME Unattended, NothingDropped, ForwardInv, NEW s \in Sessions,
         \/ SetTargetMove(s) \/ CallReset(s) \/ CallCreate(s)
         \/ CallDelete(s) \/ SetHead(s)
  PROVE  SerialHistory!Next
<1>1. /\ Orderly(s) /\ MovesForward(s) /\ fr[s] \in Frame /\ MovesExist
      /\ refs \in [Branches -> 0 .. Len(objs)] /\ head \in Branches
      /\ Len(objs) \in Nat /\ FrameOK(fr[s]) /\ History(objs) /\ Tip \in Ids
  BY OrderFacts DEF ForwardInv, OrderInv, AloneInv, PickInv
<1>2. \A c : SerialHistory!Past(c) = Past(c)
  BY DEF SerialHistory!Past, Past
<1>3. \A S : SerialHistory!Cardinality(S) = Cardinality(S)
  BY DEF SerialHistory!Cardinality, Cardinality
<1>4. ASSUME NEW b \in Branches, NEW c \in Ids,
             refs[b] = 0 \/ refs[b] \in Past(c) \/ SerialHistory!Rebased(b, c),
             refs' = [refs EXCEPT ![b] = c], UNCHANGED <<objs, head>>
      PROVE  SerialHistory!Next
  <2>1. SerialHistory!FastForward
    BY <1>2, <1>4 DEF SerialHistory!FastForward, SerialHistory!Ids
  <2>2. QED
    BY <2>1 DEF SerialHistory!Next
<1>5. CASE SetTargetMove(s)
  <2>1. PICK c \in Ids : c = fr[s].new
    BY <1>1, <1>5 DEF MovesExist, Holding, SetTargetMove, FrameOK
  <2>2. refs' = [refs EXCEPT ![head] = c] /\ UNCHANGED <<objs, head>>
    BY <1>1, <1>5, <2>1 DEF SetTargetMove, Orderly
  <2>3. CASE Tip \in Past(c)
    BY <1>1, <1>4, <2>2, <2>3
  <2>4. ASSUME NEW u \in Branches, Replayed(u, c)
        PROVE  SerialHistory!Rebased(head, c)
    <3>1. \A d \in Past(Tip) : d \in Ids
      BY <1>1, PastFacts DEF Past
    <3>2. \A d \in Ids : Len(objs[d].parents) \in Nat
      BY <1>1 DEF History, Commit
    <3>3. Todo(refs[u]) = {d \in Past(refs[head]) \ Past(refs[u]) :
                             Len(objs[d].parents) < 2}
      BY <3>1, <3>2 DEF Todo, IsMerge
    <3>4. {d \in SerialHistory!Past(refs[head]) \ SerialHistory!Past(refs[u]) :
             Len(objs[d].parents) < 2} = Todo(refs[u])
      BY <1>2, <3>3
    <3>5. /\ refs[u] \in SerialHistory!Past(c)
          /\ Cardinality(SerialHistory!Past(c) \ SerialHistory!Past(refs[u])) =
               Cardinality({d \in SerialHistory!Past(refs[head])
                                    \ SerialHistory!Past(refs[u]) :
                             Len(objs[d].parents) < 2})
      BY <1>2, <2>4, <3>4 DEF Replayed
    <3>6. QED
      BY <1>3, <3>5 DEF SerialHistory!Rebased
  <2>5. QED
    BY <1>1, <1>4, <1>5, <2>1, <2>2, <2>3, <2>4
    DEF SetTargetMove, MovesForward
<1>6. CASE CallReset(s)
  BY <1>6 DEF CallReset, Start, NothingDropped, Unattended
<1>7. CASE CallCreate(s)
  <2>1. PICK b \in Branches, from \in Branches :
          /\ refs[b] = 0 /\ refs[from] # 0
          /\ refs' = [refs EXCEPT ![b] = refs[from]]
          /\ UNCHANGED <<objs, head>>
    BY <1>7 DEF CallCreate, Start, NothingDropped
  <2>2. refs[from] \in Ids
    BY <1>1, <2>1
  <2>3. QED
    BY <1>4, <2>1, <2>2
<1>8. CASE CallDelete(s)
  <2>1. SerialHistory!Delete
    BY <1>8 DEF CallDelete, SerialHistory!Delete
  <2>2. QED
    BY <2>1 DEF SerialHistory!Next
<1>9. CASE SetHead(s)
  <2>1. SerialHistory!Switch
    BY <1>1, <1>9 DEF SerialHistory!Switch, SetHead, Frame
  <2>2. QED
    BY <2>1 DEF SerialHistory!Next
<1>10. QED
  BY <1>5, <1>6, <1>7, <1>8, <1>9

\* A commit that the parents ps and the tree t describe.
LEMMA SerialAdded ==
  ASSUME Len(objs') = Len(objs) + 1, NEW ps, NEW t \in Tree,
         objs' = Append(objs, NewCommit(ps, t))
  PROVE  SerialHistory!Added(ps)
<1>1. \A c : SerialHistory!Past(c) = Past(c)
  BY DEF SerialHistory!Past, Past
<1>2. NewCommit(ps, t) =
        [parents |-> ps, tree |-> t,
         past |-> {Len(objs) + 1} \cup
                    UNION {SerialHistory!Past(ps[i]) : i \in DOMAIN ps}]
  BY <1>1 DEF NewCommit, NewId
<1>3. QED
  BY <1>2 DEF SerialHistory!Added, Tree

LEMMA SerialCommits ==
  ASSUME OrderInv, NEW s \in Sessions, CommitCreated(s)
  PROVE  SerialHistory!Next
<1> DEFINE ps == ParentList(fr[s])
           t == fr[s].snap
<1>1. /\ TypeOK /\ SessionsOK /\ Tip \in Ids /\ Len(objs) \in Nat
      /\ mergeHead \in 0 .. Len(objs) /\ fr[s] \in Frame
  BY OrderFacts DEF RepoOK
<1>2. /\ refs' = [refs EXCEPT ![head] = Len(objs) + 1] /\ head' = head
      /\ objs' = Append(objs, NewCommit(ps, t)) /\ Len(objs') = Len(objs) + 1
      /\ objs'[Len(objs')] = NewCommit(ps, t)
  BY <1>1, CommitCreatedStep DEF CommitCreated, CommitCreate, NewId
<1>3. t \in Tree
  <2>1. t \in Index /\ ~HasConflicts(t)
    BY <1>1 DEF SessionsOK, Frame, CommitCreated
  <2>2. QED
    BY <2>1, CleanIndex
<1>4. ps = IF mergeHead = 0 THEN <<Tip>> ELSE <<Tip, mergeHead>>
  <2>1. objs'[Len(objs')].parents = ps
    BY <1>2 DEF NewCommit
  <2>2. QED
    BY <2>1, OrderCommit
<1>5. mergeHead # 0 => mergeHead \notin SerialHistory!Past(Tip)
  BY OrderCommit DEF SerialHistory!Past, Past
<1> HIDE DEF ps, t
<1>6. SerialHistory!CommitOn(ps)
  BY <1>2, <1>3, SerialAdded DEF SerialHistory!CommitOn
<1>7. CASE mergeHead = 0
  <2>1. SerialHistory!PlainCommit
    BY <1>1, <1>4, <1>6, <1>7 DEF SerialHistory!PlainCommit
  <2>2. QED
    BY <2>1 DEF SerialHistory!Next
<1>8. CASE mergeHead # 0
  <2>1. mergeHead \in SerialHistory!Ids
    BY <1>1, <1>8 DEF SerialHistory!Ids
  <2>2. SerialHistory!MergeCommit
    BY <1>1, <1>4, <1>5, <1>6, <1>8, <2>1 DEF SerialHistory!MergeCommit
  <2>3. QED
    BY <2>2 DEF SerialHistory!Next
<1>9. QED
  BY <1>7, <1>8

LEMMA SerialPicks ==
  ASSUME OrderInv, NEW s \in Sessions, PickStep(s)
  PROVE  [SerialHistory!Next]_<<objs, refs, head>>
<1> SUFFICES ASSUME ~UNCHANGED <<objs, refs, head>>
             PROVE  SerialHistory!Next
  OBVIOUS
<1>1. /\ PickInv /\ History(objs) /\ Len(objs) \in Nat /\ head \in Branches
      /\ refs \in [Branches -> 0 .. Len(objs)] /\ Tip \in Ids
  BY OrderFacts DEF OrderInv, AloneInv
<1>2. PICK c \in Ids, p \in Ids, t \in Tree :
        \E d \in Recommitted(c, p, t) :
          /\ WriteCommit(d, p, t)
          /\ head' = head
          /\ \/ refs' = refs
             \/ refs' = [refs EXCEPT ![head] = d] /\ (Tip # 0 => Tip = p)
  BY <1>1, PickMoves
<1>3. PICK d \in Recommitted(c, p, t) :
        /\ WriteCommit(d, p, t)
        /\ head' = head
        /\ \/ refs' = refs
           \/ refs' = [refs EXCEPT ![head] = d] /\ Tip = p
  BY <1>1, <1>2
<1>4. CASE objs' = objs /\ d \in Ids
  <2>1. refs' = [refs EXCEPT ![head] = d] /\ Tip = p
    BY <1>3, <1>4
  <2>2. p \in Past(d)
    <3>1. p \in Past(p)
      BY <1>1, PastFacts DEF Past
    <3>2. p \in Past(d)'
      BY <1>1, <1>3, <3>1, PastGrows
    <3>3. QED
      BY <1>4, <3>2 DEF Past
  <2>3. SerialHistory!FastForward
    BY <1>1, <1>3, <1>4, <2>1, <2>2
    DEF SerialHistory!FastForward, SerialHistory!Ids, SerialHistory!Past, Past
  <2>4. QED
    BY <2>3 DEF SerialHistory!Next
<1>5. CASE d = Len(objs) + 1 /\ objs' = Append(objs, NewCommit(<<p>>, t))
  <2>1. SerialHistory!Added(<<p>>)
    <3>1. Len(objs') = Len(objs) + 1
      BY <1>1, <1>5 DEF History
    <3>2. QED
      BY <1>5, <3>1, SerialAdded
  <2>2. CASE refs' = refs
    <3>1. SerialHistory!Replay
      BY <1>3, <2>1, <2>2 DEF SerialHistory!Replay, SerialHistory!Ids
    <3>2. QED
      BY <3>1 DEF SerialHistory!Next
  <2>3. CASE refs' = [refs EXCEPT ![head] = d] /\ Tip = p
    <3>1. SerialHistory!CommitOn(<<refs[head]>>)
      BY <1>3, <1>5, <2>1, <2>3 DEF SerialHistory!CommitOn
    <3>2. SerialHistory!PlainCommit
      BY <1>1, <3>1 DEF SerialHistory!PlainCommit
    <3>3. QED
      BY <3>2 DEF SerialHistory!Next
  <2>4. QED
    BY <1>3, <2>2, <2>3
<1>6. QED
  BY <1>1, <1>3, <1>4, <1>5, RecommitStep

\* A session that leaves its files to gert, and neither resets nor overwrites
\* a branch, keeps the disciplined promise: no branch loses a commit except to
\* a rebase that has replayed it, and a merge commit brings in something new.
THEOREM SerialImplementsHistory ==
  Unattended /\ NothingDropped /\ GoodStart /\ PickSpec => SerialHistorySpec
<1>1. Init => SerialHistory!Init
  BY DEF Init, RepoInit, SerialHistory!Init
<1>2. Unattended /\ NothingDropped /\ GoodStart /\ Init
        => Unattended /\ NothingDropped /\ \A s \in Sessions : MovesForward(s)
  BY DEF Init, MovesForward
<1>3. /\ Unattended /\ NothingDropped /\ (\A s \in Sessions : MovesForward(s))
      /\ OrderInv /\ [PickNext]_vars
      => /\ (Unattended /\ NothingDropped /\ \A s \in Sessions : MovesForward(s))'
         /\ [SerialHistory!Next]_SerialHistory!vars
  <2> SUFFICES ASSUME Unattended, NothingDropped, ForwardInv, [PickNext]_vars
               PROVE  /\ (Unattended /\ NothingDropped)'
                      /\ \A s \in Sessions : MovesForward(s)'
                      /\ [SerialHistory!Next]_<<objs, refs, head>>
    BY DEF ForwardInv, SerialHistory!vars
  <2>1. (Unattended /\ NothingDropped)' /\ \A s \in Sessions : MovesForward(s)'
    BY ForwardStep DEF ForwardInv, Unattended, Alone, NothingDropped
  <2>2. [SerialHistory!Next]_<<objs, refs, head>>
    <3>1. OrderInv
      BY DEF ForwardInv
    <3>2. CASE UNCHANGED <<objs, refs, head>>
      BY <3>2
    <3>3. CASE UNCHANGED vars
      BY <3>3 DEF vars, repo
    <3>4. CASE \E s \in Sessions : PickStep(s)
      BY <3>1, <3>4, SerialPicks
    <3>5. CASE \E s \in Sessions : CommitCreated(s)
      BY <3>1, <3>5, SerialCommits
    <3>6. CASE Next /\ \A s \in Sessions : ~CommitCreated(s)
      BY <3>2, <3>6, OtherSteps, SerialBranches
    <3>7. QED
      BY <3>2, <3>3, <3>4, <3>5, <3>6 DEF PickNext
  <2>3. QED
    BY <2>1, <2>2
<1>4. QED
  BY <1>1, <1>2, <1>3, OrderInvariant, PTL
  DEF PickSpec, SerialHistorySpec, SerialHistory!Spec

-----------------------------------------------------------------------------
(***************************************************************************)
(* What a rebase makes of a straight branch, one session working alone.    *)
(***************************************************************************)

\* A set of numbers that is not empty has a smallest one: induction over the
\* ids of commits.
LEMMA Smallest ==
  ASSUME NEW S, S \subseteq Nat, S # {}
  PROVE  \E x \in S : \A y \in S : x <= y
<1>1. \E x \in S : \A y \in S : <<y, x>> \notin OpToRel(<, Nat)
  BY NatLessThanWellFounded, WFMin
<1>2. \A x, y \in Nat : x < y => <<x, y>> \in OpToRel(<, Nat)
  BY DEF OpToRel
<1>3. \E x \in S : \A y \in S : ~(y < x)
  BY <1>1, <1>2, Zenon
<1>4. QED
  BY <1>3

\* Ancestry is an order, older commits first.
LEMMA PastOrder ==
  ASSUME History(objs), NEW c \in Ids
  PROVE  /\ c \in Past(c) /\ Past(c) \subseteq 1 .. c
         /\ \A d \in Past(c) :
              d \in Ids /\ d <= c /\ Past(d) \subseteq Past(c)
<1>1. Len(objs) \in Nat /\ WellFormed(objs, c)
  BY DEF History
<1>2. Past(c) = objs[c].past /\ objs[c].past \subseteq 1 .. c
  BY <1>1 DEF WellFormed, Past
<1>3. \A d \in Past(c) : d \in Ids /\ d <= c /\ Past(d) = objs[d].past
  BY <1>1, <1>2 DEF Past
<1>4. QED
  BY <1>2, <1>3, PastFacts

\* A commit that is no merge adds itself to the past of its parent, if any.
LEMMA OneParent ==
  ASSUME History(objs), NEW c \in Ids, ~IsMerge(c)
  PROVE  \/ objs[c].parents = <<>> /\ Past(c) = {c}
         \/ \E p \in Ids : /\ objs[c].parents = <<p>> /\ p < c
                           /\ Past(c) = {c} \cup Past(p)
<1>1. Len(objs) \in Nat /\ WellFormed(objs, c) /\ objs[c] \in Commit
  BY DEF History
<1>2. PICK ps : ps = objs[c].parents
  OBVIOUS
<1>3. ps \in Seq(Nat) /\ Len(ps) \in {0, 1}
  <2>1. ps \in Seq(Nat) /\ ~(Len(ps) > 1)
    BY <1>1, <1>2 DEF IsMerge, Commit
  <2>2. PICK n : n = Len(ps)
    OBVIOUS
  <2>3. n \in Nat /\ ~(n > 1)
    BY <2>1, <2>2
  <2>4. n \in {0, 1}
    BY <2>3
  <2>5. QED
    BY <2>1, <2>2, <2>4
<1>4. Past(c) = {c} \cup UNION {objs[ps[i]].past : i \in DOMAIN ps}
  BY <1>1, <1>2 DEF WellFormed, Past
<1>5. CASE Len(ps) = 0
  <2>1. ps = <<>> /\ DOMAIN ps = {}
    BY <1>3, <1>5
  <2>2. QED
    BY <1>2, <1>4, <2>1
<1>6. CASE Len(ps) = 1
  <2>1. ps = <<ps[1]>> /\ DOMAIN ps = {1}
    BY <1>3, <1>6
  <2>2. PICK p : p = ps[1]
    OBVIOUS
  <2>3. p \in 1 .. c - 1
    BY <1>1, <1>2, <2>1, <2>2 DEF WellFormed
  <2>4. p \in Ids /\ p < c /\ Past(p) = objs[p].past
    BY <1>1, <2>3 DEF Past
  <2>5. QED
    BY <1>2, <1>4, <2>1, <2>2, <2>4
<1>7. QED
  BY <1>3, <1>5, <1>6

\* In a straight branch each of its own commits is an ancestor or a descendant
\* of every other commit of the branch: look at the oldest that has both.
LEMMA Comparable ==
  ASSUME History(objs), Tip \in Ids, NEW u, Straight(Tip, u),
         \A d \in Past(u) : Past(d) \subseteq Past(u),
         NEW c \in Past(Tip) \ Past(u), NEW x \in Past(Tip)
  PROVE  x \in Past(c) \/ c \in Past(x)
<1>1. PICK h \in Ids : h = Tip
  OBVIOUS
<1>2. /\ h \in Past(h) /\ c \in Ids /\ x \in Ids
      /\ \A d \in Past(h) : d \in Ids /\ Past(d) \subseteq Past(h)
      /\ c \in Past(c) /\ x \in Past(x) /\ Len(objs) \in Nat
  BY <1>1, PastOrder DEF History
<1>3. PICK S : S = {d \in Past(h) \ Past(u) : c \in Past(d) /\ x \in Past(d)}
  OBVIOUS
<1>4. h \in S
  BY <1>1, <1>2, <1>3
<1>5. PICK m \in S : \A d \in S : m <= d
  <2>1. S \subseteq Nat
    <3>1. \A d \in S : d \in 1 .. Len(objs)
      BY <1>2, <1>3
    <3>2. QED
      BY <1>2, <3>1
  <2>2. QED
    BY <1>4, <2>1, Smallest
<1>6. m \in Ids /\ ~IsMerge(m) /\ c \in Past(m) /\ x \in Past(m)
  BY <1>1, <1>2, <1>3 DEF Straight
<1>7. CASE Past(m) = {m}
  BY <1>2, <1>6, <1>7
<1>8. ASSUME NEW p \in Ids, p < m, Past(m) = {m} \cup Past(p)
      PROVE  x \in Past(c) \/ c \in Past(x)
  <2>1. CASE m = c \/ m = x
    BY <1>6, <2>1
  <2>2. CASE m # c /\ m # x
    <3>1. c \in Past(p) /\ x \in Past(p)
      BY <1>6, <1>8, <2>2
    <3>2. p \in Past(p)
      BY PastOrder
    <3>3. p \in Past(h) /\ p \notin Past(u)
      BY <1>1, <1>2, <1>3, <1>8, <3>1, <3>2
    <3>4. p \in S
      BY <1>3, <3>1, <3>3
    <3>5. QED
      BY <1>5, <1>6, <1>8, <3>4
  <2>3. QED
    BY <2>1, <2>2
<1>9. QED
  BY <1>6, <1>7, <1>8, OneParent

\* It left upstream in one commit, or has nothing in common with it.
LEMMA BranchPoint ==
  ASSUME History(objs), Tip \in Ids, NEW u \in Ids, Straight(Tip, u)
  PROVE  \E b \in 0 .. Len(objs) : Past(b) = Past(Tip) \cap Past(u)
<1>1. PICK h \in Ids : h = Tip
  OBVIOUS
<1>2. /\ h \in Past(h) /\ \A d \in Past(h) : d \in Ids /\ Past(d) \subseteq Past(h)
      /\ \A d \in Past(u) : d \in Ids /\ Past(d) \subseteq Past(u)
      /\ Len(objs) \in Nat
  BY PastOrder DEF History
<1>3. CASE Past(h) \subseteq Past(u)
  BY <1>1, <1>2, <1>3
<1>4. CASE ~(Past(h) \subseteq Past(u))
  <2>1. PICK S : S = Past(h) \ Past(u)
    OBVIOUS
  <2>2. PICK m \in S : \A d \in S : m <= d
    <3>1. S \subseteq Nat /\ S # {}
      BY <1>2, <1>4, <2>1
    <3>2. QED
      BY <3>1, Smallest
  <2>3. m \in Ids /\ m \in Past(h) /\ m \notin Past(u) /\ ~IsMerge(m)
    BY <1>1, <1>2, <2>1 DEF Straight
  <2>4. \A x \in Past(h) \cap Past(u) : x \in Past(m)
    BY <1>1, <1>2, <2>3, Comparable
  <2>5. CASE Past(m) = {m}
    <3>1. Past(h) \cap Past(u) = {}
      BY <2>3, <2>4, <2>5
    <3>2. Past(0) = {}
      BY DEF Past
    <3>3. QED
      BY <1>1, <1>2, <3>1, <3>2
  <2>6. ASSUME NEW p \in Ids, p < m, Past(m) = {m} \cup Past(p)
        PROVE  Past(p) = Past(h) \cap Past(u)
    <3>1. p \in Past(p)
      BY PastOrder
    <3>2. p \in Past(h)
      BY <1>2, <2>3, <2>6, <3>1
    <3>3. p \in Past(u)
      BY <1>2, <2>1, <2>2, <2>3, <2>6, <3>2
    <3>4. QED
      BY <1>2, <2>3, <2>4, <2>6, <3>2, <3>3
  <2>7. QED
    BY <1>1, <1>2, <2>3, <2>5, <2>6, OneParent
<1>5. QED
  BY <1>3, <1>4

\* A rebase of HEAD on u has come to c: todo is what is left above c.
Reached(u, c, todo) ==
  /\ Past(c) \subseteq Past(Tip)
  /\ Past(Tip) \cap Past(u) \subseteq Past(c)
  /\ todo = Past(Tip) \ (Past(u) \cup Past(c))

\* The commit p that was written last stands for c.  It is c itself or not of
\* HEAD's history; a file is as in c, unless c has left it as it was where the
\* branch began.
StandsFor(p, c) ==
  \/ p = c
  \/ /\ p \notin Past(Tip)
     /\ \E b \in 0 .. Len(objs) :
          /\ Past(b) = Past(Tip) \cap Past(p)
          /\ \A f \in Files : \/ TreeOf(p)[f] = TreeOf(c)[f]
                              \/ TreeOf(c)[f] = TreeOf(b)[f]

\* If the list is clean, the other files are as upstream has them.
FollowsList(p, c, u) ==
  ListedConflicts(u) = {} =>
    \A f \in Files : TreeOf(p)[f] \in {TreeOf(c)[f], TreeOf(u)[f]}

KeepsWork(old, new) ==
  \A f \in Files :
    TreeOf(old)[f] # TreeOf(MergeBase(old, new))[f] =>
      TreeOf(new)[f] = TreeOf(old)[f]

Replaying(s) ==
  LET u == refs[fr[s].ref]
      new == fr[s].new
  IN
  /\ pc[s] \in {"ffAnalysis", "target"} => fr[s].op # "rebase"
  /\ pc[s] \in {"rebase", "rebaseTarget"} =>
       /\ Tip # 0 /\ u # 0 /\ u \in Past(new)
       /\ ~fr[s].doCommit => pc[s] = "rebaseTarget" /\ new = u
       /\ pc[s] = "rebaseTarget" => fr[s].todo = {}
       /\ Straight(Tip, u) =>
            \E c \in 0 .. Len(objs) : /\ Reached(u, c, fr[s].todo)
                                      /\ StandsFor(new, c)
                                      /\ FollowsList(new, c, u)
  /\ pc[s] = "move" /\ fr[s].op = "rebase" =>
       /\ u \in Past(new)
       /\ Straight(fr[s].old, u) => KeepsWork(fr[s].old, new)

RebaseInv == AloneInv /\ \A s \in Sessions : Replaying(s)

\* Where it begins.
LEMMA RebaseBegins ==
  ASSUME History(objs), Tip \in Ids, NEW u \in Ids, Straight(Tip, u)
  PROVE  \E c \in 0 .. Len(objs) : /\ Reached(u, c, Todo(u))
                                   /\ StandsFor(u, c)
                                   /\ FollowsList(u, c, u)
<1>1. PICK b \in 0 .. Len(objs) : Past(b) = Past(Tip) \cap Past(u)
  BY BranchPoint
<1>2. Todo(u) = Past(Tip) \ Past(u)
  BY DEF Todo, Straight
<1>3. Reached(u, b, Todo(u))
  BY <1>1, <1>2 DEF Reached
<1>4. u = b \/ u \notin Past(Tip)
  <2> SUFFICES ASSUME u \in Past(Tip) PROVE u = b
    OBVIOUS
  <2>1. u \in Past(u)
    BY PastOrder
  <2>2. u \in Past(b)
    BY <1>1, <2>1
  <2>3. b \in Ids
    BY <2>2 DEF Past
  <2>4. b \in Past(b)
    BY <2>3, PastOrder
  <2>5. b \in Past(u)
    BY <1>1, <2>4
  <2>6. b <= u /\ u <= b
    BY <2>2, <2>3, <2>5, PastOrder
  <2>7. QED
    BY <2>3, <2>6 DEF History
<1>5. StandsFor(u, b)
  BY <1>1, <1>4 DEF StandsFor
<1>6. FollowsList(u, b, u)
  BY DEF FollowsList
<1>7. QED
  BY <1>3, <1>5, <1>6

\* d is a commit with no parent but c.
OnlyChild(d, c) ==
  /\ d \in Ids
  /\ Past(d) = {d} \cup Past(c)
  /\ objs[d].parents = IF c = 0 THEN <<>> ELSE <<c>>

\* The next commit is the child of the one the rebase has come to.
LEMMA NextIsChild ==
  ASSUME History(objs), Tip \in Ids, NEW u \in Ids, Straight(Tip, u),
         NEW c \in 0 .. Len(objs), NEW todo, Reached(u, c, todo),
         NEW d \in NextTodo(todo)
  PROVE  d \in Todo(u) /\ OnlyChild(d, c) /\ Reached(u, d, todo \ {d})
<1>1. PICK h \in Ids : h = Tip
  OBVIOUS
<1>2. /\ Past(c) \subseteq Past(h) /\ Past(h) \cap Past(u) \subseteq Past(c)
      /\ todo = Past(h) \ (Past(u) \cup Past(c))
  BY <1>1 DEF Reached
<1>3. d \in todo /\ Past(d) \cap todo = {d}
  <2>1. d \in todo /\ objs[d].past \cap todo = {d}
    BY DEF NextTodo
  <2>2. d # 0
    BY <1>1, <1>2, <2>1, PastOrder
  <2>3. QED
    BY <2>1, <2>2 DEF Past
<1>4. /\ h \in Past(h) /\ \A e \in Past(h) : e \in Ids /\ Past(e) \subseteq Past(h)
      /\ \A e \in Past(u) : Past(e) \subseteq Past(u)
      /\ Len(objs) \in Nat
  BY PastOrder DEF History
<1>5. /\ d \in Ids /\ d \in Past(h) /\ d \notin Past(u) /\ d \notin Past(c)
      /\ ~IsMerge(d)
  BY <1>1, <1>2, <1>3, <1>4 DEF Straight
<1>6. d \in Past(d) /\ \A e \in Past(d) : e \in Ids /\ e <= d /\ Past(e) \subseteq Past(d)
  BY <1>5, PastOrder
<1>7. c # 0 => c \in Ids /\ c \in Past(c) /\ c \in Past(h) /\ c \in Past(d) /\ c # d
  <2>1. c # 0 => c \in Ids
    BY <1>4
  <2>2. c # 0 => c \in Past(c)
    BY <2>1, PastOrder
  <2>3. c # 0 => c \in Past(d)
    BY <1>1, <1>2, <1>4, <1>5, <2>2, Comparable
  <2>4. QED
    BY <1>2, <1>5, <2>1, <2>2, <2>3
<1>8. Past(0) = {}
  BY DEF Past
<1>9. /\ objs[d].parents = IF c = 0 THEN <<>> ELSE <<c>>
      /\ Past(d) = {d} \cup Past(c)
  <2>1. CASE objs[d].parents = <<>> /\ Past(d) = {d}
    BY <1>7, <1>8, <2>1
  <2>2. ASSUME NEW p \in Ids, objs[d].parents = <<p>>, p < d,
               Past(d) = {d} \cup Past(p)
        PROVE  p = c
    <3>1. p \in Past(p) /\ \A e \in Past(p) : e <= p
      BY PastOrder
    <3>2. p \in Past(d) /\ p # d
      BY <1>4, <1>5, <2>2, <3>1
    <3>3. p \in Past(h) /\ p \notin todo
      BY <1>3, <1>4, <1>5, <3>2
    <3>4. p \in Past(c)
      BY <1>2, <3>3
    <3>5. c # 0 /\ c \in Past(p)
      BY <1>7, <1>8, <2>2, <3>4
    <3>6. c \in Ids /\ p <= c /\ c <= p
      BY <1>7, <3>1, <3>4, <3>5, PastOrder
    <3>7. QED
      BY <1>4, <3>6
  <2>3. QED
    BY <1>5, <2>1, <2>2, OneParent
<1>10. Reached(u, d, todo \ {d})
  BY <1>1, <1>2, <1>4, <1>5, <1>9 DEF Reached
<1>11. d \in Todo(u)
  BY <1>1, <1>5 DEF Todo
<1>12. QED
  BY <1>5, <1>9, <1>10, <1>11 DEF OnlyChild

\* Where it ends: it has come to HEAD.
LEMMA RebaseEnds ==
  ASSUME History(objs), Tip \in Ids, NEW u \in Ids, NEW new \in Ids,
         NEW c \in 0 .. Len(objs), Reached(u, c, {}), StandsFor(new, c)
  PROVE  KeepsWork(Tip, new)
<1>1. PICK h \in Ids : h = Tip
  OBVIOUS
<1>2. /\ Past(c) \subseteq Past(h) /\ Past(h) \cap Past(u) \subseteq Past(c)
      /\ {} = Past(h) \ (Past(u) \cup Past(c))
  BY <1>1 DEF Reached
<1>3. h \in Past(c)
  BY <1>2, PastOrder
<1>4. c \in Ids
  BY <1>3 DEF Past
<1>5. c = h
  <2>1. c \in Past(h)
    BY <1>2, <1>4, PastOrder
  <2>2. c <= h /\ h <= c
    BY <1>3, <1>4, <2>1, PastOrder
  <2>3. QED
    BY <2>2 DEF History
<1>6. CASE new = c
  BY <1>1, <1>5, <1>6 DEF KeepsWork
<1>7. CASE new # c
  <2>1. PICK b \in 0 .. Len(objs) :
          /\ Past(b) = Past(h) \cap Past(new)
          /\ \A f \in Files : \/ TreeOf(new)[f] = TreeOf(h)[f]
                              \/ TreeOf(h)[f] = TreeOf(b)[f]
    BY <1>1, <1>5, <1>7 DEF StandsFor
  <2>2. MergeBase(h, new) = b
    <3>1. CASE b = 0
      <4>1. Past(b) = {}
        BY <3>1 DEF Past
      <4>2. QED
        BY <2>1, <3>1, <4>1 DEF MergeBase, YoungestCommon, CommonPast
    <3>2. CASE b # 0
      <4>1. b \in Ids /\ Len(objs) \in Nat
        BY <3>2 DEF History
      <4>2. b \in Past(b) /\ \A d \in Past(b) : d <= b /\ d \in Ids
        BY <4>1, PastOrder
      <4>3. YoungestCommon(h, new, b)
        BY <2>1, <4>2 DEF YoungestCommon, CommonPast
      <4>4. \A d \in Ids : YoungestCommon(h, new, d) => d = b
        BY <2>1, <4>1, <4>2 DEF YoungestCommon, CommonPast
      <4>5. QED
        BY <4>1, <4>3, <4>4 DEF MergeBase
    <3>3. QED
      BY <3>1, <3>2
  <2>3. QED
    BY <1>1, <2>1, <2>2 DEF KeepsWork
<1>8. QED
  BY <1>6, <1>7

\* What a rebase looks at stays as it is while it writes commits.
LEMMA HistoryKept ==
  ASSUME History(objs), History(objs'), Extended, UNCHANGED <<refs, head>>,
         NEW h \in Ids, h = Tip
  PROVE  /\ Tip' = h
         /\ \A c \in 0 .. Len(objs) : /\ c \in 0 .. Len(objs')
                                      /\ Past(c)' = Past(c)
                                      /\ TreeOf(c)' = TreeOf(c)
         /\ \A u \in Ids : /\ Straight(h, u)' <=> Straight(h, u)
                           /\ ListedConflicts(u)' = ListedConflicts(u)
<1>1. /\ Len(objs) \in Nat /\ Len(objs') \in Nat /\ Len(objs) <= Len(objs')
      /\ \A c \in Ids : objs'[c] = objs[c]
  BY DEF History, Extended
<1>2. /\ Tip' = h
      /\ \A c \in 0 .. Len(objs) : /\ c \in 0 .. Len(objs')
                                   /\ Past(c)' = Past(c)
                                   /\ TreeOf(c)' = TreeOf(c)
  BY <1>1 DEF Past, TreeOf
<1>3. ASSUME NEW c \in Ids
      PROVE  /\ Past(c)' = Past(c) /\ TreeOf(c)' = TreeOf(c)
             /\ IsMerge(c)' = IsMerge(c) /\ ParentTree(c)' = ParentTree(c)
  <2>1. Past(c)' = Past(c) /\ TreeOf(c)' = TreeOf(c) /\ IsMerge(c)' = IsMerge(c)
    BY <1>1, <1>2 DEF IsMerge
  <2>2. PICK ps : ps = objs[c].parents
    OBVIOUS
  <2>3. objs'[c].parents = ps
    BY <1>1, <2>2
  <2>4. CASE ps = <<>>
    BY <2>1, <2>2, <2>3, <2>4 DEF ParentTree, EmptyTree
  <2>5. CASE ps # <<>>
    <3>1. objs[c] \in Commit /\ WellFormed(objs, c)
      BY DEF History
    <3>2. 1 \in DOMAIN ps
      <4>1. ps \in Seq(Nat)
        BY <2>2, <3>1 DEF Commit
      <4>2. QED
        BY <2>5, <4>1
    <3>3. ps[1] \in 0 .. Len(objs)
      BY <1>1, <2>2, <3>1, <3>2 DEF WellFormed
    <3>4. PICK p \in 0 .. Len(objs) : p = ps[1]
      BY <3>3
    <3>5. ParentTree(c) = TreeOf(p) /\ ParentTree(c)' = TreeOf(p)'
      BY <2>2, <2>3, <2>5, <3>4 DEF ParentTree, TreeOf
    <3>6. QED
      BY <1>2, <2>1, <3>5
  <2>6. QED
    BY <2>1, <2>4, <2>5
<1>4. ASSUME NEW u \in Ids
      PROVE  /\ Straight(h, u)' <=> Straight(h, u)
             /\ ListedConflicts(u)' = ListedConflicts(u)
  <2>1. \A c \in Past(h) : c \in Ids
    BY PastOrder
  <2>2. Past(h)' = Past(h) /\ Past(u)' = Past(u) /\ TreeOf(u)' = TreeOf(u)
    BY <1>3
  <2>3. Straight(h, u)' <=> Straight(h, u)
    BY <1>3, <2>1, <2>2 DEF Straight
  <2>4. Todo(u)' = Todo(u) /\ Todo(u) \subseteq Ids
    BY <1>2, <1>3, <2>1, <2>2 DEF Todo
  <2>5. \A c \in Todo(u) :
          MergeTrees(ParentTree(c), TreeOf(u), TreeOf(c))' =
            MergeTrees(ParentTree(c), TreeOf(u), TreeOf(c))
    BY <1>3, <2>2, <2>4 DEF MergeTrees
  <2>6. QED
    BY <2>3, <2>4, <2>5 DEF ListedConflicts, HasConflicts
<1>5. QED
  BY <1>2, <1>4

\* Replaying a commit without a conflict takes the files that it changed from
\* it and keeps the others.
LEMMA ReplayFiles ==
  ASSUME NEW b \in Tree, NEW o \in Tree, NEW t \in Tree,
         MergeTrees(b, o, t) \in Tree, NEW f \in Files
  PROVE  MergeTrees(b, o, t)[f] = IF t[f] = b[f] THEN o[f] ELSE t[f]
<1>1. MergeTrees(b, o, t)[f] = MergeFile(b[f], o[f], t[f])
  BY DEF MergeTrees
<1>2. MergeFile(b[f], o[f], t[f]) # Conflict
  BY <1>1, ContentAssumption DEF Tree
<1>3. QED
  BY <1>1, <1>2 DEF MergeFile

\* t is what replaying x on p gives.
ReplayOf(t, x, p) == t = MergeTrees(ParentTree(x), TreeOf(p), TreeOf(x))

\* The commit written next stands for the commit that was next on the list.
LEMMA StandsStep ==
  ASSUME History(objs), Tip \in Ids, NEW u \in Ids, Straight(Tip, u),
         NEW c \in 0 .. Len(objs), NEW todo, Reached(u, c, todo),
         NEW x \in NextTodo(todo), NEW p \in Ids, u \in Past(p),
         StandsFor(p, c), FollowsList(p, c, u), NEW t \in Tree, ReplayOf(t, x, p),
         NEW d \in Recommitted(x, p, t), WriteCommit(d, p, t),
         UNCHANGED <<refs, head>>
  PROVE  Reached(u, x, todo \ {x})' /\ StandsFor(d, x)' /\ FollowsList(d, x, u)'
<1>1. PICK h \in Ids : h = Tip
  OBVIOUS
<1>2. /\ x \in Ids /\ Past(x) = {x} \cup Past(c)
      /\ objs[x].parents = (IF c = 0 THEN <<>> ELSE <<c>>)
      /\ Reached(u, x, todo \ {x})
  <2>1. /\ History(objs) /\ Tip \in Ids /\ u \in Ids /\ Straight(Tip, u)
        /\ c \in 0 .. Len(objs) /\ Reached(u, c, todo) /\ x \in NextTodo(todo)
    OBVIOUS
  <2>2. OnlyChild(x, c)
    BY <2>1, NextIsChild
  <2>3. Reached(u, x, todo \ {x})
    BY <2>1, NextIsChild
  <2>4. QED
    BY <2>2, <2>3 DEF OnlyChild
<1>3. /\ History(objs') /\ Len(objs) \in Nat /\ Len(objs') \in Nat
      /\ Len(objs) <= Len(objs') /\ d \in 1 .. Len(objs')
      /\ \A e \in Ids : objs'[e] = objs[e]
      /\ \/ objs' = objs /\ d \in Ids
         \/ d = Len(objs) + 1 /\ objs' = Append(objs, NewCommit(<<p>>, t))
  BY <1>2, RecommitStep
<1>4. Extended
  BY <1>3 DEF Extended
<1>5. /\ Tip' = h
      /\ \A e \in 0 .. Len(objs) : e \in 0 .. Len(objs') /\ Past(e)' = Past(e)
                                   /\ TreeOf(e)' = TreeOf(e)
      /\ ListedConflicts(u)' = ListedConflicts(u)
  BY <1>1, <1>3, <1>4, HistoryKept
<1>6. Past(x)' = Past(x) /\ Past(u)' = Past(u) /\ Past(h)' = Past(h)
      /\ TreeOf(x)' = TreeOf(x) /\ TreeOf(u)' = TreeOf(u)
  <2>1. x \in 0 .. Len(objs) /\ u \in 0 .. Len(objs) /\ h \in 0 .. Len(objs)
    BY <1>2, <1>3
  <2>2. QED
    BY <1>5, <2>1
<1>7. Reached(u, x, todo \ {x})'
  BY <1>1, <1>2, <1>5, <1>6 DEF Reached
<1>8. TreeOf(d)' = t
  <2>1. CASE objs' = objs /\ d \in Ids
    <3>1. SameCommit(d, p, t)
      BY <1>2, <1>3, <2>1 DEF Recommitted, NewId
    <3>2. QED
      BY <1>3, <2>1, <3>1 DEF SameCommit, TreeOf
  <2>2. CASE d = Len(objs) + 1 /\ objs' = Append(objs, NewCommit(<<p>>, t))
    <3>1. objs'[d] = NewCommit(<<p>>, t)
      BY <1>3, <2>2 DEF History
    <3>2. QED
      BY <1>3, <3>1 DEF NewCommit, TreeOf
  <2>3. QED
    BY <1>3, <2>1, <2>2
<1>9. Past(d)' = Past(p) \cup {d}
  <2>1. /\ History(objs) /\ p \in Ids /\ t \in Tree /\ x \in Ids
        /\ d \in Recommitted(x, p, t) /\ WriteCommit(d, p, t)
        /\ u \in Ids /\ u \in Past(p)
    BY <1>2
  <2>2. QED
    BY <2>1, PastGrows
<1>10. PICK tc, tp, tx : tc = TreeOf(c) /\ tp = TreeOf(p) /\ tx = TreeOf(x)
  OBVIOUS
<1>11. ParentTree(x) = tc /\ tc \in Tree /\ tp \in Tree /\ tx \in Tree
  <2>1. p \in 0 .. Len(objs) /\ x \in 0 .. Len(objs)
    BY <1>2, <1>3
  <2>2. tc \in Tree /\ tp \in Tree /\ tx \in Tree
    BY <1>10, <2>1, TreeType
  <2>3. ParentTree(x) = tc
    BY <1>2, <1>10 DEF ParentTree, TreeOf
  <2>4. QED
    BY <2>2, <2>3
<1>12. \A f \in Files : t[f] = IF tx[f] = tc[f] THEN tp[f] ELSE tx[f]
  <2>1. t = MergeTrees(tc, tp, tx)
    BY <1>10, <1>11 DEF ReplayOf
  <2>2. QED
    BY <1>11, <2>1, ReplayFiles
<1>13. FollowsList(d, x, u)'
  <2>1. ListedConflicts(u) = {} =>
          \A f \in Files : tp[f] \in {tc[f], TreeOf(u)[f]}
    BY <1>10 DEF FollowsList
  <2>2. ListedConflicts(u) = {} =>
          \A f \in Files : t[f] \in {tx[f], TreeOf(u)[f]}
    BY <1>12, <2>1
  <2>3. QED
    BY <1>5, <1>6, <1>8, <1>10, <2>2 DEF FollowsList
<1>14. CASE p = c
  <2>1. t = tx
    BY <1>10, <1>11, <1>12, <1>14 DEF Tree
  <2>2. SameCommit(x, p, t)
    BY <1>2, <1>10, <1>14, <2>1 DEF SameCommit, TreeOf
  <2>3. d = x
    BY <2>2 DEF Recommitted
  <2>4. QED
    BY <1>7, <1>13, <2>3 DEF StandsFor
<1>15. CASE p # c
  <2>1. PICK b \in 0 .. Len(objs) :
          /\ p \notin Past(h) /\ Past(b) = Past(h) \cap Past(p)
          /\ \A f \in Files : tp[f] = tc[f] \/ tc[f] = TreeOf(b)[f]
    BY <1>1, <1>10, <1>15 DEF StandsFor
  <2>2. d \notin Past(h)
    <3> SUFFICES ASSUME d \in Past(h) PROVE FALSE
      OBVIOUS
    <3>1. d \in Ids /\ Past(d) \subseteq Past(h)
      BY PastOrder
    <3>2. Past(d)' = Past(d)
      BY <1>3, <1>5, <3>1
    <3>3. p \in Past(p)
      BY PastOrder
    <3>4. QED
      BY <1>9, <2>1, <3>1, <3>2, <3>3
  <2>3. b \in 0 .. Len(objs') /\ Past(b)' = Past(h)' \cap Past(d)'
        /\ TreeOf(b)' = TreeOf(b)
    BY <1>5, <1>6, <1>9, <2>1, <2>2
  <2>4. \A f \in Files : t[f] = tx[f] \/ tx[f] = TreeOf(b)[f]
    BY <1>12, <2>1
  <2>5. StandsFor(d, x)'
    BY <1>1, <1>5, <1>6, <1>8, <1>10, <2>2, <2>3, <2>4 DEF StandsFor
  <2>6. QED
    BY <1>7, <1>13, <2>5
<1>16. QED
  BY <1>14, <1>15

\* A rebase replays the next commit.
LEMMA ReplayStep ==
  ASSUME RebaseInv, NEW s \in Sessions, RebaseNext(s), ~Leave(s)
  PROVE  Replaying(s)'
<1>1. /\ RepoOK /\ fr[s] \in Frame /\ FrameOK(fr[s])
      /\ pc \in [Sessions -> Labels] /\ fr \in [Sessions -> Frame]
      /\ History(objs) /\ Len(objs) \in Nat /\ MovesExist
      /\ refs \in [Branches -> 0 .. Len(objs)] /\ head \in Branches
      /\ Replaying(s)
  BY DEF RebaseInv, AloneInv, PickInv, TypeOK, RepoOK, SessionsOK, History
<1>2. PICK x, d :
        /\ x \in NextTodo(fr[s].todo) /\ Replays(s, x)
        /\ d \in Recommitted(x, fr[s].new, ReplayTree(s, x))
        /\ WriteCommit(d, fr[s].new, ReplayTree(s, x))
        /\ Keep(s, [fr[s] EXCEPT !.new = d, !.todo = @ \ {x}])
        /\ Goto(s, IF fr[s].todo = {x} THEN "rebaseTarget" ELSE "rebase")
        /\ UNCHANGED <<refs, head>> /\ pc[s] = "rebase"
  BY DEF RebaseNext
<1>3. PICK p, t, u, todo, h :
        /\ p = fr[s].new /\ t = ReplayTree(s, x) /\ u = refs[fr[s].ref]
        /\ todo = fr[s].todo /\ h = Tip
  OBVIOUS
<1>4. /\ h \in Ids /\ x \in Ids /\ p \in Ids /\ u \in Ids
      /\ x \in NextTodo(todo) /\ u \in Past(p) /\ fr[s].doCommit
      /\ Straight(h, u) =>
           \E c \in 0 .. Len(objs) :
             Reached(u, c, todo) /\ StandsFor(p, c) /\ FollowsList(p, c, u)
  <2>1. /\ fr[s].new # 0 /\ fr[s].new \in 0 .. Len(objs)
        /\ fr[s].todo \subseteq Ids /\ fr[s].ref \in Branches
    BY <1>1, <1>2 DEF FrameOK, MovesExist, Holding, Frame
  <2>2. x \in todo
    BY <1>2, <1>3 DEF NextTodo
  <2>3. /\ h # 0 /\ u # 0 /\ u \in Past(p) /\ fr[s].doCommit
        /\ Straight(h, u) =>
             \E c \in 0 .. Len(objs) :
               Reached(u, c, todo) /\ StandsFor(p, c) /\ FollowsList(p, c, u)
    BY <1>1, <1>2, <1>3 DEF Replaying
  <2>4. h \in Ids /\ u \in Ids /\ p \in Ids
    BY <1>1, <1>3, <2>1, <2>3
  <2>5. QED
    BY <1>2, <1>3, <2>1, <2>2, <2>3, <2>4
<1>5. t \in Tree /\ ReplayOf(t, x, p)
  <2>1. x \in 0 .. Len(objs) /\ p \in 0 .. Len(objs)
    BY <1>1, <1>4
  <2>2. ParentTree(x) \in Tree /\ TreeOf(p) \in Tree /\ TreeOf(x) \in Tree
    BY <1>1, <1>4, <2>1, ParentTreeType, TreeType
  <2>3. t \in Index /\ ReplayOf(t, x, p)
    BY <1>3, <2>2, MergeType DEF ReplayTree, ReplayOf
  <2>4. QED
    BY <1>2, <1>3, <2>3, CleanIndex DEF Replays
<1>6. d \in Recommitted(x, p, t) /\ WriteCommit(d, p, t) /\ UNCHANGED <<refs, head>>
  BY <1>2, <1>3
<1>7. u \in Past(d)'
  <2>1. /\ History(objs) /\ p \in Ids /\ t \in Tree /\ x \in Ids
        /\ d \in Recommitted(x, p, t) /\ WriteCommit(d, p, t)
        /\ u \in Ids /\ u \in Past(p)
    BY <1>1, <1>4, <1>5, <1>6
  <2>2. QED
    BY <2>1, PastGrows, ZenonT(60)
<1>8. /\ History(objs') /\ Len(objs') \in Nat /\ Len(objs) <= Len(objs')
      /\ Extended
  BY <1>1, <1>4, <1>5, <1>6, RecommitStep DEF Extended
<1>9. Tip' = h /\ (Straight(h, u)' <=> Straight(h, u))
  <2>1. /\ History(objs) /\ History(objs') /\ Extended
        /\ UNCHANGED <<refs, head>> /\ h \in Ids /\ h = Tip /\ u \in Ids
    BY <1>1, <1>3, <1>4, <1>6, <1>8
  <2>2. QED
    BY <2>1, HistoryKept
<1>10. ASSUME Straight(h, u)
       PROVE  /\ x \in 0 .. Len(objs')
              /\ Reached(u, x, todo \ {x})' /\ StandsFor(d, x)'
              /\ FollowsList(d, x, u)'
  <2>1. PICK c \in 0 .. Len(objs) :
          Reached(u, c, todo) /\ StandsFor(p, c) /\ FollowsList(p, c, u)
    BY <1>4, <1>10
  <2>2. Tip \in Ids /\ Straight(Tip, u)
    BY <1>3, <1>4, <1>10
  <2>3. /\ History(objs) /\ u \in Ids /\ x \in NextTodo(todo) /\ p \in Ids
        /\ u \in Past(p) /\ t \in Tree /\ ReplayOf(t, x, p)
        /\ d \in Recommitted(x, p, t) /\ WriteCommit(d, p, t)
        /\ UNCHANGED <<refs, head>>
    BY <1>1, <1>4, <1>5, <1>6
  <2>4. Reached(u, x, todo \ {x})' /\ StandsFor(d, x)' /\ FollowsList(d, x, u)'
    BY <2>1, <2>2, <2>3, StandsStep
  <2>5. QED
    BY <1>1, <1>4, <1>8, <2>4
<1>11. /\ pc'[s] = IF todo = {x} THEN "rebaseTarget" ELSE "rebase"
       /\ fr'[s].new = d /\ fr'[s].todo = todo \ {x} /\ fr'[s].ref = fr[s].ref
       /\ fr'[s].doCommit = fr[s].doCommit
  BY <1>1, <1>2, <1>3 DEF Keep, Goto, Frame
<1>12. refs'[fr'[s].ref] = u
  BY <1>3, <1>6, <1>11
<1>13. /\ Past(fr[s].new)' = Past(d)'
       /\ Straight(Tip, refs[fr[s].ref])' <=> Straight(h, u)'
       /\ \A c : Reached(refs[fr[s].ref], c, fr[s].todo)'
                   <=> Reached(u, c, todo \ {x})'
       /\ \A c : StandsFor(fr[s].new, c)' <=> StandsFor(d, c)'
       /\ \A c : FollowsList(fr[s].new, c, refs[fr[s].ref])'
                   <=> FollowsList(d, c, u)'
  BY <1>9, <1>11, <1>12
  DEF Past, Straight, Reached, StandsFor, FollowsList, IsMerge, ListedConflicts,
      Todo
<1>14. Straight(Tip, refs[fr[s].ref])' =>
         \E c \in 0 .. Len(objs') :
           /\ Reached(refs[fr[s].ref], c, fr[s].todo)'
           /\ StandsFor(fr[s].new, c)'
           /\ FollowsList(fr[s].new, c, refs[fr[s].ref])'
  BY <1>9, <1>10, <1>13
<1>15. /\ pc'[s] \notin {"ffAnalysis", "target", "move"}
       /\ Tip' # 0 /\ refs'[fr'[s].ref] # 0 /\ fr'[s].doCommit
  <2>1. h # 0 /\ u # 0
    BY <1>1, <1>4
  <2>2. QED
    BY <1>4, <1>9, <1>11, <1>12, <2>1
<1>16. refs'[fr'[s].ref] \in Past(fr[s].new)'
  BY <1>7, <1>12, <1>13
<1>17. pc'[s] = "rebaseTarget" => fr'[s].todo = {}
  BY <1>11
<1>18. QED
  BY <1>14, <1>15, <1>16, <1>17 DEF Replaying

\* The calls that lead to git_branch_fast_forward.
LEMMA OnlyTwoForward ==
  ASSUME SessionsOK, NEW s \in Sessions,
         Call(s) \/ Continue(s) \/ Crash(s) \/ PickStep(s),
         pc'[s] = "ffAnalysis"
  PROVE  CallMerge(s) \/ CallFastForward(s)
<1> USE DEF Start, Goto, Return, Leave, SessionsOK
<1>1. CASE \/ CallStageOnly(s) \/ FastForwardAnalysis(s) \/ SetTargetCheckout(s)
           \/ MergeStatus(s) \/ SetTargetMove(s) \/ Stage(s) \/ StageCleanup(s)
  BY <1>1 DEF CallStageOnly, FastForwardAnalysis, SetTargetCheckout,
              MergeStatus, SetTargetMove, Stage, StageCleanup
<1>2. CASE \/ CallCommit(s) \/ CommitStatus(s) \/ CommitMergeHeads(s)
           \/ CommitParents(s) \/ CommitCreated(s) \/ CommitRefused(s)
           \/ CommitFinish(s)
  BY <1>2 DEF CallCommit, CommitStatus, ReadStatus, CommitMergeHeads,
              CommitParents, CommitCreated, CommitRefused, CommitFinish
<1>3. CASE \/ CallCommitAll(s) \/ CommitAllAdd(s) \/ CommitAllStatus(s)
           \/ CommitAllRm(s)
  BY <1>3 DEF CallCommitAll, CommitAllAdd, CommitAllStatus, CommitAllRm,
              WriteIndex
<1>4. CASE \/ CallAbort(s) \/ AbortReset(s) \/ AbortCleanup(s)
           \/ CallReset(s) \/ Crash(s)
  BY <1>4 DEF CallAbort, AbortReset, AbortCleanup, CallReset, Crash
<1>5. CASE \/ CallCheckout(s) \/ CreateCheckout(s) \/ CallCreate(s)
           \/ SetHead(s)
  BY <1>5 DEF CallCheckout, CheckoutTree, CreateCheckout, CallCreate, SetHead
<1>6. CASE \/ CallOrphan(s) \/ CallDelete(s) \/ CallAdd(s) \/ CallRm(s)
           \/ IndexWrite(s)
  BY <1>6 DEF CallOrphan, CallDelete, CallAdd, CallRm, IndexWrite
<1>7. CASE \/ CallCherryPick(s) \/ CallRevert(s) \/ PickCleanup(s)
           \/ PickStatus(s) \/ PickParent(s) \/ PickRefused(s) \/ PickFinish(s)
  BY <1>7 DEF CallCherryPick, CallRevert, PickCleanup, PickStatus, PickParent,
              PickRefused, PickFinish
<1>8. CASE PickCreate(s) \/ RevertApply(s) \/ RevertCleanup(s)
  BY <1>8 DEF PickCreate, RevertApply, RevertCleanup
<1>9. CASE CallRebase(s) \/ RebaseNext(s) \/ RebaseTarget(s)
  BY <1>9 DEF CallRebase, RebaseNext, RebaseTarget
<1>10. QED
  BY <1>1, <1>2, <1>3, <1>4, <1>5, <1>6, <1>7, <1>8, <1>9
  DEF Call, Continue, PickStep, PickContinue

\* The other steps before a branch is moved.
LEMMA ReplaySteps ==
  ASSUME RebaseInv, NEW s \in Sessions,
         \/ CallMerge(s) \/ CallFastForward(s)
         \/ FastForwardAnalysis(s) \/ SetTargetCheckout(s)
         \/ CallRebase(s) \/ RebaseTarget(s)
  PROVE  Replaying(s)'
<1>1. /\ RepoOK /\ fr[s] \in Frame /\ FrameOK(fr[s])
      /\ pc \in [Sessions -> Labels] /\ fr \in [Sessions -> Frame]
      /\ History(objs) /\ Len(objs) \in Nat
      /\ refs \in [Branches -> 0 .. Len(objs)] /\ head \in Branches
      /\ Replaying(s)
  BY DEF RebaseInv, AloneInv, PickInv, TypeOK, RepoOK, SessionsOK, History
<1>2. CASE Leave(s)
  BY <1>1, <1>2 DEF Leave, Return, Goto, Replaying
<1>3. CASE CallMerge(s) \/ CallFastForward(s)
  <2>1. pc'[s] \in {"ffAnalysis", "stage"}
    BY <1>1, <1>3 DEF CallMerge, CallFastForward, Goto
  <2>2. fr'[s].op # "rebase"
    <3>1. CASE CallMerge(s)
      BY <1>1, <3>1 DEF CallMerge, Keep, NoFrame
    <3>2. CASE CallFastForward(s)
      BY <1>1, <3>2 DEF CallFastForward, Keep, NoFrame
    <3>3. QED
      BY <1>3, <3>1, <3>2
  <2>3. QED
    BY <2>1, <2>2 DEF Replaying
<1>4. CASE FastForwardAnalysis(s) /\ ~Leave(s)
  <2>1. pc'[s] = "target" /\ fr'[s].op # "rebase"
    BY <1>1, <1>4 DEF FastForwardAnalysis, Goto, Replaying
  <2>2. QED
    BY <2>1 DEF Replaying
<1>5. CASE SetTargetCheckout(s) /\ ~Leave(s)
  <2>1. pc'[s] = "move" /\ fr'[s].op # "rebase"
    <3>1. PICK target :
            /\ Keep(s, [fr[s] EXCEPT !.onto = head, !.old = Tip, !.new = target])
            /\ Goto(s, "move")
      BY <1>5 DEF SetTargetCheckout
    <3>2. pc'[s] = "move" /\ fr'[s].op = fr[s].op
      BY <1>1, <3>1 DEF Keep, Goto, Frame
    <3>3. fr[s].op # "rebase"
      BY <1>1, <1>5 DEF SetTargetCheckout, Replaying
    <3>4. QED
      BY <3>2, <3>3
  <2>2. QED
    BY <2>1 DEF Replaying
<1>6. CASE CallRebase(s)
  <2>1. PICK b \in Branches :
          /\ refs[b] # 0 /\ Tip # 0
          /\ Keep(s, [NoFrame EXCEPT !.op = "rebase", !.ref = b,
                        !.new = refs[b], !.todo = Todo(refs[b]),
                        !.doCommit = Todo(refs[b]) # {}])
          /\ Goto(s, IF Todo(refs[b]) = {} THEN "rebaseTarget" ELSE "rebase")
          /\ UNCHANGED repo
    BY <1>6 DEF CallRebase
  <2>2. PICK u, todo, h : u = refs[b] /\ todo = Todo(u) /\ h = Tip
    OBVIOUS
  <2>3. /\ pc'[s] = IF todo = {} THEN "rebaseTarget" ELSE "rebase"
        /\ fr'[s].ref = b /\ fr'[s].new = u /\ fr'[s].todo = todo
        /\ fr'[s].doCommit = (todo # {})
    BY <1>1, <2>1, <2>2 DEF Keep, Goto, NoFrame
  <2>4. UNCHANGED <<objs, refs, head>>
    BY <2>1 DEF repo
  <2>5. u \in Ids /\ h \in Ids /\ u # 0 /\ h # 0
    BY <1>1, <2>1, <2>2
  <2>6. u \in Past(u)
    BY <1>1, <2>5, PastOrder
  <2>7. Straight(h, u) =>
          \E c \in 0 .. Len(objs) :
            Reached(u, c, todo) /\ StandsFor(u, c) /\ FollowsList(u, c, u)
    BY <1>1, <2>2, <2>5, RebaseBegins
  <2>8. refs'[fr'[s].ref] = u /\ Tip' = h
    BY <2>2, <2>3, <2>4
  <2>9. /\ Past(fr[s].new)' = Past(u)
        /\ Straight(Tip, refs[fr[s].ref])' <=> Straight(h, u)
        /\ \A c : Reached(refs[fr[s].ref], c, fr[s].todo)' <=> Reached(u, c, todo)
        /\ \A c : StandsFor(fr[s].new, c)' <=> StandsFor(u, c)
        /\ \A c : FollowsList(fr[s].new, c, refs[fr[s].ref])'
                    <=> FollowsList(u, c, u)
    BY <2>2, <2>3, <2>4, <2>8
    DEF Past, Straight, Reached, StandsFor, FollowsList, IsMerge,
        ListedConflicts, Todo, TreeOf, ParentTree
  <2>10. Straight(Tip, refs[fr[s].ref])' =>
           \E c \in 0 .. Len(objs') :
             /\ Reached(refs[fr[s].ref], c, fr[s].todo)'
             /\ StandsFor(fr[s].new, c)'
             /\ FollowsList(fr[s].new, c, refs[fr[s].ref])'
    BY <2>4, <2>7, <2>9
  <2>11. /\ pc'[s] \notin {"ffAnalysis", "target", "move"}
         /\ Tip' # 0 /\ refs'[fr'[s].ref] # 0
         /\ refs'[fr'[s].ref] \in Past(fr[s].new)'
    BY <2>3, <2>5, <2>6, <2>8, <2>9
  <2>12. /\ ~fr'[s].doCommit =>
              pc'[s] = "rebaseTarget" /\ fr'[s].new = refs'[fr'[s].ref]
         /\ pc'[s] = "rebaseTarget" => fr'[s].todo = {}
    BY <2>3, <2>8
  <2>13. QED
    BY <2>10, <2>11, <2>12 DEF Replaying
<1>7. CASE RebaseTarget(s) /\ ~Leave(s)
  <2>1. PICK u, new, h : u = refs[fr[s].ref] /\ new = fr[s].new /\ h = Tip
    OBVIOUS
  <2>2. /\ pc[s] = "rebaseTarget" /\ h # 0 /\ u # 0 /\ u \in Past(new)
        /\ ~fr[s].doCommit => new = u
        /\ fr[s].todo = {}
        /\ Straight(h, u) =>
             \E c \in 0 .. Len(objs) : Reached(u, c, {}) /\ StandsFor(new, c)
    BY <1>1, <1>7, <2>1 DEF RebaseTarget, Replaying
  <2>3. /\ Keep(s, [fr[s] EXCEPT !.onto = head, !.old = h, !.new = new])
        /\ Goto(s, "move") /\ UNCHANGED <<objs, refs, head>>
    BY <1>7, <2>1, <2>2 DEF RebaseTarget
  <2>4. /\ pc'[s] = "move" /\ fr'[s].old = h /\ fr'[s].new = new
        /\ fr'[s].ref = fr[s].ref
    BY <1>1, <2>1, <2>3 DEF Keep, Goto, Frame
  <2>5. h \in Ids /\ u \in Ids /\ new \in Ids
    <3>1. fr[s].new \in 0 .. Len(objs) /\ fr[s].ref \in Branches
      BY <1>1 DEF FrameOK, Frame
    <3>2. new # 0
      BY <2>2 DEF Past
    <3>3. QED
      BY <1>1, <2>1, <2>2, <3>1, <3>2
  <2>6. Straight(h, u) => KeepsWork(h, new)
    BY <1>1, <2>1, <2>2, <2>5, RebaseEnds
  <2>7. refs'[fr'[s].ref] = u
    BY <2>1, <2>3, <2>4
  <2>8. /\ Past(fr[s].new)' = Past(new)
        /\ Straight(fr[s].old, refs[fr[s].ref])' <=> Straight(h, u)
        /\ KeepsWork(fr[s].old, fr[s].new)' <=> KeepsWork(h, new)
    BY <2>3, <2>4, <2>7
    DEF Past, Straight, IsMerge, KeepsWork, TreeOf, MergeBase, YoungestCommon,
        CommonPast
  <2>9. QED
    BY <2>2, <2>4, <2>6, <2>7, <2>8 DEF Replaying
<1>8. QED
  BY <1>2, <1>3, <1>4, <1>5, <1>6, <1>7

LEMMA RebaseInvStep ==
  ASSUME Alone, RebaseInv, [PickNext]_vars
  PROVE  RebaseInv'
<1>1. AloneInv /\ AloneInv' /\ SessionsOK
  BY AloneStep DEF RebaseInv, AloneInv, PickInv, TypeOK
<1>2. CASE Edit \/ UNCHANGED vars
  <2>1. UNCHANGED <<objs, refs, head, pc, fr>>
    BY <1>2 DEF Edit, vars, repo
  <2>2. ASSUME NEW s \in Sessions PROVE Replaying(s)'
    <3>1. Replaying(s)
      BY DEF RebaseInv
    <3>2. PICK u, new, old, todo, h :
            /\ u = refs[fr[s].ref] /\ new = fr[s].new /\ old = fr[s].old
            /\ todo = fr[s].todo /\ h = Tip
      OBVIOUS
    <3>3. /\ Past(fr[s].new)' = Past(new) /\ Tip' = h
          /\ Straight(Tip, refs[fr[s].ref])' <=> Straight(h, u)
          /\ Straight(fr[s].old, refs[fr[s].ref])' <=> Straight(old, u)
          /\ KeepsWork(fr[s].old, fr[s].new)' <=> KeepsWork(old, new)
          /\ \A c : Reached(refs[fr[s].ref], c, fr[s].todo)'
                      <=> Reached(u, c, todo)
          /\ \A c : StandsFor(fr[s].new, c)' <=> StandsFor(new, c)
          /\ \A c : FollowsList(fr[s].new, c, refs[fr[s].ref])'
                      <=> FollowsList(new, c, u)
      BY <2>1, <3>2
      DEF Past, Straight, Reached, StandsFor, FollowsList, IsMerge, KeepsWork,
          ListedConflicts, Todo, TreeOf, ParentTree, MergeBase, YoungestCommon,
          CommonPast
    <3>4. QED
      BY <2>1, <3>1, <3>2, <3>3 DEF Replaying
  <2>3. QED
    BY <1>1, <2>2 DEF RebaseInv
<1>3. ASSUME NEW s \in Sessions,
             Call(s) \/ Continue(s) \/ Crash(s) \/ PickStep(s)
      PROVE  Replaying(s)'
  <2>1. CASE pc'[s] \notin {"ffAnalysis", "target", "rebase", "rebaseTarget",
                            "move"}
    BY <2>1 DEF Replaying
  <2>2. CASE RebaseNext(s) /\ Leave(s)
    BY <1>1, <2>2 DEF Leave, Return, Goto, Replaying, SessionsOK
  <2>3. QED
    BY <1>1, <1>3, <2>1, <2>2, OnlyMoversMove, OnlyTwoForward, ReplayStep,
       ReplaySteps
<1>4. CASE \E s \in Sessions : Call(s) \/ Continue(s) \/ Crash(s) \/ PickStep(s)
  BY <1>1, <1>3, <1>4 DEF RebaseInv, Alone
<1>5. QED
  BY <1>2, <1>4 DEF PickNext, Next

LEMMA RebaseInvariant == Alone /\ PickSpec => [](Alone /\ RebaseInv)
<1>1. Init => RebaseInv
  <2>1. Init => AloneInv
    <3>1. Init => PickInv
      BY InitOK DEF Init, PickInv, MovesExist, ParentsExist, Holding
    <3>2. Init => \A s \in Sessions : CopiesCurrent(s)
      BY DEF Init, CopiesCurrent, Committing, Picking
    <3>3. QED
      BY <3>1, <3>2 DEF AloneInv
  <2>2. Init => \A s \in Sessions : Replaying(s)
    BY DEF Init, Replaying
  <2>3. QED
    BY <2>1, <2>2 DEF RebaseInv
<1>2. Alone /\ RebaseInv /\ [PickNext]_vars => (Alone /\ RebaseInv)'
  BY RebaseInvStep DEF Alone
<1>3. QED
  BY <1>1, <1>2, PTL DEF PickSpec

\* A rebase by a session that works alone puts the branch on top of upstream,
\* and keeps what a straight branch changed: git_rebase_commit moves the branch
\* to the last of the commits it wrote, each with the files of the one it stands
\* for unless that one left them as they were.
THEOREM RebasesKeepWork == Alone /\ PickSpec => RebaseKeepsWork
<1> DEFINE Moved(s) ==
      pc[s] = "move" /\ fr[s].op = "rebase" /\ refs' # refs =>
        /\ refs[fr[s].ref] \in Past(fr[s].new)
        /\ Straight(fr[s].old, refs[fr[s].ref]) => KeepsWork(fr[s].old, fr[s].new)
<1>1. Alone /\ RebaseInv /\ [PickNext]_vars => [\A s \in Sessions : Moved(s)]_vars
  BY DEF RebaseInv, Replaying
<1>2. QED
  BY <1>1, RebaseInvariant, PTL DEF PickSpec, RebaseKeepsWork, KeepsWork

\* When git_rebase_list marks no commit, a session that works alone can replay
\* a straight branch without a conflict: the commit it replays on agrees with
\* upstream or with the parent of the next one in every file.
THEOREM CleanListsReplay == Alone /\ PickSpec => []CleanListNoConflict
<1>1. RebaseInv => CleanListNoConflict
  <2> SUFFICES ASSUME RebaseInv, NEW s \in Sessions, pc[s] = "rebase",
                      Straight(Tip, refs[fr[s].ref]),
                      ListedConflicts(refs[fr[s].ref]) = {},
                      NEW x \in NextTodo(fr[s].todo)
               PROVE  ~HasConflicts(ReplayTree(s, x))
    BY DEF CleanListNoConflict
  <2>1. /\ FrameOK(fr[s]) /\ fr[s] \in Frame /\ MovesExist
        /\ History(objs) /\ Len(objs) \in Nat
        /\ refs \in [Branches -> 0 .. Len(objs)] /\ head \in Branches
        /\ Replaying(s)
    BY DEF RebaseInv, AloneInv, PickInv, TypeOK, RepoOK, SessionsOK, History
  <2>2. PICK u, p, todo, h : /\ u = refs[fr[s].ref] /\ p = fr[s].new
                             /\ todo = fr[s].todo /\ h = Tip
    OBVIOUS
  <2>3. /\ u \in Ids /\ p \in Ids /\ h \in Ids /\ todo \subseteq Ids
        /\ x \in NextTodo(todo)
    <3>1. /\ fr[s].new # 0 /\ fr[s].new \in 0 .. Len(objs)
          /\ fr[s].todo \subseteq Ids /\ fr[s].ref \in Branches
      BY <2>1 DEF FrameOK, MovesExist, Holding, Frame
    <3>2. u # 0 /\ h # 0
      BY <2>1, <2>2 DEF Replaying
    <3>3. QED
      BY <2>1, <2>2, <3>1, <3>2
  <2>4. PICK c \in 0 .. Len(objs) : Reached(u, c, todo) /\ FollowsList(p, c, u)
    BY <2>1, <2>2 DEF Replaying
  <2>5. x \in Todo(u) /\ OnlyChild(x, c)
    <3>1. Tip \in Ids /\ Straight(Tip, u)
      BY <2>2, <2>3
    <3>2. QED
      BY <2>1, <2>3, <2>4, <3>1, NextIsChild
  <2>6. PICK tc, tp, tu, tx :
          /\ tc = TreeOf(c) /\ tp = TreeOf(p) /\ tu = TreeOf(u) /\ tx = TreeOf(x)
    OBVIOUS
  <2>7. ParentTree(x) = tc /\ tc \in Tree /\ tp \in Tree /\ tx \in Tree
    <3>1. x \in Ids /\ p \in 0 .. Len(objs) /\ x \in 0 .. Len(objs)
      BY <2>1, <2>3, <2>5 DEF OnlyChild
    <3>2. ParentTree(x) = tc
      BY <2>5, <2>6 DEF OnlyChild, ParentTree, TreeOf
    <3>3. QED
      BY <2>1, <2>6, <3>1, <3>2, TreeType
  <2>8. \A f \in Files : tp[f] \in {tc[f], tu[f]}
    BY <2>2, <2>4, <2>6 DEF FollowsList
  <2>9. \A f \in Files : MergeFile(tc[f], tu[f], tx[f]) # Conflict
    <3>1. ~HasConflicts(MergeTrees(tc, tu, tx))
      BY <2>2, <2>5, <2>6, <2>7 DEF ListedConflicts
    <3>2. QED
      BY <3>1 DEF HasConflicts, MergeTrees
  <2>10. \A f \in Files : MergeFile(tc[f], tp[f], tx[f]) # Conflict
    <3>1. ASSUME NEW f \in Files PROVE MergeFile(tc[f], tc[f], tx[f]) # Conflict
      <4>1. tc[f] \in Content /\ tx[f] \in Content
        BY <2>7 DEF Tree
      <4>2. QED
        BY <4>1, ContentAssumption DEF MergeFile
    <3>2. QED
      BY <2>8, <2>9, <3>1
  <2>11. ReplayTree(s, x) = MergeTrees(tc, tp, tx)
    BY <2>2, <2>6, <2>7 DEF ReplayTree
  <2>12. QED
    BY <2>10, <2>11 DEF HasConflicts, MergeTrees
<1>2. QED
  BY <1>1, RebaseInvariant, PTL

=============================================================================
