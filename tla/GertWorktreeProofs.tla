------------------------- MODULE GertWorktreeProofs -------------------------
(***************************************************************************)
(* What the worktree functions promise for any number of sessions, names,  *)
(* paths and branches, whatever the user does to the folders between two   *)
(* steps of a call.                                                        *)
(***************************************************************************)
EXTENDS GertWorktree, TLAPS

USE WorktreeAssumption

-----------------------------------------------------------------------------
(* Where a call can be, and what it has with it.                           *)

Labels == {"idle", "add", "lock", "unlock", "prune"}

Frames(l) == CASE l = "idle" -> {None}
               [] l = "add" -> Request
               [] OTHER -> Handle

CallsOK ==
  /\ pc \in [Sessions -> Labels]
  /\ DOMAIN fr = Sessions
  /\ \A s \in Sessions : fr[s] \in Frames(pc[s])

-----------------------------------------------------------------------------
(* Facts about entries and folders.                                        *)

LEMMA LinkedEntry ==
  ASSUME TypeOK, NEW n \in Names, Linked(n)
  PROVE  meta[n] \in Entry
  BY DEF TypeOK, Linked

LEMMA CallsTyped ==
  ASSUME TypeOK
  PROVE  CallsOK
  BY DEF TypeOK, CallsOK, Frames, Labels

\* A call in progress and the arguments it has.
LEMMA Arguments ==
  ASSUME TypeOK, NEW s \in Sessions, pc[s] # "idle"
  PROVE  /\ fr[s].name \in Names /\ fr[s].path \in Paths
         /\ pc[s] = "add" => fr[s].branch \in Branches /\ fr[s].lock \in BOOLEAN
<1>1. fr[s] \in IF pc[s] = "add" THEN Request ELSE Handle
  BY CallsTyped DEF CallsOK, Frames
<1>. QED BY <1>1 DEF Request, Handle

\* What a step has to establish.
LEMMA Retyped ==
  ASSUME CallsOK', (meta \in [Names -> Entry \cup {None, Half}])',
         (disk \in [Paths -> Content])', connected' \in BOOLEAN,
         branches' \subseteq Branches
  PROVE  TypeOK'
  BY DEF TypeOK, CallsOK, Frames, Labels

\* A step that leaves entries, folders and branches alone.
LEMMA Unmoved ==
  ASSUME TypeOK, CallsOK', UNCHANGED <<meta, disk, connected, branches>>
  PROVE  TypeOK'
  BY Retyped DEF TypeOK

\* What one session's step does to the control state.
LEMMA SessionStep ==
  ASSUME TypeOK, NEW s \in Sessions, NEW l \in Labels, NEW f \in Frames(l),
         Goes(s, f, l)
  PROVE  CallsOK' /\ pc'[s] = l
<1>1. CallsOK
  BY CallsTyped
<1>2. fr' = [fr EXCEPT ![s] = f] /\ pc' = [pc EXCEPT ![s] = l]
  BY DEF Goes
<1>3. pc' \in [Sessions -> Labels] /\ DOMAIN fr' = Sessions
  BY <1>1, <1>2 DEF CallsOK
<1>4. ASSUME NEW t \in Sessions
      PROVE  fr'[t] \in Frames(pc'[t])
  BY <1>1, <1>2 DEF CallsOK
<1>. QED BY <1>1, <1>2, <1>3, <1>4 DEF CallsOK

LEMMA ReturnStep ==
  ASSUME TypeOK, NEW s \in Sessions, Return(s)
  PROVE  CallsOK' /\ pc'[s] = "idle"
<1>1. None \in Frames("idle") /\ "idle" \in Labels
  BY DEF Frames, Labels
<1>. QED BY <1>1, SessionStep DEF Return

\* The steps that look an entry up and remember it.
Looking(s) ==
  \/ CallAdd(s) \/ CallLock(s) \/ CallUnlock(s) \/ CallPrune(s) \/ CallRemove(s)

LEMMA LookupStep ==
  ASSUME TypeOK, NEW s \in Sessions, NEW n \in Names,
         NEW asked \in SUBSET AllFlags, NEW l \in {"lock", "unlock", "prune"},
         Lookup(s, n, asked, l)
  PROVE  TypeOK' /\ UNCHANGED <<meta, disk>>
<1>1. meta[n] \in Entry
  BY LinkedEntry DEF Lookup
<1>. DEFINE f == [name |-> n, path |-> meta[n].path, flags |-> Flags(asked)]
<1>2. f \in Frames(l) /\ l \in Labels
  BY <1>1 DEF Frames, Handle, Entry, Flags, Labels
<1>3. Goes(s, f, l) /\ UNCHANGED <<meta, disk, connected, branches>>
  BY DEF Lookup, Disk
<1>. HIDE DEF f
<1>4. CallsOK'
  BY <1>2, <1>3, SessionStep
<1>. QED BY <1>3, <1>4, Unmoved

LEMMA LookingStep ==
  ASSUME TypeOK, NEW s \in Sessions, Looking(s)
  PROVE  TypeOK' /\ UNCHANGED <<meta, disk>>
<1>1. CASE CallAdd(s)
  <2>1. PICK n \in Names, p \in Paths, b \in Branches, lock \in BOOLEAN :
          /\ Goes(s, [name |-> n, path |-> p, branch |-> b, lock |-> lock], "add")
          /\ UNCHANGED <<meta, disk, connected, branches>>
    BY <1>1 DEF CallAdd, Disk
  <2>. DEFINE f == [name |-> n, path |-> p, branch |-> b, lock |-> lock]
  <2>2. f \in Frames("add") /\ "add" \in Labels /\ Goes(s, f, "add")
    BY <2>1 DEF Frames, Request, Labels
  <2>. HIDE DEF f
  <2>3. CallsOK'
    BY <2>2, SessionStep
  <2>. QED BY <2>1, <2>3, Unmoved
<1>2. CASE CallLock(s) \/ CallUnlock(s) \/ CallRemove(s)
  <2>1. {} \in SUBSET AllFlags /\ AllFlags \in SUBSET AllFlags
    OBVIOUS
  <2>. QED BY <1>2, <2>1, LookupStep DEF CallLock, CallUnlock, CallRemove
<1>3. CASE CallPrune(s)
  BY <1>3, LookupStep DEF CallPrune
<1>. QED BY <1>1, <1>2, <1>3 DEF Looking

-----------------------------------------------------------------------------
(* Types.                                                                  *)

LEMMA AddType ==
  ASSUME TypeOK, NEW s \in Sessions, Add(s)
  PROVE  TypeOK'
<1>. DEFINE f == fr[s]
<1>1. pc[s] = "add" /\ Return(s) /\ UNCHANGED <<connected, branches>>
  BY DEF Add
<1>2. f.name \in Names /\ f.path \in Paths /\ EntryOf(f) \in Entry
  BY <1>1, Arguments DEF EntryOf, Entry
<1>3. meta' \in [Names -> Entry \cup {None, Half}] /\ disk' \in [Paths -> Content]
  BY <1>2 DEF Add, TypeOK, Content
<1>. QED BY <1>1, <1>3, ReturnStep, Retyped DEF TypeOK

LEMMA LockType ==
  ASSUME TypeOK, NEW s \in Sessions, SetLock(s)
  PROVE  /\ TypeOK' /\ UNCHANGED disk
         /\ \A n \in Names : \/ meta'[n] = meta[n]
                             \/ /\ meta[n] \in Entry /\ meta'[n] \in Entry
                                /\ meta'[n].path = meta[n].path
                                /\ meta'[n].branch = meta[n].branch
<1>. DEFINE k == fr[s].name
            lock == pc[s] = "lock"
<1>1. Return(s) /\ pc[s] # "idle" /\ UNCHANGED <<disk, connected, branches>>
  BY DEF SetLock, Disk
<1>2. k \in Names /\ lock \in BOOLEAN /\ meta \in [Names -> Entry \cup {None, Half}]
  BY <1>1, Arguments DEF TypeOK
<1>3. CASE Linked(k)
  <2>1. meta[k] \in Entry
    BY <1>2, <1>3, LinkedEntry
  <2>. DEFINE e == [meta[k] EXCEPT !.locked = lock]
  <2>2. e \in Entry /\ e.path = meta[k].path /\ e.branch = meta[k].branch
    BY <2>1 DEF Entry
  <2>3. meta' = [meta EXCEPT ![k] = e]
    BY <1>3 DEF SetLock
  <2>. HIDE DEF e, k, lock
  <2>4. meta' \in [Names -> Entry \cup {None, Half}]
    BY <1>2, <2>2, <2>3
  <2>. QED BY <1>1, <1>2, <2>1, <2>2, <2>3, <2>4, ReturnStep, Retyped DEF TypeOK
<1>4. CASE ~Linked(k)
  <2>1. meta' = meta
    BY <1>4 DEF SetLock
  <2>. QED BY <1>1, <2>1, ReturnStep, Unmoved
<1>. QED BY <1>3, <1>4

LEMMA PruneType ==
  ASSUME TypeOK, NEW s \in Sessions, Prune(s)
  PROVE  TypeOK'
<1>1. /\ Return(s) /\ pc[s] # "idle" /\ UNCHANGED <<connected, branches>>
      /\ meta' = meta \/ meta' = [meta EXCEPT ![fr[s].name] = None]
      /\ disk' = disk \/ disk' = [disk EXCEPT ![fr[s].path] = None]
  BY DEF Prune
<1>2. meta' \in [Names -> Entry \cup {None, Half}] /\ disk' \in [Paths -> Content]
  BY <1>1 DEF TypeOK, Content
<1>. QED BY <1>1, <1>2, ReturnStep, Retyped DEF TypeOK

LEMMA UserType ==
  ASSUME TypeOK, User
  PROVE  /\ TypeOK' /\ UNCHANGED meta
         /\ \A p \in Paths : disk'[p] = disk[p] \/ disk'[p] \in {None, Foreign}
<1>1. UNCHANGED <<meta, branches, pc, fr>> /\ UserAct
  BY DEF User
<1>2. /\ disk' \in [Paths -> Content] /\ connected' \in BOOLEAN
      /\ \A p \in Paths : disk'[p] = disk[p] \/ disk'[p] \in {None, Foreign}
  BY <1>1 DEF UserAct, TypeOK, Content
<1>3. CallsOK'
  BY <1>1, CallsTyped DEF CallsOK
<1>. QED BY <1>1, <1>2, <1>3, Retyped DEF TypeOK

LEMMA WorktreeInit ==
  ASSUME Init
  PROVE  TypeOK
  BY DEF Init, TypeOK, Content

LEMMA BranchStep ==
  ASSUME TypeOK, NEW s \in Sessions, CallDelete(s) \/ CallCreate(s)
  PROVE  TypeOK' /\ UNCHANGED <<meta, disk>>
<1>1. /\ UNCHANGED <<meta, disk, connected, pc, fr>>
      /\ branches' \subseteq Branches
  BY DEF CallDelete, CallCreate, TypeOK
<1>2. CallsOK'
  BY <1>1, CallsTyped DEF CallsOK
<1>. QED BY <1>1, <1>2, Retyped DEF TypeOK

LEMMA QuietStep ==
  ASSUME TypeOK, UNCHANGED vars
  PROVE  TypeOK' /\ UNCHANGED <<meta, disk>>
<1>1. CallsOK' /\ UNCHANGED <<meta, disk, connected, branches>>
  BY CallsTyped DEF vars, CallsOK
<1>. QED BY <1>1, Unmoved

LEMMA WorktreeStep ==
  ASSUME TypeOK, [Next]_vars
  PROVE  TypeOK'
<1>1. ASSUME NEW s \in Sessions, Call(s) \/ Continue(s)
      PROVE  TypeOK'
  BY <1>1, LookingStep, BranchStep, AddType, LockType, PruneType
     DEF Call, Continue, Looking
<1>. QED BY <1>1, UserType, QuietStep DEF Next

\* Every entry has a path and a branch that exist or is the half of one that
\* a failed git_worktree_add leaves, and every call in progress has its
\* arguments.
THEOREM WorktreeTypeCorrect == Spec => []TypeOK
<1>1. Init => TypeOK
  BY WorktreeInit
<1>2. TypeOK /\ [Next]_vars => TypeOK'
  BY WorktreeStep
<1>. QED BY <1>1, <1>2, PTL DEF Spec

-----------------------------------------------------------------------------
(* One branch, one tree.                                                   *)

\* A worktree on a drive that is always there, in use.
InUse(n) == Linked(n) /\ meta[n].path \notin Drive /\ disk[meta[n].path] = n

LEMMA UsableInUse ==
  ASSUME NEW n \in Names
  PROVE  Usable(n) /\ meta[n].path \notin Drive <=> InUse(n)
  BY DEF Usable, InUse, At, Reachable

\* OneBranchOneTree in these words.
Exclusive ==
  \A n \in Names : InUse(n) =>
    /\ meta[n].branch # MainBranch
    /\ \A m \in Names \ {n} : InUse(m) => meta[m].branch # meta[n].branch

LEMMA SameProperty == OneBranchOneTree <=> Exclusive
  BY UsableInUse DEF OneBranchOneTree, Exclusive

\* A step after which every worktree in use was in use, on the same branch.
LEMMA NoNewTree ==
  ASSUME Exclusive,
         \A n \in Names : InUse(n)' => InUse(n) /\ meta'[n].branch = meta[n].branch
  PROVE  Exclusive'
  BY DEF Exclusive

LEMMA UseKept ==
  ASSUME NEW n \in Names, meta'[n] = meta[n], InUse(n)',
         Linked(n) => disk'[meta[n].path] = disk[meta[n].path]
  PROVE  InUse(n) /\ meta'[n].branch = meta[n].branch
  BY DEF InUse, Linked

LEMMA AddExclusive ==
  ASSUME TypeOK, Exclusive, NEW s \in Sessions, Add(s)
  PROVE  Exclusive'
<1>. DEFINE f == fr[s]
            k == f.name
<1>1. pc[s] = "add"
  BY DEF Add
<1>2. /\ k \in Names /\ f.path \in Paths
      /\ meta \in [Names -> Entry \cup {None, Half}] /\ disk \in [Paths -> Content]
  BY <1>1, Arguments DEF TypeOK
<1>3. CASE UNCHANGED <<meta, disk>>
  BY <1>3, NoNewTree DEF InUse, Linked
<1>4. CASE meta' = [meta EXCEPT ![k] = Half] /\ UNCHANGED disk
  <2>1. \A n \in Names : meta'[n] = IF n = k THEN Half ELSE meta[n]
    BY <1>2, <1>4
  <2>. QED BY <1>4, <2>1, NoNewTree DEF InUse, Linked
<1>5. CASE /\ Addable(f) /\ meta' = [meta EXCEPT ![k] = EntryOf(f)]
           /\ disk' = [disk EXCEPT ![f.path] = k]
  <2>. DEFINE e == EntryOf(f)
  <2>1. e.path = f.path /\ e.branch = f.branch
    BY DEF EntryOf
  <2>2. /\ \A n \in Names : meta'[n] = IF n = k THEN e ELSE meta[n]
        /\ \A p \in Paths : disk'[p] = IF p = f.path THEN k ELSE disk[p]
    BY <1>2, <1>5
  <2>3. f.branch # MainBranch
    BY <1>5 DEF Addable, CheckedOut
  <2>4. ASSUME NEW n \in Names, InUse(n)
        PROVE  meta[n].branch # f.branch
    <3>1. Linked(n) /\ At(meta[n].path) = n
      BY <2>4, UsableInUse DEF Usable
    <3>. QED BY <1>5, <3>1 DEF Addable, CheckedOut
  <2>. HIDE DEF e, f, k
  <2>5. ASSUME NEW n \in Names \ {k}, InUse(n)'
        PROVE  InUse(n) /\ meta'[n] = meta[n]
    <3>1. meta'[n] = meta[n] /\ Linked(n)
      BY <2>2, <2>5 DEF InUse, Linked
    <3>2. meta[n].path \in Paths
      BY <3>1, LinkedEntry DEF Entry
    <3>3. disk'[meta[n].path] = n
      BY <2>5, <3>1 DEF InUse
    <3>. QED BY <2>2, <2>5, <3>1, <3>2, <3>3 DEF InUse
  <2>6. ASSUME NEW n \in Names, InUse(n)'
        PROVE  /\ meta'[n].branch # MainBranch
               /\ \A m \in Names \ {n} : InUse(m)' => meta'[m].branch # meta'[n].branch
    <3>1. CASE n = k
      BY <3>1, <2>1, <2>2, <2>3, <2>4, <2>5
    <3>2. CASE n # k
      <4>1. InUse(n) /\ meta'[n] = meta[n]
        BY <3>2, <2>5, <2>6
      <4>2. meta'[n].branch # MainBranch
        BY <4>1 DEF Exclusive
      <4>3. ASSUME NEW m \in Names \ {n}, InUse(m)'
            PROVE  meta'[m].branch # meta'[n].branch
        <5>1. CASE m = k
          BY <5>1, <4>1, <2>1, <2>2, <2>4
        <5>2. CASE m # k
          BY <5>2, <4>1, <4>3, <2>5 DEF Exclusive
        <5>. QED BY <5>1, <5>2
      <4>. QED BY <4>2, <4>3
    <3>. QED BY <3>1, <3>2
  <2>. QED BY <2>6 DEF Exclusive
<1>. QED BY <1>3, <1>4, <1>5 DEF Add

LEMMA PruneExclusive ==
  ASSUME TypeOK, Exclusive, NEW s \in Sessions, Prune(s)
  PROVE  Exclusive'
<1>1. /\ meta' = meta \/ meta' = [meta EXCEPT ![fr[s].name] = None]
      /\ disk' = disk \/ disk' = [disk EXCEPT ![fr[s].path] = None]
      /\ meta \in [Names -> Entry \cup {None, Half}] /\ disk \in [Paths -> Content]
  BY DEF Prune, TypeOK
<1>2. /\ \A n \in Names : meta'[n] \in {meta[n], None}
      /\ \A p \in Paths : disk'[p] \in {disk[p], None}
  BY <1>1
<1>3. ASSUME NEW n \in Names, InUse(n)'
      PROVE  InUse(n) /\ meta'[n].branch = meta[n].branch
  <2>1. meta'[n] = meta[n] /\ Linked(n)
    BY <1>2, <1>3 DEF InUse, Linked
  <2>2. meta[n].path \in Paths
    BY <2>1, LinkedEntry DEF Entry
  <2>3. disk'[meta[n].path] = disk[meta[n].path]
    BY <1>2, <1>3, <2>1, <2>2 DEF InUse
  <2>. QED BY <1>3, <2>1, <2>3, UseKept
<1>. QED BY <1>3, NoNewTree

LEMMA LockExclusive ==
  ASSUME TypeOK, Exclusive, NEW s \in Sessions, SetLock(s)
  PROVE  Exclusive'
<1>1. ASSUME NEW n \in Names, InUse(n)'
      PROVE  InUse(n) /\ meta'[n].branch = meta[n].branch
  <2>1. CASE meta'[n] = meta[n]
    BY <1>1, <2>1, LockType, UseKept
  <2>2. CASE meta'[n] # meta[n]
    <3>1. /\ meta[n].path = meta'[n].path /\ meta[n].branch = meta'[n].branch
          /\ UNCHANGED disk
      BY <2>2, LockType
    <3>2. Linked(n)
      BY <2>2 DEF SetLock, Linked
    <3>. QED BY <1>1, <3>1, <3>2 DEF InUse
  <2>. QED BY <2>1, <2>2
<1>. QED BY <1>1, NoNewTree

LEMMA UserExclusive ==
  ASSUME TypeOK, Exclusive, User
  PROVE  Exclusive'
<1>1. ASSUME NEW n \in Names, InUse(n)'
      PROVE  InUse(n) /\ meta'[n].branch = meta[n].branch
  <2>1. meta'[n] = meta[n] /\ Linked(n)
    BY <1>1, UserType DEF InUse, Linked
  <2>2. meta[n].path \in Paths
    BY <2>1, LinkedEntry DEF Entry
  <2>3. disk'[meta[n].path] = disk[meta[n].path]
    BY <1>1, <2>1, <2>2, UserType DEF InUse
  <2>. QED BY <1>1, <2>1, <2>3, UseKept
<1>. QED BY <1>1, NoNewTree

LEMMA ExclusiveStep ==
  ASSUME TypeOK, Exclusive, [Next]_vars
  PROVE  Exclusive'
<1>1. CASE UNCHANGED <<meta, disk>>
  BY <1>1, NoNewTree DEF InUse, Linked
<1>2. ASSUME NEW s \in Sessions, Call(s) \/ Continue(s)
      PROVE  Exclusive'
  BY <1>1, <1>2, LookingStep, BranchStep, AddExclusive, LockExclusive, PruneExclusive
     DEF Call, Continue, Looking
<1>. QED BY <1>1, <1>2, UserExclusive, QuietStep DEF Next

\* Two working trees never have the same branch checked out, nor that of the
\* main working tree, for any interleaving of git_worktree_add with removals,
\* prunes, deletions and what the user puts where a worktree was.
THEOREM BranchesAreExclusive == Spec => []OneBranchOneTree
<1>1. Init => Exclusive
  BY DEF Init, Exclusive, InUse, Linked
<1>2. TypeOK /\ Exclusive /\ [Next]_vars => Exclusive'
  BY ExclusiveStep
<1>3. Exclusive => OneBranchOneTree
  BY SameProperty
<1>. QED BY <1>1, <1>2, <1>3, WorktreeTypeCorrect, PTL DEF Spec

-----------------------------------------------------------------------------
(* Pruning.                                                                *)

\* What one step may remove.
Cautious ==
  /\ \A n \in Names : Linked(n) /\ meta'[n] = None =>
       \E s \in Sessions :
         /\ pc[s] = "prune" /\ pc'[s] = "idle" /\ fr[s].name = n
         /\ Locked(n) => "locked" \in fr[s].flags
         /\ Usable(n) /\ meta[n].path = fr[s].path => "valid" \in fr[s].flags
  /\ \A p \in Paths : disk[p] # None /\ disk'[p] = None /\ ~User =>
       \E s \in Sessions :
         /\ pc[s] = "prune" /\ pc'[s] = "idle" /\ fr[s].path = p
         /\ "working_tree" \in fr[s].flags

LEMMA NothingRemoved ==
  ASSUME UNCHANGED <<meta, disk>>
  PROVE  Cautious
  BY DEF Cautious, Linked

LEMMA PruneCautious ==
  ASSUME TypeOK, NEW s \in Sessions, Prune(s)
  PROVE  Cautious
<1>. DEFINE f == fr[s]
<1>1. /\ pc[s] = "prune" /\ Return(s) /\ pc'[s] = "idle"
      /\ meta \in [Names -> Entry \cup {None, Half}] /\ disk \in [Paths -> Content]
  BY ReturnStep DEF Prune, TypeOK
<1>2. CASE UNCHANGED <<meta, disk>>
  BY <1>2, NothingRemoved
<1>3. CASE /\ Linked(f.name) /\ Prunable(f.name, f.path, f.flags)
           /\ meta' = [meta EXCEPT ![f.name] = None]
           /\ disk' = IF PruneTree(f) THEN [disk EXCEPT ![f.path] = None] ELSE disk
  <2>1. ASSUME NEW n \in Names, Linked(n), meta'[n] = None
        PROVE  /\ f.name = n
               /\ Locked(n) => "locked" \in f.flags
               /\ Usable(n) /\ meta[n].path = f.path => "valid" \in f.flags
    <3>1. f.name = n
      BY <1>1, <1>3, <2>1 DEF Linked
    <3>2. Usable(n) /\ meta[n].path = f.path => ValidAt(f.path)
      BY DEF Usable, ValidAt
    <3>. QED BY <1>3, <3>1, <3>2 DEF Prunable
  <2>2. ASSUME NEW p \in Paths, disk[p] # None, disk'[p] = None
        PROVE  f.path = p /\ "working_tree" \in f.flags
    BY <1>1, <1>3, <2>2 DEF PruneTree
  <2>. QED BY <1>1, <2>1, <2>2 DEF Cautious
<1>. QED BY <1>2, <1>3 DEF Prune

LEMMA AddCautious ==
  ASSUME TypeOK, NEW s \in Sessions, Add(s)
  PROVE  Cautious
<1>. DEFINE f == fr[s]
<1>1. /\ f.name \in Names /\ f.path \in Paths
      /\ meta \in [Names -> Entry \cup {None, Half}] /\ disk \in [Paths -> Content]
  BY Arguments DEF Add, TypeOK
<1>2. ASSUME NEW n \in Names, Linked(n)
      PROVE  meta'[n] = meta[n]
  BY <1>1, <1>2 DEF Add, Addable, Linked
<1>3. ASSUME NEW p \in Paths
      PROVE  disk'[p] = disk[p] \/ disk'[p] \in Names
  BY <1>1 DEF Add
<1>. QED BY <1>2, <1>3 DEF Cautious, Linked

LEMMA CautiousStep ==
  ASSUME TypeOK, [Next]_vars
  PROVE  Cautious
<1>1. ASSUME NEW s \in Sessions, SetLock(s)
      PROVE  Cautious
  BY <1>1, LockType DEF Cautious, Linked, Entry
<1>2. ASSUME NEW s \in Sessions, Call(s) \/ Continue(s)
      PROVE  Cautious
  BY <1>1, <1>2, NothingRemoved, LookingStep, BranchStep, AddCautious, PruneCautious
     DEF Call, Continue, Looking
<1>3. CASE User
  BY <1>3, UserType DEF Cautious, Linked
<1>. QED BY <1>2, <1>3, NothingRemoved, QuietStep DEF Next

\* An entry or a folder goes only by a prune or a removal that asked for just
\* that, also when the worktree was locked or its drive connected after the
\* call looked it up.
THEOREM PruningIsCautious == Spec => PruneIsCautious
<1>1. TypeOK /\ [Next]_vars => [Cautious]_vars
  BY CautiousStep
<1>2. Spec => [][Cautious]_vars
  BY <1>1, WorktreeTypeCorrect, PTL DEF Spec
<1>. QED BY <1>2 DEF PruneIsCautious, Cautious
=============================================================================
