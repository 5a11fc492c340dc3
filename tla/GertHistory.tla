---------------------------- MODULE GertHistory ----------------------------
(***************************************************************************)
(* What gert's merge, commit and branch functions promise about history,   *)
(* with the index, the working directory and the calls' intermediate       *)
(* states hidden: a repository is a growing set of commits and a branch    *)
(* pointer per name, and each visible change is one of the moves below.    *)
(*                                                                         *)
(* Disciplined is the promise to a session that works alone and neither    *)
(* resets nor overwrites branches: no branch loses a commit, and a merge   *)
(* commit joins the tip to history that the tip did not have.              *)
(***************************************************************************)
EXTENDS Integers, Sequences, FiniteSets

CONSTANTS Files, Content, Branches, InitRepos, Disciplined

VARIABLES objs, refs, head

vars == <<objs, refs, head>>

Past(c) == IF c = 0 THEN {} ELSE objs[c].past
Ids == 1 .. Len(objs)

Init == \E r \in InitRepos : objs = r.objs /\ refs = r.refs /\ head = r.head

\* A commit object with some tree.  (The first conjunct follows from the
\* second; it spares TLC the trees of the steps that add nothing.)
Added(parents) ==
  LET n == Len(objs) + 1 IN
  /\ Len(objs') = n
  /\ \E t \in [Files -> Content] :
       objs' = Append(objs,
         [parents |-> parents, tree |-> t,
          past |-> {n} \cup UNION {Past(parents[i]) : i \in DOMAIN parents}])

\* A commit on top of the branch HEAD names; the other parent, if any, is the
\* commit that was merged.
CommitOn(parents) ==
  /\ Added(parents)
  /\ refs' = [refs EXCEPT ![head] = Len(objs) + 1]
  /\ UNCHANGED head

\* A rebase first writes commits that no branch has yet.
Replay == \E c \in Ids : Added(<<c>>) /\ UNCHANGED <<refs, head>>

\* A branch that does not exist yet starts with a root commit, or, when HEAD
\* was moved to it while a commit was being made, with a commit that has the
\* parents of that moment.
FirstCommit ==
  /\ refs[head] = 0
  /\ \/ CommitOn(<<>>)
     \/ ~Disciplined /\ \E c \in Ids : CommitOn(<<c>>)
     \/ ~Disciplined /\ \E c, d \in Ids : CommitOn(<<c, d>>)

PlainCommit == refs[head] # 0 /\ CommitOn(<<refs[head]>>)

MergeCommit ==
  \E c \in Ids :
    /\ refs[head] # 0
    /\ Disciplined => c \notin Past(refs[head])
    /\ CommitOn(<<refs[head], c>>)

\* A rebase puts a branch on top of another one, with a commit for each of
\* its own.
Rebased(b, c) ==
  \E u \in Branches :
    LET upstream == Past(refs[u])
        own == {d \in Past(refs[b]) \ upstream : Len(objs[d].parents) < 2}
    IN /\ refs[u] \in Past(c)
       /\ Cardinality(Past(c) \ upstream) = Cardinality(own)

\* A branch moves to an existing commit.
FastForward ==
  \E b \in Branches, c \in Ids :
    /\ Disciplined => refs[b] = 0 \/ refs[b] \in Past(c) \/ Rebased(b, c)
    /\ refs' = [refs EXCEPT ![b] = c]
    /\ UNCHANGED <<objs, head>>

Delete ==
  \E b \in Branches :
    /\ b # head
    /\ refs' = [refs EXCEPT ![b] = 0]
    /\ UNCHANGED <<objs, head>>

Switch ==
  /\ head' \in Branches
  /\ UNCHANGED <<objs, refs>>

Next ==
  \/ FirstCommit \/ PlainCommit \/ MergeCommit
  \/ FastForward \/ Delete \/ Switch \/ Replay

Spec == Init /\ [][Next]_vars

=============================================================================
