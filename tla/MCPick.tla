------------------------------- MODULE MCPick -------------------------------
(***************************************************************************)
(* Small repositories for cherry-pick, revert and rebase: main and topic   *)
(* left a common root; topic has two commits of its own.                   *)
(***************************************************************************)
EXTENDS GertPick, TLC

CONSTANTS f, g, x, y, z, main, topic, other

T(a, b) == [p \in Files |-> IF p = f THEN a ELSE b]
Root == [parents |-> <<>>, tree |-> T(x, x), past |-> {1}]

\* 1 - 2 is main, 1 - 3 - 4 is topic, and HEAD is at h.
Fork(a, b, c, h) ==
  [objs |-> <<Root,
              [parents |-> <<1>>, tree |-> a, past |-> {1, 2}],
              [parents |-> <<1>>, tree |-> b, past |-> {1, 3}],
              [parents |-> <<3>>, tree |-> c, past |-> {1, 3, 4}]>>,
   refs |-> [r \in Branches |->
               IF r = main THEN 2 ELSE IF r = topic THEN 4 ELSE 0],
   head |-> h]

\* topic changes f twice, f and g, or f and back again; main changes g, f, or
\* makes the same change as topic.
ForkTrees ==
  {<<T(x, y), T(y, x), T(z, x)>>, <<T(x, z), T(y, x), T(y, y)>>,
   <<T(y, x), T(y, x), T(y, y)>>, <<T(x, y), T(y, x), T(x, x)>>,
   <<T(z, x), T(x, y), T(x, z)>>}
Forks == {Fork(t[1], t[2], t[3], h) : t \in ForkTrees, h \in {main, topic}}

\* Forks for a rebase in which f goes, comes back, or is changed as upstream
\* changed it, and g gets in the way.
RebaseTrees ==
  {<<T(x, y), T(Absent, x), T(y, x)>>, <<T(y, x), T(Absent, x), T(y, x)>>,
   <<T(Absent, x), T(x, y), T(y, y)>>, <<T(y, x), T(x, y), T(y, y)>>,
   <<T(x, y), T(y, x), T(y, y)>>}
RebaseForks == Forks \cup {Fork(t[1], t[2], t[3], topic) : t \in RebaseTrees}

\* main and topic diverged by one commit each: a clean merge, a conflict, the
\* same change on both sides, and a modified file that the other side deleted.
Diverged(t) ==
  [objs |-> <<Root, [parents |-> <<1>>, tree |-> T(y, x), past |-> {1, 2}],
                    [parents |-> <<1>>, tree |-> t, past |-> {1, 3}]>>,
   refs |-> [r \in Branches |->
               IF r = main THEN 2 ELSE IF r = topic THEN 3 ELSE 0],
   head |-> main]
DivergedRepos ==
  {Diverged(t) : t \in {T(x, y), T(z, x), T(y, x), T(Absent, x)}}

\* topic is one commit ahead of main.
AheadRepos ==
  {[objs |-> <<Root, [parents |-> <<1>>, tree |-> T(y, x), past |-> {1, 2}]>>,
    refs |-> [r \in Branches |->
                IF r = main THEN 1 ELSE IF r = topic THEN 2 ELSE 0],
    head |-> main]}

MCContent == {x, y, z, Absent, Markers}
\* What the user types: what another branch has in f; or nothing at all.
MCEdits == {y}
NoEdits == {}
AnySession == Permutations(Sessions)

=============================================================================
