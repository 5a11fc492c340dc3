------------------------------ MODULE MCStash ------------------------------
(***************************************************************************)
(* A small repository for the stash: the file f is tracked from the first  *)
(* commit on, g is not, and topic is one commit ahead of main.             *)
(***************************************************************************)
EXTENDS GertStash, TLC

CONSTANTS f, g, x, y, main, topic

T(a, b) == [p \in Files |-> IF p = f THEN a ELSE b]
MCInitRepos ==
  {[objs |-> <<[parents |-> <<>>, tree |-> T(x, Absent), past |-> {1}],
               [parents |-> <<1>>, tree |-> T(y, Absent), past |-> {1, 2}]>>,
    refs |-> [r \in Branches |-> IF r = main THEN 1 ELSE 2],
    head |-> main]}

MCContent == {x, y, Absent, Markers}
MCEdits == {y, Absent}
AnySession == Permutations(Sessions)
=============================================================================
