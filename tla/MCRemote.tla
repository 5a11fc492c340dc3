------------------------------ MODULE MCRemote ------------------------------
(***************************************************************************)
(* Small instances of GertRemote for TLC.                                  *)
(***************************************************************************)
EXTENDS GertRemote

CONSTANTS main, dev

\* Commit 2 is a colleague's, on top of the first commit.
MCMade == <<1, 2>>

\* On one of the servers the colleague pushes it and takes it back.
MCOthers == {<<"hub", main, {1}>>, <<"hub", main, {1, 2}>>}

\* A server's default branch has a commit; it may have a second branch.
With(h) == [b \in Branches |-> IF b = DefaultBranch THEN {1} ELSE h]
TwoBranches == {With({}), With({1, 2})}
=============================================================================
