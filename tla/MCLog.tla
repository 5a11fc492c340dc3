------------------------------- MODULE MCLog -------------------------------
(***************************************************************************)
(* All histories of up to MaxLine commits, with dates in any order, that   *)
(* touch two files or none, and all calls over them.                       *)
(***************************************************************************)
EXTENDS GertLog

CONSTANTS f, g, MaxLine

MCCommit == [time : {1, 2}, touched : SUBSET {f, g}]
MCHistories ==
  [line : UNION {[1 .. n -> MCCommit] : n \in 1 .. MaxLine},
   end : {"root", "shallow"}]

\* IntMax is 2: the last date does not fit an int.
MCQueries ==
  [call : {"log"}, max : 0 .. MaxLine + 1, after : 1 .. 3, path : {{}, {f}}]
    \cup [call : {"stat"}, max : 0 .. MaxLine + 1, after : {1}, path : {{}}]
=============================================================================
