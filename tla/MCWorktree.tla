----------------------------- MODULE MCWorktree -----------------------------
(* Constants for the run of GertWorktree: sessions, names and the two paths  *)
(* that are always there are model values that can be exchanged.             *)
EXTENDS GertWorktree, TLC

CONSTANTS s1, s2, n1, n2, home, desk, usb

MCAsked == {{"valid"}, {"locked", "working_tree"}}

Symmetric ==
  Permutations({s1, s2}) \cup Permutations({n1, n2}) \cup Permutations({home, desk})
=============================================================================
