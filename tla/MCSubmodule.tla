---------------------------- MODULE MCSubmodule ----------------------------
(***************************************************************************)
(* A server with two branches, which are pushed to, rewritten and deleted. *)
(***************************************************************************)
EXTENDS GertSubmodule

MCHistories == {{}, {1}, {1, 2}, {1, 3}}
=============================================================================
