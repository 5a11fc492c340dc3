------------------------------- MODULE MCAuth -------------------------------
(* Every server: any set of credential kinds may be asked for in any round.  *)
EXTENDS GertAuth

AllOffers == SUBSET {"ssh_key", "userpass", "username"} \ {{}}
=============================================================================
