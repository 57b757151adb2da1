--------------------------- MODULE MCServerProcess ----------------------------
(* Instances of ServerProcess for TLC. *)
EXTENDS ServerProcess

OneShotAny == BOOLEAN
NeverOneShot == {FALSE}

===============================================================================
