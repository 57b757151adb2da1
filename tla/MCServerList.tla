---------------------------- MODULE MCServerList -----------------------------
(* Instances of ServerList for TLC. *)
EXTENDS ServerList, TLC

Addresses == Permutations(Address)

===============================================================================
