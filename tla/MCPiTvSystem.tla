----------------------------- MODULE MCPiTvSystem ------------------------------
(* Instances of PiTvSystem for TLC. *)
EXTENDS PiTvSystem, TLC

CONSTANTS v1, v2, alice, bob, e1, e2

OneViewer == {v1}
TwoViewers == {v1, v2}

OneAccount == v1 :> alice
OneEndpoint == v1 :> e1

TwoAccounts == v1 :> alice @@ v2 :> bob
TwoEndpoints == v1 :> e1 @@ v2 :> e2

\* The viewer asks for leases of 10 s and renews every 5 s: a unit of Tick is
\* 5/3 s in system_prompt, 5 s in system_rough and early_disconnect.

===============================================================================
