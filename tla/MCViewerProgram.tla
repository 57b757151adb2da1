--------------------------- MODULE MCViewerProgram ---------------------------
(* Instances of ViewerProgram for TLC: two servers that send to ports of     *)
(* their own, and one with an IPv6 address, which has more than one colon.   *)
EXTENDS ViewerProgram, TLC

CONSTANTS front, back, garden

Servers == {front, back, garden}
Endpoints == (front :> <<"host", "5000">>) @@ (back :> <<"host", "5001">>)
               @@ (garden :> <<"fe80", "", "1", "5000">>)

===============================================================================
