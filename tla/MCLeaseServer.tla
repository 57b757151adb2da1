----------------------------- MODULE MCLeaseServer -----------------------------
(* Instances of LeaseServer for TLC. *)
EXTENDS LeaseServer

\* One unit of Tick is half a second of the server: the timer has two units,
\* 60 s are scaled down to three, and a request may ask for more than that.
AskedTimes == {-1, 0, 1, 4}

===============================================================================
