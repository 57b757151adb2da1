--------------------------- MODULE MCConfiguration ----------------------------
(* Instances of Configuration for TLC. *)
EXTENDS Configuration

PathOptions == {"recording-path", "user-db"}
LogOption == {"log-dir"}

===============================================================================
