------------------------ MODULE MCRecordingRetention ---------------------------
(* Instances of RecordingRetention for TLC. *)
EXTENDS RecordingRetention

\* Megabytes are scaled down: a fragment has two of them; -1 stands for every
\* negative limit, and 0 is the limit that every directory reaches.
AnyLimit == {-1, 0, 2, 4}

OneStepBack == {2}

===============================================================================
