---------------------------- MODULE MCRtpRollup ----------------------------
(* Small instances of RtpRollup. *)
EXTENDS RtpRollup, TLC

CONSTANTS m1, m2    \* buckets

\* Rows for two buckets in turn, so that two batches of two lock both buckets, in
\* whatever order each takes them; the third takes the first back.
Buckets == [i \in Row |-> IF i % 2 = 1 THEN m1 ELSE m2]
Deltas == [i \in Row |-> <<2, 1, -2, 3>>[i]]
Removals == [i \in Row |-> IF i = 3 THEN {1} ELSE {}]

=============================================================================
