---------------------------- MODULE MCRtpReport ----------------------------
(* A small instance of RtpReport. *)
EXTENDS RtpReport, TLC

\* Three users in two minutes, the first of the outbox in the middle of the order.
\* Two batches of two lock the same two buckets; the third row takes the first back.
ReportBuckets == {<<1, 2>>, <<1, 1>>, <<2, 3>>}
ReportBucketOf == [i \in Row |-> <<<<1, 2>>, <<1, 1>>, <<1, 2>>, <<1, 1>>, <<2, 3>>>>[i]]
ReportDeltas == [i \in Row |-> <<2, 1, -2, 3, 1>>[i]]
ReportRemovals == [i \in Row |-> IF i = 3 THEN {1} ELSE {}]
First == [b \in ReportBuckets |-> b[1]]
Second == [b \in ReportBuckets |-> b[2]]

=============================================================================
