---------------------------- MODULE AtomicRollup ----------------------------
(***************************************************************************)
(* What the reporting path promises (README.md:17, README.md:104): rows that *)
(* wallet transactions have committed are counted in batches, each batch at  *)
(* once, each row once, and never uncounted.                                 *)
(***************************************************************************)
EXTENDS Integers, FiniteSetsExt

CONSTANTS
  Row,        \* rows of the outbox
  BucketOf,   \* the bucket of each row
  DeltaOf     \* what each row adds to it

VARIABLES
  committed,  \* the rows that are there
  counted,    \* those the report has
  totals      \* the report: a number for each bucket that has a row

vars == <<committed, counted, totals>>

Init == committed = {} /\ counted = {} /\ totals = [b \in {} |-> 0]

Record(i) ==
  /\ committed' = committed \cup {i}
  /\ UNCHANGED <<counted, totals>>

Added(batch, b) == MapThenSumSet(LAMBDA i : DeltaOf[i], {i \in batch : BucketOf[i] = b})

Total(b) == IF b \in DOMAIN totals THEN totals[b] ELSE 0

Count(batch) ==
  LET touched == {BucketOf[i] : i \in batch} IN
  /\ counted' = counted \cup batch
  /\ totals' = [b \in DOMAIN totals \cup touched |->
                 IF b \in touched THEN Total(b) + Added(batch, b) ELSE totals[b]]
  /\ UNCHANGED committed

Next ==
  \/ \E i \in Row \ committed : Record(i)
  \/ \E batch \in SUBSET (committed \ counted) : Count(batch)

Spec == Init /\ [][Next]_vars

=============================================================================
