------------------------------ MODULE RtpProofs ------------------------------
(***************************************************************************)
(* The reporting path counts batches one after another, each at once and    *)
(* each row once, for any rows, buckets, drains, batches and failures.       *)
(* What carries it: drains claim different rows, all of them pending still,  *)
(* and a bucket that a drain has written holds what it found plus its own.   *)
(* So a bucket is the sum of its processed rows, and the reports, which read *)
(* the buckets while drains go on, add up and miss nobody.                   *)
(***************************************************************************)
EXTENDS RtpReport, Sums

Open == {"upsert", "mark", "commit"}
Touched(p) == {BucketOf[i] : i \in claimed[p]}

Types ==
  /\ status \in [Row -> {"absent", "pending", "processing", "processed"}]
  /\ pc \in [Drainer -> {"off", "recover", "drain", "upsert", "mark", "commit", "done", "exited"}]
  /\ claimed \in [Drainer -> SUBSET Row]
  /\ mark \in [Drainer -> {"pending", "processing", "processed"}]
  /\ todo \in [Drainer -> SUBSET Bucket]
  /\ next \in [Drainer -> Bucket \cup {NoBucket}]
  /\ DOMAIN wrote = Drainer /\ \A p \in Drainer : DOMAIN wrote[p] = Bucket
  /\ asked \in [Drainer -> SUBSET Row]

\* The rows of an open drain are pending still, for all others.
ClaimsPending == \A p \in Drainer : \A i \in claimed[p] : status[i] = "pending"

\* Where a drain is says what it has left to write.
PlacedAt(p) ==
  /\ pc[p] \notin Open => claimed[p] = {}
  /\ todo[p] \subseteq Touched(p)
  /\ pc[p] \in {"mark", "commit"} => todo[p] = {}
  /\ pc[p] = "commit" => mark[p] = "processed"
  /\ pc[p] = "upsert" => next[p] \in todo[p]

Placed == \A p \in Drainer : PlacedAt(p)

\* A bucket is locked by one drain at a time.
BucketsApart == \A p, q \in Drainer : p # q => Held(p) \cap Held(q) = {}

\* What a drain has written to a bucket is still the committed value plus its own.
WroteMerged == \A p \in Drainer : \A b \in Held(p) : wrote[p][b] = Merged(p, b)

\* Rows stay; a removal was committed after what it takes back.
RowsStay ==
  /\ \A p \in Drainer : \A i \in asked[p] : status[i] # "absent"
  /\ \A i \in Row : status[i] # "absent" => Undoes[i] \subseteq Committed

IInv ==
  /\ Types /\ NothingLeftProcessing /\ ClaimsDisjoint /\ ClaimsPending /\ Placed
  /\ BucketsApart /\ WroteMerged /\ RowsStay

-----------------------------------------------------------------------------
\* A batch adds to a bucket in AtomicRollup what the upsert aggregates for it.
LEMMA AddedIsAggregated ==
  ASSUME NEW p \in Drainer, NEW b PROVE Rollup!Added(claimed[p], b) = Aggregated(p, b)
  BY DEF Rollup!Added, Aggregated, Rollup!MapThenSumSet, MapThenSumSet, Rollup!MapThenFoldSet,
         MapThenFoldSet

\* The same rows add the same to a bucket, in this state and the next.
LEMMA SameRowsAddTheSame ==
  ASSUME NEW p \in Drainer, NEW b, claimed'[p] = claimed[p]
  PROVE  Aggregated(p, b)' = Aggregated(p, b)
  BY DEF Aggregated, MapThenSumSet, MapThenFoldSet

\* A drain locks buckets of its own rows only.
LEMMA HeldTouched == ASSUME NEW p \in Drainer PROVE Held(p) \subseteq Touched(p)
  BY DEF Held, Touched

\* The invariant holds in the initial state.
LEMMA InitIInv == ASSUME Init PROVE IInv
  <1> USE RowAssumption, UndoesAssumption, DrainerAssumption
  <1>1. Types
    BY DEF Init, Types
  <1>2. Placed
    BY DEF Init, Placed, PlacedAt, Open
  <1>3. \A p \in Drainer : Held(p) = {}
    BY DEF Init, Held
  <1>4. NothingLeftProcessing /\ ClaimsDisjoint /\ ClaimsPending /\ RowsStay
    BY DEF Init, NothingLeftProcessing, ClaimsDisjoint, ClaimsPending, RowsStay
  <1> QED BY <1>1, <1>2, <1>3, <1>4 DEF IInv, BucketsApart, WroteMerged

\* What a drain would write to a bucket changes only with the bucket.
LEMMA SameMerged ==
  ASSUME NEW q \in Drainer, NEW b, claimed'[q] = claimed[q], Total(b)' = Total(b)
  PROVE  Merged(q, b)' = Merged(q, b)
  BY SameRowsAddTheSame DEF Merged

\* The upsert is at a bucket it has still to write.
LEMMA NextIsBucket ==
  ASSUME IInv, NEW p \in Drainer, pc[p] = "upsert"
  PROVE  next[p] \in todo[p] /\ next[p] \in Bucket /\ next[p] \in Touched(p)
  BY DEF IInv, Types, Placed, PlacedAt

-----------------------------------------------------------------------------
(* Steps that open, write and end no drain. *)

\* A step that changes no drain inside its transaction keeps the invariant.
LEMMA QuietStep ==
  ASSUME IInv, UNCHANGED <<rollup, claimed, mark, todo, next, wrote>>,
         \A p \in Drainer : pc'[p] = pc[p] \/ {pc[p], pc'[p]} \cap Open = {},
         Types', NothingLeftProcessing',
         \A i \in Row : status[i] = "pending" => status'[i] = "pending",
         RowsStay'
  PROVE  IInv'
  <1>1. ClaimsDisjoint' /\ ClaimsPending'
    BY DEF IInv, ClaimsDisjoint, ClaimsPending, Types
  <1>2. Placed'
    BY DEF IInv, Placed, PlacedAt, Touched, Open
  <1>3. \A p \in Drainer : Held(p)' = Held(p)
    BY DEF Held, Open
  <1>4. BucketsApart'
    BY <1>3 DEF IInv, BucketsApart
  <1>5. \A p \in Drainer, b \in Bucket : Merged(p, b)' = Merged(p, b)
    BY SameMerged DEF Total
  <1>6. \A p \in Drainer : Held(p) \subseteq Bucket
    BY RowAssumption DEF Held, IInv, Types
  <1>7. WroteMerged'
    BY <1>3, <1>5, <1>6 DEF IInv, WroteMerged
  <1> QED BY <1>1, <1>2, <1>4, <1>7 DEF IInv

\* A row that is committed joins the pending ones.
LEMMA EnqueueKeeps == ASSUME IInv, NEW i \in Row, Enqueue(i) PROVE IInv'
  <1>1. Types' /\ NothingLeftProcessing'
    BY DEF IInv, Types, NothingLeftProcessing, Enqueue
  <1>2. RowsStay'
    BY UndoesAssumption DEF IInv, Types, RowsStay, Enqueue, Committed
  <1> QED BY <1>1, <1>2, QuietStep DEF IInv, Types, Enqueue

\* A script that begins has only rows that are there to ask for.
LEMMA StartScriptKeeps == ASSUME IInv, NEW p \in Drainer, StartScript(p) PROVE IInv'
  <1>1. Types' /\ NothingLeftProcessing'
    BY DEF IInv, Types, NothingLeftProcessing, StartScript, Goto, Committed
  <1>2. RowsStay'
    BY DEF IInv, Types, RowsStay, StartScript, Committed
  <1> QED BY <1>1, <1>2, QuietStep DEF IInv, Types, StartScript, Goto, Open

\* recoverStaleRtpOutbox finds nothing to change.
LEMMA RecoversNothing ==
  ASSUME IInv, NEW p \in Drainer, RecoverStale(p) PROVE status' = status
  BY DEF IInv, Types, NothingLeftProcessing, RecoverStale

\* So it keeps the invariant.
LEMMA RecoverStaleKeeps == ASSUME IInv, NEW p \in Drainer, RecoverStale(p) PROVE IInv'
  <1>1. status' = status
    BY RecoversNothing
  <1>2. Types' /\ NothingLeftProcessing'
    BY <1>1 DEF IInv, Types, NothingLeftProcessing, RecoverStale, Goto
  <1>3. RowsStay'
    BY <1>1 DEF IInv, Types, RowsStay, RecoverStale, Committed
  <1> QED BY <1>1, <1>2, <1>3, QuietStep DEF IInv, Types, RecoverStale, Goto, Open

\* An empty batch keeps the invariant.
LEMMA NothingPendingKeeps == ASSUME IInv, NEW p \in Drainer, NothingPending(p) PROVE IInv'
  <1>1. Types' /\ NothingLeftProcessing'
    BY DEF IInv, Types, NothingLeftProcessing, NothingPending, Goto, AfterNothing
  <1>2. RowsStay'
    BY DEF IInv, Types, RowsStay, NothingPending, Committed
  <1> QED BY <1>1, <1>2, QuietStep DEF IInv, Types, NothingPending, Goto, Open, AfterNothing

-----------------------------------------------------------------------------
(* The statements of a drain. *)

\* What another drain holds and has written is left alone by a step of p that changes
\* nothing of it, nor the bucket.
LEMMA OthersKeep ==
  ASSUME IInv, NEW p \in Drainer, NEW q \in Drainer, q # p,
         pc'[q] = pc[q], claimed'[q] = claimed[q], todo'[q] = todo[q], wrote'[q] = wrote[q],
         \A b \in Held(q) : Total(b)' = Total(b)
  PROVE  Held(q)' = Held(q) /\ \A b \in Held(q) : wrote'[q][b] = Merged(q, b)'
  <1>1. Held(q)' = Held(q)
    BY DEF Held
  <1>2. \A b \in Held(q) : Merged(q, b)' = Merged(q, b)
    BY SameMerged
  <1> QED BY <1>1, <1>2 DEF IInv, WroteMerged

\* A claim takes rows nobody else has.
LEMMA ClaimKeeps == ASSUME IInv, NEW p \in Drainer, Claim(p) PROVE IInv'
  <1> DEFINE batch == Batch(Pending(p))
  <1>1. batch \subseteq Row /\ \A i \in batch : status[i] = "pending"
             /\ \A q \in Drainer \ {p} : i \notin claimed[q]
    BY DEF Batch, Pending, Unlocked
  <1>2. /\ claimed' = [claimed EXCEPT ![p] = batch] /\ pc' = [pc EXCEPT ![p] = "upsert"]
        /\ mark' = [mark EXCEPT ![p] = "processing"]
        /\ todo' = [todo EXCEPT ![p] = {BucketOf[i] : i \in batch}]
        /\ UNCHANGED <<status, rollup, wrote, asked>> /\ pc[p] = "drain"
    BY DEF Claim, Goto
  <1>3. \E b \in {BucketOf[i] : i \in batch} : next' = [next EXCEPT ![p] = b]
    <2>1. todo'[p] = {BucketOf[i] : i \in batch}
      BY <1>2 DEF IInv, Types
    <2>2. PICK b \in todo'[p] : next' = [next EXCEPT ![p] = b]
      BY DEF Claim
    <2> HIDE DEF batch
    <2> QED BY <2>1, <2>2
  <1> HIDE DEF batch
  <1>4. {BucketOf[i] : i \in batch} \subseteq Bucket
    BY <1>1, RowAssumption
  <1>5. Types'
    BY <1>1, <1>2, <1>3, <1>4 DEF IInv, Types
  <1>6. NothingLeftProcessing' /\ ClaimsDisjoint' /\ ClaimsPending'
    BY <1>1, <1>2 DEF IInv, Types, NothingLeftProcessing, ClaimsDisjoint, ClaimsPending
  <1>7. Placed'
    <2> SUFFICES ASSUME NEW q \in Drainer PROVE PlacedAt(q)'
      BY DEF Placed
    <2>1. CASE q = p
      BY <1>2, <1>3, <2>1 DEF IInv, Types, PlacedAt, Touched, Open
    <2>2. CASE q # p
      BY <1>2, <1>3, <2>2 DEF IInv, Types, Placed, PlacedAt, Touched, Open
    <2> QED BY <2>1, <2>2
  <1>8. Held(p)' = {}
    BY <1>2 DEF Held, IInv, Types
  <1>9. \A q \in Drainer \ {p} : Held(q)' = Held(q) /\ \A b \in Held(q) : wrote'[q][b] = Merged(q, b)'
    BY <1>2, OthersKeep DEF IInv, Types, Total
  <1>10. BucketsApart' /\ WroteMerged'
    BY <1>8, <1>9 DEF IInv, BucketsApart, WroteMerged
  <1>11. RowsStay'
    BY <1>2 DEF IInv, RowsStay, Committed
  <1> QED BY <1>5, <1>6, <1>7, <1>10, <1>11 DEF IInv

\* The upsert of one bucket writes the committed value and its own, under the lock.
LEMMA UpsertKeeps == ASSUME IInv, NEW p \in Drainer, Upsert(p) PROVE IInv'
  <1> DEFINE b == next[p]
  <1>1. /\ pc[p] = "upsert" /\ b \in todo[p] /\ b \in Bucket /\ b \in Touched(p)
        /\ \A q \in Drainer \ {p} : b \notin Held(q)
    BY NextIsBucket DEF Upsert
  <1>2. /\ wrote' = [wrote EXCEPT ![p][b] = Merged(p, b)]
        /\ todo' = [todo EXCEPT ![p] = todo[p] \ {b}]
        /\ UNCHANGED <<status, rollup, claimed, mark, asked>>
    BY DEF Upsert
  <1>3. \/ todo'[p] = {} /\ pc' = [pc EXCEPT ![p] = "mark"] /\ next' = [next EXCEPT ![p] = NoBucket]
        \/ pc' = pc /\ \E c \in todo'[p] : next' = [next EXCEPT ![p] = c]
    <2>1. todo'[p] = todo[p] \ {b}
      BY <1>2 DEF IInv, Types
    <2>2. CASE todo[p] \ {b} = {}
      BY <2>1, <2>2 DEF Upsert, Goto
    <2>3. CASE todo[p] \ {b} # {}
      BY <2>1, <2>3 DEF Upsert, Goto
    <2> QED BY <2>2, <2>3
  <1> HIDE DEF b
  <1>4. Types'
    BY <1>1, <1>2, <1>3 DEF IInv, Types
  <1>5. NothingLeftProcessing' /\ ClaimsDisjoint' /\ ClaimsPending' /\ RowsStay'
    BY <1>2 DEF IInv, NothingLeftProcessing, ClaimsDisjoint, ClaimsPending, RowsStay, Committed
  <1>6. Placed'
    <2> SUFFICES ASSUME NEW q \in Drainer PROVE PlacedAt(q)'
      BY DEF Placed
    <2>1. CASE q = p
      BY <1>1, <1>2, <1>3, <2>1 DEF IInv, Types, Placed, PlacedAt, Touched, Open
    <2>2. CASE q # p
      BY <1>2, <1>3, <2>2 DEF IInv, Types, Placed, PlacedAt, Touched, Open
    <2> QED BY <2>1, <2>2
  <1>7. Held(p)' = Held(p) \cup {b}
    <2>1. pc'[p] \in Open /\ pc[p] \in Open /\ claimed'[p] = claimed[p] /\ todo'[p] = todo[p] \ {b}
      BY <1>1, <1>2, <1>3 DEF IInv, Types, Open
    <2> QED BY <1>1, <2>1 DEF Held, Open, Touched
  <1>8. \A q \in Drainer \ {p} : Held(q)' = Held(q) /\ \A c \in Held(q) : wrote'[q][c] = Merged(q, c)'
    BY <1>2, <1>3, OthersKeep DEF IInv, Types, Total
  <1>9. \A c \in Bucket : Merged(p, c)' = Merged(p, c)
    BY <1>2, SameMerged DEF Total
  <1>10. \A c \in Held(p)' : wrote'[p][c] = Merged(p, c)'
    <2> TAKE c \in Held(p)'
    <2>1. c \in Bucket
      BY <1>1, <1>7, RowAssumption DEF Held, IInv, Types
    <2>2. wrote'[p][c] = IF c = b THEN Merged(p, b) ELSE wrote[p][c]
      BY <1>2, <2>1 DEF IInv, Types
    <2>3. c # b => wrote[p][c] = Merged(p, c)
      BY <1>7 DEF IInv, WroteMerged
    <2> QED BY <1>9, <2>1, <2>2, <2>3
  <1>11. BucketsApart'
    BY <1>1, <1>7, <1>8 DEF IInv, BucketsApart
  <1>12. WroteMerged'
    BY <1>8, <1>10 DEF WroteMerged
  <1> QED BY <1>4, <1>5, <1>6, <1>11, <1>12 DEF IInv

\* The last UPDATE keeps the invariant.
LEMMA MarkProcessedKeeps == ASSUME IInv, NEW p \in Drainer, MarkProcessed(p) PROVE IInv'
  <1>1. /\ pc[p] = "mark" /\ pc' = [pc EXCEPT ![p] = "commit"]
        /\ mark' = [mark EXCEPT ![p] = "processed"]
        /\ UNCHANGED <<status, rollup, claimed, todo, next, wrote, asked>>
    BY DEF MarkProcessed, Goto
  <1>2. Types'
    BY <1>1 DEF IInv, Types
  <1>3. NothingLeftProcessing' /\ ClaimsDisjoint' /\ ClaimsPending' /\ RowsStay'
    BY <1>1 DEF IInv, NothingLeftProcessing, ClaimsDisjoint, ClaimsPending, RowsStay, Committed
  <1>4. Placed'
    BY <1>1 DEF IInv, Types, Placed, PlacedAt, Touched, Open
  <1>5. \A q \in Drainer : Held(q)' = Held(q)
    BY <1>1 DEF Held, IInv, Types
  <1>6. \A q \in Drainer, b \in Bucket : Merged(q, b)' = Merged(q, b)
    BY <1>1, SameMerged DEF Total
  <1>7. \A q \in Drainer : Held(q) \subseteq Bucket
    BY RowAssumption DEF Held, IInv, Types
  <1>8. BucketsApart' /\ WroteMerged'
    BY <1>1, <1>5, <1>6, <1>7 DEF IInv, BucketsApart, WroteMerged
  <1> QED BY <1>2, <1>3, <1>4, <1>8 DEF IInv

-----------------------------------------------------------------------------
(* The end of a drain. *)

\* The end of a drain's transaction leaves the others what they hold.
LEMMA EndDrainKeeps ==
  ASSUME IInv, NEW p \in Drainer, NEW label \in {"recover", "drain", "exited"}, EndDrain(p, label),
         UNCHANGED asked, status' \in [Row -> {"absent", "pending", "processed"}],
         \A i \in Row : i \notin claimed[p] => status'[i] = status[i],
         \A i \in Row : status'[i] = "absent" <=> status[i] = "absent",
         \A q \in Drainer \ {p} : \A b \in Held(q) : Total(b)' = Total(b)
  PROVE  IInv'
  <1>1. /\ pc' = [pc EXCEPT ![p] = label] /\ claimed' = [claimed EXCEPT ![p] = {}]
        /\ mark' = [mark EXCEPT ![p] = "pending"] /\ todo' = [todo EXCEPT ![p] = {}]
        /\ next' = [next EXCEPT ![p] = NoBucket]
        /\ wrote' = [wrote EXCEPT ![p] = [b \in Bucket |-> 0]]
    BY DEF EndDrain, Goto
  <1>2. Types'
    BY <1>1 DEF IInv, Types
  <1>3. NothingLeftProcessing'
    BY DEF NothingLeftProcessing
  <1>4. ClaimsDisjoint' /\ ClaimsPending'
    BY <1>1 DEF IInv, Types, ClaimsDisjoint, ClaimsPending
  <1>5. Placed'
    <2> SUFFICES ASSUME NEW q \in Drainer PROVE PlacedAt(q)'
      BY DEF Placed
    <2>1. CASE q = p
      BY <1>1, <2>1 DEF IInv, Types, PlacedAt, Open
    <2>2. CASE q # p
      BY <1>1, <2>2 DEF IInv, Types, Placed, PlacedAt, Touched, Open
    <2> QED BY <2>1, <2>2
  <1>6. Held(p)' = {}
    BY <1>1 DEF Held, IInv, Types
  <1>7. \A q \in Drainer \ {p} : Held(q)' = Held(q) /\ \A b \in Held(q) : wrote'[q][b] = Merged(q, b)'
    BY <1>1, OthersKeep DEF IInv, Types
  <1>8. BucketsApart' /\ WroteMerged'
    BY <1>6, <1>7 DEF IInv, BucketsApart, WroteMerged
  <1>9. RowsStay'
    BY UndoesAssumption DEF IInv, Types, RowsStay, Committed
  <1> QED BY <1>2, <1>3, <1>4, <1>5, <1>8, <1>9 DEF IInv

\* A rolled back drain leaves no trace.
LEMMA StopKeeps == ASSUME IInv, NEW p \in Drainer, Stop(p) PROVE IInv'
  <1>1. status' \in [Row -> {"absent", "pending", "processed"}]
    BY DEF Stop, IInv, Types, NothingLeftProcessing
  <1> QED BY <1>1, EndDrainKeeps DEF Stop, Total

\* At the commit a drain holds just the buckets of its rows.
LEMMA CommitHolds == ASSUME IInv, NEW p \in Drainer, pc[p] = "commit" PROVE Held(p) = Touched(p)
  BY DEF IInv, Placed, PlacedAt, Held, Touched

\* The commit turns the drain's pending rows to processed ones.
LEMMA CommitStatus ==
  ASSUME IInv, NEW p \in Drainer, Commit(p)
  PROVE  /\ status' = [i \in Row |-> IF i \in claimed[p] THEN "processed" ELSE status[i]]
         /\ \A i \in claimed[p] : i \in Row /\ status[i] = "pending"
  BY DEF Commit, IInv, Types, Placed, PlacedAt, ClaimsPending

\* The commit keeps the invariant.
LEMMA CommitKeeps == ASSUME IInv, NEW p \in Drainer, Commit(p) PROVE IInv'
  <1>1. status' \in [Row -> {"absent", "pending", "processed"}]
    BY CommitStatus DEF IInv, Types, NothingLeftProcessing
  <1>2. /\ \A i \in Row : i \notin claimed[p] => status'[i] = status[i]
        /\ \A i \in Row : status'[i] = "absent" <=> status[i] = "absent"
    BY CommitStatus
  <1>3. \A q \in Drainer \ {p} : \A b \in Held(q) : Total(b)' = Total(b)
    BY DEF Commit, Total, IInv, BucketsApart
  <1>4. EndDrain(p, AfterDrain(p)) /\ AfterDrain(p) \in {"recover", "drain"} /\ UNCHANGED asked
    BY DEF Commit, AfterDrain
  <1> QED BY <1>1, <1>2, <1>3, <1>4, EndDrainKeeps

-----------------------------------------------------------------------------
\* Every step keeps the invariant.
LEMMA NextKeeps == ASSUME IInv, [Next]_vars PROVE IInv'
  <1>1. ASSUME NEW i \in Row, Enqueue(i) PROVE IInv'
    BY <1>1, EnqueueKeeps
  <1>2. ASSUME NEW p \in Drainer, StartScript(p) PROVE IInv'
    BY <1>2, StartScriptKeeps
  <1>3. ASSUME NEW p \in Drainer, Step(p) PROVE IInv'
    BY <1>3, RecoverStaleKeeps, ClaimKeeps, NothingPendingKeeps, UpsertKeeps, MarkProcessedKeeps,
       CommitKeeps DEF Step
  <1>4. ASSUME NEW p \in Drainer, Error(p) \/ DeadlockVictim(p) PROVE IInv'
    BY <1>4, StopKeeps DEF Error, DeadlockVictim
  <1>5. CASE UNCHANGED vars
    <2>1. Types' /\ NothingLeftProcessing' /\ RowsStay'
      BY <1>5 DEF vars, IInv, Types, NothingLeftProcessing, RowsStay, Committed
    <2> QED BY <1>5, <2>1, QuietStep DEF vars, IInv, Types
  <1> QED BY <1>1, <1>2, <1>3, <1>4, <1>5 DEF Next

\* The invariant holds of every reachable state.
LEMMA IInvHolds == Spec => []IInv
  BY InitIInv, NextKeeps, PTL DEF Spec

\* recoverStaleRtpOutbox never has a row to bring back (rtp-outbox.ts:41), whatever fails.
THEOREM NothingIsStale == Spec => []NothingLeftProcessing
  <1>1. IInv => NothingLeftProcessing
    BY DEF IInv
  <1> QED BY <1>1, IInvHolds, PTL

\* No row is in two open drains (rtp-outbox.ts:64).
THEOREM DrainsClaimApart == Spec => []ClaimsDisjoint
  <1>1. IInv => ClaimsDisjoint
    BY DEF IInv
  <1> QED BY <1>1, IInvHolds, PTL

-----------------------------------------------------------------------------
(* The refinement. *)

Counted == {i \in Row : status[i] = "processed"}

\* A step that changes neither rows nor totals is none of AtomicRollup.
LEMMA AbstractStutter ==
  ASSUME UNCHANGED <<status, rollup>> PROVE UNCHANGED Rollup!vars
  BY DEF Rollup!vars, Committed

\* A wallet transaction's commit is a Record.
LEMMA EnqueueRecords ==
  ASSUME IInv, NEW i \in Row, Enqueue(i) PROVE Rollup!Next
  <1>1. /\ status[i] = "absent" /\ status' = [status EXCEPT ![i] = "pending"]
        /\ rollup' = rollup
    BY DEF Enqueue
  <1>2. i \in Row \ Committed /\ Committed' = Committed \cup {i}
    BY <1>1 DEF Committed, IInv, Types
  <1>3. Counted' = Counted
    BY <1>1 DEF Counted, IInv, Types
  <1>4. Rollup!Record(i)
    BY <1>1, <1>2, <1>3 DEF Rollup!Record, Counted
  <1> QED BY <1>2, <1>4 DEF Rollup!Next

\* A drain's commit is a Count of its batch.
LEMMA CommitCounts ==
  ASSUME IInv, NEW p \in Drainer, Commit(p) PROVE Rollup!Next
  <1> PICK batch : batch = claimed[p]
    OBVIOUS
  <1>1. /\ status' = [i \in Row |-> IF i \in batch THEN "processed" ELSE status[i]]
        /\ \A i \in batch : i \in Row /\ status[i] = "pending"
    BY CommitStatus
  <1>2. batch \in SUBSET (Committed \ Counted)
    BY <1>1 DEF Committed, Counted
  <1>3. Committed' = Committed /\ Counted' = Counted \cup batch
    BY <1>1 DEF Committed, Counted
  <1>4. Held(p) = {BucketOf[i] : i \in batch}
    BY CommitHolds DEF Commit, Touched
  <1>5. rollup' = [b \in DOMAIN rollup \cup Held(p) |->
                    IF b \in Held(p) THEN wrote[p][b] ELSE rollup[b]]
    BY DEF Commit
  <1>6. \A b \in Held(p) : wrote[p][b] = Rollup!Total(b) + Rollup!Added(batch, b)
    <2> TAKE b \in Held(p)
    <2>1. wrote[p][b] = Total(b) + Aggregated(p, b)
      BY DEF IInv, WroteMerged, Merged
    <2>2. Rollup!Total(b) = Total(b)
      BY DEF Rollup!Total, Total
    <2> QED BY <2>1, <2>2, AddedIsAggregated
  <1>7. rollup' = [b \in DOMAIN rollup \cup Held(p) |->
                    IF b \in Held(p) THEN Rollup!Total(b) + Rollup!Added(batch, b) ELSE rollup[b]]
    BY <1>5, <1>6
  <1>8. Rollup!Count(batch)
    BY <1>3, <1>4, <1>7 DEF Rollup!Count, Counted
  <1> QED BY <1>2, <1>8 DEF Rollup!Next, Counted

\* Every step is one of AtomicRollup or none.
LEMMA StepImplements == ASSUME IInv, [Next]_vars PROVE [Rollup!Next]_(Rollup!vars)
  <1>1. ASSUME NEW i \in Row, Enqueue(i) PROVE Rollup!Next
    BY <1>1, EnqueueRecords
  <1>2. ASSUME NEW p \in Drainer, Commit(p) PROVE Rollup!Next
    BY <1>2, CommitCounts
  <1>3. ASSUME NEW p \in Drainer, RecoverStale(p) PROVE UNCHANGED Rollup!vars
    BY <1>3, RecoversNothing, AbstractStutter DEF RecoverStale
  <1>4. ASSUME NEW p \in Drainer,
               StartScript(p) \/ Claim(p) \/ NothingPending(p) \/ Upsert(p) \/ MarkProcessed(p)
        PROVE  UNCHANGED Rollup!vars
    BY <1>4, AbstractStutter DEF StartScript, Claim, NothingPending, Upsert, MarkProcessed
  <1>5. ASSUME NEW p \in Drainer, Error(p) \/ DeadlockVictim(p) PROVE UNCHANGED Rollup!vars
    BY <1>5, AbstractStutter DEF Error, DeadlockVictim, Stop
  <1>6. CASE UNCHANGED vars
    BY <1>6, AbstractStutter DEF vars
  <1> QED BY <1>1, <1>2, <1>3, <1>4, <1>5, <1>6 DEF Next, Step

\* The detailed drains implement the abstract ones: batches are counted one after
\* another, each at once and no row twice (README.md:17, README.md:104).
THEOREM ImplementsAtomicRollup == Spec => CountsAtomically
  <1>1. Init => Rollup!Init
    BY DEF Init, Rollup!Init, Committed
  <1>2. IInv /\ [Next]_vars => [Rollup!Next]_(Rollup!vars)
    BY StepImplements
  <1> QED BY <1>1, <1>2, IInvHolds, PTL DEF Spec, CountsAtomically, Rollup!Spec

-----------------------------------------------------------------------------
(* The totals. *)

\* The rows of a bucket that are marked processed, and their number's sum.
Processed(b) == {i \in Row : BucketOf[i] = b /\ status[i] = "processed"}

TotalsSummed == \A b \in Bucket : Total(b) = SumOf(DeltaOf, Processed(b))

\* The sums are of finitely many rows, since each was committed in a step of its own.
TotalsInv == IsFiniteSet(Committed) /\ TotalsSummed

\* What a drain adds to a bucket, as a sum.
LEMMA AggregatedIsSum ==
  ASSUME NEW p, NEW b
  PROVE  Aggregated(p, b) = SumOf(DeltaOf, {i \in claimed[p] : BucketOf[i] = b})
  BY DEF Aggregated, SumOf

\* A step that commits no batch counts nothing.
LEMMA QuietTotals ==
  ASSUME TotalsInv, UNCHANGED rollup, IsFiniteSet(Committed'),
         \A i \in Row : status'[i] = "processed" <=> status[i] = "processed"
  PROVE  TotalsInv'
  <1>1. ASSUME NEW b \in Bucket PROVE Total(b)' = SumOf(DeltaOf, Processed(b)')
    <2>1. Processed(b)' = Processed(b) /\ Total(b)' = Total(b)
      BY DEF Processed, Total
    <2>2. Total(b) = SumOf(DeltaOf, Processed(b))
      BY DEF TotalsInv, TotalsSummed
    <2> QED BY <2>1, <2>2
  <1>2. TotalsSummed'
    BY <1>1 DEF TotalsSummed
  <1> QED BY <1>2 DEF TotalsInv

\* A commit adds to each bucket the rows it counts.
LEMMA CommitTotals ==
  ASSUME IInv, TotalsInv, NEW p \in Drainer, Commit(p)
  PROVE  TotalsInv'
  <1>1. /\ \A i \in Row : status'[i] = IF i \in claimed[p] THEN "processed" ELSE status[i]
        /\ \A i \in claimed[p] : i \in Row /\ status[i] = "pending"
    BY CommitStatus
  <1>2. Committed' = Committed
    BY <1>1 DEF Committed
  <1>3. ASSUME NEW b \in Bucket PROVE Total(b)' = SumOf(DeltaOf, Processed(b)')
    <2>1. PICK fresh : fresh = {i \in claimed[p] : BucketOf[i] = b}
      OBVIOUS
    <2>2. Processed(b)' = Processed(b) \cup fresh /\ Processed(b) \cap fresh = {}
      BY <1>1, <2>1 DEF Processed
    <2>3. Processed(b) \subseteq Committed /\ fresh \subseteq Committed
      BY <1>1, <2>1 DEF Processed, Committed
    <2>4. IsFiniteSet(Processed(b)) /\ IsFiniteSet(fresh)
      BY <2>3, FS_Subset DEF TotalsInv
    <2>5. \A i \in Processed(b) \cup fresh : DeltaOf[i] \in Int
      BY <2>3, RowAssumption DEF Committed
    <2>6. SumOf(DeltaOf, Processed(b)') = SumOf(DeltaOf, Processed(b)) + SumOf(DeltaOf, fresh)
      BY <2>2, <2>4, <2>5, SumUnion
    <2>7. Total(b) = SumOf(DeltaOf, Processed(b))
      BY DEF TotalsInv, TotalsSummed
    <2>8. CASE b \in Held(p)
      <3>1. Total(b)' = wrote[p][b]
        BY <2>8 DEF Commit, Total
      <3>2. wrote[p][b] = Total(b) + Aggregated(p, b)
        BY <2>8 DEF IInv, WroteMerged, Merged
      <3>3. Aggregated(p, b) = SumOf(DeltaOf, fresh)
        BY <2>1, AggregatedIsSum
      <3> QED BY <2>6, <2>7, <3>1, <3>2, <3>3
    <2>9. CASE b \notin Held(p)
      <3>1. Total(b)' = Total(b)
        BY <2>9 DEF Commit, Total
      <3>2. fresh = {}
        BY <2>1, <2>9, CommitHolds DEF Commit, Touched
      <3>3. Processed(b)' = Processed(b)
        BY <2>2, <3>2
      <3> QED BY <2>7, <3>1, <3>3
    <2> QED BY <2>8, <2>9
  <1>4. TotalsSummed'
    BY <1>3 DEF TotalsSummed
  <1> QED BY <1>2, <1>4 DEF TotalsInv

\* Every step keeps the totals.
LEMMA NextTotals == ASSUME IInv, TotalsInv, [Next]_vars PROVE TotalsInv'
  <1>1. ASSUME NEW i \in Row, Enqueue(i) PROVE TotalsInv'
    <2>1. status' = [status EXCEPT ![i] = "pending"] /\ status[i] = "absent" /\ UNCHANGED rollup
      BY <1>1 DEF Enqueue
    <2>2. \A j \in Row : status'[j] = IF j = i THEN "pending" ELSE status[j]
      BY <2>1 DEF IInv, Types
    <2>3. Committed' = Committed \cup {i}
      BY <2>1, <2>2 DEF Committed
    <2>4. IsFiniteSet(Committed')
      BY <2>3, FS_AddElement DEF TotalsInv
    <2> QED BY <2>1, <2>2, <2>4, QuietTotals
  <1>2. ASSUME NEW p \in Drainer, Commit(p) PROVE TotalsInv'
    BY <1>2, CommitTotals
  <1>3. ASSUME UNCHANGED <<status, rollup>> PROVE TotalsInv'
    <2>1. IsFiniteSet(Committed')
      BY <1>3 DEF TotalsInv, Committed
    <2> QED BY <1>3, <2>1, QuietTotals
  <1>4. ASSUME NEW p \in Drainer, RecoverStale(p) PROVE TotalsInv'
    BY <1>3, <1>4, RecoversNothing DEF RecoverStale
  <1>5. ASSUME NEW p \in Drainer,
               StartScript(p) \/ Claim(p) \/ NothingPending(p) \/ Upsert(p) \/ MarkProcessed(p)
        PROVE  TotalsInv'
    BY <1>3, <1>5 DEF StartScript, Claim, NothingPending, Upsert, MarkProcessed
  <1>6. ASSUME NEW p \in Drainer, Error(p) \/ DeadlockVictim(p) PROVE TotalsInv'
    BY <1>3, <1>6 DEF Error, DeadlockVictim, Stop
  <1>7. CASE UNCHANGED vars
    BY <1>3, <1>7 DEF vars
  <1> QED BY <1>1, <1>2, <1>4, <1>5, <1>6, <1>7 DEF Next, Step

\* The empty report is the sum of no row.
LEMMA InitTotals == ASSUME Init PROVE TotalsInv
  <1>1. Committed = {}
    BY DEF Init, Committed
  <1>2. IsFiniteSet(Committed)
    BY <1>1, FS_EmptySet
  <1>3. \A b \in Bucket : Total(b) = 0 /\ Processed(b) = {}
    BY DEF Init, Total, Processed
  <1>4. TotalsSummed
    BY <1>3, SumEmpty DEF TotalsSummed
  <1> QED BY <1>2, <1>4 DEF TotalsInv

\* At every moment a bucket is the sum of its processed rows, each once, whatever
\* drains overlap, fail or deadlock (README.md:17).
THEOREM CountedExactlyOnce == Spec => []RolledUpOnce
  <1>1. Init => IInv /\ TotalsInv
    BY InitIInv, InitTotals
  <1>2. IInv /\ TotalsInv /\ [Next]_vars => (IInv /\ TotalsInv)'
    BY NextKeeps, NextTotals
  <1>3. IInv /\ TotalsInv => RolledUpOnce
    BY DEF TotalsInv, TotalsSummed, RolledUpOnce, SumOf, Processed
  <1> QED BY <1>1, <1>2, <1>3, PTL DEF Spec

-----------------------------------------------------------------------------
(* Typing. *)

\* A drain that finds a pending row claims one.
LEMMA BatchNotEmpty ==
  ASSUME NEW rows \in SUBSET Row, IsFiniteSet(rows), rows # {}
  PROVE  Batch(rows) # {}
  <1>1. rows \subseteq Int
    BY RowAssumption
  <1>2. PICK i \in rows : \A j \in rows : i <= j
    BY <1>1, LeastOfFinite
  <1>3. {j \in rows : j < i} = {}
    <2>1. ASSUME NEW j \in rows PROVE ~(j < i)
      <3>1. i <= j
        BY <1>2
      <3>2. i \in Int /\ j \in Int
        BY <1>1
      <3> QED BY <3>1, <3>2
    <2> QED BY <2>1
  <1>4. Cardinality({j \in rows : j < i}) = 0
    BY <1>3, FS_EmptySet
  <1>5. Cardinality({j \in rows : j < i}) < BatchSize
    BY <1>4, BatchAssumption
  <1> QED BY <1>2, <1>5 DEF Batch

\* What a drain adds to a bucket is an integer.
LEMMA AggregatedInt ==
  ASSUME IInv, TotalsInv, NEW p \in Drainer, NEW b
  PROVE  Aggregated(p, b) \in Int
  <1>1. PICK fresh : fresh = {i \in claimed[p] : BucketOf[i] = b}
    OBVIOUS
  <1>2. fresh \subseteq Committed
    BY <1>1 DEF IInv, Types, ClaimsPending, Committed
  <1>3. IsFiniteSet(fresh)
    BY <1>2, FS_Subset DEF TotalsInv
  <1>4. \A i \in fresh : DeltaOf[i] \in Int
    BY <1>2, RowAssumption DEF Committed
  <1>5. SumOf(DeltaOf, fresh) \in Int
    BY <1>3, <1>4, SumInt
  <1> QED BY <1>1, <1>5, AggregatedIsSum

\* What TypeOK adds to the types: the numbers are numbers, and where a drain is says
\* whether it has rows and buckets.
NumbersInv ==
  /\ DOMAIN rollup \subseteq Bucket /\ rollup \in [DOMAIN rollup -> Int]
  /\ errors \in 0..MaxErrors
  /\ wrote \in [Drainer -> [Bucket -> Int]]
  /\ \A p \in Drainer : /\ pc[p] = "upsert" <=> todo[p] # {}
                        /\ pc[p] \in Open <=> claimed[p] # {}

\* The end of a drain's transaction keeps NumbersInv.
LEMMA EndDrainNumbers ==
  ASSUME IInv, NumbersInv, NEW p \in Drainer, NEW label \in {"recover", "drain", "exited"},
         EndDrain(p, label), errors' \in 0..MaxErrors,
         DOMAIN rollup' \subseteq Bucket, rollup' \in [DOMAIN rollup' -> Int]
  PROVE  NumbersInv'
  <1>1. /\ pc' = [pc EXCEPT ![p] = label] /\ claimed' = [claimed EXCEPT ![p] = {}]
        /\ todo' = [todo EXCEPT ![p] = {}]
        /\ wrote' = [wrote EXCEPT ![p] = [b \in Bucket |-> 0]]
    BY DEF EndDrain, Goto
  <1>2. wrote' \in [Drainer -> [Bucket -> Int]]
    BY <1>1 DEF NumbersInv
  <1>3. \A q \in Drainer : /\ pc'[q] = "upsert" <=> todo'[q] # {}
                           /\ pc'[q] \in Open <=> claimed'[q] # {}
    BY <1>1 DEF NumbersInv, IInv, Types, Open
  <1> QED BY <1>2, <1>3 DEF NumbersInv

\* A claim keeps NumbersInv: it has a row, and so a bucket.
LEMMA ClaimNumbers ==
  ASSUME IInv, TotalsInv, NumbersInv, NEW p \in Drainer, Claim(p)
  PROVE  NumbersInv'
  <1>1. PICK batch : batch = Batch(Pending(p))
    OBVIOUS
  <1>2. Pending(p) \in SUBSET Row /\ Pending(p) \subseteq Committed
    BY DEF Pending, Unlocked, Committed
  <1>3. IsFiniteSet(Pending(p))
    BY <1>2, FS_Subset DEF TotalsInv
  <1>4. batch # {}
    BY <1>1, <1>2, <1>3, BatchNotEmpty DEF Claim
  <1>5. /\ claimed' = [claimed EXCEPT ![p] = batch]
        /\ todo' = [todo EXCEPT ![p] = {BucketOf[i] : i \in batch}]
        /\ pc' = [pc EXCEPT ![p] = "upsert"] /\ UNCHANGED <<rollup, errors, wrote>>
    BY <1>1 DEF Claim, Goto
  <1>6. {BucketOf[i] : i \in batch} # {}
    BY <1>4
  <1>7. \A q \in Drainer : /\ pc'[q] = "upsert" <=> todo'[q] # {}
                           /\ pc'[q] \in Open <=> claimed'[q] # {}
    BY <1>4, <1>5, <1>6 DEF NumbersInv, IInv, Types, Open
  <1> QED BY <1>5, <1>7 DEF NumbersInv

\* An upsert keeps NumbersInv: it writes a number.
LEMMA UpsertNumbers ==
  ASSUME IInv, TotalsInv, NumbersInv, NEW p \in Drainer, Upsert(p)
  PROVE  NumbersInv'
  <1>1. PICK b, n : b = next[p] /\ n = Merged(p, b)
    OBVIOUS
  <1>2. b \in Bucket
    BY <1>1, NextIsBucket DEF Upsert
  <1>3. n \in Int
    <2>1. Total(b) \in Int
      BY DEF Total, NumbersInv
    <2> QED BY <1>1, <2>1, AggregatedInt DEF Merged
  <1>4. /\ wrote' = [wrote EXCEPT ![p][b] = n] /\ todo' = [todo EXCEPT ![p] = todo[p] \ {b}]
        /\ pc[p] = "upsert" /\ UNCHANGED <<rollup, errors, claimed>>
    BY <1>1 DEF Upsert
  <1>5. wrote' \in [Drainer -> [Bucket -> Int]]
    BY <1>2, <1>3, <1>4 DEF NumbersInv
  <1>6. \/ todo[p] \ {b} = {} /\ pc' = [pc EXCEPT ![p] = "mark"]
        \/ todo[p] \ {b} # {} /\ pc' = pc
    BY <1>1 DEF Upsert, Goto
  <1>7. \A q \in Drainer : /\ pc'[q] = "upsert" <=> todo'[q] # {}
                           /\ pc'[q] \in Open <=> claimed'[q] # {}
    BY <1>4, <1>6 DEF NumbersInv, IInv, Types, Open
  <1> QED BY <1>4, <1>5, <1>7 DEF NumbersInv

\* A commit keeps NumbersInv.
LEMMA CommitNumbers ==
  ASSUME IInv, NumbersInv, NEW p \in Drainer, Commit(p)
  PROVE  NumbersInv'
  <1>1. /\ rollup' = [b \in DOMAIN rollup \cup Held(p) |->
                       IF b \in Held(p) THEN wrote[p][b] ELSE rollup[b]]
        /\ EndDrain(p, AfterDrain(p)) /\ errors' = errors
        /\ AfterDrain(p) \in {"recover", "drain"}
    BY DEF Commit, AfterDrain
  <1>2. Held(p) \subseteq Bucket
    BY RowAssumption DEF Held, IInv, Types
  <1>3. DOMAIN rollup' \subseteq Bucket /\ rollup' \in [DOMAIN rollup' -> Int]
    BY <1>1, <1>2 DEF NumbersInv
  <1> QED BY <1>1, <1>3, EndDrainNumbers DEF NumbersInv

\* Every step keeps NumbersInv.
LEMMA NextNumbers == ASSUME IInv, TotalsInv, NumbersInv, [Next]_vars PROVE NumbersInv'
  <1>1. ASSUME UNCHANGED <<rollup, errors, wrote, todo, claimed>>,
               \A p \in Drainer : pc'[p] = pc[p] \/ {pc[p], pc'[p]} \cap Open = {}
        PROVE  NumbersInv'
    BY <1>1 DEF NumbersInv, Open
  <1>2. ASSUME NEW i \in Row, Enqueue(i) PROVE NumbersInv'
    BY <1>1, <1>2 DEF Enqueue
  <1>3. ASSUME NEW p \in Drainer, StartScript(p) PROVE NumbersInv'
    BY <1>1, <1>3 DEF StartScript, Goto, IInv, Types, Open
  <1>4. ASSUME NEW p \in Drainer, RecoverStale(p) PROVE NumbersInv'
    BY <1>1, <1>4 DEF RecoverStale, Goto, IInv, Types, Open
  <1>5. ASSUME NEW p \in Drainer, NothingPending(p) PROVE NumbersInv'
    BY <1>1, <1>5 DEF NothingPending, AfterNothing, Goto, IInv, Types, Open
  <1>6. ASSUME NEW p \in Drainer, MarkProcessed(p) PROVE NumbersInv'
    BY <1>6 DEF MarkProcessed, Goto, IInv, Types, NumbersInv, Open
  <1>7. ASSUME NEW p \in Drainer, Claim(p) \/ Upsert(p) \/ Commit(p) PROVE NumbersInv'
    BY <1>7, ClaimNumbers, UpsertNumbers, CommitNumbers
  <1>8. ASSUME NEW p \in Drainer, Error(p) \/ DeadlockVictim(p) PROVE NumbersInv'
    <2>1. errors' \in 0..MaxErrors
      BY <1>8, BatchAssumption DEF Error, DeadlockVictim, NumbersInv
    <2> QED BY <1>8, <2>1, EndDrainNumbers DEF Error, DeadlockVictim, Stop, NumbersInv
  <1>9. CASE UNCHANGED vars
    BY <1>1, <1>9 DEF vars
  <1> QED BY <1>2, <1>3, <1>4, <1>5, <1>6, <1>7, <1>8, <1>9 DEF Next, Step

\* NumbersInv holds in the initial state.
LEMMA InitNumbers == ASSUME Init PROVE NumbersInv
  BY BatchAssumption DEF Init, NumbersInv, Open

\* Every variable has its type, a drain has rows from its claim to its commit, and it
\* has buckets left to write during the upsert only.
THEOREM RollupTypeCorrect == Spec => []TypeOK
  <1>1. Init => IInv /\ TotalsInv /\ NumbersInv
    BY InitIInv, InitTotals, InitNumbers
  <1>2. IInv /\ TotalsInv /\ NumbersInv /\ [Next]_vars => (IInv /\ TotalsInv /\ NumbersInv)'
    BY NextKeeps, NextTotals, NextNumbers
  <1>3. IInv /\ NumbersInv => TypeOK
    BY DEF IInv, Types, Placed, PlacedAt, NumbersInv, TypeOK, Open
  <1> QED BY <1>1, <1>2, <1>3, PTL DEF Spec

-----------------------------------------------------------------------------
(* What a step may miss. *)

\* The step that ends a script's drain finds every row it asked for counted or held.
LEMMA ScriptStepMissesOnlyHeld ==
  ASSUME IInv, [Next]_vars, NEW p \in Script, pc[p] # "done", pc'[p] = "done", NEW i \in asked[p]
  PROVE  status[i] = "processed" \/ \E q \in Drainer \ {p} : i \in claimed[q]
  <1>1. p \in Drainer
    BY DEF Drainer
  <1>2. i \in Row /\ status[i] \in {"pending", "processed"}
    BY <1>1 DEF IInv, Types, RowsStay, NothingLeftProcessing
  <1>3. NothingPending(p)
    <2>1. ASSUME NEW q \in Drainer, NEW label, EndDrain(q, label), label # "done" PROVE FALSE
      BY <1>1, <2>1 DEF EndDrain, Goto, IInv, Types
    <2>2. ASSUME NEW q \in Drainer, Commit(q) \/ Error(q) \/ DeadlockVictim(q) PROVE FALSE
      BY <2>1, <2>2 DEF Commit, Error, DeadlockVictim, Stop, AfterDrain
    <2>3. ASSUME NEW q \in Drainer,
                 StartScript(q) \/ RecoverStale(q) \/ Claim(q) \/ Upsert(q) \/ MarkProcessed(q)
          PROVE  FALSE
      BY <1>1, <2>3 DEF StartScript, RecoverStale, Claim, Upsert, MarkProcessed, Goto, IInv, Types
    <2>4. ASSUME NEW q \in Drainer, NothingPending(q), q # p PROVE FALSE
      BY <1>1, <2>4 DEF NothingPending, Goto, IInv, Types
    <2>5. CASE UNCHANGED vars \/ \E j \in Row : Enqueue(j)
      BY <2>5 DEF vars, Enqueue
    <2> QED BY <2>2, <2>3, <2>4, <2>5 DEF Next, Step
  <1> QED BY <1>2, <1>3 DEF NothingPending, Pending, Unlocked

\* A script ends its drain only over rows that another drain holds (rtp-outbox.ts:136).
THEOREM ScriptsMissOnlyHeld == Spec => ScriptMissesOnlyHeld
  <1>1. IInv /\ [Next]_vars =>
          [\A p \in Script : pc[p] # "done" /\ pc'[p] = "done" =>
             \A i \in asked[p] :
               status[i] = "processed" \/ \E q \in Drainer \ {p} : i \in claimed[q]]_vars
    BY ScriptStepMissesOnlyHeld
  <1> QED BY <1>1, IInvHolds, PTL DEF Spec, ScriptMissesOnlyHeld

\* A subset of a finite set has at most as many elements.
LEMMA FewerBelow ==
  ASSUME NEW S, NEW T \in SUBSET S, IsFiniteSet(S)
  PROVE  Cardinality(T) \in Nat /\ Cardinality(S) \in Nat /\ Cardinality(T) <= Cardinality(S)
  BY FS_Subset, FS_CardinalityType

\* A batch that has a row has the pending rows before it.
LEMMA BatchIsPrefix ==
  ASSUME NEW rows \in SUBSET Row, NEW i \in Batch(rows), NEW j \in rows, j < i
  PROVE  j \in Batch(rows)
  <1> DEFINE Below(k) == {l \in rows : l < k}
  <1>1. i \in Nat /\ j \in Nat /\ \A l \in rows : l \in Nat
    BY RowAssumption DEF Batch
  <1>2. Below(i) \subseteq 0..i /\ IsFiniteSet(0..i)
    <2>1. \A l \in rows : l < i => l \in 0..i
      BY <1>1
    <2>2. Below(i) \subseteq 0..i
      BY <2>1
    <2>3. i \in Int
      BY <1>1
    <2>4. IsFiniteSet(0..i)
      BY <2>3, FS_Interval
    <2> QED BY <2>2, <2>4
  <1>3. IsFiniteSet(Below(i))
    BY <1>2, FS_Subset
  <1>4. Below(j) \subseteq Below(i)
    <2>1. \A l \in rows : l < j => l < i
      BY <1>1
    <2> QED BY <2>1
  <1>5. Cardinality(Below(i)) < BatchSize
    BY DEF Batch
  <1> HIDE DEF Below
  <1>6. Cardinality(Below(j)) < BatchSize
    <2>1. PICK m, n : m = Cardinality(Below(j)) /\ n = Cardinality(Below(i))
      OBVIOUS
    <2>2. m \in Nat /\ n \in Nat /\ m <= n
      BY <1>3, <1>4, <2>1, FewerBelow
    <2>3. n < BatchSize
      BY <1>5, <2>1
    <2>4. m < BatchSize
      BY <2>2, <2>3, BatchAssumption
    <2> QED BY <2>1, <2>4
  <1> USE DEF Below
  <1> QED BY <1>6 DEF Batch

\* The claim that takes a removal takes its bet too, or finds it counted or held.
LEMMA RemovalStepOvertakesOnlyHeld ==
  ASSUME IInv, [Next]_vars, NEW p \in Drainer, NEW i \in claimed'[p], i \notin claimed[p],
         NEW j \in Undoes[i]
  PROVE  status[j] = "processed" \/ \E q \in Drainer : j \in claimed'[q]
  <1>1. Claim(p)
    <2>1. ASSUME NEW q \in Drainer, NEW label, EndDrain(q, label) PROVE FALSE
      BY <2>1 DEF EndDrain, IInv, Types
    <2>2. ASSUME NEW q \in Drainer, Commit(q) \/ Error(q) \/ DeadlockVictim(q) PROVE FALSE
      BY <2>1, <2>2 DEF Commit, Error, DeadlockVictim, Stop
    <2>3. ASSUME NEW q \in Drainer, Claim(q), q # p PROVE FALSE
      BY <2>3 DEF Claim, IInv, Types
    <2>4. CASE UNCHANGED claimed
      BY <2>4
    <2>5. ASSUME NEW q \in Drainer, StartScript(q) \/ RecoverStale(q) \/ NothingPending(q)
                                      \/ Upsert(q) \/ MarkProcessed(q)
          PROVE  UNCHANGED claimed
      BY <2>5 DEF StartScript, RecoverStale, NothingPending, Upsert, MarkProcessed
    <2>6. CASE UNCHANGED vars \/ \E k \in Row : Enqueue(k)
      BY <2>4, <2>6 DEF vars, Enqueue
    <2> QED BY <2>2, <2>3, <2>4, <2>5, <2>6 DEF Next, Step
  <1>2. claimed' = [claimed EXCEPT ![p] = Batch(Pending(p))]
    BY <1>1 DEF Claim
  <1>3. i \in Batch(Pending(p)) /\ Pending(p) \in SUBSET Row
    BY <1>2 DEF IInv, Types, Pending, Unlocked
  <1>4. i \in Row /\ status[i] = "pending"
    BY <1>3 DEF Batch, Pending, Unlocked
  <1>5. j \in Row /\ j < i /\ status[j] \in {"pending", "processed"}
    BY <1>4, UndoesAssumption DEF IInv, Types, RowsStay, NothingLeftProcessing, Committed
  <1>6. CASE j \in Pending(p)
    <2>1. j \in Batch(Pending(p))
      BY <1>3, <1>5, <1>6, BatchIsPrefix
    <2> QED BY <1>2, <2>1 DEF IInv, Types
  <1>7. CASE status[j] = "pending" /\ j \notin Pending(p)
    <2>1. PICK q \in Drainer \ {p} : j \in claimed[q]
      BY <1>5, <1>7 DEF Pending, Unlocked
    <2>2. claimed'[q] = claimed[q]
      BY <1>2 DEF IInv, Types
    <2> QED BY <2>1, <2>2
  <1> QED BY <1>5, <1>6, <1>7

\* A removal is claimed before its bet only if another drain has the bet (rtp-outbox.ts:63).
THEOREM RemovalsOvertakeOnlyHeld == Spec => RemovalOvertakesOnlyHeld
  <1>1. IInv /\ [Next]_vars =>
          [\A p \in Drainer : \A i \in claimed'[p] \ claimed[p] : \A j \in Undoes[i] :
             status[j] = "processed" \/ \E q \in Drainer : j \in claimed'[q]]_vars
    BY RemovalStepOvertakesOnlyHeld
  <1> QED BY <1>1, IInvHolds, PTL DEF Spec, RemovalOvertakesOnlyHeld

-----------------------------------------------------------------------------
(* The reports. *)

\* The table has finitely many rows, and none is ever deleted.
TableInv == IsFiniteSet(DOMAIN rollup)

\* A bucket that has a row keeps it.
LEMMA RollupGrows ==
  ASSUME IInv, TotalsInv, TableInv, [Next]_vars
  PROVE  DOMAIN rollup \subseteq DOMAIN rollup' /\ TableInv'
  <1>1. ASSUME UNCHANGED rollup PROVE DOMAIN rollup \subseteq DOMAIN rollup' /\ TableInv'
    BY <1>1 DEF TableInv
  <1>2. ASSUME NEW p \in Drainer, Commit(p)
        PROVE  DOMAIN rollup \subseteq DOMAIN rollup' /\ TableInv'
    <2>1. DOMAIN rollup' = DOMAIN rollup \cup Held(p)
      BY <1>2 DEF Commit
    <2>2. claimed[p] \subseteq Committed
      BY DEF IInv, Types, ClaimsPending, Committed
    <2>3. IsFiniteSet(claimed[p])
      BY <2>2, FS_Subset DEF TotalsInv
    <2>4. IsFiniteSet(Touched(p))
      BY <2>3, ImageFinite DEF Touched
    <2>5. IsFiniteSet(Held(p))
      BY <2>4, FS_Subset, HeldTouched
    <2> QED BY <2>1, <2>5, FS_Union DEF TableInv
  <1>3. ASSUME NEW p \in Drainer, Step(p), ~Commit(p) PROVE UNCHANGED rollup
    BY <1>3 DEF Step, RecoverStale, Claim, NothingPending, Upsert, MarkProcessed
  <1>4. ASSUME NEW p \in Drainer, StartScript(p) \/ Error(p) \/ DeadlockVictim(p) PROVE UNCHANGED rollup
    BY <1>4 DEF StartScript, Error, DeadlockVictim, Stop
  <1>5. CASE UNCHANGED vars \/ \E i \in Row : Enqueue(i)
    BY <1>1, <1>5 DEF vars, Enqueue
  <1> QED BY <1>1, <1>2, <1>3, <1>4, <1>5 DEF Next

\* What the reports rest on, of the drains they are read beside.
DrainsInv == IInv /\ TotalsInv /\ NumbersInv /\ TableInv

\* DrainsInv holds in the initial state,
LEMMA InitDrains == ASSUME Init PROVE DrainsInv
  <1>1. IsFiniteSet(DOMAIN rollup)
    <2>1. DOMAIN rollup = {}
      BY DEF Init
    <2> QED BY <2>1, FS_EmptySet
  <1> QED BY <1>1, InitIInv, InitTotals, InitNumbers DEF DrainsInv, TableInv

\* is kept by every step,
LEMMA NextDrains == ASSUME DrainsInv, [Next]_vars PROVE DrainsInv'
  BY NextKeeps, NextTotals, NextNumbers, RollupGrows DEF DrainsInv

\* of which a read of the report is none,
LEMMA ReportStep == ASSUME [ReportNext]_<<vars, walk>> PROVE [Next]_vars
  BY DEF ReportNext

\* and holds while the report is read.
LEMMA DrainsHold == ReportSpec => []DrainsInv
  <1>1. ReportInit => DrainsInv
    BY InitDrains DEF ReportInit
  <1>2. DrainsInv /\ [ReportNext]_<<vars, walk>> => DrainsInv'
    BY NextDrains, ReportStep
  <1> QED BY <1>1, <1>2, PTL DEF ReportSpec

-----------------------------------------------------------------------------
(* Windows and users add up. *)

\* The rows of a window are finitely many numbers.
LEMMA RowsSummed ==
  ASSUME DrainsInv, NEW users, NEW from, NEW to
  PROVE  /\ IsFiniteSet(Rows(users, from, to)) /\ Rows(users, from, to) \subseteq Bucket
         /\ \A b \in Rows(users, from, to) : rollup[b] \in Int
         /\ Sum(Rows(users, from, to)) = SumOf(rollup, Rows(users, from, to))
  <1>1. Rows(users, from, to) \subseteq DOMAIN rollup
    BY DEF Rows
  <1>2. IsFiniteSet(Rows(users, from, to))
    BY <1>1, FS_Subset DEF DrainsInv, TableInv
  <1>3. \A b \in DOMAIN rollup : b \in Bucket /\ rollup[b] \in Int
    BY DEF DrainsInv, NumbersInv
  <1>4. Sum(Rows(users, from, to)) = SumOf(rollup, Rows(users, from, to))
    BY DEF Sum, SumOf
  <1> QED BY <1>1, <1>2, <1>3, <1>4

\* Two adjacent windows add up.
LEMMA WindowsAdd ==
  ASSUME DrainsInv, NEW from \in Minute, NEW mid \in Minute, NEW to \in Minute,
         from <= mid, mid <= to
  PROVE  Casino(from, to) = Casino(from, mid) + Casino(mid, to)
  <1>1. PICK early, late : early = Rows(OfCurrency, from, mid) /\ late = Rows(OfCurrency, mid, to)
    OBVIOUS
  <1>2. from \in Int /\ mid \in Int /\ to \in Int
    BY MinuteAssumption
  <1>3. ASSUME NEW b \in DOMAIN rollup
        PROVE  /\ InWindow(b, from, to) <=> InWindow(b, from, mid) \/ InWindow(b, mid, to)
               /\ ~(InWindow(b, from, mid) /\ InWindow(b, mid, to))
    <2>1. b \in Bucket
      BY DEF DrainsInv, NumbersInv
    <2>2. MinuteOf[b] \in Minute
      BY <2>1, MinuteAssumption
    <2>3. MinuteOf[b] \in Int
      <3>1. PICK m \in Minute : m = MinuteOf[b]
        BY <2>2
      <3>2. m \in Int
        BY MinuteAssumption
      <3> QED BY <3>1, <3>2
    <2> QED BY <1>2, <2>3 DEF InWindow
  <1>4. Rows(OfCurrency, from, to) = early \cup late /\ early \cap late = {}
    BY <1>1, <1>3 DEF Rows
  <1>5. /\ IsFiniteSet(early) /\ IsFiniteSet(late)
        /\ \A b \in early \cup late : rollup[b] \in Int
        /\ Casino(from, mid) = SumOf(rollup, early) /\ Casino(mid, to) = SumOf(rollup, late)
    BY <1>1, RowsSummed DEF Casino
  <1>6. Casino(from, to) = SumOf(rollup, early \cup late)
    BY <1>4, RowsSummed DEF Casino
  <1> QED BY <1>4, <1>5, <1>6, SumUnion

\* What the users of a window add up to.
UsersTotal(from, to) == MapThenSumSet(LAMBDA u : UserTotal(u, from, to), User)

\* What the users add up to, as a sum.
LEMMA UsersSummed ==
  ASSUME IsFiniteSet(User), NEW from, NEW to
  PROVE  UsersTotal(from, to) = SumOf([u \in User |-> UserTotal(u, from, to)], User)
  <1> DEFINE F == [u \in User |-> UserTotal(u, from, to)]
             Is(g) == g = [s \in SUBSET User |->
                             IF s = {} THEN 0
                             ELSE UserTotal(FirstOf(s), from, to) + g[s \ {FirstOf(s)}]]
  <1>1. UsersTotal(from, to) = (CHOOSE g : Is(g))[User]
    BY DEF UsersTotal, MapThenSumSet, MapThenFoldSet, FirstOf
  <1>2. \A g : Is(g) <=> IsSum(g, F, User)
    BY FirstIn DEF IsSum
  <1>3. PICK g : g = CHOOSE k : Is(k)
    OBVIOUS
  <1> HIDE DEF Is, F
  <1>4. IsSum(g, F, User)
    BY <1>2, <1>3, SumExists
  <1> QED BY <1>1, <1>3, <1>4, SumIs DEF F

\* The users add up to the casino's row.
LEMMA UsersAdd ==
  ASSUME DrainsInv, IsFiniteSet(User), NEW from, NEW to
  PROVE  Casino(from, to) = UsersTotal(from, to)
  <1>1. PICK f : f = [u \in User |-> UserTotal(u, from, to)]
    OBVIOUS
  <1>2. ASSUME NEW u \in User
        PROVE  f[u] = SumOf(rollup, Rows({u} \cap OfCurrency, from, to)) /\ f[u] \in Int
    <2>1. f[u] = Sum(Rows({u} \cap OfCurrency, from, to))
      BY <1>1 DEF UserTotal
    <2>2. SumOf(rollup, Rows({u} \cap OfCurrency, from, to)) \in Int
      BY RowsSummed, SumInt
    <2> QED BY <2>1, <2>2, RowsSummed
  <1> DEFINE R(V) == Rows(V \cap OfCurrency, from, to)
             T == {V \in SUBSET User : SumOf(f, V) = SumOf(rollup, R(V))}
  <1>3. ASSUME NEW V \in SUBSET User, \A W \in SUBSET V : W # V => W \in T
        PROVE  V \in T
    <2>1. CASE V = {}
      <3>1. R(V) = {}
        BY <2>1 DEF Rows
      <3> QED BY <2>1, <3>1, SumEmpty
    <2>2. ASSUME NEW x \in V PROVE V \in T
      <3>1. PICK W : W = V \ {x}
        OBVIOUS
      <3>2. W \in SUBSET V /\ W # V /\ V = W \cup {x} /\ x \notin W /\ x \in User
        BY <3>1
      <3>3. SumOf(f, W) = SumOf(rollup, R(W))
        BY <1>3, <3>2
      <3>4. IsFiniteSet(W)
        BY <3>2, FS_Subset
      <3>5. \A u \in V : f[u] \in Int
        BY <1>2
      <3>6. SumOf(f, V) = SumOf(f, W) + f[x]
        <4> HIDE DEF T, R
        <4> QED BY <3>2, <3>4, <3>5, SumAdd
      <3>7. R(V) = R(W) \cup R({x}) /\ R(W) \cap R({x}) = {}
        BY <3>2 DEF Rows
      <3>8. f[x] = SumOf(rollup, R({x}))
        BY <1>2, <3>2
      <3>9. SumOf(rollup, R(V)) = SumOf(rollup, R(W)) + SumOf(rollup, R({x}))
        <4>1. PICK a, b : a = R(W) /\ b = R({x})
          OBVIOUS
        <4>2. /\ IsFiniteSet(a) /\ IsFiniteSet(b)
              /\ \A c \in a \cup b : rollup[c] \in Int
          BY <4>1, RowsSummed
        <4>3. R(V) = a \cup b /\ a \cap b = {}
          BY <3>7, <4>1
        <4>4. SumOf(rollup, a \cup b) = SumOf(rollup, a) + SumOf(rollup, b)
          BY <4>2, <4>3, SumUnion
        <4> HIDE DEF T, R
        <4> QED BY <4>1, <4>3, <4>4
      <3> QED BY <3>3, <3>6, <3>8, <3>9
    <2> QED BY <2>1, <2>2
  <1>4. T \in SUBSET (SUBSET User)
    OBVIOUS
  <1>5. R(User) = Rows(OfCurrency, from, to)
    BY UserAssumption DEF Rows
  <1> HIDE DEF T
  <1>6. T = SUBSET User
    BY <1>3, <1>4, SubsetInduction
  <1>7. User \in T
    BY <1>6
  <1>8. SumOf(f, User) = SumOf(rollup, R(User))
    BY <1>7 DEF T
  <1> HIDE DEF R
  <1> QED BY <1>1, <1>5, <1>8, RowsSummed, UsersSummed DEF Casino

\* At every moment adjacent windows add up and the users add up to the casino's row, for
\* any finite set of users (rtp.ts:20, rtp.ts:50).
THEOREM ReportsAddUp == ASSUME IsFiniteSet(User) PROVE ReportSpec => []ReportsAgree
  <1>1. ASSUME DrainsInv PROVE ReportsAgree
    <2>1. ASSUME NEW from \in Minute, NEW mid \in Minute, NEW to \in Minute,
                 from <= mid, mid <= to
          PROVE  Casino(from, to) = Casino(from, mid) + Casino(mid, to)
      BY <1>1, <2>1, WindowsAdd
    <2>2. ASSUME NEW from \in Minute, NEW to \in Minute
          PROVE  Casino(from, to) = UsersTotal(from, to)
      BY <1>1, UsersAdd
    <2> QED BY <2>1, <2>2 DEF ReportsAgree, UsersTotal
  <1> QED BY <1>1, DrainsHold, PTL

-----------------------------------------------------------------------------
(* A walk through the pages. *)

\* How many users of S come before u.
Rank(S, u) == Cardinality({v \in S : v < u})

\* A place is a number.
LEMMA RankType ==
  ASSUME NEW S, IsFiniteSet(S), NEW u
  PROVE  Rank(S, u) \in Nat
  <1>1. IsFiniteSet({v \in S : v < u})
    BY FS_Subset
  <1> QED BY <1>1, FS_CardinalityType DEF Rank

\* Users only join, so nobody moves to an earlier page.
LEMMA RankGrows ==
  ASSUME NEW S, IsFiniteSet(S), NEW U \in SUBSET S, NEW u
  PROVE  Rank(U, u) <= Rank(S, u)
  <1>1. PICK A, B : A = {v \in U : v < u} /\ B = {v \in S : v < u}
    OBVIOUS
  <1>2. A \in SUBSET B
    BY <1>1
  <1>3. IsFiniteSet(B)
    BY <1>1, FS_Subset
  <1>4. Cardinality(A) <= Cardinality(B)
    BY <1>2, <1>3, FS_Subset
  <1> QED BY <1>1, <1>4 DEF Rank

\* A finite set of numbers that is not empty has a greatest one.
LEMMA GreatestOfFinite ==
  ASSUME NEW S, IsFiniteSet(S), S \subseteq Int, S # {}
  PROVE  \E m \in S : \A n \in S : n <= m
  <1>1. PICK f : f = [x \in S |-> -x]
    OBVIOUS
  <1>2. PICK N : N = {f[x] : x \in S}
    OBVIOUS
  <1>3. IsFiniteSet(N)
    BY <1>2, ImageFinite
  <1>4. \A x \in S : x \in Int /\ f[x] = -x /\ f[x] \in N
    BY <1>1, <1>2
  <1>5. N \subseteq Int /\ N # {}
    BY <1>2, <1>4
  <1>6. PICK k \in N : \A n \in N : k <= n
    BY <1>3, <1>5, LeastOfFinite
  <1>7. PICK m \in S : k = f[m]
    BY <1>2
  <1>8. ASSUME NEW n \in S PROVE n <= m
    <2>1. k <= f[n] /\ k = -m /\ f[n] = -n /\ m \in Int /\ n \in Int
      BY <1>4, <1>6, <1>7
    <2> QED BY <2>1
  <1> QED BY <1>8

\* Every place below the number of users is somebody's.
LEMMA RanksFilled ==
  ASSUME NEW S, IsFiniteSet(S), S \subseteq Int, NEW k \in Nat, k < Cardinality(S)
  PROVE  \E u \in S : Rank(S, u) = k
  <1> DEFINE T == {U \in SUBSET S :
                     \A i \in Nat : i < Cardinality(U) => \E u \in U : Rank(U, u) = i}
  <1>1. ASSUME NEW U \in SUBSET S, \A V \in SUBSET U : V # U => V \in T
        PROVE  U \in T
    <2>1. IsFiniteSet(U) /\ U \subseteq Int
      BY FS_Subset
    <2>2. CASE U = {}
      <3>1. Cardinality(U) = 0
        BY <2>2, FS_EmptySet
      <3> QED BY <3>1
    <2>3. CASE U # {}
      <3>1. PICK m \in U : \A n \in U : n <= m
        BY <2>1, <2>3, GreatestOfFinite
      <3>2. PICK V : V = U \ {m}
        OBVIOUS
      <3>3. V \in T
        BY <1>1, <3>2
      <3>4. IsFiniteSet(V)
        BY <2>1, <3>2, FS_Subset
      <3>5. PICK c, d : c = Cardinality(V) /\ d = Cardinality(U)
        OBVIOUS
      <3>6. c \in Nat /\ d = c + 1
        <4>1. U = V \cup {m} /\ m \notin V
          BY <3>2
        <4>2. Cardinality(V \cup {m}) = Cardinality(V) + 1
          BY <3>4, <4>1, FS_AddElement
        <4> QED BY <3>4, <3>5, <4>1, <4>2, FS_CardinalityType
      <3>7. Rank(U, m) = c
        <4>1. \A v \in U : v < m <=> v \in V
          BY <2>1, <3>1, <3>2
        <4>2. {v \in U : v < m} = V
          BY <3>2, <4>1
        <4> QED BY <3>5, <4>2 DEF Rank
      <3>8. \A u \in V : Rank(U, u) = Rank(V, u)
        <4> TAKE u \in V
        <4>1. \A v \in U : v < u <=> v \in V /\ v < u
          BY <2>1, <3>1, <3>2
        <4>2. {v \in U : v < u} = {v \in V : v < u}
          BY <3>2, <4>1
        <4> QED BY <4>2 DEF Rank
      <3>9. ASSUME NEW i \in Nat, i < d PROVE \E u \in U : Rank(U, u) = i
        <4>1. i = c \/ i < c
          BY <3>6, <3>9
        <4>2. CASE i < c
          <5>1. PICK u \in V : Rank(V, u) = i
            BY <3>3, <3>5, <4>2
          <5> QED BY <3>2, <3>8, <5>1
        <4> QED BY <3>7, <4>1, <4>2
      <3> QED BY <3>5, <3>9
    <2> QED BY <2>2, <2>3
  <1>2. T \in SUBSET (SUBSET S)
    OBVIOUS
  <1> HIDE DEF T
  <1>3. T = SUBSET S
    BY <1>1, <1>2, SubsetInduction
  <1>4. S \in T
    BY <1>3
  <1> QED BY <1>4 DEF T

\* A page that is not full has all users from its place on.
LEMMA ShortPageIsLast ==
  ASSUME NEW S, IsFiniteSet(S), S \subseteq Int, NEW skip \in Nat, NEW limit \in Nat \ {0},
         NEW page, page = {u \in S : Rank(S, u) \in skip..(skip + limit - 1)},
         Cardinality(page) < limit, NEW u \in S, skip <= Rank(S, u)
  PROVE  u \in page
  <1> SUFFICES ASSUME u \notin page PROVE FALSE
    OBVIOUS
  <1>1. PICK r : r = Rank(S, u)
    OBVIOUS
  <1>2. r \in Nat /\ r >= skip + limit
    <2>1. r \in Nat
      BY <1>1, RankType
    <2>2. r \notin skip..(skip + limit - 1) /\ skip <= r
      BY <1>1
    <2> QED BY <2>1, <2>2
  <1>3. r <= Cardinality(S)
    <2>1. {v \in S : v < u} \in SUBSET S
      OBVIOUS
    <2> QED BY <1>1, <2>1, FS_Subset DEF Rank
  <1>4. Cardinality(S) \in Nat
    BY FS_CardinalityType
  <1>5. ASSUME NEW k \in skip..(skip + limit - 1) PROVE \E v \in page : Rank(S, v) = k
    <2>1. k \in Nat /\ k < Cardinality(S)
      <3>1. k \in Nat /\ k < r
        BY <1>2
      <3> QED BY <1>2, <1>3, <1>4, <3>1
    <2>2. PICK v \in S : Rank(S, v) = k
      BY <2>1, RanksFilled
    <2> QED BY <2>2
  <1>6. PICK f : f = [v \in page |-> Rank(S, v)]
    OBVIOUS
  <1>7. f \in Surjection(page, skip..(skip + limit - 1))
    <2>1. f \in [page -> skip..(skip + limit - 1)]
      BY <1>6
    <2>2. \A k \in skip..(skip + limit - 1) : \E v \in page : f[v] = k
      BY <1>5, <1>6
    <2> QED BY <2>1, <2>2 DEF Surjection
  <1>8. IsFiniteSet(page)
    BY FS_Subset
  <1>9. Cardinality(skip..(skip + limit - 1)) <= Cardinality(page)
    BY <1>7, <1>8, FS_Surjection
  <1>10. Cardinality(skip..(skip + limit - 1)) = limit
    <2>1. PICK m : m = skip + limit - 1
      OBVIOUS
    <2>2. m \in Int /\ skip \in Int /\ ~(skip > m) /\ m - skip + 1 = limit
      BY <2>1
    <2>3. Cardinality(skip..m) = m - skip + 1
      BY <2>2, FS_Interval
    <2> QED BY <2>1, <2>2, <2>3
  <1>11. Cardinality(page) \in Nat
    BY <1>8, FS_CardinalityType
  <1> QED BY <1>9, <1>10, <1>11

\* A client has seen, of the users that were there, all that come before its next page.
WalkAt(c) ==
  /\ offset[c] \in Nat \cup {-1}
  /\ there[c] \subseteq Listed
  /\ \A u \in there[c] : offset[c] = -1 \/ Rank(Listed, u) < offset[c] => u \in listed[c]

WalkInv ==
  /\ offset \in [Client -> Int] /\ DOMAIN there = Client /\ DOMAIN listed = Client
  /\ \A c \in Client : WalkAt(c)

\* Finitely many rows are of finitely many users.
LEMMA UsersFinite ==
  ASSUME NEW rows \in SUBSET Bucket, IsFiniteSet(rows)
  PROVE  IsFiniteSet({UserOf[b] : b \in rows}) /\ {UserOf[b] : b \in rows} \subseteq Int
  <1>1. \A b \in rows : UserOf[b] \in User
    BY UserAssumption
  <1>2. \A u \in User : u \in Int
    BY UserAssumption
  <1> QED BY <1>1, <1>2, ImageFinite

\* The report has finitely many users.
LEMMA ListedFinite ==
  ASSUME DrainsInv
  PROVE  IsFiniteSet(Listed) /\ Listed \subseteq Int
  <1>1. PICK rows : rows = Rows(OfCurrency \cap OfUser, From, To)
    OBVIOUS
  <1>2. rows \in SUBSET Bucket /\ IsFiniteSet(rows)
    BY <1>1, RowsSummed
  <1> QED BY <1>1, <1>2, UsersFinite DEF Listed

\* While drains go on, users join.
LEMMA DrainWalk ==
  ASSUME DrainsInv, WalkInv, [Next]_vars, UNCHANGED walk
  PROVE  WalkInv'
  <1>1. DOMAIN rollup \subseteq DOMAIN rollup'
    BY RollupGrows DEF DrainsInv
  <1>2. Listed \subseteq Listed'
    BY <1>1 DEF Listed, Rows, InWindow
  <1>3. IsFiniteSet(Listed')
    <2>1. PICK rows : rows = Rows(OfCurrency \cap OfUser, From, To)'
      OBVIOUS
    <2>2. rows \subseteq DOMAIN rollup'
      BY <2>1 DEF Rows
    <2>3. IsFiniteSet(DOMAIN rollup') /\ DOMAIN rollup' \subseteq Bucket
      BY NextDrains DEF DrainsInv, TableInv, NumbersInv
    <2>4. rows \in SUBSET Bucket /\ IsFiniteSet(rows)
      BY <2>2, <2>3, FS_Subset
    <2> QED BY <2>1, <2>4, UsersFinite DEF Listed
  <1>4. ASSUME NEW c \in Client PROVE WalkAt(c)'
    <2>1. offset'[c] = offset[c] /\ listed'[c] = listed[c] /\ there'[c] = there[c]
      BY DEF walk
    <2>2. PICK old, new : old = Listed /\ new = Listed'
      OBVIOUS
    <2>3. ASSUME NEW u PROVE Rank(new, u) \in Nat /\ Rank(old, u) \in Nat /\ Rank(old, u) <= Rank(new, u)
      <3>1. IsFiniteSet(new) /\ IsFiniteSet(old) /\ old \in SUBSET new
        BY <1>2, <1>3, <2>2, ListedFinite
      <3> QED BY <3>1, RankType, RankGrows
    <2>4. WalkAt(c)
      BY DEF WalkInv
    <2>5. offset[c] \in Nat \cup {-1} /\ there[c] \subseteq old
      BY <2>2, <2>4 DEF WalkAt
    <2>6. \A u \in there[c] : offset[c] = -1 \/ Rank(old, u) < offset[c] => u \in listed[c]
      BY <2>2, <2>4 DEF WalkAt
    <2>7. \A u \in there[c] : offset[c] = -1 \/ Rank(new, u) < offset[c] => u \in listed[c]
      <3> TAKE u \in there[c]
      <3>1. CASE offset[c] = -1
        BY <2>6, <3>1
      <3>2. CASE Rank(new, u) < offset[c]
        <4>1. Rank(old, u) < offset[c]
          BY <2>3, <2>5, <3>2
        <4> QED BY <2>6, <4>1
      <3> QED BY <3>1, <3>2
    <2> QED BY <1>2, <2>1, <2>2, <2>5, <2>7 DEF WalkAt
  <1> QED BY <1>4 DEF WalkInv, walk

\* A page takes the users up to the next one's place, or all when it is short.
LEMMA ReadWalk ==
  ASSUME DrainsInv, WalkInv, NEW c \in Client, ReadPage(c), UNCHANGED vars
  PROVE  WalkInv'
  <1>1. PICK all, page, skip : all = Listed /\ page = Page(offset[c]) /\ skip = offset[c]
    OBVIOUS
  <1>2. skip \in Nat
    BY <1>1 DEF WalkInv, WalkAt, ReadPage
  <1>3. IsFiniteSet(all) /\ all \subseteq Int
    BY <1>1, ListedFinite
  <1>4. page = {u \in all : Rank(all, u) \in skip..(skip + Limit - 1)}
    BY <1>1 DEF Page, Before, Rank
  <1>5. Limit \in Nat \ {0}
    BY LimitAssumption
  <1>6. /\ offset' = [offset EXCEPT ![c] = IF Cardinality(page) < Limit THEN -1 ELSE skip + Limit]
        /\ listed' = [listed EXCEPT ![c] = listed[c] \cup page]
        /\ there' = [there EXCEPT ![c] = IF skip = 0 THEN all ELSE there[c]]
    BY <1>1 DEF ReadPage
  <1>7. Listed' = all
    BY <1>1 DEF vars, Listed, Rows, InWindow
  <1>8. ASSUME NEW u \in there'[c], offset'[c] = -1 \/ Rank(all, u) < offset'[c]
        PROVE  u \in listed'[c]
    <2>1. u \in all
      BY <1>1, <1>6, <1>8 DEF WalkInv, WalkAt
    <2>2. Rank(all, u) \in Nat
      BY <1>3, RankType
    <2>3. listed'[c] = listed[c] \cup page
      BY <1>6 DEF WalkInv
    <2>4. CASE Rank(all, u) < skip
      <3>1. skip # 0
        BY <1>2, <2>2, <2>4
      <3>2. u \in there[c]
        BY <1>6, <1>8, <3>1 DEF WalkInv
      <3>3. u \in listed[c]
        BY <1>1, <2>4, <3>2 DEF WalkInv, WalkAt
      <3> QED BY <2>3, <3>3
    <2>5. CASE ~(Rank(all, u) < skip)
      <3>1. skip <= Rank(all, u)
        BY <1>2, <2>2, <2>5
      <3>2. CASE Cardinality(page) < Limit
        BY <1>2, <1>3, <1>4, <1>5, <2>1, <2>3, <3>1, <3>2, ShortPageIsLast
      <3>3. CASE ~(Cardinality(page) < Limit)
        <4>1. offset'[c] = skip + Limit
          BY <1>6, <3>3 DEF WalkInv
        <4>2. Rank(all, u) < skip + Limit
          BY <1>2, <1>5, <1>8, <4>1
        <4>3. Rank(all, u) \in skip..(skip + Limit - 1)
          BY <1>2, <1>5, <2>2, <3>1, <4>2
        <4> QED BY <1>4, <2>1, <2>3, <4>3
      <3> QED BY <3>2, <3>3
    <2> QED BY <2>4, <2>5
  <1>9. offset'[c] \in Nat \cup {-1}
    <2>1. skip + Limit \in Nat
      BY <1>2, <1>5
    <2> QED BY <1>6, <2>1 DEF WalkInv
  <1>10. there'[c] \subseteq all
    BY <1>1, <1>6 DEF WalkInv, WalkAt
  <1>11. ASSUME NEW d \in Client PROVE WalkAt(d)'
    <2>1. CASE d = c
      BY <1>7, <1>8, <1>9, <1>10, <2>1 DEF WalkAt
    <2>2. CASE d # c
      <3>1. offset'[d] = offset[d] /\ listed'[d] = listed[d] /\ there'[d] = there[d]
        BY <1>6, <2>2 DEF WalkInv
      <3> QED BY <1>1, <1>7, <3>1 DEF WalkInv, WalkAt
    <2> QED BY <2>1, <2>2
  <1>12. offset' \in [Client -> Int] /\ DOMAIN there' = Client /\ DOMAIN listed' = Client
    <2>1. skip + Limit \in Int
      BY <1>2, <1>5
    <2> QED BY <1>6, <2>1 DEF WalkInv
  <1> QED BY <1>11, <1>12 DEF WalkInv

\* A client that has read every page has seen every user there was when it began,
\* whatever is rolled up meanwhile (rtp.ts:50).
THEOREM WalksMissNone == ReportSpec => []WalkMissesNone
  <1>1. ReportInit => DrainsInv /\ WalkInv
    BY InitDrains DEF ReportInit, WalkInv, WalkAt
  <1>2. DrainsInv /\ WalkInv /\ [ReportNext]_<<vars, walk>> => (DrainsInv /\ WalkInv)'
    <2>1. ASSUME DrainsInv, WalkInv, [ReportNext]_<<vars, walk>> PROVE DrainsInv'
      BY <2>1, NextDrains, ReportStep
    <2>2. ASSUME DrainsInv, WalkInv, [ReportNext]_<<vars, walk>> PROVE WalkInv'
      BY <2>2, DrainWalk, ReadWalk DEF ReportNext
    <2> QED BY <2>1, <2>2
  <1>3. WalkInv => WalkMissesNone
    BY DEF WalkInv, WalkAt, WalkMissesNone
  <1> QED BY <1>1, <1>2, <1>3, PTL DEF ReportSpec

=============================================================================
