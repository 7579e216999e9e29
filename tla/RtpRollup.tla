------------------------------ MODULE RtpRollup ------------------------------
(***************************************************************************)
(* The reporting path: rows that wallet transactions commit to rtp_outbox   *)
(* are drained in batches into rtp_user_minute (src/reports/rtp-outbox.ts),  *)
(* by the rtp-worker's loop (src/scripts/rtp-rollup-worker.ts) and by        *)
(* scripts that drain until nothing is left (src/scripts/rtp-runner.ts).     *)
(* The six counters of a row and of a bucket are treated alike: one number.  *)
(***************************************************************************)
EXTENDS Integers, FiniteSetsExt

CONSTANTS
  Row,        \* the outbox ids, in the order of the sequence that gives them
  Bucket,     \* the keys (bucket_minute, user_id, currency)
  BucketOf,   \* the bucket of each row
  DeltaOf,    \* what each row adds to it
  Undoes,     \* the row whose amount a removal takes back (empty: no removal)
  Loop,       \* rtp-worker processes
  Script,     \* callers of drainRtpOutboxUntilEmpty
  BatchSize,  \* RTP_OUTBOX_BATCH_SIZE
  MaxErrors,  \* bound: statements that fail and processes that die
  NoBucket    \* not a bucket

ASSUME RowAssumption == Row \subseteq Nat /\ BucketOf \in [Row -> Bucket] /\ DeltaOf \in [Row -> Int]
ASSUME UndoesAssumption == Undoes \in [Row -> SUBSET Row] /\ \A i \in Row : \A j \in Undoes[i] : j < i
ASSUME DrainerAssumption == Loop \cap Script = {} /\ NoBucket \notin Bucket
ASSUME BatchAssumption == BatchSize \in Nat \ {0} /\ MaxErrors \in Nat

Drainer == Loop \cup Script

VARIABLES
  status,   \* rtp_outbox.status, committed ("absent": not inserted yet)
  rollup,   \* rtp_user_minute, committed: its rows' keys and counters
  errors,   \* failures so far
  pc,       \* where each drainer is
  claimed,  \* the rows its open transaction has locked
  mark,     \* the status it has written to them
  todo,     \* the buckets its upsert has not written yet
  next,     \* the one of them it is at
  wrote,    \* the bucket values it has written
  asked     \* the rows that were there when a script began to drain

vars == <<status, rollup, errors, pc, claimed, mark, todo, next, wrote, asked>>

Init ==
  /\ status = [i \in Row |-> "absent"]
  /\ rollup = [b \in {} |-> 0]
  /\ errors = 0
  /\ pc = [p \in Drainer |-> IF p \in Loop THEN "recover" ELSE "off"]
  /\ claimed = [p \in Drainer |-> {}]
  /\ mark = [p \in Drainer |-> "pending"]
  /\ todo = [p \in Drainer |-> {}]
  /\ next = [p \in Drainer |-> NoBucket]
  /\ wrote = [p \in Drainer |-> [b \in Bucket |-> 0]]
  /\ asked = [p \in Drainer |-> {}]

Goto(p, label) == pc' = [pc EXCEPT ![p] = label]

\* Seeded bug: the connection goes back to the pool with its transaction open.
EndDrainOpen(p, label) ==
  /\ Goto(p, label)
  /\ UNCHANGED <<claimed, mark, todo, next, wrote>>

\* The transaction of p is over and p goes on at label.
EndDrain(p, label) ==
  /\ Goto(p, label)
  /\ claimed' = [claimed EXCEPT ![p] = {}]
  /\ mark' = [mark EXCEPT ![p] = "pending"]
  /\ todo' = [todo EXCEPT ![p] = {}]
  /\ next' = [next EXCEPT ![p] = NoBucket]
  /\ wrote' = [wrote EXCEPT ![p] = [b \in Bucket |-> 0]]

Committed == {i \in Row : status[i] # "absent"}

\* A wallet transaction commits a row; ids become visible in any order, but for a
\* removal, whose transaction found the original committed.
Enqueue(i) ==
  /\ status[i] = "absent" /\ Undoes[i] \subseteq Committed
  /\ status' = [status EXCEPT ![i] = "pending"]
  /\ UNCHANGED <<rollup, errors, pc, claimed, mark, todo, next, wrote, asked>>

\* A script turns to the outbox when the answers it waited for have come.
StartScript(p) ==
  /\ pc[p] = "off"
  /\ asked' = [asked EXCEPT ![p] = Committed]
  /\ Goto(p, "drain")
  /\ UNCHANGED <<status, rollup, errors, claimed, mark, todo, next, wrote>>

\* recoverStaleRtpOutbox: rows left in processing for long go back to pending.
RecoverStale(p) ==
  /\ pc[p] = "recover"
  /\ \E stale \in SUBSET {i \in Row : status[i] = "processing"} :
       status' = [i \in Row |-> IF i \in stale THEN "pending" ELSE status[i]]
  /\ Goto(p, "drain")
  /\ UNCHANGED <<rollup, errors, claimed, mark, todo, next, wrote, asked>>

-----------------------------------------------------------------------------
(* drainRtpOutbox *)

\* Seeded bug: FOR UPDATE SKIP LOCKED is left out.
UnlockedAll(p) == Row

\* The rows no other open transaction has claimed.
Unlocked(p) == {i \in Row : \A q \in Drainer \ {p} : i \notin claimed[q]}

\* Seeded bug: a drain reads on from the highest id that is processed.
PendingAbove(p) ==
  {i \in Unlocked(p) : status[i] = "pending" /\ \A j \in Row : status[j] = "processed" => j < i}

Pending(p) == {i \in Unlocked(p) : status[i] = "pending"}

\* Seeded bug: ORDER BY id is left out, and the newest rows come first.
BatchUnordered(rows) ==
  {i \in rows : Cardinality({j \in rows : j > i}) < BatchSize}

\* ORDER BY id ... LIMIT batchSize
Batch(rows) ==
  {i \in rows : Cardinality({j \in rows : j < i}) < BatchSize}

\* Seeded bug: a script drains one batch.
AfterDrainOnce(p) == IF p \in Loop THEN "recover" ELSE "done"

\* Where a drain leaves its caller.
AfterDrain(p) == IF p \in Loop THEN "recover" ELSE "drain"
AfterNothing(p) == IF p \in Loop THEN "recover" ELSE "done"

Claim(p) ==
  /\ pc[p] = "drain" /\ Pending(p) # {}
  /\ claimed' = [claimed EXCEPT ![p] = Batch(Pending(p))]
  /\ mark' = [mark EXCEPT ![p] = "processing"]
  /\ todo' = [todo EXCEPT ![p] = {BucketOf[i] : i \in Batch(Pending(p))}]
  /\ \E b \in todo'[p] : next' = [next EXCEPT ![p] = b]
  /\ Goto(p, "upsert")
  /\ UNCHANGED <<status, rollup, errors, wrote, asked>>

NothingPending(p) ==
  /\ pc[p] = "drain" /\ Pending(p) = {}
  /\ Goto(p, AfterNothing(p))
  /\ UNCHANGED <<status, rollup, errors, claimed, mark, todo, next, wrote, asked>>

\* The buckets of its statement that p has written and holds locked.
Held(p) == IF pc[p] \in {"upsert", "mark", "commit"}
             THEN {BucketOf[i] : i \in claimed[p]} \ todo[p] ELSE {}

Aggregated(p, b) == MapThenSumSet(LAMBDA i : DeltaOf[i], {i \in claimed[p] : BucketOf[i] = b})

\* Seeded bug: a second row for the bucket replaces the first.
MergedOver(p, b) == Aggregated(p, b)

Total(b) == IF b \in DOMAIN rollup THEN rollup[b] ELSE 0

\* ON CONFLICT ... DO UPDATE adds to the row as it is once the lock is granted.
Merged(p, b) == Total(b) + Aggregated(p, b)

\* The upsert takes the aggregated rows one bucket after another, in whatever order
\* the aggregation gave, and waits for a transaction that has written the bucket.
Upsert(p) ==
  LET b == next[p]
      rest == todo[p] \ {b}
  IN
  /\ pc[p] = "upsert"
  /\ \A q \in Drainer \ {p} : b \notin Held(q)
  /\ wrote' = [wrote EXCEPT ![p][b] = Merged(p, b)]
  /\ todo' = [todo EXCEPT ![p] = rest]
  /\ \/ rest = {} /\ Goto(p, "mark") /\ next' = [next EXCEPT ![p] = NoBucket]
     \/ \E c \in rest : next' = [next EXCEPT ![p] = c] /\ UNCHANGED pc
  /\ UNCHANGED <<status, rollup, errors, claimed, mark, asked>>

\* Seeded bug: the last UPDATE of the transaction is left out.
MarkNothing(p) ==
  /\ pc[p] = "mark"
  /\ Goto(p, "commit")
  /\ UNCHANGED <<status, rollup, errors, claimed, mark, todo, next, wrote, asked>>

MarkProcessed(p) ==
  /\ pc[p] = "mark"
  /\ mark' = [mark EXCEPT ![p] = "processed"]
  /\ Goto(p, "commit")
  /\ UNCHANGED <<status, rollup, errors, claimed, todo, next, wrote, asked>>

Commit(p) ==
  /\ pc[p] = "commit"
  /\ status' = [i \in Row |-> IF i \in claimed[p] THEN mark[p] ELSE status[i]]
  /\ rollup' = [b \in DOMAIN rollup \cup Held(p) |->
                 IF b \in Held(p) THEN wrote[p][b] ELSE rollup[b]]
  /\ EndDrain(p, AfterDrain(p))
  /\ UNCHANGED <<errors, asked>>

\* Seeded bug: a worker that fails neither rolls back nor exits.
StopOpen(p) ==
  UNCHANGED <<status, rollup, pc, claimed, mark, todo, next, wrote, asked>>

\* A statement fails or the process dies: the transaction is rolled back.  The
\* worker's main().catch exits, and docker-compose.yml starts nothing again.
Stop(p) ==
  /\ EndDrain(p, "exited")
  /\ UNCHANGED <<status, rollup, asked>>

Error(p) ==
  /\ pc[p] \in {"recover", "drain", "upsert", "mark", "commit"}
  /\ errors < MaxErrors
  /\ errors' = errors + 1
  /\ Stop(p)

WaitsFor(p, q) == pc[p] = "upsert" /\ next[p] \in Held(q)

\* A cycle of drains that wait for one another.  Each waits for at most one.
Deadlocked(p) ==
  \E S \in SUBSET Drainer :
    /\ p \in S
    /\ \A q \in S : /\ \E o \in S \ {q} : WaitsFor(q, o)
                    /\ \E o \in S \ {q} : WaitsFor(o, q)

DeadlockVictim(p) ==
  /\ Deadlocked(p)
  /\ UNCHANGED errors
  /\ Stop(p)

Step(p) ==
  \/ RecoverStale(p) \/ Claim(p) \/ NothingPending(p)
  \/ Upsert(p) \/ MarkProcessed(p) \/ Commit(p)

Next ==
  \/ \E i \in Row : Enqueue(i)
  \/ \E p \in Drainer : StartScript(p) \/ Step(p) \/ Error(p) \/ DeadlockVictim(p)

Spec == Init /\ [][Next]_vars

\* A statement that is not waiting returns, and deadlock_timeout expires.
FairSpec ==
  /\ Spec
  /\ \A p \in Drainer : WF_vars(Step(p)) /\ WF_vars(DeadlockVictim(p))

-----------------------------------------------------------------------------
(* Properties. *)

\* Every variable has its type, and the open transactions are where their locals
\* say: buckets are left to write in the upsert only, rows are claimed from the claim
\* to the commit.
TypeOK ==
  /\ status \in [Row -> {"absent", "pending", "processing", "processed"}]
  /\ DOMAIN rollup \subseteq Bucket /\ rollup \in [DOMAIN rollup -> Int]
  /\ errors \in 0..MaxErrors
  /\ pc \in [Drainer -> {"off", "recover", "drain", "upsert", "mark", "commit",
                         "done", "exited"}]
  /\ claimed \in [Drainer -> SUBSET Row]
  /\ mark \in [Drainer -> {"pending", "processing", "processed"}]
  /\ todo \in [Drainer -> SUBSET Bucket]
  /\ next \in [Drainer -> Bucket \cup {NoBucket}]
  /\ wrote \in [Drainer -> [Bucket -> Int]]
  /\ asked \in [Drainer -> SUBSET Row]
  /\ \A p \in Drainer :
       /\ (pc[p] = "upsert") = (todo[p] # {}) /\ (todo[p] # {} => next[p] \in todo[p])
       /\ (pc[p] \in {"upsert", "mark", "commit"}) = (claimed[p] # {})

\* Each row is counted exactly once, when it becomes processed: at every moment a
\* bucket is the sum of the rows marked processed, whatever drains overlap, fail or
\* deadlock (README.md:17).
RolledUpOnce ==
  \A b \in Bucket :
    Total(b) = MapThenSumSet(LAMBDA i : DeltaOf[i],
                             {i \in Row : BucketOf[i] = b /\ status[i] = "processed"})

\* processing is seen by nobody: it is written and overwritten in one transaction,
\* so recoverStaleRtpOutbox never has a row to bring back and never brings back one
\* that is counted.
NothingLeftProcessing == \A i \in Row : status[i] # "processing"

\* Two open drains never hold the same row.
ClaimsDisjoint == \A p, q \in Drainer : p # q => claimed[p] \cap claimed[q] = {}

\* When a script's drain is over and it goes on to read the report (README.md:217), the
\* rows that were there when it began are in it, or are held by another drain that has
\* not committed: never does it end over a row that it could have claimed.
ScriptMissesOnlyHeld ==
  [][\A p \in Script : pc[p] # "done" /\ pc'[p] = "done" =>
       \A i \in asked[p] :
         status[i] = "processed" \/ \E q \in Drainer \ {p} : i \in claimed[q]]_vars

\* A bucket shows the removal of a bet it has not counted, and so too little, only if
\* another drain held the bet when the removal was claimed: ids are claimed in their
\* order (rtp-outbox.ts:63).
RemovalOvertakesOnlyHeld ==
  [][\A p \in Drainer : \A i \in claimed'[p] \ claimed[p] : \A j \in Undoes[i] :
       status[j] = "processed" \/ \E q \in Drainer : j \in claimed'[q]]_vars

\* Overlapping drains, retries after a failure and deadlocks look like batches
\* counted one after another, each at once and each row once.
Rollup == INSTANCE AtomicRollup WITH
  committed <- Committed, counted <- {i \in Row : status[i] = "processed"}, totals <- rollup

CountsAtomically == Rollup!Spec

\* Every row a wallet transaction committed is rolled up in the end (README.md:104).
EventuallyRolledUp == \A i \in Row : status[i] = "pending" ~> status[i] = "processed"

\* Every drain that has claimed rows ends, deadlocks included.
DrainsEnd == \A p \in Drainer : claimed[p] # {} ~> claimed[p] = {}

=============================================================================
