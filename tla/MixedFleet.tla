----------------------------- MODULE MixedFleet -----------------------------
(***************************************************************************)
(* The Rust service (rust-service/src) beside the TypeScript one, on one    *)
(* database.  Its processor.rs runs the statements of processor.ts, and     *)
(* differs from it in three things: a time has microseconds, an amount is   *)
(* looked at after the claim and not before the transaction, and the        *)
(* reversed original is found by the very time that was read.               *)
(***************************************************************************)
EXTENDS BetProcessor

CONSTANT RustWorker   \* the executions that run in the Rust service

ASSUME RustAssumption == RustWorker \subseteq Worker

VARIABLE micro  \* tx_ids of the claims whose time is finer than a millisecond

TsWorker == Worker \ RustWorker
fleet == <<vars, micro>>

-----------------------------------------------------------------------------
(* The TypeScript service.                                                   *)

\* Seeded bug: the time is sent in the server's zone.
FoundNothing(w) == {}

\* UPDATE actions ... AND created_at = $3: $3 was a Date, which ends at milliseconds.
Found(w) == {a \in Reversed(w) : a.tx \notin micro}

TsStep(w) ==
  /\ \/ LockAccount(w) \/ Claim(w) \/ ProcessBetOrWin(w) \/ RefuseBetOrWin(w) \/ Undo(w)
     \/ Intend(w, Found(w))
     \/ Commit(w)
  /\ UNCHANGED micro

-----------------------------------------------------------------------------
(* The Rust service.                                                         *)

\* claim_action: what it inserts has the time of Utc::now().
RustClaim(w) ==
  /\ Claim(w)
  /\ \E fine \in SUBSET (own'[w].registry \ own[w].registry) :
       micro' = micro \cup {r.tx : r \in fine}

\* Seeded bug: process_bet_or_win does not look at the amount.
PositiveAnyway(w) == TRUE

Positive(w) == Cur(w).amount > 0

RustBetOrWin(w) ==
  /\ pc[w] = "work" /\ Positive(w)
  /\ ProcessBetOrWin(w) \/ RefuseBetOrWin(w)

\* By then the actions before it are written and the duplicates replayed.
RefuseAmount(w) ==
  /\ pc[w] = "work" /\ Cur(w).kind # "rollback"
  /\ ~Positive(w)
  /\ Fail(w, "bad_request")

RustRollback(w) == Undo(w) \/ Intend(w, Reversed(w))

RustStep(w) ==
  \/ RustClaim(w)
  \/ /\ LockAccount(w) \/ RustBetOrWin(w) \/ RefuseAmount(w) \/ RustRollback(w) \/ Commit(w)
     /\ UNCHANGED micro

-----------------------------------------------------------------------------
FleetInit == Init /\ micro = {}

\* What happens to either service, and the requests they take.
Outside ==
  /\ \/ Tick
     \/ \E r \in Request : Reject(r)
     \/ \E r \in Request : \E w \in TsWorker : Begin(w, r)
     \/ \E r \in Request : \E w \in RustWorker : Take(w, r)
     \/ \E w \in Worker : CommitUnheard(w) \/ Crash(w) \/ DeadlockVictim(w)
  /\ UNCHANGED micro

FleetNext ==
  \/ Outside
  \/ \E w \in TsWorker : TsStep(w)
  \/ \E w \in RustWorker : RustStep(w)

FleetSpec == FleetInit /\ [][FleetNext]_fleet

-----------------------------------------------------------------------------
(* Properties. *)

\* The times of the ledger's rows are of claims this system made.
FleetTypeOK == TypeOK /\ micro \subseteq Tx

\* rolled_back_by never names a rollback that reversed nothing, and of a reversed
\* original it is missing only if the Rust service recorded the original and the
\* TypeScript service reversed it (processor.ts:253, processor.rs:391).
MarksExplained ==
  /\ db.marks \subseteq {[id |-> r.orig, by |-> r.id] : r \in AppliedRollbacks}
  /\ \A r \in AppliedRollbacks :
       \/ [id |-> r.orig, by |-> r.id] \in db.marks
       \/ \E a \in db.actions : a.id = r.orig /\ a.tx \in micro

\* Whichever service takes a request, what it leaves in the ledger passes the CHECK on
\* amounts (schema.sql:50-54), though the Rust service has by then claimed the id.
AmountsPositive == \A a \in db.actions : a.kind # "rollback" => a.amount > 0

=============================================================================
