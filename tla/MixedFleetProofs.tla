-------------------------- MODULE MixedFleetProofs --------------------------
(* What BetProcessorProofs shows of one service holds of the two together:    *)
(* a step of the fleet is a step of BetProcessor but for three kinds.         *)
EXTENDS MixedFleet, WalletProofs

USE DEF Delivery, Tx, Minute

\* The Rust service takes what validation.ts refuses, the TypeScript service may
\* leave originals unmarked, and a request may fail on its amount.
LEMMA FleetSteps ==
  ASSUME FleetNext
  PROVE  \/ Next
         \/ \E w \in Worker : \E r \in Request : Take(w, r)
         \/ \E w \in Worker : \E found \in SUBSET Reversed(w) :
              Intend(w, found) /\ \A a \in Reversed(w) \ found : a.tx \in micro
         \/ \E w \in Worker : pc[w] # "idle" /\ Fail(w, "bad_request")
  <1>1. CASE Outside
    <2>1. ASSUME NEW r \in Request, NEW w \in TsWorker, Begin(w, r) PROVE Next
      BY <2>1 DEF TsWorker, Next
    <2>2. ASSUME NEW r \in Request, NEW w \in RustWorker, Take(w, r)
          PROVE  \E v \in Worker : \E q \in Request : Take(v, q)
      BY <2>2, RustAssumption
    <2> QED BY <1>1, <2>1, <2>2 DEF Outside, Next
  <1>2. ASSUME NEW w \in TsWorker, TsStep(w)
        PROVE  \/ Next
               \/ \E found \in SUBSET Reversed(w) :
                    Intend(w, found) /\ \A a \in Reversed(w) \ found : a.tx \in micro
    <2>1. /\ w \in Worker /\ Found(w) \in SUBSET Reversed(w)
          /\ \A a \in Reversed(w) \ Found(w) : a.tx \in micro
      BY DEF TsWorker, Found
    <2>2. CASE Intend(w, Found(w))
      BY <2>1, <2>2
    <2>3. CASE ~Intend(w, Found(w))
      BY <1>2, <2>1, <2>3 DEF TsStep, Step, Next
    <2> QED BY <2>2, <2>3
  <1>3. ASSUME NEW w \in RustWorker, RustStep(w)
        PROVE  Next \/ (pc[w] # "idle" /\ Fail(w, "bad_request"))
    <2>1. w \in Worker
      BY RustAssumption
    <2>2. CASE RefuseAmount(w)
      BY <2>2 DEF RefuseAmount
    <2>3. CASE ~RefuseAmount(w)
      <3>1. Step(w)
        BY <1>3, <2>3 DEF RustStep, RustClaim, RustBetOrWin, RustRollback,
                          InsertRollbackIntent, Step
      <3> QED BY <2>1, <3>1 DEF Next
    <2> QED BY <2>2, <2>3
  <1> QED BY <1>1, <1>2, <1>3, RustAssumption DEF FleetNext, TsWorker

\* Every step of the two services keeps the types and the keys.
LEMMA FleetStepKeeps ==
  TypeOK /\ KeysInv /\ [FleetNext]_fleet => (TypeOK /\ KeysInv)'
  <1> SUFFICES ASSUME TypeOK, KeysInv, [FleetNext]_fleet PROVE (TypeOK /\ KeysInv)'
    OBVIOUS
  <1>1. CASE Next \/ UNCHANGED vars
    BY <1>1, StepType, StepKeys
  <1>2. ASSUME NEW w \in Worker, NEW r \in Request, Take(w, r)
        PROVE  (TypeOK /\ KeysInv)'
    BY <1>2, TakeType, TakeKeys
  <1>3. ASSUME NEW w \in Worker, NEW found \in SUBSET Reversed(w), Intend(w, found)
        PROVE  (TypeOK /\ KeysInv)'
    BY <1>3, IntendType, IntendKeys
  <1>4. ASSUME NEW w \in Worker, pc[w] # "idle", Fail(w, "bad_request")
        PROVE  (TypeOK /\ KeysInv)'
    BY <1>4, FailType, EndTxKeys DEF Fail
  <1> QED BY <1>1, <1>2, <1>3, <1>4, FleetSteps DEF fleet

\* In every state of the two services the types and the keys hold.
LEMMA FleetKeeps == FleetSpec => [](TypeOK /\ KeysInv)
  <1>1. FleetInit => TypeOK /\ KeysInv
    BY InitType, InitKeys DEF FleetInit
  <1> QED BY <1>1, FleetStepKeeps, PTL DEF FleetSpec

\* With both services on one database no original is reversed twice, whichever of
\* them takes the requests.
THEOREM FleetRollbackOnce == FleetSpec => []ReversedOnce
  BY FleetKeeps, KeysReverseOnce, PTL

-----------------------------------------------------------------------------
(* Times and amounts. *)

\* A time of too fine a digit is one of a transaction of the other service.
LEMMA FleetStepMicro ==
  ASSUME TypeOK, micro \subseteq Tx, [FleetNext]_fleet, TypeOK'
  PROVE  micro' \subseteq Tx
  <1>1. ASSUME NEW w \in Worker, RustClaim(w) PROVE micro' \subseteq Tx
    <2>1. \A r \in own'[w].registry : r.tx \in Tx
      BY DEF TypeOK, Tables, RegistryRow
    <2> QED BY <1>1, <2>1 DEF RustClaim
  <1> QED BY <1>1, RustAssumption DEF FleetNext, Outside, TsStep, RustStep, fleet

\* The types, the balances that are never negative among them, hold of the fleet.
THEOREM FleetTypeCorrect == FleetSpec => []FleetTypeOK
  <1>1. FleetInit => FleetTypeOK
    BY InitType DEF FleetInit, FleetTypeOK
  <1>2. TypeOK /\ KeysInv /\ FleetTypeOK /\ [FleetNext]_fleet => FleetTypeOK'
    <2> SUFFICES ASSUME TypeOK, KeysInv, FleetTypeOK, [FleetNext]_fleet PROVE FleetTypeOK'
      OBVIOUS
    <2>1. TypeOK'
      BY FleetStepKeeps
    <2> QED BY <2>1, FleetStepMicro DEF FleetTypeOK
  <1> QED BY <1>1, <1>2, FleetKeeps, PTL DEF FleetSpec

-----------------------------------------------------------------------------
(* Amounts. *)

PositiveRows(rows) == \A a \in rows : a.kind # "rollback" => a.amount > 0

\* What an open transaction of either service has written, and what the TypeScript
\* service has validated.
AmountsInv ==
  /\ PositiveRows(db.actions)
  /\ \A w \in Worker : PositiveRows(own[w].actions)
  /\ \A w \in TsWorker : pc[w] # "idle" => Valid(job[w].req)

\* Steps that write no ledger row.
LEMMA SameRowsAmounts ==
  ASSUME AmountsInv, UNCHANGED db,
         \A w \in Worker : own'[w].actions = own[w].actions \/ own'[w].actions = {},
         \A w \in TsWorker : pc'[w] # "idle" =>
           Valid(job'[w].req) \/ (pc[w] # "idle" /\ job'[w] = job[w])
  PROVE  AmountsInv'
  BY DEF AmountsInv, PositiveRows, TsWorker

\* The end of a transaction.
LEMMA EndTxAmounts ==
  ASSUME TypeOK, AmountsInv, NEW w \in Worker, EndTx(w),
         db' = db \/ db' = Merge(db, own[w])
  PROVE  AmountsInv'
  <1>1. PositiveRows(db'.actions)
    BY DEF AmountsInv, PositiveRows, Merge
  <1>2. \A v \in Worker : PositiveRows(own'[v].actions)
    BY DEF TypeOK, EndTx, Empty, AmountsInv, PositiveRows
  <1>3. \A v \in TsWorker : pc'[v] # "idle" => Valid(job'[v].req)
    BY DEF TypeOK, EndTx, Goto, AmountsInv, TsWorker
  <1> QED BY <1>1, <1>2, <1>3 DEF AmountsInv

\* Steps inside a transaction.
LEMMA WriteAmounts ==
  ASSUME TypeOK, AmountsInv, NEW w \in Worker, pc[w] # "idle", NEW rows,
         Write(w, rows), PositiveRows(rows.actions), UNCHANGED <<db, job>>,
         \A v \in Worker : v # w => pc'[v] = pc[v]
  PROVE  AmountsInv'
  <1>1. \A v \in Worker : PositiveRows(own'[v].actions)
    BY DEF TypeOK, Write, Merge, AmountsInv, PositiveRows
  <1>2. \A v \in TsWorker : pc'[v] # "idle" => Valid(job'[v].req)
    BY DEF AmountsInv, TsWorker
  <1> QED BY <1>1, <1>2 DEF AmountsInv

\* Going to the next action moves no other worker.
LEMMA AdvanceOthers ==
  ASSUME TypeOK, NEW w \in Worker, Advance(w)
  PROVE  \A v \in Worker : v # w => pc'[v] = pc[v]
  BY DEF TypeOK, Advance, Goto

\* The claims write the registry, or end the transaction.
LEMMA ClaimAmounts ==
  ASSUME TypeOK, AmountsInv, NEW w \in Worker, Claim(w)
  PROVE  AmountsInv'
  <1>1. CASE ReplayDuplicate(w)
    <2>1. pc[w] # "idle" /\ UNCHANGED <<db, job, own>>
          /\ \A v \in Worker : v # w => pc'[v] = pc[v]
      BY <1>1, AdvanceOthers DEF ReplayDuplicate, tables
    <2> QED BY <2>1, SameRowsAmounts DEF TsWorker
  <1>2. CASE ClaimBlocked(w)
    <2>1. pc[w] # "idle" /\ UNCHANGED <<db, job, own>>
          /\ \A v \in Worker : v # w => pc'[v] = pc[v]
      BY <1>2 DEF TypeOK, ClaimBlocked, Goto, tables
    <2> QED BY <2>1, SameRowsAmounts DEF TsWorker
  <1>3. CASE ClaimFresh(w) \/ ClaimResumes(w)
    <2>1. PICK m : Register(w, m)
      BY <1>3 DEF ClaimFresh, ClaimResumes
    <2>2. pc[w] # "idle" /\ UNCHANGED <<db, job>>
      BY <1>3 DEF ClaimFresh, ClaimResumes, tables
    <2>3. PICK rows : Write(w, rows) /\ rows.actions = {}
      BY <2>1 DEF Register, Empty
    <2>4. \A v \in Worker : v # w => pc'[v] = pc[v]
      BY <2>1 DEF TypeOK, Register, Goto
    <2> QED BY <2>2, <2>3, <2>4, WriteAmounts DEF PositiveRows
  <1>4. CASE ClaimLost(w)
    BY <1>4, EndTxAmounts DEF ClaimLost, Fail
  <1> QED BY <1>1, <1>2, <1>3, <1>4 DEF Claim

\* A rollback's row has no amount to check.
LEMMA UndoAmounts ==
  ASSUME TypeOK, AmountsInv, NEW w \in Worker, Undo(w)
  PROVE  AmountsInv'
  <1>1. CASE AlreadyRolledBack(w)
    <2> DEFINE row == Row(w, 0, "noop_already_rolled_back")
    <2>1. PICK rows : rows.registry = {} /\ rows.actions = {row} /\ Write(w, rows)
      BY <1>1 DEF AlreadyRolledBack, Empty
    <2>4. row.kind = "rollback"
      BY <1>1 DEF AlreadyRolledBack, Row
    <2> HIDE DEF row
    <2>2. pc[w] # "idle" /\ UNCHANGED <<db, job>>
      BY <1>1 DEF AlreadyRolledBack, tables
    <2>3. \A v \in Worker : v # w => pc'[v] = pc[v]
      BY <1>1, AdvanceOthers DEF AlreadyRolledBack
    <2> QED BY <2>1, <2>2, <2>3, <2>4, WriteAmounts DEF PositiveRows
  <1>2. CASE NotRolledBack(w)
    <2>1. pc[w] # "idle" /\ UNCHANGED <<db, job, own>>
          /\ \A v \in Worker : v # w => pc'[v] = pc[v]
      BY <1>2 DEF TypeOK, NotRolledBack, Goto, tables, session
    <2> QED BY <2>1, SameRowsAmounts DEF TsWorker
  <1>3. CASE Tombstone(w) \/ OriginalNotApplied(w) \/ ReverseOriginal(w)
    <2>1. PICK delta, status : InsertRollbackAction(w, delta, status)
      BY <1>3 DEF Tombstone, OriginalNotApplied, ReverseOriginal
    <2>2. pc[w] = "find" /\ Cur(w).kind = "rollback"
      BY <1>3 DEF Tombstone, OriginalNotApplied, ReverseOriginal, TypeOK
    <2> DEFINE row == Row(w, delta, status)
    <2>3. PICK rows : rows.registry = {} /\ rows.actions = {row} /\ Write(w, rows)
      BY <2>1 DEF InsertRollbackAction, Empty
    <2>5. row.kind = "rollback"
      BY <2>2 DEF Row
    <2> HIDE DEF row
    <2>4. UNCHANGED <<db, job>> /\ \A v \in Worker : v # w => pc'[v] = pc[v]
      BY <2>1 DEF TypeOK, InsertRollbackAction, Goto, tables
    <2> QED BY <2>2, <2>3, <2>4, <2>5, WriteAmounts DEF PositiveRows
  <1>4. CASE RefuseRollback(w) \/ IntentViolation(w)
    BY <1>4, EndTxAmounts DEF RefuseRollback, IntentViolation, Fail
  <1> QED BY <1>1, <1>2, <1>3, <1>4 DEF Undo

\* The insert of an intent by either service.
LEMMA IntendAmounts ==
  ASSUME TypeOK, AmountsInv, NEW w \in Worker, NEW found, Intend(w, found)
  PROVE  AmountsInv'
  <1>1. PICK rows : rows.registry = {} /\ rows.actions = {} /\ Write(w, rows)
    BY DEF Intend, Empty
  <1>2. pc[w] # "idle" /\ UNCHANGED <<db, job>>
    BY DEF Intend, tables
  <1>3. \A v \in Worker : v # w => pc'[v] = pc[v]
    BY AdvanceOthers DEF Intend
  <1> QED BY <1>1, <1>2, <1>3, WriteAmounts DEF PositiveRows

\* The one action that writes an amount.
LEMMA BetOrWinAmounts ==
  ASSUME TypeOK, AmountsInv, NEW w \in Worker, Positive(w),
         ProcessBetOrWin(w) \/ RefuseBetOrWin(w)
  PROVE  AmountsInv'
  <1>1. CASE ProcessBetOrWin(w)
    <2> DEFINE row == Row(w, BetOrWinDelta(w),
                          IF Noop(w) THEN "noop_prerolled" ELSE "applied")
    <2>1. PICK rows : rows.registry = {} /\ rows.actions = {row} /\ Write(w, rows)
      BY <1>1 DEF ProcessBetOrWin, Empty
    <2>4. row.amount = Cur(w).amount
      BY DEF Row
    <2> HIDE DEF row
    <2>2. pc[w] # "idle" /\ UNCHANGED <<db, job>>
      BY <1>1 DEF ProcessBetOrWin, tables
    <2>3. \A v \in Worker : v # w => pc'[v] = pc[v]
      BY <1>1, AdvanceOthers DEF ProcessBetOrWin
    <2> QED BY <2>1, <2>2, <2>3, <2>4, WriteAmounts DEF PositiveRows, Positive
  <1>2. CASE RefuseBetOrWin(w)
    BY <1>2, EndTxAmounts DEF RefuseBetOrWin, Fail
  <1> QED BY <1>1, <1>2

\* The lock of the account.
LEMMA LockAccountAmounts ==
  ASSUME TypeOK, AmountsInv, NEW w \in Worker, LockAccount(w)
  PROVE  AmountsInv'
  <1>1. pc[w] # "idle" /\ UNCHANGED <<db, job, own>>
    BY DEF LockAccount, tables
  <1>2. \A v \in Worker : v # w => pc'[v] = pc[v]
    BY DEF TypeOK, LockAccount, Goto
  <1> QED BY <1>1, <1>2, SameRowsAmounts DEF TsWorker

\* The commit.
LEMMA CommitAmounts ==
  ASSUME TypeOK, AmountsInv, NEW w \in Worker, Commit(w) \/ CommitUnheard(w)
  PROVE  AmountsInv'
  BY EndTxAmounts DEF Commit, CommitUnheard, Persist

\* Every step of the two services.
LEMMA FleetStepAmounts ==
  TypeOK /\ AmountsInv /\ [FleetNext]_fleet => AmountsInv'
  <1> SUFFICES ASSUME TypeOK, AmountsInv, [FleetNext]_fleet PROVE AmountsInv'
    OBVIOUS
  <1>1. CASE Tick \/ (\E r \in Request : Reject(r)) \/ UNCHANGED vars
    <2>1. UNCHANGED <<db, own, pc, job>>
      BY <1>1 DEF Tick, Reject, vars, session
    <2> QED BY <2>1, SameRowsAmounts
  <1>2. ASSUME NEW w \in Worker, NEW r \in Request, Take(w, r), w \in TsWorker => Valid(r)
        PROVE  AmountsInv'
    <2>1. UNCHANGED <<db, own>>
      BY <1>2 DEF Take, session
    <2>2. \A v \in Worker : v # w => pc'[v] = pc[v] /\ job'[v] = job[v]
      BY <1>2 DEF TypeOK, Take, Goto
    <2>3. job'[w].req = r
      BY <1>2 DEF TypeOK, Take
    <2>4. \A v \in TsWorker : pc'[v] # "idle" =>
            Valid(job'[v].req) \/ (pc[v] # "idle" /\ job'[v] = job[v])
      <3> SUFFICES ASSUME NEW v \in TsWorker, pc'[v] # "idle"
                   PROVE  Valid(job'[v].req) \/ (pc[v] # "idle" /\ job'[v] = job[v])
        OBVIOUS
      <3>1. CASE v = w
        <4>1. Valid(r)
          BY <1>2, <3>1
        <4> QED BY <2>3, <3>1, <4>1
      <3>2. CASE v # w
        BY <2>2, <3>2 DEF TsWorker
      <3> QED BY <3>1, <3>2
    <2> QED BY <2>1, <2>4, SameRowsAmounts
  <1>3. ASSUME NEW w \in Worker, Crash(w) \/ DeadlockVictim(w) PROVE AmountsInv'
    BY <1>3, EndTxAmounts DEF Crash, DeadlockVictim, Fail
  <1>4. CASE Outside
    BY <1>1, <1>2, <1>3, <1>4, CommitAmounts, RustAssumption DEF Outside, Begin, TsWorker
  <1>5. ASSUME NEW w \in TsWorker, TsStep(w) PROVE AmountsInv'
    <2>1. w \in Worker
      BY DEF TsWorker
    <2>2. CASE ProcessBetOrWin(w) \/ RefuseBetOrWin(w)
      <3>1. pc[w] = "work" /\ Cur(w).kind # "rollback"
        BY <2>2 DEF ProcessBetOrWin, RefuseBetOrWin
      <3>2. pos[w] \in DOMAIN Actions(w) /\ Valid(job[w].req)
        BY <2>1, <3>1 DEF TypeOK, AtAction, AmountsInv
      <3>3. Positive(w)
        BY <3>1, <3>2 DEF Valid, Positive, Cur, Actions
      <3> QED BY <2>1, <2>2, <3>3, BetOrWinAmounts
    <2> QED BY <1>5, <2>1, <2>2, LockAccountAmounts, ClaimAmounts, UndoAmounts, IntendAmounts,
               CommitAmounts DEF TsStep
  <1>6. ASSUME NEW w \in RustWorker, RustStep(w) PROVE AmountsInv'
    <2>1. w \in Worker
      BY RustAssumption
    <2>2. CASE RefuseAmount(w)
      BY <2>1, <2>2, EndTxAmounts DEF RefuseAmount, Fail
    <2> QED BY <1>6, <2>1, <2>2, LockAccountAmounts, ClaimAmounts, BetOrWinAmounts, UndoAmounts,
               IntendAmounts, CommitAmounts DEF RustStep, RustClaim, RustBetOrWin, RustRollback
  <1> QED BY <1>1, <1>4, <1>5, <1>6 DEF FleetNext, fleet

\* No bet or win of nothing is ever in the ledger, though the Rust service looks at
\* the amount only after the claim: the table's CHECK is never what refuses it.
THEOREM FleetAmountsPositive == FleetSpec => []AmountsPositive
  <1>1. FleetInit => AmountsInv
    BY DEF FleetInit, Init, Empty, AmountsInv, PositiveRows, TsWorker
  <1>2. AmountsInv => AmountsPositive
    BY DEF AmountsInv, PositiveRows, AmountsPositive
  <1>3. TypeOK /\ KeysInv /\ AmountsInv /\ [FleetNext]_fleet => AmountsInv'
    BY FleetStepAmounts
  <1> QED BY <1>1, <1>2, <1>3, FleetKeeps, PTL DEF FleetSpec
-----------------------------------------------------------------------------
(* The marks of the two services.                                            *)

MarkOf(r) == [id |-> r.orig, by |-> r.id]

\* The original of r is marked, or has a time the UPDATE of the other service misses.
Explained(marks, rows, r) ==
  MarkOf(r) \in marks \/ \E a \in rows : a.id = r.orig /\ a.tx \in micro

ExplainedAt(w) ==
  /\ \A m \in own[w].marks : \E r \in own[w].actions : IsReversal(r) /\ m = MarkOf(r)
  /\ \A r \in own[w].actions : IsReversal(r) =>
       Announced(w, r) \/ Explained(own[w].marks, Visible(w).actions, r)

\* Of every reversal, committed or not, but one whose intent comes next.
ExplainedInv ==
  /\ \A m \in db.marks : \E r \in db.actions : IsReversal(r) /\ m = MarkOf(r)
  /\ \A r \in db.actions : IsReversal(r) => Explained(db.marks, db.actions, r)
  /\ \A w \in Worker : ExplainedAt(w)

\* What is explained stays so: no row, mark or fine time is taken back.
LEMMA StaysExplained ==
  ASSUME NEW marks, NEW rows, NEW more, NEW others, NEW r,
         marks \subseteq more, rows \subseteq others, micro \subseteq micro',
         Explained(marks, rows, r)
  PROVE  MarkOf(r) \in more \/ \E a \in others : a.id = r.orig /\ a.tx \in micro'
  BY DEF Explained

\* No step forgets a time of too fine a digit.
LEMMA MicroGrows == ASSUME [FleetNext]_fleet PROVE micro \subseteq micro'
  BY DEF FleetNext, Outside, TsStep, RustStep, RustClaim, fleet

\* Whatever one session does, the marks of another stay explained.
LEMMA OtherExplained ==
  ASSUME ExplainedInv, NEW w \in Worker, Alone(w), NEW v \in Worker, v # w,
         db.actions \subseteq db'.actions, micro \subseteq micro'
  PROVE  ExplainedAt(v)'
  <1>1. own'[v] = own[v] /\ pc'[v] = pc[v] /\ ExplainedAt(v)
    BY DEF Alone, ExplainedInv
  <1>2. Cur(v)' = Cur(v)
    BY AloneSame
  <1>3. Visible(v).actions \subseteq Visible(v)'.actions
    BY <1>1 DEF Visible, Merge
  <1>4. ASSUME NEW r \in own'[v].actions, IsReversal(r)
        PROVE  Announced(v, r)' \/ Explained(own[v].marks, Visible(v).actions, r)'
    <2>1. CASE Announced(v, r)
      BY <1>1, <1>2, <2>1 DEF Announced
    <2>2. CASE Explained(own[v].marks, Visible(v).actions, r)
      BY <1>1, <1>3, <2>2 DEF Explained
    <2> QED BY <1>1, <1>4, <2>1, <2>2 DEF ExplainedAt
  <1>5. \A m \in own'[v].marks : \E r \in own'[v].actions : IsReversal(r) /\ m = MarkOf(r)
    BY <1>1 DEF ExplainedAt
  <1> QED BY <1>4, <1>5 DEF ExplainedAt

\* A step of one session keeps ExplainedInv when it keeps its part of that session.
LEMMA SessionExplained ==
  ASSUME ExplainedInv, NEW w \in Worker, Alone(w), UNCHANGED db, ExplainedAt(w)',
         micro \subseteq micro'
  PROVE  ExplainedInv'
  <1>1. \A r \in db'.actions : IsReversal(r) => Explained(db.marks, db.actions, r)'
    BY DEF ExplainedInv, Explained
  <1>2. \A m \in db'.marks : \E r \in db'.actions : IsReversal(r) /\ m = MarkOf(r)
    BY DEF ExplainedInv
  <1>3. \A v \in Worker : ExplainedAt(v)'
    BY OtherExplained
  <1> QED BY <1>1, <1>2, <1>3 DEF ExplainedInv

\* A step that writes no reversal but one whose intent comes next.
LEMMA QuietExplained ==
  ASSUME ExplainedInv, NEW w \in Worker, Alone(w), UNCHANGED db, micro \subseteq micro',
         own'[w].marks = own[w].marks, NEW rows, own'[w].actions = own[w].actions \cup rows,
         pc[w] # "intend",
         \A q \in rows : IsReversal(q) => Announced(w, q)'
  PROVE  ExplainedInv'
  <1>1. ExplainedAt(w) /\ Visible(w).actions \subseteq Visible(w)'.actions
    BY DEF ExplainedInv, Visible, Merge
  <1>2. ASSUME NEW r \in own'[w].actions, IsReversal(r), ~Announced(w, r)'
        PROVE  Explained(own[w].marks, Visible(w).actions, r)'
    <2>1. Explained(own[w].marks, Visible(w).actions, r)
      BY <1>1, <1>2 DEF ExplainedAt, Announced
    <2> QED BY <1>1, <2>1 DEF Explained
  <1>3. \A m \in own'[w].marks : \E r \in own'[w].actions : IsReversal(r) /\ m = MarkOf(r)
    BY <1>1 DEF ExplainedAt
  <1>4. ExplainedAt(w)'
    BY <1>2, <1>3 DEF ExplainedAt
  <1> QED BY <1>4, SessionExplained

\* A step that writes no ledger row and no mark.
LEMMA SilentExplained ==
  ASSUME ExplainedInv, NEW w \in Worker, Alone(w), UNCHANGED db, micro \subseteq micro',
         own'[w].marks = own[w].marks, own'[w].actions = own[w].actions, pc[w] # "intend"
  PROVE  ExplainedInv'
  <1>1. PICK none : none = {}
    OBVIOUS
  <1>2. own'[w].actions = own[w].actions \cup none
    BY <1>1
  <1>3. \A q \in none : IsReversal(q) => Announced(w, q)'
    BY <1>1
  <1> QED BY <1>2, <1>3, QuietExplained

\* A transaction that ends without a commit keeps ExplainedInv.
LEMMA EndExplained ==
  ASSUME TypeOK, ExplainedInv, NEW w \in Worker, EndTx(w), UNCHANGED db, micro \subseteq micro'
  PROVE  ExplainedInv'
  <1>1. own'[w] = Empty /\ Alone(w)
    BY EndEffect
  <1>2. ExplainedAt(w)'
    BY <1>1, EmptyRows DEF ExplainedAt
  <1> QED BY <1>1, <1>2, SessionExplained

\* The ledger row of an action that inserts no intent is no reversal.
LEMMA RecordExplained ==
  ASSUME TypeOK, ExplainedInv, NEW w \in Worker, NEW row, Records(w, row), micro \subseteq micro'
  PROVE  ExplainedInv'
  <1>1. PICK rows : rows = {row}
    OBVIOUS
  <1>2. /\ Alone(w) /\ pc[w] # "intend" /\ UNCHANGED db
        /\ own'[w].actions = own[w].actions \cup rows /\ own'[w].marks = own[w].marks
    BY <1>1, RecordEffect
  <1>3. \A q \in rows : IsReversal(q) => Announced(w, q)'
    BY <1>1 DEF Records, Row, IsReversal, ProcessBetOrWin
  <1> QED BY <1>2, <1>3, QuietExplained

\* The row of a rollback that found no intent: the intent, and the mark, come next.
LEMMA UndoExplained ==
  ASSUME TypeOK, ExplainedInv, NEW w \in Worker, NEW delta, NEW status,
         Undoes(w, delta, status), micro \subseteq micro'
  PROVE  ExplainedInv'
  <1>1. PICK row : row = Row(w, delta, status)
    OBVIOUS
  <1>2. /\ Alone(w) /\ pc[w] = "find" /\ pc'[w] = "intend" /\ UNCHANGED <<db, job, pos>>
        /\ own'[w].actions = own[w].actions \cup {row}
        /\ own'[w].marks = own[w].marks
    BY <1>1, UndoEffect DEF Undoes
  <1>3. row.id = Cur(w).id /\ Cur(w)' = Cur(w)
    BY <1>1, <1>2, SameAction DEF Row
  <1>4. \A q \in {row} : Announced(w, q)'
    BY <1>2, <1>3 DEF Announced
  <1> QED BY <1>2, <1>4, QuietExplained

\* The intent: the UPDATE of either service finds the originals of the rollback just
\* recorded, but for those of too fine a time.
LEMMA IntendExplained ==
  ASSUME TypeOK, KeysInv, RowsInv, RollbacksInv, ExplainedInv, NEW w \in Worker, NEW found,
         Intend(w, found), found \subseteq Reversed(w),
         \A a \in Reversed(w) \ found : a.tx \in micro, micro \subseteq micro'
  PROVE  ExplainedInv'
  <1>1. /\ Alone(w) /\ pc[w] = "intend" /\ Advance(w) /\ UNCHANGED db
        /\ own'[w].actions = own[w].actions
        /\ own'[w].marks = own[w].marks \cup {[id |-> a.id, by |-> Cur(w).id] : a \in found}
    BY IntendEffect
  <1>2. ExplainedAt(w) /\ Visible(w).actions = Visible(w)'.actions
    BY <1>1 DEF ExplainedInv, Visible, Merge
  <1>3. \A q \in own[w].actions : q.id = Cur(w).id => q.orig = Cur(w).orig
    BY <1>1 DEF KeysInv, PendingAction
  <1>4. ASSUME NEW r \in own[w].actions, IsReversal(r), Announced(w, r)
        PROVE  Explained(own[w].marks, Visible(w).actions, r)'
    <2>1. Grounded(Visible(w), r) /\ Resolves(r) /\ r.id = Cur(w).id /\ r.orig = Cur(w).orig
      BY <1>3, <1>4 DEF RollbacksInv, RollbacksAt, Announced, IsReversal, Resolves
    <2>2. PICK a \in Visible(w).actions : a.id = r.orig
      BY <1>4, <2>1 DEF Grounded, IsReversal
    <2>3. Proj(a) \in Visible(w).registry /\ Proj(a).id = a.id /\ Proj(a).at = a.at
      BY VisibleRegistered DEF Proj
    <2>4. a \in Originals(w)
      BY <2>1, <2>2, <2>3 DEF Originals
    <2>5. a \in Reversed(w)
      BY <1>4, <2>1, <2>4 DEF Reversed, IsReversal
    <2>6. CASE a \in found
      BY <1>1, <2>1, <2>2, <2>6 DEF Explained, MarkOf
    <2>7. CASE a \notin found
      BY <1>2, <2>2, <2>5, <2>7 DEF Explained
    <2> QED BY <2>6, <2>7
  <1>5. ASSUME NEW r \in own[w].actions, IsReversal(r), ~Announced(w, r)
        PROVE  Explained(own[w].marks, Visible(w).actions, r)'
    BY <1>1, <1>2, <1>5 DEF ExplainedAt, Explained
  <1>6. ASSUME NEW m \in own'[w].marks
        PROVE  \E r \in own[w].actions : IsReversal(r) /\ m = MarkOf(r)
    <2>1. CASE m \in own[w].marks
      BY <1>2, <2>1 DEF ExplainedAt
    <2>2. CASE m \notin own[w].marks
      <3>1. PICK a \in found : m = [id |-> a.id, by |-> Cur(w).id]
        BY <1>1, <1>6, <2>2
      <3>2. a.id = Cur(w).orig /\ \E rb \in own[w].actions : rb.id = Cur(w).id /\ rb.status = "applied"
        BY <3>1 DEF Reversed, Originals
      <3>3. PICK rb \in own[w].actions : rb.id = Cur(w).id /\ rb.status = "applied"
        BY <3>2
      <3>4. PICK q \in own[w].actions : q.id = Cur(w).id /\ Resolves(q)
        BY <1>1 DEF RollbacksInv, RollbacksAt
      <3>5. rb = q
        BY <3>3, <3>4 DEF KeysInv, RowsClaimed
      <3> QED BY <1>3, <3>1, <3>2, <3>3, <3>4, <3>5 DEF IsReversal, Resolves, MarkOf
    <2> QED BY <2>1, <2>2
  <1>7. ExplainedAt(w)'
    BY <1>1, <1>4, <1>5, <1>6 DEF ExplainedAt
  <1> QED BY <1>1, <1>7, SessionExplained

\* The commit keeps ExplainedInv: what the session sees is what it leaves.
LEMMA PersistExplained ==
  ASSUME TypeOK, ExplainedInv, NEW w \in Worker, Persist(w), micro \subseteq micro'
  PROVE  ExplainedInv'
  <1>1. /\ Alone(w) /\ pc[w] = "commit" /\ own'[w] = Empty
        /\ db'.actions = db.actions \cup own[w].actions
        /\ db'.marks = db.marks \cup own[w].marks
    BY PersistEffect
  <1>2. ExplainedAt(w) /\ Visible(w).actions = db'.actions
    BY <1>1, VisibleRows DEF ExplainedInv
  <1>3. ASSUME NEW r \in db'.actions, IsReversal(r)
        PROVE  Explained(db.marks, db.actions, r)'
    <2>1. CASE r \in db.actions
      <3>1. Explained(db.marks, db.actions, r)
        BY <1>3, <2>1 DEF ExplainedInv
      <3> QED BY <1>1, <3>1 DEF Explained
    <2>2. CASE r \in own[w].actions
      <3>1. Explained(own[w].marks, Visible(w).actions, r)
        BY <1>1, <1>2, <1>3, <2>2 DEF ExplainedAt, Announced
      <3> QED BY <1>1, <1>2, <3>1 DEF Explained
    <2> QED BY <1>1, <2>1, <2>2
  <1>4. \A m \in db'.marks : \E r \in db'.actions : IsReversal(r) /\ m = MarkOf(r)
    BY <1>1, <1>2 DEF ExplainedInv, ExplainedAt
  <1>5. ExplainedAt(w)'
    BY <1>1, EmptyRows DEF ExplainedAt
  <1>6. \A v \in Worker : v # w => ExplainedAt(v)'
    BY <1>1, OtherExplained
  <1> QED BY <1>3, <1>4, <1>5, <1>6 DEF ExplainedInv

\* A claim, whether it inserts, waits or finds its action, keeps ExplainedInv.
LEMMA ClaimExplained ==
  ASSUME TypeOK, ExplainedInv, NEW w \in Worker, Claim(w), micro \subseteq micro'
  PROVE  ExplainedInv'
  <1>1. CASE ReplayDuplicate(w)
    <2>1. Alone(w) /\ pc[w] = "claim" /\ UNCHANGED <<db, own>>
      BY <1>1, ReplayEffect
    <2> QED BY <2>1, SilentExplained
  <1>2. CASE ClaimBlocked(w)
    <2>1. Alone(w) /\ pc[w] = "claim" /\ UNCHANGED <<db, own>>
      BY <1>2, BlockedEffect
    <2> QED BY <2>1, SilentExplained
  <1>3. CASE ClaimFresh(w) \/ ClaimResumes(w)
    <2>1. /\ Alone(w) /\ pc[w] # "intend" /\ UNCHANGED db
          /\ own'[w].actions = own[w].actions /\ own'[w].marks = own[w].marks
      BY <1>3, RegisterEffect
    <2> QED BY <2>1, SilentExplained
  <1>4. CASE ClaimLost(w)
    BY <1>4, EndExplained DEF ClaimLost, Fail
  <1> QED BY <1>1, <1>2, <1>3, <1>4 DEF Claim

\* A step of the fleet keeps ExplainedInv.
LEMMA FleetStepExplained ==
  ASSUME TypeOK, KeysInv, RowsInv, RollbacksInv, ExplainedInv, [FleetNext]_fleet
  PROVE  ExplainedInv'
  <1> micro \subseteq micro'
    BY MicroGrows
  <1>1. CASE Tick \/ (\E r \in Request : Reject(r)) \/ UNCHANGED vars
    <2>1. UNCHANGED <<db, own, pc, pos, job>>
      BY <1>1 DEF Tick, Reject, vars, session
    <2>2. \A v \in Worker : Cur(v)' = Cur(v) /\ Visible(v)' = Visible(v)
      BY <2>1, SameAction DEF Visible
    <2>3. \A r \in db'.actions : IsReversal(r) => Explained(db.marks, db.actions, r)'
      BY <2>1 DEF ExplainedInv, Explained
    <2>4. ASSUME NEW v \in Worker PROVE ExplainedAt(v)'
      <3>1. ExplainedAt(v)
        BY DEF ExplainedInv
      <3> QED BY <2>1, <2>2, <3>1 DEF ExplainedAt, Explained, Announced
    <2> QED BY <2>1, <2>3, <2>4 DEF ExplainedInv
  <1>2. ASSUME NEW w \in Worker, NEW r \in Request, Take(w, r) PROVE ExplainedInv'
    <2>1. Alone(w) /\ pc[w] # "intend" /\ UNCHANGED <<db, own>>
      BY <1>2, TakeEffect
    <2> QED BY <2>1, SilentExplained
  <1>3. ASSUME NEW w \in Worker, LockAccount(w) PROVE ExplainedInv'
    <2>1. Alone(w) /\ pc[w] # "intend" /\ UNCHANGED <<db, own>>
      BY <1>3, LockEffect
    <2> QED BY <2>1, SilentExplained
  <1>4. ASSUME NEW w \in Worker, Tombstone(w) \/ OriginalNotApplied(w) \/ ReverseOriginal(w)
        PROVE  ExplainedInv'
    BY <1>4, UndoCases, UndoExplained
  <1>5. ASSUME NEW w \in Worker,
               \/ RefuseBetOrWin(w) \/ RefuseRollback(w) \/ IntentViolation(w)
               \/ Crash(w) \/ DeadlockVictim(w) \/ Fail(w, "bad_request")
        PROVE  ExplainedInv'
    BY <1>5, EndExplained
       DEF RefuseBetOrWin, RefuseRollback, IntentViolation, Crash, DeadlockVictim, Fail
  <1>6. ASSUME NEW w \in Worker, ProcessBetOrWin(w) \/ AlreadyRolledBack(w)
        PROVE  ExplainedInv'
    BY <1>6, RecordExplained DEF Records
  <1>7. ASSUME NEW w \in Worker, NotRolledBack(w) PROVE ExplainedInv'
    <2>1. Alone(w) /\ pc[w] # "intend" /\ UNCHANGED <<db, own>>
      BY <1>7, LooksEffect
    <2> QED BY <2>1, SilentExplained
  <1>8. ASSUME NEW w \in Worker, Commit(w) \/ CommitUnheard(w) PROVE ExplainedInv'
    BY <1>8, PersistExplained DEF Commit, CommitUnheard
  <1>9. ASSUME NEW w \in Worker, InsertRollbackIntent(w) PROVE ExplainedInv'
    BY <1>9, IntendExplained DEF InsertRollbackIntent
  <1>10. CASE Next
    BY <1>1, <1>2, <1>3, <1>4, <1>5, <1>6, <1>7, <1>8, <1>9, <1>10, ClaimExplained
       DEF Next, Step, Undo, Begin
  <1> QED BY <1>1, <1>2, <1>5, <1>10, IntendExplained, FleetSteps DEF fleet

\* Both services write claims, rows and intents alike.
LEMMA FleetStepLedger ==
  ASSUME TypeOK, KeysInv, RowsInv, RollbacksInv, [FleetNext]_fleet
  PROVE  RowsInv' /\ RollbacksInv'
  <1>1. CASE Next \/ UNCHANGED vars
    BY <1>1, StepRows, StepRollbacks
  <1>2. ASSUME NEW w \in Worker, NEW r \in Request, Take(w, r) PROVE RowsInv' /\ RollbacksInv'
    BY <1>2, TakeRows, TakeRollbacks
  <1>3. ASSUME NEW w \in Worker, NEW found, Intend(w, found) PROVE RowsInv' /\ RollbacksInv'
    BY <1>3, IntendRows, IntendRollbacks
  <1>4. ASSUME NEW w \in Worker, Fail(w, "bad_request") PROVE RowsInv' /\ RollbacksInv'
    BY <1>4, EndRows, EndRollbacks DEF Fail
  <1> QED BY <1>1, <1>2, <1>3, <1>4, FleetSteps DEF fleet

\* rolled_back_by never names a rollback that reversed nothing, and is missing only where
\* the TypeScript service reversed what the Rust service recorded (processor.ts:253).
THEOREM FleetMarksExplained == FleetSpec => []MarksExplained
  <1> DEFINE Inv == TypeOK /\ KeysInv /\ RowsInv /\ RollbacksInv /\ ExplainedInv
  <1>1. FleetInit => Inv
    <2>1. FleetInit => ExplainedInv
      BY EmptyRows DEF FleetInit, Init, ExplainedInv, ExplainedAt
    <2> QED BY <2>1, InitType, InitKeys, InitRows, InitRollbacks DEF FleetInit
  <1>2. Inv /\ [FleetNext]_fleet => Inv'
    BY FleetStepKeeps, FleetStepLedger, FleetStepExplained
  <1>3. Inv => MarksExplained
    BY DEF ExplainedInv, Explained, MarkOf, MarksExplained, AppliedRollbacks, IsReversal
  <1> QED BY <1>1, <1>2, <1>3, PTL DEF FleetSpec

-----------------------------------------------------------------------------
(* One request at a time.                                                    *)

\* What WalletProofs says of a step holds of a step of the fleet.
FleetInv == WalletInv /\ ServedInv

\* A request that was not validated.
LEMMA TakeServed ==
  ASSUME FleetInv, NEW w \in Worker, NEW r \in Request, Take(w, r)
  PROVE  HomeInv' /\ PrivateInv' /\ RepeatsInv' /\ ServedInv'
  <1> USE DEF FleetInv, WalletInv, HouseInv
  <1>1. /\ Alone(w) /\ pc[w] = "idle" /\ pc'[w] = "lock"
        /\ UNCHANGED <<db, balance, own, held>>
    BY TakeEffect
  <1>2. HomeAt(w)'
    BY <1>1 DEF HomeInv, HomeAt
  <1>3. HomeInv'
    BY <1>1, <1>2, SessionHome
  <1>4. PrivateInv'
    BY <1>1, AwayPrivate
  <1>5. RepeatsInv'
    BY <1>1, QuietRepeats
  <1>6. ServedInv'
    BY <1>1, AwayServed DEF HasAccount
  <1> QED BY <1>3, <1>4, <1>5, <1>6

\* The intent, whatever the UPDATE that follows it finds.
LEMMA IntendAnyServed ==
  ASSUME FleetInv, NEW w \in Worker, NEW found, Intend(w, found)
  PROVE  HomeInv' /\ PrivateInv' /\ RepeatsInv' /\ ServedInv'
  <1> USE DEF FleetInv, WalletInv, HouseInv
  <1>1. /\ Alone(w) /\ pc[w] = "intend" /\ Advance(w) /\ UNCHANGED db
        /\ own'[w].actions = own[w].actions /\ own[w].intents \subseteq own'[w].intents
    BY IntendEffect
  <1>2. pc'[w] \in {"claim", "commit"}
    BY <1>1, AdvanceEffect DEF AtAction
  <1>3. PrivateInv'
    BY <1>1, <1>2, AwayPrivate
  <1>4. RepeatsInv'
    BY <1>1, QuietRepeats
  <1> QED BY <1>3, <1>4, IntendHome, IntendServed

\* The refusal of an amount.
LEMMA RefuseServed ==
  ASSUME OneAccountPerId, FleetInv, NEW w \in Worker, Fail(w, "bad_request")
  PROVE  HomeInv' /\ PrivateInv' /\ RepeatsInv' /\ ServedInv'
  <1> USE DEF FleetInv, WalletInv, HouseInv
  <1>1. EndTx(w) /\ UNCHANGED <<db, balance>>
    BY DEF Fail
  <1>2. Alone(w) /\ pc'[w] = "idle"
    BY <1>1, EndEffect
  <1>3. PrivateInv'
    BY <1>1, OtherPrivate DEF PrivateInv
  <1>4. ServedInv'
    BY <1>1, <1>2, AwayServed DEF HasAccount
  <1> QED BY <1>1, <1>3, <1>4, EndHome, EndRepeats

\* Every step of the fleet keeps FleetInv, and is a step of the wallet or none.
LEMMA FleetStepServed ==
  ASSUME OneAccountPerId, FleetInv, [FleetNext]_fleet
  PROVE  FleetInv' /\ [Wallet!Next]_<<Ledger, balance>>
  <1> USE DEF FleetInv, WalletInv, HouseInv
  <1>1. TypeOK' /\ KeysInv' /\ RowsInv' /\ RollbacksInv'
    BY FleetStepKeeps, FleetStepLedger
  <1>2. CASE Next \/ UNCHANGED vars
    BY <1>1, <1>2, StepMoney, StepHome, StepPrivate, StepRepeats, StepServed, StepWallet
  <1>3. ASSUME UNCHANGED <<db, balance>> PROVE UNCHANGED <<Ledger, balance>>
    BY <1>3 DEF Ledger
  <1>4. ASSUME NEW w \in Worker, NEW r \in Request, Take(w, r)
        PROVE  FleetInv' /\ [Wallet!Next]_<<Ledger, balance>>
    BY <1>1, <1>3, <1>4, TakeMoney, TakeServed, TakeEffect
  <1>5. ASSUME NEW w \in Worker, NEW found, Intend(w, found)
        PROVE  FleetInv' /\ [Wallet!Next]_<<Ledger, balance>>
    BY <1>1, <1>3, <1>5, IntendMoney, IntendAnyServed, IntendEffect
  <1>6. ASSUME NEW w \in Worker, Fail(w, "bad_request")
        PROVE  FleetInv' /\ [Wallet!Next]_<<Ledger, balance>>
    BY <1>1, <1>3, <1>6, EndMoney, RefuseServed DEF Fail
  <1> QED BY <1>2, <1>4, <1>5, <1>6, FleetSteps DEF fleet

\* With both services on one database, and each id used for one account, the ledger and
\* the balances change as if each request were served at once or not at all, whichever of
\* them takes it (processor.ts:30, processor.rs).
THEOREM FleetServesOneByOne ==
  ASSUME OneAccountPerId
  PROVE  FleetSpec => ServesOneByOne
  <1>1. FleetInit => FleetInv /\ Wallet!Init
    BY HouseKeeps, InitPrivate, InitRepeats, InitServed, InitWallet
       DEF FleetInit, FleetInv, WalletInv
  <1>2. FleetInv /\ [FleetNext]_fleet => FleetInv' /\ [Wallet!Next]_<<Ledger, balance>>
    BY FleetStepServed
  <1> QED BY <1>1, <1>2, PTL DEF FleetSpec, ServesOneByOne, Wallet!Spec
=============================================================================
