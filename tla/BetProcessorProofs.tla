------------------------- MODULE BetProcessorProofs -------------------------
(* Theorems about BetProcessor for all accounts, requests, workers, bodies   *)
(* and bounds.                                                               *)
EXTENDS BetProcessor, TLAPS

USE DEF Delivery, Tx, Minute

-----------------------------------------------------------------------------
(* Typing. *)

\* The action a worker is at is one that validation.ts lets through.
LEMMA CurType ==
  ASSUME TypeOK, NEW w \in Worker, pc[w] \in AtAction
  PROVE  /\ Cur(w) \in BetOrWin \cup Rollback
         /\ Cur(w).id \in ActionId /\ Cur(w).amount \in Nat
         /\ Cur(w).orig \in ActionId \cup {NoId}
         /\ Cur(w).kind \in {"bet", "win", "rollback"}
         /\ Cur(w).kind = "rollback" => Cur(w).orig \in ActionId
         /\ job[w] \in Delivery /\ Acct(w) \in Account
         /\ pos[w] \in 1..Len(Actions(w)) /\ Actions(w) \in Seq(BetOrWin \cup Rollback)
  <1>1. job[w] \in Delivery /\ pos[w] \in DOMAIN Actions(w)
    BY DEF TypeOK, AtAction
  <1>2. Body[job[w].req] \in [acct : Account, actions : Seq(BetOrWin \cup Rollback)]
    BY <1>1, BodyAssumption
  <1>3. Acct(w) \in Account /\ Actions(w) \in Seq(BetOrWin \cup Rollback)
    BY <1>2 DEF Acct, Actions
  <1>4. pos[w] \in 1..Len(Actions(w))
    BY <1>1, <1>3
  <1>5. Cur(w) \in BetOrWin \cup Rollback
    BY <1>3, <1>4 DEF Cur
  <1>6. /\ Cur(w).id \in ActionId /\ Cur(w).amount \in Nat
        /\ Cur(w).orig \in ActionId \cup {NoId}
        /\ Cur(w).kind \in {"bet", "win", "rollback"}
        /\ Cur(w).kind = "rollback" => Cur(w).orig \in ActionId
    BY <1>5 DEF BetOrWin, Rollback
  <1> QED BY <1>1, <1>3, <1>4, <1>5, <1>6

LEMMA MergeType ==
  ASSUME NEW s \in Tables, NEW t \in Tables
  PROVE  Merge(s, t) \in Tables
  BY DEF Merge, Tables

LEMMA EmptyType == Empty \in Tables
  BY DEF Empty, Tables

LEMMA DeltaType ==
  ASSUME NEW kind, NEW amount \in Nat
  PROVE  /\ AppliedDelta(kind, amount) \in Delta /\ RemovedDelta(kind, amount) \in Delta
         /\ RolledBackDelta(kind, amount) \in Delta /\ CountDelta \in Delta
  BY DEF AppliedDelta, RemovedDelta, RolledBackDelta, CountDelta, OfBet, OfWin, Delta

LEMMA TxListType ==
  /\ <<>> \in TxList
  /\ \A list \in TxList : \A id \in ActionId : \A tx \in Tx :
       Append(list, [id |-> id, tx |-> tx]) \in TxList
  <1>1. <<>> \in TxList
    BY DEF TxList
  <1>2. ASSUME NEW list \in TxList, NEW id \in ActionId, NEW tx \in Tx
        PROVE  Append(list, [id |-> id, tx |-> tx]) \in TxList
    BY DEF TxList
  <1> QED BY <1>1, <1>2

\* A transaction that ends leaves a well-typed session behind.
LEMMA EndTxType ==
  ASSUME TypeOK, NEW w \in Worker, EndTx(w),
         db' \in Tables, balance' \in [Account -> Nat], replies' \subseteq Reply,
         UNCHANGED <<minute, sent>>
  PROVE  TypeOK'
  <1>1. /\ pc' \in [Worker -> Place] /\ job' \in [Worker -> Delivery \cup {NoJob}]
        /\ pos' \in [Worker -> Nat] /\ bal' \in [Worker -> Nat]
        /\ held' \in [Worker -> SUBSET ActionId]
    BY DEF TypeOK, EndTx, Goto, Place
  <1>2. at' \in [Worker -> Minute] /\ minute' \in Minute
    BY BoundsAssumption DEF TypeOK, EndTx
  <1>3. own' \in [Worker -> Tables]
    BY EmptyType DEF TypeOK, EndTx
  <1>4. txs' \in [Worker -> TxList]
    BY TxListType DEF TypeOK, EndTx
  <1>5. ASSUME NEW v \in Worker
        PROVE  /\ pc'[v] # "idle" => job'[v] \in Delivery
               /\ pc'[v] \in AtAction => pos'[v] \in DOMAIN Actions(v)'
               /\ pc'[v] \in {"find", "intend"} => Cur(v)'.kind = "rollback"
    BY DEF TypeOK, EndTx, Goto, AtAction, Actions, Cur
  <1>6. sent' \in [Request -> Nat] /\ \A r \in Request : sent'[r] <= MaxSend[r]
    BY DEF TypeOK
  <1> QED BY <1>1, <1>2, <1>3, <1>4, <1>5, <1>6 DEF TypeOK

LEMMA FailType ==
  ASSUME TypeOK, NEW w \in Worker, pc[w] # "idle", NEW status \in
           {"bad_request", "insufficient_funds", "no_row", "unique_violation", "deadlock"},
         Fail(w, status)
  PROVE  TypeOK'
  <1>1. job[w].req \in Request /\ job[w].try \in Nat
    BY DEF TypeOK
  <1>2. replies' \subseteq Reply
    BY <1>1, TxListType DEF TypeOK, Fail, Answer, Reply
  <1> QED BY <1>2, EndTxType DEF Fail, TypeOK

\* The next action, or the end of the list, is in the list's bounds.
LEMMA AdvanceType ==
  ASSUME TypeOK, NEW w \in Worker, pc[w] \in AtAction, Advance(w), UNCHANGED job
  PROVE  /\ pc' \in [Worker -> Place] /\ pos' \in [Worker -> Nat]
         /\ \A v \in Worker : v # w => pc'[v] = pc[v] /\ pos'[v] = pos[v]
         /\ pc'[w] \in {"claim", "commit"}
         /\ pc'[w] = "claim" => pos'[w] \in DOMAIN Actions(w)
  <1>1. pos[w] \in 1..Len(Actions(w)) /\ Actions(w) \in Seq(BetOrWin \cup Rollback)
    BY CurType
  <1>2. Len(Actions(w)) \in Nat /\ DOMAIN Actions(w) = 1..Len(Actions(w))
    BY <1>1
  <1>3. CASE pos[w] < Len(Actions(w))
    <2>1. pc' = [pc EXCEPT ![w] = "claim"] /\ pos' = [pos EXCEPT ![w] = @ + 1]
      BY <1>3 DEF Advance, Goto
    <2>2. pos[w] + 1 \in 1..Len(Actions(w))
      BY <1>1, <1>2, <1>3
    <2> QED BY <1>2, <2>1, <2>2 DEF TypeOK, Place
  <1>4. CASE ~(pos[w] < Len(Actions(w)))
    BY <1>4 DEF TypeOK, Advance, Goto, Place
  <1> QED BY <1>3, <1>4

\* A statement of w that touches nothing but w's session keeps the types.
LEMMA SessionType ==
  ASSUME TypeOK, NEW w \in Worker, pc[w] # "idle", UNCHANGED tables,
         pc' \in [Worker -> Place], pos' \in [Worker -> Nat],
         bal' \in [Worker -> Nat], at' \in [Worker -> Minute],
         own' \in [Worker -> Tables], held' \in [Worker -> SUBSET ActionId],
         txs' \in [Worker -> TxList],
         \A v \in Worker : v # w => pc'[v] = pc[v] /\ pos'[v] = pos[v],
         pc'[w] \in AtAction => pos'[w] \in DOMAIN Actions(w),
         pc'[w] \in {"find", "intend"} => pos'[w] = pos[w] /\ Cur(w).kind = "rollback"
  PROVE  TypeOK'
  <1>1. ASSUME NEW v \in Worker
        PROVE  /\ pc'[v] # "idle" => job'[v] \in Delivery
               /\ pc'[v] \in AtAction => pos'[v] \in DOMAIN Actions(v)'
               /\ pc'[v] \in {"find", "intend"} => Cur(v)'.kind = "rollback"
    BY DEF TypeOK, tables, Actions, Cur
  <1> QED BY <1>1 DEF TypeOK, tables

LEMMA WriteType ==
  ASSUME TypeOK, NEW w \in Worker, NEW rows \in Tables, Write(w, rows)
  PROVE  own' \in [Worker -> Tables]
  <1>1. Merge(own[w], rows) \in Tables
    BY MergeType DEF TypeOK
  <1> QED BY <1>1 DEF TypeOK, Write

LEMMA PushType ==
  ASSUME TypeOK, NEW w \in Worker, pc[w] \in AtAction, NEW tx \in Tx, Push(w, tx)
  PROVE  txs' \in [Worker -> TxList]
  <1>1. Append(txs[w], [id |-> Cur(w).id, tx |-> tx]) \in TxList
    BY CurType, TxListType DEF TypeOK
  <1> QED BY <1>1 DEF TypeOK, Push

LEMMA MyTxType ==
  ASSUME TypeOK, NEW w \in Worker, pc[w] \in AtAction
  PROVE  MyTx(w) \in Tx
  BY CurType DEF MyTx

LEMMA RowType ==
  ASSUME TypeOK, NEW w \in Worker, pc[w] \in AtAction,
         NEW delta \in Int, NEW status \in Status
  PROVE  Row(w, delta, status) \in ActionRow
  BY CurType, MyTxType DEF TypeOK, Row, ActionRow

LEMMA VisibleType ==
  ASSUME TypeOK, NEW w \in Worker
  PROVE  Visible(w) \in Tables
  BY MergeType DEF Visible, TypeOK

-----------------------------------------------------------------------------
(* One lemma per action: it keeps the types. *)

\* A delivery counts against the bound of its request.
LEMMA SendType ==
  ASSUME TypeOK, NEW r \in Request, Send(r)
  PROVE  /\ sent' \in [Request -> Nat] /\ \A q \in Request : sent'[q] <= MaxSend[q]
         /\ sent[r] + 1 \in Nat
  <1>1. sent[r] \in Nat /\ MaxSend[r] \in Nat /\ sent[r] + 1 <= MaxSend[r]
    <2>1. sent \in [Request -> Nat]
      BY DEF TypeOK
    <2>2. MaxSend \in [Request -> Nat]
      BY BoundsAssumption
    <2>3. sent[r] < MaxSend[r]
      BY DEF Send
    <2> QED BY <2>1, <2>2, <2>3
  <1> QED BY <1>1 DEF TypeOK, Send

LEMMA RejectType ==
  ASSUME TypeOK, NEW r \in Request, Reject(r)
  PROVE  TypeOK'
  <1>1. /\ sent' \in [Request -> Nat] /\ \A q \in Request : sent'[q] <= MaxSend[q]
        /\ sent[r] + 1 \in Nat
    BY SendType DEF Reject
  <1>2. replies' \subseteq Reply
    BY <1>1, TxListType DEF TypeOK, Reject, Reply
  <1> QED BY <1>1, <1>2 DEF TypeOK, Reject, session, Actions, Cur

LEMMA TakeType ==
  ASSUME TypeOK, NEW w \in Worker, NEW r \in Request, Take(w, r)
  PROVE  TypeOK'
  <1>1. /\ sent' \in [Request -> Nat] /\ \A q \in Request : sent'[q] <= MaxSend[q]
        /\ sent[r] + 1 \in Nat
    BY SendType DEF Take
  <1>2. [req |-> r, try |-> sent[r] + 1] \in Delivery
    BY <1>1
  <1>3. pc' \in [Worker -> Place] /\ job' \in [Worker -> Delivery \cup {NoJob}]
    BY <1>2 DEF TypeOK, Take, Goto, Place
  <1>4. ASSUME NEW v \in Worker
        PROVE  /\ pc'[v] # "idle" => job'[v] \in Delivery
               /\ pc'[v] \in AtAction => pos'[v] \in DOMAIN Actions(v)'
               /\ pc'[v] \in {"find", "intend"} => Cur(v)'.kind = "rollback"
    BY <1>2 DEF TypeOK, Take, Goto, AtAction, Actions, Cur, session
  <1> QED BY <1>1, <1>3, <1>4 DEF TypeOK, Take, session

LEMMA LockAccountType ==
  ASSUME TypeOK, NEW w \in Worker, LockAccount(w)
  PROVE  TypeOK'
  <1>1. job[w] \in Delivery
    BY DEF TypeOK, LockAccount
  <1>2. Body[job[w].req] \in [acct : Account, actions : Seq(BetOrWin \cup Rollback)]
    BY <1>1, BodyAssumption
  <1>3. Acct(w) \in Account /\ Actions(w) \in Seq(BetOrWin \cup Rollback)
    BY <1>2 DEF Acct, Actions
  <1>4. bal' \in [Worker -> Nat]
    BY <1>3 DEF TypeOK, LockAccount
  <1>5. /\ pc' \in [Worker -> Place] /\ pos' \in [Worker -> Nat]
        /\ \A v \in Worker : v # w => pc'[v] = pc[v] /\ pos'[v] = pos[v]
        /\ pc'[w] \in {"claim", "commit"}
        /\ pc'[w] = "claim" => Actions(w) # <<>> /\ pos'[w] = 1
    <2>1. CASE Actions(w) = <<>>
      BY <2>1 DEF TypeOK, LockAccount, Goto, Place, AtAction
    <2>2. CASE Actions(w) # <<>>
      <3>1. pc' = [pc EXCEPT ![w] = "claim"] /\ pos' = [pos EXCEPT ![w] = 1]
        BY <2>2 DEF LockAccount, Goto
      <3> QED BY <2>2, <3>1 DEF TypeOK, Place
    <2> QED BY <2>1, <2>2
  <1>6. Actions(w) # <<>> => 1 \in DOMAIN Actions(w)
    BY <1>3
  <1> QED BY <1>4, <1>5, <1>6, SessionType DEF LockAccount, TypeOK, AtAction

LEMMA ReplayDuplicateType ==
  ASSUME TypeOK, NEW w \in Worker, ReplayDuplicate(w)
  PROVE  TypeOK'
  <1>1. pc[w] \in AtAction /\ pc[w] # "idle" /\ UNCHANGED job
    BY DEF ReplayDuplicate, AtAction, tables
  <1>2. PICK r \in Registered(w) : Push(w, r.tx)
    BY DEF ReplayDuplicate
  <1>3. r.tx \in Tx
    BY VisibleType DEF Registered, Tables, RegistryRow
  <1>4. txs' \in [Worker -> TxList]
    BY <1>1, <1>2, <1>3, PushType
  <1> QED BY <1>1, <1>4, AdvanceType, SessionType DEF ReplayDuplicate, TypeOK, AtAction

LEMMA RegisterType ==
  ASSUME TypeOK, NEW w \in Worker, pc[w] \in AtAction, NEW m \in Minute, Register(w, m)
  PROVE  /\ own' \in [Worker -> Tables] /\ pc' \in [Worker -> Place]
         /\ pc' = [pc EXCEPT ![w] = "work"]
  <1>1. [id |-> Cur(w).id, tx |-> MyTx(w), acct |-> Acct(w), at |-> m] \in RegistryRow
    BY CurType, MyTxType DEF RegistryRow
  <1>2. [Empty EXCEPT !.registry =
          {[id |-> Cur(w).id, tx |-> MyTx(w), acct |-> Acct(w), at |-> m]}] \in Tables
    BY <1>1 DEF Empty, Tables
  <1> QED BY <1>2, WriteType DEF Register, Goto, TypeOK, Place

LEMMA ClaimFreshType ==
  ASSUME TypeOK, NEW w \in Worker, ClaimFresh(w)
  PROVE  TypeOK'
  <1>1. pc[w] \in AtAction /\ pc[w] # "idle" /\ minute \in Minute
    BY DEF ClaimFresh, AtAction, TypeOK
  <1>2. at' \in [Worker -> Minute]
    BY <1>1 DEF ClaimFresh, TypeOK
  <1>3. pos[w] \in DOMAIN Actions(w)
    BY <1>1 DEF TypeOK
  <1> QED BY <1>1, <1>2, <1>3, RegisterType, SessionType DEF ClaimFresh, TypeOK

LEMMA ClaimBlockedType ==
  ASSUME TypeOK, NEW w \in Worker, ClaimBlocked(w)
  PROVE  TypeOK'
  <1>1. pc[w] \in AtAction /\ pc[w] # "idle" /\ minute \in Minute
    BY DEF ClaimBlocked, AtAction, TypeOK
  <1>2. at' \in [Worker -> Minute] /\ pc' \in [Worker -> Place]
    BY <1>1 DEF ClaimBlocked, TypeOK, Goto, Place
  <1>3. pos[w] \in DOMAIN Actions(w)
    BY <1>1 DEF TypeOK
  <1> QED BY <1>1, <1>2, <1>3, SessionType DEF ClaimBlocked, TypeOK, Goto

LEMMA ClaimResumesType ==
  ASSUME TypeOK, NEW w \in Worker, ClaimResumes(w)
  PROVE  TypeOK'
  <1>1. pc[w] \in AtAction /\ pc[w] # "idle" /\ at[w] \in Minute
    BY DEF ClaimResumes, AtAction, TypeOK
  <1>2. pos[w] \in DOMAIN Actions(w)
    BY <1>1 DEF TypeOK
  <1> QED BY <1>1, <1>2, RegisterType, SessionType DEF ClaimResumes, TypeOK

LEMMA ClaimLostType ==
  ASSUME TypeOK, NEW w \in Worker, ClaimLost(w)
  PROVE  TypeOK'
  BY FailType DEF ClaimLost

\* What the three inserts of ledger rows write.
LEMMA BetOrWinRowsType ==
  ASSUME TypeOK, NEW w \in Worker, pc[w] \in AtAction, NEW delta \in Int,
         NEW status \in Status, NEW d \in Delta
  PROVE  [Empty EXCEPT !.actions = {Row(w, delta, status)},
                       !.outbox = {Enqueued(MyTx(w), Acct(w), at[w], d)}] \in Tables
  <1>1. Row(w, delta, status) \in ActionRow
    BY RowType
  <1>2. Enqueued(MyTx(w), Acct(w), at[w], d) \in OutboxRow
    BY CurType, MyTxType DEF Enqueued, OutboxRow, TypeOK
  <1> QED BY <1>1, <1>2 DEF Empty, Tables

LEMMA RollbackRowsType ==
  ASSUME TypeOK, NEW w \in Worker, pc[w] \in AtAction, NEW delta \in Int,
         NEW status \in Status
  PROVE  [Empty EXCEPT !.actions = {Row(w, delta, status)}] \in Tables
  <1>1. Row(w, delta, status) \in ActionRow
    BY RowType
  <1> QED BY <1>1 DEF Empty, Tables

LEMMA ProcessBetOrWinType ==
  ASSUME TypeOK, NEW w \in Worker, ProcessBetOrWin(w)
  PROVE  TypeOK'
  <1>1. pc[w] \in AtAction /\ pc[w] # "idle" /\ UNCHANGED job /\ MyTx(w) \in Tx
    BY MyTxType DEF ProcessBetOrWin, AtAction, tables
  <1>2. BetOrWinDelta(w) \in Int /\ bal[w] \in Nat
    <2>1. Cur(w).amount \in Nat
      BY <1>1, CurType
    <2>2. -Cur(w).amount \in Int /\ Cur(w).amount \in Int /\ 0 \in Int
      BY <2>1
    <2> QED BY <2>2 DEF BetOrWinDelta, TypeOK
  <1>3. bal' \in [Worker -> Nat]
    <2>1. bal[w] + BetOrWinDelta(w) \in Nat
      BY <1>2 DEF ProcessBetOrWin, Affords
    <2> QED BY <2>1 DEF ProcessBetOrWin, TypeOK
  <1> DEFINE status == IF Noop(w) THEN "noop_prerolled" ELSE "applied"
             d == IF Noop(w) THEN RolledBackDelta(Cur(w).kind, Cur(w).amount)
                             ELSE AppliedDelta(Cur(w).kind, Cur(w).amount)
  <1>4. status \in Status /\ d \in Delta
    BY <1>1, CurType, DeltaType DEF Status
  <1>5. own' \in [Worker -> Tables]
    BY <1>1, <1>2, <1>4, BetOrWinRowsType, WriteType DEF ProcessBetOrWin
  <1>6. txs' \in [Worker -> TxList]
    BY <1>1, PushType DEF ProcessBetOrWin
  <1> QED BY <1>1, <1>3, <1>5, <1>6, AdvanceType, SessionType
       DEF ProcessBetOrWin, TypeOK, AtAction

LEMMA RefuseBetOrWinType ==
  ASSUME TypeOK, NEW w \in Worker, RefuseBetOrWin(w)
  PROVE  TypeOK'
  BY FailType DEF RefuseBetOrWin

LEMMA AlreadyRolledBackType ==
  ASSUME TypeOK, NEW w \in Worker, AlreadyRolledBack(w)
  PROVE  TypeOK'
  <1>1. pc[w] \in AtAction /\ pc[w] # "idle" /\ UNCHANGED job /\ MyTx(w) \in Tx
    BY MyTxType DEF AlreadyRolledBack, AtAction, tables
  <1>2. "noop_already_rolled_back" \in Status /\ 0 \in Int
    BY DEF Status
  <1>3. own' \in [Worker -> Tables]
    BY <1>1, <1>2, RollbackRowsType, WriteType DEF AlreadyRolledBack
  <1>4. txs' \in [Worker -> TxList]
    BY <1>1, PushType DEF AlreadyRolledBack
  <1> QED BY <1>1, <1>3, <1>4, AdvanceType, SessionType
       DEF AlreadyRolledBack, TypeOK, AtAction

LEMMA NotRolledBackType ==
  ASSUME TypeOK, NEW w \in Worker, NotRolledBack(w)
  PROVE  TypeOK'
  <1>1. pc[w] \in AtAction /\ pc[w] # "idle" /\ pos[w] \in DOMAIN Actions(w)
    BY DEF NotRolledBack, AtAction, TypeOK
  <1>2. pc' \in [Worker -> Place]
    BY DEF NotRolledBack, Goto, TypeOK, Place
  <1> QED BY <1>1, <1>2, SessionType DEF NotRolledBack, TypeOK, Goto, session

LEMMA OriginalType ==
  ASSUME TypeOK, NEW w \in Worker, NEW a \in Originals(w)
  PROVE  a \in ActionRow /\ a.id \in ActionId /\ a.delta \in Int /\ a.amount \in Nat
  BY VisibleType DEF Originals, Tables, ActionRow

LEMMA InsertRollbackActionType ==
  ASSUME TypeOK, NEW w \in Worker, pc[w] = "find", NEW delta \in Int, NEW status \in Status,
         bal[w] + delta >= 0, InsertRollbackAction(w, delta, status)
  PROVE  TypeOK'
  <1>1. pc[w] \in AtAction /\ pc[w] # "idle" /\ pos[w] \in DOMAIN Actions(w)
        /\ Cur(w).kind = "rollback"
    BY DEF AtAction, TypeOK
  <1>2. own' \in [Worker -> Tables]
    BY <1>1, RollbackRowsType, WriteType DEF InsertRollbackAction
  <1>3. held' \in [Worker -> SUBSET ActionId]
    BY OriginalType DEF InsertRollbackAction, TypeOK
  <1>4. bal[w] + delta \in Nat
    BY DEF TypeOK
  <1>5. bal' \in [Worker -> Nat] /\ pc' \in [Worker -> Place]
    BY <1>4 DEF InsertRollbackAction, TypeOK, Goto, Place
  <1> QED BY <1>1, <1>2, <1>3, <1>5, SessionType DEF InsertRollbackAction, TypeOK, Goto

LEMMA TombstoneType ==
  ASSUME TypeOK, NEW w \in Worker, Tombstone(w)
  PROVE  TypeOK'
  <1>1. bal[w] + 0 >= 0 /\ "noop_tombstone" \in Status
    BY DEF TypeOK, Status
  <1> QED BY <1>1, InsertRollbackActionType DEF Tombstone

LEMMA OriginalNotAppliedType ==
  ASSUME TypeOK, NEW w \in Worker, OriginalNotApplied(w)
  PROVE  TypeOK'
  <1>1. bal[w] + 0 >= 0 /\ "noop_original_not_applied" \in Status
    BY DEF TypeOK, Status
  <1> QED BY <1>1, InsertRollbackActionType DEF OriginalNotApplied

LEMMA ReverseOriginalType ==
  ASSUME TypeOK, NEW w \in Worker, ReverseOriginal(w)
  PROVE  TypeOK'
  <1>1. PICK a \in Originals(w) :
          Affords(w, -a.delta) /\ InsertRollbackAction(w, -a.delta, "applied")
    BY DEF ReverseOriginal
  <1>2. -a.delta \in Int /\ "applied" \in Status
    BY OriginalType DEF Status
  <1> QED BY <1>1, <1>2, InsertRollbackActionType DEF ReverseOriginal, Affords

LEMMA RefuseRollbackType ==
  ASSUME TypeOK, NEW w \in Worker, RefuseRollback(w)
  PROVE  TypeOK'
  BY FailType DEF RefuseRollback

LEMMA IntendType ==
  ASSUME TypeOK, NEW w \in Worker, NEW found \in SUBSET Reversed(w), Intend(w, found)
  PROVE  TypeOK'
  <1>1. pc[w] \in AtAction /\ pc[w] # "idle" /\ UNCHANGED job /\ MyTx(w) \in Tx
    BY MyTxType DEF Intend, AtAction, tables
  <1>2. Cur(w).orig \in ActionId /\ Cur(w).id \in ActionId /\ Acct(w) \in Account
    BY <1>1, CurType DEF TypeOK, Intend
  <1>3. Enqueued(MyTx(w), Acct(w), at[w], CountDelta) \in OutboxRow
    BY <1>1, <1>2, DeltaType DEF Enqueued, OutboxRow, TypeOK
  <1>4. ASSUME NEW a \in Reversed(w)
        PROVE  Removed(w, a) \in OutboxRow /\ [id |-> a.id, by |-> Cur(w).id] \in Mark
    <2>1. a \in ActionRow
      BY OriginalType DEF Reversed
    <2> QED BY <1>1, <1>2, <2>1, DeltaType DEF Removed, Enqueued, OutboxRow, ActionRow, Mark
  <1>5. [orig |-> Cur(w).orig, by |-> Cur(w).id] \in IntentRow
    BY <1>2 DEF IntentRow
  <1> DEFINE rows == [Empty EXCEPT
         !.intents = {[orig |-> Cur(w).orig, by |-> Cur(w).id]},
         !.marks = {[id |-> a.id, by |-> Cur(w).id] : a \in found},
         !.outbox = {Enqueued(MyTx(w), Acct(w), at[w], CountDelta)} \cup
                    {Removed(w, a) : a \in {b \in Reversed(w) : b.kind # "rollback"}}]
  <1>6. rows \in Tables
    BY <1>3, <1>4, <1>5 DEF Empty, Tables
  <1>7. own' \in [Worker -> Tables]
    BY <1>6, WriteType DEF Intend
  <1>8. txs' \in [Worker -> TxList]
    BY <1>1, PushType DEF Intend
  <1> QED BY <1>1, <1>7, <1>8, AdvanceType, SessionType
       DEF Intend, TypeOK, AtAction

LEMMA IntentViolationType ==
  ASSUME TypeOK, NEW w \in Worker, IntentViolation(w)
  PROVE  TypeOK'
  BY FailType DEF IntentViolation

LEMMA PersistType ==
  ASSUME TypeOK, NEW w \in Worker, Persist(w), replies' \subseteq Reply
  PROVE  TypeOK'
  <1>1. job[w] \in Delivery
    BY DEF TypeOK, Persist
  <1>2. Acct(w) \in Account
    BY <1>1, BodyAssumption DEF Acct
  <1>3. db' \in Tables
    BY MergeType DEF Persist, TypeOK
  <1>4. balance' \in [Account -> Nat]
    BY <1>2 DEF Persist, TypeOK
  <1> QED BY <1>3, <1>4, EndTxType DEF Persist

LEMMA CommitType ==
  ASSUME TypeOK, NEW w \in Worker, Commit(w) \/ CommitUnheard(w)
  PROVE  TypeOK'
  <1>1. job[w] \in Delivery
    BY DEF TypeOK, Commit, CommitUnheard, Persist
  <1>2. replies' \subseteq Reply
    BY <1>1 DEF Commit, CommitUnheard, Answer, Reply, TypeOK
  <1> QED BY <1>2, PersistType DEF Commit, CommitUnheard

LEMMA CrashType ==
  ASSUME TypeOK, NEW w \in Worker, Crash(w)
  PROVE  TypeOK'
  BY EndTxType DEF Crash, TypeOK

\* A transaction on a cycle of waits is open.
LEMMA DeadlockedOpen ==
  ASSUME NEW w \in Worker, Deadlocked(w)
  PROVE  pc[w] \in {"lock", "claimwait", "find", "intend"}
  BY DEF Deadlocked, Blockers

LEMMA DeadlockVictimType ==
  ASSUME TypeOK, NEW w \in Worker, DeadlockVictim(w)
  PROVE  TypeOK'
  BY FailType, DeadlockedOpen DEF DeadlockVictim

LEMMA TickType ==
  ASSUME TypeOK, Tick
  PROVE  TypeOK'
  <1>1. minute' \in Minute
    BY BoundsAssumption DEF TypeOK, Tick
  <1> QED BY <1>1 DEF TypeOK, Tick, session, Actions, Cur

LEMMA InitType == Init => TypeOK
  <1> SUFFICES ASSUME Init PROVE TypeOK
    OBVIOUS
  <1>1. /\ db \in Tables /\ balance \in [Account -> Nat] /\ own \in [Worker -> Tables]
        /\ txs \in [Worker -> TxList] /\ replies \subseteq Reply
    BY EmptyType, TxListType, SeedAssumption DEF Init
  <1>2. minute \in Minute /\ at \in [Worker -> Minute]
    BY BoundsAssumption DEF Init
  <1>3. sent \in [Request -> Nat] /\ \A r \in Request : sent[r] <= MaxSend[r]
    BY BoundsAssumption DEF Init
  <1>4. /\ pc \in [Worker -> Place] /\ job \in [Worker -> Delivery \cup {NoJob}]
        /\ pos \in [Worker -> Nat] /\ bal \in [Worker -> Nat]
        /\ held \in [Worker -> SUBSET ActionId]
        /\ \A w \in Worker : pc[w] = "idle"
    BY DEF Init, Place
  <1> QED BY <1>1, <1>2, <1>3, <1>4 DEF TypeOK, AtAction

LEMMA StepType == TypeOK /\ [Next]_vars => TypeOK'
  <1> SUFFICES ASSUME TypeOK, [Next]_vars PROVE TypeOK'
    OBVIOUS
  <1>1. ASSUME NEW w \in Worker, NEW r \in Request, Begin(w, r) PROVE TypeOK'
    BY <1>1, TakeType DEF Begin
  <1>2. ASSUME NEW w \in Worker, Step(w) PROVE TypeOK'
    BY <1>2, LockAccountType, ReplayDuplicateType, ClaimFreshType, ClaimBlockedType,
       ClaimResumesType, ClaimLostType, ProcessBetOrWinType, RefuseBetOrWinType,
       AlreadyRolledBackType, NotRolledBackType, TombstoneType, OriginalNotAppliedType,
       ReverseOriginalType, RefuseRollbackType, IntendType,
       IntentViolationType, CommitType
       DEF Step, Claim, Undo, InsertRollbackIntent
  <1>3. ASSUME NEW w \in Worker, CommitUnheard(w) \/ Crash(w) \/ DeadlockVictim(w)
        PROVE  TypeOK'
    BY <1>3, CommitType, CrashType, DeadlockVictimType
  <1>4. CASE Tick \/ \E r \in Request : Reject(r)
    BY <1>4, TickType, RejectType
  <1>5. CASE UNCHANGED vars
    BY <1>5 DEF vars, session, TypeOK, Actions, Cur
  <1> QED BY <1>1, <1>2, <1>3, <1>4, <1>5 DEF Next

\* The types hold at every moment: in particular no committed balance and no
\* balance an open transaction computes is negative.
THEOREM TypeCorrect == Spec => []TypeOK
  BY InitType, StepType, PTL DEF Spec

-----------------------------------------------------------------------------
(* The unique keys, by the invariant KeysInv. *)

\* What Write does to the five tables of the open transaction.
LEMMA WriteFields ==
  ASSUME TypeOK, NEW w \in Worker, NEW rows, Write(w, rows)
  PROVE  /\ own'[w].registry = own[w].registry \cup rows.registry
         /\ own'[w].actions = own[w].actions \cup rows.actions
         /\ own'[w].intents = own[w].intents \cup rows.intents
         /\ \A v \in Worker : v # w => own'[v] = own[v]
  BY DEF TypeOK, Write, Merge

\* The end of a transaction takes its rows away.
LEMMA EndTxKeys ==
  ASSUME TypeOK, KeysInv, NEW w \in Worker, EndTx(w), UNCHANGED db
  PROVE  KeysInv'
  <1>1. /\ own'[w] = Empty /\ pc'[w] = "idle"
        /\ \A v \in Worker : v # w => own'[v] = own[v] /\ pc'[v] = pc[v] /\ Cur(v)' = Cur(v)
    BY DEF TypeOK, EndTx, Goto, Cur, Actions
  <1>2. Empty.registry = {} /\ Empty.actions = {} /\ Empty.intents = {}
    BY DEF Empty
  <1>3. ClaimsExclusive'
    BY <1>1, <1>2 DEF KeysInv, ClaimsExclusive, Claims
  <1>4. IntentsExclusive'
    BY <1>1, <1>2 DEF KeysInv, IntentsExclusive, Intends
  <1>5. RowsClaimed'
    BY <1>1, <1>2 DEF KeysInv, RowsClaimed, Claims
  <1>6. PendingAction'
    BY <1>1, <1>2 DEF KeysInv, PendingAction, Claims
  <1>7. ReversalsBacked'
    BY <1>1, <1>2 DEF KeysInv, ReversalsBacked, IsReversal
  <1> QED BY <1>3, <1>4, <1>5, <1>6, <1>7 DEF KeysInv

\* A commit moves them to the tables: they were exclusive while open.
LEMMA PersistKeys ==
  ASSUME TypeOK, KeysInv, NEW w \in Worker, Persist(w)
  PROVE  KeysInv'
  <1>1. /\ own'[w] = Empty /\ pc'[w] = "idle"
        /\ \A v \in Worker : v # w => own'[v] = own[v] /\ pc'[v] = pc[v] /\ Cur(v)' = Cur(v)
    BY DEF TypeOK, Persist, EndTx, Goto, Cur, Actions
  <1>2. Empty.registry = {} /\ Empty.actions = {} /\ Empty.intents = {}
    BY DEF Empty
  <1>3. /\ db'.registry = db.registry \cup own[w].registry
        /\ db'.actions = db.actions \cup own[w].actions
        /\ db'.intents = db.intents \cup own[w].intents
    BY DEF Persist, Merge
  <1>4. ClaimsExclusive'
    BY <1>1, <1>2, <1>3 DEF KeysInv, ClaimsExclusive, Claims
  <1>5. IntentsExclusive'
    BY <1>1, <1>2, <1>3 DEF KeysInv, IntentsExclusive, Intends
  <1>6. RowsClaimed'
    BY <1>1, <1>2, <1>3 DEF KeysInv, RowsClaimed, ClaimsExclusive, Claims
  <1>7. PendingAction'
    BY <1>1, <1>2 DEF KeysInv, PendingAction, Claims
  <1>8. ReversalsBacked'
    BY <1>1, <1>2, <1>3 DEF KeysInv, ReversalsBacked, IsReversal, Persist
  <1> QED BY <1>4, <1>5, <1>6, <1>7, <1>8 DEF KeysInv

\* A statement that writes no row, away from the intent.
LEMMA QuietKeys ==
  ASSUME TypeOK, KeysInv, NEW w \in Worker, UNCHANGED <<db, own>>,
         pc[w] # "intend", pc'[w] \notin {"work", "find", "intend"},
         \A v \in Worker : v # w => pc'[v] = pc[v] /\ pos'[v] = pos[v] /\ job'[v] = job[v]
  PROVE  KeysInv'
  <1>1. \A v \in Worker : v # w => pc'[v] = pc[v] /\ Cur(v)' = Cur(v)
    BY DEF Cur, Actions
  <1>2. ClaimsExclusive' /\ IntentsExclusive' /\ RowsClaimed'
    BY DEF KeysInv, ClaimsExclusive, IntentsExclusive, RowsClaimed, Claims, Intends
  <1>3. PendingAction'
    BY <1>1 DEF KeysInv, PendingAction, Claims
  <1>4. ReversalsBacked'
    BY <1>1 DEF KeysInv, ReversalsBacked, IsReversal
  <1> QED BY <1>2, <1>3, <1>4 DEF KeysInv

\* A claim takes an id that no row and no open transaction has.
LEMMA RegisterKeys ==
  ASSUME TypeOK, KeysInv, NEW w \in Worker, pc[w] \in {"claim", "claimwait"},
         Registered(w) = {}, \A v \in Worker \ {w} : ~Claims(v, Cur(w).id),
         NEW m, Register(w, m), UNCHANGED <<db, job, pos>>
  PROVE  KeysInv'
  <1> DEFINE row == [id |-> Cur(w).id, tx |-> MyTx(w), acct |-> Acct(w), at |-> m]
  <1>1. /\ own'[w].registry = own[w].registry \cup {row}
        /\ own'[w].actions = own[w].actions /\ own'[w].intents = own[w].intents
        /\ \A v \in Worker : v # w => own'[v] = own[v]
    <2>1. PICK rows : rows = [Empty EXCEPT !.registry = {row}]
      OBVIOUS
    <2>2. rows.registry = {row} /\ rows.actions = {} /\ rows.intents = {}
      BY <2>1 DEF Empty
    <2>3. Write(w, rows)
      BY <2>1 DEF Register
    <2>4. /\ own'[w].registry = own[w].registry \cup rows.registry
          /\ own'[w].actions = own[w].actions \cup rows.actions
          /\ own'[w].intents = own[w].intents \cup rows.intents
          /\ \A v \in Worker : v # w => own'[v] = own[v]
      BY <2>3, WriteFields
    <2> QED BY <2>2, <2>4
  <1>2. /\ \A v \in Worker : Cur(v)' = Cur(v) /\ (v # w => pc'[v] = pc[v])
        /\ pc'[w] = "work"
    BY DEF TypeOK, Register, Goto, Cur, Actions
  <1>3. /\ \A r \in db.registry : r.id # Cur(w).id
        /\ \A r \in own[w].registry : r.id # Cur(w).id
    BY DEF Registered, Visible, Merge
  <1>4. row.id = Cur(w).id
    OBVIOUS
  <1> HIDE DEF row
  <1>5. ClaimsExclusive'
    BY <1>1, <1>3, <1>4 DEF KeysInv, ClaimsExclusive, Claims
  <1>6. IntentsExclusive'
    BY <1>1 DEF KeysInv, IntentsExclusive, Intends
  <1>7. RowsClaimed'
    BY <1>1 DEF KeysInv, RowsClaimed, Claims
  <1>8. PendingAction'
    BY <1>1, <1>2, <1>3, <1>4 DEF KeysInv, PendingAction, RowsClaimed, Claims
  <1>9. ReversalsBacked'
    BY <1>1, <1>2 DEF KeysInv, ReversalsBacked, IsReversal
  <1> QED BY <1>5, <1>6, <1>7, <1>8, <1>9 DEF KeysInv

\* The row of a bet, a win or a rollback that finds an intent.
LEMMA NoReversalKeys ==
  ASSUME TypeOK, KeysInv, NEW w \in Worker, pc[w] = "work",
         NEW row, row.id = Cur(w).id, ~IsReversal(row),
         NEW rows, rows.registry = {}, rows.actions = {row}, rows.intents = {},
         Write(w, rows), Advance(w), UNCHANGED <<db, job>>
  PROVE  KeysInv'
  <1>1. /\ own'[w].registry = own[w].registry /\ own'[w].intents = own[w].intents
        /\ own'[w].actions = own[w].actions \cup {row}
        /\ \A v \in Worker : v # w => own'[v] = own[v]
    <2>1. /\ own'[w].registry = own[w].registry \cup rows.registry
          /\ own'[w].actions = own[w].actions \cup rows.actions
          /\ own'[w].intents = own[w].intents \cup rows.intents
          /\ \A v \in Worker : v # w => own'[v] = own[v]
      BY WriteFields
    <2> QED BY <2>1
  <1>2. /\ \A v \in Worker : v # w => pc'[v] = pc[v] /\ Cur(v)' = Cur(v)
        /\ pc'[w] \in {"claim", "commit"}
    <2>1. pc[w] \in AtAction
      BY DEF AtAction
    <2> QED BY <2>1, AdvanceType DEF Cur, Actions
  <1>3. Claims(w, Cur(w).id) /\ \A a \in own[w].actions : a.id # Cur(w).id
    BY DEF KeysInv, PendingAction
  <1>4. ClaimsExclusive'
    BY <1>1 DEF KeysInv, ClaimsExclusive, Claims
  <1>5. IntentsExclusive'
    BY <1>1 DEF KeysInv, IntentsExclusive, Intends
  <1>6. RowsClaimed'
    BY <1>1, <1>3 DEF KeysInv, RowsClaimed, Claims
  <1>7. PendingAction'
    BY <1>1, <1>2 DEF KeysInv, PendingAction, Claims
  <1>8. ReversalsBacked'
    BY <1>1, <1>2 DEF KeysInv, ReversalsBacked, IsReversal
  <1> QED BY <1>4, <1>5, <1>6, <1>7, <1>8 DEF KeysInv

\* A rollback's row, written before its intent.
LEMMA InsertRollbackActionKeys ==
  ASSUME TypeOK, KeysInv, NEW w \in Worker, pc[w] = "find", NEW delta, NEW status,
         InsertRollbackAction(w, delta, status)
  PROVE  KeysInv'
  <1> DEFINE row == Row(w, delta, status)
  <1>1. /\ own'[w].registry = own[w].registry /\ own'[w].intents = own[w].intents
        /\ own'[w].actions = own[w].actions \cup {row}
        /\ \A v \in Worker : v # w => own'[v] = own[v]
    <2>1. PICK rows : rows = [Empty EXCEPT !.actions = {row}]
      OBVIOUS
    <2>2. rows.registry = {} /\ rows.actions = {row} /\ rows.intents = {}
      BY <2>1 DEF Empty
    <2>3. Write(w, rows)
      BY <2>1 DEF InsertRollbackAction
    <2>4. /\ own'[w].registry = own[w].registry \cup rows.registry
          /\ own'[w].actions = own[w].actions \cup rows.actions
          /\ own'[w].intents = own[w].intents \cup rows.intents
          /\ \A v \in Worker : v # w => own'[v] = own[v]
      BY <2>3, WriteFields
    <2> QED BY <2>2, <2>4
  <1>2. /\ \A v \in Worker : Cur(v)' = Cur(v) /\ (v # w => pc'[v] = pc[v])
        /\ pc'[w] = "intend" /\ db' = db
    BY DEF TypeOK, InsertRollbackAction, Goto, Cur, Actions, tables
  <1>3. row.id = Cur(w).id /\ row.orig = Cur(w).orig
    BY DEF Row
  <1>4. Claims(w, Cur(w).id) /\ \A a \in own[w].actions : a.id # Cur(w).id
    BY DEF KeysInv, PendingAction
  <1> HIDE DEF row
  <1>5. ClaimsExclusive'
    BY <1>1, <1>2 DEF KeysInv, ClaimsExclusive, Claims
  <1>6. IntentsExclusive'
    BY <1>1, <1>2 DEF KeysInv, IntentsExclusive, Intends
  <1>7. RowsClaimed'
    BY <1>1, <1>2, <1>3, <1>4 DEF KeysInv, RowsClaimed, Claims
  <1>8. PendingAction'
    BY <1>1, <1>2, <1>3, <1>4 DEF KeysInv, PendingAction, Claims
  <1>9. ReversalsBacked'
    BY <1>1, <1>2, <1>3 DEF KeysInv, ReversalsBacked, IsReversal
  <1> QED BY <1>5, <1>6, <1>7, <1>8, <1>9 DEF KeysInv

\* The intent goes in when no row and no open transaction has its key.
LEMMA IntendKeys ==
  ASSUME TypeOK, KeysInv, NEW w \in Worker, NEW found, Intend(w, found)
  PROVE  KeysInv'
  <1> DEFINE intent == [orig |-> Cur(w).orig, by |-> Cur(w).id]
  <1>1. /\ own'[w].registry = own[w].registry /\ own'[w].actions = own[w].actions
        /\ own'[w].intents = own[w].intents \cup {intent}
        /\ \A v \in Worker : v # w => own'[v] = own[v]
    <2>1. PICK rows : /\ rows.registry = {} /\ rows.actions = {} /\ rows.intents = {intent}
                      /\ Write(w, rows)
      BY DEF Intend, Empty
    <2>2. /\ own'[w].registry = own[w].registry \cup rows.registry
          /\ own'[w].actions = own[w].actions \cup rows.actions
          /\ own'[w].intents = own[w].intents \cup rows.intents
          /\ \A v \in Worker : v # w => own'[v] = own[v]
      BY <2>1, WriteFields
    <2> QED BY <2>1, <2>2
  <1>2. /\ \A v \in Worker : v # w => pc'[v] = pc[v] /\ Cur(v)' = Cur(v)
        /\ pc'[w] \in {"claim", "commit"} /\ db' = db
    <2>1. pc[w] \in AtAction /\ Advance(w) /\ UNCHANGED <<db, job>>
      BY DEF Intend, AtAction, tables
    <2> QED BY <2>1, AdvanceType DEF Cur, Actions
  <1>3. /\ \A i \in db.intents : i.orig # Cur(w).orig
        /\ \A i \in own[w].intents : i.orig # Cur(w).orig
    BY DEF Intend, HasIntent, Visible, Merge
  <1>4. \A v \in Worker : v # w => ~Intends(v, Cur(w).orig)
    BY DEF Intend, Blockers
  <1>5. pc[w] = "intend" /\ \A a \in own[w].actions : a.id = Cur(w).id => a.orig = Cur(w).orig
    BY DEF KeysInv, PendingAction, Intend
  <1>6. intent.orig = Cur(w).orig
    OBVIOUS
  <1>7. ReversalsBacked'
    BY <1>1, <1>2, <1>5 DEF KeysInv, ReversalsBacked, IsReversal
  <1> HIDE DEF intent
  <1>8. ClaimsExclusive'
    BY <1>1, <1>2 DEF KeysInv, ClaimsExclusive, Claims
  <1>9. IntentsExclusive'
    BY <1>1, <1>2, <1>3, <1>4, <1>6 DEF KeysInv, IntentsExclusive, Intends
  <1>10. RowsClaimed'
    BY <1>1, <1>2 DEF KeysInv, RowsClaimed, Claims
  <1>11. PendingAction'
    BY <1>1, <1>2 DEF KeysInv, PendingAction, Claims
  <1> QED BY <1>7, <1>8, <1>9, <1>10, <1>11 DEF KeysInv

LEMMA NotRolledBackKeys ==
  ASSUME TypeOK, KeysInv, NEW w \in Worker, NotRolledBack(w)
  PROVE  KeysInv'
  <1>1. /\ UNCHANGED <<db, own>> /\ pc[w] = "work" /\ pc'[w] = "find"
        /\ \A v \in Worker : Cur(v)' = Cur(v) /\ (v # w => pc'[v] = pc[v])
    BY DEF TypeOK, NotRolledBack, Goto, Cur, Actions, tables, session
  <1>2. ClaimsExclusive' /\ IntentsExclusive' /\ RowsClaimed'
    BY <1>1 DEF KeysInv, ClaimsExclusive, IntentsExclusive, RowsClaimed, Claims, Intends
  <1>3. PendingAction'
    BY <1>1 DEF KeysInv, PendingAction, Claims
  <1>4. ReversalsBacked'
    BY <1>1 DEF KeysInv, ReversalsBacked, IsReversal
  <1> QED BY <1>2, <1>3, <1>4 DEF KeysInv

\* The claim's own three outcomes write at most the registry row.
LEMMA ClaimKeys ==
  ASSUME TypeOK, KeysInv, NEW w \in Worker, Claim(w)
  PROVE  KeysInv'
  <1>1. CASE ReplayDuplicate(w)
    <2>1. pc[w] \in AtAction /\ pc[w] # "intend" /\ Advance(w) /\ UNCHANGED <<db, own, job>>
      BY <1>1 DEF ReplayDuplicate, AtAction, tables
    <2> QED BY <2>1, AdvanceType, QuietKeys
  <1>2. CASE ClaimFresh(w)
    BY <1>2, RegisterKeys DEF ClaimFresh, tables
  <1>3. CASE ClaimBlocked(w)
    <2>1. /\ pc[w] # "intend" /\ pc'[w] = "claimwait" /\ UNCHANGED <<db, own, job, pos>>
          /\ \A v \in Worker : v # w => pc'[v] = pc[v]
      BY <1>3 DEF TypeOK, ClaimBlocked, Goto, tables
    <2> QED BY <2>1, QuietKeys
  <1>4. CASE ClaimResumes(w)
    <2>1. \A v \in Worker \ {w} : ~Claims(v, Cur(w).id)
      BY <1>4 DEF ClaimResumes, Blockers
    <2> QED BY <1>4, <2>1, RegisterKeys DEF ClaimResumes, tables
  <1>5. CASE ClaimLost(w)
    BY <1>5, EndTxKeys DEF ClaimLost, Fail
  <1> QED BY <1>1, <1>2, <1>3, <1>4, <1>5 DEF Claim

\* A bet, a win, or a rollback that finds an intent.
LEMMA WorkKeys ==
  ASSUME TypeOK, KeysInv, NEW w \in Worker,
         ProcessBetOrWin(w) \/ AlreadyRolledBack(w)
  PROVE  KeysInv'
  <1>1. CASE ProcessBetOrWin(w)
    <2> DEFINE row == Row(w, BetOrWinDelta(w),
                          IF Noop(w) THEN "noop_prerolled" ELSE "applied")
    <2>1. row.id = Cur(w).id /\ ~IsReversal(row)
      BY <1>1 DEF Row, IsReversal, ProcessBetOrWin
    <2>2. PICK rows : /\ rows.registry = {} /\ rows.actions = {row} /\ rows.intents = {}
                      /\ Write(w, rows)
      BY <1>1 DEF ProcessBetOrWin, Empty
    <2>3. pc[w] = "work" /\ Advance(w) /\ UNCHANGED <<db, job>>
      BY <1>1 DEF ProcessBetOrWin, tables
    <2> QED BY <2>1, <2>2, <2>3, NoReversalKeys
  <1>2. CASE AlreadyRolledBack(w)
    <2> DEFINE row == Row(w, 0, "noop_already_rolled_back")
    <2>1. row.id = Cur(w).id /\ ~IsReversal(row)
      BY DEF Row, IsReversal
    <2>2. PICK rows : /\ rows.registry = {} /\ rows.actions = {row} /\ rows.intents = {}
                      /\ Write(w, rows)
      BY <1>2 DEF AlreadyRolledBack, Empty
    <2>3. pc[w] = "work" /\ Advance(w) /\ UNCHANGED <<db, job>>
      BY <1>2 DEF AlreadyRolledBack, tables
    <2> QED BY <2>1, <2>2, <2>3, NoReversalKeys
  <1> QED BY <1>1, <1>2

LEMMA TakeKeys ==
  ASSUME TypeOK, KeysInv, NEW w \in Worker, NEW r \in Request, Take(w, r)
  PROVE  KeysInv'
  <1>1. /\ pc[w] # "intend" /\ pc'[w] = "lock" /\ UNCHANGED <<db, own, pos>>
        /\ \A v \in Worker : v # w => pc'[v] = pc[v] /\ job'[v] = job[v]
    BY DEF TypeOK, Take, Goto, session
  <1> QED BY <1>1, QuietKeys

LEMMA StepKeys == TypeOK /\ KeysInv /\ [Next]_vars => KeysInv'
  <1> SUFFICES ASSUME TypeOK, KeysInv, [Next]_vars PROVE KeysInv'
    OBVIOUS
  <1>1. ASSUME NEW w \in Worker, NEW r \in Request, Begin(w, r) PROVE KeysInv'
    BY <1>1, TakeKeys DEF Begin
  <1>2. ASSUME NEW w \in Worker, LockAccount(w) PROVE KeysInv'
    <2>1. /\ pc[w] # "intend" /\ pc'[w] \in {"claim", "commit"} /\ UNCHANGED <<db, own, job>>
          /\ \A v \in Worker : v # w => pc'[v] = pc[v] /\ pos'[v] = pos[v]
      <3>1. CASE Actions(w) = <<>>
        BY <1>2, <3>1 DEF TypeOK, LockAccount, Goto, tables
      <3>2. CASE Actions(w) # <<>>
        BY <1>2, <3>2 DEF TypeOK, LockAccount, Goto, tables
      <3> QED BY <3>1, <3>2
    <2> QED BY <2>1, QuietKeys
  <1>3. ASSUME NEW w \in Worker, Tombstone(w) \/ OriginalNotApplied(w) \/ ReverseOriginal(w)
        PROVE  KeysInv'
    BY <1>3, InsertRollbackActionKeys DEF Tombstone, OriginalNotApplied, ReverseOriginal
  <1>4. ASSUME NEW w \in Worker,
               \/ RefuseBetOrWin(w) \/ RefuseRollback(w) \/ IntentViolation(w)
               \/ Crash(w) \/ DeadlockVictim(w)
        PROVE  KeysInv'
    BY <1>4, EndTxKeys
       DEF RefuseBetOrWin, RefuseRollback, IntentViolation, Crash, DeadlockVictim, Fail
  <1>5. ASSUME NEW w \in Worker, Step(w) PROVE KeysInv'
    BY <1>2, <1>3, <1>4, <1>5, ClaimKeys, WorkKeys, NotRolledBackKeys,
       IntendKeys, PersistKeys DEF Step, Undo, InsertRollbackIntent, Commit
  <1>6. ASSUME NEW w \in Worker, CommitUnheard(w) PROVE KeysInv'
    BY <1>6, PersistKeys DEF CommitUnheard
  <1>7. CASE Tick \/ (\E r \in Request : Reject(r)) \/ UNCHANGED vars
    <2>1. UNCHANGED <<db, own, pc, pos, job>>
      BY <1>7 DEF Tick, Reject, vars, session
    <2>2. \A v \in Worker : Cur(v)' = Cur(v)
      BY <2>1 DEF Cur, Actions
    <2> QED BY <2>1, <2>2 DEF KeysInv, ClaimsExclusive, IntentsExclusive, RowsClaimed,
                              PendingAction, ReversalsBacked, IsReversal, Claims, Intends
  <1> QED BY <1>1, <1>4, <1>5, <1>6, <1>7 DEF Next

LEMMA InitKeys == Init => KeysInv
  BY DEF Init, Empty, KeysInv, ClaimsExclusive, IntentsExclusive, RowsClaimed,
         PendingAction, ReversalsBacked, IsReversal, Claims, Intends

\* The registry and the intents keep their keys, and every reversal has its intent,
\* in the committed tables and in every open transaction.
THEOREM KeysHold == Spec => []KeysInv
  <1>1. Init => TypeOK /\ KeysInv
    BY InitType, InitKeys
  <1>2. TypeOK /\ KeysInv /\ [Next]_vars => (TypeOK /\ KeysInv)'
    BY StepType, StepKeys
  <1> QED BY <1>1, <1>2, PTL DEF Spec

LEMMA KeysReverseOnce == KeysInv => ReversedOnce
  <1> SUFFICES ASSUME KeysInv, NEW r \in AppliedRollbacks, NEW q \in AppliedRollbacks,
                      r.orig = q.orig
               PROVE  r = q
    BY DEF ReversedOnce
  <1>1. /\ [orig |-> r.orig, by |-> r.id] \in db.intents
        /\ [orig |-> q.orig, by |-> q.id] \in db.intents
    BY DEF AppliedRollbacks, KeysInv, ReversalsBacked, IsReversal
  <1>2. [orig |-> r.orig, by |-> r.id] = [orig |-> q.orig, by |-> q.id]
    BY <1>1 DEF KeysInv, IntentsExclusive
  <1>3. r.id = q.id
    BY <1>2
  <1> QED BY <1>3 DEF AppliedRollbacks, KeysInv, RowsClaimed

\* No original is reversed twice, whatever accounts, retries, crashes and
\* interleavings: two reversals would share an intent, hence an id, hence the row.
THEOREM RollbackOnce == Spec => []ReversedOnce
  BY KeysReverseOnce, KeysHold, PTL

=============================================================================
