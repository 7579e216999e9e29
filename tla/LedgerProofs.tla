---------------------------- MODULE LedgerProofs ----------------------------
(* What the transaction of a request (processor.ts, transaction.ts) keeps    *)
(* true of the ledger, of the registry of claims, of the balances and of the *)
(* answers, for all accounts, requests, workers, bodies and bounds.          *)
EXTENDS BetProcessorProofs, Sums

-----------------------------------------------------------------------------
(* What each kind of step does to the session it belongs to.                *)

\* A step of w leaves the other sessions alone.
Alone(w) ==
  \A v \in Worker \ {w} :
    /\ pc'[v] = pc[v] /\ job'[v] = job[v] /\ pos'[v] = pos[v] /\ bal'[v] = bal[v]
    /\ at'[v] = at[v] /\ own'[v] = own[v] /\ held'[v] = held[v] /\ txs'[v] = txs[v]

\* What a worker is at depends on its delivery and its position in it.
LEMMA SameAction ==
  ASSUME NEW v \in Worker, job'[v] = job[v], pos'[v] = pos[v]
  PROVE  /\ Cur(v)' = Cur(v) /\ Acct(v)' = Acct(v) /\ MyTx(v)' = MyTx(v)
         /\ Actions(v)' = Actions(v)
  BY DEF Cur, Acct, MyTx, Actions

\* Another session stays at its action.
LEMMA AloneSame ==
  ASSUME NEW w \in Worker, Alone(w), NEW v \in Worker, v # w
  PROVE  /\ Cur(v)' = Cur(v) /\ Acct(v)' = Acct(v) /\ MyTx(v)' = MyTx(v)
         /\ Actions(v)' = Actions(v)
  BY SameAction DEF Alone

\* What is added to the rows of a session that has not committed.
LEMMA WroteRows ==
  ASSUME TypeOK, NEW w \in Worker, NEW rows, Write(w, rows)
  PROVE  /\ own'[w].registry = own[w].registry \cup rows.registry
         /\ own'[w].actions = own[w].actions \cup rows.actions
         /\ own'[w].intents = own[w].intents \cup rows.intents
         /\ own'[w].marks = own[w].marks \cup rows.marks
         /\ own'[w].outbox = own[w].outbox \cup rows.outbox
         /\ \A v \in Worker : v # w => own'[v] = own[v]
  BY DEF TypeOK, Write, Merge

\* A session sees what is committed and what it has written.
LEMMA VisibleRows ==
  ASSUME NEW w \in Worker
  PROVE  /\ Visible(w).registry = db.registry \cup own[w].registry
         /\ Visible(w).actions = db.actions \cup own[w].actions
         /\ Visible(w).intents = db.intents \cup own[w].intents
  BY DEF Visible, Merge

\* A session begins with no row of its own.
LEMMA EmptyRows ==
  /\ Empty.registry = {} /\ Empty.actions = {} /\ Empty.intents = {}
  /\ Empty.marks = {} /\ Empty.outbox = {}
  BY DEF Empty

\* The end of a transaction.
LEMMA EndEffect ==
  ASSUME TypeOK, NEW w \in Worker, EndTx(w)
  PROVE  /\ Alone(w) /\ own'[w] = Empty /\ pc'[w] = "idle" /\ job'[w] = NoJob
         /\ bal'[w] = 0 /\ held'[w] = {} /\ txs'[w] = <<>>
  BY DEF TypeOK, EndTx, Goto, Alone

\* The beginning of a delivery: pool.connect and BEGIN.
LEMMA TakeEffect ==
  ASSUME TypeOK, NEW w \in Worker, NEW r \in Request, Take(w, r)
  PROVE  /\ Alone(w) /\ pc[w] = "idle" /\ pc'[w] = "lock"
         /\ job'[w] = [req |-> r, try |-> sent[r] + 1]
         /\ UNCHANGED <<db, balance, replies, own, bal, txs, held, pos, at>>
  BY DEF TypeOK, Take, Goto, Alone, session

\* To the next action, or to the UPDATE of the balance after the last.
LEMMA AdvanceEffect ==
  ASSUME TypeOK, NEW w \in Worker, pc[w] \in AtAction, Advance(w)
  PROVE  /\ \A v \in Worker \ {w} : pc'[v] = pc[v] /\ pos'[v] = pos[v]
         /\ \/ pc'[w] = "claim" /\ pos'[w] = pos[w] + 1 /\ pos[w] < Len(Actions(w))
            \/ pc'[w] = "commit" /\ pos'[w] = pos[w] /\ ~(pos[w] < Len(Actions(w)))
  <1>1. CASE pos[w] < Len(Actions(w))
    <2>1. pc' = [pc EXCEPT ![w] = "claim"] /\ pos' = [pos EXCEPT ![w] = @ + 1]
      BY <1>1 DEF Advance, Goto
    <2> QED BY <1>1, <2>1 DEF TypeOK
  <1>2. CASE ~(pos[w] < Len(Actions(w)))
    <2>1. pc' = [pc EXCEPT ![w] = "commit"] /\ pos' = pos
      BY <1>2 DEF Advance, Goto
    <2> QED BY <1>2, <2>1 DEF TypeOK
  <1> QED BY <1>1, <1>2

\* lockAccount: the account is free, and its balance is read.
LEMMA LockEffect ==
  ASSUME TypeOK, NEW w \in Worker, LockAccount(w)
  PROVE  /\ Alone(w) /\ pc[w] = "lock" /\ Blockers(w) = {}
         /\ \/ pc'[w] = "claim" /\ pos'[w] = 1
            \/ pc'[w] = "commit" /\ pos'[w] = pos[w]
         /\ bal'[w] = balance[Acct(w)]
         /\ UNCHANGED <<db, balance, sent, replies, job, at, own, held, txs>>
  <1>1. /\ pc[w] = "lock" /\ Blockers(w) = {}
        /\ bal' = [bal EXCEPT ![w] = balance[Acct(w)]]
        /\ UNCHANGED <<db, balance, sent, replies, job, at, own, held, txs>>
    BY DEF LockAccount, tables
  <1>2. CASE Actions(w) = <<>>
    <2>1. pc' = [pc EXCEPT ![w] = "commit"] /\ pos' = pos
      BY <1>2 DEF LockAccount, Goto
    <2> QED BY <1>1, <2>1 DEF TypeOK, Alone
  <1>3. CASE Actions(w) # <<>>
    <2>1. pc' = [pc EXCEPT ![w] = "claim"] /\ pos' = [pos EXCEPT ![w] = 1]
      BY <1>3 DEF LockAccount, Goto
    <2> QED BY <1>1, <2>1 DEF TypeOK, Alone
  <1> QED BY <1>2, <1>3

\* transactions.push.
LEMMA PushEffect ==
  ASSUME TypeOK, NEW w \in Worker, NEW tx, Push(w, tx)
  PROVE  /\ txs'[w] = Append(txs[w], [id |-> Cur(w).id, tx |-> tx])
         /\ \A v \in Worker \ {w} : txs'[v] = txs[v]
  BY DEF TypeOK, Push

\* A claim that finds its action registered.
LEMMA ReplayEffect ==
  ASSUME TypeOK, NEW w \in Worker, ReplayDuplicate(w)
  PROVE  /\ Alone(w) /\ pc[w] = "claim" /\ Advance(w)
         /\ \E r \in Registered(w) : txs'[w] = Append(txs[w], [id |-> Cur(w).id, tx |-> r.tx])
         /\ UNCHANGED <<db, balance, sent, replies, job, bal, at, own, held>>
  <1>1. /\ pc[w] = "claim" /\ Advance(w) /\ pc[w] \in AtAction
        /\ UNCHANGED <<db, balance, sent, replies, job, bal, at, own, held>>
    BY DEF ReplayDuplicate, tables, AtAction
  <1>2. PICK r \in Registered(w) : Push(w, r.tx)
    BY DEF ReplayDuplicate
  <1>3. /\ txs'[w] = Append(txs[w], [id |-> Cur(w).id, tx |-> r.tx])
        /\ \A v \in Worker \ {w} : txs'[v] = txs[v]
    BY <1>2, PushEffect
  <1>4. Alone(w)
    BY <1>1, <1>3, AdvanceEffect DEF Alone
  <1> QED BY <1>1, <1>3, <1>4

\* A claim that meets the insert of a transaction that is open.
LEMMA BlockedEffect ==
  ASSUME TypeOK, NEW w \in Worker, ClaimBlocked(w)
  PROVE  /\ Alone(w) /\ pc[w] = "claim" /\ pc'[w] = "claimwait"
         /\ Registered(w) = {} /\ \E v \in Worker \ {w} : Claims(v, Cur(w).id)
         /\ UNCHANGED <<db, balance, sent, replies, job, pos, bal, own, held, txs>>
  BY DEF TypeOK, ClaimBlocked, Goto, Alone, tables

\* The row of the registry that a claim has inserted.
ClaimRow(w) == [id |-> Cur(w).id, tx |-> MyTx(w), acct |-> Acct(w), at |-> at[w]]

\* A claim that inserts its row.
LEMMA RegisterEffect ==
  ASSUME TypeOK, NEW w \in Worker, ClaimFresh(w) \/ ClaimResumes(w)
  PROVE  /\ Alone(w) /\ pc[w] \in {"claim", "claimwait"} /\ pc'[w] = "work"
         /\ Registered(w) = {} /\ \A v \in Worker \ {w} : ~Claims(v, Cur(w).id)
         /\ own'[w].registry = own[w].registry \cup {ClaimRow(w)'}
         /\ own'[w].actions = own[w].actions /\ own'[w].intents = own[w].intents
         /\ own'[w].marks = own[w].marks /\ own'[w].outbox = own[w].outbox
         /\ UNCHANGED <<db, balance, sent, replies, job, pos, bal, held, txs>>
  <1>1. PICK m : Register(w, m) /\ at' = [at EXCEPT ![w] = m]
    <2>1. CASE ClaimFresh(w)
      BY <2>1 DEF ClaimFresh
    <2>2. CASE ClaimResumes(w)
      BY <2>2 DEF ClaimResumes, TypeOK
    <2> QED BY <2>1, <2>2
  <1>2. /\ pc[w] \in {"claim", "claimwait"} /\ Registered(w) = {}
        /\ UNCHANGED <<db, balance, sent, replies, job, pos, bal, held, txs>>
    BY DEF ClaimFresh, ClaimResumes, tables
  <1>3. \A v \in Worker \ {w} : ~Claims(v, Cur(w).id)
    BY DEF ClaimFresh, ClaimResumes, Blockers
  <1>4. at'[w] = m /\ \A v \in Worker \ {w} : at'[v] = at[v]
    BY <1>1 DEF TypeOK
  <1>5. ClaimRow(w)' = [id |-> Cur(w).id, tx |-> MyTx(w), acct |-> Acct(w), at |-> m]
    BY <1>2, <1>4, SameAction DEF ClaimRow
  <1>6. PICK rows : rows = [Empty EXCEPT !.registry = {ClaimRow(w)'}]
    OBVIOUS
  <1>7. /\ rows.registry = {ClaimRow(w)'} /\ rows.actions = {} /\ rows.intents = {}
        /\ rows.marks = {} /\ rows.outbox = {}
    BY <1>6 DEF Empty
  <1>8. Write(w, rows) /\ pc' = [pc EXCEPT ![w] = "work"]
    BY <1>1, <1>5, <1>6 DEF Register, Goto
  <1>9. /\ own'[w].registry = own[w].registry \cup rows.registry
        /\ own'[w].actions = own[w].actions \cup rows.actions
        /\ own'[w].intents = own[w].intents \cup rows.intents
        /\ own'[w].marks = own[w].marks \cup rows.marks
        /\ own'[w].outbox = own[w].outbox \cup rows.outbox
        /\ \A v \in Worker : v # w => own'[v] = own[v]
    BY <1>8, WroteRows
  <1>10. pc'[w] = "work" /\ \A v \in Worker \ {w} : pc'[v] = pc[v]
    BY <1>8 DEF TypeOK
  <1>11. Alone(w)
    BY <1>2, <1>4, <1>9, <1>10 DEF Alone
  <1> QED BY <1>2, <1>3, <1>7, <1>9, <1>10, <1>11

\* A bet, a win, or a rollback that finds an intent: one ledger row and the next action.
Records(w, row) ==
  \/ ProcessBetOrWin(w) /\ row = Row(w, BetOrWinDelta(w),
                                     IF Noop(w) THEN "noop_prerolled" ELSE "applied")
  \/ AlreadyRolledBack(w) /\ row = Row(w, 0, "noop_already_rolled_back")

\* A bet, a win or a rollback done before: a ledger row with the tx_id of the claim.
LEMMA RecordEffect ==
  ASSUME TypeOK, NEW w \in Worker, NEW row, Records(w, row)
  PROVE  /\ Alone(w) /\ pc[w] = "work" /\ Advance(w)
         /\ txs'[w] = Append(txs[w], [id |-> Cur(w).id, tx |-> MyTx(w)])
         /\ bal'[w] = bal[w] + row.delta
         /\ own'[w].registry = own[w].registry
         /\ own'[w].actions = own[w].actions \cup {row}
         /\ own'[w].intents = own[w].intents /\ own'[w].marks = own[w].marks
         /\ UNCHANGED <<db, balance, sent, replies, job, at, held>>
  <1>1. PICK rows : /\ rows.registry = {} /\ rows.actions = {row} /\ rows.intents = {}
                    /\ rows.marks = {} /\ Write(w, rows)
    BY DEF Records, ProcessBetOrWin, AlreadyRolledBack, Empty
  <1>2. /\ own'[w].registry = own[w].registry \cup rows.registry
        /\ own'[w].actions = own[w].actions \cup rows.actions
        /\ own'[w].intents = own[w].intents \cup rows.intents
        /\ own'[w].marks = own[w].marks \cup rows.marks
        /\ \A v \in Worker : v # w => own'[v] = own[v]
    BY <1>1, WroteRows
  <1>3. /\ pc[w] = "work" /\ Advance(w) /\ pc[w] \in AtAction /\ Push(w, MyTx(w))
        /\ UNCHANGED <<db, balance, sent, replies, job, at, held>>
    BY DEF Records, ProcessBetOrWin, AlreadyRolledBack, tables, AtAction
  <1>4. bal'[w] = bal[w] + row.delta /\ \A v \in Worker \ {w} : bal'[v] = bal[v]
    <2>1. CASE ProcessBetOrWin(w) /\ row.delta = BetOrWinDelta(w)
      BY <2>1 DEF ProcessBetOrWin, TypeOK
    <2>2. CASE AlreadyRolledBack(w) /\ row.delta = 0
      BY <2>2 DEF AlreadyRolledBack, TypeOK
    <2> QED BY <2>1, <2>2 DEF Records, Row
  <1>5. /\ txs'[w] = Append(txs[w], [id |-> Cur(w).id, tx |-> MyTx(w)])
        /\ \A v \in Worker \ {w} : txs'[v] = txs[v]
    BY <1>3, PushEffect
  <1>6. Alone(w)
    BY <1>2, <1>3, <1>4, <1>5, AdvanceEffect DEF Alone
  <1> QED BY <1>1, <1>2, <1>3, <1>4, <1>5, <1>6

\* A rollback that finds no intent.
LEMMA LooksEffect ==
  ASSUME TypeOK, NEW w \in Worker, NotRolledBack(w)
  PROVE  /\ Alone(w) /\ pc[w] = "work" /\ pc'[w] = "find" /\ Cur(w).kind = "rollback"
         /\ ~HasIntent(w, Cur(w).orig)
         /\ UNCHANGED <<db, balance, sent, replies, job, pos, bal, at, own, held, txs>>
  BY DEF TypeOK, NotRolledBack, Goto, Alone, tables, session

\* A rollback that finds no intent: its row, before the intent.
LEMMA UndoEffect ==
  ASSUME TypeOK, NEW w \in Worker, pc[w] = "find", NEW delta, NEW status,
         InsertRollbackAction(w, delta, status)
  PROVE  /\ Alone(w) /\ pc'[w] = "intend" /\ bal'[w] = bal[w] + delta
         /\ held'[w] = held[w] \cup {a.id : a \in Originals(w)}
         /\ own'[w].registry = own[w].registry
         /\ own'[w].actions = own[w].actions \cup {Row(w, delta, status)}
         /\ own'[w].intents = own[w].intents /\ own'[w].marks = own[w].marks
         /\ own'[w].outbox = own[w].outbox
         /\ UNCHANGED <<db, balance, sent, replies, job, pos, at, txs>>
  <1>1. PICK row : row = Row(w, delta, status)
    OBVIOUS
  <1>2. PICK rows : /\ rows.registry = {} /\ rows.actions = {row} /\ rows.intents = {}
                    /\ rows.marks = {} /\ rows.outbox = {} /\ Write(w, rows)
    BY <1>1 DEF InsertRollbackAction, Empty
  <1>3. /\ own'[w].registry = own[w].registry \cup rows.registry
        /\ own'[w].actions = own[w].actions \cup rows.actions
        /\ own'[w].intents = own[w].intents \cup rows.intents
        /\ own'[w].marks = own[w].marks \cup rows.marks
        /\ own'[w].outbox = own[w].outbox \cup rows.outbox
        /\ \A v \in Worker : v # w => own'[v] = own[v]
    BY <1>2, WroteRows
  <1>4. /\ held' = [held EXCEPT ![w] = @ \cup {a.id : a \in Originals(w)}]
        /\ bal' = [bal EXCEPT ![w] = @ + delta] /\ pc' = [pc EXCEPT ![w] = "intend"]
        /\ UNCHANGED <<db, balance, sent, replies, job, pos, at, txs>>
    BY DEF InsertRollbackAction, tables, Goto
  <1>5. /\ held'[w] = held[w] \cup {a.id : a \in Originals(w)}
        /\ bal'[w] = bal[w] + delta /\ pc'[w] = "intend"
        /\ \A v \in Worker \ {w} : held'[v] = held[v] /\ bal'[v] = bal[v] /\ pc'[v] = pc[v]
    BY <1>4 DEF TypeOK
  <1>6. Alone(w)
    BY <1>3, <1>4, <1>5 DEF Alone
  <1> QED BY <1>1, <1>2, <1>3, <1>4, <1>5, <1>6

\* The intent, with the UPDATE of rolled_back_by when the original was there.
LEMMA IntendEffect ==
  ASSUME TypeOK, NEW w \in Worker, NEW found, Intend(w, found)
  PROVE  /\ Alone(w) /\ pc[w] = "intend" /\ Advance(w)
         /\ ~HasIntent(w, Cur(w).orig)
         /\ txs'[w] = Append(txs[w], [id |-> Cur(w).id, tx |-> MyTx(w)])
         /\ own'[w].registry = own[w].registry /\ own'[w].actions = own[w].actions
         /\ own'[w].intents = own[w].intents \cup {[orig |-> Cur(w).orig, by |-> Cur(w).id]}
         /\ own'[w].marks = own[w].marks \cup {[id |-> a.id, by |-> Cur(w).id] : a \in found}
         /\ UNCHANGED <<db, balance, sent, replies, job, bal, at, held>>
  <1>1. PICK intent : intent = [orig |-> Cur(w).orig, by |-> Cur(w).id]
    OBVIOUS
  <1>2. PICK marks : marks = {[id |-> a.id, by |-> Cur(w).id] : a \in found}
    OBVIOUS
  <1>3. PICK rows : /\ rows.registry = {} /\ rows.actions = {} /\ rows.intents = {intent}
                    /\ rows.marks = marks /\ Write(w, rows)
    BY <1>1, <1>2 DEF Intend, Empty
  <1>4. /\ own'[w].registry = own[w].registry \cup rows.registry
        /\ own'[w].actions = own[w].actions \cup rows.actions
        /\ own'[w].intents = own[w].intents \cup rows.intents
        /\ own'[w].marks = own[w].marks \cup rows.marks
        /\ \A v \in Worker : v # w => own'[v] = own[v]
    BY <1>3, WroteRows
  <1>5. /\ pc[w] = "intend" /\ Advance(w) /\ pc[w] \in AtAction /\ Push(w, MyTx(w))
        /\ ~HasIntent(w, Cur(w).orig)
        /\ UNCHANGED <<db, balance, sent, replies, job, bal, at, held>>
    BY DEF Intend, tables, AtAction
  <1>6. /\ txs'[w] = Append(txs[w], [id |-> Cur(w).id, tx |-> MyTx(w)])
        /\ \A v \in Worker \ {w} : txs'[v] = txs[v]
    BY <1>5, PushEffect
  <1>7. Alone(w)
    BY <1>4, <1>5, <1>6, AdvanceEffect DEF Alone
  <1> QED BY <1>1, <1>2, <1>3, <1>4, <1>5, <1>6, <1>7

\* The UPDATE of the balance and the commit.
LEMMA PersistEffect ==
  ASSUME TypeOK, NEW w \in Worker, Persist(w)
  PROVE  /\ Alone(w) /\ pc[w] = "commit" /\ pc'[w] = "idle" /\ own'[w] = Empty
         /\ txs'[w] = <<>> /\ job'[w] = NoJob
         /\ balance' = [balance EXCEPT ![Acct(w)] = bal[w]]
         /\ db'.registry = db.registry \cup own[w].registry
         /\ db'.actions = db.actions \cup own[w].actions
         /\ db'.intents = db.intents \cup own[w].intents
         /\ db'.marks = db.marks \cup own[w].marks
         /\ db'.outbox = db.outbox \cup own[w].outbox
  <1>1. EndTx(w) /\ db' = Merge(db, own[w])
    BY DEF Persist
  <1>2. /\ db'.registry = db.registry \cup own[w].registry
        /\ db'.actions = db.actions \cup own[w].actions
        /\ db'.intents = db.intents \cup own[w].intents
        /\ db'.marks = db.marks \cup own[w].marks
        /\ db'.outbox = db.outbox \cup own[w].outbox
    BY <1>1 DEF Merge
  <1> QED BY <1>1, <1>2, EndEffect DEF Persist

-----------------------------------------------------------------------------
(* The ledger and the registry hold the same claims.                         *)

Proj(a) == [id |-> a.id, tx |-> a.tx, acct |-> a.acct, at |-> a.at]

\* Between its claim and its row, an action is in the registry only.
Unwritten(w) == IF pc[w] \in {"work", "find"} THEN {ClaimRow(w)} ELSE {}

RowsAt(w) == own[w].registry = {Proj(a) : a \in own[w].actions} \cup Unwritten(w)

RowsInv == LedgerMatchesRegistry /\ \A w \in Worker : RowsAt(w)

\* The ledger row of an action has the key that its claim registered.
LEMMA ProjRow ==
  ASSUME NEW w, NEW delta, NEW status
  PROVE  Proj(Row(w, delta, status)) = ClaimRow(w)
  BY DEF Proj, Row, ClaimRow

\* The sessions a step does not belong to.
LEMMA OtherRows ==
  ASSUME RowsInv, NEW w \in Worker, Alone(w), NEW v \in Worker, v # w
  PROVE  RowsAt(v)'
  <1>1. own'[v] = own[v] /\ pc'[v] = pc[v] /\ at'[v] = at[v] /\ RowsAt(v)
    BY DEF Alone, RowsInv
  <1>2. ClaimRow(v)' = ClaimRow(v)
    BY <1>1, AloneSame DEF ClaimRow
  <1> QED BY <1>1, <1>2 DEF RowsAt, Unwritten

\* A step of one session keeps RowsInv when it keeps its part of that session.
LEMMA SessionRows ==
  ASSUME RowsInv, NEW w \in Worker, Alone(w), UNCHANGED db, RowsAt(w)'
  PROVE  RowsInv'
  BY OtherRows DEF RowsInv, LedgerMatchesRegistry

\* A step that writes no row and is not between a claim and its row.
LEMMA QuietRows ==
  ASSUME RowsInv, NEW w \in Worker, Alone(w), UNCHANGED db,
         own'[w].registry = own[w].registry, own'[w].actions = own[w].actions,
         pc[w] \notin {"work", "find"}, pc'[w] \notin {"work", "find"}
  PROVE  RowsInv'
  <1>1. RowsAt(w)'
    BY DEF RowsInv, RowsAt, Unwritten
  <1> QED BY <1>1, SessionRows

\* A transaction that ends without a commit keeps RowsInv.
LEMMA EndRows ==
  ASSUME TypeOK, RowsInv, NEW w \in Worker, EndTx(w), UNCHANGED db
  PROVE  RowsInv'
  <1>1. own'[w] = Empty /\ pc'[w] = "idle" /\ Alone(w)
    BY EndEffect
  <1>2. RowsAt(w)'
    BY <1>1, EmptyRows DEF RowsAt, Unwritten
  <1> QED BY <1>1, <1>2, SessionRows

\* The beginning of a delivery keeps RowsInv.
LEMMA TakeRows ==
  ASSUME TypeOK, RowsInv, NEW w \in Worker, NEW r \in Request, Take(w, r)
  PROVE  RowsInv'
  BY TakeEffect, QuietRows

\* A claim that inserts its row keeps RowsInv.
LEMMA RegisterRows ==
  ASSUME TypeOK, RowsInv, NEW w \in Worker, ClaimFresh(w) \/ ClaimResumes(w)
  PROVE  RowsInv'
  <1>1. /\ Alone(w) /\ pc[w] \in {"claim", "claimwait"} /\ pc'[w] = "work"
        /\ own'[w].registry = own[w].registry \cup {ClaimRow(w)'}
        /\ own'[w].actions = own[w].actions /\ UNCHANGED db
    BY RegisterEffect
  <1>2. own[w].registry = {Proj(a) : a \in own[w].actions}
    BY <1>1 DEF RowsInv, RowsAt, Unwritten
  <1>3. RowsAt(w)'
    BY <1>1, <1>2 DEF RowsAt, Unwritten
  <1> QED BY <1>1, <1>3, SessionRows

\* The row of an action takes the claim's place.
LEMMA InsertRows ==
  ASSUME RowsInv, NEW w \in Worker, Alone(w), UNCHANGED db,
         NEW row, Proj(row) = ClaimRow(w),
         own'[w].registry = own[w].registry, own'[w].actions = own[w].actions \cup {row},
         pc[w] \in {"work", "find"}, pc'[w] \notin {"work", "find"}
  PROVE  RowsInv'
  <1>1. own[w].registry = {Proj(a) : a \in own[w].actions} \cup {Proj(row)}
    BY DEF RowsInv, RowsAt, Unwritten
  <1>2. {Proj(a) : a \in own'[w].actions} = {Proj(a) : a \in own[w].actions} \cup {Proj(row)}
    OBVIOUS
  <1>3. RowsAt(w)'
    BY <1>1, <1>2 DEF RowsAt, Unwritten
  <1> QED BY <1>3, SessionRows

\* The ledger row of an action that inserts no intent keeps RowsInv.
LEMMA RecordRows ==
  ASSUME TypeOK, RowsInv, NEW w \in Worker, NEW row, Records(w, row)
  PROVE  RowsInv'
  <1>1. /\ Alone(w) /\ pc[w] = "work" /\ Advance(w) /\ UNCHANGED db
        /\ own'[w].registry = own[w].registry
        /\ own'[w].actions = own[w].actions \cup {row}
    BY RecordEffect
  <1>2. pc'[w] \in {"claim", "commit"}
    BY <1>1, AdvanceEffect DEF AtAction
  <1>3. Proj(row) = ClaimRow(w)
    BY ProjRow DEF Records
  <1> QED BY <1>1, <1>2, <1>3, InsertRows

\* The ledger row of a rollback that found no intent keeps RowsInv.
LEMMA UndoRows ==
  ASSUME TypeOK, RowsInv, NEW w \in Worker, pc[w] = "find", NEW delta, NEW status,
         InsertRollbackAction(w, delta, status)
  PROVE  RowsInv'
  <1>1. /\ Alone(w) /\ pc'[w] = "intend" /\ UNCHANGED db
        /\ own'[w].registry = own[w].registry
        /\ own'[w].actions = own[w].actions \cup {Row(w, delta, status)}
    BY UndoEffect
  <1>2. Proj(Row(w, delta, status)) = ClaimRow(w)
    BY ProjRow
  <1> QED BY <1>1, <1>2, InsertRows

\* The insert of an intent, and of the mark with it, keeps RowsInv.
LEMMA IntendRows ==
  ASSUME TypeOK, RowsInv, NEW w \in Worker, NEW found, Intend(w, found)
  PROVE  RowsInv'
  <1>1. /\ Alone(w) /\ pc[w] = "intend" /\ Advance(w) /\ UNCHANGED db
        /\ own'[w].registry = own[w].registry /\ own'[w].actions = own[w].actions
    BY IntendEffect
  <1>2. pc'[w] \in {"claim", "commit"}
    BY <1>1, AdvanceEffect DEF AtAction
  <1> QED BY <1>1, <1>2, QuietRows

\* The look for an intent, and the lock of the originals, keep RowsInv.
LEMMA LooksRows ==
  ASSUME TypeOK, RowsInv, NEW w \in Worker, NotRolledBack(w)
  PROVE  RowsInv'
  <1>1. /\ Alone(w) /\ pc[w] = "work" /\ pc'[w] = "find"
        /\ UNCHANGED <<db, own, job, pos, at>>
    BY LooksEffect
  <1>2. ClaimRow(w)' = ClaimRow(w)
    BY <1>1, SameAction DEF ClaimRow
  <1>3. RowsAt(w)'
    BY <1>1, <1>2 DEF RowsInv, RowsAt, Unwritten
  <1> QED BY <1>1, <1>3, SessionRows

\* The commit keeps RowsInv.
LEMMA PersistRows ==
  ASSUME TypeOK, RowsInv, NEW w \in Worker, Persist(w)
  PROVE  RowsInv'
  <1>1. /\ Alone(w) /\ pc[w] = "commit" /\ pc'[w] = "idle" /\ own'[w] = Empty
        /\ db'.registry = db.registry \cup own[w].registry
        /\ db'.actions = db.actions \cup own[w].actions
    BY PersistEffect
  <1>2. own[w].registry = {Proj(a) : a \in own[w].actions}
    BY <1>1 DEF RowsInv, RowsAt, Unwritten
  <1>3. db.registry = {Proj(a) : a \in db.actions}
    BY DEF RowsInv, LedgerMatchesRegistry, Proj
  <1>4. db'.registry = {Proj(a) : a \in db'.actions}
    BY <1>1, <1>2, <1>3
  <1>5. LedgerMatchesRegistry'
    BY <1>4 DEF LedgerMatchesRegistry, Proj
  <1>6. RowsAt(w)'
    BY <1>1, EmptyRows DEF RowsAt, Unwritten
  <1> QED BY <1>1, <1>5, <1>6, OtherRows DEF RowsInv

\* A claim, whether it inserts, waits or finds its action, keeps RowsInv.
LEMMA ClaimRows ==
  ASSUME TypeOK, RowsInv, NEW w \in Worker, Claim(w)
  PROVE  RowsInv'
  <1>1. CASE ReplayDuplicate(w)
    <2>1. /\ Alone(w) /\ pc[w] = "claim" /\ Advance(w) /\ UNCHANGED <<db, own>>
      BY <1>1, ReplayEffect
    <2>2. pc'[w] \in {"claim", "commit"}
      BY <2>1, AdvanceEffect DEF AtAction
    <2> QED BY <2>1, <2>2, QuietRows
  <1>2. CASE ClaimBlocked(w)
    BY <1>2, BlockedEffect, QuietRows
  <1>3. CASE ClaimLost(w)
    BY <1>3, EndRows DEF ClaimLost, Fail
  <1> QED BY <1>1, <1>2, <1>3, RegisterRows DEF Claim

\* Every step keeps RowsInv.
LEMMA StepRows == TypeOK /\ RowsInv /\ [Next]_vars => RowsInv'
  <1> SUFFICES ASSUME TypeOK, RowsInv, [Next]_vars PROVE RowsInv'
    OBVIOUS
  <1>1. ASSUME NEW w \in Worker, NEW r \in Request, Begin(w, r) PROVE RowsInv'
    BY <1>1, TakeRows DEF Begin
  <1>2. ASSUME NEW w \in Worker, LockAccount(w) PROVE RowsInv'
    <2>1. /\ Alone(w) /\ pc[w] = "lock" /\ pc'[w] \in {"claim", "commit"} /\ UNCHANGED <<db, own>>
      BY <1>2, LockEffect
    <2> QED BY <2>1, QuietRows
  <1>3. ASSUME NEW w \in Worker, Tombstone(w) \/ OriginalNotApplied(w) \/ ReverseOriginal(w)
        PROVE  RowsInv'
    BY <1>3, UndoRows DEF Tombstone, OriginalNotApplied, ReverseOriginal
  <1>4. ASSUME NEW w \in Worker,
               \/ RefuseBetOrWin(w) \/ RefuseRollback(w) \/ IntentViolation(w)
               \/ Crash(w) \/ DeadlockVictim(w)
        PROVE  RowsInv'
    BY <1>4, EndRows
       DEF RefuseBetOrWin, RefuseRollback, IntentViolation, Crash, DeadlockVictim, Fail
  <1>5. ASSUME NEW w \in Worker, ProcessBetOrWin(w) \/ AlreadyRolledBack(w) PROVE RowsInv'
    BY <1>5, RecordRows DEF Records
  <1>6. ASSUME NEW w \in Worker, Step(w) PROVE RowsInv'
    BY <1>2, <1>3, <1>4, <1>5, <1>6, ClaimRows, LooksRows, IntendRows, PersistRows
       DEF Step, Undo, InsertRollbackIntent, Commit
  <1>7. ASSUME NEW w \in Worker, CommitUnheard(w) PROVE RowsInv'
    BY <1>7, PersistRows DEF CommitUnheard
  <1>8. CASE Tick \/ (\E r \in Request : Reject(r)) \/ UNCHANGED vars
    <2>1. UNCHANGED <<db, own, pc, pos, job, at>>
      BY <1>8 DEF Tick, Reject, vars, session
    <2>2. \A v \in Worker : ClaimRow(v)' = ClaimRow(v)
      BY <2>1, SameAction DEF ClaimRow
    <2> QED BY <2>1, <2>2 DEF RowsInv, RowsAt, Unwritten, LedgerMatchesRegistry
  <1> QED BY <1>1, <1>4, <1>6, <1>7, <1>8 DEF Next

\* RowsInv holds in the initial state.
LEMMA InitRows == Init => RowsInv
  BY EmptyRows DEF Init, RowsInv, RowsAt, Unwritten, LedgerMatchesRegistry, Proj

\* Every claim has its ledger row and every ledger row its claim, in every state and for
\* every body, worker and bound: findActionForUpdate finds an original at the time that
\* the registry holds (processor.ts:276).
THEOREM LedgerIsRegistered == Spec => []LedgerMatchesRegistry
  <1>1. Init => TypeOK /\ RowsInv
    BY InitType, InitRows
  <1>2. TypeOK /\ RowsInv /\ [Next]_vars => (TypeOK /\ RowsInv)'
    BY StepType, StepRows
  <1>3. RowsInv => LedgerMatchesRegistry
    BY DEF RowsInv
  <1> QED BY <1>1, <1>2, <1>3, PTL DEF Spec

-----------------------------------------------------------------------------
(* Rollbacks, their intents and their originals.                             *)

\* A rollback that inserts an intent: all but the one that finds one.
Resolves(r) == r.kind = "rollback" /\ r.status # "noop_already_rolled_back"

\* Its row is written and its intent comes next.
Announced(w, r) == pc[w] = "intend" /\ r.id = Cur(w).id

\* Of the tables s: an intent is of a rollback that resolves its original.
ResolvedBy(s, i) == \E r \in s.actions : r.id = i.by /\ r.orig = i.orig /\ Resolves(r)

\* A rollback that is no tombstone has its original, and undoes exactly what it moved.
Grounded(s, r) ==
  Resolves(r) /\ r.status # "noop_tombstone" =>
    \E a \in s.actions : /\ a.id = r.orig
                         /\ r.status = "applied" => Reversible(a) /\ r.delta = -a.delta

\* A skipped action has its tombstone.
Warned(s, a) ==
  a.status = "noop_prerolled" =>
    \E i \in s.intents : i.orig = a.id /\
      \E r \in s.actions : r.id = i.by /\ r.orig = a.id /\ r.status = "noop_tombstone"

RollbacksIn ==
  /\ \A i \in db.intents : ResolvedBy(db, i)
  /\ \A r \in db.actions : Resolves(r) => [orig |-> r.orig, by |-> r.id] \in db.intents
  /\ \A r \in db.actions : Grounded(db, r) /\ Warned(db, r)

RollbacksAt(w) ==
  /\ \A i \in own[w].intents : ResolvedBy(own[w], i)
  /\ \A r \in own[w].actions : Resolves(r) =>
       [orig |-> r.orig, by |-> r.id] \in own[w].intents \/ Announced(w, r)
  /\ \A r \in own[w].actions : Grounded(Visible(w), r) /\ Warned(Visible(w), r)
  /\ pc[w] = "intend" => \E r \in own[w].actions : r.id = Cur(w).id /\ Resolves(r)

RollbacksInv == RollbacksIn /\ \A w \in Worker : RollbacksAt(w)

Grows(s, t) == s.actions \subseteq t.actions /\ s.intents \subseteq t.intents

\* What a row of the ledger rests on stays when rows are added.
LEMMA StaysGrounded ==
  ASSUME NEW s, NEW t, Grows(s, t), NEW r
  PROVE  /\ Grounded(s, r) => Grounded(t, r)
         /\ Warned(s, r) => Warned(t, r)
         /\ ResolvedBy(s, r) => ResolvedBy(t, r)
  BY DEF Grows, Grounded, Warned, ResolvedBy

\* The id of an action between its claim and its row is nobody else's.
LEMMA FreshId ==
  ASSUME KeysInv, NEW w \in Worker, pc[w] \in {"work", "find"}
  PROVE  \A a \in Visible(w).actions : a.id # Cur(w).id
  <1>1. Claims(w, Cur(w).id) /\ \A a \in own[w].actions : a.id # Cur(w).id
    BY DEF KeysInv, PendingAction
  <1>2. \A q \in db.registry : q.id # Cur(w).id
    BY <1>1 DEF KeysInv, ClaimsExclusive, Claims
  <1>3. \A a \in db.actions : a.id # Cur(w).id
    BY <1>2 DEF KeysInv, RowsClaimed
  <1> QED BY <1>1, <1>3, VisibleRows

\* Whatever one session does, the rows of another stay grounded.
LEMMA OtherRollbacks ==
  ASSUME RollbacksInv, NEW w \in Worker, Alone(w), NEW v \in Worker, v # w,
         db.actions \subseteq db'.actions, db.intents \subseteq db'.intents
  PROVE  RollbacksAt(v)'
  <1>1. own'[v] = own[v] /\ pc'[v] = pc[v] /\ RollbacksAt(v)
    BY DEF Alone, RollbacksInv
  <1>2. Cur(v)' = Cur(v)
    BY AloneSame
  <1>3. Grows(Visible(v), Visible(v)')
    BY <1>1 DEF Grows, Visible, Merge
  <1>4. \A r \in own'[v].actions : Grounded(Visible(v)', r) /\ Warned(Visible(v)', r)
    BY <1>1, <1>3, StaysGrounded DEF RollbacksAt
  <1>5. \A i \in own'[v].intents : ResolvedBy(own'[v], i)
    BY <1>1 DEF RollbacksAt
  <1>6. \A r \in own'[v].actions : Resolves(r) =>
          [orig |-> r.orig, by |-> r.id] \in own'[v].intents \/ Announced(v, r)'
    BY <1>1, <1>2 DEF RollbacksAt, Announced
  <1>7. pc'[v] = "intend" => \E r \in own'[v].actions : r.id = Cur(v)'.id /\ Resolves(r)
    BY <1>1, <1>2 DEF RollbacksAt
  <1>8. Visible(v)' = Merge(db', own'[v])
    BY DEF Visible
  <1> QED BY <1>4, <1>5, <1>6, <1>7 DEF RollbacksAt

\* A step of one session keeps RollbacksInv when it keeps its part of that session.
LEMMA SessionRollbacks ==
  ASSUME RollbacksInv, NEW w \in Worker, Alone(w), UNCHANGED db, RollbacksAt(w)'
  PROVE  RollbacksInv'
  <1>1. RollbacksIn'
    BY DEF RollbacksInv, RollbacksIn
  <1> QED BY <1>1, OtherRollbacks DEF RollbacksInv

\* A step that writes neither a ledger row nor an intent, away from the intent.
LEMMA QuietRollbacks ==
  ASSUME RollbacksInv, NEW w \in Worker, Alone(w), UNCHANGED db,
         own'[w].actions = own[w].actions, own'[w].intents = own[w].intents,
         pc[w] # "intend", pc'[w] # "intend"
  PROVE  RollbacksInv'
  <1>1. RollbacksAt(w)
    BY DEF RollbacksInv
  <1>2. \A i \in own[w].intents : ResolvedBy(own'[w], i)
    BY <1>1 DEF RollbacksAt, ResolvedBy
  <1>3. Grows(Visible(w), Visible(w)')
    BY DEF Grows, Visible, Merge
  <1>4. \A r \in own[w].actions : Grounded(Visible(w)', r) /\ Warned(Visible(w)', r)
    BY <1>1, <1>3, StaysGrounded DEF RollbacksAt
  <1>5. RollbacksAt(w)'
    BY <1>1, <1>2, <1>4 DEF RollbacksAt, Announced
  <1> QED BY <1>5, SessionRollbacks

\* A transaction that ends without a commit keeps RollbacksInv.
LEMMA EndRollbacks ==
  ASSUME TypeOK, RollbacksInv, NEW w \in Worker, EndTx(w), UNCHANGED db
  PROVE  RollbacksInv'
  <1>1. own'[w] = Empty /\ pc'[w] = "idle" /\ Alone(w)
    BY EndEffect
  <1>2. RollbacksAt(w)'
    BY <1>1, EmptyRows DEF RollbacksAt
  <1> QED BY <1>1, <1>2, SessionRollbacks

\* The row of an action that inserts no intent.
LEMMA RecordRollbacks ==
  ASSUME TypeOK, KeysInv, RollbacksInv, NEW w \in Worker, NEW row, Records(w, row)
  PROVE  RollbacksInv'
  <1>1. /\ Alone(w) /\ pc[w] = "work" /\ Advance(w) /\ UNCHANGED db
        /\ own'[w].actions = own[w].actions \cup {row}
        /\ own'[w].intents = own[w].intents
    BY RecordEffect
  <1>2. pc'[w] # "intend"
    BY <1>1, AdvanceEffect DEF AtAction
  <1>3. ~Resolves(row) /\ row.id = Cur(w).id
    BY DEF Records, Row, Resolves, ProcessBetOrWin
  <1>4. RollbacksAt(w) /\ RollbacksIn
    BY DEF RollbacksInv
  <1>5. Warned(Visible(w), row)
    <2>1. SUFFICES ASSUME row.status = "noop_prerolled"
                   PROVE  \E i \in Visible(w).intents : i.orig = row.id /\
                            \E r \in Visible(w).actions :
                              r.id = i.by /\ r.orig = row.id /\ r.status = "noop_tombstone"
      BY DEF Warned
    <2>2. HasIntent(w, Cur(w).id)
      BY <2>1 DEF Records, Row, Noop
    <2>3. PICK i \in Visible(w).intents : i.orig = row.id
      BY <1>3, <2>2 DEF HasIntent
    <2>4. PICK r \in Visible(w).actions :
            /\ r.id = i.by /\ r.orig = i.orig /\ Resolves(r) /\ Grounded(Visible(w), r)
      <3>1. CASE i \in db.intents
        <4>1. PICK r \in db.actions : r.id = i.by /\ r.orig = i.orig /\ Resolves(r)
          BY <1>4, <3>1 DEF RollbacksIn, ResolvedBy
        <4>2. Grounded(db, r)
          BY <1>4, <4>1 DEF RollbacksIn
        <4>3. Grows(db, Visible(w))
          BY VisibleRows DEF Grows
        <4> QED BY <4>1, <4>2, <4>3, StaysGrounded, VisibleRows
      <3>2. CASE i \in own[w].intents
        BY <1>4, <3>2, VisibleRows DEF RollbacksAt, ResolvedBy
      <3> QED BY <2>3, <3>1, <3>2, VisibleRows
    <2>5. \A a \in Visible(w).actions : a.id # row.id
      BY <1>1, <1>3, FreshId
    <2>6. r.status = "noop_tombstone"
      BY <2>3, <2>4, <2>5 DEF Grounded
    <2> QED BY <2>3, <2>4, <2>6
  <1>6. Grows(Visible(w), Visible(w)') /\ Grows(own[w], own'[w])
    BY <1>1 DEF Grows, Visible, Merge
  <1>7. \A i \in own[w].intents : ResolvedBy(own'[w], i)
    BY <1>4, <1>6, StaysGrounded DEF RollbacksAt
  <1>8. \A r \in own'[w].actions : Grounded(Visible(w)', r) /\ Warned(Visible(w)', r)
    <2>1. Grounded(Visible(w), row)
      BY <1>3 DEF Grounded
    <2> QED BY <1>1, <1>4, <1>5, <1>6, <2>1, StaysGrounded DEF RollbacksAt
  <1>9. RollbacksAt(w)'
    BY <1>1, <1>2, <1>3, <1>4, <1>7, <1>8 DEF RollbacksAt, Announced
  <1> QED BY <1>1, <1>9, SessionRollbacks

\* What processRolback has found when it writes the rollback's row.
Undoes(w, delta, status) ==
  /\ pc[w] = "find" /\ InsertRollbackAction(w, delta, status)
  /\ \/ status = "noop_tombstone" /\ delta = 0 /\ Originals(w) = {}
     \/ /\ status = "noop_original_not_applied" /\ delta = 0
        /\ \E a \in Originals(w) : ~Reversible(a)
     \/ /\ status = "applied"
        /\ \E a \in Originals(w) : Reversible(a) /\ Affords(w, -a.delta) /\ delta = -a.delta

\* A rollback that finds no intent is one of the three cases.
LEMMA UndoCases ==
  ASSUME NEW w, Tombstone(w) \/ OriginalNotApplied(w) \/ ReverseOriginal(w)
  PROVE  \E delta, status : Undoes(w, delta, status)
  BY DEF Undoes, Tombstone, OriginalNotApplied, ReverseOriginal

\* The ledger row of a rollback that found no intent keeps RollbacksInv.
LEMMA UndoRollbacks ==
  ASSUME TypeOK, KeysInv, RollbacksInv, NEW w \in Worker, NEW delta, NEW status,
         Undoes(w, delta, status)
  PROVE  RollbacksInv'
  <1>1. PICK row : row = Row(w, delta, status)
    OBVIOUS
  <1>2. /\ Alone(w) /\ pc[w] = "find" /\ pc'[w] = "intend" /\ UNCHANGED <<db, job, pos>>
        /\ own'[w].actions = own[w].actions \cup {row}
        /\ own'[w].intents = own[w].intents
    BY <1>1, UndoEffect DEF Undoes
  <1>3. /\ row.id = Cur(w).id /\ row.orig = Cur(w).orig /\ row.delta = delta
        /\ row.status = status /\ row.kind = "rollback"
    <2>1. Cur(w).kind = "rollback"
      BY <1>2 DEF TypeOK
    <2> QED BY <1>1, <2>1 DEF Row
  <1>4. Cur(w)' = Cur(w) /\ RollbacksAt(w)
    BY <1>2, SameAction DEF RollbacksInv
  <1>5. Grounded(Visible(w), row) /\ Warned(Visible(w), row) /\ Resolves(row)
    BY <1>3 DEF Undoes, Grounded, Warned, Resolves, Originals
  <1>6. Grows(Visible(w), Visible(w)') /\ Grows(own[w], own'[w])
    BY <1>2 DEF Grows, Visible, Merge
  <1>7. \A i \in own[w].intents : ResolvedBy(own'[w], i)
    BY <1>4, <1>6, StaysGrounded DEF RollbacksAt
  <1>8. \A r \in own'[w].actions : Grounded(Visible(w)', r) /\ Warned(Visible(w)', r)
    BY <1>2, <1>4, <1>5, <1>6, StaysGrounded DEF RollbacksAt
  <1>9. \A r \in own'[w].actions : Resolves(r) =>
          [orig |-> r.orig, by |-> r.id] \in own'[w].intents \/ Announced(w, r)'
    BY <1>2, <1>3, <1>4 DEF RollbacksAt, Announced
  <1>10. RollbacksAt(w)'
    BY <1>2, <1>3, <1>4, <1>5, <1>7, <1>8, <1>9 DEF RollbacksAt
  <1> QED BY <1>2, <1>10, SessionRollbacks

\* The insert of an intent, and of the mark with it, keeps RollbacksInv.
LEMMA IntendRollbacks ==
  ASSUME TypeOK, KeysInv, RollbacksInv, NEW w \in Worker, NEW found, Intend(w, found)
  PROVE  RollbacksInv'
  <1>1. PICK intent : intent = [orig |-> Cur(w).orig, by |-> Cur(w).id]
    OBVIOUS
  <1>2. /\ Alone(w) /\ pc[w] = "intend" /\ Advance(w) /\ UNCHANGED db
        /\ own'[w].actions = own[w].actions
        /\ own'[w].intents = own[w].intents \cup {intent}
    BY <1>1, IntendEffect
  <1>3. pc'[w] # "intend"
    BY <1>2, AdvanceEffect DEF AtAction
  <1>4. \A a \in own[w].actions : a.id = Cur(w).id => a.orig = Cur(w).orig
    BY <1>2 DEF KeysInv, PendingAction
  <1>5. RollbacksAt(w)
    BY DEF RollbacksInv
  <1>6. Grows(Visible(w), Visible(w)') /\ Grows(own[w], own'[w])
    BY <1>2 DEF Grows, Visible, Merge
  <1>7. ResolvedBy(own'[w], intent)
    BY <1>1, <1>2, <1>4, <1>5 DEF RollbacksAt, ResolvedBy
  <1>8. \A i \in own'[w].intents : ResolvedBy(own'[w], i)
    BY <1>2, <1>5, <1>6, <1>7, StaysGrounded DEF RollbacksAt
  <1>9. \A r \in own'[w].actions : Grounded(Visible(w)', r) /\ Warned(Visible(w)', r)
    BY <1>2, <1>5, <1>6, StaysGrounded DEF RollbacksAt
  <1>10. \A r \in own'[w].actions : Resolves(r) =>
           [orig |-> r.orig, by |-> r.id] \in own'[w].intents
    BY <1>1, <1>2, <1>4, <1>5 DEF RollbacksAt, Announced
  <1>11. RollbacksAt(w)'
    BY <1>3, <1>8, <1>9, <1>10 DEF RollbacksAt
  <1> QED BY <1>2, <1>11, SessionRollbacks

\* The commit keeps RollbacksInv.
LEMMA PersistRollbacks ==
  ASSUME TypeOK, RollbacksInv, NEW w \in Worker, Persist(w)
  PROVE  RollbacksInv'
  <1>1. /\ Alone(w) /\ pc[w] = "commit" /\ pc'[w] = "idle" /\ own'[w] = Empty
        /\ db'.actions = db.actions \cup own[w].actions
        /\ db'.intents = db.intents \cup own[w].intents
    BY PersistEffect
  <1>2. RollbacksAt(w) /\ RollbacksIn
    BY DEF RollbacksInv
  <1>3. Grows(db, db') /\ Grows(own[w], db') /\ Grows(Visible(w), db')
    BY <1>1, VisibleRows DEF Grows
  <1>4. \A i \in db'.intents : ResolvedBy(db', i)
    BY <1>1, <1>2, <1>3, StaysGrounded DEF RollbacksIn, RollbacksAt
  <1>5. \A r \in db'.actions : Grounded(db', r) /\ Warned(db', r)
    BY <1>1, <1>2, <1>3, StaysGrounded DEF RollbacksIn, RollbacksAt
  <1>6. \A r \in db'.actions : Resolves(r) => [orig |-> r.orig, by |-> r.id] \in db'.intents
    BY <1>1, <1>2 DEF RollbacksIn, RollbacksAt, Announced
  <1>7. RollbacksAt(w)'
    BY <1>1, EmptyRows DEF RollbacksAt
  <1>8. \A v \in Worker : v # w => RollbacksAt(v)'
    BY <1>1, OtherRollbacks
  <1> QED BY <1>4, <1>5, <1>6, <1>7, <1>8 DEF RollbacksInv, RollbacksIn

\* The beginning of a delivery keeps RollbacksInv.
LEMMA TakeRollbacks ==
  ASSUME TypeOK, RollbacksInv, NEW w \in Worker, NEW r \in Request, Take(w, r)
  PROVE  RollbacksInv'
  BY TakeEffect, QuietRollbacks

\* A claim, whether it inserts, waits or finds its action, keeps RollbacksInv.
LEMMA ClaimRollbacks ==
  ASSUME TypeOK, RollbacksInv, NEW w \in Worker, Claim(w)
  PROVE  RollbacksInv'
  <1>1. CASE ReplayDuplicate(w)
    <2>1. /\ Alone(w) /\ pc[w] = "claim" /\ Advance(w) /\ UNCHANGED <<db, own>>
      BY <1>1, ReplayEffect
    <2>2. pc'[w] # "intend"
      BY <2>1, AdvanceEffect DEF AtAction
    <2> QED BY <2>1, <2>2, QuietRollbacks
  <1>2. CASE ClaimBlocked(w)
    BY <1>2, BlockedEffect, QuietRollbacks
  <1>3. CASE ClaimFresh(w) \/ ClaimResumes(w)
    BY <1>3, RegisterEffect, QuietRollbacks
  <1>4. CASE ClaimLost(w)
    BY <1>4, EndRollbacks DEF ClaimLost, Fail
  <1> QED BY <1>1, <1>2, <1>3, <1>4 DEF Claim

\* Every step keeps RollbacksInv.
LEMMA StepRollbacks == TypeOK /\ KeysInv /\ RollbacksInv /\ [Next]_vars => RollbacksInv'
  <1> SUFFICES ASSUME TypeOK, KeysInv, RollbacksInv, [Next]_vars PROVE RollbacksInv'
    OBVIOUS
  <1>1. ASSUME NEW w \in Worker, NEW r \in Request, Begin(w, r) PROVE RollbacksInv'
    BY <1>1, TakeRollbacks DEF Begin
  <1>2. ASSUME NEW w \in Worker, LockAccount(w) PROVE RollbacksInv'
    <2>1. /\ Alone(w) /\ pc[w] = "lock" /\ pc'[w] # "intend" /\ UNCHANGED <<db, own>>
      BY <1>2, LockEffect
    <2> QED BY <2>1, QuietRollbacks
  <1>3. ASSUME NEW w \in Worker, Tombstone(w) \/ OriginalNotApplied(w) \/ ReverseOriginal(w)
        PROVE  RollbacksInv'
    BY <1>3, UndoCases, UndoRollbacks
  <1>4. ASSUME NEW w \in Worker,
               \/ RefuseBetOrWin(w) \/ RefuseRollback(w) \/ IntentViolation(w)
               \/ Crash(w) \/ DeadlockVictim(w)
        PROVE  RollbacksInv'
    BY <1>4, EndRollbacks
       DEF RefuseBetOrWin, RefuseRollback, IntentViolation, Crash, DeadlockVictim, Fail
  <1>5. ASSUME NEW w \in Worker, ProcessBetOrWin(w) \/ AlreadyRolledBack(w)
        PROVE  RollbacksInv'
    BY <1>5, RecordRollbacks DEF Records
  <1>6. ASSUME NEW w \in Worker, NotRolledBack(w) PROVE RollbacksInv'
    BY <1>6, LooksEffect, QuietRollbacks
  <1>7. ASSUME NEW w \in Worker, Step(w) PROVE RollbacksInv'
    BY <1>2, <1>3, <1>4, <1>5, <1>6, <1>7, ClaimRollbacks, IntendRollbacks, PersistRollbacks
       DEF Step, Undo, InsertRollbackIntent, Commit
  <1>8. ASSUME NEW w \in Worker, CommitUnheard(w) PROVE RollbacksInv'
    BY <1>8, PersistRollbacks DEF CommitUnheard
  <1>9. CASE Tick \/ (\E r \in Request : Reject(r)) \/ UNCHANGED vars
    <2>1. UNCHANGED <<db, own, pc, pos, job>>
      BY <1>9 DEF Tick, Reject, vars, session
    <2>2. \A v \in Worker : Cur(v)' = Cur(v) /\ Visible(v)' = Visible(v)
      BY <2>1, SameAction DEF Visible
    <2> QED BY <2>1, <2>2 DEF RollbacksInv, RollbacksIn, RollbacksAt, Announced
  <1> QED BY <1>1, <1>4, <1>7, <1>8, <1>9 DEF Next

\* RollbacksInv holds in the initial state.
LEMMA InitRollbacks == Init => RollbacksInv
  BY EmptyRows DEF Init, RollbacksInv, RollbacksIn, RollbacksAt

\* A bet or a win is refused as rolled back beforehand only if a committed rollback was
\* told that there was no such action (processor.ts:145, processor.ts:228).
THEOREM PrerolledOnlyByTombstone == Spec => []PrerolledHasTombstone
  <1>1. Init => TypeOK /\ KeysInv /\ RollbacksInv
    BY InitType, InitKeys, InitRollbacks
  <1>2. TypeOK /\ KeysInv /\ RollbacksInv /\ [Next]_vars => (TypeOK /\ KeysInv /\ RollbacksInv)'
    BY StepType, StepKeys, StepRollbacks
  <1>3. RollbacksInv => PrerolledHasTombstone
    BY DEF RollbacksInv, RollbacksIn, Warned, PrerolledHasTombstone
  <1> QED BY <1>1, <1>2, <1>3, PTL DEF Spec

\* Whatever row of the ledger is visible, its claim is.
LEMMA VisibleRegistered ==
  ASSUME RowsInv, NEW w \in Worker, NEW a \in Visible(w).actions
  PROVE  Proj(a) \in Visible(w).registry
  <1>1. db.registry = {Proj(q) : q \in db.actions}
    BY DEF RowsInv, LedgerMatchesRegistry, Proj
  <1>2. \A q \in own[w].actions : Proj(q) \in own[w].registry
    BY DEF RowsInv, RowsAt
  <1> QED BY <1>1, <1>2, VisibleRows

-----------------------------------------------------------------------------
(* rolled_back_by. *)

\* What the rollbacks of the open transaction that have their intent have marked.
MarksAt(w) ==
  own[w].marks =
    {[id |-> r.orig, by |-> r.id] : r \in {q \in own[w].actions : IsReversal(q) /\ ~Announced(w, q)}}

MarksInv == MarkedIffReversed /\ \A w \in Worker : MarksAt(w)

\* Whatever one session does, the marks of another stay right.
LEMMA OtherMarks ==
  ASSUME MarksInv, NEW w \in Worker, Alone(w), NEW v \in Worker, v # w
  PROVE  MarksAt(v)'
  <1>1. own'[v] = own[v] /\ pc'[v] = pc[v] /\ MarksAt(v)
    BY DEF Alone, MarksInv
  <1>2. Cur(v)' = Cur(v)
    BY AloneSame
  <1> QED BY <1>1, <1>2 DEF MarksAt, Announced

\* A step of one session keeps MarksInv when it keeps its part of that session.
LEMMA SessionMarks ==
  ASSUME MarksInv, NEW w \in Worker, Alone(w), UNCHANGED db, MarksAt(w)'
  PROVE  MarksInv'
  BY OtherMarks DEF MarksInv, MarkedIffReversed, AppliedRollbacks

\* A step that marks nothing, and leaves no reversal without its mark but one that
\* is about to set it.
LEMMA QuietMarks ==
  ASSUME MarksInv, NEW w \in Worker, Alone(w), UNCHANGED db,
         own'[w].marks = own[w].marks, NEW rows, own'[w].actions = own[w].actions \cup rows,
         pc[w] # "intend", \A q \in own[w].actions : ~Announced(w, q)',
         \A q \in rows : IsReversal(q) => Announced(w, q)'
  PROVE  MarksInv'
  <1>1. \A q \in own[w].actions : ~Announced(w, q)
    BY DEF Announced
  <1>2. {q \in own'[w].actions : IsReversal(q) /\ ~Announced(w, q)'} =
        {q \in own[w].actions : IsReversal(q) /\ ~Announced(w, q)}
    BY <1>1
  <1>3. MarksAt(w)'
    BY <1>2 DEF MarksInv, MarksAt
  <1> QED BY <1>3, SessionMarks

\* A transaction that ends without a commit keeps MarksInv.
LEMMA EndMarks ==
  ASSUME TypeOK, MarksInv, NEW w \in Worker, EndTx(w), UNCHANGED db
  PROVE  MarksInv'
  <1>1. own'[w] = Empty /\ pc'[w] = "idle" /\ Alone(w)
    BY EndEffect
  <1>2. MarksAt(w)'
    BY <1>1, EmptyRows DEF MarksAt
  <1> QED BY <1>1, <1>2, SessionMarks

\* The ledger row of an action that inserts no intent keeps MarksInv.
LEMMA RecordMarks ==
  ASSUME TypeOK, MarksInv, NEW w \in Worker, NEW row, Records(w, row)
  PROVE  MarksInv'
  <1>1. /\ Alone(w) /\ pc[w] = "work" /\ Advance(w) /\ UNCHANGED db
        /\ own'[w].actions = own[w].actions \cup {row} /\ own'[w].marks = own[w].marks
    BY RecordEffect
  <1>2. pc'[w] # "intend"
    BY <1>1, AdvanceEffect DEF AtAction
  <1>3. ~IsReversal(row)
    BY DEF Records, Row, IsReversal, ProcessBetOrWin
  <1> QED BY <1>1, <1>2, <1>3, QuietMarks DEF Announced

\* The ledger row of a rollback that found no intent keeps MarksInv.
LEMMA UndoMarks ==
  ASSUME TypeOK, KeysInv, MarksInv, NEW w \in Worker, NEW delta, NEW status,
         Undoes(w, delta, status)
  PROVE  MarksInv'
  <1>1. PICK row : row = Row(w, delta, status)
    OBVIOUS
  <1>2. /\ Alone(w) /\ pc[w] = "find" /\ pc'[w] = "intend" /\ UNCHANGED <<db, job, pos>>
        /\ own'[w].actions = own[w].actions \cup {row}
        /\ own'[w].marks = own[w].marks
    BY <1>1, UndoEffect DEF Undoes
  <1>3. row.id = Cur(w).id /\ Cur(w)' = Cur(w)
    BY <1>1, <1>2, SameAction DEF Row
  <1>4. \A a \in own[w].actions : a.id # Cur(w).id
    BY <1>2 DEF KeysInv, PendingAction
  <1> QED BY <1>2, <1>3, <1>4, QuietMarks DEF Announced

\* The UPDATE of rolled_back_by finds the originals of the rollback just recorded if
\* and only if it reversed one: there is at most one.
LEMMA MarksOfReversal ==
  ASSUME KeysInv, RowsInv, RollbacksInv, NEW w \in Worker, pc[w] = "intend"
  PROVE  {[id |-> a.id, by |-> Cur(w).id] : a \in Reversed(w)} =
         {[id |-> r.orig, by |-> r.id] : r \in {q \in own[w].actions : IsReversal(q) /\ Announced(w, q)}}
  <1>1. \A q \in own[w].actions : q.id = Cur(w).id => q.orig = Cur(w).orig
    BY DEF KeysInv, PendingAction
  <1>2. PICK r \in own[w].actions : r.id = Cur(w).id /\ Resolves(r)
    BY DEF RollbacksInv, RollbacksAt
  <1>3. \A q \in own[w].actions : q.id = Cur(w).id => q = r
    BY <1>2 DEF KeysInv, RowsClaimed
  <1>4. r.orig = Cur(w).orig
    BY <1>1, <1>2
  <1>5. \A a \in Reversed(w) : a.id = Cur(w).orig /\ IsReversal(r)
    BY <1>2, <1>3 DEF Reversed, Originals, IsReversal, Resolves
  <1>6. ASSUME IsReversal(r) PROVE \E a \in Reversed(w) : a.id = Cur(w).orig
    <2>1. Grounded(Visible(w), r)
      BY <1>2 DEF RollbacksInv, RollbacksAt
    <2>2. PICK a \in Visible(w).actions : a.id = Cur(w).orig
      BY <1>2, <1>4, <1>6, <2>1 DEF Grounded, IsReversal
    <2>3. Proj(a) \in Visible(w).registry
      BY VisibleRegistered
    <2>4. a \in Originals(w)
      <3>1. Proj(a).id = a.id /\ Proj(a).at = a.at
        BY DEF Proj
      <3> QED BY <2>2, <2>3, <3>1 DEF Originals
    <2>5. r.id = Cur(w).id /\ r.status = "applied"
      BY <1>2, <1>6 DEF IsReversal
    <2> QED BY <2>2, <2>4, <2>5 DEF Reversed
  <1>7. \A q \in own[w].actions : IsReversal(q) /\ Announced(w, q) <=> q = r /\ IsReversal(r)
    BY <1>2, <1>3 DEF Announced
  <1>8. CASE IsReversal(r)
    <2>1. {[id |-> a.id, by |-> Cur(w).id] : a \in Reversed(w)} =
          {[id |-> Cur(w).orig, by |-> Cur(w).id]}
      BY <1>5, <1>6, <1>8
    <2>2. {q \in own[w].actions : IsReversal(q) /\ Announced(w, q)} = {r}
      BY <1>2, <1>7, <1>8
    <2> QED BY <1>2, <1>4, <2>1, <2>2
  <1>9. CASE ~IsReversal(r)
    <2>1. Reversed(w) = {}
      BY <1>5, <1>9
    <2>2. {q \in own[w].actions : IsReversal(q) /\ Announced(w, q)} = {}
      BY <1>7, <1>9
    <2> QED BY <2>1, <2>2
  <1> QED BY <1>8, <1>9

\* The insert of an intent, and of the mark with it, keeps MarksInv.
LEMMA IntendMarks ==
  ASSUME TypeOK, KeysInv, RowsInv, RollbacksInv, MarksInv, NEW w \in Worker,
         InsertRollbackIntent(w)
  PROVE  MarksInv'
  <1> DEFINE M(q) == [id |-> q.orig, by |-> q.id]
             Done == {q \in own[w].actions : IsReversal(q) /\ ~Announced(w, q)}
             Now == {q \in own[w].actions : IsReversal(q) /\ Announced(w, q)}
  <1>1. /\ Alone(w) /\ pc[w] = "intend" /\ Advance(w) /\ UNCHANGED db
        /\ own'[w].actions = own[w].actions
        /\ own'[w].marks = own[w].marks \cup {[id |-> a.id, by |-> Cur(w).id] : a \in Reversed(w)}
    BY IntendEffect DEF InsertRollbackIntent
  <1>2. pc'[w] # "intend"
    BY <1>1, AdvanceEffect DEF AtAction
  <1>3. own'[w].marks = {M(q) : q \in Done} \cup {M(q) : q \in Now}
    BY <1>1, MarksOfReversal DEF MarksInv, MarksAt
  <1>4. {q \in own'[w].actions : IsReversal(q) /\ ~Announced(w, q)'} = Done \cup Now
    BY <1>1, <1>2 DEF Announced
  <1>5. own'[w].marks = {M(q) : q \in Done \cup Now}
    BY <1>3
  <1>6. MarksAt(w)'
    BY <1>4, <1>5 DEF MarksAt
  <1> QED BY <1>1, <1>6, SessionMarks

\* The commit keeps MarksInv.
LEMMA PersistMarks ==
  ASSUME TypeOK, KeysInv, MarksInv, NEW w \in Worker, Persist(w)
  PROVE  MarksInv'
  <1> DEFINE M(q) == [id |-> q.orig, by |-> q.id]
  <1>1. /\ Alone(w) /\ pc[w] = "commit" /\ pc'[w] = "idle" /\ own'[w] = Empty
        /\ db'.actions = db.actions \cup own[w].actions
        /\ db'.intents = db.intents \cup own[w].intents
        /\ db'.marks = db.marks \cup own[w].marks
    BY PersistEffect
  <1>2. own[w].marks = {M(q) : q \in {q \in own[w].actions : IsReversal(q)}}
    BY <1>1 DEF MarksInv, MarksAt, Announced
  <1>3. db.marks = {M(q) : q \in {q \in db.actions : IsReversal(q)}}
    BY DEF MarksInv, MarkedIffReversed, AppliedRollbacks, IsReversal
  <1>4. db'.marks = {M(q) : q \in {q \in db'.actions : IsReversal(q)}}
    BY <1>1, <1>2, <1>3
  <1>5. \A q \in db'.actions : IsReversal(q) => [orig |-> q.orig, by |-> q.id] \in db'.intents
    BY <1>1 DEF KeysInv, ReversalsBacked
  <1>6. db'.marks \subseteq {[id |-> i.orig, by |-> i.by] : i \in db'.intents}
    <2> SUFFICES ASSUME NEW q \in db'.actions, IsReversal(q)
                 PROVE  M(q) \in {[id |-> i.orig, by |-> i.by] : i \in db'.intents}
      BY <1>4
    <2>1. PICK i \in db'.intents : i = [orig |-> q.orig, by |-> q.id]
      BY <1>5
    <2>2. M(q) = [id |-> i.orig, by |-> i.by]
      BY <2>1
    <2> QED BY <2>2
  <1>7. MarkedIffReversed'
    BY <1>4, <1>6 DEF MarkedIffReversed, AppliedRollbacks, IsReversal
  <1>8. MarksAt(w)'
    BY <1>1, EmptyRows DEF MarksAt
  <1> QED BY <1>1, <1>7, <1>8, OtherMarks DEF MarksInv

\* The steps that neither mark nor write a ledger row.
LEMMA SilentMarks ==
  ASSUME MarksInv, NEW w \in Worker, Alone(w), UNCHANGED db,
         own'[w].marks = own[w].marks, own'[w].actions = own[w].actions,
         pc[w] # "intend", pc'[w] # "intend"
  PROVE  MarksInv'
  <1>1. PICK none : none = {}
    OBVIOUS
  <1>2. \A q \in own[w].actions : ~Announced(w, q)'
    BY DEF Announced
  <1>3. \A q \in none : IsReversal(q) => Announced(w, q)'
    BY <1>1
  <1>4. own'[w].actions = own[w].actions \cup none
    BY <1>1
  <1> QED BY <1>2, <1>3, <1>4, QuietMarks

\* A claim, whether it inserts, waits or finds its action, keeps MarksInv.
LEMMA ClaimMarks ==
  ASSUME TypeOK, MarksInv, NEW w \in Worker, Claim(w)
  PROVE  MarksInv'
  <1>1. CASE ReplayDuplicate(w)
    <2>1. /\ Alone(w) /\ pc[w] = "claim" /\ Advance(w) /\ UNCHANGED <<db, own>>
      BY <1>1, ReplayEffect
    <2>2. pc'[w] # "intend"
      BY <2>1, AdvanceEffect DEF AtAction
    <2> QED BY <2>1, <2>2, SilentMarks
  <1>2. CASE ClaimBlocked(w)
    BY <1>2, BlockedEffect, SilentMarks
  <1>3. CASE ClaimFresh(w) \/ ClaimResumes(w)
    BY <1>3, RegisterEffect, SilentMarks
  <1>4. CASE ClaimLost(w)
    BY <1>4, EndMarks DEF ClaimLost, Fail
  <1> QED BY <1>1, <1>2, <1>3, <1>4 DEF Claim

\* Every step keeps MarksInv.
LEMMA StepMarks ==
  TypeOK /\ KeysInv /\ RowsInv /\ RollbacksInv /\ MarksInv /\ [Next]_vars => MarksInv'
  <1> SUFFICES ASSUME TypeOK, KeysInv, RowsInv, RollbacksInv, MarksInv, [Next]_vars
               PROVE  MarksInv'
    OBVIOUS
  <1>1. ASSUME NEW w \in Worker, NEW r \in Request, Begin(w, r) PROVE MarksInv'
    BY <1>1, TakeEffect, SilentMarks DEF Begin
  <1>2. ASSUME NEW w \in Worker, LockAccount(w) PROVE MarksInv'
    <2>1. /\ Alone(w) /\ pc[w] = "lock" /\ pc'[w] # "intend" /\ UNCHANGED <<db, own>>
      BY <1>2, LockEffect
    <2> QED BY <2>1, SilentMarks
  <1>3. ASSUME NEW w \in Worker, Tombstone(w) \/ OriginalNotApplied(w) \/ ReverseOriginal(w)
        PROVE  MarksInv'
    BY <1>3, UndoCases, UndoMarks
  <1>4. ASSUME NEW w \in Worker,
               \/ RefuseBetOrWin(w) \/ RefuseRollback(w) \/ IntentViolation(w)
               \/ Crash(w) \/ DeadlockVictim(w)
        PROVE  MarksInv'
    BY <1>4, EndMarks
       DEF RefuseBetOrWin, RefuseRollback, IntentViolation, Crash, DeadlockVictim, Fail
  <1>5. ASSUME NEW w \in Worker, ProcessBetOrWin(w) \/ AlreadyRolledBack(w)
        PROVE  MarksInv'
    BY <1>5, RecordMarks DEF Records
  <1>6. ASSUME NEW w \in Worker, NotRolledBack(w) PROVE MarksInv'
    BY <1>6, LooksEffect, SilentMarks
  <1>7. ASSUME NEW w \in Worker, Step(w) PROVE MarksInv'
    BY <1>2, <1>3, <1>4, <1>5, <1>6, <1>7, ClaimMarks, IntendMarks, PersistMarks
       DEF Step, Undo, Commit
  <1>8. ASSUME NEW w \in Worker, CommitUnheard(w) PROVE MarksInv'
    BY <1>8, PersistMarks DEF CommitUnheard
  <1>9. CASE Tick \/ (\E r \in Request : Reject(r)) \/ UNCHANGED vars
    <2>1. UNCHANGED <<db, own, pc, pos, job>>
      BY <1>9 DEF Tick, Reject, vars, session
    <2>2. \A v \in Worker : Cur(v)' = Cur(v)
      BY <2>1, SameAction
    <2> QED BY <2>1, <2>2 DEF MarksInv, MarksAt, Announced, MarkedIffReversed, AppliedRollbacks
  <1> QED BY <1>1, <1>4, <1>7, <1>8, <1>9 DEF Next

\* MarksInv holds in the initial state.
LEMMA InitMarks == Init => MarksInv
  BY EmptyRows DEF Init, MarksInv, MarksAt, MarkedIffReversed, AppliedRollbacks

\* rolled_back_by names, of every original an applied rollback reverses, that rollback,
\* and of no other row anything; the rollback holds the intent (processor.ts:244-255).
THEOREM MarksAreReversals == Spec => []MarkedIffReversed
  <1> DEFINE Inv == TypeOK /\ KeysInv /\ RowsInv /\ RollbacksInv /\ MarksInv
  <1>1. Init => Inv
    BY InitType, InitKeys, InitRows, InitRollbacks, InitMarks
  <1>2. Inv /\ [Next]_vars => Inv'
    BY StepType, StepKeys, StepRows, StepRollbacks, StepMarks
  <1>3. Inv => MarkedIffReversed
    BY DEF MarksInv
  <1> QED BY <1>1, <1>2, <1>3, PTL DEF Spec

-----------------------------------------------------------------------------
(* The account lock, and the balance. *)

\* At most one open transaction holds an account.
LocksExclusive ==
  \A v, w \in Worker : HasAccount(v) /\ HasAccount(w) /\ Acct(v) = Acct(w) => v = w

\* While it holds it, its local balance is what the account will have.
MoneyAt(w) ==
  /\ IsFiniteSet(own[w].actions)
  /\ pc[w] \in {"idle", "lock"} => own[w].actions = {}
  /\ \A a \in own[w].actions : a.acct = Acct(w)
  /\ HasAccount(w) => bal[w] = balance[Acct(w)] + Moved(own[w].actions)

\* BalanceIsLedger
LedgerBalance ==
  \A a \in Account : balance[a] = Seed[a] + Moved({r \in db.actions : r.acct = a})

MoneyInv ==
  /\ IsFiniteSet(db.actions) /\ LedgerBalance
  /\ LocksExclusive
  /\ \A w \in Worker : MoneyAt(w)

\* A request that is under way is of a player.
LEMMA AcctType ==
  ASSUME TypeOK, NEW w \in Worker, pc[w] # "idle"
  PROVE  Acct(w) \in Account
  <1>1. job[w].req \in Request
    BY DEF TypeOK, Delivery
  <1> QED BY <1>1, BodyAssumption DEF Acct

\* Whatever one session does, the local balance of another stays right.
LEMMA OtherMoney ==
  ASSUME MoneyInv, NEW w \in Worker, Alone(w), NEW v \in Worker, v # w,
         HasAccount(v) => balance'[Acct(v)] = balance[Acct(v)]
  PROVE  MoneyAt(v)' /\ (HasAccount(v)' <=> HasAccount(v)) /\ Acct(v)' = Acct(v)
  <1>1. own'[v] = own[v] /\ pc'[v] = pc[v] /\ bal'[v] = bal[v] /\ MoneyAt(v)
    BY DEF Alone, MoneyInv
  <1>2. Acct(v)' = Acct(v)
    BY AloneSame
  <1> QED BY <1>1, <1>2 DEF MoneyAt, HasAccount

\* A step of one session keeps MoneyInv when it keeps its part of that session.
LEMMA SessionMoney ==
  ASSUME MoneyInv, NEW w \in Worker, Alone(w), UNCHANGED <<db, balance>>, MoneyAt(w)',
         HasAccount(w)' =>
           /\ Acct(w)' = Acct(w)
           /\ HasAccount(w) \/ \A v \in Worker \ {w} : ~(HasAccount(v) /\ Acct(v) = Acct(w))
  PROVE  MoneyInv'
  <1>1. \A v \in Worker : v # w => /\ MoneyAt(v)' /\ (HasAccount(v)' <=> HasAccount(v))
                                   /\ Acct(v)' = Acct(v)
    BY OtherMoney
  <1>2. LocksExclusive'
    BY <1>1 DEF MoneyInv, LocksExclusive
  <1>3. IsFiniteSet(db'.actions) /\ LedgerBalance'
    BY DEF MoneyInv, LedgerBalance
  <1> QED BY <1>1, <1>2, <1>3 DEF MoneyInv

\* A step that neither writes a ledger row nor moves the local balance.
LEMMA QuietMoney ==
  ASSUME MoneyInv, NEW w \in Worker, Alone(w), UNCHANGED <<db, balance, job>>,
         own'[w].actions = own[w].actions, bal'[w] = bal[w],
         HasAccount(w), HasAccount(w)'
  PROVE  MoneyInv'
  <1>1. Acct(w)' = Acct(w)
    BY DEF Acct
  <1>2. MoneyAt(w)'
    BY <1>1 DEF MoneyInv, MoneyAt, HasAccount
  <1> QED BY <1>1, <1>2, SessionMoney

\* A transaction that ends without a commit keeps MoneyInv.
LEMMA EndMoney ==
  ASSUME TypeOK, MoneyInv, NEW w \in Worker, EndTx(w), UNCHANGED <<db, balance>>
  PROVE  MoneyInv'
  <1>1. own'[w] = Empty /\ pc'[w] = "idle" /\ Alone(w)
    BY EndEffect
  <1>2. own'[w].actions = {} /\ ~HasAccount(w)'
    BY <1>1, EmptyRows DEF HasAccount
  <1>3. MoneyAt(w)'
    BY <1>2, FS_EmptySet DEF MoneyAt
  <1> QED BY <1>1, <1>2, <1>3, SessionMoney

\* The beginning of a delivery keeps MoneyInv.
LEMMA TakeMoney ==
  ASSUME TypeOK, MoneyInv, NEW w \in Worker, NEW r \in Request, Take(w, r)
  PROVE  MoneyInv'
  <1>1. /\ Alone(w) /\ pc[w] = "idle" /\ pc'[w] = "lock" /\ UNCHANGED <<db, balance, own>>
    BY TakeEffect
  <1>2. own'[w].actions = {} /\ ~HasAccount(w)'
    BY <1>1 DEF MoneyInv, MoneyAt, HasAccount
  <1>3. MoneyAt(w)'
    BY <1>2, FS_EmptySet DEF MoneyAt
  <1> QED BY <1>1, <1>2, <1>3, SessionMoney

\* The SELECT ... FOR UPDATE returns when nobody holds the account, and with its balance.
LEMMA LockMoney ==
  ASSUME TypeOK, MoneyInv, NEW w \in Worker, LockAccount(w)
  PROVE  MoneyInv'
  <1>1. /\ Alone(w) /\ pc[w] = "lock" /\ Blockers(w) = {} /\ pc'[w] \in {"claim", "commit"}
        /\ bal'[w] = balance[Acct(w)] /\ UNCHANGED <<db, balance, job, own>>
    BY LockEffect
  <1>2. Acct(w)' = Acct(w) /\ own'[w].actions = {}
    BY <1>1 DEF Acct, MoneyInv, MoneyAt
  <1>3. \A v \in Worker \ {w} : ~(HasAccount(v) /\ Acct(v) = Acct(w))
    BY <1>1 DEF Blockers
  <1>4. balance[Acct(w)] \in Int
    <2>1. Acct(w) \in Account
      BY <1>1, AcctType
    <2> QED BY <2>1 DEF TypeOK
  <1>5. bal'[w] = balance'[Acct(w)'] + Moved(own'[w].actions)
    BY <1>1, <1>2, <1>4, MovedNothing
  <1>6. MoneyAt(w)'
    BY <1>2, <1>5, FS_EmptySet DEF MoneyAt
  <1> QED BY <1>1, <1>2, <1>3, <1>6, SessionMoney

\* A row that is new moves the local balance by its delta.
LEMMA InsertMoney ==
  ASSUME TypeOK, TypeOK', KeysInv, MoneyInv, NEW w \in Worker, Alone(w),
         UNCHANGED <<db, balance, job>>, pc[w] \in {"work", "find"},
         NEW row, row.id = Cur(w).id, row.acct = Acct(w),
         own'[w].actions = own[w].actions \cup {row}, bal'[w] = bal[w] + row.delta,
         HasAccount(w)'
  PROVE  MoneyInv'
  <1>1. Acct(w)' = Acct(w) /\ HasAccount(w) /\ MoneyAt(w)
    BY DEF Acct, HasAccount, MoneyInv
  <1>2. row \notin own[w].actions
    BY DEF KeysInv, PendingAction
  <1>3. row.delta \in Int /\ \A a \in own[w].actions : a.delta \in Int
    <2>1. own'[w].actions \subseteq ActionRow
      BY DEF TypeOK, Tables
    <2> QED BY <2>1 DEF ActionRow
  <1>4. IsFiniteSet(own[w].actions)
    BY <1>1 DEF MoneyAt
  <1>5. Moved(own'[w].actions) = Moved(own[w].actions) + row.delta
    BY <1>2, <1>3, <1>4, MovedAdd
  <1>6. Moved(own[w].actions) \in Int /\ balance[Acct(w)] \in Int
    <2>1. Acct(w) \in Account
      BY AcctType
    <2> QED BY <1>3, <1>4, <2>1, MovedInt DEF TypeOK
  <1>7. bal'[w] = balance'[Acct(w)'] + Moved(own'[w].actions)
    <2>1. bal[w] = balance[Acct(w)] + Moved(own[w].actions)
      BY <1>1 DEF MoneyAt
    <2> QED BY <1>1, <1>3, <1>5, <1>6, <2>1
  <1>8. IsFiniteSet(own'[w].actions)
    BY <1>4, FS_AddElement
  <1>9. MoneyAt(w)'
    BY <1>1, <1>7, <1>8 DEF MoneyAt, HasAccount
  <1> QED BY <1>1, <1>9, SessionMoney

\* The ledger row of an action that inserts no intent keeps MoneyInv.
LEMMA RecordMoney ==
  ASSUME TypeOK, TypeOK', KeysInv, MoneyInv, NEW w \in Worker, NEW row, Records(w, row)
  PROVE  MoneyInv'
  <1>1. /\ Alone(w) /\ pc[w] = "work" /\ Advance(w) /\ UNCHANGED <<db, balance, job>>
        /\ own'[w].actions = own[w].actions \cup {row} /\ bal'[w] = bal[w] + row.delta
    BY RecordEffect
  <1>2. HasAccount(w)'
    BY <1>1, AdvanceEffect DEF AtAction, HasAccount
  <1>3. row.id = Cur(w).id /\ row.acct = Acct(w)
    BY DEF Records, Row
  <1> QED BY <1>1, <1>2, <1>3, InsertMoney

\* The ledger row of a rollback that found no intent keeps MoneyInv.
LEMMA UndoMoney ==
  ASSUME TypeOK, TypeOK', KeysInv, MoneyInv, NEW w \in Worker, NEW delta, NEW status,
         Undoes(w, delta, status)
  PROVE  MoneyInv'
  <1>1. PICK row : row = Row(w, delta, status)
    OBVIOUS
  <1>2. /\ Alone(w) /\ pc[w] = "find" /\ pc'[w] = "intend" /\ UNCHANGED <<db, balance, job>>
        /\ own'[w].actions = own[w].actions \cup {row} /\ bal'[w] = bal[w] + delta
    BY <1>1, UndoEffect DEF Undoes
  <1>3. row.id = Cur(w).id /\ row.acct = Acct(w) /\ row.delta = delta
    BY <1>1 DEF Row
  <1>4. HasAccount(w)'
    BY <1>2 DEF HasAccount
  <1> QED BY <1>2, <1>3, <1>4, InsertMoney

\* The insert of an intent, and of the mark with it, keeps MoneyInv.
LEMMA IntendMoney ==
  ASSUME TypeOK, MoneyInv, NEW w \in Worker, NEW found, Intend(w, found)
  PROVE  MoneyInv'
  <1>1. /\ Alone(w) /\ pc[w] = "intend" /\ Advance(w) /\ UNCHANGED <<db, balance, job, bal>>
        /\ own'[w].actions = own[w].actions
    BY IntendEffect
  <1>2. HasAccount(w) /\ HasAccount(w)'
    BY <1>1, AdvanceEffect DEF AtAction, HasAccount
  <1> QED BY <1>1, <1>2, QuietMoney

\* A claim, whether it inserts, waits or finds its action, keeps MoneyInv.
LEMMA ClaimMoney ==
  ASSUME TypeOK, MoneyInv, NEW w \in Worker, Claim(w)
  PROVE  MoneyInv'
  <1>1. CASE ReplayDuplicate(w)
    <2>1. /\ Alone(w) /\ pc[w] = "claim" /\ Advance(w) /\ UNCHANGED <<db, balance, job, own, bal>>
      BY <1>1, ReplayEffect
    <2>2. HasAccount(w) /\ HasAccount(w)'
      BY <2>1, AdvanceEffect DEF AtAction, HasAccount
    <2> QED BY <2>1, <2>2, QuietMoney
  <1>2. CASE ClaimBlocked(w)
    BY <1>2, BlockedEffect, QuietMoney DEF HasAccount
  <1>3. CASE ClaimFresh(w) \/ ClaimResumes(w)
    BY <1>3, RegisterEffect, QuietMoney DEF HasAccount
  <1>4. CASE ClaimLost(w)
    BY <1>4, EndMoney DEF ClaimLost, Fail
  <1> QED BY <1>1, <1>2, <1>3, <1>4 DEF Claim

\* The rows of the transaction are all of the account whose balance it writes, and new.
LEMMA PersistLedger ==
  ASSUME TypeOK, KeysInv, MoneyInv, NEW w \in Worker, Persist(w), NEW a \in Account
  PROVE  balance'[a] = Seed[a] + Moved({r \in db'.actions : r.acct = a})
  <1>1. /\ Alone(w) /\ pc[w] = "commit" /\ balance' = [balance EXCEPT ![Acct(w)] = bal[w]]
        /\ db'.actions = db.actions \cup own[w].actions
    BY PersistEffect
  <1>2. HasAccount(w) /\ MoneyAt(w) /\ balance \in [Account -> Nat] /\ Seed[a] \in Int
    <2>1. Seed[a] \in Int
      BY SeedAssumption
    <2>2. balance \in [Account -> Nat]
      BY DEF TypeOK
    <2> QED BY <1>1, <2>1, <2>2 DEF HasAccount, MoneyInv
  <1>3. PICK there : there = {r \in db.actions : r.acct = a}
    OBVIOUS
  <1>4. balance[a] = Seed[a] + Moved(there)
    BY <1>3 DEF MoneyInv, LedgerBalance
  <1>5. CASE a = Acct(w)
    <2>1. {r \in db'.actions : r.acct = a} = there \cup own[w].actions
      BY <1>1, <1>2, <1>3, <1>5 DEF MoneyAt
    <2>2. there \cap own[w].actions = {}
      <3>1. \A r \in own[w].actions : Claims(w, r.id)
        BY DEF KeysInv, RowsClaimed
      <3>2. \A r \in own[w].actions : \A q \in db.registry : q.id # r.id
        BY <3>1 DEF KeysInv, ClaimsExclusive, Claims
      <3>3. \A r \in db.actions : \E q \in db.registry : q.id = r.id
        BY DEF KeysInv, RowsClaimed
      <3> QED BY <1>3, <3>2, <3>3
    <2>3. IsFiniteSet(there) /\ IsFiniteSet(own[w].actions)
      BY <1>2, <1>3, FS_Subset DEF MoneyAt, MoneyInv
    <2>4. \A r \in there \cup own[w].actions : r.delta \in Int
      BY <1>3 DEF TypeOK, Tables, ActionRow
    <2>5. Moved(there \cup own[w].actions) = Moved(there) + Moved(own[w].actions)
      BY <2>2, <2>3, <2>4, MovedUnion
    <2>6. Moved(there) \in Int /\ Moved(own[w].actions) \in Int
      BY <2>3, <2>4, MovedInt
    <2>7. balance'[a] = bal[w] /\ bal[w] = balance[a] + Moved(own[w].actions)
      BY <1>1, <1>2, <1>5 DEF MoneyAt
    <2>8. balance[a] \in Int
      BY <1>2
    <2>9. balance'[a] = Seed[a] + (Moved(there) + Moved(own[w].actions))
      BY <1>2, <1>4, <2>6, <2>7, <2>8
    <2> QED BY <2>1, <2>5, <2>9
  <1>6. CASE a # Acct(w)
    <2>1. {r \in db'.actions : r.acct = a} = there
      BY <1>1, <1>2, <1>3, <1>6 DEF MoneyAt
    <2>2. balance'[a] = balance[a]
      BY <1>1, <1>2, <1>6
    <2> QED BY <1>4, <2>1, <2>2
  <1> QED BY <1>5, <1>6

\* The commit keeps MoneyInv.
LEMMA PersistMoney ==
  ASSUME TypeOK, KeysInv, MoneyInv, NEW w \in Worker, Persist(w)
  PROVE  MoneyInv'
  <1>1. /\ Alone(w) /\ pc[w] = "commit" /\ pc'[w] = "idle" /\ own'[w] = Empty
        /\ balance' = [balance EXCEPT ![Acct(w)] = bal[w]]
        /\ db'.actions = db.actions \cup own[w].actions
    BY PersistEffect
  <1>2. IsFiniteSet(db'.actions)
    <2>1. IsFiniteSet(db.actions) /\ IsFiniteSet(own[w].actions)
      BY DEF MoneyInv, MoneyAt
    <2>2. IsFiniteSet(db.actions \cup own[w].actions)
      BY <2>1, FS_Union
    <2> QED BY <1>1, <2>2
  <1>3. LedgerBalance'
    BY PersistLedger DEF LedgerBalance
  <1>4. ASSUME NEW v \in Worker, v # w, HasAccount(v)
        PROVE  balance'[Acct(v)] = balance[Acct(v)]
    <2>1. HasAccount(w)
      BY <1>1 DEF HasAccount
    <2>2. Acct(v) # Acct(w)
      BY <1>4, <2>1 DEF MoneyInv, LocksExclusive
    <2>3. Acct(v) \in Account
      BY <1>4, AcctType DEF HasAccount
    <2> QED BY <1>1, <2>2, <2>3 DEF TypeOK
  <1>5. \A v \in Worker : v # w => /\ MoneyAt(v)' /\ (HasAccount(v)' <=> HasAccount(v))
                                   /\ Acct(v)' = Acct(v)
    BY <1>1, <1>4, OtherMoney
  <1>6. ~HasAccount(w)'
    BY <1>1 DEF HasAccount
  <1>7. LocksExclusive'
    BY <1>5, <1>6 DEF MoneyInv, LocksExclusive
  <1>8. own'[w].actions = {}
    BY <1>1, EmptyRows
  <1>9. MoneyAt(w)'
    BY <1>6, <1>8, FS_EmptySet DEF MoneyAt
  <1> QED BY <1>2, <1>3, <1>5, <1>7, <1>9 DEF MoneyInv

\* Every step keeps MoneyInv.
LEMMA StepMoney == TypeOK /\ KeysInv /\ MoneyInv /\ [Next]_vars => MoneyInv'
  <1> SUFFICES ASSUME TypeOK, KeysInv, MoneyInv, [Next]_vars PROVE MoneyInv'
    OBVIOUS
  <1>0. TypeOK'
    BY StepType
  <1>1. ASSUME NEW w \in Worker, NEW r \in Request, Begin(w, r) PROVE MoneyInv'
    BY <1>1, TakeMoney DEF Begin
  <1>3. ASSUME NEW w \in Worker, Tombstone(w) \/ OriginalNotApplied(w) \/ ReverseOriginal(w)
        PROVE  MoneyInv'
    BY <1>0, <1>3, UndoCases, UndoMoney
  <1>4. ASSUME NEW w \in Worker,
               \/ RefuseBetOrWin(w) \/ RefuseRollback(w) \/ IntentViolation(w)
               \/ Crash(w) \/ DeadlockVictim(w)
        PROVE  MoneyInv'
    BY <1>4, EndMoney
       DEF RefuseBetOrWin, RefuseRollback, IntentViolation, Crash, DeadlockVictim, Fail
  <1>5. ASSUME NEW w \in Worker, ProcessBetOrWin(w) \/ AlreadyRolledBack(w)
        PROVE  MoneyInv'
    BY <1>0, <1>5, RecordMoney DEF Records
  <1>6. ASSUME NEW w \in Worker, NotRolledBack(w) PROVE MoneyInv'
    BY <1>6, LooksEffect, QuietMoney DEF HasAccount
  <1>7. ASSUME NEW w \in Worker, Step(w) PROVE MoneyInv'
    BY <1>3, <1>4, <1>5, <1>6, <1>7, LockMoney, ClaimMoney, IntendMoney, PersistMoney
       DEF Step, Undo, InsertRollbackIntent, Commit
  <1>8. ASSUME NEW w \in Worker, CommitUnheard(w) PROVE MoneyInv'
    BY <1>8, PersistMoney DEF CommitUnheard
  <1>9. CASE Tick \/ (\E r \in Request : Reject(r)) \/ UNCHANGED vars
    <2>1. UNCHANGED <<db, balance, own, pc, job, bal>>
      BY <1>9 DEF Tick, Reject, vars, session
    <2> QED BY <2>1 DEF MoneyInv, MoneyAt, LedgerBalance, LocksExclusive, HasAccount, Acct
  <1> QED BY <1>1, <1>4, <1>7, <1>8, <1>9 DEF Next

\* MoneyInv holds in the initial state.
LEMMA InitMoney == Init => MoneyInv
  <1> SUFFICES ASSUME Init PROVE MoneyInv
    OBVIOUS
  <1>1. /\ db.actions = {} /\ balance = Seed
        /\ \A w \in Worker : own[w].actions = {} /\ pc[w] = "idle"
    BY EmptyRows DEF Init
  <1>2. IsFiniteSet({})
    BY FS_EmptySet
  <1>3. ASSUME NEW a \in Account
        PROVE  balance[a] = Seed[a] + Moved({r \in db.actions : r.acct = a})
    <2>1. {r \in db.actions : r.acct = a} = {}
      BY <1>1
    <2>2. Seed[a] \in Int
      BY SeedAssumption
    <2> QED BY <1>1, <2>1, <2>2, MovedNothing
  <1>4. LedgerBalance
    BY <1>3 DEF LedgerBalance
  <1> QED BY <1>1, <1>2, <1>4 DEF MoneyInv, MoneyAt, LocksExclusive, HasAccount

\* The balance of every account is the seeded one plus what its ledger rows moved, at
\* every moment and whatever ran concurrently, failed or crashed: nothing is lost
\* between lockAccount's read and the UPDATE (processor.ts:82, processor.ts:59).
THEOREM BalancesAreLedger == Spec => []BalanceIsLedger
  <1>1. Init => TypeOK /\ KeysInv /\ MoneyInv
    BY InitType, InitKeys, InitMoney
  <1>2. TypeOK /\ KeysInv /\ MoneyInv /\ [Next]_vars => (TypeOK /\ KeysInv /\ MoneyInv)'
    BY StepType, StepKeys, StepMoney
  <1>3. MoneyInv => BalanceIsLedger
    BY DEF MoneyInv, LedgerBalance, BalanceIsLedger, Moved
  <1> QED BY <1>1, <1>2, <1>3, PTL DEF Spec

\* At no moment do two open transactions hold one account: the FOR UPDATE of
\* lockAccount serialises the requests of a player (processor.ts:86).
THEOREM AccountHeldOnce == Spec => []LocksExclusive
  <1>1. Init => TypeOK /\ KeysInv /\ MoneyInv
    BY InitType, InitKeys, InitMoney
  <1>2. TypeOK /\ KeysInv /\ MoneyInv /\ [Next]_vars => (TypeOK /\ KeysInv /\ MoneyInv)'
    BY StepType, StepKeys, StepMoney
  <1>3. MoneyInv => LocksExclusive
    BY DEF MoneyInv
  <1> QED BY <1>1, <1>2, <1>3, PTL DEF Spec

-----------------------------------------------------------------------------
(* The answers. *)

\* Of one delivery: a job, an answer or the delivery in a tx_id.
Same(d, e) == d.req = e.req /\ d.try = e.try

Listed(s, list) ==
  \A i \in DOMAIN list : \E r \in s.registry : r.id = list[i].id /\ r.tx = list[i].tx

\* AnswersMatchRegistry, but for its last conjunct.
Answered ==
  /\ \A q \in replies : Listed(db, q.txs)
  /\ \A r \in db.registry : \A q \in replies :
       Same(q, r.tx[1]) => q.status = "ok" /\ q.txs[r.tx[2]] = [id |-> r.id, tx |-> r.tx]

\* Nothing is answered or claimed for a delivery that was not made.
Past ==
  /\ \A q \in replies : q.req \in Request /\ q.try <= sent[q.req]
  /\ \A r \in db.registry : r.tx[1].req \in Request /\ r.tx[1].try <= sent[r.tx[1].req]

\* A delivery has one worker.
JobsApart ==
  \A v, w \in Worker : pc[v] # "idle" /\ pc[w] # "idle" /\ Same(job[v], job[w]) => v = w

\* While it is open, a delivery has neither an answer nor a committed claim.
OpenAt(w) ==
  pc[w] # "idle" =>
    /\ job[w].req \in Request /\ job[w].try <= sent[job[w].req]
    /\ \A q \in replies : ~Same(q, job[w])
    /\ \A r \in db.registry : ~Same(r.tx[1], job[w])

\* The claim whose action is not yet in the list of transactions.
Unlisted(w, r) == pc[w] \in {"work", "find", "intend"} /\ r.id = Cur(w).id /\ r.tx = MyTx(w)

\* Its list of transactions and its claims agree.
ListAt(w) ==
  /\ Listed(Visible(w), txs[w])
  /\ pc[w] \in {"idle", "lock"} => txs[w] = <<>> /\ own[w].registry = {}
  /\ pc[w] \in AtAction => Len(txs[w]) = pos[w] - 1
  /\ pc[w] \in {"work", "find", "intend"} => \E r \in own[w].registry : Unlisted(w, r)
  /\ \A r \in own[w].registry :
       /\ r.tx[1] = job[w]
       /\ \/ r.tx[2] \in DOMAIN txs[w] /\ txs[w][r.tx[2]] = [id |-> r.id, tx |-> r.tx]
          \/ Unlisted(w, r)

AnswersInv ==
  Answered /\ Past /\ JobsApart /\ \A w \in Worker : OpenAt(w) /\ ListAt(w)

\* Whatever one session does, the answer of another stays right.
LEMMA OtherLists ==
  ASSUME NEW w \in Worker, Alone(w), NEW v \in Worker, v # w, ListAt(v),
         db.registry \subseteq db'.registry
  PROVE  ListAt(v)'
  <1>1. /\ own'[v] = own[v] /\ pc'[v] = pc[v] /\ txs'[v] = txs[v] /\ pos'[v] = pos[v]
        /\ job'[v] = job[v]
    BY DEF Alone
  <1>2. Cur(v)' = Cur(v) /\ MyTx(v)' = MyTx(v)
    BY AloneSame
  <1>3. Visible(v).registry \subseteq Visible(v)'.registry
    BY <1>1 DEF Visible, Merge
  <1>4. Listed(Visible(v)', txs'[v])
    BY <1>1, <1>3 DEF ListAt, Listed
  <1>5. \A r : Unlisted(v, r)' <=> Unlisted(v, r)
    BY <1>1, <1>2 DEF Unlisted
  <1> QED BY <1>1, <1>4, <1>5 DEF ListAt

\* A step inside a transaction.
LEMMA SessionAnswers ==
  ASSUME AnswersInv, NEW w \in Worker, Alone(w), UNCHANGED <<db, sent, replies, job>>,
         pc[w] # "idle", ListAt(w)'
  PROVE  AnswersInv'
  <1>1. \A v \in Worker : ListAt(v)'
    BY OtherLists DEF AnswersInv
  <1>2. \A v \in Worker : pc'[v] # "idle" => pc[v] # "idle"
    BY DEF Alone
  <1>3. Answered' /\ Past'
    BY DEF AnswersInv, Answered, Past, Listed
  <1>4. JobsApart'
    BY <1>2 DEF AnswersInv, JobsApart
  <1>5. \A v \in Worker : OpenAt(v)'
    BY <1>2 DEF AnswersInv, OpenAt
  <1> QED BY <1>1, <1>3, <1>4, <1>5 DEF AnswersInv

\* transactions.push
LEMMA ListPushed ==
  ASSUME TypeOK, NEW w \in Worker, NEW x, x.id \in ActionId, x.tx \in Tx,
         x = [id |-> x.id, tx |-> x.tx], txs'[w] = Append(txs[w], x)
  PROVE  /\ Len(txs'[w]) = Len(txs[w]) + 1
         /\ DOMAIN txs'[w] = DOMAIN txs[w] \cup {Len(txs[w]) + 1}
         /\ txs'[w][Len(txs[w]) + 1] = x
         /\ \A i \in DOMAIN txs[w] : txs'[w][i] = txs[w][i]
         /\ Len(txs[w]) \in Nat
  <1>1. txs[w] \in Seq([id : ActionId, tx : Tx])
    BY DEF TypeOK, TxList
  <1>2. x \in [id : ActionId, tx : Tx]
    OBVIOUS
  <1> QED BY <1>1, <1>2

\* A step that lists the action it is at and goes to the next.
LEMMA PushAnswers ==
  ASSUME TypeOK, AnswersInv, NEW w \in Worker, Alone(w),
         UNCHANGED <<db, sent, replies, job>>, pc[w] \in AtAction, Advance(w),
         own'[w].registry = own[w].registry,
         NEW x, x.id = Cur(w).id, x.tx \in Tx, x = [id |-> x.id, tx |-> x.tx],
         txs'[w] = Append(txs[w], x),
         \E r \in Visible(w).registry : r.id = x.id /\ r.tx = x.tx,
         \A r \in own[w].registry : Unlisted(w, r) => x = [id |-> r.id, tx |-> r.tx]
  PROVE  AnswersInv'
  <1>1. ListAt(w)
    BY DEF AnswersInv
  <1>2. /\ Len(txs'[w]) = Len(txs[w]) + 1 /\ Len(txs[w]) \in Nat
        /\ DOMAIN txs'[w] = DOMAIN txs[w] \cup {Len(txs[w]) + 1}
        /\ txs'[w][Len(txs[w]) + 1] = x
        /\ \A i \in DOMAIN txs[w] : txs'[w][i] = txs[w][i]
    <2>1. x.id \in ActionId
      BY CurType
    <2> QED BY <2>1, ListPushed
  <1>3. \/ pc'[w] = "claim" /\ pos'[w] = pos[w] + 1
        \/ pc'[w] = "commit"
    BY AdvanceEffect
  <1>4. Visible(w)'.registry = Visible(w).registry
    BY DEF Visible, Merge
  <1>5. Listed(Visible(w)', txs'[w])
    BY <1>1, <1>2, <1>4 DEF ListAt, Listed
  <1>6. Len(txs[w]) = pos[w] - 1 /\ pos[w] \in Nat
    BY <1>1 DEF ListAt, TypeOK
  <1>7. pc'[w] \in AtAction => Len(txs'[w]) = pos'[w] - 1
    BY <1>2, <1>3, <1>6 DEF AtAction
  <1>8. ASSUME NEW r \in own[w].registry
        PROVE  /\ r.tx[1] = job[w]
               /\ r.tx[2] \in DOMAIN txs'[w] /\ txs'[w][r.tx[2]] = [id |-> r.id, tx |-> r.tx]
    <2>1. CASE r.tx[2] \in DOMAIN txs[w] /\ txs[w][r.tx[2]] = [id |-> r.id, tx |-> r.tx]
      BY <1>1, <1>2, <2>1 DEF ListAt
    <2>2. CASE Unlisted(w, r)
      <3>1. r.tx[2] = pos[w]
        BY <2>2 DEF Unlisted, MyTx
      <3>2. r.tx[2] = Len(txs[w]) + 1
        BY <1>2, <1>6, <3>1
      <3> QED BY <1>1, <1>2, <2>2, <3>2 DEF ListAt
    <2> QED BY <1>1, <2>1, <2>2 DEF ListAt
  <1>9. ListAt(w)'
    BY <1>3, <1>5, <1>7, <1>8 DEF ListAt, Unlisted
  <1>10. pc[w] # "idle"
    BY DEF AtAction
  <1> QED BY <1>9, <1>10, SessionAnswers

\* A step that neither lists nor claims an action.
LEMMA QuietAnswers ==
  ASSUME TypeOK, AnswersInv, NEW w \in Worker, Alone(w),
         UNCHANGED <<db, sent, replies, job, pos, txs>>,
         own'[w].registry = own[w].registry,
         \/ pc[w] \in {"claim", "claimwait"} /\ pc'[w] \in {"claim", "claimwait"}
         \/ pc[w] \in {"work", "find", "intend"} /\ pc'[w] \in {"work", "find", "intend"}
  PROVE  AnswersInv'
  <1>1. ListAt(w)
    BY DEF AnswersInv
  <1>2. Cur(w)' = Cur(w) /\ MyTx(w)' = MyTx(w)
    BY SameAction
  <1>3. \A r : Unlisted(w, r)' <=> Unlisted(w, r)
    BY <1>2 DEF Unlisted
  <1>4. Visible(w)'.registry = Visible(w).registry
    BY DEF Visible, Merge
  <1>5. Listed(Visible(w)', txs'[w])
    BY <1>1, <1>4 DEF ListAt, Listed
  <1>6. ListAt(w)'
    BY <1>1, <1>3, <1>5 DEF ListAt, AtAction
  <1> QED BY <1>6, SessionAnswers

\* A claim that inserts its row keeps AnswersInv.
LEMMA RegisterAnswers ==
  ASSUME TypeOK, AnswersInv, NEW w \in Worker, ClaimFresh(w) \/ ClaimResumes(w)
  PROVE  AnswersInv'
  <1>1. /\ Alone(w) /\ pc[w] \in {"claim", "claimwait"} /\ pc'[w] = "work"
        /\ own'[w].registry = own[w].registry \cup {ClaimRow(w)'}
        /\ UNCHANGED <<db, sent, replies, job, pos, txs>>
    BY RegisterEffect
  <1>2. ListAt(w)
    BY DEF AnswersInv
  <1>3. Cur(w)' = Cur(w) /\ MyTx(w)' = MyTx(w)
    BY <1>1, SameAction
  <1>4. PICK row : row = ClaimRow(w)'
    OBVIOUS
  <1>5. row.id = Cur(w)'.id /\ row.tx = MyTx(w)' /\ row.tx[1] = job'[w]
    BY <1>4 DEF ClaimRow, MyTx
  <1>6. Unlisted(w, row)'
    BY <1>1, <1>5 DEF Unlisted
  <1>7. Visible(w).registry \subseteq Visible(w)'.registry
    BY <1>1 DEF Visible, Merge
  <1>8. Listed(Visible(w)', txs'[w])
    BY <1>1, <1>2, <1>7 DEF ListAt, Listed
  <1>9. \A r \in own[w].registry :
          r.tx[1] = job'[w] /\ r.tx[2] \in DOMAIN txs'[w] /\
          txs'[w][r.tx[2]] = [id |-> r.id, tx |-> r.tx]
    BY <1>1, <1>2 DEF ListAt, Unlisted
  <1>10. ListAt(w)'
    BY <1>1, <1>2, <1>4, <1>5, <1>6, <1>8, <1>9 DEF ListAt, AtAction
  <1>11. pc[w] # "idle"
    BY <1>1
  <1> QED BY <1>1, <1>10, <1>11, SessionAnswers

\* The pending claim is the one the action is listed with.
LEMMA PendingAnswers ==
  ASSUME TypeOK, AnswersInv, NEW w \in Worker, Alone(w),
         UNCHANGED <<db, sent, replies, job>>, pc[w] \in {"work", "intend"}, Advance(w),
         own'[w].registry = own[w].registry,
         txs'[w] = Append(txs[w], [id |-> Cur(w).id, tx |-> MyTx(w)])
  PROVE  AnswersInv'
  <1>1. PICK x : x = [id |-> Cur(w).id, tx |-> MyTx(w)]
    OBVIOUS
  <1>2. x.id = Cur(w).id /\ x.tx = MyTx(w) /\ x = [id |-> x.id, tx |-> x.tx]
    BY <1>1
  <1>3. pc[w] \in AtAction
    BY DEF AtAction
  <1>4. x.tx \in Tx
    BY <1>2, <1>3, MyTxType
  <1>5. \E r \in Visible(w).registry : r.id = x.id /\ r.tx = x.tx
    BY <1>2, VisibleRows DEF AnswersInv, ListAt, Unlisted
  <1>6. \A r \in own[w].registry : Unlisted(w, r) => x = [id |-> r.id, tx |-> r.tx]
    BY <1>1 DEF Unlisted
  <1> QED BY <1>1, <1>2, <1>3, <1>4, <1>5, <1>6, PushAnswers

\* The answer to a repeated action keeps AnswersInv.
LEMMA ReplayAnswers ==
  ASSUME TypeOK, AnswersInv, NEW w \in Worker, ReplayDuplicate(w)
  PROVE  AnswersInv'
  <1>1. /\ Alone(w) /\ pc[w] = "claim" /\ Advance(w)
        /\ UNCHANGED <<db, sent, replies, job, own>>
    BY ReplayEffect
  <1>2. PICK r \in Registered(w) : txs'[w] = Append(txs[w], [id |-> Cur(w).id, tx |-> r.tx])
    BY ReplayEffect
  <1>3. PICK x : x = [id |-> Cur(w).id, tx |-> r.tx]
    OBVIOUS
  <1>4. x.id = Cur(w).id /\ x.tx = r.tx /\ x = [id |-> x.id, tx |-> x.tx]
    BY <1>3
  <1>5. r \in Visible(w).registry /\ r.id = Cur(w).id
    BY DEF Registered
  <1>6. x.tx \in Tx
    <2>1. r \in RegistryRow
      BY <1>5, VisibleType DEF Tables
    <2> QED BY <1>4, <2>1 DEF RegistryRow
  <1>7. \A q \in own[w].registry : ~Unlisted(w, q)
    BY <1>1 DEF Unlisted
  <1>8. pc[w] \in AtAction
    BY <1>1 DEF AtAction
  <1> QED BY <1>1, <1>2, <1>3, <1>4, <1>5, <1>6, <1>7, <1>8, PushAnswers

\* The SELECT ... FOR UPDATE of the account keeps AnswersInv.
LEMMA LockAnswers ==
  ASSUME TypeOK, AnswersInv, NEW w \in Worker, LockAccount(w)
  PROVE  AnswersInv'
  <1>1. /\ Alone(w) /\ pc[w] = "lock"
        /\ \/ pc'[w] = "claim" /\ pos'[w] = 1
           \/ pc'[w] = "commit" /\ pos'[w] = pos[w]
        /\ UNCHANGED <<db, sent, replies, job, own, txs>>
    BY LockEffect
  <1>2. ListAt(w) /\ txs[w] = <<>> /\ own[w].registry = {} /\ Len(txs[w]) = 0
    BY <1>1 DEF AnswersInv, ListAt
  <1>3. Visible(w)' = Visible(w)
    BY <1>1 DEF Visible
  <1>4. Listed(Visible(w)', txs'[w])
    BY <1>1, <1>2, <1>3 DEF ListAt
  <1>5. ListAt(w)'
    BY <1>1, <1>2, <1>4 DEF ListAt, AtAction
  <1> QED BY <1>1, <1>5, SessionAnswers

\* A transaction ends with an answer or without, with its claims or without them.
LEMMA OverAnswers ==
  ASSUME TypeOK, AnswersInv, NEW w \in Worker, pc[w] # "idle", EndTx(w), UNCHANGED sent,
         NEW rows \in SUBSET own[w].registry, db'.registry = db.registry \cup rows,
         NEW rep, Same(rep, job[w]), Listed(db', rep.txs), replies' \subseteq replies \cup {rep},
         \A r \in rows : rep.status = "ok" /\ rep.txs[r.tx[2]] = [id |-> r.id, tx |-> r.tx]
  PROVE  AnswersInv'
  <1>1. Alone(w) /\ own'[w] = Empty /\ pc'[w] = "idle" /\ txs'[w] = <<>>
    BY EndEffect
  <1>2. OpenAt(w) /\ ListAt(w) /\ Answered /\ Past /\ JobsApart
    BY DEF AnswersInv
  <1>3. \A r \in rows : r.tx[1] = job[w]
    BY <1>2 DEF ListAt
  <1>4. \A q \in replies' : Listed(db', q.txs)
    BY <1>2 DEF Answered, Listed
  <1>5. ASSUME NEW r \in db'.registry, NEW q \in replies', Same(q, r.tx[1])
        PROVE  q.status = "ok" /\ q.txs[r.tx[2]] = [id |-> r.id, tx |-> r.tx]
    <2>1. CASE r \in db.registry /\ q \in replies
      BY <1>2, <1>5, <2>1 DEF Answered
    <2>2. CASE r \in db.registry /\ q = rep
      <3>1. Same(r.tx[1], job[w])
        BY <1>5, <2>2 DEF Same
      <3> QED BY <1>2, <2>2, <3>1 DEF OpenAt
    <2>3. CASE r \in rows /\ q \in replies
      BY <1>2, <1>3, <1>5, <2>3 DEF OpenAt
    <2>4. CASE r \in rows /\ q = rep
      BY <2>4
    <2> QED BY <2>1, <2>2, <2>3, <2>4
  <1>6. Answered'
    BY <1>4, <1>5 DEF Answered
  <1>7. Past'
    <2>1. rep.req \in Request /\ rep.try <= sent[rep.req]
      BY <1>2 DEF OpenAt, Same
    <2>2. \A r \in rows : r.tx[1].req \in Request /\ r.tx[1].try <= sent[r.tx[1].req]
      BY <1>2, <1>3 DEF OpenAt
    <2> QED BY <1>2, <2>1, <2>2 DEF Past
  <1>8. JobsApart'
    BY <1>1, <1>2 DEF JobsApart, Alone
  <1>9. ASSUME NEW v \in Worker
        PROVE  OpenAt(v)' /\ ListAt(v)'
    <2>1. CASE v = w
      <3>1. Listed(Visible(v)', txs'[v]) /\ own'[v].registry = {}
        BY <1>1, <2>1, EmptyRows DEF Listed
      <3> QED BY <1>1, <2>1, <3>1 DEF OpenAt, ListAt, AtAction
    <2>2. CASE v # w
      <3>1. OpenAt(v) /\ ListAt(v) /\ pc'[v] = pc[v] /\ job'[v] = job[v]
        BY <1>1, <2>2 DEF AnswersInv, Alone
      <3>2. pc[v] # "idle" => ~Same(job[w], job[v])
        BY <1>2, <2>2 DEF JobsApart, Same
      <3>3. pc[v] # "idle" => ~Same(rep, job[v]) /\ \A r \in rows : ~Same(r.tx[1], job[v])
        BY <1>3, <3>2 DEF Same
      <3>4. OpenAt(v)'
        BY <3>1, <3>3 DEF OpenAt
      <3>5. ListAt(v)'
        BY <1>1, <2>2, <3>1, OtherLists
      <3> QED BY <3>4, <3>5
    <2> QED BY <2>1, <2>2
  <1> QED BY <1>6, <1>7, <1>8, <1>9 DEF AnswersInv

\* A transaction that ends without a commit keeps AnswersInv.
LEMMA EndAnswers ==
  ASSUME TypeOK, AnswersInv, NEW w \in Worker, pc[w] # "idle", EndTx(w),
         UNCHANGED <<db, sent>>, UNCHANGED replies \/ \E status : Answer(w, status, <<>>, 0)
  PROVE  AnswersInv'
  <1>1. \E rep : /\ rep.req = job[w].req /\ rep.try = job[w].try /\ rep.txs = <<>>
                 /\ replies' \subseteq replies \cup {rep}
    <2>1. CASE UNCHANGED replies
      <3>1. PICK rep : rep = [req |-> job[w].req, try |-> job[w].try, txs |-> <<>>]
        OBVIOUS
      <3> QED BY <2>1, <3>1
    <2>2. CASE \E status : Answer(w, status, <<>>, 0)
      <3>1. PICK status : Answer(w, status, <<>>, 0)
        BY <2>2
      <3>2. PICK rep : rep = [req |-> job[w].req, try |-> job[w].try, status |-> status,
                              txs |-> <<>>, balance |-> 0]
        OBVIOUS
      <3>3. replies' = replies \cup {rep}
        BY <3>1, <3>2 DEF Answer
      <3> QED BY <3>2, <3>3
    <2> QED BY <2>1, <2>2
  <1>2. PICK rep : /\ rep.req = job[w].req /\ rep.try = job[w].try /\ rep.txs = <<>>
                   /\ replies' \subseteq replies \cup {rep}
    BY <1>1
  <1>3. Same(rep, job[w]) /\ Listed(db', rep.txs)
    BY <1>2 DEF Same, Listed
  <1>4. PICK none : none = {}
    OBVIOUS
  <1>5. none \in SUBSET own[w].registry /\ db'.registry = db.registry \cup none
    BY <1>4
  <1> QED BY <1>2, <1>3, <1>4, <1>5, OverAnswers

\* The commit keeps AnswersInv.
LEMMA PersistAnswers ==
  ASSUME TypeOK, AnswersInv, NEW w \in Worker, Commit(w) \/ CommitUnheard(w)
  PROVE  AnswersInv'
  <1>1. /\ Persist(w) /\ EndTx(w) /\ UNCHANGED sent
        /\ pc[w] = "commit" /\ db'.registry = db.registry \cup own[w].registry
    BY PersistEffect DEF Commit, CommitUnheard, Persist
  <1>2. PICK rep : rep = [req |-> job[w].req, try |-> job[w].try, status |-> "ok",
                          txs |-> txs[w], balance |-> bal[w]]
    OBVIOUS
  <1>3. replies' \subseteq replies \cup {rep}
    BY <1>2 DEF Commit, CommitUnheard, Answer
  <1>4. rep.req = job[w].req /\ rep.try = job[w].try /\ rep.status = "ok" /\ rep.txs = txs[w]
    BY <1>2
  <1>5. ListAt(w)
    BY DEF AnswersInv
  <1>6. Listed(db', rep.txs)
    BY <1>1, <1>4, <1>5, VisibleRows DEF ListAt, Listed
  <1>7. \A r \in own[w].registry :
          rep.status = "ok" /\ rep.txs[r.tx[2]] = [id |-> r.id, tx |-> r.tx]
    BY <1>1, <1>4, <1>5 DEF ListAt, Unlisted
  <1>8. PICK rows : rows = own[w].registry
    OBVIOUS
  <1>9. /\ rows \in SUBSET own[w].registry /\ db'.registry = db.registry \cup rows
        /\ \A r \in rows : rep.status = "ok" /\ rep.txs[r.tx[2]] = [id |-> r.id, tx |-> r.tx]
    BY <1>1, <1>7, <1>8
  <1>10. Same(rep, job[w]) /\ pc[w] # "idle"
    BY <1>1, <1>4 DEF Same
  <1> QED BY <1>1, <1>3, <1>6, <1>9, <1>10, OverAnswers

\* A delivery is new: its number is above all that were answered, claimed or begun.
LEMMA SendAnswers ==
  ASSUME TypeOK, AnswersInv, NEW r \in Request, Send(r)
  PROVE  /\ \A q \in replies : ~(q.req = r /\ q.try = sent[r] + 1)
         /\ \A q \in db.registry : ~(q.tx[1].req = r /\ q.tx[1].try = sent[r] + 1)
         /\ \A v \in Worker : pc[v] # "idle" => ~(job[v].req = r /\ job[v].try = sent[r] + 1)
         /\ sent'[r] = sent[r] + 1 /\ sent[r] \in Nat
         /\ \A q \in Request : \A n \in Nat : n <= sent[q] => n <= sent'[q]
  <1>1. sent \in [Request -> Nat] /\ sent' = [sent EXCEPT ![r] = @ + 1]
    BY DEF TypeOK, Send
  <1>2. sent[r] \in Nat /\ sent'[r] = sent[r] + 1 /\ \A q \in Request : q # r => sent'[q] = sent[q]
    BY <1>1
  <1>3. \A n \in Nat : n <= sent[r] => n # sent[r] + 1 /\ n <= sent[r] + 1
    BY <1>2
  <1>4. \A q \in replies : q.try \in Nat /\ (q.req = r => q.try <= sent[r])
    BY DEF TypeOK, Reply, AnswersInv, Past
  <1>5. \A q \in db.registry : q.tx[1].try \in Nat /\ (q.tx[1].req = r => q.tx[1].try <= sent[r])
    <2>1. \A q \in db.registry : q.tx \in Tx
      BY DEF TypeOK, Tables, RegistryRow
    <2>2. \A q \in db.registry : q.tx[1] \in Delivery
      BY <2>1 DEF Tx
    <2> QED BY <2>2 DEF Delivery, AnswersInv, Past
  <1>6. \A v \in Worker : pc[v] # "idle" =>
          job[v].try \in Nat /\ (job[v].req = r => job[v].try <= sent[r])
    BY DEF TypeOK, Delivery, AnswersInv, OpenAt
  <1>7. \A q \in Request : \A n \in Nat : n <= sent[q] => n <= sent'[q]
    BY <1>2, <1>3
  <1> QED BY <1>2, <1>3, <1>4, <1>5, <1>6, <1>7

\* No earlier delivery is answered, claimed or begun later than it was sent.
LEMMA PastAnswers ==
  ASSUME TypeOK, AnswersInv, NEW r \in Request, Send(r)
  PROVE  /\ \A q \in replies : q.req \in Request /\ q.try <= sent'[q.req]
         /\ \A q \in db.registry : q.tx[1].req \in Request /\ q.tx[1].try <= sent'[q.tx[1].req]
         /\ \A v \in Worker : pc[v] # "idle" =>
              job[v].req \in Request /\ job[v].try <= sent'[job[v].req]
  <1>1. \A q \in Request : \A n \in Nat : n <= sent[q] => n <= sent'[q]
    BY SendAnswers
  <1>2. \A q \in replies : q.req \in Request /\ q.try <= sent[q.req] /\ q.try \in Nat
    BY DEF AnswersInv, Past, TypeOK, Reply
  <1>3. \A q \in db.registry :
          q.tx[1].req \in Request /\ q.tx[1].try <= sent[q.tx[1].req] /\ q.tx[1].try \in Nat
    <2>1. \A q \in db.registry : q.tx \in Tx
      BY DEF TypeOK, Tables, RegistryRow
    <2>2. \A q \in db.registry : q.tx[1] \in Delivery
      BY <2>1 DEF Tx
    <2> QED BY <2>2 DEF Delivery, AnswersInv, Past
  <1>4. \A v \in Worker : pc[v] # "idle" =>
          job[v].req \in Request /\ job[v].try <= sent[job[v].req] /\ job[v].try \in Nat
    BY DEF TypeOK, Delivery, AnswersInv, OpenAt
  <1> QED BY <1>1, <1>2, <1>3, <1>4

\* A delivery that validation.ts refuses keeps AnswersInv.
LEMMA RejectAnswers ==
  ASSUME TypeOK, AnswersInv, NEW r \in Request, Reject(r)
  PROVE  AnswersInv'
  <1>1. Send(r) /\ UNCHANGED <<db, pc, job, pos, own, txs>>
    BY DEF Reject, session
  <1>2. PICK rep : rep = [req |-> r, try |-> sent[r] + 1, status |-> "bad_request",
                          txs |-> <<>>, balance |-> 0]
    OBVIOUS
  <1>3. replies' = replies \cup {rep}
    BY <1>2 DEF Reject
  <1>4. rep.req = r /\ rep.try = sent[r] + 1 /\ rep.txs = <<>>
    BY <1>2
  <1>5. /\ \A q \in db.registry : ~Same(rep, q.tx[1])
        /\ \A v \in Worker : pc[v] # "idle" => ~Same(rep, job[v])
        /\ rep.try = sent'[rep.req]
    BY <1>1, <1>4, SendAnswers DEF Same
  <1>6. Answered'
    <2>1. Listed(db', rep.txs)
      BY <1>4 DEF Listed
    <2>2. \A q \in replies : Listed(db', q.txs)
      BY <1>1 DEF AnswersInv, Answered, Listed
    <2>3. \A q \in db'.registry : \A p \in replies' :
            Same(p, q.tx[1]) => p.status = "ok" /\ p.txs[q.tx[2]] = [id |-> q.id, tx |-> q.tx]
      BY <1>1, <1>3, <1>5 DEF AnswersInv, Answered
    <2> QED BY <1>3, <2>1, <2>2, <2>3 DEF Answered
  <1>7. Past'
    <2>1. rep.req \in Request /\ rep.try <= sent'[rep.req]
      <3>1. sent'[r] \in Int
        BY <1>1, SendAnswers
      <3> QED BY <1>4, <1>5, <3>1
    <2> QED BY <1>1, <1>3, <2>1, PastAnswers DEF Past
  <1>8. JobsApart'
    BY <1>1 DEF AnswersInv, JobsApart
  <1>9. \A v \in Worker : OpenAt(v)'
    BY <1>1, <1>3, <1>5, PastAnswers DEF AnswersInv, OpenAt
  <1>10. \A v \in Worker : ListAt(v)'
    <2>1. \A v \in Worker : Cur(v)' = Cur(v) /\ MyTx(v)' = MyTx(v) /\ Visible(v)' = Visible(v)
      BY <1>1, SameAction DEF Visible
    <2> QED BY <1>1, <2>1 DEF AnswersInv, ListAt, Unlisted
  <1> QED BY <1>6, <1>7, <1>8, <1>9, <1>10 DEF AnswersInv

\* The beginning of a delivery keeps AnswersInv.
LEMMA TakeAnswers ==
  ASSUME TypeOK, AnswersInv, NEW w \in Worker, NEW r \in Request, Take(w, r)
  PROVE  AnswersInv'
  <1>1. /\ Alone(w) /\ pc[w] = "idle" /\ pc'[w] = "lock"
        /\ job'[w] = [req |-> r, try |-> sent[r] + 1]
        /\ UNCHANGED <<db, replies, own, txs>> /\ Send(r)
    BY TakeEffect DEF Take
  <1>2. job'[w].req = r /\ job'[w].try = sent[r] + 1
    BY <1>1
  <1>3. /\ \A q \in replies : ~Same(q, job'[w])
        /\ \A q \in db.registry : ~Same(q.tx[1], job'[w])
        /\ \A v \in Worker : pc[v] # "idle" => ~Same(job[v], job'[w]) /\ ~Same(job'[w], job[v])
    BY <1>1, <1>2, SendAnswers DEF Same
  <1>4. Answered'
    BY <1>1 DEF AnswersInv, Answered, Listed
  <1>5. Past'
    BY <1>1, PastAnswers DEF Past
  <1>6. JobsApart'
    BY <1>1, <1>3 DEF AnswersInv, JobsApart, Alone
  <1>7. ASSUME NEW v \in Worker
        PROVE  OpenAt(v)' /\ ListAt(v)'
    <2>1. CASE v = w
      <3>1. job'[w].try <= sent'[job'[w].req]
        <4>1. sent'[r] = sent[r] + 1 /\ sent[r] \in Nat
          BY <1>1, SendAnswers
        <4> QED BY <1>2, <4>1
      <3>2. OpenAt(v)'
        BY <1>1, <1>2, <1>3, <2>1, <3>1 DEF OpenAt
      <3>3. Visible(v)' = Visible(v)
        BY <1>1 DEF Visible
      <3>4. ListAt(v)'
        BY <1>1, <2>1, <3>3 DEF AnswersInv, ListAt, AtAction, Unlisted
      <3> QED BY <3>2, <3>4
    <2>2. CASE v # w
      <3>1. pc'[v] = pc[v] /\ job'[v] = job[v]
        BY <1>1, <2>2 DEF Alone
      <3>2. OpenAt(v)'
        BY <1>1, <3>1, PastAnswers DEF AnswersInv, OpenAt
      <3>3. ListAt(v)'
        BY <1>1, <2>2, OtherLists DEF AnswersInv
      <3> QED BY <3>2, <3>3
    <2> QED BY <2>1, <2>2
  <1> QED BY <1>4, <1>5, <1>6, <1>7 DEF AnswersInv

\* A claim, whether it inserts, waits or finds its action, keeps AnswersInv.
LEMMA ClaimAnswers ==
  ASSUME TypeOK, AnswersInv, NEW w \in Worker, Claim(w)
  PROVE  AnswersInv'
  <1>1. CASE ClaimBlocked(w)
    <2>1. /\ Alone(w) /\ pc[w] = "claim" /\ pc'[w] = "claimwait"
          /\ UNCHANGED <<db, sent, replies, job, pos, own, txs>>
      BY <1>1, BlockedEffect
    <2> QED BY <2>1, QuietAnswers
  <1>2. CASE ClaimLost(w)
    BY <1>2, EndAnswers DEF ClaimLost, Fail
  <1> QED BY <1>1, <1>2, ReplayAnswers, RegisterAnswers DEF Claim

\* Every step keeps AnswersInv.
LEMMA StepAnswers == TypeOK /\ KeysInv /\ AnswersInv /\ [Next]_vars => AnswersInv'
  <1> SUFFICES ASSUME TypeOK, KeysInv, AnswersInv, [Next]_vars PROVE AnswersInv'
    OBVIOUS
  <1>1. ASSUME NEW w \in Worker, NEW r \in Request, Begin(w, r) PROVE AnswersInv'
    BY <1>1, TakeAnswers DEF Begin
  <1>2. ASSUME NEW r \in Request, Reject(r) PROVE AnswersInv'
    BY <1>2, RejectAnswers
  <1>3. ASSUME NEW w \in Worker, Tombstone(w) \/ OriginalNotApplied(w) \/ ReverseOriginal(w)
        PROVE  AnswersInv'
    <2>1. PICK delta, status : Undoes(w, delta, status)
      BY <1>3, UndoCases
    <2>2. pc[w] = "find" /\ InsertRollbackAction(w, delta, status)
      BY <2>1 DEF Undoes
    <2>3. /\ Alone(w) /\ pc'[w] = "intend" /\ own'[w].registry = own[w].registry
          /\ UNCHANGED <<db, sent, replies, job, pos, txs>>
      BY <2>2, UndoEffect
    <2> QED BY <2>2, <2>3, QuietAnswers
  <1>4. ASSUME NEW w \in Worker,
               \/ RefuseBetOrWin(w) \/ RefuseRollback(w) \/ IntentViolation(w)
               \/ Crash(w) \/ DeadlockVictim(w)
        PROVE  AnswersInv'
    <2>1. pc[w] # "idle"
      BY <1>4, DeadlockedOpen
         DEF RefuseBetOrWin, RefuseRollback, IntentViolation, Crash, DeadlockVictim
    <2>2. /\ EndTx(w) /\ UNCHANGED <<db, sent>>
          /\ UNCHANGED replies \/ \E status : Answer(w, status, <<>>, 0)
      BY <1>4 DEF RefuseBetOrWin, RefuseRollback, IntentViolation, Crash, DeadlockVictim, Fail
    <2> QED BY <2>1, <2>2, EndAnswers
  <1>5. ASSUME NEW w \in Worker, ProcessBetOrWin(w) \/ AlreadyRolledBack(w)
        PROVE  AnswersInv'
    BY <1>5, RecordEffect, PendingAnswers DEF Records
  <1>6. ASSUME NEW w \in Worker, NotRolledBack(w) PROVE AnswersInv'
    BY <1>6, LooksEffect, QuietAnswers
  <1>7. ASSUME NEW w \in Worker, InsertRollbackIntent(w) PROVE AnswersInv'
    BY <1>7, IntendEffect, PendingAnswers DEF InsertRollbackIntent
  <1>8. ASSUME NEW w \in Worker, Step(w) PROVE AnswersInv'
    BY <1>3, <1>4, <1>5, <1>6, <1>7, <1>8, LockAnswers, ClaimAnswers, PersistAnswers
       DEF Step, Undo
  <1>9. ASSUME NEW w \in Worker, CommitUnheard(w) PROVE AnswersInv'
    BY <1>9, PersistAnswers
  <1>10. CASE Tick \/ UNCHANGED vars
    <2>1. UNCHANGED <<db, sent, replies, own, pc, pos, job, txs>>
      BY <1>10 DEF Tick, vars, session
    <2>2. \A v \in Worker : Cur(v)' = Cur(v) /\ MyTx(v)' = MyTx(v) /\ Visible(v)' = Visible(v)
      BY <2>1, SameAction DEF Visible
    <2>3. Answered' /\ Past' /\ JobsApart'
      BY <2>1 DEF AnswersInv, Answered, Past, JobsApart
    <2>4. \A v \in Worker : OpenAt(v)' /\ ListAt(v)'
      BY <2>1, <2>2 DEF AnswersInv, OpenAt, ListAt, Unlisted
    <2> QED BY <2>3, <2>4 DEF AnswersInv
  <1> QED BY <1>1, <1>2, <1>4, <1>8, <1>9, <1>10 DEF Next

\* AnswersInv holds in the initial state.
LEMMA InitAnswers == Init => AnswersInv
  <1> SUFFICES ASSUME Init PROVE AnswersInv
    OBVIOUS
  <1>1. /\ db.registry = {} /\ replies = {}
        /\ \A w \in Worker : pc[w] = "idle" /\ txs[w] = <<>> /\ own[w].registry = {}
    BY EmptyRows DEF Init
  <1>2. Answered /\ Past /\ JobsApart
    BY <1>1 DEF Answered, Past, JobsApart
  <1>3. \A w \in Worker : OpenAt(w) /\ ListAt(w)
    BY <1>1 DEF OpenAt, ListAt, Listed, AtAction
  <1> QED BY <1>2, <1>3 DEF AnswersInv

\* A request is atomic and every answer tells the truth: an id has one tx_id for
\* ever, and a delivery that left a row was answered, if at all, with ok and that
\* row (processor.ts:30, transaction.ts).
THEOREM AnswersAreRegistered == Spec => []AnswersMatchRegistry
  <1>1. Init => TypeOK /\ KeysInv /\ AnswersInv
    BY InitType, InitKeys, InitAnswers
  <1>2. TypeOK /\ KeysInv /\ AnswersInv /\ [Next]_vars => (TypeOK /\ KeysInv /\ AnswersInv)'
    BY StepType, StepKeys, StepAnswers
  <1>3. KeysInv /\ AnswersInv => AnswersMatchRegistry
    BY DEF KeysInv, ClaimsExclusive, AnswersInv, Answered, Same, Listed, AnswersMatchRegistry
  <1> QED BY <1>1, <1>2, <1>3, PTL DEF Spec

-----------------------------------------------------------------------------
(* The ids a transaction touches are those of its request. *)

HomeAt(w) ==
  /\ \A a \in own[w].actions :
       a.id \in Ids(job[w].req) /\ (a.orig # NoId => a.orig \in Ids(job[w].req))
  /\ \A r \in own[w].registry : r.id \in Ids(job[w].req)
  /\ \A i \in own[w].intents : i.orig \in Ids(job[w].req)
  /\ held[w] \subseteq Ids(job[w].req)
  /\ pc[w] \in {"idle", "lock"} =>
       own[w].actions = {} /\ own[w].registry = {} /\ own[w].intents = {} /\ held[w] = {}

HomeInv == \A w \in Worker : HomeAt(w)

\* The ids an action names are among those of its request.
LEMMA CurHome ==
  ASSUME TypeOK, NEW w \in Worker, pc[w] \in AtAction
  PROVE  /\ Cur(w).id \in Ids(job[w].req)
         /\ Cur(w).orig # NoId => Cur(w).orig \in Ids(job[w].req)
         /\ Cur(w).kind = "rollback" => Cur(w).orig # NoId
  <1>1. /\ Cur(w).id \in ActionId /\ Cur(w).orig \in ActionId \cup {NoId}
        /\ Cur(w).kind = "rollback" => Cur(w).orig \in ActionId
    BY CurType
  <1>2. pos[w] \in DOMAIN Body[job[w].req].actions /\ Cur(w) = Body[job[w].req].actions[pos[w]]
    BY DEF TypeOK, Cur, Actions
  <1>3. Cur(w) \in Range(Body[job[w].req].actions)
    BY <1>2 DEF Range
  <1>4. {Cur(w).id, Cur(w).orig} \in {{x.id, x.orig} : x \in Range(Body[job[w].req].actions)}
    BY <1>3
  <1>5. \A id \in {Cur(w).id, Cur(w).orig} : id # NoId => id \in Ids(job[w].req)
    BY <1>4 DEF Ids
  <1> QED BY <1>1, <1>5, IdsAssumption

\* The sessions a step does not belong to, and a session whose rows stay.
LEMMA StillHome ==
  ASSUME HomeInv, NEW v \in Worker, own'[v] = own[v], pc'[v] = pc[v], job'[v] = job[v],
         held'[v] = held[v]
  PROVE  HomeAt(v)'
  BY DEF HomeInv, HomeAt

\* A step of one session keeps HomeInv when it keeps its part of that session.
LEMMA SessionHome ==
  ASSUME HomeInv, NEW w \in Worker, Alone(w), HomeAt(w)'
  PROVE  HomeInv'
  BY StillHome DEF HomeInv, Alone

\* A step inside a transaction that writes at most what is in its request.
LEMMA WriteHome ==
  ASSUME HomeInv, NEW w \in Worker, Alone(w), job'[w] = job[w], pc'[w] \notin {"idle", "lock"},
         \A a \in own'[w].actions : a \in own[w].actions \/
           (a.id \in Ids(job[w].req) /\ (a.orig # NoId => a.orig \in Ids(job[w].req))),
         \A r \in own'[w].registry : r \in own[w].registry \/ r.id \in Ids(job[w].req),
         \A i \in own'[w].intents : i \in own[w].intents \/ i.orig \in Ids(job[w].req),
         held'[w] \subseteq held[w] \cup Ids(job[w].req)
  PROVE  HomeInv'
  <1>1. HomeAt(w)'
    BY DEF HomeInv, HomeAt
  <1> QED BY <1>1, SessionHome

\* A transaction that ends without a commit keeps HomeInv.
LEMMA EndHome ==
  ASSUME TypeOK, HomeInv, NEW w \in Worker, EndTx(w)
  PROVE  HomeInv'
  <1>1. own'[w] = Empty /\ Alone(w) /\ held'[w] = {}
    BY EndEffect
  <1>2. HomeAt(w)'
    BY <1>1, EmptyRows DEF HomeAt
  <1> QED BY <1>1, <1>2, SessionHome

\* A claim, whether it inserts, waits or finds its action, keeps HomeInv.
LEMMA ClaimHome ==
  ASSUME TypeOK, HomeInv, NEW w \in Worker, Claim(w)
  PROVE  HomeInv'
  <1>1. CASE ReplayDuplicate(w)
    <2>1. /\ Alone(w) /\ pc[w] = "claim" /\ Advance(w) /\ UNCHANGED <<job, own, held>>
      BY <1>1, ReplayEffect
    <2>2. pc'[w] \notin {"idle", "lock"}
      BY <2>1, AdvanceEffect DEF AtAction
    <2> QED BY <2>1, <2>2, WriteHome
  <1>2. CASE ClaimBlocked(w)
    <2>1. Alone(w) /\ pc'[w] = "claimwait" /\ UNCHANGED <<job, own, held>>
      BY <1>2, BlockedEffect
    <2> QED BY <2>1, WriteHome
  <1>3. CASE ClaimFresh(w) \/ ClaimResumes(w)
    <2>1. /\ Alone(w) /\ pc[w] \in {"claim", "claimwait"} /\ pc'[w] = "work"
          /\ own'[w].registry = own[w].registry \cup {ClaimRow(w)'}
          /\ own'[w].actions = own[w].actions /\ own'[w].intents = own[w].intents
          /\ UNCHANGED <<job, pos, held>>
      BY <1>3, RegisterEffect
    <2>2. ClaimRow(w)'.id = Cur(w).id
      BY <2>1, SameAction DEF ClaimRow
    <2>3. Cur(w).id \in Ids(job[w].req)
      BY <2>1, CurHome DEF AtAction
    <2> QED BY <2>1, <2>2, <2>3, WriteHome
  <1>4. CASE ClaimLost(w)
    BY <1>4, EndHome DEF ClaimLost, Fail
  <1> QED BY <1>1, <1>2, <1>3, <1>4 DEF Claim

\* The ledger row of an action that inserts no intent keeps HomeInv.
LEMMA RecordHome ==
  ASSUME TypeOK, HomeInv, NEW w \in Worker, NEW row, Records(w, row)
  PROVE  HomeInv'
  <1>1. /\ Alone(w) /\ pc[w] = "work" /\ Advance(w) /\ UNCHANGED <<job, held>>
        /\ own'[w].registry = own[w].registry /\ own'[w].intents = own[w].intents
        /\ own'[w].actions = own[w].actions \cup {row}
    BY RecordEffect
  <1>2. pc'[w] \notin {"idle", "lock"}
    BY <1>1, AdvanceEffect DEF AtAction
  <1>3. row.id = Cur(w).id /\ row.orig = Cur(w).orig
    BY DEF Records, Row
  <1>4. Cur(w).id \in Ids(job[w].req) /\ (Cur(w).orig # NoId => Cur(w).orig \in Ids(job[w].req))
    BY <1>1, CurHome DEF AtAction
  <1> QED BY <1>1, <1>2, <1>3, <1>4, WriteHome

\* The ledger row of a rollback that found no intent keeps HomeInv.
LEMMA UndoHome ==
  ASSUME TypeOK, HomeInv, NEW w \in Worker, NEW delta, NEW status, Undoes(w, delta, status)
  PROVE  HomeInv'
  <1>1. PICK row : row = Row(w, delta, status)
    OBVIOUS
  <1>2. /\ Alone(w) /\ pc[w] = "find" /\ pc'[w] = "intend" /\ UNCHANGED job
        /\ held'[w] = held[w] \cup {a.id : a \in Originals(w)}
        /\ own'[w].registry = own[w].registry /\ own'[w].intents = own[w].intents
        /\ own'[w].actions = own[w].actions \cup {row}
    BY <1>1, UndoEffect DEF Undoes
  <1>3. row.id = Cur(w).id /\ row.orig = Cur(w).orig
    BY <1>1 DEF Row
  <1>4. Cur(w).id \in Ids(job[w].req) /\ Cur(w).orig \in Ids(job[w].req)
    <2>1. Cur(w).kind = "rollback" /\ pc[w] \in AtAction
      BY <1>2 DEF TypeOK, AtAction
    <2> QED BY <2>1, CurHome
  <1>5. {a.id : a \in Originals(w)} \subseteq {Cur(w).orig}
    BY DEF Originals
  <1> QED BY <1>2, <1>3, <1>4, <1>5, WriteHome

\* The insert of an intent, and of the mark with it, keeps HomeInv.
LEMMA IntendHome ==
  ASSUME TypeOK, HomeInv, NEW w \in Worker, NEW found, Intend(w, found)
  PROVE  HomeInv'
  <1>1. PICK intent : intent = [orig |-> Cur(w).orig, by |-> Cur(w).id]
    OBVIOUS
  <1>2. /\ Alone(w) /\ pc[w] = "intend" /\ Advance(w) /\ UNCHANGED <<job, held>>
        /\ own'[w].registry = own[w].registry /\ own'[w].actions = own[w].actions
        /\ own'[w].intents = own[w].intents \cup {intent}
    BY <1>1, IntendEffect
  <1>3. pc'[w] \notin {"idle", "lock"}
    BY <1>2, AdvanceEffect DEF AtAction
  <1>4. intent.orig \in Ids(job[w].req)
    <2>1. Cur(w).kind = "rollback" /\ pc[w] \in AtAction
      BY <1>2 DEF TypeOK, AtAction
    <2> QED BY <1>1, <2>1, CurHome
  <1> QED BY <1>2, <1>3, <1>4, WriteHome

\* Every step keeps HomeInv.
LEMMA StepHome == TypeOK /\ HomeInv /\ [Next]_vars => HomeInv'
  <1> SUFFICES ASSUME TypeOK, HomeInv, [Next]_vars PROVE HomeInv'
    OBVIOUS
  <1>1. ASSUME NEW w \in Worker, NEW r \in Request, Begin(w, r) PROVE HomeInv'
    <2>1. Alone(w) /\ pc[w] = "idle" /\ pc'[w] = "lock" /\ UNCHANGED <<own, held>>
      BY <1>1, TakeEffect DEF Begin
    <2>2. HomeAt(w)'
      BY <2>1 DEF HomeInv, HomeAt
    <2> QED BY <2>1, <2>2, SessionHome
  <1>2. ASSUME NEW w \in Worker, LockAccount(w) PROVE HomeInv'
    <2>1. Alone(w) /\ pc'[w] \in {"claim", "commit"} /\ UNCHANGED <<job, own, held>>
      BY <1>2, LockEffect
    <2> QED BY <2>1, WriteHome
  <1>3. ASSUME NEW w \in Worker, Tombstone(w) \/ OriginalNotApplied(w) \/ ReverseOriginal(w)
        PROVE  HomeInv'
    BY <1>3, UndoCases, UndoHome
  <1>4. ASSUME NEW w \in Worker,
               \/ RefuseBetOrWin(w) \/ RefuseRollback(w) \/ IntentViolation(w)
               \/ Crash(w) \/ DeadlockVictim(w) \/ Commit(w) \/ CommitUnheard(w)
        PROVE  HomeInv'
    BY <1>4, EndHome DEF RefuseBetOrWin, RefuseRollback, IntentViolation, Crash,
                         DeadlockVictim, Fail, Commit, CommitUnheard, Persist
  <1>5. ASSUME NEW w \in Worker, ProcessBetOrWin(w) \/ AlreadyRolledBack(w)
        PROVE  HomeInv'
    BY <1>5, RecordHome DEF Records
  <1>6. ASSUME NEW w \in Worker, NotRolledBack(w) PROVE HomeInv'
    <2>1. Alone(w) /\ pc'[w] = "find" /\ UNCHANGED <<job, own, held>>
      BY <1>6, LooksEffect
    <2> QED BY <2>1, WriteHome
  <1>7. ASSUME NEW w \in Worker, Step(w) PROVE HomeInv'
    BY <1>2, <1>3, <1>4, <1>5, <1>6, <1>7, ClaimHome, IntendHome
       DEF Step, Undo, InsertRollbackIntent
  <1>8. CASE Tick \/ (\E r \in Request : Reject(r)) \/ UNCHANGED vars
    <2>1. UNCHANGED <<own, pc, job, held>>
      BY <1>8 DEF Tick, Reject, vars, session
    <2> QED BY <2>1 DEF HomeInv, HomeAt
  <1> QED BY <1>1, <1>4, <1>7, <1>8 DEF Next

\* HomeInv holds in the initial state.
LEMMA InitHome == Init => HomeInv
  BY EmptyRows DEF Init, HomeInv, HomeAt

\* With an account for each id, transactions that hold accounts share no id.
LEMMA NothingShared ==
  ASSUME OneAccountPerId, TypeOK, MoneyInv, NEW v \in Worker, NEW w \in Worker, v # w,
         HasAccount(v), HasAccount(w), NEW id, id \in Ids(job[v].req)
  PROVE  id \notin Ids(job[w].req)
  <1>1. job[v].req \in Request /\ job[w].req \in Request
    BY DEF TypeOK, HasAccount, Delivery
  <1>2. Acct(v) # Acct(w)
    BY DEF MoneyInv, LocksExclusive
  <1> QED BY <1>1, <1>2 DEF OneAccountPerId, Acct

-----------------------------------------------------------------------------
(* Tombstones. *)

TombstonesIn(s) ==
  /\ \A r, a \in s.actions :
       r.status = "noop_tombstone" /\ a.id = r.orig /\ a.kind # "rollback"
         => a.status = "noop_prerolled"
  /\ \A r \in s.actions : r.status = "noop_tombstone" => r.kind = "rollback"

TombstonesInv == TombstonesIn(db) /\ \A w \in Worker : TombstonesIn(Visible(w))

\* A row that no visible tombstone names, and that is no tombstone of a visible row.
LEMMA RowTombstones ==
  ASSUME TombstonesInv, NEW w \in Worker, Alone(w), UNCHANGED db,
         NEW row, own'[w].actions = own[w].actions \cup {row},
         \A r \in Visible(w).actions :
           r.status = "noop_tombstone" /\ r.orig = row.id /\ row.kind # "rollback"
             => row.status = "noop_prerolled",
         row.status = "noop_tombstone" =>
           row.kind = "rollback" /\ \A a \in Visible(w).actions : a.id # row.orig
  PROVE  TombstonesInv'
  <1>1. \A v \in Worker : v # w => Visible(v)' = Visible(v)
    BY DEF Visible, Alone
  <1>2. Visible(w)'.actions = Visible(w).actions \cup {row}
    BY DEF Visible, Merge
  <1>3. TombstonesIn(Visible(w)')
    BY <1>2 DEF TombstonesInv, TombstonesIn
  <1>4. \A v \in Worker : TombstonesIn(Visible(v)')
    BY <1>1, <1>3 DEF TombstonesInv
  <1> QED BY <1>4 DEF TombstonesInv, TombstonesIn

\* A step that writes no ledger row.
LEMMA QuietTombstones ==
  ASSUME TombstonesInv, NEW w \in Worker, Alone(w), UNCHANGED db,
         own'[w].actions \subseteq own[w].actions
  PROVE  TombstonesInv'
  <1>1. \A v \in Worker : v # w => Visible(v)' = Visible(v)
    BY DEF Visible, Alone
  <1>2. Visible(w)'.actions \subseteq Visible(w).actions
    BY DEF Visible, Merge
  <1>3. TombstonesIn(Visible(w)')
    BY <1>2 DEF TombstonesInv, TombstonesIn
  <1>4. \A v \in Worker : TombstonesIn(Visible(v)')
    BY <1>1, <1>3 DEF TombstonesInv
  <1> QED BY <1>4 DEF TombstonesInv, TombstonesIn

\* A transaction that ends without a commit keeps TombstonesInv.
LEMMA EndTombstones ==
  ASSUME TypeOK, TombstonesInv, NEW w \in Worker, EndTx(w), UNCHANGED db
  PROVE  TombstonesInv'
  <1>1. own'[w].actions = {} /\ Alone(w)
    BY EndEffect, EmptyRows
  <1> QED BY <1>1, QuietTombstones

\* A bet or a win that a tombstone names finds its intent.
LEMMA RecordTombstones ==
  ASSUME TypeOK, RollbacksInv, TombstonesInv, NEW w \in Worker, NEW row, Records(w, row)
  PROVE  TombstonesInv'
  <1>1. /\ Alone(w) /\ pc[w] = "work" /\ UNCHANGED db
        /\ own'[w].actions = own[w].actions \cup {row}
    BY RecordEffect
  <1>2. row.status # "noop_tombstone" /\ row.id = Cur(w).id /\ row.kind = Cur(w).kind
    BY DEF Records, Row
  <1>3. ASSUME NEW r \in Visible(w).actions, r.status = "noop_tombstone", r.orig = row.id,
               row.kind # "rollback"
        PROVE  row.status = "noop_prerolled"
    <2>1. ProcessBetOrWin(w) /\ row = Row(w, BetOrWinDelta(w),
                                          IF Noop(w) THEN "noop_prerolled" ELSE "applied")
      BY <1>2, <1>3 DEF Records, AlreadyRolledBack
    <2>2. Resolves(r)
      BY <1>3 DEF TombstonesInv, TombstonesIn, Resolves
    <2>3. [orig |-> r.orig, by |-> r.id] \in Visible(w).intents
      BY <1>1, <2>2, VisibleRows DEF RollbacksInv, RollbacksIn, RollbacksAt, Announced
    <2>4. Noop(w)
      BY <1>2, <1>3, <2>3 DEF Noop, HasIntent
    <2> QED BY <2>1, <2>4 DEF Row
  <1> QED BY <1>1, <1>2, <1>3, RowTombstones

\* A tombstone is written when no row of its original is visible.
LEMMA UndoTombstones ==
  ASSUME TypeOK, RowsInv, TombstonesInv, NEW w \in Worker, NEW delta, NEW status,
         Undoes(w, delta, status)
  PROVE  TombstonesInv'
  <1>1. PICK row : row = Row(w, delta, status)
    OBVIOUS
  <1>2. /\ Alone(w) /\ pc[w] = "find" /\ UNCHANGED db
        /\ own'[w].actions = own[w].actions \cup {row}
    BY <1>1, UndoEffect DEF Undoes
  <1>3. row.orig = Cur(w).orig /\ row.status = status /\ row.kind = "rollback"
    <2>1. Cur(w).kind = "rollback"
      BY <1>2 DEF TypeOK
    <2> QED BY <1>1, <2>1 DEF Row
  <1>4. ASSUME row.status = "noop_tombstone", NEW a \in Visible(w).actions
        PROVE  a.id # row.orig
    <2>1. Originals(w) = {}
      BY <1>3, <1>4 DEF Undoes
    <2>2. Proj(a) \in Visible(w).registry
      BY VisibleRegistered
    <2>3. Proj(a).id = a.id /\ Proj(a).at = a.at
      BY DEF Proj
    <2> QED BY <1>3, <2>1, <2>2, <2>3 DEF Originals
  <1> QED BY <1>2, <1>3, <1>4, RowTombstones

\* What other transactions commit is of other accounts.
LEMMA PersistTombstones ==
  ASSUME OneAccountPerId, TypeOK, MoneyInv, HomeInv, TombstonesInv,
         NEW w \in Worker, Persist(w)
  PROVE  TombstonesInv'
  <1>1. /\ Alone(w) /\ pc[w] = "commit" /\ own'[w] = Empty
        /\ db'.actions = db.actions \cup own[w].actions
    BY PersistEffect
  <1>2. db'.actions = Visible(w).actions
    BY <1>1, VisibleRows
  <1>3. TombstonesIn(db')
    BY <1>2 DEF TombstonesInv, TombstonesIn
  <1>4. ASSUME NEW v \in Worker
        PROVE  TombstonesIn(Visible(v)')
    <2>1. CASE v = w
      <3>1. Visible(v)'.actions = db'.actions
        BY <1>1, <2>1, EmptyRows DEF Visible, Merge
      <3> QED BY <1>3, <3>1 DEF TombstonesIn
    <2>2. CASE v # w
      <3>1. Visible(v)'.actions = Visible(v).actions \cup own[w].actions
        BY <1>1, <2>2 DEF Visible, Merge, Alone
      <3>2. Visible(v)'.actions = Visible(w).actions \cup own[v].actions
        BY <1>1, <2>2, VisibleRows DEF Visible, Merge, Alone
      <3>3. ASSUME NEW r, NEW a, r.status = "noop_tombstone", r.kind = "rollback", a.id = r.orig,
                   \/ r \in own[w].actions /\ a \in own[v].actions
                   \/ r \in own[v].actions /\ a \in own[w].actions
            PROVE  FALSE
        <4>1. HasAccount(w) /\ HasAccount(v)
          BY <1>1, <3>3 DEF HasAccount, HomeInv, HomeAt, TypeOK, Place
        <4>2. r.orig # NoId
          <5>1. r \in ActionRow /\ a \in ActionRow
            BY <3>3 DEF TypeOK, Tables
          <5> QED BY <3>3, <5>1, IdsAssumption DEF ActionRow
        <4>3. \/ r.orig \in Ids(job[w].req) /\ r.orig \in Ids(job[v].req)
              \/ r.orig \in Ids(job[v].req) /\ r.orig \in Ids(job[w].req)
          BY <3>3, <4>2 DEF HomeInv, HomeAt
        <4> QED BY <2>2, <4>1, <4>3, NothingShared
      <3>4. /\ TombstonesIn(Visible(v)) /\ TombstonesIn(Visible(w))
            /\ Visible(v).actions = db.actions \cup own[v].actions
            /\ Visible(w).actions = db.actions \cup own[w].actions
        BY VisibleRows DEF TombstonesInv
      <3> QED BY <3>1, <3>3, <3>4 DEF TombstonesIn
    <2> QED BY <2>1, <2>2
  <1> QED BY <1>3, <1>4 DEF TombstonesInv

\* A claim, whether it inserts, waits or finds its action, keeps TombstonesInv.
LEMMA ClaimTombstones ==
  ASSUME TypeOK, TombstonesInv, NEW w \in Worker, Claim(w)
  PROVE  TombstonesInv'
  <1>1. CASE ReplayDuplicate(w) \/ ClaimBlocked(w)
    BY <1>1, ReplayEffect, BlockedEffect, QuietTombstones
  <1>2. CASE ClaimFresh(w) \/ ClaimResumes(w)
    BY <1>2, RegisterEffect, QuietTombstones
  <1>3. CASE ClaimLost(w)
    BY <1>3, EndTombstones DEF ClaimLost, Fail
  <1> QED BY <1>1, <1>2, <1>3 DEF Claim

\* Every step keeps TombstonesInv.
LEMMA StepTombstones ==
  ASSUME OneAccountPerId, TypeOK, RowsInv, RollbacksInv, MoneyInv, HomeInv, TombstonesInv,
         [Next]_vars
  PROVE  TombstonesInv'
  <1>1. ASSUME NEW w \in Worker, NEW r \in Request, Begin(w, r) PROVE TombstonesInv'
    BY <1>1, TakeEffect, QuietTombstones DEF Begin
  <1>2. ASSUME NEW w \in Worker, LockAccount(w) PROVE TombstonesInv'
    BY <1>2, LockEffect, QuietTombstones
  <1>3. ASSUME NEW w \in Worker, Tombstone(w) \/ OriginalNotApplied(w) \/ ReverseOriginal(w)
        PROVE  TombstonesInv'
    BY <1>3, UndoCases, UndoTombstones
  <1>4. ASSUME NEW w \in Worker,
               \/ RefuseBetOrWin(w) \/ RefuseRollback(w) \/ IntentViolation(w)
               \/ Crash(w) \/ DeadlockVictim(w)
        PROVE  TombstonesInv'
    BY <1>4, EndTombstones
       DEF RefuseBetOrWin, RefuseRollback, IntentViolation, Crash, DeadlockVictim, Fail
  <1>5. ASSUME NEW w \in Worker, ProcessBetOrWin(w) \/ AlreadyRolledBack(w)
        PROVE  TombstonesInv'
    BY <1>5, RecordTombstones DEF Records
  <1>6. ASSUME NEW w \in Worker, NotRolledBack(w) PROVE TombstonesInv'
    BY <1>6, LooksEffect, QuietTombstones
  <1>7. ASSUME NEW w \in Worker, InsertRollbackIntent(w) PROVE TombstonesInv'
    BY <1>7, IntendEffect, QuietTombstones DEF InsertRollbackIntent
  <1>8. ASSUME NEW w \in Worker, Step(w) PROVE TombstonesInv'
    BY <1>2, <1>3, <1>4, <1>5, <1>6, <1>7, <1>8, ClaimTombstones, PersistTombstones
       DEF Step, Undo, Commit
  <1>9. ASSUME NEW w \in Worker, CommitUnheard(w) PROVE TombstonesInv'
    BY <1>9, PersistTombstones DEF CommitUnheard
  <1>10. CASE Tick \/ (\E r \in Request : Reject(r)) \/ UNCHANGED vars
    <2>1. UNCHANGED <<db, own>>
      BY <1>10 DEF Tick, Reject, vars, session
    <2> QED BY <2>1 DEF TombstonesInv, TombstonesIn, Visible
  <1> QED BY <1>1, <1>4, <1>8, <1>9, <1>10 DEF Next

\* TombstonesInv holds in the initial state.
LEMMA InitTombstones == Init => TombstonesInv
  BY EmptyRows, VisibleRows DEF Init, TombstonesInv, TombstonesIn

\* What the theorems about services whose ids have one account each rest on.
HouseInv == TypeOK /\ KeysInv /\ RowsInv /\ RollbacksInv /\ MoneyInv /\ HomeInv

\* Their conjunction is inductive.
LEMMA HouseKeeps == (Init => HouseInv) /\ (HouseInv /\ [Next]_vars => HouseInv')
  BY InitType, InitKeys, InitRows, InitRollbacks, InitMoney, InitHome,
     StepType, StepKeys, StepRows, StepRollbacks, StepMoney, StepHome DEF HouseInv

\* While each id is used for one account, an action and a rollback that was told there is
\* no such action are never both in force, however their requests are interleaved,
\* retried or lost (processor.ts:228).
THEOREM TombstonesHold ==
  ASSUME OneAccountPerId
  PROVE  Spec => []TombstoneHolds
  <1>1. Init => HouseInv /\ TombstonesInv
    BY HouseKeeps, InitTombstones
  <1>2. HouseInv /\ TombstonesInv /\ [Next]_vars => (HouseInv /\ TombstonesInv)'
    BY HouseKeeps, StepTombstones DEF HouseInv
  <1>3. TombstonesInv => TombstoneHolds
    BY DEF TombstonesInv, TombstonesIn, TombstoneHolds
  <1> QED BY <1>1, <1>2, <1>3, PTL DEF Spec

-----------------------------------------------------------------------------
(* The errors of services whose ids have one account each. *)

\* No insert of a claim waits for another, and an intent that was not there when it
\* was looked for is not there when it is inserted.
PrivateAt(w) ==
  /\ pc[w] # "claimwait"
  /\ pc[w] \in {"find", "intend"} => ~HasIntent(w, Cur(w).orig)

PrivateInv == \A w \in Worker : PrivateAt(w)

\* The only thing to wait for is the account.
LEMMA OnlyAccountsBlock ==
  ASSUME OneAccountPerId, TypeOK, MoneyInv, HomeInv, NEW v \in Worker, NEW w \in Worker,
         pc[w] # "claimwait", v \in Blockers(w)
  PROVE  pc[w] = "lock" /\ HasAccount(v)
  <1>1. v # w
    BY DEF Blockers
  <1>2. Cur(w).kind = "rollback" /\ pc[w] \in {"find", "intend"} => Cur(w).orig \in Ids(job[w].req)
    BY CurHome DEF AtAction
  <1>3. CASE pc[w] \in {"find", "intend"} /\ (Cur(w).orig \in held[v] \/ Intends(v, Cur(w).orig))
    <2>1. Cur(w).kind = "rollback"
      BY <1>3 DEF TypeOK
    <2>2. Cur(w).orig \in Ids(job[v].req) /\ pc[v] \notin {"idle", "lock"}
      BY <1>3 DEF HomeInv, HomeAt, Intends
    <2>3. HasAccount(v) /\ HasAccount(w)
      BY <1>3, <2>2 DEF HasAccount, TypeOK, Place
    <2> QED BY <1>1, <1>2, <1>3, <2>1, <2>2, <2>3, NothingShared
  <1> QED BY <1>3 DEF Blockers

\* No circle of sessions waits for one another: an account is the only thing waited
\* for, and whoever holds it waits for nothing.
LEMMA NobodyDeadlocked ==
  ASSUME OneAccountPerId, TypeOK, MoneyInv, HomeInv, PrivateInv, NEW w \in Worker
  PROVE  ~Deadlocked(w)
  <1> SUFFICES ASSUME Deadlocked(w) PROVE FALSE
    OBVIOUS
  <1>1. PICK S \in SUBSET Worker :
          /\ w \in S
          /\ \A v \in S : Blockers(v) \cap S # {} /\ \E u \in S : v \in Blockers(u)
    BY DEF Deadlocked
  <1>2. PICK v \in Worker : v \in Blockers(w)
    BY <1>1
  <1>3. PICK u \in Worker : w \in Blockers(u)
    BY <1>1
  <1>4. pc[w] = "lock" /\ HasAccount(w)
    BY <1>2, <1>3, OnlyAccountsBlock DEF PrivateInv, PrivateAt
  <1> QED BY <1>4 DEF HasAccount

\* A step of w that keeps its own intents and its action, or leaves the rollback.
LEMMA SessionPrivate ==
  ASSUME PrivateInv, NEW w \in Worker, Alone(w), UNCHANGED db, PrivateAt(w)'
  PROVE  PrivateInv'
  <1>1. ASSUME NEW v \in Worker, v # w
        PROVE  PrivateAt(v)'
    <2>1. pc'[v] = pc[v] /\ own'[v] = own[v]
      BY <1>1 DEF Alone
    <2>2. Cur(v)' = Cur(v)
      BY <1>1, AloneSame
    <2>3. \A id : HasIntent(v, id)' <=> HasIntent(v, id)
      BY <2>1 DEF HasIntent, Visible
    <2> QED BY <2>1, <2>2, <2>3 DEF PrivateInv, PrivateAt
  <1> QED BY <1>1 DEF PrivateInv

\* A step away from the places where an id could be contended for keeps PrivateInv.
LEMMA AwayPrivate ==
  ASSUME PrivateInv, NEW w \in Worker, Alone(w), UNCHANGED db,
         pc'[w] \notin {"claimwait", "find", "intend"}
  PROVE  PrivateInv'
  BY SessionPrivate DEF PrivateAt

\* The look for an intent, and the lock of the originals, keep PrivateInv.
LEMMA LooksPrivate ==
  ASSUME TypeOK, PrivateInv, NEW w \in Worker, NotRolledBack(w)
  PROVE  PrivateInv'
  <1>1. /\ Alone(w) /\ pc'[w] = "find" /\ ~HasIntent(w, Cur(w).orig)
        /\ UNCHANGED <<db, job, pos, own>>
    BY LooksEffect
  <1>2. Cur(w)' = Cur(w)
    BY <1>1, SameAction
  <1>3. PrivateAt(w)'
    BY <1>1, <1>2 DEF PrivateAt, HasIntent, Visible
  <1> QED BY <1>1, <1>3, SessionPrivate

\* The ledger row of a rollback that found no intent keeps PrivateInv.
LEMMA UndoPrivate ==
  ASSUME TypeOK, PrivateInv, NEW w \in Worker, NEW delta, NEW status, Undoes(w, delta, status)
  PROVE  PrivateInv'
  <1>1. /\ Alone(w) /\ pc[w] = "find" /\ pc'[w] = "intend" /\ own'[w].intents = own[w].intents
        /\ UNCHANGED <<db, job, pos>>
    BY UndoEffect DEF Undoes
  <1>2. Cur(w)' = Cur(w)
    BY <1>1, SameAction
  <1>3. Visible(w)'.intents = Visible(w).intents
    BY <1>1 DEF Visible, Merge
  <1>4. ~HasIntent(w, Cur(w).orig)
    BY <1>1 DEF PrivateInv, PrivateAt
  <1>5. PrivateAt(w)'
    BY <1>1, <1>2, <1>3, <1>4 DEF PrivateAt, HasIntent
  <1> QED BY <1>1, <1>5, SessionPrivate

\* The claim that would wait is another account's.
LEMMA ClaimPrivate ==
  ASSUME OneAccountPerId, TypeOK, MoneyInv, HomeInv, PrivateInv, NEW w \in Worker, Claim(w)
  PROVE  PrivateInv'
  <1>1. CASE ReplayDuplicate(w)
    <2>1. Alone(w) /\ pc[w] = "claim" /\ Advance(w) /\ UNCHANGED db
      BY <1>1, ReplayEffect
    <2>2. pc'[w] \in {"claim", "commit"}
      BY <2>1, AdvanceEffect DEF AtAction
    <2> QED BY <2>1, <2>2, AwayPrivate
  <1>2. CASE ClaimFresh(w) \/ ClaimResumes(w)
    BY <1>2, RegisterEffect, AwayPrivate
  <1>3. ~ClaimBlocked(w)
    <2> SUFFICES ASSUME ClaimBlocked(w) PROVE FALSE
      OBVIOUS
    <2>1. PICK v \in Worker \ {w} : pc[w] = "claim" /\ Claims(v, Cur(w).id)
      BY DEF ClaimBlocked
    <2>2. Cur(w).id \in Ids(job[w].req)
      BY <2>1, CurHome DEF AtAction
    <2>3. Cur(w).id \in Ids(job[v].req) /\ pc[v] \notin {"idle", "lock"}
      BY <2>1 DEF HomeInv, HomeAt, Claims
    <2>4. HasAccount(v) /\ HasAccount(w)
      BY <2>1, <2>3 DEF HasAccount, TypeOK, Place
    <2> QED BY <2>1, <2>2, <2>3, <2>4, NothingShared
  <1>4. ~ClaimLost(w)
    BY DEF ClaimLost, PrivateInv, PrivateAt
  <1> QED BY <1>1, <1>2, <1>3, <1>4 DEF Claim

\* What another transaction commits holds no intent for this one's original.
LEMMA OtherPrivate ==
  ASSUME OneAccountPerId, TypeOK, MoneyInv, HomeInv, PrivateInv, NEW w \in Worker, EndTx(w),
         \/ UNCHANGED db
         \/ pc[w] = "commit" /\ db'.intents = db.intents \cup own[w].intents,
         NEW v \in Worker
  PROVE  PrivateAt(v)'
  <1>1. Alone(w) /\ pc'[w] = "idle"
    BY EndEffect
  <1>2. CASE v = w
    BY <1>1, <1>2 DEF PrivateAt
  <1>3. CASE v # w
    <2>1. pc'[v] = pc[v] /\ own'[v] = own[v] /\ PrivateAt(v)
      BY <1>1, <1>3 DEF Alone, PrivateInv
    <2>2. Cur(v)' = Cur(v)
      BY <1>1, <1>3, AloneSame
    <2> SUFFICES ASSUME pc[v] \in {"find", "intend"}
                 PROVE  ~HasIntent(v, Cur(v).orig)'
      BY <2>1, <2>2 DEF PrivateAt
    <2>3. ~HasIntent(v, Cur(v).orig)
      BY <2>1 DEF PrivateAt
    <2>4. Cur(v).orig \in Ids(job[v].req)
      <3>1. Cur(v).kind = "rollback" /\ pc[v] \in AtAction
        BY DEF TypeOK, AtAction
      <3> QED BY <3>1, CurHome
    <2>5. ASSUME pc[w] = "commit", NEW i \in own[w].intents
          PROVE  i.orig # Cur(v).orig
      <3>1. HasAccount(v) /\ HasAccount(w)
        BY <2>5 DEF HasAccount
      <3>2. i.orig \in Ids(job[w].req)
        BY DEF HomeInv, HomeAt
      <3> QED BY <1>3, <2>4, <3>1, <3>2, NothingShared
    <2>6. \A i \in Visible(v)'.intents : i \in Visible(v).intents \/
            (pc[w] = "commit" /\ i \in own[w].intents)
      BY <2>1 DEF Visible, Merge
    <2>7. \A i \in Visible(v)'.intents : i.orig # Cur(v).orig
      BY <2>3, <2>5, <2>6 DEF HasIntent
    <2> QED BY <2>2, <2>7 DEF HasIntent
  <1> QED BY <1>2, <1>3

\* Every step keeps PrivateInv.
LEMMA StepPrivate ==
  ASSUME OneAccountPerId, TypeOK, MoneyInv, HomeInv, PrivateInv, [Next]_vars
  PROVE  PrivateInv'
  <1>1. ASSUME NEW w \in Worker, NEW r \in Request, Begin(w, r) PROVE PrivateInv'
    BY <1>1, TakeEffect, AwayPrivate DEF Begin
  <1>2. ASSUME NEW w \in Worker, LockAccount(w) PROVE PrivateInv'
    BY <1>2, LockEffect, AwayPrivate
  <1>3. ASSUME NEW w \in Worker, Tombstone(w) \/ OriginalNotApplied(w) \/ ReverseOriginal(w)
        PROVE  PrivateInv'
    BY <1>3, UndoCases, UndoPrivate
  <1>4. ASSUME NEW w \in Worker, RefuseBetOrWin(w) \/ RefuseRollback(w) \/ Crash(w)
        PROVE  PrivateInv'
    <2>1. EndTx(w) /\ UNCHANGED db
      BY <1>4 DEF RefuseBetOrWin, RefuseRollback, Crash, Fail
    <2> QED BY <2>1, OtherPrivate DEF PrivateInv
  <1>5. ASSUME NEW w \in Worker, IntentViolation(w) \/ DeadlockVictim(w) PROVE FALSE
    BY <1>5, NobodyDeadlocked DEF IntentViolation, DeadlockVictim, PrivateInv, PrivateAt
  <1>6. ASSUME NEW w \in Worker, Commit(w) \/ CommitUnheard(w) PROVE PrivateInv'
    <2>1. Persist(w)
      BY <1>6 DEF Commit, CommitUnheard
    <2>2. EndTx(w) /\ pc[w] = "commit" /\ db'.intents = db.intents \cup own[w].intents
      BY <2>1, PersistEffect DEF Persist
    <2> QED BY <2>2, OtherPrivate DEF PrivateInv
  <1>7. ASSUME NEW w \in Worker, ProcessBetOrWin(w) \/ AlreadyRolledBack(w)
        PROVE  PrivateInv'
    <2>1. Alone(w) /\ pc[w] = "work" /\ Advance(w) /\ UNCHANGED db
      BY <1>7, RecordEffect DEF Records
    <2>2. pc'[w] \in {"claim", "commit"}
      BY <2>1, AdvanceEffect DEF AtAction
    <2> QED BY <2>1, <2>2, AwayPrivate
  <1>8. ASSUME NEW w \in Worker, InsertRollbackIntent(w) PROVE PrivateInv'
    <2>1. Alone(w) /\ pc[w] = "intend" /\ Advance(w) /\ UNCHANGED db
      BY <1>8, IntendEffect DEF InsertRollbackIntent
    <2>2. pc'[w] \in {"claim", "commit"}
      BY <2>1, AdvanceEffect DEF AtAction
    <2> QED BY <2>1, <2>2, AwayPrivate
  <1>9. ASSUME NEW w \in Worker, Step(w) PROVE PrivateInv'
    BY <1>2, <1>3, <1>4, <1>5, <1>6, <1>7, <1>8, <1>9, ClaimPrivate, LooksPrivate
       DEF Step, Undo
  <1>10. CASE Tick \/ (\E r \in Request : Reject(r)) \/ UNCHANGED vars
    <2>1. UNCHANGED <<db, own, pc, job, pos>>
      BY <1>10 DEF Tick, Reject, vars, session
    <2>2. \A v \in Worker : Cur(v)' = Cur(v)
      BY <2>1, SameAction
    <2> QED BY <2>1, <2>2 DEF PrivateInv, PrivateAt, HasIntent, Visible
  <1> QED BY <1>1, <1>4, <1>5, <1>6, <1>9, <1>10 DEF Next

\* PrivateInv holds in the initial state.
LEMMA InitPrivate == Init => PrivateInv
  BY DEF Init, PrivateInv, PrivateAt

\* The answers a step may give.
LEMMA StepErrors ==
  ASSUME OneAccountPerId, \A r \in Request : Valid(r),
         TypeOK, MoneyInv, HomeInv, PrivateInv, OnlyFundsErrors, [Next]_vars
  PROVE  OnlyFundsErrors'
  <1>1. ASSUME NEW w \in Worker, RefuseBetOrWin(w) \/ RefuseRollback(w) \/ Commit(w)
        PROVE  OnlyFundsErrors'
    <2>1. PICK status, list, b :
            Answer(w, status, list, b) /\ status \in {"ok", "insufficient_funds"}
      BY <1>1 DEF RefuseBetOrWin, RefuseRollback, Fail, Commit
    <2> QED BY <2>1 DEF Answer, OnlyFundsErrors
  <1>2. ASSUME NEW w \in Worker, IntentViolation(w) \/ DeadlockVictim(w) \/ ClaimLost(w)
        PROVE  FALSE
    BY <1>2, NobodyDeadlocked
       DEF IntentViolation, DeadlockVictim, ClaimLost, PrivateInv, PrivateAt
  <1>3. ASSUME NEW w \in Worker, Claim(w) PROVE UNCHANGED replies
    BY <1>2, <1>3 DEF Claim, ReplayDuplicate, ClaimFresh, ClaimBlocked, ClaimResumes, tables
  <1>4. ASSUME NEW w \in Worker,
               \/ LockAccount(w) \/ ProcessBetOrWin(w) \/ AlreadyRolledBack(w)
               \/ NotRolledBack(w) \/ InsertRollbackIntent(w)
        PROVE  UNCHANGED replies
    BY <1>4 DEF LockAccount, ProcessBetOrWin, AlreadyRolledBack, NotRolledBack,
                InsertRollbackIntent, Intend, tables
  <1>5. ASSUME NEW w \in Worker, Tombstone(w) \/ OriginalNotApplied(w) \/ ReverseOriginal(w)
        PROVE  UNCHANGED replies
    BY <1>5 DEF Tombstone, OriginalNotApplied, ReverseOriginal, InsertRollbackAction, tables
  <1>6. ASSUME NEW w \in Worker, Step(w) PROVE OnlyFundsErrors'
    BY <1>1, <1>2, <1>3, <1>4, <1>5, <1>6 DEF Step, Undo, OnlyFundsErrors
  <1>7. ASSUME NEW w \in Worker, NEW r \in Request, Begin(w, r) PROVE UNCHANGED replies
    BY <1>7 DEF Begin, Take
  <1>8. CASE Tick \/ UNCHANGED vars \/ (\E w \in Worker : CommitUnheard(w) \/ Crash(w))
    <2>1. UNCHANGED replies
      BY <1>8 DEF Tick, vars, CommitUnheard, Crash
    <2> QED BY <2>1 DEF OnlyFundsErrors
  <1>9. \A r \in Request : ~Reject(r)
    BY DEF Reject
  <1> QED BY <1>2, <1>6, <1>7, <1>8, <1>9 DEF Next, OnlyFundsErrors

\* While each id is used for one account, no valid delivery fails but for funds: no id
\* is claimed by two open transactions, no intent is inserted twice, and no requests
\* wait for one another in a circle (processor.ts:30, transaction.ts).
THEOREM OnlyFundsFail ==
  ASSUME OneAccountPerId, \A r \in Request : Valid(r)
  PROVE  Spec => []OnlyFundsErrors
  <1>1. Init => HouseInv /\ PrivateInv /\ OnlyFundsErrors
    BY HouseKeeps, InitPrivate DEF Init, OnlyFundsErrors
  <1>2. /\ HouseInv /\ PrivateInv /\ OnlyFundsErrors /\ [Next]_vars
        => (HouseInv /\ PrivateInv /\ OnlyFundsErrors)'
    BY HouseKeeps, StepPrivate, StepErrors DEF HouseInv
  <1> QED BY <1>1, <1>2, PTL DEF Spec
=============================================================================
