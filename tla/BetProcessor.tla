---------------------------- MODULE BetProcessor ----------------------------
(***************************************************************************)
(* The wallet path of the service (src/processor.ts, src/db/transaction.ts) *)
(* over the tables of sql/schema.sql.  A worker is one execution of         *)
(* processAggregatorRequest on a pooled connection; an action is one SQL    *)
(* statement together with the code up to the next one that can wait for or *)
(* see another transaction.  PostgreSQL runs at READ COMMITTED: a statement *)
(* sees what is committed when it starts and what its own transaction       *)
(* wrote; a unique key or a row lock of an open transaction makes it wait.  *)
(***************************************************************************)
EXTENDS Integers, Sequences, FiniteSetsExt

CONSTANTS
  Account,    \* (user_id, currency) pairs
  ActionId,   \* the uuids clients choose for actions
  Request,    \* names of the bodies clients send
  Worker,     \* concurrent executions of the handler: the pool's connections
  Body,       \* what each request holds: its account and its actions
  Seed,       \* balances before the first request (0: no row yet)
  MaxSend,    \* bound: how often each request is delivered, retries included
  MaxMinute,  \* bound: the last minute of the clock
  NoId,       \* not an action id
  NoJob       \* what an idle worker executes

BetOrWin == [kind : {"bet", "win"}, id : ActionId, amount : Nat, orig : {NoId}]
Rollback == [kind : {"rollback"}, id : ActionId, amount : {0}, orig : ActionId]

ASSUME IdsAssumption == NoId \notin ActionId
ASSUME BoundsAssumption == MaxSend \in [Request -> Nat] /\ MaxMinute \in Nat
ASSUME SeedAssumption == Seed \in [Account -> Nat]
\* three kinds of action; the amount 0 stands for all that are not positive
ASSUME BodyAssumption ==
  Body \in [Request -> [acct : Account, actions : Seq(BetOrWin \cup Rollback)]]
ASSUME JobAssumption == NoJob \notin [req : Request, try : Nat]

VARIABLES
  db,       \* the committed rows: registry, actions, intents, marks, outbox
  balance,  \* accounts.balance, committed
  minute,   \* the minute of the wall clock
  sent,     \* deliveries of each request so far
  replies,  \* every answer the service computed
  pc,       \* where each worker is
  job,      \* the delivery it executes
  pos,      \* the index of the action it is at
  bal,      \* its local `balance`
  at,       \* ledgerCreatedAt of the action it is at
  own,      \* the rows its open transaction wrote
  held,     \* ids of the ledger rows it holds FOR UPDATE
  txs       \* its local `transactions`

session == <<pos, bal, at, own, held, txs>>
vars == <<db, balance, minute, sent, replies, pc, job, session>>

-----------------------------------------------------------------------------
(* Rows.  The tx_id of a claim is a fresh uuid: the delivery and the index   *)
(* of the action within it.                                                  *)

Delivery == [req : Request, try : Nat]
Tx == Delivery \X Nat
Minute == 0..MaxMinute
Status == {"applied", "noop_prerolled", "noop_tombstone",
           "noop_already_rolled_back", "noop_original_not_applied"}

RegistryRow == [id : ActionId, tx : Tx, acct : Account, at : Minute]
ActionRow == [id : ActionId, tx : Tx, acct : Account, at : Minute,
              kind : {"bet", "win", "rollback"}, amount : Nat,
              orig : ActionId \cup {NoId}, delta : Int, status : Status]
IntentRow == [orig : ActionId, by : ActionId]
Mark == [id : ActionId, by : ActionId]    \* actions.rolled_back_by
Delta == [bet : Int, win : Int, rounds : Int, rollbacks : Int, rbBet : Int, rbWin : Int]
OutboxRow == [tx : Tx, acct : Account, at : Minute, d : Delta]

TxList == Seq([id : ActionId, tx : Tx])    \* transactions, as they are answered

Tables == [registry : SUBSET RegistryRow, actions : SUBSET ActionRow,
           intents : SUBSET IntentRow, marks : SUBSET Mark, outbox : SUBSET OutboxRow]

Empty == [registry |-> {}, actions |-> {}, intents |-> {}, marks |-> {}, outbox |-> {}]

Merge(s, t) ==
  [registry |-> s.registry \cup t.registry, actions |-> s.actions \cup t.actions,
   intents |-> s.intents \cup t.intents, marks |-> s.marks \cup t.marks,
   outbox |-> s.outbox \cup t.outbox]

\* What a statement of w sees.
Visible(w) == Merge(db, own[w])

Acct(w) == Body[job[w].req].acct
Actions(w) == Body[job[w].req].actions
Cur(w) == Actions(w)[pos[w]]

-----------------------------------------------------------------------------
(* The reporting deltas of one action, as enqueueRtpDelta inserts them.      *)

OfBet(kind, n) == IF kind = "bet" THEN n ELSE 0
OfWin(kind, n) == IF kind = "win" THEN n ELSE 0

AppliedDelta(kind, amount) ==
  [bet |-> OfBet(kind, amount), win |-> OfWin(kind, amount), rounds |-> OfBet(kind, 1),
   rollbacks |-> 0, rbBet |-> 0, rbWin |-> 0]

RemovedDelta(kind, amount) ==
  [bet |-> OfBet(kind, -amount), win |-> OfWin(kind, -amount), rounds |-> OfBet(kind, -1),
   rollbacks |-> 0, rbBet |-> OfBet(kind, amount), rbWin |-> OfWin(kind, amount)]

RolledBackDelta(kind, amount) ==
  [bet |-> 0, win |-> 0, rounds |-> 0, rollbacks |-> 0,
   rbBet |-> OfBet(kind, amount), rbWin |-> OfWin(kind, amount)]

CountDelta == [bet |-> 0, win |-> 0, rounds |-> 0, rollbacks |-> 1, rbBet |-> 0, rbWin |-> 0]

Enqueued(tx, acct, m, d) == [tx |-> tx, acct |-> acct, at |-> m, d |-> d]

-----------------------------------------------------------------------------
(* Locks.  A transaction keeps them until it ends.                           *)

\* Seeded bug: lockAccount reads the balance without FOR UPDATE.
HasAccountNever(w) == FALSE

\* lockAccount has returned: the accounts row is held FOR UPDATE.
HasAccount(w) == pc[w] \in {"claim", "claimwait", "work", "find", "intend", "commit"}

Claims(v, id) == \E r \in own[v].registry : r.id = id
Intends(v, id) == \E i \in own[v].intents : i.orig = id

\* The open transactions the statement w is at waits for: the accounts row, the
\* registry key, the original's row, or the rollback_intents key.
Blockers(w) ==
  {v \in Worker \ {w} :
     \/ pc[w] = "lock" /\ HasAccount(v) /\ Acct(v) = Acct(w)
     \/ pc[w] = "claimwait" /\ Claims(v, Cur(w).id)
     \/ /\ pc[w] = "find" /\ Cur(w).orig \in held[v]
        /\ \E a \in db.actions : a.id = Cur(w).orig
     \/ pc[w] = "intend" /\ Intends(v, Cur(w).orig)}

\* A cycle of transactions that wait for one another.  Each waits for at most one.
Deadlocked(w) ==
  \E S \in SUBSET Worker :
    /\ w \in S
    /\ \A v \in S : Blockers(v) \cap S # {} /\ \E u \in S : v \in Blockers(u)

-----------------------------------------------------------------------------
Init ==
  /\ db = Empty
  /\ balance = Seed
  /\ minute = 0
  /\ sent = [r \in Request |-> 0]
  /\ replies = {}
  /\ pc = [w \in Worker |-> "idle"]
  /\ job = [w \in Worker |-> NoJob]
  /\ pos = [w \in Worker |-> 0]
  /\ bal = [w \in Worker |-> 0]
  /\ at = [w \in Worker |-> 0]
  /\ own = [w \in Worker |-> Empty]
  /\ held = [w \in Worker |-> {}]
  /\ txs = [w \in Worker |-> <<>>]

Goto(w, label) == pc' = [pc EXCEPT ![w] = label]
Write(w, rows) == own' = [own EXCEPT ![w] = Merge(@, rows)]

\* The transaction is over: its locks and what it wrote are gone from the session.
EndTx(w) ==
  /\ Goto(w, "idle")
  /\ job' = [job EXCEPT ![w] = NoJob]
  /\ pos' = [pos EXCEPT ![w] = 0]
  /\ bal' = [bal EXCEPT ![w] = 0]
  /\ at' = [at EXCEPT ![w] = 0]
  /\ own' = [own EXCEPT ![w] = Empty]
  /\ held' = [held EXCEPT ![w] = {}]
  /\ txs' = [txs EXCEPT ![w] = <<>>]

Answer(w, status, list, b) ==
  replies' = replies \cup
    {[req |-> job[w].req, try |-> job[w].try, status |-> status, txs |-> list, balance |-> b]}

\* Seeded bug: the catch commits what was written before the error.
FailKeepsRows(w, status) ==
  /\ Answer(w, status, <<>>, 0)
  /\ db' = Merge(db, own[w])
  /\ EndTx(w)
  /\ UNCHANGED <<balance, minute, sent>>

\* Seeded bug: the catch neither rolls back nor releases the connection.
FailOpen(w, status) ==
  /\ Answer(w, status, <<>>, 0)
  /\ UNCHANGED <<db, balance, minute, sent, pc, job, session>>

\* inTransaction's catch: ROLLBACK, and the error goes to the client.
Fail(w, status) ==
  /\ Answer(w, status, <<>>, 0)
  /\ EndTx(w)
  /\ UNCHANGED <<db, balance, minute, sent>>

\* The loop goes to the next action, or past the last one.
Advance(w) ==
  IF pos[w] < Len(Actions(w))
    THEN Goto(w, "claim") /\ pos' = [pos EXCEPT ![w] = @ + 1]
    ELSE Goto(w, "commit") /\ UNCHANGED pos

\* transactions.push
Push(w, tx) == txs' = [txs EXCEPT ![w] = Append(@, [id |-> Cur(w).id, tx |-> tx])]

tables == <<db, balance, minute, sent, replies, job>>

-----------------------------------------------------------------------------
(* A client sends a request, for the first time or again: a lost answer, a   *)
(* timeout and a duplicate all look like this to the service.                *)
Send(r) == sent[r] < MaxSend[r] /\ sent' = [sent EXCEPT ![r] = @ + 1]

\* processRequestSchema
Valid(r) ==
  \A i \in DOMAIN Body[r].actions :
    Body[r].actions[i].kind # "rollback" => Body[r].actions[i].amount > 0

Reject(r) ==
  /\ ~Valid(r)
  /\ Send(r)
  /\ replies' = replies \cup
       {[req |-> r, try |-> sent[r] + 1, status |-> "bad_request", txs |-> <<>>, balance |-> 0]}
  /\ UNCHANGED <<db, balance, minute, pc, job, session>>

Take(w, r) ==
  /\ pc[w] = "idle"
  /\ Send(r)
  /\ job' = [job EXCEPT ![w] = [req |-> r, try |-> sent[r] + 1]]
  /\ Goto(w, "lock")
  /\ UNCHANGED <<db, balance, minute, replies, session>>

Begin(w, r) == Valid(r) /\ Take(w, r)

\* lockAccount; without actions the balance is all the client asked for.
LockAccount(w) ==
  /\ pc[w] = "lock"
  /\ Blockers(w) = {}
  /\ bal' = [bal EXCEPT ![w] = balance[Acct(w)]]
  /\ IF Actions(w) = <<>>
       THEN Goto(w, "commit") /\ UNCHANGED pos
       ELSE Goto(w, "claim") /\ pos' = [pos EXCEPT ![w] = 1]
  /\ UNCHANGED <<tables, at, own, held, txs>>

-----------------------------------------------------------------------------
(* claimAtcion: INSERT ... ON CONFLICT DO NOTHING, and in the same statement *)
(* the row that was there.                                                   *)

MyTx(w) == <<job[w], pos[w]>>

Register(w, m) ==
  /\ Write(w, [Empty EXCEPT !.registry =
                 {[id |-> Cur(w).id, tx |-> MyTx(w), acct |-> Acct(w), at |-> m]}])
  /\ Goto(w, "work")

\* Seeded bug: ids are taken per account.
RegisteredHere(w) ==
  {r \in Visible(w).registry : r.id = Cur(w).id /\ r.acct = Acct(w)}

Registered(w) == {r \in Visible(w).registry : r.id = Cur(w).id}

ReplayDuplicate(w) ==
  /\ pc[w] = "claim"
  /\ \E r \in Registered(w) : Push(w, r.tx)
  /\ Advance(w)
  /\ UNCHANGED <<tables, bal, at, own, held>>

ClaimFresh(w) ==
  /\ pc[w] = "claim"
  /\ Registered(w) = {}
  /\ \A v \in Worker \ {w} : ~Claims(v, Cur(w).id)
  /\ at' = [at EXCEPT ![w] = minute]
  /\ Register(w, minute)
  /\ UNCHANGED <<tables, pos, bal, held, txs>>

\* Another open transaction has inserted the id: the INSERT waits for its end, on
\* a snapshot that does not have the row.
ClaimBlocked(w) ==
  /\ pc[w] = "claim"
  /\ Registered(w) = {}
  /\ \E v \in Worker \ {w} : Claims(v, Cur(w).id)
  /\ at' = [at EXCEPT ![w] = minute]
  /\ Goto(w, "claimwait")
  /\ UNCHANGED <<tables, pos, bal, own, held, txs>>

\* It rolled back: the insert goes through.
ClaimResumes(w) ==
  /\ pc[w] = "claimwait"
  /\ Blockers(w) = {}
  /\ Registered(w) = {}
  /\ Register(w, at[w])
  /\ UNCHANGED <<tables, pos, bal, at, held, txs>>

\* It committed: nothing is inserted, the snapshot has no row to select, and
\* result.rows[0] is undefined.
ClaimLost(w) ==
  /\ pc[w] = "claimwait"
  /\ Blockers(w) = {}
  /\ Registered(w) # {}
  /\ Fail(w, "no_row")

Claim(w) ==
  ReplayDuplicate(w) \/ ClaimFresh(w) \/ ClaimBlocked(w) \/ ClaimResumes(w) \/ ClaimLost(w)

-----------------------------------------------------------------------------
\* Seeded bug: only intents of this very request count.
HasIntentOwn(w, id) == \E i \in own[w].intents : i.orig = id

HasIntent(w, id) == \E i \in Visible(w).intents : i.orig = id

Row(w, delta, status) ==
  [id |-> Cur(w).id, tx |-> MyTx(w), acct |-> Acct(w), at |-> at[w], kind |-> Cur(w).kind,
   amount |-> Cur(w).amount, orig |-> Cur(w).orig, delta |-> delta, status |-> status]

\* Seeded bug: the balance check is missing.
AffordsAnything(w, delta) == TRUE

Affords(w, delta) == bal[w] + delta >= 0

\* Seeded bug: tombstones are not looked up.
NoopNever(w) == FALSE

\* processBetOrWin: what the action does to the balance.
Noop(w) == HasIntent(w, Cur(w).id)
BetOrWinDelta(w) ==
  IF Noop(w) THEN 0 ELSE IF Cur(w).kind = "bet" THEN -Cur(w).amount ELSE Cur(w).amount

ProcessBetOrWin(w) ==
  /\ pc[w] = "work" /\ Cur(w).kind # "rollback"
  /\ Affords(w, BetOrWinDelta(w))
  /\ bal' = [bal EXCEPT ![w] = @ + BetOrWinDelta(w)]
  /\ Write(w, [Empty EXCEPT
       !.actions = {Row(w, BetOrWinDelta(w), IF Noop(w) THEN "noop_prerolled" ELSE "applied")},
       !.outbox = {Enqueued(MyTx(w), Acct(w), at[w],
                            IF Noop(w) THEN RolledBackDelta(Cur(w).kind, Cur(w).amount)
                                       ELSE AppliedDelta(Cur(w).kind, Cur(w).amount))}])
  /\ Push(w, MyTx(w))
  /\ Advance(w)
  /\ UNCHANGED <<tables, at, held>>

RefuseBetOrWin(w) ==
  /\ pc[w] = "work" /\ Cur(w).kind # "rollback"
  /\ ~Affords(w, BetOrWinDelta(w))
  /\ Fail(w, "insufficient_funds")

-----------------------------------------------------------------------------
(* processRolback *)

\* Its first query finds an intent: the row is written and nothing else.
AlreadyRolledBack(w) ==
  /\ pc[w] = "work" /\ Cur(w).kind = "rollback"
  /\ HasIntent(w, Cur(w).orig)
  /\ Write(w, [Empty EXCEPT !.actions = {Row(w, 0, "noop_already_rolled_back")}])
  /\ Push(w, MyTx(w))
  /\ Advance(w)
  /\ UNCHANGED <<tables, bal, at, held>>

NotRolledBack(w) ==
  /\ pc[w] = "work" /\ Cur(w).kind = "rollback"
  /\ ~HasIntent(w, Cur(w).orig)
  /\ Goto(w, "find")
  /\ UNCHANGED <<tables, session>>

\* findActionForUpdate: the ledger row at the registry's created_at.
Originals(w) ==
  {a \in Visible(w).actions :
     a.id = Cur(w).orig /\ \E r \in Visible(w).registry : r.id = a.id /\ r.at = a.at}

\* Seeded bug: the status of the original is not looked at.
ReversibleAlways(a) == TRUE

Reversible(a) == a.status = "applied" /\ a.delta # 0

\* The original's row is locked, the rollback's row is inserted, and the INSERT of
\* the intent comes next.
InsertRollbackAction(w, delta, status) ==
  /\ Write(w, [Empty EXCEPT !.actions = {Row(w, delta, status)}])
  /\ held' = [held EXCEPT ![w] = @ \cup {a.id : a \in Originals(w)}]
  /\ bal' = [bal EXCEPT ![w] = @ + delta]
  /\ Goto(w, "intend")
  /\ UNCHANGED <<tables, pos, at, txs>>

Tombstone(w) ==
  /\ pc[w] = "find" /\ Blockers(w) = {}
  /\ Originals(w) = {}
  /\ InsertRollbackAction(w, 0, "noop_tombstone")

OriginalNotApplied(w) ==
  /\ pc[w] = "find" /\ Blockers(w) = {}
  /\ \E a \in Originals(w) : ~Reversible(a)
  /\ InsertRollbackAction(w, 0, "noop_original_not_applied")

ReverseOriginal(w) ==
  /\ pc[w] = "find" /\ Blockers(w) = {}
  /\ \E a \in Originals(w) :
       /\ Reversible(a)
       /\ Affords(w, -a.delta)
       /\ InsertRollbackAction(w, -a.delta, "applied")

RefuseRollback(w) ==
  /\ pc[w] = "find" /\ Blockers(w) = {}
  /\ \E a \in Originals(w) : Reversible(a) /\ ~Affords(w, -a.delta)
  /\ Fail(w, "insufficient_funds")

\* Seeded bug: a rollback that reversed nothing marks the original all the same.
ReversedAnyway(w) == Originals(w)

\* The rollback row this transaction has just inserted reverses these originals.
Reversed(w) ==
  {a \in Originals(w) : \E rb \in own[w].actions : rb.id = Cur(w).id /\ rb.status = "applied"}

\* Seeded bug: the removal is booked when the rollback arrives.
RemovedWhenRolledBack(w, a) ==
  Enqueued(MyTx(w), a.acct, at[w], RemovedDelta(a.kind, a.amount))

\* Seeded bug: what is rolled back is counted as such and stays in the totals.
RemovedKept(w, a) ==
  Enqueued(MyTx(w), a.acct, a.at, RolledBackDelta(a.kind, a.amount))

Removed(w, a) == Enqueued(MyTx(w), a.acct, a.at, RemovedDelta(a.kind, a.amount))

\* insertRollbackIntent, rolled_back_by of the originals that the UPDATE finds, the
\* removal from the report (not of a rollback) and the rollback count.
Intend(w, found) ==
  /\ pc[w] = "intend" /\ Blockers(w) = {}
  /\ ~HasIntent(w, Cur(w).orig)
  /\ Write(w, [Empty EXCEPT
       !.intents = {[orig |-> Cur(w).orig, by |-> Cur(w).id]},
       !.marks = {[id |-> a.id, by |-> Cur(w).id] : a \in found},
       !.outbox = {Enqueued(MyTx(w), Acct(w), at[w], CountDelta)} \cup
                  {Removed(w, a) : a \in {b \in Reversed(w) : b.kind # "rollback"}}])
  /\ Push(w, MyTx(w))
  /\ Advance(w)
  /\ UNCHANGED <<tables, bal, at, held>>

InsertRollbackIntent(w) == Intend(w, Reversed(w))

\* rollback_intents' primary key: another transaction committed the same original.
IntentViolation(w) ==
  /\ pc[w] = "intend" /\ Blockers(w) = {}
  /\ HasIntent(w, Cur(w).orig)
  /\ Fail(w, "unique_violation")

\* processRolback up to the intent
Undo(w) ==
  \/ AlreadyRolledBack(w) \/ NotRolledBack(w)
  \/ Tombstone(w) \/ OriginalNotApplied(w) \/ ReverseOriginal(w) \/ RefuseRollback(w)
  \/ IntentViolation(w)

-----------------------------------------------------------------------------
\* UPDATE accounts and COMMIT.
Persist(w) ==
  /\ pc[w] = "commit"
  /\ db' = Merge(db, own[w])
  /\ balance' = [balance EXCEPT ![Acct(w)] = bal[w]]
  /\ EndTx(w)
  /\ UNCHANGED <<minute, sent>>

Commit(w) == Persist(w) /\ Answer(w, "ok", txs[w], bal[w])

\* The connection or the process dies after PostgreSQL has committed: what the
\* client hears, if anything, says nothing of the outcome.
CommitUnheard(w) == Persist(w) /\ UNCHANGED replies

\* Seeded bug: BEGIN is left out, and each statement commits what it wrote.
CrashKeepsRows(w) ==
  /\ pc[w] # "idle"
  /\ db' = Merge(db, own[w])
  /\ EndTx(w)
  /\ UNCHANGED <<balance, minute, sent, replies>>

\* It dies before: PostgreSQL aborts.
Crash(w) ==
  /\ pc[w] # "idle"
  /\ EndTx(w)
  /\ UNCHANGED <<db, balance, minute, sent, replies>>

\* PostgreSQL ends a cycle of waits by aborting a transaction on it.
DeadlockVictim(w) ==
  /\ Deadlocked(w)
  /\ Fail(w, "deadlock")

Tick ==
  /\ minute < MaxMinute
  /\ minute' = minute + 1
  /\ UNCHANGED <<db, balance, sent, replies, pc, job, session>>

\* One statement of w, with what follows it in the code.
Step(w) ==
  \/ LockAccount(w)
  \/ Claim(w)
  \/ ProcessBetOrWin(w) \/ RefuseBetOrWin(w)
  \/ Undo(w)
  \/ InsertRollbackIntent(w)
  \/ Commit(w)

Next ==
  \/ Tick
  \/ \E r \in Request : Reject(r)
  \/ \E w \in Worker :
       \/ \E r \in Request : Begin(w, r)
       \/ Step(w)
       \/ CommitUnheard(w)
       \/ Crash(w)
       \/ DeadlockVictim(w)

Spec == Init /\ [][Next]_vars

\* A statement that is not waiting returns, and deadlock_timeout expires.
FairSpec ==
  /\ Spec
  /\ \A w \in Worker : WF_vars(Step(w)) /\ WF_vars(DeadlockVictim(w))

-----------------------------------------------------------------------------
(* Properties. *)

Place == {"idle", "lock", "claim", "claimwait", "work", "find", "intend", "commit"}
AtAction == {"claim", "claimwait", "work", "find", "intend"}

Reply == [req : Request, try : Nat,
          status : {"ok", "bad_request", "insufficient_funds", "no_row",
                    "unique_violation", "deadlock"},
          txs : TxList, balance : Nat]

\* Every variable has its type; in particular no balance, committed or held by an
\* open transaction, is ever negative (CHECK (balance >= 0), schema.sql:11).
TypeOK ==
  /\ db \in Tables
  /\ balance \in [Account -> Nat]
  /\ minute \in Minute
  /\ sent \in [Request -> Nat] /\ \A r \in Request : sent[r] <= MaxSend[r]
  /\ replies \subseteq Reply
  /\ pc \in [Worker -> Place]
  /\ job \in [Worker -> Delivery \cup {NoJob}]
  /\ pos \in [Worker -> Nat]
  /\ bal \in [Worker -> Nat]
  /\ at \in [Worker -> Minute]
  /\ own \in [Worker -> Tables]
  /\ held \in [Worker -> SUBSET ActionId]
  /\ txs \in [Worker -> TxList]
  /\ \A w \in Worker :
       /\ pc[w] # "idle" => job[w] \in Delivery
       /\ pc[w] \in AtAction => pos[w] \in DOMAIN Actions(w)
       /\ pc[w] \in {"find", "intend"} => Cur(w).kind = "rollback"

\* accounts.balance is derived state: at every moment it is the seeded balance plus
\* what the account's committed ledger rows moved, whatever ran concurrently,
\* failed or crashed (README.md:7).
BalanceIsLedger ==
  \A a \in Account :
    balance[a] = Seed[a] + MapThenSumSet(LAMBDA r : r.delta, {r \in db.actions : r.acct = a})

AppliedRollbacks == {r \in db.actions : r.kind = "rollback" /\ r.status = "applied"}

\* An original is reversed at most once, by two rollbacks of one request, of
\* two accounts at the same time, or of a retry (README.md:28).
ReversedOnce == \A r, q \in AppliedRollbacks : r.orig = q.orig => r = q

\* An action and a rollback that found no such action are never both in force: once
\* the tombstone is there, the original is a noop whenever it arrives (README.md:29).
TombstoneHolds ==
  \A r, a \in db.actions :
    r.status = "noop_tombstone" /\ a.id = r.orig /\ a.kind # "rollback"
      => a.status = "noop_prerolled"

\* An action is skipped as rolled back in advance only on the word of a
\* tombstone that is committed with it or before it.
PrerolledHasTombstone ==
  \A a \in db.actions : a.status = "noop_prerolled" =>
    \E i \in db.intents : i.orig = a.id /\
      \E r \in db.actions : r.id = i.by /\ r.orig = a.id /\ r.status = "noop_tombstone"

\* A request is atomic and its answers agree: an id has one tx_id in every answer,
\* that of its registry row; whatever was answered to the delivery that wrote a row
\* is ok and lists it, so a refused or failed delivery left none (README.md:25,
\* README.md:26).
AnswersMatchRegistry ==
  /\ \A q \in replies : \A i \in DOMAIN q.txs :
       \E r \in db.registry : r.id = q.txs[i].id /\ r.tx = q.txs[i].tx
  /\ \A r \in db.registry : \A q \in replies :
       q.req = r.tx[1].req /\ q.try = r.tx[1].try =>
         q.status = "ok" /\ q.txs[r.tx[2]] = [id |-> r.id, tx |-> r.tx]
  /\ \A r, q \in db.registry : r.id = q.id => r = q

\* Every claimed id has its ledger row, at the claim's time and with its tx_id, and
\* no ledger row is without a claim: findActionForUpdate relies on it.
LedgerMatchesRegistry ==
  {[id |-> a.id, tx |-> a.tx, acct |-> a.acct, at |-> a.at] : a \in db.actions} = db.registry

\* rolled_back_by is set on exactly the rows an applied rollback reverses, and
\* names that rollback, which holds the intent.
MarkedIffReversed ==
  /\ db.marks = {[id |-> r.orig, by |-> r.id] : r \in AppliedRollbacks}
  /\ db.marks \subseteq {[id |-> i.orig, by |-> i.by] : i \in db.intents}

-----------------------------------------------------------------------------
(* Why ReversedOnce holds: an inductive invariant.                           *)

\* A row of the registry is committed or belongs to one open transaction, and no
\* two rows have one id.
ClaimsExclusive ==
  /\ \A r, q \in db.registry : r.id = q.id => r = q
  /\ \A w \in Worker : \A r, q \in own[w].registry : r.id = q.id => r = q
  /\ \A w \in Worker : \A r \in own[w].registry :
       /\ \A q \in db.registry : q.id # r.id
       /\ \A v \in Worker : Claims(v, r.id) => v = w

\* The same of the intents, by original.
IntentsExclusive ==
  /\ \A i, j \in db.intents : i.orig = j.orig => i = j
  /\ \A w \in Worker : \A i, j \in own[w].intents : i.orig = j.orig => i = j
  /\ \A w \in Worker : \A i \in own[w].intents :
       /\ \A j \in db.intents : j.orig # i.orig
       /\ \A v \in Worker : Intends(v, i.orig) => v = w

\* A ledger row is written after its claim, in the same transaction, and once.
RowsClaimed ==
  /\ \A a \in db.actions : \E r \in db.registry : r.id = a.id
  /\ \A a, b \in db.actions : a.id = b.id => a = b
  /\ \A w \in Worker : \A a \in own[w].actions : Claims(w, a.id)
  /\ \A w \in Worker : \A a, b \in own[w].actions : a.id = b.id => a = b

\* What the statements between the claim and the intent rely on.
PendingAction ==
  \A w \in Worker :
    /\ pc[w] \in {"work", "find", "intend"} => Claims(w, Cur(w).id)
    /\ pc[w] \in {"work", "find"} => \A a \in own[w].actions : a.id # Cur(w).id
    /\ pc[w] = "intend" => \A a \in own[w].actions : a.id = Cur(w).id => a.orig = Cur(w).orig

IsReversal(a) == a.kind = "rollback" /\ a.status = "applied"

\* A rollback that was applied has its intent, or is about to insert it.
ReversalsBacked ==
  /\ \A a \in db.actions : IsReversal(a) => [orig |-> a.orig, by |-> a.id] \in db.intents
  /\ \A w \in Worker : \A a \in own[w].actions : IsReversal(a) =>
       \/ [orig |-> a.orig, by |-> a.id] \in own[w].intents
       \/ pc[w] = "intend" /\ a.id = Cur(w).id

\* The unique keys and the reversals at every moment, the open transactions
\* included: what makes a reversal unique when it commits (README.md:28).
KeysInv ==
  ClaimsExclusive /\ IntentsExclusive /\ RowsClaimed /\ PendingAction /\ ReversalsBacked

-----------------------------------------------------------------------------
(* Reports and requests. *)

\* What the outbox adds up to for an account and a minute.
Booked(a, m) ==
  LET rows == {o \in db.outbox : o.acct = a /\ o.at = m} IN
  [bet |-> MapThenSumSet(LAMBDA o : o.d.bet, rows),
   win |-> MapThenSumSet(LAMBDA o : o.d.win, rows),
   rounds |-> MapThenSumSet(LAMBDA o : o.d.rounds, rows),
   rollbacks |-> MapThenSumSet(LAMBDA o : o.d.rollbacks, rows),
   rbBet |-> MapThenSumSet(LAMBDA o : o.d.rbBet, rows),
   rbWin |-> MapThenSumSet(LAMBDA o : o.d.rbWin, rows)]

\* What the ledger says of it: an action counts in the minute it was recorded in,
\* as played or as rolled back.
Counted(a, m) ==
  LET rows == {r \in db.actions : r.acct = a /\ r.at = m}
      undone(r) == r.status = "noop_prerolled" \/ \E q \in AppliedRollbacks : q.orig = r.id
      total(set) == MapThenSumSet(LAMBDA r : r.amount, set)
      kept(kind) == {r \in rows : r.kind = kind /\ ~undone(r)}
      gone(kind) == {r \in rows : r.kind = kind /\ undone(r)}
  IN [bet |-> total(kept("bet")), win |-> total(kept("win")),
      rounds |-> Cardinality(kept("bet")),
      rollbacks |-> Cardinality({r \in rows : r.kind = "rollback" /\
                                              r.status # "noop_already_rolled_back"}),
      rbBet |-> total(gone("bet")), rbWin |-> total(gone("win"))]

\* The reporting deltas committed so far add up, per account and minute, to what
\* the ledger holds, so a bucket never goes negative once all are drained
\* (README.md:30).
OutboxMatchesLedger ==
  \A a \in Account : \A m \in Minute : Booked(a, m) = Counted(a, m)

\* What the casino's report and the players' balances disagree by is what rollbacks of
\* rollbacks moved, to the last unit: a reversal that is itself reversed gives the
\* amount back, and the report is not told (processor.ts:371).
ReportFollowsBalance ==
  \A a \in Account :
    LET won == MapThenSumSet(LAMBDA m : Booked(a, m).win - Booked(a, m).bet, Minute)
        again == {r \in AppliedRollbacks : r.acct = a /\ \E q \in db.actions :
                    q.id = r.orig /\ q.kind = "rollback"}
    IN balance[a] - Seed[a] - won = MapThenSumSet(LAMBDA r : r.delta, again)

\* While an id is used for one account only, no delivery fails but for funds.
OnlyFundsErrors == \A q \in replies : q.status \in {"ok", "insufficient_funds"}

\* A delivery of an id that is already taken is answered, not failed (README.md:25).
DuplicatesReplay == \A q \in replies : q.status # "no_row"

\* Every transaction ends: no set of requests waits on one another for ever.
TransactionsEnd == \A w \in Worker : pc[w] # "idle" ~> pc[w] = "idle"

\* Each id is used for one account: its actions and the rollbacks that name it.
Ids(r) == (UNION {{x.id, x.orig} : x \in Range(Body[r].actions)}) \ {NoId}
OneAccountPerId ==
  \A r, q \in Request : Ids(r) \cap Ids(q) # {} => Body[r].acct = Body[q].acct

\* The ledger as the abstract wallet has it: without tx_id and time.
Ledger == {[id |-> a.id, acct |-> a.acct, kind |-> a.kind, amount |-> a.amount,
            orig |-> a.orig, delta |-> a.delta, status |-> a.status] : a \in db.actions}

Wallet == INSTANCE AtomicWallet WITH ledger <- Ledger

\* With one account per id, concurrent transactions, retries and crashes look like
\* requests served one at a time.
ServesOneByOne == Wallet!Spec

=============================================================================
