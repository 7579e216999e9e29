---------------------------- MODULE WalletProofs ----------------------------
(* What the callers and the readers of the service see of its transactions.  *)
(* They look like requests served one at a time:  BetProcessor implements    *)
(* AtomicWallet.  An open transaction has, at every moment, done to what it  *)
(* sees what AtomicWallet does with its request's actions so far; what other *)
(* sessions commit meanwhile is of other ids, so it might as well have been  *)
(* there when the account was locked.  And the deltas they leave for the     *)
(* report add up, in every account and minute, to what the ledger says, and  *)
(* in all minutes to what the balances moved but for reversed reversals.     *)
EXTENDS LedgerProofs

-----------------------------------------------------------------------------
(* AtomicWallet: one action after another. *)

\* A run over the first n actions.
IsRun(g, start, acct, actions, n) ==
  g = [i \in 0..n |-> IF i = 0 THEN start ELSE Wallet!Serve(g[i - 1], acct, actions[i])]

\* The state that the first n actions lead to.
Serves(start, acct, actions, n, s) ==
  \E g : IsRun(g, start, acct, actions, n) /\ g[n] = s

\* A wallet with more entries.
Joined(s, X) == [ledger |-> s.ledger \cup X, bal |-> s.bal, funded |-> s.funded]

\* The entries X have to do with none of the ids that the action names.
Apart(X, x) ==
  \A e \in X : /\ e.id # x.id /\ e.id # x.orig
               /\ e.kind = "rollback" => e.orig # x.id /\ (x.kind = "rollback" => e.orig # x.orig)

\* Such entries change nothing about what the action does.
LEMMA ServeApart ==
  ASSUME NEW s, NEW acct, NEW x, NEW X, Apart(X, x)
  PROVE  Wallet!Serve(Joined(s, X), acct, x) = Joined(Wallet!Serve(s, acct, x), X)
  <1>1. PICK t : t = Joined(s, X)
    OBVIOUS
  <1>2. t.ledger = s.ledger \cup X /\ t.bal = s.bal /\ t.funded = s.funded
    BY <1>1 DEF Joined
  <1>3. (\E e \in t.ledger : e.id = x.id) <=> (\E e \in s.ledger : e.id = x.id)
    BY <1>2 DEF Apart
  <1>4. Wallet!Outcome(t.ledger, x) = Wallet!Outcome(s.ledger, x)
    <2>1. CASE x.kind # "rollback"
      <3>1. Wallet!Reversals(t.ledger, x.id) = Wallet!Reversals(s.ledger, x.id)
        BY <1>2 DEF Apart, Wallet!Reversals
      <3> QED BY <2>1, <3>1 DEF Wallet!Outcome
    <2>2. CASE x.kind = "rollback"
      <3>1. Wallet!Reversals(t.ledger, x.orig) = Wallet!Reversals(s.ledger, x.orig)
        BY <1>2, <2>2 DEF Apart, Wallet!Reversals
      <3>2. {e \in t.ledger : e.id = x.orig} = {e \in s.ledger : e.id = x.orig}
        BY <1>2 DEF Apart
      <3> QED BY <2>2, <3>1, <3>2 DEF Wallet!Outcome
    <2> QED BY <2>1, <2>2
  <1>5. CASE \E e \in s.ledger : e.id = x.id
    BY <1>1, <1>3, <1>5 DEF Wallet!Serve
  <1>6. CASE ~(\E e \in s.ledger : e.id = x.id)
    <2>1. PICK o : o = Wallet!Outcome(s.ledger, x)
      OBVIOUS
    <2>2. PICK row : row = [id |-> x.id, acct |-> acct, kind |-> x.kind, amount |-> x.amount,
                            orig |-> x.orig, delta |-> o.delta, status |-> o.status]
      OBVIOUS
    <2>3. Wallet!Serve(s, acct, x) = [ledger |-> s.ledger \cup {row}, bal |-> s.bal + o.delta,
                                      funded |-> s.funded /\ s.bal + o.delta >= 0]
      BY <1>6, <2>1, <2>2 DEF Wallet!Serve
    <2>4. Wallet!Serve(t, acct, x) = [ledger |-> t.ledger \cup {row}, bal |-> t.bal + o.delta,
                                      funded |-> t.funded /\ t.bal + o.delta >= 0]
      BY <1>3, <1>4, <1>6, <2>1, <2>2 DEF Wallet!Serve
    <2>5. t.ledger \cup {row} = (s.ledger \cup {row}) \cup X
      BY <1>2
    <2> QED BY <1>1, <1>2, <2>3, <2>4, <2>5 DEF Joined
  <1> QED BY <1>5, <1>6

\* A run of no action ends where it begins.
LEMMA RunStarts ==
  ASSUME NEW start, NEW acct, NEW actions
  PROVE  Serves(start, acct, actions, 0, start)
  <1>1. PICK g : g = [i \in 0..0 |-> start]
    OBVIOUS
  <1>2. \A i \in 0..0 : i = 0
    OBVIOUS
  <1>3. IsRun(g, start, acct, actions, 0) /\ g[0] = start
    BY <1>1, <1>2 DEF IsRun
  <1> QED BY <1>3 DEF Serves

\* The next action continues it.
LEMMA RunGoesOn ==
  ASSUME NEW start, NEW acct, NEW actions, NEW n \in Nat, NEW s,
         Serves(start, acct, actions, n, s)
  PROVE  Serves(start, acct, actions, n + 1, Wallet!Serve(s, acct, actions[n + 1]))
  <1>1. PICK g : IsRun(g, start, acct, actions, n) /\ g[n] = s
    BY DEF Serves
  <1>2. PICK h : h = [i \in 0..(n + 1) |->
                        IF i = n + 1 THEN Wallet!Serve(s, acct, actions[n + 1]) ELSE g[i]]
    OBVIOUS
  <1>3. \A i \in 0..n : g[i] = IF i = 0 THEN start ELSE Wallet!Serve(g[i - 1], acct, actions[i])
    BY <1>1 DEF IsRun
  <1>4. \A i \in 0..(n + 1) :
          h[i] = IF i = 0 THEN start ELSE Wallet!Serve(h[i - 1], acct, actions[i])
    <2>1. ASSUME NEW i \in 0..n
          PROVE  h[i] = IF i = 0 THEN start ELSE Wallet!Serve(h[i - 1], acct, actions[i])
      <3>1. h[i] = g[i]
        BY <1>2
      <3>2. i # 0 => h[i - 1] = g[i - 1]
        BY <1>2
      <3> QED BY <1>3, <3>1, <3>2
    <2>2. h[n + 1] = Wallet!Serve(h[(n + 1) - 1], acct, actions[n + 1])
      <3>1. h[n] = s /\ (n + 1) - 1 = n
        BY <1>1, <1>2
      <3>2. h[n + 1] = Wallet!Serve(s, acct, actions[n + 1])
        BY <1>2
      <3> QED BY <3>1, <3>2
    <2>3. \A i \in 0..(n + 1) : i \in 0..n \/ (i = n + 1 /\ i # 0)
      OBVIOUS
    <2> QED BY <2>1, <2>2, <2>3
  <1>5. IsRun(h, start, acct, actions, n + 1)
    BY <1>2, <1>4 DEF IsRun
  <1>6. h[n + 1] = Wallet!Serve(s, acct, actions[n + 1])
    BY <1>2
  <1> QED BY <1>5, <1>6 DEF Serves

\* The run might as well have begun with entries that are apart from its actions.
LEMMA RunApart ==
  ASSUME NEW start, NEW acct, NEW actions, NEW n \in Nat, NEW s,
         Serves(start, acct, actions, n, s),
         NEW X, \A i \in 1..n : Apart(X, actions[i])
  PROVE  Serves(Joined(start, X), acct, actions, n, Joined(s, X))
  <1>1. PICK g : IsRun(g, start, acct, actions, n) /\ g[n] = s
    BY DEF Serves
  <1>2. PICK h : h = [i \in 0..n |-> Joined(g[i], X)]
    OBVIOUS
  <1>3. \A i \in 0..n : g[i] = IF i = 0 THEN start ELSE Wallet!Serve(g[i - 1], acct, actions[i])
    BY <1>1 DEF IsRun
  <1>4. ASSUME NEW i \in 0..n
        PROVE  h[i] = IF i = 0 THEN Joined(start, X) ELSE Wallet!Serve(h[i - 1], acct, actions[i])
    <2>1. h[i] = Joined(g[i], X)
      BY <1>2
    <2>2. CASE i = 0
      BY <1>3, <2>1, <2>2
    <2>3. CASE i # 0
      <3>1. i - 1 \in 0..n /\ i \in 1..n
        BY <2>3
      <3>2. h[i - 1] = Joined(g[i - 1], X) /\ Apart(X, actions[i])
        BY <1>2, <3>1
      <3>3. Wallet!Serve(h[i - 1], acct, actions[i])
              = Joined(Wallet!Serve(g[i - 1], acct, actions[i]), X)
        BY <3>2, ServeApart
      <3> QED BY <1>3, <2>1, <2>3, <3>3
    <2> QED BY <2>2, <2>3
  <1>5. IsRun(h, Joined(start, X), acct, actions, n)
    BY <1>2, <1>4 DEF IsRun
  <1>6. h[n] = Joined(s, X)
    BY <1>1, <1>2
  <1> QED BY <1>5, <1>6 DEF Serves

\* There is one run: the first state in which two differ has no reason to.
LEMMA RunsAgree ==
  ASSUME NEW start, NEW acct, NEW actions, NEW n \in Nat,
         NEW g, IsRun(g, start, acct, actions, n), NEW h, IsRun(h, start, acct, actions, n)
  PROVE  g[n] = h[n]
  <1> SUFFICES ASSUME g[n] # h[n] PROVE FALSE
    OBVIOUS
  <1>1. PICK S : S = {i \in 0..n : g[i] # h[i]}
    OBVIOUS
  <1>2. IsFiniteSet(S) /\ S \subseteq Int /\ S # {}
    <2>1. IsFiniteSet(0..n)
      BY FS_Interval
    <2> QED BY <1>1, <2>1, FS_Subset
  <1>3. PICK m \in S : \A i \in S : m <= i
    BY <1>2, LeastOfFinite
  <1>4. \A i \in 0..n :
          /\ g[i] = IF i = 0 THEN start ELSE Wallet!Serve(g[i - 1], acct, actions[i])
          /\ h[i] = IF i = 0 THEN start ELSE Wallet!Serve(h[i - 1], acct, actions[i])
    BY DEF IsRun
  <1>5. m \in 0..n /\ m # 0 /\ g[m] # h[m]
    BY <1>1, <1>4
  <1>6. m - 1 \in 0..n /\ m - 1 \notin S
    BY <1>3, <1>5
  <1>7. g[m - 1] = h[m - 1]
    BY <1>1, <1>6
  <1> QED BY <1>4, <1>5, <1>7

\* What AtomicWallet computes for a request is where the run over its actions ends.
LEMMA RunIsAfter ==
  ASSUME NEW r \in Request, NEW s,
         Serves([ledger |-> Ledger, bal |-> balance[Body[r].acct], funded |-> TRUE],
                Body[r].acct, Body[r].actions, Len(Body[r].actions), s)
  PROVE  Wallet!After(r) = s
  <1>1. PICK start : start = [ledger |-> Ledger, bal |-> balance[Body[r].acct], funded |-> TRUE]
    OBVIOUS
  <1>2. PICK n \in Nat : n = Len(Body[r].actions)
    <2>1. Body[r].actions \in Seq(BetOrWin \cup Rollback)
      BY BodyAssumption
    <2> QED BY <2>1
  <1>3. PICK g : IsRun(g, start, Body[r].acct, Body[r].actions, n) /\ g[n] = s
    BY <1>1, <1>2 DEF Serves
  <1>4. PICK run : run = CHOOSE h : IsRun(h, start, Body[r].acct, Body[r].actions, n)
    OBVIOUS
  <1>5. IsRun(run, start, Body[r].acct, Body[r].actions, n)
    BY <1>3, <1>4
  <1>6. run[n] = s
    BY <1>3, <1>5, RunsAgree
  <1>7. Wallet!After(r) = run[n]
    BY <1>1, <1>2, <1>4 DEF Wallet!After, IsRun
  <1> QED BY <1>6, <1>7

-----------------------------------------------------------------------------
(* Intents and rollbacks. *)

\* A rollback that was answered as done before has the intent that it found.
Repeated(s) ==
  \A r \in s.actions : r.status = "noop_already_rolled_back" =>
    \E i \in s.intents : i.orig = r.orig

RepeatsInv == Repeated(db) /\ \A w \in Worker : Repeated(Visible(w))

\* A step inside a transaction: rows that find their intent.
LEMMA WriteRepeats ==
  ASSUME RepeatsInv, NEW w \in Worker, Alone(w), UNCHANGED db, NEW rows,
         own'[w].actions = own[w].actions \cup rows, own[w].intents \subseteq own'[w].intents,
         \A r \in rows : r.status = "noop_already_rolled_back" => HasIntent(w, r.orig)
  PROVE  RepeatsInv'
  <1>1. \A v \in Worker : v # w => Visible(v)' = Visible(v)
    BY DEF Visible, Alone
  <1>2. /\ Visible(w)'.actions = Visible(w).actions \cup rows
        /\ Visible(w).intents \subseteq Visible(w)'.intents
    BY DEF Visible, Merge
  <1>3. Repeated(Visible(w)')
    BY <1>2 DEF RepeatsInv, Repeated, HasIntent
  <1>4. \A v \in Worker : Repeated(Visible(v)')
    BY <1>1, <1>3 DEF RepeatsInv
  <1> QED BY <1>4 DEF RepeatsInv, Repeated

\* A step that writes no row.
LEMMA QuietRepeats ==
  ASSUME RepeatsInv, NEW w \in Worker, Alone(w), UNCHANGED db,
         own'[w].actions = own[w].actions, own[w].intents \subseteq own'[w].intents
  PROVE  RepeatsInv'
  <1>1. PICK none : none = {}
    OBVIOUS
  <1>2. own'[w].actions = own[w].actions \cup none
    BY <1>1
  <1> QED BY <1>1, <1>2, WriteRepeats

\* The end of a transaction, with or without a commit.
LEMMA EndRepeats ==
  ASSUME RepeatsInv, TypeOK, NEW w \in Worker, EndTx(w), UNCHANGED db \/ Persist(w)
  PROVE  RepeatsInv'
  <1>1. Alone(w) /\ own'[w] = Empty
    BY EndEffect
  <1>2. /\ db.actions \subseteq db'.actions /\ db.intents \subseteq db'.intents
        /\ Repeated(db')
        /\ \A r \in db'.actions : r \in db.actions \/ r \in own[w].actions
    <2>1. CASE UNCHANGED db
      BY <2>1 DEF RepeatsInv, Repeated
    <2>2. CASE Persist(w)
      <3>1. db'.actions = Visible(w).actions /\ db'.intents = Visible(w).intents
        BY <2>2, PersistEffect, VisibleRows
      <3> QED BY <3>1, VisibleRows DEF RepeatsInv, Repeated
    <2> QED BY <2>1, <2>2
  <1>3. ASSUME NEW v \in Worker PROVE Repeated(Visible(v)')
    <2>1. CASE v = w
      <3>1. Visible(v)'.actions = db'.actions /\ Visible(v)'.intents = db'.intents
        BY <1>1, <2>1, EmptyRows DEF Visible, Merge
      <3> QED BY <1>2, <3>1 DEF Repeated
    <2>2. CASE v # w
      <3>1. /\ Visible(v)'.actions = db'.actions \cup own[v].actions
            /\ Visible(v)'.intents = db'.intents \cup own[v].intents
        BY <1>1, <2>2 DEF Visible, Merge, Alone
      <3>2. /\ Visible(v).actions = db.actions \cup own[v].actions
            /\ Visible(v).intents = db.intents \cup own[v].intents
        BY VisibleRows
      <3> QED BY <1>2, <3>1, <3>2 DEF RepeatsInv, Repeated
    <2> QED BY <2>1, <2>2
  <1> QED BY <1>2, <1>3 DEF RepeatsInv

\* The ledger row of an action that inserts no intent keeps RepeatsInv.
LEMMA RecordRepeats ==
  ASSUME TypeOK, RepeatsInv, NEW w \in Worker, NEW row, Records(w, row)
  PROVE  RepeatsInv'
  <1>1. PICK rows : rows = {row}
    OBVIOUS
  <1>2. /\ Alone(w) /\ UNCHANGED db /\ own'[w].intents = own[w].intents
        /\ own'[w].actions = own[w].actions \cup rows
    BY <1>1, RecordEffect
  <1>3. row.status = "noop_already_rolled_back" => HasIntent(w, row.orig)
    BY DEF Records, Row, AlreadyRolledBack
  <1> QED BY <1>1, <1>2, <1>3, WriteRepeats

\* The ledger row of a rollback that found no intent keeps RepeatsInv.
LEMMA UndoRepeats ==
  ASSUME TypeOK, RepeatsInv, NEW w \in Worker, NEW delta, NEW status,
         Undoes(w, delta, status)
  PROVE  RepeatsInv'
  <1>1. PICK rows : rows = {Row(w, delta, status)}
    OBVIOUS
  <1>2. /\ Alone(w) /\ UNCHANGED db /\ own'[w].intents = own[w].intents
        /\ own'[w].actions = own[w].actions \cup rows
    BY <1>1, UndoEffect DEF Undoes
  <1>3. \A r \in rows : r.status # "noop_already_rolled_back"
    BY <1>1 DEF Undoes, Row
  <1> QED BY <1>2, <1>3, WriteRepeats

\* Every step keeps RepeatsInv.
LEMMA StepRepeats == ASSUME TypeOK, RepeatsInv, [Next]_vars PROVE RepeatsInv'
  <1>1. ASSUME NEW w \in Worker, NEW r \in Request, Begin(w, r) PROVE RepeatsInv'
    BY <1>1, TakeEffect, QuietRepeats DEF Begin
  <1>2. ASSUME NEW w \in Worker, LockAccount(w) PROVE RepeatsInv'
    BY <1>2, LockEffect, QuietRepeats
  <1>3. ASSUME NEW w \in Worker, Tombstone(w) \/ OriginalNotApplied(w) \/ ReverseOriginal(w)
        PROVE  RepeatsInv'
    BY <1>3, UndoCases, UndoRepeats
  <1>4. ASSUME NEW w \in Worker,
               \/ RefuseBetOrWin(w) \/ RefuseRollback(w) \/ IntentViolation(w)
               \/ Crash(w) \/ DeadlockVictim(w) \/ ClaimLost(w)
        PROVE  RepeatsInv'
    BY <1>4, EndRepeats DEF RefuseBetOrWin, RefuseRollback, IntentViolation, Crash,
                            DeadlockVictim, ClaimLost, Fail
  <1>5. ASSUME NEW w \in Worker, ProcessBetOrWin(w) \/ AlreadyRolledBack(w)
        PROVE  RepeatsInv'
    BY <1>5, RecordRepeats DEF Records
  <1>6. ASSUME NEW w \in Worker, NotRolledBack(w) PROVE RepeatsInv'
    BY <1>6, LooksEffect, QuietRepeats
  <1>7. ASSUME NEW w \in Worker, InsertRollbackIntent(w) PROVE RepeatsInv'
    <2>1. PICK found : Intend(w, found)
      BY <1>7 DEF InsertRollbackIntent
    <2>2. /\ Alone(w) /\ UNCHANGED db /\ own'[w].actions = own[w].actions
          /\ own[w].intents \subseteq own'[w].intents
      BY <2>1, IntendEffect
    <2> QED BY <2>2, QuietRepeats
  <1>8. ASSUME NEW w \in Worker, Commit(w) \/ CommitUnheard(w) PROVE RepeatsInv'
    BY <1>8, EndRepeats DEF Commit, CommitUnheard, Persist
  <1>9. ASSUME NEW w \in Worker, Claim(w) PROVE RepeatsInv'
    <2>1. CASE ReplayDuplicate(w) \/ ClaimBlocked(w)
      BY <2>1, ReplayEffect, BlockedEffect, QuietRepeats
    <2>2. CASE ClaimFresh(w) \/ ClaimResumes(w)
      BY <2>2, RegisterEffect, QuietRepeats
    <2> QED BY <1>4, <1>9, <2>1, <2>2 DEF Claim
  <1>10. ASSUME NEW w \in Worker, Step(w) PROVE RepeatsInv'
    BY <1>2, <1>3, <1>4, <1>5, <1>6, <1>7, <1>8, <1>9, <1>10 DEF Step, Undo
  <1>11. CASE Tick \/ (\E r \in Request : Reject(r)) \/ UNCHANGED vars
    <2>1. UNCHANGED <<db, own>>
      BY <1>11 DEF Tick, Reject, vars, session
    <2> QED BY <2>1 DEF RepeatsInv, Repeated, Visible
  <1> QED BY <1>1, <1>4, <1>8, <1>10, <1>11 DEF Next

\* RepeatsInv holds in the initial state.
LEMMA InitRepeats == Init => RepeatsInv
  BY EmptyRows, VisibleRows DEF Init, RepeatsInv, Repeated

\* But while an intent is being inserted, what has an intent is what some rollback names.
LEMMA IntentIsRollback ==
  ASSUME TypeOK, RollbacksInv, RepeatsInv, NEW w \in Worker, pc[w] # "intend", NEW id
  PROVE  HasIntent(w, id) <=> \E r \in Visible(w).actions : r.kind = "rollback" /\ r.orig = id
  <1>1. ASSUME HasIntent(w, id)
        PROVE  \E r \in Visible(w).actions : r.kind = "rollback" /\ r.orig = id
    <2>1. PICK i \in Visible(w).intents : i.orig = id
      BY <1>1 DEF HasIntent
    <2>2. ResolvedBy(db, i) \/ ResolvedBy(own[w], i)
      BY <2>1, VisibleRows DEF RollbacksInv, RollbacksIn, RollbacksAt
    <2> QED BY <2>1, <2>2, VisibleRows DEF ResolvedBy, Resolves
  <1>2. ASSUME NEW r \in Visible(w).actions, r.kind = "rollback", r.orig = id
        PROVE  HasIntent(w, id)
    <2>1. CASE Resolves(r)
      <3>1. [orig |-> r.orig, by |-> r.id] \in Visible(w).intents
        BY <2>1, VisibleRows DEF RollbacksInv, RollbacksIn, RollbacksAt, Announced
      <3> QED BY <1>2, <3>1 DEF HasIntent
    <2>2. CASE ~Resolves(r)
      BY <1>2, <2>2 DEF Resolves, RepeatsInv, Repeated, HasIntent
    <2> QED BY <2>1, <2>2
  <1> QED BY <1>1, <1>2

-----------------------------------------------------------------------------
(* What an action does is what AtomicWallet has it do. *)

\* A row of the ledger as AtomicWallet has it.
Entry(a) == [id |-> a.id, acct |-> a.acct, kind |-> a.kind, amount |-> a.amount,
             orig |-> a.orig, delta |-> a.delta, status |-> a.status]

LedgerOf(rows) == {Entry(a) : a \in rows}

\* What is committed is AtomicWallet's ledger.
LEMMA LedgerIs == Ledger = LedgerOf(db.actions)
  BY DEF Ledger, LedgerOf, Entry

\* The entries of two sets of rows.
LEMMA LedgerJoins ==
  ASSUME NEW R, NEW S PROVE LedgerOf(R \cup S) = LedgerOf(R) \cup LedgerOf(S)
  BY DEF LedgerOf

\* An id has an entry if it has a row.
LEMMA EntryExists ==
  ASSUME NEW R, NEW id
  PROVE  (\E e \in LedgerOf(R) : e.id = id) <=> (\E a \in R : a.id = id)
  <1>1. \A a \in R : Entry(a).id = a.id
    BY DEF Entry
  <1> QED BY <1>1 DEF LedgerOf

\* It is reversed by entries if it is by rows.
LEMMA EntryReversed ==
  ASSUME NEW R, NEW id
  PROVE  Wallet!Reversals(LedgerOf(R), id) # {} <=>
           \E r \in R : r.kind = "rollback" /\ r.orig = id
  <1>1. \A a \in R : Entry(a).kind = a.kind /\ Entry(a).orig = a.orig
    BY DEF Entry
  <1> QED BY <1>1 DEF LedgerOf, Wallet!Reversals

\* No two visible rows have one id.
LEMMA VisibleUnique ==
  ASSUME KeysInv, NEW w \in Worker, NEW a \in Visible(w).actions,
         NEW b \in Visible(w).actions, a.id = b.id
  PROVE  a = b
  <1>1. ASSUME NEW q \in own[w].actions, NEW p \in db.actions PROVE q.id # p.id
    <2>1. PICK r \in own[w].registry : r.id = q.id
      BY DEF KeysInv, RowsClaimed, Claims
    <2>2. PICK s \in db.registry : s.id = p.id
      BY DEF KeysInv, RowsClaimed
    <2>3. s.id # r.id
      BY DEF KeysInv, ClaimsExclusive
    <2> QED BY <2>1, <2>2, <2>3
  <1>2. a \in db.actions \cup own[w].actions /\ b \in db.actions \cup own[w].actions
    BY VisibleRows
  <1> QED BY <1>1, <1>2 DEF KeysInv, RowsClaimed

\* The originals are the visible rows with that id: each has its claim.
LEMMA OriginalsAre ==
  ASSUME RowsInv, NEW w \in Worker
  PROVE  Originals(w) = {a \in Visible(w).actions : a.id = Cur(w).orig}
  <1>1. ASSUME NEW a \in Visible(w).actions
        PROVE  \E r \in Visible(w).registry : r.id = a.id /\ r.at = a.at
    <2>1. Proj(a) \in Visible(w).registry
      BY VisibleRegistered
    <2>2. Proj(a).id = a.id /\ Proj(a).at = a.at
      BY DEF Proj
    <2> QED BY <2>1, <2>2
  <1> QED BY <1>1 DEF Originals

\* A bet or a win.
LEMMA OutcomeOfBet ==
  ASSUME TypeOK, RollbacksInv, RepeatsInv, NEW w \in Worker, pc[w] = "work",
         Cur(w).kind # "rollback"
  PROVE  Wallet!Outcome(LedgerOf(Visible(w).actions), Cur(w)) =
           [delta |-> BetOrWinDelta(w),
            status |-> IF Noop(w) THEN "noop_prerolled" ELSE "applied"]
  <1>1. Noop(w) <=> Wallet!Reversals(LedgerOf(Visible(w).actions), Cur(w).id) # {}
    BY IntentIsRollback, EntryReversed DEF Noop
  <1> QED BY <1>1 DEF Wallet!Outcome, BetOrWinDelta

\* A rollback that finds an intent.
LEMMA OutcomeOfRepeat ==
  ASSUME TypeOK, RollbacksInv, RepeatsInv, NEW w \in Worker, pc[w] = "work",
         Cur(w).kind = "rollback", HasIntent(w, Cur(w).orig)
  PROVE  Wallet!Outcome(LedgerOf(Visible(w).actions), Cur(w)) =
           [delta |-> 0, status |-> "noop_already_rolled_back"]
  <1>1. Wallet!Reversals(LedgerOf(Visible(w).actions), Cur(w).orig) # {}
    BY IntentIsRollback, EntryReversed
  <1> QED BY <1>1 DEF Wallet!Outcome

\* A rollback that has found none, with its original locked.
LEMMA OutcomeOfUndo ==
  ASSUME TypeOK, KeysInv, RowsInv, RollbacksInv, RepeatsInv, PrivateInv, NEW w \in Worker,
         NEW delta, NEW status, Undoes(w, delta, status)
  PROVE  Wallet!Outcome(LedgerOf(Visible(w).actions), Cur(w)) =
           [delta |-> delta, status |-> status]
  <1>1. pc[w] = "find" /\ Cur(w).kind = "rollback" /\ ~HasIntent(w, Cur(w).orig)
    BY DEF Undoes, TypeOK, PrivateInv, PrivateAt
  <1>2. PICK rows : rows = Visible(w).actions
    OBVIOUS
  <1>3. PICK x : x = Cur(w)
    OBVIOUS
  <1>4. Wallet!Reversals(LedgerOf(rows), x.orig) = {}
    BY <1>1, <1>2, <1>3, IntentIsRollback, EntryReversed
  <1>5. PICK originals : originals = {e \in LedgerOf(rows) : e.id = x.orig}
    OBVIOUS
  <1>6. Wallet!Outcome(LedgerOf(rows), x) =
          IF originals = {}
            THEN [delta |-> 0, status |-> "noop_tombstone"]
          ELSE IF \A e \in originals : e.status = "applied" /\ e.delta # 0
            THEN [delta |-> -(CHOOSE e \in originals : TRUE).delta, status |-> "applied"]
            ELSE [delta |-> 0, status |-> "noop_original_not_applied"]
    BY <1>1, <1>3, <1>4, <1>5 DEF Wallet!Outcome
  <1>7. Originals(w) = {a \in rows : a.id = x.orig}
    BY <1>2, <1>3, OriginalsAre
  <1>8. CASE status = "noop_tombstone" /\ delta = 0 /\ Originals(w) = {}
    <2>1. originals = {}
      BY <1>5, <1>7, <1>8, EntryExists
    <2> QED BY <1>2, <1>3, <1>6, <1>8, <2>1
  <1>9. ASSUME NEW a \in Originals(w)
        PROVE  originals = {Entry(a)} /\ (CHOOSE e \in originals : TRUE) = Entry(a)
               /\ Entry(a).status = a.status /\ Entry(a).delta = a.delta
    <2>1. \A b \in rows : b.id = x.orig => b = a
      BY <1>2, <1>7, VisibleUnique
    <2>2. originals = {Entry(a)}
      BY <1>5, <1>7, <2>1 DEF LedgerOf, Entry
    <2> QED BY <2>2 DEF Entry
  <1>10. ASSUME NEW a \in Originals(w), ~Reversible(a), delta = 0,
                status = "noop_original_not_applied"
         PROVE  Wallet!Outcome(LedgerOf(rows), x) = [delta |-> delta, status |-> status]
    BY <1>6, <1>9, <1>10 DEF Reversible
  <1>11. ASSUME NEW a \in Originals(w), Reversible(a), delta = -a.delta, status = "applied"
         PROVE  Wallet!Outcome(LedgerOf(rows), x) = [delta |-> delta, status |-> status]
    BY <1>6, <1>9, <1>11 DEF Reversible
  <1> QED BY <1>2, <1>3, <1>8, <1>10, <1>11 DEF Undoes

-----------------------------------------------------------------------------
(* An open transaction has done what AtomicWallet does. *)

\* The actions it is done with.
Done(w) ==
  CASE pc[w] = "commit" -> Len(Actions(w))
    [] pc[w] = "intend" -> pos[w]
    [] OTHER -> pos[w] - 1

\* The wallet as it was committed, and as the transaction has made it.
Begun(w) == [ledger |-> LedgerOf(db.actions), bal |-> balance[Acct(w)], funded |-> TRUE]
Now(w) == [ledger |-> LedgerOf(Visible(w).actions), bal |-> bal[w], funded |-> TRUE]

ServedAt(w) == HasAccount(w) => Serves(Begun(w), Acct(w), Actions(w), Done(w), Now(w))

ServedInv == \A w \in Worker : ServedAt(w)

\* An action whose id is taken is served as it is: not at all.
LEMMA ReplayServes ==
  ASSUME RowsInv, NEW w \in Worker, pc[w] = "claim", Registered(w) # {}
  PROVE  Wallet!Serve(Now(w), Acct(w), Cur(w)) = Now(w)
  <1>1. PICK r \in Visible(w).registry : r.id = Cur(w).id
    BY DEF Registered
  <1>2. PICK a \in Visible(w).actions : r = Proj(a)
    <2>1. own[w].registry = {Proj(a) : a \in own[w].actions}
      BY DEF RowsInv, RowsAt, Unwritten
    <2>2. db.registry = {Proj(a) : a \in db.actions}
      BY DEF RowsInv, LedgerMatchesRegistry, Proj
    <2> QED BY <2>1, <2>2, VisibleRows
  <1>3. a.id = Cur(w).id
    BY <1>1, <1>2 DEF Proj
  <1>4. \E e \in LedgerOf(Visible(w).actions) : e.id = Cur(w).id
    BY <1>3, EntryExists
  <1> QED BY <1>4 DEF Wallet!Serve, Now

\* An action that is fresh gets its row.
LEMMA RowServes ==
  ASSUME TypeOK, KeysInv, NEW w \in Worker, pc[w] \in {"work", "find"}, NEW delta, NEW status,
         Wallet!Outcome(LedgerOf(Visible(w).actions), Cur(w)) =
           [delta |-> delta, status |-> status],
         bal[w] + delta >= 0
  PROVE  Wallet!Serve(Now(w), Acct(w), Cur(w)) =
           [ledger |-> LedgerOf(Visible(w).actions \cup {Row(w, delta, status)}),
            bal |-> bal[w] + delta, funded |-> TRUE]
  <1>1. PICK rows, x, b : rows = Visible(w).actions /\ x = Cur(w) /\ b = bal[w]
    OBVIOUS
  <1>2. PICK row : row = Row(w, delta, status)
    OBVIOUS
  <1>3. Entry(row) = [id |-> x.id, acct |-> Acct(w), kind |-> x.kind, amount |-> x.amount,
                      orig |-> x.orig, delta |-> delta, status |-> status]
    BY <1>1, <1>2 DEF Entry, Row
  <1>4. ~\E e \in LedgerOf(rows) : e.id = x.id
    <2>1. ~\E a \in rows : a.id = x.id
      BY <1>1, FreshId
    <2> QED BY <2>1, EntryExists
  <1>5. PICK s : s = Now(w)
    OBVIOUS
  <1>6. s.ledger = LedgerOf(rows) /\ s.bal = b /\ s.funded = TRUE
    BY <1>1, <1>5 DEF Now
  <1>7. PICK o : o = Wallet!Outcome(s.ledger, x)
    OBVIOUS
  <1>8. o.delta = delta /\ o.status = status
    BY <1>1, <1>6, <1>7
  <1>9. Wallet!Serve(s, Acct(w), x) =
          [ledger |-> s.ledger \cup {Entry(row)}, bal |-> b + delta,
           funded |-> TRUE /\ b + delta >= 0]
    BY <1>3, <1>4, <1>6, <1>7, <1>8 DEF Wallet!Serve
  <1>10. LedgerOf(rows \cup {row}) = s.ledger \cup {Entry(row)}
    BY <1>6 DEF LedgerOf
  <1>11. (TRUE /\ b + delta >= 0) = TRUE
    BY <1>1
  <1> QED BY <1>1, <1>2, <1>5, <1>9, <1>10, <1>11

\* A step that leaves what is committed alone is one of its session only.
LEMMA SessionServed ==
  ASSUME ServedInv, NEW w \in Worker, Alone(w), UNCHANGED <<db, balance>>, ServedAt(w)'
  PROVE  ServedInv'
  <1>1. ASSUME NEW v \in Worker, v # w PROVE ServedAt(v)'
    <2>1. /\ pc'[v] = pc[v] /\ pos'[v] = pos[v] /\ bal'[v] = bal[v] /\ own'[v] = own[v]
          /\ ServedAt(v)
      BY <1>1 DEF Alone, ServedInv
    <2>2. Acct(v)' = Acct(v) /\ Actions(v)' = Actions(v)
      BY <1>1, AloneSame
    <2>3. Visible(v)' = Visible(v)
      BY <2>1 DEF Visible
    <2>4. Begun(v)' = Begun(v) /\ Now(v)' = Now(v)
      BY <2>1, <2>2, <2>3 DEF Begun, Now
    <2>5. Done(v)' = Done(v)
      BY <2>1, <2>2 DEF Done
    <2> QED BY <2>1, <2>2, <2>4, <2>5 DEF ServedAt, HasAccount
  <1> QED BY <1>1 DEF ServedInv

\* A step that neither serves an action nor writes anything.
LEMMA QuietServed ==
  ASSUME ServedInv, NEW w \in Worker, Alone(w), UNCHANGED <<db, balance, job>>,
         own'[w].actions = own[w].actions, bal'[w] = bal[w], HasAccount(w),
         Done(w)' = Done(w)
  PROVE  ServedInv'
  <1>1. Acct(w)' = Acct(w) /\ Actions(w)' = Actions(w)
    BY DEF Acct, Actions
  <1>2. Visible(w)'.actions = Visible(w).actions
    BY DEF Visible, Merge
  <1>3. Begun(w)' = Begun(w) /\ Now(w)' = Now(w)
    BY <1>1, <1>2 DEF Begun, Now
  <1>4. ServedAt(w)'
    BY <1>1, <1>3 DEF ServedInv, ServedAt
  <1> QED BY <1>4, SessionServed

\* A step of a session that holds no account after it.
LEMMA AwayServed ==
  ASSUME ServedInv, NEW w \in Worker, Alone(w), UNCHANGED <<db, balance>>, ~HasAccount(w)'
  PROVE  ServedInv'
  <1>1. ServedAt(w)'
    BY DEF ServedAt
  <1> QED BY <1>1, SessionServed

\* A step that serves the action it is at.
LEMMA ActionServed ==
  ASSUME TypeOK, ServedInv, NEW w \in Worker, pc[w] \in {"claim", "work", "find"}, Alone(w),
         UNCHANGED <<db, balance, job>>, Done(w)' = pos[w],
         NEW rows, own'[w].actions = own[w].actions \cup rows,
         Wallet!Serve(Now(w), Acct(w), Cur(w)) =
           [ledger |-> LedgerOf(Visible(w).actions \cup rows), bal |-> bal'[w], funded |-> TRUE]
  PROVE  ServedInv'
  <1>1. Acct(w)' = Acct(w) /\ Actions(w)' = Actions(w)
    BY DEF Acct, Actions
  <1>2. Visible(w)'.actions = Visible(w).actions \cup rows
    BY DEF Visible, Merge
  <1>3. PICK start, acct, actions, s, t :
          start = Begun(w) /\ acct = Acct(w) /\ actions = Actions(w) /\ s = Now(w)
            /\ t = Wallet!Serve(Now(w), Acct(w), Cur(w))
    OBVIOUS
  <1>4. Begun(w)' = start /\ Now(w)' = t
    BY <1>1, <1>2, <1>3 DEF Begun, Now
  <1>5. PICK n \in Nat : n = pos[w] - 1
    BY CurType DEF AtAction
  <1>6. pos[w] = n + 1 /\ Cur(w) = actions[n + 1]
    BY <1>3, <1>5, CurType DEF AtAction, Cur
  <1>7. Serves(start, acct, actions, n, s)
    BY <1>3, <1>5 DEF ServedInv, ServedAt, HasAccount, Done
  <1>8. Serves(start, acct, actions, n + 1, Wallet!Serve(s, acct, actions[n + 1]))
    BY <1>7, RunGoesOn
  <1>9. t = Wallet!Serve(s, acct, actions[n + 1])
    BY <1>3, <1>6
  <1>10. ServedAt(w)'
    BY <1>1, <1>3, <1>4, <1>6, <1>8, <1>9 DEF ServedAt
  <1> QED BY <1>10, SessionServed

\* Going to the next action.
LEMMA AdvanceDone ==
  ASSUME TypeOK, NEW w \in Worker, pc[w] \in AtAction, Advance(w), UNCHANGED job
  PROVE  Done(w)' = pos[w] /\ HasAccount(w)'
  <1>1. pos[w] \in 1..Len(Actions(w)) /\ Len(Actions(w)) \in Nat
    BY CurType
  <1>2. Actions(w)' = Actions(w)
    BY DEF Actions
  <1>3. CASE pc'[w] = "claim" /\ pos'[w] = pos[w] + 1
    BY <1>1, <1>3 DEF Done, HasAccount
  <1>4. CASE pc'[w] = "commit" /\ ~(pos[w] < Len(Actions(w)))
    BY <1>1, <1>2, <1>4 DEF Done, HasAccount
  <1> QED BY <1>3, <1>4, AdvanceEffect

\* The account is locked: nothing is done yet.
LEMMA LockServed ==
  ASSUME TypeOK, MoneyInv, ServedInv, NEW w \in Worker, LockAccount(w)
  PROVE  ServedInv'
  <1>1. /\ Alone(w) /\ pc[w] = "lock" /\ bal'[w] = balance[Acct(w)]
        /\ UNCHANGED <<db, balance, job, own>>
    BY LockEffect
  <1>2. Acct(w)' = Acct(w) /\ Actions(w)' = Actions(w)
    BY <1>1, SameAction DEF Acct, Actions
  <1>3. own[w].actions = {}
    BY <1>1 DEF MoneyInv, MoneyAt
  <1>4. Visible(w)'.actions = db.actions
    BY <1>1, <1>3 DEF Visible, Merge
  <1>5. Now(w)' = Begun(w)'
    BY <1>1, <1>2, <1>4 DEF Now, Begun
  <1>6. Done(w)' = 0
    <2>1. CASE Actions(w) = <<>>
      <3>1. pc'[w] = "commit"
        BY <2>1 DEF LockAccount, Goto, TypeOK
      <3>2. Len(Actions(w)') = 0
        BY <1>2, <2>1
      <3> QED BY <3>1, <3>2 DEF Done
    <2>2. CASE Actions(w) # <<>>
      <3>1. pc'[w] = "claim" /\ pos'[w] = 1
        BY <2>2 DEF LockAccount, Goto, TypeOK
      <3> QED BY <3>1 DEF Done
    <2> QED BY <2>1, <2>2
  <1>7. ServedAt(w)'
    BY <1>5, <1>6, RunStarts DEF ServedAt
  <1> QED BY <1>1, <1>7, SessionServed

\* A claim serves an action that is a duplicate, and no other.
LEMMA ClaimServed ==
  ASSUME TypeOK, RowsInv, ServedInv, NEW w \in Worker, Claim(w)
  PROVE  ServedInv'
  <1>1. CASE ReplayDuplicate(w)
    <2>1. /\ Alone(w) /\ pc[w] = "claim" /\ Advance(w) /\ Registered(w) # {}
          /\ UNCHANGED <<db, balance, job, bal, own>>
      BY <1>1, ReplayEffect
    <2>2. Done(w)' = pos[w]
      BY <2>1, AdvanceDone DEF AtAction
    <2>3. PICK none : none = {}
      OBVIOUS
    <2>4. own'[w].actions = own[w].actions \cup none
      BY <2>1, <2>3
    <2>5. Visible(w).actions \cup none = Visible(w).actions
      BY <2>3
    <2>6. Wallet!Serve(Now(w), Acct(w), Cur(w)) =
            [ledger |-> LedgerOf(Visible(w).actions \cup none), bal |-> bal'[w], funded |-> TRUE]
      <3>1. Now(w) = [ledger |-> LedgerOf(Visible(w).actions \cup none), bal |-> bal'[w],
                      funded |-> TRUE]
        BY <2>1, <2>5 DEF Now
      <3> QED BY <2>1, <3>1, ReplayServes
    <2> QED BY <2>1, <2>2, <2>4, <2>6, ActionServed
  <1>2. CASE ClaimBlocked(w)
    <2>1. /\ Alone(w) /\ pc[w] = "claim" /\ pc'[w] = "claimwait"
          /\ UNCHANGED <<db, balance, job, pos, bal, own>>
      BY <1>2, BlockedEffect
    <2> QED BY <2>1, QuietServed DEF Done, HasAccount
  <1>3. CASE ClaimFresh(w) \/ ClaimResumes(w)
    <2>1. /\ Alone(w) /\ pc[w] \in {"claim", "claimwait"} /\ pc'[w] = "work"
          /\ own'[w].actions = own[w].actions
          /\ UNCHANGED <<db, balance, job, pos, bal>>
      BY <1>3, RegisterEffect
    <2> QED BY <2>1, QuietServed DEF Done, HasAccount
  <1>4. CASE ClaimLost(w)
    <2>1. Alone(w) /\ pc'[w] = "idle" /\ UNCHANGED <<db, balance>>
      BY <1>4, EndEffect DEF ClaimLost, Fail
    <2> QED BY <2>1, AwayServed DEF HasAccount
  <1> QED BY <1>1, <1>2, <1>3, <1>4 DEF Claim

\* An action that inserts no intent is served by its row.
LEMMA RecordServed ==
  ASSUME TypeOK, TypeOK', KeysInv, RollbacksInv, RepeatsInv, ServedInv, NEW w \in Worker,
         ProcessBetOrWin(w) \/ AlreadyRolledBack(w)
  PROVE  ServedInv'
  <1>1. PICK delta, status :
          /\ Records(w, Row(w, delta, status))
          /\ Wallet!Outcome(LedgerOf(Visible(w).actions), Cur(w)) =
               [delta |-> delta, status |-> status]
    <2>1. CASE ProcessBetOrWin(w)
      BY <2>1, OutcomeOfBet DEF ProcessBetOrWin, Records
    <2>2. CASE AlreadyRolledBack(w)
      BY <2>2, OutcomeOfRepeat DEF AlreadyRolledBack, Records
    <2> QED BY <2>1, <2>2
  <1>2. PICK row, rows : row = Row(w, delta, status) /\ rows = {row}
    OBVIOUS
  <1>3. /\ Alone(w) /\ pc[w] = "work" /\ Advance(w) /\ UNCHANGED <<db, balance, job>>
        /\ own'[w].actions = own[w].actions \cup rows
        /\ bal'[w] = bal[w] + delta
    <2>1. row.delta = delta
      BY <1>2 DEF Row
    <2>2. Records(w, row)
      BY <1>1, <1>2
    <2>3. /\ Alone(w) /\ pc[w] = "work" /\ Advance(w) /\ UNCHANGED <<db, balance, job>>
          /\ own'[w].actions = own[w].actions \cup {row}
          /\ bal'[w] = bal[w] + row.delta
      BY <2>2, RecordEffect
    <2> QED BY <1>2, <2>1, <2>3
  <1>4. bal[w] + delta >= 0
    BY <1>3 DEF TypeOK
  <1>5. Done(w)' = pos[w]
    BY <1>3, AdvanceDone DEF AtAction
  <1>6. Wallet!Serve(Now(w), Acct(w), Cur(w)) =
          [ledger |-> LedgerOf(Visible(w).actions \cup rows), bal |-> bal'[w], funded |-> TRUE]
    BY <1>1, <1>2, <1>3, <1>4, RowServes
  <1> QED BY <1>3, <1>5, <1>6, ActionServed

\* A rollback that found no intent is served by its row, before its intent.
LEMMA UndoServed ==
  ASSUME TypeOK, TypeOK', KeysInv, RowsInv, RollbacksInv, RepeatsInv, PrivateInv, ServedInv,
         NEW w \in Worker, NEW delta, NEW status, Undoes(w, delta, status)
  PROVE  ServedInv'
  <1>1. PICK rows : rows = {Row(w, delta, status)}
    OBVIOUS
  <1>2. /\ Alone(w) /\ pc[w] = "find" /\ pc'[w] = "intend"
        /\ UNCHANGED <<db, balance, job, pos>>
        /\ own'[w].actions = own[w].actions \cup rows
        /\ bal'[w] = bal[w] + delta
    BY <1>1, UndoEffect DEF Undoes
  <1>3. bal[w] + delta >= 0
    BY <1>2 DEF TypeOK
  <1>4. Done(w)' = pos[w]
    BY <1>2 DEF Done
  <1>5. Wallet!Serve(Now(w), Acct(w), Cur(w)) =
          [ledger |-> LedgerOf(Visible(w).actions \cup rows), bal |-> bal'[w], funded |-> TRUE]
    <2>1. Wallet!Outcome(LedgerOf(Visible(w).actions), Cur(w)) =
            [delta |-> delta, status |-> status]
      BY OutcomeOfUndo
    <2>2. pc[w] \in {"work", "find"}
      BY <1>2
    <2> QED BY <1>1, <1>2, <1>3, <2>1, <2>2, RowServes
  <1> QED BY <1>2, <1>4, <1>5, ActionServed

\* What another session commits is of other ids.
LEMMA OtherServed ==
  ASSUME OneAccountPerId, TypeOK, MoneyInv, HomeInv, ServedInv, NEW w \in Worker, Persist(w),
         NEW v \in Worker, v # w, HasAccount(v)
  PROVE  ServedAt(v)'
  <1>1. /\ Alone(w) /\ pc[w] = "commit" /\ HasAccount(w)
        /\ balance' = [balance EXCEPT ![Acct(w)] = bal[w]]
        /\ db'.actions = db.actions \cup own[w].actions
    BY PersistEffect DEF HasAccount
  <1>2. /\ pc'[v] = pc[v] /\ pos'[v] = pos[v] /\ bal'[v] = bal[v] /\ own'[v] = own[v]
    BY <1>1 DEF Alone
  <1>3. Acct(v)' = Acct(v) /\ Actions(v)' = Actions(v)
    BY <1>1, AloneSame
  <1>4. Done(v)' = Done(v)
    BY <1>2, <1>3 DEF Done
  <1>5. PICK X : X = LedgerOf(own[w].actions)
    OBVIOUS
  <1>6. Begun(v)' = Joined(Begun(v), X)
    <2>1. balance'[Acct(v)] = balance[Acct(v)]
      <3>1. Acct(v) # Acct(w)
        BY <1>1 DEF MoneyInv, LocksExclusive
      <3>2. Acct(v) \in Account
        BY AcctType DEF HasAccount
      <3> QED BY <1>1, <3>1, <3>2 DEF TypeOK
    <2>2. LedgerOf(db'.actions) = LedgerOf(db.actions) \cup X
      BY <1>1, <1>5, LedgerJoins
    <2> QED BY <1>3, <2>1, <2>2 DEF Begun, Joined
  <1>7. Now(v)' = Joined(Now(v), X)
    <2>1. Visible(v)'.actions = Visible(v).actions \cup own[w].actions
      BY <1>1, <1>2 DEF Visible, Merge
    <2>2. LedgerOf(Visible(v)'.actions) = LedgerOf(Visible(v).actions) \cup X
      BY <1>5, <2>1, LedgerJoins
    <2> QED BY <1>2, <2>2 DEF Now, Joined
  <1>8. Done(v) \in Nat /\ \A i \in 1..Done(v) : i \in DOMAIN Actions(v)
    <2>1. job[v].req \in Request
      BY DEF TypeOK, HasAccount, Delivery
    <2>2. Actions(v) \in Seq(BetOrWin \cup Rollback)
      BY <2>1, BodyAssumption DEF Actions
    <2>3. CASE pc[v] \in AtAction
      BY <2>2, <2>3, CurType DEF Done, AtAction
    <2>4. CASE pc[v] \notin AtAction
      <3>1. Done(v) = Len(Actions(v))
        BY <2>4 DEF HasAccount, AtAction, Done
      <3> QED BY <2>2, <3>1
    <2> QED BY <2>3, <2>4
  <1>9. ASSUME NEW i \in 1..Done(v) PROVE Apart(X, Actions(v)[i])
    <2>1. PICK x : x = Actions(v)[i]
      OBVIOUS
    <2>2. /\ x \in BetOrWin \cup Rollback
          /\ \A id \in {x.id, x.orig} : id # NoId => id \in Ids(job[v].req)
      <3>1. job[v].req \in Request /\ i \in DOMAIN Body[job[v].req].actions
            /\ x = Body[job[v].req].actions[i]
        BY <1>8, <2>1 DEF TypeOK, HasAccount, Delivery, Actions
      <3>2. Body[job[v].req].actions \in Seq(BetOrWin \cup Rollback)
        BY <3>1, BodyAssumption
      <3>3. x \in Range(Body[job[v].req].actions)
        BY <3>1 DEF Range
      <3>4. {x.id, x.orig} \in {{y.id, y.orig} : y \in Range(Body[job[v].req].actions)}
        BY <3>3
      <3>5. \A id \in {x.id, x.orig} : id # NoId => id \in Ids(job[v].req)
        BY <3>4 DEF Ids
      <3>6. x \in BetOrWin \cup Rollback
        BY <3>1, <3>2
      <3> QED BY <3>5, <3>6
    <2>3. /\ x.id \in ActionId /\ x.id # NoId
          /\ x.kind = "rollback" => x.orig \in ActionId /\ x.orig # NoId
      BY <2>2, IdsAssumption DEF BetOrWin, Rollback
    <2>4. ASSUME NEW e \in X
          PROVE  /\ e.id \in Ids(job[w].req) /\ e.id \in ActionId /\ e.id # NoId
                 /\ e.orig # NoId => e.orig \in Ids(job[w].req)
      <3>1. PICK a \in own[w].actions : e = Entry(a)
        BY <1>5 DEF LedgerOf
      <3>2. e.id = a.id /\ e.orig = a.orig
        BY <3>1 DEF Entry
      <3>3. a.id \in ActionId
        BY DEF TypeOK, Tables, ActionRow
      <3> QED BY <3>2, <3>3, IdsAssumption DEF HomeInv, HomeAt
    <2>5. \A id \in Ids(job[w].req) : id \notin Ids(job[v].req)
      BY <1>1, NothingShared
    <2>6. ASSUME NEW e \in X
          PROVE  /\ e.id # x.id /\ e.id # x.orig /\ e.orig # x.id
                 /\ x.kind = "rollback" => e.orig # x.orig
      BY <2>2, <2>3, <2>4, <2>5
    <2> QED BY <2>1, <2>6 DEF Apart
  <1>10. Serves(Begun(v), Acct(v), Actions(v), Done(v), Now(v))
    BY DEF ServedInv, ServedAt
  <1>11. Serves(Joined(Begun(v), X), Acct(v), Actions(v), Done(v), Joined(Now(v), X))
    BY <1>8, <1>9, <1>10, RunApart
  <1> QED BY <1>3, <1>4, <1>6, <1>7, <1>11 DEF ServedAt

\* The intent's insert comes after the row, and serves nothing more.
LEMMA IntendServed ==
  ASSUME TypeOK, ServedInv, NEW w \in Worker, NEW found, Intend(w, found)
  PROVE  ServedInv'
  <1>1. /\ Alone(w) /\ pc[w] = "intend" /\ Advance(w) /\ own'[w].actions = own[w].actions
        /\ UNCHANGED <<db, balance, job, bal>>
    BY IntendEffect
  <1>2. Done(w) = pos[w] /\ HasAccount(w)
    BY <1>1 DEF Done, HasAccount
  <1>3. Done(w)' = pos[w]
    BY <1>1, AdvanceDone DEF AtAction
  <1> QED BY <1>1, <1>2, <1>3, QuietServed

\* A rollback that finds no intent has not been served by looking.
LEMMA LooksServed ==
  ASSUME TypeOK, ServedInv, NEW w \in Worker, NotRolledBack(w)
  PROVE  ServedInv'
  <1>1. /\ Alone(w) /\ pc[w] = "work" /\ pc'[w] = "find"
        /\ UNCHANGED <<db, balance, job, pos, bal, own>>
    BY LooksEffect
  <1> QED BY <1>1, QuietServed DEF Done, HasAccount

\* A commit is of other ids than the other sessions'.
LEMMA PersistServed ==
  ASSUME OneAccountPerId, TypeOK, MoneyInv, HomeInv, ServedInv, NEW w \in Worker, Persist(w)
  PROVE  ServedInv'
  <1>1. Alone(w) /\ pc'[w] = "idle"
    BY PersistEffect
  <1>2. ServedAt(w)'
    BY <1>1 DEF ServedAt, HasAccount
  <1>3. ASSUME NEW v \in Worker, v # w PROVE ServedAt(v)'
    <2>1. CASE HasAccount(v)
      BY <1>3, <2>1, OtherServed
    <2>2. CASE ~HasAccount(v)
      <3>1. ~HasAccount(v)'
        BY <1>1, <1>3, <2>2 DEF Alone, HasAccount
      <3> QED BY <3>1 DEF ServedAt
    <2> QED BY <2>1, <2>2
  <1> QED BY <1>2, <1>3 DEF ServedInv

\* What ServedInv rests on.
WalletInv == HouseInv /\ PrivateInv /\ RepeatsInv

\* Every step keeps ServedInv.
LEMMA StepServed ==
  ASSUME OneAccountPerId, WalletInv, TypeOK', ServedInv, [Next]_vars
  PROVE  ServedInv'
  <1> USE DEF WalletInv, HouseInv
  <1>1. ASSUME NEW w \in Worker, NEW r \in Request, Begin(w, r) PROVE ServedInv'
    <2>1. Alone(w) /\ pc'[w] = "lock" /\ UNCHANGED <<db, balance>>
      BY <1>1, TakeEffect DEF Begin
    <2> QED BY <2>1, AwayServed DEF HasAccount
  <1>2. ASSUME NEW w \in Worker,
               \/ RefuseBetOrWin(w) \/ RefuseRollback(w) \/ IntentViolation(w)
               \/ Crash(w) \/ DeadlockVictim(w)
        PROVE  ServedInv'
    <2>1. EndTx(w) /\ UNCHANGED <<db, balance>>
      BY <1>2 DEF RefuseBetOrWin, RefuseRollback, IntentViolation, Crash, DeadlockVictim, Fail
    <2>2. Alone(w) /\ pc'[w] = "idle"
      BY <2>1, EndEffect
    <2> QED BY <2>1, <2>2, AwayServed DEF HasAccount
  <1>3. ASSUME NEW w \in Worker, Tombstone(w) \/ OriginalNotApplied(w) \/ ReverseOriginal(w)
        PROVE  ServedInv'
    BY <1>3, UndoCases, UndoServed
  <1>4. ASSUME NEW w \in Worker, Commit(w) \/ CommitUnheard(w) PROVE ServedInv'
    BY <1>4, PersistServed DEF Commit, CommitUnheard
  <1>5. ASSUME NEW w \in Worker, Step(w) PROVE ServedInv'
    BY <1>2, <1>3, <1>4, <1>5, LockServed, ClaimServed, RecordServed, LooksServed,
       IntendServed DEF Step, Undo, InsertRollbackIntent
  <1>6. CASE Tick \/ (\E r \in Request : Reject(r)) \/ UNCHANGED vars
    <2>1. UNCHANGED <<db, balance, own, pc, job, pos, bal>>
      BY <1>6 DEF Tick, Reject, vars, session
    <2>2. ASSUME NEW v \in Worker PROVE ServedAt(v)'
      <3>1. /\ Acct(v)' = Acct(v) /\ Actions(v)' = Actions(v) /\ Visible(v)' = Visible(v)
        BY <2>1 DEF Acct, Actions, Visible
      <3>2. Begun(v)' = Begun(v) /\ Now(v)' = Now(v) /\ Done(v)' = Done(v)
        BY <2>1, <3>1 DEF Begun, Now, Done
      <3> QED BY <2>1, <3>1, <3>2 DEF ServedInv, ServedAt, HasAccount
    <2> QED BY <2>2 DEF ServedInv
  <1> QED BY <1>1, <1>2, <1>4, <1>5, <1>6 DEF Next

\* ServedInv holds in the initial state: no account is held.
LEMMA InitServed == Init => ServedInv
  BY DEF Init, ServedInv, ServedAt, HasAccount

-----------------------------------------------------------------------------
(* The refinement. *)

\* A commit is the whole request at once.
LEMMA PersistProcesses ==
  ASSUME TypeOK, ServedInv, NEW w \in Worker, Persist(w)
  PROVE  Wallet!Next
  <1>1. /\ pc[w] = "commit" /\ balance' = [balance EXCEPT ![Acct(w)] = bal[w]]
        /\ db'.actions = db.actions \cup own[w].actions
    BY PersistEffect
  <1>2. PICK r \in Request : r = job[w].req
    BY <1>1 DEF TypeOK, Delivery
  <1>3. PICK s : s = Now(w)
    OBVIOUS
  <1>4. Acct(w) = Body[r].acct /\ Actions(w) = Body[r].actions
        /\ Done(w) = Len(Body[r].actions)
    BY <1>1, <1>2 DEF Acct, Actions, Done
  <1>5. Begun(w) = [ledger |-> Ledger, bal |-> balance[Body[r].acct], funded |-> TRUE]
    BY <1>4, LedgerIs DEF Begun
  <1>6. Serves(Begun(w), Body[r].acct, Body[r].actions, Len(Body[r].actions), s)
    BY <1>1, <1>3, <1>4 DEF ServedInv, ServedAt, HasAccount
  <1>7. Wallet!After(r) = s
    BY <1>5, <1>6, RunIsAfter
  <1>8. s.ledger = Ledger' /\ s.bal = bal[w] /\ s.funded = TRUE
    <2>1. Ledger' = LedgerOf(db'.actions)
      BY DEF Ledger, LedgerOf, Entry
    <2>2. Visible(w).actions = db'.actions
      BY <1>1, VisibleRows
    <2> QED BY <1>3, <2>1, <2>2 DEF Now
  <1>9. Wallet!Process(r)
    BY <1>1, <1>4, <1>7, <1>8 DEF Wallet!Process
  <1> QED BY <1>9 DEF Wallet!Next

\* Everything else is no step of the wallet at all.
LEMMA StepWallet ==
  ASSUME TypeOK, ServedInv, [Next]_vars
  PROVE  [Wallet!Next]_<<Ledger, balance>>
  <1>1. ASSUME NEW w \in Worker, Commit(w) \/ CommitUnheard(w) PROVE Wallet!Next
    BY <1>1, PersistProcesses DEF Commit, CommitUnheard
  <1>2. ASSUME UNCHANGED <<db, balance>> PROVE UNCHANGED <<Ledger, balance>>
    BY <1>2 DEF Ledger
  <1>3. ASSUME NEW w \in Worker, Claim(w) PROVE UNCHANGED <<db, balance>>
    BY <1>3 DEF Claim, ReplayDuplicate, ClaimFresh, ClaimBlocked, ClaimResumes, ClaimLost,
                Fail, tables
  <1>4. ASSUME NEW w \in Worker, Undo(w) PROVE UNCHANGED <<db, balance>>
    BY <1>4 DEF Undo, AlreadyRolledBack, NotRolledBack, Tombstone, OriginalNotApplied,
                ReverseOriginal, RefuseRollback, IntentViolation, InsertRollbackAction,
                Fail, tables
  <1>5. ASSUME NEW w \in Worker,
               \/ LockAccount(w) \/ ProcessBetOrWin(w) \/ RefuseBetOrWin(w)
               \/ InsertRollbackIntent(w)
        PROVE  UNCHANGED <<db, balance>>
    BY <1>5 DEF LockAccount, ProcessBetOrWin, RefuseBetOrWin, InsertRollbackIntent, Intend,
                Fail, tables
  <1>6. ASSUME NEW w \in Worker,
               Crash(w) \/ DeadlockVictim(w) \/ \E r \in Request : Begin(w, r)
        PROVE  UNCHANGED <<db, balance>>
    BY <1>6 DEF Crash, DeadlockVictim, Fail, Begin, Take
  <1>7. CASE Tick \/ (\E r \in Request : Reject(r)) \/ UNCHANGED vars
    BY <1>2, <1>7 DEF Tick, Reject, vars
  <1> QED BY <1>1, <1>2, <1>3, <1>4, <1>5, <1>6, <1>7 DEF Next, Step

\* Nothing is served to begin with.
LEMMA InitWallet == Init => Wallet!Init
  BY EmptyRows DEF Init, Wallet!Init, Ledger

\* While each id is used for one account, whatever is delivered twice, interleaved,
\* refused or lost, the ledger and the balances change as if each request were served
\* at once or not at all, and its actions in order (processor.ts:30, transaction.ts).
THEOREM ServesRequestsOneByOne ==
  ASSUME OneAccountPerId
  PROVE  Spec => ServesOneByOne
  <1>1. Init => WalletInv /\ ServedInv /\ Wallet!Init
    BY HouseKeeps, InitPrivate, InitRepeats, InitServed, InitWallet DEF WalletInv
  <1>2. WalletInv /\ ServedInv /\ [Next]_vars => (WalletInv /\ ServedInv)'
    <2> SUFFICES ASSUME WalletInv, ServedInv, [Next]_vars PROVE (WalletInv /\ ServedInv)'
      OBVIOUS
    <2>1. WalletInv'
      BY HouseKeeps, StepPrivate, StepRepeats DEF WalletInv, HouseInv
    <2>2. ServedInv'
      BY <2>1, StepServed DEF WalletInv, HouseInv
    <2> QED BY <2>1, <2>2
  <1>3. WalletInv /\ ServedInv /\ [Next]_vars => [Wallet!Next]_<<Ledger, balance>>
    BY StepWallet DEF WalletInv, HouseInv
  <1> QED BY <1>1, <1>2, <1>3, PTL DEF Spec, ServesOneByOne, Wallet!Spec

-----------------------------------------------------------------------------
(* The reporting deltas. *)

\* The deltas that a ledger row has booked: a bet or a win that it is played, ...
Play(q) ==
  Enqueued(q.tx, q.acct, q.at, IF q.status = "noop_prerolled"
                                 THEN RolledBackDelta(q.kind, q.amount)
                                 ELSE AppliedDelta(q.kind, q.amount))

\* ... a rollback that it is counted, and what it takes back in the original's minute.
CountOf(q) == Enqueued(q.tx, q.acct, q.at, CountDelta)
Removal(q, a) == Enqueued(q.tx, a.acct, a.at, RemovedDelta(a.kind, a.amount))

\* The rollback q took back the bet or win a.
TakesBack(q, a) == IsReversal(q) /\ a.id = q.orig /\ a.kind # "rollback"

\* Booked by the rows R, of which each reversal has its original among the rows A.
Books(R, A, e) ==
  \/ \E q \in R : q.kind # "rollback" /\ e = Play(q)
  \/ \E q \in R : Resolves(q) /\ e = CountOf(q)
  \/ \E q \in R : \E a \in A : TakesBack(q, a) /\ e = Removal(q, a)

\* The rows of an open transaction whose deltas are written.
Posted(w) == {q \in own[w].actions : ~Announced(w, q)}

\* The rollback whose intent comes next is that of the action at hand.
SignedAt(w) ==
  pc[w] = "intend" => \A q \in own[w].actions : q.id = Cur(w).id =>
    q.tx = MyTx(w) /\ q.acct = Acct(w) /\ q.at = at[w]

\* What an open transaction has booked: what its posted rows book.
BooksAt(w) ==
  /\ \A e : e \in own[w].outbox <=> Books(Posted(w), Visible(w).actions, e)
  /\ SignedAt(w)

\* The committed deltas are those of the committed rows, and so in each session.
BooksInv ==
  /\ \A e : e \in db.outbox <=> Books(db.actions, db.actions, e)
  /\ \A w \in Worker : BooksAt(w)

\* No two rows have one id.
UniqueIds(A) == \A a, b \in A : a.id = b.id => a = b

\* Nothing more is taken back when rows of other ids are added.
LEMMA BooksStay ==
  ASSUME NEW R, NEW A, NEW B, A \subseteq B, UniqueIds(B),
         \A q \in R : IsReversal(q) => \E a \in A : a.id = q.orig, NEW e
  PROVE  Books(R, A, e) <=> Books(R, B, e)
  <1>1. ASSUME NEW q \in R, NEW b \in B, TakesBack(q, b)
        PROVE  b \in A
    BY <1>1 DEF TakesBack, UniqueIds
  <1> QED BY <1>1 DEF Books

\* What two sets of rows book.
LEMMA BooksUnion ==
  ASSUME NEW R, NEW Q, NEW A, NEW e
  PROVE  Books(R \cup Q, A, e) <=> Books(R, A, e) \/ Books(Q, A, e)
  BY DEF Books

\* No rows book nothing.
LEMMA BooksNothing == \A A, e : ~Books({}, A, e)
  BY DEF Books

\* A reversal has its original among the rows that are visible.
LEMMA OriginalVisible ==
  ASSUME RollbacksInv
  PROVE  /\ \A q \in db.actions : IsReversal(q) => \E a \in db.actions : a.id = q.orig
         /\ \A w \in Worker : \A q \in own[w].actions : IsReversal(q) =>
              \E a \in Visible(w).actions : a.id = q.orig
  BY DEF RollbacksInv, RollbacksIn, RollbacksAt, Grounded, IsReversal, Resolves

\* No two rows of what a session sees have one id.
LEMMA VisibleIds ==
  KeysInv => UniqueIds(db.actions) /\ \A w \in Worker : UniqueIds(Visible(w).actions)
  <1> SUFFICES ASSUME KeysInv
               PROVE  UniqueIds(db.actions) /\ \A w \in Worker : UniqueIds(Visible(w).actions)
    OBVIOUS
  <1>1. UniqueIds(db.actions)
    BY DEF UniqueIds, KeysInv, RowsClaimed
  <1> QED BY <1>1, VisibleUnique DEF UniqueIds

\* Whatever one session does, what another has booked stays right.
LEMMA OtherBooks ==
  ASSUME RollbacksInv, BooksInv, NEW w \in Worker, Alone(w), NEW v \in Worker, v # w,
         db.actions \subseteq db'.actions, UniqueIds(Visible(v)'.actions)
  PROVE  BooksAt(v)'
  <1>1. own'[v] = own[v] /\ pc'[v] = pc[v] /\ at'[v] = at[v] /\ BooksAt(v)
    BY DEF Alone, BooksInv
  <1>2. Cur(v)' = Cur(v) /\ MyTx(v)' = MyTx(v) /\ Acct(v)' = Acct(v)
    BY AloneSame
  <1>3. Posted(v)' = Posted(v)
    BY <1>1, <1>2 DEF Posted, Announced
  <1>4. Visible(v).actions \subseteq Visible(v)'.actions
    BY <1>1 DEF Visible, Merge
  <1>5. \A q \in Posted(v) : IsReversal(q) => \E a \in Visible(v).actions : a.id = q.orig
    BY OriginalVisible DEF Posted
  <1>6. \A e : Books(Posted(v), Visible(v).actions, e) <=> Books(Posted(v), Visible(v)'.actions, e)
    BY <1>4, <1>5, BooksStay
  <1>7. \A e : e \in own'[v].outbox <=> Books(Posted(v)', Visible(v)'.actions, e)
    BY <1>1, <1>3, <1>6 DEF BooksAt
  <1>8. SignedAt(v)'
    BY <1>1, <1>2 DEF BooksAt, SignedAt
  <1> QED BY <1>7, <1>8 DEF BooksAt

\* A step of one session keeps BooksInv when it keeps its part of that session.
LEMMA SessionBooks ==
  ASSUME RollbacksInv, BooksInv, KeysInv, NEW w \in Worker, Alone(w), UNCHANGED db, BooksAt(w)'
  PROVE  BooksInv'
  <1>1. ASSUME NEW v \in Worker, v # w PROVE BooksAt(v)'
    <2>1. Visible(v)' = Visible(v)
      BY <1>1 DEF Visible, Alone
    <2>2. UniqueIds(Visible(v)'.actions)
      BY <2>1, VisibleIds
    <2> QED BY <1>1, <2>2, OtherBooks
  <1> QED BY <1>1 DEF BooksInv

\* A step that books nothing and leaves its rows posted as they were.
LEMMA QuietBooks ==
  ASSUME RollbacksInv, BooksInv, KeysInv, NEW w \in Worker, Alone(w), UNCHANGED db,
         own'[w].outbox = own[w].outbox, own'[w].actions = own[w].actions,
         pc[w] # "intend", pc'[w] # "intend"
  PROVE  BooksInv'
  <1>1. Posted(w)' = Posted(w) /\ Visible(w)'.actions = Visible(w).actions
    BY DEF Posted, Announced, Visible, Merge
  <1>2. BooksAt(w)'
    BY <1>1 DEF BooksInv, BooksAt, SignedAt
  <1> QED BY <1>2, SessionBooks

\* A transaction that ends without a commit keeps BooksInv.
LEMMA EndBooks ==
  ASSUME TypeOK, RollbacksInv, BooksInv, KeysInv, NEW w \in Worker, EndTx(w), UNCHANGED db
  PROVE  BooksInv'
  <1>1. own'[w].actions = {} /\ own'[w].outbox = {} /\ pc'[w] = "idle" /\ Alone(w)
    BY EndEffect, EmptyRows
  <1>2. Posted(w)' = {}
    BY <1>1 DEF Posted
  <1>3. BooksAt(w)'
    BY <1>1, <1>2, BooksNothing DEF BooksAt, SignedAt
  <1> QED BY <1>1, <1>3, SessionBooks

\* What is booked when rows are added to those that are visible.
LEMMA BooksGrow ==
  ASSUME RollbacksInv, BooksInv, NEW w \in Worker, UNCHANGED db,
         own[w].actions \subseteq own'[w].actions, UniqueIds(Visible(w)'.actions)
  PROVE  \A e : e \in own[w].outbox <=> Books(Posted(w), Visible(w)'.actions, e)
  <1>1. Visible(w).actions \subseteq Visible(w)'.actions
    BY DEF Visible, Merge
  <1>2. \A q \in Posted(w) : IsReversal(q) => \E a \in Visible(w).actions : a.id = q.orig
    BY OriginalVisible DEF Posted
  <1>3. \A e : Books(Posted(w), Visible(w).actions, e) <=> Books(Posted(w), Visible(w)'.actions, e)
    BY <1>1, <1>2, BooksStay
  <1> QED BY <1>3 DEF BooksInv, BooksAt

\* What a bet, a win or a rollback done before books.
LEMMA RecordOutbox ==
  ASSUME TypeOK, NEW w \in Worker, NEW row, Records(w, row)
  PROVE  \A e : e \in own'[w].outbox <=>
                 e \in own[w].outbox \/ (row.kind # "rollback" /\ e = Play(row))
  <1>1. CASE ProcessBetOrWin(w) /\ row = Row(w, BetOrWinDelta(w),
                                            IF Noop(w) THEN "noop_prerolled" ELSE "applied")
    <2>1. row.kind # "rollback"
      BY <1>1 DEF Row, ProcessBetOrWin
    <2>2. Play(row) = Enqueued(MyTx(w), Acct(w), at[w],
                               IF Noop(w) THEN RolledBackDelta(Cur(w).kind, Cur(w).amount)
                                          ELSE AppliedDelta(Cur(w).kind, Cur(w).amount))
      <3>1. /\ row.tx = MyTx(w) /\ row.acct = Acct(w) /\ row.at = at[w]
            /\ row.kind = Cur(w).kind /\ row.amount = Cur(w).amount
            /\ row.status = IF Noop(w) THEN "noop_prerolled" ELSE "applied"
        BY <1>1 DEF Row
      <3> QED BY <3>1 DEF Play
    <2>3. PICK rows : rows.outbox = {Play(row)} /\ Write(w, rows)
      BY <1>1, <2>2 DEF ProcessBetOrWin, Empty
    <2>4. own'[w].outbox = own[w].outbox \cup {Play(row)}
      BY <2>3, WroteRows
    <2> QED BY <2>1, <2>4
  <1>2. CASE AlreadyRolledBack(w) /\ row = Row(w, 0, "noop_already_rolled_back")
    <2>1. row.kind = "rollback"
      BY <1>2 DEF Row, AlreadyRolledBack
    <2>2. PICK rows : rows.outbox = {} /\ Write(w, rows)
      BY <1>2 DEF AlreadyRolledBack, Empty
    <2>3. own'[w].outbox = own[w].outbox \cup rows.outbox
      BY <2>2, WroteRows
    <2> QED BY <2>1, <2>2, <2>3
  <1> QED BY <1>1, <1>2 DEF Records

\* The ledger row of an action that inserts no intent keeps BooksInv.
LEMMA RecordBooks ==
  ASSUME TypeOK, KeysInv, RollbacksInv, BooksInv, NEW w \in Worker, NEW row, Records(w, row),
         UniqueIds(Visible(w)'.actions)
  PROVE  BooksInv'
  <1>1. /\ Alone(w) /\ pc[w] = "work" /\ Advance(w) /\ UNCHANGED db
        /\ own'[w].actions = own[w].actions \cup {row}
    BY RecordEffect
  <1>2. pc'[w] # "intend"
    BY <1>1, AdvanceEffect DEF AtAction
  <1>3. Posted(w)' = Posted(w) \cup {row}
    BY <1>1, <1>2 DEF Posted, Announced
  <1>4. ~Resolves(row) /\ ~IsReversal(row)
    BY DEF Records, Row, Resolves, IsReversal, ProcessBetOrWin
  <1>5. \A e : Books({row}, Visible(w)'.actions, e) <=> (row.kind # "rollback" /\ e = Play(row))
    BY <1>4 DEF Books, TakesBack
  <1>6. \A e : e \in own[w].outbox <=> Books(Posted(w), Visible(w)'.actions, e)
    BY <1>1, BooksGrow
  <1>7. \A e : e \in own'[w].outbox <=> Books(Posted(w)', Visible(w)'.actions, e)
    BY <1>3, <1>5, <1>6, BooksUnion, RecordOutbox
  <1>8. BooksAt(w)'
    BY <1>2, <1>7 DEF BooksAt, SignedAt
  <1> QED BY <1>1, <1>8, SessionBooks

\* The ledger row of a rollback that found no intent keeps BooksInv.
LEMMA UndoBooks ==
  ASSUME TypeOK, KeysInv, RollbacksInv, BooksInv, NEW w \in Worker, NEW delta, NEW status,
         Undoes(w, delta, status), UniqueIds(Visible(w)'.actions)
  PROVE  BooksInv'
  <1>1. PICK row : row = Row(w, delta, status)
    OBVIOUS
  <1>2. /\ Alone(w) /\ pc[w] = "find" /\ pc'[w] = "intend" /\ UNCHANGED <<db, job, pos, at>>
        /\ own'[w].actions = own[w].actions \cup {row}
        /\ own'[w].outbox = own[w].outbox
    BY <1>1, UndoEffect DEF Undoes
  <1>3. row.id = Cur(w).id /\ row.tx = MyTx(w) /\ row.acct = Acct(w) /\ row.at = at[w]
    BY <1>1 DEF Row
  <1>4. Cur(w)' = Cur(w) /\ MyTx(w)' = MyTx(w) /\ Acct(w)' = Acct(w) /\ at'[w] = at[w]
    BY <1>2, SameAction
  <1>5. \A a \in own[w].actions : a.id # Cur(w).id
    BY <1>2 DEF KeysInv, PendingAction
  <1>6. Posted(w)' = Posted(w)
    BY <1>2, <1>3, <1>4, <1>5 DEF Posted, Announced
  <1>7. \A e : e \in own[w].outbox <=> Books(Posted(w), Visible(w)'.actions, e)
    BY <1>2, BooksGrow
  <1>8. SignedAt(w)'
    BY <1>2, <1>3, <1>4, <1>5 DEF SignedAt
  <1>9. BooksAt(w)'
    BY <1>2, <1>6, <1>7, <1>8 DEF BooksAt
  <1> QED BY <1>2, <1>9, SessionBooks

\* What the insert of an intent books.
LEMMA IntendOutbox ==
  ASSUME TypeOK, NEW w \in Worker, InsertRollbackIntent(w)
  PROVE  own'[w].outbox = own[w].outbox
           \cup {Enqueued(MyTx(w), Acct(w), at[w], CountDelta)}
           \cup {Removed(w, a) : a \in {b \in Reversed(w) : b.kind # "rollback"}}
  <1>1. PICK new : new = {Enqueued(MyTx(w), Acct(w), at[w], CountDelta)}
                         \cup {Removed(w, a) : a \in {b \in Reversed(w) : b.kind # "rollback"}}
    OBVIOUS
  <1>2. PICK rows : rows.outbox = new /\ Write(w, rows)
    BY <1>1 DEF InsertRollbackIntent, Intend, Empty
  <1>3. own'[w].outbox = own[w].outbox \cup rows.outbox
    BY <1>2, WroteRows
  <1> QED BY <1>1, <1>2, <1>3

\* The insert of an intent, with the removal of what is reversed, keeps BooksInv.
LEMMA IntendBooks ==
  ASSUME TypeOK, KeysInv, RowsInv, RollbacksInv, BooksInv, NEW w \in Worker,
         InsertRollbackIntent(w)
  PROVE  BooksInv'
  <1>1. /\ Alone(w) /\ pc[w] = "intend" /\ Advance(w) /\ UNCHANGED db
        /\ own'[w].actions = own[w].actions
    BY IntendEffect DEF InsertRollbackIntent
  <1>2. pc'[w] # "intend"
    BY <1>1, AdvanceEffect DEF AtAction
  <1>3. PICK r \in own[w].actions : r.id = Cur(w).id /\ Resolves(r)
    BY <1>1 DEF RollbacksInv, RollbacksAt
  <1>4. \A q \in own[w].actions : Announced(w, q) <=> q = r
    BY <1>1, <1>3 DEF KeysInv, RowsClaimed, Announced
  <1>5. r.orig = Cur(w).orig /\ r.tx = MyTx(w) /\ r.acct = Acct(w) /\ r.at = at[w]
    BY <1>1, <1>3 DEF KeysInv, PendingAction, BooksInv, BooksAt, SignedAt
  <1>6. Posted(w)' = Posted(w) \cup {r} /\ Visible(w)'.actions = Visible(w).actions
    BY <1>1, <1>2, <1>3, <1>4 DEF Posted, Announced, Visible, Merge
  <1>7. r.kind = "rollback"
    BY <1>3 DEF Resolves
  <1>8. \A a : a \in Reversed(w) /\ a.kind # "rollback" <=>
                a \in Visible(w).actions /\ TakesBack(r, a)
    <2>1. \A rb \in own[w].actions : rb.id = Cur(w).id => rb = r
      BY <1>1, <1>4 DEF Announced
    <2> QED BY <1>3, <1>5, <1>7, <2>1, OriginalsAre DEF Reversed, TakesBack, IsReversal
  <1>9. \A a : Removed(w, a) = Removal(r, a)
    BY <1>5 DEF Removed, Removal
  <1>10. CountOf(r) = Enqueued(MyTx(w), Acct(w), at[w], CountDelta)
    BY <1>5 DEF CountOf
  <1>11. \A e : Books({r}, Visible(w).actions, e) <=>
                \/ e = CountOf(r)
                \/ \E a \in Visible(w).actions : TakesBack(r, a) /\ e = Removal(r, a)
    BY <1>3, <1>7 DEF Books
  <1>12. \A e : e \in own'[w].outbox <=>
                e \in own[w].outbox \/ Books({r}, Visible(w).actions, e)
    <2>1. \A e : e \in own'[w].outbox <=>
            \/ e \in own[w].outbox \/ e = CountOf(r)
            \/ \E a : a \in Reversed(w) /\ a.kind # "rollback" /\ e = Removed(w, a)
      BY <1>10, IntendOutbox
    <2> QED BY <1>8, <1>9, <1>11, <2>1
  <1>13. \A e : e \in own'[w].outbox <=> Books(Posted(w)', Visible(w)'.actions, e)
    BY <1>6, <1>12, BooksUnion DEF BooksInv, BooksAt
  <1>14. BooksAt(w)'
    BY <1>2, <1>13 DEF BooksAt, SignedAt
  <1> QED BY <1>1, <1>14, SessionBooks

\* The commit keeps BooksInv.
LEMMA PersistBooks ==
  ASSUME TypeOK, KeysInv, RollbacksInv, BooksInv, NEW w \in Worker, Persist(w),
         UniqueIds(db'.actions), \A v \in Worker : UniqueIds(Visible(v)'.actions)
  PROVE  BooksInv'
  <1>1. /\ Alone(w) /\ pc[w] = "commit" /\ pc'[w] = "idle" /\ own'[w] = Empty
        /\ db'.actions = db.actions \cup own[w].actions
        /\ db'.outbox = db.outbox \cup own[w].outbox
    BY PersistEffect
  <1>2. Posted(w) = own[w].actions /\ Visible(w).actions = db'.actions
    BY <1>1, VisibleRows DEF Posted, Announced
  <1>3. \A e : Books(db.actions, db.actions, e) <=> Books(db.actions, db'.actions, e)
    <2>1. \A q \in db.actions : IsReversal(q) => \E a \in db.actions : a.id = q.orig
      BY OriginalVisible
    <2> QED BY <1>1, <2>1, BooksStay
  <1>4. \A e : e \in db.outbox <=> Books(db.actions, db'.actions, e)
    BY <1>3 DEF BooksInv
  <1>5. \A e : e \in own[w].outbox <=> Books(own[w].actions, db'.actions, e)
    BY <1>2 DEF BooksInv, BooksAt
  <1>6. \A e : e \in db'.outbox <=> Books(db'.actions, db'.actions, e)
    <2>1. \A e : Books(db'.actions, db'.actions, e) <=>
                 \/ Books(db.actions, db'.actions, e)
                 \/ Books(own[w].actions, db'.actions, e)
      BY <1>1, BooksUnion
    <2>2. \A e : e \in db'.outbox <=> e \in db.outbox \/ e \in own[w].outbox
      BY <1>1
    <2> QED BY <1>4, <1>5, <2>1, <2>2
  <1>7. Posted(w)' = {} /\ own'[w].outbox = {}
    BY <1>1, EmptyRows DEF Posted
  <1>8. BooksAt(w)'
    BY <1>1, <1>7, BooksNothing DEF BooksAt, SignedAt
  <1>9. \A v \in Worker : v # w => BooksAt(v)'
    BY <1>1, OtherBooks
  <1> QED BY <1>6, <1>8, <1>9 DEF BooksInv

\* A claim, whether it inserts, waits or finds its action, keeps BooksInv.
LEMMA ClaimBooks ==
  ASSUME TypeOK, KeysInv, RollbacksInv, BooksInv, NEW w \in Worker, Claim(w)
  PROVE  BooksInv'
  <1>1. CASE ReplayDuplicate(w)
    <2>1. /\ Alone(w) /\ pc[w] = "claim" /\ Advance(w) /\ UNCHANGED <<db, own>>
      BY <1>1, ReplayEffect
    <2>2. pc'[w] # "intend"
      BY <2>1, AdvanceEffect DEF AtAction
    <2> QED BY <2>1, <2>2, QuietBooks
  <1>2. CASE ClaimBlocked(w)
    BY <1>2, BlockedEffect, QuietBooks
  <1>3. CASE ClaimFresh(w) \/ ClaimResumes(w)
    BY <1>3, RegisterEffect, QuietBooks
  <1>4. CASE ClaimLost(w)
    BY <1>4, EndBooks DEF ClaimLost, Fail
  <1> QED BY <1>1, <1>2, <1>3, <1>4 DEF Claim

\* Every step keeps BooksInv.
LEMMA StepBooks ==
  ASSUME TypeOK, KeysInv, RowsInv, RollbacksInv, BooksInv, [Next]_vars
  PROVE  BooksInv'
  <1>0. UniqueIds(db'.actions) /\ \A w \in Worker : UniqueIds(Visible(w)'.actions)
    <2>1. KeysInv'
      BY StepKeys
    <2>2. (UniqueIds(db.actions) /\ \A w \in Worker : UniqueIds(Visible(w).actions))'
      BY <2>1, VisibleIds, PTL
    <2> QED BY <2>2
  <1>1. ASSUME NEW w \in Worker, NEW r \in Request, Begin(w, r) PROVE BooksInv'
    BY <1>1, TakeEffect, QuietBooks DEF Begin
  <1>2. ASSUME NEW w \in Worker, LockAccount(w) PROVE BooksInv'
    <2>1. /\ Alone(w) /\ pc[w] = "lock" /\ pc'[w] # "intend" /\ UNCHANGED <<db, own>>
      BY <1>2, LockEffect
    <2> QED BY <2>1, QuietBooks
  <1>3. ASSUME NEW w \in Worker, Tombstone(w) \/ OriginalNotApplied(w) \/ ReverseOriginal(w)
        PROVE  BooksInv'
    BY <1>0, <1>3, UndoCases, UndoBooks
  <1>4. ASSUME NEW w \in Worker,
               \/ RefuseBetOrWin(w) \/ RefuseRollback(w) \/ IntentViolation(w)
               \/ Crash(w) \/ DeadlockVictim(w)
        PROVE  BooksInv'
    BY <1>4, EndBooks
       DEF RefuseBetOrWin, RefuseRollback, IntentViolation, Crash, DeadlockVictim, Fail
  <1>5. ASSUME NEW w \in Worker, ProcessBetOrWin(w) \/ AlreadyRolledBack(w)
        PROVE  BooksInv'
    BY <1>0, <1>5, RecordBooks DEF Records
  <1>6. ASSUME NEW w \in Worker, NotRolledBack(w) PROVE BooksInv'
    BY <1>6, LooksEffect, QuietBooks
  <1>7. ASSUME NEW w \in Worker, Commit(w) \/ CommitUnheard(w) PROVE BooksInv'
    BY <1>0, <1>7, PersistBooks DEF Commit, CommitUnheard
  <1>8. ASSUME NEW w \in Worker, Step(w) PROVE BooksInv'
    BY <1>2, <1>3, <1>4, <1>5, <1>6, <1>7, <1>8, ClaimBooks, IntendBooks DEF Step, Undo
  <1>9. CASE Tick \/ (\E r \in Request : Reject(r)) \/ UNCHANGED vars
    <2>1. UNCHANGED <<db, own, pc, pos, job, at>>
      BY <1>9 DEF Tick, Reject, vars, session
    <2>2. \A v \in Worker : /\ Cur(v)' = Cur(v) /\ MyTx(v)' = MyTx(v) /\ Acct(v)' = Acct(v)
                            /\ Visible(v)' = Visible(v)
      BY <2>1, SameAction DEF Visible
    <2>3. \A v \in Worker : Posted(v)' = Posted(v)
      BY <2>1, <2>2 DEF Posted, Announced
    <2> QED BY <2>1, <2>2, <2>3 DEF BooksInv, BooksAt, SignedAt
  <1> QED BY <1>1, <1>4, <1>7, <1>8, <1>9 DEF Next

\* BooksInv holds in the initial state.
LEMMA InitBooks == Init => BooksInv
  <1> SUFFICES ASSUME Init PROVE BooksInv
    OBVIOUS
  <1>1. /\ db.actions = {} /\ db.outbox = {}
        /\ \A w \in Worker : /\ own[w].actions = {} /\ own[w].outbox = {} /\ pc[w] = "idle"
    BY EmptyRows DEF Init
  <1>2. \A w \in Worker : Posted(w) = {}
    BY <1>1 DEF Posted
  <1> QED BY <1>1, <1>2, BooksNothing DEF BooksInv, BooksAt, SignedAt

-----------------------------------------------------------------------------
(* The tx_id of a claim is its own. *)

\* No two claims of the registry have one tx_id.
TxApart == \A r, q \in db.registry : r.tx = q.tx => r = q

\* The commit keeps every tx_id apart: the delivery is in it, and the position.
LEMMA PersistTx ==
  ASSUME TypeOK, KeysInv, AnswersInv, TxApart, NEW w \in Worker, Persist(w)
  PROVE  TxApart'
  <1>1. pc[w] = "commit" /\ db'.registry = db.registry \cup own[w].registry
    BY PersistEffect
  <1>2. \A r \in own[w].registry : /\ r.tx[1] = job[w]
                                   /\ txs[w][r.tx[2]] = [id |-> r.id, tx |-> r.tx]
    BY <1>1 DEF AnswersInv, ListAt, Unlisted
  <1>3. \A r \in db.registry : ~Same(r.tx[1], job[w])
    BY <1>1 DEF AnswersInv, OpenAt
  <1>4. ASSUME NEW r \in own[w].registry, NEW q \in own[w].registry, r.tx = q.tx
        PROVE  r = q
    <2>1. [id |-> r.id, tx |-> r.tx] = [id |-> q.id, tx |-> q.tx]
      BY <1>2, <1>4
    <2>2. r.id = q.id
      BY <2>1
    <2> QED BY <2>2 DEF KeysInv, ClaimsExclusive
  <1>5. \A r \in own[w].registry : Same(r.tx[1], job[w])
    BY <1>2 DEF Same
  <1>6. \A r \in own[w].registry, q \in db.registry : r.tx # q.tx
    BY <1>3, <1>5
  <1> QED BY <1>1, <1>4, <1>6 DEF TxApart

\* The committed tables change by commits only.
LEMMA OnlyCommitsWrite ==
  ASSUME [Next]_vars
  PROVE  UNCHANGED db \/ \E w \in Worker : Persist(w)
  <1>1. ASSUME NEW w \in Worker, Step(w) PROVE UNCHANGED db \/ Persist(w)
    BY <1>1 DEF Step, LockAccount, Claim, ReplayDuplicate, ClaimFresh, ClaimBlocked,
         ClaimResumes, ClaimLost, ProcessBetOrWin, RefuseBetOrWin, Undo, AlreadyRolledBack,
         NotRolledBack, Tombstone, OriginalNotApplied, ReverseOriginal, InsertRollbackAction,
         RefuseRollback, IntentViolation, InsertRollbackIntent, Intend, Commit, Fail, tables
  <1> QED BY <1>1 DEF Next, Tick, Reject, Begin, Take, CommitUnheard, Crash, DeadlockVictim,
                      Fail, vars

\* Every step keeps it.
LEMMA StepTx == TypeOK /\ KeysInv /\ AnswersInv /\ TxApart /\ [Next]_vars => TxApart'
  <1> SUFFICES ASSUME TypeOK, KeysInv, AnswersInv, TxApart, [Next]_vars PROVE TxApart'
    OBVIOUS
  <1>1. ASSUME NEW w \in Worker, Persist(w) PROVE TxApart'
    BY <1>1, PersistTx
  <1>2. CASE UNCHANGED db
    BY <1>2 DEF TxApart
  <1> QED BY <1>1, <1>2, OnlyCommitsWrite

-----------------------------------------------------------------------------
(* What a set of ledger rows adds up to in the books. *)

\* What holds of the rows A of the ledger: ids, tx_ids and reversals are apart, and
\* what is reversed had been applied.
SoundRows(A) ==
  /\ UniqueIds(A)
  /\ \A r, q \in A : r.tx = q.tx => r = q
  /\ \A r, q \in A : IsReversal(r) /\ IsReversal(q) /\ r.orig = q.orig => r = q
  /\ \A r, a \in A : IsReversal(r) /\ a.id = r.orig => a.status = "applied"

\* A row that counts as taken back: before it came, or by a reversal.
Undone(A, r) == r.status = "noop_prerolled" \/ \E q \in A : IsReversal(q) /\ q.orig = r.id

\* What the rows A book about the row r, in its account and minute.
About(A, r) ==
  {e \in {Play(r)} : r.kind # "rollback"} \cup {e \in {CountOf(r)} : Resolves(r)}
    \cup {Removal(q, r) : q \in {p \in A : TakesBack(p, r)}}

\* A row counts as played, as taken back, as a rollback, or not at all.
LEMMA AboutCases ==
  ASSUME NEW A, SoundRows(A), NEW r \in A
  PROVE  \/ r.kind = "rollback" /\ ~Resolves(r) /\ About(A, r) = {}
         \/ r.kind = "rollback" /\ Resolves(r) /\ About(A, r) = {CountOf(r)}
         \/ /\ r.kind # "rollback" /\ (Undone(A, r) <=> r.status = "noop_prerolled")
            /\ About(A, r) = {Play(r)}
         \/ /\ r.kind # "rollback" /\ Undone(A, r) /\ r.status # "noop_prerolled"
            /\ \E q \in A : /\ TakesBack(q, r) /\ Play(r) # Removal(q, r)
                            /\ About(A, r) = {Play(r), Removal(q, r)}
  <1>1. CASE r.kind = "rollback"
    BY <1>1 DEF About, TakesBack
  <1>2. CASE r.kind # "rollback" /\ \A q \in A : ~TakesBack(q, r)
    BY <1>2 DEF About, TakesBack, Undone, Resolves
  <1>3. ASSUME r.kind # "rollback", NEW q \in A, TakesBack(q, r)
        PROVE  /\ Undone(A, r) /\ r.status # "noop_prerolled"
               /\ TakesBack(q, r) /\ Play(r) # Removal(q, r)
               /\ About(A, r) = {Play(r), Removal(q, r)}
    <2>1. \A p \in A : TakesBack(p, r) <=> p = q
      BY <1>3 DEF TakesBack, SoundRows
    <2>2. Play(r) # Removal(q, r)
      <3>1. r # q
        BY <1>3 DEF TakesBack, IsReversal
      <3>2. r.tx # q.tx
        BY <3>1 DEF SoundRows
      <3>3. Play(r).tx = r.tx /\ Removal(q, r).tx = q.tx
        BY DEF Play, Removal, Enqueued
      <3> QED BY <3>2, <3>3
    <2>3. {p \in A : TakesBack(p, r)} = {q}
      BY <2>1
    <2>4. About(A, r) = {Play(r), Removal(q, r)}
      BY <1>3, <2>3 DEF About, Resolves
    <2>5. r.status = "applied" /\ Undone(A, r)
      BY <1>3 DEF TakesBack, SoundRows, Undone
    <2> QED BY <1>3, <2>2, <2>4, <2>5
  <1> QED BY <1>1, <1>2, <1>3

\* Nothing is booked about two rows.
LEMMA AboutApart ==
  ASSUME NEW A, SoundRows(A), NEW r \in A, NEW s \in A, r # s
  PROVE  About(A, r) \cap About(A, s) = {}
  <1>1. ASSUME NEW a \in A, NEW b \in A, NEW e, a # b,
               \/ a.kind # "rollback" /\ e = Play(a)
               \/ Resolves(a) /\ e = CountOf(a),
               e \in About(A, b)
        PROVE  FALSE
    <2>1. e.tx = a.tx /\ a.tx # b.tx
      BY <1>1 DEF Play, CountOf, Enqueued, SoundRows
    <2>2. e # Play(b) /\ e # CountOf(b)
      BY <2>1 DEF Play, CountOf, Enqueued
    <2>3. PICK q \in A : TakesBack(q, b) /\ e = Removal(q, b)
      BY <1>1, <2>2 DEF About
    <2>4. q = a
      BY <2>1, <2>3 DEF Removal, Enqueued, SoundRows
    <2>5. e = CountOf(a)
      BY <1>1, <2>3, <2>4 DEF TakesBack, IsReversal
    <2>6. e.d.rollbacks = 1 /\ e.d.rollbacks = 0
      BY <2>3, <2>5 DEF CountOf, Removal, Enqueued, CountDelta, RemovedDelta
    <2> QED BY <2>6
  <1>2. ASSUME NEW q \in A, TakesBack(q, r), NEW p \in A, TakesBack(p, s),
               Removal(q, r) = Removal(p, s)
        PROVE  FALSE
    <2>1. q = p
      BY <1>2 DEF Removal, Enqueued, SoundRows
    <2> QED BY <1>2, <2>1 DEF TakesBack, SoundRows, UniqueIds
  <1>3. ASSUME NEW e, e \in About(A, r), e \in About(A, s)
        PROVE  FALSE
    <2>1. CASE (r.kind # "rollback" /\ e = Play(r)) \/ (Resolves(r) /\ e = CountOf(r))
      BY <1>1, <1>3, <2>1
    <2>2. CASE (s.kind # "rollback" /\ e = Play(s)) \/ (Resolves(s) /\ e = CountOf(s))
      BY <1>1, <1>3, <2>2
    <2> QED BY <1>2, <1>3, <2>1, <2>2 DEF About
  <1> QED BY <1>3

\* The rows of an account and a minute, of the ledger or of the outbox.
In(S, a, m) == {x \in S : x.acct = a /\ x.at = m}

\* What is booked in an account and a minute is booked about the rows of these.
LEMMA AboutAll ==
  ASSUME NEW A, NEW O, \A e : e \in O <=> Books(A, A, e), NEW a, NEW m
  PROVE  In(O, a, m) = UNION {About(A, r) : r \in In(A, a, m)}
  <1>1. \A q, x : /\ Play(x).acct = x.acct /\ Play(x).at = x.at
                  /\ CountOf(x).acct = x.acct /\ CountOf(x).at = x.at
                  /\ Removal(q, x).acct = x.acct /\ Removal(q, x).at = x.at
    BY DEF Play, CountOf, Removal, Enqueued
  <1>2. \A e : e \in O <=> \E r \in A : e \in About(A, r)
    BY DEF Books, About
  <1>3. \A r \in A : \A e \in About(A, r) : e.acct = r.acct /\ e.at = r.at
    BY <1>1 DEF About
  <1> QED BY <1>2, <1>3 DEF In

\* The sum of a column of some rows, and of a field of their deltas.
Column(k, S) == MapThenSumSet(LAMBDA r : r[k], S)
Field(k, S) == MapThenSumSet(LAMBDA o : o.d[k], S)

\* The sum of a column is that of the function that gives each row its cell.
LEMMA ColumnSums ==
  ASSUME NEW S, IsFiniteSet(S), NEW k
  PROVE  Column(k, S) = SumOf([r \in S |-> r[k]], S)
  <1> DEFINE F == [r \in S |-> r[k]]
             Is(g) == g = [s \in SUBSET S |->
                             IF s = {} THEN 0 ELSE FirstOf(s)[k] + g[s \ {FirstOf(s)}]]
  <1>1. Column(k, S) = (CHOOSE g : Is(g))[S]
    BY DEF Column, MapThenSumSet, MapThenFoldSet, FirstOf
  <1>2. \A g : Is(g) <=> IsSum(g, F, S)
    BY FirstIn DEF IsSum
  <1>3. PICK g : g = CHOOSE h : Is(h)
    OBVIOUS
  <1> HIDE DEF Is, F
  <1>4. IsSum(g, F, S)
    BY <1>2, <1>3, SumExists
  <1> QED BY <1>1, <1>3, <1>4, SumIs DEF F

\* So is the sum of a field.
LEMMA FieldSums ==
  ASSUME NEW S, IsFiniteSet(S), NEW k
  PROVE  Field(k, S) = SumOf([o \in S |-> o.d[k]], S)
  <1> DEFINE F == [o \in S |-> o.d[k]]
             Is(g) == g = [s \in SUBSET S |->
                             IF s = {} THEN 0 ELSE FirstOf(s).d[k] + g[s \ {FirstOf(s)}]]
  <1>1. Field(k, S) = (CHOOSE g : Is(g))[S]
    BY DEF Field, MapThenSumSet, MapThenFoldSet, FirstOf
  <1>2. \A g : Is(g) <=> IsSum(g, F, S)
    BY FirstIn DEF IsSum
  <1>3. PICK g : g = CHOOSE h : Is(h)
    OBVIOUS
  <1> HIDE DEF Is, F
  <1>4. IsSum(g, F, S)
    BY <1>2, <1>3, SumExists
  <1> QED BY <1>1, <1>3, <1>4, SumIs DEF F

\* The kinds of ledger rows, and the fields of a delta.
Kinds == {"bet", "win", "rollback"}
Fields == {"bet", "win", "rounds", "rollbacks", "rbBet", "rbWin"}

\* What one row contributes to a field: as played, as taken back, or as a rollback.
Share(A, r, k) ==
  IF r.kind = "rollback" THEN (IF Resolves(r) THEN CountDelta[k] ELSE 0)
  ELSE IF Undone(A, r) THEN RolledBackDelta(r.kind, r.amount)[k]
                       ELSE AppliedDelta(r.kind, r.amount)[k]

\* A removal turns a row that was played into one that was rolled back.
LEMMA RemovedIs ==
  ASSUME NEW kind, NEW amount \in Nat, NEW k \in Fields
  PROVE  /\ CountDelta[k] \in Int /\ RolledBackDelta(kind, amount)[k] \in Int
         /\ AppliedDelta(kind, amount)[k] \in Int
         /\ RemovedDelta(kind, amount)[k] =
              RolledBackDelta(kind, amount)[k] - AppliedDelta(kind, amount)[k]
  <1>1. PICK b \in Nat : b = OfBet(kind, amount)
    BY DEF OfBet
  <1>2. PICK w \in Nat : w = OfWin(kind, amount)
    BY DEF OfWin
  <1>3. PICK n \in Nat : n = OfBet(kind, 1)
    BY DEF OfBet
  <1>4. OfBet(kind, -amount) = -b /\ OfWin(kind, -amount) = -w /\ OfBet(kind, -1) = -n
    BY <1>1, <1>2, <1>3 DEF OfBet, OfWin
  <1>5. /\ AppliedDelta(kind, amount) =
             [bet |-> b, win |-> w, rounds |-> n, rollbacks |-> 0, rbBet |-> 0, rbWin |-> 0]
        /\ RolledBackDelta(kind, amount) =
             [bet |-> 0, win |-> 0, rounds |-> 0, rollbacks |-> 0, rbBet |-> b, rbWin |-> w]
        /\ RemovedDelta(kind, amount) =
             [bet |-> -b, win |-> -w, rounds |-> -n, rollbacks |-> 0, rbBet |-> b, rbWin |-> w]
    BY <1>1, <1>2, <1>3, <1>4 DEF AppliedDelta, RolledBackDelta, RemovedDelta
  <1> QED BY <1>5 DEF Fields, CountDelta

\* A field of what is booked about one row.
LEMMA ShareSum ==
  ASSUME NEW A, SoundRows(A), NEW r \in A, r.amount \in Nat, NEW k \in Fields,
         NEW O, \A e : e \in O <=> Books(A, A, e), NEW f, \A o \in O : f[o] = o.d[k]
  PROVE  /\ IsFiniteSet(About(A, r)) /\ \A e \in About(A, r) : f[e] \in Int
         /\ SumOf(f, About(A, r)) = Share(A, r, k)
  <1>1. /\ Play(r).d = IF r.status = "noop_prerolled" THEN RolledBackDelta(r.kind, r.amount)
                                                      ELSE AppliedDelta(r.kind, r.amount)
        /\ CountOf(r).d = CountDelta
        /\ \A q : Removal(q, r).d = RemovedDelta(r.kind, r.amount)
    BY DEF Play, CountOf, Removal, Enqueued
  <1>2. PICK kept, gone, count : /\ kept = AppliedDelta(r.kind, r.amount)[k]
                                 /\ gone = RolledBackDelta(r.kind, r.amount)[k]
                                 /\ count = CountDelta[k]
    OBVIOUS
  <1>3. kept \in Int /\ gone \in Int /\ count \in Int
    BY <1>2, RemovedIs
  <1>4. Share(A, r, k) = IF r.kind = "rollback" THEN (IF Resolves(r) THEN count ELSE 0)
                                                ELSE IF Undone(A, r) THEN gone ELSE kept
    BY <1>2 DEF Share
  <1>5. CASE r.kind = "rollback" /\ ~Resolves(r) /\ About(A, r) = {}
    BY <1>4, <1>5, SumEmpty, FS_EmptySet
  <1>6. CASE r.kind = "rollback" /\ Resolves(r) /\ About(A, r) = {CountOf(r)}
    <2>1. PICK x : x = CountOf(r)
      OBVIOUS
    <2>2. x \in O
      BY <1>6, <2>1 DEF Books
    <2>3. About(A, r) = {x} /\ f[x] = count /\ IsFiniteSet({x})
      BY <1>1, <1>2, <1>6, <2>1, <2>2, FS_Singleton
    <2>4. SumOf(f, {x}) = f[x]
      BY <1>3, <2>3, SumOne
    <2> QED BY <1>3, <1>4, <1>6, <2>3, <2>4
  <1>7. CASE /\ r.kind # "rollback" /\ (Undone(A, r) <=> r.status = "noop_prerolled")
             /\ About(A, r) = {Play(r)}
    <2>1. PICK x : x = Play(r)
      OBVIOUS
    <2>2. x \in O
      BY <1>7, <2>1 DEF Books
    <2>3. f[x] = Share(A, r, k)
      BY <1>1, <1>2, <1>4, <1>7, <2>1, <2>2
    <2>4. About(A, r) = {x} /\ Share(A, r, k) \in Int /\ IsFiniteSet({x})
      BY <1>3, <1>4, <1>7, <2>1, FS_Singleton
    <2>5. SumOf(f, {x}) = f[x]
      BY <2>3, <2>4, SumOne
    <2> QED BY <2>3, <2>4, <2>5
  <1>8. CASE /\ r.kind # "rollback" /\ Undone(A, r) /\ r.status # "noop_prerolled"
             /\ \E q \in A : /\ TakesBack(q, r) /\ Play(r) # Removal(q, r)
                             /\ About(A, r) = {Play(r), Removal(q, r)}
    <2>1. PICK q \in A : /\ TakesBack(q, r) /\ Play(r) # Removal(q, r)
                         /\ About(A, r) = {Play(r), Removal(q, r)}
      BY <1>8
    <2>2. PICK x, y : x = Play(r) /\ y = Removal(q, r)
      OBVIOUS
    <2>3. x \in O /\ y \in O
      BY <1>8, <2>1, <2>2 DEF Books
    <2>4. RemovedDelta(r.kind, r.amount)[k] = gone - kept
      BY <1>2, RemovedIs
    <2>5. f[x] = kept /\ f[y] = gone - kept
      BY <1>1, <1>2, <1>8, <2>2, <2>3, <2>4
    <2>6. About(A, r) = {x, y} /\ x # y /\ f[x] \in Int /\ f[y] \in Int
      BY <1>3, <2>1, <2>2, <2>5
    <2>7. SumOf(f, {x, y}) = f[x] + f[y]
      BY <2>6, SumTwo
    <2>8. IsFiniteSet({x, y})
      <3>1. IsFiniteSet({x}) /\ {x, y} = {x} \cup {y}
        BY FS_Singleton
      <3> QED BY <3>1, FS_AddElement
    <2>9. SumOf(f, {x, y}) = Share(A, r, k)
      BY <1>3, <1>4, <1>8, <2>5, <2>7
    <2> QED BY <2>6, <2>8, <2>9
  <1> QED BY <1>5, <1>6, <1>7, <1>8, AboutCases

\* A field of what is booked in an account and a minute is what the rows of these
\* contribute to it.
LEMMA FieldSum ==
  ASSUME NEW A, IsFiniteSet(A), SoundRows(A), \A r \in A : r.amount \in Nat,
         NEW O, \A e : e \in O <=> Books(A, A, e), NEW a, NEW m, NEW k \in Fields,
         NEW g, \A r \in In(A, a, m) : g[r] = Share(A, r, k)
  PROVE  Field(k, In(O, a, m)) = SumOf(g, In(A, a, m))
  <1>1. PICK T : T = In(A, a, m)
    OBVIOUS
  <1>2. T \subseteq A /\ IsFiniteSet(T)
    BY <1>1, FS_Subset DEF In
  <1>3. PICK of : of = [r \in T |-> About(A, r)]
    OBVIOUS
  <1>4. PICK f : f = [o \in O |-> o.d[k]]
    OBVIOUS
  <1>5. \A r \in T : /\ IsFiniteSet(of[r]) /\ g[r] = SumOf(f, of[r])
                     /\ \A e \in of[r] : f[e] \in Int
    <2> SUFFICES ASSUME NEW r \in T
                 PROVE  /\ IsFiniteSet(of[r]) /\ g[r] = SumOf(f, of[r])
                        /\ \A e \in of[r] : f[e] \in Int
      OBVIOUS
    <2>1. \A o \in O : f[o] = o.d[k]
      BY <1>4
    <2>2. /\ IsFiniteSet(About(A, r)) /\ \A e \in About(A, r) : f[e] \in Int
          /\ SumOf(f, About(A, r)) = Share(A, r, k)
      BY <1>2, <2>1, ShareSum
    <2> QED BY <1>1, <1>3, <2>2
  <1>6. \A r, q \in T : r # q => of[r] \cap of[q] = {}
    BY <1>2, <1>3, AboutApart
  <1>7. PICK R : R = In(O, a, m)
    OBVIOUS
  <1>8. R = UNION {of[r] : r \in T}
    <2>1. R = UNION {About(A, r) : r \in T}
      BY <1>1, <1>7, AboutAll
    <2>2. {About(A, r) : r \in T} = {of[r] : r \in T}
      BY <1>3
    <2> QED BY <2>1, <2>2
  <1>9. IsFiniteSet(R) /\ SumOf(f, R) = SumOf(g, T)
    <2>1. Fibers(R, T, of, f, g)
      BY <1>5, <1>6, <1>8 DEF Fibers
    <2> QED BY <1>2, <2>1, SumFibers
  <1>10. PICK h : h = [o \in R |-> o.d[k]]
    OBVIOUS
  <1>11. Field(k, R) = SumOf(h, R)
    BY <1>9, <1>10, FieldSums
  <1>12. \A o \in R : h[o] = f[o]
    BY <1>4, <1>7, <1>10 DEF In
  <1>13. Field(k, R) = SumOf(f, R)
    BY <1>9, <1>11, <1>12, SumSame
  <1> QED BY <1>1, <1>7, <1>9, <1>13

\* A ledger A of sound rows and the outbox O that its rows have written.
Bookkeeping(A, O) ==
  /\ IsFiniteSet(A) /\ SoundRows(A)
  /\ \A r \in A : r.amount \in Nat /\ r.kind \in Kinds
  /\ \A e : e \in O <=> Books(A, A, e)

\* A field to which each of some rows contributes its amount, and the others nothing.
LEMMA AmountField ==
  ASSUME NEW A, NEW O, Bookkeeping(A, O), NEW a, NEW m, NEW k \in Fields,
         NEW K, K \subseteq In(A, a, m),
         \A r \in In(A, a, m) : Share(A, r, k) = IF r \in K THEN r.amount ELSE 0
  PROVE  Field(k, In(O, a, m)) = Column("amount", K)
  <1>1. PICK T : T = In(A, a, m)
    OBVIOUS
  <1>2. PICK g : g = [r \in T |-> Share(A, r, k)]
    OBVIOUS
  <1>3. PICK f : f = [r \in K |-> r["amount"]]
    OBVIOUS
  <1>4. T \subseteq A /\ IsFiniteSet(T) /\ K \subseteq T /\ IsFiniteSet(K)
    BY <1>1, FS_Subset DEF In, Bookkeeping
  <1>5. Field(k, In(O, a, m)) = SumOf(g, T)
    <2>1. \A r \in In(A, a, m) : g[r] = Share(A, r, k)
      BY <1>1, <1>2
    <2> QED BY <1>1, <2>1, FieldSum DEF Bookkeeping
  <1>6. \A r \in T : g[r] = IF r \in K THEN f[r] ELSE 0
    BY <1>1, <1>2, <1>3
  <1>7. \A r \in K : f[r] \in Int
    BY <1>3, <1>4 DEF Bookkeeping
  <1>8. SumOf(g, T) = SumOf(f, K)
    BY <1>4, <1>6, <1>7, SumWhere
  <1>9. Column("amount", K) = SumOf(f, K)
    BY <1>3, <1>4, ColumnSums
  <1> QED BY <1>5, <1>8, <1>9

\* A field that counts rows.
LEMMA CountField ==
  ASSUME NEW A, NEW O, Bookkeeping(A, O), NEW a, NEW m, NEW k \in Fields,
         NEW K, K \subseteq In(A, a, m),
         \A r \in In(A, a, m) : Share(A, r, k) = IF r \in K THEN 1 ELSE 0
  PROVE  Field(k, In(O, a, m)) = Cardinality(K)
  <1>1. PICK T : T = In(A, a, m)
    OBVIOUS
  <1>2. PICK g : g = [r \in T |-> Share(A, r, k)]
    OBVIOUS
  <1>3. PICK f : f = [r \in K |-> 1]
    OBVIOUS
  <1>4. T \subseteq A /\ IsFiniteSet(T) /\ K \subseteq T /\ IsFiniteSet(K)
    BY <1>1, FS_Subset DEF In, Bookkeeping
  <1>5. Field(k, In(O, a, m)) = SumOf(g, T)
    <2>1. \A r \in In(A, a, m) : g[r] = Share(A, r, k)
      BY <1>1, <1>2
    <2> QED BY <1>1, <2>1, FieldSum DEF Bookkeeping
  <1>6. (\A r \in T : g[r] = IF r \in K THEN f[r] ELSE 0) /\ \A r \in K : f[r] = 1
    BY <1>1, <1>2, <1>3
  <1>7. \A r \in K : f[r] \in Int
    BY <1>6
  <1>8. SumOf(g, T) = SumOf(f, K)
    BY <1>4, <1>6, <1>7, SumWhere
  <1>9. SumOf(f, K) = Cardinality(K)
    BY <1>4, <1>6, SumOnes
  <1> QED BY <1>5, <1>8, <1>9

\* The rows of a kind that count as played, and as taken back.
Kept(A, T, kind) == {r \in T : r.kind = kind /\ ~Undone(A, r)}
Gone(A, T, kind) == {r \in T : r.kind = kind /\ Undone(A, r)}

\* The books of an account and a minute are what its ledger says.
LEMMA BooksAddUp ==
  ASSUME NEW A, NEW O, Bookkeeping(A, O), NEW a, NEW m, NEW T, T = In(A, a, m),
         NEW R, R = In(O, a, m)
  PROVE  /\ Field("bet", R) = Column("amount", Kept(A, T, "bet"))
         /\ Field("win", R) = Column("amount", Kept(A, T, "win"))
         /\ Field("rounds", R) = Cardinality(Kept(A, T, "bet"))
         /\ Field("rollbacks", R) = Cardinality({r \in T : Resolves(r)})
         /\ Field("rbBet", R) = Column("amount", Gone(A, T, "bet"))
         /\ Field("rbWin", R) = Column("amount", Gone(A, T, "win"))
  <1>1. \A r \in T : r.amount \in Nat /\ r.kind \in Kinds
    BY DEF In, Bookkeeping
  <1>2. \A r \in T : Resolves(r) => r.kind = "rollback"
    BY DEF Resolves
  <1>3. Field("bet", R) = Column("amount", Kept(A, T, "bet"))
    <2>1. \A r \in T : Share(A, r, "bet") = IF r \in Kept(A, T, "bet") THEN r.amount ELSE 0
      BY <1>1 DEF Share, Kept, Kinds, CountDelta, RolledBackDelta, AppliedDelta, OfBet, OfWin
    <2>2. "bet" \in Fields /\ Kept(A, T, "bet") \subseteq T
      BY DEF Fields, Kept
    <2> QED BY <2>1, <2>2, AmountField
  <1>4. Field("win", R) = Column("amount", Kept(A, T, "win"))
    <2>1. \A r \in T : Share(A, r, "win") = IF r \in Kept(A, T, "win") THEN r.amount ELSE 0
      BY <1>1 DEF Share, Kept, Kinds, CountDelta, RolledBackDelta, AppliedDelta, OfBet, OfWin
    <2>2. "win" \in Fields /\ Kept(A, T, "win") \subseteq T
      BY DEF Fields, Kept
    <2> QED BY <2>1, <2>2, AmountField
  <1>5. Field("rounds", R) = Cardinality(Kept(A, T, "bet"))
    <2>1. \A r \in T : Share(A, r, "rounds") = IF r \in Kept(A, T, "bet") THEN 1 ELSE 0
      BY <1>1 DEF Share, Kept, Kinds, CountDelta, RolledBackDelta, AppliedDelta, OfBet, OfWin
    <2>2. "rounds" \in Fields /\ Kept(A, T, "bet") \subseteq T
      BY DEF Fields, Kept
    <2> QED BY <2>1, <2>2, CountField
  <1>6. Field("rollbacks", R) = Cardinality({r \in T : Resolves(r)})
    <2>1. PICK K : K = {r \in T : Resolves(r)}
      OBVIOUS
    <2>2. \A r \in T : Share(A, r, "rollbacks") = IF r \in K THEN 1 ELSE 0
      BY <1>1, <1>2, <2>1 DEF Share, CountDelta, RolledBackDelta, AppliedDelta
    <2>3. "rollbacks" \in Fields /\ K \subseteq T
      BY <2>1 DEF Fields
    <2> QED BY <2>1, <2>2, <2>3, CountField
  <1>7. Field("rbBet", R) = Column("amount", Gone(A, T, "bet"))
    <2>1. \A r \in T : Share(A, r, "rbBet") = IF r \in Gone(A, T, "bet") THEN r.amount ELSE 0
      BY <1>1 DEF Share, Gone, Kinds, CountDelta, RolledBackDelta, AppliedDelta, OfBet, OfWin
    <2>2. "rbBet" \in Fields /\ Gone(A, T, "bet") \subseteq T
      BY DEF Fields, Gone
    <2> QED BY <2>1, <2>2, AmountField
  <1>8. Field("rbWin", R) = Column("amount", Gone(A, T, "win"))
    <2>1. \A r \in T : Share(A, r, "rbWin") = IF r \in Gone(A, T, "win") THEN r.amount ELSE 0
      BY <1>1 DEF Share, Gone, Kinds, CountDelta, RolledBackDelta, AppliedDelta, OfBet, OfWin
    <2>2. "rbWin" \in Fields /\ Gone(A, T, "win") \subseteq T
      BY DEF Fields, Gone
    <2> QED BY <2>1, <2>2, AmountField
  <1> QED BY <1>3, <1>4, <1>5, <1>6, <1>7, <1>8

\* The committed ledger and outbox are such a pair.
LEMMA DbBookkeeping ==
  ASSUME TypeOK, KeysInv, RowsInv, RollbacksInv, MoneyInv, BooksInv, TxApart
  PROVE  Bookkeeping(db.actions, db.outbox)
  <1>1. UniqueIds(db.actions)
    BY VisibleIds
  <1>2. \A r, q \in db.actions : r.tx = q.tx => r = q
    <2>1. \A r \in db.actions : \E p \in db.registry : p.id = r.id /\ p.tx = r.tx
      <3>1. \A r \in db.actions : Proj(r) \in db.registry
        BY DEF RowsInv, LedgerMatchesRegistry, Proj
      <3>2. \A r : Proj(r).id = r.id /\ Proj(r).tx = r.tx
        BY DEF Proj
      <3> QED BY <3>1, <3>2
    <2> QED BY <1>1, <2>1 DEF TxApart, UniqueIds
  <1>3. \A r, q \in db.actions : IsReversal(r) /\ IsReversal(q) /\ r.orig = q.orig => r = q
    <2>1. ASSUME NEW r \in db.actions, NEW q \in db.actions, IsReversal(r), IsReversal(q),
                 r.orig = q.orig
          PROVE  r = q
      <3>1. PICK i \in db.intents : i = [orig |-> r.orig, by |-> r.id]
        BY <2>1 DEF KeysInv, ReversalsBacked
      <3>2. PICK j \in db.intents : j = [orig |-> q.orig, by |-> q.id]
        BY <2>1 DEF KeysInv, ReversalsBacked
      <3>3. i = j
        BY <2>1, <3>1, <3>2 DEF KeysInv, IntentsExclusive
      <3>4. r.id = q.id
        BY <3>1, <3>2, <3>3
      <3> QED BY <1>1, <3>4 DEF UniqueIds
    <2> QED BY <2>1
  <1>4. \A r, a \in db.actions : IsReversal(r) /\ a.id = r.orig => a.status = "applied"
    <2>1. ASSUME NEW r \in db.actions, NEW a \in db.actions, IsReversal(r), a.id = r.orig
          PROVE  a.status = "applied"
      <3>1. PICK b \in db.actions : b.id = r.orig /\ Reversible(b)
        BY <2>1 DEF RollbacksInv, RollbacksIn, Grounded, IsReversal, Resolves
      <3>2. a = b
        BY <1>1, <2>1, <3>1 DEF UniqueIds
      <3> QED BY <3>1, <3>2 DEF Reversible
    <2> QED BY <2>1
  <1>5. \A r \in db.actions : r.amount \in Nat /\ r.kind \in Kinds
    BY DEF TypeOK, Tables, ActionRow, Kinds
  <1>6. \A e : e \in db.outbox <=> Books(db.actions, db.actions, e)
    BY DEF BooksInv
  <1> QED BY <1>1, <1>2, <1>3, <1>4, <1>5, <1>6 DEF Bookkeeping, SoundRows, MoneyInv

\* What the report adds up and what the ledger says of it, in these terms.
LEMMA BookedIs ==
  ASSUME NEW a, NEW m
  PROVE  Booked(a, m) = [bet |-> Field("bet", In(db.outbox, a, m)),
                         win |-> Field("win", In(db.outbox, a, m)),
                         rounds |-> Field("rounds", In(db.outbox, a, m)),
                         rollbacks |-> Field("rollbacks", In(db.outbox, a, m)),
                         rbBet |-> Field("rbBet", In(db.outbox, a, m)),
                         rbWin |-> Field("rbWin", In(db.outbox, a, m))]
  BY DEF Booked, Field, In

\* The report recomputed from the ledger, in the same terms.
LEMMA CountedIs ==
  ASSUME NEW a, NEW m, NEW T, T = In(db.actions, a, m)
  PROVE  Counted(a, m) = [bet |-> Column("amount", Kept(db.actions, T, "bet")),
                          win |-> Column("amount", Kept(db.actions, T, "win")),
                          rounds |-> Cardinality(Kept(db.actions, T, "bet")),
                          rollbacks |-> Cardinality({r \in T : Resolves(r)}),
                          rbBet |-> Column("amount", Gone(db.actions, T, "bet")),
                          rbWin |-> Column("amount", Gone(db.actions, T, "win"))]
  <1>1. \A r : (\E q \in AppliedRollbacks : q.orig = r.id) <=>
               \E q \in db.actions : IsReversal(q) /\ q.orig = r.id
    BY DEF AppliedRollbacks, IsReversal
  <1>2. \A kind : /\ Kept(db.actions, T, kind) =
                       {r \in T : /\ r.kind = kind
                                  /\ ~(\/ r.status = "noop_prerolled"
                                       \/ \E q \in AppliedRollbacks : q.orig = r.id)}
                  /\ Gone(db.actions, T, kind) =
                       {r \in T : /\ r.kind = kind
                                  /\ (\/ r.status = "noop_prerolled"
                                      \/ \E q \in AppliedRollbacks : q.orig = r.id)}
    BY <1>1 DEF Kept, Gone, Undone
  <1>3. {r \in T : Resolves(r)} =
        {r \in T : r.kind = "rollback" /\ r.status # "noop_already_rolled_back"}
    BY DEF Resolves
  <1> QED BY <1>2, <1>3 DEF Counted, Column, In

\* The report of every account and minute is what the ledger says.
LEMMA ReportIsLedger ==
  ASSUME TypeOK, KeysInv, RowsInv, RollbacksInv, MoneyInv, BooksInv, TxApart
  PROVE  OutboxMatchesLedger
  <1> SUFFICES ASSUME NEW a \in Account, NEW m \in Minute PROVE Booked(a, m) = Counted(a, m)
    BY DEF OutboxMatchesLedger
  <1>1. PICK T, R : T = In(db.actions, a, m) /\ R = In(db.outbox, a, m)
    OBVIOUS
  <1>2. Bookkeeping(db.actions, db.outbox)
    BY DbBookkeeping
  <1>3. PICK A, O : A = db.actions /\ O = db.outbox
    OBVIOUS
  <1>4. Bookkeeping(A, O) /\ T = In(A, a, m) /\ R = In(O, a, m)
    BY <1>1, <1>2, <1>3
  <1>5. /\ Field("bet", R) = Column("amount", Kept(A, T, "bet"))
        /\ Field("win", R) = Column("amount", Kept(A, T, "win"))
        /\ Field("rounds", R) = Cardinality(Kept(A, T, "bet"))
        /\ Field("rollbacks", R) = Cardinality({r \in T : Resolves(r)})
        /\ Field("rbBet", R) = Column("amount", Gone(A, T, "bet"))
        /\ Field("rbWin", R) = Column("amount", Gone(A, T, "win"))
    BY <1>4, BooksAddUp
  <1> QED BY <1>1, <1>3, <1>5, BookedIs, CountedIs

\* What every step keeps, and the report rests on.
BooksKept ==
  TypeOK /\ KeysInv /\ RowsInv /\ RollbacksInv /\ MoneyInv /\ AnswersInv /\ BooksInv /\ TxApart

\* It holds in the initial state.
LEMMA InitBooksKept == Init => BooksKept
  BY InitType, InitKeys, InitRows, InitRollbacks, InitMoney, InitAnswers, InitBooks,
     EmptyRows DEF BooksKept, TxApart, Init

\* Every step keeps it.
LEMMA StepBooksKept == BooksKept /\ [Next]_vars => BooksKept'
  BY StepType, StepKeys, StepRows, StepRollbacks, StepMoney, StepAnswers, StepBooks, StepTx
     DEF BooksKept

\* In every reachable state the outbox adds up, for every account and minute and in
\* each of its fields, to what the committed ledger says: every bet and win is booked
\* once and in its own minute, what a rollback takes back leaves the minute of its
\* original (enqueueRtpDelta, processor.ts), a pre-rolled action is booked as rolled
\* back, and no refused or crashed transaction leaves a delta behind.
THEOREM ReportsMatchLedger == Spec => []OutboxMatchesLedger
  <1>1. BooksKept => OutboxMatchesLedger
    BY ReportIsLedger DEF BooksKept
  <1> QED BY InitBooksKept, StepBooksKept, <1>1, PTL DEF Spec

-----------------------------------------------------------------------------
(* What each kind of row moves, and whose it is.                             *)

\* A bet and a win move their amount, unless they were skipped; a rollback that
\* reverses nothing moves nothing.
Priced(r) ==
  /\ r.kind # "rollback" => \/ r.status = "noop_prerolled" /\ r.delta = 0
                            \/ r.status = "applied" /\ r.delta = AppliedDelta(r.kind, r.amount).win
                                                               - AppliedDelta(r.kind, r.amount).bet
  /\ r.kind = "rollback" /\ r.status # "applied" => r.delta = 0

\* So is every row, committed or of an open transaction.
PricedInv ==
  /\ \A r \in db.actions : Priced(r)
  /\ \A w \in Worker : \A r \in own[w].actions : Priced(r)

\* Each committed row is of a request: of its account, and of ids it names.
OfRequest(r) ==
  \E q \in Request : /\ r.acct = Body[q].acct /\ r.id \in Ids(q)
                     /\ r.orig # NoId => r.orig \in Ids(q)

SourcedInv == \A r \in db.actions : OfRequest(r)

\* A row that is written is priced.
LEMMA RecordPriced ==
  ASSUME TypeOK, NEW w \in Worker, NEW row, Records(w, row)
  PROVE  Priced(row)
  <1>1. CASE ProcessBetOrWin(w) /\ row = Row(w, BetOrWinDelta(w),
                                            IF Noop(w) THEN "noop_prerolled" ELSE "applied")
    <2>1. pc[w] = "work" /\ Cur(w).kind # "rollback"
      BY <1>1 DEF ProcessBetOrWin
    <2>2. Cur(w).kind \in {"bet", "win", "rollback"} /\ Cur(w).amount \in Nat
      BY <2>1, CurType DEF AtAction
    <2>3. /\ row.kind = Cur(w).kind /\ row.amount = Cur(w).amount
          /\ row.delta = BetOrWinDelta(w)
          /\ row.status = IF Noop(w) THEN "noop_prerolled" ELSE "applied"
      BY <1>1 DEF Row
    <2>4. CASE Noop(w)
      BY <2>1, <2>3, <2>4 DEF BetOrWinDelta, Priced
    <2>5. CASE ~Noop(w) /\ Cur(w).kind = "bet"
      <3>1. row.status = "applied" /\ row.delta = -row.amount
        BY <2>3, <2>5 DEF BetOrWinDelta
      <3>2. /\ AppliedDelta(row.kind, row.amount).win = 0
            /\ AppliedDelta(row.kind, row.amount).bet = row.amount
        BY <2>3, <2>5 DEF AppliedDelta, OfBet, OfWin
      <3> QED BY <2>2, <2>3, <2>5, <3>1, <3>2 DEF Priced
    <2>6. CASE ~Noop(w) /\ Cur(w).kind = "win"
      <3>1. row.status = "applied" /\ row.delta = row.amount
        BY <2>3, <2>6 DEF BetOrWinDelta
      <3>2. /\ AppliedDelta(row.kind, row.amount).win = row.amount
            /\ AppliedDelta(row.kind, row.amount).bet = 0
        BY <2>3, <2>6 DEF AppliedDelta, OfBet, OfWin
      <3> QED BY <2>2, <2>3, <2>6, <3>1, <3>2 DEF Priced
    <2> QED BY <2>1, <2>2, <2>4, <2>5, <2>6
  <1>2. CASE AlreadyRolledBack(w) /\ row = Row(w, 0, "noop_already_rolled_back")
    <2>1. row.kind = "rollback" /\ row.delta = 0
      BY <1>2 DEF Row, AlreadyRolledBack
    <2> QED BY <2>1 DEF Priced
  <1> QED BY <1>1, <1>2 DEF Records

\* So is that of a rollback that found no intent.
LEMMA UndoPriced ==
  ASSUME TypeOK, NEW w \in Worker, NEW delta, NEW status, Undoes(w, delta, status)
  PROVE  Priced(Row(w, delta, status))
  <1>1. PICK row : row = Row(w, delta, status)
    OBVIOUS
  <1>2. row.kind = Cur(w).kind /\ row.delta = delta /\ row.status = status
    BY <1>1 DEF Row
  <1>3. Cur(w).kind = "rollback" /\ (status # "applied" => delta = 0)
    BY DEF Undoes, TypeOK
  <1> QED BY <1>1, <1>2, <1>3 DEF Priced

\* A step that leaves the committed rows, and writes none that is not priced.
LEMMA SessionPriced ==
  ASSUME PricedInv, NEW w \in Worker, Alone(w), UNCHANGED db,
         \A r \in own'[w].actions : r \in own[w].actions \/ Priced(r)
  PROVE  PricedInv'
  BY DEF PricedInv, Alone, Priced

\* Every step keeps PricedInv.
LEMMA StepPriced == TypeOK /\ PricedInv /\ [Next]_vars => PricedInv'
  <1> SUFFICES ASSUME TypeOK, PricedInv, [Next]_vars PROVE PricedInv'
    OBVIOUS
  <1>1. ASSUME NEW w \in Worker, NEW r \in Request, Begin(w, r) PROVE PricedInv'
    BY <1>1, TakeEffect, SessionPriced DEF Begin
  <1>2. ASSUME NEW w \in Worker, LockAccount(w) PROVE PricedInv'
    BY <1>2, LockEffect, SessionPriced
  <1>3. ASSUME NEW w \in Worker, Tombstone(w) \/ OriginalNotApplied(w) \/ ReverseOriginal(w)
        PROVE  PricedInv'
    <2>1. PICK delta, status : Undoes(w, delta, status)
      BY <1>3, UndoCases
    <2>2. PICK row : row = Row(w, delta, status)
      OBVIOUS
    <2>3. Alone(w) /\ UNCHANGED db /\ own'[w].actions = own[w].actions \cup {row}
      BY <2>1, <2>2, UndoEffect DEF Undoes
    <2> QED BY <2>1, <2>2, <2>3, UndoPriced, SessionPriced
  <1>4. ASSUME NEW w \in Worker,
               \/ RefuseBetOrWin(w) \/ RefuseRollback(w) \/ IntentViolation(w)
               \/ Crash(w) \/ DeadlockVictim(w) \/ ClaimLost(w)
        PROVE  PricedInv'
    <2>1. EndTx(w) /\ UNCHANGED db
      BY <1>4 DEF RefuseBetOrWin, RefuseRollback, IntentViolation, Crash,
                  DeadlockVictim, ClaimLost, Fail, tables
    <2> QED BY <2>1, EndEffect, EmptyRows, SessionPriced
  <1>5. ASSUME NEW w \in Worker, ProcessBetOrWin(w) \/ AlreadyRolledBack(w)
        PROVE  PricedInv'
    <2>1. PICK row : Records(w, row)
      BY <1>5 DEF Records
    <2>2. Alone(w) /\ UNCHANGED db /\ own'[w].actions = own[w].actions \cup {row}
      BY <2>1, RecordEffect
    <2> QED BY <2>1, <2>2, RecordPriced, SessionPriced
  <1>6. ASSUME NEW w \in Worker, NotRolledBack(w) PROVE PricedInv'
    BY <1>6, LooksEffect, SessionPriced
  <1>7. ASSUME NEW w \in Worker, Commit(w) \/ CommitUnheard(w) PROVE PricedInv'
    <2>1. /\ Alone(w) /\ own'[w] = Empty
          /\ db'.actions = db.actions \cup own[w].actions
      BY <1>7, PersistEffect DEF Commit, CommitUnheard
    <2> QED BY <2>1, EmptyRows DEF PricedInv, Alone, Priced
  <1>8. ASSUME NEW w \in Worker, InsertRollbackIntent(w) PROVE PricedInv'
    BY <1>8, IntendEffect, SessionPriced DEF InsertRollbackIntent
  <1>9. ASSUME NEW w \in Worker, Claim(w) PROVE PricedInv'
    <2>1. CASE ReplayDuplicate(w)
      BY <2>1, ReplayEffect, SessionPriced
    <2>2. CASE ClaimBlocked(w)
      BY <2>2, BlockedEffect, SessionPriced
    <2>3. CASE ClaimFresh(w) \/ ClaimResumes(w)
      BY <2>3, RegisterEffect, SessionPriced
    <2> QED BY <1>4, <1>9, <2>1, <2>2, <2>3 DEF Claim
  <1>10. ASSUME NEW w \in Worker, Step(w) PROVE PricedInv'
    BY <1>2, <1>3, <1>4, <1>5, <1>6, <1>7, <1>8, <1>9, <1>10 DEF Step, Undo
  <1>11. CASE Tick \/ (\E r \in Request : Reject(r)) \/ UNCHANGED vars
    <2>1. UNCHANGED <<db, own>>
      BY <1>11 DEF Tick, Reject, vars, session
    <2> QED BY <2>1 DEF PricedInv, Priced
  <1> QED BY <1>1, <1>4, <1>7, <1>10, <1>11 DEF Next

\* PricedInv holds in the initial state.
LEMMA InitPriced == Init => PricedInv
  BY EmptyRows DEF Init, PricedInv

\* Every step keeps SourcedInv: a commit brings rows of its request.
LEMMA StepSourced ==
  TypeOK /\ MoneyInv /\ HomeInv /\ SourcedInv /\ [Next]_vars => SourcedInv'
  <1> SUFFICES ASSUME TypeOK, MoneyInv, HomeInv, SourcedInv, [Next]_vars PROVE SourcedInv'
    OBVIOUS
  <1>1. ASSUME NEW w \in Worker, Persist(w) PROVE SourcedInv'
    <2>1. pc[w] = "commit" /\ db'.actions = db.actions \cup own[w].actions
      BY <1>1, PersistEffect
    <2>2. job[w].req \in Request
      BY <2>1 DEF TypeOK, Delivery
    <2>3. \A a \in own[w].actions : /\ a.acct = Body[job[w].req].acct /\ a.id \in Ids(job[w].req)
                                    /\ a.orig # NoId => a.orig \in Ids(job[w].req)
      BY DEF MoneyInv, MoneyAt, HomeInv, HomeAt, Acct
    <2> QED BY <2>1, <2>2, <2>3 DEF SourcedInv, OfRequest
  <1>2. CASE UNCHANGED db
    BY <1>2 DEF SourcedInv, OfRequest
  <1> QED BY <1>1, <1>2, OnlyCommitsWrite

-----------------------------------------------------------------------------
(* What the report says an account won, beside what its balance moved.       *)

\* A ledger A with its outbox O, whose rows are priced and reverse rows of their own
\* account by what these moved.
Settled(A, O) ==
  /\ Bookkeeping(A, O)
  /\ \A r \in A : Priced(r) /\ r.delta \in Int /\ r.at \in Minute
  /\ \A r \in A : IsReversal(r) =>
       \E q \in A : q.id = r.orig /\ q.acct = r.acct /\ r.delta = -q.delta

\* The rows of an account.
Of(A, a) == {r \in A : r.acct = a}

\* The account's reversals of rollbacks.
Again(A, a) ==
  {r \in Of(A, a) : IsReversal(r) /\ \E q \in A : q.id = r.orig /\ q.kind = "rollback"}

\* What the report counts of a row for the account, and the rows that moved as much:
\* the row and the reversal that took it back.
Net(A, r) == Share(A, r, "win") - Share(A, r, "bet")
Paid(A, r) == IF IsReversal(r) THEN {} ELSE {r} \cup {q \in A : TakesBack(q, r)}

\* The original of a reversal is the only row of its id.
LEMMA TakenBack ==
  ASSUME NEW A, NEW O, Settled(A, O), NEW q \in A, NEW r \in A, IsReversal(q), r.id = q.orig
  PROVE  r.acct = q.acct /\ q.delta = -r.delta
  BY DEF Settled, Bookkeeping, SoundRows, UniqueIds

\* Both sides of a row are whole numbers.
LEMMA ShareInt ==
  ASSUME NEW A, NEW r, r.amount \in Nat, NEW k \in Fields
  PROVE  Share(A, r, k) \in Int
  BY RemovedIs DEF Share

\* What the rows paid for one row moved is what the report counts of it.
LEMMA PaidNet ==
  ASSUME NEW A, NEW O, Settled(A, O), NEW r \in A, NEW f, \A q \in A : f[q] = q.delta
  PROVE  IsFiniteSet(Paid(A, r)) /\ SumOf(f, Paid(A, r)) = Net(A, r)
  <1>0. r.amount \in Nat /\ r.delta \in Int /\ f[r] = r.delta /\ Priced(r) /\ SoundRows(A)
    BY DEF Settled, Bookkeeping
  <1>1. CASE r.kind = "rollback"
    <2>1. Share(A, r, "win") = 0 /\ Share(A, r, "bet") = 0
      BY <1>1 DEF Share, CountDelta
    <2>2. Net(A, r) = 0
      BY <2>1 DEF Net
    <2>3. CASE IsReversal(r)
      BY <2>2, <2>3, SumEmpty, FS_EmptySet DEF Paid
    <2>4. CASE ~IsReversal(r)
      <3>1. Paid(A, r) = {r} /\ r.delta = 0
        BY <1>0, <1>1, <2>4 DEF Paid, TakesBack, IsReversal, Priced
      <3>2. SumOf(f, {r}) = f[r]
        BY <1>0, SumOne
      <3> QED BY <1>0, <2>2, <3>1, <3>2, FS_Singleton
    <2> QED BY <2>3, <2>4
  <1>2. CASE r.kind # "rollback" /\ \A q \in A : ~TakesBack(q, r)
    <2>1. Paid(A, r) = {r}
      BY <1>2 DEF Paid, IsReversal
    <2>2. Undone(A, r) <=> r.status = "noop_prerolled"
      BY <1>2 DEF Undone, TakesBack
    <2>3. r.delta = Net(A, r)
      <3>1. CASE r.status = "noop_prerolled" /\ r.delta = 0
        <4>1. Share(A, r, "win") = 0 /\ Share(A, r, "bet") = 0
          BY <1>2, <2>2, <3>1 DEF Share, RolledBackDelta
        <4> QED BY <3>1, <4>1 DEF Net
      <3>2. CASE /\ r.status = "applied"
                 /\ r.delta = AppliedDelta(r.kind, r.amount).win
                                - AppliedDelta(r.kind, r.amount).bet
        BY <1>2, <2>2, <3>2 DEF Net, Share
      <3> QED BY <1>0, <1>2, <3>1, <3>2 DEF Priced
    <2>4. SumOf(f, {r}) = f[r]
      BY <1>0, SumOne
    <2> QED BY <1>0, <2>1, <2>3, <2>4, FS_Singleton
  <1>3. ASSUME r.kind # "rollback", NEW q \in A, TakesBack(q, r)
        PROVE  IsFiniteSet(Paid(A, r)) /\ SumOf(f, Paid(A, r)) = Net(A, r)
    <2>1. \A p \in A : TakesBack(p, r) <=> p = q
      BY <1>0, <1>3 DEF TakesBack, SoundRows
    <2>2. Paid(A, r) = {r, q} /\ r # q
      BY <1>3, <2>1 DEF Paid, TakesBack, IsReversal
    <2>3. Undone(A, r)
      BY <1>3 DEF Undone, TakesBack
    <2>4. Share(A, r, "win") = 0 /\ Share(A, r, "bet") = 0
      BY <1>3, <2>3 DEF Share, RolledBackDelta
    <2>5. q.delta = -r.delta /\ f[q] = q.delta
      BY <1>3, TakenBack DEF TakesBack
    <2>6. SumOf(f, {r, q}) = f[r] + f[q]
      <3>1. f[r] \in Int /\ f[q] \in Int
        BY <1>0, <2>5
      <3> QED BY <2>2, <3>1, SumTwo
    <2>7. SumOf(f, {r, q}) = 0 /\ Net(A, r) = 0
      BY <1>0, <2>4, <2>5, <2>6 DEF Net
    <2>8. IsFiniteSet({r, q})
      <3>1. IsFiniteSet({r}) /\ {r, q} = {r} \cup {q}
        BY FS_Singleton
      <3> QED BY <3>1, FS_AddElement
    <2> QED BY <2>2, <2>7, <2>8
  <1> QED BY <1>1, <1>2, <1>3

\* No row is paid for two.
LEMMA PaidApart ==
  ASSUME NEW A, SoundRows(A), NEW r \in A, NEW s \in A, r # s
  PROVE  Paid(A, r) \cap Paid(A, s) = {}
  <1>1. ASSUME NEW x \in Paid(A, r), x \in Paid(A, s)
        PROVE  FALSE
    <2>1. (x = r /\ ~IsReversal(r)) \/ (TakesBack(x, r) /\ IsReversal(x))
      BY <1>1 DEF Paid, TakesBack
    <2>2. (x = s /\ ~IsReversal(s)) \/ (TakesBack(x, s) /\ IsReversal(x))
      BY <1>1 DEF Paid, TakesBack
    <2>3. TakesBack(x, r) /\ TakesBack(x, s)
      BY <2>1, <2>2
    <2> QED BY <2>3 DEF TakesBack, SoundRows, UniqueIds
  <1> QED BY <1>1

\* An account's rows but its reversals of rollbacks are those paid for its rows.
LEMMA PaidAll ==
  ASSUME NEW A, NEW O, Settled(A, O), NEW a
  PROVE  Of(A, a) \ Again(A, a) = UNION {Paid(A, r) : r \in Of(A, a)}
  <1>0. UniqueIds(A)
    BY DEF Settled, Bookkeeping, SoundRows
  <1>1. ASSUME NEW x \in Of(A, a) \ Again(A, a)
        PROVE  \E r \in Of(A, a) : x \in Paid(A, r)
    <2>1. CASE ~IsReversal(x)
      BY <2>1 DEF Paid
    <2>2. CASE IsReversal(x)
      <3>1. PICK q \in A : q.id = x.orig /\ q.acct = x.acct
        BY <2>2 DEF Settled, Of
      <3>2. q.kind # "rollback" /\ q \in Of(A, a)
        BY <1>1, <2>2, <3>1 DEF Again, Of
      <3>3. ~IsReversal(q) /\ TakesBack(x, q) /\ x \in A
        BY <2>2, <3>1, <3>2 DEF IsReversal, TakesBack, Of
      <3> QED BY <3>2, <3>3 DEF Paid
    <2> QED BY <2>1, <2>2
  <1>2. ASSUME NEW r \in Of(A, a), NEW x \in Paid(A, r)
        PROVE  x \in Of(A, a) \ Again(A, a)
    <2>1. r \in A /\ r.acct = a
      BY DEF Of
    <2>2. CASE x = r /\ ~IsReversal(r)
      BY <2>1, <2>2 DEF Again, Of
    <2>3. CASE x \in A /\ TakesBack(x, r)
      <3>1. IsReversal(x) /\ r.id = x.orig /\ r.kind # "rollback"
        BY <2>3 DEF TakesBack
      <3>2. x \in Of(A, a)
        BY <2>1, <2>3, <3>1, TakenBack DEF Of
      <3>3. x \notin Again(A, a)
        BY <1>0, <2>1, <3>1 DEF Again, UniqueIds
      <3> QED BY <3>2, <3>3
    <2> QED BY <1>2, <2>2, <2>3 DEF Paid
  <1> QED BY <1>1, <1>2

\* An account moved what the report counts of its rows, and its reversals of rollbacks.
LEMMA MovedNet ==
  ASSUME NEW A, NEW O, Settled(A, O), NEW a, NEW net, \A r \in Of(A, a) : net[r] = Net(A, r)
  PROVE  Moved(Of(A, a)) = SumOf(net, Of(A, a)) + Moved(Again(A, a))
  <1>1. PICK C, B, U : C = Of(A, a) /\ B = Again(A, a) /\ U = C \ B
    OBVIOUS
  <1>2. C \subseteq A /\ B \subseteq C /\ IsFiniteSet(A)
    BY <1>1 DEF Of, Again, Settled, Bookkeeping
  <1>3. IsFiniteSet(C) /\ IsFiniteSet(B) /\ IsFiniteSet(U) /\ U \cup B = C /\ U \cap B = {}
    BY <1>1, <1>2, FS_Subset
  <1>4. PICK f : f = [r \in A |-> r.delta]
    OBVIOUS
  <1>5. (\A r \in A : f[r] = r.delta) /\ \A r \in A : r.delta \in Int
    BY <1>4 DEF Settled
  <1>6. PICK of : of = [r \in C |-> Paid(A, r)]
    OBVIOUS
  <1>7. U = UNION {of[r] : r \in C}
    <2>1. U = UNION {Paid(A, r) : r \in C}
      BY <1>1, PaidAll
    <2>2. {Paid(A, r) : r \in C} = {of[r] : r \in C}
      BY <1>6
    <2> QED BY <2>1, <2>2
  <1>8. \A r \in C : IsFiniteSet(of[r]) /\ net[r] = SumOf(f, of[r])
    BY <1>1, <1>2, <1>5, <1>6, PaidNet
  <1>9. \A r \in C : \A x \in of[r] : f[x] \in Int
    BY <1>1, <1>2, <1>5, <1>7
  <1>10. \A r, q \in C : r # q => of[r] \cap of[q] = {}
    BY <1>2, <1>6, PaidApart DEF Settled, Bookkeeping
  <1>11. Fibers(U, C, of, f, net)
    BY <1>7, <1>8, <1>9, <1>10 DEF Fibers
  <1>12. SumOf(f, U) = SumOf(net, C)
    BY <1>3, <1>11, SumFibers
  <1>13. Moved(U) = SumOf(f, U)
    BY <1>1, <1>2, <1>3, <1>5, MovedIs
  <1>14. Moved(U \cup B) = Moved(U) + Moved(B)
    BY <1>1, <1>2, <1>3, <1>5, MovedUnion
  <1> QED BY <1>1, <1>3, <1>12, <1>13, <1>14

\* What the report counts of an account's rows, minute by minute.
LEMMA MinutesNet ==
  ASSUME NEW A, NEW O, Settled(A, O), NEW a, NEW net, \A r \in Of(A, a) : net[r] = Net(A, r),
         NEW won, \A m \in Minute : won[m] = Field("win", In(O, a, m)) - Field("bet", In(O, a, m))
  PROVE  SumOf(net, Of(A, a)) = SumOf(won, Minute)
  <1>1. PICK C : C = Of(A, a)
    OBVIOUS
  <1>2. PICK of : of = [m \in Minute |-> In(A, a, m)]
    OBVIOUS
  <1>3. \A r \in A : r.at \in Minute /\ r.amount \in Nat
    BY DEF Settled, Bookkeeping
  <1>4. \A m \in Minute : of[m] \subseteq C /\ IsFiniteSet(of[m])
    <2>1. \A m \in Minute : In(A, a, m) \subseteq A /\ In(A, a, m) \subseteq C
      BY <1>1 DEF In, Of
    <2> QED BY <1>2, <2>1, FS_Subset DEF Settled, Bookkeeping
  <1>5. \A r \in C : net[r] \in Int
    <2>1. \A r \in C : Share(A, r, "win") \in Int /\ Share(A, r, "bet") \in Int
      BY <1>1, <1>3, ShareInt DEF Of, Fields
    <2> QED BY <1>1, <2>1 DEF Net
  <1>6. ASSUME NEW m \in Minute
        PROVE  won[m] = SumOf(net, of[m])
    <2>1. PICK T : T = In(A, a, m)
      OBVIOUS
    <2>2. T \subseteq C /\ T \subseteq A /\ IsFiniteSet(T) /\ of[m] = T
      BY <1>2, <1>4, <2>1 DEF In
    <2>3. PICK p, q : p = [r \in T |-> Share(A, r, "win")] /\ q = [r \in T |-> Share(A, r, "bet")]
      OBVIOUS
    <2>4. \A r \in T : p[r] = Share(A, r, "win") /\ q[r] = Share(A, r, "bet")
      BY <2>3
    <2>5. "win" \in Fields /\ "bet" \in Fields
      BY DEF Fields
    <2>6. Field("win", In(O, a, m)) = SumOf(p, T)
      BY <2>1, <2>4, <2>5, FieldSum DEF Settled, Bookkeeping
    <2>7. Field("bet", In(O, a, m)) = SumOf(q, T)
      BY <2>1, <2>4, <2>5, FieldSum DEF Settled, Bookkeeping
    <2>8. \A r \in T : p[r] \in Int /\ q[r] \in Int /\ net[r] = p[r] - q[r]
      <3>1. \A r \in T : Share(A, r, "win") \in Int /\ Share(A, r, "bet") \in Int
        BY <1>3, <2>2, <2>5, ShareInt
      <3> QED BY <1>1, <2>2, <2>4, <3>1 DEF Net
    <2>9. SumOf(net, T) = SumOf(p, T) - SumOf(q, T)
      BY <2>2, <2>8, SumMinus
    <2> QED BY <2>2, <2>6, <2>7, <2>9
  <1>7. C = UNION {of[m] : m \in Minute}
    BY <1>1, <1>2, <1>3 DEF In, Of
  <1>8. \A m, n \in Minute : m # n => of[m] \cap of[n] = {}
    BY <1>2 DEF In
  <1>9. IsFiniteSet(Minute)
    BY BoundsAssumption, FS_Interval DEF Minute
  <1>10. Fibers(C, Minute, of, net, won)
    BY <1>4, <1>5, <1>6, <1>7, <1>8 DEF Fibers
  <1> QED BY <1>1, <1>9, <1>10, SumFibers

\* What the report says that the casino lost to an account, as a sum.
LEMMA WonSums ==
  ASSUME NEW a, NEW S, IsFiniteSet(S)
  PROVE  MapThenSumSet(LAMBDA m : Booked(a, m).win - Booked(a, m).bet, S) =
           SumOf([m \in S |-> Booked(a, m).win - Booked(a, m).bet], S)
  <1> DEFINE F == [m \in S |-> Booked(a, m).win - Booked(a, m).bet]
             Is(g) == g = [s \in SUBSET S |->
                             IF s = {} THEN 0
                             ELSE (Booked(a, FirstOf(s)).win - Booked(a, FirstOf(s)).bet)
                                    + g[s \ {FirstOf(s)}]]
  <1>1. MapThenSumSet(LAMBDA m : Booked(a, m).win - Booked(a, m).bet, S)
          = (CHOOSE g : Is(g))[S]
    BY DEF MapThenSumSet, MapThenFoldSet, FirstOf
  <1>2. \A g : Is(g) <=> IsSum(g, F, S)
    BY FirstIn DEF IsSum
  <1>3. PICK g : g = CHOOSE h : Is(h)
    OBVIOUS
  <1> HIDE DEF Is, F
  <1>4. IsSum(g, F, S)
    BY <1>2, <1>3, SumExists
  <1>5. SumOf(F, S) = g[S]
    BY <1>4, SumIs
  <1>6. MapThenSumSet(LAMBDA m : Booked(a, m).win - Booked(a, m).bet, S) = SumOf(F, S)
    BY <1>1, <1>3, <1>5
  <1> QED BY <1>6 DEF F

\* The committed ledger and its outbox are settled while each id is used for one account.
LEMMA DbSettled ==
  ASSUME OneAccountPerId, TypeOK, RollbacksInv, PricedInv, SourcedInv,
         Bookkeeping(db.actions, db.outbox)
  PROVE  Settled(db.actions, db.outbox)
  <1>1. \A r \in db.actions : Priced(r) /\ r.delta \in Int /\ r.at \in Minute
    BY DEF TypeOK, Tables, ActionRow, PricedInv
  <1>2. ASSUME NEW r \in db.actions, IsReversal(r)
        PROVE  \E q \in db.actions : q.id = r.orig /\ q.acct = r.acct /\ r.delta = -q.delta
    <2>1. PICK q \in db.actions : q.id = r.orig /\ r.delta = -q.delta
      BY <1>2 DEF RollbacksInv, RollbacksIn, Grounded, IsReversal, Resolves
    <2>2. PICK i \in Request : q.acct = Body[i].acct /\ q.id \in Ids(i)
      BY DEF SourcedInv, OfRequest
    <2>3. q.id # NoId
      BY <2>2 DEF Ids
    <2>4. PICK j \in Request : r.acct = Body[j].acct /\ r.orig \in Ids(j)
      BY <2>1, <2>3 DEF SourcedInv, OfRequest
    <2>5. q.acct = r.acct
      BY <2>1, <2>2, <2>4 DEF OneAccountPerId
    <2> QED BY <2>1, <2>5
  <1> QED BY <1>1, <1>2 DEF Settled

\* Report and balances part by reversals of rollbacks only.
LEMMA ReportPlusAgain ==
  ASSUME TypeOK, MoneyInv, Settled(db.actions, db.outbox)
  PROVE  ReportFollowsBalance
  <1> SUFFICES ASSUME NEW a \in Account
               PROVE  balance[a] - Seed[a]
                        - MapThenSumSet(LAMBDA m : Booked(a, m).win - Booked(a, m).bet, Minute)
                      = MapThenSumSet(LAMBDA r : r.delta,
                          {r \in AppliedRollbacks : r.acct = a /\ \E q \in db.actions :
                             q.id = r.orig /\ q.kind = "rollback"})
    BY DEF ReportFollowsBalance
  <1>1. PICK A, O : A = db.actions /\ O = db.outbox
    OBVIOUS
  <1>2. Settled(A, O)
    BY <1>1
  <1>3. PICK net : net = [r \in Of(A, a) |-> Net(A, r)]
    OBVIOUS
  <1>4. PICK won : won = [m \in Minute |-> Booked(a, m).win - Booked(a, m).bet]
    OBVIOUS
  <1>5. \A m \in Minute : won[m] = Field("win", In(O, a, m)) - Field("bet", In(O, a, m))
    BY <1>1, <1>4, BookedIs
  <1>6. \A r \in Of(A, a) : net[r] = Net(A, r)
    BY <1>3
  <1>7. Moved(Of(A, a)) = SumOf(won, Minute) + Moved(Again(A, a))
    <2>1. Moved(Of(A, a)) = SumOf(net, Of(A, a)) + Moved(Again(A, a))
      BY <1>2, <1>6, MovedNet
    <2>2. SumOf(net, Of(A, a)) = SumOf(won, Minute)
      BY <1>2, <1>5, <1>6, MinutesNet
    <2> QED BY <2>1, <2>2
  <1>8. MapThenSumSet(LAMBDA m : Booked(a, m).win - Booked(a, m).bet, Minute) = SumOf(won, Minute)
    <2>1. IsFiniteSet(Minute)
      BY BoundsAssumption, FS_Interval DEF Minute
    <2> QED BY <1>4, <2>1, WonSums
  <1>9. balance[a] = Seed[a] + Moved(Of(A, a))
    BY <1>1 DEF MoneyInv, LedgerBalance, Of
  <1>10. Again(A, a) = {r \in AppliedRollbacks : r.acct = a /\ \E q \in db.actions :
                          q.id = r.orig /\ q.kind = "rollback"}
    BY <1>1 DEF Again, Of, AppliedRollbacks, IsReversal
  <1>11. SumOf(won, Minute) \in Int /\ Moved(Again(A, a)) \in Int /\ Seed[a] \in Int
    <2>1. /\ \A r \in A : r.delta \in Int
          /\ IsFiniteSet(A) /\ Again(A, a) \subseteq A
      BY <1>2 DEF Settled, Bookkeeping, Again, Of
    <2>2. Moved(Again(A, a)) \in Int
      BY <2>1, FS_Subset, MovedInt
    <2>3. SumOf(won, Minute) \in Int
      <3>1. Of(A, a) \subseteq A
        BY DEF Of
      <3>2. IsFiniteSet(Of(A, a))
        BY <2>1, <3>1, FS_Subset
      <3>3. \A r \in Of(A, a) : net[r] \in Int
        <4>1. "win" \in Fields /\ "bet" \in Fields
          BY DEF Fields
        <4>2. \A r \in A : r.amount \in Nat
          BY <1>2 DEF Settled, Bookkeeping
        <4>3. \A r \in A : Share(A, r, "win") \in Int /\ Share(A, r, "bet") \in Int
          BY <4>1, <4>2, ShareInt
        <4> QED BY <1>6, <3>1, <4>3 DEF Net
      <3>4. SumOf(net, Of(A, a)) \in Int
        BY <3>2, <3>3, SumInt
      <3> QED BY <1>2, <1>5, <1>6, <3>4, MinutesNet
    <2> QED BY <2>2, <2>3, SeedAssumption
  <1>12. balance[a] - Seed[a] - SumOf(won, Minute) = Moved(Again(A, a))
    BY <1>7, <1>9, <1>11
  <1> QED BY <1>8, <1>10, <1>12 DEF Moved

\* While each id is used for one account, the casino's report of an account and the
\* account's balance differ by what rollbacks of rollbacks moved, and by nothing else.
THEOREM ReportsFollowBalances ==
  ASSUME OneAccountPerId PROVE Spec => []ReportFollowsBalance
  <1> DEFINE Inv == BooksKept /\ HomeInv /\ PricedInv /\ SourcedInv
  <1>1. Init => Inv
    BY InitBooksKept, InitHome, InitPriced, EmptyRows DEF SourcedInv, Init
  <1>2. Inv /\ [Next]_vars => Inv'
    BY StepBooksKept, StepHome, StepPriced, StepSourced DEF BooksKept
  <1>3. Inv => ReportFollowsBalance
    BY DbBookkeeping, DbSettled, ReportPlusAgain DEF BooksKept
  <1> QED BY <1>1, <1>2, <1>3, PTL DEF Spec

=============================================================================
