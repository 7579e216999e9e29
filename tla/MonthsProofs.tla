---------------------------- MODULE MonthsProofs ----------------------------
(***************************************************************************)
(* Every action lies in its month's partition, and no creator meets the     *)
(* partition it creates, for any wallets, services and months.  What keeps   *)
(* creators apart are table locks: LocksExclude is the heart of it.  With    *)
(* what each transaction locks, in which order, it also says who can be the  *)
(* victim of a deadlock.                                                     *)
(***************************************************************************)
EXTENDS Months, TLAPS

Mode == {"row share", "row exclusive", "share", "share row exclusive", "access exclusive"}
Table == {"action_registry", "actions", "schema", "function", "none"}
Label == {"off", "claim", "find", "ensure", "create", "reference", "insert", "next", "install",
          "index registry", "index actions", "replace", "commit", "serving", "down"}
AnyRow == [at : Month, part : Month \cup {Default}]

Types ==
  /\ month \in 0..MaxMonth
  /\ parts \subseteq Month
  /\ rows \subseteq AnyRow
  /\ pc \in [Process -> Label]
  /\ at \in [Process -> 0..MaxMonth]
  /\ target \in [Process -> Month]
  /\ made \in [Process -> SUBSET Month]
  /\ own \in [Process -> SUBSET AnyRow]
  /\ locks \in [Process -> SUBSET (Table \X Mode)]

\* Locks that two transactions hold at a time do not conflict.
LocksExclude ==
  \A p, q \in Process : p # q =>
    \A l \in locks[p], m \in locks[q] : l[1] = m[1] => m[2] \notin Conflicts(l[2])

Routed ==
  /\ \A r \in rows : r.part = r.at
  /\ \A p \in Process : \A r \in own[p] : r.part = r.at

\* Where a transaction is says which locks it holds and what it has looked up.
PlacedAt(p) ==
  /\ pc[p] \in {"ensure", "create", "reference"} =>
       \/ p \in Wallet /\ target[p] = at[p] /\ <<"action_registry", "row exclusive">> \in locks[p]
       \/ p \in Service /\ <<"action_registry", "share">> \in locks[p]
  /\ pc[p] \in {"claim", "find"} => p \in Wallet /\ target[p] = at[p]
  /\ pc[p] = "find" => <<"action_registry", "row exclusive">> \in locks[p]
  /\ pc[p] \in {"index actions", "replace"} =>
       p \in Service /\ <<"action_registry", "share">> \in locks[p]
  /\ pc[p] \in {"create", "reference"} => target[p] \notin parts
  /\ pc[p] = "insert" => p \in Wallet /\ at[p] \in parts \cup made[p]
  /\ made[p] # {} => <<"action_registry", "share row exclusive">> \in locks[p]

Placed == \A p \in Process : PlacedAt(p)


-----------------------------------------------------------------------------
LEMMA ModeSymmetric ==
  ASSUME NEW m \in Mode, NEW n \in Mode, m \in Conflicts(n) PROVE n \in Conflicts(m)
  BY DEF Mode, Conflicts

LEMMA WantsTyped == ASSUME NEW p \in Process PROVE Wants(p) \in Table \X Mode
  BY DEF Wants, PartitionWants, WalletWants, MigrationWants, Table, Mode

\* What a step may do to the locks: nothing, take one that is granted, or drop all.
LEMMA StepLocks ==
  ASSUME [Next]_vars
  PROVE  \/ UNCHANGED locks
         \/ \E p \in Process : Granted(p) /\ Lock(p)
         \/ \E p \in Process : locks' = [locks EXCEPT ![p] = {}]
  <1>1. ASSUME NEW p \in Process, Partition(p)
        PROVE  UNCHANGED locks \/ (Granted(p) /\ Lock(p))
    BY <1>1 DEF Partition, Ensure, Create, Reference
  <1>2. ASSUME NEW w \in Wallet, Stamp(w) \/ WalletStep(w), ~Partition(w)
        PROVE  UNCHANGED locks \/ (Granted(w) /\ Lock(w)) \/ locks' = [locks EXCEPT ![w] = {}]
    BY <1>2 DEF Stamp, WalletStep, Claim, FindActionForUpdate, InsertAction, CommitWallet, End
  <1>3. ASSUME NEW s \in Service, ServiceStep(s), ~Partition(s)
        PROVE  UNCHANGED locks \/ (Granted(s) /\ Lock(s)) \/ locks' = [locks EXCEPT ![s] = {}]
    BY <1>3 DEF ServiceStep, BeginMigration, Install, InstallFails, IndexRegistry, IndexActions,
                ReplaceFunction, ReplaceFails, CommitMigration, Fail, End
  <1>4. ASSUME NEW p \in Process, DeadlockVictim(p)
        PROVE  locks' = [locks EXCEPT ![p] = {}]
    BY <1>4 DEF DeadlockVictim, Fail, End
  <1>5. CASE Tick \/ UNCHANGED vars
    BY <1>5 DEF Tick, vars, locals
  <1> QED BY <1>1, <1>2, <1>3, <1>4, <1>5 DEF Next, Returns, Process

LEMMA KeepsLocksApart ==
  ASSUME Types, LocksExclude, [Next]_vars PROVE LocksExclude'
  <1>1. CASE UNCHANGED locks
    BY <1>1 DEF LocksExclude
  <1>2. ASSUME NEW p \in Process, locks' = [locks EXCEPT ![p] = {}] PROVE LocksExclude'
    BY <1>2 DEF LocksExclude, Types
  <1>3. ASSUME NEW p \in Process, Granted(p), Lock(p) PROVE LocksExclude'
    <2>1. ASSUME NEW q \in Process, q # p, NEW m \in locks[q], m[1] = Wants(p)[1]
          PROVE  m[2] \notin Conflicts(Wants(p)[2]) /\ Wants(p)[2] \notin Conflicts(m[2])
      <3>1. m[2] \notin Conflicts(Wants(p)[2])
        BY <1>3, <2>1 DEF Granted, WaitsFor
      <3>2. m[2] \in Mode /\ Wants(p)[2] \in Mode
        BY WantsTyped DEF Types
      <3> QED BY <3>1, <3>2, ModeSymmetric
    <2>2. \A q \in Process : locks'[q] = IF q = p THEN locks[p] \cup {Wants(p)} ELSE locks[q]
      BY <1>3 DEF Lock, Types
    <2> HIDE DEF Conflicts, Wants
    <2> SUFFICES ASSUME NEW q \in Process, NEW r \in Process, q # r,
                        NEW l \in locks'[q], NEW m \in locks'[r], l[1] = m[1]
                 PROVE  m[2] \notin Conflicts(l[2])
      BY DEF LocksExclude
    <2>3. CASE l \in locks[q] /\ m \in locks[r]
      BY <2>3 DEF LocksExclude
    <2>4. CASE l \notin locks[q]
      BY <2>1, <2>2, <2>4
    <2>5. CASE m \notin locks[r]
      BY <2>1, <2>2, <2>5
    <2> QED BY <2>3, <2>4, <2>5
  <1> QED BY <1>1, <1>2, <1>3, StepLocks

LEMMA NextMonth ==
  ASSUME NEW m \in 0..MaxMonth
  PROVE  m \in Int /\ m \in Month /\ m + 1 \in Month
  BY MonthAssumption DEF Month

LEMMA Months0 == 0 \in 0..MaxMonth /\ 0 \in Month /\ Month \subseteq Int
  BY MonthAssumption DEF Month

LEMMA EndTypes ==
  ASSUME Types, NEW p \in Process, NEW label \in Label, End(p, label)
  PROVE  /\ pc' \in [Process -> Label]
         /\ at' \in [Process -> 0..MaxMonth]
         /\ target' \in [Process -> Month]
         /\ made' \in [Process -> SUBSET Month]
         /\ own' \in [Process -> SUBSET AnyRow]
  <1>1. pc' \in [Process -> Label]
    BY DEF Types, End, Goto
  <1>2. at' \in [Process -> 0..MaxMonth] /\ target' \in [Process -> Month]
    BY Months0 DEF Types, End
  <1>3. made' \in [Process -> SUBSET Month]
    BY DEF Types, End
  <1>4. own' \in [Process -> SUBSET AnyRow]
    BY DEF Types, End
  <1> QED BY <1>1, <1>2, <1>3, <1>4

LEMMA StepTypes ==
  ASSUME Types, [Next]_vars PROVE Types'
  <1> USE DEF Types, Label
  <1>1. locks' \in [Process -> SUBSET (Table \X Mode)]
    <2>1. CASE UNCHANGED locks
      BY <2>1
    <2>2. ASSUME NEW p \in Process, Lock(p) PROVE locks' \in [Process -> SUBSET (Table \X Mode)]
      BY <2>2, WantsTyped DEF Lock
    <2>3. ASSUME NEW p \in Process, locks' = [locks EXCEPT ![p] = {}]
          PROVE  locks' \in [Process -> SUBSET (Table \X Mode)]
      BY <2>3
    <2> QED BY <2>1, <2>2, <2>3, StepLocks
  <1>2. ASSUME NEW p \in Process, Partition(p) PROVE Types'
    <2>1. AfterEnsure(p) \in Label
      BY DEF AfterEnsure
    <2> DEFINE m == IF p \in Service THEN at[p] + 1 ELSE target[p]
    <2>6. at[p] \in 0..MaxMonth /\ target[p] \in Month
      OBVIOUS
    <2>7. m \in Month
      BY <2>6, NextMonth, Zenon
    <2>5. [target EXCEPT ![p] = m] \in [Process -> Month]
      <3> HIDE DEF m
      <3> QED BY <2>7
    <2>2. CASE Ensure(p)
      <3>1. target' \in [Process -> Month]
        BY <2>2, <2>5 DEF Ensure
      <3> QED BY <1>1, <2>1, <2>2, <3>1 DEF Ensure, Goto, shared
    <2>3. CASE Create(p)
      BY <1>1, <2>3 DEF Create, Goto, shared
    <2>4. CASE Reference(p)
      <3>1. target' \in [Process -> Month]
        BY <2>4, <2>5 DEF Reference
      <3>2. made' \in [Process -> SUBSET Month]
        BY <2>4 DEF Reference, Ensured
      <3>3. pc' \in [Process -> Label]
        BY <2>1, <2>4 DEF Reference, Goto
      <3>4. UNCHANGED <<month, parts, rows, at, own>>
        BY <2>4 DEF Reference, shared
      <3>5. /\ month' \in 0..MaxMonth /\ parts' \subseteq Month /\ rows' \subseteq AnyRow
            /\ at' \in [Process -> 0..MaxMonth] /\ own' \in [Process -> SUBSET AnyRow]
        BY <3>4
      <3> HIDE DEF Label
      <3> QED BY <1>1, <3>1, <3>2, <3>3, <3>5
    <2> QED BY <1>2, <2>2, <2>3, <2>4 DEF Partition
  <1>3. ASSUME NEW w \in Wallet, Stamp(w) \/ WalletStep(w), ~Partition(w) PROVE Types'
    <2>1. w \in Process
      BY DEF Process
    <2>2. CASE Stamp(w) \/ Claim(w) \/ FindActionForUpdate(w)
      <3>1. UNCHANGED <<month, parts, rows, made, own>>
        BY <2>2 DEF Stamp, Claim, FindActionForUpdate, shared
      <3>2. at' \in [Process -> 0..MaxMonth] /\ target' \in [Process -> Month]
        <4>1. CASE Stamp(w)
          <5>1. at' = [at EXCEPT ![w] = month] /\ target' = [target EXCEPT ![w] = month]
            BY <4>1 DEF Stamp
          <5>2. month \in 0..MaxMonth /\ month \in Month
            BY NextMonth
          <5> QED BY <2>1, <5>1, <5>2
        <4>2. CASE UNCHANGED <<at, target>>
          BY <4>2
        <4> QED BY <2>2, <4>1, <4>2 DEF Claim, FindActionForUpdate
      <3>3. pc' \in [Process -> Label]
        BY <2>1, <2>2 DEF Stamp, Claim, FindActionForUpdate, Goto
      <3> HIDE DEF Label
      <3> QED BY <1>1, <3>1, <3>2, <3>3
    <2>3. CASE InsertAction(w)
      <3> DEFINE new == [at |-> at[w], part |-> IF at[w] \in parts \cup made[w] THEN at[w] ELSE Default]
      <3>1. new \in AnyRow
        <4>1. at[w] \in Month
          BY <2>1, NextMonth
        <4> QED BY <4>1 DEF AnyRow
      <3>2. own' = [own EXCEPT ![w] = @ \cup {new}]
        BY <2>3 DEF InsertAction
      <3> HIDE DEF new
      <3>3. own' \in [Process -> SUBSET AnyRow]
        BY <2>1, <3>1, <3>2
      <3> QED BY <1>1, <2>1, <2>3, <3>3 DEF InsertAction, Goto, shared
    <2>4. CASE CommitWallet(w)
      BY <1>1, <2>1, <2>4, EndTypes DEF CommitWallet
    <2> QED BY <1>3, <2>2, <2>3, <2>4 DEF WalletStep
  <1>4. ASSUME NEW s \in Service, ServiceStep(s), ~Partition(s) PROVE Types'
    <2>1. s \in Process
      BY DEF Process
    <2>2. CASE BeginMigration(s)
      <3>1. month \in Month
        BY NextMonth
      <3> QED BY <1>1, <2>1, <2>2, <3>1 DEF BeginMigration, Goto, shared
    <2>3. CASE Install(s) \/ IndexRegistry(s) \/ IndexActions(s) \/ ReplaceFunction(s)
      BY <1>1, <2>1, <2>3 DEF Install, IndexRegistry, IndexActions, ReplaceFunction, Goto, shared
    <2>4. CASE InstallFails(s) \/ ReplaceFails(s)
      BY <1>1, <2>1, <2>4, EndTypes DEF InstallFails, ReplaceFails, Fail, shared
    <2>5. CASE CommitMigration(s)
      BY <1>1, <2>1, <2>5, EndTypes DEF CommitMigration
    <2> QED BY <1>4, <2>2, <2>3, <2>4, <2>5 DEF ServiceStep
  <1>5. ASSUME NEW p \in Process, DeadlockVictim(p) PROVE Types'
    BY <1>1, <1>5, EndTypes DEF DeadlockVictim, Fail, shared
  <1>6. CASE Tick
    <2>1. month' \in 0..MaxMonth
      <3>1. month \in 0..MaxMonth /\ month < MaxMonth /\ month' = month + 1
        BY <1>6 DEF Tick
      <3>2. PICK m : m = month
        OBVIOUS
      <3>3. m + 1 \in 0..MaxMonth
        <4> HIDE DEF Types
        <4> QED BY <3>1, <3>2, MonthAssumption
      <3> QED BY <3>1, <3>2, <3>3
    <2> QED BY <1>1, <1>6, <2>1 DEF Tick, locals
  <1>7. CASE UNCHANGED vars
    BY <1>7 DEF vars
  <1> QED BY <1>2, <1>3, <1>4, <1>5, <1>6, <1>7 DEF Next, Returns, Process

\* Nobody commits a partition, or claims and indexes the registry, beside a creator.
LEMMA CreatorExcludes ==
  ASSUME Types, LocksExclude, Placed, NEW p \in Process, NEW q \in Process, p # q,
         made[q] # {}
  PROVE  /\ <<"action_registry", "row exclusive">> \notin locks[p]
         /\ <<"action_registry", "share">> \notin locks[p]
  <1>1. <<"action_registry", "share row exclusive">> \in locks[q]
    BY DEF Placed, PlacedAt
  <1>2. {"row exclusive", "share"} \subseteq Conflicts("share row exclusive")
    BY DEF Conflicts
  <1> DEFINE held == <<"action_registry", "share row exclusive">>
  <1>3. ASSUME NEW m \in locks[p], m[1] = "action_registry"
        PROVE  m[2] \notin Conflicts("share row exclusive")
    <2>1. held[1] = m[1] /\ held[2] = "share row exclusive" /\ held \in locks[q]
      BY <1>1, <1>3
    <2> HIDE DEF held
    <2> QED BY <2>1 DEF LocksExclude
  <1> QED BY <1>2, <1>3

LEMMA StepParts ==
  ASSUME [Next]_vars
  PROVE  \/ UNCHANGED parts
         \/ \E q \in Process : pc[q] \in {"next", "commit"} /\ parts' = parts \cup made[q]
  <1>1. ASSUME NEW p \in Process, Partition(p) PROVE UNCHANGED parts
    BY <1>1 DEF Partition, Ensure, Create, Reference, shared
  <1>2. ASSUME NEW w \in Wallet, Stamp(w) \/ WalletStep(w), ~Partition(w)
        PROVE  UNCHANGED parts \/ (pc[w] = "next" /\ parts' = parts \cup made[w])
    BY <1>2 DEF Stamp, WalletStep, Claim, FindActionForUpdate, InsertAction, CommitWallet, shared
  <1>3. ASSUME NEW s \in Service, ServiceStep(s), ~Partition(s)
        PROVE  UNCHANGED parts \/ (pc[s] = "commit" /\ parts' = parts \cup made[s])
    BY <1>3 DEF ServiceStep, BeginMigration, Install, InstallFails, IndexRegistry, IndexActions,
                ReplaceFunction, ReplaceFails, CommitMigration, Fail, shared
  <1>4. ASSUME NEW p \in Process, DeadlockVictim(p) PROVE UNCHANGED parts
    BY <1>4 DEF DeadlockVictim, Fail, shared
  <1>5. CASE Tick \/ UNCHANGED vars
    BY <1>5 DEF Tick, vars
  <1> QED BY <1>1, <1>2, <1>3, <1>4, <1>5 DEF Next, Returns, Process

\* Partitions stay, and none is added while somebody may be creating one.
LEMMA PartsGrow ==
  ASSUME Types, LocksExclude, Placed, [Next]_vars
  PROVE  /\ parts \subseteq parts'
         /\ \A p \in Process : pc[p] \in {"ensure", "create", "reference"} => parts' = parts
  <1>1. parts \subseteq parts'
    BY StepParts
  <1>2. ASSUME NEW p \in Process, pc[p] \in {"ensure", "create", "reference"},
               NEW q \in Process, pc[q] \in {"next", "commit"}
        PROVE  made[q] = {}
    <2>1. p # q
      BY <1>2
    <2>2. \/ <<"action_registry", "row exclusive">> \in locks[p]
          \/ <<"action_registry", "share">> \in locks[p]
      BY <1>2 DEF Placed, PlacedAt
    <2> QED BY <2>1, <2>2, CreatorExcludes
  <1>3. ASSUME NEW p \in Process, pc[p] \in {"ensure", "create", "reference"}
        PROVE  parts' = parts
    BY <1>2, <1>3, StepParts
  <1> QED BY <1>1, <1>3

\* A step of p leaves the other transactions alone.
Alone(p) ==
  \A q \in Process \ {p} :
    /\ pc'[q] = pc[q] /\ at'[q] = at[q] /\ target'[q] = target[q]
    /\ made'[q] = made[q] /\ own'[q] = own[q] /\ locks'[q] = locks[q]

LEMMA PlacedAlone ==
  ASSUME Types, LocksExclude, Placed, [Next]_vars, NEW p \in Process, Alone(p), PlacedAt(p)'
  PROVE  Placed'
  <1>1. ASSUME NEW q \in Process \ {p} PROVE PlacedAt(q)'
    <2>1. PlacedAt(q)
      BY DEF Placed
    <2>2. /\ pc'[q] = pc[q] /\ at'[q] = at[q] /\ target'[q] = target[q]
          /\ made'[q] = made[q] /\ locks'[q] = locks[q]
      BY DEF Alone
    <2>3. parts \subseteq parts'
      BY PartsGrow
    <2>4. pc[q] \in {"create", "reference"} => parts' = parts
      BY PartsGrow
    <2> QED BY <2>1, <2>2, <2>3, <2>4 DEF PlacedAt
  <1> QED BY <1>1 DEF Placed

LEMMA EndPlaced ==
  ASSUME Types, NEW p \in Process, NEW label \in {"off", "serving", "down"}, End(p, label)
  PROVE  Alone(p) /\ PlacedAt(p)'
  <1>1. Alone(p)
    BY DEF Alone, End, Goto, Types
  <1>2. pc'[p] = label /\ made'[p] = {}
    BY DEF End, Goto, Types
  <1> QED BY <1>1, <1>2 DEF PlacedAt

LEMMA LockHolds ==
  ASSUME Types, NEW p \in Process, Lock(p)
  PROVE  /\ \A q \in Process \ {p} : locks'[q] = locks[q]
         /\ locks'[p] = locks[p] \cup {Wants(p)}
  BY DEF Types, Lock

LEMMA PartitionPlaced ==
  ASSUME Types, LocksExclude, Placed, [Next]_vars, NEW p \in Process, Partition(p)
  PROVE  Alone(p) /\ PlacedAt(p)'
  <1>1. PlacedAt(p)
    BY DEF Placed
  <1>2. parts' = parts
    BY PartsGrow DEF Partition, Ensure, Create, Reference
  <1>3. p \in Wallet => p \notin Service
    BY ProcessAssumption
  <1>4. CASE Ensure(p)
    <2>1. Alone(p)
      BY <1>4 DEF Ensure, Goto, Alone, Types
    <2>2. at'[p] = at[p] /\ made'[p] = made[p] /\ locks'[p] = locks[p]
      BY <1>4 DEF Ensure
    <2>3. p \in Wallet => target'[p] = target[p]
      BY <1>3, <1>4 DEF Ensure, Types
    <2>4. CASE target[p] \in parts \cup made[p]
      <3>1. pc'[p] = AfterEnsure(p)
        BY <1>4, <2>4 DEF Ensure, Ensured, Goto, Types
      <3>2. pc[p] = "ensure"
        BY <1>4 DEF Ensure
      <3> QED BY <1>1, <1>2, <1>3, <2>1, <2>2, <2>3, <2>4, <3>1, <3>2 DEF PlacedAt, AfterEnsure, Process
    <2>5. CASE target[p] \notin parts \cup made[p]
      <3>1. pc'[p] = "create" /\ target'[p] = target[p] /\ pc[p] = "ensure"
        BY <1>4, <2>5 DEF Ensure, Ensured, Goto, Types
      <3> QED BY <1>1, <1>2, <1>3, <2>1, <2>2, <2>5, <3>1 DEF PlacedAt
    <2> QED BY <2>4, <2>5
  <1>5. CASE Create(p)
    <2>1. Alone(p)
      BY <1>5, LockHolds DEF Create, Goto, Alone, Types
    <2>2. /\ at'[p] = at[p] /\ made'[p] = made[p] /\ target'[p] = target[p]
          /\ locks[p] \subseteq locks'[p] /\ pc[p] = "create" /\ pc'[p] = "reference"
      BY <1>5, LockHolds DEF Create, Goto, Types
    <2> QED BY <1>1, <1>2, <2>1, <2>2 DEF PlacedAt
  <1>6. CASE Reference(p)
    <2>1. Alone(p)
      BY <1>6, LockHolds DEF Reference, Goto, Alone, Types
    <2>2. /\ at'[p] = at[p] /\ made'[p] = made[p] \cup {target[p]}
          /\ locks[p] \subseteq locks'[p] /\ pc[p] = "reference" /\ pc'[p] = AfterEnsure(p)
      BY <1>6, LockHolds DEF Reference, Ensured, Goto, Types
    <2>3. <<"action_registry", "share row exclusive">> \in locks'[p]
      <3>1. Wants(p) = <<"action_registry", "share row exclusive">>
        BY <2>2 DEF Wants, PartitionWants
      <3> QED BY <1>6, <3>1, LockHolds DEF Reference
    <2>4. p \in Wallet => target'[p] = target[p]
      BY <1>3, <1>6 DEF Reference, Types
    <2> QED BY <1>1, <1>2, <1>3, <2>1, <2>2, <2>3, <2>4 DEF PlacedAt, AfterEnsure, Process
  <1> QED BY <1>4, <1>5, <1>6 DEF Partition

LEMMA WalletPlaced ==
  ASSUME Types, LocksExclude, Placed, [Next]_vars, NEW w \in Wallet, Stamp(w) \/ WalletStep(w)
  PROVE  Alone(w) /\ PlacedAt(w)'
  <1>1. w \in Process
    BY DEF Process
  <1>2. PlacedAt(w)
    BY <1>1 DEF Placed
  <1>3. CASE Stamp(w)
    <2>1. Alone(w)
      BY <1>1, <1>3 DEF Stamp, Goto, Alone, Types
    <2>2. /\ pc'[w] = "claim" /\ target'[w] = at'[w] /\ made'[w] = made[w] /\ locks'[w] = locks[w]
      BY <1>1, <1>3 DEF Stamp, Goto, Types
    <2> QED BY <1>2, <2>1, <2>2 DEF PlacedAt
  <1>4. CASE Claim(w)
    <2>1. Alone(w)
      BY <1>1, <1>4, LockHolds DEF Claim, Goto, Alone, Types
    <2>2. /\ pc[w] = "claim" /\ pc'[w] \in {"find", "ensure", "next"}
          /\ target'[w] = target[w] /\ at'[w] = at[w] /\ made'[w] = made[w]
      BY <1>1, <1>4 DEF Claim, Goto, Types
    <2>3. Wants(w) = <<"action_registry", "row exclusive">>
      BY <2>2 DEF Wants, WalletWants
    <2>4. locks'[w] = locks[w] \cup {<<"action_registry", "row exclusive">>}
      BY <1>1, <1>4, <2>3, LockHolds DEF Claim
    <2> QED BY <1>2, <2>1, <2>2, <2>4 DEF PlacedAt
  <1>5. CASE FindActionForUpdate(w)
    <2>1. Alone(w)
      BY <1>1, <1>5, LockHolds DEF FindActionForUpdate, Goto, Alone, Types
    <2>2. /\ pc[w] = "find" /\ pc'[w] = "ensure" /\ locks[w] \subseteq locks'[w]
          /\ target'[w] = target[w] /\ at'[w] = at[w] /\ made'[w] = made[w]
      BY <1>1, <1>5, LockHolds DEF FindActionForUpdate, Goto, Types
    <2> QED BY <1>2, <2>1, <2>2 DEF PlacedAt
  <1>6. CASE InsertAction(w)
    <2>1. Alone(w)
      BY <1>1, <1>6, LockHolds DEF InsertAction, Goto, Alone, Types
    <2>2. pc'[w] = "next" /\ locks[w] \subseteq locks'[w] /\ made'[w] = made[w]
      BY <1>1, <1>6, LockHolds DEF InsertAction, Goto, Types
    <2> QED BY <1>2, <2>1, <2>2 DEF PlacedAt
  <1>7. CASE CommitWallet(w)
    BY <1>1, <1>7, EndPlaced DEF CommitWallet
  <1>8. CASE Partition(w)
    BY <1>1, <1>8, PartitionPlaced
  <1> QED BY <1>3, <1>4, <1>5, <1>6, <1>7, <1>8 DEF WalletStep

LEMMA ServicePlaced ==
  ASSUME Types, LocksExclude, Placed, [Next]_vars, NEW s \in Service, ServiceStep(s)
  PROVE  Alone(s) /\ PlacedAt(s)'
  <1>1. s \in Process
    BY DEF Process
  <1>2. PlacedAt(s)
    BY <1>1 DEF Placed
  <1>3. CASE BeginMigration(s)
    <2>1. Alone(s)
      BY <1>1, <1>3 DEF BeginMigration, Goto, Alone, Types
    <2>2. pc'[s] \in {"index registry", "install"} /\ made'[s] = made[s] /\ locks'[s] = locks[s]
      BY <1>1, <1>3 DEF BeginMigration, Goto, Types
    <2> QED BY <1>2, <2>1, <2>2 DEF PlacedAt
  <1>4. CASE Install(s)
    <2>1. Alone(s)
      BY <1>1, <1>4, LockHolds DEF Install, Goto, Alone, Types
    <2>2. pc'[s] = "index registry" /\ made'[s] = made[s] /\ locks[s] \subseteq locks'[s]
      BY <1>1, <1>4, LockHolds DEF Install, Goto, Types
    <2> QED BY <1>2, <2>1, <2>2 DEF PlacedAt
  <1>5. CASE IndexRegistry(s)
    <2>1. Alone(s)
      BY <1>1, <1>5, LockHolds DEF IndexRegistry, Goto, Alone, Types
    <2>2. pc[s] = "index registry" /\ pc'[s] = "index actions" /\ made'[s] = made[s]
      BY <1>1, <1>5 DEF IndexRegistry, Goto, Types
    <2>3. Wants(s) = <<"action_registry", "share">>
      BY <2>2, ProcessAssumption DEF Wants, MigrationWants
    <2>4. locks'[s] = locks[s] \cup {<<"action_registry", "share">>}
      BY <1>1, <1>5, <2>3, LockHolds DEF IndexRegistry
    <2> QED BY <1>2, <2>1, <2>2, <2>4 DEF PlacedAt
  <1>6. CASE IndexActions(s) \/ ReplaceFunction(s)
    <2>1. Alone(s)
      BY <1>1, <1>6, LockHolds DEF IndexActions, ReplaceFunction, Goto, Alone, Types
    <2>2. /\ pc[s] \in {"index actions", "replace"} /\ pc'[s] \in {"replace", "ensure"}
          /\ made'[s] = made[s] /\ locks[s] \subseteq locks'[s]
      BY <1>1, <1>6, LockHolds DEF IndexActions, ReplaceFunction, Goto, Types
    <2> QED BY <1>2, <2>1, <2>2 DEF PlacedAt
  <1>7. CASE InstallFails(s) \/ ReplaceFails(s)
    BY <1>1, <1>7, EndPlaced DEF InstallFails, ReplaceFails, Fail
  <1>8. CASE CommitMigration(s)
    BY <1>1, <1>8, EndPlaced DEF CommitMigration
  <1>9. CASE Partition(s)
    BY <1>1, <1>9, PartitionPlaced
  <1> QED BY <1>3, <1>4, <1>5, <1>6, <1>7, <1>8, <1>9 DEF ServiceStep

LEMMA KeepsPlaced ==
  ASSUME Types, LocksExclude, Placed, [Next]_vars PROVE Placed'
  <1>1. ASSUME NEW w \in Wallet, Stamp(w) \/ WalletStep(w) PROVE Placed'
    BY <1>1, WalletPlaced, PlacedAlone DEF Process
  <1>2. ASSUME NEW s \in Service, ServiceStep(s) PROVE Placed'
    BY <1>2, ServicePlaced, PlacedAlone DEF Process
  <1>3. ASSUME NEW p \in Process, DeadlockVictim(p) PROVE Placed'
    BY <1>3, EndPlaced, PlacedAlone DEF DeadlockVictim, Fail
  <1>4. CASE Tick \/ UNCHANGED vars
    BY <1>4 DEF Tick, vars, locals, Placed, PlacedAt
  <1> QED BY <1>1, <1>2, <1>3, <1>4 DEF Next, Returns

-----------------------------------------------------------------------------
LEMMA KeepsRouted ==
  ASSUME Types, Routed, Placed, [Next]_vars PROVE Routed'
  <1>1. ASSUME rows' = rows, own' = own PROVE Routed'
    BY <1>1 DEF Routed
  <1>2. ASSUME NEW p \in Process, NEW label, End(p, label), rows' \subseteq rows \cup own[p]
        PROVE  Routed'
    BY <1>2 DEF Routed, End, Types
  <1>3. ASSUME NEW w \in Wallet, Stamp(w) \/ WalletStep(w), ~Partition(w) PROVE Routed'
    <2>1. w \in Process
      BY DEF Process
    <2>2. CASE Stamp(w) \/ Claim(w) \/ FindActionForUpdate(w)
      BY <1>1, <2>2 DEF Stamp, Claim, FindActionForUpdate, shared
    <2>3. CASE InsertAction(w)
      <3>1. own' = [own EXCEPT ![w] = @ \cup {[at |-> at[w], part |-> at[w]]}]
        BY <2>1, <2>3 DEF InsertAction, Placed, PlacedAt
      <3>2. rows' = rows
        BY <2>3 DEF InsertAction, shared
      <3> QED BY <2>1, <3>1, <3>2 DEF Routed, Types
    <2>4. CASE CommitWallet(w)
      BY <1>2, <2>1, <2>4 DEF CommitWallet
    <2> QED BY <1>3, <2>2, <2>3, <2>4 DEF WalletStep
  <1>4. ASSUME NEW s \in Service, ServiceStep(s), ~Partition(s) PROVE Routed'
    <2>1. s \in Process
      BY DEF Process
    <2>2. CASE CommitMigration(s) \/ InstallFails(s) \/ ReplaceFails(s)
      BY <1>2, <2>1, <2>2 DEF CommitMigration, InstallFails, ReplaceFails, Fail, shared
    <2>3. CASE ~(CommitMigration(s) \/ InstallFails(s) \/ ReplaceFails(s))
      BY <1>1, <1>4, <2>3 DEF ServiceStep, BeginMigration, Install, IndexRegistry, IndexActions,
                              ReplaceFunction, shared
    <2> QED BY <2>2, <2>3
  <1>5. ASSUME NEW p \in Process, Partition(p) PROVE Routed'
    BY <1>1, <1>5 DEF Partition, Ensure, Create, Reference, shared
  <1>6. ASSUME NEW p \in Process, DeadlockVictim(p) PROVE Routed'
    BY <1>2, <1>6 DEF DeadlockVictim, Fail, shared
  <1>7. CASE Tick \/ UNCHANGED vars
    BY <1>1, <1>7 DEF Tick, vars, locals
  <1> QED BY <1>3, <1>4, <1>5, <1>6, <1>7 DEF Next, Returns, Process

-----------------------------------------------------------------------------
(* Who can be the victim of a deadlock.                                      *)

Claimed == <<"action_registry", "row exclusive">>
Indexed == <<"action_registry", "share">>
Creating == <<"actions", "access exclusive">>
Created == <<"action_registry", "share row exclusive">>

WalletLock ==
  {Claimed, Creating, Created, <<"actions", "row share">>, <<"actions", "row exclusive">>}

\* A wallet transaction that has a lock has claimed, and locks actions as a whole only
\* to create a partition, the foreign key of which it copies next.
WalletAt(w) ==
  /\ pc[w] \in {"off", "claim", "find", "ensure", "create", "reference", "insert", "next"}
  /\ locks[w] # {} \/ pc[w] = "insert" => Claimed \in locks[w]
  /\ Creating \in locks[w] => pc[w] = "reference" \/ Created \in locks[w]
  /\ locks[w] \subseteq WalletLock

\* A start-up locks action_registry before actions, and ensures its month before the next.
ServiceAt(s) ==
  /\ pc[s] \in {"off", "install", "index registry", "index actions", "replace", "ensure",
                "create", "reference", "commit", "serving", "down"}
  /\ \A l \in locks[s] : l[1] \in {"actions", "action_registry"} => Indexed \in locks[s]
  /\ pc[s] = "index registry" => \A l \in locks[s] : l[1] = "schema"
  /\ pc[s] = "install" => locks[s] = {} /\ (installed => version > 0)
  /\ pc[s] \in {"off", "install"} => seen[s] = 0
  /\ pc[s] \in {"install", "index registry", "index actions", "replace"} => target[s] = at[s]
  /\ pc[s] \in {"ensure", "create", "reference"} =>
       target[s] = at[s] \/ (target[s] = at[s] + 1 /\ at[s] \in parts \cup made[s])
  /\ pc[s] = "commit" => {at[s], at[s] + 1} \subseteq parts \cup made[s]

StandsAt(p) ==
  /\ p \in Wallet => WalletAt(p)
  /\ p \in Service => ServiceAt(p)
  /\ \A l \in locks[p] : l[1] # "none"
  /\ pc[p] \in {"off", "serving", "down"} => locks[p] = {}
  /\ made[p] # {} \/ own[p] # {} => locks[p] # {}

Standing ==
  /\ prepared \subseteq parts
  /\ version \in Nat /\ seen \in [Process -> Nat]
  /\ \A p \in Process : StandsAt(p)

\* What a step may do to what the transactions share.
LEMMA SharedGrows ==
  ASSUME Types, Standing, [Next]_vars
  PROVE  /\ version' \in Nat
         /\ parts \subseteq parts'
         /\ version > 0 => version' > 0
         /\ installed' => installed \/ version' > 0
  <1>1. version \in Nat
    BY DEF Standing
  <1>2. parts \subseteq parts'
    BY StepParts
  <1>3. UNCHANGED <<installed, version>> \/ version' = version + 1
    <2>1. ASSUME NEW p \in Process, Partition(p) PROVE UNCHANGED <<installed, version>>
      BY <2>1 DEF Partition, Ensure, Create, Reference, shared
    <2>2. ASSUME NEW w \in Wallet, Stamp(w) \/ WalletStep(w), ~Partition(w)
          PROVE  UNCHANGED <<installed, version>>
      BY <2>2 DEF Stamp, WalletStep, Claim, FindActionForUpdate, InsertAction, CommitWallet, shared
    <2>3. ASSUME NEW s \in Service, ServiceStep(s), ~Partition(s)
          PROVE  UNCHANGED <<installed, version>> \/ version' = version + 1
      BY <2>3 DEF ServiceStep, BeginMigration, Install, InstallFails, IndexRegistry, IndexActions,
                  ReplaceFunction, ReplaceFails, CommitMigration, Fail, shared
    <2>4. ASSUME NEW p \in Process, DeadlockVictim(p) PROVE UNCHANGED <<installed, version>>
      BY <2>4 DEF DeadlockVictim, Fail, shared
    <2>5. CASE Tick \/ UNCHANGED vars
      BY <2>5 DEF Tick, vars
    <2> QED BY <2>1, <2>2, <2>3, <2>4, <2>5 DEF Next, Returns, Process
  <1> QED BY <1>1, <1>2, <1>3

LEMMA StandsAlone ==
  ASSUME Types, Standing, [Next]_vars, NEW p \in Process, Alone(p), StandsAt(p)',
         \A q \in Process \ {p} : seen'[q] = seen[q]
  PROVE  \A q \in Process : StandsAt(q)'
  <1>1. ASSUME NEW q \in Process \ {p} PROVE StandsAt(q)'
    <2>1. StandsAt(q)
      BY DEF Standing
    <2>2. /\ pc'[q] = pc[q] /\ at'[q] = at[q] /\ target'[q] = target[q] /\ own'[q] = own[q]
          /\ made'[q] = made[q] /\ locks'[q] = locks[q] /\ seen'[q] = seen[q]
      BY DEF Alone
    <2>3. WalletAt(q) => WalletAt(q)'
      BY <2>2 DEF WalletAt
    <2>4. ASSUME ServiceAt(q) PROVE ServiceAt(q)'
      <3>1. pc[q] = "install" => (installed' => version' > 0)
        BY <2>4, SharedGrows DEF ServiceAt
      <3>2. parts \subseteq parts'
        BY SharedGrows
      <3> QED BY <2>2, <2>4, <3>1, <3>2 DEF ServiceAt
    <2> QED BY <2>1, <2>2, <2>3, <2>4 DEF StandsAt
  <1> QED BY <1>1

LEMMA EndStands ==
  ASSUME Types, Standing, NEW p \in Process, NEW label, End(p, label),
         label \in {"serving", "down"} => p \in Service, label \in {"off", "serving", "down"}
  PROVE  /\ Alone(p) /\ StandsAt(p)'
         /\ seen' \in [Process -> Nat]
         /\ \A q \in Process \ {p} : seen'[q] = seen[q]
  <1>1. Alone(p)
    BY DEF Alone, End, Goto, Types, Standing
  <1>2. pc'[p] = label /\ made'[p] = {} /\ own'[p] = {} /\ locks'[p] = {} /\ seen'[p] = 0
    BY DEF End, Goto, Types, Standing
  <1>3. seen' \in [Process -> Nat] /\ \A q \in Process \ {p} : seen'[q] = seen[q]
    BY DEF End, Standing
  <1> QED BY <1>1, <1>2, <1>3, ProcessAssumption DEF StandsAt, WalletAt, ServiceAt, Process

LEMMA WalletLocksDiffer ==
  /\ Claimed # Creating /\ Created # Creating
  /\ <<"actions", "row share">> # Creating /\ <<"actions", "row exclusive">> # Creating
  /\ <<"actions", "share">> \notin WalletLock
  /\ \A l \in WalletLock : l[1] # "none"
  BY DEF WalletLock, Claimed, Creating, Created

\* A wallet transaction takes a lock and keeps what it has.
LEMMA WalletLocks ==
  ASSUME Types, Standing, NEW w \in Wallet, Lock(w),
         pc'[w] \in {"find", "ensure", "next", "reference", "insert"},
         Wants(w) = Claimed \/ Claimed \in locks[w],
         Wants(w) \in WalletLock,
         Wants(w) = Creating => pc'[w] = "reference",
         pc[w] = "reference" => Wants(w) = Created,
         seen' = seen
  PROVE  StandsAt(w)'
  <1>1. w \in Process /\ w \notin Service
    BY ProcessAssumption DEF Process
  <1>2. locks'[w] = locks[w] \cup {Wants(w)}
    BY <1>1, LockHolds
  <1>3. StandsAt(w)
    BY <1>1 DEF Standing
  <1>4. WalletAt(w)'
    BY <1>2, <1>3, WalletLocksDiffer DEF WalletAt, StandsAt
  <1> QED BY <1>1, <1>2, <1>3, <1>4, WalletLocksDiffer DEF StandsAt

LEMMA PartitionWanted ==
  ASSUME Types, NEW p \in Process
  PROVE  /\ pc[p] = "create" => Wants(p) = Creating
         /\ pc[p] = "reference" => Wants(p) = Created
  BY DEF Wants, PartitionWants, Creating, Created

LEMMA WalletPartition ==
  ASSUME Types, LocksExclude, Placed, Standing, [Next]_vars, NEW w \in Wallet, Partition(w)
  PROVE  StandsAt(w)'
  <1>1. w \in Process /\ w \notin Service
    BY ProcessAssumption DEF Process
  <1>2. StandsAt(w) /\ PlacedAt(w)
    BY <1>1 DEF Standing, Placed
  <1>3. CASE Ensure(w)
    <2>1. /\ pc[w] = "ensure" /\ pc'[w] \in {"insert", "create"}
          /\ locks'[w] = locks[w] /\ made'[w] = made[w] /\ own'[w] = own[w]
      BY <1>1, <1>3 DEF Ensure, Goto, AfterEnsure, Types
    <2>2. WalletAt(w)'
      BY <1>2, <2>1 DEF WalletAt, StandsAt, PlacedAt, Claimed
    <2> QED BY <1>1, <1>2, <2>1, <2>2 DEF StandsAt
  <1>4. CASE Create(w)
    <2>1. pc[w] = "create" /\ pc'[w] = "reference" /\ Lock(w) /\ seen' = seen
      BY <1>1, <1>4 DEF Create, Goto, Types
    <2>2. Wants(w) = Creating
      BY <1>1, <2>1, PartitionWanted
    <2>3. Claimed \in locks[w]
      BY <1>1, <1>2, <2>1 DEF PlacedAt, Claimed
    <2>4. Wants(w) \in WalletLock
      BY <2>2, WalletLocksDiffer DEF WalletLock
    <2> QED BY <2>1, <2>2, <2>3, <2>4, WalletLocks
  <1>5. CASE Reference(w)
    <2>1. pc[w] = "reference" /\ pc'[w] = "insert" /\ Lock(w) /\ seen' = seen
      BY <1>1, <1>5 DEF Reference, Goto, AfterEnsure, Types
    <2>2. Wants(w) = Created
      BY <1>1, <2>1, PartitionWanted
    <2>3. Claimed \in locks[w]
      BY <1>1, <1>2, <2>1 DEF PlacedAt, Claimed
    <2>4. Wants(w) \in WalletLock /\ Wants(w) # Creating
      BY <2>2, WalletLocksDiffer DEF WalletLock
    <2> QED BY <2>1, <2>2, <2>3, <2>4, WalletLocks
  <1> QED BY <1>3, <1>4, <1>5 DEF Partition

LEMMA WalletStands ==
  ASSUME Types, LocksExclude, Placed, Standing, [Next]_vars, NEW w \in Wallet,
         Stamp(w) \/ WalletStep(w)
  PROVE  StandsAt(w)'
  <1>1. w \in Process /\ w \notin Service
    BY ProcessAssumption DEF Process
  <1>2. StandsAt(w) /\ PlacedAt(w)
    BY <1>1 DEF Standing, Placed
  <1>3. CASE Stamp(w)
    <2>1. /\ pc[w] \in {"off", "next"} /\ pc'[w] = "claim"
          /\ locks'[w] = locks[w] /\ made'[w] = made[w] /\ own'[w] = own[w]
      BY <1>1, <1>3 DEF Stamp, Goto, Types
    <2>2. WalletAt(w)'
      BY <1>2, <2>1 DEF WalletAt, StandsAt
    <2> QED BY <1>1, <1>2, <2>1, <2>2 DEF StandsAt
  <1>4. CASE Claim(w)
    <2>1. pc[w] = "claim" /\ pc'[w] \in {"find", "ensure", "next"} /\ Lock(w) /\ seen' = seen
      BY <1>1, <1>4 DEF Claim, Goto, Types
    <2>2. Wants(w) = Claimed
      BY <2>1 DEF Wants, WalletWants, Claimed
    <2>3. Wants(w) \in WalletLock /\ Wants(w) # Creating
      BY <2>2, WalletLocksDiffer DEF WalletLock
    <2> QED BY <2>1, <2>2, <2>3, WalletLocks
  <1>5. CASE FindActionForUpdate(w)
    <2>1. pc[w] = "find" /\ pc'[w] = "ensure" /\ Lock(w) /\ seen' = seen
      BY <1>1, <1>5 DEF FindActionForUpdate, Goto, Types
    <2>2. Wants(w) = <<"actions", "row share">>
      BY <2>1 DEF Wants, WalletWants
    <2>3. Claimed \in locks[w]
      BY <1>2, <2>1 DEF PlacedAt, Claimed
    <2>4. Wants(w) \in WalletLock /\ Wants(w) # Creating
      BY <2>2, WalletLocksDiffer DEF WalletLock
    <2> QED BY <2>1, <2>2, <2>3, <2>4, WalletLocks
  <1>6. CASE InsertAction(w)
    <2>1. pc[w] = "insert" /\ pc'[w] = "next" /\ Lock(w) /\ seen' = seen
      BY <1>1, <1>6 DEF InsertAction, Goto, Types
    <2>2. Wants(w) = <<"actions", "row exclusive">>
      BY <1>1, <2>1 DEF Wants, WalletWants
    <2>3. Claimed \in locks[w]
      BY <1>1, <1>2, <2>1 DEF StandsAt, WalletAt
    <2>4. Wants(w) \in WalletLock /\ Wants(w) # Creating
      BY <2>2, WalletLocksDiffer DEF WalletLock
    <2> QED BY <2>1, <2>2, <2>3, <2>4, WalletLocks
  <1>7. CASE CommitWallet(w)
    <2>1. End(w, "off")
      BY <1>7 DEF CommitWallet
    <2> QED BY <1>1, <2>1, EndStands
  <1>8. CASE Partition(w)
    BY <1>8, WalletPartition
  <1> QED BY <1>3, <1>4, <1>5, <1>6, <1>7, <1>8 DEF WalletStep

LEMMA LocksNameTables ==
  /\ \A l \in {Indexed, Creating, Created, <<"actions", "share">>, <<"schema", "access exclusive">>,
             <<"function", "access exclusive">>} : l[1] # "none"
  /\ \A l \in {<<"schema", "access exclusive">>} : l[1] = "schema"
  BY DEF Indexed, Creating, Created

LEMMA ServicePartition ==
  ASSUME Types, LocksExclude, Placed, Standing, [Next]_vars, NEW s \in Service, Partition(s)
  PROVE  StandsAt(s)'
  <1>1. s \in Process /\ s \notin Wallet
    BY ProcessAssumption DEF Process
  <1>2. StandsAt(s) /\ ServiceAt(s) /\ Indexed \in locks[s]
    <2>1. StandsAt(s) /\ PlacedAt(s) /\ pc[s] \in {"ensure", "create", "reference"}
      BY <1>1 DEF Standing, Placed, Partition, Ensure, Create, Reference
    <2> QED BY <1>1, <2>1 DEF StandsAt, PlacedAt, Indexed
  <1>3. at[s] \in Int /\ target[s] \in Int /\ parts' = parts
    <2>1. at[s] \in 0..MaxMonth /\ target[s] \in Month
      BY <1>1 DEF Types
    <2>2. parts' = parts
      BY <1>1, PartsGrow DEF Partition, Ensure, Create, Reference
    <2> QED BY <2>1, <2>2, NextMonth, Months0
  <1>4. CASE Ensure(s) \/ Create(s)
    <2>1. /\ pc'[s] \in {AfterEnsure(s), "create", "reference"}
          /\ at'[s] = at[s] /\ made'[s] = made[s] /\ own'[s] = own[s] /\ locks[s] \subseteq locks'[s]
      BY <1>1, <1>4, LockHolds DEF Ensure, Create, Goto, Types
    <2>2. \A l \in locks'[s] : l \in locks[s] \/ l = Creating
      BY <1>1, <1>4, LockHolds, PartitionWanted DEF Ensure, Create
    <2>3. pc'[s] \in {"create", "reference"} => target'[s] = target[s]
      BY <1>1, <1>4 DEF Ensure, Create, Goto, AfterEnsure, Types
    <2>4. pc'[s] \notin {"create", "reference"} =>
            pc'[s] = AfterEnsure(s) /\ target'[s] = at[s] + 1 /\ target[s] \in parts \cup made[s]
      BY <1>1, <1>4 DEF Ensure, Create, Goto, Ensured, Types
    <2>5. pc[s] \in {"ensure", "create"}
      BY <1>4 DEF Ensure, Create
    <2>6. AfterEnsure(s) = IF target[s] = at[s] THEN "ensure" ELSE "commit"
      BY <1>1 DEF AfterEnsure
    <2>7. ServiceAt(s)'
      <3>1. \A l \in locks'[s] : l[1] \in {"actions", "action_registry"} => Indexed \in locks'[s]
        BY <1>2, <2>1
      <3>2. CASE pc'[s] \in {"create", "reference"}
        BY <1>2, <1>3, <2>1, <2>3, <2>5, <3>1, <3>2 DEF ServiceAt
      <3>3. CASE pc'[s] \notin {"create", "reference"}
        <4>1. pc'[s] = "ensure" => target[s] = at[s]
          BY <2>4, <2>6, <3>3
        <4>2. pc'[s] = "commit" => target[s] = at[s] + 1 /\ at[s] \in parts \cup made[s]
          BY <1>2, <2>4, <2>5, <2>6, <3>3 DEF ServiceAt
        <4>3. pc'[s] \in {"ensure", "commit"}
          BY <2>4, <2>6, <3>3
        <4> QED BY <1>3, <2>1, <2>4, <3>1, <3>3, <4>1, <4>2, <4>3 DEF ServiceAt
      <3> QED BY <3>2, <3>3
    <2>8. \A l \in locks'[s] : l[1] # "none"
      BY <1>2, <2>2, LocksNameTables DEF StandsAt
    <2>9. pc'[s] \notin {"off", "serving", "down"}
      BY <2>1, <2>6
    <2> QED BY <1>1, <1>2, <2>1, <2>7, <2>8, <2>9 DEF StandsAt
  <1>5. CASE Reference(s)
    <2>1. /\ pc[s] = "reference" /\ pc'[s] = AfterEnsure(s)
          /\ at'[s] = at[s] /\ own'[s] = own[s] /\ target'[s] = at[s] + 1
          /\ made'[s] = made[s] \cup {target[s]}
      BY <1>1, <1>5 DEF Reference, Goto, Ensured, Types
    <2>2. locks'[s] = locks[s] \cup {Created}
      BY <1>1, <1>5, <2>1, LockHolds, PartitionWanted DEF Reference
    <2>3. AfterEnsure(s) = IF target[s] = at[s] THEN "ensure" ELSE "commit"
      BY <1>1 DEF AfterEnsure
    <2>4. ServiceAt(s)'
      <3>1. \A l \in locks'[s] : l[1] \in {"actions", "action_registry"} => Indexed \in locks'[s]
        BY <1>2, <2>2
      <3>2. target[s] = at[s] \/ (target[s] = at[s] + 1 /\ at[s] \in parts \cup made[s])
        BY <1>2, <2>1 DEF ServiceAt
      <3> QED BY <1>3, <2>1, <2>3, <3>1, <3>2 DEF ServiceAt
    <2>5. \A l \in locks'[s] : l[1] # "none"
      BY <1>2, <2>2, LocksNameTables DEF StandsAt
    <2>6. pc'[s] \in {"ensure", "commit"} /\ locks'[s] # {}
      BY <2>1, <2>2, <2>3
    <2> QED BY <1>1, <2>4, <2>5, <2>6 DEF StandsAt
  <1> QED BY <1>4, <1>5 DEF Partition

LEMMA ServiceStands ==
  ASSUME Types, LocksExclude, Placed, Standing, [Next]_vars, NEW s \in Service, ServiceStep(s)
  PROVE  StandsAt(s)'
  <1>1. s \in Process /\ s \notin Wallet
    BY ProcessAssumption DEF Process
  <1>2. StandsAt(s) /\ ServiceAt(s) /\ PlacedAt(s)
    BY <1>1 DEF Standing, StandsAt, Placed
  <1>3. CASE BeginMigration(s)
    <2>1. /\ pc[s] = "off" /\ pc'[s] = IF installed THEN "index registry" ELSE "install"
          /\ locks'[s] = locks[s] /\ made'[s] = made[s] /\ own'[s] = own[s] /\ seen'[s] = seen[s]
          /\ installed' = installed /\ at'[s] = month /\ target'[s] = month
      BY <1>1, <1>3 DEF BeginMigration, Goto, Types, shared
    <2> QED BY <1>1, <1>2, <2>1 DEF StandsAt, ServiceAt
  <1>4. CASE Install(s)
    <2>1. /\ pc[s] = "install" /\ pc'[s] = "index registry"
          /\ at'[s] = at[s] /\ target'[s] = target[s]
          /\ made'[s] = made[s] /\ own'[s] = own[s]
      BY <1>1, <1>4 DEF Install, Goto, Types
    <2>2. Wants(s) = <<"schema", "access exclusive">>
      BY <1>1, <2>1 DEF Wants, MigrationWants
    <2>3. locks'[s] = {<<"schema", "access exclusive">>}
      BY <1>1, <1>2, <1>4, <2>1, <2>2, LockHolds DEF Install, ServiceAt
    <2>4. \A l \in locks'[s] : l[1] = "schema" /\ l[1] # "none"
      BY <2>3, LocksNameTables
    <2> QED BY <1>1, <1>2, <2>1, <2>3, <2>4 DEF StandsAt, ServiceAt
  <1>5. CASE IndexRegistry(s)
    <2>1. /\ pc[s] = "index registry" /\ pc'[s] = "index actions"
          /\ at'[s] = at[s] /\ target'[s] = target[s]
          /\ made'[s] = made[s] /\ own'[s] = own[s]
      BY <1>1, <1>5 DEF IndexRegistry, Goto, Types
    <2>2. Wants(s) = Indexed
      BY <1>1, <2>1 DEF Wants, MigrationWants, Indexed
    <2>3. locks'[s] = locks[s] \cup {Indexed}
      BY <1>1, <1>5, <2>2, LockHolds DEF IndexRegistry
    <2>4. \A l \in locks'[s] : l[1] # "none"
      BY <1>2, <2>3, LocksNameTables DEF StandsAt
    <2> QED BY <1>1, <1>2, <2>1, <2>3, <2>4 DEF StandsAt, ServiceAt
  <1>6. CASE IndexActions(s) \/ ReplaceFunction(s)
    <2>1. /\ pc[s] \in {"index actions", "replace"}
          /\ made'[s] = made[s] /\ own'[s] = own[s] /\ at'[s] = at[s] /\ target'[s] = target[s]
      BY <1>1, <1>6 DEF IndexActions, ReplaceFunction
    <2>2. pc'[s] = IF pc[s] = "replace" THEN "ensure" ELSE "replace"
      BY <1>1, <1>6 DEF IndexActions, ReplaceFunction, Goto, Types
    <2>3. Wants(s) \in {<<"actions", "share">>, <<"function", "access exclusive">>}
      BY <1>1, <2>1 DEF Wants, MigrationWants
    <2>4. locks'[s] = locks[s] \cup {Wants(s)}
      BY <1>1, <1>6, LockHolds DEF IndexActions, ReplaceFunction
    <2>5. Indexed \in locks[s]
      BY <1>2, <2>1 DEF PlacedAt, Indexed
    <2>6. \A l \in locks'[s] : l[1] # "none"
      BY <1>2, <2>3, <2>4, LocksNameTables DEF StandsAt
    <2>7. ServiceAt(s)'
      <3>1. pc'[s] \in {"replace", "ensure"} /\ target'[s] = at'[s]
        BY <1>2, <2>1, <2>2 DEF ServiceAt
      <3>2. Indexed \in locks'[s]
        BY <2>4, <2>5
      <3> QED BY <3>1, <3>2 DEF ServiceAt
    <2> QED BY <1>1, <2>1, <2>2, <2>4, <2>5, <2>6, <2>7 DEF StandsAt
  <1>7. CASE InstallFails(s) \/ ReplaceFails(s)
    <2>1. End(s, "down")
      BY <1>1, <1>7 DEF InstallFails, ReplaceFails, Fail
    <2> QED BY <1>1, <2>1, EndStands
  <1>8. CASE CommitMigration(s)
    <2>1. End(s, "serving") \/ End(s, "off")
      BY <1>8 DEF CommitMigration
    <2> QED BY <1>1, <2>1, EndStands
  <1>9. CASE Partition(s)
    BY <1>9, ServicePartition
  <1> QED BY <1>3, <1>4, <1>5, <1>6, <1>7, <1>8, <1>9 DEF ServiceStep

LEMMA StepSeen ==
  ASSUME Types, Standing, NEW p \in Process,
         \/ p \in Wallet /\ (Stamp(p) \/ WalletStep(p))
         \/ p \in Service /\ ServiceStep(p)
         \/ DeadlockVictim(p)
  PROVE  /\ seen' \in [Process -> Nat]
         /\ \A q \in Process \ {p} : seen'[q] = seen[q]
  <1>1. seen \in [Process -> Nat] /\ version \in Nat
    BY DEF Standing
  <1>2. ASSUME \/ UNCHANGED seen \/ seen' = [seen EXCEPT ![p] = 0]
               \/ seen' = [seen EXCEPT ![p] = version]
        PROVE  /\ seen' \in [Process -> Nat]
               /\ \A q \in Process \ {p} : seen'[q] = seen[q]
    BY <1>1, <1>2
  <1>3. CASE Partition(p)
    BY <1>2, <1>3 DEF Partition, Ensure, Create, Reference
  <1>4. CASE (Stamp(p) \/ WalletStep(p)) /\ ~Partition(p)
    BY <1>2, <1>4 DEF Stamp, WalletStep, Claim, FindActionForUpdate, InsertAction, CommitWallet, End
  <1>5. CASE ServiceStep(p) /\ ~Partition(p)
    BY <1>2, <1>5 DEF ServiceStep, BeginMigration, Install, InstallFails, IndexRegistry,
                      IndexActions, ReplaceFunction, ReplaceFails, CommitMigration, Fail, End
  <1>6. CASE DeadlockVictim(p)
    BY <1>2, <1>6 DEF DeadlockVictim, Fail, End
  <1> QED BY <1>3, <1>4, <1>5, <1>6

\* What start-ups have prepared has its partition.
LEMMA KeepsPrepared ==
  ASSUME Types, Standing, [Next]_vars PROVE prepared' \subseteq parts'
  <1>1. prepared \subseteq parts /\ parts \subseteq parts'
    BY SharedGrows DEF Standing
  <1>2. ASSUME NEW s \in Service, CommitMigration(s) PROVE prepared' \subseteq parts'
    <2>1. {at[s], at[s] + 1} \subseteq parts \cup made[s]
      BY <1>2 DEF Standing, StandsAt, ServiceAt, CommitMigration, Process
    <2> QED BY <1>1, <1>2, <2>1 DEF CommitMigration
  <1>3. CASE \A s \in Service : ~CommitMigration(s)
    <2>1. UNCHANGED prepared
      <3>1. ASSUME NEW p \in Process, Partition(p) \/ DeadlockVictim(p) PROVE UNCHANGED prepared
        BY <3>1 DEF Partition, Ensure, Create, Reference, DeadlockVictim, Fail, shared
      <3>2. ASSUME NEW w \in Wallet, Stamp(w) \/ WalletStep(w), ~Partition(w)
            PROVE  UNCHANGED prepared
        BY <3>2 DEF Stamp, WalletStep, Claim, FindActionForUpdate, InsertAction, CommitWallet, shared
      <3>3. ASSUME NEW s \in Service, ServiceStep(s), ~Partition(s) PROVE UNCHANGED prepared
        BY <1>3, <3>3 DEF ServiceStep, BeginMigration, Install, InstallFails, IndexRegistry,
                          IndexActions, ReplaceFunction, ReplaceFails, Fail, shared
      <3>4. CASE Tick \/ UNCHANGED vars
        BY <3>4 DEF Tick, vars
      <3> QED BY <3>1, <3>2, <3>3, <3>4 DEF Next, Returns, Process
    <2> QED BY <1>1, <2>1
  <1> QED BY <1>2, <1>3

LEMMA KeepsStanding ==
  ASSUME Types, LocksExclude, Placed, Standing, [Next]_vars PROVE Standing'
  <1>1. prepared' \subseteq parts' /\ version' \in Nat
    BY KeepsPrepared, SharedGrows
  <1>2. ASSUME NEW w \in Wallet, Stamp(w) \/ WalletStep(w) PROVE Standing'
    <2>1. w \in Process
      BY DEF Process
    <2>2. /\ seen' \in [Process -> Nat]
          /\ \A q \in Process \ {w} : seen'[q] = seen[q]
      BY <1>2, <2>1, StepSeen
    <2> QED BY <1>1, <1>2, <2>1, <2>2, WalletPlaced, WalletStands, StandsAlone DEF Standing
  <1>3. ASSUME NEW s \in Service, ServiceStep(s) PROVE Standing'
    <2>1. s \in Process
      BY DEF Process
    <2>2. /\ seen' \in [Process -> Nat]
          /\ \A q \in Process \ {s} : seen'[q] = seen[q]
      BY <1>3, <2>1, StepSeen
    <2> QED BY <1>1, <1>3, <2>1, <2>2, ServicePlaced, ServiceStands, StandsAlone DEF Standing
  <1>4. ASSUME NEW p \in Process, DeadlockVictim(p) PROVE Standing'
    <2>1. /\ p \in Wallet /\ End(p, "off")
          \/ /\ p \in Service /\ End(p, "down")
      BY <1>4, ProcessAssumption DEF DeadlockVictim, Fail, Process
    <2>2. /\ Alone(p) /\ StandsAt(p)'
          /\ seen' \in [Process -> Nat] /\ \A q \in Process \ {p} : seen'[q] = seen[q]
      BY <2>1, EndStands
    <2> QED BY <1>1, <2>2, StandsAlone DEF Standing
  <1>5. CASE Tick \/ UNCHANGED vars
    <2>1. UNCHANGED <<installed, parts, version, prepared, pc, locals>>
      BY <1>5 DEF Tick, vars, locals
    <2>2. ASSUME NEW p \in Process PROVE StandsAt(p)'
      <3>1. StandsAt(p)
        BY DEF Standing
      <3>2. WalletAt(p) => WalletAt(p)'
        BY <2>1 DEF WalletAt, locals
      <3>3. ServiceAt(p) => ServiceAt(p)'
        BY <2>1 DEF ServiceAt, locals
      <3> QED BY <2>1, <3>1, <3>2, <3>3 DEF StandsAt, locals
    <2> QED BY <2>1, <2>2 DEF Standing, locals
  <1> QED BY <1>2, <1>3, <1>4, <1>5 DEF Next, Returns

-----------------------------------------------------------------------------
\* Locks that conflict are held by one transaction, its claims and indexes too.
LEMMA NobodyIndexes ==
  ASSUME LocksExclude, NEW p \in Process, NEW q \in Process, p # q, Claimed \in locks[p],
         NEW l \in locks[q], l[1] = "action_registry"
  PROVE  l[2] \notin {"share", "share row exclusive", "access exclusive"}
  <1>1. PICK c \in locks[p] : c = Claimed
    OBVIOUS
  <1>2. c[1] = "action_registry" /\ c[2] = "row exclusive"
    BY <1>1 DEF Claimed
  <1>3. l[2] \notin Conflicts(c[2])
    BY <1>2 DEF LocksExclude
  <1> QED BY <1>2, <1>3 DEF Conflicts

LEMMA ClaimExcludes ==
  ASSUME LocksExclude, NEW p \in Process, NEW q \in Process, p # q, Claimed \in locks[p]
  PROVE  Indexed \notin locks[q] /\ Created \notin locks[q]
  <1>1. /\ Indexed[1] = "action_registry" /\ Indexed[2] = "share"
        /\ Created[1] = "action_registry" /\ Created[2] = "share row exclusive"
    BY DEF Indexed, Created
  <1> QED BY <1>1, NobodyIndexes

LEMMA WalletLocksAre ==
  ASSUME NEW l \in WalletLock
  PROVE  \/ l = Creating
         \/ l[1] = "action_registry"
         \/ l[1] = "actions" /\ l[2] \in {"row share", "row exclusive"}
  <1>1. CASE l = Claimed \/ l = Created
    <2>1. Claimed[1] = "action_registry" /\ Created[1] = "action_registry"
      BY DEF Claimed, Created
    <2> QED BY <1>1, <2>1
  <1>2. CASE l = <<"actions", "row share">>
    BY <1>2
  <1>3. CASE l = <<"actions", "row exclusive">>
    BY <1>3
  <1> QED BY <1>1, <1>2, <1>3 DEF WalletLock

\* What a wallet connection's next statement locks.
LEMMA WalletWanted ==
  ASSUME NEW w \in Wallet, WalletAt(w)
  PROVE  \/ pc[w] \in {"off", "ensure", "next"} /\ Wants(w) = <<"none", "row share">>
         \/ pc[w] = "claim" /\ Wants(w) = Claimed
         \/ pc[w] \in {"find", "insert"} /\ Wants(w) \in {<<"actions", "row share">>,
                                                         <<"actions", "row exclusive">>}
         \/ pc[w] = "create" /\ Wants(w) = Creating
         \/ pc[w] = "reference" /\ Wants(w) = Created
  BY DEF WalletAt, Wants, PartitionWants, WalletWants, Claimed, Creating, Created

\* A creator is for a month that no start-up has prepared.
LEMMA CreatorUnprepared ==
  ASSUME Placed, Standing, NEW w \in Wallet, pc[w] \in {"create", "reference"}
  PROVE  locks[w] # {} /\ at[w] \notin prepared
  <1>1. w \in Process /\ w \notin Service
    BY ProcessAssumption DEF Process
  <1>2. PlacedAt(w) /\ prepared \subseteq parts
    BY <1>1 DEF Placed, Standing
  <1> QED BY <1>1, <1>2 DEF PlacedAt

\* A wallet transaction that has a lock waits for none, but where a partition is created.
LEMMA WaitingWallet ==
  ASSUME Types, LocksExclude, Placed, Standing, NEW w \in Wallet, locks[w] # {},
         NEW q \in Process, WaitsFor(w, q)
  PROVE  \E v \in Wallet : locks[v] # {} /\ at[v] \notin prepared
  <1>1. w \in Process /\ q # w /\ WalletAt(w) /\ Claimed \in locks[w] /\ StandsAt(q)
    BY DEF Process, Standing, StandsAt, WalletAt, WaitsFor
  <1>2. PICK m : m = Wants(w)
    OBVIOUS
  <1>3. PICK l \in locks[q] : l[1] = m[1] /\ l[2] \in Conflicts(m[2])
    BY <1>2 DEF WaitsFor
  <1>4. CASE pc[w] \in {"create", "reference"}
    BY <1>4, CreatorUnprepared
  <1>5. CASE m = <<"none", "row share">>
    BY <1>1, <1>3, <1>5 DEF StandsAt
  <1>6. CASE m = Claimed
    <2>1. m[1] = "action_registry" /\ m[2] = "row exclusive"
      BY <1>6 DEF Claimed
    <2>2. l[1] = "action_registry" /\ l[2] \in {"share", "share row exclusive", "access exclusive"}
      BY <1>3, <2>1 DEF Conflicts
    <2> QED BY <1>1, <2>2, NobodyIndexes
  <1>7. CASE m \in {<<"actions", "row share">>, <<"actions", "row exclusive">>}
    <2>1. m[1] = "actions" /\ m[2] \in {"row share", "row exclusive"}
      <3>1. CASE m = <<"actions", "row share">>
        BY <3>1
      <3>2. CASE m = <<"actions", "row exclusive">>
        BY <3>2
      <3> QED BY <1>7, <3>1, <3>2
    <2>2. l[1] = "actions" /\ l[2] \in {"share", "share row exclusive", "access exclusive"}
      BY <1>3, <2>1 DEF Conflicts
    <2>3. Indexed \notin locks[q] /\ Created \notin locks[q]
      BY <1>1, ClaimExcludes
    <2>4. q \in Wallet /\ WalletAt(q)
      BY <1>1, <2>2, <2>3 DEF StandsAt, ServiceAt, Process
    <2>5. l = Creating
      BY <2>2, <2>4, WalletLocksAre DEF WalletAt
    <2> QED BY <2>3, <2>4, <2>5, CreatorUnprepared DEF WalletAt
  <1> QED BY <1>1, <1>2, <1>4, <1>5, <1>6, <1>7, WalletWanted

\* A transaction of a cycle holds a lock.
LEMMA WaitedFor ==
  ASSUME NEW p, NEW q, WaitsFor(p, q) PROVE locks[q] # {}
  BY DEF WaitsFor

\* No wallet transaction waits for a start-up that waits for nobody else's lock.
LEMMA DeadlockedService ==
  ASSUME Types, LocksExclude, Standing, NEW s \in Service, Deadlocked(s)
  PROVE  \E t \in Service \ {s} : locks[t] # {}
  <1>1. s \in Process /\ s \notin Wallet /\ ServiceAt(s)
    BY ProcessAssumption DEF Process, Standing, StandsAt
  <1>2. PICK S \in SUBSET Process :
          /\ s \in S
          /\ \A q \in S : (\E o \in S : WaitsFor(q, o)) /\ (\E o \in S : WaitsFor(o, q))
    BY DEF Deadlocked
  <1>3. PICK o \in S : WaitsFor(o, s)
    BY <1>2
  <1>4. locks[o] # {} /\ o \in Process /\ o # s
    BY <1>2, <1>3, WaitedFor DEF WaitsFor
  <1>5. ASSUME o \in Wallet PROVE FALSE
    <2>1. WalletAt(o) /\ Claimed \in locks[o]
      BY <1>4, <1>5 DEF Standing, StandsAt, WalletAt
    <2>2. PICK m : m = Wants(o)
      OBVIOUS
    <2>3. PICK l \in locks[s] : l[1] = m[1]
      BY <1>3, <2>2 DEF WaitsFor
    <2>4. l[1] # "none"
      BY <1>1 DEF Standing, StandsAt
    <2>5. m[1] \in {"none", "actions", "action_registry"}
      <3>1. m = <<"none", "row share">> \/ m \in WalletLock
        BY <1>5, <2>1, <2>2, WalletWanted DEF WalletLock
      <3>2. CASE m = <<"none", "row share">>
        BY <3>2
      <3>3. CASE m \in WalletLock
        <4>1. Creating[1] = "actions"
          BY DEF Creating
        <4> QED BY <3>3, <4>1, WalletLocksAre
      <3> QED BY <3>1, <3>2, <3>3
    <2>6. Indexed \in locks[s]
      BY <1>1, <2>3, <2>4, <2>5 DEF ServiceAt
    <2> QED BY <1>1, <1>4, <2>1, <2>6, ClaimExcludes
  <1> QED BY <1>4, <1>5 DEF Process

\* A statement of a wallet fails as the victim of a deadlock only.
LEMMA WalletFails ==
  ASSUME Types, LocksExclude, Placed, Standing, [Next]_vars, NEW w \in Wallet,
         pc[w] \notin {"off", "next"}, pc'[w] = "off"
  PROVE  Deadlocked(w)
  <1>1. w \in Process /\ w \notin Service
    BY ProcessAssumption DEF Process
  <1>2. ASSUME NEW v \in Wallet, Stamp(v) \/ WalletStep(v) PROVE FALSE
    <2>1. CASE v # w
      BY <1>1, <1>2, <2>1, WalletPlaced DEF Alone
    <2>2. CASE v = w /\ Partition(v)
      <3>1. pc'[w] \in {AfterEnsure(w), "create", "reference"}
        BY <1>1, <2>2 DEF Partition, Ensure, Create, Reference, Goto, Types
      <3> QED BY <3>1 DEF AfterEnsure
    <2>3. CASE v = w /\ ~Partition(v)
      BY <1>1, <1>2, <2>3 DEF Stamp, WalletStep, Claim, FindActionForUpdate, InsertAction,
                              CommitWallet, Goto, Types
    <2> QED BY <2>1, <2>2, <2>3
  <1>3. ASSUME NEW s \in Service, ServiceStep(s) PROVE FALSE
    BY <1>1, <1>3, ServicePlaced DEF Alone
  <1>4. ASSUME NEW p \in Process, DeadlockVictim(p) PROVE Deadlocked(w)
    <2>1. p # w => pc'[w] = pc[w]
      BY <1>1, <1>4 DEF DeadlockVictim, Fail, End, Goto, Types
    <2> QED BY <1>4, <2>1 DEF DeadlockVictim
  <1>5. CASE Tick \/ UNCHANGED vars
    BY <1>5 DEF Tick, vars
  <1> QED BY <1>2, <1>3, <1>4, <1>5 DEF Next, Returns

\* A start-up fails on a catalog row another has replaced, or as a deadlock's victim.
LEMMA ServiceFails ==
  ASSUME Types, LocksExclude, Placed, Standing, [Next]_vars, NEW s \in Service,
         pc[s] # "down", pc'[s] = "down"
  PROVE  version # seen[s] \/ Deadlocked(s)
  <1>1. s \in Process /\ s \notin Wallet /\ ServiceAt(s) /\ version \in Nat
    BY ProcessAssumption DEF Process, Standing, StandsAt
  <1>2. ASSUME NEW w \in Wallet, Stamp(w) \/ WalletStep(w) PROVE FALSE
    BY <1>1, <1>2, WalletPlaced DEF Alone
  <1>3. ASSUME NEW t \in Service, ServiceStep(t) PROVE version # seen[s]
    <2>1. t = s
      BY <1>1, <1>3, ServicePlaced DEF Alone
    <2>2. CASE InstallFails(s)
      BY <1>1, <2>2 DEF InstallFails, ServiceAt
    <2>3. CASE ReplaceFails(s)
      BY <2>3 DEF ReplaceFails
    <2>4. CASE Partition(s)
      <3>1. pc'[s] \in {AfterEnsure(s), "create", "reference"}
        BY <1>1, <2>4 DEF Partition, Ensure, Create, Reference, Goto, Types
      <3> QED BY <3>1 DEF AfterEnsure
    <2>5. CASE ~(InstallFails(s) \/ ReplaceFails(s) \/ Partition(s))
      BY <1>1, <1>3, <2>1, <2>5 DEF ServiceStep, BeginMigration, Install, IndexRegistry,
           IndexActions, ReplaceFunction, CommitMigration, End, Goto, Types
    <2> QED BY <2>2, <2>3, <2>4, <2>5
  <1>4. ASSUME NEW p \in Process, DeadlockVictim(p) PROVE Deadlocked(s)
    <2>1. p # s => pc'[s] = pc[s]
      BY <1>1, <1>4 DEF DeadlockVictim, Fail, End, Goto, Types
    <2> QED BY <1>4, <2>1 DEF DeadlockVictim
  <1>5. CASE Tick \/ UNCHANGED vars
    BY <1>5 DEF Tick, vars
  <1> QED BY <1>2, <1>3, <1>4, <1>5 DEF Next, Returns

-----------------------------------------------------------------------------
\* What no lock depends on.
Counts == installed \in BOOLEAN /\ left \in [Process -> Nat]

LEMMA OneLess ==
  ASSUME Counts, NEW p \in Process, left[p] > 0
  PROVE  [left EXCEPT ![p] = @ - 1] \in [Process -> Nat]
  <1>1. left[p] - 1 \in Nat
    BY DEF Counts
  <1> QED BY <1>1 DEF Counts

LEMMA KeepsCounts == ASSUME Counts, [Next]_vars PROVE Counts'
  <1>1. ASSUME NEW p \in Process, Partition(p) \/ DeadlockVictim(p) PROVE Counts'
    BY <1>1 DEF Partition, Ensure, Create, Reference, DeadlockVictim, Fail, shared, Counts
  <1>2. ASSUME NEW w \in Wallet, Stamp(w) PROVE Counts'
    <2>1. left[w] > 0 /\ left' = [left EXCEPT ![w] = @ - 1] /\ installed' = installed
      BY <1>2 DEF Stamp, shared
    <2> QED BY <2>1, OneLess DEF Counts, Process
  <1>3. ASSUME NEW w \in Wallet, WalletStep(w), ~Partition(w) PROVE Counts'
    BY <1>3 DEF WalletStep, Claim, FindActionForUpdate, InsertAction, CommitWallet, shared, Counts
  <1>4. ASSUME NEW s \in Service, BeginMigration(s) PROVE Counts'
    <2>1. left[s] > 0 /\ left' = [left EXCEPT ![s] = @ - 1] /\ installed' = installed
      BY <1>4 DEF BeginMigration, shared
    <2> QED BY <2>1, OneLess DEF Counts, Process
  <1>5. ASSUME NEW s \in Service, ServiceStep(s), ~Partition(s), ~BeginMigration(s) PROVE Counts'
    BY <1>5 DEF ServiceStep, Install, InstallFails, IndexRegistry, IndexActions,
                ReplaceFunction, ReplaceFails, CommitMigration, Fail, shared, Counts
  <1>6. CASE Tick \/ UNCHANGED vars
    BY <1>6 DEF Tick, vars, locals, Counts
  <1> QED BY <1>1, <1>2, <1>3, <1>4, <1>5, <1>6 DEF Next, Returns, Process

-----------------------------------------------------------------------------
IInv == Types /\ LocksExclude /\ Routed /\ Placed /\ Standing /\ Counts

LEMMA InitHolds == Init => IInv
  <1> SUFFICES ASSUME Init PROVE IInv
    OBVIOUS
  <1>1. Types
    BY Months0 DEF Init, Types, Label
  <1>2. LocksExclude
    BY DEF Init, LocksExclude
  <1>3. Routed
    BY DEF Init, Routed
  <1>4. Placed
    BY DEF Init, Placed, PlacedAt
  <1>5. Standing
    <2>1. ASSUME NEW p \in Process PROVE StandsAt(p)
      BY DEF Init, StandsAt, WalletAt, ServiceAt
    <2> QED BY <2>1 DEF Init, Standing
  <1>6. Counts
    BY BeginsAssumption DEF Init, Counts, Process
  <1> QED BY <1>1, <1>2, <1>3, <1>4, <1>5, <1>6 DEF IInv

LEMMA StepHolds == IInv /\ [Next]_vars => IInv'
  BY StepTypes, KeepsLocksApart, KeepsRouted, KeepsPlaced, KeepsStanding, KeepsCounts DEF IInv

LEMMA Inductive == Spec => []IInv
  BY InitHolds, StepHolds, PTL DEF Spec

\* Locks that exclude one another are held by one transaction at a time.
THEOREM LocksAreExclusive == Spec => []LocksExclude
  <1>1. IInv => LocksExclude
    BY DEF IInv
  <1> QED BY <1>1, Inductive, PTL

\* Every action lies in the partition of the month it was stamped with
\* (ensureActionPartition before each INSERT, processor.ts:166, 296).
THEOREM ActionsAreRouted == Spec => []RoutedToMonth
  <1>1. IInv => RoutedToMonth
    BY DEF IInv, Routed, RoutedToMonth
  <1> QED BY <1>1, Inductive, PTL

\* A creator never meets the partition it has looked for in vain, nor rows for it in
\* actions_default: the check before the lock is safe (schema.sql:88-90).
THEOREM NoPartitionTwice == Spec => []CreatesOnce
  <1>1. IInv => CreatesOnce
    <2> SUFFICES ASSUME IInv, NEW p \in Process, pc[p] = "create" PROVE Creatable(p)
      BY DEF CreatesOnce
    <2>1. target[p] \notin parts
      BY DEF IInv, Placed, PlacedAt
    <2>2. ASSUME NEW r \in rows PROVE ~(r.part = Default /\ r.at = target[p])
      <3>1. r.part = r.at
        BY DEF IInv, Routed
      <3>2. target[p] \in Int
        BY Months0 DEF IInv, Types
      <3> QED BY <3>1, <3>2, MonthAssumption
    <2> QED BY <2>1, <2>2 DEF Creatable, Ensured
  <1> QED BY <1>1, Inductive, PTL

\* A wallet transaction is a deadlock's victim only when one that is open is for a month
\* no start-up has prepared (schema.sql:60, 63, 100).
THEOREM DeadlocksOnlyUnprepared == Spec => FailsOnlyUnprepared
  <1>1. IInv /\ [Next]_vars =>
          [(\E w \in Wallet : pc[w] \notin {"off", "next"} /\ pc'[w] = "off") =>
             \E v \in Wallet : locks[v] # {} /\ at[v] \notin prepared]_vars
    <2> SUFFICES ASSUME IInv, [Next]_vars, NEW w \in Wallet,
                        pc[w] \notin {"off", "next"}, pc'[w] = "off"
                 PROVE  \E v \in Wallet : locks[v] # {} /\ at[v] \notin prepared
      OBVIOUS
    <2>1. PICK S \in SUBSET Process :
            /\ w \in S
            /\ \A q \in S : (\E o \in S : WaitsFor(q, o)) /\ (\E o \in S : WaitsFor(o, q))
      BY WalletFails DEF IInv, Deadlocked
    <2>2. PICK o \in S : WaitsFor(w, o)
      BY <2>1
    <2>3. locks[w] # {}
      BY <2>1, WaitedFor
    <2> QED BY <2>2, <2>3, WaitingWallet DEF IInv
  <1> QED BY <1>1, Inductive, PTL DEF Spec, FailsOnlyUnprepared

\* A start-up dies only of another service's (README.md:118).
THEOREM StartUpsMeetWallets == Spec => AloneItStarts
  <1>1. IInv /\ [Next]_vars =>
          [\A s \in Service : pc[s] # "down" /\ pc'[s] = "down" =>
             version # seen[s] \/ \E t \in Service \ {s} : locks[t] # {}]_vars
    BY ServiceFails, DeadlockedService DEF IInv
  <1> QED BY <1>1, Inductive, PTL DEF Spec, AloneItStarts

\* Every variable has its type: no month lies past the next, and only open transactions
\* hold locks, partitions or rows.
THEOREM TypeCorrect == Spec => []TypeOK
  <1>1. IInv => TypeOK
    <2> SUFFICES ASSUME IInv PROVE TypeOK
      OBVIOUS
    <2>1. /\ month \in 0..MaxMonth /\ installed \in BOOLEAN
          /\ parts \subseteq Month /\ prepared \subseteq Month
          /\ version \in Nat
      BY DEF IInv, Types, Standing, Counts
    <2>2. rows \subseteq AnyRow /\ own \in [Process -> SUBSET AnyRow]
      BY DEF IInv, Types
    <2>3. pc \in [Process -> Label] /\ made \in [Process -> SUBSET Month]
      BY DEF IInv, Types
    <2>4. at \in [Process -> Month]
      <3>1. \A p \in Process : at[p] \in Month
        BY NextMonth DEF IInv, Types
      <3> QED BY <3>1 DEF IInv, Types
    <2>5. target \in [Process -> 0..(MaxMonth + 2)]
      <3>1. Month \subseteq 0..(MaxMonth + 2)
        BY MonthAssumption DEF Month
      <3> QED BY <3>1 DEF IInv, Types
    <2>6. seen \in [Process -> Nat] /\ left \in [Process -> Nat]
      BY DEF IInv, Standing, Counts
    <2>7. \A p \in Process :
            /\ made[p] # {} \/ own[p] # {} => locks[p] # {}
            /\ pc[p] \in {"off", "serving", "down"} => locks[p] = {}
      BY DEF IInv, Standing, StandsAt
    <2> QED BY <2>1, <2>2, <2>3, <2>4, <2>5, <2>6, <2>7 DEF TypeOK, AnyRow, Label
  <1> QED BY <1>1, Inductive, PTL

=============================================================================
