------------------------------- MODULE Months -------------------------------
(***************************************************************************)
(* The month partitions of actions (src/sql/schema.sql), which every wallet *)
(* transaction makes sure of before it inserts (src/processor.ts) and every *)
(* start-up makes ready for this month and the next (src/db/migrate.ts,     *)
(* docker-compose.yml), with the table locks through which they meet.       *)
(***************************************************************************)
EXTENDS Integers, FiniteSets

CONSTANTS
  Wallet,      \* connections that run wallet transactions
  Service,     \* containers that are starting
  Begins,      \* how often a service runs schema.sql before it serves; bound: the
               \* actions of a wallet connection, retries included
  MaxMonth,    \* bound: the last month the clock reaches
  Default      \* the partition actions_default

ASSUME ProcessAssumption == Wallet \cap Service = {}
ASSUME MonthAssumption == MaxMonth \in Nat /\ Default \notin Int
ASSUME BeginsAssumption ==
  Begins \in [Wallet \cup Service -> Nat] /\ \A s \in Service : Begins[s] > 0

Process == Wallet \cup Service
Month == 0..(MaxMonth + 1)

VARIABLES
  month,      \* the clock
  installed,  \* schema.sql has been committed
  parts,      \* the months that have a partition, committed
  rows,       \* actions, committed: the month of created_at and the partition
  version,    \* of ensure_actions_month_partition
  prepared,   \* the months committed migrations have been asked for
  pc,         \* where each process is
  at,         \* ledgerCreatedAt, and now() of a migration
  target,     \* the month a process makes sure of
  made,       \* the partitions its open transaction has created
  own,        \* the rows its open transaction has inserted
  locks,      \* the locks its open transaction holds
  seen,       \* the version a migration has looked up
  left        \* what each process may still begin

vars == <<month, installed, parts, rows, version, prepared, pc, at, target, made, own,
          locks, seen, left>>
locals == <<at, target, made, own, locks, seen, left>>
shared == <<month, installed, parts, rows, version, prepared>>

\* The last start-up was in the month before, or earlier, or the volume is new.
Init ==
  /\ month = 0
  /\ installed \in BOOLEAN
  /\ parts \in IF installed THEN {{0}, {}} ELSE {{}}
  /\ rows = {}
  /\ version = 0
  /\ prepared = parts
  /\ pc = [p \in Process |-> "off"]
  /\ at = [p \in Process |-> 0]
  /\ target = [p \in Process |-> 0]
  /\ made = [p \in Process |-> {}]
  /\ own = [p \in Process |-> {}]
  /\ locks = [p \in Process |-> {}]
  /\ seen = [p \in Process |-> 0]
  /\ left = Begins

-----------------------------------------------------------------------------
(* Locks. *)

Conflicts(mode) ==
  CASE mode = "row share" -> {"access exclusive"}
    [] mode = "row exclusive" -> {"share", "share row exclusive", "access exclusive"}
    [] mode = "share" -> {"row exclusive", "share row exclusive", "access exclusive"}
    [] mode = "share row exclusive" ->
         {"row exclusive", "share", "share row exclusive", "access exclusive"}
    [] mode = "access exclusive" ->
         {"row share", "row exclusive", "share", "share row exclusive", "access exclusive"}

WalletWants(w) ==
  CASE pc[w] = "claim" -> <<"action_registry", "row exclusive">>
    [] pc[w] = "find" -> <<"actions", "row share">>
    [] pc[w] = "insert" -> <<"actions", "row exclusive">>
    [] OTHER -> <<"none", "row share">>

\* Seeded bug: the indexes of actions come before those of action_registry.
MigrationWantsSwapped(s) ==
  CASE pc[s] = "install" -> <<"schema", "access exclusive">>
    [] pc[s] = "index registry" -> <<"actions", "share">>
    [] pc[s] = "index actions" -> <<"action_registry", "share">>
    [] pc[s] = "replace" -> <<"function", "access exclusive">>
    [] OTHER -> <<"none", "row share">>

\* The rows that CREATE EXTENSION and CREATE OR REPLACE FUNCTION write into the catalog
\* keep others off like a lock; CREATE INDEX IF NOT EXISTS locks its table whether the
\* index exists or not.
MigrationWants(s) ==
  CASE pc[s] = "install" -> <<"schema", "access exclusive">>
    [] pc[s] = "index registry" -> <<"action_registry", "share">>
    [] pc[s] = "index actions" -> <<"actions", "share">>
    [] pc[s] = "replace" -> <<"function", "access exclusive">>
    [] OTHER -> <<"none", "row share">>

\* Seeded bug: actions has no foreign key.
PartitionWantsParent(p) == <<"actions", "access exclusive">>

\* A partition is created under the parent's lock, and the copy of its foreign key
\* under that of the table it references.
PartitionWants(p) ==
  IF pc[p] = "create" THEN <<"actions", "access exclusive">>
  ELSE <<"action_registry", "share row exclusive">>

\* The lock the statement at pc takes.
Wants(p) ==
  IF pc[p] \in {"create", "reference"} THEN PartitionWants(p)
  ELSE IF p \in Wallet THEN WalletWants(p) ELSE MigrationWants(p)

WaitsFor(p, q) ==
  /\ p # q
  /\ \E l \in locks[q] : l[1] = Wants(p)[1] /\ l[2] \in Conflicts(Wants(p)[2])

Granted(p) == \A q \in Process : ~WaitsFor(p, q)

Lock(p) == locks' = [locks EXCEPT ![p] = @ \cup {Wants(p)}]
Goto(p, label) == pc' = [pc EXCEPT ![p] = label]

\* Seeded bug: after an error the connection keeps its transaction open.
EndOpen(p, label) ==
  /\ Goto(p, label)
  /\ UNCHANGED <<at, target, made, own, locks, seen>>

\* The transaction of p is over.
End(p, label) ==
  /\ Goto(p, label)
  /\ at' = [at EXCEPT ![p] = 0]
  /\ target' = [target EXCEPT ![p] = 0]
  /\ made' = [made EXCEPT ![p] = {}]
  /\ own' = [own EXCEPT ![p] = {}]
  /\ locks' = [locks EXCEPT ![p] = {}]
  /\ seen' = [seen EXCEPT ![p] = 0]

\* A statement fails.  A request is answered 500 and may come again; a service exits,
\* and docker-compose.yml starts nothing again.
Fail(p) ==
  /\ End(p, IF p \in Wallet THEN "off" ELSE "down")
  /\ UNCHANGED <<shared, left>>

-----------------------------------------------------------------------------
(* ensure_actions_month_partition *)

\* Seeded bug: the row that is about to be inserted is given the clock's month.
EnsuredNow(p) == IF p \in Wallet THEN month ELSE target[p]

Ensured(p) == target[p]

\* Seeded bug: a start-up prepares the current month only.
AfterEnsureOne(p) == IF p \in Wallet THEN "insert" ELSE "commit"

\* A wallet goes on to its insert, a start-up to the second month.
AfterEnsure(p) ==
  IF p \in Wallet THEN "insert" ELSE IF target[p] = at[p] THEN "ensure" ELSE "commit"

Ensure(p) ==
  /\ pc[p] = "ensure"
  /\ \/ /\ Ensured(p) \in parts \cup made[p]
        /\ Goto(p, AfterEnsure(p))
        /\ target' = [target EXCEPT ![p] = IF p \in Service THEN at[p] + 1 ELSE @]
     \/ /\ Ensured(p) \notin parts \cup made[p]
        /\ Goto(p, "create") /\ UNCHANGED target
  /\ UNCHANGED <<shared, at, made, own, locks, seen, left>>

\* CREATE TABLE looks for the name again, and through actions_default for rows that
\* belong into the new partition, once the lock is granted (CreatesOnce: it finds
\* neither, and does not fail).
Creatable(p) ==
  /\ Ensured(p) \notin parts
  /\ \A r \in rows : ~(r.part = Default /\ r.at = Ensured(p))

Create(p) ==
  /\ pc[p] = "create" /\ Granted(p) /\ Creatable(p)
  /\ Lock(p) /\ Goto(p, "reference")
  /\ UNCHANGED <<shared, at, target, made, own, seen, left>>

Reference(p) ==
  /\ pc[p] = "reference" /\ Granted(p)
  /\ Lock(p) /\ Goto(p, AfterEnsure(p))
  /\ made' = [made EXCEPT ![p] = @ \cup {Ensured(p)}]
  /\ target' = [target EXCEPT ![p] = IF p \in Service THEN at[p] + 1 ELSE @]
  /\ UNCHANGED <<shared, at, own, seen, left>>

-----------------------------------------------------------------------------
(* A wallet transaction, as far as it touches action_registry and actions. *)

\* claimAtcion takes the time before its statement waits.
Stamp(w) ==
  /\ pc[w] \in {"off", "next"} /\ left[w] > 0 /\ installed
  /\ at' = [at EXCEPT ![w] = month]
  /\ target' = [target EXCEPT ![w] = month]
  /\ left' = [left EXCEPT ![w] = @ - 1]
  /\ Goto(w, "claim")
  /\ UNCHANGED <<shared, made, own, locks, seen>>

\* A rollback looks for its original, a bet or a win goes on, a replay is over.
Claim(w) ==
  /\ pc[w] = "claim" /\ Granted(w)
  /\ Lock(w)
  /\ \E label \in {"find", "ensure", "next"} : Goto(w, label)
  /\ UNCHANGED <<shared, at, target, made, own, seen, left>>

FindActionForUpdate(w) ==
  /\ pc[w] = "find" /\ Granted(w)
  /\ Lock(w) /\ Goto(w, "ensure")
  /\ UNCHANGED <<shared, at, target, made, own, seen, left>>

InsertAction(w) ==
  LET part == IF at[w] \in parts \cup made[w] THEN at[w] ELSE Default IN
  /\ pc[w] = "insert" /\ Granted(w)
  /\ own' = [own EXCEPT ![w] = @ \cup {[at |-> at[w], part |-> part]}]
  /\ Lock(w) /\ Goto(w, "next")
  /\ UNCHANGED <<shared, at, target, made, seen, left>>

CommitWallet(w) ==
  /\ pc[w] = "next"
  /\ rows' = rows \cup own[w]
  /\ parts' = parts \cup made[w]
  /\ End(w, "off")
  /\ UNCHANGED <<month, installed, version, prepared, left>>

-----------------------------------------------------------------------------
(* schema.sql, one implicit transaction *)

\* CREATE EXTENSION and CREATE TABLE, IF NOT EXISTS
BeginMigration(s) ==
  /\ pc[s] = "off" /\ left[s] > 0
  /\ at' = [at EXCEPT ![s] = month]
  /\ target' = [target EXCEPT ![s] = month]
  /\ left' = [left EXCEPT ![s] = @ - 1]
  /\ Goto(s, IF installed THEN "index registry" ELSE "install")
  /\ UNCHANGED <<shared, made, own, locks, seen>>

\* The extension is not there yet, and two that install it meet in its unique index.
Install(s) ==
  /\ pc[s] = "install" /\ Granted(s) /\ ~installed
  /\ Lock(s) /\ Goto(s, "index registry")
  /\ UNCHANGED <<shared, at, target, made, own, seen, left>>

InstallFails(s) ==
  /\ pc[s] = "install" /\ Granted(s) /\ installed
  /\ Fail(s)

IndexRegistry(s) ==
  /\ pc[s] = "index registry" /\ Granted(s)
  /\ Lock(s) /\ Goto(s, "index actions")
  /\ UNCHANGED <<shared, at, target, made, own, seen, left>>

IndexActions(s) ==
  /\ pc[s] = "index actions" /\ Granted(s)
  /\ Lock(s) /\ Goto(s, "replace")
  /\ seen' = [seen EXCEPT ![s] = version]
  /\ UNCHANGED <<shared, at, target, made, own, left>>

\* CREATE OR REPLACE FUNCTION updates the catalog row it has looked up.
ReplaceFunction(s) ==
  /\ pc[s] = "replace" /\ Granted(s) /\ version = seen[s]
  /\ Lock(s) /\ Goto(s, "ensure")
  /\ UNCHANGED <<shared, at, target, made, own, seen, left>>

ReplaceFails(s) ==
  /\ pc[s] = "replace" /\ Granted(s) /\ version # seen[s]
  /\ Fail(s)

\* The service serves when its last migration is through.
CommitMigration(s) ==
  /\ pc[s] = "commit"
  /\ installed' = TRUE
  /\ version' = version + 1
  /\ parts' = parts \cup made[s]
  /\ prepared' = prepared \cup {at[s], at[s] + 1}
  /\ End(s, IF left[s] = 0 THEN "serving" ELSE "off")
  /\ UNCHANGED <<month, rows, left>>

-----------------------------------------------------------------------------
\* A cycle of transactions that wait for one another.
Deadlocked(p) ==
  \E S \in SUBSET Process :
    /\ p \in S
    /\ \A q \in S : (\E o \in S : WaitsFor(q, o)) /\ (\E o \in S : WaitsFor(o, q))

DeadlockVictim(p) == Deadlocked(p) /\ Fail(p)

Tick ==
  /\ month < MaxMonth
  /\ month' = month + 1
  /\ UNCHANGED <<installed, parts, rows, version, prepared, pc, locals>>

Partition(p) == Ensure(p) \/ Create(p) \/ Reference(p)

WalletStep(w) ==
  \/ Claim(w) \/ FindActionForUpdate(w) \/ InsertAction(w) \/ CommitWallet(w) \/ Partition(w)

ServiceStep(s) ==
  \/ BeginMigration(s) \/ Install(s) \/ InstallFails(s) \/ IndexRegistry(s) \/ IndexActions(s)
  \/ ReplaceFunction(s) \/ ReplaceFails(s) \/ CommitMigration(s) \/ Partition(s)

\* While some statement is not waiting, one returns; and deadlock_timeout expires.
Returns ==
  \/ \E w \in Wallet : WalletStep(w)
  \/ \E s \in Service : ServiceStep(s)
  \/ \E p \in Process : DeadlockVictim(p)

Next ==
  \/ Tick
  \/ \E w \in Wallet : Stamp(w)
  \/ Returns

Spec == Init /\ [][Next]_vars

FairSpec == Spec /\ WF_vars(Returns)

-----------------------------------------------------------------------------
(* Properties. *)

\* Every variable has its type, and only open transactions hold anything.
TypeOK ==
  /\ month \in 0..MaxMonth /\ installed \in BOOLEAN
  /\ parts \subseteq Month /\ prepared \subseteq Month
  /\ rows \subseteq [at : Month, part : Month \cup {Default}]
  /\ version \in Nat
  /\ pc \in [Process -> {"off", "claim", "find", "ensure", "create", "reference", "insert",
                         "next", "install", "index registry", "index actions", "replace",
                         "commit", "serving", "down"}]
  /\ at \in [Process -> Month] /\ target \in [Process -> 0..(MaxMonth + 2)]
  /\ made \in [Process -> SUBSET Month]
  /\ own \in [Process -> SUBSET [at : Month, part : Month \cup {Default}]]
  /\ seen \in [Process -> Nat] /\ left \in [Process -> Nat]
  /\ \A p \in Process :
       /\ made[p] # {} \/ own[p] # {} => locks[p] # {}
       /\ pc[p] \in {"off", "serving", "down"} => locks[p] = {}

\* Every action lies in the partition of the month it was stamped with, however long
\* its transaction waited and whoever created the partition: actions_default stays
\* empty (schema.sql:57), and a later CREATE TABLE never finds rows in it.
RoutedToMonth == \A r \in rows : r.part = r.at

\* ensure_actions_month_partition looks for the partition before it takes the lock it
\* creates under, and yet never meets it there: whoever may want it has claimed an
\* action, and to have the foreign key a creator outlasts all claims (schema.sql:90).
CreatesOnce == \A p \in Process : pc[p] = "create" /\ Granted(p) => Creatable(p)

\* A wallet transaction is the victim of a deadlock only when one that is open is for
\* a month no start-up has prepared: start-ups beside running wallets deadlock with
\* none, by the order in which they lock the tables (schema.sql:60, 63, 100).
FailsOnlyUnprepared ==
  [][(\E w \in Wallet : pc[w] \notin {"off", "next"} /\ pc'[w] = "off") =>
       \E v \in Wallet : locks[v] # {} /\ at[v] \notin prepared]_vars

\* A start-up dies only of another service's: never of the wallet transactions it
\* meets, nor alone, on a new volume or at a month's edge (README.md:118).
AloneItStarts ==
  [][\A s \in Service : pc[s] # "down" /\ pc'[s] = "down" =>
       version # seen[s] \/ \E t \in Service \ {s} : locks[t] # {}]_vars

\* Every transaction that has a lock ends, deadlocks included.
TransactionsEnd == \A p \in Process : locks[p] # {} ~> locks[p] = {}

\* README.md:118: "Docker starts PostgreSQL, the API, and `rtp-worker`."
AllStart == \A s \in Service : pc[s] # "down"

=============================================================================
