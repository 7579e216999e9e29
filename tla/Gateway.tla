------------------------------ MODULE Gateway ------------------------------
(***************************************************************************)
(* What stands before the wallet transaction: the checks of a call, the      *)
(* connection pool it waits in, the numbers it computes with, and the end of *)
(* the process (src/http/app.ts, src/index.ts, src/db/pool.ts; the Rust      *)
(* service's routes.rs and main.rs).  A process call is reduced to one bet    *)
(* or win; BetProcessor is about the rest of it.                            *)
(***************************************************************************)
EXTENDS Integers, Sequences, FiniteSets

CONSTANTS
  Call,      \* calls; a call sent again is another one
  ShapesOf,  \* what each call may be
  Account,   \* accounts of the shapes
  Seeded,    \* the balances accounts may begin with
  PoolSize,  \* PG_POOL_SIZE
  Precise,   \* 2^53: up to here a double tells integers apart
  MaxBig,    \* 2^63 - 1: what bigint and i64 hold
  NoShape    \* not a shape

Shape == UNION {ShapesOf[c] : c \in Call}

ASSUME PoolAssumption == PoolSize \in Nat \ {0}
ASSUME ShapeAssumption ==
  /\ NoShape \notin Shape
  /\ Shape \subseteq [route : {"process", "report", "healthz"}, signed : BOOLEAN,
                      wellformed : BOOLEAN, valid : BOOLEAN, account : Account, delta : Int]
ASSUME WidthAssumption ==
  Precise \in Nat /\ Precise >= 4 /\ MaxBig \in Nat /\ Seeded \subseteq 0..MaxBig

VARIABLES
  runtime,  \* the service: "ts" or "rust"
  phase,    \* of the process
  shape,    \* of each call that has come
  stage,    \* where each call is
  checks,   \* the checks it has not passed yet
  answer,   \* the status it was answered with (0: none yet)
  queue,    \* calls that wait for a connection
  idle,     \* connections in the pool
  balance,  \* accounts.balance
  booked    \* the sum of balance_delta over the account's actions

vars == <<runtime, phase, shape, stage, checks, answer, queue, idle, balance, booked>>
ledger == <<balance, booked>>
pool == <<queue, idle>>

Init ==
  /\ runtime \in {"ts", "rust"}
  /\ phase = "up"
  /\ shape = [c \in Call |-> NoShape]
  /\ stage = [c \in Call |-> "out"]
  /\ checks = [c \in Call |-> <<>>]
  /\ answer = [c \in Call |-> 0]
  /\ queue = <<>>
  /\ idle = PoolSize
  /\ \E b \in Seeded : balance = [a \in Account |-> b]
  /\ booked = [a \in Account |-> 0]

Goto(c, label) == stage' = [stage EXCEPT ![c] = label]

Answer(c, status) ==
  /\ Goto(c, "answered")
  /\ answer' = [answer EXCEPT ![c] = status]

-----------------------------------------------------------------------------
(* The checks of a call *)

\* Seeded bug: the exemption of /healthz takes in every GET.
ChecksPosted(route) ==
  CASE route = "healthz" -> <<>>
    [] runtime = "ts" /\ route = "process" -> <<"parse", "auth", "schema">>
    [] runtime = "rust" /\ route = "process" -> <<"auth", "parse", "schema">>
    [] route = "report" -> <<"schema">>

\* In the order in which the frameworks come to them.
Checks(route) ==
  CASE route = "healthz" -> <<>>
    [] runtime = "ts" /\ route = "process" -> <<"parse", "auth", "schema">>
    [] runtime = "ts" /\ route = "report" -> <<"auth", "schema">>
    [] runtime = "rust" /\ route = "process" -> <<"auth", "parse", "schema">>
    [] runtime = "rust" /\ route = "report" -> <<"schema", "auth">>

Magnitude(n) == IF n < 0 THEN -n ELSE n

\* serde takes what fits an i64; z.number().int() takes every whole number.
Passes(s, check) ==
  CASE check = "parse" -> s.wellformed
    [] check = "auth" -> s.signed
    [] check = "schema" -> s.valid /\ (runtime = "rust" => Magnitude(s.delta) <= MaxBig)

Refusal(check) ==
  CASE check = "parse" -> IF runtime = "ts" THEN 500 ELSE 400
    [] check = "auth" -> 403
    [] check = "schema" -> 400

Arrive(c, s) ==
  /\ stage[c] = "out" /\ phase = "up"
  /\ shape' = [shape EXCEPT ![c] = s]
  /\ checks' = [checks EXCEPT ![c] = Checks(s.route)]
  /\ Goto(c, "checked")
  /\ UNCHANGED <<runtime, phase, answer, pool, ledger>>

\* return503OnClosing
ArriveLate(c, s) ==
  /\ stage[c] = "out" /\ phase = "closing"
  /\ shape' = [shape EXCEPT ![c] = s]
  /\ Answer(c, 503)
  /\ UNCHANGED <<runtime, phase, checks, pool, ledger>>

Check(c) ==
  /\ stage[c] = "checked" /\ checks[c] # <<>>
  /\ \/ /\ Passes(shape[c], Head(checks[c]))
        /\ checks' = [checks EXCEPT ![c] = Tail(@)]
        /\ UNCHANGED <<stage, answer>>
     \/ /\ ~Passes(shape[c], Head(checks[c]))
        /\ Answer(c, Refusal(Head(checks[c]))) /\ UNCHANGED checks
  /\ UNCHANGED <<runtime, phase, shape, pool, ledger>>

Healthz(c) ==
  /\ stage[c] = "checked" /\ checks[c] = <<>> /\ shape[c].route = "healthz"
  /\ Answer(c, 200)
  /\ UNCHANGED <<runtime, phase, shape, checks, pool, ledger>>

-----------------------------------------------------------------------------
(* The pool, and the transaction as far as it holds a connection *)

AskPool(c) ==
  /\ stage[c] = "checked" /\ checks[c] = <<>> /\ shape[c].route # "healthz"
  /\ queue' = Append(queue, c)
  /\ Goto(c, "queued")
  /\ UNCHANGED <<runtime, phase, shape, checks, answer, idle, ledger>>

Connect(c) ==
  /\ stage[c] = "queued" /\ queue # <<>> /\ c = Head(queue) /\ idle > 0
  /\ queue' = Tail(queue)
  /\ idle' = idle - 1
  /\ Goto(c, "connected")
  /\ UNCHANGED <<runtime, phase, shape, checks, answer, ledger>>

\* A call stands in the queue once at most.
Without(c) ==
  IF \E i \in DOMAIN queue : queue[i] = c
    THEN LET i == CHOOSE j \in DOMAIN queue : queue[j] = c
         IN SubSeq(queue, 1, i - 1) \o SubSeq(queue, i + 1, Len(queue))
    ELSE queue

\* sqlx gives up after 30 seconds; pg waits for as long as it takes.
AcquireTimeout(c) ==
  /\ runtime = "rust" /\ stage[c] = "queued" /\ idle = 0
  /\ queue' = Without(c)
  /\ Answer(c, 500)
  /\ UNCHANGED <<runtime, phase, shape, checks, idle, ledger>>

\* lockAccount waits for the row.
LockAccount(c) ==
  /\ stage[c] = "connected" /\ shape[c].route = "process"
  /\ \A d \in Call \ {c} : ~(stage[d] = "locked" /\ shape[d].account = shape[c].account)
  /\ Goto(c, "locked")
  /\ UNCHANGED <<runtime, phase, shape, checks, answer, pool, ledger>>

\* Seeded bug: the finally block is left out, and only a success releases the client.
EndLeaking(c, status) ==
  /\ Answer(c, status)
  /\ idle' = IF status = 200 THEN idle + 1 ELSE idle
  /\ UNCHANGED queue

\* The transaction is over, the connection is back in the pool, the call is answered.
End(c, status) ==
  /\ Answer(c, status)
  /\ idle' = idle + 1
  /\ UNCHANGED queue

\* Seeded bug: numbers go through a type of one bit less.
UnitSingle(n) == IF 2 * n <= Precise THEN 1 ELSE IF n <= Precise THEN 2 ELSE 4

\* How far apart doubles of the size of n are.
Unit(n) == IF n <= Precise THEN 1 ELSE IF n <= 2 * Precise THEN 2 ELSE 4

\* The double nearest to a whole number, up to 4 * Precise; ties to even.
Double(n) ==
  LET m == Magnitude(n)
      u == Unit(m)
      low == (m \div u) * u
      near == IF 2 * (m - low) < u \/ (2 * (m - low) = u /\ (m \div u) % 2 = 0)
                THEN low ELSE low + u
  IN IF n < 0 THEN -near ELSE near

\* An i64 that overflows comes around, in a release build.
Wrapped(n) == IF n > MaxBig THEN n - 2 * (MaxBig + 1) ELSE n

\* The amount as the service has it, and the balance it computes.
Delta(c) == IF runtime = "ts" THEN Double(shape[c].delta) ELSE shape[c].delta
NextBalance(c) ==
  LET b == balance[shape[c].account] IN
  IF runtime = "ts" THEN Double(Double(b) + Delta(c)) ELSE Wrapped(b + Delta(c))

\* Seeded bug: the check of the funds is left out.
CoveredAlways(c) == TRUE

Covered(c) == NextBalance(c) >= 0

\* What a bigint column takes.
Fits(n) == Magnitude(n) <= MaxBig

Move(c) ==
  LET a == shape[c].account IN
  /\ stage[c] = "locked" /\ Covered(c)
  /\ Fits(NextBalance(c)) /\ Fits(Delta(c))
  /\ balance' = [balance EXCEPT ![a] = NextBalance(c)]
  /\ booked' = [booked EXCEPT ![a] = @ + Delta(c)]
  /\ End(c, 200)
  /\ UNCHANGED <<runtime, phase, shape, checks>>

InsufficientFunds(c) ==
  /\ stage[c] = "locked" /\ ~Covered(c)
  /\ End(c, 422)
  /\ UNCHANGED <<runtime, phase, shape, checks, ledger>>

\* A statement fails, if only because a number is out of bigint's range.
StatementFails(c) ==
  /\ stage[c] \in {"connected", "locked"}
  /\ End(c, 500)
  /\ UNCHANGED <<runtime, phase, shape, checks, ledger>>

Report(c) ==
  /\ stage[c] = "connected" /\ shape[c].route = "report"
  /\ End(c, 200)
  /\ UNCHANGED <<runtime, phase, shape, checks, ledger>>

\* The client leaves: the Rust handler is dropped where it waits and its transaction
\* rolled back, a TypeScript handler goes on.
Disconnect(c) ==
  /\ runtime = "rust" /\ stage[c] \in {"checked", "queued", "connected", "locked"}
  /\ queue' = Without(c)
  /\ idle' = IF stage[c] \in {"connected", "locked"} THEN idle + 1 ELSE idle
  /\ Goto(c, "cut")
  /\ UNCHANGED <<runtime, phase, shape, checks, answer, ledger>>

-----------------------------------------------------------------------------
(* SIGTERM *)

InFlight == {c \in Call : stage[c] \in {"checked", "queued", "connected", "locked"}}

Signal ==
  /\ phase = "up" /\ runtime = "ts"
  /\ phase' = "closing"
  /\ UNCHANGED <<runtime, shape, stage, checks, answer, pool, ledger>>

\* The Rust service handles no signal, and the shell of docker-compose.yml passes none
\* on: the process is killed as it is.
Kill ==
  /\ phase \in {"up", "closing"}
  /\ phase' = "killed"
  /\ stage' = [c \in Call |-> IF c \in InFlight THEN "cut" ELSE stage[c]]
  /\ queue' = <<>> /\ idle' = PoolSize
  /\ UNCHANGED <<runtime, shape, checks, answer, ledger>>

\* Seeded bug: shutdown does not await app.close().
ClosedAtOnce == TRUE

\* app.close() waits for the calls that are in flight.
Closed == InFlight = {}

\* pool.end() refuses those that still want a connection, and the process exits when
\* the others have given theirs back.
EndPool ==
  /\ phase = "closing" /\ Closed
  /\ phase' = "ending"
  /\ stage' = [c \in Call |-> IF stage[c] \in {"checked", "queued"} THEN "cut" ELSE stage[c]]
  /\ queue' = <<>>
  /\ UNCHANGED <<runtime, shape, checks, answer, idle, ledger>>

Exit ==
  /\ phase = "ending" /\ idle = PoolSize
  /\ phase' = "exited"
  /\ UNCHANGED <<runtime, shape, stage, checks, answer, pool, ledger>>

-----------------------------------------------------------------------------
Step(c) ==
  \/ Check(c) \/ Healthz(c) \/ AskPool(c) \/ Connect(c) \/ LockAccount(c)
  \/ Move(c) \/ InsufficientFunds(c) \/ StatementFails(c) \/ Report(c)

Turns == (\E c \in Call : Step(c)) \/ EndPool \/ Exit

Next ==
  \/ \E c \in Call : \E s \in ShapesOf[c] : Arrive(c, s) \/ ArriveLate(c, s)
  \/ \E c \in Call : AcquireTimeout(c) \/ Disconnect(c)
  \/ Turns \/ Signal \/ Kill

Spec == Init /\ [][Next]_vars

\* The event loop turns while it has something to do: the pool hands a free connection
\* on, and statements that do not wait return.
FairSpec == Spec /\ WF_vars(Turns)

-----------------------------------------------------------------------------
(* Properties. *)

\* Every variable has its type: among them, balances stay within 0 and the column's
\* width whatever the service's numbers do.
TypeOK ==
  /\ runtime \in {"ts", "rust"} /\ phase \in {"up", "closing", "ending", "exited", "killed"}
  /\ shape \in [Call -> Shape \cup {NoShape}]
  /\ stage \in [Call -> {"out", "checked", "queued", "connected", "locked", "answered", "cut"}]
  /\ answer \in [Call -> {0, 200, 400, 403, 422, 500, 503}]
  /\ queue \in Seq(Call) /\ idle \in 0..PoolSize
  /\ balance \in [Account -> 0..MaxBig] /\ booked \in [Account -> Int]
  /\ \A c \in Call : (stage[c] = "answered") = (answer[c] # 0)

\* Whatever reaches the pool, or is answered from the database, was signed and took
\* the whole of its service's checks, in whatever order (app.ts:31, routes.rs:38).
VettedOnly ==
  \A c \in Call :
    stage[c] \in {"queued", "connected", "locked"} \/ answer[c] = 422
      \/ (answer[c] = 200 /\ shape[c].route # "healthz") =>
    /\ shape[c].signed /\ shape[c].valid
    /\ shape[c].route = "process" => shape[c].wellformed

\* Every connection is in the pool or with one call, whatever failed, timed out or
\* went away (transaction.ts:13).
PoolAccounted ==
  idle + Cardinality({c \in Call : stage[c] \in {"connected", "locked"}}) = PoolSize

\* A TypeScript call that was let in is answered, although the calls of one account may
\* hold every connection while they wait for its row, and although the process may be
\* told to stop: a transaction needs no second connection (pool.ts:8), and the pool
\* ends after the calls (index.ts:12).
EveryCallAnswered ==
  \A c \in Call :
    runtime = "ts" /\ stage[c] # "out" ~> answer[c] # 0 \/ phase = "killed"

\* A balance moves by what the ledger books, below 2^53 in the TypeScript service (at
\* 2^53 itself 2^53 + 1 may have been rounded) and up to the width of the column in the
\* Rust service (pool.ts:3).
MovesExactly ==
  [][\A a \in Account :
       runtime = "rust" \/ (balance[a] < Precise /\ balance'[a] < Precise) =>
         balance'[a] - balance[a] = booked'[a] - booked[a]]_vars

=============================================================================
