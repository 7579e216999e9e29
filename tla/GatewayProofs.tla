---------------------------- MODULE GatewayProofs ----------------------------
(***************************************************************************)
(* For any calls, pool, widths and accounts: no connection is lost, nothing  *)
(* unvetted reaches the database, and balances move by what is booked.  Each *)
(* of the three has an invariant of its own; the types rest on all of them.  *)
(***************************************************************************)
EXTENDS Gateway, FiniteSetTheorems, TLAPS

Stage == {"out", "checked", "queued", "connected", "locked", "answered", "cut"}
WithConnection == {"connected", "locked"}

\* The calls that hold a connection.
Busy == {c \in Call : stage[c] \in WithConnection}

Staged == stage \in [Call -> Stage]

PoolInv ==
  /\ Staged
  /\ idle \in Nat
  /\ IsFiniteSet(Busy)
  /\ idle + Cardinality(Busy) = PoolSize

-----------------------------------------------------------------------------
(* The pool *)

\* A finite set gains one element.
LEMMA Grows ==
  ASSUME NEW S, IsFiniteSet(S), NEW x, x \notin S
  PROVE  IsFiniteSet(S \cup {x}) /\ Cardinality(S) \in Nat
         /\ Cardinality(S \cup {x}) = Cardinality(S) + 1
  BY FS_AddElement, FS_CardinalityType

\* A finite set loses one of its elements.
LEMMA Shrinks ==
  ASSUME NEW S, IsFiniteSet(S), NEW x, x \in S
  PROVE  IsFiniteSet(S \ {x}) /\ Cardinality(S) \in Nat
         /\ Cardinality(S \ {x}) = Cardinality(S) - 1
  BY FS_RemoveElement, FS_CardinalityType

\* A call that goes somewhere takes a connection with it, or does not.
LEMMA BusyMoves ==
  ASSUME Staged, NEW c \in Call, NEW label \in Stage, Goto(c, label)
  PROVE  /\ Staged'
         /\ label \in WithConnection => Busy' = Busy \cup {c}
         /\ label \notin WithConnection => Busy' = Busy \ {c}
  BY DEF Staged, Stage, Busy, Goto

\* A step that leaves the pool alone moves calls within, or outside of, those that are busy.
LEMMA PoolStays ==
  ASSUME PoolInv, Staged', idle' = idle, Busy' = Busy PROVE PoolInv'
  BY DEF PoolInv

\* A call takes a connection from the pool.
LEMMA PoolTakes ==
  ASSUME PoolInv, Staged', idle > 0, idle' = idle - 1, NEW c \in Call, c \notin Busy,
         Busy' = Busy \cup {c}
  PROVE  PoolInv'
  <1>1. PICK B : B = Busy
    OBVIOUS
  <1>2. IsFiniteSet(B \cup {c}) /\ Cardinality(B) \in Nat
        /\ Cardinality(B \cup {c}) = Cardinality(B) + 1
    BY <1>1, Grows DEF PoolInv
  <1>3. PICK n \in Nat : n = Cardinality(B)
    BY <1>2
  <1>4. idle \in Nat /\ idle + n = PoolSize
    BY <1>1, <1>3 DEF PoolInv
  <1>5. idle' \in Nat /\ idle' + (n + 1) = PoolSize
    BY <1>4
  <1> QED BY <1>1, <1>2, <1>3, <1>5 DEF PoolInv

\* A busy call gives its connection back.
LEMMA PoolGivesBack ==
  ASSUME PoolInv, Staged', idle' = idle + 1, NEW c \in Call, c \in Busy,
         Busy' = Busy \ {c}
  PROVE  PoolInv'
  <1>1. PICK B : B = Busy
    OBVIOUS
  <1>2. IsFiniteSet(B \ {c}) /\ Cardinality(B) \in Nat
        /\ Cardinality(B \ {c}) = Cardinality(B) - 1
    BY <1>1, Shrinks DEF PoolInv
  <1>3. PICK n \in Nat : n = Cardinality(B)
    BY <1>2
  <1>4. idle \in Nat /\ idle + n = PoolSize
    BY <1>1, <1>3 DEF PoolInv
  <1>5. idle' \in Nat /\ idle' + (n - 1) = PoolSize
    BY <1>4
  <1> QED BY <1>1, <1>2, <1>3, <1>5 DEF PoolInv

\* End gives the connection of a busy call back.
LEMMA EndGivesBack ==
  ASSUME PoolInv, NEW c \in Call, stage[c] \in WithConnection, NEW status, End(c, status)
  PROVE  PoolInv'
  <1>1. Goto(c, "answered") /\ idle' = idle + 1
    BY DEF End, Answer
  <1>2. Staged' /\ Busy' = Busy \ {c} /\ c \in Busy
    BY <1>1, BusyMoves DEF PoolInv, Stage, WithConnection, Busy
  <1> QED BY <1>1, <1>2, PoolGivesBack

\* No step loses a connection or makes one up.
LEMMA PoolSteps == ASSUME PoolInv, [Next]_vars PROVE PoolInv'
  <1>1. ASSUME NEW c \in Call, NEW label \in Stage, label \notin WithConnection,
               Goto(c, label), stage[c] \notin WithConnection, idle' = idle
        PROVE  PoolInv'
    <2>1. Staged' /\ Busy' = Busy
      BY <1>1, BusyMoves DEF PoolInv, Busy
    <2> QED BY <1>1, <2>1, PoolStays
  <1>2. ASSUME NEW c \in Call, NEW s \in ShapesOf[c], Arrive(c, s) \/ ArriveLate(c, s)
        PROVE  PoolInv'
    BY <1>1, <1>2 DEF Arrive, ArriveLate, Answer, pool, Stage, WithConnection
  <1>3. ASSUME NEW c \in Call, Check(c) \/ Healthz(c) \/ AskPool(c) PROVE PoolInv'
    <2>1. CASE UNCHANGED <<stage, idle>>
      BY <2>1, PoolStays DEF PoolInv, Staged, Busy
    <2> QED BY <1>1, <1>3, <2>1 DEF Check, Healthz, AskPool, Answer, pool, Stage, WithConnection
  <1>4. ASSUME NEW c \in Call, Connect(c) PROVE PoolInv'
    <2>1. Goto(c, "connected") /\ idle' = idle - 1 /\ idle > 0 /\ stage[c] = "queued"
      BY <1>4 DEF Connect
    <2>2. Staged' /\ Busy' = Busy \cup {c} /\ c \notin Busy
      BY <2>1, BusyMoves DEF PoolInv, Stage, WithConnection, Busy
    <2> QED BY <2>1, <2>2, PoolTakes
  <1>5. ASSUME NEW c \in Call, AcquireTimeout(c) PROVE PoolInv'
    BY <1>1, <1>5 DEF AcquireTimeout, Answer, Stage, WithConnection
  <1>6. ASSUME NEW c \in Call, LockAccount(c) PROVE PoolInv'
    <2>1. Goto(c, "locked") /\ idle' = idle /\ stage[c] = "connected"
      BY <1>6 DEF LockAccount, pool
    <2>2. Staged' /\ Busy' = Busy \cup {c} /\ c \in Busy
      BY <2>1, BusyMoves DEF PoolInv, Stage, WithConnection, Busy
    <2> QED BY <2>1, <2>2, PoolStays
  <1>7. ASSUME NEW c \in Call, Move(c) \/ InsufficientFunds(c) \/ StatementFails(c) \/ Report(c)
        PROVE  PoolInv'
    BY <1>7, EndGivesBack DEF Move, InsufficientFunds, StatementFails, Report, WithConnection
  <1>8. ASSUME NEW c \in Call, Disconnect(c) PROVE PoolInv'
    <2>1. Goto(c, "cut") /\ (stage[c] \in WithConnection => idle' = idle + 1)
          /\ (stage[c] \notin WithConnection => idle' = idle)
      BY <1>8 DEF Disconnect, WithConnection
    <2>2. CASE stage[c] \in WithConnection
      <3>1. Staged' /\ Busy' = Busy \ {c} /\ c \in Busy
        BY <2>1, <2>2, BusyMoves DEF PoolInv, Stage, WithConnection, Busy
      <3> QED BY <2>1, <2>2, <3>1, PoolGivesBack
    <2>3. CASE stage[c] \notin WithConnection
      BY <1>1, <2>1, <2>3 DEF Stage, WithConnection
    <2> QED BY <2>2, <2>3
  <1>9. CASE Kill
    <2>1. Staged' /\ Busy' = {}
      BY <1>9 DEF Kill, PoolInv, Staged, Stage, Busy, WithConnection, InFlight
    <2>2. idle' = PoolSize
      BY <1>9 DEF Kill
    <2> QED BY <2>1, <2>2, FS_EmptySet, PoolAssumption DEF PoolInv
  <1>10. CASE EndPool
    <2>1. Staged' /\ Busy' = Busy
      BY <1>10 DEF EndPool, PoolInv, Staged, Stage, Busy, WithConnection
    <2> QED BY <1>10, <2>1, PoolStays DEF EndPool
  <1>11. CASE Signal \/ Exit \/ UNCHANGED vars
    <2>1. UNCHANGED <<stage, idle>>
      BY <1>11 DEF Signal, Exit, vars, pool
    <2> QED BY <2>1, PoolStays DEF PoolInv, Staged, Busy
  <1> QED BY <1>2, <1>3, <1>4, <1>5, <1>6, <1>7, <1>8, <1>9, <1>10, <1>11
          DEF Next, Turns, Step

\* All connections are in the pool in the initial state.
LEMMA InitPool == Init => PoolInv
  <1> SUFFICES ASSUME Init PROVE PoolInv
    OBVIOUS
  <1>1. Staged /\ Busy = {} /\ idle = PoolSize
    BY DEF Init, Staged, Stage, Busy, WithConnection
  <1> QED BY <1>1, FS_EmptySet, PoolAssumption DEF PoolInv

\* No connection is lost and none is lent twice, whatever fails, times out, goes away or
\* is killed (transaction.ts:13).
THEOREM NoConnectionLost == Spec => []PoolAccounted
  <1>1. Init => PoolInv
    BY InitPool
  <1>2. PoolInv /\ [Next]_vars => PoolInv'
    BY PoolSteps
  <1>3. PoolInv => PoolAccounted
    BY DEF PoolInv, PoolAccounted, Busy, WithConnection
  <1> QED BY <1>1, <1>2, <1>3, PTL DEF Spec

-----------------------------------------------------------------------------
(* The checks *)

CheckName == {"parse", "auth", "schema"}

Awaits(c, check) == \E i \in 1..Len(checks[c]) : checks[c][i] = check

\* A call has passed a check or has it before it.
Checking(c) ==
  /\ shape[c].signed \/ Awaits(c, "auth")
  /\ shape[c].valid \/ Awaits(c, "schema")
  /\ shape[c].route = "process" => shape[c].wellformed \/ Awaits(c, "parse")

Vetted(c) ==
  /\ shape[c].signed /\ shape[c].valid
  /\ shape[c].route = "process" => shape[c].wellformed

VetTypes ==
  /\ runtime \in {"ts", "rust"}
  /\ shape \in [Call -> Shape \cup {NoShape}]
  /\ Staged
  /\ checks \in [Call -> Seq(CheckName)]
  /\ answer \in [Call -> Nat]

VetAt(c) ==
  /\ stage[c] # "out" => shape[c] \in Shape
  /\ stage[c] # "answered" => answer[c] = 0
  /\ stage[c] = "checked" /\ shape[c].route # "healthz" => Checking(c)
  /\ stage[c] \in {"queued", "connected", "locked"} => Vetted(c)
  /\ answer[c] = 422 \/ (answer[c] = 200 /\ shape[c].route # "healthz") => Vetted(c)

VetInv == VetTypes /\ \A c \in Call : VetAt(c)

\* Every shape of request is one of the kinds that arrive.
LEMMA ShapeTyped ==
  ASSUME NEW s \in Shape
  PROVE  s.route \in {"process", "report", "healthz"} /\ s.signed \in BOOLEAN
         /\ s.wellformed \in BOOLEAN /\ s.valid \in BOOLEAN
         /\ s.account \in Account /\ s.delta \in Int
  BY ShapeAssumption

\* The checks of a request are the two, in the order of the service.
LEMMA ChecksListed ==
  ASSUME runtime \in {"ts", "rust"}, NEW route \in {"process", "report", "healthz"}
  PROVE  /\ Checks(route) \in Seq(CheckName)
         /\ route # "healthz" =>
              /\ \E i \in 1..Len(Checks(route)) : Checks(route)[i] = "auth"
              /\ \E i \in 1..Len(Checks(route)) : Checks(route)[i] = "schema"
         /\ route = "process" => \E i \in 1..Len(Checks(route)) : Checks(route)[i] = "parse"
  <1>1. CASE route = "healthz"
    <2>1. Checks(route) = <<>>
      BY <1>1 DEF Checks
    <2> QED BY <2>1, <1>1
  <1>2. CASE route = "process" /\ runtime = "ts"
    <2>1. Checks(route) = <<"parse", "auth", "schema">>
      BY <1>2 DEF Checks
    <2>2. <<"parse", "auth", "schema">> \in Seq(CheckName)
      BY DEF CheckName
    <2> QED BY <2>1, <2>2, <1>2
  <1>3. CASE route = "process" /\ runtime = "rust"
    <2>1. Checks(route) = <<"auth", "parse", "schema">>
      BY <1>3 DEF Checks
    <2>2. <<"auth", "parse", "schema">> \in Seq(CheckName)
      BY DEF CheckName
    <2> QED BY <2>1, <2>2, <1>3
  <1>4. CASE route = "report" /\ runtime = "ts"
    <2>1. Checks(route) = <<"auth", "schema">>
      BY <1>4 DEF Checks
    <2>2. <<"auth", "schema">> \in Seq(CheckName)
      BY DEF CheckName
    <2> QED BY <2>1, <2>2, <1>4
  <1>5. CASE route = "report" /\ runtime = "rust"
    <2>1. Checks(route) = <<"schema", "auth">>
      BY <1>5 DEF Checks
    <2>2. <<"schema", "auth">> \in Seq(CheckName)
      BY DEF CheckName
    <2> QED BY <2>1, <2>2, <1>5
  <1> QED BY <1>1, <1>2, <1>3, <1>4, <1>5

\* A check that is done leaves the others to be done.
LEMMA TailKeeps ==
  ASSUME NEW S, NEW q \in Seq(S), q # <<>>, NEW x, x # Head(q),
         \E i \in 1..Len(q) : q[i] = x
  PROVE  Tail(q) \in Seq(S) /\ \E i \in 1..Len(Tail(q)) : Tail(q)[i] = x
  <1>1. PICK i \in 1..Len(q) : q[i] = x
    OBVIOUS
  <1>2. i # 1 /\ i - 1 \in 1..Len(Tail(q)) /\ Tail(q)[i - 1] = x
    BY <1>1
  <1> QED BY <1>2

\* A call that leaves its checks and its answer alone is as vetted as it was.
LEMMA SameCall ==
  ASSUME VetInv, VetTypes', NEW c \in Call,
         stage'[c] = stage[c] \/ stage'[c] \in {"answered", "cut"},
         stage'[c] # "answered" => answer'[c] = answer[c],
         stage[c] # "out",
         answer'[c] \in {200, 422} => answer'[c] = answer[c] \/ Vetted(c)
                                       \/ (answer'[c] = 200 /\ shape[c].route = "healthz"),
         shape'[c] = shape[c], checks'[c] = checks[c],
         stage[c] = "answered" => stage'[c] = "answered"
  PROVE  VetAt(c)'
  BY DEF VetInv, VetAt, Vetted, Checking, Awaits

\* A step of one call leaves the others as vetted as they were.
LEMMA OtherCall ==
  ASSUME VetInv, NEW c \in Call, stage'[c] = stage[c], answer'[c] = answer[c],
         shape'[c] = shape[c], checks'[c] = checks[c]
  PROVE  VetAt(c)'
  BY DEF VetInv, VetAt, Vetted, Checking, Awaits

\* An answer to a call that is in flight.
LEMMA AnswerVets ==
  ASSUME VetInv, NEW c \in Call, stage[c] \notin {"out", "answered"}, NEW status \in Nat,
         Answer(c, status), UNCHANGED <<runtime, shape, checks>>,
         status \in {200, 422} => Vetted(c) \/ (status = 200 /\ shape[c].route = "healthz")
  PROVE  VetInv'
  <1>1. /\ stage' = [stage EXCEPT ![c] = "answered"]
        /\ answer' = [answer EXCEPT ![c] = status]
    BY DEF Answer, Goto
  <1>2. VetTypes'
    BY <1>1 DEF VetInv, VetTypes, Staged, Stage
  <1>3. VetAt(c)'
    BY <1>1, <1>2, SameCall DEF VetInv, VetTypes, Staged
  <1>4. ASSUME NEW d \in Call, d # c PROVE VetAt(d)'
    BY <1>1, <1>4, OtherCall DEF VetInv, VetTypes, Staged
  <1> QED BY <1>2, <1>3, <1>4 DEF VetInv

\* A call that goes on within the transaction, or into it once all is checked.
LEMMA GoesOnVetted ==
  ASSUME VetInv, NEW c \in Call, NEW label \in {"queued", "connected", "locked", "cut"},
         stage[c] \notin {"out", "answered"}, Vetted(c) \/ label = "cut", Goto(c, label),
         UNCHANGED <<runtime, shape, checks, answer>>
  PROVE  VetInv'
  <1>1. stage' = [stage EXCEPT ![c] = label]
    BY DEF Goto
  <1>2. VetTypes'
    BY <1>1 DEF VetInv, VetTypes, Staged, Stage
  <1>3. VetAt(c)'
    BY <1>1 DEF VetInv, VetTypes, Staged, VetAt, Vetted
  <1>4. ASSUME NEW d \in Call, d # c PROVE VetAt(d)'
    BY <1>1, <1>4, OtherCall DEF VetInv, VetTypes, Staged
  <1> QED BY <1>2, <1>3, <1>4 DEF VetInv

\* A call that arrives has all its checks ahead of it.
LEMMA ArrivesUnchecked ==
  ASSUME VetInv, NEW c \in Call, NEW s \in ShapesOf[c], Arrive(c, s) PROVE VetInv'
  <1>1. s \in Shape
    BY DEF Shape
  <1>2. /\ stage' = [stage EXCEPT ![c] = "checked"] /\ stage[c] = "out"
        /\ shape' = [shape EXCEPT ![c] = s]
        /\ checks' = [checks EXCEPT ![c] = Checks(s.route)]
        /\ UNCHANGED <<runtime, answer>>
    BY DEF Arrive, Goto
  <1>3. PICK list : list = Checks(s.route)
    OBVIOUS
  <1>4. /\ list \in Seq(CheckName)
        /\ s.route # "healthz" =>
             /\ \E i \in 1..Len(list) : list[i] = "auth"
             /\ \E i \in 1..Len(list) : list[i] = "schema"
        /\ s.route = "process" => \E i \in 1..Len(list) : list[i] = "parse"
    <2>1. runtime \in {"ts", "rust"} /\ s.route \in {"process", "report", "healthz"}
      BY <1>1, ShapeTyped DEF VetInv, VetTypes
    <2> QED BY <2>1, <1>3, ChecksListed
  <1>5. VetTypes'
    <2>1. shape' \in [Call -> Shape \cup {NoShape}]
      BY <1>1, <1>2 DEF VetInv, VetTypes
    <2>2. checks' \in [Call -> Seq(CheckName)]
      BY <1>2, <1>3, <1>4 DEF VetInv, VetTypes
    <2>3. Staged'
      BY <1>2 DEF VetInv, VetTypes, Staged, Stage
    <2> QED BY <1>2, <2>1, <2>2, <2>3 DEF VetInv, VetTypes
  <1>6. shape'[c] = s /\ checks'[c] = list /\ stage'[c] = "checked" /\ answer'[c] = 0
    BY <1>2, <1>3 DEF VetInv, VetTypes, Staged, VetAt
  <1>7. VetAt(c)'
    BY <1>1, <1>4, <1>6 DEF VetAt, Checking, Awaits
  <1>8. ASSUME NEW d \in Call, d # c PROVE VetAt(d)'
    BY <1>2, <1>8, OtherCall DEF VetInv, VetTypes, Staged
  <1> QED BY <1>5, <1>7, <1>8 DEF VetInv

\* A call that arrives while the service stops is turned away.
LEMMA ArrivesLate ==
  ASSUME VetInv, NEW c \in Call, NEW s \in ShapesOf[c], ArriveLate(c, s) PROVE VetInv'
  <1>1. s \in Shape
    BY DEF Shape
  <1>2. /\ stage' = [stage EXCEPT ![c] = "answered"]
        /\ answer' = [answer EXCEPT ![c] = 503]
        /\ shape' = [shape EXCEPT ![c] = s]
        /\ UNCHANGED <<runtime, checks>>
    BY DEF ArriveLate, Answer, Goto
  <1>3. VetTypes'
    BY <1>1, <1>2 DEF VetInv, VetTypes, Staged, Stage
  <1>4. VetAt(c)'
    BY <1>1, <1>2 DEF VetInv, VetTypes, Staged, VetAt
  <1>5. ASSUME NEW d \in Call, d # c PROVE VetAt(d)'
    BY <1>2, <1>5, OtherCall DEF VetInv, VetTypes, Staged
  <1> QED BY <1>3, <1>4, <1>5 DEF VetInv

\* A check is passed, or the call is answered with its refusal.
LEMMA ChecksOnePart == ASSUME VetInv, NEW c \in Call, Check(c) PROVE VetInv'
  <1>1. stage[c] = "checked" /\ checks[c] # <<>> /\ checks[c] \in Seq(CheckName)
        /\ UNCHANGED <<runtime, shape>>
    BY DEF Check, VetInv, VetTypes
  <1>2. PICK head : head = Head(checks[c])
    OBVIOUS
  <1>3. head \in CheckName
    BY <1>1, <1>2
  <1>4. CASE Passes(shape[c], head) /\ checks' = [checks EXCEPT ![c] = Tail(@)]
             /\ UNCHANGED <<stage, answer>>
    <2>1. PICK rest : rest = Tail(checks[c])
      OBVIOUS
    <2>2. rest \in Seq(CheckName)
      BY <1>1, <2>1
    <2>3. VetTypes'
      BY <1>1, <1>4, <2>1, <2>2 DEF VetInv, VetTypes, Staged
    <2>4. ASSUME NEW check, check # head, Awaits(c, check)
          PROVE  \E i \in 1..Len(rest) : rest[i] = check
      BY <1>1, <1>2, <2>1, <2>4, TailKeeps DEF Awaits
    <2>5. checks'[c] = rest
      BY <1>4, <2>1 DEF VetInv, VetTypes
    <2>6. ASSUME NEW check, check # head, Awaits(c, check) PROVE Awaits(c, check)'
      BY <2>4, <2>5, <2>6 DEF Awaits
    <2>7. /\ head = "auth" => shape[c].signed
          /\ head = "schema" => shape[c].valid
          /\ head = "parse" => shape[c].wellformed
      BY <1>4 DEF Passes
    <2>8. VetAt(c)
      BY DEF VetInv
    <2>9. shape[c].route # "healthz" => Checking(c)'
      <3> SUFFICES ASSUME shape[c].route # "healthz" PROVE Checking(c)'
        OBVIOUS
      <3>1. Checking(c)
        BY <1>1, <2>8 DEF VetAt
      <3>2. shape'[c] = shape[c]
        BY <1>1
      <3>3. shape[c].signed \/ Awaits(c, "auth")'
        BY <2>6, <2>7, <3>1 DEF Checking
      <3>4. shape[c].valid \/ Awaits(c, "schema")'
        BY <2>6, <2>7, <3>1 DEF Checking
      <3>5. shape[c].route = "process" => shape[c].wellformed \/ Awaits(c, "parse")'
        BY <2>6, <2>7, <3>1 DEF Checking
      <3> QED BY <3>2, <3>3, <3>4, <3>5 DEF Checking
    <2>10. VetAt(c)'
      BY <1>1, <1>4, <2>8, <2>9 DEF VetAt, Vetted
    <2>11. ASSUME NEW d \in Call, d # c PROVE VetAt(d)'
      BY <1>1, <1>4, <2>11, OtherCall DEF VetInv, VetTypes
    <2> QED BY <2>3, <2>10, <2>11 DEF VetInv
  <1>5. CASE Answer(c, Refusal(head)) /\ UNCHANGED checks
    <2>1. Refusal(head) \in Nat /\ Refusal(head) \notin {200, 422}
      BY <1>3 DEF CheckName, Refusal
    <2> QED BY <1>1, <1>5, <2>1, AnswerVets
  <1> QED BY <1>2, <1>4, <1>5 DEF Check

\* No step lets a call by that failed a check or missed one.
LEMMA VetSteps == ASSUME VetInv, [Next]_vars PROVE VetInv'
  <1>1. ASSUME NEW c \in Call, NEW s \in ShapesOf[c], Arrive(c, s) \/ ArriveLate(c, s)
        PROVE  VetInv'
    BY <1>1, ArrivesUnchecked, ArrivesLate
  <1>2. ASSUME NEW c \in Call, Check(c) PROVE VetInv'
    BY <1>2, ChecksOnePart
  <1>3. ASSUME NEW c \in Call, Healthz(c) PROVE VetInv'
    BY <1>3, AnswerVets DEF Healthz
  <1>4. ASSUME NEW c \in Call, AskPool(c) PROVE VetInv'
    <2>1. Vetted(c)
      BY <1>4 DEF AskPool, VetInv, VetAt, Checking, Awaits, Vetted
    <2> QED BY <1>4, <2>1, GoesOnVetted DEF AskPool
  <1>5. ASSUME NEW c \in Call, Connect(c) \/ LockAccount(c) PROVE VetInv'
    <2>1. stage[c] \in {"queued", "connected"} /\ Vetted(c)
      BY <1>5 DEF Connect, LockAccount, VetInv, VetAt
    <2> QED BY <1>5, <2>1, GoesOnVetted DEF Connect, LockAccount
  <1>6. ASSUME NEW c \in Call, AcquireTimeout(c) PROVE VetInv'
    BY <1>6, AnswerVets DEF AcquireTimeout
  <1>7. ASSUME NEW c \in Call, Move(c) \/ InsufficientFunds(c) \/ StatementFails(c) \/ Report(c)
        PROVE  VetInv'
    <2>1. stage[c] \in {"connected", "locked"} /\ Vetted(c)
      BY <1>7 DEF Move, InsufficientFunds, StatementFails, Report, VetInv, VetAt
    <2>2. PICK status \in {200, 422, 500} : Answer(c, status)
      BY <1>7 DEF Move, InsufficientFunds, StatementFails, Report, End
    <2>3. UNCHANGED <<runtime, shape, checks>>
      BY <1>7 DEF Move, InsufficientFunds, StatementFails, Report
    <2> QED BY <2>1, <2>2, <2>3, AnswerVets
  <1>8. ASSUME NEW c \in Call, Disconnect(c) PROVE VetInv'
    BY <1>8, GoesOnVetted DEF Disconnect
  <1>9. CASE Kill \/ EndPool
    <2>1. UNCHANGED <<runtime, shape, checks, answer>>
      BY <1>9 DEF Kill, EndPool
    <2>2. \A c \in Call : stage'[c] = stage[c]
                          \/ (stage'[c] = "cut" /\ stage[c] \notin {"out", "answered"})
      BY <1>9 DEF Kill, EndPool, InFlight
    <2>3. Staged'
      BY <1>9 DEF Kill, EndPool, Staged, Stage, VetInv, VetTypes
    <2>4. VetTypes'
      BY <2>1, <2>3 DEF VetInv, VetTypes
    <2>5. ASSUME NEW c \in Call PROVE VetAt(c)'
      BY <2>1, <2>2 DEF VetInv, VetAt, Vetted, Checking, Awaits
    <2> QED BY <2>4, <2>5 DEF VetInv
  <1>10. CASE Signal \/ Exit \/ UNCHANGED vars
    <2>1. UNCHANGED <<runtime, shape, stage, checks, answer>>
      BY <1>10 DEF Signal, Exit, vars
    <2>2. VetTypes'
      BY <2>1 DEF VetInv, VetTypes, Staged
    <2> QED BY <2>1, <2>2, OtherCall DEF VetInv
  <1> QED BY <1>1, <1>2, <1>3, <1>4, <1>5, <1>6, <1>7, <1>8, <1>9, <1>10
          DEF Next, Turns, Step

\* Nothing reaches the pool, or is answered from the database, that was not signed, valid
\* and whole, although the two services check in different orders (app.ts:31, routes.rs:38).
THEOREM OnlyVettedServed == Spec => []VettedOnly
  <1>1. Init => VetInv
    BY DEF Init, VetInv, VetTypes, VetAt, Staged, Stage
  <1>2. VetInv /\ [Next]_vars => VetInv'
    BY VetSteps
  <1>3. VetInv => VettedOnly
    BY DEF VetInv, VetAt, Vetted, VettedOnly
  <1> QED BY <1>1, <1>2, <1>3, PTL DEF Spec

-----------------------------------------------------------------------------
(* The numbers *)

\* A double tells whole numbers apart up to Precise.
LEMMA DoubleExact ==
  ASSUME NEW n \in Int, Magnitude(n) <= Precise PROVE Double(n) = n
  <1>1. PICK m : m = Magnitude(n)
    OBVIOUS
  <1>2. m \in Nat /\ Unit(m) = 1
    BY <1>1 DEF Magnitude, Unit
  <1>3. m \div 1 = m
    BY <1>2
  <1>4. Double(n) = IF n < 0 THEN -m ELSE m
    <2>1. (m \div Unit(m)) * Unit(m) = m
      BY <1>2, <1>3
    <2> QED BY <1>1, <1>2, <2>1 DEF Double
  <1> QED BY <1>1, <1>4 DEF Magnitude

\* Past Precise it stays there: rounding does not cross it.
LEMMA DoubleStaysPast ==
  ASSUME NEW n \in Int
  PROVE  /\ Double(n) \in Int
         /\ n > Precise => Double(n) >= Precise
         /\ n < -Precise => Double(n) <= -Precise
  <1>1. PICK m \in Nat : m = Magnitude(n)
    BY DEF Magnitude
  <1>2. PICK u \in {1, 2, 4} : u = Unit(m)
    BY DEF Unit
  <1>3. PICK low \in Int : low = (m \div u) * u
    BY <1>1, <1>2
  <1>4. m - low \in 0..(u - 1)
    <2>1. CASE u = 1
      BY <1>3, <2>1
    <2>2. CASE u = 2
      BY <1>3, <2>2
    <2>3. CASE u = 4
      BY <1>3, <2>3
    <2> QED BY <2>1, <2>2, <2>3
  <1>5. m > Precise => low >= Precise
    <2>1. CASE u = 1
      BY <1>2, <1>4, <2>1, WidthAssumption DEF Unit
    <2>2. CASE u = 2
      BY <1>2, <1>4, <2>2, WidthAssumption DEF Unit
    <2>3. CASE u = 4
      BY <1>2, <1>4, <2>3, WidthAssumption DEF Unit
    <2> QED BY <2>1, <2>2, <2>3
  <1>6. PICK near \in {low, low + u} : Double(n) = IF n < 0 THEN -near ELSE near
    BY <1>1, <1>2, <1>3 DEF Double
  <1> QED BY <1>1, <1>2, <1>3, <1>5, <1>6, WidthAssumption DEF Magnitude

NumbersInv ==
  /\ VetInv
  /\ balance \in [Account -> 0..MaxBig]
  /\ booked \in [Account -> Int]

\* What a Move writes is what it booked, unless the TypeScript service is past Precise.
LEMMA SumsExact ==
  ASSUME NumbersInv, NEW c \in Call, stage[c] = "locked",
         Covered(c), Fits(NextBalance(c)), Fits(Delta(c))
  PROVE  LET b == balance[shape[c].account] IN
         /\ Delta(c) \in Int /\ NextBalance(c) \in 0..MaxBig
         /\ runtime = "rust" \/ (b < Precise /\ NextBalance(c) < Precise) =>
              NextBalance(c) = b + Delta(c)
  <1>1. shape[c] \in Shape
    BY DEF NumbersInv, VetInv, VetAt
  <1>2. shape[c].account \in Account /\ shape[c].delta \in Int
    BY <1>1, ShapeTyped
  <1>3. PICK b \in 0..MaxBig : b = balance[shape[c].account]
    BY <1>2 DEF NumbersInv
  <1>4. PICK d : d = Delta(c)
    OBVIOUS
  <1>5. d \in Int
    BY <1>2, <1>4, DoubleStaysPast DEF Delta
  <1>6. b + d \in Int /\ b \in Int /\ b >= 0 /\ MaxBig \in Nat
    BY <1>5, WidthAssumption
  <1>7. CASE runtime = "rust"
    <2>1. NextBalance(c) = Wrapped(b + d)
      BY <1>3, <1>4, <1>7 DEF NextBalance
    <2>2. d <= MaxBig
      BY <1>4, <1>5, <1>6 DEF Fits, Magnitude
    <2>3. PICK n \in Int : n = b + d
      BY <1>6
    <2>4. n <= 2 * MaxBig
      BY <1>5, <1>6, <2>2, <2>3
    <2>5. Wrapped(n) >= 0
      BY <2>1, <2>3 DEF Covered
    <2>6. n <= MaxBig
      BY <1>6, <2>4, <2>5 DEF Wrapped
    <2>7. Wrapped(n) = n
      BY <1>6, <2>6 DEF Wrapped
    <2>8. NextBalance(c) = n /\ n >= 0
      BY <2>1, <2>3, <2>5, <2>7
    <2> QED BY <1>3, <1>4, <1>5, <1>6, <2>3, <2>6, <2>8
  <1>8. CASE runtime = "ts"
    <2>1. PICK r \in Int : r = Double(b)
      BY <1>6, DoubleStaysPast
    <2>2. PICK n \in Int : n = Double(r + d)
      BY <1>5, <2>1, DoubleStaysPast
    <2>3. NextBalance(c) = n
      BY <1>3, <1>4, <1>8, <2>1, <2>2 DEF NextBalance
    <2>4. n \in 0..MaxBig
      BY <1>6, <2>2, <2>3 DEF Covered, Fits, Magnitude
    <2>5. ASSUME b < Precise, n < Precise PROVE n = b + d
      <3>1. r = b
        BY <1>6, <2>1, <2>5, DoubleExact, WidthAssumption DEF Magnitude
      <3>2. ~(b + d > Precise) /\ ~(b + d < -Precise)
        BY <1>6, <2>2, <2>4, <2>5, <3>1, DoubleStaysPast, WidthAssumption
      <3>3. Magnitude(b + d) <= Precise
        BY <1>6, <3>2, WidthAssumption DEF Magnitude
      <3> QED BY <1>6, <2>2, <3>1, <3>3, DoubleExact
    <2> QED BY <1>3, <1>4, <1>5, <1>8, <2>3, <2>4, <2>5
  <1> QED BY <1>7, <1>8 DEF NumbersInv, VetInv, VetTypes

Exactly ==
  \A a \in Account :
    runtime = "rust" \/ (balance[a] < Precise /\ balance'[a] < Precise) =>
      balance'[a] - balance[a] = booked'[a] - booked[a]

\* One Move changes the balance and the booked amount alike.
LEMMA MoveExact ==
  ASSUME NumbersInv, NEW c \in Call, Move(c)
  PROVE  Exactly /\ balance' \in [Account -> 0..MaxBig] /\ booked' \in [Account -> Int]
  <1>1. PICK a \in Account : a = shape[c].account
    BY ShapeTyped DEF NumbersInv, VetInv, VetAt, Move
  <1>2. PICK n, d :
          /\ n = NextBalance(c) /\ d = Delta(c)
          /\ balance' = [balance EXCEPT ![a] = n]
          /\ booked' = [booked EXCEPT ![a] = booked[a] + d]
    BY <1>1 DEF Move
  <1>3. /\ d \in Int /\ n \in 0..MaxBig
        /\ runtime = "rust" \/ (balance[a] < Precise /\ n < Precise) => n = balance[a] + d
    BY <1>1, <1>2, SumsExact DEF Move
  <1>4. balance[a] \in Int /\ booked[a] \in Int /\ n \in Int
    BY <1>3, WidthAssumption DEF NumbersInv
  <1>5. balance' \in [Account -> 0..MaxBig] /\ booked' \in [Account -> Int]
    BY <1>2, <1>3, <1>4 DEF NumbersInv
  <1>6. balance'[a] = n /\ booked'[a] = booked[a] + d
    BY <1>2 DEF NumbersInv
  <1>7. \A e \in Account \ {a} : balance'[e] = balance[e] /\ booked'[e] = booked[e]
    BY <1>2 DEF NumbersInv
  <1>8. \A e \in Account : balance[e] \in Int /\ booked[e] \in Int
    BY WidthAssumption DEF NumbersInv
  <1> QED BY <1>3, <1>4, <1>5, <1>6, <1>7, <1>8 DEF Exactly

\* Only a Move changes a balance, and it moves it by what it books.
LEMMA NumbersSteps == ASSUME NumbersInv, [Next]_vars PROVE NumbersInv' /\ Exactly
  <1>1. VetInv'
    BY VetSteps DEF NumbersInv
  <1>2. ASSUME NEW c \in Call, Move(c) PROVE NumbersInv' /\ Exactly
    BY <1>1, <1>2, MoveExact DEF NumbersInv
  <1>3. ASSUME UNCHANGED ledger PROVE NumbersInv' /\ Exactly
    <2>1. balance' = balance /\ booked' = booked
      BY <1>3 DEF ledger
    <2>2. \A a \in Account : balance[a] \in Int /\ booked[a] \in Int
      BY WidthAssumption DEF NumbersInv
    <2> QED BY <1>1, <2>1, <2>2 DEF NumbersInv, Exactly
  <1>4. ASSUME NEW c \in Call, NEW s \in ShapesOf[c], Arrive(c, s) \/ ArriveLate(c, s)
        PROVE  UNCHANGED ledger
    BY <1>4 DEF Arrive, ArriveLate
  <1>5. ASSUME NEW c \in Call, AcquireTimeout(c) \/ Disconnect(c) PROVE UNCHANGED ledger
    BY <1>5 DEF AcquireTimeout, Disconnect
  <1>6. ASSUME NEW c \in Call, Step(c), ~Move(c) PROVE UNCHANGED ledger
    BY <1>6 DEF Step, Check, Healthz, AskPool, Connect, LockAccount, InsufficientFunds,
                StatementFails, Report
  <1>7. CASE EndPool \/ Exit \/ Signal \/ Kill \/ UNCHANGED vars
    <2>1. UNCHANGED ledger
      BY <1>7 DEF EndPool, Exit, Signal, Kill, vars, ledger
    <2> QED BY <1>3, <2>1
  <1> QED BY <1>2, <1>3, <1>4, <1>5, <1>6, <1>7 DEF Next, Turns

\* NumbersInv holds in the initial state.
LEMMA InitNumbers == Init => NumbersInv
  <1>1. Init => VetInv
    BY DEF Init, VetInv, VetTypes, VetAt, Staged, Stage
  <1> QED BY <1>1, WidthAssumption DEF Init, NumbersInv

\* A balance moves by what is booked: in the Rust service always, because an addition that
\* comes around ends below zero, and in the TypeScript service below 2^53 (pool.ts:3).
THEOREM BalancesMoveExactly == Spec => MovesExactly
  <1>1. Init => NumbersInv
    BY InitNumbers
  <1>2. NumbersInv /\ [Next]_vars => NumbersInv' /\ Exactly
    BY NumbersSteps
  <1>3. Exactly => [\A a \in Account :
                      runtime = "rust" \/ (balance[a] < Precise /\ balance'[a] < Precise) =>
                        balance'[a] - balance[a] = booked'[a] - booked[a]]_vars
    BY DEF Exactly
  <1> QED BY <1>1, <1>2, <1>3, PTL DEF Spec, MovesExactly

-----------------------------------------------------------------------------
(* The types *)

Phases == {"up", "closing", "ending", "exited", "killed"}
Statuses == {0, 200, 400, 403, 422, 500, 503}

\* What the other invariants do not say of the types.
PlacesInv ==
  /\ phase \in Phases
  /\ queue \in Seq(Call)
  /\ answer \in [Call -> Statuses]
  /\ \A c \in Call : stage[c] = "answered" => answer[c] # 0

\* A call may leave the queue from where it stands.
LEMMA WithoutTyped ==
  ASSUME queue \in Seq(Call), NEW c PROVE Without(c) \in Seq(Call)
  <1>1. CASE \E i \in DOMAIN queue : queue[i] = c
    <2>1. PICK i \in DOMAIN queue :
            Without(c) = SubSeq(queue, 1, i - 1) \o SubSeq(queue, i + 1, Len(queue))
      BY <1>1 DEF Without
    <2> QED BY <2>1
  <1>2. CASE ~\E i \in DOMAIN queue : queue[i] = c
    BY <1>2 DEF Without
  <1> QED BY <1>1, <1>2

\* An answer with one of the statuses, whatever happens to the queue.
LEMMA AnswerPlaces ==
  ASSUME PlacesInv, Staged, NEW c \in Call, NEW status \in Statuses \ {0}, Answer(c, status),
         queue' \in Seq(Call), phase' = phase
  PROVE  PlacesInv'
  BY DEF PlacesInv, Staged, Answer, Goto

\* A call that goes anywhere but to its answer.
LEMMA GoesPlaces ==
  ASSUME PlacesInv, Staged, NEW c \in Call, NEW label \in Stage \ {"answered"}, Goto(c, label),
         UNCHANGED <<phase, answer>>, queue' \in Seq(Call)
  PROVE  PlacesInv'
  BY DEF PlacesInv, Staged, Goto

\* Every step leaves every call in one of its places, with an answer when it has ended.
LEMMA PlacesSteps == ASSUME PlacesInv, Staged, VetInv, [Next]_vars PROVE PlacesInv'
  <1>0. \A c : Without(c) \in Seq(Call)
    BY WithoutTyped DEF PlacesInv
  <1>1. ASSUME NEW c \in Call, NEW s \in ShapesOf[c], Arrive(c, s) \/ ArriveLate(c, s)
        PROVE  PlacesInv'
    BY <1>1, AnswerPlaces, GoesPlaces DEF Arrive, ArriveLate, pool, Stage, Statuses, PlacesInv
  <1>2. ASSUME NEW c \in Call, Check(c) PROVE PlacesInv'
    <2>1. queue' = queue /\ phase' = phase
      BY <1>2 DEF Check, pool
    <2>2. CASE UNCHANGED <<stage, answer>>
      BY <2>1, <2>2 DEF PlacesInv
    <2>3. CASE Answer(c, Refusal(Head(checks[c]))) /\ stage[c] = "checked" /\ checks[c] # <<>>
      <3>1. PICK head \in CheckName : head = Head(checks[c])
        BY <2>3 DEF VetInv, VetTypes
      <3>2. Refusal(head) \in Statuses \ {0}
        BY DEF CheckName, Refusal, Statuses
      <3> QED BY <2>1, <2>3, <3>1, <3>2, AnswerPlaces DEF PlacesInv
    <2> QED BY <1>2, <2>2, <2>3 DEF Check
  <1>3. ASSUME NEW c \in Call, Healthz(c) PROVE PlacesInv'
    BY <1>3, AnswerPlaces DEF Healthz, pool, Statuses, PlacesInv
  <1>4. ASSUME NEW c \in Call, AskPool(c) PROVE PlacesInv'
    <2>1. queue' \in Seq(Call)
      BY <1>4 DEF AskPool, PlacesInv
    <2> QED BY <1>4, <2>1, GoesPlaces DEF AskPool, Stage
  <1>5. ASSUME NEW c \in Call, Connect(c) \/ LockAccount(c) PROVE PlacesInv'
    <2>1. queue' \in Seq(Call)
      BY <1>5 DEF Connect, LockAccount, pool, PlacesInv
    <2> QED BY <1>5, <2>1, GoesPlaces DEF Connect, LockAccount, Stage
  <1>6. ASSUME NEW c \in Call, AcquireTimeout(c) PROVE PlacesInv'
    BY <1>0, <1>6, AnswerPlaces DEF AcquireTimeout, Statuses
  <1>7. ASSUME NEW c \in Call, Move(c) \/ InsufficientFunds(c) \/ StatementFails(c) \/ Report(c)
        PROVE  PlacesInv'
    <2>1. PICK status \in {200, 422, 500} : End(c, status)
      BY <1>7 DEF Move, InsufficientFunds, StatementFails, Report
    <2>2. phase' = phase
      BY <1>7 DEF Move, InsufficientFunds, StatementFails, Report
    <2> QED BY <2>1, <2>2, AnswerPlaces DEF End, Statuses, PlacesInv
  <1>8. ASSUME NEW c \in Call, Disconnect(c) PROVE PlacesInv'
    BY <1>0, <1>8, GoesPlaces DEF Disconnect, Stage
  <1>9. CASE Kill \/ EndPool
    <2>1. queue' = <<>> /\ phase' \in Phases /\ answer' = answer
      BY <1>9 DEF Kill, EndPool, Phases
    <2>2. \A c \in Call : stage'[c] = stage[c] \/ stage'[c] = "cut"
      BY <1>9 DEF Kill, EndPool
    <2> QED BY <2>1, <2>2 DEF PlacesInv
  <1>10. CASE Signal \/ Exit \/ UNCHANGED vars
    <2>1. UNCHANGED <<stage, answer, queue>> /\ phase' \in Phases
      BY <1>10 DEF Signal, Exit, vars, pool, Phases, PlacesInv
    <2> QED BY <2>1 DEF PlacesInv
  <1> QED BY <1>1, <1>2, <1>3, <1>4, <1>5, <1>6, <1>7, <1>8, <1>9, <1>10
          DEF Next, Turns, Step

\* Every variable has its type; in particular a balance fits its column and is not
\* negative, whatever the numbers of the service do, and a call is answered exactly when
\* it has a status.
THEOREM TypeCorrect == Spec => []TypeOK
  <1> DEFINE Inv == PoolInv /\ NumbersInv /\ PlacesInv
  <1>1. Init => Inv
    BY InitPool, InitNumbers DEF Init, PlacesInv, Phases, Statuses
  <1>2. Inv /\ [Next]_vars => Inv'
    BY PoolSteps, NumbersSteps, PlacesSteps DEF PoolInv, NumbersInv
  <1>3. Inv => TypeOK
    <2> SUFFICES ASSUME Inv PROVE TypeOK
      OBVIOUS
    <2>1. idle \in 0..PoolSize
      <3>1. Cardinality(Busy) \in Nat
        BY FS_CardinalityType DEF PoolInv
      <3>2. PICK n \in Nat : n = Cardinality(Busy)
        BY <3>1
      <3> QED BY <3>2, PoolAssumption DEF PoolInv
    <2>2. \A c \in Call : (stage[c] = "answered") = (answer[c] # 0)
      BY DEF PlacesInv, NumbersInv, VetInv, VetAt
    <2> QED BY <2>1, <2>2 DEF TypeOK, PlacesInv, Phases, Statuses, NumbersInv, VetInv,
                              VetTypes, Staged, Stage
  <1> QED BY <1>1, <1>2, <1>3, PTL DEF Spec

=============================================================================
