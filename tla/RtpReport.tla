------------------------------ MODULE RtpReport ------------------------------
(***************************************************************************)
(* The reports over rtp_user_minute (src/reports/rtp.ts, and                 *)
(* rust-service/src/reports.rs, which runs the same two SELECTs) while       *)
(* drains add to it, and a client that reads all users page by page.         *)
(***************************************************************************)
EXTENDS RtpRollup

CONSTANTS
  Minute,     \* bucket_minute
  User,       \* (user_id, currency) pairs, in the order of ORDER BY
  MinuteOf,   \* the two parts of a bucket's key
  UserOf,
  OfCurrency, \* those that the query's currency lets through
  OfUser,     \* those that its user_id does
  From, To,   \* the window of the query
  Limit,      \* the size of its pages
  Client      \* callers that page through it

ASSUME UserAssumption ==
  User \subseteq Nat /\ OfCurrency \subseteq User /\ OfUser \subseteq User /\ UserOf \in [Bucket -> User]
ASSUME MinuteAssumption == Minute \subseteq Nat /\ MinuteOf \in [Bucket -> Minute]
\* validation.ts:38 refuses other limits, reports.rs:9 clamps them
ASSUME LimitAssumption == Limit \in 1..500

VARIABLES
  offset,   \* where each client's next page begins
  listed,   \* the users its pages have shown so far
  there     \* the users the report had when it read its first page

walk == <<offset, listed, there>>

\* Seeded bug: the end of the window is in it.
InWindowClosed(b, from, to) == from <= MinuteOf[b] /\ MinuteOf[b] <= to

\* WHERE bucket_minute >= from AND bucket_minute < to
InWindow(b, from, to) == from <= MinuteOf[b] /\ MinuteOf[b] < to

Rows(users, from, to) ==
  {b \in DOMAIN rollup : InWindow(b, from, to) /\ UserOf[b] \in users}

Sum(buckets) == MapThenSumSet(LAMBDA b : rollup[b], buckets)

\* getCasinoRtpReport: one row, 0 where there is none; it does not ask for a user.
Casino(from, to) == Sum(Rows(OfCurrency, from, to))

\* getUserRtpReport: GROUP BY user_id, currency
UserTotal(u, from, to) == Sum(Rows({u} \cap OfCurrency, from, to))

Listed == {UserOf[b] : b \in Rows(OfCurrency \cap OfUser, From, To)}

\* Seeded bug: the users who bet most come first.
BeforeByTotal(u, v) ==
  \/ UserTotal(u, From, To) > UserTotal(v, From, To)
  \/ UserTotal(u, From, To) = UserTotal(v, From, To) /\ u < v

\* ORDER BY user_id, currency
Before(u, v) == u < v

\* LIMIT and OFFSET
Page(skip) ==
  {u \in Listed : Cardinality({v \in Listed : Before(v, u)}) \in skip..(skip + Limit - 1)}

\* Each page is a SELECT of its own; a short page is the last.
ReadPage(c) ==
  /\ offset[c] >= 0
  /\ offset' = [offset EXCEPT ![c] = IF Cardinality(Page(@)) < Limit THEN -1 ELSE @ + Limit]
  /\ listed' = [listed EXCEPT ![c] = @ \cup Page(offset[c])]
  /\ there' = [there EXCEPT ![c] = IF offset[c] = 0 THEN Listed ELSE @]

ReportInit ==
  /\ Init
  /\ offset = [c \in Client |-> 0]
  /\ listed = [c \in Client |-> {}]
  /\ there = [c \in Client |-> {}]

ReportNext ==
  \/ Next /\ UNCHANGED walk
  \/ \E c \in Client : ReadPage(c) /\ UNCHANGED vars

ReportSpec == ReportInit /\ [][ReportNext]_<<vars, walk>>

\* A statement that is not waiting returns, and deadlock_timeout expires.
ReportFairSpec ==
  /\ ReportSpec
  /\ \A p \in Drainer : WF_vars(Step(p)) /\ WF_vars(DeadlockVictim(p))

-----------------------------------------------------------------------------
(* Properties. *)

\* A client that has read every page has seen every user the report had when it
\* began, whatever was rolled up in between: users only join, and push those after
\* them to later pages (rtp.ts:50).
WalkMissesNone == \A c \in Client : offset[c] = -1 => there[c] \subseteq listed[c]

\* Adjacent windows add up to the window they cover, and its users to the casino's
\* row: no minute is in two windows or in none.
ReportsAgree ==
  \A from, mid, to \in Minute : from <= mid /\ mid <= to =>
    /\ Casino(from, to) = Casino(from, mid) + Casino(mid, to)
    /\ Casino(from, to) = MapThenSumSet(LAMBDA u : UserTotal(u, from, to), User)

=============================================================================
