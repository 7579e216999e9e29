---------------------------- MODULE MCMixedFleet ----------------------------
(* A small instance of MixedFleet. *)
EXTENDS MixedFleet, TLC

CONSTANTS A, b1, b2, k1, k2, t1, r1, r2

FleetSymmetry == Permutations(RustWorker)

\* A bet, its rollback and the rollback's, which either service may take, and a
\* request that repeats the bet's id with an amount of 0 before a bet of its own.
FleetBody ==
  [play |-> [acct |-> A, actions |-> <<
     [kind |-> "bet", id |-> b1, amount |-> 2, orig |-> NoId]>>],
   undo |-> [acct |-> A, actions |-> <<
     [kind |-> "rollback", id |-> k1, amount |-> 0, orig |-> b1]>>],
   redo |-> [acct |-> A, actions |-> <<
     [kind |-> "rollback", id |-> k2, amount |-> 0, orig |-> k1]>>],
   bad |-> [acct |-> A, actions |-> <<
     [kind |-> "bet", id |-> b1, amount |-> 0, orig |-> NoId],
     [kind |-> "bet", id |-> b2, amount |-> 1, orig |-> NoId]>>]]
FleetSend == [play |-> 1, undo |-> 2, redo |-> 1, bad |-> 1]
FleetSeed == [a \in Account |-> 2]

=============================================================================
