--------------------------- MODULE MCBetProcessor ---------------------------
(* Small instances of BetProcessor. *)
EXTENDS BetProcessor, TLC

CONSTANTS A, B,             \* accounts
          b1, b2, w1, k1, k2, k3, k4  \* action ids

Bet(id, amount) == [kind |-> "bet", id |-> id, amount |-> amount, orig |-> NoId]
Win(id, amount) == [kind |-> "win", id |-> id, amount |-> amount, orig |-> NoId]
RollBack(id, orig) == [kind |-> "rollback", id |-> id, amount |-> 0, orig |-> orig]
For(acct, actions) == [acct |-> acct, actions |-> actions]

WorkerSymmetry == Permutations(Worker)

\* One account per id: a round and its rollbacks, both of which may be retried, a
\* rollback of a rollback with a second rollback of the bet, a bet that spends
\* what the others need, and a request for the balance alone.
HomeBody ==
  [play  |-> For(A, <<Bet(b1, 2), Win(w1, 1)>>),
   undo  |-> For(A, <<RollBack(k1, w1), RollBack(k2, b1)>>),
   redo  |-> For(A, <<RollBack(k3, k2), RollBack(k4, b1)>>),
   spend |-> For(A, <<Bet(b2, 1)>>),
   look  |-> For(A, <<>>)]
HomeSend == [play |-> 2, undo |-> 1, redo |-> 1, spend |-> 1, look |-> 1]

\* Ids that two accounts use: the same bet for both, in the order that deadlocks,
\* a rollback of it by each, and a bet of nothing.
CrossedBody ==
  [playA |-> For(A, <<Bet(b1, 1), Bet(b2, 1)>>),
   playB |-> For(B, <<Bet(b2, 1), Bet(b1, 1)>>),
   undoA |-> For(A, <<RollBack(k1, b1)>>),
   undoB |-> For(B, <<RollBack(k2, b1)>>),
   zero  |-> For(A, <<Bet(b1, 0)>>)]
CrossedSend == [r \in DOMAIN CrossedBody |-> 1]

Twos == [a \in Account |-> 2]

=============================================================================
