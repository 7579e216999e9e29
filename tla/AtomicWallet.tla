---------------------------- MODULE AtomicWallet ----------------------------
(***************************************************************************)
(* What the wallet promises its clients: a request is served in one         *)
(* indivisible step that applies its actions in order, or is refused and    *)
(* leaves no trace.  No transactions, locks, claims or intents: which       *)
(* actions count is read off the ledger itself.                             *)
(***************************************************************************)
EXTENDS Integers, Sequences

CONSTANTS Account, Request, Body, Seed

VARIABLES ledger, balance

Reversals(entries, id) == {e \in entries : e.kind = "rollback" /\ e.orig = id}

\* What action x does, given the entries before it.
Outcome(entries, x) ==
  IF x.kind # "rollback"
    THEN IF Reversals(entries, x.id) # {}
           THEN [delta |-> 0, status |-> "noop_prerolled"]
           ELSE [delta |-> IF x.kind = "bet" THEN -x.amount ELSE x.amount,
                 status |-> "applied"]
    ELSE LET originals == {e \in entries : e.id = x.orig} IN
         IF Reversals(entries, x.orig) # {}
           THEN [delta |-> 0, status |-> "noop_already_rolled_back"]
         ELSE IF originals = {}
           THEN [delta |-> 0, status |-> "noop_tombstone"]
         ELSE IF \A e \in originals : e.status = "applied" /\ e.delta # 0
           THEN [delta |-> -(CHOOSE e \in originals : TRUE).delta, status |-> "applied"]
           ELSE [delta |-> 0, status |-> "noop_original_not_applied"]

\* One action after another; an id is served once.
Serve(s, acct, x) ==
  IF \E e \in s.ledger : e.id = x.id
    THEN s
    ELSE LET o == Outcome(s.ledger, x) IN
         [ledger |-> s.ledger \cup
            {[id |-> x.id, acct |-> acct, kind |-> x.kind, amount |-> x.amount,
              orig |-> x.orig, delta |-> o.delta, status |-> o.status]},
          bal |-> s.bal + o.delta,
          funded |-> s.funded /\ s.bal + o.delta >= 0]

After(r) ==
  LET start == [ledger |-> ledger, bal |-> balance[Body[r].acct], funded |-> TRUE]
      run[i \in 0..Len(Body[r].actions)] ==
        IF i = 0 THEN start ELSE Serve(run[i - 1], Body[r].acct, Body[r].actions[i])
  IN run[Len(Body[r].actions)]

Process(r) ==
  LET s == After(r) IN
  /\ s.funded
  /\ ledger' = s.ledger
  /\ balance' = [balance EXCEPT ![Body[r].acct] = s.bal]

Init == ledger = {} /\ balance = Seed
Next == \E r \in Request : Process(r)
Spec == Init /\ [][Next]_<<ledger, balance>>

=============================================================================
