----------------------------- MODULE MCGateway -----------------------------
(* Two calls of a hot account fill a pool of two, and a third is each kind of  *)
(* call in turn; a double has three bits and a column five.                    *)
EXTENDS Gateway, TLC

CONSTANTS hot, other, c1, c2, c3

Like(route, account, delta) ==
  [route |-> route, signed |-> TRUE, wellformed |-> TRUE, valid |-> TRUE,
   account |-> account, delta |-> delta]

Bet == Like("process", other, -1)
EachKind ==
  {Bet, Like("report", other, 0), Like("healthz", other, 0), [Bet EXCEPT !.signed = FALSE],
   [Bet EXCEPT !.signed = FALSE, !.wellformed = FALSE], [Bet EXCEPT !.valid = FALSE],
   [Like("report", other, 0) EXCEPT !.signed = FALSE]}
OneHot ==
  (c1 :> {Like("process", hot, -4), Like("process", hot, 40)}) @@
  (c2 :> {Like("process", hot, 2), Like("process", hot, 6)}) @@ (c3 :> EachKind)

=============================================================================
