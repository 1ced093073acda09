----------------------------- MODULE MCOrderRules -----------------------------
(* A small instance of OrderRules for TLC. *)
EXTENDS OrderRules

\* Wallet(q, l): a wallet that holds q with l locked, and one poor in everything.
Wallet(q, l) ==
  [available |-> 0, futures |-> 1, quote |-> 2, qty |-> q, locked |-> l,
   leverage |-> 2, step |-> 1, tick |-> 1]

MCQtys == {-1, 0, 1, 2}
MCPrices == {0, 1, 2}
MCMarkPrices == {0, 1, 2}
MCWallets ==
  {Wallet(q, 0) : q \in -2..2} \cup {Wallet(2, 1)}
    \cup {[Wallet(1, 0) EXCEPT !.leverage = 0], [Wallet(0, 0) EXCEPT !.available = 3]}
MCVenueRules ==
  {[step |-> 0, tick |-> 0, minQty |-> 0, minNotional |-> 0],
   [step |-> 2, tick |-> 2, minQty |-> 1, minNotional |-> 2]}
=============================================================================
