------------------------------ MODULE MCWallets ------------------------------
(* A small instance of Wallets for TLC. *)
EXTENDS Wallets, TLC

CONSTANTS c1, c2

Position(q, e) == [qty |-> q, entry |-> e, risk |-> q, initial |-> 0]
Futures(w, a, pnl, meta, positions) ==
  [wallet |-> w, available |-> a, margin |-> w + pnl, pnl |-> pnl, held |-> w - a, initial |-> 0,
   meta |-> meta, positions |-> positions]

\* A strategy whose step size is a wider one than the exchange's.
Wide == [step |-> 2, tick |-> 9]

\* The exchange's account, flat and with a position open.
MCTruths ==
  {[futures |-> Futures(3, 3, 0, None, <<>>), spot |-> [free |-> 0, locked |-> 0, assets |-> <<[qty |-> 1, price |-> 2, average |-> 0]>>], multi |-> FALSE],
   [futures |-> Futures(3, 1, 1, None, <<Position(2, 5)>>),
    spot |-> [free |-> 0, locked |-> 0, assets |-> <<>>], multi |-> TRUE]}

\* The strategy agrees with the exchange, or keeps a position it has closed;
\* 7 is a balance the exchange never has.
MCFutPayloads == {Futures(3, 1, 1, None, <<Position(2, 5)>>), Futures(7, 7, 0, Wide, <<Position(0, 0)>>)}
MCSpotPayloads == {[free |-> 4, locked |-> 1, assets |-> <<[qty |-> 1, price |-> 0, average |-> 2]>>]}

MCSymmetry == Permutations(Callers)
=============================================================================
