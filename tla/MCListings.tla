----------------------------- MODULE MCListings -----------------------------
(* Listings for TLC: the second row is another user's; trade 2 belongs to  *)
(* another session.                                                          *)
EXTENDS Listings, TLC

CONSTANTS u1, u2, a1, a2, s1, s2

MCFacts == [r \in 1..MaxRows |-> IF r # 2 THEN [user |-> u1, account |-> a1, session |-> s1]
                                 ELSE [user |-> u2, account |-> a2, session |-> s2]]
MCEvents ==
  LET fill(s, trade, source) == [session |-> s, order |-> 1, trade |-> trade, status |-> "FILLED",
                                 at |-> 0, source |-> source]
  IN {fill(s1, 1, "place_order"), fill(s1, 1, "websocket"), fill(s2, 2, "rest_recovery"),
      [session |-> s1, order |-> 1, trade |-> None, status |-> "FILLED", at |-> 1, source |-> "rest_recovery"]}

\* A symbol that spot and futures list, one that spot lists, and one of another quote.
MCSymbolInfo == <<[quote |-> "USDT", contract |-> "PERPETUAL"], [quote |-> "USDT", contract |-> "DATED"],
                  [quote |-> "BTC", contract |-> "PERPETUAL"]>>
MCTrading == {{1, 2, 3}, {2}}

Symmetric == Permutations(Writers) \cup Permutations(Readers)
=============================================================================
