--------------------------- MODULE MCOrderAttempts ---------------------------
(* OrderAttempts for TLC: every attempt has the same intent, which the client *)
(* retries, and trades on one route.                                          *)
EXTENDS OrderAttempts, TLC

CONSTANTS i1, r1

MCIntents == {i1}
MCRoutes == {r1}
MCIntentOf == [a \in Attempts |-> i1]
MCRouteOf == [a \in Attempts |-> r1]

Symmetric == Permutations(Handlers) \cup Permutations(Attempts)
=============================================================================
