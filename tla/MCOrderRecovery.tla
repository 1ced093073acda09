--------------------------- MODULE MCOrderRecovery ---------------------------
(* OrderRecovery for TLC: every attempt has the same intent and trades on one *)
(* route.                                                                     *)
EXTENDS OrderRecovery, TLC

CONSTANTS i1, r1

MCIntents == {i1}
MCRoutes == {r1}
MCIntentOf == [a \in Attempts |-> i1]
MCRouteOf == [a \in Attempts |-> r1]

Symmetric == Permutations(Handlers) \cup Permutations(Attempts)
=============================================================================
