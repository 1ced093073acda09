--------------------------- MODULE MCVenueSessions ---------------------------
(* VenueSessions for TLC: identifiers are interchangeable model values. *)
EXTENDS VenueSessions, TLC

Symmetry ==
  Permutations(Handlers) \cup Permutations(Accounts) \cup Permutations(Venues)
    \cup Permutations(Sessions)

=============================================================================
