--------------------------- MODULE MCNotifications ---------------------------
(* Notifications for TLC: every plan allows everything, and one partition   *)
(* serves every user.                                                       *)
EXTENDS Notifications, TLC

MCPlanOf == [u \in Users |-> Switches]
MCPartitionOf == [u \in Users |-> CHOOSE p \in Partitions : TRUE]

Symmetry == Permutations(Users) \cup Permutations(Chats) \cup Permutations(Codes)

=============================================================================
