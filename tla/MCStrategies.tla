----------------------------- MODULE MCStrategies -----------------------------
(* Strategies for TLC: a user with an account, one more user to come, two      *)
(* strategies and a name that has two spellings.                               *)
EXTENDS Strategies, TLC

CONSTANTS u1, u2, a1

MCOwnerOf == a1 :> u1
MCNormalize == "bob" :> "bob" @@ "Bob " :> "bob" @@ "amy" :> "amy"

Symmetric == Permutations(Callers) \cup Permutations(Strats) \cup Permutations(Labels)
=============================================================================
