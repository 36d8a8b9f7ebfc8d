--------------------------- MODULE MCPolicyStore ---------------------------
(* Bounded instances of PolicyStore. *)
EXTENDS PolicyStore, TLC

Symmetry ==
  Permutations(Profile) \cup Permutations(Rule) \cup Permutations(Name)
    \cup Permutations(Content) \cup Permutations(Actor)
=============================================================================
