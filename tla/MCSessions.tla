----------------------------- MODULE MCSessions -----------------------------
(* Instances of Sessions for TLC. *)
EXTENDS Sessions, TLC

Symmetry == Permutations(Sessions) \cup Permutations(Requests)
               \cup Permutations(Chosen) \cup Permutations(Roles)

=============================================================================
