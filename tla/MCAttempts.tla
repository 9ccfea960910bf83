----------------------------- MODULE MCAttempts -----------------------------
(* Instances of Attempts for TLC. *)
EXTENDS Attempts, TLC

CONSTANTS mcq, short, right, wrong

\* A right and a wrong payload for every item.
MCPayloads == {right, wrong}
MCOnePayload == {right}
MCItems == {mcq, short}
MCOneItem == {mcq}
MCKind == [i \in Items |-> IF i = mcq THEN "multiple_choice" ELSE "short_answer"]
MCAccepted == [i \in Items |-> {right}]

Symmetry == Permutations(Attempts) \cup Permutations(Students)
               \cup Permutations(Requests)

=============================================================================
