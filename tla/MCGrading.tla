------------------------------ MODULE MCGrading ------------------------------
(* Instances of Grading for TLC. *)
EXTENDS Grading

CONSTANTS mcq, short, essay

MCItems == {mcq, short, essay}
MCKind == [i \in Items |-> CASE i = mcq -> "multiple_choice"
                             [] i = short -> "short_answer"
                             [] OTHER -> "essay"]
MCPoints == [i \in Items |-> 1]
MCCorrect == {mcq}

=============================================================================
