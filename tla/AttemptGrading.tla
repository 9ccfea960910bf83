--------------------------- MODULE AttemptGrading ---------------------------
(***************************************************************************)
(* The grading arithmetic of one attempt, shared by the modules about      *)
(* attempts.  An item is worth its points or nothing, so the sum of points *)
(* that gradeAttempt returns is represented by the set of items credited:  *)
(* two results with the same credited set have the same score, whatever    *)
(* the points are.                                                         *)
(***************************************************************************)
EXTENDS Naturals

CONSTANTS Items,     \* the items frozen into an attempt when it starts
          Payloads,  \* the answer payloads a student may send
          Kind,      \* question_type of each item
          Accepted   \* the payloads each item's answer key accepts

QuestionTypes == {"multiple_choice", "short_answer", "essay"}

ASSUME KindAssumption == Kind \in [Items -> QuestionTypes]
ASSUME AcceptedAssumption == Accepted \in [Items -> SUBSET Payloads]

\* A row of attempt_answers; revision 0 stands for the missing row.
NoAnswer == [revision |-> 0]
Answer == [revision : Nat \ {0}, payload : Payloads]
AnswerSheet == [Items -> Answer \cup {NoAnswer}]

\* The grading columns of an attempts row; NoResult stands for the NULLs.
NoResult == [grading |-> "NULL", credited |-> {}]
Result == [grading : {"PENDING_REVIEW", "GRADED"}, credited : SUBSET Items]

\* answerMatchesShortAnswer and answerMatches, behind the test for a row.
IsCorrect(i, a) == a.revision # 0 /\ a.payload \in Accepted[i]

\* Essays wait for a teacher, everything else is right or wrong at once.
NeedsReview == \E i \in Items : Kind[i] = "essay"
CorrectItems(sheet) ==
    {i \in Items : Kind[i] # "essay" /\ IsCorrect(i, sheet[i])}

\* What gradeAttempt returns, with the NULL score the repository stores for
\* an attempt that waits for review.
GradeAttempt(sheet) ==
    IF NeedsReview
    THEN [grading |-> "PENDING_REVIEW", credited |-> {}]
    ELSE [grading |-> "GRADED", credited |-> CorrectItems(sheet)]

=============================================================================
