------------------------------- MODULE Grading -------------------------------
(***************************************************************************)
(* Manual grading of one attempt.  Several teachers run GradeItem at once  *)
(* while the student may still submit.  GradeItem upserts the item's grade *)
(* and then recomputes the attempt's score in one SQL statement; the       *)
(* transactions run at READ COMMITTED, so that statement sees the grades   *)
(* committed when it starts plus its own, and keeps those values while it  *)
(* waits for the lock of the attempts row.                                 *)
(*                                                                         *)
(* Row locks of PostgreSQL that matter here, all on the attempts row: a    *)
(* first grade of an item holds FOR KEY SHARE through its foreign key, the *)
(* recompute holds FOR NO KEY UPDATE, the submit holds FOR UPDATE.  Only   *)
(* the first two are compatible.                                           *)
(*                                                                         *)
(* The student may open the result page at any time.  GetAttemptResult     *)
(* reads the attempts row and then the items with their grades, in two     *)
(* statements that no transaction holds together.                          *)
(***************************************************************************)
EXTENDS Integers, FiniteSets, FiniteSetsExt

CONSTANTS Items,     \* the items of the attempt
          Kind,      \* question_type of each item
          Points,    \* points of each item
          Correct,   \* auto-gradable items the student answers correctly
          Graders,   \* concurrent GradeItem requests
          None       \* no grade, no lock holder, SQL NULL

QuestionTypes == {"multiple_choice", "short_answer", "essay"}

ASSUME KindAssumption == Kind \in [Items -> QuestionTypes]
ASSUME PointsAssumption == Points \in [Items -> Nat]
ASSUME NoneAssumption ==
    None \notin Nat \cup Graders \cup Items \cup {"PENDING_REVIEW", "GRADED"}

VARIABLES status,    \* attempts.status
          score,     \* attempts.score, None for NULL
          grading,   \* attempts.grading_status, None for NULL
          grade,     \* item_grades.awarded_score per item, None without a row
          told       \* was an "attempt.graded" notification sent

VARIABLES pc, job,   \* the graders
          submit,    \* the submit: "none", "locked" or "done"
          sharers,   \* graders that hold FOR KEY SHARE on the attempts row
          writer     \* the grader that holds FOR NO KEY UPDATE, or None

\* The result page: the grading status it reports and the essays for which it
\* shows the 0 of a missing grade.
VARIABLE shown

\* History, read by the properties only.
VARIABLES overtaken,  \* graders with a sum from before the last commit of a grade
          exact       \* was the score last written by a grader not overtaken

row == <<status, score, grading>>
locks == <<sharers, writer>>
flags == <<overtaken, exact>>
vars == <<row, grade, told, pc, job, submit, locks, shown, flags>>

-----------------------------------------------------------------------------
(* Helpers *)

Manual(i) == Kind[i] \in {"essay", "short_answer"}
ManualItems == {i \in Items : Manual(i)}
Essays == {i \in Items : Kind[i] = "essay"}
ASSUME CorrectAssumption == Correct \subseteq Items \ Essays
SumOver(S, f) == MapThenSumSet(LAMBDA i : f[i], S)
MaxScore == SumOver(Items, Points)

AutoPoints == SumOver({i \in Correct : Kind[i] = "multiple_choice"}, Points)
Graded == \E i \in Items : grade[i] # None

Awarded(g) == {i \in Items : g[i] # None}
SumOfGrades(g) == SumOver(Awarded(g), g)

\* The WITH query of RecomputeAttemptScore over the grades it sees.
RecomputedScore(g) == SumOfGrades(g)

\* Mistake: one graded item is enough.
RecomputedStatusAny(g) ==
    IF \A i \in ManualItems : g[i] = None THEN "PENDING_REVIEW" ELSE "GRADED"

RecomputedStatus(g) ==
    IF \E i \in ManualItems : g[i] = None THEN "PENDING_REVIEW" ELSE "GRADED"

Upserted(g) == pc[g] \in {"recompute", "update", "commit"}
Computed == {g \in Graders : pc[g] \in {"update", "commit"}}
NoJob == [item |-> None, award |-> None, score |-> None, grading |-> None]
NoPage == [at |-> "none", grading |-> None, blank |-> {}]

\* Mistake: the recompute runs on the pool, outside the transaction.
VisibleCommitted(g) == grade

\* A statement sees the committed grades and its own transaction's write.
Visible(g) == [grade EXCEPT ![job[g].item] = job[g].award]

Init ==
    /\ status = "IN_PROGRESS" /\ score = None /\ grading = None
    /\ grade = [i \in Items |-> None]
    /\ told = FALSE
    /\ pc = [g \in Graders |-> "idle"]
    /\ job = [g \in Graders |-> NoJob]
    /\ submit = "none"
    /\ sharers = {} /\ writer = None
    /\ shown = NoPage
    /\ overtaken = {} /\ exact = FALSE

-----------------------------------------------------------------------------
(* GradeItem *)

\* The request passes the checks of GradeItem, all on immutable columns; a
\* refused request changes nothing.  No check looks at the attempt's status.
Issue(g, i, award) ==
    /\ pc[g] = "idle"
    /\ Manual(i)
    /\ award <= Points[i]
    /\ pc' = [pc EXCEPT ![g] = "upsert"]
    /\ job' = [job EXCEPT ![g].item = i, ![g].award = award]
    /\ UNCHANGED <<row, grade, told, submit, locks, shown, flags>>

\* UpsertItemGrade waits for a concurrent upsert of the same item; the insert
\* of a first grade also checks its foreign key to the attempts row.
UpsertItemGrade(g) ==
    LET i == job[g].item IN
    /\ pc[g] = "upsert"
    /\ \A o \in Graders : Upserted(o) => job[o].item # i
    /\ IF grade[i] = None
       THEN submit # "locked" /\ sharers' = sharers \cup {g}
       ELSE UNCHANGED sharers
    /\ pc' = [pc EXCEPT ![g] = "recompute"]
    /\ UNCHANGED <<row, grade, told, job, submit, writer, shown, flags>>

\* RecomputeAttemptScore starts: its snapshot fixes what it will write.
RecomputeSnapshot(g) ==
    /\ pc[g] = "recompute"
    /\ job' = [job EXCEPT ![g].score = RecomputedScore(Visible(g)),
                          ![g].grading = RecomputedStatus(Visible(g))]
    /\ pc' = [pc EXCEPT ![g] = "update"]
    /\ UNCHANGED <<row, grade, told, submit, locks, shown, flags>>

\* The statement gets the row lock and updates the row it waited for.
RecomputeUpdate(g) ==
    /\ pc[g] = "update"
    /\ writer = None /\ submit # "locked"
    /\ writer' = g
    /\ pc' = [pc EXCEPT ![g] = "commit"]
    /\ UNCHANGED <<row, grade, told, job, submit, sharers, shown, flags>>

\* Grade and score become visible together (with the audit_logs entry, which
\* nothing in this feature reads back).
Commit(g) ==
    LET i == job[g].item IN
    /\ pc[g] = "commit"
    /\ grade' = [grade EXCEPT ![i] = job[g].award]
    /\ score' = job[g].score
    /\ grading' = job[g].grading
    /\ writer' = None /\ sharers' = sharers \ {g}
    /\ exact' = (g \notin overtaken) /\ overtaken' = Computed \ {g}
    /\ pc' = [pc EXCEPT ![g] = "notify"]
    /\ job' = [job EXCEPT ![g] = [NoJob EXCEPT !.grading = job[g].grading]]
    /\ UNCHANGED <<status, told, submit, shown>>

\* After the commit, from the status the recompute returned.
Notify(g) ==
    /\ pc[g] = "notify"
    /\ told' = (told \/ job[g].grading = "GRADED")
    /\ pc' = [pc EXCEPT ![g] = "idle"]
    /\ job' = [job EXCEPT ![g] = NoJob]
    /\ UNCHANGED <<row, grade, submit, locks, shown, flags>>

\* Mistake: the connection goes back to the pool with its row lock.
AbortKeepingLock(g) ==
    /\ pc[g] # "idle"
    /\ pc' = [pc EXCEPT ![g] = "idle"]
    /\ job' = [job EXCEPT ![g] = NoJob]
    /\ sharers' = sharers \ {g}
    /\ overtaken' = overtaken \ {g}
    /\ UNCHANGED <<row, grade, told, submit, writer, shown, exact>>

\* Timeout, lost connection or crash: an open transaction is rolled back, a
\* notification not yet sent is lost.
Abort(g) ==
    /\ pc[g] # "idle"
    /\ pc' = [pc EXCEPT ![g] = "idle"]
    /\ job' = [job EXCEPT ![g] = NoJob]
    /\ sharers' = sharers \ {g}
    /\ writer' = IF writer = g THEN None ELSE writer
    /\ overtaken' = overtaken \ {g}
    /\ UNCHANGED <<row, grade, told, submit, shown, exact>>

-----------------------------------------------------------------------------
(* SubmitAttempt of the attempts feature *)

SubmitLock ==
    /\ submit = "none"
    /\ sharers = {} /\ writer = None
    /\ submit' = "locked"
    /\ UNCHANGED <<row, grade, told, pc, job, locks, shown, flags>>

\* gradeAttempt looks at answers and question types, never at item_grades.
SubmitCommit ==
    /\ submit = "locked"
    /\ status' = "SUBMITTED"
    /\ IF Essays # {}
       THEN score' = None /\ grading' = "PENDING_REVIEW"
       ELSE score' = SumOver(Correct, Points) /\ grading' = "GRADED"
    /\ submit' = "done" /\ exact' = FALSE
    /\ UNCHANGED <<grade, told, pc, job, locks, shown, overtaken>>

SubmitAbort ==
    /\ submit = "locked"
    /\ submit' = "none"
    /\ UNCHANGED <<row, grade, told, pc, job, locks, shown, flags>>

-----------------------------------------------------------------------------
(* GetAttemptResult of the attempts feature, by the student *)

rest == <<row, grade, told, pc, job, submit, locks, flags>>

\* COALESCE(ig.awarded_score, '0'): an item without a grade shows a mark too.
Blank == {i \in Essays : grade[i] = None}

\* GetAttempt: an attempt still in progress has no result page.
ResultRow ==
    /\ shown.at = "none"
    /\ status = "SUBMITTED"
    /\ shown' = [NoPage EXCEPT !.at = "items", !.grading = grading]
    /\ UNCHANGED rest

\* GetAttemptItems: the grades of now beside the row read before.
ResultItems ==
    /\ shown.at = "items"
    /\ shown' = [shown EXCEPT !.at = "complete", !.blank = Blank]
    /\ UNCHANGED rest

\* The page is closed, or the request fails between its reads.
LeavePage ==
    /\ shown.at # "none"
    /\ shown' = NoPage
    /\ UNCHANGED rest

\* Mistake: the items are read before the row.
GetAttemptResultItemsFirst ==
    \/ /\ shown.at = "none" /\ status = "SUBMITTED"
       /\ shown' = [NoPage EXCEPT !.at = "items", !.blank = Blank]
       /\ UNCHANGED rest
    \/ /\ shown.at = "items"
       /\ shown' = [shown EXCEPT !.at = "complete", !.grading = grading]
       /\ UNCHANGED rest
    \/ LeavePage

GetAttemptResult == ResultRow \/ ResultItems \/ LeavePage

-----------------------------------------------------------------------------
(* The specification *)

GraderStep(g) ==
    \/ UpsertItemGrade(g) \/ RecomputeSnapshot(g) \/ RecomputeUpdate(g)
    \/ Commit(g) \/ Notify(g)

Next ==
    \/ \E g \in Graders :
          \/ GraderStep(g)
          \/ \E i \in Items, award \in 0..MaxScore : Issue(g, i, award)
          \/ Abort(g)
    \/ SubmitLock \/ SubmitCommit \/ SubmitAbort
    \/ GetAttemptResult

Spec == Init /\ [][Next]_vars

\* Statements run and lock waiters are served in turn; a transaction that
\* holds a lock commits or aborts.  Nobody has to grade or to submit.
Fairness ==
    /\ \A g \in Graders : SF_vars(GraderStep(g))
    /\ WF_vars(SubmitCommit \/ SubmitAbort)

FairSpec == Spec /\ Fairness

-----------------------------------------------------------------------------
(* Properties *)

\* Type invariant.
TypeOK ==
    /\ status \in {"IN_PROGRESS", "SUBMITTED"}
    /\ score \in Nat \cup {None}
    /\ grading \in {None, "PENDING_REVIEW", "GRADED"}
    /\ grade \in [Items -> Nat \cup {None}]
    /\ told \in BOOLEAN
    /\ pc \in [Graders -> {"idle", "upsert", "recompute", "update", "commit",
                           "notify"}]
    /\ job \in [Graders -> [item : Items \cup {None}, award : Nat \cup {None},
                            score : Nat \cup {None},
                            grading : {None, "PENDING_REVIEW", "GRADED"}]]
    /\ submit \in {"none", "locked", "done"}
    /\ sharers \subseteq Graders
    /\ writer \in Graders \cup {None}
    /\ shown \in [at : {"none", "items", "complete"},
                 grading : {None, "PENDING_REVIEW", "GRADED"},
                 blank : SUBSET Essays]
    /\ overtaken \subseteq Graders /\ exact \in BOOLEAN

\* However gradings interleave with each other and with the submit, an attempt
\* counts as GRADED only when every essay has a grade, and the student is told
\* so only when every item a teacher may grade has one.
GradedOnlyWhenComplete ==
    /\ grading = "GRADED" => \A i \in Essays : grade[i] # None
    /\ told => \A i \in ManualItems : grade[i] # None

\* However gradings, aborts and the submit interleave, the score that a grader
\* who was not overtaken leaves counts every grade there is: it is their sum,
\* with or without the points of the correct multiple-choice answers (the
\* comment in queries.sql says they are preserved), and the attempt is GRADED
\* exactly when every manually gradable item has a grade.  This holds from the
\* grader's commit to the next write, other graders at work or not.
GradesCounted ==
    exact =>
        /\ score \in {SumOfGrades(grade), SumOfGrades(grade) + AutoPoints}
        /\ grading = RecomputedStatus(grade)

\* A result page that reports GRADED shows no essay with the 0 of a missing
\* grade, although graders commit between its two reads.
ResultPageComplete == shown.at = "complete" /\ shown.grading = "GRADED" => shown.blank = {}

\* Two graders and a submit never wait for each other for good.
GradersFinish == \A g \in Graders : pc[g] # "idle" ~> pc[g] = "idle"

\* comment in queries.sql: the score is the sum of the item-level grades, and
\* the attempt is promoted when every non-MCQ item has one.
ScoreIsSumOfGrades ==
    status = "SUBMITTED" /\ Graded =>
        /\ score = SumOfGrades(grade)
        /\ grading = RecomputedStatus(grade)

\* comment in queries.sql: the points a correct multiple-choice answer earned
\* are preserved by the recompute.
AutoGradePreserved ==
    status = "SUBMITTED" /\ exact /\ grading = "GRADED" => score >= AutoPoints

=============================================================================
