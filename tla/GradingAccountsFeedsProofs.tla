-------------------- MODULE GradingAccountsFeedsProofs --------------------
(***************************************************************************)
(* Theorems about three components that share nothing, each for any        *)
(* values of its constants.                                                *)
(*                                                                         *)
(* Grading.  A recompute decides GRADED from a snapshot that may be stale  *)
(* by the time it commits.  The decision is safe nevertheless, because a   *)
(* grade is never deleted: whatever the snapshot saw as graded still is    *)
(* (SnapshotInv).  For the same reason what a result page reads after the  *)
(* status bears it out (PageInv).  What a sum over the items is worth      *)
(* needs induction over the items; that the stored score is the sum of the *)
(* stored grades does not: a grader not overtaken computed it from the     *)
(* very grades it leaves (SumInv).                                         *)
(*                                                                         *)
(* Accounts.  A report is true as long as what it reports is never taken   *)
(* back: accounts and audit entries stay, and who has inserted a login     *)
(* name holds its key until the account is made (HoldInv).  The password   *)
(* history is trimmed by the times of its rows; that these keep the latest *)
(* passwords rests on counting the rows a time ranks above (LatestRows,    *)
(* AllRead), and on a change that found the history as another has left it *)
(* (ChangeInv).                                                            *)
(*                                                                         *)
(* Feeds.  A list read by cursor is complete because the cursor divides    *)
(* the rows in two, whatever comes in: those received are not behind it    *)
(* (KeyedInv).  A list read by number is complete for the rows that have   *)
(* an instant of their own, which have one place in all the orders the     *)
(* rows may come in, and a place that only grows (OwnPlace, OffsetInv).    *)
(***************************************************************************)
EXTENDS Grading, Accounts, Feeds, FiniteSetTheorems, TLAPS

-----------------------------------------------------------------------------
(* Grading *)

Fields == {"item", "award", "score", "grading"}

\* The part of TypeOK the argument needs.
Shape ==
    /\ grade \in [Items -> Nat \cup {None}]
    /\ pc \in [Graders -> {"idle", "upsert", "recompute", "update", "commit", "notify"}]
    /\ DOMAIN job = Graders
    /\ \A g \in Graders : DOMAIN job[g] = Fields

\* A grader at work has an item to grade and a number to give it.
JobInv ==
    \A g \in Graders :
        pc[g] \notin {"idle", "notify"} =>
            job[g].item \in ManualItems /\ job[g].award \in Nat

\* A decision for GRADED has seen a grade for every other item, and one that
\* is committed for every item.
SnapshotInv ==
    \A g \in Graders :
        job[g].grading = "GRADED" =>
            \A i \in ManualItems :
                /\ pc[g] = "notify" => grade[i] # None
                /\ pc[g] \in {"update", "commit"} => i = job[g].item \/ grade[i] # None

GInv == Shape /\ JobInv /\ SnapshotInv /\ GradedOnlyWhenComplete

-----------------------------------------------------------------------------
\* Essays are among the items a teacher may grade.
LEMMA EssaysAreManual == Essays \subseteq ManualItems /\ ManualItems \subseteq Items
BY DEF Essays, ManualItems, Manual

\* No grade is ever deleted, and a grader touches only its own record.
LEMMA GradesStay ==
    ASSUME Shape, JobInv, [Next]_vars
    PROVE  \A i \in ManualItems : grade[i] # None => grade'[i] # None
<1>1. CASE UNCHANGED grade
  BY <1>1
<1>2. ASSUME NEW g \in Graders, Commit(g)
      PROVE  \A i \in ManualItems : grade[i] # None => grade'[i] # None
  BY <1>2, NoneAssumption, EssaysAreManual DEF Commit, Shape, JobInv
<1>. QED
  BY <1>1, <1>2 DEF Next, vars, GraderStep, Issue, UpsertItemGrade, RecomputeSnapshot,
     RecomputeUpdate, Notify, Abort, SubmitLock, SubmitCommit, SubmitAbort,
     GetAttemptResult, ResultRow, ResultItems, LeavePage, rest

\* The invariant holds before anything is graded.
LEMMA InitGInv == Init => GInv
BY NoneAssumption DEF Init, GInv, Shape, JobInv, SnapshotInv, GradedOnlyWhenComplete,
   NoJob, Fields

-----------------------------------------------------------------------------
(* Steps *)

\* Every step keeps the shape of the state.
LEMMA ShapeStep == Shape /\ JobInv /\ [Next]_vars => Shape'
<1>. SUFFICES ASSUME Shape, JobInv, [Next]_vars PROVE Shape'
  OBVIOUS
<1>. USE DEF Shape
<1>1. ASSUME NEW g \in Graders, GraderStep(g) PROVE Shape'
  <2>1. CASE UpsertItemGrade(g)
    BY <2>1 DEF UpsertItemGrade
  <2>2. CASE RecomputeSnapshot(g)
    BY <2>2 DEF RecomputeSnapshot
  <2>3. CASE RecomputeUpdate(g)
    BY <2>3 DEF RecomputeUpdate
  <2>4. CASE Commit(g)
    BY <2>4 DEF Commit, JobInv, NoJob, Fields
  <2>5. CASE Notify(g)
    BY <2>5 DEF Notify, NoJob, Fields
  <2>. QED
    BY <1>1, <2>1, <2>2, <2>3, <2>4, <2>5 DEF GraderStep
<1>2. ASSUME NEW g \in Graders, NEW i \in Items, NEW award \in 0..MaxScore,
             Issue(g, i, award)
      PROVE  Shape'
  BY <1>2 DEF Issue
<1>3. ASSUME NEW g \in Graders, Abort(g) PROVE Shape'
  BY <1>3 DEF Abort, NoJob, Fields
<1>4. CASE SubmitLock \/ SubmitCommit \/ SubmitAbort \/ GetAttemptResult
            \/ UNCHANGED vars
  BY <1>4 DEF SubmitLock, SubmitCommit, SubmitAbort, GetAttemptResult, ResultRow,
     ResultItems, LeavePage, rest, vars
<1>. QED
  BY <1>1, <1>2, <1>3, <1>4 DEF Next

\* A step of one grader leaves the other graders' records alone.
LEMMA OtherGraders ==
    ASSUME Shape, NEW g \in Graders,
           \/ GraderStep(g) \/ Abort(g)
           \/ \E i \in Items, award \in 0..MaxScore : Issue(g, i, award),
           NEW o \in Graders, o # g
    PROVE  pc'[o] = pc[o] /\ job'[o] = job[o]
BY DEF Shape, GraderStep, UpsertItemGrade, RecomputeSnapshot, RecomputeUpdate, Commit,
       Notify, Abort, Issue

\* Every step keeps a grader at work with its item and its number.
LEMMA JobStep == Shape /\ JobInv /\ [Next]_vars => JobInv'
<1>. SUFFICES ASSUME Shape, JobInv, [Next]_vars PROVE JobInv'
  OBVIOUS
<1>. USE DEF Shape, Fields
<1>1. ASSUME NEW g \in Graders, GraderStep(g) PROVE JobInv'
  <2>1. CASE UpsertItemGrade(g)
    BY <2>1 DEF UpsertItemGrade, JobInv
  <2>2. CASE RecomputeSnapshot(g)
    BY <2>2 DEF RecomputeSnapshot, JobInv
  <2>3. CASE RecomputeUpdate(g)
    BY <2>3 DEF RecomputeUpdate, JobInv
  <2>4. CASE Commit(g)
    BY <2>4 DEF Commit, JobInv
  <2>5. CASE Notify(g)
    BY <2>5 DEF Notify, JobInv
  <2>. QED
    BY <1>1, <2>1, <2>2, <2>3, <2>4, <2>5 DEF GraderStep
<1>2. ASSUME NEW g \in Graders, NEW i \in Items, NEW award \in 0..MaxScore,
             Issue(g, i, award)
      PROVE  JobInv'
  <2>1. i \in ManualItems /\ award \in Nat
    BY <1>2, PointsAssumption DEF Issue, ManualItems
  <2>. QED
    BY <1>2, <2>1 DEF Issue, JobInv
<1>3. ASSUME NEW g \in Graders, Abort(g) PROVE JobInv'
  BY <1>3 DEF Abort, JobInv
<1>4. CASE SubmitLock \/ SubmitCommit \/ SubmitAbort \/ GetAttemptResult
            \/ UNCHANGED vars
  BY <1>4 DEF SubmitLock, SubmitCommit, SubmitAbort, GetAttemptResult, ResultRow,
     ResultItems, LeavePage, rest, vars, JobInv
<1>. QED
  BY <1>1, <1>2, <1>3, <1>4 DEF Next

\* Every step keeps what a decision for GRADED has seen.
LEMMA SnapshotStep == Shape /\ JobInv /\ SnapshotInv /\ [Next]_vars => SnapshotInv'
<1>. SUFFICES ASSUME Shape, JobInv, SnapshotInv, [Next]_vars,
                     NEW o \in Graders, job'[o].grading = "GRADED", NEW i \in ManualItems
              PROVE  /\ pc'[o] = "notify" => grade'[i] # None
                     /\ pc'[o] \in {"update", "commit"} =>
                           i = job'[o].item \/ grade'[i] # None
  BY DEF SnapshotInv
<1>. DEFINE Goal == /\ pc'[o] = "notify" => grade'[i] # None
                    /\ pc'[o] \in {"update", "commit"} =>
                          i = job'[o].item \/ grade'[i] # None
<1>1. grade[i] # None => grade'[i] # None
  BY GradesStay
<1>2. CASE pc'[o] = pc[o] /\ job'[o] = job[o]
  BY <1>1, <1>2 DEF SnapshotInv
<1>3. CASE pc'[o] \in {"idle", "upsert", "recompute"}
  BY <1>3
<1>4. CASE RecomputeSnapshot(o)
  <2>1. /\ pc[o] = "recompute" /\ pc'[o] = "update"
        /\ job'[o] = [job[o] EXCEPT !.score = RecomputedScore(Visible(o)),
                                    !.grading = RecomputedStatus(Visible(o))]
    BY <1>4 DEF RecomputeSnapshot, Shape
  <2>2. /\ job'[o].item = job[o].item
        /\ job'[o].grading = RecomputedStatus(Visible(o))
    BY <2>1 DEF Shape, Fields
  <2>3. \A j \in ManualItems : Visible(o)[j] # None
    BY <2>2 DEF RecomputedStatus
  <2>4. i = job[o].item \/ grade[i] # None
    BY <2>3, EssaysAreManual DEF Visible, Shape
  <2>. QED
    BY <1>1, <2>1, <2>2, <2>4
<1>5. CASE RecomputeUpdate(o)
  BY <1>1, <1>5 DEF RecomputeUpdate, SnapshotInv, Shape
<1>6. CASE Commit(o)
  <2>1. /\ pc[o] = "commit" /\ pc'[o] = "notify" /\ job'[o].grading = job[o].grading
        /\ grade' = [grade EXCEPT ![job[o].item] = job[o].award]
    BY <1>6 DEF Commit, Shape, NoJob, Fields
  <2>2. job[o].award # None /\ job[o].item \in Items
    BY <2>1, NoneAssumption, EssaysAreManual DEF JobInv
  <2>3. i = job[o].item \/ grade[i] # None
    BY <2>1 DEF SnapshotInv
  <2>. QED
    BY <1>1, <2>1, <2>2, <2>3 DEF Shape
<1>7. ASSUME NEW g \in Graders,
             \/ GraderStep(g) \/ Abort(g)
             \/ \E j \in Items, award \in 0..MaxScore : Issue(g, j, award)
      PROVE  Goal
  <2>1. CASE o # g
    BY <1>2, <1>7, <2>1, OtherGraders
  <2>2. CASE o = g
    <3>1. CASE \/ Abort(o) \/ Notify(o) \/ UpsertItemGrade(o)
               \/ \E j \in Items, award \in 0..MaxScore : Issue(o, j, award)
      BY <1>3, <3>1 DEF Abort, Notify, UpsertItemGrade, Issue, Shape
    <3>. QED
      BY <1>4, <1>5, <1>6, <1>7, <2>2, <3>1 DEF GraderStep
  <2>. QED
    BY <2>1, <2>2
<1>8. CASE SubmitLock \/ SubmitCommit \/ SubmitAbort \/ GetAttemptResult
            \/ UNCHANGED vars
  BY <1>1, <1>2, <1>8 DEF SubmitLock, SubmitCommit, SubmitAbort, GetAttemptResult,
     ResultRow, ResultItems, LeavePage, rest, vars
<1>. QED
  BY <1>7, <1>8 DEF Next

\* Every step keeps GRADED, and the word sent to the student, behind a grade
\* for every item they stand for.
LEMMA GradedStep == GInv /\ [Next]_vars => GradedOnlyWhenComplete'
<1>. SUFFICES ASSUME GInv, [Next]_vars PROVE GradedOnlyWhenComplete'
  OBVIOUS
<1>1. \A i \in ManualItems : grade[i] # None => grade'[i] # None
  BY GradesStay DEF GInv
<1>2. /\ grading = "GRADED" => \A i \in Essays : grade[i] # None
      /\ told => \A i \in ManualItems : grade[i] # None
  BY DEF GInv, GradedOnlyWhenComplete
<1>3. CASE UNCHANGED <<grading, told>>
  BY <1>1, <1>2, <1>3, EssaysAreManual DEF GradedOnlyWhenComplete
<1>4. ASSUME NEW g \in Graders, Commit(g) PROVE GradedOnlyWhenComplete'
  <2>1. SnapshotInv'
    BY SnapshotStep DEF GInv
  <2>2. /\ pc'[g] = "notify" /\ grading' = job[g].grading /\ told' = told
        /\ job'[g].grading = job[g].grading
    BY <1>4 DEF Commit, GInv, Shape, NoJob, Fields
  <2>3. grading' = "GRADED" => \A i \in ManualItems : grade'[i] # None
    BY <2>1, <2>2 DEF SnapshotInv
  <2>. QED
    BY <1>1, <1>2, <2>2, <2>3, EssaysAreManual DEF GradedOnlyWhenComplete
<1>5. ASSUME NEW g \in Graders, Notify(g) PROVE GradedOnlyWhenComplete'
  <2>1. /\ pc[g] = "notify" /\ told' = (told \/ job[g].grading = "GRADED")
        /\ grade' = grade /\ grading' = grading
    BY <1>5 DEF Notify, row
  <2>2. job[g].grading = "GRADED" => \A i \in ManualItems : grade[i] # None
    BY <2>1 DEF GInv, SnapshotInv
  <2>. QED
    BY <1>2, <2>1, <2>2 DEF GradedOnlyWhenComplete
<1>6. CASE SubmitCommit
  BY <1>2, <1>6 DEF SubmitCommit, GradedOnlyWhenComplete
<1>. QED
  BY <1>3, <1>4, <1>5, <1>6 DEF Next, vars, row, GraderStep, Issue, UpsertItemGrade,
     RecomputeSnapshot, RecomputeUpdate, Abort, SubmitLock, SubmitAbort,
     GetAttemptResult, ResultRow, ResultItems, LeavePage, rest

-----------------------------------------------------------------------------
(* The result page *)

\* The status GRADED read for a page speaks for every essay from then on.
PageInv ==
    /\ shown.at \in {"none", "items", "complete"}
    /\ shown.at # "none" /\ shown.grading = "GRADED" => \A i \in Essays : grade[i] # None
    /\ ResultPageComplete

\* Every step keeps what a page reports borne out by the grades.
LEMMA PageStep == GInv /\ PageInv /\ [Next]_vars => PageInv'
<1>. SUFFICES ASSUME GInv, PageInv, [Next]_vars PROVE PageInv'
  OBVIOUS
<1>1. \A i \in Essays : grade[i] # None => grade'[i] # None
  BY GradesStay, EssaysAreManual DEF GInv
<1>2. CASE ResultRow
  <2>1. shown' = [NoPage EXCEPT !.at = "items", !.grading = grading] /\ grade' = grade
    BY <1>2 DEF ResultRow, rest
  <2>2. shown'.at = "items" /\ shown'.grading = grading
    BY <2>1 DEF NoPage
  <2>. QED
    BY <2>1, <2>2 DEF PageInv, ResultPageComplete, GInv, GradedOnlyWhenComplete
<1>3. CASE ResultItems
  <2>1. /\ shown.at = "items" /\ grade' = grade
        /\ shown' = [shown EXCEPT !.at = "complete", !.blank = Blank]
    BY <1>3 DEF ResultItems, rest
  <2>2. shown'.at \in {"items", "complete"} /\ shown'.grading = shown.grading
    BY <2>1
  <2>3. shown'.blank \in {shown.blank, Blank}
    BY <2>1
  <2>. QED
    BY <2>1, <2>2, <2>3 DEF PageInv, ResultPageComplete, Blank
<1>4. CASE LeavePage
  BY <1>4 DEF LeavePage, NoPage, PageInv, ResultPageComplete
<1>5. CASE UNCHANGED shown
  BY <1>1, <1>5 DEF PageInv, ResultPageComplete
<1>. QED
  BY <1>2, <1>3, <1>4, <1>5 DEF Next, vars, GraderStep, Issue, UpsertItemGrade,
     RecomputeSnapshot, RecomputeUpdate, Commit, Notify, Abort, SubmitLock, SubmitCommit,
     SubmitAbort, GetAttemptResult

-----------------------------------------------------------------------------
(* The grader not overtaken *)

\* What it is going to write is computed from the grades its commit leaves.
SumInv ==
    \A g \in Computed \ overtaken :
        /\ job[g].score = SumOfGrades(Visible(g))
        /\ job[g].grading = RecomputedStatus(Visible(g))

\* The score is exact from such a commit until the next write of it.
ExactInv ==
    exact => /\ score = SumOfGrades(grade)
             /\ grading = RecomputedStatus(grade)

LInv == Shape /\ JobInv /\ SumInv /\ ExactInv

\* Every step keeps what a grader not overtaken is going to write.
LEMMA SumStep == LInv /\ [Next]_vars => SumInv'
<1>. SUFFICES ASSUME LInv, [Next]_vars, NEW l \in Graders, l \notin overtaken',
                     pc'[l] \in {"update", "commit"}
              PROVE  /\ job'[l].score = SumOfGrades(Visible(l)')
                     /\ job'[l].grading = RecomputedStatus(Visible(l)')
  BY DEF SumInv, Computed
<1>. DEFINE Goal == /\ job'[l].score = SumOfGrades(Visible(l)')
                    /\ job'[l].grading = RecomputedStatus(Visible(l)')
<1>1. CASE /\ pc[l] \in {"update", "commit"} /\ l \notin overtaken
           /\ job'[l] = job[l] /\ grade' = grade
  BY <1>1 DEF LInv, SumInv, Computed, Visible
<1>2. CASE RecomputeSnapshot(l)
  <2>1. /\ grade' = grade
        /\ job'[l] = [job[l] EXCEPT !.score = RecomputedScore(Visible(l)),
                                    !.grading = RecomputedStatus(Visible(l))]
    BY <1>2 DEF RecomputeSnapshot, LInv, Shape
  <2>2. /\ job'[l].item = job[l].item /\ job'[l].award = job[l].award
        /\ job'[l].score = SumOfGrades(Visible(l))
        /\ job'[l].grading = RecomputedStatus(Visible(l))
    BY <2>1 DEF LInv, Shape, Fields, RecomputedScore
  <2>3. Visible(l)' = Visible(l)
    BY <2>1, <2>2 DEF Visible
  <2>. QED
    BY <2>2, <2>3
<1>3. CASE RecomputeUpdate(l)
  BY <1>1, <1>3 DEF RecomputeUpdate, flags
<1>4. CASE \/ UpsertItemGrade(l) \/ Commit(l) \/ Notify(l) \/ Abort(l)
           \/ \E i \in Items, award \in 0..MaxScore : Issue(l, i, award)
  BY <1>4 DEF UpsertItemGrade, Commit, Notify, Abort, Issue, LInv, Shape
<1>5. ASSUME NEW g \in Graders, g # l,
             \/ GraderStep(g) \/ Abort(g)
             \/ \E i \in Items, award \in 0..MaxScore : Issue(g, i, award)
      PROVE  Goal
  <2>1. pc'[l] = pc[l] /\ job'[l] = job[l]
    BY <1>5, OtherGraders DEF LInv
  <2>2. CASE Commit(g)
    <3>1. overtaken' = Computed \ {g}
      BY <2>2 DEF Commit
    <3>. QED
      BY <1>5, <2>1, <3>1 DEF Computed
  <2>3. CASE ~Commit(g)
    <3>1. grade' = grade /\ (overtaken' = overtaken \/ overtaken' = overtaken \ {g})
      BY <1>5, <2>3 DEF GraderStep, UpsertItemGrade, RecomputeSnapshot, RecomputeUpdate,
         Notify, Abort, Issue, flags
    <3>. QED
      BY <1>1, <1>5, <2>1, <3>1
  <2>. QED
    BY <2>2, <2>3
<1>6. CASE SubmitLock \/ SubmitCommit \/ SubmitAbort \/ GetAttemptResult
           \/ UNCHANGED vars
  <2>1. UNCHANGED <<pc, job, grade, overtaken>>
    BY <1>6 DEF SubmitLock, SubmitCommit, SubmitAbort, GetAttemptResult, ResultRow,
       ResultItems, LeavePage, rest, flags, vars
  <2>. QED
    BY <1>1, <2>1
<1>. QED
  BY <1>2, <1>3, <1>4, <1>5, <1>6 DEF Next, GraderStep

\* Only the commit of a grader not overtaken makes the score exact.
LEMMA ExactStep == LInv /\ [Next]_vars => ExactInv'
<1>. SUFFICES ASSUME LInv, [Next]_vars PROVE ExactInv'
  OBVIOUS
<1>1. ASSUME NEW g \in Graders, Commit(g) PROVE ExactInv'
  <2>1. /\ pc[g] = "commit" /\ exact' = (g \notin overtaken)
        /\ grade' = Visible(g) /\ score' = job[g].score /\ grading' = job[g].grading
    BY <1>1 DEF Commit, Visible
  <2>. QED
    BY <2>1 DEF LInv, SumInv, Computed, ExactInv
<1>2. CASE SubmitCommit
  BY <1>2 DEF SubmitCommit, ExactInv
<1>3. CASE UNCHANGED <<grade, score, grading, exact>>
  BY <1>3 DEF LInv, ExactInv
<1>. QED
  BY <1>1, <1>2, <1>3 DEF Next, vars, row, flags, GraderStep, Issue, UpsertItemGrade,
     RecomputeSnapshot, RecomputeUpdate, Notify, Abort, SubmitLock, SubmitAbort,
     GetAttemptResult, ResultRow, ResultItems, LeavePage, rest

\* Nothing is computed, exact or shown before anything is graded.
LEMMA InitLInv == Init => LInv /\ PageInv
<1>1. Init => GInv
  BY InitGInv
<1>. QED
  BY <1>1 DEF Init, GInv, LInv, SumInv, Computed, ExactInv, PageInv, NoPage,
     ResultPageComplete

-----------------------------------------------------------------------------
(* Theorems *)

\* However gradings, regradings, aborts and the submit interleave, an attempt
\* is GRADED only with a grade for every essay, and the student is told so only
\* with a grade for every manually graded item.
THEOREM GradedComplete == Spec => []GradedOnlyWhenComplete
<1>1. GInv /\ [Next]_vars => GInv'
  BY ShapeStep, JobStep, SnapshotStep, GradedStep DEF GInv
<1>2. GInv => GradedOnlyWhenComplete
  BY DEF GInv
<1>. QED
  BY <1>1, <1>2, InitGInv, PTL DEF Spec

\* A grader whose sum no other grader's commit overtook leaves a score that
\* counts every grade, and GRADED exactly when all items that are graded by
\* hand have a grade, whatever gradings ran before it and beside it.
THEOREM GradesInScore == Spec => []GradesCounted
<1>1. LInv /\ [Next]_vars => LInv'
  BY ShapeStep, JobStep, SumStep, ExactStep DEF LInv
<1>2. LInv => GradesCounted
  BY DEF LInv, ExactInv, GradesCounted
<1>. QED
  BY <1>1, <1>2, InitLInv, PTL DEF Spec

\* However gradings commit between the two reads of a result page, a page that
\* reports GRADED shows a teacher's mark for every essay.
THEOREM ResultPages == Spec => []ResultPageComplete
<1>. DEFINE PInv == GInv /\ PageInv
<1>1. PInv /\ [Next]_vars => PInv'
  BY ShapeStep, JobStep, SnapshotStep, GradedStep, PageStep DEF GInv
<1>2. PInv => ResultPageComplete
  BY DEF PageInv
<1>3. Init => PInv
  BY InitGInv, InitLInv
<1>. QED
  BY <1>1, <1>2, <1>3, PTL DEF Spec

-----------------------------------------------------------------------------
(* Ranks *)

\* The members of a finite set in the order R up to x, x among them.
UpTo(S, R, x) == {y \in S : y = x \/ <<y, x>> \in R}

\* R orders S strictly and totally.
Orderly(S, R) ==
    /\ \A x \in S : <<x, x>> \notin R
    /\ \A x, y \in S : x # y => <<x, y>> \in R \/ <<y, x>> \in R
    /\ \A x, y, z \in S : <<x, y>> \in R /\ <<y, z>> \in R => <<x, z>> \in R

\* In a finite set that is ordered, every number up to its size is the rank
\* of one member, and the ranks follow the order.
LEMMA Ranking ==
    ASSUME NEW S, IsFiniteSet(S), NEW R, Orderly(S, R)
    PROVE  /\ \A x \in S : Cardinality(UpTo(S, R, x)) \in 1..Cardinality(S)
           /\ \A x, y \in S : <<x, y>> \in R
                 => Cardinality(UpTo(S, R, x)) < Cardinality(UpTo(S, R, y))
           /\ \A n \in 1..Cardinality(S) : \E x \in S : Cardinality(UpTo(S, R, x)) = n
<1>. DEFINE rank == [x \in S |-> Cardinality(UpTo(S, R, x))]
<1>1. Cardinality(S) \in Nat
  BY FS_CardinalityType
<1>2. ASSUME NEW x \in S
      PROVE  IsFiniteSet(UpTo(S, R, x)) /\ Cardinality(UpTo(S, R, x)) \in 1..Cardinality(S)
  <2>1. UpTo(S, R, x) \in SUBSET S /\ x \in UpTo(S, R, x)
    BY DEF UpTo
  <2>2. /\ IsFiniteSet(UpTo(S, R, x)) /\ Cardinality(UpTo(S, R, x)) \in Nat
        /\ Cardinality(UpTo(S, R, x)) <= Cardinality(S)
    BY <2>1, FS_Subset, FS_CardinalityType
  <2>3. Cardinality(UpTo(S, R, x)) # 0
    BY <2>1, <2>2, FS_EmptySet
  <2>. QED
    BY <1>1, <2>2, <2>3
<1>3. ASSUME NEW x \in S, NEW y \in S, <<x, y>> \in R
      PROVE  Cardinality(UpTo(S, R, x)) < Cardinality(UpTo(S, R, y))
  <2>1. UpTo(S, R, x) \in SUBSET UpTo(S, R, y)
    BY <1>3 DEF UpTo, Orderly
  <2>2. y \in UpTo(S, R, y) /\ y \notin UpTo(S, R, x)
    BY <1>3 DEF UpTo, Orderly
  <2>3. /\ Cardinality(UpTo(S, R, x)) <= Cardinality(UpTo(S, R, y))
        /\ Cardinality(UpTo(S, R, x)) # Cardinality(UpTo(S, R, y))
    BY <1>2, <2>1, <2>2, FS_Subset
  <2>4. Cardinality(UpTo(S, R, x)) \in Nat /\ Cardinality(UpTo(S, R, y)) \in Nat
    BY <1>1, <1>2
  <2>. QED
    BY <2>3, <2>4
<1>4. rank \in Injection(S, 1..Cardinality(S))
  <2>1. rank \in [S -> 1..Cardinality(S)]
    BY <1>2
  <2>2. ASSUME NEW x \in S, NEW y \in S, rank[x] = rank[y] PROVE x = y
    <3>1. rank[x] \in Nat /\ rank[y] \in Nat
      BY <1>1, <2>1
    <3>2. <<x, y>> \notin R /\ <<y, x>> \notin R
      BY <1>3, <2>2, <3>1
    <3>. QED
      BY <3>2 DEF Orderly
  <2>. QED
    BY <2>1, <2>2 DEF Injection, IsInjective
<1>5. IsFiniteSet(1..Cardinality(S)) /\ Cardinality(1..Cardinality(S)) = Cardinality(S)
  BY <1>1, FS_Interval
<1>6. rank \in Surjection(S, 1..Cardinality(S))
  BY <1>4, <1>5, FS_Injection
<1>7. ASSUME NEW n \in 1..Cardinality(S)
      PROVE  \E x \in S : Cardinality(UpTo(S, R, x)) = n
  <2>1. \E x \in S : rank[x] = n
    BY <1>6, <1>7 DEF Surjection
  <2>. QED
    BY <2>1
<1>. QED
  BY <1>2, <1>3, <1>7

\* The numbers of a finite set by their size.
LEMMA NumberRanks ==
    ASSUME NEW S \in SUBSET Nat, IsFiniteSet(S)
    PROVE  /\ \A k \in S : Cardinality({j \in S : j <= k}) \in 1..Cardinality(S)
           /\ \A j, k \in S : j < k
                 => Cardinality({m \in S : m <= j}) < Cardinality({m \in S : m <= k})
           /\ \A n \in 1..Cardinality(S) : \E k \in S : Cardinality({j \in S : j <= k}) = n
<1>. DEFINE R == {p \in S \X S : p[1] < p[2]}
<1>1. \A j, k \in S : <<j, k>> \in R <=> j < k
  OBVIOUS
<1>. HIDE DEF R
<1>2. \A k \in S : k \in Nat
  OBVIOUS
<1>3. Orderly(S, R)
  <2>1. \A x \in S : <<x, x>> \notin R
    BY <1>1, <1>2
  <2>2. \A x, y \in S : x # y => <<x, y>> \in R \/ <<y, x>> \in R
    BY <1>1, <1>2
  <2>3. \A x, y, z \in S : <<x, y>> \in R /\ <<y, z>> \in R => <<x, z>> \in R
    BY <1>1, <1>2
  <2>. QED
    BY <2>1, <2>2, <2>3 DEF Orderly
<1>4. ASSUME NEW k \in S PROVE UpTo(S, R, k) = {j \in S : j <= k}
  <2>1. \A j \in S : j = k \/ <<j, k>> \in R <=> j <= k
    BY <1>1, <1>2
  <2>. QED
    BY <2>1 DEF UpTo
<1>5. /\ \A x \in S : Cardinality(UpTo(S, R, x)) \in 1..Cardinality(S)
      /\ \A x, y \in S : <<x, y>> \in R
            => Cardinality(UpTo(S, R, x)) < Cardinality(UpTo(S, R, y))
      /\ \A n \in 1..Cardinality(S) : \E x \in S : Cardinality(UpTo(S, R, x)) = n
  BY <1>3, Ranking
<1>. QED
  BY <1>1, <1>4, <1>5

\* A sequence of the members of S at the places K, in their order.
LEMMA InOrder ==
    ASSUME NEW S \in SUBSET Nat, IsFiniteSet(S)
    PROVE  LET nth == [n \in 1..Cardinality(S) |->
                         CHOOSE k \in S : Cardinality({j \in S : j <= k}) = n]
           IN /\ nth \in [1..Cardinality(S) -> S] /\ Cardinality(S) \in Nat
              /\ \A m, n \in 1..Cardinality(S) : m < n => nth[m] < nth[n]
              /\ \A k \in S : \E n \in 1..Cardinality(S) : nth[n] = k
<1>. DEFINE Rank(k) == Cardinality({j \in S : j <= k})
            nth == [n \in 1..Cardinality(S) |-> CHOOSE k \in S : Rank(k) = n]
<1>1. Cardinality(S) \in Nat
  BY FS_CardinalityType
<1>2. /\ \A k \in S : Rank(k) \in 1..Cardinality(S)
      /\ \A j, k \in S : j < k => Rank(j) < Rank(k)
      /\ \A n \in 1..Cardinality(S) : \E k \in S : Rank(k) = n
  BY NumberRanks
<1>. HIDE DEF Rank
<1>3. \A n \in 1..Cardinality(S) : nth[n] \in S /\ Rank(nth[n]) = n
  BY <1>2
<1>4. nth \in [1..Cardinality(S) -> S]
  BY <1>3
<1>5. ASSUME NEW j \in S, NEW k \in S PROVE j < k <=> Rank(j) < Rank(k)
  <2>1. Rank(j) \in Nat /\ Rank(k) \in Nat /\ j \in Nat /\ k \in Nat
    BY <1>1, <1>2
  <2>2. CASE j < k
    BY <1>2, <2>1, <2>2
  <2>3. CASE k < j
    BY <1>2, <2>1, <2>3
  <2>4. CASE j = k
    BY <2>1, <2>4
  <2>. QED
    BY <2>1, <2>2, <2>3, <2>4
<1>. HIDE DEF nth
<1>6. \A m, n \in 1..Cardinality(S) : m < n => nth[m] < nth[n]
  BY <1>3, <1>5
<1>7. ASSUME NEW k \in S PROVE \E n \in 1..Cardinality(S) : nth[n] = k
  <2>1. Rank(k) \in 1..Cardinality(S)
    BY <1>2
  <2>2. nth[Rank(k)] \in S /\ Rank(nth[Rank(k)]) = Rank(k)
    BY <1>3, <2>1
  <2>3. ~(nth[Rank(k)] < k) /\ ~(k < nth[Rank(k)])
    <3>1. Rank(k) \in Nat
      BY <1>1, <2>1
    <3>2. /\ nth[Rank(k)] < k <=> Rank(nth[Rank(k)]) < Rank(k)
          /\ k < nth[Rank(k)] <=> Rank(k) < Rank(nth[Rank(k)])
      BY <1>5, <2>2
    <3>3. ~(Rank(k) < Rank(k))
      BY <3>1
    <3>. QED
      BY <2>2, <3>2, <3>3
  <2>4. nth[Rank(k)] = k
    <3>1. nth[Rank(k)] \in Nat /\ k \in Nat
      BY <2>2
    <3>. QED
      BY <2>3, <3>1
  <2>. QED
    BY <2>1, <2>4
<1>. QED
  BY <1>1, <1>4, <1>6, <1>7 DEF Rank, nth

-----------------------------------------------------------------------------
(* The password history *)

\* The members of a list are members of the set it is over.
LEMMA Members ==
    ASSUME NEW S, NEW s \in Seq(S)
    PROVE  /\ Len(s) \in Nat /\ DOMAIN s = 1..Len(s) /\ s \in [1..Len(s) -> S]
           /\ IsFiniteSet(DOMAIN s) /\ Cardinality(DOMAIN s) = Len(s)
<1>1. Len(s) \in Nat /\ DOMAIN s = 1..Len(s) /\ s \in [1..Len(s) -> S]
  OBVIOUS
<1>2. IsFiniteSet(1..Len(s)) /\ Cardinality(1..Len(s)) = Len(s)
  BY <1>1, FS_Interval
<1>. QED
  BY <1>1, <1>2

\* A list that grows by one member leaves the others as they were.
LEMMA Appended ==
    ASSUME NEW S, NEW s \in Seq(S), NEW x \in S
    PROVE  /\ Append(s, x) \in Seq(S) /\ Len(Append(s, x)) = Len(s) + 1
           /\ DOMAIN Append(s, x) = 1..(Len(s) + 1)
           /\ \A i \in DOMAIN s : i \in DOMAIN Append(s, x) /\ Append(s, x)[i] = s[i]
           /\ Append(s, x)[Len(s) + 1] = x /\ Last(Append(s, x)) = x
           /\ Append(s, x) # << >>
<1>1. /\ Append(s, x) \in Seq(S) /\ Len(Append(s, x)) = Len(s) + 1
      /\ DOMAIN Append(s, x) = 1..(Len(s) + 1) /\ Append(s, x)[Len(s) + 1] = x
  OBVIOUS
<1>2. ASSUME NEW i \in DOMAIN s PROVE i \in DOMAIN Append(s, x) /\ Append(s, x)[i] = s[i]
  BY <1>1, Members
<1>3. Append(s, x) # << >> /\ Last(Append(s, x)) = x
  <2>1. Len(s) + 1 # 0
    BY Members
  <2>. QED
    BY <1>1, <2>1 DEF Last
<1>. QED
  BY <1>1, <1>2, <1>3

\* No more than three members have three names.
LEMMA AtMostThree ==
    ASSUME NEW a, NEW b, NEW c, NEW S \in SUBSET {a, b, c}
    PROVE  Cardinality(S) \in 0..3 /\ (S \subseteq {a, b} => Cardinality(S) <= 2)
<1>1. IsFiniteSet({a}) /\ Cardinality({a}) = 1
  BY FS_Singleton
<1>2. IsFiniteSet({a} \cup {b}) /\ Cardinality({a} \cup {b}) \in 0..2
  BY <1>1, FS_AddElement
<1>3. /\ IsFiniteSet(({a} \cup {b}) \cup {c})
      /\ Cardinality(({a} \cup {b}) \cup {c}) \in 0..3
  BY <1>2, FS_AddElement
<1>4. S \in SUBSET (({a} \cup {b}) \cup {c})
  OBVIOUS
<1>5. IsFiniteSet(S) /\ Cardinality(S) <= Cardinality(({a} \cup {b}) \cup {c})
  BY <1>3, <1>4, FS_Subset
<1>6. Cardinality(S) \in Nat
  BY <1>5, FS_CardinalityType
<1>7. ASSUME S \subseteq {a, b} PROVE Cardinality(S) <= 2
  <2>1. S \in SUBSET ({a} \cup {b})
    BY <1>7
  <2>2. Cardinality(S) <= Cardinality({a} \cup {b})
    BY <1>2, <2>1, FS_Subset
  <2>. QED
    BY <1>2, <1>6, <2>2
<1>. QED
  BY <1>3, <1>5, <1>6, <1>7

\* The rows that are read or kept: five, or all.
LEMMA LatestRows ==
    ASSUME NEW rows \in Seq(HistoryRow), NEW S \in Latest(rows, PasswordHistoryLength)
    PROVE  /\ S \in SUBSET Nat /\ IsFiniteSet(S) /\ S \subseteq DOMAIN rows
           /\ Cardinality(S) = IF Len(rows) < 5 THEN Len(rows) ELSE 5
           /\ \A i \in S, j \in DOMAIN rows \ S : rows[j].at <= rows[i].at
<1>1. S \in SUBSET (DOMAIN rows) /\ DOMAIN rows \subseteq Nat
  BY Members DEF Latest
<1>2. IsFiniteSet(S)
  BY <1>1, Members, FS_Subset
<1>. QED
  BY <1>1, <1>2 DEF Latest, PasswordHistoryLength

\* A history of five rows is read to its end.
LEMMA AllRead ==
    ASSUME NEW rows \in Seq(HistoryRow), Len(rows) <= 5,
           NEW hashes \in ListPasswordHistory(rows)
    PROVE  \A i \in DOMAIN rows : rows[i].hash \in hashes
<1>1. PICK S \in Latest(rows, PasswordHistoryLength) : hashes = {rows[i].hash : i \in S}
  BY DEF ListPasswordHistory
<1>2. S \in SUBSET (DOMAIN rows) /\ Cardinality(S) = Len(rows)
  BY LatestRows, Members
<1>3. S = DOMAIN rows
  BY <1>2, Members, FS_Subset
<1>. QED
  BY <1>1, <1>3

\* The rows that are kept stay as they are, each once.
LEMMA KeptRows ==
    ASSUME NEW rows \in Seq(HistoryRow), NEW S \in SUBSET (DOMAIN rows)
    PROVE  /\ Kept(rows, S) \in Seq(HistoryRow) /\ Len(Kept(rows, S)) = Cardinality(S)
           /\ \A n \in DOMAIN Kept(rows, S) : \E i \in S : Kept(rows, S)[n] = rows[i]
           /\ \E nth \in [DOMAIN Kept(rows, S) -> S] :
                 /\ \A n \in DOMAIN Kept(rows, S) : Kept(rows, S)[n] = rows[nth[n]]
                 /\ \A i \in S : \E n \in DOMAIN Kept(rows, S) : nth[n] = i
                 /\ \A m, n \in DOMAIN Kept(rows, S) : nth[m] = nth[n] => m = n
<1>1. S \in SUBSET Nat /\ IsFiniteSet(S)
  BY Members, FS_Subset
<1>. DEFINE size == Cardinality(S)
            nth == [n \in 1..size |-> CHOOSE k \in S : Cardinality({j \in S : j <= k}) = n]
<1>2. /\ nth \in [1..size -> S] /\ size \in Nat
      /\ \A k \in S : \E n \in 1..size : nth[n] = k
      /\ \A m, n \in 1..size : m < n => nth[m] < nth[n]
  BY <1>1, InOrder
<1>3. Kept(rows, S) = [n \in 1..size |-> rows[nth[n]]]
  BY DEF Kept
<1>. HIDE DEF size, nth
<1>4. \A i \in S : rows[i] \in HistoryRow
  BY Members
<1>5. Kept(rows, S) \in [1..size -> HistoryRow]
  BY <1>2, <1>3, <1>4
<1>6. Kept(rows, S) \in Seq(HistoryRow) /\ Len(Kept(rows, S)) = size
  BY <1>2, <1>5
<1>7. DOMAIN Kept(rows, S) = 1..size
  BY <1>3
<1>8. \A n \in DOMAIN Kept(rows, S) : Kept(rows, S)[n] = rows[nth[n]] /\ nth[n] \in S
  BY <1>2, <1>3, <1>7
<1>9. nth \in [DOMAIN Kept(rows, S) -> S]
  BY <1>2, <1>7
<1>10. \A i \in S : \E n \in DOMAIN Kept(rows, S) : nth[n] = i
  BY <1>2, <1>7
<1>11. ASSUME NEW m \in 1..size, NEW n \in 1..size, nth[m] = nth[n] PROVE m = n
  <2>1. nth[m] \in Nat /\ nth[n] \in Nat /\ m \in Nat /\ n \in Nat
    BY <1>1, <1>2
  <2>2. ~(nth[m] < nth[n]) /\ ~(nth[n] < nth[m])
    BY <1>11, <2>1
  <2>3. ~(m < n) /\ ~(n < m)
    BY <1>2, <2>2
  <2>. QED
    BY <2>1, <2>3
<1>. QED
  BY <1>6, <1>7, <1>8, <1>9, <1>10, <1>11 DEF size

\* What a change adds to the history.
LEMMA Stored ==
    ASSUME NEW rows \in Seq(HistoryRow), NEW old \in Passwords \cup {Nothing},
           NEW new \in Passwords, NEW t \in Nat,
           NEW kept \in StorePasswordHistory(rows, old, new, t)
    PROVE  /\ kept \in Seq(HistoryRow) /\ Len(kept) <= PasswordHistoryLength
           /\ \A n \in DOMAIN kept :
                 kept[n].at = t \/ \E i \in DOMAIN rows : kept[n] = rows[i]
<1>. DEFINE first == IF old = Nothing THEN rows ELSE InsertPasswordHistory(rows, old, t)
            all == InsertPasswordHistory(first, new, t)
<1>1. /\ first \in Seq(HistoryRow)
      /\ \A i \in DOMAIN first : first[i].at = t \/ \E j \in DOMAIN rows : first[i] = rows[j]
  <2>1. CASE old = Nothing
    BY <2>1
  <2>2. CASE old \in Passwords /\ old # Nothing
    <3>1. [hash |-> old, at |-> t] \in HistoryRow
      BY <2>2 DEF HistoryRow
    <3>2. first = Append(rows, [hash |-> old, at |-> t])
      BY <2>2 DEF InsertPasswordHistory
    <3>. QED
      BY <3>1, <3>2
  <2>. QED
    BY <2>1, <2>2
<1>. HIDE DEF first
<1>2. /\ all \in Seq(HistoryRow)
      /\ \A i \in DOMAIN all : all[i].at = t \/ \E j \in DOMAIN rows : all[i] = rows[j]
  <2>1. [hash |-> new, at |-> t] \in HistoryRow
    BY DEF HistoryRow
  <2>. QED
    BY <1>1, <2>1 DEF InsertPasswordHistory
<1>3. PICK S \in Latest(all, PasswordHistoryLength) : kept = Kept(all, S)
  BY DEF StorePasswordHistory, DeleteOldPasswordHistory, first
<1>. HIDE DEF all
<1>4. /\ S \in SUBSET (DOMAIN all)
      /\ Cardinality(S) = IF Len(all) < 5 THEN Len(all) ELSE 5
  BY <1>2, LatestRows
<1>5. /\ kept \in Seq(HistoryRow) /\ Len(kept) = Cardinality(S)
      /\ \A n \in DOMAIN kept : \E i \in S : kept[n] = all[i]
  <2>1. /\ Kept(all, S) \in Seq(HistoryRow) /\ Len(Kept(all, S)) = Cardinality(S)
        /\ \A n \in DOMAIN Kept(all, S) : \E i \in S : Kept(all, S)[n] = all[i]
    BY ONLY <1>2, <1>4, KeptRows
  <2>. QED
    BY ONLY <1>3, <2>1
<1>6. Len(kept) <= 5
  BY <1>2, <1>4, <1>5
<1>. QED
  BY <1>2, <1>4, <1>5, <1>6 DEF PasswordHistoryLength

\* A new account remembers its first password.
LEMMA FirstRemembered ==
    ASSUME NEW new \in Passwords, NEW t \in Nat,
           NEW kept \in StorePasswordHistory(<< >>, Nothing, new, t)
    PROVE  Remembers(kept, <<new>>)
<1>. DEFINE all == <<[hash |-> new, at |-> t]>>
<1>1. all \in Seq(HistoryRow) /\ Len(all) = 1 /\ DOMAIN all = {1}
  BY DEF HistoryRow
<1>2. PICK S \in Latest(all, PasswordHistoryLength) : kept = Kept(all, S)
  BY DEF StorePasswordHistory, DeleteOldPasswordHistory, InsertPasswordHistory
<1>. HIDE DEF all
<1>3. S \in SUBSET (DOMAIN all) /\ Cardinality(S) = 1
  BY <1>1, LatestRows
<1>4. /\ kept \in Seq(HistoryRow) /\ Len(kept) = 1
      /\ \A n \in DOMAIN kept : \E i \in S : kept[n] = all[i]
  BY <1>1, <1>2, <1>3, KeptRows
<1>5. DOMAIN kept = {1} /\ kept[1].hash = new
  BY <1>1, <1>3, <1>4 DEF all
<1>. QED
  BY <1>5 DEF Remembers

\* Lists of one member and of two.
LEMMA OneAndTwo ==
    ASSUME NEW S, NEW x \in S, NEW y \in S
    PROVE  /\ Append(Append(<< >>, x), y) = <<x, y>> /\ Append(<<x>>, y) = <<x, y>>
           /\ \A s \in Seq(S) : Len(s) = 1 => s = <<s[Len(s)]>>
<1>1. /\ << >> \in Seq(S) /\ Len(<< >>) = 0 /\ <<x>> \in Seq(S) /\ Len(<<x>>) = 1 /\ <<x>>[1] = x
      /\ <<x, y>> \in [1..2 -> S] /\ <<x, y>>[1] = x /\ <<x, y>>[2] = y
  OBVIOUS
<1>2. Append(<< >>, x) = <<x>>
  <2>1. Append(<< >>, x) \in [1..1 -> S] /\ Append(<< >>, x)[1] = x
    BY <1>1
  <2>2. <<x>> \in [1..1 -> S]
    BY <1>1
  <2>. QED
    BY <1>1, <2>1, <2>2
<1>3. Append(<<x>>, y) = <<x, y>>
  <2>1. ASSUME NEW s \in Seq(S), Len(s) = 1, s[1] = x
        PROVE  Append(s, y) \in [1..2 -> S] /\ Append(s, y)[1] = x /\ Append(s, y)[2] = y
    <3>1. 1 \in DOMAIN s /\ Len(s) + 1 = 2
      BY <2>1, Members
    <3>. DEFINE after == Append(s, y)
    <3>2. /\ after \in Seq(S) /\ Len(after) = 2 /\ after[1] = s[1] /\ after[2] = y
      BY <2>1, <3>1, Appended
    <3>. HIDE DEF after
    <3>3. after \in [1..2 -> S]
      BY <3>2, Members
    <3>. QED
      BY <2>1, <3>2, <3>3 DEF after
  <2>. DEFINE s == Append(<<x>>, y)
              t == <<x, y>>
  <2>2. s \in [1..2 -> S] /\ s[1] = t[1] /\ s[2] = t[2] /\ t \in [1..2 -> S]
    BY <1>1, <2>1
  <2>. HIDE DEF s, t
  <2>3. \A i \in 1..2 : s[i] = t[i]
    BY <2>2
  <2>4. s = t
    BY <2>2, <2>3
  <2>. QED
    BY <2>4 DEF s, t
<1>4. ASSUME NEW s \in Seq(S), Len(s) = 1 PROVE s = <<s[Len(s)]>>
  <2>1. s \in [1..1 -> S] /\ s[1] \in S
    BY <1>4
  <2>2. <<s[1]>> \in [1..1 -> S] /\ <<s[1]>>[1] = s[1]
    BY <2>1
  <2>. QED
    BY <1>4, <2>1, <2>2
<1>. QED
  BY <1>2, <1>3, <1>4

\* The first change of an account without a row stores both passwords.
LEMMA FirstChangeRemembered ==
    ASSUME NEW old \in Passwords, NEW new \in Passwords, NEW t \in Nat,
           NEW kept \in StorePasswordHistory(<< >>, old, new, t)
    PROVE  Remembers(kept, <<old, new>>)
<1>. DEFINE all == <<[hash |-> old, at |-> t], [hash |-> new, at |-> t]>>
<1>1. /\ all \in Seq(HistoryRow) /\ Len(all) = 2 /\ DOMAIN all = 1..2
      /\ all[1] = [hash |-> old, at |-> t] /\ all[2] = [hash |-> new, at |-> t]
  BY DEF HistoryRow
<1>2. PICK S \in Latest(all, PasswordHistoryLength) : kept = Kept(all, S)
  <2>1. Append(Append(<< >>, [hash |-> old, at |-> t]), [hash |-> new, at |-> t]) = all
    <3>1. [hash |-> old, at |-> t] \in HistoryRow /\ [hash |-> new, at |-> t] \in HistoryRow
      BY DEF HistoryRow
    <3>. QED
      BY <3>1, OneAndTwo
  <2>2. old # Nothing
    BY NothingAssumption
  <2>. HIDE DEF all
  <2>. QED
    BY <2>1, <2>2 DEF StorePasswordHistory, DeleteOldPasswordHistory, InsertPasswordHistory
<1>. HIDE DEF all
<1>3. S \in SUBSET (1..2) /\ IsFiniteSet(S) /\ Cardinality(S) = 2
  <2>1. /\ S \subseteq DOMAIN all /\ IsFiniteSet(S)
        /\ Cardinality(S) = IF Len(all) < 5 THEN Len(all) ELSE 5
    BY <1>1, LatestRows
  <2>. QED
    BY <1>1, <2>1
<1>4. S = 1..2
  <2>1. IsFiniteSet(1..2) /\ Cardinality(1..2) = 2
    <3>1. 1..2 = DOMAIN all /\ Len(all) = 2
      BY <1>1
    <3>. QED
      BY ONLY <1>1, <3>1, Members
  <2>. QED
    BY <1>3, <2>1, FS_Subset
<1>5. PICK nth \in [DOMAIN kept -> S] :
         /\ \A k \in DOMAIN kept : kept[k] = all[nth[k]]
         /\ \A i \in S : \E k \in DOMAIN kept : nth[k] = i
         /\ \A j, k \in DOMAIN kept : nth[j] = nth[k] => j = k
  <2>1. S \in SUBSET (DOMAIN all) /\ all \in Seq(HistoryRow)
    BY <1>1, <1>3
  <2>2. \E nth \in [DOMAIN Kept(all, S) -> S] :
           /\ \A k \in DOMAIN Kept(all, S) : Kept(all, S)[k] = all[nth[k]]
           /\ \A i \in S : \E k \in DOMAIN Kept(all, S) : nth[k] = i
           /\ \A j, k \in DOMAIN Kept(all, S) : nth[j] = nth[k] => j = k
    BY ONLY <2>1, KeptRows
  <2>. QED
    BY <1>2, <2>2
<1>6. PICK a \in DOMAIN kept, b \in DOMAIN kept : nth[a] = 2 /\ nth[b] = 1
  BY <1>4, <1>5
<1>7. /\ a # b /\ kept[a].hash = new /\ kept[b].hash = old
      /\ \A k \in DOMAIN kept : kept[k].at = t
  BY <1>1, <1>4, <1>5, <1>6
<1>8. \A k \in DOMAIN kept : k \in {a, b}
  BY <1>4, <1>5, <1>6
<1>9. \A k \in DOMAIN kept \ {a, b} : kept[k].at < kept[a].at
  BY <1>8
<1>10. /\ Len(<<old, new>>) = 2 /\ <<old, new>>[2] = new /\ <<old, new>>[2 - 1] = old
  OBVIOUS
<1>. QED
  BY <1>6, <1>7, <1>9, <1>10 DEF Remembers

\* After a change that ran alone the two rows it stored are younger than any
\* other and both kept; so are the two of the change before, for there are no
\* more than three rows that are younger than one of them and five are kept.
LEMMA ChangeRemembered ==
    ASSUME NEW rows \in Seq(HistoryRow), NEW passwords \in Seq(Passwords), passwords # << >>,
           Remembers(rows, passwords), NEW t \in Nat, \A i \in DOMAIN rows : rows[i].at < t,
           NEW new \in Passwords,
           NEW kept \in StorePasswordHistory(rows, Last(passwords), new, t)
    PROVE  Remembers(kept, Append(passwords, new))
<1>. DEFINE n == Len(passwords)
            m == Len(rows)
            x == m + 1
            y == m + 2
            old == Last(passwords)
            all == Append(Append(rows, [hash |-> old, at |-> t]), [hash |-> new, at |-> t])
<1>1. n \in Nat /\ n >= 1 /\ passwords \in [1..n -> Passwords] /\ m \in Nat
  BY DEF n, m
<1>2. old = passwords[n] /\ old \in Passwords /\ old # Nothing
  BY <1>1, NothingAssumption DEF Last
<1>3. /\ all \in Seq(HistoryRow) /\ Len(all) = m + 2 /\ DOMAIN all = 1..(m + 2)
      /\ \A i \in 1..m : all[i] = rows[i]
      /\ all[x] = [hash |-> old, at |-> t] /\ all[y] = [hash |-> new, at |-> t]
  <2>1. [hash |-> old, at |-> t] \in HistoryRow /\ [hash |-> new, at |-> t] \in HistoryRow
    BY <1>2 DEF HistoryRow
  <2>. QED
    BY <1>1, <2>1
<1>4. DOMAIN rows = 1..m /\ \A i \in 1..m : rows[i] \in HistoryRow
  BY Members
<1>5. PICK S \in Latest(all, PasswordHistoryLength) : kept = Kept(all, S)
  BY <1>2 DEF StorePasswordHistory, DeleteOldPasswordHistory, InsertPasswordHistory
<1>. HIDE DEF all, old, n, m
<1>6. /\ S \in SUBSET (1..(m + 2)) /\ IsFiniteSet(S)
      /\ Cardinality(S) = IF m + 2 < 5 THEN m + 2 ELSE 5
      /\ \A i \in S, j \in (1..(m + 2)) \ S : all[j].at <= all[i].at
  BY <1>3, LatestRows
<1>7. PICK a \in 1..m, b \in 1..m :
        /\ rows[a].hash = passwords[n]
        /\ n > 1 => a # b /\ rows[b].hash = passwords[n - 1]
        /\ rows[a].at = rows[b].at
        /\ \A j \in (1..m) \ {a, b} : rows[j].at < rows[a].at
  BY <1>4 DEF Remembers, n
<1>8. \A i \in 1..m : all[i].at = rows[i].at /\ rows[i].at \in Nat /\ rows[i].at < t
  BY <1>3, <1>4 DEF HistoryRow
<1>9. all[x].at = t /\ all[y].at = t /\ all[x].hash = old /\ all[y].hash = new
  BY <1>3
<1>10. m >= 1 /\ Cardinality(S) >= 3
  BY <1>1, <1>6, <1>7
<1>11. x \in S /\ y \in S
  <2>1. ASSUME NEW z \in {x, y}, z \notin S PROVE FALSE
    <3>1. z \in (1..(m + 2)) \ S
      BY <1>1, <2>1
    <3>2. ASSUME NEW i \in S PROVE i \in {x, y}
      <4>1. all[z].at <= all[i].at /\ i \in 1..(m + 2)
        BY <1>6, <3>1
      <4>2. i \notin 1..m
        <5>1. CASE i \in 1..m
          BY <1>8, <1>9, <4>1, <5>1
        <5>. QED
          BY <5>1
      <4>. QED
        BY <1>1, <4>1, <4>2
    <3>3. S \in SUBSET {x, y, x} /\ S \subseteq {x, y}
      BY <3>2
    <3>4. Cardinality(S) \in 0..3 /\ Cardinality(S) <= 2
      BY <3>3, AtMostThree
    <3>. QED
      BY <1>10, <3>4
  <2>. QED
    BY <2>1
<1>12. ASSUME n > 1 PROVE b \in S
  <2>1. m >= 2
    BY <1>1, <1>7, <1>12
  <2>2. ASSUME b \notin S PROVE FALSE
    <3>1. b \in (1..(m + 2)) \ S
      BY <1>1, <2>2
    <3>2. ASSUME NEW i \in S PROVE i \in {x, y, a}
      <4>1. all[b].at <= all[i].at /\ i \in 1..(m + 2) /\ i # b
        BY <1>6, <2>2, <3>1
      <4>2. CASE i \in (1..m) \ {a, b}
        BY <1>7, <1>8, <4>1, <4>2
      <4>3. CASE i \notin 1..m
        <5>1. i \in {m + 1, m + 2}
          BY ONLY <1>1, <4>1, <4>3
        <5>. QED
          BY <5>1
      <4>. QED
        BY <4>1, <4>2, <4>3
    <3>3. S \in SUBSET {x, y, a}
      BY <3>2
    <3>4. Cardinality(S) \in 0..3
      BY <3>3, AtMostThree
    <3>. QED
      BY <1>1, <1>6, <2>1, <3>4
  <2>. QED
    BY <2>2
<1>13. PICK nth \in [DOMAIN kept -> S] :
         /\ \A k \in DOMAIN kept : kept[k] = all[nth[k]]
         /\ \A i \in S : \E k \in DOMAIN kept : nth[k] = i
         /\ \A j, k \in DOMAIN kept : nth[j] = nth[k] => j = k
  <2>1. /\ S \in SUBSET (DOMAIN all)
        /\ all \in Seq(HistoryRow)
    BY ONLY <1>3, <1>6
  <2>2. \E nth \in [DOMAIN Kept(all, S) -> S] :
         /\ \A k \in DOMAIN Kept(all, S) : Kept(all, S)[k] = all[nth[k]]
         /\ \A i \in S : \E k \in DOMAIN Kept(all, S) : nth[k] = i
         /\ \A j, k \in DOMAIN Kept(all, S) : nth[j] = nth[k] => j = k
    BY ONLY <2>1, KeptRows
  <2>. QED
    BY ONLY <1>5, <2>2
<1>14. PICK k \in DOMAIN kept : nth[k] = y
  BY <1>11, <1>13
<1>15. PICK l \in DOMAIN kept : nth[l] = x
  BY <1>11, <1>13
<1>16. k # l
  BY <1>1, <1>14, <1>15
<1>17. ASSUME NEW j \in DOMAIN kept, j \notin {k, l} PROVE kept[j].at < t
  <2>1. nth[j] \in 1..(m + 2) /\ nth[j] # x /\ nth[j] # y
    BY <1>6, <1>13, <1>14, <1>15, <1>17
  <2>2. nth[j] \in 1..m
    BY <1>1, <2>1
  <2>. QED
    BY <1>8, <1>13, <2>2
<1>18. kept[k].hash = new /\ kept[l].hash = old /\ kept[k].at = t /\ kept[l].at = t
  BY <1>9, <1>13, <1>14, <1>15
<1>19. ASSUME n > 1 PROVE \E c \in DOMAIN kept : kept[c].hash = passwords[n - 1]
  <2>1. PICK c \in DOMAIN kept : nth[c] = b
    BY <1>12, <1>13, <1>19
  <2>2. kept[c].hash = rows[b].hash
    BY <1>3, <1>13, <2>1
  <2>. QED
    BY <1>7, <1>19, <2>2
<1>. DEFINE after == Append(passwords, new)
<1>20. /\ Len(after) = n + 1 /\ after[n + 1] = new /\ after[n] = old
       /\ n > 1 => after[n - 1] = passwords[n - 1]
  <2>1. Len(after) = n + 1 /\ after[n + 1] = new /\ \A i \in 1..n : after[i] = passwords[i]
    BY <1>1 DEF n
  <2>2. n \in 1..n /\ (n > 1 => n - 1 \in 1..n)
    BY <1>1
  <2>. HIDE DEF after
  <2>. QED
    BY <1>2, <2>1, <2>2
<1>. HIDE DEF after
<1>21. (n + 1) - 1 = n /\ (n + 1) - 2 = n - 1 /\ (n + 1 > 2 => n > 1)
  BY <1>1
<1>22. /\ kept[k].hash = after[Len(after)]
       /\ Len(after) > 1 => k # l /\ kept[l].hash = after[Len(after) - 1]
       /\ kept[k].at = kept[l].at
       /\ \A j \in DOMAIN kept \ {k, l} : kept[j].at < kept[k].at
  BY <1>16, <1>17, <1>18, <1>20, <1>21
<1>23. Len(after) > 2 => \E c \in DOMAIN kept : kept[c].hash = after[Len(after) - 2]
  BY <1>19, <1>20, <1>21
<1>24. Remembers(kept, after)
  BY <1>14, <1>15, <1>22, <1>23 DEF Remembers
<1>. QED
  BY <1>24 DEF after

\* A password that is in no row of the history is none of the last three.
LEMMA NoneRepeated ==
    ASSUME NEW rows \in Seq(HistoryRow), Len(rows) <= 5,
           NEW passwords \in Seq(Passwords), passwords # << >>,
           Remembers(rows, passwords), NEW hashes \in ListPasswordHistory(rows),
           NEW new, new \notin hashes
    PROVE  \A i \in DOMAIN passwords : Len(passwords) - i < 3 => new # passwords[i]
<1>. DEFINE n == Len(passwords)
<1>1. n \in Nat /\ n >= 1 /\ DOMAIN passwords = 1..n
  BY Members
<1>2. \A i \in DOMAIN rows : rows[i].hash # new
  BY AllRead
<1>3. /\ \E a \in DOMAIN rows : rows[a].hash = passwords[n]
      /\ n > 1 => \E b \in DOMAIN rows : rows[b].hash = passwords[n - 1]
      /\ n > 2 => \E c \in DOMAIN rows : rows[c].hash = passwords[n - 2]
  BY DEF Remembers
<1>. HIDE DEF n
<1>4. /\ new # passwords[n] /\ (n > 1 => new # passwords[n - 1])
      /\ n > 2 => new # passwords[n - 2]
  BY <1>2, <1>3
<1>5. ASSUME NEW i \in 1..n, n - i < 3 PROVE new # passwords[i]
  <2>1. i = n \/ (n > 1 /\ i = n - 1) \/ (n > 2 /\ i = n - 2)
    BY <1>1, <1>5
  <2>. QED
    BY <1>4, <2>1
<1>. QED
  BY <1>1, <1>5 DEF n

\* A password is set again only by the first change of an account that is
\* older than the table.
NotAgain(passwords, l) ==
    \A i, j \in DOMAIN passwords :
       i < j /\ j - i <= 3 /\ passwords[i] = passwords[j] => l \in unrecorded /\ j = 2

\* It may be appended.
LEMMA StillNotAgain ==
    ASSUME NEW l, NEW passwords \in Seq(Passwords), NotAgain(passwords, l), NEW new \in Passwords,
           \/ \A i \in DOMAIN passwords : Len(passwords) - i < 3 => new # passwords[i]
           \/ l \in unrecorded /\ Len(passwords) = 1
    PROVE  NotAgain(Append(passwords, new), l)
<1>. DEFINE n == Len(passwords)
            after == Append(passwords, new)
<1>1. n \in Nat /\ DOMAIN passwords = 1..n /\ DOMAIN after = 1..(n + 1)
      /\ \A i \in 1..n : after[i] = passwords[i]
  BY Members
<1>2. after[n + 1] = new
  OBVIOUS
<1>. HIDE DEF after
<1>3. ASSUME NEW i \in 1..(n + 1), NEW j \in 1..(n + 1), i < j, j - i <= 3, after[i] = after[j]
      PROVE  l \in unrecorded /\ j = 2
  <2>1. CASE j <= n
    BY <1>1, <1>3, <2>1 DEF NotAgain
  <2>2. CASE j = n + 1
    <3>1. i \in 1..n /\ n - i < 3
      BY <1>1, <1>3, <2>2
    <3>. QED
      BY <1>1, <1>2, <1>3, <2>2, <3>1
  <2>. QED
    BY <1>1, <2>1, <2>2
<1>4. NotAgain(after, l)
  BY <1>1, <1>3 DEF NotAgain
<1>. QED
  BY <1>4 DEF after

-----------------------------------------------------------------------------
(* Accounts: the invariant *)

\* What the tables hold.
TablesOK ==
    /\ accounts \in [Logins -> Account \cup {Nothing}] /\ history \in [Logins -> Seq(HistoryRow)]
    /\ past \in [Logins -> Seq(Passwords)]
    /\ \A l \in Logins :
          /\ IF accounts[l] = Nothing THEN history[l] = << >> /\ past[l] = << >>
             ELSE past[l] # << >> /\ accounts[l].password = Last(past[l])
          /\ Len(history[l]) <= PasswordHistoryLength
          /\ \A i \in DOMAIN history[l] : history[l][i].at <= clock
    /\ audit \subseteq Actions \X Requests /\ organization \in Names
    /\ renames \in Seq([before : Names, after : Names, by : Requests])
    /\ owner \in [Logins -> Requests \cup {Nothing}] /\ clock \in Nat
    /\ unrecorded \subseteq Logins /\ overlaps \subseteq Logins \cup {Nothing}
    /\ lost \subseteq Requests \X Nat

\* What a request has at each point of its handler.
FormInv(r) ==
    LET q == req[r] IN
    /\ q.pc = "idle" => q = Idle
    /\ q.op = Nothing => q.pc = "idle"
    /\ q.op = "create" =>
          /\ q.pc \in {"exists", "insert", "created", "ok", "error"}
          /\ q.login \in Logins /\ q.password \in Passwords /\ q.results = << >>
    /\ q.op \in {"import", "dry run"} =>
          /\ q.pc \in {"row", "exists", "insert", "created", "audit", "ok", "error"}
          /\ Len(q.results) <= Len(q.file)
          /\ q.pc \in {"exists", "insert", "created"} =>
                Len(q.results) < Len(q.file) /\ Row(r) \in FileRow
          /\ q.op = "dry run" => q.pc \notin {"insert", "created", "audit"}
    /\ q.op \in {"change", "reset"} =>
          /\ q.pc \in {"begin", "check", "update", "commit", "ok", "error"}
          /\ q.login \in Logins /\ q.password \in Passwords /\ accounts[q.login] # Nothing
          /\ q.pc \in {"check", "update", "commit"} => q.old \in Passwords /\ q.at <= clock
    /\ q.op = "rename" =>
          /\ q.pc \in {"organization", "rename", "ok", "error"} /\ q.name \in Names
          /\ q.pc = "rename" => q.old \in Names

\* Who has inserted a login name holds its key until the end of the transaction.
HoldInv(r) ==
    req[r].pc = "created" => owner[Name(r)] = r /\ accounts[Name(r)] = Nothing

\* A row that is reported as created is an account; a creation or an import
\* that succeeded has done all it had to do.
ReportInv(r) ==
    LET q == req[r] IN
    /\ \A i \in DOMAIN q.results : q.results[i] = "created" =>
          LET l == q.file[i].login IN
          q.op = "import" /\ l \in Logins /\ accounts[l] # Nothing /\ accounts[l].by = <<r, i>>
    /\ q.op = "create" /\ q.pc = "ok" =>
          accounts[q.login] # Nothing /\ accounts[q.login].by = <<r, 1>>
    /\ q.op = "import" /\ q.pc = "ok" => <<"user.import", r>> \in audit

Sound(r) == req[r] \in RequestType /\ FormInv(r) /\ HoldInv(r) /\ ReportInv(r)

\* An account that a request made is in the audit log, or its row is done with.
MadeInv ==
    \A l \in Logins, r \in Requests, i \in Nat :
       accounts[l] # Nothing /\ accounts[l].by = <<r, i>> =>
          \/ /\ req[r].op = "create" /\ i = 1 /\ req[r].pc \in {"ok", "error"}
             /\ <<"user.create", r>> \in audit
          \/ /\ req[r].op = "import" /\ i \in DOMAIN req[r].results
             /\ req[r].results[i] = "created" \/ <<r, i>> \in lost

\* A renaming that runs alone has read the name that it replaces.
NamesInv ==
    /\ renames # << >> => Last(renames).after = organization
    /\ Nothing \notin overlaps =>
          /\ \A r, s \in Renaming : r = s
          /\ \A r \in Requests : req[r].pc = "rename" => req[r].old = organization
          /\ \A i \in 2..Len(renames) : renames[i].before = renames[i - 1].after

\* The history of an account that is changed by one request at a time tells
\* its last three passwords, and the request that has looked there sets none
\* of them, unless the account is older than the table and has no row yet.
Bare(l) == l \in unrecorded /\ history[l] = << >> /\ Len(past[l]) = 1
ChangeInv(l) ==
    l \notin overlaps =>
       /\ accounts[l] # Nothing =>
             (Remembers(history[l], past[l]) \/ Bare(l)) /\ NotAgain(past[l], l)
       /\ \A r, s \in Changing(l) : r = s
       /\ \A r \in Changing(l) :
             /\ req[r].old = accounts[l].password
             /\ \A i \in DOMAIN history[l] : history[l][i].at < req[r].at
             /\ req[r].pc # "check" /\ ~Bare(l) =>
                   \A i \in DOMAIN past[l] : Len(past[l]) - i < 3 => req[r].password # past[l][i]

AInv ==
    /\ TablesOK /\ req \in [Requests -> RequestType] /\ \A r \in Requests : Sound(r)
    /\ MadeInv /\ NamesInv /\ \A l \in Logins : ChangeInv(l)

-----------------------------------------------------------------------------
(* Accounts: what a step does *)

\* Nothing is none of the values it stands beside.
LEMMA NothingElse ==
    /\ Nothing \notin Logins /\ Nothing \notin Passwords /\ Nothing \notin Requests
    /\ Nothing \notin Names /\ Nothing \notin Account /\ Nothing \notin FileRow
    /\ Nothing \notin (Requests \X Nat) /\ Nothing \notin Operations
    /\ BadRow \notin FileRow
BY NothingAssumption DEF BadRow, FileRow

\* The row a request has in hand.
LEMMA InHand ==
    ASSUME NEW r \in Requests, Sound(r), req[r].pc \in {"exists", "insert", "created"}
    PROVE  /\ Row(r) \in FileRow /\ Name(r) \in Logins /\ Row(r).password \in Passwords
           /\ req[r].op \in {"create", "import", "dry run"}
           /\ req[r].pc # "exists" => req[r].op # "dry run"
           /\ Importing(r) <=> req[r].op # "create"
           /\ Importing(r) => Len(req[r].results) + 1 \in DOMAIN req[r].file
<1>. DEFINE q == req[r]
<1>1. q \in RequestType /\ q.op \in Operations \cup {Nothing}
  BY DEF Sound, RequestType
<1>2. q.op \in {"create", "import", "dry run"}
  BY <1>1 DEF Sound, FormInv, Operations
<1>3. CASE q.op = "create"
  <2>1. q.login \in Logins /\ q.password \in Passwords
    BY <1>3 DEF Sound, FormInv
  <2>2. ~Importing(r) /\ Row(r) = [login |-> q.login, password |-> q.password]
    BY <1>3 DEF Importing, Row
  <2>. QED
    BY <1>3, <2>1, <2>2 DEF Name, FileRow
<1>4. CASE q.op \in {"import", "dry run"}
  <2>1. Row(r) \in FileRow /\ Len(q.results) < Len(q.file)
    BY <1>4 DEF Sound, FormInv
  <2>2. q.file \in Seq(FileRow \cup {BadRow}) /\ q.results \in Seq({"created", "valid", "error"})
    BY <1>1 DEF RequestType
  <2>3. Len(q.results) \in Nat /\ Len(q.file) \in Nat /\ DOMAIN q.file = 1..Len(q.file)
    BY <2>2
  <2>4. Len(q.results) + 1 \in DOMAIN q.file
    BY <2>1, <2>3
  <2>5. Importing(r) /\ (q.pc # "exists" => q.op # "dry run")
    BY <1>4 DEF Importing, Sound, FormInv
  <2>. QED
    BY <1>4, <2>1, <2>4, <2>5 DEF Name, FileRow
<1>. QED
  BY <1>2, <1>3, <1>4

\* A row that is done with is added to the results, any other request ends.
LEMMA RowEnds ==
    ASSUME NEW r \in Requests, req \in [Requests -> RequestType], NEW s, RowDone(r, s)
    PROVE  /\ req' = [req EXCEPT ![r] = req'[r]]
           /\ req'[r].op = req[r].op /\ req'[r].login = req[r].login
           /\ req'[r].file = req[r].file /\ req'[r].password = req[r].password
           /\ Importing(r) => req'[r] = [req[r] EXCEPT !.results = Append(@, s), !.pc = "row"]
           /\ ~Importing(r) =>
                 req'[r] = [req[r] EXCEPT !.pc = IF s = "created" THEN "ok" ELSE "error"]
BY DEF RowDone, Reply, Goto, RequestType

\* A step of r ends or goes on with r alone, holds no other request's rows
\* back or back to life, and takes nothing from the tables.
Continues(r) ==
    /\ req' = [req EXCEPT ![r] = req'[r]] /\ req[r].pc \notin {"ok", "error"}
    /\ req[r].op # Nothing =>
          /\ req'[r].op = req[r].op /\ req'[r].login = req[r].login
          /\ req'[r].file = req[r].file
          /\ \A i \in DOMAIN req[r].results :
                i \in DOMAIN req'[r].results /\ req'[r].results[i] = req[r].results[i]
    /\ owner' \in [Logins -> Requests \cup {Nothing}]
    /\ \A l \in Logins : owner[l] \notin {r, Nothing} => owner'[l] = owner[l]
    /\ audit \subseteq audit' /\ lost \subseteq lost' /\ overlaps \subseteq overlaps'
    /\ clock \in Nat /\ clock' \in Nat /\ clock <= clock'

\* The accounts after a step of r.
Keeps(r) ==
    \A l \in Logins :
       /\ accounts[l] # Nothing => accounts'[l] # Nothing /\ accounts'[l].by = accounts[l].by
       /\ accounts'[l] = accounts[l] \/ owner[l] = r \/ accounts[l] # Nothing

\* A transaction that ends gives its login names back.
LEMMA Released ==
    ASSUME TablesOK, NEW r \in Requests, Release(r)
    PROVE  /\ owner' \in [Logins -> Requests \cup {Nothing}]
           /\ \A l \in Logins : owner[l] \notin {r, Nothing} => owner'[l] = owner[l]
BY DEF TablesOK, Release

\* What RowDone does to the results.
LEMMA RowAdds ==
    ASSUME NEW r \in Requests, req \in [Requests -> RequestType],
           NEW s \in {"created", "valid", "error"}, RowDone(r, s),
           req[r].pc \notin {"ok", "error"}
    PROVE  /\ req' = [req EXCEPT ![r] = req'[r]] /\ req[r].pc \notin {"ok", "error"}
           /\ req'[r].op = req[r].op /\ req'[r].login = req[r].login
           /\ req'[r].file = req[r].file
           /\ \A i \in DOMAIN req[r].results :
                 i \in DOMAIN req'[r].results /\ req'[r].results[i] = req[r].results[i]
<1>1. req[r].results \in Seq({"created", "valid", "error"})
  BY DEF RequestType
<1>2. CASE Importing(r)
  <2>1. req'[r] = [req[r] EXCEPT !.results = Append(@, s), !.pc = "row"]
    BY <1>2, RowEnds
  <2>2. req[r] \in RequestType
    OBVIOUS
  <2>3. req'[r].results = Append(req[r].results, s)
    BY <2>1, <2>2 DEF RequestType
  <2>4. \A i \in DOMAIN req[r].results :
          i \in DOMAIN req'[r].results /\ req'[r].results[i] = req[r].results[i]
    BY <1>1, <2>3, Appended
  <2>. QED
    BY <2>4, RowEnds
<1>3. CASE ~Importing(r)
  <2>1. req'[r].results = req[r].results
    BY <1>3, RowEnds DEF RequestType
  <2>. QED
    BY <2>1, RowEnds
<1>. QED
  BY <1>2, <1>3

\* A step of a handler works on the request it was sent.
LEMMA ServerContinues ==
    ASSUME AInv, NEW r \in Requests, Server(r)
    PROVE  Continues(r)
<1>. USE DEF Continues
<1>1. /\ req \in [Requests -> RequestType] /\ clock \in Nat /\ clock <= clock
      /\ owner \in [Logins -> Requests \cup {Nothing}] /\ TablesOK
  BY DEF AInv, TablesOK
<1>2. CASE NextRow(r)
  <2>1. CASE RowDone(r, "error")
    BY <1>1, <1>2, <2>1, RowAdds DEF NextRow, tables, ghosts
  <2>2. ASSUME NEW outcome, Reply(r, outcome) PROVE Continues(r)
    BY <1>1, <1>2, <2>2 DEF NextRow, Reply, Goto, RequestType, tables, ghosts
  <2>. QED
    BY <1>2, <2>1, <2>2 DEF NextRow
<1>3. CASE LoginExists(r)
  <2>1. CASE RowDone(r, "error") \/ RowDone(r, "valid")
    BY <1>1, <1>3, <2>1, RowAdds DEF LoginExists, tables, ghosts
  <2>2. CASE Reply(r, "insert")
    BY <1>1, <1>3, <2>2 DEF LoginExists, Reply, Goto, RequestType, tables, ghosts
  <2>. QED
    BY <1>3, <2>1, <2>2 DEF LoginExists
<1>4. CASE CreateLoginName(r)
  <2>1. CASE RowDone(r, "error") /\ UNCHANGED owner
    BY <1>1, <1>4, <2>1, RowAdds DEF CreateLoginName, tables, ghosts
  <2>2. CASE owner' = [owner EXCEPT ![Name(r)] = r] /\ Reply(r, "created")
    BY <1>1, <1>4, <2>2, NothingElse
       DEF CreateLoginName, Reply, Goto, RequestType, tables, ghosts
  <2>. QED
    BY <1>4, <2>1, <2>2 DEF CreateLoginName
<1>5. CASE CommitUser(r)
  <2>1. RowDone(r, "created") \/ RowDone(r, "error")
    BY <1>5 DEF CommitUser
  <2>2. /\ audit \subseteq audit' /\ lost \subseteq lost' /\ overlaps \subseteq overlaps'
        /\ clock' = clock
    BY <1>5 DEF CommitUser, Entry
  <2>. QED
    BY <1>1, <1>5, <2>1, <2>2, RowAdds, Released DEF CommitUser
<1>6. CASE RollbackRow(r)
  BY <1>1, <1>6, RowAdds, Released DEF RollbackRow, tables, ghosts
<1>7. CASE AuditImport(r)
  BY <1>1, <1>7 DEF AuditImport, Reply, Goto, RequestType, Entry, ghosts
<1>8. CASE BeginChange(r)
  <2>1. clock' \in Nat /\ clock <= clock' /\ overlaps \subseteq overlaps'
    BY <1>1, <1>8 DEF BeginChange
  <2>. QED
    BY <1>1, <1>8, <2>1 DEF BeginChange, Goto, RequestType, tables
<1>9. CASE CheckPasswordHistory(r)
  BY <1>1, <1>9 DEF CheckPasswordHistory, Reply, Goto, RequestType, tables, ghosts
<1>10. CASE UpdateLoginPassword(r)
  BY <1>1, <1>10, NothingElse DEF UpdateLoginPassword, Reply, Goto, RequestType, tables, ghosts
<1>11. CASE CommitPassword(r)
  <2>1. audit \subseteq audit'
    BY <1>11 DEF CommitPassword, Entry
  <2>. QED
    BY <1>1, <1>11, <2>1, Released DEF CommitPassword, Reply, Goto, RequestType
<1>12. CASE GetOrganization(r)
  BY <1>1, <1>12 DEF GetOrganization, Goto, RequestType, tables, ghosts
<1>13. CASE CommitRename(r)
  BY <1>1, <1>13 DEF CommitRename, Reply, Goto, RequestType, ghosts
<1>14. CASE Fail(r)
  BY <1>1, <1>14, Released DEF Fail, Reply, Goto, RequestType, tables, ghosts
<1>. QED
  BY <1>2, <1>3, <1>4, <1>5, <1>6, <1>7, <1>8, <1>9, <1>10, <1>11, <1>12, <1>13, <1>14
     DEF Server

\* A client sends a request where it has none that is handled.
LEMMA ClientContinues ==
    ASSUME AInv, NEW r \in Requests, Clients(r)
    PROVE  Continues(r) /\ req[r] = Idle
<1>. USE DEF Continues
<1>1. /\ req \in [Requests -> RequestType] /\ clock \in Nat /\ clock <= clock
      /\ owner \in [Logins -> Requests \cup {Nothing}] /\ Sound(r)
  BY DEF AInv, TablesOK
<1>2. req[r].pc = "idle" => req[r] = Idle /\ req[r].op = Nothing
  <2>1. req[r].pc = "idle" => req[r] = Idle
    BY <1>1 DEF Sound, FormInv
  <2>. QED
    BY <2>1 DEF Idle
<1>3. ASSUME NEW op, NEW l, NEW p, NEW old, NEW f, NEW label, Send(r, op, l, p, old, f, label)
      PROVE  Continues(r) /\ req[r] = Idle
  BY <1>1, <1>2, <1>3 DEF Send, Goto, tables, ghosts
<1>4. ASSUME NEW n \in Names, UpdateOrganization(r, n)
      PROVE  Continues(r) /\ req[r] = Idle
  BY <1>1, <1>2, <1>4 DEF UpdateOrganization, Goto, tables
<1>. QED
  BY <1>3, <1>4 DEF Clients, CreateUser, ImportUsers, ResetPassword, ChangePassword

\* Neither takes an account, a result or an entry of the audit log away.
LEMMA StepKeeps ==
    ASSUME AInv, NEW r \in Requests, Clients(r) \/ Server(r)
    PROVE  Keeps(r)
<1>. USE DEF Keeps
<1>1. accounts \in [Logins -> Account \cup {Nothing}] /\ Sound(r)
  BY DEF AInv, TablesOK
<1>2. CASE UNCHANGED accounts
  BY <1>2
<1>3. CASE CommitUser(r)
  <2>1. accounts[Name(r)] = Nothing /\ owner[Name(r)] = r
    BY <1>1, <1>3 DEF CommitUser, Sound, HoldInv
  <2>. QED
    BY <1>1, <1>3, <2>1 DEF CommitUser
<1>4. CASE CommitPassword(r)
  <2>1. accounts[req[r].login] # Nothing /\ req[r].login \in Logins
    <3>1. req[r].op \in Operations \cup {Nothing} /\ req[r].pc = "commit"
      BY <1>1, <1>4 DEF CommitPassword, Sound, RequestType
    <3>. QED
      BY <1>1, <3>1 DEF Sound, FormInv, Operations
  <2>2. accounts[req[r].login] \in Account
    BY <1>1, <2>1
  <2>3. /\ accounts' = [accounts EXCEPT ![req[r].login] =
                          [accounts[req[r].login] EXCEPT !.password = req[r].password]]
        /\ req[r].password \in Passwords
    <3>1. req[r].op \in Operations \cup {Nothing} /\ req[r].pc = "commit"
      BY <1>1, <1>4 DEF CommitPassword, Sound, RequestType
    <3>2. req[r].password \in Passwords
      BY <1>1, <3>1 DEF Sound, FormInv, Operations
    <3>. QED
      BY <1>4, <3>2 DEF CommitPassword
  <2>4. /\ accounts'[req[r].login] \in Account
        /\ accounts'[req[r].login].by = accounts[req[r].login].by
    BY <1>1, <2>1, <2>2, <2>3 DEF Account
  <2>. QED
    BY <1>1, <2>1, <2>3, <2>4, NothingElse
<1>. QED
  BY <1>2, <1>3, <1>4
     DEF Clients, Send, CreateUser, ImportUsers, ResetPassword, ChangePassword,
         UpdateOrganization, Server, NextRow, LoginExists, CreateLoginName, RollbackRow,
         AuditImport, BeginChange, CheckPasswordHistory, UpdateLoginPassword, GetOrganization,
         CommitRename, Fail, tables

-----------------------------------------------------------------------------
(* Accounts: requests stay sound *)

\* The step of one request leaves the others sound.
LEMMA OthersSound ==
    ASSUME AInv, NEW r \in Requests, Continues(r), Keeps(r), NEW s \in Requests, s # r
    PROVE  req'[s] = req[s] /\ Sound(s)'
<1>1. Sound(s) /\ req'[s] = req[s]
  BY DEF AInv, Continues
<1>2. req'[s] \in RequestType
  BY <1>1 DEF Sound
<1>3. FormInv(s)'
  <2>1. clock \in Nat /\ clock' \in Nat /\ clock <= clock'
    BY DEF Continues
  <2>2. req[s].at \in Nat /\ req[s].op \in Operations \cup {Nothing}
    BY <1>1 DEF Sound, RequestType
  <2>3. req[s].op \in {"change", "reset"} =>
           accounts'[req[s].login] # Nothing /\ (req[s].at <= clock => req[s].at <= clock')
    <3>1. req[s].at <= clock => req[s].at <= clock'
      BY <2>1, <2>2
    <3>2. req[s].op \in {"change", "reset"} => accounts'[req[s].login] # Nothing
      BY <1>1 DEF Sound, FormInv, Keeps
    <3>. QED
      BY <3>1, <3>2
  <2>. QED
    BY <1>1, <2>3 DEF Sound, FormInv, Row, Importing
<1>4. HoldInv(s)'
  <2>1. Name(s)' = Name(s)
    BY <1>1 DEF Name, Row, Importing
  <2>2. ASSUME req[s].pc = "created"
        PROVE  owner'[Name(s)] = s /\ accounts'[Name(s)] = Nothing
    <3>1. Name(s) \in Logins /\ owner[Name(s)] = s /\ accounts[Name(s)] = Nothing
      BY <1>1, <2>2, InHand DEF Sound, HoldInv
    <3>. QED
      BY <3>1, NothingElse DEF Continues, Keeps
  <2>. QED
    BY <1>1, <2>1, <2>2 DEF HoldInv
<1>5. ReportInv(s)'
  <2>1. ASSUME NEW i \in DOMAIN req[s].results, req[s].results[i] = "created"
        PROVE  LET l == req[s].file[i].login IN
               /\ req[s].op = "import" /\ l \in Logins
               /\ accounts'[l] # Nothing /\ accounts'[l].by = <<s, i>>
    BY <1>1, <2>1 DEF Sound, ReportInv, Keeps
  <2>2. ASSUME req[s].op = "create", req[s].pc = "ok"
        PROVE  accounts'[req[s].login] # Nothing /\ accounts'[req[s].login].by = <<s, 1>>
    BY <1>1, <2>2 DEF Sound, ReportInv, FormInv, Keeps
  <2>3. audit \subseteq audit'
    BY DEF Continues
  <2>. QED
    BY <1>1, <2>1, <2>2, <2>3 DEF Sound, ReportInv
<1>. QED
  BY <1>1, <1>2, <1>3, <1>4, <1>5 DEF Sound

\* So is a request whose row is done with.
LEMMA RowSound ==
    ASSUME AInv, NEW r \in Requests, Keeps(r), NEW s \in {"created", "valid", "error"},
           RowDone(r, s), req[r].pc \in {"row", "exists", "insert", "created"},
           req[r].pc = "row" => Len(req[r].results) < Len(req[r].file),
           s = "created" =>
              /\ req[r].pc = "created" /\ accounts'[Name(r)] # Nothing
              /\ accounts'[Name(r)].by = <<r, Len(req[r].results) + 1>>
    PROVE  Sound(r)'
<1>. DEFINE q == req[r]
            n == Len(q.results)
<1>1. Sound(r) /\ req \in [Requests -> RequestType] /\ q \in RequestType
  BY DEF AInv
<1>2. /\ q.results \in Seq({"created", "valid", "error"}) /\ n \in Nat
      /\ q.file \in Seq(FileRow \cup {BadRow}) /\ Len(q.file) \in Nat
      /\ q.op \in Operations \cup {Nothing}
  BY <1>1 DEF RequestType
<1>3. CASE Importing(r)
  <2>1. q.op \in {"import", "dry run"} /\ n < Len(q.file)
    BY <1>1, <1>2, <1>3 DEF Sound, FormInv, Importing
  <2>2. req'[r] = [q EXCEPT !.results = Append(q.results, s), !.pc = "row"]
    BY <1>1, <1>3, RowEnds
  <2>3. Append(q.results, s) \in Seq({"created", "valid", "error"})
    BY <1>2, Appended
  <2>4. /\ req'[r].op = q.op /\ req'[r].file = q.file /\ req'[r].pc = "row"
        /\ req'[r].results = Append(q.results, s) /\ req'[r] \in RequestType
    BY <1>1, <2>2, <2>3 DEF RequestType, Labels
  <2>5. FormInv(r)'
    <3>1. Len(Append(q.results, s)) <= Len(q.file)
      <4>1. Len(Append(q.results, s)) = n + 1
        BY <1>2, Appended
      <4>2. \A k, m \in Nat : k < m => k + 1 <= m
        OBVIOUS
      <4>3. n \in Nat /\ Len(q.file) \in Nat /\ n < Len(q.file)
        BY <1>2, <2>1
      <4>4. n + 1 <= Len(q.file)
        BY ONLY <4>2, <4>3
      <4>. QED
        BY ONLY <4>1, <4>4
    <3>. QED
      BY <2>1, <2>4, <3>1, NothingElse DEF FormInv, Operations
  <2>6. HoldInv(r)'
    BY <2>4 DEF HoldInv
  <2>7. ReportInv(r)'
    <3>1. ASSUME NEW i \in DOMAIN Append(q.results, s), Append(q.results, s)[i] = "created"
          PROVE  LET l == q.file[i].login IN
                 /\ q.op = "import" /\ l \in Logins
                 /\ accounts'[l] # Nothing /\ accounts'[l].by = <<r, i>>
      <4>1. CASE i \in DOMAIN q.results
        <5>1. q.results[i] = "created"
          BY <1>2, <3>1, <4>1, Appended
        <5>. QED
          BY <1>1, <4>1, <5>1 DEF Sound, ReportInv, Keeps
      <4>2. CASE i = n + 1
        <5>1. s = "created"
          BY <1>2, <3>1, <4>2, Appended
        <5>2. q.file[i].login = Name(r) /\ Name(r) \in Logins /\ q.op # "dry run"
          BY <1>1, <1>3, <4>2, <5>1, InHand DEF Name, Row
        <5>. QED
          BY <2>1, <4>2, <5>1, <5>2
      <4>. QED
        BY <1>2, <3>1, <4>1, <4>2, Appended, Members
    <3>. QED
      BY <2>1, <2>4, <3>1 DEF ReportInv
  <2>. QED
    BY <2>4, <2>5, <2>6, <2>7 DEF Sound
<1>4. CASE ~Importing(r)
  <2>1. q.pc \in {"exists", "insert", "created"} /\ q.op = "create"
    <3>1. q.pc # "row"
      BY <1>1, <1>2, <1>4, NothingElse DEF Sound, FormInv, Importing, Operations
    <3>. QED
      BY <1>1, <1>4, <3>1, InHand
  <2>2. /\ q.login \in Logins /\ q.password \in Passwords /\ q.results = << >>
    BY <1>1, <2>1 DEF Sound, FormInv
  <2>3. req'[r] = [q EXCEPT !.pc = IF s = "created" THEN "ok" ELSE "error"]
    BY <1>1, <1>4, RowEnds
  <2>4. /\ req'[r].op = q.op /\ req'[r].login = q.login /\ req'[r].results = << >>
        /\ req'[r].password = q.password
        /\ req'[r].pc = (IF s = "created" THEN "ok" ELSE "error") /\ req'[r] \in RequestType
    BY <1>1, <2>2, <2>3 DEF RequestType, Labels
  <2>5. FormInv(r)'
    BY <2>1, <2>2, <2>4, NothingElse DEF FormInv, Operations
  <2>6. HoldInv(r)'
    BY <2>4 DEF HoldInv
  <2>7. ReportInv(r)'
    <3>1. s = "created" => accounts'[q.login] # Nothing /\ accounts'[q.login].by = <<r, 1>>
      <4>1. Name(r) = q.login
        BY <1>4 DEF Name, Row
      <4>2. Len(<< >>) + 1 = 1
        OBVIOUS
      <4>. QED
        BY <2>2, <4>1, <4>2
    <3>. QED
      BY <2>1, <2>4, <3>1 DEF ReportInv
  <2>. QED
    BY <2>4, <2>5, <2>6, <2>7 DEF Sound
<1>. QED
  BY <1>3, <1>4

\* A reply changes where a request is and nothing else of it.
LEMMA Replied ==
    ASSUME NEW r \in Requests, req \in [Requests -> RequestType], NEW outcome \in Labels,
           Reply(r, outcome)
    PROVE  /\ req'[r] = [req[r] EXCEPT !.pc = outcome]
           /\ req'[r] \in RequestType /\ req'[r].pc = outcome
           /\ req'[r].op = req[r].op /\ req'[r].name = req[r].name
           /\ req'[r].login = req[r].login /\ req'[r].password = req[r].password
           /\ req'[r].old = req[r].old /\ req'[r].at = req[r].at
           /\ req'[r].file = req[r].file /\ req'[r].results = req[r].results
BY DEF Reply, Goto, RequestType

\* What is replied to a request was done.
LEMMA ReplyReports ==
    ASSUME AInv, NEW r \in Requests, Keeps(r), Continues(r), NEW outcome \in Labels,
           Reply(r, outcome), req[r].op = "create" => outcome # "ok",
           req[r].op = "import" /\ outcome = "ok" => <<"user.import", r>> \in audit'
    PROVE  ReportInv(r)'
<1>1. Sound(r) /\ req \in [Requests -> RequestType]
  BY DEF AInv
<1>2. ASSUME NEW i \in DOMAIN req[r].results, req[r].results[i] = "created"
      PROVE  LET l == req[r].file[i].login IN
             /\ req[r].op = "import" /\ l \in Logins
             /\ accounts'[l] # Nothing /\ accounts'[l].by = <<r, i>>
  BY <1>1, <1>2 DEF Sound, ReportInv, Keeps
<1>3. /\ req'[r].op = req[r].op /\ req'[r].pc = outcome
      /\ req'[r].file = req[r].file /\ req'[r].results = req[r].results
  BY <1>1, Replied
<1>. QED
  BY <1>2, <1>3 DEF ReportInv

\* A step of a handler leaves its request sound.
LEMMA ServerSound ==
    ASSUME AInv, NEW r \in Requests, Server(r)
    PROVE  Sound(r)'
<1>. DEFINE q == req[r]
<1>1. /\ Sound(r) /\ req \in [Requests -> RequestType] /\ q \in RequestType
      /\ q.op \in Operations \cup {Nothing} /\ clock \in Nat /\ q.at \in Nat
      /\ accounts \in [Logins -> Account \cup {Nothing}]
  BY DEF AInv, TablesOK, RequestType
<1>2. Keeps(r) /\ Continues(r)
  BY StepKeeps, ServerContinues
<1>3. /\ q.results \in Seq({"created", "valid", "error"}) /\ Len(q.results) \in Nat
      /\ q.file \in Seq(FileRow \cup {BadRow}) /\ Len(q.file) \in Nat
  BY <1>1 DEF RequestType
<1>4. CASE NextRow(r)
  <2>1. q.op \in {"import", "dry run"} /\ q.pc = "row" /\ Len(q.results) <= Len(q.file)
    BY <1>1, <1>4 DEF NextRow, Sound, FormInv, Operations
  <2>5. ASSUME Len(q.results) # Len(q.file)
        PROVE  Len(q.results) < Len(q.file) /\ Len(q.results) + 1 \in DOMAIN q.file
    <3>1. \A k, m \in Nat : k <= m /\ k # m => k < m /\ k + 1 \in 1..m
      OBVIOUS
    <3>2. Len(q.results) < Len(q.file) /\ Len(q.results) + 1 \in 1..Len(q.file)
      BY ONLY <1>3, <2>1, <2>5, <3>1
    <3>. QED
      BY <1>3, <3>2, Members
  <2>2. CASE Len(q.results) = Len(q.file)
    <3>1. Reply(r, IF q.op = "import" THEN "audit" ELSE "ok")
      BY <1>4, <2>2 DEF NextRow
    <3>. DEFINE o == IF q.op = "import" THEN "audit" ELSE "ok"
    <3>2. o \in Labels /\ Reply(r, o) /\ (q.op = "import" => o = "audit")
      BY <3>1 DEF Labels
    <3>3. ReportInv(r)'
      BY <1>2, <2>1, <3>2, ReplyReports
    <3>4. FormInv(r)' /\ HoldInv(r)' /\ req'[r] \in RequestType
      BY <1>1, <2>1, <3>2, Replied, NothingElse DEF FormInv, HoldInv, Operations
    <3>. QED
      BY <3>3, <3>4 DEF Sound
  <2>3. CASE Len(q.results) # Len(q.file) /\ Row(r) = BadRow
    <3>1. Len(q.results) < Len(q.file)
      BY <2>3, <2>5
    <3>. QED
      BY <1>2, <1>4, <2>3, <3>1, RowSound DEF NextRow
  <2>4. CASE Len(q.results) # Len(q.file) /\ Row(r) # BadRow
    <3>1. Len(q.results) < Len(q.file) /\ Len(q.results) + 1 \in DOMAIN q.file
      BY <2>4, <2>5
    <3>2. Row(r) \in FileRow
      <4>1. Row(r) = q.file[Len(q.results) + 1]
        BY <2>1 DEF Row, Importing
      <4>2. q.file[Len(q.results) + 1] \in FileRow \cup {BadRow}
        BY <1>3, <3>1, Members
      <4>. QED
        BY <2>4, <4>1, <4>2
    <3>3. Reply(r, "exists") /\ "exists" \in Labels
      BY <1>4, <2>4 DEF NextRow, Labels
    <3>4. ReportInv(r)'
      BY <1>2, <2>1, <3>3, ReplyReports
    <3>5. Row(r)' = Row(r)
      BY <1>1, <3>3, Replied DEF Row, Importing
    <3>6. FormInv(r)' /\ HoldInv(r)' /\ req'[r] \in RequestType
      BY <1>1, <2>1, <3>1, <3>2, <3>3, <3>5, Replied, NothingElse DEF FormInv, HoldInv, Operations
    <3>. QED
      BY <3>4, <3>6 DEF Sound
  <2>. QED
    BY <2>2, <2>3, <2>4
<1>5. CASE LoginExists(r)
  <2>1. CASE RowDone(r, "error") \/ RowDone(r, "valid")
    BY <1>2, <1>5, <2>1, RowSound DEF LoginExists
  <2>2. CASE Reply(r, "insert") /\ q.op # "dry run"
    <3>1. q.pc = "exists" /\ q.op \in {"create", "import"} /\ "insert" \in Labels
      BY <1>1, <1>5, <2>2, InHand DEF LoginExists, Labels
    <3>2. ReportInv(r)'
      BY <1>2, <2>2, <3>1, ReplyReports
    <3>3. Row(r)' = Row(r)
      BY <1>1, <2>2, <3>1, Replied DEF Row, Importing
    <3>4. FormInv(r)' /\ HoldInv(r)' /\ req'[r] \in RequestType
      BY <1>1, <2>2, <3>1, <3>3, Replied, NothingElse DEF Sound, FormInv, HoldInv, Operations
    <3>. QED
      BY <3>2, <3>4 DEF Sound
  <2>. QED
    BY <1>5, <2>1, <2>2 DEF LoginExists
<1>6. CASE CreateLoginName(r)
  <2>1. CASE RowDone(r, "error")
    BY <1>2, <1>6, <2>1, RowSound DEF CreateLoginName
  <2>2. CASE ~Taken(r) /\ owner' = [owner EXCEPT ![Name(r)] = r] /\ Reply(r, "created")
    <3>1. /\ q.pc = "insert" /\ q.op \in {"create", "import"} /\ "created" \in Labels
          /\ Name(r) \in Logins
      BY <1>1, <1>6, InHand DEF CreateLoginName, Labels
    <3>2. ReportInv(r)'
      BY <1>2, <2>2, <3>1, ReplyReports
    <3>3. Row(r)' = Row(r) /\ Name(r)' = Name(r)
      BY <1>1, <2>2, <3>1, Replied DEF Row, Importing, Name
    <3>4. FormInv(r)' /\ req'[r] \in RequestType
      BY <1>1, <2>2, <3>1, <3>3, Replied, NothingElse DEF Sound, FormInv, Operations
    <3>5. HoldInv(r)'
      <4>1. owner \in [Logins -> Requests \cup {Nothing}] /\ accounts' = accounts
        BY <1>6 DEF AInv, TablesOK, CreateLoginName, tables
      <4>2. owner'[Name(r)] = r /\ accounts'[Name(r)] = Nothing
        BY <2>2, <3>1, <4>1 DEF Taken
      <4>. QED
        BY <3>3, <4>2 DEF HoldInv
    <3>. QED
      BY <3>2, <3>4, <3>5 DEF Sound
  <2>. QED
    BY <1>6, <2>1, <2>2 DEF CreateLoginName
<1>7. CASE CommitUser(r)
  <2>1. Name(r) \in Logins /\ q.pc = "created"
    BY <1>1, <1>7, InHand DEF CommitUser
  <2>2. accounts'[Name(r)] = [password |-> Row(r).password, by |-> <<r, Len(q.results) + 1>>]
    BY <1>1, <1>7, <2>1 DEF CommitUser
  <2>3. /\ accounts'[Name(r)] # Nothing
        /\ accounts'[Name(r)].by = <<r, Len(q.results) + 1>>
    <3>1. Row(r).password \in Passwords
      BY <1>1, <2>1, InHand
    <3>2. accounts'[Name(r)] \in Account
      BY <1>3, <2>2, <3>1 DEF Account
    <3>. QED
      BY <2>2, <3>2, NothingElse
  <2>4. RowDone(r, "created") \/ RowDone(r, "error")
    BY <1>7 DEF CommitUser
  <2>. QED
    BY <1>2, <2>1, <2>3, <2>4, RowSound
<1>8. CASE RollbackRow(r)
  BY <1>2, <1>8, RowSound DEF RollbackRow
<1>9. CASE AuditImport(r)
  <2>1. q.pc = "audit" /\ q.op = "import"
    BY <1>1, <1>9 DEF AuditImport, Sound, FormInv, Operations
  <2>2. PICK o \in {"ok", "error"} :
          Reply(r, o) /\ (o = "ok" => <<"user.import", r>> \in audit')
    BY <1>9 DEF AuditImport, Entry
  <2>3. o \in Labels
    BY DEF Labels
  <2>4. ReportInv(r)'
    BY <1>2, <2>1, <2>2, <2>3, ReplyReports
  <2>5. FormInv(r)' /\ HoldInv(r)' /\ req'[r] \in RequestType
    BY <1>1, <2>1, <2>2, <2>3, Replied, NothingElse DEF Sound, FormInv, HoldInv, Operations
  <2>. QED
    BY <2>4, <2>5 DEF Sound
<1>10. ASSUME BeginChange(r) \/ CheckPasswordHistory(r) \/ UpdateLoginPassword(r)
              \/ CommitPassword(r)
       PROVE  Sound(r)'
  <2>1. /\ q.pc \in {"begin", "check", "update", "commit"} /\ q.op \in {"change", "reset"}
        /\ q.login \in Logins /\ q.password \in Passwords /\ accounts[q.login] # Nothing
    <3>1. q.pc \in {"begin", "check", "update", "commit"}
      BY <1>10 DEF BeginChange, CheckPasswordHistory, UpdateLoginPassword, CommitPassword
    <3>2. q.op \in {"change", "reset"}
      BY <1>1, <3>1 DEF Sound, FormInv, Operations
    <3>. QED
      BY <1>1, <3>1, <3>2 DEF Sound, FormInv
  <2>2. accounts'[q.login] # Nothing
    BY <1>2, <2>1 DEF Keeps
  <2>3. CASE BeginChange(r)
    <3>1. accounts[q.login].password \in Passwords
      BY <1>1, <2>1 DEF Account
    <3>2. /\ req'[r] =
             [q EXCEPT !.old = accounts[q.login].password, !.at = clock + 1, !.pc = "check"]
          /\ clock' = clock + 1
      BY <1>1, <2>3 DEF BeginChange, Goto
    <3>3. /\ req'[r] \in RequestType /\ req'[r].pc = "check" /\ req'[r].op = q.op
          /\ req'[r].login = q.login /\ req'[r].password = q.password
          /\ req'[r].old = accounts[q.login].password /\ req'[r].at = clock + 1
          /\ req'[r].file = q.file /\ req'[r].results = q.results
      <4>1. PICK o \in Passwords, t \in Nat, label \in Labels :
              o = accounts[q.login].password /\ t = clock + 1 /\ label = "check"
        BY <1>1, <3>1 DEF Labels
      <4>2. req'[r] = [q EXCEPT !.old = o, !.at = t, !.pc = label]
        BY <3>2, <4>1
      <4>3. /\ req'[r] \in RequestType /\ req'[r].pc = label /\ req'[r].op = q.op
            /\ req'[r].login = q.login /\ req'[r].password = q.password
            /\ req'[r].old = o /\ req'[r].at = t
            /\ req'[r].file = q.file /\ req'[r].results = q.results
        BY ONLY <1>1, <4>2 DEF RequestType
      <4>. QED
        BY ONLY <4>1, <4>3
    <3>4. FormInv(r)' /\ HoldInv(r)'
      <4>1. clock + 1 <= clock'
        BY <1>1, <3>2
      <4>. QED
        BY <2>1, <2>2, <3>1, <3>3, <4>1, NothingElse DEF FormInv, HoldInv, Operations
    <3>5. ReportInv(r)'
      BY <1>1, <2>1, <3>3 DEF Sound, ReportInv
    <3>. QED
      BY <3>3, <3>4, <3>5 DEF Sound
  <2>4. ASSUME NEW o \in {"update", "commit", "ok", "error"}, Reply(r, o), clock' = clock,
               o \in {"update", "commit"} => q.pc \in {"check", "update"}
        PROVE  Sound(r)'
    <3>1. o \in Labels
      BY DEF Labels
    <3>2. ReportInv(r)'
      BY <1>2, <2>1, <2>4, <3>1, ReplyReports
    <3>3. FormInv(r)' /\ HoldInv(r)' /\ req'[r] \in RequestType
      BY <1>1, <2>1, <2>2, <2>4, <3>1, Replied, NothingElse DEF Sound, FormInv, HoldInv, Operations
    <3>. QED
      BY <3>2, <3>3 DEF Sound
  <2>. QED
    BY <1>10, <2>3, <2>4 DEF CheckPasswordHistory, UpdateLoginPassword, CommitPassword
<1>11. ASSUME GetOrganization(r) \/ CommitRename(r) PROVE Sound(r)'
  <2>1. q.op = "rename" /\ q.name \in Names /\ q.pc \in {"organization", "rename"}
    BY <1>1, <1>11 DEF GetOrganization, CommitRename, Sound, FormInv, Operations
  <2>2. CASE GetOrganization(r)
    <3>1. req'[r] = [q EXCEPT !.old = organization, !.pc = "rename"] /\ organization \in Names
      BY <1>1, <2>2 DEF GetOrganization, Goto, AInv, TablesOK
    <3>2. /\ req'[r] \in RequestType /\ req'[r].pc = "rename" /\ req'[r].op = "rename"
          /\ req'[r].name = q.name /\ req'[r].old = organization
          /\ req'[r].file = q.file /\ req'[r].results = q.results
      BY <1>1, <2>1, <3>1 DEF RequestType, Labels
    <3>3. FormInv(r)' /\ HoldInv(r)'
      BY <2>1, <3>1, <3>2, NothingElse DEF FormInv, HoldInv, Operations
    <3>4. ReportInv(r)'
      BY <1>1, <2>1, <3>2 DEF Sound, ReportInv
    <3>. QED
      BY <3>2, <3>3, <3>4 DEF Sound
  <2>3. ASSUME NEW o \in {"ok", "error"}, Reply(r, o) PROVE Sound(r)'
    <3>1. o \in Labels
      BY DEF Labels
    <3>2. ReportInv(r)'
      BY <1>2, <2>1, <2>3, <3>1, ReplyReports
    <3>3. FormInv(r)' /\ HoldInv(r)' /\ req'[r] \in RequestType
      BY <1>1, <2>1, <2>3, <3>1, Replied, NothingElse DEF Sound, FormInv, HoldInv, Operations
    <3>. QED
      BY <3>2, <3>3 DEF Sound
  <2>. QED
    BY <1>11, <2>2, <2>3 DEF CommitRename
<1>12. CASE Fail(r)
  <2>1. Reply(r, "error") /\ "error" \in Labels /\ clock' = clock /\ q.pc # "idle"
    BY <1>12 DEF Fail, Labels
  <2>2. ReportInv(r)'
    BY <1>2, <2>1, ReplyReports
  <2>3. HoldInv(r)' /\ req'[r] \in RequestType
    BY <1>1, <2>1, Replied DEF HoldInv
  <2>4. FormInv(r)'
    <3>1. q.op \in {"change", "reset"} => accounts'[q.login] # Nothing
      BY <1>1, <1>2 DEF Sound, FormInv, Keeps
    <3>. QED
      BY <1>1, <2>1, <3>1, Replied, NothingElse DEF Sound, FormInv
  <2>. QED
    BY <2>2, <2>3, <2>4 DEF Sound
<1>. QED
  BY <1>4, <1>5, <1>6, <1>7, <1>8, <1>9, <1>10, <1>11, <1>12 DEF Server

\* A request that has just been sent.
LEMMA ClientSound ==
    ASSUME AInv, NEW r \in Requests, Clients(r)
    PROVE  Sound(r)'
<1>. DEFINE q == req[r]
<1>1. /\ req \in [Requests -> RequestType] /\ q \in RequestType /\ q = Idle
      /\ UNCHANGED <<tables, owner, clock>>
  BY ClientContinues
     DEF AInv, Clients, CreateUser, ImportUsers, ResetPassword, ChangePassword, Send,
         UpdateOrganization
<1>2. ASSUME NEW op \in Operations, NEW l \in Logins \cup {Nothing},
             NEW p \in Passwords \cup {Nothing}, NEW o \in Passwords \cup {Nothing},
             NEW f \in Seq(FileRow \cup {BadRow}), NEW label \in Labels,
             Send(r, op, l, p, o, f, label)
      PROVE  /\ req'[r] \in RequestType /\ req'[r].op = op /\ req'[r].login = l
             /\ req'[r].password = p /\ req'[r].old = o /\ req'[r].file = f
             /\ req'[r].results = << >> /\ req'[r].pc = label
  <2>1. req'[r] = [Idle EXCEPT !.op = op, !.login = l, !.password = p, !.old = o,
                                !.file = f, !.pc = label]
    BY <1>1, <1>2 DEF Send, Goto
  <2>2. << >> \in Seq({"created", "valid", "error"})
    OBVIOUS
  <2>3. req'[r] = [op |-> op, name |-> Nothing, login |-> l, password |-> p, old |-> o,
                   at |-> 0, file |-> f, results |-> << >>, pc |-> label]
    BY <2>1 DEF Idle
  <2>4. req'[r] \in RequestType
    BY <2>2, <2>3 DEF RequestType
  <2>. QED
    BY <2>3, <2>4
<1>3. << >> \in Seq(FileRow \cup {BadRow}) /\ Len(<< >>) = 0 /\ DOMAIN << >> = {}
  OBVIOUS
<1>4. \A s \in Seq(FileRow \cup {BadRow}) : 0 <= Len(s)
  BY Members
<1>5. ASSUME NEW l \in Logins, NEW p \in Passwords, CreateUser(r, l, p) PROVE Sound(r)'
  <2>1. /\ req'[r] \in RequestType /\ req'[r].op = "create" /\ req'[r].login = l
        /\ req'[r].password = p /\ req'[r].results = << >> /\ req'[r].pc = "exists"
    <3>1. Send(r, "create", l, p, Nothing, << >>, "exists")
      BY <1>5 DEF CreateUser
    <3>2. "create" \in Operations /\ "exists" \in Labels
      BY DEF Operations, Labels
    <3>. QED
      BY <1>2, <1>3, <3>1, <3>2
  <2>. QED
    BY <1>3, <2>1, NothingElse DEF Sound, FormInv, HoldInv, ReportInv, Operations
<1>6. ASSUME NEW sheet \in Files, NEW op \in {"import", "dry run"}, ImportUsers(r, sheet, op)
      PROVE  Sound(r)'
  <2>1. sheet \in Seq(FileRow \cup {BadRow})
    BY FilesAssumption
  <2>2. /\ req'[r] \in RequestType /\ req'[r].op = op /\ req'[r].file = sheet
        /\ req'[r].results = << >> /\ req'[r].pc = "row"
    <3>1. Send(r, op, Nothing, Nothing, Nothing, sheet, "row")
      BY <1>6 DEF ImportUsers
    <3>2. op \in Operations /\ "row" \in Labels
      BY DEF Operations, Labels
    <3>. QED
      BY <1>2, <2>1, <3>1, <3>2
  <2>3. 0 <= Len(sheet)
    BY ONLY <1>4, <2>1, Zenon
  <2>. QED
    BY <1>3, <2>2, <2>3, NothingElse DEF Sound, FormInv, HoldInv, ReportInv, Operations
<1>7. ASSUME NEW l \in Logins, NEW p \in Passwords,
             \/ ResetPassword(r, l, p)
             \/ \E current \in Passwords : ChangePassword(r, l, current, p)
      PROVE  Sound(r)'
  <2>1. /\ req'[r] \in RequestType /\ req'[r].op \in {"change", "reset"} /\ req'[r].login = l
        /\ req'[r].password = p /\ req'[r].results = << >> /\ req'[r].pc = "begin"
    BY <1>2, <1>3, <1>7 DEF ResetPassword, ChangePassword, Operations, Labels
  <2>2. accounts'[l] # Nothing
    BY <1>1, <1>7 DEF ResetPassword, ChangePassword, tables
  <2>. QED
    BY <1>3, <2>1, <2>2, NothingElse DEF Sound, FormInv, HoldInv, ReportInv, Operations
<1>8. ASSUME NEW n \in Names, UpdateOrganization(r, n) PROVE Sound(r)'
  <2>1. req'[r] = [Idle EXCEPT !.op = "rename", !.name = n, !.pc = "organization"]
    BY <1>1, <1>8 DEF UpdateOrganization, Goto
  <2>2. << >> \in Seq({"created", "valid", "error"})
    OBVIOUS
  <2>3. /\ req'[r] \in RequestType /\ req'[r].op = "rename" /\ req'[r].name = n
        /\ req'[r].results = << >> /\ req'[r].pc = "organization"
    <3>1. req'[r] = [op |-> "rename", name |-> n, login |-> Nothing, password |-> Nothing,
                     old |-> Nothing, at |-> 0, file |-> << >>, results |-> << >>,
                     pc |-> "organization"]
      BY <2>1 DEF Idle
    <3>2. "rename" \in Operations /\ "organization" \in Labels
      BY DEF Operations, Labels
    <3>3. req'[r] \in RequestType
      BY <1>3, <2>2, <3>1, <3>2 DEF RequestType
    <3>. QED
      BY <3>1, <3>3
  <2>. QED
    BY <1>3, <2>3, NothingElse DEF Sound, FormInv, HoldInv, ReportInv, Operations
<1>. QED
  BY <1>5, <1>6, <1>7, <1>8 DEF Clients

\* All requests are sound after a step.
LEMMA SoundStep ==
    ASSUME AInv, NEW r \in Requests, Clients(r) \/ Server(r)
    PROVE  /\ req' \in [Requests -> RequestType] /\ \A s \in Requests : Sound(s)'
           /\ Continues(r) /\ Keeps(r)
           /\ \A s \in Requests \ {r} : req'[s] = req[s]
<1>1. Continues(r) /\ Keeps(r) /\ Sound(r)'
  BY ClientContinues, ClientSound, ServerContinues, ServerSound, StepKeeps
<1>2. \A s \in Requests : Sound(s)'
  BY <1>1, OthersSound
<1>3. req' \in [Requests -> RequestType]
  <2>1. req' = [req EXCEPT ![r] = req'[r]] /\ req \in [Requests -> RequestType]
    BY <1>1 DEF Continues, AInv
  <2>2. req'[r] \in RequestType
    BY <1>1 DEF Sound
  <2>. QED
    BY <2>1, <2>2
<1>. QED
  BY <1>1, <1>2, <1>3, OthersSound

-----------------------------------------------------------------------------
(* Accounts: the tables *)

\* A change that commits.
LEMMA Committing ==
    ASSUME AInv, NEW r \in Requests,
           req[r].pc \in {"begin", "check", "update", "commit"}
    PROVE  /\ req[r].op \in {"change", "reset"} /\ req[r].login \in Logins
           /\ req[r].password \in Passwords /\ accounts[req[r].login] # Nothing
           /\ req[r].pc # "begin" =>
                 req[r].old \in Passwords /\ req[r].at \in Nat /\ req[r].at <= clock
<1>1. Sound(r) /\ req[r].op \in Operations \cup {Nothing} /\ req[r].at \in Nat
  BY DEF AInv, RequestType
<1>2. req[r].op \in {"change", "reset"}
  BY <1>1 DEF Sound, FormInv, Operations
<1>. QED
  BY <1>1, <1>2 DEF Sound, FormInv

\* Which accounts are older than the table does not change.
LEMMA UnrecordedStays ==
    ASSUME NEW r \in Requests, Clients(r) \/ Server(r)
    PROVE  unrecorded' = unrecorded
<1>1. CASE Clients(r)
  BY <1>1 DEF Clients, Send, CreateUser, ImportUsers, ResetPassword, ChangePassword,
     UpdateOrganization, ghosts
<1>2. CASE Server(r)
  BY <1>2 DEF Server, NextRow, LoginExists, CreateLoginName, CommitUser, RollbackRow, AuditImport,
     BeginChange, CheckPasswordHistory, UpdateLoginPassword, CommitPassword, GetOrganization,
     CommitRename, Fail, ghosts
<1>. QED
  BY <1>1, <1>2

\* The tables keep their shape.
LEMMA TablesStep ==
    ASSUME AInv, NEW r \in Requests, Clients(r) \/ Server(r)
    PROVE  TablesOK'
<1>. DEFINE q == req[r]
<1>1. /\ TablesOK /\ Sound(r) /\ q \in RequestType
      /\ owner' \in [Logins -> Requests \cup {Nothing}] /\ clock' \in Nat
      /\ clock \in Nat /\ clock <= clock' /\ unrecorded' = unrecorded
  BY SoundStep, UnrecordedStays DEF AInv, Continues
<1>2. CASE UNCHANGED <<accounts, history, past, audit, organization, renames, lost>>
          /\ overlaps' \subseteq Logins \cup {Nothing}
  <2>1. ASSUME NEW l \in Logins, NEW i \in DOMAIN history[l]
        PROVE  history[l][i].at <= clock'
    <3>1. history[l] \in Seq(HistoryRow) /\ history[l][i].at <= clock
      BY <1>1 DEF TablesOK
    <3>2. history[l][i].at \in Nat
      <4>1. history[l][i] \in HistoryRow
        BY <3>1, Members
      <4>. QED
        BY <4>1 DEF HistoryRow
    <3>. QED
      BY <1>1, <3>1, <3>2
  <2>. QED
    BY <1>1, <1>2, <2>1 DEF TablesOK
<1>3. CASE CommitUser(r)
  <2>. DEFINE l == Name(r)
              new == Row(r).password
              made == <<r, Len(q.results) + 1>>
  <2>1. q.pc = "created" /\ l \in Logins /\ new \in Passwords /\ made \in Requests \X Nat
    <3>1. q.pc = "created"
      BY <1>3 DEF CommitUser
    <3>2. q.results \in Seq({"created", "valid", "error"})
      BY <1>1 DEF RequestType
    <3>3. Len(q.results) + 1 \in Nat
      BY <3>2
    <3>. QED
      BY <1>1, <3>1, <3>3, InHand
  <2>2. PICK kept \in StorePasswordHistory(<< >>, Nothing, new, clock) :
          history' = [history EXCEPT ![l] = kept]
    BY <1>3 DEF CommitUser
  <2>3. /\ accounts' = [accounts EXCEPT ![l] = [password |-> new, by |-> made]]
        /\ past' = [past EXCEPT ![l] = <<new>>]
        /\ UNCHANGED <<organization, renames, clock, overlaps>>
        /\ lost' \subseteq lost \cup {made} /\ audit' \subseteq audit \cup {<<"user.create", r>>}
    BY <1>3 DEF CommitUser, Entry, names
  <2>. HIDE DEF l, new, made
  <2>4. << >> \in Seq(HistoryRow)
    OBVIOUS
  <2>5. /\ kept \in Seq(HistoryRow) /\ Len(kept) <= PasswordHistoryLength
        /\ \A n \in DOMAIN kept : kept[n].at = clock
    <3>1. clock \in Nat /\ Nothing \in Passwords \cup {Nothing} /\ DOMAIN << >> = {}
      BY <1>1
    <3>. QED
      BY <2>1, <2>2, <2>4, <3>1, Stored
  <2>6. [password |-> new, by |-> made] \in Account
    BY <2>1 DEF Account
  <2>7. <<new>> \in Seq(Passwords) /\ <<new>> # << >> /\ Last(<<new>>) = new
    BY <2>1 DEF Last
  <2>8. /\ accounts' \in [Logins -> Account \cup {Nothing}]
        /\ history' \in [Logins -> Seq(HistoryRow)] /\ past' \in [Logins -> Seq(Passwords)]
        /\ accounts'[l] = [password |-> new, by |-> made] /\ history'[l] = kept
        /\ past'[l] = <<new>>
        /\ \A k \in Logins \ {l} :
              accounts'[k] = accounts[k] /\ history'[k] = history[k] /\ past'[k] = past[k]
    BY <1>1, <2>1, <2>2, <2>3, <2>5, <2>6, <2>7 DEF TablesOK
  <2>9. accounts'[l] # Nothing /\ accounts'[l].password = new
    BY <2>6, <2>8, NothingElse
  <2>10. \A k \in Logins :
          /\ IF accounts'[k] = Nothing THEN history'[k] = << >> /\ past'[k] = << >>
             ELSE past'[k] # << >> /\ accounts'[k].password = Last(past'[k])
          /\ Len(history'[k]) <= PasswordHistoryLength
          /\ \A i \in DOMAIN history'[k] : history'[k][i].at <= clock'
    <3>1. ASSUME NEW k \in Logins \ {l}
          PROVE  /\ IF accounts'[k] = Nothing THEN history'[k] = << >> /\ past'[k] = << >>
                    ELSE past'[k] # << >> /\ accounts'[k].password = Last(past'[k])
                 /\ Len(history'[k]) <= PasswordHistoryLength
                 /\ \A i \in DOMAIN history'[k] : history'[k][i].at <= clock'
      BY <1>1, <2>3, <2>8 DEF TablesOK
    <3>2. clock <= clock'
      BY <1>1
    <3>. QED
      BY <2>3, <2>5, <2>7, <2>8, <2>9, <3>1, <3>2
  <2>11. audit' \subseteq Actions \X Requests
    <3>1. "user.create" \in Actions /\ audit \subseteq Actions \X Requests
      BY <1>1 DEF TablesOK, Actions
    <3>. QED
      BY <2>3, <3>1
  <2>. QED
    BY <1>1, <2>1, <2>3, <2>8, <2>10, <2>11 DEF TablesOK
<1>4. CASE CommitPassword(r)
  <2>. DEFINE l == q.login
              new == q.password
  <2>1. /\ q.pc = "commit" /\ l \in Logins /\ new \in Passwords /\ accounts[l] # Nothing
        /\ q.old \in Passwords /\ q.at \in Nat /\ q.at <= clock
    <3>1. q.pc = "commit"
      BY <1>4 DEF CommitPassword
    <3>. QED
      BY <3>1, Committing
  <2>2. PICK kept \in StorePasswordHistory(history[l], q.old, new, q.at) :
          history' = [history EXCEPT ![l] = kept]
    BY <1>4 DEF CommitPassword
  <2>3. /\ accounts' = [accounts EXCEPT ![l].password = new]
        /\ past' = [past EXCEPT ![l] = Append(past[l], new)]
        /\ UNCHANGED <<organization, renames, clock, overlaps, lost>>
        /\ audit' \subseteq audit \cup {<<"user.reset_password", r>>}
    BY <1>1, <1>4, <2>1 DEF CommitPassword, Entry, names, TablesOK
  <2>. HIDE DEF l, new
  <2>4. /\ history[l] \in Seq(HistoryRow) /\ past[l] \in Seq(Passwords)
        /\ accounts[l] \in Account /\ \A i \in DOMAIN history[l] : history[l][i].at <= clock
    BY <1>1, <2>1 DEF TablesOK
  <2>5. /\ kept \in Seq(HistoryRow) /\ Len(kept) <= PasswordHistoryLength
        /\ \A n \in DOMAIN kept : kept[n].at <= clock
    <3>1. /\ kept \in Seq(HistoryRow) /\ Len(kept) <= PasswordHistoryLength
          /\ \A n \in DOMAIN kept :
                kept[n].at = q.at \/ \E i \in DOMAIN history[l] : kept[n] = history[l][i]
      BY <2>1, <2>2, <2>4, Stored
    <3>. QED
      BY <2>1, <2>4, <3>1
  <2>6. [accounts[l] EXCEPT !.password = new] \in Account
        /\ [accounts[l] EXCEPT !.password = new].password = new
    BY <2>1, <2>4 DEF Account
  <2>7. /\ Append(past[l], new) \in Seq(Passwords) /\ Append(past[l], new) # << >>
        /\ Last(Append(past[l], new)) = new
    BY <2>1, <2>4, Appended
  <2>8. /\ accounts' \in [Logins -> Account \cup {Nothing}]
        /\ history' \in [Logins -> Seq(HistoryRow)] /\ past' \in [Logins -> Seq(Passwords)]
        /\ accounts'[l] = [accounts[l] EXCEPT !.password = new] /\ history'[l] = kept
        /\ past'[l] = Append(past[l], new)
        /\ \A k \in Logins \ {l} :
              accounts'[k] = accounts[k] /\ history'[k] = history[k] /\ past'[k] = past[k]
    BY <1>1, <2>1, <2>2, <2>3, <2>5, <2>6, <2>7 DEF TablesOK
  <2>9. accounts'[l] # Nothing /\ accounts'[l].password = new
    BY <2>6, <2>8, NothingElse
  <2>10. \A k \in Logins :
          /\ IF accounts'[k] = Nothing THEN history'[k] = << >> /\ past'[k] = << >>
             ELSE past'[k] # << >> /\ accounts'[k].password = Last(past'[k])
          /\ Len(history'[k]) <= PasswordHistoryLength
          /\ \A i \in DOMAIN history'[k] : history'[k][i].at <= clock'
    <3>1. ASSUME NEW k \in Logins \ {l}
          PROVE  /\ IF accounts'[k] = Nothing THEN history'[k] = << >> /\ past'[k] = << >>
                    ELSE past'[k] # << >> /\ accounts'[k].password = Last(past'[k])
                 /\ Len(history'[k]) <= PasswordHistoryLength
                 /\ \A i \in DOMAIN history'[k] : history'[k][i].at <= clock'
      BY <1>1, <2>3, <2>8 DEF TablesOK
    <3>. QED
      BY <2>3, <2>5, <2>7, <2>8, <2>9, <3>1
  <2>11. audit' \subseteq Actions \X Requests
    <3>1. "user.reset_password" \in Actions /\ audit \subseteq Actions \X Requests
      BY <1>1 DEF TablesOK, Actions
    <3>. QED
      BY <2>3, <3>1
  <2>. QED
    BY <1>1, <2>1, <2>3, <2>8, <2>10, <2>11 DEF TablesOK
<1>5. CASE AuditImport(r)
  <2>1. /\ audit' \subseteq audit \cup {<<"user.import", r>>}
        /\ UNCHANGED <<accounts, history, past, organization, renames, lost, overlaps, clock>>
    <3>1. Entry("user.import", r) \/ UNCHANGED audit
      BY <1>5 DEF AuditImport
    <3>2. UNCHANGED <<accounts, history, past, organization, renames, lost, overlaps, clock>>
      BY <1>5 DEF AuditImport, names, ghosts
    <3>. QED
      BY <3>1, <3>2 DEF Entry
  <2>. QED
    BY <1>1, <2>1 DEF TablesOK, Actions
<1>6. CASE CommitRename(r)
  <2>1. q.pc = "rename" /\ q.name \in Names /\ q.old \in Names
    <3>1. q.pc = "rename" /\ q.op \in Operations \cup {Nothing}
      BY <1>1, <1>6 DEF CommitRename, RequestType
    <3>. QED
      BY <1>1, <3>1 DEF Sound, FormInv, Operations
  <2>2. [before |-> q.old, after |-> q.name, by |-> r]
           \in [before : Names, after : Names, by : Requests]
    BY <2>1
  <2>3. /\ organization' = q.name
        /\ renames' = Append(renames, [before |-> q.old, after |-> q.name, by |-> r])
        /\ UNCHANGED <<accounts, history, past, audit, lost, overlaps, clock>>
    BY <1>6 DEF CommitRename, ghosts
  <2>4. renames' \in Seq([before : Names, after : Names, by : Requests])
    BY <1>1, <2>2, <2>3, Appended DEF TablesOK
  <2>. QED
    BY <1>1, <2>1, <2>3, <2>4 DEF TablesOK
<1>7. CASE BeginChange(r) \/ \E n \in Names : UpdateOrganization(r, n)
  <2>1. CASE BeginChange(r)
    <3>1. q.pc = "begin"
      BY <2>1 DEF BeginChange
    <3>2. q.login \in Logins
      BY <3>1, Committing
    <3>. QED
      BY <1>1, <1>2, <2>1, <3>2 DEF BeginChange, tables, names, TablesOK
  <2>. QED
    BY <1>1, <1>2, <1>7, <2>1 DEF UpdateOrganization, tables, names, TablesOK
<1>8. CASE UNCHANGED <<tables, ghosts>>
  BY <1>1, <1>2, <1>8 DEF tables, names, ghosts, TablesOK
<1>. QED
  BY <1>3, <1>4, <1>5, <1>6, <1>7, <1>8
     DEF Clients, Send, CreateUser, ImportUsers, ResetPassword, ChangePassword,
         Server, NextRow, LoginExists, CreateLoginName, RollbackRow,
         CheckPasswordHistory, UpdateLoginPassword, GetOrganization, Fail

\* Only the commit of a creation or of an imported row makes an account.
LEMMA OnlyCommitMakes ==
    ASSUME AInv, NEW r \in Requests, Clients(r) \/ Server(r), NEW l \in Logins,
           accounts[l] = Nothing, accounts'[l] # Nothing
    PROVE  CommitUser(r) /\ l = Name(r)
<1>1. accounts \in [Logins -> Account \cup {Nothing}]
  BY DEF AInv, TablesOK
<1>2. CASE CommitUser(r)
  BY <1>1, <1>2 DEF CommitUser
<1>3. CASE CommitPassword(r)
  <2>1. req[r].pc = "commit"
    BY <1>3 DEF CommitPassword
  <2>2. accounts[req[r].login] # Nothing
    BY <2>1, Committing
  <2>. QED
    BY <1>1, <1>3, <2>2 DEF CommitPassword
<1>4. CASE UNCHANGED accounts
  BY <1>4
<1>. QED
  BY <1>2, <1>3, <1>4
     DEF Clients, Send, CreateUser, ImportUsers, ResetPassword, ChangePassword,
         UpdateOrganization, Server, NextRow, LoginExists, CreateLoginName, RollbackRow,
         AuditImport, BeginChange, CheckPasswordHistory, UpdateLoginPassword, GetOrganization,
         CommitRename, Fail, tables

\* Accounts are made by what is reported of them.
LEMMA MadeStep ==
    ASSUME AInv, NEW r \in Requests, Clients(r) \/ Server(r)
    PROVE  MadeInv'
<1>1. SUFFICES ASSUME NEW l \in Logins, NEW s \in Requests, NEW i \in Nat,
                      accounts'[l] # Nothing, accounts'[l].by = <<s, i>>
               PROVE  \/ /\ req'[s].op = "create" /\ i = 1 /\ req'[s].pc \in {"ok", "error"}
                         /\ <<"user.create", s>> \in audit'
                      \/ /\ req'[s].op = "import" /\ i \in DOMAIN req'[s].results
                         /\ req'[s].results[i] = "created" \/ <<s, i>> \in lost'
  BY DEF MadeInv
<1>2. /\ Continues(r) /\ Keeps(r) /\ \A o \in Requests \ {r} : req'[o] = req[o]
      /\ req' \in [Requests -> RequestType]
  BY SoundStep
<1>3. CASE accounts[l] # Nothing
  <2>1. accounts[l].by = <<s, i>>
    BY <1>1, <1>2, <1>3 DEF Keeps
  <2>2. \/ /\ req[s].op = "create" /\ i = 1 /\ req[s].pc \in {"ok", "error"}
           /\ <<"user.create", s>> \in audit
        \/ /\ req[s].op = "import" /\ i \in DOMAIN req[s].results
           /\ req[s].results[i] = "created" \/ <<s, i>> \in lost
    BY <1>3, <2>1 DEF AInv, MadeInv
  <2>3. audit \subseteq audit' /\ lost \subseteq lost'
    BY <1>2 DEF Continues
  <2>4. CASE s # r
    BY <1>2, <2>2, <2>3, <2>4
  <2>5. CASE s = r
    BY <1>2, <2>2, <2>3, <2>5, NothingElse DEF Continues, Operations
  <2>. QED
    BY <2>4, <2>5
<1>4. CASE accounts[l] = Nothing
  <2>. DEFINE q == req[r]
              n == Len(q.results)
  <2>1. CommitUser(r) /\ l = Name(r)
    BY <1>1, <1>4, OnlyCommitMakes
  <2>2. /\ accounts \in [Logins -> Account \cup {Nothing}] /\ q \in RequestType /\ Sound(r)
        /\ q.pc = "created" /\ req \in [Requests -> RequestType]
    BY <2>1 DEF AInv, TablesOK, CommitUser
  <2>3. s = r /\ i = n + 1
    <3>1. accounts'[l] = [password |-> Row(r).password, by |-> <<r, n + 1>>]
      BY <2>1, <2>2 DEF CommitUser
    <3>. QED
      BY <1>1, <3>1
  <2>4. /\ RowDone(r, "created") \/ (RowDone(r, "error") /\ lost' = lost \cup {<<r, n + 1>>})
        /\ Importing(r) \/ <<"user.create", r>> \in audit'
    BY <2>1 DEF CommitUser, Entry
  <2>5. q.results \in Seq({"created", "valid", "error"}) /\ n \in Nat
    BY <2>2 DEF RequestType
  <2>6. CASE Importing(r)
    <3>1. q.op = "import"
      BY <2>2, <2>6, InHand DEF Importing
    <3>2. PICK o \in {"created", "error"} :
            /\ req'[r] = [q EXCEPT !.results = Append(@, o), !.pc = "row"]
            /\ o = "created" \/ <<r, n + 1>> \in lost'
      BY <2>2, <2>4, <2>6, RowEnds
    <3>3. req'[r].op = "import" /\ req'[r].results = Append(q.results, o)
      BY <2>2, <3>1, <3>2 DEF RequestType
    <3>4. n + 1 \in DOMAIN Append(q.results, o) /\ Append(q.results, o)[n + 1] = o
      BY <2>5, Appended
    <3>. QED
      BY <2>3, <3>2, <3>3, <3>4
  <2>7. CASE ~Importing(r)
    <3>1. q.op = "create" /\ q.results = << >>
      <4>1. q.op = "create"
        BY <2>2, <2>7, InHand
      <4>. QED
        BY <2>2, <4>1 DEF Sound, FormInv
    <3>2. n + 1 = 1
      BY <3>1
    <3>3. req'[r].op = "create" /\ req'[r].pc \in {"ok", "error"}
      BY <2>2, <2>4, <2>7, <3>1, RowEnds DEF RequestType
    <3>. QED
      BY <2>3, <2>4, <2>7, <3>2, <3>3
  <2>. QED
    BY <2>6, <2>7
<1>. QED
  BY <1>3, <1>4

\* Renamings that run one at a time tell their names in order.
LEMMA NamesStep ==
    ASSUME AInv, NEW r \in Requests, Clients(r) \/ Server(r)
    PROVE  NamesInv'
<1>. DEFINE q == req[r]
            Changes == [before : Names, after : Names, by : Requests]
<1>1. /\ Continues(r) /\ \A s \in Requests \ {r} : req'[s] = req[s]
      /\ req' \in [Requests -> RequestType] /\ req \in [Requests -> RequestType]
      /\ NamesInv /\ overlaps \subseteq overlaps'
      /\ renames \in Seq(Changes) /\ Sound(r) /\ q \in RequestType
  BY SoundStep DEF AInv, TablesOK, Continues
<1>2. CASE CommitRename(r)
  <2>. DEFINE change == [before |-> q.old, after |-> q.name, by |-> r]
              n == Len(renames)
  <2>1. q.pc = "rename" /\ q.name \in Names /\ q.old \in Names
    <3>1. q.pc = "rename" /\ q.op \in Operations \cup {Nothing}
      BY <1>1, <1>2 DEF CommitRename, RequestType
    <3>. QED
      BY <1>1, <3>1 DEF Sound, FormInv, Operations
  <2>2. /\ organization' = q.name /\ renames' = Append(renames, change)
        /\ overlaps' = overlaps /\ change \in Changes
        /\ change.before = q.old /\ change.after = q.name
    BY <1>2, <2>1 DEF CommitRename, ghosts
  <2>3. req'[r].pc \in {"ok", "error"}
    <3>1. PICK o \in {"ok", "error"} : Reply(r, o)
      BY <1>2 DEF CommitRename
    <3>2. o \in Labels
      BY DEF Labels
    <3>. QED
      BY <1>1, <3>1, <3>2, Replied
  <2>. HIDE DEF change
  <2>4. Last(renames').after = organization'
    <3>1. renames \in Seq(Changes) /\ change \in Changes
      BY <1>1, <2>2
    <3>. HIDE DEF Changes
    <3>2. Last(Append(renames, change)) = change
      BY <3>1, Appended
    <3>. QED
      BY <2>2, <3>2
  <2>5. ASSUME Nothing \notin overlaps'
        PROVE  /\ \A s, t \in Renaming' : s = t
               /\ \A s \in Requests : req'[s].pc = "rename" => req'[s].old = organization'
               /\ \A i \in 2..Len(renames') : renames'[i].before = renames'[i - 1].after
    <3>1. Renaming = {r}
      BY <1>1, <2>1, <2>2, <2>5 DEF NamesInv, Renaming
    <3>2. Renaming' = {}
      BY <1>1, <2>3, <3>1 DEF Renaming
    <3>3. \A s \in Requests : req'[s].pc # "rename"
      BY <3>2 DEF Renaming
    <3>4. q.old = organization
      BY <1>1, <2>1, <2>2, <2>5 DEF NamesInv
    <3>5. ASSUME NEW i \in 2..(n + 1)
          PROVE  Append(renames, change)[i].before = Append(renames, change)[i - 1].after
      <4>1. /\ n \in Nat /\ DOMAIN renames = 1..n /\ Append(renames, change)[n + 1] = change
            /\ \A j \in 1..n : Append(renames, change)[j] = renames[j]
        BY <1>1, <2>2, Members, Appended
      <4>2. CASE i <= n
        <5>1. i \in 2..n /\ i \in 1..n /\ i - 1 \in 1..n
          BY <4>1, <4>2
        <5>2. renames[i].before = renames[i - 1].after
          BY <1>1, <2>2, <2>5, <5>1 DEF NamesInv
        <5>. QED
          BY <4>1, <5>1, <5>2
      <4>3. CASE i = n + 1
        <5>1. n \in 1..n /\ i - 1 = n
          BY <4>1, <4>3
        <5>2. renames # << >> /\ Last(renames) = renames[n]
          BY <1>1, <4>1, <5>1 DEF Last
        <5>3. renames[n].after = organization
          BY <1>1, <5>2 DEF NamesInv
        <5>. QED
          BY <2>2, <3>4, <4>1, <4>3, <5>1, <5>3
      <4>. QED
        BY <4>1, <4>2, <4>3
    <3>6. Len(renames') = n + 1
      BY <1>1, <2>2, Appended
    <3>. QED
      BY <2>2, <3>2, <3>3, <3>5, <3>6
  <2>. QED
    BY <2>4, <2>5 DEF NamesInv
<1>3. ASSUME UNCHANGED names, q.pc \in {"organization", "rename"},
             req'[r].pc = "rename" => req'[r].old = organization
      PROVE  NamesInv'
  <2>1. Renaming' \subseteq Renaming
    BY <1>1, <1>3 DEF Renaming
  <2>2. organization' = organization /\ renames' = renames
    BY <1>3 DEF names
  <2>. QED
    BY <1>1, <1>3, <2>1, <2>2 DEF NamesInv
<1>4. ASSUME UNCHANGED names, req'[r].pc \notin {"organization", "rename"}
      PROVE  NamesInv'
  <2>1. Renaming' \subseteq Renaming
    BY <1>1, <1>4 DEF Renaming
  <2>2. organization' = organization /\ renames' = renames
    BY <1>4 DEF names
  <2>. QED
    BY <1>1, <1>4, <2>1, <2>2 DEF NamesInv
<1>5. ASSUME NEW n \in Names, UpdateOrganization(r, n) PROVE NamesInv'
  <2>1. organization' = organization /\ renames' = renames /\ req'[r].pc = "organization"
    BY <1>1, <1>5 DEF UpdateOrganization, Goto, tables, names, Idle
  <2>2. Nothing \notin overlaps' => Renaming = {}
    BY <1>5 DEF UpdateOrganization
  <2>3. Renaming = {} => Renaming' = {r}
    BY <1>1, <2>1 DEF Renaming
  <2>4. Renaming = {} => \A s \in Requests : req'[s].pc # "rename"
    BY <1>1, <2>1, <2>3 DEF Renaming
  <2>. QED
    BY <1>1, <2>1, <2>2, <2>3, <2>4 DEF NamesInv
<1>6. CASE GetOrganization(r)
  <2>1. q.pc = "organization" /\ req'[r] = [q EXCEPT !.old = organization, !.pc = "rename"]
    BY <1>1, <1>6 DEF GetOrganization, Goto
  <2>2. req'[r].old = organization
    BY <1>1, <2>1 DEF RequestType
  <2>. QED
    BY <1>3, <1>6, <2>1, <2>2 DEF GetOrganization, tables
<1>7. ASSUME NEW o \in Labels \ {"organization", "rename"}, Reply(r, o), UNCHANGED names
      PROVE  NamesInv'
  <2>1. req'[r].pc = o
    BY <1>1, <1>7, Replied
  <2>. QED
    BY <1>4, <1>7, <2>1
<1>8. ASSUME NEW s, RowDone(r, s), UNCHANGED names PROVE NamesInv'
  <2>1. req'[r].pc \notin {"organization", "rename"}
    BY <1>1, <1>8, RowEnds DEF RequestType
  <2>. QED
    BY <1>4, <1>8, <2>1
<1>9. CASE NextRow(r) \/ LoginExists(r) \/ CreateLoginName(r) \/ CommitUser(r) \/ RollbackRow(r)
  <2>1. UNCHANGED names
    BY <1>9 DEF NextRow, LoginExists, CreateLoginName, CommitUser, RollbackRow, tables
  <2>2. \/ \E s : RowDone(r, s)
        \/ \E o \in {"audit", "ok", "exists", "insert", "created"} : Reply(r, o)
    BY <1>9 DEF NextRow, LoginExists, CreateLoginName, CommitUser, RollbackRow
  <2>. QED
    BY <1>7, <1>8, <2>1, <2>2 DEF Labels
<1>10. CASE AuditImport(r) \/ CheckPasswordHistory(r) \/ UpdateLoginPassword(r)
            \/ CommitPassword(r) \/ Fail(r)
  <2>1. UNCHANGED names
    BY <1>10 DEF AuditImport, CheckPasswordHistory, UpdateLoginPassword, CommitPassword, Fail,
                 tables
  <2>2. \E o \in {"ok", "error", "update", "commit"} : Reply(r, o)
    BY <1>10 DEF AuditImport, CheckPasswordHistory, UpdateLoginPassword, CommitPassword, Fail
  <2>. QED
    BY <1>7, <2>1, <2>2 DEF Labels
<1>11. CASE BeginChange(r)
  <2>1. req'[r].pc = "check" /\ UNCHANGED names
    BY <1>1, <1>11 DEF BeginChange, Goto, RequestType, tables
  <2>. QED
    BY <1>4, <2>1
<1>12. ASSUME NEW op, NEW l, NEW p, NEW old, NEW f, NEW label,
              Send(r, op, l, p, old, f, label), label \in {"exists", "row", "begin"}
       PROVE  NamesInv'
  <2>1. req'[r].pc = label /\ UNCHANGED names
    BY <1>1, <1>12 DEF Send, Goto, Idle, tables
  <2>. QED
    BY <1>4, <1>12, <2>1
<1>. QED
  BY <1>2, <1>5, <1>6, <1>9, <1>10, <1>11, <1>12
     DEF Clients, CreateUser, ImportUsers, ResetPassword, ChangePassword, Server

\* An account that one request at a time changes keeps telling its last
\* passwords.
LEMMA ChangeStep ==
    ASSUME AInv, NEW r \in Requests, Clients(r) \/ Server(r), NEW l \in Logins
    PROVE  ChangeInv(l)'
<1>. DEFINE q == req[r]
<1>1. /\ \A s \in Requests \ {r} : req'[s] = req[s]
      /\ req' \in [Requests -> RequestType] /\ req \in [Requests -> RequestType]
      /\ ChangeInv(l) /\ overlaps \subseteq overlaps' /\ Sound(r) /\ q \in RequestType
      /\ TablesOK /\ history[l] \in Seq(HistoryRow) /\ past[l] \in Seq(Passwords)
      /\ accounts \in [Logins -> Account \cup {Nothing}] /\ clock \in Nat
      /\ history \in [Logins -> Seq(HistoryRow)] /\ past \in [Logins -> Seq(Passwords)]
      /\ unrecorded' = unrecorded
  BY SoundStep, UnrecordedStays DEF AInv, TablesOK, Continues
<1>2. ASSUME NEW s \in Changing(l)
      PROVE  /\ s \in Requests /\ req[s].login = l /\ accounts[l] # Nothing
             /\ req[s].at \in Nat /\ req[s].old \in Passwords /\ req[s].password \in Passwords
             /\ req[s].at <= clock
  BY Committing DEF Changing
\* Nothing of the account has changed, and r is not at work on it.
<1>3. ASSUME accounts'[l] = accounts[l], history'[l] = history[l], past'[l] = past[l],
             r \notin Changing(l)'
      PROVE  ChangeInv(l)'
  <2>1. \A s \in Changing(l)' : s \in Changing(l) /\ req'[s] = req[s]
    BY <1>1, <1>3 DEF Changing
  <2>. QED
    BY <1>1, <1>3, <2>1 DEF ChangeInv, Bare, NotAgain
<1>4. CASE CommitUser(r) /\ l = Name(r)
  <2>. DEFINE new == Row(r).password
  <2>1. q.pc = "created" /\ new \in Passwords /\ accounts[l] = Nothing
    <3>1. q.pc = "created"
      BY <1>4 DEF CommitUser
    <3>. QED
      BY <1>1, <1>4, <3>1, InHand DEF Sound, HoldInv
  <2>2. PICK kept \in StorePasswordHistory(<< >>, Nothing, new, clock) :
          history'[l] = kept
    BY <1>1, <1>4 DEF CommitUser
  <2>3. past'[l] = <<new>>
    BY <1>1, <1>4 DEF CommitUser
  <2>4. Remembers(history'[l], past'[l]) /\ NotAgain(past[l], l)'
    <3>1. Remembers(history'[l], past'[l])
      BY <1>1, <2>1, <2>2, <2>3, FirstRemembered
    <3>2. DOMAIN past'[l] = {1}
      BY <2>3
    <3>. QED
      BY <3>1, <3>2 DEF NotAgain
  <2>5. req'[r].pc \notin {"check", "update", "commit"}
    BY <1>1, <1>4, RowEnds DEF CommitUser, RequestType
  <2>6. Changing(l) = {}
    BY <1>2, <2>1
  <2>7. Changing(l)' = {}
    BY <1>1, <2>5, <2>6 DEF Changing
  <2>. QED
    BY <2>4, <2>7 DEF ChangeInv
<1>5. CASE CommitPassword(r) /\ l = q.login
  <2>1. /\ q.pc = "commit" /\ r \in Changing(l)
    BY <1>5 DEF CommitPassword, Changing
  <2>2. /\ q.old \in Passwords /\ q.at \in Nat /\ q.password \in Passwords
        /\ accounts[l] # Nothing
    BY <1>2, <2>1
  <2>3. PICK kept \in StorePasswordHistory(history[l], q.old, q.password, q.at) :
          history'[l] = kept
    BY <1>1, <1>5 DEF CommitPassword
  <2>4. past'[l] = Append(past[l], q.password) /\ overlaps' = overlaps
    BY <1>1, <1>5 DEF CommitPassword
  <2>5. req'[r].pc \in {"ok", "error"}
    <3>1. PICK o \in {"ok", "error"} : Reply(r, o)
      BY <1>5 DEF CommitPassword
    <3>2. o \in Labels
      BY DEF Labels
    <3>. QED
      BY <1>1, <3>1, <3>2, Replied
  <2>6. SUFFICES ASSUME l \notin overlaps PROVE ChangeInv(l)'
    BY <2>4 DEF ChangeInv
  <2>7. /\ Remembers(history[l], past[l]) \/ Bare(l)
        /\ NotAgain(past[l], l)
        /\ \A s \in Changing(l) : s = r
        /\ q.old = accounts[l].password
        /\ \A i \in DOMAIN history[l] : history[l][i].at < q.at
        /\ ~Bare(l) => \A i \in DOMAIN past[l] : Len(past[l]) - i < 3 => q.password # past[l][i]
    BY <1>1, <2>1, <2>2, <2>6 DEF ChangeInv
  <2>8. past[l] # << >> /\ q.old = Last(past[l])
    BY <1>1, <2>2, <2>7 DEF TablesOK
  <2>9. Remembers(history'[l], past'[l])
    <3>1. CASE Bare(l)
      <4>1. past[l] = <<q.old>> /\ past'[l] = <<q.old, q.password>>
        <5>1. past[l] = <<past[l][Len(past[l])]>>
          BY <1>1, <2>2, <3>1, OneAndTwo DEF Bare
        <5>2. past[l] = <<q.old>>
          BY <2>8, <5>1 DEF Last
        <5>. QED
          BY <2>2, <2>4, <5>2, OneAndTwo
      <4>. QED
        BY <2>2, <2>3, <3>1, <4>1, FirstChangeRemembered DEF Bare
    <3>2. CASE Remembers(history[l], past[l])
      BY <1>1, <2>2, <2>3, <2>4, <2>7, <2>8, <3>2, ChangeRemembered
    <3>. QED
      BY <2>7, <3>1, <3>2
  <2>10. NotAgain(past[l], l)'
    <3>1. NotAgain(Append(past[l], q.password), l)
      BY <1>1, <2>2, <2>7, StillNotAgain DEF Bare
    <3>. QED
      BY <1>1, <2>4, <3>1 DEF NotAgain
  <2>11. Changing(l)' = {}
    BY <1>1, <2>5, <2>7 DEF Changing
  <2>. QED
    BY <2>9, <2>10, <2>11 DEF ChangeInv
<1>6. CASE BeginChange(r)
  <2>1. /\ q.pc = "begin" /\ UNCHANGED tables /\ past' = past
        /\ req'[r] =
             [q EXCEPT !.old = accounts[q.login].password, !.at = clock + 1, !.pc = "check"]
    BY <1>1, <1>6 DEF BeginChange, Goto
  <2>2. /\ req'[r].login = q.login /\ req'[r].old = accounts[q.login].password
        /\ req'[r].at = clock + 1 /\ req'[r].pc = "check"
    BY <1>1, <2>1 DEF RequestType
  <2>3. accounts' = accounts /\ history' = history
    BY <2>1 DEF tables
  <2>4. CASE q.login # l
    <3>1. r \notin Changing(l)'
      BY <2>2, <2>4 DEF Changing
    <3>. QED
      BY <1>3, <2>1, <2>3, <3>1
  <2>5. CASE q.login = l
    <3>1. SUFFICES ASSUME l \notin overlaps' PROVE ChangeInv(l)'
      BY DEF ChangeInv
    <3>2. Changing(l) = {} /\ l \notin overlaps
      BY <1>1, <1>6, <2>5, <3>1 DEF BeginChange
    <3>3. Changing(l)' \subseteq {r}
      BY <1>1, <3>2 DEF Changing
    <3>4. ASSUME NEW i \in DOMAIN history[l] PROVE history[l][i].at < clock + 1
      <4>1. history[l][i] \in HistoryRow /\ history[l][i].at <= clock
        BY <1>1, <3>4, Members DEF TablesOK
      <4>2. history[l][i].at \in Nat
        BY <4>1 DEF HistoryRow
      <4>. QED
        BY <1>1, <4>1, <4>2
    <3>5. accounts[l] # Nothing =>
             (Remembers(history[l], past[l]) \/ Bare(l)) /\ NotAgain(past[l], l)
      BY <1>1, <3>2 DEF ChangeInv
    <3>6. Bare(l)' = Bare(l) /\ NotAgain(past[l], l)' = NotAgain(past[l], l)
      BY <1>1, <2>1, <2>3 DEF Bare, NotAgain
    <3>. QED
      BY <2>1, <2>2, <2>3, <2>5, <3>3, <3>4, <3>5, <3>6 DEF ChangeInv
  <2>. QED
    BY <2>4, <2>5
<1>7. CASE CheckPasswordHistory(r) \/ UpdateLoginPassword(r)
  <2>1. PICK o \in {"update", "commit"} : Reply(r, o)
    BY <1>7 DEF CheckPasswordHistory, UpdateLoginPassword
  <2>2. o \in Labels /\ o # "check"
    BY DEF Labels
  <2>3. /\ accounts' = accounts /\ history' = history /\ past' = past /\ overlaps' = overlaps
        /\ q.pc \in {"check", "update"}
    BY <1>7 DEF CheckPasswordHistory, UpdateLoginPassword, tables, ghosts
  <2>4. /\ req'[r].login = q.login /\ req'[r].password = q.password /\ req'[r].old = q.old
        /\ req'[r].at = q.at /\ req'[r].pc = o
    BY <1>1, <2>1, <2>2, Replied
  <2>5. CASE q.login # l
    <3>1. r \notin Changing(l)'
      BY <2>4, <2>5 DEF Changing
    <3>. QED
      BY <1>3, <2>3, <3>1
  <2>6. CASE q.login = l
    <3>1. r \in Changing(l)
      BY <2>3, <2>6 DEF Changing
    <3>2. accounts[l] # Nothing
      BY <1>2, <3>1
    <3>3. SUFFICES ASSUME l \notin overlaps PROVE ChangeInv(l)'
      BY <2>3 DEF ChangeInv
    <3>4. /\ Remembers(history[l], past[l]) \/ Bare(l)
          /\ NotAgain(past[l], l)
          /\ \A s \in Changing(l) : s = r
          /\ q.old = accounts[l].password
          /\ \A i \in DOMAIN history[l] : history[l][i].at < q.at
          /\ q.pc # "check" /\ ~Bare(l) =>
                \A i \in DOMAIN past[l] : Len(past[l]) - i < 3 => q.password # past[l][i]
      BY <1>1, <3>1, <3>2, <3>3 DEF ChangeInv
    <3>5. ASSUME ~Bare(l)
          PROVE  \A i \in DOMAIN past[l] : Len(past[l]) - i < 3 => q.password # past[l][i]
      <4>1. CASE CheckPasswordHistory(r)
        <5>1. PICK hashes \in ListPasswordHistory(history[l]) : q.password \notin hashes
          BY <2>6, <4>1 DEF CheckPasswordHistory
        <5>2. past[l] # << >> /\ Len(history[l]) <= 5
          BY <1>1, <3>2 DEF TablesOK, PasswordHistoryLength
        <5>. QED
          BY <1>1, <3>4, <3>5, <5>1, <5>2, NoneRepeated
      <4>2. CASE UpdateLoginPassword(r)
        BY <3>4, <3>5, <4>2 DEF UpdateLoginPassword
      <4>. QED
        BY <1>7, <4>1, <4>2
    <3>6. Changing(l)' \subseteq {r}
      BY <1>1, <3>4 DEF Changing
    <3>7. Bare(l)' = Bare(l) /\ NotAgain(past[l], l)' = NotAgain(past[l], l)
      BY <1>1, <2>3 DEF Bare, NotAgain
    <3>. QED
      BY <2>3, <2>4, <3>4, <3>5, <3>6, <3>7 DEF ChangeInv
  <2>. QED
    BY <2>5, <2>6
<1>8. ASSUME NEW o \in Labels \ {"check", "update", "commit"}, req'[r].pc = o,
             accounts'[l] = accounts[l], history'[l] = history[l], past'[l] = past[l]
      PROVE  ChangeInv(l)'
  <2>1. r \notin Changing(l)'
    BY <1>8 DEF Changing
  <2>. QED
    BY <1>3, <1>8, <2>1
<1>9. CASE CommitUser(r) /\ l # Name(r)
  <2>1. accounts'[l] = accounts[l] /\ history'[l] = history[l] /\ past'[l] = past[l]
    BY <1>1, <1>9 DEF CommitUser
  <2>2. req'[r].pc \in {"row", "ok", "error"}
    BY <1>1, <1>9, RowEnds DEF CommitUser, RequestType
  <2>. QED
    BY <1>8, <2>1, <2>2 DEF Labels
<1>10. CASE CommitPassword(r) /\ l # q.login
  <2>1. accounts'[l] = accounts[l] /\ history'[l] = history[l] /\ past'[l] = past[l]
    BY <1>1, <1>10 DEF CommitPassword
  <2>2. req'[r].pc \in {"ok", "error"}
    <3>1. PICK o \in {"ok", "error"} : Reply(r, o)
      BY <1>10 DEF CommitPassword
    <3>2. o \in Labels
      BY DEF Labels
    <3>. QED
      BY <1>1, <3>1, <3>2, Replied
  <2>. QED
    BY <1>8, <2>1, <2>2 DEF Labels
<1>11. ASSUME UNCHANGED <<accounts, history, past>>,
              \/ \E s : RowDone(r, s)
              \/ \E o \in Labels \ {"check", "update", "commit"} :
                    Reply(r, o) \/ req'[r].pc = o
       PROVE  ChangeInv(l)'
  <2>1. ASSUME NEW s, RowDone(r, s) PROVE req'[r].pc \in {"row", "ok", "error"}
    BY <1>1, <2>1, RowEnds DEF RequestType
  <2>2. ASSUME NEW o \in Labels, Reply(r, o) PROVE req'[r].pc = o
    BY <1>1, <2>2, Replied
  <2>. QED
    BY <1>8, <1>11, <2>1, <2>2 DEF Labels
<1>12. CASE NextRow(r) \/ LoginExists(r) \/ CreateLoginName(r) \/ RollbackRow(r)
  <2>1. UNCHANGED <<accounts, history, past>>
    BY <1>12 DEF NextRow, LoginExists, CreateLoginName, RollbackRow, tables, ghosts
  <2>2. \/ \E s : RowDone(r, s)
        \/ \E o \in {"audit", "ok", "exists", "insert", "created"} : Reply(r, o)
    BY <1>12 DEF NextRow, LoginExists, CreateLoginName, RollbackRow
  <2>. QED
    BY <1>11, <2>1, <2>2 DEF Labels
<1>13. CASE AuditImport(r) \/ Fail(r) \/ CommitRename(r)
  <2>1. UNCHANGED <<accounts, history, past>>
    BY <1>13 DEF AuditImport, Fail, CommitRename, tables, ghosts
  <2>2. \E o \in {"ok", "error"} : Reply(r, o)
    BY <1>13 DEF AuditImport, Fail, CommitRename
  <2>. QED
    BY <1>11, <2>1, <2>2 DEF Labels
<1>14. CASE GetOrganization(r)
  <2>1. UNCHANGED <<accounts, history, past>> /\ req'[r].pc = "rename"
    BY <1>1, <1>14 DEF GetOrganization, Goto, RequestType, tables, ghosts
  <2>. QED
    BY <1>11, <2>1 DEF Labels
<1>15. ASSUME NEW n \in Names, UpdateOrganization(r, n) PROVE ChangeInv(l)'
  <2>1. UNCHANGED <<accounts, history, past>> /\ req'[r].pc = "organization"
    BY <1>1, <1>15 DEF UpdateOrganization, Goto, Idle, tables, ghosts
  <2>. QED
    BY <1>11, <2>1 DEF Labels
<1>16. ASSUME NEW op, NEW k, NEW p, NEW old, NEW sheet, NEW label,
              Send(r, op, k, p, old, sheet, label), label \in {"exists", "row", "begin"}
       PROVE  ChangeInv(l)'
  <2>1. req'[r].pc = label /\ UNCHANGED <<accounts, history, past>>
    BY <1>1, <1>16 DEF Send, Goto, Idle, tables, ghosts
  <2>. QED
    BY <1>11, <1>16, <2>1 DEF Labels
<1>. QED
  BY <1>4, <1>5, <1>6, <1>7, <1>9, <1>10, <1>12, <1>13, <1>14, <1>15, <1>16
     DEF Clients, CreateUser, ImportUsers, ResetPassword, ChangePassword, Server

-----------------------------------------------------------------------------
(* Accounts: theorems *)

\* The database a run starts with, before any request.
LEMMA AccountsInitInv == AccountsInit => AInv
<1>. SUFFICES ASSUME AccountsInit PROVE AInv
  OBVIOUS
<1>1. PICK initial \in InitialAccounts :
        /\ accounts = initial[1] /\ history = initial[2] /\ past = initial[3]
        /\ clock = initial[4]
  BY DEF AccountsInit
<1>2. /\ accounts \in [Logins -> Account \cup {Nothing}]
      /\ history \in [Logins -> Seq(HistoryRow)] /\ past \in [Logins -> Seq(Passwords)]
      /\ clock \in Nat
      /\ \A l \in Logins :
            IF accounts[l] = Nothing THEN history[l] = << >> /\ past[l] = << >>
            ELSE /\ accounts[l].by = Nothing
                 /\ past[l] # << >> /\ accounts[l].password = Last(past[l])
                 /\ Len(history[l]) <= PasswordHistoryLength
                 /\ \A i \in DOMAIN history[l] : history[l][i].at <= clock
                 /\ \/ Remembers(history[l], past[l]) /\ NoneRecent(past[l])
                    \/ history[l] = << >> /\ Len(past[l]) = 1
  BY <1>1, InitialAssumption
<1>3. /\ audit = {} /\ renames = << >> /\ organization \in Names /\ overlaps = {} /\ lost = {}
      /\ owner = [l \in Logins |-> Nothing] /\ req = [r \in Requests |-> Idle]
      /\ unrecorded = {l \in Logins : accounts[l] # Nothing /\ history[l] = << >>}
  BY DEF AccountsInit
<1>4. /\ << >> \in Seq([before : Names, after : Names, by : Requests]) /\ Len(<< >>) = 0
      /\ << >> \in Seq(FileRow \cup {BadRow}) /\ << >> \in Seq({"created", "valid", "error"})
      /\ DOMAIN << >> = {}
  OBVIOUS
<1>5. TablesOK
  <2>1. \A l \in Logins :
          /\ IF accounts[l] = Nothing THEN history[l] = << >> /\ past[l] = << >>
             ELSE past[l] # << >> /\ accounts[l].password = Last(past[l])
          /\ Len(history[l]) <= PasswordHistoryLength
          /\ \A i \in DOMAIN history[l] : history[l][i].at <= clock
    BY <1>2, <1>4 DEF PasswordHistoryLength
  <2>2. owner \in [Logins -> Requests \cup {Nothing}]
    BY <1>3
  <2>. QED
    BY <1>2, <1>3, <1>4, <2>1, <2>2 DEF TablesOK
<1>6. /\ Idle \in RequestType /\ Idle.op = Nothing /\ Idle.pc = "idle"
      /\ Idle.results = << >>
  <2>1. "idle" \in Labels /\ 0 \in Nat
    BY DEF Labels
  <2>. QED
    BY <1>4, <2>1 DEF Idle, RequestType
<1>7. req \in [Requests -> RequestType] /\ \A r \in Requests : req[r] = Idle
  BY <1>3, <1>6
<1>8. ASSUME NEW r \in Requests PROVE Sound(r)
  BY <1>4, <1>6, <1>7, NothingElse DEF Sound, FormInv, HoldInv, ReportInv, Operations
<1>9. MadeInv
  <2>1. \A l \in Logins : accounts[l] # Nothing => accounts[l].by = Nothing
    BY <1>2
  <2>2. \A r \in Requests, i \in Nat : <<r, i>> # Nothing
    <3>1. \A r \in Requests, i \in Nat : <<r, i>> \in Requests \X Nat
      OBVIOUS
    <3>. QED
      BY <3>1, NothingElse
  <2>. QED
    BY <2>1, <2>2 DEF MadeInv
<1>10. NamesInv
  BY <1>3, <1>4, <1>6, <1>7 DEF NamesInv, Renaming
<1>11. ASSUME NEW l \in Logins PROVE ChangeInv(l)
  <2>1. Changing(l) = {}
    BY <1>6, <1>7 DEF Changing
  <2>2. ASSUME accounts[l] # Nothing
        PROVE  (Remembers(history[l], past[l]) \/ Bare(l)) /\ NotAgain(past[l], l)
    <3>1. CASE Remembers(history[l], past[l]) /\ NoneRecent(past[l])
      BY <3>1 DEF NoneRecent, NotAgain
    <3>2. CASE history[l] = << >> /\ Len(past[l]) = 1
      <4>1. DOMAIN past[l] = 1..1
        BY <1>2, <3>2, Members
      <4>. QED
        BY <1>3, <2>2, <3>2, <4>1 DEF NotAgain, Bare
    <3>. QED
      BY <1>2, <2>2, <3>1, <3>2
  <2>. QED
    BY <2>1, <2>2 DEF ChangeInv
<1>. QED
  BY <1>5, <1>7, <1>8, <1>9, <1>10, <1>11 DEF AInv

\* Every step keeps the invariant.
LEMMA AccountsStep == AInv /\ [AccountsNext]_accountsVars => AInv'
<1>. SUFFICES ASSUME AInv, [AccountsNext]_accountsVars PROVE AInv'
  OBVIOUS
<1>1. ASSUME NEW r \in Requests, Clients(r) \/ Server(r) PROVE AInv'
  <2>1. req' \in [Requests -> RequestType] /\ \A s \in Requests : Sound(s)'
    BY <1>1, SoundStep
  <2>2. TablesOK' /\ MadeInv' /\ NamesInv' /\ \A l \in Logins : ChangeInv(l)'
    BY <1>1, TablesStep, MadeStep, NamesStep, ChangeStep
  <2>. QED
    BY <2>1, <2>2 DEF AInv
<1>2. CASE UNCHANGED accountsVars
  <2>. USE <1>2 DEF accountsVars, tables, names, ghosts
  <2>1. TablesOK' /\ (req \in [Requests -> RequestType])'
    BY DEF AInv, TablesOK
  <2>2. MadeInv' /\ NamesInv'
    BY DEF AInv, MadeInv, NamesInv, Renaming
  <2>3. \A l \in Logins : ChangeInv(l)'
    BY DEF AInv, ChangeInv, Changing, Bare, NotAgain
  <2>4. ASSUME NEW r \in Requests PROVE Sound(r)'
    <3>1. Sound(r) /\ req'[r] = req[r]
      BY DEF AInv
    <3>2. FormInv(r)' = FormInv(r)
      BY DEF FormInv, Row, Importing
    <3>3. HoldInv(r)' = HoldInv(r)
      BY DEF HoldInv, Row, Name, Importing
    <3>4. ReportInv(r)' = ReportInv(r)
      BY DEF ReportInv
    <3>. QED
      BY <3>1, <3>2, <3>3, <3>4 DEF Sound
  <2>. QED
    BY <2>1, <2>2, <2>3, <2>4 DEF AInv
<1>. QED
  BY <1>1, <1>2 DEF AccountsNext

\* The invariant of Accounts holds in every reachable state.
THEOREM AccountsInvariant == AccountsSpec => []AInv
BY AccountsInitInv, AccountsStep, PTL DEF AccountsSpec

\* The tables, the requests and the histories keep their types: an account has
\* the last of its passwords and no more than five rows of history.
THEOREM AccountsTypeCorrect == AccountsSpec => []AccountsTypeOK
<1>1. AInv => AccountsTypeOK
  BY DEF AInv, TablesOK, AccountsTypeOK
<1>. QED
  BY <1>1, AccountsInvariant, PTL

\* Whatever the clients ask for at once, a creation, an import and a renaming
\* report what they did (CreateUser, ImportUsers, UpdateOrganization).
THEOREM AccountsExact == AccountsSpec => []AccountsReported
<1>1. ASSUME AInv PROVE AccountsReported
  <2>1. ASSUME NEW r \in Requests, req[r].op \in {"import", "dry run"},
               NEW i \in DOMAIN req[r].results
        PROVE  LET l == req[r].file[i].login
                   made == l # Nothing /\ accounts[l] # Nothing /\ accounts[l].by = <<r, i>>
               IN /\ req[r].results[i] = "created" => made
                  /\ made => req[r].results[i] = "created" \/ <<r, i>> \in lost
    <3>. DEFINE l == req[r].file[i].login
    <3>1. Sound(r) /\ req[r] \in RequestType
      BY <1>1 DEF AInv
    <3>2. req[r].results[i] = "created" =>
             l # Nothing /\ accounts[l] # Nothing /\ accounts[l].by = <<r, i>>
      BY <2>1, <3>1, NothingElse DEF Sound, ReportInv
    <3>3. i \in Nat /\ i \in 1..Len(req[r].file)
      <4>1. /\ req[r].results \in Seq({"created", "valid", "error"})
            /\ req[r].file \in Seq(FileRow \cup {BadRow})
        BY <3>1 DEF RequestType
      <4>2. Len(req[r].results) <= Len(req[r].file)
        BY <2>1, <3>1 DEF Sound, FormInv
      <4>3. Len(req[r].results) \in Nat /\ Len(req[r].file) \in Nat /\ i \in 1..Len(req[r].results)
        BY <4>1, <2>1, Members
      <4>. QED
        BY ONLY <4>2, <4>3
    <3>4. l \in Logins \cup {Nothing}
      <4>1. req[r].file \in Seq(FileRow \cup {BadRow})
        BY <3>1 DEF RequestType
      <4>2. req[r].file[i] \in FileRow \cup {BadRow}
        BY <3>3, <4>1, Members
      <4>. QED
        BY <4>2 DEF FileRow, BadRow
    <3>5. ASSUME l # Nothing, accounts[l] # Nothing, accounts[l].by = <<r, i>>
          PROVE  req[r].results[i] = "created" \/ <<r, i>> \in lost
      BY <1>1, <2>1, <3>3, <3>4, <3>5 DEF AInv, MadeInv
    <3>. QED
      BY <3>2, <3>5
  <2>2. ASSUME NEW r \in Requests, req[r].op = "create"
        PROVE  LET made == accounts[req[r].login] # Nothing /\ accounts[req[r].login].by = <<r, 1>>
               IN (req[r].pc = "ok" => made) /\ (made => <<"user.create", r>> \in audit)
    <3>1. Sound(r) /\ MadeInv
      BY <1>1 DEF AInv
    <3>2. req[r].login \in Logins /\ 1 \in Nat
      BY <2>2, <3>1 DEF Sound, FormInv
    <3>3. req[r].pc = "ok" =>
             accounts[req[r].login] # Nothing /\ accounts[req[r].login].by = <<r, 1>>
      BY <2>2, <3>1 DEF Sound, ReportInv
    <3>4. accounts[req[r].login] # Nothing /\ accounts[req[r].login].by = <<r, 1>>
             => <<"user.create", r>> \in audit
      BY <2>2, <3>1, <3>2 DEF MadeInv
    <3>. QED
      BY <3>3, <3>4
  <2>3. \A r \in Requests : req[r].op = "import" /\ req[r].pc = "ok"
          => <<"user.import", r>> \in audit
    BY <1>1 DEF AInv, Sound, ReportInv
  <2>4. /\ renames # << >> => Last(renames).after = organization
        /\ Nothing \notin overlaps => \A i \in 2..Len(renames) :
              renames[i].before = renames[i - 1].after
    BY <1>1 DEF AInv, NamesInv
  <2>. QED
    BY <2>1, <2>2, <2>3, <2>4 DEF AccountsReported
<1>. QED
  BY <1>1, AccountsInvariant, PTL

\* A password is not set again while it is one of an account's last three, if
\* the account was never changed by two requests at a time; only the first
\* reset of an account that is older than the table of passwords may leave it
\* the password it has (CheckPasswordHistory, StorePasswordHistory).
THEOREM PasswordsRefused == AccountsSpec => []RecentPasswordsRefused
<1>1. ASSUME AInv PROVE RecentPasswordsRefused
  <2>1. ASSUME NEW l \in Logins \ overlaps PROVE NotAgain(past[l], l)
    <3>1. CASE accounts[l] = Nothing
      <4>1. past[l] = << >>
        BY <1>1, <3>1 DEF AInv, TablesOK
      <4>. QED
        BY <4>1 DEF NotAgain
    <3>2. CASE accounts[l] # Nothing
      BY <1>1, <3>2 DEF AInv, ChangeInv
    <3>. QED
      BY <3>1, <3>2
  <2>. QED
    BY <2>1 DEF RecentPasswordsRefused, NotAgain
<1>. QED
  BY <1>1, AccountsInvariant, PTL

-----------------------------------------------------------------------------
(* Lists *)

\* An order of a set is a list of its members, each once.
LEMMA Listing ==
    ASSUME NEW S, IsFiniteSet(S), NEW s \in SetToSeqs(S)
    PROVE  /\ s \in Seq(S) /\ Len(s) = Cardinality(S) /\ Len(s) \in Nat
           /\ DOMAIN s = 1..Len(s) /\ s \in [1..Len(s) -> S]
           /\ \A i, j \in 1..Len(s) : s[i] = s[j] => i = j
           /\ \A x \in S : \E i \in 1..Len(s) : s[i] = x
<1>. DEFINE n == Cardinality(S)
<1>1. n \in Nat /\ IsFiniteSet(1..n) /\ Cardinality(1..n) = n
  BY FS_CardinalityType, FS_Interval
<1>2. s \in [1..n -> S] /\ \A i, j \in 1..n : i # j => s[i] # s[j]
  BY DEF SetToSeqs
<1>. HIDE DEF n
<1>3. s \in Seq(S) /\ Len(s) = n /\ DOMAIN s = 1..n
  BY <1>1, <1>2
<1>4. s \in Injection(1..n, S)
  BY <1>2 DEF Injection, IsInjective
<1>5. Cardinality(1..n) = Cardinality(S)
  BY <1>1 DEF n
<1>6. s \in Surjection(1..n, S)
  BY <1>4, <1>5, FS_Injection
<1>7. \A x \in S : \E i \in 1..n : s[i] = x
  BY <1>6 DEF Surjection
<1>. QED
  BY <1>1, <1>2, <1>3, <1>7 DEF n

\* A finite set that is ordered can be listed in its order.
LEMMA ListExists ==
    ASSUME NEW S, IsFiniteSet(S), NEW R, Orderly(S, R)
    PROVE  \E s \in SetToSeqs(S) : \A i, j \in DOMAIN s : i < j => <<s[i], s[j]>> \in R
<1>. DEFINE n == Cardinality(S)
            Rank(x) == Cardinality(UpTo(S, R, x))
            s == [i \in 1..n |-> CHOOSE x \in S : Rank(x) = i]
<1>1. n \in Nat
  BY FS_CardinalityType
<1>2. /\ \A x \in S : Rank(x) \in 1..n
      /\ \A x, y \in S : <<x, y>> \in R => Rank(x) < Rank(y)
      /\ \A i \in 1..n : \E x \in S : Rank(x) = i
  BY Ranking
<1>. HIDE DEF Rank
<1>3. \A i \in 1..n : s[i] \in S /\ Rank(s[i]) = i
  BY <1>2
<1>4. s \in SetToSeqs(S)
  <2>1. s \in [1..n -> S]
    BY <1>3
  <2>2. \A i, j \in 1..n : i # j => s[i] # s[j]
    BY <1>3
  <2>. QED
    BY <2>1, <2>2 DEF SetToSeqs
<1>5. DOMAIN s = 1..n
  OBVIOUS
<1>. HIDE DEF s
<1>6. ASSUME NEW i \in 1..n, NEW j \in 1..n, i < j PROVE <<s[i], s[j]>> \in R
  <2>1. s[i] # s[j] /\ ~(j < i)
    BY <1>1, <1>3, <1>6
  <2>2. <<s[j], s[i]>> \notin R
    BY <1>2, <1>3, <2>1
  <2>. QED
    BY <1>3, <2>1, <2>2 DEF Orderly
<1>. QED
  BY <1>4, <1>5, <1>6

\* The smaller of two numbers.
LEMMA Smaller ==
    ASSUME NEW a \in Nat, NEW b \in Nat
    PROVE  Min({a, b}) = IF a <= b THEN a ELSE b
<1>. DEFINE m == IF a <= b THEN a ELSE b
<1>1. m \in {a, b} /\ \A y \in {a, b} : m <= y
  OBVIOUS
<1>2. \A k \in {a, b} : (\A y \in {a, b} : k <= y) => k = m
  OBVIOUS
<1>. HIDE DEF m
<1>3. Min({a, b}) = m
  BY <1>1, <1>2 DEF Min
<1>. QED
  BY <1>3 DEF m

\* The first n members of a list.
LEMMA FirstPart ==
    ASSUME NEW S, NEW s \in Seq(S), NEW n \in Nat
    PROVE  LET p == SubSeq(s, 1, Min({n, Len(s)})) IN
           /\ p \in Seq(S) /\ Len(p) = IF n <= Len(s) THEN n ELSE Len(s)
           /\ DOMAIN p = 1..Len(p) /\ \A i \in 1..Len(p) : p[i] = s[i] /\ i \in DOMAIN s
<1>1. Len(s) \in Nat /\ DOMAIN s = 1..Len(s)
  OBVIOUS
<1>. DEFINE m == IF n <= Len(s) THEN n ELSE Len(s)
<1>2. Min({n, Len(s)}) = m /\ m \in 0..Len(s)
  BY <1>1, Smaller
<1>3. /\ SubSeq(s, 1, m) \in Seq(S) /\ Len(SubSeq(s, 1, m)) = m
      /\ \A i \in 1..m : SubSeq(s, 1, m)[i] = s[i]
  BY <1>1, <1>2
<1>. HIDE DEF m
<1>4. DOMAIN SubSeq(s, 1, m) = 1..m
  BY <1>1, <1>2, <1>3
<1>5. \A i \in 1..m : i \in DOMAIN s
  BY <1>1, <1>2
<1>. QED
  BY <1>2, <1>3, <1>4, <1>5 DEF m

\* The members of a list from place k + 1 to place m.
LEMMA Part ==
    ASSUME NEW S, NEW s \in Seq(S), NEW k \in Nat, NEW m \in Nat, m <= Len(s)
    PROVE  LET p == SubSeq(s, k + 1, m) IN
           /\ p \in Seq(S) /\ Len(p) = IF k < m THEN m - k ELSE 0
           /\ DOMAIN p = 1..Len(p) /\ \A i \in 1..Len(p) : p[i] = s[k + i]
<1>1. Len(s) \in Nat /\ DOMAIN s = 1..Len(s)
  OBVIOUS
<1>2. CASE k < m
  BY <1>1, <1>2
<1>3. CASE ~(k < m)
  BY <1>1, <1>3
<1>. QED
  BY <1>2, <1>3

\* A page behind the others.
LEMMA Joined ==
    ASSUME NEW S, NEW s \in Seq(S), NEW p \in Seq(S)
    PROVE  /\ s \o p \in Seq(S) /\ Len(s \o p) = Len(s) + Len(p)
           /\ DOMAIN (s \o p) = 1..(Len(s) + Len(p))
           /\ \A i \in 1..Len(s) : (s \o p)[i] = s[i]
           /\ \A i \in 1..Len(p) : (s \o p)[Len(s) + i] = p[i]
           /\ ToSet(s \o p) = ToSet(s) \cup ToSet(p)
<1>1. /\ Len(s) \in Nat /\ Len(p) \in Nat /\ DOMAIN s = 1..Len(s) /\ DOMAIN p = 1..Len(p)
      /\ s \o p \in Seq(S) /\ Len(s \o p) = Len(s) + Len(p)
      /\ DOMAIN (s \o p) = 1..(Len(s) + Len(p))
  OBVIOUS
<1>2. /\ \A i \in 1..Len(s) : (s \o p)[i] = s[i]
      /\ \A i \in 1..Len(p) : (s \o p)[Len(s) + i] = p[i]
  OBVIOUS
<1>3. ASSUME NEW i \in 1..(Len(s) + Len(p))
      PROVE  i \in 1..Len(s) \/ \E j \in 1..Len(p) : i = Len(s) + j
  <2>1. i \in 1..Len(s) \/ i - Len(s) \in 1..Len(p)
    BY <1>1, <1>3
  <2>2. i = Len(s) + (i - Len(s))
    BY <1>1, <1>3
  <2>. QED
    BY <2>1, <2>2
<1>4. ToSet(s \o p) \subseteq ToSet(s) \cup ToSet(p)
  BY <1>1, <1>2, <1>3 DEF ToSet
<1>5. ToSet(s) \subseteq ToSet(s \o p)
  BY <1>1, <1>2 DEF ToSet
<1>6. ToSet(p) \subseteq ToSet(s \o p)
  <2>1. \A j \in 1..Len(p) : Len(s) + j \in 1..(Len(s) + Len(p))
    BY <1>1
  <2>. QED
    BY <1>1, <1>2, <2>1 DEF ToSet
<1>. QED
  BY <1>1, <1>2, <1>4, <1>5, <1>6

-----------------------------------------------------------------------------
(* Remainders *)

\* Quotient and remainder.
LEMMA Division ==
    ASSUME NEW t \in Nat, NEW L \in Nat \ {0}
    PROVE  /\ t \div L \in Nat /\ t % L \in 0..(L - 1)
           /\ L * (t \div L) \in Nat /\ t = L * (t \div L) + (t % L)
OBVIOUS

\* Of two multiples of a number, the larger has at least one more of it.
LEMMA Multiples ==
    ASSUME NEW a \in Nat, NEW b \in Nat, NEW L \in Nat \ {0}, a < b
    PROVE  L * a + L <= L * b
<1>1. PICK d \in Nat : b = a + 1 + d
  <2>1. b - a - 1 \in Nat /\ b = a + 1 + (b - a - 1)
    OBVIOUS
  <2>. QED
    BY <2>1
<1>2. L * b = L * a + L + L * d
  BY <1>1
<1>3. L * d \in Nat /\ L * a \in Nat
  OBVIOUS
<1>. QED
  BY <1>2, <1>3

\* Numbers less than one multiple apart have the same quotient.
LEMMA OneQuotient ==
    ASSUME NEW L \in Nat \ {0}, NEW a \in Nat, NEW b \in Nat, NEW c \in Nat, NEW d \in Nat,
           c < L, d < L, L * a <= L * b + d, L * b <= L * a + c
    PROVE  a = b
<1>1. L * a \in Nat /\ L * b \in Nat
  OBVIOUS
<1>2. CASE a < b
  BY <1>1, <1>2, Multiples
<1>3. CASE b < a
  BY <1>1, <1>3, Multiples
<1>. QED
  BY <1>2, <1>3

\* Full pages end at multiples of their size.
LEMMA NextMultiple ==
    ASSUME NEW n \in Nat, NEW L \in Nat \ {0}, n % L = 0
    PROVE  (n + L) % L = 0
<1>. DEFINE a == n \div L
            b == (n + L) \div L
            d == (n + L) % L
<1>1. a \in Nat /\ n = L * a
  BY Division
<1>2. n + L \in Nat
  OBVIOUS
<1>3. b \in Nat /\ d \in 0..(L - 1) /\ n + L = L * b + d
  BY <1>2, Division
<1>. HIDE DEF a, b, d
<1>4. n + L = L * (a + 1) /\ a + 1 \in Nat
  BY <1>1
<1>5. L * b \in Nat /\ L * (a + 1) \in Nat /\ d \in Nat /\ d < L /\ 0 < L
  BY <1>1, <1>3
<1>6. L * (a + 1) <= L * b + d /\ L * b <= L * (a + 1) + d
  BY <1>3, <1>4, <1>5
<1>7. a + 1 = b
  BY <1>3, <1>4, <1>5, <1>6, OneQuotient
<1>8. d = 0
  BY <1>3, <1>4, <1>5, <1>7
<1>. QED
  BY <1>8 DEF d

\* What lies between an instant and the start of its second is of that second.
LEMMA OneSecond ==
    ASSUME NEW t \in Nat, NEW u \in Nat, WholeSecond(t) <= u, u <= t
    PROVE  WholeSecond(u) = WholeSecond(t)
<1>. DEFINE L == PerSecond
            a == t \div L
            b == u \div L
            c == t % L
            d == u % L
<1>1. L \in Nat \ {0}
  BY PagesAssumption
<1>2. a \in Nat /\ c \in 0..(L - 1) /\ L * a \in Nat /\ t = L * a + c
  BY <1>1, Division
<1>3. b \in Nat /\ d \in 0..(L - 1) /\ L * b \in Nat /\ u = L * b + d
  BY <1>1, Division
<1>4. WholeSecond(t) = t - c /\ WholeSecond(u) = u - d
  BY DEF WholeSecond
<1>. HIDE DEF L, a, b, c, d
<1>5. WholeSecond(t) = L * a /\ WholeSecond(u) = L * b
  BY <1>1, <1>2, <1>3, <1>4
<1>6. c \in Nat /\ d \in Nat /\ c < L /\ d < L
  BY <1>1, <1>2, <1>3
<1>7. L * a <= L * b + d /\ L * b <= L * a + c
  BY <1>1, <1>2, <1>3, <1>5, <1>6
<1>8. a = b
  BY <1>1, <1>2, <1>3, <1>6, <1>7, OneQuotient
<1>. QED
  BY <1>5, <1>8

\* A second starts no later than an instant of it.
LEMMA SecondStarts ==
    ASSUME NEW t \in Nat
    PROVE  WholeSecond(t) \in Nat /\ WholeSecond(t) <= t
<1>. DEFINE L == PerSecond
            a == t \div L
            c == t % L
<1>1. L \in Nat \ {0}
  BY PagesAssumption
<1>2. a \in Nat /\ c \in 0..(L - 1) /\ L * a \in Nat /\ t = L * a + c
  BY <1>1, Division
<1>3. WholeSecond(t) = t - c
  BY DEF WholeSecond
<1>. HIDE DEF L, a, c
<1>. QED
  BY <1>1, <1>2, <1>3

-----------------------------------------------------------------------------
(* Feeds: the invariant *)

\* What the condition on the cursor lets into the next page.
Behind(x) ==
    \/ cursor = NoCursor
    \/ feed = "users" /\ (at[x] > cursor.key \/ (at[x] = cursor.key /\ x > cursor.id))
    \/ /\ feed \in ByCursor \ {"users"}
       /\ at[x] < cursor.key \/ (at[x] = cursor.key /\ x < cursor.id)
    \/ feed = "notifications" /\ at[x] < cursor.key

\* The order of the list that is read.
Precedes(x, y) == IF feed = "users" THEN ByName(x, y) ELSE NewestFirst(x, y)

\* A list that was read so far has no row that is still to come, and every row
\* that was there is still to come, was received, or may be passed over.
KeyedInv ==
    feed \notin ByOffset =>
       /\ IsInjective(pages)
       /\ phase = "page" =>
             /\ Len(pages) % limit = 0
             /\ \A y \in ToSet(pages) : ~Behind(y)
             /\ \A x \in before \cap Listed : Behind(x) \/ x \in ToSet(pages) \/ PassedOver(x)

\* Rows of one instant come in any order; a row of its own instant has a place
\* in all of them.
Tied(x) == \E y \in Listed \ {x} : at[x] = at[y]
Place(x) == Cardinality({y \in Listed : at[y] >= at[x]})
OffsetInv ==
    feed \in ByOffset /\ phase = "page" =>
       \A x \in before :
          x \in ToSet(pages) \/ Tied(x) \/ (feed = "picker" /\ dropped # {}) \/ Place(x) > Skip

\* Rows do not disappear but from the assessments.
BeforeInv ==
    /\ \A x \in before : listing[x] # "absent"
    /\ feed # "assessments" => \A x \in Rows : listing[x] # "closed"

FInv == FeedTypeOK /\ KeyedInv /\ OffsetInv /\ BeforeInv /\ ScansComplete

\* What the types say of the rows, the pages and the cursor.
LEMMA FeedTypes ==
    ASSUME FeedTypeOK
    PROVE  /\ limit \in Nat \ {0} /\ \A x \in Rows : at[x] \in Nat /\ x \in Nat
           /\ Listed \in SUBSET Rows /\ IsFiniteSet(Listed)
           /\ pages \in Seq(Rows) /\ Len(pages) \in Nat /\ DOMAIN pages = 1..Len(pages)
           /\ cursor # NoCursor /\ feed \notin ByOffset => cursor.key \in Nat
           /\ cursor # NoCursor /\ feed \in ByCursor => cursor.id \in Nat
           /\ feed \in ByOffset => Skip \in Nat
<1>1. limit \in Nat \ {0}
  BY PagesAssumption DEF FeedTypeOK
<1>2. \A x \in Rows : at[x] \in Nat /\ x \in Nat
  BY RowsAssumption DEF FeedTypeOK
<1>3. Listed \in SUBSET Rows /\ IsFiniteSet(Listed)
  BY RowsAssumption, FS_Subset DEF Listed
<1>4. pages \in Seq(Rows)
  BY DEF FeedTypeOK
<1>5. Len(pages) \in Nat /\ DOMAIN pages = 1..Len(pages)
  BY <1>4
<1>6. /\ cursor # NoCursor /\ feed \notin ByOffset => cursor.key \in Nat
      /\ cursor # NoCursor /\ feed \in ByCursor => cursor.id \in Nat
      /\ feed \in ByOffset => Skip \in Nat
  <2>1. cursor \in Cursors(feed) \cup {NoCursor} /\ feed \in Feeds
    BY DEF FeedTypeOK
  <2>. QED
    BY <2>1 DEF Cursors, Feeds, ByCursor, ByOffset, Skip
<1>. QED
  BY <1>1, <1>2, <1>3, <1>4, <1>5, <1>6

\* Any list of rows has its order.
LEMMA RowsOrdered ==
    ASSUME FeedTypeOK, NEW S \in SUBSET Rows
    PROVE  /\ IsFiniteSet(S)
           /\ \E s \in SetToSeqs(S) : \A i, j \in DOMAIN s : i < j => Precedes(s[i], s[j])
<1>. DEFINE R == {p \in S \X S : Precedes(p[1], p[2])}
<1>1. IsFiniteSet(S)
  BY RowsAssumption, FS_Subset
<1>2. \A x, y \in S : <<x, y>> \in R <=> Precedes(x, y)
  OBVIOUS
<1>. HIDE DEF R
<1>3. Orderly(S, R)
  <2>1. \A x \in S : at[x] \in Nat /\ x \in Nat
    BY FeedTypes
  <2>2. \A x \in S : ~Precedes(x, x)
    BY <2>1 DEF Precedes, ByName, NewestFirst
  <2>3. \A x, y \in S : x # y => Precedes(x, y) \/ Precedes(y, x)
    BY <2>1 DEF Precedes, ByName, NewestFirst
  <2>4. \A x, y, z \in S : Precedes(x, y) /\ Precedes(y, z) => Precedes(x, z)
    BY <2>1 DEF Precedes, ByName, NewestFirst
  <2>. QED
    BY <1>2, <2>2, <2>3, <2>4 DEF Orderly
<1>4. PICK s \in SetToSeqs(S) : \A i, j \in DOMAIN s : i < j => <<s[i], s[j]>> \in R
  BY <1>1, <1>3, ListExists
<1>5. \A i \in DOMAIN s : s[i] \in S
  BY <1>1, Listing
<1>. QED
  BY <1>1, <1>2, <1>4, <1>5

-----------------------------------------------------------------------------
(* Feeds: a page *)

\* What a page of a list read by cursor or instant is: the first rows of what
\* is still to come; a page that is not the last is full, and the cursor is of
\* its last row.
KeyedPage(sorted, page, more) ==
    /\ sorted \in SetToSeqs({x \in Listed : Behind(x)})
    /\ \A i, j \in DOMAIN sorted : i < j => Precedes(sorted[i], sorted[j])
    /\ page = SubSeq(sorted, 1, Min({limit, Len(sorted)}))
    /\ more \in BOOLEAN
    /\ IF more THEN limit <= Len(sorted) ELSE Len(sorted) <= limit
    /\ pages' = pages \o page
    /\ phase' = IF more THEN "page" ELSE "done"
    /\ cursor' = IF ~more THEN cursor
                 ELSE IF feed = "notifications" THEN [key |-> at[Last(page)]]
                 ELSE IF feed = "assessments"
                      THEN [key |-> WholeSecond(at[Last(page)]), id |-> Last(page)]
                 ELSE [key |-> at[Last(page)], id |-> Last(page)]
    /\ phase = "page" /\ UNCHANGED <<table, before, dropped>>

\* The last row of a page is a row.
LEMMA LastOfPage ==
    ASSUME FeedTypeOK, NEW S \in SUBSET Rows, NEW s \in SetToSeqs(S),
           NEW n \in Nat \ {0}, n <= Len(s)
    PROVE  LET p == SubSeq(s, 1, Min({n, Len(s)})) IN
           Len(p) = n /\ Last(p) = s[n] /\ Last(p) \in S /\ n \in DOMAIN s
<1>. DEFINE p == SubSeq(s, 1, Min({n, Len(s)}))
<1>1. IsFiniteSet(S)
  BY RowsOrdered
<1>2. s \in Seq(S) /\ Len(s) \in Nat /\ DOMAIN s = 1..Len(s) /\ s \in [1..Len(s) -> S]
  BY <1>1, Listing
<1>3. Len(p) = n /\ \A i \in 1..Len(p) : p[i] = s[i] /\ i \in DOMAIN s
  BY <1>2, FirstPart
<1>. HIDE DEF p
<1>4. n \in 1..n
  OBVIOUS
<1>5. Last(p) = s[n] /\ n \in DOMAIN s
  BY <1>3, <1>4 DEF Last
<1>. QED
  BY <1>2, <1>3, <1>5 DEF p

\* The handlers of the lists read by cursor or instant all read such a page.
LEMMA ReadByKey ==
    ASSUME FeedTypeOK,
           \/ ListUsers \/ ListAuditLogs \/ ListAttemptHistory \/ ListAssessments
           \/ ListNotifications
    PROVE  feed \in Feeds \ ByOffset /\ \E sorted, page, more : KeyedPage(sorted, page, more)
<1>. DEFINE S == {x \in Listed : Behind(x)}
<1>1. S \in SUBSET Rows /\ limit \in Nat \ {0}
  BY FeedTypes
<1>2. PICK s \in SetToSeqs(S) : \A i, j \in DOMAIN s : i < j => Precedes(s[i], s[j])
  BY <1>1, RowsOrdered
<1>. DEFINE NextCursor(z) ==
              IF feed = "notifications" THEN [key |-> at[z]]
              ELSE IF feed = "assessments" THEN [key |-> WholeSecond(at[z]), id |-> z]
              ELSE [key |-> at[z], id |-> z]
            FirstRows(sorted) == SubSeq(sorted, 1, Min({limit, Len(sorted)}))
<1>3. ASSUME NEW sorted \in SetToSeqs(S)
      PROVE  /\ Len(sorted) \in Nat
             /\ Len(FirstRows(sorted)) = IF limit <= Len(sorted) THEN limit ELSE Len(sorted)
             /\ limit <= Len(sorted) => Last(FirstRows(sorted)) \in Rows
  <2>1. IsFiniteSet(S)
    BY <1>1, RowsOrdered
  <2>2. sorted \in Seq(S) /\ Len(sorted) \in Nat
    BY <2>1, Listing
  <2>. HIDE DEF S
  <2>3. Len(FirstRows(sorted)) = IF limit <= Len(sorted) THEN limit ELSE Len(sorted)
    BY <1>1, <2>2, FirstPart
  <2>4. limit <= Len(sorted) => Last(FirstRows(sorted)) \in S
    BY <1>1, LastOfPage
  <2>. QED
    BY <1>1, <2>2, <2>3, <2>4
<1>4. ASSUME NEW sorted \in SetToSeqs(S),
             \A i, j \in DOMAIN sorted : i < j => Precedes(sorted[i], sorted[j]),
             NEW cursorOf, \A z \in Rows : cursorOf[z] = NextCursor(z),
             CursorPage(sorted, cursorOf)
      PROVE  \E more : KeyedPage(sorted, FirstRows(sorted), more)
  <2>. DEFINE more == Len(sorted) > limit
  <2>1. /\ pages' = pages \o FirstRows(sorted)
        /\ cursor' = IF more THEN cursorOf[Last(FirstRows(sorted))] ELSE cursor
        /\ phase' = IF more THEN "page" ELSE "done"
        /\ phase = "page" /\ UNCHANGED <<table, before, dropped>>
    BY <1>4 DEF CursorPage, Receive
  <2>2. /\ Len(sorted) \in Nat /\ (more => Last(FirstRows(sorted)) \in Rows)
        /\ IF more THEN limit <= Len(sorted) ELSE Len(sorted) <= limit
    BY <1>1, <1>3
  <2>3. cursor' = IF more THEN NextCursor(Last(FirstRows(sorted))) ELSE cursor
    BY <1>4, <2>1, <2>2
  <2>4. more \in BOOLEAN
    OBVIOUS
  <2>. HIDE DEF more
  <2>5. KeyedPage(sorted, FirstRows(sorted), more)
    BY <1>4, <2>1, <2>2, <2>3, <2>4 DEF KeyedPage
  <2>. QED
    BY <2>5
<1>5. CASE ListUsers
  <2>1. feed = "users" /\ CursorPage(Sorted(Users, ByName), UserCursor)
    BY <1>5 DEF ListUsers
  <2>2. Users = S
    BY <2>1 DEF Users, Behind
  <2>3. /\ Sorted(S, ByName) \in SetToSeqs(S)
        /\ \A i, j \in DOMAIN Sorted(S, ByName) :
              i < j => Precedes(Sorted(S, ByName)[i], Sorted(S, ByName)[j])
    BY <1>2, <2>1 DEF Sorted, Precedes
  <2>4. \A z \in Rows : UserCursor[z] = NextCursor(z)
    BY <2>1 DEF UserCursor
  <2>. QED
    BY <1>4, <2>1, <2>2, <2>3, <2>4 DEF Feeds, ByCursor, ByOffset
<1>6. CASE ListAuditLogs
  <2>1. feed = "audit log" /\ CursorPage(Sorted(AuditLogs, NewestFirst), AuditCursor)
    BY <1>6 DEF ListAuditLogs
  <2>2. AuditLogs = S
    BY <2>1 DEF AuditLogs, Older, Behind, ByCursor
  <2>3. /\ Sorted(S, NewestFirst) \in SetToSeqs(S)
        /\ \A i, j \in DOMAIN Sorted(S, NewestFirst) :
              i < j => Precedes(Sorted(S, NewestFirst)[i], Sorted(S, NewestFirst)[j])
    BY <1>2, <2>1 DEF Sorted, Precedes
  <2>4. \A z \in Rows : AuditCursor[z] = NextCursor(z)
    BY <2>1 DEF AuditCursor
  <2>. QED
    BY <1>4, <2>1, <2>2, <2>3, <2>4 DEF Feeds, ByCursor, ByOffset
<1>7. CASE ListAttemptHistory
  <2>1. feed = "attempts" /\ CursorPage(Sorted(StudentAttempts, NewestFirst), AttemptCursor)
    BY <1>7 DEF ListAttemptHistory
  <2>2. StudentAttempts = S
    BY <2>1 DEF StudentAttempts, Older, Behind, ByCursor
  <2>3. /\ Sorted(S, NewestFirst) \in SetToSeqs(S)
        /\ \A i, j \in DOMAIN Sorted(S, NewestFirst) :
              i < j => Precedes(Sorted(S, NewestFirst)[i], Sorted(S, NewestFirst)[j])
    BY <1>2, <2>1 DEF Sorted, Precedes
  <2>4. \A z \in Rows : AttemptCursor[z] = NextCursor(z)
    BY <2>1 DEF AttemptCursor
  <2>. QED
    BY <1>4, <2>1, <2>2, <2>3, <2>4 DEF Feeds, ByCursor, ByOffset
<1>8. CASE ListAssessments
  <2>1. /\ feed = "assessments"
        /\ CursorPage(Sorted(PublishedAssessments, NewestFirst), AssessmentCursor)
    BY <1>8 DEF ListAssessments
  <2>2. PublishedAssessments = S
    BY <2>1 DEF PublishedAssessments, Older, Behind, ByCursor
  <2>3. /\ Sorted(S, NewestFirst) \in SetToSeqs(S)
        /\ \A i, j \in DOMAIN Sorted(S, NewestFirst) :
              i < j => Precedes(Sorted(S, NewestFirst)[i], Sorted(S, NewestFirst)[j])
    BY <1>2, <2>1 DEF Sorted, Precedes
  <2>4. \A z \in Rows : AssessmentCursor[z] = NextCursor(z)
    BY <2>1 DEF AssessmentCursor
  <2>. QED
    BY <1>4, <2>1, <2>2, <2>3, <2>4 DEF Feeds, ByCursor, ByOffset
<1>9. CASE ListNotifications
  <2>. DEFINE sorted == Sorted(Notifications, NewestFirst)
              more == Len(FirstRows(sorted)) = limit
  <2>1. /\ feed = "notifications" /\ phase = "page" /\ UNCHANGED <<table, before, dropped>>
        /\ pages' = pages \o FirstRows(sorted)
        /\ cursor' = IF more THEN NotificationCursor[Last(FirstRows(sorted))] ELSE cursor
        /\ phase' = IF more THEN "page" ELSE "done"
    BY <1>9 DEF ListNotifications, Receive
  <2>2. Notifications = S
    BY <2>1 DEF Notifications, Behind, ByCursor
  <2>3. /\ sorted \in SetToSeqs(S)
        /\ \A i, j \in DOMAIN sorted : i < j => Precedes(sorted[i], sorted[j])
    BY <1>2, <2>1, <2>2 DEF Sorted, Precedes
  <2>. HIDE DEF sorted
  <2>4. IF more THEN limit <= Len(sorted) ELSE Len(sorted) <= limit
    <3>1. /\ Len(sorted) \in Nat /\ limit \in Nat
          /\ Len(FirstRows(sorted)) = IF limit <= Len(sorted) THEN limit ELSE Len(sorted)
      BY <1>1, <1>3, <2>3
    <3>. HIDE DEF FirstRows
    <3>. QED
      BY <3>1
  <2>5. more => NotificationCursor[Last(FirstRows(sorted))] = NextCursor(Last(FirstRows(sorted)))
    BY <1>3, <2>1, <2>3, <2>4 DEF NotificationCursor
  <2>6. more \in BOOLEAN
    OBVIOUS
  <2>. HIDE DEF more
  <2>7. KeyedPage(sorted, FirstRows(sorted), more)
    BY <2>1, <2>3, <2>4, <2>5, <2>6 DEF KeyedPage
  <2>. QED
    BY <2>1, <2>7 DEF Feeds, ByCursor, ByOffset
<1>. QED
  BY <1>5, <1>6, <1>7, <1>8, <1>9

\* The cursor of the last row of a page.
LEMMA CursorMoves ==
    ASSUME FeedTypeOK, feed \in Feeds \ ByOffset, UNCHANGED table,
           NEW z \in Rows, Behind(z),
           cursor' = IF feed = "notifications" THEN [key |-> at[z]]
                     ELSE IF feed = "assessments"
                          THEN [key |-> WholeSecond(at[z]), id |-> z]
                     ELSE [key |-> at[z], id |-> z]
    PROVE  /\ cursor' \in Cursors(feed)
           /\ \A y \in Rows : Behind(y)' => Behind(y)
           /\ \A y \in Rows : y = z \/ Precedes(y, z) => ~Behind(y)'
           /\ \A x \in Rows : Precedes(z, x) =>
                 \/ Behind(x)'
                 \/ feed = "assessments" /\ WholeSecond(at[x]) = WholeSecond(at[z])
                 \/ feed = "notifications" /\ at[x] = at[z]
<1>1. /\ \A x \in Rows : at[x] \in Nat /\ x \in Nat
      /\ cursor # NoCursor /\ feed \notin ByOffset => cursor.key \in Nat
      /\ cursor # NoCursor /\ feed \in ByCursor => cursor.id \in Nat
  BY FeedTypes
<1>2. WholeSecond(at[z]) \in Nat /\ WholeSecond(at[z]) <= at[z]
  BY <1>1, SecondStarts
<1>3. cursor' \in Cursors(feed) /\ cursor' # NoCursor /\ feed' = feed /\ at' = at
  <2>1. cursor' \in Cursors(feed)
    BY <1>1, <1>2 DEF Cursors, ByOffset, Feeds
  <2>. QED
    BY <2>1, CursorAssumption DEF table
<1>4. ASSUME NEW x \in Rows, WholeSecond(at[z]) <= at[x], at[x] <= at[z]
      PROVE  WholeSecond(at[x]) = WholeSecond(at[z])
  BY <1>1, <1>4, OneSecond
<1>5. CASE feed = "users"
  <2>1. ASSUME NEW y \in Rows
        PROVE  Behind(y)' <=> at[y] > at[z] \/ (at[y] = at[z] /\ y > z)
    BY <1>3, <1>5 DEF Behind
  <2>2. ASSUME NEW y \in Rows
        PROVE  Behind(y) <=> \/ cursor = NoCursor
                             \/ at[y] > cursor.key \/ (at[y] = cursor.key /\ y > cursor.id)
    BY <1>5 DEF Behind
  <2>3. cursor # NoCursor => cursor.key \in Nat /\ cursor.id \in Nat
    BY <1>1, <1>5 DEF ByCursor, ByOffset
  <2>4. \A x, y \in Rows : Precedes(x, y) <=> ByName(x, y)
    BY <1>5 DEF Precedes
  <2>. QED
    BY <1>1, <1>3, <2>1, <2>2, <2>3, <2>4 DEF ByName
<1>6. CASE feed = "notifications"
  <2>1. ASSUME NEW y \in Rows
        PROVE  Behind(y)' <=> at[y] < at[z]
    BY <1>3, <1>6 DEF Behind, ByCursor
  <2>2. ASSUME NEW y \in Rows
        PROVE  Behind(y) <=> cursor = NoCursor \/ at[y] < cursor.key
    BY <1>6 DEF Behind, ByCursor
  <2>3. cursor # NoCursor => cursor.key \in Nat
    BY <1>1, <1>6 DEF ByOffset
  <2>4. \A x, y \in Rows : Precedes(x, y) <=> NewestFirst(x, y)
    BY <1>6 DEF Precedes
  <2>. QED
    BY <1>1, <1>3, <1>6, <2>1, <2>2, <2>3, <2>4 DEF NewestFirst
<1>7. CASE feed \in ByCursor \ {"users"}
  <2>. DEFINE k == IF feed = "assessments" THEN WholeSecond(at[z]) ELSE at[z]
  <2>1. cursor' = [key |-> k, id |-> z]
    BY <1>7 DEF ByCursor
  <2>2. k \in Nat /\ k <= at[z] /\ (feed = "assessments" \/ k = at[z])
    BY <1>1, <1>2
  <2>3. \A x \in Rows : k <= at[x] /\ at[x] <= at[z] /\ feed = "assessments"
           => WholeSecond(at[x]) = WholeSecond(at[z])
    BY <1>4
  <2>. HIDE DEF k
  <2>4. ASSUME NEW y \in Rows
        PROVE  Behind(y)' <=> at[y] < k \/ (at[y] = k /\ y < z)
    <3>1. cursor'.key = k /\ cursor'.id = z
      BY <2>1
    <3>2. feed' # "users" /\ feed' # "notifications" /\ feed' \in ByCursor \ {"users"}
      BY <1>3, <1>7 DEF ByCursor
    <3>. QED
      BY <1>3, <3>1, <3>2 DEF Behind
  <2>5. ASSUME NEW y \in Rows
        PROVE  Behind(y) <=> \/ cursor = NoCursor
                             \/ at[y] < cursor.key \/ (at[y] = cursor.key /\ y < cursor.id)
    BY <1>7 DEF Behind, ByCursor
  <2>6. cursor # NoCursor => cursor.key \in Nat /\ cursor.id \in Nat
    BY <1>1, <1>7 DEF ByCursor, ByOffset
  <2>7. \A x, y \in Rows : Precedes(x, y) <=> NewestFirst(x, y)
    BY <1>7 DEF Precedes
  <2>. QED
    BY <1>1, <1>3, <2>2, <2>3, <2>4, <2>5, <2>6, <2>7 DEF NewestFirst
<1>. QED
  BY <1>5, <1>6, <1>7 DEF Feeds, ByCursor

\* A page of a list read by cursor or instant keeps the invariant.
LEMMA KeyedStep ==
    ASSUME FInv, feed \in Feeds \ ByOffset,
           NEW sorted, NEW page, NEW more, KeyedPage(sorted, page, more)
    PROVE  FInv'
<1>. DEFINE S == {x \in Listed : Behind(x)}
<1>0. FeedTypeOK /\ KeyedInv /\ BeforeInv
  BY DEF FInv
<1>1. /\ S \in SUBSET Rows /\ IsFiniteSet(S) /\ limit \in Nat \ {0}
      /\ pages \in Seq(Rows) /\ Len(pages) \in Nat /\ DOMAIN pages = 1..Len(pages)
  BY <1>0, FeedTypes, RowsOrdered
<1>2. /\ sorted \in SetToSeqs(S)
      /\ \A i, j \in DOMAIN sorted : i < j => Precedes(sorted[i], sorted[j])
      /\ page = SubSeq(sorted, 1, Min({limit, Len(sorted)})) /\ more \in BOOLEAN
      /\ IF more THEN limit <= Len(sorted) ELSE Len(sorted) <= limit
      /\ pages' = pages \o page /\ phase' = IF more THEN "page" ELSE "done"
      /\ phase = "page" /\ UNCHANGED <<table, before, dropped>>
  BY DEF KeyedPage
<1>. HIDE DEF S
<1>3. /\ sorted \in Seq(S) /\ Len(sorted) \in Nat /\ DOMAIN sorted = 1..Len(sorted)
      /\ \A i \in 1..Len(sorted) : sorted[i] \in S
      /\ \A i, j \in 1..Len(sorted) : sorted[i] = sorted[j] => i = j
      /\ \A x \in S : \E i \in 1..Len(sorted) : sorted[i] = x
  BY <1>1, <1>2, Listing
<1>4. /\ page \in Seq(S) /\ Len(page) = IF limit <= Len(sorted) THEN limit ELSE Len(sorted)
      /\ Len(page) \in Nat /\ DOMAIN page = 1..Len(page)
      /\ \A i \in 1..Len(page) : page[i] = sorted[i] /\ i \in 1..Len(sorted)
  BY <1>1, <1>2, <1>3, FirstPart
<1>5. page \in Seq(Rows)
  BY <1>1, <1>4
<1>6. /\ pages' \in Seq(Rows) /\ DOMAIN pages' = 1..(Len(pages) + Len(page))
      /\ Len(pages') = Len(pages) + Len(page)
      /\ \A i \in 1..Len(pages) : pages'[i] = pages[i]
      /\ \A i \in 1..Len(page) : pages'[Len(pages) + i] = page[i]
      /\ ToSet(pages') = ToSet(pages) \cup ToSet(page)
  <2>1. /\ pages \o page \in Seq(Rows)
        /\ DOMAIN (pages \o page) = 1..(Len(pages) + Len(page))
        /\ Len(pages \o page) = Len(pages) + Len(page)
        /\ \A i \in 1..Len(pages) : (pages \o page)[i] = pages[i]
        /\ \A i \in 1..Len(page) : (pages \o page)[Len(pages) + i] = page[i]
        /\ ToSet(pages \o page) = ToSet(pages) \cup ToSet(page)
    BY <1>1, <1>5, Joined
  <2>. QED
    BY <1>2, <2>1
<1>7. /\ IsInjective(pages) /\ Len(pages) % limit = 0
      /\ \A y \in ToSet(pages) : ~Behind(y)
      /\ \A x \in before \cap Listed : Behind(x) \/ x \in ToSet(pages) \/ PassedOver(x)
  BY <1>0, <1>2 DEF KeyedInv
<1>8. /\ \A y \in S : Behind(y) /\ y \in Listed
      /\ \A y \in Listed : Behind(y) => y \in S
      /\ ToSet(page) = {page[i] : i \in 1..Len(page)} /\ ToSet(page) \subseteq S
  <2>1. ToSet(page) = {page[i] : i \in 1..Len(page)}
    BY <1>4 DEF ToSet
  <2>. QED
    BY <1>3, <1>4, <2>1 DEF S
<1>9. IsInjective(pages')
  <2>1. ASSUME NEW i \in DOMAIN pages'
        PROVE  i \in 1..Len(pages) \/ \E a \in 1..Len(page) : i = Len(pages) + a
    <3>1. i \in 1..Len(pages) \/ i - Len(pages) \in 1..Len(page)
      BY <1>1, <1>4, <1>6
    <3>2. i = Len(pages) + (i - Len(pages))
      BY <1>1, <1>6
    <3>. QED
      BY <3>1, <3>2
  <2>2. \A i, j \in 1..Len(pages) : pages'[i] = pages'[j] => i = j
    BY <1>1, <1>6, <1>7 DEF IsInjective
  <2>3. \A a, b \in 1..Len(page) :
           pages'[Len(pages) + a] = pages'[Len(pages) + b] => a = b
    <3>. SUFFICES ASSUME NEW a \in 1..Len(page), NEW b \in 1..Len(page),
                         pages'[Len(pages) + a] = pages'[Len(pages) + b]
                  PROVE  a = b
      OBVIOUS
    <3>1. sorted[a] = sorted[b]
      BY <1>4, <1>6
    <3>2. a \in 1..Len(sorted) /\ b \in 1..Len(sorted)
      BY <1>4
    <3>. QED
      BY <1>3, <3>1, <3>2
  <2>4. \A i \in 1..Len(pages), a \in 1..Len(page) : pages'[i] # pages'[Len(pages) + a]
    <3>1. \A i \in 1..Len(pages) : pages'[i] \in ToSet(pages)
      BY <1>1, <1>6 DEF ToSet
    <3>2. \A a \in 1..Len(page) : pages'[Len(pages) + a] \in S
      BY <1>6, <1>8
    <3>. QED
      BY <1>7, <1>8, <3>1, <3>2
  <2>5. ASSUME NEW i \in DOMAIN pages', NEW j \in DOMAIN pages', pages'[i] = pages'[j]
        PROVE  i = j
    BY <2>1, <2>2, <2>3, <2>4, <2>5
  <2>. QED
    BY <2>5 DEF IsInjective
<1>10. /\ feed' = feed /\ limit' = limit /\ at' = at /\ listing' = listing
       /\ published' = published /\ before' = before /\ dropped' = dropped
       /\ Listed' = Listed
  BY <1>2 DEF table, Listed
<1>11. PageEnds \subseteq PageEnds'
  <2>1. \A i \in 1..Len(pages) : i \in DOMAIN pages'
    BY <1>1, <1>4, <1>6
  <2>. QED
    BY <1>1, <1>6, <1>10, <2>1 DEF PageEnds
<1>12. ASSUME NEW x, PassedOver(x) PROVE PassedOver(x)'
  BY <1>10, <1>11, <1>12 DEF PassedOver
<1>13. OffsetInv' /\ BeforeInv'
  BY <1>0, <1>10 DEF OffsetInv, BeforeInv
<1>14. CASE more
  <2>. DEFINE z == sorted[limit]
  <2>1. limit <= Len(sorted)
    BY <1>2, <1>14
  <2>2. Last(page) = z /\ z \in S /\ Len(page) = limit /\ limit \in 1..Len(page)
    <3>1. S \in SUBSET Rows /\ sorted \in SetToSeqs(S) /\ limit \in Nat \ {0}
      BY <1>1, <1>2
    <3>2. LET p == SubSeq(sorted, 1, Min({limit, Len(sorted)})) IN
          Len(p) = limit /\ Last(p) = sorted[limit] /\ Last(p) \in S
      BY <1>0, <2>1, <3>1, LastOfPage
    <3>3. Len(page) = limit /\ Last(page) = z /\ z \in S
      BY <1>2, <3>2
    <3>4. limit \in 1..Len(page)
      BY <3>1, <3>3
    <3>. QED
      BY <3>3, <3>4
  <2>3. z \in Rows /\ Behind(z)
    BY <1>1, <1>8, <2>2
  <2>4. cursor' = IF feed = "notifications" THEN [key |-> at[z]]
                  ELSE IF feed = "assessments" THEN [key |-> WholeSecond(at[z]), id |-> z]
                  ELSE [key |-> at[z], id |-> z]
    BY <1>14, <2>2 DEF KeyedPage
  <2>. HIDE DEF z
  <2>5. /\ cursor' \in Cursors(feed)
        /\ \A y \in Rows : Behind(y)' => Behind(y)
        /\ \A y \in Rows : y = z \/ Precedes(y, z) => ~Behind(y)'
        /\ \A x \in Rows : Precedes(z, x) =>
              \/ Behind(x)'
              \/ feed = "assessments" /\ WholeSecond(at[x]) = WholeSecond(at[z])
              \/ feed = "notifications" /\ at[x] = at[z]
    BY <1>0, <1>2, <2>3, <2>4, CursorMoves
  <2>6. Len(pages') % limit' = 0
    BY <1>1, <1>6, <1>7, <1>10, <2>2, NextMultiple
  <2>7. z \in PageEnds'
    <3>1. Len(pages) + limit \in DOMAIN pages' /\ pages'[Len(pages) + limit] = z
      BY <1>1, <1>4, <1>6, <2>2 DEF z
    <3>2. (Len(pages) + limit) % limit' = 0
      BY <1>6, <2>2, <2>6
    <3>. QED
      BY <3>1, <3>2 DEF PageEnds
  <2>8. ASSUME NEW y \in ToSet(pages)' PROVE ~Behind(y)'
    <3>1. CASE y \in ToSet(pages)
      <4>1. y \in Rows
        BY <1>1, <3>1 DEF ToSet
      <4>. QED
        BY <1>7, <2>5, <3>1, <4>1
    <3>2. CASE y \in ToSet(page)
      <4>1. PICK i \in 1..Len(page) : y = page[i]
        BY <1>8, <3>2
      <4>2. y = sorted[i] /\ i \in DOMAIN sorted /\ limit \in DOMAIN sorted
        BY <1>1, <1>3, <1>4, <2>1, <4>1
      <4>3. i <= limit
        BY <2>2
      <4>4. y = z \/ Precedes(y, z)
        <5>1. i = limit \/ i < limit
          BY <1>1, <4>3
        <5>. QED
          BY <1>2, <4>2, <5>1 DEF z
      <4>5. y \in Rows
        BY <1>1, <1>8, <3>2
      <4>. QED
        BY <2>5, <4>4, <4>5
    <3>. QED
      BY <1>6, <2>8, <3>1, <3>2
  <2>9. ASSUME NEW x \in (before \cap Listed)'
        PROVE  Behind(x)' \/ x \in ToSet(pages)' \/ PassedOver(x)'
    <3>1. x \in before \cap Listed
      BY <1>10
    <3>2. CASE Behind(x)
      <4>1. PICK i \in 1..Len(sorted) : x = sorted[i]
        BY <1>3, <1>8, <3>1, <3>2
      <4>2. CASE i <= limit
        <5>1. i \in 1..Len(page) /\ x = page[i]
          BY <1>1, <1>4, <2>2, <4>1, <4>2
        <5>. QED
          BY <1>6, <1>8, <5>1
      <4>3. CASE limit < i
        <5>1. Precedes(z, x)
          <6>1. limit \in DOMAIN sorted /\ i \in DOMAIN sorted
            BY <1>1, <1>3, <2>1, <4>1
          <6>. QED
            BY <1>2, <4>1, <4>3, <6>1 DEF z
        <5>2. x \in Rows
          BY <3>1 DEF Listed
        <5>. QED
          BY <1>10, <2>5, <2>7, <5>1, <5>2 DEF PassedOver
      <4>. QED
        BY <1>1, <4>2, <4>3
    <3>. QED
      BY <1>6, <1>7, <1>12, <3>1, <3>2
  <2>10. KeyedInv'
    BY <1>9, <2>6, <2>8, <2>9 DEF KeyedInv
  <2>11. phase' = "page"
    BY <1>2, <1>14
  <2>12. FeedTypeOK'
    BY <1>0, <1>6, <1>10, <2>5, <2>11 DEF FeedTypeOK
  <2>13. ScansComplete'
    BY <1>9, <2>11 DEF ScansComplete
  <2>. QED
    BY <1>13, <2>10, <2>12, <2>13 DEF FInv
<1>15. CASE ~more
  <2>1. phase' = "done" /\ cursor' = cursor
    BY <1>2, <1>15 DEF KeyedPage
  <2>2. FeedTypeOK'
    BY <1>0, <1>6, <1>10, <2>1 DEF FeedTypeOK
  <2>3. KeyedInv'
    BY <1>9, <2>1 DEF KeyedInv
  <2>4. ASSUME NEW x \in (before \cap Listed)'
        PROVE  x \in ToSet(pages)' \/ PassedOver(x)'
    <3>1. x \in before \cap Listed
      BY <1>10
    <3>2. CASE Behind(x)
      <4>1. PICK i \in 1..Len(sorted) : x = sorted[i]
        BY <1>3, <1>8, <3>1, <3>2
      <4>2. i \in 1..Len(page) /\ x = page[i]
        BY <1>1, <1>2, <1>3, <1>4, <1>15, <4>1
      <4>. QED
        BY <1>6, <1>8, <4>2
    <3>. QED
      BY <1>6, <1>7, <1>12, <3>1, <3>2
  <2>5. ScansComplete'
    BY <1>9, <2>4 DEF ScansComplete
  <2>. QED
    BY <1>13, <2>2, <2>3, <2>5 DEF FInv
<1>. QED
  BY <1>2, <1>14, <1>15

-----------------------------------------------------------------------------
(* Feeds: a page by number *)

\* In whatever order the rows of one instant come, a row of its own instant
\* has the place that its instant gives it.
LEMMA OwnPlace ==
    ASSUME FeedTypeOK, NEW s \in Orders, NEW k \in 1..Len(s), ~Tied(s[k])
    PROVE  Place(s[k]) = k
<1>. DEFINE T == {y \in Listed : at[y] >= at[s[k]]}
            g == [i \in 1..k |-> s[i]]
<1>1. /\ Listed \in SUBSET Rows /\ IsFiniteSet(Listed) /\ \A x \in Listed : at[x] \in Nat
  BY FeedTypes
<1>2. s \in SetToSeqs(Listed) /\ \A i, j \in DOMAIN s : i < j => at[s[i]] >= at[s[j]]
  BY DEF Orders
<1>3. /\ Len(s) \in Nat /\ DOMAIN s = 1..Len(s) /\ \A i \in 1..Len(s) : s[i] \in Listed
      /\ \A i, j \in 1..Len(s) : s[i] = s[j] => i = j
      /\ \A x \in Listed : \E i \in 1..Len(s) : s[i] = x
  BY <1>1, <1>2, Listing
<1>4. ASSUME NEW i \in 1..k PROVE s[i] \in T
  <2>1. i \in 1..Len(s) /\ (i < k \/ i = k)
    BY <1>3
  <2>2. at[s[i]] >= at[s[k]]
    BY <1>1, <1>2, <1>3, <2>1
  <2>. QED
    BY <1>3, <2>1, <2>2
<1>5. ASSUME NEW y \in T PROVE \E i \in 1..k : s[i] = y
  <2>1. PICK i \in 1..Len(s) : s[i] = y
    BY <1>3
  <2>2. CASE k < i
    <3>1. at[s[k]] >= at[y]
      BY <1>2, <1>3, <2>1, <2>2
    <3>2. at[s[k]] = at[y]
      BY <1>1, <1>3, <3>1
    <3>3. y # s[k]
      BY <1>3, <2>1, <2>2
    <3>. QED
      BY <3>2, <3>3 DEF Tied
  <2>3. CASE i <= k
    BY <2>1, <2>3
  <2>. QED
    BY <1>3, <2>2, <2>3
<1>6. \A i, j \in 1..k : s[i] = s[j] => i = j
  BY <1>3
<1>. HIDE DEF T
<1>7. g \in Injection(1..k, T)
  BY <1>4, <1>6 DEF Injection, IsInjective
<1>8. g \in Surjection(1..k, T)
  BY <1>4, <1>5 DEF Surjection
<1>9. ExistsBijection(1..k, T)
  BY <1>7, <1>8 DEF ExistsBijection, Bijection
<1>10. k \in Nat
  OBVIOUS
<1>11. Cardinality(T) = k
  BY <1>9, <1>10, FS_CountingElements
<1>. QED
  BY <1>11 DEF Place, T

\* The next n rows: a row that has a place of its own behind those that were
\* skipped is at its place among them, or behind them.
LEMMA OffsetRows ==
    ASSUME FeedTypeOK, feed \in ByOffset, NEW n \in Nat, NEW s \in Orders
    PROVE  LET rows == SubSeq(s, Skip + 1, Min({Skip + n, Len(s)})) IN
           /\ rows \in Seq(Rows)
           /\ \A x \in Listed : Place(x) > Skip /\ ~Tied(x) =>
                 \/ \E i \in 1..Len(rows) : rows[i] = x /\ Place(x) = Skip + i
                 \/ Place(x) > Skip + n /\ Len(rows) = n
<1>. DEFINE m == Min({Skip + n, Len(s)})
            rows == SubSeq(s, Skip + 1, m)
<1>1. Listed \in SUBSET Rows /\ IsFiniteSet(Listed) /\ Skip \in Nat
  BY FeedTypes
<1>2. /\ s \in Seq(Listed) /\ Len(s) \in Nat
      /\ \A x \in Listed : \E i \in 1..Len(s) : s[i] = x
  BY <1>1, Listing DEF Orders
<1>3. m = IF Skip + n <= Len(s) THEN Skip + n ELSE Len(s)
  BY <1>1, <1>2, Smaller
<1>4. m \in Nat /\ m <= Len(s)
  BY <1>1, <1>2, <1>3
<1>. HIDE DEF m
<1>5. /\ rows \in Seq(Listed) /\ Len(rows) = (IF Skip < m THEN m - Skip ELSE 0)
      /\ \A i \in 1..Len(rows) : rows[i] = s[Skip + i]
  BY <1>1, <1>2, <1>4, Part
<1>6. rows \in Seq(Rows)
  BY <1>1, <1>5
<1>7. ASSUME NEW x \in Listed, Place(x) > Skip, ~Tied(x)
      PROVE  \/ \E i \in 1..Len(rows) : rows[i] = x /\ Place(x) = Skip + i
             \/ Place(x) > Skip + n /\ Len(rows) = n
  <2>. HIDE DEF rows
  <2>1. PICK k \in 1..Len(s) : s[k] = x
    BY <1>2
  <2>2. Place(x) = k
    BY <1>7, <2>1, OwnPlace
  <2>3. CASE k <= Skip + n
    <3>1. k - Skip \in 1..Len(rows) /\ Skip + (k - Skip) = k
      <4>1. k \in Nat /\ Skip < k /\ k <= m
        BY <1>1, <1>2, <1>3, <1>7, <2>2, <2>3
      <4>2. Len(rows) = m - Skip
        BY <1>1, <1>4, <1>5, <4>1
      <4>. QED
        BY <1>1, <1>4, <4>1, <4>2
    <3>2. rows[k - Skip] = x
      BY <1>5, <2>1, <3>1
    <3>. QED
      BY <2>2, <3>1, <3>2
  <2>4. CASE Skip + n < k
    <3>1. m = Skip + n
      BY <1>1, <1>2, <1>3, <2>4
    <3>2. Len(rows) = n
      BY <1>1, <1>5, <3>1
    <3>. QED
      BY <2>2, <2>4, <3>2
  <2>. QED
    BY <1>1, <2>3, <2>4
<1>. QED
  BY <1>6, <1>7 DEF m

\* The rows that have a version, in their order.
LEMMA Versions ==
    ASSUME NEW rows \in Seq(Rows)
    PROVE  /\ WithVersion(rows) \in Seq(Rows)
           /\ ToSet(rows) \subseteq published => WithVersion(rows) = rows
<1>. DEFINE found == {i \in DOMAIN rows : rows[i] \in published}
            nth == [n \in 1..Cardinality(found) |->
                      CHOOSE i \in found : Cardinality({j \in found : j <= i}) = n]
<1>1. /\ Len(rows) \in Nat /\ DOMAIN rows = 1..Len(rows) /\ IsFiniteSet(DOMAIN rows)
      /\ rows \in [1..Len(rows) -> Rows] /\ Cardinality(DOMAIN rows) = Len(rows)
  BY Members
<1>2. found \in SUBSET Nat /\ found \in SUBSET DOMAIN rows /\ IsFiniteSet(found)
  <2>1. found \in SUBSET Nat /\ found \in SUBSET DOMAIN rows
    BY <1>1
  <2>. QED
    BY <1>1, <2>1, FS_Subset
<1>3. WithVersion(rows) = [n \in 1..Cardinality(found) |-> rows[nth[n]]]
  BY DEF WithVersion
<1>. HIDE DEF found
<1>4. nth \in [1..Cardinality(found) -> found] /\ Cardinality(found) \in Nat
  BY <1>2, InOrder
<1>5. WithVersion(rows) \in Seq(Rows)
  <2>. HIDE DEF nth
  <2>1. \A n \in 1..Cardinality(found) : rows[nth[n]] \in Rows
    BY <1>1, <1>2, <1>4
  <2>2. [n \in 1..Cardinality(found) |-> rows[nth[n]]] \in Seq(Rows)
    BY <1>4, <2>1
  <2>. QED
    BY <1>3, <2>2
<1>6. ASSUME ToSet(rows) \subseteq published PROVE WithVersion(rows) = rows
  <2>1. found = 1..Len(rows)
    BY <1>1, <1>6 DEF found, ToSet
  <2>2. Cardinality(found) = Len(rows)
    BY <1>1, <2>1
  <2>3. ASSUME NEW i \in 1..Len(rows) PROVE Cardinality({j \in 1..Len(rows) : j <= i}) = i
    <3>1. {j \in 1..Len(rows) : j <= i} = 1..i
      BY <1>1
    <3>2. Cardinality(1..i) = i
      BY <1>1, FS_Interval
    <3>. QED
      BY <3>1, <3>2
  <2>4. ASSUME NEW n \in 1..Len(rows) PROVE nth[n] = n
    <3>1. nth[n] = CHOOSE i \in 1..Len(rows) : Cardinality({j \in 1..Len(rows) : j <= i}) = n
      BY <2>1, <2>2
    <3>. QED
      BY <2>3, <3>1
  <2>. HIDE DEF nth
  <2>5. [n \in 1..Cardinality(found) |-> rows[nth[n]]] = [n \in 1..Len(rows) |-> rows[n]]
    BY <2>2, <2>4
  <2>. QED
    BY <1>1, <1>3, <2>5
<1>. QED
  BY <1>5, <1>6

\* What a page of a list read by number keeps.
LEMMA OffsetStep ==
    ASSUME FInv, feed \in ByOffset, phase = "page", UNCHANGED <<table, before>>,
           NEW page \in Seq(Rows), NEW more \in BOOLEAN, pages' = pages \o page,
           cursor' = IF more THEN Skip + limit ELSE cursor,
           phase' = IF more THEN "page" ELSE "done",
           dropped' \subseteq Rows, dropped \subseteq dropped',
           \A x \in Listed : Place(x) > Skip /\ ~Tied(x) =>
              \/ x \in ToSet(page)
              \/ more /\ Place(x) > Skip + limit
              \/ feed = "picker" /\ dropped' # {}
    PROVE  FInv'
<1>1. FeedTypeOK /\ OffsetInv /\ BeforeInv
  BY DEF FInv
<1>2. limit \in Nat \ {0} /\ Skip \in Nat /\ pages \in Seq(Rows)
  BY <1>1, FeedTypes
<1>3. /\ feed' = feed /\ limit' = limit /\ at' = at /\ listing' = listing
      /\ published' = published /\ before' = before /\ Listed' = Listed
  BY DEF table, Listed
<1>4. pages \o page \in Seq(Rows) /\ ToSet(pages \o page) = ToSet(pages) \cup ToSet(page)
  BY <1>2, Joined
<1>5. pages' \in Seq(Rows) /\ ToSet(pages') = ToSet(pages) \cup ToSet(page)
  BY <1>4
<1>6. /\ feed \in Feeds /\ Cursors(feed) = Nat /\ cursor \in Nat \cup {NoCursor}
      /\ cursor' \in Nat \cup {NoCursor}
  BY <1>1, <1>2 DEF FeedTypeOK, Cursors
<1>7. FeedTypeOK'
  BY <1>1, <1>3, <1>5, <1>6 DEF FeedTypeOK, Cursors
<1>8. \A x : Tied(x)' <=> Tied(x)
  BY <1>3 DEF Tied
<1>9. \A x : Place(x)' = Place(x)
  BY <1>3 DEF Place
<1>10. before \subseteq Listed
  BY <1>1 DEF BeforeInv, FeedTypeOK, Listed, ByOffset
<1>11. BeforeInv' /\ KeyedInv'
  BY <1>1, <1>3 DEF BeforeInv, KeyedInv
<1>12. ASSUME NEW x \in before
       PROVE  \/ x \in ToSet(pages') \/ Tied(x) \/ (feed = "picker" /\ dropped' # {})
              \/ more /\ Place(x) > Skip + limit
  <2>1. x \in ToSet(pages) \/ Tied(x) \/ (feed = "picker" /\ dropped # {}) \/ Place(x) > Skip
    BY <1>1 DEF OffsetInv
  <2>. QED
    BY <1>5, <1>10, <2>1
<1>13. CASE more
  <2>1. Skip' = Skip + limit
    <3>1. cursor' \in Nat
      BY <1>2, <1>13
    <3>2. cursor' # NoCursor
      BY <1>6, <3>1, CursorAssumption
    <3>. QED
      BY <1>13, <3>2 DEF Skip
  <2>2. OffsetInv'
    BY <1>3, <1>8, <1>9, <1>12, <2>1 DEF OffsetInv
  <2>3. ScansComplete'
    BY <1>3, <1>13 DEF ScansComplete
  <2>. QED
    BY <1>7, <1>11, <2>2, <2>3 DEF FInv
<1>14. CASE ~more
  <2>1. OffsetInv'
    BY <1>14 DEF OffsetInv
  <2>2. ASSUME NEW x \in before, x \notin ToSet(pages') PROVE PassedOver(x)'
    BY <1>3, <1>8, <1>12, <1>14, <2>2 DEF PassedOver, Tied
  <2>3. ScansComplete'
    BY <1>3, <2>2 DEF ScansComplete
  <2>. QED
    BY <1>7, <1>11, <2>1, <2>3 DEF FInv
<1>. QED
  BY <1>13, <1>14

\* A page of the question picker is one of a list read by number.
LEMMA PickerStep ==
    ASSUME FInv, ListQuestions
    PROVE  FInv'
<1>1. FeedTypeOK /\ feed = "picker" /\ feed \in ByOffset /\ phase = "page"
  BY DEF FInv, ListQuestions, ByOffset
<1>2. PICK rows \in Questions(limit + 1) :
         LET found == WithVersion(rows)
             more == Len(found) > limit
         IN /\ Receive(SubSeq(found, 1, Min({limit, Len(found)})), more, Skip + limit)
            /\ dropped' = dropped \cup (ToSet(rows) \ published)
  BY DEF ListQuestions
<1>. DEFINE found == WithVersion(rows)
            more == Len(found) > limit
            page == SubSeq(found, 1, Min({limit, Len(found)}))
<1>3. PICK s \in Orders : rows = SubSeq(s, Skip + 1, Min({Skip + (limit + 1), Len(s)}))
  BY DEF Questions
<1>4. limit \in Nat \ {0} /\ limit + 1 \in Nat /\ Skip \in Nat /\ dropped \subseteq Rows
  BY <1>1, FeedTypes DEF FeedTypeOK
<1>5. /\ rows \in Seq(Rows)
      /\ \A x \in Listed : Place(x) > Skip /\ ~Tied(x) =>
            \/ \E i \in 1..Len(rows) : rows[i] = x /\ Place(x) = Skip + i
            \/ Place(x) > Skip + (limit + 1) /\ Len(rows) = limit + 1
  BY <1>1, <1>3, <1>4, OffsetRows
<1>6. found \in Seq(Rows) /\ (ToSet(rows) \subseteq published => found = rows)
  BY <1>5, Versions
<1>7. /\ pages' = pages \o page /\ cursor' = IF more THEN Skip + limit ELSE cursor
      /\ phase' = IF more THEN "page" ELSE "done"
      /\ UNCHANGED <<table, before>>
      /\ dropped' = dropped \cup (ToSet(rows) \ published)
  <2>1. /\ Receive(page, more, Skip + limit)
        /\ dropped' = dropped \cup (ToSet(rows) \ published)
    BY <1>2
  <2>. HIDE DEF page, more
  <2>. QED
    BY <2>1 DEF Receive
<1>. HIDE DEF found
<1>8. /\ page \in Seq(Rows) /\ Len(page) = IF limit <= Len(found) THEN limit ELSE Len(found)
      /\ DOMAIN page = 1..Len(page) /\ \A i \in 1..Len(page) : page[i] = found[i]
  BY <1>4, <1>6, FirstPart
<1>9. Len(rows) \in Nat /\ Len(found) \in Nat /\ ToSet(rows) \subseteq Rows
  BY <1>5, <1>6 DEF ToSet
<1>. HIDE DEF page
<1>10. ASSUME NEW x \in Listed, Place(x) > Skip, ~Tied(x)
       PROVE  \/ x \in ToSet(page)
              \/ more /\ Place(x) > Skip + limit
              \/ feed = "picker" /\ dropped' # {}
  <2>1. CASE ~(ToSet(rows) \subseteq published)
    BY <1>1, <1>7, <2>1
  <2>2. CASE ToSet(rows) \subseteq published
    <3>1. found = rows
      BY <1>6, <2>2
    <3>2. CASE \E i \in 1..Len(rows) : rows[i] = x /\ Place(x) = Skip + i
      <4>1. PICK i \in 1..Len(rows) : rows[i] = x /\ Place(x) = Skip + i
        BY <3>2
      <4>2. CASE i <= limit
        <5>1. i \in 1..Len(page) /\ page[i] = x
          BY <1>4, <1>8, <1>9, <3>1, <4>1, <4>2
        <5>. QED
          BY <1>8, <5>1 DEF ToSet
      <4>3. CASE limit < i
        BY <1>4, <1>9, <3>1, <4>1, <4>3
      <4>. QED
        BY <1>4, <4>2, <4>3
    <3>3. CASE Place(x) > Skip + (limit + 1) /\ Len(rows) = limit + 1
      <4>1. Place(x) \in Nat
        <5>1. {y \in Listed : at[y] >= at[x]} \in SUBSET Listed /\ IsFiniteSet(Listed)
          BY <1>1, FeedTypes
        <5>. QED
          BY <5>1, FS_Subset, FS_CardinalityType DEF Place
      <4>. QED
        BY <1>4, <3>1, <3>3, <4>1
    <3>. QED
      BY <1>5, <1>10, <3>2, <3>3
  <2>. QED
    BY <2>1, <2>2
<1>11. more \in BOOLEAN
  OBVIOUS
<1>. HIDE DEF more
<1>12. dropped' \subseteq Rows /\ dropped \subseteq dropped'
  BY <1>4, <1>7, <1>9
<1>13. \A x \in Listed : Place(x) > Skip /\ ~Tied(x) =>
          \/ x \in ToSet(page)
          \/ more /\ Place(x) > Skip + limit
          \/ feed = "picker" /\ dropped' # {}
  BY <1>10
<1>14. page \in Seq(Rows)
  BY <1>8
<1>. QED
  BY <1>1, <1>7, <1>11, <1>12, <1>13, <1>14, OffsetStep

\* So is a page of the questions of a bank.
LEMMA BankStep ==
    ASSUME FInv, ListQuestionsInBank
    PROVE  FInv'
<1>1. FeedTypeOK /\ feed = "bank" /\ feed \in ByOffset /\ phase = "page"
  BY DEF FInv, ListQuestionsInBank, ByOffset
<1>2. PICK page \in QuestionsInBank(limit) : Receive(page, Len(page) = limit, Skip + limit)
  BY DEF ListQuestionsInBank
<1>3. PICK s \in Orders : page = SubSeq(s, Skip + 1, Min({Skip + limit, Len(s)}))
  BY DEF QuestionsInBank
<1>4. limit \in Nat /\ Skip \in Nat /\ dropped \subseteq Rows
  BY <1>1, FeedTypes DEF FeedTypeOK
<1>5. /\ page \in Seq(Rows)
      /\ \A x \in Listed : Place(x) > Skip /\ ~Tied(x) =>
            \/ \E i \in 1..Len(page) : page[i] = x /\ Place(x) = Skip + i
            \/ Place(x) > Skip + limit /\ Len(page) = limit
  BY <1>1, <1>3, <1>4, OffsetRows
<1>. DEFINE more == Len(page) = limit
<1>6. /\ pages' = pages \o page /\ cursor' = IF more THEN Skip + limit ELSE cursor
      /\ phase' = IF more THEN "page" ELSE "done"
      /\ UNCHANGED <<table, before>>
  <2>1. Receive(page, more, Skip + limit)
    BY <1>2
  <2>. HIDE DEF more
  <2>. QED
    BY <2>1 DEF Receive
<1>7. dropped' \subseteq Rows /\ dropped \subseteq dropped'
  BY <1>4 DEF ListQuestionsInBank
<1>8. ASSUME NEW x \in Listed, Place(x) > Skip, ~Tied(x)
      PROVE  x \in ToSet(page) \/ (more /\ Place(x) > Skip + limit)
  <2>1. \A i \in 1..Len(page) : page[i] \in ToSet(page)
    BY <1>5 DEF ToSet
  <2>. QED
    BY <1>5, <1>8, <2>1
<1>9. more \in BOOLEAN
  OBVIOUS
<1>. HIDE DEF more
<1>10. \A x \in Listed : Place(x) > Skip /\ ~Tied(x) =>
          \/ x \in ToSet(page)
          \/ more /\ Place(x) > Skip + limit
          \/ feed = "picker" /\ dropped' # {}
  BY <1>8
<1>. QED
  BY <1>1, <1>5, <1>6, <1>7, <1>9, <1>10, OffsetStep

-----------------------------------------------------------------------------
(* Feeds: what happens meanwhile *)

\* Rows that come, or go from the assessments, between two pages.
LEMMA Meanwhile ==
    ASSUME FInv, phase = "page", FeedTypeOK', BeforeInv',
           UNCHANGED <<feed, limit, at, cursor, pages, phase, before, dropped>>,
           \A x \in before : listing'[x] = "listed" => listing[x] = "listed",
           feed \in ByOffset => Listed \subseteq Listed'
    PROVE  FInv'
<1>1. FeedTypeOK /\ KeyedInv /\ OffsetInv
  BY DEF FInv
<1>2. CASE feed \in ByOffset
  <2>1. Listed \subseteq Listed' /\ IsFiniteSet(Listed')
    BY <1>2, RowsAssumption, FS_Subset DEF Listed
  <2>2. ASSUME NEW x, Tied(x) PROVE Tied(x)'
    BY <2>1, <2>2 DEF Tied
  <2>3. ASSUME NEW x PROVE Place(x)' >= Place(x) /\ Place(x) \in Nat /\ Place(x)' \in Nat
    <3>. DEFINE A == {y \in Listed : at[y] >= at[x]}
                B == {y \in Listed' : at[y] >= at[x]}
    <3>1. A \in SUBSET B /\ B \in SUBSET Listed'
      BY <2>1
    <3>2. Place(x) = Cardinality(A) /\ Place(x)' = Cardinality(B)
      BY DEF Place
    <3>. HIDE DEF A, B
    <3>3. IsFiniteSet(B)
      BY <2>1, <3>1, FS_Subset
    <3>4. IsFiniteSet(A) /\ Cardinality(A) <= Cardinality(B)
      BY <3>1, <3>3, FS_Subset
    <3>5. Cardinality(A) \in Nat /\ Cardinality(B) \in Nat
      BY <3>3, <3>4, FS_CardinalityType
    <3>. QED
      BY <3>2, <3>4, <3>5
  <2>4. Skip' = Skip /\ Skip \in Nat
    BY <1>1, <1>2, FeedTypes DEF Skip
  <2>5. ASSUME NEW x \in before
        PROVE  \/ x \in ToSet(pages) \/ Tied(x)' \/ (feed = "picker" /\ dropped # {})
               \/ Place(x)' > Skip'
    <3>1. x \in ToSet(pages) \/ Tied(x) \/ (feed = "picker" /\ dropped # {}) \/ Place(x) > Skip
      BY <1>1, <1>2 DEF OffsetInv
    <3>2. Place(x) > Skip => Place(x)' > Skip
      BY <2>3, <2>4
    <3>. QED
      BY <2>2, <2>4, <3>1, <3>2
  <2>6. OffsetInv'
    BY <2>5 DEF OffsetInv
  <2>7. KeyedInv' /\ ScansComplete'
    BY <1>2 DEF KeyedInv, ScansComplete
  <2>. QED
    BY <2>6, <2>7 DEF FInv
<1>3. CASE feed \notin ByOffset
  <2>1. /\ IsInjective(pages) /\ Len(pages) % limit = 0
        /\ \A y \in ToSet(pages) : ~Behind(y)
        /\ \A x \in before \cap Listed : Behind(x) \/ x \in ToSet(pages) \/ PassedOver(x)
    BY <1>1, <1>3 DEF KeyedInv
  <2>2. \A x : Behind(x)' <=> Behind(x)
    BY DEF Behind
  <2>3. PageEnds' = PageEnds
    BY DEF PageEnds
  <2>4. ASSUME NEW x, PassedOver(x) PROVE PassedOver(x)'
    BY <1>3, <2>3, <2>4 DEF PassedOver, ByOffset
  <2>5. (before \cap Listed)' \subseteq before \cap Listed
    BY DEF Listed
  <2>6. KeyedInv'
    <3>1. IsInjective(pages)' /\ (Len(pages) % limit = 0)'
      BY <2>1
    <3>2. \A y \in ToSet(pages)' : ~Behind(y)'
      BY <2>1, <2>2
    <3>3. \A x \in (before \cap Listed)' :
             Behind(x)' \/ x \in ToSet(pages)' \/ PassedOver(x)'
      BY <2>1, <2>2, <2>4, <2>5
    <3>. QED
      BY <3>1, <3>2, <3>3 DEF KeyedInv
  <2>7. OffsetInv'
    BY <1>3 DEF OffsetInv
  <2>8. ScansComplete'
    BY <2>1 DEF ScansComplete
  <2>. QED
    BY <2>6, <2>7, <2>8 DEF FInv
<1>. QED
  BY <1>2, <1>3

\* The steps of other requests are of that kind.
LEMMA RowsStep ==
    ASSUME FInv, NEW x \in Rows, Appear(x) \/ Close(x) \/ PublishVersion(x)
    PROVE  FInv'
<1>1. FeedTypeOK /\ BeforeInv
  BY DEF FInv
<1>2. /\ listing \in [Rows -> {"absent", "listed", "closed"}] /\ before \subseteq Rows
      /\ \A y \in before : listing[y] # "absent"
      /\ feed # "assessments" => \A y \in Rows : listing[y] # "closed"
      /\ feed \in ByOffset => feed # "assessments"
  BY <1>1 DEF FeedTypeOK, BeforeInv, ByOffset
<1>3. CASE Appear(x)
  <2>1. /\ phase = "page" /\ listing[x] = "absent"
        /\ listing' = [listing EXCEPT ![x] = "listed"] /\ UNCHANGED published
        /\ UNCHANGED <<feed, limit, at, cursor, pages, phase, before, dropped>>
    BY <1>3 DEF Appear
  <2>2. FeedTypeOK'
    BY <1>1, <2>1 DEF FeedTypeOK
  <2>3. BeforeInv'
    BY <1>2, <2>1 DEF BeforeInv
  <2>4. /\ \A y \in before : listing'[y] = "listed" => listing[y] = "listed"
        /\ Listed \subseteq Listed'
    BY <1>2, <2>1 DEF Listed
  <2>. QED
    BY <2>1, <2>2, <2>3, <2>4, Meanwhile
<1>4. CASE Close(x)
  <2>1. /\ phase = "page" /\ listing[x] = "listed" /\ feed = "assessments"
        /\ listing' = [listing EXCEPT ![x] = "closed"] /\ UNCHANGED published
        /\ UNCHANGED <<feed, limit, at, cursor, pages, phase, before, dropped>>
    BY <1>4 DEF Close
  <2>2. FeedTypeOK'
    BY <1>1, <2>1 DEF FeedTypeOK
  <2>3. BeforeInv'
    BY <1>2, <2>1 DEF BeforeInv
  <2>4. \A y \in before : listing'[y] = "listed" => listing[y] = "listed"
    BY <1>2, <2>1
  <2>. QED
    BY <1>2, <2>1, <2>2, <2>3, <2>4, Meanwhile
<1>5. CASE PublishVersion(x)
  <2>1. /\ phase = "page" /\ published' = published \cup {x} /\ UNCHANGED listing
        /\ UNCHANGED <<feed, limit, at, cursor, pages, phase, before, dropped>>
    BY <1>5 DEF PublishVersion
  <2>2. FeedTypeOK' /\ BeforeInv'
    BY <1>1, <2>1 DEF FeedTypeOK, BeforeInv
  <2>3. Listed' = Listed
    BY <2>1 DEF Listed
  <2>. QED
    BY <2>1, <2>2, <2>3, Meanwhile
<1>. QED
  BY <1>3, <1>4, <1>5

-----------------------------------------------------------------------------
(* Feeds: the theorems *)

\* Before the first page every row is still to come.
LEMMA FeedInitInv ==
    ASSUME FeedInit
    PROVE  FInv
<1>1. FeedTypeOK
  BY DEF FeedInit, FeedTypeOK, Listed
<1>2. limit \in Nat \ {0} /\ Listed \in SUBSET Rows /\ IsFiniteSet(Listed)
  BY <1>1, FeedTypes
<1>3. cursor = NoCursor /\ pages = << >> /\ phase = "page" /\ before = Listed /\ Skip = 0
  BY DEF FeedInit, Skip
<1>4. KeyedInv
  <2>1. IsInjective(pages) /\ Len(pages) % limit = 0
    BY <1>2, <1>3 DEF IsInjective
  <2>2. ToSet(pages) = {}
    BY <1>3 DEF ToSet
  <2>3. \A x : Behind(x)
    BY <1>3 DEF Behind
  <2>. QED
    BY <2>1, <2>2, <2>3 DEF KeyedInv
<1>5. ASSUME NEW x \in before PROVE Place(x) > Skip
  <2>. DEFINE T == {y \in Listed : at[y] >= at[x]}
  <2>1. x \in Rows /\ at[x] \in Nat
    BY <1>1, <1>3, FeedTypes DEF Listed
  <2>2. x \in T /\ T \in SUBSET Listed
    BY <1>3, <2>1
  <2>3. IsFiniteSet(T) /\ Cardinality(T) \in Nat
    BY <1>2, <2>2, FS_Subset, FS_CardinalityType
  <2>4. Cardinality(T) # 0
    BY <2>2, <2>3, FS_EmptySet
  <2>. QED
    BY <1>3, <2>3, <2>4 DEF Place
<1>6. OffsetInv
  BY <1>5 DEF OffsetInv
<1>7. BeforeInv
  BY DEF FeedInit, BeforeInv, Listed
<1>8. ScansComplete
  BY <1>3, <1>4 DEF ScansComplete, KeyedInv
<1>. QED
  BY <1>1, <1>4, <1>6, <1>7, <1>8 DEF FInv

\* Every step keeps the invariant.
LEMMA FeedStep ==
    ASSUME FInv, [FeedNext]_feedVars
    PROVE  FInv'
<1>1. CASE \/ ListUsers \/ ListAuditLogs \/ ListAttemptHistory \/ ListAssessments
           \/ ListNotifications
  <2>1. FeedTypeOK
    BY DEF FInv
  <2>2. feed \in Feeds \ ByOffset /\ \E sorted, page, more : KeyedPage(sorted, page, more)
    BY <1>1, <2>1, ReadByKey
  <2>. QED
    BY <2>2, KeyedStep
<1>2. CASE ListQuestions
  BY <1>2, PickerStep
<1>3. CASE ListQuestionsInBank
  BY <1>3, BankStep
<1>4. CASE \E x \in Rows : Appear(x) \/ Close(x) \/ PublishVersion(x)
  BY <1>4, RowsStep
<1>5. CASE UNCHANGED feedVars
  <2>1. UNCHANGED <<feed, limit, at, listing, published, cursor, pages, phase, before, dropped>>
    BY <1>5 DEF feedVars, table
  <2>2. FeedTypeOK' /\ BeforeInv'
    BY <2>1 DEF FInv, FeedTypeOK, BeforeInv
  <2>3. Listed' = Listed
    BY <2>1 DEF Listed
  <2>4. CASE phase = "page"
    BY <2>1, <2>2, <2>3, <2>4, Meanwhile
  <2>5. CASE phase # "page"
    <3>1. \A x : PassedOver(x)' <=> PassedOver(x)
      BY <2>1, <2>3 DEF PassedOver, PageEnds
    <3>2. ScansComplete'
      BY <2>1, <2>3, <3>1 DEF FInv, ScansComplete
    <3>3. KeyedInv' /\ OffsetInv'
      BY <2>1, <2>5 DEF FInv, KeyedInv, OffsetInv
    <3>. QED
      BY <2>2, <3>2, <3>3 DEF FInv
  <2>. QED
    BY <2>4, <2>5
<1>. QED
  BY <1>1, <1>2, <1>3, <1>4, <1>5 DEF FeedNext

\* Between two pages every row that was listed when the client began is still
\* to come, was received, or is one that the scan may pass over.
THEOREM FeedsInvariant == FeedSpec => []FInv
<1>1. FeedInit => FInv
  BY FeedInitInv
<1>2. FInv /\ [FeedNext]_feedVars => FInv'
  BY FeedStep
<1>. QED
  BY <1>1, <1>2, PTL DEF FeedSpec

\* The feeds keep their types.
THEOREM FeedTypeCorrect == FeedSpec => []FeedTypeOK
<1>1. FInv => FeedTypeOK
  BY DEF FInv
<1>. QED
  BY <1>1, FeedsInvariant, PTL

\* Who reads a list to its end, by cursor, instant or number, has every row
\* that was there all the time, but for those that PassedOver names, and by
\* cursor or instant has no row twice.
THEOREM ScansRight == FeedSpec => []ScansComplete
<1>1. FInv => ScansComplete
  BY DEF FInv
<1>. QED
  BY <1>1, FeedsInvariant, PTL

=============================================================================
