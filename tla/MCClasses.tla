----------------------------- MODULE MCClasses -----------------------------
(* Instances of Classes for TLC. *)
EXTENDS Classes, TLC

CONSTANTS t1, s1, c1, k1, math, physics, teacher, pupil

MCSpans == {<<1, 2>>, <<1, 3>>, <<2, 2>>}

\* The same student twice, two users of whom one may have the wrong role, and
\* a list that is too long.
MCBatches == {<<pupil, pupil>>, <<teacher, pupil>>, <<pupil, teacher, pupil>>}

\* The organization of the seed, or the one of a later year: an archived term,
\* subject, course and class, and a student who is enrolled already.
Old(row) == [row EXCEPT !.status = "ARCHIVED"]
MCInit == \E later \in BOOLEAN :
    /\ terms = [t \in Terms |-> IF t = t1 THEN TermRow(<<1, 2>>)
                               ELSE IF later THEN Old(TermRow(<<1, 2>>)) ELSE None]
    /\ subjects = [s \in Subjects |-> IF s = s1 THEN SubjectRow(math)
                               ELSE IF later THEN Old(SubjectRow(physics)) ELSE None]
    /\ courses = [c \in Courses |-> IF c = c1 THEN CourseRow(math, s1, t1)
                      ELSE IF later THEN Old(CourseRow(physics, s1, t1)) ELSE None]
    /\ classes = [k \in Classes |-> IF k = k1 THEN ClassRow(c1)
                                   ELSE IF later THEN Old(ClassRow(c1)) ELSE None]
    /\ teachers = [m \in Classes \X Users |->
                      IF m = <<k1, teacher>> THEN RosterRow(None) ELSE None]
    /\ enrollments = [m \in Classes \X Users |->
                      IF later /\ m = <<k1, pupil>> THEN RosterRow(None) ELSE None]
    /\ roles = [u \in Users |-> IF u = teacher THEN {"teacher"} ELSE {"student"}]
    /\ req = [r \in Requests |-> Idle] /\ audit = {} /\ edits = 0

MCSpec == MCInit /\ [][Next]_vars

Symmetry == Permutations(Requests)

=============================================================================
