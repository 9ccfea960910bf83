--------------------------- MODULE ClassesProofs ---------------------------
(***************************************************************************)
(* Theorems about Classes, for any catalogue, users, batches and requests. *)
(*                                                                         *)
(* A row is inserted once, is never deleted and keeps the request that     *)
(* inserted it, because the unique key of a roster counts the archived     *)
(* rows too.  So the rows a request reports as added are distinct and stay *)
(* its own (RowsMatch), whatever the requests beside it do, and the counts *)
(* of its report (WellCounted) are those of its audit entry (AuditExact).  *)
(***************************************************************************)
EXTENDS Classes, FiniteSetTheorems, TLAPS

-----------------------------------------------------------------------------
(* The inductive invariant *)

Pcs == {"idle", "check", "write", "audit", "ok", "error"}

Request == [op : Operations \cup {None}, class : Classes \cup {None}, users : Seq(Users),
            dry : BOOLEAN, report : Seq(Reports), added : Nat, failed : Nat, pc : Pcs]

Members == Classes \X Users

CatalogueTypes ==
    /\ terms \in Table(Terms, TermRows) /\ subjects \in Table(Subjects, SubjectRows)
    /\ courses \in Table(Courses, CourseRows) /\ classes \in Table(Classes, ClassRows)
    /\ \A c \in Created(courses) : /\ courses[c].subject \in Created(subjects)
                                   /\ courses[c].term \in Created(terms)
    /\ \A k \in Created(classes) : classes[k].course \in Created(courses)
    /\ roles \in [Users -> SUBSET Roles]

RosterTypes ==
    /\ teachers \in Table(Members, RosterRows)
    /\ enrollments \in Table(Members, RosterRows)
    /\ req \in [Requests -> Request]

-----------------------------------------------------------------------------
(* The catalogue *)

\* Archiving keeps the type of a table and its rows, and changes no row that
\* is archived already.
LEMMA ArchiveFacts ==
    ASSUME NEW Ids, NEW Fields, NEW table \in Table(Ids, Fields), NEW x,
           None \notin Fields,
           \A row \in Fields : [row EXCEPT !.status = "ARCHIVED"] \in Fields
    PROVE  /\ Archive(table, x) \in Table(Ids, Fields)
           /\ Created(Archive(table, x)) = Created(table)
           /\ \A y \in Created(table) :
                 /\ y \notin Live(table) => Archive(table, x)[y] = table[y]
                 /\ Archive(table, x)[y] = table[y]
                    \/ Archive(table, x)[y] = [table[y] EXCEPT !.status = "ARCHIVED"]
<1>1. CASE x \notin Live(table)
  BY <1>1 DEF Archive
<1>2. CASE x \in Live(table)
  <2>1. x \in Ids /\ table[x] \in Fields
    BY <1>2 DEF Live, Created, Table
  <2>. DEFINE row == [table[x] EXCEPT !.status = "ARCHIVED"]
  <2>2. row \in Fields /\ row # None
    BY <2>1
  <2>3. Archive(table, x) = [table EXCEPT ![x] = row]
    BY <1>2 DEF Archive
  <2>. HIDE DEF row
  <2>4. Archive(table, x) \in Table(Ids, Fields)
    BY <2>2, <2>3 DEF Table
  <2>5. Created(Archive(table, x)) = Created(table)
    BY <1>2, <2>1, <2>2, <2>3 DEF Created, Live, Table
  <2>. QED
    BY <1>2, <2>1, <2>3, <2>4, <2>5 DEF row, Table, Created
<1>. QED
  BY <1>1, <1>2

\* The rows of every table may be archived.
LEMMA RowsArchive ==
    /\ \A row \in TermRows : [row EXCEPT !.status = "ARCHIVED"] \in TermRows
    /\ \A row \in SubjectRows : [row EXCEPT !.status = "ARCHIVED"] \in SubjectRows
    /\ \A row \in CourseRows : /\ [row EXCEPT !.status = "ARCHIVED"] \in CourseRows
                               /\ [row EXCEPT !.status = "ARCHIVED"].subject = row.subject
                               /\ [row EXCEPT !.status = "ARCHIVED"].term = row.term
    /\ \A row \in ClassRows : /\ [row EXCEPT !.status = "ARCHIVED"] \in ClassRows
                              /\ [row EXCEPT !.status = "ARCHIVED"].course = row.course
    /\ \A row \in RosterRows : /\ [row EXCEPT !.status = "ARCHIVED"] \in RosterRows
                               /\ [row EXCEPT !.status = "ARCHIVED"].by = row.by
BY DEF TermRows, SubjectRows, CourseRows, ClassRows, RosterRows, Statuses

\* Writing one row into a table.
LEMMA WriteFacts ==
    ASSUME NEW Ids, NEW Fields, NEW table \in Table(Ids, Fields), NEW x \in Ids,
           NEW row \in Fields, None \notin Fields
    PROVE  /\ [table EXCEPT ![x] = row] \in Table(Ids, Fields)
           /\ Created([table EXCEPT ![x] = row]) = Created(table) \cup {x}
           /\ [table EXCEPT ![x] = row][x] = row
           /\ \A y \in Ids \ {x} : [table EXCEPT ![x] = row][y] = table[y]
BY DEF Table, Created

Frozen(old, new) == \A x \in Created(old) \ Live(old) : new[x] = old[x]

CatalogueFrozen ==
    /\ Frozen(terms, terms') /\ Frozen(subjects, subjects')
    /\ Frozen(courses, courses') /\ Frozen(classes, classes')

\* What a request of the catalogue may do to a table.
TermsChange ==
    /\ terms' \in Table(Terms, TermRows) /\ Created(terms) \subseteq Created(terms')
    /\ Frozen(terms, terms') /\ UNCHANGED <<subjects, courses, classes>>
SubjectsChange ==
    /\ subjects' \in Table(Subjects, SubjectRows)
    /\ Created(subjects) \subseteq Created(subjects')
    /\ Frozen(subjects, subjects') /\ UNCHANGED <<terms, courses, classes>>
CoursesChange ==
    /\ courses' \in Table(Courses, CourseRows) /\ Created(courses) \subseteq Created(courses')
    /\ \A c \in Created(courses') : /\ courses'[c].subject \in Created(subjects)
                                    /\ courses'[c].term \in Created(terms)
    /\ Frozen(courses, courses') /\ UNCHANGED <<terms, subjects, classes>>
ClassesChange ==
    /\ classes' \in Table(Classes, ClassRows) /\ Created(classes) \subseteq Created(classes')
    /\ \A k \in Created(classes') : classes'[k].course \in Created(courses)
    /\ Frozen(classes, classes') /\ UNCHANGED <<terms, subjects, courses>>

LEMMA TermStep ==
    ASSUME CatalogueTypes, NEW t \in Terms,
           ArchiveTerm(t) \/ \E span \in Spans : CreateTerm(t, span) \/ UpdateTerm(t, span)
    PROVE  TermsChange
<1>1. terms \in Table(Terms, TermRows) /\ None \notin TermRows
  BY NoneAssumption DEF CatalogueTypes
<1>2. ASSUME NEW span \in Spans, CreateTerm(t, span) PROVE TermsChange
  <2>1. TermRow(span) \in TermRows
    BY DEF TermRow, TermRows, Statuses
  <2>. QED
    BY <1>1, <1>2, <2>1, WriteFacts
       DEF TermsChange, CreateTerm, SetTerms, CreateTermRow, Frozen, Table, Created
<1>3. ASSUME NEW span \in Spans, UpdateTerm(t, span) PROVE TermsChange
  <2>1. CASE t \in Live(terms)
    <3>1. terms[t] \in TermRows
      BY <1>1, <2>1 DEF Live, Created, Table
    <3>. DEFINE row == [terms[t] EXCEPT !.span = span]
    <3>2. row \in TermRows
      BY <3>1 DEF TermRows
    <3>3. terms' = [terms EXCEPT ![t] = row]
      BY <1>3, <2>1 DEF UpdateTerm, SetTerms, UpdateTermRow
    <3>. HIDE DEF row
    <3>. QED
      BY <1>1, <1>3, <2>1, <3>2, <3>3, WriteFacts
         DEF TermsChange, UpdateTerm, SetTerms, Frozen, Table, Created
  <2>2. CASE t \notin Live(terms)
    BY <1>1, <1>3, <2>2 DEF TermsChange, UpdateTerm, SetTerms, UpdateTermRow, Frozen
  <2>. QED
    BY <2>1, <2>2
<1>4. CASE ArchiveTerm(t)
  <2>1. terms' = Archive(terms, t) /\ UNCHANGED <<subjects, courses, classes>>
    BY <1>4 DEF ArchiveTerm, SetTerms, ArchiveTermRow
  <2>2. \A row \in TermRows : [row EXCEPT !.status = "ARCHIVED"] \in TermRows
    BY RowsArchive
  <2>3. /\ Archive(terms, t) \in Table(Terms, TermRows)
        /\ Created(Archive(terms, t)) = Created(terms)
        /\ \A y \in Created(terms) :
              /\ y \notin Live(terms) => Archive(terms, t)[y] = terms[y]
              /\ \/ Archive(terms, t)[y] = terms[y]
                 \/ Archive(terms, t)[y] = [terms[y] EXCEPT !.status = "ARCHIVED"]
    BY <1>1, <2>2, ArchiveFacts
  <2>. QED
    BY <2>1, <2>3 DEF TermsChange, Frozen
<1>. QED
  BY <1>2, <1>3, <1>4

LEMMA SubjectStep ==
    ASSUME CatalogueTypes, NEW s \in Subjects,
           \/ ArchiveSubject(s)
           \/ \E code \in Codes : CreateSubject(s, code) \/ UpdateSubject(s, code)
    PROVE  SubjectsChange
<1>1. subjects \in Table(Subjects, SubjectRows) /\ None \notin SubjectRows
  BY NoneAssumption DEF CatalogueTypes
<1>2. ASSUME NEW code \in Codes, CreateSubject(s, code) PROVE SubjectsChange
  <2>1. SubjectRow(code) \in SubjectRows
    BY DEF SubjectRow, SubjectRows, Statuses
  <2>. QED
    BY <1>1, <1>2, <2>1, WriteFacts
       DEF SubjectsChange, CreateSubject, SetSubjects, CreateSubjectRow, Frozen, Table, Created
<1>3. ASSUME NEW code \in Codes, UpdateSubject(s, code) PROVE SubjectsChange
  <2>1. CASE s \in Live(subjects)
    <3>1. subjects[s] \in SubjectRows
      BY <1>1, <2>1 DEF Live, Created, Table
    <3>. DEFINE row == [subjects[s] EXCEPT !.code = code]
    <3>2. row \in SubjectRows
      BY <3>1 DEF SubjectRows
    <3>3. subjects' = [subjects EXCEPT ![s] = row]
      BY <1>3, <2>1 DEF UpdateSubject, SetSubjects, UpdateSubjectRow
    <3>. HIDE DEF row
    <3>. QED
      BY <1>1, <1>3, <2>1, <3>2, <3>3, WriteFacts
         DEF SubjectsChange, UpdateSubject, SetSubjects, Frozen, Table, Created
  <2>2. CASE s \notin Live(subjects)
    BY <1>1, <1>3, <2>2 DEF SubjectsChange, UpdateSubject, SetSubjects, UpdateSubjectRow,
       Frozen
  <2>. QED
    BY <2>1, <2>2
<1>4. CASE ArchiveSubject(s)
  <2>1. subjects' = Archive(subjects, s) /\ UNCHANGED <<terms, courses, classes>>
    BY <1>4 DEF ArchiveSubject, SetSubjects, ArchiveSubjectRow
  <2>2. \A row \in SubjectRows : [row EXCEPT !.status = "ARCHIVED"] \in SubjectRows
    BY RowsArchive
  <2>3. /\ Archive(subjects, s) \in Table(Subjects, SubjectRows)
        /\ Created(Archive(subjects, s)) = Created(subjects)
        /\ \A y \in Created(subjects) :
              /\ y \notin Live(subjects) => Archive(subjects, s)[y] = subjects[y]
              /\ \/ Archive(subjects, s)[y] = subjects[y]
                 \/ Archive(subjects, s)[y] = [subjects[y] EXCEPT !.status = "ARCHIVED"]
    BY <1>1, <2>2, ArchiveFacts
  <2>. QED
    BY <2>1, <2>3 DEF SubjectsChange, Frozen
<1>. QED
  BY <1>2, <1>3, <1>4

LEMMA CourseStep ==
    ASSUME CatalogueTypes, NEW c \in Courses,
           \/ ArchiveCourse(c)
           \/ \E code \in Codes, s \in Subjects, t \in Terms :
                 CreateCourse(c, code, s, t) \/ UpdateCourse(c, code, s, t)
    PROVE  CoursesChange
<1>1. /\ courses \in Table(Courses, CourseRows) /\ None \notin CourseRows
      /\ \A y \in Created(courses) : /\ courses[y].subject \in Created(subjects)
                                     /\ courses[y].term \in Created(terms)
  BY NoneAssumption DEF CatalogueTypes
<1>2. ASSUME NEW code \in Codes, NEW s \in Subjects, NEW t \in Terms,
             CreateCourse(c, code, s, t) \/ UpdateCourse(c, code, s, t)
      PROVE  CoursesChange
  <2>. DEFINE row == CourseRow(code, s, t)
  <2>1. row \in CourseRows /\ row.subject = s /\ row.term = t
    BY DEF CourseRow, CourseRows, Statuses
  <2>2. CASE CreateCourse(c, code, s, t) \/ c \in Live(courses)
    <3>1. /\ courses' = [courses EXCEPT ![c] = row]
          /\ s \in Created(subjects) /\ t \in Created(terms)
          /\ c \notin Created(courses) \ Live(courses)
          /\ UNCHANGED <<terms, subjects, classes>>
      BY <1>2, <2>2
         DEF CreateCourse, UpdateCourse, SetCourses, CreateCourseRow, UpdateCourseRow, Live
    <3>. HIDE DEF row
    <3>. QED
      BY <1>1, <2>1, <3>1, WriteFacts DEF CoursesChange, Frozen, Table, Created
  <2>3. CASE UpdateCourse(c, code, s, t) /\ c \notin Live(courses)
    BY <1>1, <2>3 DEF CoursesChange, UpdateCourse, SetCourses, UpdateCourseRow, Frozen
  <2>. QED
    BY <1>2, <2>2, <2>3
<1>3. CASE ArchiveCourse(c)
  <2>1. courses' = Archive(courses, c) /\ UNCHANGED <<terms, subjects, classes>>
    BY <1>3 DEF ArchiveCourse, SetCourses, ArchiveCourseRow
  <2>2. \A row \in CourseRows : [row EXCEPT !.status = "ARCHIVED"] \in CourseRows
    BY RowsArchive
  <2>3. /\ Archive(courses, c) \in Table(Courses, CourseRows)
        /\ Created(Archive(courses, c)) = Created(courses)
        /\ \A y \in Created(courses) :
              /\ y \notin Live(courses) => Archive(courses, c)[y] = courses[y]
              /\ \/ Archive(courses, c)[y] = courses[y]
                 \/ Archive(courses, c)[y] = [courses[y] EXCEPT !.status = "ARCHIVED"]
    BY <1>1, <2>2, ArchiveFacts
  <2>4. ASSUME NEW y \in Created(courses)
        PROVE  /\ Archive(courses, c)[y].subject = courses[y].subject
               /\ Archive(courses, c)[y].term = courses[y].term
    <3>1. courses[y] \in CourseRows
      BY <1>1 DEF Table, Created
    <3>. QED
      BY <2>3, <3>1 DEF CourseRows
  <2>. QED
    BY <1>1, <2>1, <2>3, <2>4 DEF CoursesChange, Frozen
<1>. QED
  BY <1>2, <1>3

LEMMA ClassStep ==
    ASSUME CatalogueTypes, NEW k \in Classes,
           ArchiveClass(k) \/ \E c \in Courses : CreateClass(k, c) \/ UpdateClass(k, c)
    PROVE  ClassesChange
<1>1. /\ classes \in Table(Classes, ClassRows) /\ None \notin ClassRows
      /\ \A y \in Created(classes) : classes[y].course \in Created(courses)
  BY NoneAssumption DEF CatalogueTypes
<1>2. ASSUME NEW c \in Courses, CreateClass(k, c) PROVE ClassesChange
  <2>1. ClassRow(c) \in ClassRows /\ ClassRow(c).course = c
    BY DEF ClassRow, ClassRows, Statuses
  <2>. QED
    BY <1>1, <1>2, <2>1, WriteFacts
       DEF ClassesChange, CreateClass, SetClasses, CreateClassRow, Frozen, Table, Created
<1>3. ASSUME NEW c \in Courses, UpdateClass(k, c), k \in Live(classes) PROVE ClassesChange
  <2>1. classes[k] \in ClassRows
    BY <1>1, <1>3 DEF Live, Created, Table
  <2>. DEFINE row == [classes[k] EXCEPT !.course = c]
  <2>2. row \in ClassRows /\ row.course = c
    BY <2>1 DEF ClassRows
  <2>3. /\ classes' = [classes EXCEPT ![k] = row] /\ c \in Created(courses)
        /\ UNCHANGED <<terms, subjects, courses>>
    BY <1>3 DEF UpdateClass, SetClasses, UpdateClassRow
  <2>. HIDE DEF row
  <2>. QED
    BY <1>1, <1>3, <2>2, <2>3, WriteFacts DEF ClassesChange, Frozen, Table, Created
<1>4. ASSUME NEW c \in Courses, UpdateClass(k, c), k \notin Live(classes) PROVE ClassesChange
  BY <1>1, <1>4 DEF ClassesChange, UpdateClass, SetClasses, UpdateClassRow, Frozen
<1>5. CASE ArchiveClass(k)
  <2>1. classes' = Archive(classes, k) /\ UNCHANGED <<terms, subjects, courses>>
    BY <1>5 DEF ArchiveClass, SetClasses, ArchiveClassRow
  <2>2. \A row \in ClassRows : [row EXCEPT !.status = "ARCHIVED"] \in ClassRows
    BY RowsArchive
  <2>3. /\ Archive(classes, k) \in Table(Classes, ClassRows)
        /\ Created(Archive(classes, k)) = Created(classes)
        /\ \A y \in Created(classes) :
              /\ y \notin Live(classes) => Archive(classes, k)[y] = classes[y]
              /\ \/ Archive(classes, k)[y] = classes[y]
                 \/ Archive(classes, k)[y] = [classes[y] EXCEPT !.status = "ARCHIVED"]
    BY <1>1, <2>2, ArchiveFacts
  <2>4. ASSUME NEW y \in Created(classes)
        PROVE  Archive(classes, k)[y].course = classes[y].course
    <3>1. classes[y] \in ClassRows
      BY <1>1 DEF Table, Created
    <3>. QED
      BY <2>3, <3>1 DEF ClassRows
  <2>. QED
    BY <1>1, <2>1, <2>3, <2>4 DEF ClassesChange, Frozen
<1>. QED
  BY <1>2, <1>3, <1>4, <1>5

\* Every step keeps the types of the catalogue and what is archived.
LEMMA CatalogueStep == ASSUME CatalogueTypes, [Next]_vars PROVE CatalogueTypes' /\ CatalogueFrozen
<1>1. ASSUME UNCHANGED catalogue, roles' \in [Users -> SUBSET Roles]
      PROVE  CatalogueTypes' /\ CatalogueFrozen
  BY <1>1 DEF catalogue, CatalogueTypes, CatalogueFrozen, Frozen, Created
<1>2. ASSUME Catalogue PROVE CatalogueTypes' /\ CatalogueFrozen
  <2>1. UNCHANGED roles
    BY <1>2 DEF Catalogue, CreateTerm, UpdateTerm, ArchiveTerm, SetTerms, CreateSubject,
       UpdateSubject, ArchiveSubject, SetSubjects, CreateCourse, UpdateCourse, ArchiveCourse,
       SetCourses, CreateClass, UpdateClass, ArchiveClass, SetClasses
  <2>2. TermsChange \/ SubjectsChange \/ CoursesChange \/ ClassesChange
    BY <1>2, TermStep, SubjectStep, CourseStep, ClassStep DEF Catalogue
  <2>3. CASE TermsChange
    BY <2>1, <2>3 DEF TermsChange, CatalogueTypes, CatalogueFrozen, Frozen, Created
  <2>4. CASE SubjectsChange
    BY <2>1, <2>4 DEF SubjectsChange, CatalogueTypes, CatalogueFrozen, Frozen, Created
  <2>5. CASE CoursesChange
    BY <2>1, <2>5 DEF CoursesChange, CatalogueTypes, CatalogueFrozen, Frozen, Created
  <2>6. CASE ClassesChange
    BY <2>1, <2>6 DEF ClassesChange, CatalogueTypes, CatalogueFrozen, Frozen, Created
  <2>. QED
    BY <2>2, <2>3, <2>4, <2>5, <2>6
<1>3. ASSUME Rosters PROVE UNCHANGED <<catalogue, roles>>
  BY <1>3 DEF Rosters, UnenrollStudent, RemoveClassTeacher, CheckRow, WriteRow, WriteAudit,
     EnrollStudent, AddClassTeacher, BulkEnrollStudents, BulkAssignTeachers, Start
<1>4. ASSUME NEW u \in Users, NEW granted \in SUBSET Roles, ChangeRoles(u, granted)
      PROVE  UNCHANGED catalogue /\ roles' \in [Users -> SUBSET Roles]
  BY <1>4 DEF ChangeRoles, CatalogueTypes
<1>5. CASE UNCHANGED vars
  BY <1>1, <1>5 DEF vars, CatalogueTypes
<1>. QED
  BY <1>1, <1>2, <1>3, <1>4, <1>5 DEF Next, CatalogueTypes

-----------------------------------------------------------------------------
(* The reports of roster requests *)

Added(q) == {i \in DOMAIN q.report : q.report[i] = "added"}

\* The counts of a request agree with its report, and the report is complete
\* when the request has left its loop.
WellCounted(q) ==
    /\ Len(q.report) <= Len(q.users)
    /\ q.pc = "idle" => q.report = << >>
    /\ q.pc # "idle" => q.op \in Operations /\ q.class \in Classes
    /\ q.pc \in {"check", "write"} => Len(q.report) < Len(q.users)
    /\ q.pc \in {"audit", "ok", "error"} => Len(q.report) = Len(q.users)
    /\ q.pc \in {"write", "audit"} => ~q.dry
    /\ ~q.dry => q.added + q.failed = Len(q.report)
    /\ IsFiniteSet(Added(q)) /\ Cardinality(Added(q)) = q.added
    /\ q.dry => Added(q) = {}

\* What the next outcome makes of request q, in its loop or leaving it.
OneMore(q, outcome, p) ==
    /\ p \in Request /\ WellCounted(p) /\ p.pc \notin {"idle", "write"}
    /\ p.op = q.op /\ p.class = q.class /\ p.users = q.users /\ p.dry = q.dry
    /\ Len(q.report) + 1 \in 1..Len(q.users) /\ Len(q.report) + 1 \notin Added(q)
    /\ outcome = "added" => Added(p) = Added(q) \cup {Len(q.report) + 1}
    /\ outcome # "added" => Added(p) = Added(q)

LEMMA CountedFacts ==
    ASSUME NEW q \in Request, WellCounted(q), q.pc \in {"check", "write"},
           NEW outcome \in Reports,
           outcome = "added" => ~q.dry, outcome = "valid" => q.dry
    PROVE  OneMore(q, outcome, AfterRow(Counted(q, outcome)))
<1>. DEFINE n == Len(q.report) + 1
            c == Counted(q, outcome)
            p == AfterRow(c)
<1>1. /\ q.report \in Seq(Reports) /\ q.users \in Seq(Users) /\ Len(q.report) \in Nat
      /\ Len(q.users) \in Nat /\ Len(q.report) < Len(q.users)
      /\ q.added \in Nat /\ q.failed \in Nat /\ q.dry \in BOOLEAN
      /\ q.op \in Operations /\ q.class \in Classes
  BY DEF Request, WellCounted
<1>2. /\ c.report = Append(q.report, outcome)
      /\ c.added = IF outcome = "added" THEN q.added + 1 ELSE q.added
      /\ c.failed = IF outcome = "error" THEN q.failed + 1 ELSE q.failed
      /\ c.op = q.op /\ c.class = q.class /\ c.users = q.users /\ c.dry = q.dry
      /\ c \in Request
  <2>. DEFINE report == Append(q.report, outcome)
              added == IF outcome = "added" THEN q.added + 1 ELSE q.added
              failed == IF outcome = "error" THEN q.failed + 1 ELSE q.failed
  <2>1. report \in Seq(Reports) /\ added \in Nat /\ failed \in Nat
    BY <1>1
  <2>2. c = [q EXCEPT !.report = report, !.added = added, !.failed = failed]
    BY DEF Counted
  <2>. HIDE DEF report, added, failed, c
  <2>3. /\ c.report = report /\ c.added = added /\ c.failed = failed
        /\ c.op = q.op /\ c.class = q.class /\ c.users = q.users /\ c.dry = q.dry
        /\ c \in Request
    BY <2>1, <2>2 DEF Request
  <2>. QED
    BY <2>3 DEF report, added, failed
<1>3. /\ Append(q.report, outcome) \in Seq(Reports) /\ Len(Append(q.report, outcome)) = n
      /\ Append(q.report, outcome)[n] = outcome
      /\ \A i \in 1..Len(q.report) : Append(q.report, outcome)[i] = q.report[i]
  BY <1>1
<1>. HIDE DEF c
<1>4. /\ p.report = c.report /\ p.added = c.added /\ p.failed = c.failed
      /\ p.op = c.op /\ p.class = c.class /\ p.users = c.users /\ p.dry = c.dry
      /\ p.pc = IF Len(c.report) < Len(c.users) THEN "check"
                ELSE IF c.op \in Bulk THEN IF c.dry THEN "ok" ELSE "audit"
                ELSE IF c.failed = 0 THEN "ok" ELSE "error"
      /\ p \in Request
  BY <1>2 DEF AfterRow, Request, Pcs
<1>. HIDE DEF p
<1>5. /\ Added(p) = Added(q) \cup (IF outcome = "added" THEN {n} ELSE {})
      /\ n \notin Added(q)
  BY <1>1, <1>2, <1>3, <1>4 DEF Added
<1>6. IsFiniteSet(Added(p)) /\ Cardinality(Added(p)) = p.added
  <2>1. IsFiniteSet(Added(q)) /\ Cardinality(Added(q)) = q.added
    BY DEF WellCounted
  <2>2. CASE outcome = "added"
    BY <1>2, <1>4, <1>5, <2>1, <2>2, FS_AddElement
  <2>3. CASE outcome # "added"
    BY <1>2, <1>4, <1>5, <2>1, <2>3
  <2>. QED
    BY <2>2, <2>3
<1>7. ~p.dry => p.added + p.failed = Len(p.report)
  <2>1. ~q.dry => q.added + q.failed = Len(q.report)
    BY DEF WellCounted
  <2>. QED
    BY <1>1, <1>2, <1>3, <1>4, <2>1 DEF Reports
<1>8. p.dry => Added(p) = {}
  <2>1. q.dry => Added(q) = {}
    BY DEF WellCounted
  <2>. QED
    BY <1>2, <1>4, <1>5, <2>1
<1>9. /\ Len(p.report) <= Len(p.users) /\ p.op \in Operations /\ p.class \in Classes
      /\ p.pc = "check" => Len(p.report) < Len(p.users)
      /\ p.pc \in {"audit", "ok", "error"} => Len(p.report) = Len(p.users)
      /\ p.pc \in {"check", "audit", "ok", "error"}
      /\ p.pc = "audit" => ~p.dry
  BY <1>1, <1>2, <1>3, <1>4
<1>10. WellCounted(p)
  BY <1>6, <1>7, <1>8, <1>9 DEF WellCounted
<1>11. OneMore(q, outcome, p)
  BY <1>1, <1>2, <1>4, <1>5, <1>9, <1>10 DEF OneMore
<1>. QED
  BY <1>11 DEF p, c

-----------------------------------------------------------------------------
(* The rows of the rosters *)

\* Rows stay, with the request that inserted them, and new rows are those of r.
Grown(old, new, r) ==
    /\ Created(old) \subseteq Created(new)
    /\ \A m \in Created(old) : new[m].by = old[m].by
    /\ \A m \in Created(new) \ Created(old) : new[m].by = r

Retired(old, new) == \A m \in Created(old) \ Live(old) : m \notin Live(new)

RosterOf(op) == IF op \in Enrolling THEN enrollments ELSE teachers

\* The users a request reports as added are in the roster with a row of this
\* request, a different one for each.
RowsMatch(r) ==
    /\ req[r].pc = "idle" \/ req[r].dry => InsertedBy(r) = {}
    /\ \A i \in Added(req[r]) :
          /\ Member(req[r].class, req[r].users[i]) \in Created(RosterOf(req[r].op))
          /\ RosterOf(req[r].op)[Member(req[r].class, req[r].users[i])].by = r
    /\ \A i, j \in Added(req[r]) : req[r].users[i] = req[r].users[j] => i = j

AuditExact ==
    \A a \in audit : \A r \in Requests : a.req = r =>
       /\ req[r].pc \in {"ok", "error"} /\ ~req[r].dry
       /\ a.added = req[r].added /\ a.failed = req[r].failed /\ a.total = Len(req[r].users)

RosterInv ==
    /\ RosterTypes /\ AuditExact
    /\ \A r \in Requests : WellCounted(req[r]) /\ RowsMatch(r)

\* A row inserted by another request changes nothing for this one.
LEMMA OthersKeep ==
    ASSUME NEW r, NEW o, r # o, RowsMatch(o),
           Grown(enrollments, enrollments', r), Grown(teachers, teachers', r),
           req'[o] = req[o]
    PROVE  RowsMatch(o)'
<1>1. InsertedBy(o)' = InsertedBy(o)
  BY DEF InsertedBy, Grown
<1>2. ASSUME NEW i \in Added(req[o])
      PROVE  /\ Member(req[o].class, req[o].users[i]) \in Created(RosterOf(req[o].op))'
             /\ RosterOf(req[o].op)'[Member(req[o].class, req[o].users[i])].by = o
  <2>. DEFINE m == Member(req[o].class, req[o].users[i])
  <2>1. m \in Created(RosterOf(req[o].op)) /\ RosterOf(req[o].op)[m].by = o
    BY <1>2 DEF RowsMatch
  <2>2. RosterOf(req[o].op)' = IF req[o].op \in Enrolling THEN enrollments' ELSE teachers'
    BY DEF RosterOf
  <2>3. m' = m
    OBVIOUS
  <2>. HIDE DEF m
  <2>4. CASE req[o].op \in Enrolling
    <3>1. m \in Created(enrollments) /\ enrollments[m].by = o
      BY <2>1, <2>4 DEF RosterOf
    <3>2. m \in Created(enrollments') /\ enrollments'[m].by = o
      BY <3>1 DEF Grown
    <3>. QED
      BY <2>2, <2>3, <2>4, <3>2 DEF m, Created
  <2>5. CASE req[o].op \notin Enrolling
    <3>1. m \in Created(teachers) /\ teachers[m].by = o
      BY <2>1, <2>5 DEF RosterOf
    <3>2. m \in Created(teachers') /\ teachers'[m].by = o
      BY <3>1 DEF Grown
    <3>. QED
      BY <2>2, <2>3, <2>5, <3>2 DEF m, Created
  <2>. QED
    BY <2>4, <2>5
<1>3. Added(req[o])' = Added(req[o])
  BY DEF Added
<1>. QED
  BY <1>1, <1>2, <1>3 DEF RowsMatch

\* A table that does not change has grown.
LEMMA Unchanged ==
    ASSUME NEW table, NEW r PROVE Grown(table, table, r) /\ Retired(table, table)
BY DEF Grown, Retired

\* Archiving a row of a roster, or a row that is not there.
LEMMA RosterArchive ==
    ASSUME NEW table \in Table(Members, RosterRows), NEW m, NEW r
    PROVE  /\ Archive(table, m) \in Table(Members, RosterRows)
           /\ Grown(table, Archive(table, m), r) /\ Retired(table, Archive(table, m))
<1>1. None \notin RosterRows
  BY NoneAssumption
<1>2. \A row \in RosterRows : [row EXCEPT !.status = "ARCHIVED"] \in RosterRows
  BY RowsArchive
<1>3. /\ Archive(table, m) \in Table(Members, RosterRows)
      /\ Created(Archive(table, m)) = Created(table)
      /\ \A y \in Created(table) :
            /\ y \notin Live(table) => Archive(table, m)[y] = table[y]
            /\ Archive(table, m)[y] = table[y]
               \/ Archive(table, m)[y] = [table[y] EXCEPT !.status = "ARCHIVED"]
  BY <1>1, <1>2, ArchiveFacts
<1>4. \A y \in Created(table) : Archive(table, m)[y].by = table[y].by
  <2>1. \A y \in Created(table) : table[y] \in RosterRows
    BY DEF Table, Created
  <2>2. \A row \in RosterRows : [row EXCEPT !.status = "ARCHIVED"].by = row.by
    BY DEF RosterRows
  <2>. QED
    BY <1>3, <2>1, <2>2
<1>. HIDE DEF Archive
<1>. QED
  BY <1>3, <1>4 DEF Grown, Retired, Live

\* Inserting a row of request r.
Insert(table, m, r) == [table EXCEPT ![m] = RosterRow(r)]

LEMMA RosterInsert ==
    ASSUME NEW table \in Table(Members, RosterRows), NEW m \in Members,
           m \notin Created(table), NEW r \in Requests
    PROVE  /\ Insert(table, m, r) \in Table(Members, RosterRows)
           /\ Grown(table, Insert(table, m, r), r) /\ Retired(table, Insert(table, m, r))
           /\ m \in Created(Insert(table, m, r)) /\ Insert(table, m, r)[m].by = r
<1>. DEFINE new == Insert(table, m, r)
<1>1. RosterRow(r) \in RosterRows /\ RosterRow(r).by = r /\ None \notin RosterRows
  BY NoneAssumption DEF RosterRow, RosterRows, Statuses
<1>2. /\ new \in Table(Members, RosterRows) /\ Created(new) = Created(table) \cup {m}
      /\ new[m] = RosterRow(r) /\ \A y \in Members \ {m} : new[y] = table[y]
  <2>. DEFINE row == RosterRow(r)
  <2>1. row \in RosterRows /\ new = [table EXCEPT ![m] = row]
    BY <1>1 DEF Insert
  <2>. HIDE DEF row, new
  <2>2. /\ new \in Table(Members, RosterRows) /\ Created(new) = Created(table) \cup {m}
        /\ new[m] = row /\ \A y \in Members \ {m} : new[y] = table[y]
    BY <1>1, <2>1 DEF Table, Created
  <2>. QED
    BY <2>2 DEF row
<1>3. Created(table) \subseteq Members
  BY DEF Created, Table
<1>. HIDE DEF new
<1>4. /\ Grown(table, new, r) /\ Retired(table, new)
      /\ m \in Created(new) /\ new[m].by = r
  BY <1>1, <1>2, <1>3 DEF Grown, Retired, Live, Created
<1>. QED
  BY <1>2, <1>4 DEF new

\* What the steps of the rosters do: request r, if any, changes itself and
\* inserts rows of its own.
RostersChange(r) ==
    /\ enrollments' \in Table(Members, RosterRows) /\ teachers' \in Table(Members, RosterRows)
    /\ Grown(enrollments, enrollments', r) /\ Grown(teachers, teachers', r)
    /\ Retired(enrollments, enrollments') /\ Retired(teachers, teachers')

\* It is enough to look at the request that moves.
LEMMA OneMoves ==
    ASSUME RosterInv, NEW r \in Requests, RostersChange(r), NEW q \in Request,
           req' = [req EXCEPT ![r] = q], WellCounted(q), RowsMatch(r)', AuditExact'
    PROVE  RosterInv'
<1>1. req \in [Requests -> Request]
  BY DEF RosterInv, RosterTypes
<1>2. RosterTypes'
  BY <1>1 DEF RosterTypes, RostersChange
<1>3. ASSUME NEW o \in Requests, o # r PROVE WellCounted(req[o])' /\ RowsMatch(o)'
  <2>1. req'[o] = req[o] /\ RowsMatch(o) /\ WellCounted(req[o])
    BY <1>1, <1>3 DEF RosterInv
  <2>2. RowsMatch(o)'
    BY <1>3, <2>1, OthersKeep DEF RostersChange
  <2>. QED
    BY <2>1, <2>2 DEF WellCounted, Added
<1>4. req'[r] = q
  BY <1>1
<1>5. WellCounted(req[r])'
  BY <1>4 DEF WellCounted, Added
<1>. QED
  BY <1>2, <1>3, <1>5 DEF RosterInv

\* The audit entries of the other requests, and of a request that has none yet.
LEMMA AuditKept ==
    ASSUME RosterInv, NEW r \in Requests, req[r].pc \notin {"ok", "error"}, NEW q,
           req' = [req EXCEPT ![r] = q], UNCHANGED audit
    PROVE  AuditExact'
BY DEF RosterInv, RosterTypes, AuditExact

-----------------------------------------------------------------------------
(* The steps of the rosters *)

\* Nothing of the rosters moves.
LEMMA RosterStill ==
    ASSUME RosterInv, UNCHANGED <<rosters, req, audit>>
    PROVE  RosterInv' /\ Retired(enrollments, enrollments') /\ Retired(teachers, teachers')
<1>1. UNCHANGED <<teachers, enrollments, req, audit>>
  BY DEF rosters
<1>2. RosterTypes'
  BY <1>1 DEF RosterInv, RosterTypes
<1>3. AuditExact'
  BY <1>1 DEF RosterInv, AuditExact
<1>4. ASSUME NEW r \in Requests PROVE WellCounted(req[r])' /\ RowsMatch(r)'
  <2>1. WellCounted(req[r])'
    BY <1>1 DEF RosterInv, WellCounted, Added
  <2>2. InsertedBy(r)' = InsertedBy(r)
    BY <1>1 DEF InsertedBy, Created
  <2>3. RowsMatch(r)'
    BY <1>1, <2>2 DEF RosterInv, RowsMatch, Added, RosterOf, Created
  <2>. QED
    BY <2>1, <2>3
<1>. QED
  BY <1>1, <1>2, <1>3, <1>4 DEF RosterInv, Retired

RosterEffect == RosterInv' /\ Retired(enrollments, enrollments') /\ Retired(teachers, teachers')

\* A new request has an empty report and no row.
LEMMA StartStep ==
    ASSUME RosterInv, NEW r \in Requests, NEW op \in Operations, NEW k \in Classes,
           NEW users \in Seq(Users), Len(users) > 0, NEW dry \in BOOLEAN,
           Start(r, op, k, users, dry)
    PROVE  RosterEffect
<1>. DEFINE q == [Idle EXCEPT !.op = op, !.class = k, !.users = users, !.dry = dry,
                              !.pc = "check"]
<1>1. /\ q.op = op /\ q.class = k /\ q.users = users /\ q.dry = dry /\ q.pc = "check"
      /\ q.report = << >> /\ q.added = 0 /\ q.failed = 0
      /\ q \in Request
  <2>1. Idle \in Request /\ Idle.report = << >> /\ Idle.added = 0 /\ Idle.failed = 0
    <3>1. << >> \in Seq(Reports) /\ << >> \in Seq(Users) /\ FALSE \in BOOLEAN
      OBVIOUS
    <3>. QED
      BY <3>1 DEF Idle, Request, Pcs
  <2>. QED
    BY <2>1 DEF Request, Pcs
<1>2. /\ req[r].pc = "idle" /\ req' = [req EXCEPT ![r] = q]
      /\ UNCHANGED <<enrollments, teachers, audit>>
  BY DEF Start, rosters
<1>. HIDE DEF q
<1>3. Added(q) = {}
  BY <1>1 DEF Added
<1>4. WellCounted(q)
  BY <1>1, <1>3, FS_EmptySet DEF WellCounted
<1>5. req'[r] = q
  BY <1>2 DEF RosterInv, RosterTypes
<1>6. RowsMatch(r)'
  <2>1. InsertedBy(r) = {}
    BY <1>2 DEF RosterInv, RowsMatch
  <2>2. InsertedBy(r)' = {}
    BY <1>2, <2>1 DEF InsertedBy, Created
  <2>3. Added(req[r])' = {}
    BY <1>3, <1>5 DEF Added
  <2>. QED
    BY <2>2, <2>3 DEF RowsMatch
<1>7. RostersChange(r)
  BY <1>2, Unchanged DEF RostersChange, RosterInv, RosterTypes
<1>8. AuditExact'
  BY <1>2, AuditKept
<1>. QED
  BY <1>1, <1>2, <1>4, <1>6, <1>7, <1>8, OneMoves DEF RosterEffect, RostersChange

\* A row that inserts nothing: it is refused, or it is the row of a dry run.
LEMMA AnswerStep ==
    ASSUME RosterInv, NEW r \in Requests, req[r].pc \in {"check", "write"},
           NEW outcome \in {"error", "valid"}, outcome = "valid" => req[r].dry,
           Answer(r, outcome), UNCHANGED <<enrollments, teachers, audit>>
    PROVE  RosterEffect
<1>. DEFINE q == req[r]
            p == AfterRow(Counted(q, outcome))
<1>1. q \in Request /\ WellCounted(q) /\ RowsMatch(r) /\ req \in [Requests -> Request]
  BY DEF RosterInv, RosterTypes
<1>2. outcome \in Reports /\ outcome # "added"
  BY DEF Reports
<1>3. OneMore(q, outcome, p)
  BY <1>1, <1>2, CountedFacts
<1>4. req' = [req EXCEPT ![r] = p]
  BY DEF Answer
<1>. HIDE DEF p
<1>5. req'[r] = p
  BY <1>1, <1>4
<1>6. RowsMatch(r)'
  <2>1. Added(req[r])' = Added(req[r])
    BY <1>2, <1>3, <1>5 DEF Added, OneMore
  <2>2. InsertedBy(r)' = InsertedBy(r)
    BY DEF InsertedBy, Created
  <2>. QED
    BY <1>1, <1>3, <1>5, <2>1, <2>2 DEF RowsMatch, RosterOf, Created, OneMore
<1>7. RostersChange(r)
  BY Unchanged DEF RostersChange, RosterInv, RosterTypes
<1>8. AuditExact'
  BY <1>4, AuditKept
<1>9. p \in Request /\ WellCounted(p)
  BY <1>3 DEF OneMore
<1>. QED
  BY <1>4, <1>6, <1>7, <1>8, <1>9, OneMoves DEF RosterEffect, RostersChange

\* The check of a row may also send the request on to its transaction.
LEMMA CheckStep ==
    ASSUME RosterInv, NEW r \in Requests, CheckRow(r) PROVE RosterEffect
<1>1. req[r].pc = "check" /\ UNCHANGED <<enrollments, teachers, audit>>
  BY DEF CheckRow, rosters
<1>2. CASE Answer(r, "error")
  BY <1>1, <1>2, AnswerStep
<1>3. CASE req[r].dry /\ Answer(r, "valid")
  BY <1>1, <1>3, AnswerStep
<1>4. CASE ~req[r].dry /\ req' = [req EXCEPT ![r].pc = "write"]
  <2>. DEFINE p == [req[r] EXCEPT !.pc = "write"]
  <2>1. /\ req \in [Requests -> Request] /\ req[r] \in Request /\ WellCounted(req[r])
        /\ RowsMatch(r)
    BY DEF RosterInv, RosterTypes
  <2>2. /\ p \in Request /\ p.op = req[r].op /\ p.class = req[r].class
        /\ p.users = req[r].users /\ p.dry = req[r].dry /\ p.report = req[r].report
        /\ p.added = req[r].added /\ p.failed = req[r].failed /\ p.pc = "write"
    BY <2>1 DEF Request, Pcs
  <2>3. req' = [req EXCEPT ![r] = p]
    BY <1>4
  <2>. HIDE DEF p
  <2>4. req'[r] = p /\ Added(p) = Added(req[r])
    BY <2>1, <2>2, <2>3 DEF Added
  <2>5. WellCounted(p)
    BY <1>1, <1>4, <2>1, <2>2, <2>4 DEF WellCounted
  <2>6. RowsMatch(r)'
    <3>1. Added(req[r])' = Added(req[r])
      BY <2>4 DEF Added
    <3>2. InsertedBy(r)' = InsertedBy(r)
      BY <1>1 DEF InsertedBy, Created
    <3>. QED
      BY <1>1, <1>4, <2>1, <2>2, <2>4, <3>1, <3>2 DEF RowsMatch, RosterOf, Created
  <2>7. RostersChange(r)
    BY <1>1, Unchanged DEF RostersChange, RosterInv, RosterTypes
  <2>8. AuditExact'
    BY <1>1, <2>3, AuditKept
  <2>. QED
    BY <2>2, <2>3, <2>5, <2>6, <2>7, <2>8, OneMoves DEF RosterEffect, RostersChange
<1>. QED
  BY <1>2, <1>3, <1>4 DEF CheckRow

\* The row of this user goes into a roster, and no row reported before is
\* another row of the same user: that one would have taken the unique key.
LEMMA InsertStep ==
    ASSUME RosterInv, NEW r \in Requests, req[r].pc = "write",
           InsertRow(r, req[r].class, Row(req[r])), UNCHANGED audit
    PROVE  RosterEffect
<1>. DEFINE q == req[r]
            n == Len(q.report) + 1
            m == Member(q.class, Row(q))
<1>1. /\ q \in Request /\ WellCounted(q) /\ RowsMatch(r) /\ req \in [Requests -> Request]
      /\ enrollments \in Table(Members, RosterRows) /\ teachers \in Table(Members, RosterRows)
  BY DEF RosterInv, RosterTypes
<1>2. ~q.dry /\ n \in 1..Len(q.users) /\ q.class \in Classes /\ q.users \in Seq(Users)
  BY <1>1 DEF WellCounted, Request
<1>3. Row(q) = q.users[n] /\ Row(q) \in Users
  BY <1>2 DEF Row
<1>4. m \in Members
  BY <1>2, <1>3 DEF Members, Member
<1>5. PICK outcome \in {"added", "error"} : Answer(r, outcome)
  BY DEF InsertRow
<1>. DEFINE p == AfterRow(Counted(q, outcome))
<1>6. OneMore(q, outcome, p)
  BY <1>1, <1>2, CountedFacts DEF Reports
<1>7. req' = [req EXCEPT ![r] = p]
  BY <1>5 DEF Answer
<1>. HIDE DEF p
<1>8. req'[r] = p
  BY <1>1, <1>7
<1>. PICK op : op = q.op
  OBVIOUS
<1>9. /\ m \notin Created(RosterOf(op))
      /\ RostersChange(r)
      /\ m \in Created(RosterOf(op)') /\ RosterOf(op)'[m].by = r
  <2>1. CASE op \in Enrolling
    <3>1. /\ m \notin Created(enrollments) /\ UNCHANGED teachers
          /\ enrollments' = Insert(enrollments, m, r)
      BY <2>1 DEF InsertRow, EnrollStudentRow, Insert
    <3>. HIDE DEF m
    <3>2. /\ enrollments' \in Table(Members, RosterRows)
          /\ Grown(enrollments, enrollments', r) /\ Retired(enrollments, enrollments')
          /\ m \in Created(enrollments') /\ enrollments'[m].by = r
      BY <1>1, <1>4, <3>1, RosterInsert
    <3>. QED
      BY <1>1, <2>1, <3>1, <3>2, Unchanged DEF RostersChange, RosterOf
  <2>2. CASE op \notin Enrolling
    <3>1. /\ m \notin Created(teachers) /\ UNCHANGED enrollments
          /\ teachers' = Insert(teachers, m, r)
      BY <2>2 DEF InsertRow, AddClassTeacherRow, Insert
    <3>. HIDE DEF m
    <3>2. /\ teachers' \in Table(Members, RosterRows)
          /\ Grown(teachers, teachers', r) /\ Retired(teachers, teachers')
          /\ m \in Created(teachers') /\ teachers'[m].by = r
      BY <1>1, <1>4, <3>1, RosterInsert
    <3>. QED
      BY <1>1, <2>2, <3>1, <3>2, Unchanged DEF RostersChange, RosterOf
  <2>. QED
    BY <2>1, <2>2
<1>10. /\ p.pc # "idle" /\ ~p.dry /\ p.op = op /\ p.class = q.class /\ p.users = q.users
       /\ Added(p) \subseteq Added(q) \cup {n}
  BY <1>2, <1>6 DEF OneMore
<1>11. RowsMatch(r)'
  <2>1. ASSUME NEW i \in Added(p)
        PROVE  /\ Member(q.class, q.users[i]) \in Created(RosterOf(op)')
               /\ RosterOf(op)'[Member(q.class, q.users[i])].by = r
    <3>1. CASE i = n
      BY <1>3, <1>9, <3>1
    <3>2. CASE i \in Added(q)
      <4>1. /\ Member(q.class, q.users[i]) \in Created(RosterOf(op))
            /\ RosterOf(op)[Member(q.class, q.users[i])].by = r
        BY <1>1, <3>2 DEF RowsMatch
      <4>2. Grown(RosterOf(op), RosterOf(op)', r)
        BY <1>9 DEF RostersChange, RosterOf
      <4>. QED
        BY <4>1, <4>2 DEF Grown
    <3>. QED
      BY <1>10, <2>1, <3>1, <3>2
  <2>2. ASSUME NEW i \in Added(p), NEW j \in Added(p), q.users[i] = q.users[j]
        PROVE  i = j
    <3>1. \A x \in Added(q) : q.users[x] # q.users[n]
      <4>1. \A x \in Added(q) : Member(q.class, q.users[x]) \in Created(RosterOf(op))
        BY <1>1 DEF RowsMatch
      <4>. QED
        BY <1>3, <1>9, <4>1
    <3>2. \A x, y \in Added(q) : q.users[x] = q.users[y] => x = y
      BY <1>1 DEF RowsMatch
    <3>. QED
      BY <1>10, <2>2, <3>1, <3>2
  <2>3. /\ req'[r].op = op /\ req'[r].class = q.class /\ req'[r].users = q.users
        /\ req'[r].pc # "idle" /\ ~req'[r].dry /\ Added(req[r])' = Added(p)
    BY <1>8, <1>10 DEF Added
  <2>4. ASSUME NEW i \in Added(p)
        PROVE  /\ (Member(req[r].class, req[r].users[i]) \in Created(RosterOf(req[r].op)))'
               /\ (RosterOf(req[r].op)[Member(req[r].class, req[r].users[i])].by = r)'
    BY <2>1, <2>3 DEF RosterOf, Created
  <2>. QED
    BY <2>2, <2>3, <2>4 DEF RowsMatch
<1>12. AuditExact'
  BY <1>7, AuditKept
<1>13. p \in Request /\ WellCounted(p)
  BY <1>6 DEF OneMore
<1>. QED
  BY <1>7, <1>9, <1>11, <1>12, <1>13, OneMoves DEF RosterEffect, RostersChange

LEMMA WriteStep ==
    ASSUME RosterInv, NEW r \in Requests, WriteRow(r) PROVE RosterEffect
<1>1. CASE InsertRow(r, req[r].class, Row(req[r]))
  BY <1>1, InsertStep DEF WriteRow
<1>2. CASE RefuseRow(r)
  BY <1>2, AnswerStep DEF WriteRow, RefuseRow, rosters
<1>. QED
  BY <1>1, <1>2 DEF WriteRow

\* The entry of the audit log repeats the counts, which do not change again.
LEMMA AuditStep ==
    ASSUME RosterInv, NEW r \in Requests, WriteAudit(r) PROVE RosterEffect
<1>1. /\ req \in [Requests -> Request] /\ req[r] \in Request /\ WellCounted(req[r])
      /\ RowsMatch(r) /\ AuditExact
  BY DEF RosterInv, RosterTypes
<1>2. /\ req[r].pc = "audit" /\ UNCHANGED <<enrollments, teachers>>
      /\ audit' \in {audit, audit \cup {AuditEntry(r)}}
  BY DEF WriteAudit, rosters
<1>3. PICK pc \in {"ok", "error"} : req' = [req EXCEPT ![r].pc = pc]
  BY DEF WriteAudit
<1>. DEFINE p == [req[r] EXCEPT !.pc = pc]
<1>4. /\ p \in Request /\ p.op = req[r].op /\ p.class = req[r].class
      /\ p.users = req[r].users /\ p.dry = req[r].dry /\ p.report = req[r].report
      /\ p.added = req[r].added /\ p.failed = req[r].failed /\ p.pc = pc
  BY <1>1 DEF Request, Pcs
<1>5. req' = [req EXCEPT ![r] = p]
  BY <1>3
<1>. HIDE DEF p
<1>6. req'[r] = p /\ Added(p) = Added(req[r])
  BY <1>1, <1>4, <1>5 DEF Added
<1>7. WellCounted(p)
  BY <1>1, <1>2, <1>4, <1>6 DEF WellCounted
<1>8. RowsMatch(r)'
  <2>1. Added(req[r])' = Added(req[r])
    BY <1>6 DEF Added
  <2>2. InsertedBy(r)' = InsertedBy(r)
    BY <1>2 DEF InsertedBy, Created
  <2>. QED
    BY <1>1, <1>2, <1>4, <1>6, <2>1, <2>2 DEF RowsMatch, RosterOf, Created
<1>9. RostersChange(r)
  BY <1>2, Unchanged DEF RostersChange, RosterInv, RosterTypes
<1>10. AuditExact'
  <2>1. ~req[r].dry
    BY <1>1, <1>2 DEF WellCounted
  <2>2. ASSUME NEW a \in audit', NEW o \in Requests, a.req = o
        PROVE  /\ req'[o].pc \in {"ok", "error"} /\ ~req'[o].dry
               /\ a.added = req'[o].added /\ a.failed = req'[o].failed
               /\ a.total = Len(req'[o].users)
    <3>1. CASE a \in audit
      <4>1. o # r
        BY <1>1, <1>2, <2>2, <3>1 DEF AuditExact
      <4>. QED
        BY <1>1, <1>5, <2>2, <3>1, <4>1 DEF AuditExact
    <3>2. CASE a = AuditEntry(r)
      BY <1>3, <1>4, <1>6, <2>1, <2>2, <3>2 DEF AuditEntry
    <3>. QED
      BY <1>2, <2>2, <3>1, <3>2
  <2>. QED
    BY <2>2 DEF AuditExact
<1>. QED
  BY <1>4, <1>5, <1>7, <1>8, <1>9, <1>10, OneMoves DEF RosterEffect, RostersChange

\* A student or a teacher is removed: no request moves.
LEMMA RemoveStep ==
    ASSUME RosterInv, NEW k, NEW u, UnenrollStudent(k, u) \/ RemoveClassTeacher(k, u)
    PROVE  RosterEffect
<1>1. UNCHANGED <<req, audit>>
  BY DEF UnenrollStudent, RemoveClassTeacher
<1>2. ASSUME NEW r PROVE RostersChange(r)
  <2>1. enrollments \in Table(Members, RosterRows) /\ teachers \in Table(Members, RosterRows)
    BY DEF RosterInv, RosterTypes
  <2>2. CASE UnenrollStudent(k, u)
    BY <2>1, <2>2, RosterArchive, Unchanged DEF UnenrollStudent, RostersChange
  <2>3. CASE RemoveClassTeacher(k, u)
    BY <2>1, <2>3, RosterArchive, Unchanged DEF RemoveClassTeacher, RostersChange
  <2>. QED
    BY <2>2, <2>3
<1>3. ASSUME NEW o \in Requests PROVE WellCounted(req[o])' /\ RowsMatch(o)'
  <2>1. RowsMatch(o) /\ WellCounted(req[o])
    BY DEF RosterInv
  <2>2. PICK r \in {1, 2} : r # o
    OBVIOUS
  <2>3. RowsMatch(o)'
    BY <1>1, <1>2, <2>1, <2>2, OthersKeep DEF RostersChange
  <2>. QED
    BY <1>1, <2>1, <2>3 DEF WellCounted, Added
<1>4. RosterTypes' /\ AuditExact'
  BY <1>1, <1>2 DEF RosterInv, RosterTypes, RostersChange, AuditExact
<1>. QED
  BY <1>2, <1>3, <1>4 DEF RosterInv, RosterEffect, RostersChange

LEMMA RostersStep == ASSUME RosterInv, Rosters PROVE RosterEffect
<1>1. ASSUME NEW k \in Classes, NEW u \in Users, UnenrollStudent(k, u) \/ RemoveClassTeacher(k, u)
      PROVE  RosterEffect
  BY <1>1, RemoveStep
<1>2. ASSUME NEW r \in Requests, CheckRow(r) \/ WriteRow(r) \/ WriteAudit(r)
      PROVE  RosterEffect
  BY <1>2, CheckStep, WriteStep, AuditStep
<1>3. ASSUME NEW r \in Requests, NEW k \in Classes, NEW u \in Users,
             EnrollStudent(r, k, u) \/ AddClassTeacher(r, k, u)
      PROVE  RosterEffect
  <2>1. <<u>> \in Seq(Users) /\ Len(<<u>>) > 0 /\ FALSE \in BOOLEAN
    OBVIOUS
  <2>2. {"EnrollStudent", "AddClassTeacher"} \subseteq Operations
    BY DEF Operations, Enrolling, Bulk
  <2>. QED
    BY <1>3, <2>1, <2>2, StartStep DEF EnrollStudent, AddClassTeacher
<1>4. ASSUME NEW r \in Requests, NEW k \in Classes, NEW users \in Batches, NEW dry \in BOOLEAN,
             BulkEnrollStudents(r, k, users, dry) \/ BulkAssignTeachers(r, k, users, dry)
      PROVE  RosterEffect
  <2>1. users \in Seq(Users)
    BY BatchesAssumption
  <2>2. Len(users) > 0
    BY <1>4, <2>1, BoundsAssumption DEF BulkEnrollStudents, BulkAssignTeachers, BulkSize
  <2>3. Bulk \subseteq Operations
    BY DEF Operations
  <2>. QED
    BY <1>4, <2>1, <2>2, <2>3, StartStep DEF BulkEnrollStudents, BulkAssignTeachers, Bulk
<1>. QED
  BY <1>1, <1>2, <1>3, <1>4 DEF Rosters

-----------------------------------------------------------------------------
(* The theorems *)

IInv == CatalogueTypes /\ RosterInv

LEMMA InitInv == Init => IInv
<1>. SUFFICES ASSUME Init PROVE IInv
  OBVIOUS
<1>1. /\ Created(terms) = {} /\ Created(subjects) = {} /\ Created(courses) = {}
      /\ Created(classes) = {} /\ Created(teachers) = {} /\ Created(enrollments) = {}
  BY DEF Init, Created
<1>2. CatalogueTypes
  BY <1>1 DEF Init, CatalogueTypes, Table
<1>3. Idle \in Request /\ Idle.report = << >> /\ Idle.added = 0 /\ Idle.failed = 0
  <2>1. << >> \in Seq(Reports) /\ << >> \in Seq(Users) /\ FALSE \in BOOLEAN
    OBVIOUS
  <2>. QED
    BY <2>1 DEF Idle, Request, Pcs
<1>4. Idle.users = << >> /\ Idle.pc = "idle"
  BY DEF Idle
<1>5. Added(Idle) = {}
  BY <1>3 DEF Added
<1>6. ~Idle.dry
  BY DEF Idle
<1>7. WellCounted(Idle)
  BY <1>3, <1>4, <1>5, <1>6, FS_EmptySet DEF WellCounted
<1>8. \A r \in Requests : req[r] = Idle /\ InsertedBy(r) = {}
  BY <1>1 DEF Init, InsertedBy
<1>9. RosterTypes /\ AuditExact
  BY <1>3 DEF Init, RosterTypes, AuditExact, Table, Members
<1>. QED
  BY <1>2, <1>5, <1>7, <1>8, <1>9 DEF IInv, RosterInv, RowsMatch

\* What a step does: it keeps the invariant, and what is archived.
LEMMA InvStep ==
    ASSUME IInv, [Next]_vars
    PROVE  /\ IInv' /\ CatalogueFrozen
           /\ Retired(enrollments, enrollments') /\ Retired(teachers, teachers')
<1>1. CatalogueTypes' /\ CatalogueFrozen
  BY CatalogueStep DEF IInv
<1>2. ASSUME UNCHANGED <<rosters, req, audit>> PROVE RosterEffect
  BY <1>2, RosterStill DEF IInv, RosterEffect
<1>3. ASSUME Catalogue PROVE UNCHANGED <<rosters, req, audit>>
  BY <1>3 DEF Catalogue, CreateTerm, UpdateTerm, ArchiveTerm, SetTerms, CreateSubject,
     UpdateSubject, ArchiveSubject, SetSubjects, CreateCourse, UpdateCourse, ArchiveCourse,
     SetCourses, CreateClass, UpdateClass, ArchiveClass, SetClasses
<1>4. ASSUME NEW u \in Users, NEW granted \in SUBSET Roles, ChangeRoles(u, granted)
      PROVE  UNCHANGED <<rosters, req, audit>>
  BY <1>4 DEF ChangeRoles
<1>5. CASE UNCHANGED vars
  BY <1>1, <1>2, <1>5 DEF vars, RosterEffect, IInv
<1>6. CASE Rosters
  BY <1>1, <1>6, RostersStep DEF RosterEffect, IInv
<1>. QED
  BY <1>1, <1>2, <1>3, <1>4, <1>5, <1>6 DEF Next, RosterEffect, IInv

\* The invariant holds in every behaviour.
LEMMA Invariant == Spec => []IInv
BY InitInv, InvStep, PTL DEF Spec

\* Type correctness of the catalogue, the rosters and the requests; the
\* subject and the term of a course, and the course of a class, exist
\* (foreign keys of the schema).
THEOREM TypeCorrect == Spec => []TypeOK
<1>1. IInv => TypeOK
  BY DEF IInv, CatalogueTypes, RosterInv, RosterTypes, WellCounted, TypeOK, Members, Request, Pcs
<1>. QED
  BY <1>1, Invariant, PTL

\* No request brings back a row that left a list: archived terms, subjects,
\* courses and classes do not change again, and no request but one to add that
\* very user can bring back a student or a teacher who was removed from a class
\* (Update..., Archive... and the roster requests).
THEOREM ArchivedFinal == Spec => ArchivedIsFinal
<1>. DEFINE Step ==
        /\ \A t \in Created(terms) \ ListTerms : terms'[t] = terms[t]
        /\ \A s \in Created(subjects) \ ListSubjects : subjects'[s] = subjects[s]
        /\ \A c \in Created(courses) \ ListCourses : courses'[c] = courses[c]
        /\ \A k \in Created(classes) \ ListClassesAdmin : classes'[k] = classes[k]
        /\ \A k \in Classes, u \in Users :
              /\ Member(k, u) \in Created(enrollments) /\ u \notin ListEnrollments(k)
                    /\ u \in ListEnrollments(k)'
                 => Adding(k, u) \cap Enrolling # {}
              /\ Member(k, u) \in Created(teachers) /\ u \notin ListClassTeachers(k)
                    /\ k \in ListClassesForTeacher(u)'
                 => Adding(k, u) \ Enrolling # {}
<1>1. ASSUME IInv, [Next]_vars PROVE Step
  <2>1. /\ CatalogueFrozen
        /\ Retired(enrollments, enrollments') /\ Retired(teachers, teachers')
    BY <1>1, InvStep
  <2>2. /\ \A t \in Created(terms) \ ListTerms : terms'[t] = terms[t]
        /\ \A s \in Created(subjects) \ ListSubjects : subjects'[s] = subjects[s]
        /\ \A c \in Created(courses) \ ListCourses : courses'[c] = courses[c]
        /\ \A k \in Created(classes) \ ListClassesAdmin : classes'[k] = classes[k]
    BY <2>1 DEF CatalogueFrozen, Frozen, ListTerms, ListSubjects, ListCourses, ListClassesAdmin
  <2>3. ASSUME NEW k \in Classes, NEW u \in Users,
               Member(k, u) \in Created(enrollments), u \notin ListEnrollments(k)
        PROVE  u \notin ListEnrollments(k)'
    BY <2>1, <2>3 DEF Retired, ListEnrollments, Live, Created
  <2>4. ASSUME NEW k \in Classes, NEW u \in Users,
               Member(k, u) \in Created(teachers), u \notin ListClassTeachers(k)
        PROVE  k \notin ListClassesForTeacher(u)'
    BY <2>1, <2>4 DEF Retired, ListClassTeachers, ListClassesForTeacher, Live, Created
  <2>. QED
    BY <2>2, <2>3, <2>4
<1>2. IInv /\ [Next]_vars => [Step]_vars
  BY <1>1
<1>. QED
  BY <1>2, Invariant, PTL DEF Spec, ArchivedIsFinal

\* The report of a bulk request and its audit entry say what the request did
\* to the rosters, whatever other requests and removals run beside it
\* (BulkEnrollStudents, BulkAssignTeachers).
THEOREM ReportsExact == Spec => []BulkReportExact
<1>1. ASSUME IInv PROVE BulkReportExact
  <2>1. ASSUME NEW r \in Requests
        PROVE  Cardinality({Member(req[r].class, req[r].users[i]) : i \in Outcomes(r, "added")}
                              \cap InsertedBy(r)) = Cardinality(Outcomes(r, "added"))
    <3>. DEFINE A == Added(req[r])
                M(i) == Member(req[r].class, req[r].users[i])
                I == {M(i) : i \in A}
    <3>1. Outcomes(r, "added") = A
      BY DEF Outcomes, Added
    <3>2. RowsMatch(r) /\ WellCounted(req[r]) /\ req[r] \in Request
      BY <1>1 DEF IInv, RosterInv, RosterTypes
    <3>3. ASSUME NEW i \in A PROVE M(i) \in InsertedBy(r)
      <4>1. i \in 1..Len(req[r].users)
        BY <3>2 DEF Added, WellCounted, Request
      <4>2. req[r].class \in Classes
        <5>1. req[r].report # << >>
          BY DEF Added
        <5>. QED
          BY <3>2, <5>1 DEF WellCounted
      <4>3. M(i) \in Classes \X Users
        BY <3>2, <4>1, <4>2 DEF Request, Member
      <4>4. M(i) \in Created(RosterOf(req[r].op)) /\ RosterOf(req[r].op)[M(i)].by = r
        BY <3>2 DEF RowsMatch
      <4>. QED
        BY <4>3, <4>4 DEF InsertedBy, RosterOf
    <3>4. I \cap InsertedBy(r) = I
      BY <3>3
    <3>5. \A i, j \in A : M(i) = M(j) => i = j
      BY <3>2 DEF RowsMatch, Member
    <3>6. ExistsBijection(A, I)
      <4>. DEFINE f == [i \in A |-> M(i)]
      <4>1. f \in Bijection(A, I)
        BY <3>5 DEF Bijection, Injection, Surjection, IsInjective
      <4>. QED
        BY <4>1 DEF ExistsBijection
    <3>7. IsFiniteSet(A)
      BY <3>2 DEF WellCounted
    <3>8. Cardinality(I) = Cardinality(A)
      BY <3>6, <3>7, FS_Bijection
    <3>. QED
      BY <3>1, <3>4, <3>8
  <2>2. ASSUME NEW r \in Requests
        PROVE  /\ req[r].dry => InsertedBy(r) = {}
               /\ req[r].op \in Bulk /\ req[r].pc \in {"audit", "ok", "error"}
                     => Len(req[r].report) = Len(req[r].users)
    BY <1>1 DEF IInv, RosterInv, RowsMatch, WellCounted
  <2>3. ASSUME NEW r \in Requests, NEW a \in audit, a.req = r
        PROVE  /\ a.added = Cardinality(Outcomes(r, "added"))
               /\ a.added + a.failed = a.total
    <3>1. WellCounted(req[r])
      BY <1>1 DEF IInv, RosterInv
    <3>2. /\ req[r].pc \in {"ok", "error"} /\ ~req[r].dry
          /\ a.added = req[r].added /\ a.failed = req[r].failed
          /\ a.total = Len(req[r].users)
      BY <1>1, <2>3 DEF IInv, RosterInv, AuditExact
    <3>3. Outcomes(r, "added") = Added(req[r])
      BY DEF Outcomes, Added
    <3>. QED
      BY <3>1, <3>2, <3>3 DEF WellCounted
  <2>. QED
    BY <2>1, <2>2, <2>3 DEF BulkReportExact
<1>. QED
  BY <1>1, Invariant, PTL

=============================================================================
