------------------------------ MODULE Classes ------------------------------
(***************************************************************************)
(* The catalogue of an organization (terms, subjects, courses, class       *)
(* sections) and the two rosters of a class: its teachers and its          *)
(* enrolled students.                                                      *)
(*                                                                         *)
(* A catalogue request is one statement in a transaction of its own, and   *)
(* one that is refused changes nothing.  A roster request reads the        *)
(* membership of each user before the transaction that inserts the row; a  *)
(* bulk request repeats this for every row, goes on after a row that       *)
(* fails, and writes one audit entry at the end, in yet another            *)
(* transaction.  Archiving is an UPDATE of the status and nothing deletes  *)
(* a row, so the unique keys go on seeing archived rows.                   *)
(*                                                                         *)
(* Left out: names and descriptions, and the check that the caller is an   *)
(* administrator, which reads the access token only.                       *)
(***************************************************************************)
EXTENDS Integers, FiniteSets, Sequences

CONSTANTS Terms, Subjects, Courses, Classes, \* ids the database may hand out
          Users,           \* members of the organization
          Codes,           \* codes of subjects and courses
          Spans,           \* pairs of a start and an end date of a term
          Batches,         \* lists of users that bulk requests are sent with
          Requests,        \* concurrent roster requests
          maxBulkItems,    \* most rows of a bulk request
          MaxEdits,        \* bound of the catalogue and role changes
          None             \* no row

ASSUME SpansAssumption == Spans \subseteq Nat \X Nat
ASSUME BatchesAssumption == Batches \subseteq Seq(Users)
ASSUME BoundsAssumption == maxBulkItems \in Nat /\ MaxEdits \in Nat

Roles == {"student", "teacher"}
Statuses == {"ACTIVE", "ARCHIVED"}

\* The rows of the tables: no row is None.
TermRows == [status : Statuses, span : Spans]
SubjectRows == [status : Statuses, code : Codes]
CourseRows == [status : Statuses, code : Codes, subject : Subjects, term : Terms]
ClassRows == [status : Statuses, course : Courses]
RosterRows == [status : Statuses, by : Requests \cup {None}]

ASSUME NoneAssumption ==
    None \notin TermRows \cup SubjectRows \cup CourseRows \cup ClassRows \cup RosterRows

VARIABLES terms, subjects, courses, classes, \* catalogue tables, by id
          teachers, enrollments, \* class_teachers, enrollments, by class and user
          roles,           \* membership_roles, by user
          req,             \* roster requests under way or answered
          audit            \* entries of bulk requests

VARIABLE edits             \* history: catalogue and role changes

catalogue == <<terms, subjects, courses, classes>>
rosters == <<teachers, enrollments>>
vars == <<catalogue, rosters, roles, req, audit, edits>>

-----------------------------------------------------------------------------
(* Tables *)

Created(table) == {x \in DOMAIN table : table[x] # None}
Live(table) == {x \in Created(table) : table[x].status = "ACTIVE"}

\* UPDATE ... SET status = 'ARCHIVED' WHERE ... AND status = 'ACTIVE'
Archive(table, x) ==
    IF x \in Live(table) THEN [table EXCEPT ![x].status = "ARCHIVED"] ELSE table

\* UNIQUE (organization_id, code), whatever the status of the other rows.
CodeFree(table, x, code) ==
    \A y \in Created(table) \ {x} : table[y].code # code

ListTerms == Live(terms)
ListSubjects == Live(subjects)
ListCourses == Live(courses)

Member(k, u) == <<k, u>>
ListEnrollments(k) == {u \in Users : Member(k, u) \in Live(enrollments)}
ListClassTeachers(k) == {u \in Users : Member(k, u) \in Live(teachers)}

ListClassesAdmin == Live(classes)
ListClassesForTeacher(u) ==
    {k \in Live(classes) : Member(k, u) \in Live(teachers)}

TermRow(span) == [status |-> "ACTIVE", span |-> span]
SubjectRow(code) == [status |-> "ACTIVE", code |-> code]
CourseRow(code, s, t) ==
    [status |-> "ACTIVE", code |-> code, subject |-> s, term |-> t]
ClassRow(c) == [status |-> "ACTIVE", course |-> c]

-----------------------------------------------------------------------------
(* The statements of the catalogue *)

CreateTermRow(t, span) == [terms EXCEPT ![t] = TermRow(span)]
\* Mutant: the WHERE clause forgets the status.
UpdateAnyTermRow(t, span) ==
    IF t \in Created(terms) THEN [terms EXCEPT ![t].span = span] ELSE terms
UpdateTermRow(t, span) ==
    IF t \in Live(terms) THEN [terms EXCEPT ![t].span = span] ELSE terms
ArchiveTermRow(t) == Archive(terms, t)

CreateSubjectRow(s, code) == [subjects EXCEPT ![s] = SubjectRow(code)]
UpdateSubjectRow(s, code) ==
    IF s \in Live(subjects) THEN [subjects EXCEPT ![s].code = code] ELSE subjects
ArchiveSubjectRow(s) == Archive(subjects, s)

CreateCourseRow(c, code, s, t) == [courses EXCEPT ![c] = CourseRow(code, s, t)]
UpdateCourseRow(c, code, s, t) ==
    IF c \in Live(courses) THEN [courses EXCEPT ![c] = CourseRow(code, s, t)]
    ELSE courses
ArchiveCourseRow(c) == Archive(courses, c)

CreateClassRow(k, c) == [classes EXCEPT ![k] = ClassRow(c)]
UpdateClassRow(k, c) ==
    IF k \in Live(classes) THEN [classes EXCEPT ![k].course = c] ELSE classes
ArchiveClassRow(k) == Archive(classes, k)

-----------------------------------------------------------------------------
(* Catalogue requests *)

Edit == edits < MaxEdits /\ edits' = edits + 1

SetTerms(table) ==
    /\ Edit /\ terms' = table
    /\ UNCHANGED <<subjects, courses, classes, rosters, roles, req, audit>>
SetSubjects(table) ==
    /\ Edit /\ subjects' = table
    /\ UNCHANGED <<terms, courses, classes, rosters, roles, req, audit>>
SetCourses(table) ==
    /\ Edit /\ courses' = table
    /\ UNCHANGED <<terms, subjects, classes, rosters, roles, req, audit>>
SetClasses(table) ==
    /\ Edit /\ classes' = table
    /\ UNCHANGED <<terms, subjects, courses, rosters, roles, req, audit>>

CreateTerm(t, span) ==
    /\ span[2] > span[1] /\ t \notin Created(terms)
    /\ SetTerms(CreateTermRow(t, span))
UpdateTerm(t, span) ==
    /\ span[2] > span[1]
    /\ SetTerms(UpdateTermRow(t, span))
ArchiveTerm(t) == SetTerms(ArchiveTermRow(t))

CreateSubject(s, code) ==
    /\ s \notin Created(subjects) /\ CodeFree(subjects, s, code)
    /\ SetSubjects(CreateSubjectRow(s, code))
UpdateSubject(s, code) ==
    /\ CodeFree(subjects, s, code)
    /\ SetSubjects(UpdateSubjectRow(s, code))
ArchiveSubject(s) == SetSubjects(ArchiveSubjectRow(s))

\* Mutant: the subject is not looked up.
CreateCourseOfAnySubject(c, code, s, t) ==
    /\ c \notin Created(courses) /\ CodeFree(courses, c, code)
    /\ t \in Created(terms)
    /\ SetCourses(CreateCourseRow(c, code, s, t))

\* The foreign keys ask for the parent rows, not that they are ACTIVE.
CreateCourse(c, code, s, t) ==
    /\ c \notin Created(courses) /\ CodeFree(courses, c, code)
    /\ s \in Created(subjects) /\ t \in Created(terms)
    /\ SetCourses(CreateCourseRow(c, code, s, t))
UpdateCourse(c, code, s, t) ==
    /\ CodeFree(courses, c, code)
    /\ s \in Created(subjects) /\ t \in Created(terms)
    /\ SetCourses(UpdateCourseRow(c, code, s, t))
ArchiveCourse(c) == SetCourses(ArchiveCourseRow(c))

CreateClass(k, c) ==
    /\ k \notin Created(classes) /\ c \in Created(courses)
    /\ SetClasses(CreateClassRow(k, c))
UpdateClass(k, c) ==
    /\ c \in Created(courses)
    /\ SetClasses(UpdateClassRow(k, c))
ArchiveClass(k) == SetClasses(ArchiveClassRow(k))

\* UpdateUserRoles of the admin feature.
ChangeRoles(u, granted) ==
    /\ Edit /\ roles' = [roles EXCEPT ![u] = granted]
    /\ UNCHANGED <<catalogue, rosters, req, audit>>

Catalogue ==
    \/ \E t \in Terms : \/ ArchiveTerm(t)
                        \/ \E span \in Spans : CreateTerm(t, span) \/ UpdateTerm(t, span)
    \/ \E s \in Subjects :
          \/ ArchiveSubject(s)
          \/ \E code \in Codes : CreateSubject(s, code) \/ UpdateSubject(s, code)
    \/ \E c \in Courses :
          \/ ArchiveCourse(c)
          \/ \E code \in Codes, s \in Subjects, t \in Terms :
                CreateCourse(c, code, s, t) \/ UpdateCourse(c, code, s, t)
    \/ \E k \in Classes :
          \/ ArchiveClass(k)
          \/ \E c \in Courses : CreateClass(k, c) \/ UpdateClass(k, c)

-----------------------------------------------------------------------------
(* Roster requests *)

Enrolling == {"EnrollStudent", "BulkEnrollStudents"}
Bulk == {"BulkEnrollStudents", "BulkAssignTeachers"}
Operations == Enrolling \cup Bulk \cup {"AddClassTeacher"}

Idle == [op |-> None, class |-> None, users |-> << >>, dry |-> FALSE,
         report |-> << >>, added |-> 0, failed |-> 0, pc |-> "idle"]

Start(r, op, k, users, dry) ==
    /\ req[r].pc = "idle"
    /\ req' = [req EXCEPT ![r] = [Idle EXCEPT !.op = op, !.class = k, !.users = users,
                                              !.dry = dry, !.pc = "check"]]
    /\ UNCHANGED <<catalogue, rosters, roles, audit, edits>>

EnrollStudent(r, k, u) == Start(r, "EnrollStudent", k, <<u>>, FALSE)
AddClassTeacher(r, k, u) == Start(r, "AddClassTeacher", k, <<u>>, FALSE)

BulkSize(users) == Len(users) \in 1..maxBulkItems
ClassExists(k) == k \in Live(classes)
BulkEnrollStudents(r, k, users, dry) ==
    /\ BulkSize(users) /\ ClassExists(k)
    /\ Start(r, "BulkEnrollStudents", k, users, dry)
BulkAssignTeachers(r, k, users, dry) ==
    /\ BulkSize(users) /\ ClassExists(k)
    /\ Start(r, "BulkAssignTeachers", k, users, dry)

Row(q) == q.users[Len(q.report) + 1]

\* The row has its outcome: go on with the next one, or end the request.
Counted(q, outcome) ==
    [q EXCEPT !.report = Append(@, outcome),
              !.added = IF outcome = "added" THEN @ + 1 ELSE @,
              !.failed = IF outcome = "error" THEN @ + 1 ELSE @]
AfterRow(q) ==
    [q EXCEPT !.pc =
        IF Len(q.report) < Len(q.users) THEN "check"
        ELSE IF q.op \in Bulk THEN IF q.dry THEN "ok" ELSE "audit"
        ELSE IF q.failed = 0 THEN "ok" ELSE "error"]
Answer(r, outcome) ==
    req' = [req EXCEPT ![r] = AfterRow(Counted(@, outcome))]

\* AddClassTeacher takes any member; the others ask for a role.
RowAccepted(op, u) ==
    /\ op \in Enrolling => "student" \in roles[u]
    /\ op = "BulkAssignTeachers" => "teacher" \in roles[u]

\* The membership is read outside the transaction; the read may also fail.
CheckRow(r) ==
    /\ req[r].pc = "check"
    /\ \/ Answer(r, "error")
       \/ /\ RowAccepted(req[r].op, Row(req[r]))
          /\ IF req[r].dry THEN Answer(r, "valid")
             ELSE req' = [req EXCEPT ![r].pc = "write"]
    /\ UNCHANGED <<catalogue, rosters, roles, audit, edits>>

RosterRow(r) == [status |-> "ACTIVE", by |-> r]
EnrollStudentRow(k, u, r) == [enrollments EXCEPT ![Member(k, u)] = RosterRow(r)]
AddClassTeacherRow(k, u, r) == [teachers EXCEPT ![Member(k, u)] = RosterRow(r)]

\* The insert commits, and the reply to COMMIT may still be lost.
InsertRow(r, k, u) ==
    /\ k \in Created(classes)
    /\ \E outcome \in {"added", "error"} : Answer(r, outcome)
    /\ IF req[r].op \in Enrolling
       THEN /\ Member(k, u) \notin Created(enrollments)
            /\ enrollments' = EnrollStudentRow(k, u, r) /\ UNCHANGED teachers
       ELSE /\ Member(k, u) \notin Created(teachers)
            /\ teachers' = AddClassTeacherRow(k, u, r) /\ UNCHANGED enrollments

\* Mutant: INSERT ... ON CONFLICT DO NOTHING, counted as a success.
IgnoreDuplicate(r) ==
    (\E outcome \in {"added", "error"} : Answer(r, outcome)) /\ UNCHANGED rosters

\* A duplicate, a class that does not exist, or a database that fails: the
\* transaction is rolled back.
RefuseRow(r) == Answer(r, "error") /\ UNCHANGED rosters

WriteRow(r) ==
    /\ req[r].pc = "write"
    /\ InsertRow(r, req[r].class, Row(req[r])) \/ RefuseRow(r)
    /\ UNCHANGED <<catalogue, roles, audit, edits>>

AuditEntry(r) == [req |-> r, added |-> req[r].added, failed |-> req[r].failed,
                  total |-> Len(req[r].users)]

\* The rows stay when the entry cannot be written: the caller sees an error.
WriteAudit(r) ==
    /\ req[r].pc = "audit"
    /\ \/ audit' = audit \cup {AuditEntry(r)} /\ req' = [req EXCEPT ![r].pc = "ok"]
       \/ audit' \in {audit, audit \cup {AuditEntry(r)}}
          /\ req' = [req EXCEPT ![r].pc = "error"]
    /\ UNCHANGED <<catalogue, rosters, roles, edits>>

UnenrollStudent(k, u) ==
    /\ enrollments' = Archive(enrollments, Member(k, u))
    /\ UNCHANGED <<catalogue, teachers, roles, req, audit, edits>>
RemoveClassTeacher(k, u) ==
    /\ teachers' = Archive(teachers, Member(k, u))
    /\ UNCHANGED <<catalogue, enrollments, roles, req, audit, edits>>

Rosters ==
    \/ \E k \in Classes, u \in Users : UnenrollStudent(k, u) \/ RemoveClassTeacher(k, u)
    \/ \E r \in Requests :
          \/ CheckRow(r) \/ WriteRow(r) \/ WriteAudit(r)
          \/ \E k \in Classes : \/ \E u \in Users : EnrollStudent(r, k, u)
                                                    \/ AddClassTeacher(r, k, u)
                                \/ \E users \in Batches, dry \in BOOLEAN :
                                      \/ BulkEnrollStudents(r, k, users, dry)
                                      \/ BulkAssignTeachers(r, k, users, dry)

-----------------------------------------------------------------------------
\* An organization that has nothing yet.
Init ==
    /\ terms = [t \in Terms |-> None] /\ subjects = [s \in Subjects |-> None]
    /\ courses = [c \in Courses |-> None] /\ classes = [k \in Classes |-> None]
    /\ teachers = [m \in Classes \X Users |-> None]
    /\ enrollments = [m \in Classes \X Users |-> None]
    /\ roles \in [Users -> SUBSET Roles]
    /\ req = [r \in Requests |-> Idle] /\ audit = {} /\ edits = 0

Next == \/ Catalogue \/ Rosters
        \/ \E u \in Users, granted \in SUBSET Roles : ChangeRoles(u, granted)

Spec == Init /\ [][Next]_vars

-----------------------------------------------------------------------------
(* Properties *)

Table(Ids, Rows) == [Ids -> Rows \cup {None}]
Reports == {"added", "error", "valid"}

TypeOK ==
    /\ terms \in Table(Terms, TermRows) /\ subjects \in Table(Subjects, SubjectRows)
    /\ courses \in Table(Courses, CourseRows) /\ classes \in Table(Classes, ClassRows)
    /\ \A c \in Created(courses) : /\ courses[c].subject \in Created(subjects)
                                   /\ courses[c].term \in Created(terms)
    /\ \A k \in Created(classes) : classes[k].course \in Created(courses)
    /\ teachers \in Table(Classes \X Users, RosterRows)
    /\ enrollments \in Table(Classes \X Users, RosterRows)
    /\ roles \in [Users -> SUBSET Roles]
    /\ \A r \in Requests :
          /\ req[r].report \in Seq(Reports) /\ req[r].users \in Seq(Users)
          /\ Len(req[r].report) <= Len(req[r].users)
          /\ req[r].pc \in {"idle", "check", "write", "audit", "ok", "error"}

InsertedBy(r) == {m \in Classes \X Users : \E table \in {teachers, enrollments} :
                     m \in Created(table) /\ table[m].by = r}
Outcomes(r, outcome) == {i \in DOMAIN req[r].report : req[r].report[i] = outcome}

\* The report of a request tells the truth about the database: each user it
\* reports as added has a row that this very request inserted, no user is
\* reported as added twice, a dry run inserts nothing, every row of a
\* finished bulk request has an outcome, and an audit entry repeats the
\* counts of the report (BulkEnrollStudents, BulkAssignTeachers).
BulkReportExact ==
    \A r \in Requests :
       /\ Cardinality({Member(req[r].class, req[r].users[i]) : i \in Outcomes(r, "added")}
                         \cap InsertedBy(r)) = Cardinality(Outcomes(r, "added"))
       /\ req[r].dry => InsertedBy(r) = {}
       /\ req[r].op \in Bulk /\ req[r].pc \in {"audit", "ok", "error"}
             => Len(req[r].report) = Len(req[r].users)
       /\ \A a \in audit : a.req = r =>
             /\ a.added = Cardinality(Outcomes(r, "added"))
             /\ a.added + a.failed = a.total

Adding(k, u) == {req[r].op : r \in {q \in Requests :
                    req[q].pc = "write" /\ req[q].class = k /\ Row(req[q]) = u}}

\* What has left the lists of the catalogue never changes again and never comes
\* back, whatever an update that was sent before finds: an archived code stays
\* taken.  A student or teacher who was removed from a class is on its roster
\* again, if ever (the API document promises it, the unique key refuses it),
\* only by a request that is about to add that very user to that class.
ArchivedIsFinal ==
    [][ /\ \A t \in Created(terms) \ ListTerms : terms'[t] = terms[t]
        /\ \A s \in Created(subjects) \ ListSubjects : subjects'[s] = subjects[s]
        /\ \A c \in Created(courses) \ ListCourses : courses'[c] = courses[c]
        /\ \A k \in Created(classes) \ ListClassesAdmin : classes'[k] = classes[k]
        /\ \A k \in Classes, u \in Users :
              /\ Member(k, u) \in Created(enrollments) /\ u \notin ListEnrollments(k)
                    /\ u \in ListEnrollments(k)'
                 => Adding(k, u) \cap Enrolling # {}
              /\ Member(k, u) \in Created(teachers) /\ u \notin ListClassTeachers(k)
                    /\ k \in ListClassesForTeacher(u)'
                 => Adding(k, u) \ Enrolling # {} ]_vars

=============================================================================
