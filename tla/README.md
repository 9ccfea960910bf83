# A formal model of vts-edu

vts-edu is an assessment platform: a Go API over PostgreSQL
(`src/apps/api`), a React client (`src/apps/web`) and SQL migrations
(`src/supabase/migrations`). Teachers build and publish assessments, students
attempt them, teachers grade what cannot be graded automatically. The modules
here are TLA+ models of the parts of that system where requests meet: each is
translated from the Go services, the SQL they run and the row locks that
PostgreSQL takes for it.

- [1. The system](#1-the-system)
- [2. The plan](#2-the-plan)
- [3. The modules](#3-the-modules)
- [4. What TLC checks](#4-what-tlc-checks)
- [5. What is proved](#5-what-is-proved)
- [6. Where the code and its documents disagree](#6-where-the-code-and-its-documents-disagree)
- [7. What is not modelled](#7-what-is-not-modelled)

To check it: `tlc -config MCAttempts.cfg MCAttempts` and so on for the other
configurations; `tlapm AttemptsProofs.tla` and so on for `GradingAccountsFeedsProofs` (a few minutes), `SessionsProofs`,
`PublishingProofs`, `AuthoringProofs`, `ResourcesProofs`, `ClassesProofs` and `ExamClientProofs`.

## 1. The system

Every API feature has a handler (HTTP), a service (rules) and a repository
(SQL). All of them share the database, and they share nothing else: no feature
keeps state in memory except the rate limiter. A service either issues single
statements through the connection pool or runs a callback in `db.WithinTx`, a
READ COMMITTED transaction with a 15 second limit that commits when the
callback returns nil and rolls back when it returns an error. Reads inside such a
callback often go through the pool all the same, that is on another connection
with a snapshot of its own.

| component | state it keeps | operations that change it | interacts with |
|---|---|---|---|
| attempts (`features/attempts`) | `attempts`, `attempt_items`, `attempt_answers` | StartAttempt, SaveAnswer, SubmitAttempt | reads the publication snapshot; its rows are graded by grading, whose grades the result page shows |
| grading (`features/grading`) | `item_grades`, score and grading status of `attempts` | GradeItem | the same attempts row; notifications; audit log |
| auth (`features/auth`) | `refresh_sessions`, `login_attempts`, `login_names`, `password_history`, `users.auth_version` | Login, Refresh, Logout, ChangePassword | admin; every other feature trusts its access token |
| admin (`features/admin`) | users, memberships, roles, the organization, `audit_logs` | CreateUser, ImportUsers, UpdateRoles, ResetPassword, UpdateOrganization | revokes sessions of auth; writes its password history |
| assessments (`features/assessments`) | drafts, sections, items, targets, question bank, publications | edits of a draft, reordering, PublishAssessment, Archive | the snapshot is what an attempt is made of |
| scheduler (`platform/scheduler`) | none | opens and closes assessments every minute | assessments, StartAttempt's availability test |
| academics (`features/academics`) | terms, subjects, courses, class sections, class teachers, enrolments | create, update, archive; single and bulk roster changes | rosters decide who may see an assessment or a resource |
| gradebook | none | none (reads, CSV) | attempts, grading |
| resources, storage (`features/resources`, `platform/storage`) | resources, files, blobs | create, publish, archive, upload, download | rosters of academics; a blob store outside the database; notifications |
| notifications | notifications | insert, list, mark read | called after the commit of its caller, best effort |
| rate limiter (`platform/ratelimit`) | one token bucket per key, in memory | Allow, purge | every route |
| pagination (`platform/pagination`) | none: the cursor travels with the client | the next page of a list | users, audit log, attempts, assessments |
| csrf, middleware | none | none | every route |
| exam page (`pages/exam`) | local drafts (IndexedDB), React state | edit, save, synchronise when online, load, submit | SaveAnswer, SubmitAttempt |
| session provider, API client (web) | access token in memory, cross-tab lock | refresh once for many 401s | auth |

What is hard about it, by component, and what makes each one correct:

- **attempts.** Two tabs or retries of one student run as concurrent requests;
  a reply may be lost after the commit; the deadline passes while a request waits
  for the row lock; reads leave the transaction. Correct: the stored score is the grade
  of the stored answers, a repeated submit reports the same result, an
  acknowledged answer stays, only the owner writes and only in time, the
  number of attempts is limited, every request ends.
- **grading.** Several teachers grade one attempt at once, before or after its
  submit. Correct: the score is what the grades say, and GRADED means that everything is graded.
- **auth and admin.** Refresh rotation against password change, reset, role
  change and logout over four row locks taken in different orders. Correct: a
  session that can still be refreshed was issued for the current password and
  roles; a token is rotated once; a stolen token ends its family; lockout.
- **assessments.** Validation, snapshot and status are computed outside the
  publishing transaction. Edits check for a
  DRAFT in one statement and write in another. Correct: one publication comes of a draft; it is the draft as it
  stood and as it was validated, with a status that its schedule allows; nothing changes
  afterwards; it opens and closes on time; positions stay unique.
  Two editors move rows under an immediate unique key, one row at a time. Correct: a reorder that
  succeeds has the order that was asked for; versions of a question are numbered without gaps.
- **admin.** A file is imported row by row, each in a transaction of its own whose reply may be
  lost. Correct: the report is what happened; a recent password is refused.
- **academics.** A bulk request checks each member before the transaction that adds it, and goes on
  after a failure. Correct: the report and the audit entry are what happened; archived rows stay.
- **exam page.** Edits while a save is in flight, while offline, while loading; tabs closed
  at any moment. Correct: what the student answered last, and in time, is what the server ends up with.
- **resources.** The blob is stored before its row, by a request that is retried; status, rosters and
  files change between the reads of one request. Correct: every row has its whole blob; what is
  handed out was allowed.
- **lists.** Rows come and go between two pages. Correct: no row twice, none left out.
- **rate limiter.** A bucket purged while it is in use. Correct: the limit.

Every hazard is listed with its line in `PROJECT.json`.

## 2. The plan

The order is by what a wrong answer costs: marks first, then access, then
publication, then the client.

1. `AttemptGrading`, `Attempts`, `AttemptLifecycle` (done): the attempt, its abstract
   specification, and the refinement between them.
2. `Grading` (done): manual grading against submit.
3. `SessionPolicy`, `Sessions` (done): refresh families, logins, password and role
   changes with the row locks they take; abstractly, tokens that are usable or not.
4. `Publishing` (done): edits of a draft, `PublishAssessment` and the transition job.
5. `Authoring` (done): sections, items and question versions as rows with a position under a unique
   key, with the waits and deadlocks of their transactions.
6. `ExamClient` (done): the exam page and its drafts against the server's row. Liveness: what was
   answered last reaches the server once the network stays up.
7. `Resources`, `Accounts`, `Classes`, `Feeds` (done): blob before row; imports and password
   history; catalogue and rosters; lists read page by page.

Every safety property that a run checks is proved as well, each component's after its model.

Left, in this order:

8. A composition of `Sessions` with the browser's single-flight refresh, and one of `Publishing` with
   the start of attempts, which reads targets and status.
9. The connection pool: transactions that need a second connection for a read.
10. `RateLimit`: the map of buckets, with time in whole ticks.

## 3. The modules

`AttemptGrading` holds the grading arithmetic of `gradeAttempt`. `Attempts` EXTENDS it with the requests; `AttemptLifecycle` EXTENDS it
with the atomic life cycle; `Attempts` INSTANCEs the latter for the
refinement. `Grading` is a specification of its own: it looks at one attempt row with
more locks and less of everything else. `Sessions` INSTANCEs `SessionPolicy` for its refinement.
`Publishing` looks at one draft as a whole and `Authoring` at the positions inside it, which the
publication does not depend on. `Accounts` has of a password what `Sessions` leaves out, its
history. The other modules share nothing but the way they treat requests: a
record or function `req` with a program counter, one action for each statement or transaction.

### Attempts

State: one variable per committed column (`status`, `owner`, `expiresAt`,
`submittedAt`, `verdict` = score and grading status, `sheet` = the
`attempt_answers` rows), `lock` = the holder of the row's `FOR UPDATE` lock, the
clock `now`, and per request its program counter, arguments and
uncommitted write. `acks`, `replies` and `overlapped` are history.

| code | actions |
|---|---|
| `StartAttempt` | `IssueStart`, `CheckAssigned`, `FindExisting`, `CountAttempts`, `InsertAttempt` |
| `SaveAnswer` | `IssueSave`, `NotFound`, `SaveLoad`, `CommitAnswer` or `Rollback` |
| `SubmitAttempt` | `IssueSubmit`, `NotFound`, `SubmitLoad`, `GradeItems`, `CommitSubmit`, `CommitReply` or `Rollback` |
| `WithinTx` | `Commit*`, `Rollback`, `Abort` |

Each read that can see another request's commit is a step of its own; what a
transaction does between taking its lock and committing, and nobody else can
see, is one. A commit may lose its reply. `Abort` stands for the time limit, a
closed connection or a crash of the server, at any point. An item's credit is all
or nothing, so a score is represented by the set of items credited. The
publication snapshot, which never changes, is in the constants.

An attempt in this module is only ever changed by the attempts feature. A teacher's grade does
change its score later; that is `Grading`, where the result page is read as well.

`AttemptLifecycle` lets an attempt end by `Submit` or, as the documents want of one found past its deadline, by
`Expire`, graded then or later (`GradeExpired`). The code only ever submits; code that kept the documents'
promise would implement the same specification.

### Grading

State: the three columns of the attempts row, the `item_grades` per item, the
lock holders of the attempts row (`sharers` for the `FOR KEY SHARE` of the
foreign key, `writer` for the `FOR NO KEY UPDATE` of the recompute, `submit =
"locked"` for the `FOR UPDATE` of the submit), and the graders. `GradeItem` is `Issue`,
`UpsertItemGrade`, `RecomputeSnapshot`, `RecomputeUpdate`, `Commit`, `Notify` or
`Abort`. The recompute is two actions because a READ COMMITTED statement fixes its
snapshot when it starts, and re-evaluates only the row it waited for, not the
aggregate it joined to it. The submit is there with what it writes and what it locks.
`Correct` is the set of automatically graded items the student got right. The student's `GetAttemptResult` is
`ResultRow`, `ResultItems` and `LeavePage`; between the two reads graders commit. `shown` keeps of the page the
grading status it reports and the essays it shows with the 0 of a missing grade (`Blank`). `overtaken` and `exact` are
history: the graders whose sum was computed before the last commit of a grade, and whether the score is
one of a grader who was not.

### Sessions and SessionPolicy

One user of one organization. State: `version` and `mustChange` (the `users` row), `password`
(the hash in `membership_login_names`), `roleRows` (`membership_roles`; a row
has a birth, so that a DELETE that waited does not mistake a new row of
the same role for the one it found), `session` (`refresh_sessions`: family, version,
revoked, replaced) and `failures` (the failed `login_attempts` inside the
lockout window). Per request: program counter, arguments, `job` (what it read,
or wrote and has not committed) and `held`, the row locks it has.
`secret` and `tokens` are history: the password a session's login verified, and the
access tokens issued.

| code | actions |
|---|---|
| `Login` | `IssueLogin`, `Identify`, `CountFailures`, `VerifyLogin`, `ClearFailures`, `InsertSession` |
| `Refresh` | `IssueRefresh`, `FindSession`, `LockSession`, `LockMember`, `LockUserToRefresh`, `Rotate` or `Refuse` |
| `Logout` | `IssueLogout`, `RevokeSession` |
| `ChangePassword` | `IssueChange`, `ReadPassword`, `LockUserToChange`, `LockLogin`, `ScanSessions`, `CommitPassword` |
| `ResetPassword` (admin) | `IssueReset`, `ReadPassword`, `LockLogin`, `LockUserToChange`, `ScanSessions`, `CommitPassword` |
| `UpdateRoles` (admin) | `IssueRoles`, `FindRoles`, `DeleteRoles`, `CreateRoles`, `LockUserToChange`, `ScanSessions`, `CommitRoles` |
| `WithinTx`, PostgreSQL | `Abort`, `BreakDeadlock` |

The locks, in the order each transaction takes them:

| operation | rows and modes |
|---|---|
| Login (insert) | user and membership KEY SHARE, by foreign key |
| Refresh | session, membership, user FOR UPDATE; a refused one then the family's sessions |
| Logout | session |
| ChangePassword | user, login name, sessions |
| ResetPassword | login name, user, sessions |
| UpdateRoles | role rows and role keys, membership KEY SHARE, user, sessions |

`Wants(r, row, mode)` is that table; `Blocks` compares it with what others hold, by
PostgreSQL's conflict table. A request that deletes or inserts role rows blocks by those rows
instead of a lock mode. The orders differ, so requests can deadlock;
PostgreSQL aborts one of them (`BreakDeadlock`), which a client sees as an error.

What is collapsed: the organization's row is locked wherever the membership's is, and is not a row
of its own. An insert that waits for two foreign keys gets both at once. Statements of
a transaction that lock no new row and whose reads nobody can change are one
step. The password history is a nondeterministic refusal in `ReadPassword`; a token
past `expires_at` is refused nondeterministically in `LockUserToRefresh`. The user is active
throughout: the code has no operation that disables one.

`SessionPolicy` has no requests: `Grant`, `Rotate`, `End` and `EndAll` over the tokens
a refresh would accept. The mapping is `family <- FamilyOf`, `usable <- Usable`, `epoch <- version`.

### Publishing

One assessment. State: `status`, `revision` and `settings` (the `assessments` row: opening,
closing, and a duration that stands for `duration_minutes` and `max_attempts`, which validation
treats alike; `ReadSettings` is what a request reads of them, the instants cut to whole
seconds as `tsPtr` does), `section`, `item` and `target` (the three child tables: absent, ACTIVE or
ARCHIVED; an item also has its section and the sign of its points), `active` (the class
sections that are ACTIVE), `publications` and the clock. Per request: program counter, operation, and
`snap`, what a publishing request has read. `disturbed`, `clean`, `late` and `edits` are history.

| code | actions |
|---|---|
| lookup, `requireManager`, `requireDraft` | `StartEdit`, `StartUpdateAssessment` |
| `CreateSection` .. `DeleteTarget` | the action of the same name, a transaction |
| `DuplicateSection` | `DuplicateSection`, `CopySection` |
| `UpdateAssessment` | `UpdateAssessment` |
| `ValidateAssessment` | `ValidateSettings`, `ValidateSections`, `ValidateItems`, `ValidateTargets` |
| `PublishAssessment`, `buildSnapshot` | `StartPublish`, `Load`, `ReadSections`, `ReadItems`, `ReadTargets`, `CommitPublish` |
| `TransitionJob` | `TransitionToOpen`, `TransitionToClosed` |
| `ArchiveClass` (academics) | `ArchiveClass` |
| an error, the time limit, a unique key, a crash | `Fail` |

Only two statements look at the status again when they write: the UPDATE of the settings
and the UPDATE of the publication. The inserts into the child tables lock the assessment FOR KEY SHARE,
with which the UPDATE of its status does not conflict, so there is no lock in the model
but the row lock of the UPDATE itself: a second publisher waits and then finds no DRAFT.

What is simplified: the checks of the target classes, one statement each, are one step. That a question version is
published is not checked, because versions are never unpublished. The transition
job runs its two UPDATEs in order and not the second if the first fails; an UPDATE that finds no row is a
stutter, so both are actions of their own. Titles, positions and question contents are left
out, and with them `UpdateSection` and the reorder operations: what they can do to the rest is to
fail. An UPDATE in a transaction is one step even where other requests' row locks delay it.

### Authoring

One assessment, its sections and their items, and the question bank. The three tables have one
shape: a row has a parent and a number in it (position or version), and a unique key on the two that
counts archived rows. State: `committed` (what others read), `written` and `owner` (what an
open transaction has written, and which transaction that is) and the requests with their list `todo`
of writes. A statement waits for the owner of its row (`LockRow`) or for a transaction
that may leave or take its key (`IndexRow`), then succeeds or fails by the key. `NewRow` takes an id nobody uses; where
the generator of ids never runs out, the model waits, which the bounds keep from happening.

| code | actions |
|---|---|
| `CreateSection`, `CreateItem`, `UpdateSection`, `UpdateItem`, `DeleteSection`, `DeleteItem` | the action of that name, then `Plan`, `LockRow`, `IndexRow`, `Commit` |
| `ReorderSections`, `ReorderItems` | the same; `PlanReorder` compares the list with the active rows, and there is one write for each row |
| `DuplicateSection`, `DuplicateItem` | `ReadSource`, `PlanDuplicate`, `CopyItems` |
| `CreateQuestion`, `CreateQuestionVersion`, `PublishQuestionVersion` | `PlanVersion` reads the latest number before the insert; `PlanPublish` |
| an error, the time limit | `Fail`, `Refuse` |
| PostgreSQL's deadlock check | `DetectDeadlock` |

### Accounts

Users, memberships and login names are inserted together and are one row here, named by the login
name. State: `accounts`, `history` (rows of `password_history` with the time of their
transaction), `audit`, `organization` and `renames`, and `owner`, who holds the key or row of a login name.
An account may be older than the table of passwords, as those of migrations 000004 and 000008 are: it has a password and no
row. `past` and `unrecorded` are history: the passwords of an account, and the accounts of that kind.

| code | actions |
|---|---|
| `CreateUser`, `ImportUsers` with its dry run | the action of that name, then for each row `NextRow`, `LoginExists`, `CreateLoginName`, `CommitUser` or `RollbackRow`; at the end `AuditImport` |
| `ResetPassword`, `ChangePassword` | `BeginChange`, `CheckPasswordHistory`, `UpdateLoginPassword`, `CommitPassword` |
| `StorePasswordHistory`, `ListPasswordHistory` | operators; both rows of a change carry one time, so which of two equal rows is kept or listed is a choice |
| `UpdateOrganization` | `GetOrganization`, `CommitRename` |

### Classes

The catalogue (`terms`, `subjects`, `courses`, `classes`) and the rosters (`teachers`,
`enrollments`), with `roles` as the memberships give them. A catalogue request is one statement in
one transaction and one action: `CreateTerm`, `UpdateTerm`, `ArchiveTerm` and so on for the
four tables. A roster request is several:

| code | actions |
|---|---|
| `EnrollStudent`, `AddClassTeacher` | the action of that name, `CheckRow`, `WriteRow` |
| `BulkEnrollStudents`, `BulkAssignTeachers`, dry runs included | `CheckRow` and `WriteRow` for each row of the batch, then `WriteAudit` |
| `UnenrollStudent`, `RemoveClassTeacher` | the action of that name |

The roles of users change beside them (`ChangeRoles`), so a check can be stale when its row is written.

### Resources

`resources`, `files` and `objects` (the blob store: a key is absent, partial or whole), the rosters
`teaching` and `enrolled`, and `inbox`, the notifications. Every request is a chain of reads with no transaction around it:
`GetResource`, `CheckAccess`, then `Act` and what follows from it.

| code | actions |
|---|---|
| `CreateResource`, `ArchiveResource` | the action of that name, `CheckAccess`, `Act` |
| `PublishResource` | the same, then `Recipients` and `Notify` for each student |
| `UploadFiles` | `NextInput`, `StoreLocal` or `StoreSupabase`, `CreateResourceFile` for each file |
| `ListFiles`, `DownloadFile` | `ServeList`; `FetchFile`, `Retrieve` |
| `doWithRetry` of the Supabase provider | each attempt is a `StoreSupabase`; the first one that sends the body uses it up |

A response of the Supabase store may be lost after the object was created, and so may the reply of a statement. `moments` is history: what has been
true at some time while a request ran (its resource published, its actor allowed, a student enrolled).

### Feeds

One client that follows one list to its end, while rows appear in it, leave it (an assessment closes)
or get a published version. `ListUsers`, `ListAuditLogs`, `ListAttemptHistory`,
`ListAssessments`, `ListNotifications`, `ListQuestions` and `ListQuestionsInBank` are one
action each, a page each time. What differs is the order and what the next page is found
by: `UserCursor` .. `AssessmentCursor` are what a cursor keeps of a row (the one of
assessments keeps whole seconds), notifications keep an instant and no id, the two question lists count
rows; `NoCursor` is the first page. `Sorted` is an ORDER BY that leaves nothing open, `Orders` one by
`created_at` alone, where rows of one instant come in any order. A row becomes visible at its commit, so `Appear` puts rows at any place of the order.

### ExamClient

One attempt with one item in one tab. State: `attempt` (the server's row: status and answer),
`draft` (IndexedDB), `open`, `page` (what React holds), `online`, and `job`, the asynchronous
functions under way; a job goes from one `await` to the next. `late` says that the server's clock has
passed `expires_at`. `owed` and `steady` are history.

| code | actions |
|---|---|
| the effect `load` with its `syncPendingDrafts` | `OpenPage`, `Loaded`, `SendListed`, `Saved`, `MarkSaved` |
| `persistAnswer` | `Edit`, or `EditUnstored` where the store refuses the draft; `Saved`, `MarkSaved` |
| `handleOnline`, `handleOffline` | `GoOnline`, then `SendListed`, `Saved`, `MarkSaved`; `GoOffline` |
| `handleSubmit` | `Submit`, `Submitted` |
| the heartbeat | `Beat`, `Beaten` |
| the cleanup functions; a closed or crashed tab | `Navigate`; `CloseTab` |
| the API, as `AttemptLifecycle` justifies | `Serve`; `ServeLate` for a request whose page is gone; `Deadline`, from which on saves are `Refused` |
| an error, a lost request or reply | `Fail` |

`SetStatus`, `Form` and `FormShown` are what the page shows and whether it takes input.
Until `steady`, each call on the draft store may fail (`StoreFails`).
`owed` is the last answer that was given while no other save or submit was under way, and whose draft was stored.

## 4. What TLC checks

| run | states | instance and question |
|---|---|---|
| `attempts` | 679 thousand | one attempt, two students, three requests, two payloads, two revisions, deadline inside the clock: scores, acknowledgements, repeated submits |
| `starts` | 237 thousand | three attempt rows, one student, limit 1: the limit and its overshoot, refinement and liveness |
| `grading` | 238 thousand | a multiple-choice item answered correctly, a short answer and an essay, two graders, a submit and a result page: GRADED and the score |
| `sessions` | 786 thousand | all six operations, two at a time, three tokens, two roles, two chosen passwords and a temporary one: what a token may still do |
| `session_policy` | 88 thousand | two tokens, one role: refinement and liveness |
| `publishing` | 493 thousand | a built draft, two requests, two edits of every kind or a schedule, a clock of two instants a second, a class that may be archived: exactness, uniqueness, schedule |
| `authoring` | 150 thousand | up to two sections and two items, a question with up to two versions, two requests of any kind: order, numbering, liveness |
| `classes` | 700 thousand | two rows of each table, a teacher and a pupil, three batches, two roster requests: reports, archived rows |
| `resources` | 3.6 million | a class resource in any state, one of the organization, two requests, both stores: blobs, what is handed out |
| `accounts` | 291 thousand | an account with none to three earlier changes or older than the history, a free name, two files, two requests: reports, password history |
| `feeds` | 2.1 million | four rows over three instants, pages of one or two rows, all seven lists: complete scans |
| `exam_client` | 494 thousand | two answers, two jobs, a store that fails, a deadline: the last answer is kept and arrives |

All runs pass.

**Bounds.** `MaxTime` stops the clock one tick past the last instant that any
comparison distinguishes (deadline 1, closing 2; in `Publishing` the schedule ends at 3). `MaxRevision` is a bound on saves issued:
two revisions are enough for a save to be overwritten, lost or out of order.
Three requests let two of them wait for the lock that the third holds; with a limit of one and
two requests, two attempts are the largest overshoot there is, and a third row lets a third one be inserted. In `Grading` two graders are
what every anomaly of the recompute needs (one reads, one commits), and one item of each type
covers each branch; awards run over all of 0..points.
In `Sessions` two requests are what each hazard needs (one holds or has read what
the other changes); three tokens are a login, its rotation and
another login or a second rotation. `Ops` is the set of operations clients
use. `MaxVersion` bounds the changes of credentials and roles: two are
needed to return to an earlier password. `FreeRows` and `FreeVersions` keep clients from issuing
what the bounds could not let finish, so that no request gets stuck on a bound.
`MaxFailed = 1` is the smallest limit that is overshot.
`Publishing` starts in `MCInit`, a draft with a section, an item and perhaps a target, which the same
requests reach from `Init`: two further edits then meet the publication, where from the
empty draft four would be used up before it could be valid. `PerSecond = 2` is the shortest second that has an instant inside. Two rows of each
kind let a row be copied or replaced; `MCEdits` has every kind of edit once, and `MCSettings` a schedule that is
taken away, one that ends at once with a duration that validation refuses, and a late opening. The clock
reaches both ends of the schedule. `MaxEdits` counts edits begun.

In `Authoring`, `Resources` and `Accounts` each request is sent once and two meet in every
order, from tables that the same requests reach: every hazard there is one request between two
steps of another. Two rows are what a reorder can swap; four ids of sections and six of items
let both requests insert or copy. `MCResources` has one retry (the second
attempt is the one without a body) and one change of the rosters. `MCAccounts` starts after up to three
changes, because five kept rows are the pairs of two changes and half a third, or with an account that has no row. `MCClasses` has a year that is over, with archived rows and
an enrolment, or none; `MaxEdits = 1` is one change of the catalogue or of roles beside two roster requests, and batches hold a repeated user, a wrong
role and one row too many. `MCFeeds` needs two rows of one instant across the end of a page and rows before and after them.
`MCExamClient` has two jobs: one function at an await and one that
overtakes it. A second heartbeat starts only when the first one has ended.

Symmetry is used in `attempts`, `sessions`, `resources` and `accounts`, which check invariants only, and in `classes`, whose one
action property treats requests, the symmetric values, alike. The runs with
refinement or liveness do not use it. Deadlock is checked but in
`authoring`, `accounts`, `resources` and `feeds`, where each request is sent
once or the scan ends, and in `classes`, where the edits are bounded and each request is sent once; `RequestsFinish` of `Authoring` says that
nobody stops before the end.

**Fairness.** `Attempts!Fairness` is weak for the server's steps, because a Go
handler that can run does run, and strong for taking a row lock, because PostgreSQL
queues the waiters of a row. Clients, the clock and aborts are not
fair. `Grading!Fairness` is strong for a grader's steps (same queue) and weak for the submit's
end, because `WithinTx` always commits, rolls back or times out. Nothing says that a grade is ever entered.
`Sessions!Fairness` is strong for a request's steps (the rows it waits for are granted again
and again, and PostgreSQL serves their waiters in turn) and weak for
`BreakDeadlock`, because PostgreSQL looks for a cycle after `deadlock_timeout` and
always breaks it. `RequestsFinish` is violated without either.
`Publishing!Fairness` is weak for the two UPDATEs of the transition job: the ticker runs it every
interval (60 s by default) as long as a server with `SCHEDULER_ENABLED` runs, and a failed run is repeated by the next. Requests and the clock
are not fair.
`Authoring!Fairness` is weak for each request's next step and for the deadlock check: a request is
waiting or can run, and those it waits for end.
`ExamClient!FairSpec` is weak for each job's step: the browser runs the
callbacks of what has been answered, and the server answers what reaches it. The student, the timers, the network, the store,
the deadline and the tab are not fair. `steady` is set, at an `online` event or when the page is opened, when from
then on no request is lost and the store does not fail; `LastEditArrives` speaks of this case only, and of attempts whose
time is not up.

## 5. What is proved

`AttemptsProofs` proves, for any number of students, attempts, items, requests
and any clock, from `KindAssumption`, `AcceptedAssumption`, `NumbersAssumption`,
`NoneAssumption` and, for the last, `RequestsAssumption` (finitely many requests):

| theorem | states |
|---|---|
| `TypeCorrect` | `[]TypeOK` |
| `ScoreCorrect` | `[]ScoreMatchesAnswers` |
| `SubmitIdempotent` | `[]SubmitRepliesAgree` |
| `AcksDurable` | `[]AcknowledgedAnswersStored` |
| `Refinement` | `Spec => Lifecycle!Spec` |
| `LimitHolds` | `[]LimitOvershootBounded` |

The inductive invariant `IInv` is the conjunction of the properties with four
facts they rest on. `RequestInv` ties the program counter to the kind of request and its
arguments. `LockInv`: a request between its lock and its end holds the lock of its
attempt, so at most one does. `DecisionInv`: what was decided under
the lock is still true under it - the attempt of a pending write is IN_PROGRESS, the
result waiting to be stored is the grade of the sheet, the reply of a repeated
submit is the stored verdict. `NeverExpired`: no attempt is ever EXPIRED
in the database, which is what the rollback amounts to.  `LockInv` and `DecisionInv` carry
the argument: no save commits between the read of the answers and the commit of
the submit because a save would need the lock. The refinement follows from `DecisionInv`: the
commit of an answer is `Save`, that of a submit is `Submit`, the insert is `Start`, every other step is a
stutter. `LimitHolds` has two invariants of its own. `StartInv`: as long as a student
never had two starts in flight, what the one start has read (no attempt in progress, a count below the limit) is
still so at its insert, since only a start of that student adds an attempt. It needs no lock, only
that sets of attempts are finite. `OvershootInv`: a start that has passed the count counts as the attempt it will insert
(`Inserting`), and was let in when there were fewer attempts than the limit and at most the other requests were inserting.

`GradingAccountsFeedsProofs` has three components that share nothing. About `Grading` it proves
`GradedComplete` (`[]GradedOnlyWhenComplete`), `GradesInScore`
(`[]GradesCounted`) and `ResultPages` (`[]ResultPageComplete`) from `KindAssumption`, `PointsAssumption`, `NoneAssumption`
and `CorrectAssumption`, for any items and
graders. `GInv` strengthens it by `Shape` (what the proof needs of the types), `JobInv` (a
grader past its upsert has an item and an award) and `SnapshotInv`: a pending GRADED means that
every manual item but its own was graded when the snapshot was taken, and still
is, because grades are never deleted. For the same reason the status GRADED that a result page
has read is borne out by the grades it reads later (`PageInv`). `GradesInScore` does not need to know what a sum over items is
worth: a grader who was not overtaken took the sum over the very grades that it leaves (`SumInv`), since the grades
have changed by no commit but its own, and so the score stays exact until the next write (`ExactInv`).

About `Accounts` it proves `AccountsTypeCorrect`, `AccountsExact` (`[]AccountsReported`) and `PasswordsRefused`
(`[]RecentPasswordsRefused`), for any names, passwords, requests and files of any length. The assumptions:
`Nothing` is none of the other values, a file is a list of rows, and the run starts from a database whose histories have at most
five rows and bar the last three passwords, as the earlier changes left it, or have none beside the one password of an
account that is older than the history. `AInv` has for each
request its form at each point of its handler (`FormInv`), what it holds (`HoldInv`: from the insert of a
login name to the end of the transaction nobody else has that name) and what it has reported (`ReportInv`);
for the tables that an account goes back to a request that is done with its row (`MadeInv`), that lone renamings
read what they replace (`NamesInv`), and `ChangeInv`: the history of an account that is
changed by one request at a time has its last three passwords, or is still empty, and who has passed the check sets none of those it has.
The hard step is the trimming to five rows, where both rows of a change have one time and either of two equal
ones may go. The two rows a change stores are the youngest, and of the two of the change before at most three are
as young or younger, so that five kept rows leave none of them out (`ChangeRemembered`, by counting: `AtMostThree`); the check
reads all that is kept (`AllRead`). The first change of an account without rows stores both its passwords (`FirstChangeRemembered`), so
that only these two can be the same.

About `Feeds` it proves `FeedTypeCorrect` and `ScansRight` (`[]ScansComplete`), for any finite set of rows, instants,
page size and length of a second. A list that is read by cursor or instant is divided by the cursor (`KeyedInv`): what was received
is not behind it and never will be, because a later cursor lets fewer rows through (`CursorMoves`); what is
behind it is still to come; what is neither is of the second, or the instant, of the last row of a
page (`OneSecond`). For a list that is read by number, a row whose instant no other row has stands
at one place in all the orders the query may return (`OwnPlace`: the number of rows not older), and that place only grows as rows
come in, so that the rows skipped never contain it unreceived (`OffsetInv`). The order itself exists for every set
of rows by the ranks of its members (`Ranking`, `ListExists`), proved by counting where one would use induction.

`SessionsProofs` proves, for any number of tokens, passwords, roles and requests, with no
bound on what TLC has to bound, from `PasswordsAssumption` and `NoRowAssumption`:

| theorem | states |
|---|---|
| `TypeCorrect` | `[]TypeOK` |
| `LiveTokens` | `[]OneLiveTokenPerFamily` |
| `UsableTokens` | `[]UsableTokensKnowPassword` |
| `TokenRoles` | `[]TokenRolesMatchVersion` |
| `TemporaryPasswords` | `[]TemporaryPasswordsFlagged` |
| `PolicyImplemented` | `Spec => Policy!Spec` |
| `LockoutBounded` | `[]LockoutOvershootBounded` |

The argument is about locks for the requests that hold some, and about versions
for the one that holds none. `Exclusion`: no two requests hold conflicting
locks; it is inductive because a lock is granted only if nobody blocks it.
`LockInv`: who is about to rotate holds its session and the user FOR UPDATE, who is about to commit a
change holds the user NO KEY UPDATE. Together they give `RotatesAlone`, so the session that a refresh judged
under its locks is usable until it rotates (`RotateInv`), which is why a
rotation replaces the one live token of its family. A login holds nothing between its reads
and its insert. But it read hash, roles and version in one statement: `LoginInv` and
`ClaimsInv` say that whoever carries the current version carries the current
password and roles, and every change of those raises the version. So what a
login inserts late is a session no refresh accepts and a token the middleware
refuses. `FamilyInv`: versions of sessions never exceed the user's, so a raised version
leaves no session usable.

`LockoutBounded` rests on `RequestsAssumption` as well: there are finitely many requests at a time. What it
bounds is not inductive, because a login that has counted may still add a failure when the limit is already
reached. `LimitInv` gives each of those (`Verifying`) its failure in advance: the failures and the
logins about to verify together stay below the limit plus the number of requests. A login joins them
only while the failures are below the limit, and leaves them when it adds its own (`VerifyingStep`);
other logins and resets can only lower the counter.

`PublishingProofs` proves, for any sections, items, classes, requests, edits and schedules,
from the assumptions of `Publishing`:

| theorem | states |
|---|---|
| `TypeCorrect` | `[]TypeOK` |
| `PublicationIsUnique` | `[]PublishedOnce` |
| `StatusSuitsSchedule` | `[]StatusJustified` |
| `LateEditsAreFew` | `[]LateEditsBounded`, if there are requests at all |
| `SnapshotIsTheDraft` | `LonePublishExact` |

Nothing is locked while a request validates and reads, so the argument is about what
happens beside it. `Fresh`: as long as the assessment is a DRAFT and no change has
committed beside a publishing request, each check that it passed still holds and each
part of the snapshot that it read is still what the tables hold. Every action that writes a table marks the
requests that are publishing (`FreshDisturbed`), every other keeps the facts (`FreshStep`), time
cannot make a chosen status unsuitable (`SuitsLater`), and an instant cut to its second is less than a second early (`CutTime`). At the commit `Fresh` is the
exactness of the publication. `LoadedRevision` and `LoadedStatus` give its uniqueness: who has loaded a draft
has loaded revision 1, and no loaded status is DRAFT, so the first commit ends the
draft for the second. `LateInv` counts: outside DRAFT each writer still has
one change to commit, no writer can be added, and the publisher was none.

`AuthoringProofs` proves, for any number of requests and ids and any lists and positions that clients send,

| theorem | states |
|---|---|
| `TypeCorrect` | `[]TypeOK`, with the unique keys |
| `VersionsNumbered` | `[]VersionsInOrder` |
| `ReorderRight` | `ReorderHonoured` |

from `NamesAssumption` (different things have different names, the ids are finitely many),
`BodiesAssumption` (what is decoded is a number or a list of ids) and `TablesAssumption` (the tables
there are at first are such as the requests leave them: unique keys, published versions behind items, versions
numbered from 1). None of the three properties is inductive, since the unique keys and the numbers
are decided when a row is written and hold when it is committed. `IInv` says what keeps them true in between.

- `WrittenInv`, `KeyInv`: what a transaction has written and not committed can be committed
  at any time. The key of a written row is in no other row, but for one that the same transaction has moved, because
  a statement waits (`Awaited`) for every transaction that may leave the key or has taken it. The row was found in the
  status its `WHERE` asks for, so a published version or an archived row is not written again.
- `NumberInv`: the versions of each question are numbered 1 to n, and one that is about to be committed has the
  number n + 1. `LatestNumber`: the number read before the insert is at most n + 1; a smaller one is
  taken for good, as versions are not deleted, and fails at the key.
- `NamedInv`, `TodoInv`, `HoldInv`: what a request read before it began to lock - that the version it refers to is published,
  that its row exists - stays true until it writes, and a row it has locked is as it found it. `PublishInv` and
  `ReorderInv` say how far a publication or a reorder has come: each row before those still to do has its position, and is held,
  or is archived for good.

`Keeps(s)` is what a step of one request leaves to another request `s`; each kind of step of the tables (`TakeTables`, `PutTables`,
`DropTables`, `CommitTables`) has it proved once, and one lemma for each action (`LockRowMoves` and so on) adds what the step does
to its own request. `HasGreatest` (a finite non-empty set of numbers has a greatest) and `Listed` (a finite set has
a list) need no induction: the one takes a least counterexample among the subsets, the other a bijection of the library.

`ResourcesProofs` proves `TypeCorrect` (`[]TypeOK`), `BlobsBehindRows` (`[]RowsHaveObjects`) and
`RepliesRight` (`[]RepliesJustified`) from the assumptions of `Resources`, for any resources, rosters, keys, requests and
retries. Nothing locks a resource, so the invariant says what can overtake a request: rows are never
deleted, a resource keeps its scope and a file its resource (`Grows`), and `Knows` keeps with every control
point which checks have been right at some moment. `KeysDrawn`: the key of an upload belongs to
that request alone until its row is written, so its blob is whole by then.

`ClassesProofs` proves `TypeCorrect`, `ReportsExact` (`[]BulkReportExact`) and `ArchivedFinal`
(`ArchivedIsFinal`). A roster row is inserted once, is never deleted and remembers its request, because the unique key
counts archived rows; hence the rows a request reports as added are distinct and
its own (`RowsMatch`), and the counters are the numbers of outcomes (`WellCounted`), which the audit entry copies
(`AuditExact`). `ArchivedFinal` speaks of rosters as far as code with re-enrolment could keep it: a member is back only by a
request that adds that very user.

`ExamClientProofs` proves `TypeCorrect` and `EditsKept` (`[]LastEditKept`), for any answers and any
number of jobs. `Safe`: from the moment an answer is owed, every save, synchronisation and pending draft carries that answer, and whatever drops
a draft or reports success was preceded by the server's storing it; a refusal, past the deadline too, and a store that fails leave the draft. It needs three facts about the
page: one job at a time loads it and no form is shown meanwhile (`LoaderAlone`), heartbeats and
submits know an attempt that was loaded (`SnapshotThere`), and nobody takes the attempt to be over
before it is (`OverIsOver`).

Only model-checked are the liveness properties: `RequestsFinish` of three modules, `GradersFinish`, `ScheduleHonoured` and
`LastEditArrives`, which are beyond the prover as is ENABLED. Among them is that `Authoring`
finds its deadlocks: the circle of waits is a transitive closure, and that it is broken is a matter of fairness. What
`SumOver` of `Grading` makes of a set of items is a fold, whose value no theorem tells.

## 6. Where the code and its documents disagree

Each of these has a definition in its module that states what a document or comment
says. No run checks it; added to the module's configuration, TLC finds it violated in
a few steps. Beside each is the property that says how far the code goes wrong, which holds.

| what the code does | said otherwise by | what holds |
|---|---|---|
| An expired attempt stays IN_PROGRESS: the callback marks it EXPIRED and returns `ErrAttemptExpired`, so `WithinTx` rolls the mark back; later starts resume it | `Attempts!ExpiryRecorded` (`api/05-assessments-attempts.md:117,125,137`, `04-domain-model.md:148-152`) | `ImplementsLifecycle`, which lets an attempt expire: nothing past the deadline changes it otherwise |
| Overlapping starts exceed `max_attempts`: reads and insert are not one transaction, and no index forbids a second attempt in progress | `Attempts!AttemptLimitEnforced` | `LimitOvershootBounded` |
| The second of two overlapping recomputes writes a sum that was fixed before the first one committed | `Grading!ScoreIsSumOfGrades` | `GradesCounted`: one that was not overtaken has every grade |
| Manual grading drops automatic points: the sum is taken over `item_grades`, where automatic grades have no row | `Grading!AutoGradePreserved` (`grading/queries.sql:166`) | `GradesCounted`, with the automatic points or without |
| Reuse of a refresh token does not end its family: `RevokeFamily` and the `ErrUnauthorized` that rolls it back are in one callback | `Sessions!FamilyRevokedOnReuse` | `OneLiveTokenPerFamily`, `ImplementsPolicy` |
| An exam without items can be published: deleting a section leaves its items ACTIVE, the validation counts them, the snapshot drops them | `Publishing!PublishedExamHasItems` | `LonePublishExact` |
| A reorder that moves a row to the position of one it has yet to move fails on the unique key (`assessments/repository.go:815`) | `Authoring!ReorderAvoidsConflicts` | `ReorderHonoured` |
| `PublishResource` publishes an archived resource again | `Resources!ArchivedStaysArchived` | `RepliesJustified` |

Others, met while modelling:

- Overlapping role changes are merged, because the DELETE of the second request does not see the
  rows that the first inserted (`DeleteRoles`, `CreateRoles`), while the API's document says that the roles are replaced.
- `07-dataflow-processing.md` lets a publication take the row lock before it requires a DRAFT and
  validates, and `04-domain-model.md` lets only a DRAFT be edited; the code takes no lock, and late edits
  happen (`04-domain-model.md:69,71`): `LateEditsBounded` says how many.
- `UpdateSection` and `UpdateItem` write the position whatever was sent: a request with a title only moves the row to position 0.
- `CreateQuestion` ignores the request's publish flag; `CreateQuestionVersion` honours it.
- The password history keeps five rows but two are stored a change, so that only the last three
  passwords are barred (`password_policy.go:20`); `RecentPasswordsRefused` says three. Accounts of migrations 000004 and
  000008 are older than the table (000013, which fills in no rows): an admin's first reset (`admin/service.go:433`) may give
  them the password they have.
- An import that meets a read error ends without its audit entry, with the rows before it created.
- A member who was removed from a class cannot be added again, because the unique key counts the archived row, while
  `api/02-organizations-classes.md:49` lets a re-enrolment create or reactivate a record. `ArchivedIsFinal` allows that.
- The total of the result page is the column that the last writer left, its marks are automatic credits and
  `item_grades`: after a manual grading the two need not add up, whether or not a grade commits between the two reads.
- `tsPtr` (`assessments/repository.go:116`) cuts `opens_at` and `closes_at` to whole seconds before a publication chooses its status, so an
  exam may open, or close, up to a second early: `StatusJustified` says how far.
- The comment of the resources service promises `ErrPartialUpload` for a partial upload
  (`resources/service.go:261`); there is no such error, a partial upload is a success. `14-implementation-roadmap.md:52`
  lets the latest upload replace the active file; both rows stay ACTIVE.
- The cursor of the assessments keeps whole seconds (`assessments/repository.go:205`), so rows of
  one second can be skipped at the end of a page: `PassedOver` names them.
- The exam page: the reply of an older save marks a newer pending draft as synchronised, and two saves at
  once may be stored in the wrong order, which is why `owed` is an answer given at rest. A submit deletes
  pending drafts without sending them, though `06-state-management-dataflow.md:258` wants them reconciled first.
  A save that failed is sent again at the next `online` event or load only. An answer kept through an outage that
  crosses the deadline is refused for good, as `10-exam-runtime-frontend.md:259,358` announces; its draft stays pending. An answer whose draft cannot be
  stored is not sent, and the page may show it as saved when the synchronisation of an earlier one ends.

## 7. What is not modelled

Whole components: the session provider and API client of the web (`Sessions` lets a client refresh in
any order), web pages other than the exam (rendering of cached server state), the gradebook
(reads and CSV), the rate limiter (its arithmetic is over real-valued time), csrf and the other
middleware (stateless), configuration and wiring.

In the modelled ones: list and detail queries that change nothing, but for the paged lists; the
flattening of the snapshot into attempt items; `MarkRead` and `UnreadCount` of notifications;
`CreateAssessment` and `CreateQuestionBank`, single inserts nothing races with; the 32-bit
conversions of counts and positions; PostgreSQL errors other than an abort; the connection pool, which is
taken to have a connection for everyone; of the exam page the countdown, which only takes choices from the student, several
items and several tabs, and the draft store's substitute in memory. Scores are sums of points or sets of credited items, not
decimal numbers. The audit log is modelled where an entry reports something (`Accounts`, `Classes`).
