----------------------------- MODULE Authoring -----------------------------
(***************************************************************************)
(* Concurrent edits of a draft: its sections, their items, and the         *)
(* question bank the items are taken from.                                 *)
(*                                                                         *)
(* Sections, items and question versions are rows of three tables that     *)
(* have the same shape: a row has a parent (assessment, section, question) *)
(* and a number in it (position, version), and a unique key on the two     *)
(* that counts archived rows and is checked at every statement.  A request *)
(* opens one transaction, in which it locks and writes one row after the   *)
(* other; a statement waits for the transaction that holds its row or its  *)
(* key, and the database aborts a transaction of a circle of waits.        *)
(*                                                                         *)
(* Left out: titles, points, settings and the content of questions, the    *)
(* locks of foreign keys (they close no circle), and the checks before the *)
(* transaction that read what does not change here: the assessment is a    *)
(* draft (Publishing has the race with its publication) and the actor      *)
(* manages it.                                                             *)
(***************************************************************************)
EXTENDS Naturals, FiniteSets, Sequences, SequencesExt, Relation

CONSTANTS Assessment, Sections, Items, Questions, Versions,
          Positions,        \* positions that clients send
          Orders,           \* lists of ids that clients send to reorder
          InitialRows,      \* tables that exist already
          Requests,         \* concurrent requests, each sent at most once
          None

Ids == Sections \cup Items \cup Versions
Parents == {Assessment} \cup Sections \cup Questions
StatusActive == "ACTIVE"
StatusArchived == "ARCHIVED"
StatusDraft == "DRAFT"
StatusPublished == "PUBLISHED"

VARIABLES committed,    \* by id: the row other transactions read
          written,      \* by id: the version its owner has written
          owner,        \* by id: the request whose transaction holds the row
          req           \* requests under way or answered

tables == <<committed, written, owner>>
vars == <<tables, req>>

-----------------------------------------------------------------------------
(* Rows and keys *)

Row(parent, position, status, of) ==
    [parent |-> parent, position |-> position, status |-> status, of |-> of]
Key(row) == <<row.parent, row.position>>

View(r, x) == IF owner[x] = r /\ written[x] # None THEN written[x] ELSE committed[x]
Seen(r, parent) == {x \in Ids : View(r, x) # None /\ View(r, x).parent = parent}
Active(r, parent) == {x \in Seen(r, parent) : View(r, x).status = StatusActive}
Greatest(S) == CHOOSE n \in S \cup {0} : \A k \in S : k <= n
MaxPosition(r, xs) == Greatest({View(r, x).position : x \in xs})

\* Rows of other transactions that may leave the key, or have come to it.
Pending(r, x, key) ==
    {y \in Ids \ {x} : owner[y] \notin {None, r}
        /\ \E row \in {committed[y], written[y]} \ {None} : Key(row) = key}
Taken(r, x, key) ==
    \E y \in Ids \ {x} : owner[y] \in {None, r} /\ View(r, y) # None
                         /\ Key(View(r, y)) = key

\* Mutant: a draft version is good enough for an item.
AnyVersion(v) == committed[v] # None
QuestionVersionExists(v) == committed[v] # None /\ committed[v].status = StatusPublished
GetQuestion(q) == {v \in Versions : committed[v] # None /\ committed[v].parent = q}

-----------------------------------------------------------------------------
(* Requests.  A write is a row, the status its WHERE clause asks for (None  *)
(* for an INSERT), what it sets, and whether no row found is an error.      *)

Insert(row) == [row |-> None, where |-> None, set |-> row, must |-> TRUE]
UpdateRow(x, status, set) == [row |-> x, where |-> status, set |-> set, must |-> TRUE]
UpdatePosition(x, position) ==
    [row |-> x, where |-> StatusActive, set |-> [position |-> position], must |-> FALSE]

Idle == [op |-> None, parent |-> None, row |-> None, of |-> None, position |-> 0,
         order |-> << >>, new |-> None, todo |-> << >>, pc |-> "idle"]
Goto(r, q) == req' = [req EXCEPT ![r] = q]

\* Read before the transaction: without them nothing happens.
Known(named) == \A x \in named \cap Ids : committed[x] # None

Issue(r, op, parent, row, of, position, order) ==
    /\ req[r].pc = "idle" /\ Known({parent, row, of})
    /\ Goto(r, [Idle EXCEPT !.op = op, !.parent = parent, !.row = row, !.of = of,
                            !.position = position, !.order = order,
                            !.pc = IF op = "duplicate" THEN "source" ELSE "plan"])
    /\ UNCHANGED tables

CreateSection(r, position) ==
    Issue(r, "create", Assessment, None, None, position, << >>)
CreateItem(r, s, v, position) ==
    QuestionVersionExists(v) /\ Issue(r, "create", s, None, v, position, << >>)
UpdateSection(r, s, position) == Issue(r, "update", Assessment, s, None, position, << >>)
UpdateItem(r, i, v, position) ==
    /\ v # None => QuestionVersionExists(v)
    /\ Issue(r, "update", None, i, v, position, << >>)
DeleteSection(r, s) == Issue(r, "delete", Assessment, s, None, 0, << >>)
DeleteItem(r, i) == Issue(r, "delete", None, i, None, 0, << >>)
ReorderSections(r, ids) == Issue(r, "reorder", Assessment, None, None, 0, ids)
ReorderItems(r, s, ids) == Issue(r, "reorder", s, None, None, 0, ids)
DuplicateSection(r, s) == Issue(r, "duplicate", Assessment, s, None, 0, << >>)
DuplicateItem(r, s, i) == Issue(r, "duplicate", s, i, None, 0, << >>)
\* The request's publish flag is dropped here, and honoured below.
CreateQuestion(r, q) ==
    /\ GetQuestion(q) = {} /\ \A s \in Requests : req[s].parent # q
    /\ Issue(r, "version", q, None, StatusDraft, 0, << >>)
CreateQuestionVersion(r, q, status) ==
    GetQuestion(q) # {} /\ Issue(r, "version", q, None, status, 0, << >>)
PublishQuestionVersion(r, q, v) ==
    v \in GetQuestion(q) /\ Issue(r, "publish", q, v, None, 0, << >>)

\* The source of a copy: an active row of the parent that was named.
ReadSource(r) ==
    /\ req[r].pc = "source" /\ req[r].row \in Active(r, req[r].parent)
    /\ Goto(r, [req[r] EXCEPT !.of = committed[req[r].row].of, !.pc = "plan"])
    /\ UNCHANGED tables

-----------------------------------------------------------------------------
(* What a transaction is going to write, from what it reads *)

Siblings(parent) == IF parent = Assessment THEN Sections
                    ELSE IF parent \in Questions THEN Versions ELSE Items

PlanWrites(r, todo) ==
    /\ Goto(r, [req[r] EXCEPT !.todo = todo, !.pc = "lock"])
    /\ UNCHANGED tables

PlanCreate(r) ==
    /\ req[r].op = "create"
    /\ PlanWrites(r, <<Insert(Row(req[r].parent, req[r].position, StatusActive, req[r].of))>>)

PlanUpdate(r) ==
    LET q == req[r] IN
    /\ q.op = "update"
    /\ PlanWrites(r, <<UpdateRow(q.row, StatusActive,
           IF q.of = None THEN [position |-> q.position]
           ELSE [position |-> q.position, of |-> q.of])>>)

PlanArchive(r) ==
    /\ req[r].op = "delete"
    /\ PlanWrites(r, <<UpdateRow(req[r].row, StatusActive, [status |-> StatusArchived])>>)

\* As many ids as active rows, each of them active: an id may come twice.
CheckedOrder(r, ids) ==
    /\ Len(ids) = Cardinality(Active(r, req[r].parent))
    /\ ToSet(ids) \subseteq Active(r, req[r].parent)

PlanReorder(r) ==
    LET ids == req[r].order IN
    /\ req[r].op = "reorder" /\ CheckedOrder(r, ids)
    /\ PlanWrites(r, [i \in DOMAIN ids |-> UpdatePosition(ids[i], 10 * i)])

PlanDuplicate(r) ==
    LET last == MaxPosition(r, Active(r, req[r].parent)) IN
    /\ req[r].op = "duplicate"
    /\ PlanWrites(r, <<Insert(Row(req[r].parent, last + 10, StatusActive, req[r].of))>>)

GetLatestVersionNumber(r, q) == MaxPosition(r, Seen(r, q))

PlanVersion(r) ==
    LET q == req[r] IN
    /\ q.op = "version"
    /\ PlanWrites(r, <<Insert(Row(q.parent, GetLatestVersionNumber(r, q.parent) + 1, q.of, None))>>)

PlanPublish(r) ==
    /\ req[r].op = "publish"
    /\ PlanWrites(r, <<UpdateRow(req[r].row, StatusDraft, [status |-> StatusPublished])>>)

Plan(r) ==
    /\ req[r].pc = "plan"
    /\ \/ PlanCreate(r) \/ PlanUpdate(r) \/ PlanArchive(r) \/ PlanReorder(r)
       \/ PlanDuplicate(r) \/ PlanVersion(r) \/ PlanPublish(r)

\* DuplicateSection goes on with the active items of the source.
CopyItems(r) ==
    LET copy(i) == Row(req[r].new, View(r, i).position, StatusActive, View(r, i).of) IN
    /\ req[r].pc = "copy"
    /\ Goto(r, [req[r] EXCEPT !.todo = SetToSeq({Insert(copy(i)) : i \in Active(r, req[r].row)}),
                              !.row = None, !.pc = "lock"])
    /\ UNCHANGED tables

-----------------------------------------------------------------------------
(* The statements of a transaction *)

Owned(r) == {x \in Ids : owner[x] = r}
Release(r) == /\ owner' = [x \in Ids |-> IF x \in Owned(r) THEN None ELSE owner[x]]
              /\ written' = [x \in Ids |-> IF x \in Owned(r) THEN None ELSE written[x]]
Abort(r) == Release(r) /\ Goto(r, [Idle EXCEPT !.pc = "error"]) /\ UNCHANGED committed

\* Mutant: a statement does not wait for the row another transaction holds.
NotBusy(r, x) == TRUE
HoldsOrFree(r, x) == owner[x] \in {None, r}

Reserve(r, x) == owner' = [owner EXCEPT ![x] = r]

\* The row is locked, and its WHERE clause decided on the version found then.
LockRow(r) ==
    LET w == Head(req[r].todo)
        found == View(r, w.row).status = w.where
    IN /\ req[r].pc = "lock" /\ req[r].todo # << >> /\ w.row # None
       /\ HoldsOrFree(r, w.row)
       /\ \/ /\ found
             /\ Reserve(r, w.row) /\ Goto(r, [req[r] EXCEPT !.pc = "index"])
             /\ UNCHANGED <<committed, written>>
          \/ /\ ~found /\ w.must
             /\ Abort(r)
          \/ /\ ~found /\ ~w.must
             /\ Goto(r, [req[r] EXCEPT !.todo = Tail(@)])
             /\ UNCHANGED tables

Unused(S) == {x \in S : committed[x] = None /\ owner[x] = None}

\* An INSERT takes an id of its own; the program does not run out of them.
NewRow(r) ==
    LET w == Head(req[r].todo)
        x == CHOOSE x \in Unused(Siblings(w.set.parent)) : TRUE
    IN /\ req[r].pc = "lock" /\ req[r].todo # << >> /\ w.row = None
       /\ Unused(Siblings(w.set.parent)) # {} /\ Reserve(r, x)
       /\ Goto(r, [req[r] EXCEPT !.todo = <<[w EXCEPT !.row = x]>> \o Tail(@),
                                 !.new = IF @ = None THEN x ELSE @, !.pc = "index"])
       /\ UNCHANGED <<committed, written>>

\* SET replaces the columns it names.
Changed(row, set) == [c \in DOMAIN row |-> IF c \in DOMAIN set THEN set[c] ELSE row[c]]
NewVersion(r, w) == IF w.where = None THEN w.set ELSE Changed(View(r, w.row), w.set)
NextKey(r) == Key(NewVersion(r, Head(req[r].todo)))

\* Mutant: the key of a row that another transaction is moving counts as free.
IgnorePending(r, x, key) == {}
Awaited(r, x, key) == {owner[y] : y \in Pending(r, x, key)}

\* The version enters the unique index, or the statement fails.
IndexRow(r) ==
    LET w == Head(req[r].todo) IN
    /\ req[r].pc = "index" /\ Awaited(r, w.row, NextKey(r)) = {}
    /\ \/ Taken(r, w.row, NextKey(r)) /\ Abort(r)
       \/ /\ ~Taken(r, w.row, NextKey(r))
          /\ written' = [written EXCEPT ![w.row] = NewVersion(r, w)]
          /\ Goto(r, [req[r] EXCEPT !.todo = Tail(@), !.pc = "lock"])
          /\ UNCHANGED <<committed, owner>>

EndOfWrites(r) ==
    /\ req[r].pc = "lock" /\ req[r].todo = << >>
    /\ Goto(r, [req[r] EXCEPT !.pc = IF req[r].op = "duplicate" /\ req[r].row \in Sections
                                     THEN "copy" ELSE "commit"])
    /\ UNCHANGED tables

\* The reply of the commit may be lost.
Commit(r) ==
    /\ req[r].pc = "commit"
    /\ committed' = [x \in Ids |-> View(r, x)]
    /\ Release(r)
    /\ \/ Goto(r, [Idle EXCEPT !.op = req[r].op, !.row = req[r].row, !.pc = "ok"])
       \/ Goto(r, [Idle EXCEPT !.pc = "error"])

Refuse(r) ==
    /\ \/ req[r].pc = "source" /\ req[r].row \notin Active(r, req[r].parent)
       \/ req[r].pc = "plan" /\ req[r].op = "reorder" /\ ~CheckedOrder(r, req[r].order)
    /\ Abort(r)

\* A statement fails, a connection breaks.
Fail(r) == req[r].pc \notin {"idle", "ok", "error"} /\ Abort(r)

Waits(r, s) ==
    \/ req[r].pc = "lock" /\ req[r].todo # << >> /\ s # r
          /\ s \in {owner[x] : x \in {Head(req[r].todo).row} \ {None}}
    \/ req[r].pc = "index" /\ s \in Awaited(r, Head(req[r].todo).row, NextKey(r))

\* Mutant: nobody looks for circles.
NoCircle(r) == FALSE
InCircle(r) ==
    /\ \E s \in Requests : Waits(r, s)
    /\ TransitiveClosure([s, t \in Requests |-> Waits(s, t)], Requests)[r, r]

\* deadlock_timeout: one transaction of the circle is aborted.
DetectDeadlock(r) == InCircle(r) /\ Abort(r)

-----------------------------------------------------------------------------
RowType == [parent : Parents, position : Nat, of : Versions \cup {None},
            status : {StatusActive, StatusArchived, StatusDraft, StatusPublished}]
RowOK(x, row) ==
    /\ row \in RowType /\ x \in Siblings(row.parent)
    /\ row.status \in (IF x \in Versions THEN {StatusDraft, StatusPublished}
                       ELSE {StatusActive, StatusArchived})
    /\ row.of # None <=> x \in Items

\* The names of different things are different, and there are finitely many.
ASSUME NamesAssumption ==
    /\ None \notin Ids \cup Parents \cup Requests \cup RowType
    /\ None \notin {StatusActive, StatusArchived, StatusDraft, StatusPublished}
    /\ Sections \cap (Items \cup Versions) = {} /\ Items \cap Versions = {}
    /\ Assessment \notin Sections \cup Questions /\ Sections \cap Questions = {}
    /\ IsFiniteSet(Ids)

\* The bodies of requests are decoded to numbers and lists.
ASSUME BodiesAssumption == Positions \subseteq Nat /\ Orders \subseteq Seq(Ids)

\* Tables that drafts and banks have been edited into before: the unique keys
\* hold, items are of published versions, versions are numbered from 1.
ASSUME TablesAssumption ==
    \A rows \in InitialRows :
       /\ rows \in [Ids -> RowType \cup {None}]
       /\ \A x \in Ids : rows[x] # None => RowOK(x, rows[x])
       /\ \A x, y \in Ids : /\ rows[x] # None /\ rows[y] # None
                           /\ Key(rows[x]) = Key(rows[y]) => x = y
       /\ \A i \in Items : rows[i] # None
             => rows[rows[i].of] # None /\ rows[rows[i].of].status = StatusPublished
       /\ \A q \in Questions : \E n \in 0..Cardinality(Versions) :
             {rows[v].position : v \in {v \in Versions : rows[v] # None
                                                         /\ rows[v].parent = q}} = 1..n

Init ==
    /\ committed \in InitialRows
    /\ written = [x \in Ids |-> None] /\ owner = [x \in Ids |-> None]
    /\ req = [r \in Requests |-> Idle]

Clients(r) ==
    \/ \E position \in Positions :
          \/ CreateSection(r, position)
          \/ \E s \in Sections, v \in Versions : CreateItem(r, s, v, position)
          \/ \E s \in Sections : UpdateSection(r, s, position)
          \/ \E i \in Items, v \in Versions \cup {None} : UpdateItem(r, i, v, position)
    \/ \E s \in Sections : DeleteSection(r, s) \/ DuplicateSection(r, s)
    \/ \E i \in Items : DeleteItem(r, i) \/ \E s \in Sections : DuplicateItem(r, s, i)
    \/ \E ids \in Orders : ReorderSections(r, ids)
                           \/ \E s \in Sections : ReorderItems(r, s, ids)
    \/ \E q \in Questions :
          \/ CreateQuestion(r, q)
          \/ \E status \in {StatusDraft, StatusPublished} : CreateQuestionVersion(r, q, status)
          \/ \E v \in Versions : PublishQuestionVersion(r, q, v)

Server(r) ==
    \/ ReadSource(r) \/ Plan(r) \/ CopyItems(r)
    \/ LockRow(r) \/ NewRow(r) \/ IndexRow(r) \/ EndOfWrites(r) \/ Commit(r) \/ Refuse(r)

Next == \E r \in Requests : Clients(r) \/ Server(r) \/ Fail(r) \/ DetectDeadlock(r)

\* The handler of a request runs on, and the database looks for deadlocks.
Fairness == \A r \in Requests : WF_vars(Server(r)) /\ WF_vars(DetectDeadlock(r))
Spec == Init /\ [][Next]_vars /\ Fairness

-----------------------------------------------------------------------------
(* Properties *)

TypeOK ==
    /\ \A x \in Ids : \A row \in {committed[x], written[x]} \ {None} : RowOK(x, row)
    /\ owner \in [Ids -> Requests \cup {None}]
    /\ \A x \in Ids : written[x] # None => owner[x] # None
    /\ \A r \in Requests :
          /\ req[r].pc \in {"idle", "source", "plan", "lock", "index", "copy",
                            "commit", "ok", "error"}
          /\ req[r].pc \in {"idle", "ok", "error"} => Owned(r) = {}
    /\ \A x, y \in Ids : committed[x] # None /\ committed[y] # None
          /\ Key(committed[x]) = Key(committed[y]) => x = y

\* A reorder that commits leaves its rows in the order that was asked for,
\* but for rows archived meanwhile, whatever edits, archivings and other
\* reorders of the same rows it met (ReorderAssessmentSections and
\* ReorderAssessmentItems read the active rows and then write them one by one).
ReorderHonoured ==
    [][\A r \in Requests :
          req[r].pc = "commit" /\ req'[r].pc # "commit" /\ req[r].op = "reorder"
             /\ committed' # committed /\ IsInjective(req[r].order)
          => \A i \in DOMAIN req[r].order :
                LET row == committed'[req[r].order[i]] IN
                row.status = StatusActive => row.position = 10 * i]_vars

\* The versions of a question are numbered 1 to n without a gap, though the
\* number is read before the row is inserted; an item refers to a published
\* version, though that is checked before its transaction; and of the
\* requests that publish one version at most one succeeds
\* (CreateQuestionVersion, QuestionVersionExists, PublishQuestionVersion).
VersionsInOrder ==
    /\ \A q \in Questions :
          {committed[v].position : v \in GetQuestion(q)} = 1..Cardinality(GetQuestion(q))
    /\ \A i \in Items : committed[i] # None
          => committed[committed[i].of].status = StatusPublished
    /\ \A r, s \in Requests :
          req[r].op = "publish" /\ req[s].op = "publish" /\ req[r].row = req[s].row
             /\ req[r].pc = "ok" /\ req[s].pc = "ok" => r = s

\* Every request is answered: the waits for rows and keys end, in a commit,
\* a duplicate key or a deadlock that is detected.
RequestsFinish ==
    \A r \in Requests : req[r].pc # "idle" ~> req[r].pc \in {"ok", "error"}

\* assessments/repository.go, ReorderAssessmentSections: "Assign positions
\* sequentially to avoid unique-constraint conflicts".  A reorder does not
\* run into the position of a row it is going to move itself.
ReorderAvoidsConflicts ==
    \A r \in Requests :
       req[r].op = "reorder" /\ req[r].pc = "index" /\ IsInjective(req[r].order)
       => ~\E x \in ToSet(req[r].order) \ {Head(req[r].todo).row} :
             Key(View(r, x)) = NextKey(r)

=============================================================================
