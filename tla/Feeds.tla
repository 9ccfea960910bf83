------------------------------- MODULE Feeds -------------------------------
(***************************************************************************)
(* Lists that a client reads page by page while other requests add to      *)
(* them.  Three ways to find the next page: a cursor with the key and the  *)
(* id of the last row (users, audit log, a student's attempts, published   *)
(* assessments), the instant of the last row (notifications), and a number *)
(* of rows to skip (the question picker and the questions of a bank).      *)
(*                                                                         *)
(* The lists share no rows, so that one client reads one list here.  A row *)
(* becomes visible when its transaction commits, in any order: created_at  *)
(* is the start of the transaction, and an assessment is listed from its   *)
(* publication on until the scheduler closes it.  at is the order the list *)
(* has: the instant of creation, for users the place of the login name.    *)
(*                                                                         *)
(* Left out: search filters, total counts (a statement of their own), and  *)
(* page numbers for the lists that also have cursors.                      *)
(***************************************************************************)
EXTENDS Naturals, Sequences, SequencesExt, FiniteSets, FiniteSetsExt

CONSTANTS Rows,          \* ids, numbers in their order
          Instants,      \* possible values of at, numbers
          PerSecond,     \* instants a second has
          Limits,        \* rows to a page that clients ask for
          NoCursor       \* of the first page

ASSUME RowsAssumption == Rows \subseteq Nat /\ Instants \subseteq Nat /\ IsFiniteSet(Rows)
ASSUME PagesAssumption == Limits \subseteq Nat \ {0} /\ PerSecond \in Nat \ {0}

ByCursor == {"users", "audit log", "attempts", "assessments"}
ByOffset == {"picker", "bank"}
Feeds == ByCursor \cup ByOffset \cup {"notifications"}
Cursors(f) == IF f \in ByOffset THEN Nat
              ELSE IF f = "notifications" THEN [key : Nat] ELSE [key : Nat, id : Nat]

ASSUME CursorAssumption == \A f \in Feeds : NoCursor \notin Cursors(f)

VARIABLES feed,          \* the list that is read
          limit,         \* rows to a page
          at,            \* order of the rows
          listing,        \* "absent", "listed" or, for an assessment, "closed"
          published,     \* questions with a published version
          cursor,        \* of the next page; a number for ByOffset
          pages,         \* rows received
          phase

VARIABLES before,        \* history: rows listed before the first page
          dropped        \* history: rows left out of a page without a version

table == <<feed, limit, at, listing, published>>
feedVars == <<table, cursor, pages, phase, before, dropped>>

Listed == {x \in Rows : listing[x] = "listed"}

-----------------------------------------------------------------------------
(* The queries: rows of the next page and of those behind it *)

\* Mutant: the id of the cursor is not compared.
OlderInstant(x) == cursor = NoCursor \/ at[x] < cursor.key
Older(x) ==
    cursor = NoCursor \/ at[x] < cursor.key \/ (at[x] = cursor.key /\ x < cursor.id)
NewestFirst(x, y) == at[x] > at[y] \/ (at[x] = at[y] /\ x > y)

Users == {x \in Listed :
             cursor = NoCursor \/ at[x] > cursor.key \/ (at[x] = cursor.key /\ x > cursor.id)}
ByName(x, y) == at[x] < at[y] \/ (at[x] = at[y] /\ x < y)
AuditLogs == {x \in Listed : Older(x)}
StudentAttempts == {x \in Listed : Older(x)}
PublishedAssessments == {x \in Listed : Older(x)}
Notifications == {x \in Listed : cursor = NoCursor \/ at[x] < cursor.key}

\* ORDER BY: the one sequence of S in the order.
Sorted(S, Before(_, _)) ==
    CHOOSE s \in SetToSeqs(S) : \A i, j \in DOMAIN s : i < j => Before(s[i], s[j])

\* ORDER BY created_at DESC alone: rows of one instant come in any order.
Orders == {s \in SetToSeqs(Listed) :
              \A i, j \in DOMAIN s : i < j => at[s[i]] >= at[s[j]]}
Skip == IF cursor = NoCursor THEN 0 ELSE cursor
Questions(n) == {SubSeq(s, Skip + 1, Min({Skip + n, Len(s)})) : s \in Orders}
QuestionsInBank(n) == {SubSeq(s, Skip + 1, Min({Skip + n, Len(s)})) : s \in Orders}

(* The cursors: an assessment's created_at was formatted without fractions *)

UserCursor == [x \in Rows |-> [key |-> at[x], id |-> x]]
AuditCursor == [x \in Rows |-> [key |-> at[x], id |-> x]]
AttemptCursor == [x \in Rows |-> [key |-> at[x], id |-> x]]
WholeSecond(t) == t - (t % PerSecond)
AssessmentCursor == [x \in Rows |-> [key |-> WholeSecond(at[x]), id |-> x]]
NotificationCursor == [x \in Rows |-> [key |-> at[x]]]

-----------------------------------------------------------------------------
(* The pages *)

Receive(page, more, next) ==
    /\ pages' = pages \o page
    /\ cursor' = IF more THEN next ELSE cursor
    /\ phase' = IF more THEN "page" ELSE "done"
    /\ UNCHANGED <<table, before>>

\* One row more than the page is asked for and tells if there is a next one.
CursorPage(sorted, cursorOf) ==
    LET page == SubSeq(sorted, 1, Min({limit, Len(sorted)}))
        more == Len(sorted) > limit
    IN /\ phase = "page"
       /\ Receive(page, more, IF more THEN cursorOf[Last(page)] ELSE NoCursor)
       /\ UNCHANGED dropped

ListUsers == feed = "users" /\ CursorPage(Sorted(Users, ByName), UserCursor)
ListAuditLogs ==
    feed = "audit log" /\ CursorPage(Sorted(AuditLogs, NewestFirst), AuditCursor)
ListAttemptHistory ==
    feed = "attempts" /\ CursorPage(Sorted(StudentAttempts, NewestFirst), AttemptCursor)
ListAssessments ==
    /\ feed = "assessments"
    /\ CursorPage(Sorted(PublishedAssessments, NewestFirst), AssessmentCursor)

\* A page that is not full is the last.
ListNotifications ==
    LET sorted == Sorted(Notifications, NewestFirst)
        page == SubSeq(sorted, 1, Min({limit, Len(sorted)}))
        full == Len(page) = limit
    IN /\ feed = "notifications" /\ phase = "page"
       /\ Receive(page, full, IF full THEN NotificationCursor[Last(page)] ELSE NoCursor)
       /\ UNCHANGED dropped

\* Questions without a published version are dropped from the rows that were
\* read, the additional one among them, before these are counted.
WithVersion(rows) ==
    LET found == {i \in DOMAIN rows : rows[i] \in published}
        Nth(n) == CHOOSE i \in found : Cardinality({j \in found : j <= i}) = n
    IN [n \in 1..Cardinality(found) |-> rows[Nth(n)]]

ListQuestions ==
    /\ feed = "picker" /\ phase = "page"
    /\ \E rows \in Questions(limit + 1) :
          LET found == WithVersion(rows)
              more == Len(found) > limit
          IN /\ Receive(SubSeq(found, 1, Min({limit, Len(found)})), more, Skip + limit)
             /\ dropped' = dropped \cup (ToSet(rows) \ published)

ListQuestionsInBank ==
    /\ feed = "bank" /\ phase = "page"
    /\ \E page \in QuestionsInBank(limit) :
          Receive(page, Len(page) = limit, Skip + limit)
    /\ UNCHANGED dropped

-----------------------------------------------------------------------------
(* What happens to the lists meanwhile *)

Appear(x) ==
    /\ phase = "page" /\ listing[x] = "absent"
    /\ listing' = [listing EXCEPT ![x] = "listed"]
    /\ UNCHANGED <<feed, limit, at, published, cursor, pages, phase, before, dropped>>

Close(x) ==
    /\ phase = "page" /\ feed = "assessments" /\ listing[x] = "listed"
    /\ listing' = [listing EXCEPT ![x] = "closed"]
    /\ UNCHANGED <<feed, limit, at, published, cursor, pages, phase, before, dropped>>

PublishVersion(x) ==
    /\ phase = "page" /\ feed = "picker" /\ x \notin published
    /\ published' = published \cup {x}
    /\ UNCHANGED <<feed, limit, at, listing, cursor, pages, phase, before, dropped>>

FeedInit ==
    /\ feed \in Feeds /\ limit \in Limits
    /\ at \in IF feed = "users" THEN {f \in [Rows -> Rows] : IsInjective(f)}
             ELSE [Rows -> Instants]
    /\ listing \in [Rows -> {"absent", "listed"}]
    /\ published \in IF feed = "picker" THEN SUBSET Rows ELSE {{}}
    /\ cursor = NoCursor /\ pages = << >> /\ phase = "page"
    /\ before = Listed /\ dropped = {}

FeedNext ==
    \/ ListUsers \/ ListAuditLogs \/ ListAttemptHistory \/ ListAssessments
    \/ ListNotifications \/ ListQuestions \/ ListQuestionsInBank
    \/ \E x \in Rows : Appear(x) \/ Close(x) \/ PublishVersion(x)

FeedSpec == FeedInit /\ [][FeedNext]_feedVars

-----------------------------------------------------------------------------
(* Properties *)

FeedTypeOK ==
    /\ feed \in Feeds /\ limit \in Limits
    /\ at \in [Rows -> IF feed = "users" THEN Rows ELSE Instants]
    /\ listing \in [Rows -> {"absent", "listed", "closed"}] /\ published \subseteq Rows
    /\ cursor \in Cursors(feed) \cup {NoCursor} /\ pages \in Seq(Rows)
    /\ phase \in {"page", "done"} /\ before \subseteq Rows /\ dropped \subseteq Rows

\* Rows a scan may pass over: an assessment created in the second of the last
\* row of a page, a notification or a question of the very instant of
\* another, and what is behind a question without a published version.
PageEnds == {pages[i] : i \in {i \in DOMAIN pages : i % limit = 0}}
PassedOver(x) ==
    \/ feed = "assessments" /\ \E y \in PageEnds : WholeSecond(at[x]) = WholeSecond(at[y])
    \/ feed = "notifications" /\ \E y \in PageEnds : at[x] = at[y]
    \/ feed \in ByOffset /\ \E y \in Listed \ {x} : at[x] = at[y]
    \/ feed = "picker" /\ (x \notin published \/ dropped # {})

\* A client that follows a list to its end has every row that was there when
\* it began and still is, but for those that PassedOver names; a list read by
\* cursor or instant has no row twice, although rows come in at any place of
\* it and, from the assessments, disappear.
ScansComplete ==
    /\ feed \notin ByOffset => IsInjective(pages)
    /\ phase = "done" => \A x \in before \cap Listed : x \in ToSet(pages) \/ PassedOver(x)

=============================================================================
