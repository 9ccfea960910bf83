---------------------------- MODULE ExamClient ----------------------------
(***************************************************************************)
(* The exam page of the browser and its store of drafts (exam-page.tsx,    *)
(* exam-draft-store.ts): one attempt with one item in one tab.  Every      *)
(* asynchronous function under way is a job.  An action runs one of them   *)
(* from one await to the next; between two of its steps the other jobs,    *)
(* the student and the network do theirs.                                  *)
(*                                                                         *)
(* A call on the draft store takes effect where it is made: IndexedDB runs *)
(* the transactions on one store in the order of their creation.  A        *)
(* request to the server is one step, as AttemptLifecycle justifies, and   *)
(* may still be served after the page has given up on it.  Of a draft only *)
(* payload and pending matter here: the page reads none but pending        *)
(* drafts, which win whatever their revision.  The countdown, which ends   *)
(* the input of an open page, is left out: it only takes choices from the  *)
(* student, and the server goes by its own clock.                          *)
(***************************************************************************)
EXTENDS Naturals

CONSTANTS Values,   \* the answers the student can give
          MaxJobs,  \* bound: jobs and forsaken requests at a time
          None

VARIABLES
    attempt,     \* the server's row: status and stored answer
    draft,       \* the draft in the store, or None
    open,        \* an ExamPage is mounted
    page,        \* its React state; phase stands for loading, submitting
                 \* and submitResult
    online,      \* what navigator.onLine says
    job,         \* job[j]: an asynchronous function under way, or None
    owed,        \* history: the last answer of the student, if it was given
                 \* in a way the page can be expected to look after, or None
    steady,      \* from now on neither the network nor the store fails
    late         \* the server's clock has passed expires_at

vars == <<attempt, draft, open, page, online, job, owed, steady, late>>

-----------------------------------------------------------------------------
(* Jobs *)

Jobs == 1..MaxJobs
Statuses == {"IN_PROGRESS", "SUBMITTED"}
Attempt == [status : Statuses, answer : Values \cup {None}]
Draft == [payload : Values, pending : BOOLEAN]

ASSUME NoneAssumption == None \notin Values \cup Draft \cup Statuses
ASSUME MaxJobsAssumption == MaxJobs \in Nat \ {0}

\* load: the effect that opens the page; resume: its syncPendingDrafts, which
\* is cancelled when the page is left; sync: that of handleOnline, which is not.
Kinds == {"save", "sync", "resume", "submit", "load", "beat"}
Saves == {"save", "sync", "resume"}

\* at: "listed" drafts read but not sent, "awaiting" the reply (None while the
\* server has not answered), "marking" the draft written but not the status,
\* "forsaken" the request of a job that is no more.
\* mounted: the page that started the job is still there.
Reply == [verdict : {"ok", "refused"}, seen : Attempt \cup {None}]
Job == {q \in [kind : Kinds, at : {"listed", "awaiting", "marking", "forsaken"},
               payload : Values \cup {None}, mounted : BOOLEAN, reply : {None} \cup Reply] :
           q.kind \in Saves => q.payload \in Values}

Is(j, kinds, at) == job[j] # None /\ job[j].kind \in kinds /\ job[j].at = at
Free(j) == job[j] = None /\ \A i \in 1..(j - 1) : job[i] # None
NewJob(kind, at, payload) ==
    [kind |-> kind, at |-> at, payload |-> payload, mounted |-> TRUE, reply |-> None]
Start(j, kind, at, payload) == job' = [job EXCEPT ![j] = NewJob(kind, at, payload)]
End(j) == job' = [job EXCEPT ![j] = None]

\* What remains of a job when nobody waits for it any more: a request that
\* writes and has not been served.
Forsaken(q) ==
    IF q # None /\ q.kind \notin {"load", "beat"} /\ q.reply = None
                /\ q.at \in {"awaiting", "forsaken"}
    THEN [q EXCEPT !.at = "forsaken", !.mounted = FALSE]
    ELSE None

\* A call on the store may fail until it is steady.
StoreFails == {FALSE, ~steady}

\* getPendingByAttempt.
Pending == IF draft # None /\ draft.pending THEN draft.payload ELSE None

Page == [phase : {"loading", "form", "submitting", "submitted"},
         snapshot : Statuses \cup {None}, shown : Values \cup {None},
         saveStatus : {"idle", "saving", "syncing", "saved", "unsynced"}]

\* The state of a page that has just been mounted.
FreshPage == [phase |-> "loading", snapshot |-> None, shown |-> None, saveStatus |-> "idle"]

\* The form is rendered, and accepts input.
FormShown == open /\ page.snapshot = "IN_PROGRESS" /\ page.phase \in {"form", "submitting"}
Form == FormShown /\ page.phase = "form"

\* setSaveStatuses, which does nothing on a page that was left.
SetStatus(j, status) ==
    page' = IF job[j].mounted
            THEN [page EXCEPT !.saveStatus = status,
                              !.phase = IF job[j].kind = "resume" THEN "form" ELSE @]
            ELSE page

\* A request that may yet store an answer or end the attempt, or a job that
\* may yet overwrite draft or status, is under way.
Busy == \E j \in Jobs : job[j] # None /\ job[j].kind \in Saves \cup {"submit"}

Init ==
    /\ attempt = [status |-> "IN_PROGRESS", answer |-> None]
    /\ draft = None
    /\ open = FALSE /\ page = FreshPage
    /\ online = TRUE
    /\ job = [j \in Jobs |-> None]
    /\ owed = None /\ steady = FALSE /\ late = FALSE

-----------------------------------------------------------------------------
(* The page is opened and left *)

\* The effect of a new attemptId: storage, then getAttempt beside the drafts.
OpenPage(j) ==
    /\ ~open /\ Free(j)
    /\ open' = TRUE /\ page' = FreshPage
    /\ Start(j, "load", "awaiting", Pending)
    /\ steady' \in {steady, TRUE}
    /\ UNCHANGED <<attempt, draft, online, owed, late>>

\* A pending draft is preferred to the server's answer.  Of an attempt that is
\* over the drafts are deleted; otherwise the pending ones are listed again,
\* unless the store fails.  The page keeps loading until these are sent.
Loaded(j) ==
    /\ Is(j, {"load"}, "awaiting") /\ job[j].reply # None
    /\ \E failed \in StoreFails :
       LET seen == job[j].reply.seen
           resume == seen.status = "IN_PROGRESS" /\ Pending # None /\ ~failed
           local == job[j].payload
       IN  /\ page' = [page EXCEPT
                  !.phase = IF resume THEN @ ELSE "form", !.snapshot = seen.status,
                  !.shown = IF local # None THEN local ELSE seen.answer,
                  !.saveStatus = IF local # None THEN "unsynced"
                                 ELSE IF seen.answer # None THEN "saved" ELSE "idle"]
           /\ draft' = IF seen.status = "IN_PROGRESS" \/ failed THEN draft ELSE None
           /\ IF resume THEN Start(j, "resume", "listed", Pending) ELSE End(j)
    /\ UNCHANGED <<attempt, open, online, owed, steady, late>>

\* The student goes to another page: load is cancelled, saves and submits go
\* on without a page.
Navigate ==
    /\ open /\ open' = FALSE /\ page' = FreshPage
    /\ job' = [j \in Jobs |->
                  IF job[j] # None /\ job[j].kind \in {"save", "sync", "submit"}
                  THEN [job[j] EXCEPT !.mounted = FALSE]
                  ELSE Forsaken(job[j])]
    /\ UNCHANGED <<attempt, draft, online, owed, steady, late>>

\* The tab is closed, reloaded or crashes.
CloseTab ==
    /\ open' = FALSE /\ page' = FreshPage
    /\ job' = [j \in Jobs |-> Forsaken(job[j])]
    /\ job' # job \/ open
    /\ UNCHANGED <<attempt, draft, online, owed, steady, late>>

-----------------------------------------------------------------------------
(* Saving *)

\* persistAnswer stores the draft as pending, then sends the answer.
\* Mistake: it is stored when the answer has been sent.
StoreDraftLater(v) == UNCHANGED draft
StoreDraft(v) == draft' = [payload |-> v, pending |-> TRUE]

Edit(j, v) ==
    /\ Form /\ v # page.shown /\ Free(j)
    /\ page' = [page EXCEPT !.shown = v, !.saveStatus = "saving"]
    /\ StoreDraft(v)
    /\ Start(j, "save", "awaiting", v)
    /\ owed' = IF ~Busy /\ attempt.status = "IN_PROGRESS" THEN v ELSE None
    /\ UNCHANGED <<attempt, open, online, steady, late>>

\* When the draft cannot be stored the answer is not sent either.
EditUnstored(v) ==
    /\ ~steady /\ Form /\ v # page.shown
    /\ page' = [page EXCEPT !.shown = v, !.saveStatus = "unsynced"]
    /\ owed' = None
    /\ UNCHANGED <<attempt, draft, open, online, job, steady, late>>

\* syncPendingDrafts goes on with what it listed.
SendListed(j) ==
    /\ Is(j, {"sync", "resume"}, "listed")
    /\ page' = IF job[j].mounted THEN [page EXCEPT !.saveStatus = "syncing"] ELSE page
    /\ job' = [job EXCEPT ![j].at = "awaiting"]
    /\ UNCHANGED <<attempt, draft, open, online, owed, steady, late>>

\* The reply of a save: the draft is written as synchronised, with the payload
\* that was sent; a refusal, or a store that fails, leaves it as it is.
Saved(j) ==
    /\ Is(j, Saves, "awaiting") /\ job[j].reply # None
    /\ \/ /\ job[j].reply.verdict = "ok"
          /\ draft' = [payload |-> job[j].payload, pending |-> FALSE]
          /\ job' = [job EXCEPT ![j].at = "marking"]
          /\ UNCHANGED page
       \/ /\ job[j].reply.verdict = "refused" \/ ~steady
          /\ SetStatus(j, "unsynced") /\ End(j) /\ UNCHANGED draft
    /\ UNCHANGED <<attempt, open, online, owed, steady, late>>

MarkSaved(j) ==
    /\ Is(j, Saves, "marking")
    /\ SetStatus(j, "saved") /\ End(j)
    /\ UNCHANGED <<attempt, draft, open, online, owed, steady, late>>

-----------------------------------------------------------------------------
(* Submitting, and the heartbeat *)

\* handleSubmit looks neither at the drafts nor at the saves under way.
Submit(j) ==
    /\ Form /\ Free(j)
    /\ page' = [page EXCEPT !.phase = "submitting"]
    /\ Start(j, "submit", "awaiting", None)
    /\ owed' = IF page.saveStatus = "saved" THEN owed ELSE None
    /\ UNCHANGED <<attempt, draft, open, online, steady, late>>

\* When the submit is refused, or the drafts cannot be deleted, the page shows
\* an error and its form again.
Submitted(j) ==
    /\ Is(j, {"submit"}, "awaiting") /\ job[j].reply # None
    /\ \/ /\ job[j].reply.verdict = "ok"
          /\ draft' = None
          /\ page' = IF job[j].mounted
                     THEN [page EXCEPT !.phase = "submitted", !.snapshot = "SUBMITTED"]
                     ELSE page
       \/ /\ job[j].reply.verdict = "refused" \/ ~steady
          /\ page' = IF job[j].mounted THEN [page EXCEPT !.phase = "form"] ELSE page
          /\ UNCHANGED draft
    /\ End(j)
    /\ UNCHANGED <<attempt, open, online, owed, steady, late>>

\* Bound: one heartbeat at a time.
Beat(j) ==
    /\ open /\ page.snapshot = "IN_PROGRESS" /\ online /\ Free(j)
    /\ \A i \in Jobs : ~Is(i, {"beat"}, "awaiting")
    /\ Start(j, "beat", "awaiting", None)
    /\ UNCHANGED <<attempt, draft, open, page, online, owed, steady, late>>

\* The page takes over the status it was told, be it older than its own; an
\* attempt that turns out to be over loses its drafts.
Beaten(j) ==
    /\ Is(j, {"beat"}, "awaiting") /\ job[j].reply # None
    /\ LET status == job[j].reply.seen.status
       IN  /\ page' = [page EXCEPT !.snapshot = status]
           /\ \E failed \in StoreFails :
                 draft' = IF status # page.snapshot /\ status # "IN_PROGRESS" /\ ~failed
                          THEN None ELSE draft
    /\ End(j)
    /\ UNCHANGED <<attempt, open, online, owed, steady, late>>

-----------------------------------------------------------------------------
(* Server and network *)

\* SaveAnswer and SubmitAttempt change a row that is IN_PROGRESS and not past
\* expires_at; a repeated submit is answered like the first.  The status stays
\* IN_PROGRESS past expires_at: what marks it EXPIRED is rolled back.
Refused(q) ==
    \/ q.kind \in Saves /\ (attempt.status # "IN_PROGRESS" \/ late)
    \/ q.kind = "submit" /\ attempt.status = "IN_PROGRESS" /\ late
ServerRow(q) ==
    IF Refused(q) THEN attempt
    ELSE CASE q.kind = "submit" -> [attempt EXCEPT !.status = "SUBMITTED"]
           [] q.kind \in Saves -> [attempt EXCEPT !.answer = q.payload]
           [] OTHER -> attempt

Serve(j) ==
    /\ Is(j, Kinds, "awaiting") /\ job[j].reply = None
    /\ attempt' = ServerRow(job[j])
    /\ job' = [job EXCEPT ![j].reply =
                  [verdict |-> IF Refused(job[j]) THEN "refused" ELSE "ok",
                   seen |-> IF job[j].kind \in {"load", "beat"} THEN attempt ELSE None]]
    /\ UNCHANGED <<draft, open, page, online, owed, steady, late>>

Deadline ==
    /\ ~late /\ late' = TRUE
    /\ UNCHANGED <<attempt, draft, open, page, online, job, owed, steady>>

\* A request nobody waits for arrives late, or never.
ServeLate(j) ==
    /\ Is(j, Kinds, "forsaken")
    /\ attempt' \in {attempt, ServerRow(job[j])}
    /\ End(j)
    /\ UNCHANGED <<draft, open, page, online, owed, steady, late>>

\* The call fails: the request is lost or under way, or its reply is lost.  A
\* load fails as well when the drafts cannot be read.
Fail(j) ==
    /\ ~steady /\ Is(j, Kinds, "awaiting")
    /\ job' = [job EXCEPT ![j] = Forsaken(@)]
    /\ IF job[j].kind \in Saves
       THEN SetStatus(j, "unsynced")
       ELSE page' = IF job[j].kind \in {"load", "submit"} /\ job[j].mounted
                    THEN [page EXCEPT !.phase = "form"] ELSE page
    /\ UNCHANGED <<attempt, draft, open, online, owed, steady, late>>

GoOffline ==
    /\ online /\ ~steady
    /\ online' = FALSE
    /\ UNCHANGED <<attempt, draft, open, page, job, owed, steady, late>>

\* handleOnline: the pending drafts of a loaded attempt are listed, to be sent,
\* unless the store fails.
\* Mistake: the page only learns that it is online.
SyncWhenReloaded == UNCHANGED job
SyncWhenOnline ==
    IF open /\ page.snapshot = "IN_PROGRESS" /\ Pending # None
    THEN \E j \in Jobs : Free(j) /\ Start(j, "sync", "listed", Pending)
    ELSE UNCHANGED job

GoOnline ==
    /\ ~online /\ online' = TRUE
    /\ steady' \in {steady, TRUE}
    /\ SyncWhenOnline \/ (~steady' /\ UNCHANGED job)
    /\ UNCHANGED <<attempt, draft, open, page, owed, late>>

-----------------------------------------------------------------------------

\* A job goes on, or the server answers it.
Step(j) ==
    \/ Loaded(j) \/ SendListed(j) \/ Saved(j) \/ MarkSaved(j)
    \/ Submitted(j) \/ Beaten(j) \/ Serve(j)

Next ==
    \/ \E j \in Jobs :
          \/ Step(j) \/ OpenPage(j) \/ Submit(j) \/ Beat(j)
          \/ \E v \in Values : Edit(j, v)
          \/ ServeLate(j) \/ Fail(j)
    \/ \E v \in Values : EditUnstored(v)
    \/ Navigate \/ CloseTab \/ GoOffline \/ GoOnline \/ Deadline

Spec == Init /\ [][Next]_vars

\* The browser runs its callbacks and the server answers what reaches it.
\* The student, the failures, the heartbeat's timer and the deadline are not.
FairSpec == Spec /\ \A j \in Jobs : WF_vars(Step(j))

-----------------------------------------------------------------------------
(* Properties *)

\* Type invariant.
TypeOK ==
    /\ attempt \in Attempt
    /\ draft \in Draft \cup {None}
    /\ open \in BOOLEAN /\ online \in BOOLEAN
    /\ page \in Page
    /\ job \in [Jobs -> Job \cup {None}]
    /\ owed \in Values \cup {None} /\ steady \in BOOLEAN /\ late \in BOOLEAN

\* An answer given while no other save or submit is under way, in an attempt
\* that is still open, is never lost once its draft is stored, whatever fails,
\* expires, is reloaded or left afterwards: the server has it or a pending
\* draft keeps it, unless the student submits while the page does not say
\* "saved".  And where the page says so, the server has what the student sees.
LastEditKept ==
    owed # None =>
        /\ \/ attempt.answer = owed
           \/ draft # None /\ draft.pending /\ draft.payload = owed
        /\ FormShown /\ page.saveStatus = "saved" =>
              attempt.answer = owed /\ page.shown = owed

\* Once network and store are back for good, which the page learns from the
\* online event or when it is opened, such an answer reaches the server, unless
\* the student leaves the page or could not load it, or the attempt's time is
\* up before: what was kept through an outage is not accepted past expires_at
\* (docs/frontend/frontend-technical-spec/10-exam-runtime-frontend.md:259).
LoadFailed == page.phase = "form" /\ page.snapshot = None
LastEditArrives ==
    steady ~> (attempt.answer = owed \/ owed = None \/ ~open \/ LoadFailed \/ late)

=============================================================================
