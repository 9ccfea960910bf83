-------------------------- MODULE ExamClientProofs --------------------------
(***************************************************************************)
(* Theorems about ExamClient, for any answers and any number of jobs.      *)
(*                                                                         *)
(* The answer that is owed was given while nothing else was being saved.   *)
(* From then on every save, synchronisation and pending draft carries that *)
(* answer and no other, and whatever drops a draft or reports a success    *)
(* was preceded by the server's storing it (Safe).  For this a page must   *)
(* not take the attempt to be over before it is (OverIsOver), nor show the *)
(* form while it is loading (LoaderAlone), nor be told of an attempt it    *)
(* has not loaded (SnapshotThere).                                         *)
(***************************************************************************)
EXTENDS ExamClient, TLAPS

-----------------------------------------------------------------------------
(* The inductive invariant *)

Loader(j) ==
    /\ job[j] # None
    /\ job[j].kind = "load" \/ (job[j].kind = "resume" /\ job[j].at # "forsaken")

\* The page is loaded by one job, and shows no form meanwhile.
LoaderAlone ==
    /\ \A i, j \in Jobs : Loader(i) /\ Loader(j) => i = j
    /\ \A j \in Jobs : Loader(j) => open /\ page.phase = "loading"
    /\ \A j \in Jobs : job[j] # None /\ job[j].kind = "submit" /\ job[j].mounted =>
          open /\ page.phase # "loading"

\* A heartbeat, or a submit whose page is still there, knows an attempt that
\* was loaded.
SnapshotThere ==
    \A j \in Jobs :
        job[j] # None /\ (job[j].kind = "beat" \/ (job[j].kind = "submit" /\ job[j].mounted)) =>
            open /\ page.snapshot # None

\* What the page or a reply under way says of the end of the attempt is true.
ReplyTrue(q) ==
    q.reply # None =>
        /\ q.kind \in {"load", "beat"} =>
              /\ q.reply.seen \in Attempt
              /\ q.reply.seen.status = "SUBMITTED" => attempt.status = "SUBMITTED"
        /\ q.kind = "submit" /\ q.reply.verdict = "ok" => attempt.status = "SUBMITTED"
OverIsOver ==
    /\ page.snapshot = "SUBMITTED" => attempt.status = "SUBMITTED"
    /\ \A j \in Jobs : job[j] # None => ReplyTrue(job[j])

\* The server has the answer that is owed.
Has == attempt.answer = owed

\* What a job carries, and what it knows.
JobSafe(q) ==
    /\ q.kind \in Saves =>
          /\ q.payload = owed
          /\ q.at = "marking" => Has
          /\ q.reply # None => (q.reply.verdict = "ok" => Has)
    /\ q.kind = "submit" => Has
    /\ q.kind = "load" =>
          /\ q.payload \in {None, owed}
          /\ q.payload = None =>
                Has /\ (q.reply # None => q.reply.seen.answer = owed)

JobsSafe == \A j \in Jobs : job[j] # None => JobSafe(job[j])
AnswerSafe ==
    /\ Pending \in {None, owed}
    /\ Has \/ Pending = owed
    /\ attempt.status = "SUBMITTED" => Has
PageSafe ==
    /\ page.snapshot # None => page.shown = owed
    /\ page.saveStatus = "saved" => Has
Safe == owed # None => JobsSafe /\ AnswerSafe /\ PageSafe

IInv == TypeOK /\ LoaderAlone /\ SnapshotThere /\ OverIsOver /\ Safe

-----------------------------------------------------------------------------

LEMMA InitIInv == Init => IInv
<1>. SUFFICES ASSUME Init PROVE IInv
  OBVIOUS
<1>1. TypeOK
  BY DEF Init, TypeOK, Attempt, Statuses, Page, FreshPage
<1>2. \A j \in Jobs : job[j] = None
  BY DEF Init
<1>3. LoaderAlone
  BY <1>2 DEF LoaderAlone, Loader
<1>4. page.snapshot = None
  BY DEF Init, FreshPage
<1>5. OverIsOver
  BY <1>2, <1>4, NoneAssumption DEF OverIsOver, Statuses
<1>6. SnapshotThere
  BY <1>2 DEF SnapshotThere
<1>. QED
  BY <1>1, <1>3, <1>5, <1>6 DEF IInv, Safe, Init

-----------------------------------------------------------------------------
(* Types *)

LEMMA ForsakenJob ==
    ASSUME NEW q \in Job \cup {None}
    PROVE  /\ Forsaken(q) \in Job \cup {None}
           /\ Forsaken(q) # None =>
                 /\ q # None /\ Forsaken(q).kind = q.kind /\ q.at # "marking"
                 /\ Forsaken(q).payload = q.payload /\ Forsaken(q).reply = None
                 /\ Forsaken(q).kind \notin {"load", "beat"}
                 /\ Forsaken(q).at = "forsaken"
BY DEF Forsaken, Job

LEMMA StatusPage ==
    ASSUME NEW j \in Jobs, page \in Page, NEW status \in {"saved", "unsynced"},
           SetStatus(j, status)
    PROVE  /\ page' \in Page
           /\ page'.snapshot = page.snapshot /\ page'.shown = page.shown
           /\ page'.saveStatus \in {page.saveStatus, status}
           /\ page'.phase # page.phase => job[j].mounted /\ job[j].kind = "resume"
BY DEF SetStatus, Page

LEMMA TypeStep == TypeOK /\ OverIsOver /\ [Next]_vars => TypeOK'
<1>. SUFFICES ASSUME TypeOK, OverIsOver, [Next]_vars PROVE TypeOK'
  OBVIOUS
<1>. USE DEF TypeOK, Start, End, NewJob, Is, Free
<1>1. ASSUME NEW j \in Jobs, Loaded(j) PROVE TypeOK'
  <2>1. job[j] \in Job /\ job[j].reply.seen \in Attempt /\ job[j].kind = "load"
    BY <1>1 DEF Loaded, OverIsOver, ReplyTrue
  <2>2. Pending \in Values \cup {None} /\ Pending' \in Values \cup {None}
    BY <1>1 DEF Loaded, Pending, Draft
  <2>3. page' \in Page
    BY <1>1, <2>1 DEF Loaded, Page, Attempt, Job
  <2>4. job' \in [Jobs -> Job \cup {None}]
    <3>1. Pending # None => NewJob("resume", "listed", Pending) \in Job
      BY <2>2 DEF Job, Kinds
    <3>. QED
      BY <1>1, <3>1 DEF Loaded
  <2>. QED
    BY <1>1, <2>3, <2>4 DEF Loaded
<1>2. ASSUME NEW j \in Jobs, SendListed(j) PROVE TypeOK'
  BY <1>2 DEF SendListed, Job, Page
<1>3. ASSUME NEW j \in Jobs, Saved(j) PROVE TypeOK'
  <2>1. page' \in Page
    <3>1. CASE page' = page
      BY <3>1
    <3>2. CASE SetStatus(j, "unsynced")
      BY <3>2, StatusPage
    <3>. QED
      BY <1>3, <3>1, <3>2 DEF Saved
  <2>2. job[j] \in Job /\ job[j].payload \in Values
    BY <1>3 DEF Saved, Job
  <2>3. [job[j] EXCEPT !.at = "marking"] \in Job
    BY <2>2 DEF Job
  <2>4. draft' \in Draft \cup {None}
    <3>1. [payload |-> job[j].payload, pending |-> FALSE] \in Draft
      BY <2>2 DEF Draft
    <3>. QED
      BY <1>3, <3>1 DEF Saved
  <2>5. job' \in [Jobs -> Job \cup {None}]
    BY <1>3, <2>3 DEF Saved
  <2>. QED
    BY <1>3, <2>1, <2>4, <2>5 DEF Saved
<1>4. ASSUME NEW j \in Jobs, MarkSaved(j) PROVE TypeOK'
  BY <1>4, StatusPage DEF MarkSaved
<1>5. ASSUME NEW j \in Jobs, Submitted(j) PROVE TypeOK'
  BY <1>5 DEF Submitted, Page, Statuses
<1>6. ASSUME NEW j \in Jobs, Beaten(j) PROVE TypeOK'
  BY <1>6 DEF Beaten, OverIsOver, ReplyTrue, Attempt, Page
<1>7. ASSUME NEW j \in Jobs, Serve(j) PROVE TypeOK'
  BY <1>7 DEF Serve, ServerRow, Attempt, Statuses, Job, Reply, Saves, Kinds
<1>8. ASSUME NEW j \in Jobs, OpenPage(j) PROVE TypeOK'
  BY <1>8 DEF OpenPage, Pending, Draft, Job, Kinds, Saves, FreshPage, Page
<1>9. ASSUME NEW j \in Jobs, Submit(j) PROVE TypeOK'
  BY <1>9 DEF Submit, Job, Kinds, Saves, Page
<1>10. ASSUME NEW j \in Jobs, Beat(j) PROVE TypeOK'
  BY <1>10 DEF Beat, Job, Kinds, Saves
<1>11. ASSUME NEW j \in Jobs, NEW v \in Values, Edit(j, v) PROVE TypeOK'
  BY <1>11 DEF Edit, StoreDraft, Draft, Job, Kinds, Page
<1>12. ASSUME NEW j \in Jobs, ServeLate(j) PROVE TypeOK'
  BY <1>12 DEF ServeLate, ServerRow, Attempt, Statuses, Job, Saves
<1>13. ASSUME NEW j \in Jobs, Fail(j) PROVE TypeOK'
  <2>1. page' \in Page
    BY <1>13, StatusPage DEF Fail, Page
  <2>2. Forsaken(job[j]) \in Job \cup {None}
    BY ForsakenJob
  <2>. QED
    BY <1>13, <2>1, <2>2 DEF Fail
<1>14. CASE Navigate
  <2>1. \A i \in Jobs : Forsaken(job[i]) \in Job \cup {None}
    BY ForsakenJob
  <2>2. \A i \in Jobs : job[i] # None => [job[i] EXCEPT !.mounted = FALSE] \in Job
    BY DEF Job
  <2>. QED
    BY <1>14, <2>1, <2>2 DEF Navigate, FreshPage, Page
<1>15. CASE CloseTab
  <2>1. \A i \in Jobs : Forsaken(job[i]) \in Job \cup {None}
    BY ForsakenJob
  <2>. QED
    BY <1>15, <2>1 DEF CloseTab, FreshPage, Page
<1>16. CASE GoOffline
  BY <1>16 DEF GoOffline
<1>17. CASE GoOnline
  <2>1. Pending # None => NewJob("sync", "listed", Pending) \in Job
    BY DEF Pending, Draft, Job, Kinds
  <2>. QED
    BY <1>17, <2>1 DEF GoOnline, SyncWhenOnline
<1>18. CASE UNCHANGED vars
  BY <1>18 DEF vars
<1>19. ASSUME NEW v \in Values, EditUnstored(v) PROVE TypeOK'
  BY <1>19 DEF EditUnstored, Page
<1>20. CASE Deadline
  BY <1>20 DEF Deadline
<1>. QED
  BY <1>1, <1>2, <1>3, <1>4, <1>5, <1>6, <1>7, <1>8, <1>9, <1>10, <1>11, <1>12,
     <1>13, <1>14, <1>15, <1>16, <1>17, <1>18, <1>19, <1>20 DEF Next, Step

-----------------------------------------------------------------------------
(* Loading *)

LEMMA LoaderStep == TypeOK /\ LoaderAlone /\ [Next]_vars => LoaderAlone'
<1>. SUFFICES ASSUME TypeOK, LoaderAlone, [Next]_vars PROVE LoaderAlone'
  OBVIOUS
<1>. USE DEF LoaderAlone, Loader, TypeOK, Start, End, NewJob, Is
<1>1. ASSUME NEW j \in Jobs, Loaded(j) PROVE LoaderAlone'
  BY <1>1 DEF Loaded
<1>2. ASSUME NEW j \in Jobs, SendListed(j) PROVE LoaderAlone'
  BY <1>2 DEF SendListed
<1>3. ASSUME NEW j \in Jobs, Saved(j) PROVE LoaderAlone'
  <2>1. CASE page' = page /\ job' = [job EXCEPT ![j].at = "marking"]
    <3>1. /\ [job[j] EXCEPT !.at = "marking"].kind = job[j].kind
          /\ [job[j] EXCEPT !.at = "marking"].mounted = job[j].mounted
      BY <1>3 DEF Saved, Job
    <3>2. \A i \in Jobs : job'[i] # None =>
             /\ job[i] # None /\ job'[i].kind = job[i].kind
             /\ job'[i].mounted = job[i].mounted
             /\ job'[i].at # "forsaken" => job[i].at # "forsaken"
      BY <1>3, <2>1, <3>1 DEF Saved
    <3>. QED
      BY <1>3, <2>1, <3>2 DEF Saved
  <2>2. CASE SetStatus(j, "unsynced") /\ End(j)
    <3>1. page'.phase # page.phase => Loader(j)
      BY <1>3, <2>2, StatusPage DEF Saved
    <3>. QED
      BY <1>3, <2>2, <3>1 DEF Saved
  <2>. QED
    BY <1>3, <2>1, <2>2 DEF Saved
<1>4. ASSUME NEW j \in Jobs, MarkSaved(j) PROVE LoaderAlone'
  <2>1. page'.phase # page.phase => Loader(j)
    BY <1>4, StatusPage DEF MarkSaved
  <2>. QED
    BY <1>4, <2>1 DEF MarkSaved
<1>5. ASSUME NEW j \in Jobs, Submitted(j) PROVE LoaderAlone'
  <2>1. page' # page => page'.phase \in {"form", "submitted"} /\ job[j].mounted
    BY <1>5 DEF Submitted, Page
  <2>. QED
    BY <1>5, <2>1 DEF Submitted
<1>6. ASSUME NEW j \in Jobs, Beaten(j) PROVE LoaderAlone'
  BY <1>6 DEF Beaten
<1>7. ASSUME NEW j \in Jobs, Serve(j) PROVE LoaderAlone'
  BY <1>7 DEF Serve
<1>8. ASSUME NEW j \in Jobs, OpenPage(j) PROVE LoaderAlone'
  BY <1>8 DEF OpenPage, FreshPage
<1>9. ASSUME NEW j \in Jobs, Submit(j) PROVE LoaderAlone'
  BY <1>9 DEF Submit, Form, FormShown
<1>10. ASSUME NEW j \in Jobs, Beat(j) PROVE LoaderAlone'
  BY <1>10 DEF Beat
<1>11. ASSUME NEW j \in Jobs, NEW v \in Values, Edit(j, v) PROVE LoaderAlone'
  BY <1>11 DEF Edit, Form, FormShown
<1>12. ASSUME NEW j \in Jobs, ServeLate(j) PROVE LoaderAlone'
  BY <1>12 DEF ServeLate
<1>13. ASSUME NEW j \in Jobs, Fail(j) PROVE LoaderAlone'
  <2>1. Forsaken(job[j]) # None => Forsaken(job[j]).kind = job[j].kind
                                     /\ Forsaken(job[j]).kind # "load"
                                     /\ Forsaken(job[j]).at = "forsaken"
                                     /\ ~Forsaken(job[j]).mounted
    BY DEF Forsaken, Job
  <2>0. job[j] # None /\ job[j].at = "awaiting"
    BY <1>13 DEF Fail
  <2>2. page'.phase # page.phase =>
           \/ Loader(j)
           \/ job[j].kind = "submit" /\ job[j].mounted /\ page'.phase = "form"
    <3>1. CASE job[j].kind \in Saves
      <4>1. SetStatus(j, "unsynced")
        BY <1>13, <3>1 DEF Fail
      <4>2. page'.phase # page.phase => job[j].mounted /\ job[j].kind = "resume"
        BY <4>1, StatusPage
      <4>. QED
        BY <2>0, <4>2
    <3>2. CASE job[j].kind \notin Saves
      <4>1. [page EXCEPT !.phase = "form"].phase = "form"
        BY DEF Page
      <4>. QED
        BY <1>13, <3>2, <4>1 DEF Fail
    <3>. QED
      BY <3>1, <3>2
  <2>. QED
    BY <1>13, <2>1, <2>2 DEF Fail
<1>14. CASE Navigate
  <2>1. \A i \in Jobs : job'[i] # None =>
           /\ job'[i].kind # "load" /\ ~job'[i].mounted
           /\ job'[i].kind = "resume" => job'[i].at = "forsaken"
    BY <1>14 DEF Navigate, Forsaken, Job
  <2>. QED
    BY <1>14, <2>1 DEF Navigate
<1>15. CASE CloseTab
  <2>1. \A i \in Jobs : job'[i] # None =>
           job'[i].at = "forsaken" /\ job'[i].kind # "load" /\ ~job'[i].mounted
    BY <1>15 DEF CloseTab, Forsaken, Job
  <2>. QED
    BY <1>15, <2>1 DEF CloseTab
<1>16. CASE GoOffline
  BY <1>16 DEF GoOffline
<1>17. CASE GoOnline
  BY <1>17 DEF GoOnline, SyncWhenOnline
<1>18. CASE UNCHANGED vars
  BY <1>18 DEF vars
<1>19. ASSUME NEW v \in Values, EditUnstored(v) PROVE LoaderAlone'
  <2>1. page'.phase = page.phase /\ page'.snapshot = page.snapshot
    BY <1>19 DEF EditUnstored, Page
  <2>. QED
    BY <1>19, <2>1 DEF EditUnstored
<1>20. CASE Deadline
  BY <1>20 DEF Deadline
<1>. QED
  BY <1>1, <1>2, <1>3, <1>4, <1>5, <1>6, <1>7, <1>8, <1>9, <1>10, <1>11, <1>12,
     <1>13, <1>14, <1>15, <1>16, <1>17, <1>18, <1>19, <1>20 DEF Next, Step

-----------------------------------------------------------------------------
(* The end of the attempt *)

LEMMA OverStep == TypeOK /\ OverIsOver /\ [Next]_vars => OverIsOver'
<1>. SUFFICES ASSUME TypeOK, OverIsOver, [Next]_vars PROVE OverIsOver'
  OBVIOUS
<1>. USE DEF OverIsOver, ReplyTrue, TypeOK, Start, End, NewJob, Is
<1>1. ASSUME NEW j \in Jobs, Loaded(j) PROVE OverIsOver'
  BY <1>1 DEF Loaded
<1>2. ASSUME NEW j \in Jobs, SendListed(j) PROVE OverIsOver'
  BY <1>2 DEF SendListed
<1>3. ASSUME NEW j \in Jobs, Saved(j) PROVE OverIsOver'
  <2>1. page'.snapshot = page.snapshot
    BY <1>3, StatusPage DEF Saved
  <2>2. \A i \in Jobs : job'[i] # None =>
           /\ job[i] # None
           /\ job'[i].kind = job[i].kind /\ job'[i].reply = job[i].reply
    <3>1. /\ [job[j] EXCEPT !.at = "marking"].kind = job[j].kind
          /\ [job[j] EXCEPT !.at = "marking"].reply = job[j].reply
      BY <1>3 DEF Saved, Job
    <3>. QED
      BY <1>3, <3>1 DEF Saved
  <2>. QED
    BY <1>3, <2>1, <2>2 DEF Saved
<1>4. ASSUME NEW j \in Jobs, MarkSaved(j) PROVE OverIsOver'
  <2>1. page'.snapshot = page.snapshot
    BY <1>4, StatusPage DEF MarkSaved
  <2>. QED
    BY <1>4, <2>1 DEF MarkSaved
<1>5. ASSUME NEW j \in Jobs, Submitted(j) PROVE OverIsOver'
  <2>1. page'.snapshot = page.snapshot \/ job[j].reply.verdict = "ok"
    BY <1>5 DEF Submitted, Page
  <2>. QED
    BY <1>5, <2>1 DEF Submitted
<1>6. ASSUME NEW j \in Jobs, Beaten(j) PROVE OverIsOver'
  BY <1>6 DEF Beaten
<1>7. ASSUME NEW j \in Jobs, Serve(j) PROVE OverIsOver'
  <2>1. attempt.status = "SUBMITTED" => attempt'.status = "SUBMITTED"
    BY <1>7 DEF Serve, ServerRow, Attempt, Statuses
  <2>2. job[j].kind = "submit" /\ job'[j].reply.verdict = "ok" => attempt'.status = "SUBMITTED"
    <3>1. job[j] \in Job /\ (job'[j].reply.verdict = "ok" => ~Refused(job[j]))
      BY <1>7 DEF Serve, Job
    <3>2. ASSUME job[j].kind = "submit", ~Refused(job[j]) PROVE attempt'.status = "SUBMITTED"
      BY <1>7, <3>2 DEF Serve, ServerRow, Attempt, Statuses, Saves
    <3>. QED
      BY <3>1, <3>2
  <2>3. job[j].kind \in {"load", "beat"} => job'[j].reply.seen = attempt
    BY <1>7 DEF Serve, Job
  <2>4. job'[j].kind = job[j].kind
    BY <1>7 DEF Serve, Job
  <2>. QED
    BY <1>7, <2>1, <2>2, <2>3, <2>4 DEF Serve
<1>8. ASSUME NEW j \in Jobs, OpenPage(j) PROVE OverIsOver'
  <2>1. page'.snapshot = None
    BY <1>8 DEF OpenPage, FreshPage
  <2>. QED
    BY <1>8, <2>1, NoneAssumption DEF OpenPage, Statuses
<1>9. ASSUME NEW j \in Jobs, Submit(j) PROVE OverIsOver'
  BY <1>9 DEF Submit, Form, FormShown
<1>10. ASSUME NEW j \in Jobs, Beat(j) PROVE OverIsOver'
  BY <1>10 DEF Beat
<1>11. ASSUME NEW j \in Jobs, NEW v \in Values, Edit(j, v) PROVE OverIsOver'
  BY <1>11 DEF Edit, Form, FormShown
<1>12. ASSUME NEW j \in Jobs, ServeLate(j) PROVE OverIsOver'
  <2>1. attempt.status = "SUBMITTED" => attempt'.status = "SUBMITTED"
    BY <1>12 DEF ServeLate, ServerRow, Attempt, Statuses
  <2>. QED
    BY <1>12, <2>1 DEF ServeLate
<1>13. ASSUME NEW j \in Jobs, Fail(j) PROVE OverIsOver'
  <2>1. page'.snapshot = page.snapshot
    BY <1>13, StatusPage DEF Fail, Page
  <2>2. Forsaken(job[j]) # None => Forsaken(job[j]).reply = None
    BY ForsakenJob
  <2>. QED
    BY <1>13, <2>1, <2>2 DEF Fail
<1>14. CASE Navigate
  <2>1. page'.snapshot = None
    BY <1>14 DEF Navigate, FreshPage
  <2>2. \A i \in Jobs : job'[i] # None /\ job'[i].reply # None =>
           /\ job[i] # None
           /\ job'[i].kind = job[i].kind /\ job'[i].reply = job[i].reply
    <3>1. \A i \in Jobs : Forsaken(job[i]) # None => Forsaken(job[i]).reply = None
      BY ForsakenJob
    <3>2. \A i \in Jobs : job[i] # None =>
             /\ [job[i] EXCEPT !.mounted = FALSE].kind = job[i].kind
             /\ [job[i] EXCEPT !.mounted = FALSE].reply = job[i].reply
      BY DEF Job
    <3>. QED
      BY <1>14, <3>1, <3>2 DEF Navigate
  <2>. QED
    BY <1>14, <2>1, <2>2, NoneAssumption DEF Navigate, Statuses
<1>15. CASE CloseTab
  <2>1. page'.snapshot = None
    BY <1>15 DEF CloseTab, FreshPage
  <2>2. \A i \in Jobs : job'[i] # None => job'[i].reply = None
    BY <1>15, ForsakenJob DEF CloseTab
  <2>. QED
    BY <1>15, <2>1, <2>2, NoneAssumption DEF CloseTab, Statuses
<1>16. CASE GoOffline
  BY <1>16 DEF GoOffline
<1>17. CASE GoOnline
  BY <1>17 DEF GoOnline, SyncWhenOnline
<1>18. CASE UNCHANGED vars
  BY <1>18 DEF vars
<1>19. ASSUME NEW v \in Values, EditUnstored(v) PROVE OverIsOver'
  <2>1. page'.phase = page.phase /\ page'.snapshot = page.snapshot
    BY <1>19 DEF EditUnstored, Page
  <2>. QED
    BY <1>19, <2>1 DEF EditUnstored
<1>20. CASE Deadline
  BY <1>20 DEF Deadline
<1>. QED
  BY <1>1, <1>2, <1>3, <1>4, <1>5, <1>6, <1>7, <1>8, <1>9, <1>10, <1>11, <1>12,
     <1>13, <1>14, <1>15, <1>16, <1>17, <1>18, <1>19, <1>20 DEF Next, Step

-----------------------------------------------------------------------------
(* What heartbeat and submit know *)

LEMMA SnapshotStep == TypeOK /\ OverIsOver /\ SnapshotThere /\ [Next]_vars => SnapshotThere'
<1>. SUFFICES ASSUME TypeOK, OverIsOver, SnapshotThere, [Next]_vars PROVE SnapshotThere'
  OBVIOUS
<1>. USE DEF SnapshotThere, TypeOK, Start, End, NewJob, Is
<1>1. ASSUME NEW j \in Jobs, Loaded(j) PROVE SnapshotThere'
  <2>1. job[j].reply.seen \in Attempt
    BY <1>1 DEF Loaded, OverIsOver, ReplyTrue
  <2>2. page'.snapshot # None
    BY <1>1, <2>1, NoneAssumption DEF Loaded, Page, Attempt
  <2>. QED
    BY <1>1, <2>2 DEF Loaded
<1>2. ASSUME NEW j \in Jobs, SendListed(j) PROVE SnapshotThere'
  BY <1>2 DEF SendListed
<1>3. ASSUME NEW j \in Jobs, Saved(j) PROVE SnapshotThere'
  <2>1. page'.snapshot = page.snapshot
    BY <1>3, StatusPage DEF Saved
  <2>2. \A i \in Jobs : job'[i] # None =>
           /\ job[i] # None
           /\ job'[i].kind = job[i].kind /\ job'[i].mounted = job[i].mounted
    <3>1. /\ [job[j] EXCEPT !.at = "marking"].kind = job[j].kind
          /\ [job[j] EXCEPT !.at = "marking"].mounted = job[j].mounted
      BY <1>3 DEF Saved, Job
    <3>. QED
      BY <1>3, <3>1 DEF Saved
  <2>. QED
    BY <1>3, <2>1, <2>2 DEF Saved
<1>4. ASSUME NEW j \in Jobs, MarkSaved(j) PROVE SnapshotThere'
  <2>1. page'.snapshot = page.snapshot
    BY <1>4, StatusPage DEF MarkSaved
  <2>. QED
    BY <1>4, <2>1 DEF MarkSaved
<1>5. ASSUME NEW j \in Jobs, Submitted(j) PROVE SnapshotThere'
  <2>1. page.snapshot # None => page'.snapshot # None
    BY <1>5, NoneAssumption DEF Submitted, Page, Statuses
  <2>. QED
    BY <1>5, <2>1 DEF Submitted
<1>6. ASSUME NEW j \in Jobs, Beaten(j) PROVE SnapshotThere'
  <2>1. job[j].reply.seen \in Attempt
    BY <1>6 DEF Beaten, OverIsOver, ReplyTrue
  <2>2. page'.snapshot # None
    BY <1>6, <2>1, NoneAssumption DEF Beaten, Page, Attempt
  <2>. QED
    BY <1>6, <2>2 DEF Beaten
<1>7. ASSUME NEW j \in Jobs, Serve(j) PROVE SnapshotThere'
  BY <1>7 DEF Serve
<1>8. ASSUME NEW j \in Jobs, OpenPage(j) PROVE SnapshotThere'
  BY <1>8 DEF OpenPage, FreshPage
<1>9. ASSUME NEW j \in Jobs, Submit(j) PROVE SnapshotThere'
  <2>1. open /\ page.snapshot # None /\ page'.snapshot = page.snapshot
    BY <1>9, NoneAssumption DEF Submit, Form, FormShown, Page, Statuses
  <2>. QED
    BY <1>9, <2>1 DEF Submit
<1>10. ASSUME NEW j \in Jobs, Beat(j) PROVE SnapshotThere'
  <2>1. page.snapshot # None
    BY <1>10, NoneAssumption DEF Beat, Statuses
  <2>. QED
    BY <1>10, <2>1 DEF Beat
<1>11. ASSUME NEW j \in Jobs, NEW v \in Values, Edit(j, v) PROVE SnapshotThere'
  BY <1>11 DEF Edit, Form, FormShown
<1>12. ASSUME NEW j \in Jobs, ServeLate(j) PROVE SnapshotThere'
  BY <1>12 DEF ServeLate
<1>13. ASSUME NEW j \in Jobs, Fail(j) PROVE SnapshotThere'
  <2>1. page'.snapshot = page.snapshot
    BY <1>13, StatusPage DEF Fail, Page
  <2>2. Forsaken(job[j]) # None => Forsaken(job[j]).kind # "beat" /\ ~Forsaken(job[j]).mounted
    BY DEF Forsaken, Job
  <2>. QED
    BY <1>13, <2>1, <2>2 DEF Fail
<1>14. CASE Navigate
  <2>1. \A i \in Jobs : job'[i] # None => job'[i].kind # "beat" /\ ~job'[i].mounted
    BY <1>14 DEF Navigate, Forsaken, Job
  <2>. QED
    BY <1>14, <2>1 DEF Navigate
<1>15. CASE CloseTab
  <2>1. \A i \in Jobs : job'[i] # None => job'[i].kind # "beat" /\ ~job'[i].mounted
    BY <1>15 DEF CloseTab, Forsaken, Job
  <2>. QED
    BY <1>15, <2>1 DEF CloseTab
<1>16. CASE GoOffline
  BY <1>16 DEF GoOffline
<1>17. CASE GoOnline
  BY <1>17 DEF GoOnline, SyncWhenOnline
<1>18. CASE UNCHANGED vars
  BY <1>18 DEF vars
<1>19. ASSUME NEW v \in Values, EditUnstored(v) PROVE SnapshotThere'
  <2>1. page'.phase = page.phase /\ page'.snapshot = page.snapshot
    BY <1>19 DEF EditUnstored, Page
  <2>. QED
    BY <1>19, <2>1 DEF EditUnstored
<1>20. CASE Deadline
  BY <1>20 DEF Deadline
<1>. QED
  BY <1>1, <1>2, <1>3, <1>4, <1>5, <1>6, <1>7, <1>8, <1>9, <1>10, <1>11, <1>12,
     <1>13, <1>14, <1>15, <1>16, <1>17, <1>18, <1>19, <1>20 DEF Next, Step

-----------------------------------------------------------------------------
(* The answer that is owed *)

LEMMA JobsKept ==
    ASSUME JobsSafe, owed' = owed, Has => Has',
           NEW j \in Jobs, NEW q, q # None => JobSafe(q)',
           \A i \in Jobs : job'[i] = IF i = j THEN q ELSE job[i]
    PROVE  JobsSafe'
BY DEF JobsSafe, JobSafe, Has

\* What the server does with the request of a job that is safe.
LEMMA RowSafe ==
    ASSUME attempt \in Attempt, AnswerSafe, owed' = owed,
           NEW q \in Job, JobSafe(q), attempt' = ServerRow(q)
    PROVE  /\ Has => Has'
           /\ attempt'.status = "SUBMITTED" => Has'
           /\ q.kind \in Saves /\ ~Refused(q) => Has'
<1>1. CASE q.kind = "submit" /\ ~Refused(q)
  BY <1>1 DEF ServerRow, Saves, Attempt, JobSafe, Has
<1>2. CASE q.kind \in Saves /\ ~Refused(q)
  BY <1>2 DEF ServerRow, Saves, Attempt, JobSafe, Has
<1>3. CASE q.kind \notin Saves \cup {"submit"} \/ Refused(q)
  <2>1. attempt' = attempt
    BY <1>3 DEF ServerRow
  <2>. QED
    BY <1>3, <2>1 DEF AnswerSafe, Has
<1>. QED
  BY <1>1, <1>2, <1>3

LEMMA SafeStep == IInv /\ [Next]_vars => Safe'
<1>. SUFFICES ASSUME IInv, [Next]_vars, owed' # None
              PROVE  JobsSafe' /\ AnswerSafe' /\ PageSafe'
  BY DEF Safe
<1>. USE DEF IInv, TypeOK
<1>0. ASSUME owed' = owed
      PROVE  JobsSafe /\ AnswerSafe /\ PageSafe
  BY <1>0 DEF Safe
<1>. DEFINE Goal == JobsSafe' /\ AnswerSafe' /\ PageSafe'
            Marking(j) == [job[j] EXCEPT !.at = "marking"]
<1>1. ASSUME NEW j \in Jobs, Loaded(j) PROVE Goal
  <2>. USE <1>0, <1>1
  <2>1. /\ job[j] # None /\ job[j] \in Job /\ owed' = owed
        /\ job[j].kind = "load" /\ job[j].reply # None
    BY DEF Loaded, Is
  <2>2. /\ job[j].reply.seen \in Attempt
        /\ job[j].reply.seen.status = "SUBMITTED" => attempt.status = "SUBMITTED"
    BY <2>1 DEF OverIsOver, ReplyTrue
  <2>3. /\ job[j].payload \in {None, owed}
        /\ job[j].payload = None => Has /\ job[j].reply.seen.answer = owed
    BY <2>1 DEF Loaded, JobsSafe, JobSafe
  <2>4. Has' <=> Has
    BY DEF Loaded, Has
  <2>5. PageSafe'
    <3>1. page'.shown = owed /\ (page'.saveStatus = "saved" => job[j].payload = None)
      BY <2>3 DEF Loaded, Page
    <3>. QED
      BY <2>1, <2>3, <2>4, <3>1 DEF PageSafe
  <2>6. AnswerSafe'
    <3>1. draft' = draft \/ (draft' = None /\ Has)
      BY <2>2 DEF Loaded, AnswerSafe, Attempt, Statuses
    <3>2. attempt' = attempt
      BY DEF Loaded
    <3>. QED
      BY <2>1, <2>4, <3>1, <3>2 DEF AnswerSafe, Pending
  <2>7. JobsSafe'
    <3>1. PICK q : /\ \A i \in Jobs : job'[i] = IF i = j THEN q ELSE job[i]
                   /\ q = None \/ (q = NewJob("resume", "listed", Pending) /\ Pending # None)
      BY DEF Loaded, Start, End
    <3>2. q # None => JobSafe(q)'
      BY <2>1, <3>1 DEF AnswerSafe, NewJob, JobSafe
    <3>. QED
      BY <2>1, <2>4, <3>1, <3>2, JobsKept
  <2>. QED
    BY <2>5, <2>6, <2>7
<1>2. ASSUME NEW j \in Jobs, SendListed(j) PROVE Goal
  <2>. USE <1>0, <1>2
  <2>1. owed' = owed /\ job[j] \in Job /\ attempt' = attempt /\ draft' = draft
    BY DEF SendListed, Is
  <2>2. PageSafe'
    BY <2>1 DEF SendListed, PageSafe, Page, Has
  <2>3. AnswerSafe'
    BY <2>1 DEF AnswerSafe, Pending, Has
  <2>4. JobsSafe'
    <3>1. PICK q : q = [job[j] EXCEPT !.at = "awaiting"]
      OBVIOUS
    <3>2. /\ q.kind = job[j].kind /\ q.at = "awaiting"
          /\ q.payload = job[j].payload /\ q.reply = job[j].reply
      BY <2>1, <3>1 DEF Job
    <3>3. \A i \in Jobs : job'[i] = IF i = j THEN q ELSE job[i]
      BY <3>1 DEF SendListed
    <3>4. JobSafe(q)'
      BY <2>1, <3>2 DEF SendListed, Is, JobsSafe, JobSafe, Has
    <3>. QED
      BY <2>1, <3>3, <3>4, JobsKept DEF Has
  <2>. QED
    BY <2>2, <2>3, <2>4
<1>3. ASSUME NEW j \in Jobs, Saved(j) PROVE Goal
  <2>. USE <1>0, <1>3
  <2>1. owed' = owed /\ job[j] \in Job /\ attempt' = attempt
        /\ job[j].kind \in Saves /\ job[j].payload = owed /\ job[j].reply # None
    BY DEF Saved, Is, JobsSafe, JobSafe
  <2>2. CASE /\ job[j].reply.verdict = "ok" /\ page' = page /\ job' = [job EXCEPT ![j] = Marking(j)]
             /\ draft' = [payload |-> job[j].payload, pending |-> FALSE]
    <3>1. Has /\ page' = page /\ draft' = [payload |-> owed, pending |-> FALSE]
      BY <2>1, <2>2 DEF Saved, Is, JobsSafe, JobSafe
    <3>2. PageSafe' /\ AnswerSafe'
      BY <2>1, <3>1 DEF PageSafe, AnswerSafe, Pending, Has
    <3>3. PICK q : q = Marking(j)
      OBVIOUS
    <3>4. /\ q.kind = job[j].kind /\ q.payload = job[j].payload /\ q.reply = job[j].reply
      BY <2>1, <3>3 DEF Job
    <3>5. \A i \in Jobs : job'[i] = IF i = j THEN q ELSE job[i]
      BY <2>2, <3>3 DEF Saved
    <3>6. JobSafe(q)'
      BY <2>1, <3>1, <3>4 DEF Saves, JobSafe, Has
    <3>. QED
      BY <2>1, <3>2, <3>5, <3>6, JobsKept DEF Has
  <2>3. CASE SetStatus(j, "unsynced") /\ End(j) /\ draft' = draft
    <3>1. SetStatus(j, "unsynced") /\ End(j) /\ draft' = draft
      BY <2>3
    <3>2. PageSafe' /\ AnswerSafe'
      BY <2>1, <3>1, StatusPage DEF PageSafe, AnswerSafe, Pending, Has
    <3>3. \A i \in Jobs : job'[i] = IF i = j THEN None ELSE job[i]
      BY <3>1 DEF End
    <3>. QED
      BY <2>1, <3>2, <3>3, JobsKept DEF Has
  <2>. QED
    BY <2>2, <2>3 DEF Saved
<1>4. ASSUME NEW j \in Jobs, MarkSaved(j) PROVE Goal
  <2>. USE <1>0, <1>4
  <2>1. /\ owed' = owed /\ attempt' = attempt /\ draft' = draft
        /\ SetStatus(j, "saved") /\ End(j)
    BY DEF MarkSaved
  <2>2. Has
    BY <2>1 DEF MarkSaved, Is, JobsSafe, JobSafe
  <2>3. PageSafe' /\ AnswerSafe'
    BY <2>1, <2>2, StatusPage DEF PageSafe, AnswerSafe, Pending, Has
  <2>4. \A i \in Jobs : job'[i] = IF i = j THEN None ELSE job[i]
    BY <2>1 DEF End
  <2>. QED
    BY <2>1, <2>3, <2>4, JobsKept DEF Has
<1>5. ASSUME NEW j \in Jobs, Submitted(j) PROVE Goal
  <2>. USE <1>0, <1>5
  <2>1. /\ owed' = owed /\ attempt' = attempt /\ (draft' = None \/ draft' = draft) /\ End(j)
        /\ job[j] # None /\ job[j].kind = "submit"
    BY DEF Submitted, Is
  <2>2. Has
    BY <2>1 DEF JobsSafe, JobSafe
  <2>3. AnswerSafe'
    BY <2>1, <2>2 DEF AnswerSafe, Pending, Has
  <2>4. PageSafe'
    <3>1. page'.snapshot # None => page.snapshot # None
      BY <2>1 DEF Submitted, SnapshotThere
    <3>2. page'.shown = page.shown
      BY DEF Submitted, Page
    <3>. QED
      BY <2>1, <2>2, <3>1, <3>2 DEF PageSafe, Has
  <2>5. \A i \in Jobs : job'[i] = IF i = j THEN None ELSE job[i]
    BY <2>1 DEF End
  <2>. QED
    BY <2>1, <2>3, <2>4, <2>5, JobsKept DEF Has
<1>6. ASSUME NEW j \in Jobs, Beaten(j) PROVE Goal
  <2>. USE <1>0, <1>6
  <2>1. /\ owed' = owed /\ attempt' = attempt /\ End(j)
        /\ job[j] # None /\ job[j].kind = "beat" /\ job[j].reply # None
    BY DEF Beaten, Is
  <2>2. /\ job[j].reply.seen \in Attempt
        /\ job[j].reply.seen.status = "SUBMITTED" => attempt.status = "SUBMITTED"
    BY <2>1 DEF OverIsOver, ReplyTrue
  <2>3. AnswerSafe'
    <3>1. draft' = draft \/ (draft' = None /\ Has)
      BY <2>2 DEF Beaten, AnswerSafe, Attempt, Statuses
    <3>. QED
      BY <2>1, <3>1 DEF AnswerSafe, Pending, Has
  <2>4. PageSafe'
    <3>1. page.snapshot # None
      BY <2>1 DEF SnapshotThere
    <3>2. page'.shown = page.shown /\ page'.saveStatus = page.saveStatus
      BY DEF Beaten, Page
    <3>. QED
      BY <2>1, <3>1, <3>2 DEF PageSafe, Has
  <2>5. \A i \in Jobs : job'[i] = IF i = j THEN None ELSE job[i]
    BY <2>1 DEF End
  <2>. QED
    BY <2>1, <2>3, <2>4, <2>5, JobsKept DEF Has
<1>7. ASSUME NEW j \in Jobs, Serve(j) PROVE Goal
  <2>. USE <1>0, <1>7
  <2>1. /\ owed' = owed /\ draft' = draft /\ page' = page
        /\ job[j] # None /\ job[j] \in Job /\ job[j].at = "awaiting" /\ JobSafe(job[j])
    BY DEF Serve, Is, JobsSafe
  <2>2. /\ Has => Has'
        /\ attempt'.status = "SUBMITTED" => Has'
        /\ job[j].kind \in Saves /\ ~Refused(job[j]) => Has'
    BY <2>1, RowSafe DEF Serve
  <2>3. PageSafe' /\ AnswerSafe'
    BY <2>1, <2>2 DEF PageSafe, AnswerSafe, Pending
  <2>4. JobsSafe'
    <3>1. PICK r : r = [verdict |-> IF Refused(job[j]) THEN "refused" ELSE "ok",
                        seen |-> IF job[j].kind \in {"load", "beat"} THEN attempt ELSE None]
      OBVIOUS
    <3>2. PICK q : q = [job[j] EXCEPT !.reply = r]
      OBVIOUS
    <3>3. \A i \in Jobs : job'[i] = IF i = j THEN q ELSE job[i]
      BY <3>1, <3>2 DEF Serve
    <3>4. /\ q.kind = job[j].kind /\ q.at = "awaiting"
          /\ q.payload = job[j].payload /\ q.reply = r
      BY <2>1, <3>2 DEF Job
    <3>5. /\ job[j].kind \in Saves /\ r.verdict = "ok" => ~Refused(job[j])
          /\ job[j].kind = "load" => r.seen = attempt
      BY <3>1
    <3>6. JobSafe(q)'
      BY <2>1, <2>2, <3>4, <3>5 DEF JobSafe, Has, Saves
    <3>. QED
      BY <2>1, <2>2, <3>3, <3>6, JobsKept
  <2>. QED
    BY <2>3, <2>4
<1>8. ASSUME NEW j \in Jobs, OpenPage(j) PROVE Goal
  <2>. USE <1>0, <1>8
  <2>1. owed' = owed /\ attempt' = attempt /\ draft' = draft /\ page' = FreshPage
    BY DEF OpenPage
  <2>2. PageSafe' /\ AnswerSafe'
    BY <2>1 DEF FreshPage, PageSafe, AnswerSafe, Pending, Has
  <2>3. PICK q : q = NewJob("load", "awaiting", Pending)
    OBVIOUS
  <2>4. \A i \in Jobs : job'[i] = IF i = j THEN q ELSE job[i]
    BY <2>3 DEF OpenPage, Start
  <2>5. JobSafe(q)'
    BY <2>1, <2>3 DEF NewJob, JobSafe, AnswerSafe, Has, Saves
  <2>. QED
    BY <2>1, <2>2, <2>4, <2>5, JobsKept DEF Has
<1>9. ASSUME NEW j \in Jobs, Submit(j) PROVE Goal
  <2>. USE <1>9
  <2>1. owed' = owed /\ page.saveStatus = "saved" /\ attempt' = attempt /\ draft' = draft
    BY DEF Submit
  <2>2. Has
    BY <1>0, <2>1 DEF PageSafe
  <2>3. PageSafe' /\ AnswerSafe'
    BY <1>0, <2>1, <2>2 DEF Submit, Page, PageSafe, AnswerSafe, Pending, Has
  <2>4. PICK q : q = NewJob("submit", "awaiting", None)
    OBVIOUS
  <2>5. \A i \in Jobs : job'[i] = IF i = j THEN q ELSE job[i]
    BY <2>4 DEF Submit, Start
  <2>6. JobSafe(q)'
    BY <2>1, <2>2, <2>4 DEF NewJob, JobSafe, Has, Saves
  <2>. QED
    BY <1>0, <2>1, <2>3, <2>5, <2>6, JobsKept DEF Has
<1>10. ASSUME NEW j \in Jobs, Beat(j) PROVE Goal
  <2>. USE <1>0, <1>10
  <2>1. owed' = owed /\ attempt' = attempt /\ draft' = draft /\ page' = page
    BY DEF Beat
  <2>2. PageSafe' /\ AnswerSafe'
    BY <2>1 DEF PageSafe, AnswerSafe, Pending, Has
  <2>3. PICK q : q = NewJob("beat", "awaiting", None)
    OBVIOUS
  <2>4. \A i \in Jobs : job'[i] = IF i = j THEN q ELSE job[i]
    BY <2>3 DEF Beat, Start
  <2>5. JobSafe(q)'
    BY <2>3 DEF NewJob, JobSafe, Saves
  <2>. QED
    BY <2>1, <2>2, <2>4, <2>5, JobsKept DEF Has
<1>11. ASSUME NEW j \in Jobs, NEW v \in Values, Edit(j, v) PROVE Goal
  <2>. USE <1>11
  <2>1. /\ owed' = v /\ ~Busy /\ attempt.status = "IN_PROGRESS" /\ attempt' = attempt
        /\ draft' = [payload |-> v, pending |-> TRUE] /\ page.phase = "form"
    BY DEF Edit, StoreDraft, Form
  <2>2. PageSafe'
    BY <2>1 DEF Edit, Page, PageSafe
  <2>3. AnswerSafe'
    <3>1. draft' # None
      <4>1. [payload |-> v, pending |-> TRUE] \in Draft
        BY DEF Draft
      <4>. QED
        BY <2>1, <4>1, NoneAssumption
    <3>. QED
      BY <2>1, <3>1 DEF AnswerSafe, Pending
  <2>4. \A i \in Jobs : job[i] # None => job[i].kind = "beat"
    <3>. SUFFICES ASSUME NEW i \in Jobs, job[i] # None PROVE job[i].kind = "beat"
      OBVIOUS
    <3>1. job[i].kind \notin Saves \cup {"submit"}
      BY <2>1 DEF Busy
    <3>2. job[i].kind # "load"
      BY <2>1 DEF LoaderAlone, Loader
    <3>. QED
      BY <3>1, <3>2 DEF Job, Kinds, Saves
  <2>5. \A i \in Jobs : job'[i] = IF i = j THEN NewJob("save", "awaiting", v) ELSE job[i]
    BY DEF Edit, Start
  <2>6. JobsSafe'
    <3>. SUFFICES ASSUME NEW i \in Jobs, NEW q, job'[i] = q, q # None PROVE JobSafe(q)'
      BY DEF JobsSafe
    <3>1. CASE i = j
      BY <2>1, <2>5, <3>1 DEF NewJob, JobSafe, Saves
    <3>2. CASE i # j
      BY <2>4, <2>5, <3>2 DEF JobSafe, Saves
    <3>. QED
      BY <3>1, <3>2
  <2>. QED
    BY <2>2, <2>3, <2>6
<1>12. ASSUME NEW j \in Jobs, ServeLate(j) PROVE Goal
  <2>. USE <1>0, <1>12
  <2>1. /\ owed' = owed /\ draft' = draft /\ page' = page /\ End(j)
        /\ attempt' = attempt \/ attempt' = ServerRow(job[j])
        /\ job[j] # None /\ job[j] \in Job /\ JobSafe(job[j])
    BY DEF ServeLate, Is, JobsSafe
  <2>2. (Has => Has') /\ (attempt'.status = "SUBMITTED" => Has')
    <3>1. CASE attempt' = attempt
      BY <2>1, <3>1 DEF AnswerSafe, Has
    <3>2. CASE attempt' = ServerRow(job[j])
      BY <2>1, <3>2, RowSafe
    <3>. QED
      BY <2>1, <3>1, <3>2
  <2>3. PageSafe' /\ AnswerSafe'
    BY <2>1, <2>2 DEF PageSafe, AnswerSafe, Pending
  <2>4. \A i \in Jobs : job'[i] = IF i = j THEN None ELSE job[i]
    BY <2>1 DEF End
  <2>. QED
    BY <2>1, <2>2, <2>3, <2>4, JobsKept
<1>13. ASSUME NEW j \in Jobs, Fail(j) PROVE Goal
  <2>. USE <1>0, <1>13
  <2>1. /\ owed' = owed /\ attempt' = attempt /\ draft' = draft
        /\ job[j] # None /\ job[j] \in Job /\ JobSafe(job[j])
    BY DEF Fail, Is, JobsSafe
  <2>2. PageSafe' /\ AnswerSafe'
    <3>1. page'.snapshot = page.snapshot /\ page'.shown = page.shown
          /\ page'.saveStatus \in {page.saveStatus, "unsynced"}
      BY StatusPage DEF Fail, Page
    <3>. QED
      BY <2>1, <3>1 DEF PageSafe, AnswerSafe, Pending, Has
  <2>3. PICK q : q = Forsaken(job[j])
    OBVIOUS
  <2>4. \A i \in Jobs : job'[i] = IF i = j THEN q ELSE job[i]
    BY <2>3 DEF Fail
  <2>5. q # None => JobSafe(q)'
    BY <2>1, <2>3, ForsakenJob DEF JobSafe, Has
  <2>. QED
    BY <2>1, <2>2, <2>4, <2>5, JobsKept DEF Has
<1>14. CASE Navigate
  <2>. USE <1>0, <1>14
  <2>1. owed' = owed /\ attempt' = attempt /\ draft' = draft /\ page' = FreshPage
    BY DEF Navigate
  <2>2. PageSafe' /\ AnswerSafe'
    BY <2>1 DEF FreshPage, PageSafe, AnswerSafe, Pending, Has
  <2>3. JobsSafe'
    <3>. SUFFICES ASSUME NEW i \in Jobs, NEW q, job'[i] = q, q # None PROVE JobSafe(q)'
      BY DEF JobsSafe
    <3>1. CASE q = Forsaken(job[i])
      BY <2>1, <3>1, ForsakenJob DEF JobsSafe, JobSafe, Has
    <3>2. CASE job[i] # None /\ q = [job[i] EXCEPT !.mounted = FALSE]
      <4>1. /\ q.kind = job[i].kind /\ q.at = job[i].at
            /\ q.payload = job[i].payload /\ q.reply = job[i].reply
        BY <3>2 DEF Job
      <4>. QED
        BY <2>1, <3>2, <4>1 DEF JobsSafe, JobSafe, Has
    <3>. QED
      BY <3>1, <3>2 DEF Navigate
  <2>. QED
    BY <2>2, <2>3
<1>15. CASE CloseTab
  <2>. USE <1>0, <1>15
  <2>1. owed' = owed /\ attempt' = attempt /\ draft' = draft /\ page' = FreshPage
    BY DEF CloseTab
  <2>2. PageSafe' /\ AnswerSafe'
    BY <2>1 DEF FreshPage, PageSafe, AnswerSafe, Pending, Has
  <2>3. JobsSafe'
    <3>. SUFFICES ASSUME NEW i \in Jobs, NEW q, job'[i] = q, q # None PROVE JobSafe(q)'
      BY DEF JobsSafe
    <3>1. q = Forsaken(job[i])
      BY DEF CloseTab
    <3>. QED
      BY <2>1, <3>1, ForsakenJob DEF JobsSafe, JobSafe, Has
  <2>. QED
    BY <2>2, <2>3
<1>16. CASE GoOffline
  BY <1>0, <1>16 DEF GoOffline, PageSafe, AnswerSafe, Pending, JobsSafe, JobSafe, Has
<1>17. CASE GoOnline
  <2>. USE <1>0, <1>17
  <2>1. owed' = owed /\ attempt' = attempt /\ draft' = draft /\ page' = page
    BY DEF GoOnline
  <2>2. PageSafe' /\ AnswerSafe'
    BY <2>1 DEF PageSafe, AnswerSafe, Pending, Has
  <2>3. CASE job' = job
    BY <2>1, <2>2, <2>3 DEF JobsSafe, JobSafe, Has
  <2>4. CASE job' # job
    <3>1. PICK j \in Jobs : Pending # None /\ Start(j, "sync", "listed", Pending)
      BY <2>4 DEF GoOnline, SyncWhenOnline
    <3>2. PICK q : q = NewJob("sync", "listed", Pending)
      OBVIOUS
    <3>3. \A i \in Jobs : job'[i] = IF i = j THEN q ELSE job[i]
      BY <3>1, <3>2 DEF Start
    <3>4. JobSafe(q)'
      BY <2>1, <3>1, <3>2 DEF NewJob, JobSafe, AnswerSafe
    <3>. QED
      BY <2>1, <2>2, <3>3, <3>4, JobsKept DEF Has
  <2>. QED
    BY <2>3, <2>4
<1>18. CASE UNCHANGED vars
  BY <1>0, <1>18 DEF vars, PageSafe, AnswerSafe, Pending, JobsSafe, JobSafe, Has
<1>19. ASSUME NEW v \in Values, EditUnstored(v) PROVE Goal
  BY <1>19 DEF EditUnstored
<1>20. CASE Deadline
  BY <1>0, <1>20 DEF Deadline, PageSafe, AnswerSafe, Pending, JobsSafe, JobSafe, Has
<1>. QED
  BY <1>1, <1>2, <1>3, <1>4, <1>5, <1>6, <1>7, <1>8, <1>9, <1>10, <1>11, <1>12,
     <1>13, <1>14, <1>15, <1>16, <1>17, <1>18, <1>19, <1>20 DEF Next, Step

-----------------------------------------------------------------------------
(* Theorems *)

LEMMA IInvStep == IInv /\ [Next]_vars => IInv'
BY TypeStep, LoaderStep, SnapshotStep, OverStep, SafeStep DEF IInv

\* Page, drafts and requests are well typed.
THEOREM TypeCorrect == Spec => []TypeOK
<1>1. IInv => TypeOK
  BY DEF IInv
<1>. QED
  BY <1>1, InitIInv, IInvStep, PTL DEF Spec

\* An answer given at rest is on the server or in a pending draft, and where
\* the page says "saved" the server has what the student sees, however
\* requests fail or come late and the page is left, reloaded and reopened.
THEOREM EditsKept == Spec => []LastEditKept
<1>1. IInv => LastEditKept
  <2>. SUFFICES ASSUME IInv, owed # None
                PROVE  /\ Has \/ Pending = owed
                       /\ FormShown /\ page.saveStatus = "saved" => Has /\ page.shown = owed
    BY DEF LastEditKept, Pending, Has
  <2>1. FormShown => page.snapshot # None
    BY NoneAssumption DEF FormShown, Statuses
  <2>. QED
    BY <2>1 DEF IInv, Safe, AnswerSafe, PageSafe
<1>. QED
  BY <1>1, InitIInv, IInvStep, PTL DEF Spec

=============================================================================
