-------------------------- MODULE AttemptLifecycle --------------------------
(***************************************************************************)
(* What the attempts feature promises about one table of attempts, with no *)
(* request, lock, clock or transaction in it: an attempt is started once,  *)
(* collects answers one revision at a time while it is in progress, ends   *)
(* once and is graded once, from exactly the answers it holds when it      *)
(* ends.  Nothing about it changes afterwards.                             *)
(*                                                                         *)
(* It may end by expiry, as the documents want of an attempt found past    *)
(* its deadline (api/05-assessments-attempts.md:117,125,137), and be       *)
(* graded then or later.  The code allows for EXPIRED in the column and in *)
(* GetAttemptResult but never gets there: its update is rolled back.       *)
(***************************************************************************)
EXTENDS AttemptGrading

CONSTANT Attempts   \* attempt ids

VARIABLES phase,    \* phase[a]: "NONE", "IN_PROGRESS", "SUBMITTED" or "EXPIRED"
          sheet,    \* sheet[a]: the stored answers
          verdict   \* verdict[a]: the stored grading result

lifecycleVars == <<phase, sheet, verdict>>

Init ==
    /\ phase = [a \in Attempts |-> "NONE"]
    /\ sheet = [a \in Attempts |-> [i \in Items |-> NoAnswer]]
    /\ verdict = [a \in Attempts |-> NoResult]

Start(a) ==
    /\ phase[a] = "NONE"
    /\ phase' = [phase EXCEPT ![a] = "IN_PROGRESS"]
    /\ UNCHANGED <<sheet, verdict>>

Save(a, i, p) ==
    /\ phase[a] = "IN_PROGRESS"
    /\ sheet' = [sheet EXCEPT ![a][i] =
                    [revision |-> sheet[a][i].revision + 1, payload |-> p]]
    /\ UNCHANGED <<phase, verdict>>

Submit(a) ==
    /\ phase[a] = "IN_PROGRESS"
    /\ phase' = [phase EXCEPT ![a] = "SUBMITTED"]
    /\ verdict' = [verdict EXCEPT ![a] = GradeAttempt(sheet[a])]
    /\ UNCHANGED sheet

Expire(a) ==
    /\ phase[a] = "IN_PROGRESS"
    /\ phase' = [phase EXCEPT ![a] = "EXPIRED"]
    /\ verdict' \in {verdict, [verdict EXCEPT ![a] = GradeAttempt(sheet[a])]}
    /\ UNCHANGED sheet

GradeExpired(a) ==
    /\ phase[a] = "EXPIRED" /\ verdict[a] = NoResult
    /\ verdict' = [verdict EXCEPT ![a] = GradeAttempt(sheet[a])]
    /\ UNCHANGED <<phase, sheet>>

Next ==
    \E a \in Attempts :
        \/ Start(a)
        \/ \E i \in Items, p \in Payloads : Save(a, i, p)
        \/ Submit(a) \/ Expire(a) \/ GradeExpired(a)

Spec == Init /\ [][Next]_lifecycleVars

=============================================================================
