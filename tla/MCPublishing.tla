---------------------------- MODULE MCPublishing ----------------------------
(* Instances of Publishing for TLC. *)
EXTENDS Publishing

CONSTANTS s1, i1, c1

Value(opens, closes, duration) ==
    [opens |-> opens, closes |-> closes, duration |-> duration]

\* Every kind of edit once, of the rows the draft starts with.
MCEdits ==
    {[kind |-> "CreateSection"],
     [kind |-> "DeleteSection", section |-> s1],
     [kind |-> "DuplicateSection", section |-> s1],
     [kind |-> "CreateItem", section |-> s1, positive |-> FALSE],
     [kind |-> "UpdateItem", item |-> i1, positive |-> FALSE],
     [kind |-> "DeleteItem", item |-> i1],
     [kind |-> "DuplicateItem", item |-> i1],
     [kind |-> "CreateTarget", class |-> c1],
     [kind |-> "DeleteTarget", class |-> c1]}

\* Sent by UpdateAssessment: no schedule, an exam that opens late and never
\* closes, and one with a duration that validation refuses.
MCSettings == {Value(None, None, 1), Value(2, None, None), Value(None, 1, 0)}

\* A draft that a teacher has built with the same requests, so that the few
\* edits of an instance meet the publication.
MCInit ==
    /\ settings = Value(1, 3, 1)
    /\ section = [s \in Sections |-> IF s = s1 THEN "ACTIVE" ELSE "absent"]
    /\ item = [i \in Items |-> IF i = i1 THEN NewItem(s1, TRUE) ELSE NoItem]
    /\ target \in [Classes -> {"absent", "ACTIVE"}]
    /\ status = "DRAFT" /\ revision = 1 /\ active = Classes
    /\ publications = << >>
    /\ now = 0
    /\ pc = [r \in Requests |-> "idle"]
    /\ op = [r \in Requests |-> None] /\ snap = [r \in Requests |-> NoSnap]
    /\ edits = 0 /\ disturbed = {} /\ clean = TRUE /\ late = 0

MCSpec == MCInit /\ [][Next]_vars /\ Fairness

=============================================================================
