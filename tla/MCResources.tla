---------------------------- MODULE MCResources ----------------------------
(***************************************************************************)
(* A class and the organization, a teacher and a student.  The resource x1 *)
(* of the class is in any state, with or without a file; x2 of the         *)
(* organization is published and has a file.  Two requests meet in every   *)
(* order, and the rosters change once.                                     *)
(***************************************************************************)
EXTENDS Resources, TLC

CONSTANTS x1, x2, k1, k2, r1, r2, c1

MCUploads == {<<"unnamed", "named">>}

OfClass == {[status |-> s, scope |-> c1] :
               s \in {StatusDraft, StatusPublished, StatusArchived}}
MCTables ==
    {<<x1 :> row @@ x2 :> [status |-> StatusPublished, scope |-> Organization],
       k1 :> file @@ k2 :> [resource |-> x2, at |-> 0]>> :
          <<row, file>> \in (OfClass \X {None, [resource |-> x1, at |-> 1]})
                               \cup {<<None, None>>}}

Symmetry == Permutations({r1, r2})

=============================================================================
