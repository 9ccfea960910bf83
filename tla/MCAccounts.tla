----------------------------- MODULE MCAccounts -----------------------------
(***************************************************************************)
(* Account l1 exists and has changed its password none to three times, one *)
(* change after the other, or is older than the history of passwords; the  *)
(* name l2 is free.  Two requests meet in every order.                     *)
(***************************************************************************)
EXTENDS Accounts, TLC

CONSTANTS l1, l2, n1, n2, p0, p1, p2, p3, r1, r2

Old == <<p0, p1, p2, p3>>
Histories[n \in 0..3] ==
    IF n = 0 THEN StorePasswordHistory(<< >>, Nothing, p0, 0)
    ELSE UNION {StorePasswordHistory(rows, Old[n], Old[n + 1], n) : rows \in Histories[n - 1]}

Existing(p) == [password |-> p, by |-> Nothing]
Nobody == [l \in Logins |-> Nothing]
NoRows == [l \in Logins |-> << >>]

MCAccountsBefore ==
    UNION {{<<l1 :> Existing(Old[n + 1]) @@ Nobody, l1 :> rows @@ NoRows,
              l1 :> SubSeq(Old, 1, n + 1) @@ NoRows, n>> : rows \in Histories[n]} : n \in 0..3}
    \cup {<<l1 :> Existing(p0) @@ Nobody, NoRows, l1 :> <<p0>> @@ NoRows, 0>>}

Line(l) == [login |-> l, password |-> p1]
MCFiles == {<<Line(l2), Line(l2)>>, <<Line(l1), BadRow, Line(l2)>>}

Symmetry == Permutations({r1, r2})

=============================================================================
