---------------------------- MODULE MCAuthoring ----------------------------
(***************************************************************************)
(* One draft with up to two sections, the first with up to two items, and  *)
(* one question with a published and maybe a draft version.  Two requests  *)
(* meet in every order.                                                    *)
(***************************************************************************)
EXTENDS Authoring, TLC

CONSTANTS exam, s1, s2, s3, s4, i1, i2, i3, i4, i5, i6, q1, q2, v1, v2, v3, v4

MCOrders == {<<s1, s2>>, <<s2, s1>>, <<s1, s1>>, <<i1, i2>>, <<i2, i1>>, <<i1>>}

Table(rows) == rows @@ [x \in Ids |-> None]
Base == s1 :> Row(exam, 10, StatusActive, None) @@ i1 :> Row(s1, 10, StatusActive, v1)
        @@ v1 :> Row(q1, 1, StatusPublished, None)
Section2(position, status) == s2 :> Row(exam, position, status, None)
Item2(position, status) == i2 :> Row(s1, position, status, v1)
Version2 == v2 :> Row(q1, 2, StatusDraft, None)

MCRows ==
    {Table(Base),
     Table(Section2(20, StatusActive) @@ Item2(1, StatusActive) @@ Base),
     Table(Section2(0, StatusActive) @@ Item2(20, StatusArchived) @@ Version2 @@ Base),
     Table(Section2(20, StatusArchived) @@ Item2(0, StatusActive) @@ Base)}

=============================================================================
