------------------------------- MODULE MCFeeds ------------------------------
(***************************************************************************)
(* Four rows over two instants of one second and one of the next, read one *)
(* or two at a time: every list in every order, with ties within a page    *)
(* and between pages, and rows that come and go between any two pages.     *)
(***************************************************************************)
EXTENDS Feeds

MCRows == 1..4
MCInstants == 0..2
MCLimits == {1, 2}

=============================================================================
