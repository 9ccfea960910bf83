---------------------------- MODULE SessionPolicy ----------------------------
(***************************************************************************)
(* What refresh tokens of one user promise, with no request, lock or       *)
(* transaction in it.  Every login founds a family of tokens; a token can  *)
(* be exchanged once, for a token of the same family; a change of the      *)
(* user's credentials or roles ends every token issued before it.          *)
(***************************************************************************)
EXTENDS Naturals

CONSTANTS Sessions,   \* refresh tokens
          None        \* the family of a token not issued yet

VARIABLES family,   \* family[s]: the token of the login s goes back to
          usable,   \* the tokens a refresh would accept
          epoch     \* how often credentials or roles changed

policyVars == <<family, usable, epoch>>

Init ==
    /\ family = [s \in Sessions |-> None]
    /\ usable = {} /\ epoch = 0

\* A login, possibly one whose credentials changed before it was over.
Grant(s) ==
    /\ family[s] = None
    /\ family' = [family EXCEPT ![s] = s]
    /\ usable' \in {usable, usable \cup {s}}
    /\ UNCHANGED epoch

Rotate(s, t) ==
    /\ s \in usable /\ family[t] = None
    /\ family' = [family EXCEPT ![t] = family[s]]
    /\ usable' = (usable \ {s}) \cup {t}
    /\ UNCHANGED epoch

End(s) ==
    /\ s \in usable
    /\ usable' = usable \ {s}
    /\ UNCHANGED <<family, epoch>>

EndAll ==
    /\ usable' = {}
    /\ epoch' = epoch + 1
    /\ UNCHANGED family

Next ==
    \/ \E s \in Sessions : Grant(s) \/ End(s) \/ \E t \in Sessions : Rotate(s, t)
    \/ EndAll

Spec == Init /\ [][Next]_policyVars

=============================================================================
