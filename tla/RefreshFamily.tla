---------------------------- MODULE RefreshFamily ----------------------------
(***************************************************************************)
(* What a family of refresh tokens promises, without requests, locks or    *)
(* transactions: a login opens a family with one token, each refresh       *)
(* replaces the family's token by one never used before, and a family that *)
(* is closed stays closed.                                                 *)
(***************************************************************************)
CONSTANT Tokens
VARIABLES used,     \* tokens handed out so far
          current   \* the tokens of each family that still work

Init == /\ used = {}
        /\ current = [f \in Tokens |-> {}]

Open(f) == /\ f \in Tokens \ used
           /\ used' = used \cup {f}
           /\ current' = [current EXCEPT ![f] = {f}]

Replace(f) == \E t \in Tokens, n \in Tokens \ used :
                /\ current[f] = {t}
                /\ used' = used \cup {n}
                /\ current' = [current EXCEPT ![f] = {n}]

\* A logout closes one family, a deletion those of an account.
Close(F) == /\ current' = [f \in Tokens |-> IF f \in F THEN {} ELSE current[f]]
            /\ UNCHANGED used

Next == \/ \E f \in Tokens : Open(f) \/ Replace(f)
        \/ \E F \in SUBSET Tokens : Close(F)

Spec == Init /\ [][Next]_<<used, current>>
=============================================================================
