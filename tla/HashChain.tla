------------------------------ MODULE HashChain ------------------------------
(***************************************************************************)
(* What the audit log promises its readers: rows are appended one at a     *)
(* time, each under a larger seq than every row before it and chained to   *)
(* the row that was the newest, and no row ever changes or disappears.     *)
(***************************************************************************)
EXTENDS Naturals

VARIABLES
    rows,  \* seq -> row, each with the seq of its predecessor in prev
    head   \* the newest row's seq, 0 for the empty log

Init == DOMAIN rows = {} /\ head = 0

Append ==
    \E s \in DOMAIN rows' \ DOMAIN rows :
        /\ s > head
        /\ DOMAIN rows' = DOMAIN rows \cup {s}
        /\ \A t \in DOMAIN rows : rows'[t] = rows[t]
        /\ rows'[s].prev = head
        /\ head' = s

Spec == Init /\ [][Append]_<<rows, head>>
=============================================================================
