------------------------------ MODULE MCFilter ------------------------------
(* One order and two companies; the unfiltered list has three pages.         *)
EXTENDS Filter

CONSTANTS order, company, az, c1, c2

MCEntry == [k \in {order, company} |-> IF k = order THEN {az} ELSE {c1, c2}]
MCPagesOf == [q \in Query |-> CASE q[company] = c1 -> 1 [] q[company] = c2 -> 2 [] OTHER -> 3]
=============================================================================
