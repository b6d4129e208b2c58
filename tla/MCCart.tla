------------------------------- MODULE MCCart -------------------------------
(* Two products of one shop and one of another; the server may give away g.  *)
EXTENDS CartDurable

CONSTANTS a1, a2, b1, g, A, B

MCVendorOf   == [p \in Product \cup Gift |-> IF p = b1 THEN B ELSE A]
MCUnitPrice  == [p \in Product \cup Gift |-> CASE p = a1 -> 2 [] p = a2 -> 3 [] p = b1 -> 5 [] p = g -> 1]
MCUnitPoints == [p \in Product \cup Gift |-> IF p \in {a1, g} THEN 1 ELSE 2]
=============================================================================
