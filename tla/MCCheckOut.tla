----------------------------- MODULE MCCheckOut -----------------------------
(* Two products of two shops; the server may give away g.                    *)
EXTENDS CheckOut

CONSTANTS a1, b1, g, A, B

MCVendorOf   == [p \in Product \cup Gift |-> IF p = b1 THEN B ELSE A]
MCUnitPrice  == [p \in Product \cup Gift |-> 1]
MCUnitPoints == [p \in Product \cup Gift |-> 1]
=============================================================================
