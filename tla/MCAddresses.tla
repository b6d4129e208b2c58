----------------------------- MODULE MCAddresses -----------------------------
(* One text, two places; the server has two addresses at the start.  Of the  *)
(* two areas the second has one place; none has the other.                   *)
EXTENDS Addresses

CONSTANTS t, x, y, a, b

First(n, place, area) == [id |-> n, text |-> t, place |-> place, area |-> area]
TwoStored == <<First(1, x, b), First(2, y, a)>>
ListedAreas == [place \in {x, y} |-> IF place = x THEN <<a, b>> ELSE <<a>>]
Polygons == {<<b, x>>}
=============================================================================
