----------------------------- MODULE WriteBehind -----------------------------
(***************************************************************************)
(* What a store promises that shows a change before it has written it: for *)
(* each key the values still to be written are those shown since, in the   *)
(* order they were shown, and a crash falls back to what is written.       *)
(* Keys are independent of one another.  A value that is written and shown *)
(* at once is never lost.                                                  *)
(***************************************************************************)
EXTENDS Sequences

CONSTANTS Key, Value, Absent   \* Absent: the value of a key that is not stored

VARIABLES
  shown,    \* shown[k]: what the user sees
  stored,   \* stored[k]: what a crash leaves
  pending   \* pending[k]: the values of k still to be written, the oldest first

store == <<shown, stored, pending>>

Init == /\ shown = [k \in Key |-> Absent]
        /\ stored = shown
        /\ pending = [k \in Key |-> <<>>]

\* The values of the keys in ks change on the screen and will be written.
Show(ks, v) ==
  /\ shown' = [k \in Key |-> IF k \in ks THEN v ELSE shown[k]]
  /\ pending' = [k \in Key |-> IF k \in ks THEN Append(pending[k], v) ELSE pending[k]]
  /\ UNCHANGED stored

\* The oldest pending values of the keys in ks are written.
Write(ks) ==
  /\ \A k \in ks : pending[k] # <<>>
  /\ stored' = [k \in Key |-> IF k \in ks THEN Head(pending[k]) ELSE stored[k]]
  /\ pending' = [k \in Key |-> IF k \in ks THEN Tail(pending[k]) ELSE pending[k]]
  /\ UNCHANGED shown

\* A new key is shown when it is written, and only when nothing older waits.
WriteThrough(k, v) ==
  /\ pending[k] = <<>> /\ shown[k] = Absent
  /\ shown' = [shown EXCEPT ![k] = v]
  /\ stored' = [stored EXCEPT ![k] = v]
  /\ UNCHANGED pending

Crash == /\ shown' = stored
         /\ pending' = [k \in Key |-> <<>>]
         /\ UNCHANGED stored

Next == \/ \E ks \in SUBSET Key : Write(ks)
        \/ \E ks \in SUBSET Key : Show(ks, Absent)
        \/ \E k \in Key, v \in Value : Show({k}, v) \/ WriteThrough(k, v)
        \/ Crash

Spec == Init /\ [][Next]_store
=============================================================================
