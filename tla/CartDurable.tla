---------------------------- MODULE CartDurable ----------------------------
(***************************************************************************)
(* The cart of a guest who waits for his adds implements a write-behind    *)
(* store: products are the keys, quantities the values.                    *)
(***************************************************************************)
EXTENDS Cart

QuantityIn(list, p) ==
  IF p \in Ids(list)
  THEN list[CHOOSE k \in DOMAIN list : list[k].id = p].quantity ELSE 0

\* The entries of a list in the order of their positions: the entry in place i
\* is the one whose position is the i-th.
Place(S, k) == Cardinality({j \in S : j <= k})
AnyOf(S) == CHOOSE x \in S : TRUE
InOrder(list) ==
  [i \in 1 .. Cardinality(DOMAIN list) |->
     AnyOf({list[k] : k \in {j \in DOMAIN list : Place(DOMAIN list, j) = i}})]

\* What a waiting operation will write of p (an insert is shown when written).
Writes(o, p) == \/ o = ClearOp
                \/ o.op \in {"delete", "quantity"} /\ o.id = p
Written(o) == IF o.op = "quantity" THEN o.quantity ELSE 0
WritesOf(p) == [n \in {m \in DOMAIN queue : Writes(queue[m], p)} |-> Written(queue[n])]
WaitingFor(p) == InOrder(WritesOf(p))

\* Until the first load is done the screen has nothing but its loading view.
Durable == INSTANCE WriteBehind WITH
  Key <- Product,
  Value <- 1 .. MaxQty,
  Absent <- 0,
  shown <- [p \in Product |-> QuantityIn(IF Loading THEN table ELSE cartProducts, p)],
  stored <- [p \in Product |-> QuantityIn(table, p)],
  pending <- [p \in Product |-> WaitingFor(p)]

\* cart_controller changes the screen and hands each change to the table
\* without waiting, except for adds: seen product by product this is a
\* write-behind store, through any interleaving and any process death.
IsWriteBehind == Durable!Spec
=============================================================================
