--------------------------- MODULE ShoppingProofs ---------------------------
(***************************************************************************)
(* Proofs about what is built on the cart, for every catalogue and every   *)
(* bound.  First that the cart of a patient guest implements a store that  *)
(* is written behind (CartDurable, WriteBehind); then, of the user who     *)
(* also waits for the server before he orders, that the check out bills    *)
(* the cart and that only an order empties it (CheckOut).                  *)
(***************************************************************************)
EXTENDS CheckOut, CartDurable, CartProofs, SequenceTheorems

-----------------------------------------------------------------------------
(* The entries of a list in order, when the list grows and shrinks.          *)
Positioned(list) == \E n \in Nat : DOMAIN list \subseteq 1 .. n

LEMMA PositionsFinite ==
  ASSUME NEW S, NEW n \in Nat, S \subseteq 1 .. n
  PROVE  /\ IsFiniteSet(S) /\ Cardinality(S) \in Nat
         /\ \A k : Place(S, k) \in Nat /\ Place(S, k) <= Cardinality(S)
<1>1. IsFiniteSet(S)
  <2>1. S \in SUBSET Nat /\ \A k \in S : k <= n
    OBVIOUS
  <2> QED BY <2>1, FS_BoundedSetOfNaturals
<1>2. Cardinality(S) \in Nat
  BY <1>1, FS_CardinalityType
<1>3. ASSUME NEW k PROVE Place(S, k) \in Nat /\ Place(S, k) <= Cardinality(S)
  <2>1. {j \in S : j <= k} \in SUBSET S
    OBVIOUS
  <2> QED BY <1>1, <2>1, FS_Subset, FS_CardinalityType DEF Place
<1> QED BY <1>1, <1>2, <1>3

LEMMA NothingInOrder ==
  ASSUME NEW list, DOMAIN list = {}
  PROVE  InOrder(list) = <<>>
<1>1. Cardinality(DOMAIN list) = 0
  BY FS_EmptySet
<1>2. 1 .. 0 = {}
  OBVIOUS
<1> QED BY <1>1, <1>2 DEF InOrder

(* A list in order is a sequence of its own entries.                         *)
LEMMA InOrderSequence ==
  ASSUME NEW list, Positioned(list)
  PROVE  /\ Cardinality(DOMAIN list) \in Nat
         /\ InOrder(list) \in Seq({InOrder(list)[i] : i \in 1 .. Cardinality(DOMAIN list)})
         /\ Len(InOrder(list)) = Cardinality(DOMAIN list)
         /\ \A i \in 1 .. Cardinality(DOMAIN list) :
              InOrder(list)[i] = AnyOf({list[k] : k \in {j \in DOMAIN list : Place(DOMAIN list, j) = i}})
<1> DEFINE n == Cardinality(DOMAIN list)
           R == {InOrder(list)[i] : i \in 1 .. n}
<1>1. n \in Nat
  BY PositionsFinite DEF Positioned
<1>2. /\ DOMAIN InOrder(list) = 1 .. n
      /\ \A i \in 1 .. n :
           InOrder(list)[i] = AnyOf({list[k] : k \in {j \in DOMAIN list : Place(DOMAIN list, j) = i}})
      /\ InOrder(list) = [i \in 1 .. n |-> InOrder(list)[i]]
  BY DEF InOrder
<1> HIDE DEF n
<1>3. InOrder(list) \in [1 .. n -> R]
  BY <1>2
<1>4. InOrder(list) \in Seq(R) /\ Len(InOrder(list)) = n
  <2> HIDE DEF R
  <2> QED BY <1>1, <1>3
<1> QED BY <1>1, <1>2, <1>4 DEF n

(* An entry added after all the others comes last.                           *)
LEMMA InOrderAppend ==
  ASSUME NEW old, Positioned(old), NEW x \in Nat \ {0}, \A k \in DOMAIN old : k < x,
         NEW new, DOMAIN new = DOMAIN old \cup {x}, \A k \in DOMAIN old : new[k] = old[k]
  PROVE  InOrder(new) = Append(InOrder(old), new[x])
<1> DEFINE c == Cardinality(DOMAIN old)
           At(list, i) == {list[k] : k \in {j \in DOMAIN list : Place(DOMAIN list, j) = i}}
<1>1. PICK n \in Nat : DOMAIN old \subseteq 1 .. n
  BY DEF Positioned
<1>2. /\ IsFiniteSet(DOMAIN old) /\ c \in Nat
      /\ \A k : Place(DOMAIN old, k) \in Nat /\ Place(DOMAIN old, k) <= c
  BY <1>1, PositionsFinite
<1>3. Cardinality(DOMAIN new) = c + 1
  BY <1>2, FS_AddElement
<1>4. Positioned(new)
  <2>1. DOMAIN new \subseteq 1 .. x
    BY <1>1
  <2> QED BY <2>1 DEF Positioned
<1>5. \A k \in DOMAIN old : Place(DOMAIN new, k) = Place(DOMAIN old, k)
  <2> SUFFICES ASSUME NEW k \in DOMAIN old
               PROVE  {j \in DOMAIN new : j <= k} = {j \in DOMAIN old : j <= k}
    BY DEF Place
  <2>1. ~(x <= k)
    BY <1>1
  <2> QED BY <2>1
<1>6. Place(DOMAIN new, x) = c + 1
  <2>1. {j \in DOMAIN new : j <= x} = DOMAIN new
    BY <1>1
  <2> QED BY <1>3, <2>1 DEF Place
<1>7. ASSUME NEW i \in 1 .. c PROVE At(new, i) = At(old, i)
  <2> HIDE DEF c
  <2>1. i \in Nat /\ i # c + 1
    BY <1>2
  <2>2. \A j \in DOMAIN new : Place(DOMAIN new, j) = i =>
          j \in DOMAIN old /\ Place(DOMAIN old, j) = i
    BY <1>5, <1>6, <2>1
  <2>3. \A j \in DOMAIN old : j \in DOMAIN new /\ new[j] = old[j] /\ Place(DOMAIN new, j) = Place(DOMAIN old, j)
    BY <1>5
  <2> QED BY <2>2, <2>3
<1>8. At(new, c + 1) = {new[x]}
  <2>1. {j \in DOMAIN new : Place(DOMAIN new, j) = c + 1} = {x}
    BY <1>2, <1>5, <1>6
  <2> QED BY <2>1
<1>9. AnyOf({new[x]}) = new[x]
  BY DEF AnyOf
<1> HIDE DEF At
<1>10. /\ Len(InOrder(old)) = c /\ Len(InOrder(new)) = c + 1
       /\ \A i \in 1 .. c : InOrder(old)[i] = AnyOf(At(old, i))
       /\ \A i \in 1 .. c + 1 : InOrder(new)[i] = AnyOf(At(new, i))
  BY <1>3, <1>4, InOrderSequence DEF At
<1>11. PICK R : InOrder(old) \in Seq(R)
  BY InOrderSequence
<1>12. PICK T : InOrder(new) \in Seq(T)
  BY <1>4, InOrderSequence
<1> DEFINE U == R \cup T \cup {new[x]}
<1>13. InOrder(old) \in Seq(U) /\ InOrder(new) \in Seq(U) /\ new[x] \in U
  BY <1>11, <1>12
<1> HIDE DEF c, U
<1>14. \A i \in 1 .. c + 1 : InOrder(new)[i] = IF i = c + 1 THEN new[x] ELSE InOrder(old)[i]
  <2>1. ASSUME NEW i \in 1 .. c PROVE i # c + 1 /\ i \in 1 .. c + 1 /\ InOrder(new)[i] = InOrder(old)[i]
    BY <1>2, <1>7, <1>10
  <2>2. c + 1 \in 1 .. c + 1 /\ InOrder(new)[c + 1] = new[x]
    <3>1. c + 1 \in 1 .. c + 1
      BY <1>2
    <3>2. InOrder(new)[c + 1] = AnyOf(At(new, c + 1))
      BY <1>10, <3>1
    <3> QED BY <1>8, <1>9, <3>1, <3>2
  <2>3. \A i \in 1 .. c + 1 : i = c + 1 \/ i \in 1 .. c
    BY <1>2
  <2> QED BY <2>1, <2>2, <2>3
<1>15. /\ Append(InOrder(old), new[x]) \in Seq(U)
       /\ Len(Append(InOrder(old), new[x])) = c + 1
       /\ \A i \in 1 .. c + 1 :
            Append(InOrder(old), new[x])[i] = IF i = c + 1 THEN new[x] ELSE InOrder(old)[i]
  BY <1>2, <1>10, <1>13
<1> QED BY <1>10, <1>13, <1>14, <1>15, SeqEqual

(* Positions are all one less: the order is the same.                        *)
LEMMA ShiftedPlaces ==
  ASSUME NEW n \in Nat, NEW S, S \subseteq 1 .. n, NEW T, T = {k - 1 : k \in S}
  PROVE  Cardinality(T) = Cardinality(S)
<1> DEFINE f == [k \in S |-> k - 1]
<1>1. f \in Bijection(S, T)
  <2>1. f \in [S -> T]
    OBVIOUS
  <2>2. \A j, k \in S : f[j] = f[k] => j = k
    OBVIOUS
  <2>3. \A t \in T : \E k \in S : f[k] = t
    OBVIOUS
  <2> HIDE DEF f
  <2> QED BY <2>1, <2>2, <2>3 DEF Bijection, Injection, Surjection, IsInjective
<1>2. IsFiniteSet(S)
  BY PositionsFinite
<1> QED BY <1>1, <1>2, FS_Bijection DEF ExistsBijection

LEMMA InOrderShift ==
  ASSUME NEW old, Positioned(old),
         NEW new, DOMAIN new = {k - 1 : k \in DOMAIN old},
         \A k \in DOMAIN old : new[k - 1] = old[k]
  PROVE  InOrder(new) = InOrder(old)
<1>1. PICK n \in Nat : DOMAIN old \subseteq 1 .. n
  BY DEF Positioned
<1>2. Cardinality(DOMAIN new) = Cardinality(DOMAIN old)
  BY <1>1, ShiftedPlaces
<1>3. ASSUME NEW k \in DOMAIN old
      PROVE  Place(DOMAIN new, k - 1) = Place(DOMAIN old, k)
  <2> DEFINE S == {j \in DOMAIN old : j <= k}
  <2>1. {j \in DOMAIN new : j <= k - 1} = {j - 1 : j \in S}
    BY <1>1
  <2>2. S \subseteq 1 .. n
    BY <1>1
  <2> HIDE DEF S
  <2>3. Cardinality({j - 1 : j \in S}) = Cardinality(S)
    BY <2>2, ShiftedPlaces
  <2> QED BY <2>1, <2>3 DEF Place, S
<1>4. ASSUME NEW i
      PROVE  {new[k] : k \in {j \in DOMAIN new : Place(DOMAIN new, j) = i}}
               = {old[k] : k \in {j \in DOMAIN old : Place(DOMAIN old, j) = i}}
  <2>1. \A j \in DOMAIN new : \E k \in DOMAIN old :
           j = k - 1 /\ new[j] = old[k] /\ Place(DOMAIN new, j) = Place(DOMAIN old, k)
    BY <1>3
  <2>2. \A k \in DOMAIN old : \E j \in DOMAIN new :
           j = k - 1 /\ new[j] = old[k] /\ Place(DOMAIN new, j) = Place(DOMAIN old, k)
    BY <1>3
  <2> DEFINE L == {new[k] : k \in {j \in DOMAIN new : Place(DOMAIN new, j) = i}}
             R == {old[k] : k \in {j \in DOMAIN old : Place(DOMAIN old, j) = i}}
  <2>3. ASSUME NEW y \in L PROVE y \in R
    <3>1. PICK j \in DOMAIN new : Place(DOMAIN new, j) = i /\ y = new[j]
      OBVIOUS
    <3> QED BY <2>1, <3>1
  <2>4. ASSUME NEW y \in R PROVE y \in L
    <3>1. PICK k \in DOMAIN old : Place(DOMAIN old, k) = i /\ y = old[k]
      OBVIOUS
    <3> QED BY <2>2, <3>1
  <2> HIDE DEF L, R
  <2>5. L = R
    BY <2>3, <2>4
  <2> QED BY <2>5 DEF L, R
<1> QED BY <1>2, <1>4 DEF InOrder

(* Without its first entry a list in order is the rest of the sequence.      *)
LEMMA InOrderTail ==
  ASSUME NEW old, Positioned(old), NEW x \in DOMAIN old, \A k \in DOMAIN old : k # x => x < k,
         NEW new, DOMAIN new = DOMAIN old \ {x}, \A k \in DOMAIN new : new[k] = old[k]
  PROVE  /\ InOrder(old) # <<>>
         /\ Head(InOrder(old)) = old[x]
         /\ Tail(InOrder(old)) = InOrder(new)
<1> DEFINE c == Cardinality(DOMAIN old)
           At(list, i) == {list[k] : k \in {j \in DOMAIN list : Place(DOMAIN list, j) = i}}
<1>1. PICK n \in Nat : DOMAIN old \subseteq 1 .. n
  BY DEF Positioned
<1>2. /\ IsFiniteSet(DOMAIN old) /\ c \in Nat /\ c >= 1
      /\ \A k : Place(DOMAIN old, k) \in Nat /\ Place(DOMAIN old, k) <= c
      /\ \A k : Place(DOMAIN new, k) \in Nat
  <2>1. DOMAIN new \subseteq 1 .. n
    BY <1>1
  <2>2. IsFiniteSet(DOMAIN old) /\ c \in Nat
    BY <1>1, PositionsFinite
  <2>3. c # 0
    BY <2>2, FS_EmptySet
  <2>4. c >= 1
    BY <2>2, <2>3
  <2> QED BY <1>1, <2>1, <2>2, <2>4, PositionsFinite
<1>3. Cardinality(DOMAIN new) = c - 1 /\ Positioned(new)
  BY <1>1, <1>2, FS_RemoveElement DEF Positioned
<1>4. Place(DOMAIN old, x) = 1
  <2>1. {j \in DOMAIN old : j <= x} = {x}
    BY <1>1
  <2> QED BY <2>1, FS_Singleton DEF Place
<1>5. ASSUME NEW k \in DOMAIN new
      PROVE  Place(DOMAIN old, k) = Place(DOMAIN new, k) + 1
  <2> DEFINE S == {j \in DOMAIN new : j <= k}
  <2>1. {j \in DOMAIN old : j <= k} = S \cup {x}
    BY <1>1
  <2>2. x \notin S
    OBVIOUS
  <2>3. IsFiniteSet(S)
    <3>1. S \subseteq 1 .. n
      BY <1>1
    <3> QED BY <3>1, PositionsFinite
  <2> HIDE DEF S
  <2>4. Cardinality(S \cup {x}) = Cardinality(S) + 1
    BY <2>2, <2>3, FS_AddElement
  <2> QED BY <2>1, <2>4 DEF Place, S
<1>6. ASSUME NEW k \in DOMAIN new
      PROVE  Place(DOMAIN new, k) >= 1
  <2> DEFINE S == {j \in DOMAIN new : j <= k}
  <2>1. S \subseteq 1 .. n /\ k \in S
    BY <1>1
  <2>2. IsFiniteSet(S) /\ Cardinality(S) \in Nat
    BY <2>1, PositionsFinite
  <2> HIDE DEF S
  <2>3. Cardinality(S) # 0
    BY <2>1, <2>2, FS_EmptySet
  <2>4. Cardinality(S) >= 1
    BY <2>2, <2>3
  <2> QED BY <2>4 DEF Place, S
<1>7. At(old, 1) = {old[x]}
  <2>1. {j \in DOMAIN old : Place(DOMAIN old, j) = 1} = {x}
    <3>1. ASSUME NEW j \in DOMAIN old, j # x PROVE Place(DOMAIN old, j) # 1
      <4>1. j \in DOMAIN new
        BY <3>1
      <4> QED BY <1>2, <1>5, <1>6, <4>1
    <3> QED BY <1>4, <3>1
  <2> QED BY <2>1
<1>8. AnyOf({old[x]}) = old[x]
  BY DEF AnyOf
<1>9. ASSUME NEW i \in 1 .. c - 1 PROVE At(old, i + 1) = At(new, i)
  <2> HIDE DEF c
  <2>1. i \in Nat /\ i + 1 # 1
    BY <1>2
  <2>2. \A j \in DOMAIN old : Place(DOMAIN old, j) = i + 1 =>
           j \in DOMAIN new /\ Place(DOMAIN new, j) = i
    <3>1. ASSUME NEW j \in DOMAIN old, Place(DOMAIN old, j) = i + 1
          PROVE  j \in DOMAIN new /\ Place(DOMAIN new, j) = i
      <4>1. j # x
        BY <1>4, <2>1, <3>1
      <4>2. j \in DOMAIN new
        BY <4>1
      <4> QED BY <1>2, <1>5, <2>1, <3>1, <4>2
    <3> QED BY <3>1
  <2>3. \A j \in DOMAIN new : Place(DOMAIN new, j) = i =>
           j \in DOMAIN old /\ new[j] = old[j] /\ Place(DOMAIN old, j) = i + 1
    BY <1>5
  <2> QED BY <2>2, <2>3
<1> HIDE DEF At
<1>10. /\ Len(InOrder(old)) = c /\ Len(InOrder(new)) = c - 1
       /\ \A i \in 1 .. c : InOrder(old)[i] = AnyOf(At(old, i))
       /\ \A i \in 1 .. c - 1 : InOrder(new)[i] = AnyOf(At(new, i))
  BY <1>3, InOrderSequence DEF At
<1>11. PICK R : InOrder(old) \in Seq(R)
  BY InOrderSequence
<1>12. PICK T : InOrder(new) \in Seq(T)
  BY <1>3, InOrderSequence
<1> DEFINE U == R \cup T
<1>13. InOrder(old) \in Seq(U) /\ InOrder(new) \in Seq(U)
  BY <1>11, <1>12
<1> HIDE DEF c, U
<1>14. InOrder(old) # <<>>
  BY <1>2, <1>10
<1>15. Head(InOrder(old)) = old[x]
  <2>1. 1 \in 1 .. c
    BY <1>2
  <2>2. InOrder(old)[1] = old[x]
    BY <1>7, <1>8, <1>10, <2>1
  <2> QED BY <1>13, <1>14, <2>2
<1>16. /\ Tail(InOrder(old)) \in Seq(U) /\ Len(Tail(InOrder(old))) = c - 1
       /\ \A i \in 1 .. c - 1 : Tail(InOrder(old))[i] = InOrder(old)[i + 1]
  BY <1>2, <1>10, <1>13, <1>14
<1>17. ASSUME NEW i \in 1 .. c - 1 PROVE Tail(InOrder(old))[i] = InOrder(new)[i]
  <2>1. i + 1 \in 1 .. c
    BY <1>2
  <2> QED BY <1>9, <1>10, <1>16, <2>1
<1> QED BY <1>10, <1>13, <1>14, <1>15, <1>16, <1>17, SeqEqual

-----------------------------------------------------------------------------
(* What the refinement needs of the state.  Nothing waits behind a load;     *)
LoadAlone == Loading => Len(queue) = 1

(* every item in the cart has a row that no waiting operation removes;       *)
Quantity == 1 .. MaxQty
CartBacked ==
  \A k \in DOMAIN cartProducts :
    /\ cartProducts[k].id \in Product /\ cartProducts[k].quantity \in Quantity
    /\ cartProducts[k].id \in Ids(table) /\ ~Doomed(cartProducts[k].id)
StockOK ==
  /\ sheet # NoSheet => sheet.id \in Product /\ sheet.quantity \in 0 .. MaxQty
  /\ \A k \in DOMAIN table : table[k].id \in Product /\ table[k].quantity \in Quantity

(* a quantity is written to a row that will still be there; and nothing that *)
(* waits behind an insert is about its product.                              *)
OpsBacked ==
  \A n \in DOMAIN queue :
    /\ queue[n].op \in {"quantity", "delete"} => queue[n].id \in Product
    /\ queue[n].op = "quantity" =>
         /\ queue[n].quantity \in Quantity
         /\ queue[n].id \in Ids(table)
         /\ ~DoomedBefore(queue, n, queue[n].id)
    /\ queue[n].op = "insert" =>
         /\ queue[n].item.id \in Product /\ queue[n].item.quantity \in Quantity
         /\ queue[n].row.quantity = queue[n].item.quantity
         /\ \A m \in DOMAIN queue : m > n => ~Writes(queue[m], queue[n].item.id)

Backed == LoadAlone /\ CartBacked /\ StockOK /\ OpsBacked

LEMMA InitBacked == Init => Backed
<1> SUFFICES ASSUME Init PROVE Backed
  OBVIOUS
<1>1. DOMAIN queue = {1} /\ queue[1].op = "load" /\ Len(queue) = 1
  BY DEF Init, Load
<1>2. DOMAIN cartProducts = {} /\ DOMAIN table = {} /\ sheet = NoSheet
  BY DEF Init, Empty
<1> QED BY <1>1, <1>2 DEF Backed, LoadAlone, CartBacked, StockOK, OpsBacked

-----------------------------------------------------------------------------
(* Steps that leave the queue alone.                                         *)
LEMMA BackedStays ==
  ASSUME Backed, UNCHANGED <<cartProducts, table, queue>>,
         sheet' # NoSheet => sheet'.id \in Product /\ sheet'.quantity \in 0 .. MaxQty
  PROVE  Backed'
  BY DEF Backed, LoadAlone, Loading, CartBacked, StockOK, OpsBacked, Doomed, Ids, DoomedBefore

(* An operation is given after the first load.  It removes nothing that      *)
(* stays in the cart, and is not about an item on its way there.             *)
LEMMA BackedGiven ==
  ASSUME Backed, queue \in Seq(OpType), ~Loading, NEW o, o.op # "load", queue' = Append(queue, o),
         table' = table, sheet' \in {sheet, NoSheet},
         \A k \in DOMAIN cartProducts' :
           /\ cartProducts'[k].id \in Ids(cartProducts)
           /\ cartProducts'[k].quantity \in Quantity
           /\ o \notin {DeleteOp(cartProducts'[k].id), ClearOp},
         o.op \in {"quantity", "delete"} => o.id \in Product,
         o.op = "quantity" => o.quantity \in Quantity /\ o.id \in Ids(cartProducts),
         o.op = "insert" => /\ o.item.id \in Product /\ o.item.quantity \in Quantity
                            /\ o.row.quantity = o.item.quantity,
         \A n \in DOMAIN queue : queue[n].op = "insert" => ~Writes(o, queue[n].item.id)
  PROVE  Backed'
<1>1. /\ DOMAIN queue = 1 .. Len(queue) /\ Len(queue) \in Nat
      /\ DOMAIN queue' = 1 .. Len(queue) + 1
      /\ queue'[Len(queue) + 1] = o
      /\ \A n \in DOMAIN queue : queue'[n] = queue[n]
  OBVIOUS
<1>2. ~Loading'
  BY <1>1 DEF Loading
<1>3. \A p \in Ids(cartProducts) : p \in Product /\ p \in Ids(table) /\ ~Doomed(p)
  BY DEF Ids, Backed, CartBacked
<1>4. ASSUME NEW p \in Ids(cartProducts), o \notin {DeleteOp(p), ClearOp}
      PROVE  ~Doomed(p)'
  BY <1>1, <1>3, <1>4 DEF Doomed
<1>5. CartBacked'
  <2>1. ASSUME NEW k \in DOMAIN cartProducts', NEW p, p = cartProducts'[k].id
        PROVE  p \in Product /\ p \in Ids(table) /\ ~Doomed(p)'
    BY <1>3, <1>4, <2>1
  <2>2. Ids(table)' = Ids(table)
    BY DEF Ids
  <2> QED BY <2>1, <2>2 DEF CartBacked, Quantity
<1>6. ASSUME NEW n \in DOMAIN queue, NEW p
      PROVE  DoomedBefore(queue', n, p) <=> DoomedBefore(queue, n, p)
  BY <1>1 DEF DoomedBefore
<1>7. ASSUME NEW p, ~Doomed(p) PROVE ~DoomedBefore(queue', Len(queue) + 1, p)
  <2>1. Len(queue) + 1 - 1 = Len(queue)
    BY <1>1
  <2> QED BY <1>1, <1>7, <2>1 DEF Doomed, DoomedBefore
<1>8. ASSUME NEW n \in DOMAIN queue', n \in DOMAIN queue
      PROVE  /\ queue'[n].op \in {"quantity", "delete"} => queue'[n].id \in Product
             /\ queue'[n].op = "quantity" =>
                  /\ queue'[n].quantity \in Quantity
                  /\ queue'[n].id \in Ids(table)
                  /\ ~DoomedBefore(queue', n, queue'[n].id)
             /\ queue'[n].op = "insert" =>
                  /\ queue'[n].item.id \in Product /\ queue'[n].item.quantity \in Quantity
                  /\ queue'[n].row.quantity = queue'[n].item.quantity
                  /\ \A m \in DOMAIN queue' : m > n => ~Writes(queue'[m], queue'[n].item.id)
  <2>1. queue'[n] = queue[n]
    BY <1>1, <1>8
  <2>2. ASSUME queue[n].op = "insert", NEW m \in DOMAIN queue', m > n
        PROVE  ~Writes(queue'[m], queue[n].item.id)
    <3>1. CASE m \in DOMAIN queue
      BY <1>1, <1>8, <2>2, <3>1 DEF Backed, OpsBacked
    <3>2. CASE m \notin DOMAIN queue
      BY <1>1, <1>8, <2>2, <3>2
    <3> QED BY <3>1, <3>2
  <2> QED BY <1>6, <1>8, <2>1, <2>2 DEF Backed, OpsBacked
<1>9. ASSUME NEW n \in DOMAIN queue', n \notin DOMAIN queue
      PROVE  /\ queue'[n] = o
             /\ o.op = "quantity" => o.id \in Ids(table) /\ ~DoomedBefore(queue', n, o.id)
             /\ \A m \in DOMAIN queue' : ~(m > n)
  <2>1. n = Len(queue) + 1
    BY <1>1, <1>9
  <2> QED BY <1>1, <1>3, <1>7, <2>1
<1>10. OpsBacked'
  <2>1. Ids(table)' = Ids(table)
    BY DEF Ids
  <2> QED BY <1>8, <1>9, <2>1 DEF OpsBacked, Quantity
<1>11. StockOK'
  BY DEF Backed, StockOK, Quantity
<1> QED BY <1>2, <1>5, <1>10, <1>11 DEF Backed, LoadAlone

(* The database runs an operation on rows: the rows it removes are those of  *)
(* no item of the cart, and no later quantity is for them.                   *)
LEMMA BackedRun ==
  ASSUME Backed, queue \in Seq(OpType), queue # <<>>, queue' = Tail(queue), ~Loading,
         UNCHANGED <<cartProducts, sheet>>,
         \A k \in DOMAIN table' : table'[k].id \in Product /\ table'[k].quantity \in Quantity,
         \A p \in Ids(table) : p \in Ids(table)' \/ Head(queue) \in {DeleteOp(p), ClearOp}
  PROVE  Backed'
<1>1. ~Loading'
  BY AfterHead DEF Loading
<1>2. \A p : Doomed(p)' => Doomed(p)
  BY AfterHead DEF Doomed
<1>3. \A p \in Ids(table) : ~Doomed(p) => p \in Ids(table)'
  BY AfterHead DEF Doomed
<1>4. CartBacked'
  BY <1>2, <1>3 DEF Backed, CartBacked, Quantity
<1>5. ASSUME NEW n \in DOMAIN queue', NEW p, DoomedBefore(queue', n, p)
      PROVE  DoomedBefore(queue, n + 1, p)
  <2>1. PICK m \in 1 .. n - 1 : queue'[m] \in {DeleteOp(p), ClearOp}
    BY <1>5 DEF DoomedBefore
  <2>2. m + 1 \in 1 .. (n + 1) - 1 /\ queue'[m] = queue[m + 1]
    BY AfterHead
  <2> QED BY <2>1, <2>2 DEF DoomedBefore
<1>6. ASSUME NEW n \in DOMAIN queue', NEW p, ~DoomedBefore(queue, n + 1, p), p \in Ids(table)
      PROVE  p \in Ids(table)'
  <2>1. 1 \in 1 .. (n + 1) - 1 /\ Head(queue) = queue[1]
    BY AfterHead
  <2> QED BY <1>6, <2>1 DEF DoomedBefore
<1>7. ASSUME NEW n \in DOMAIN queue'
      PROVE  /\ queue'[n].op \in {"quantity", "delete"} => queue'[n].id \in Product
             /\ queue'[n].op = "quantity" =>
                  /\ queue'[n].quantity \in Quantity
                  /\ queue'[n].id \in Ids(table)'
                  /\ ~DoomedBefore(queue', n, queue'[n].id)
             /\ queue'[n].op = "insert" =>
                  /\ queue'[n].item.id \in Product /\ queue'[n].item.quantity \in Quantity
                  /\ queue'[n].row.quantity = queue'[n].item.quantity
                  /\ \A m \in DOMAIN queue' : m > n => ~Writes(queue'[m], queue'[n].item.id)
  <2>1. n + 1 \in DOMAIN queue /\ queue'[n] = queue[n + 1]
    BY AfterHead
  <2>2. ASSUME queue'[n].op = "insert", NEW m \in DOMAIN queue', m > n
        PROVE  ~Writes(queue'[m], queue'[n].item.id)
    <3>1. m + 1 \in DOMAIN queue /\ queue'[m] = queue[m + 1] /\ m + 1 > n + 1
      BY <2>2, AfterHead
    <3> QED BY <2>1, <2>2, <3>1 DEF Backed, OpsBacked
  <2>3. ASSUME queue'[n].op = "quantity"
        PROVE  /\ queue'[n].id \in Ids(table)'
               /\ ~DoomedBefore(queue', n, queue'[n].id)
    BY <1>5, <1>6, <2>1, <2>3 DEF Backed, OpsBacked
  <2> QED BY <2>1, <2>2, <2>3 DEF Backed, OpsBacked
<1>8. OpsBacked'
  BY <1>7 DEF OpsBacked, Quantity
<1>9. StockOK'
  BY DEF Backed, StockOK, Quantity
<1> QED BY <1>1, <1>4, <1>8, <1>9 DEF Backed, LoadAlone

-----------------------------------------------------------------------------
(* A change of an item of the cart reaches no pending insert: their objects  *)
(* are not in the cart.                                                      *)
LEMMA TouchNothing ==
  ASSUME queue \in Seq(OpType), NEW tag, NEW q,
         \A n \in DOMAIN queue : queue[n].op = "insert" => tag = 0 \/ queue[n].item.tag # tag
  PROVE  TouchPending(tag, q) = queue
<1>1. queue = [n \in DOMAIN queue |-> queue[n]]
  OBVIOUS
<1> QED BY <1>1 DEF TouchPending

LEMMA SetValuesBacked ==
  ASSUME IInv, Patient, Waiting, Backed, NEW q \in 1 .. MaxQty, SetValues(q)
  PROVE  Backed' /\ queue' = queue
<1>1. queue' = queue
  <2>1. \A n \in DOMAIN queue : queue[n].op # "insert"
    BY DEF SetValues, Awaited
  <2> QED BY <2>1, TouchNothing DEF SetValues, IInv, Types, ListsOK
<1>2. cartProducts' = cartProducts /\ table' = table
  BY SetValuesLeavesCart DEF SetValues
<1>3. sheet'.id = sheet.id /\ sheet'.quantity = q /\ sheet # NoSheet
  BY DEF SetValues, Repriced, IInv, Types, ListsOK, ItemType
<1>4. q \in 0 .. MaxQty /\ sheet.id \in Product
  BY <1>3, BoundAssumption DEF Backed, StockOK
<1> QED BY <1>1, <1>2, <1>3, <1>4, BackedStays

LEMMA AddToCartBacked ==
  ASSUME IInv, Patient, Waiting, Backed, AddToCart
  PROVE  Backed'
<1>1. /\ ~Awaited /\ sheet # NoSheet /\ sheet.quantity > 0
      /\ UNCHANGED <<cartProducts, sheet, table>>
  BY DEF AddToCart, CanTapAdd, ButtonIsLive, screen
<1>2. PICK o : /\ queue' = Append(queue, o) /\ o.op = "insert" /\ o.item = sheet
               /\ o.row.quantity = sheet.quantity
  BY DEF AddToCart, Give, InsertOp
<1>3. queue \in Seq(OpType)
  BY DEF IInv, Types, ListsOK
<1>4. sheet.id \in Product /\ sheet.quantity \in Quantity
  BY <1>1, BoundAssumption DEF Backed, StockOK, Quantity
<1>5. ~Loading /\ \A n \in DOMAIN queue : queue[n].op # "insert"
  BY <1>1 DEF Loading, Awaited
<1>6. o.op # "load" /\ \A p : o \notin {DeleteOp(p), ClearOp}
  BY <1>2 DEF DeleteOp, ClearOp
<1>7. \A k \in DOMAIN cartProducts' :
        /\ cartProducts'[k].id \in Ids(cartProducts)
        /\ cartProducts'[k].quantity \in Quantity
        /\ o \notin {DeleteOp(cartProducts'[k].id), ClearOp}
  BY <1>1, <1>6 DEF Backed, CartBacked, Ids
<1> QED BY <1>1, <1>2, <1>3, <1>4, <1>5, <1>6, <1>7, BackedGiven

LEMMA DialogClearBacked ==
  ASSUME IInv, Waiting, Backed, DialogClear
  PROVE  Backed' /\ ~Loading
<1>1. /\ dialog /\ DOMAIN cartProducts' = {} /\ queue' = Append(queue, ClearOp)
      /\ UNCHANGED <<sheet, table>>
  BY DEF DialogClear, ClearCart, Give, Empty
<1>2. queue \in Seq(OpType)
  BY DEF IInv, Types, ListsOK
<1>3. ~Loading /\ \A n \in DOMAIN queue : queue[n].op # "insert"
  BY <1>1 DEF Waiting, TagsKnown, Loading, Awaited
<1>4. ClearOp.op = "clear"
  BY DEF ClearOp
<1> QED BY <1>1, <1>2, <1>3, <1>4, BackedGiven

(* The first item of p is the only one, and the only one of its object.      *)
LEMMA ChangeQuantityIs ==
  ASSUME IInv, Waiting, Guest, NEW p, NEW q \in 1 .. MaxQty, ChangeQuantity(p, q)
  PROVE  \E f \in DOMAIN cartProducts :
           /\ cartProducts[f].id = p
           /\ cartProducts' = [cartProducts EXCEPT ![f] = Repriced(cartProducts[f], q)]
           /\ queue' = Append(queue, QuantityOp(p, q))
           /\ UNCHANGED <<sheet, table>> /\ ~Loading
<1>1. PICK f \in DOMAIN cartProducts :
        /\ IsFirst(f, p)
        /\ cartProducts' = [k \in DOMAIN cartProducts |->
             IF k = f \/ SameObject(cartProducts[k], cartProducts[f])
             THEN Repriced(cartProducts[k], q) ELSE cartProducts[k]]
        /\ queue' = Append(TouchPending(cartProducts[f].tag, q), QuantityOp(p, q))
  BY DEF ChangeQuantity, Recalculate
<1>2. \A k \in DOMAIN cartProducts : SameObject(cartProducts[k], cartProducts[f]) => k = f
  BY DEF Waiting, TagsApart
<1>3. cartProducts' = [cartProducts EXCEPT ![f] = Repriced(cartProducts[f], q)]
  BY <1>1, <1>2
<1>4. TouchPending(cartProducts[f].tag, q) = queue
  <2>1. \A n \in DOMAIN queue : queue[n].op = "insert" => queue[n].item.tag # cartProducts[f].tag
    BY DEF Waiting, TagsApart
  <2>2. queue \in Seq(OpType)
    BY DEF IInv, Types, ListsOK
  <2> QED BY <2>1, <2>2, TouchNothing
<1>5. cartProducts # Empty
  BY DEF Empty
<1>6. ~Loading
  BY <1>5 DEF IInv, Order, LoadComesFirst
<1>7. UNCHANGED <<sheet, table>>
  BY DEF ChangeQuantity, screen
<1> QED BY <1>1, <1>3, <1>4, <1>6, <1>7 DEF IsFirst

LEMMA ChangeQuantityBacked ==
  ASSUME IInv, Waiting, Guest, Backed, NEW p, NEW q \in 1 .. MaxQty, ChangeQuantity(p, q)
  PROVE  Backed'
<1>1. PICK f \in DOMAIN cartProducts :
           /\ cartProducts[f].id = p
           /\ cartProducts' = [cartProducts EXCEPT ![f] = Repriced(cartProducts[f], q)]
           /\ queue' = Append(queue, QuantityOp(p, q))
           /\ UNCHANGED <<sheet, table>> /\ ~Loading
  BY ChangeQuantityIs
<1> DEFINE o == QuantityOp(p, q)
<1>2. o.op = "quantity" /\ o.id = p /\ o.quantity = q
  BY DEF QuantityOp
<1>3. queue \in Seq(OpType) /\ \A k \in DOMAIN cartProducts : cartProducts[k] \in ItemType
  BY DEF IInv, Types, ListsOK, Bounded
<1>4. p \in Product /\ p \in Ids(cartProducts)
  BY <1>1 DEF Backed, CartBacked, Ids
<1>5. \A r : o \notin {DeleteOp(r), ClearOp}
  BY <1>2 DEF DeleteOp, ClearOp
<1>6. ASSUME NEW k \in DOMAIN cartProducts'
      PROVE  /\ cartProducts'[k].id \in Ids(cartProducts)
             /\ cartProducts'[k].quantity \in Quantity
  <2>1. k \in DOMAIN cartProducts /\ cartProducts[k].quantity \in Quantity
    BY <1>1 DEF Backed, CartBacked
  <2>2. Repriced(cartProducts[f], q).id = p /\ Repriced(cartProducts[f], q).quantity = q
    BY <1>1, <1>3 DEF Repriced, ItemType
  <2>3. cartProducts'[k] = IF k = f THEN Repriced(cartProducts[f], q) ELSE cartProducts[k]
    BY <1>1, <2>1
  <2> QED BY <1>4, <2>1, <2>2, <2>3 DEF Ids, Quantity
<1>7. \A n \in DOMAIN queue : queue[n].op = "insert" => ~Writes(o, queue[n].item.id)
  BY <1>1, <1>2, <1>5 DEF Writes, Guest, ListsFit, Fits
<1> HIDE DEF o
<1>8. queue' = Append(queue, o)
  BY <1>1 DEF o
<1>9. q \in Quantity
  BY DEF Quantity
<1> QED BY <1>1, <1>2, <1>3, <1>4, <1>5, <1>6, <1>7, <1>8, <1>9, BackedGiven

LEMMA DeleteFromCartIs ==
  ASSUME IInv, Guest, NEW p \in Product, DeleteFromCart(p)
  PROVE  /\ DOMAIN cartProducts' \subseteq DOMAIN cartProducts
         /\ \A k \in DOMAIN cartProducts' : cartProducts'[k] = cartProducts[k]
         /\ Ids(cartProducts)' = Ids(cartProducts) \ {p}
         /\ p \in Ids(cartProducts)
         /\ queue' = Append(queue, DeleteOp(p))
         /\ UNCHANGED <<sheet, table>> /\ ~Loading
<1>1. PICK f \in DOMAIN cartProducts :
        /\ cartProducts[f].id = p
        /\ cartProducts' = Restrict(cartProducts, DOMAIN cartProducts \ {f})
  BY DEF DeleteFromCart, Recalculate, IsFirst
<1>2. /\ DOMAIN cartProducts' = DOMAIN cartProducts \ {f}
      /\ \A k \in DOMAIN cartProducts' : cartProducts'[k] = cartProducts[k]
  BY <1>1 DEF Restrict
<1>3. \A k \in DOMAIN cartProducts : cartProducts[k].id = p => k = f
  BY <1>1 DEF Guest, ListsFit, Distinct
<1>4. Ids(cartProducts)' = Ids(cartProducts) \ {p}
  BY <1>1, <1>2, <1>3 DEF Ids
<1>5. cartProducts # Empty
  BY DEF Empty
<1>6. ~Loading
  BY <1>5 DEF IInv, Order, LoadComesFirst
<1>7. queue' = Append(queue, DeleteOp(p)) /\ UNCHANGED <<sheet, table>>
  BY DEF DeleteFromCart, Give, screen
<1> QED BY <1>1, <1>2, <1>4, <1>6, <1>7 DEF Ids

LEMMA DeleteFromCartBacked ==
  ASSUME IInv, Guest, Backed, NEW p \in Product, DeleteFromCart(p)
  PROVE  Backed'
<1> DEFINE o == DeleteOp(p)
<1>1. o.op = "delete" /\ o.id = p
  BY DEF DeleteOp
<1>2. queue \in Seq(OpType)
  BY DEF IInv, Types, ListsOK
<1>3. ASSUME NEW k \in DOMAIN cartProducts'
      PROVE  /\ cartProducts'[k].id \in Ids(cartProducts)
             /\ cartProducts'[k].quantity \in Quantity
             /\ o \notin {DeleteOp(cartProducts'[k].id), ClearOp}
  <2>1. cartProducts'[k] = cartProducts[k] /\ k \in DOMAIN cartProducts
    BY DeleteFromCartIs
  <2>2. cartProducts'[k].id \in Ids(cartProducts) \ {p}
    BY DeleteFromCartIs DEF Ids
  <2> QED BY <2>1, <2>2 DEF Backed, CartBacked, DeleteOp, ClearOp
<1>4. \A n \in DOMAIN queue : queue[n].op = "insert" => ~Writes(o, queue[n].item.id)
  BY DeleteFromCartIs, <1>1 DEF Writes, ClearOp, Guest, ListsFit, Fits, Ids
<1> HIDE DEF o
<1>5. queue' = Append(queue, o) /\ UNCHANGED <<sheet, table>> /\ ~Loading
  BY DeleteFromCartIs DEF o
<1> QED BY <1>1, <1>2, <1>3, <1>4, <1>5, BackedGiven

(* The first load shows the rows, and nothing waits behind it.               *)
LEMMA ExecLoadIs ==
  ASSUME IInv, Backed, ExecLoad
  PROVE  /\ Loading /\ DOMAIN queue' = {} /\ queue' = <<>>
         /\ UNCHANGED <<sheet, table>>
         /\ DOMAIN cartProducts' = DOMAIN table
         /\ \A k \in DOMAIN table : /\ cartProducts'[k].id = table[k].id
                                   /\ cartProducts'[k].quantity = table[k].quantity
<1>1. queue # <<>> /\ queue' = Tail(queue) /\ queue \in Seq(OpType) /\ Head(queue).op = "load"
  BY DEF ExecLoad, Running, IInv, Types, ListsOK
<1>2. Loading
  BY <1>1, AfterHead DEF Loading
<1>3. DOMAIN queue' = {} /\ queue' = <<>>
  BY <1>1, <1>2 DEF Backed, LoadAlone
<1> QED BY <1>2, <1>3 DEF ExecLoad, screen, Recalculate, Item

LEMMA ExecLoadBacked ==
  ASSUME IInv, Backed, ExecLoad
  PROVE  Backed'
<1>1. \A k \in DOMAIN cartProducts' :
        /\ cartProducts'[k].id \in Product /\ cartProducts'[k].quantity \in Quantity
        /\ cartProducts'[k].id \in Ids(table)
  BY ExecLoadIs DEF Backed, StockOK, Ids
<1>2. ~Loading' /\ \A p : ~Doomed(p)'
  BY ExecLoadIs DEF Loading, Doomed
<1>3. CartBacked'
  BY <1>1, <1>2, ExecLoadIs DEF CartBacked, Quantity, Ids
<1>4. OpsBacked'
  BY ExecLoadIs DEF OpsBacked
<1>5. StockOK'
  BY ExecLoadIs DEF Backed, StockOK, Quantity
<1> QED BY <1>2, <1>3, <1>4, <1>5 DEF Backed, LoadAlone

(* The insert adds one item and its row, for a product that was in neither.  *)
LEMMA ExecInsertIs ==
  ASSUME IInv, Waiting, Guest, Backed, ExecInsert
  PROVE  \E p \in Product, q \in Quantity, c \in Nat, r \in Nat :
           /\ ~Loading /\ ~Loading' /\ sheet' = NoSheet
           /\ queue # <<>> /\ queue' = Tail(queue) /\ Head(queue).op = "insert"
           /\ \A m \in DOMAIN queue : ~Writes(queue[m], p)
           /\ p \notin Ids(cartProducts) /\ p \notin Ids(table)
           /\ c \notin DOMAIN cartProducts /\ DOMAIN cartProducts' = DOMAIN cartProducts \cup {c}
           /\ cartProducts'[c].id = p /\ cartProducts'[c].quantity = q
           /\ \A k \in DOMAIN cartProducts : cartProducts'[k] = cartProducts[k]
           /\ r \notin DOMAIN table /\ DOMAIN table' = DOMAIN table \cup {r}
           /\ table'[r].id = p /\ table'[r].quantity = q
           /\ \A k \in DOMAIN table : table'[k] = table[k]
<1> DEFINE item == queue[1].item
           row == queue[1].row
<1>1. /\ 1 \in DOMAIN queue /\ Head(queue) = queue[1] /\ queue[1].op = "insert"
      /\ row.id = item.id /\ ~Awaited' /\ sheet' = NoSheet
  BY ExecInsertRuns
<1>2. /\ cartProducts' = Added(cartProducts, item) /\ table' = Added(table, row)
      /\ queue # <<>> /\ queue' = Tail(queue) /\ queue \in Seq(OpType)
  BY <1>1 DEF ExecInsert, Recalculate, Running, IInv, Types, ListsOK
<1>3. ~Loading /\ ~Loading'
  BY <1>1 DEF IInv, Order, LoadComesFirst, Loading, Awaited
<1>4. item.id \in Product /\ item.quantity \in Quantity /\ row.quantity = item.quantity
  BY <1>1 DEF Backed, OpsBacked
<1>5. \A m \in DOMAIN queue : ~Writes(queue[m], item.id)
  <2>1. ~Writes(queue[1], item.id)
    BY <1>1 DEF Writes, ClearOp
  <2>2. ASSUME NEW m \in DOMAIN queue, m # 1 PROVE ~Writes(queue[m], item.id)
    <3>1. m > 1
      BY <1>2, <2>2, AfterHead
    <3> QED BY <1>1, <3>1 DEF Backed, OpsBacked
  <2> QED BY <2>1, <2>2
<1>6. item.id \notin Ids(cartProducts) /\ item.id \notin Ids(table)
  <2>1. \A p : ~DoomedBefore(queue, 1, p)
    BY DEF DoomedBefore
  <2>2. /\ \A k \in DOMAIN cartProducts : Fits(cartProducts[k].id, item.id)
        /\ \A k \in DOMAIN table : Fits(table[k].id, item.id)
    BY <1>1, <2>1 DEF Guest, ListsFit
  <2> QED BY <2>2 DEF Ids, Fits
<1>7. Bounded(cartProducts, ItemType) /\ Bounded(table, RowType)
  BY DEF IInv, Types, ListsOK
<1> HIDE DEF item, row
<1>8. PICK c \in Nat :
        /\ c \notin DOMAIN cartProducts
        /\ DOMAIN Added(cartProducts, item) = DOMAIN cartProducts \cup {c}
        /\ Added(cartProducts, item)[c] = item
        /\ \A k \in DOMAIN cartProducts : Added(cartProducts, item)[k] = cartProducts[k]
  BY <1>7, AddedEntries
<1>9. PICK r \in Nat :
        /\ r \notin DOMAIN table
        /\ DOMAIN Added(table, row) = DOMAIN table \cup {r}
        /\ Added(table, row)[r] = row
        /\ \A k \in DOMAIN table : Added(table, row)[k] = table[k]
  BY <1>7, AddedEntries
<1> QED BY <1>1, <1>2, <1>3, <1>4, <1>5, <1>6, <1>8, <1>9

LEMMA ExecInsertBacked ==
  ASSUME IInv, Waiting, Guest, Backed, ExecInsert
  PROVE  Backed'
<1>1. PICK p \in Product, q \in Quantity, c \in Nat, r \in Nat :
           /\ ~Loading /\ ~Loading' /\ sheet' = NoSheet
           /\ queue # <<>> /\ queue' = Tail(queue) /\ Head(queue).op = "insert"
           /\ \A m \in DOMAIN queue : ~Writes(queue[m], p)
           /\ p \notin Ids(cartProducts) /\ p \notin Ids(table)
           /\ c \notin DOMAIN cartProducts /\ DOMAIN cartProducts' = DOMAIN cartProducts \cup {c}
           /\ cartProducts'[c].id = p /\ cartProducts'[c].quantity = q
           /\ \A k \in DOMAIN cartProducts : cartProducts'[k] = cartProducts[k]
           /\ r \notin DOMAIN table /\ DOMAIN table' = DOMAIN table \cup {r}
           /\ table'[r].id = p /\ table'[r].quantity = q
           /\ \A k \in DOMAIN table : table'[k] = table[k]
  BY ExecInsertIs
<1> HIDE DEF Quantity
<1>2. queue \in Seq(OpType)
  BY DEF IInv, Types, ListsOK
<1>3. Ids(table)' = Ids(table) \cup {p}
  BY <1>1 DEF Ids
<1>4. \A x : Doomed(x)' => Doomed(x)
  BY <1>1, <1>2, AfterHead DEF Doomed
<1>5. ~Doomed(p)
  BY <1>1 DEF Doomed, Writes, DeleteOp, ClearOp
<1>6. CartBacked'
  <2>1. ASSUME NEW k \in DOMAIN cartProducts, NEW i, i = cartProducts[k]
        PROVE  i.id \in Product /\ i.quantity \in Quantity /\ i.id \in Ids(table)' /\ ~Doomed(i.id)'
    BY <1>3, <1>4, <2>1 DEF Backed, CartBacked
  <2> QED BY <1>1, <1>3, <1>4, <1>5, <2>1 DEF CartBacked, Quantity
<1>7. StockOK'
  <2>1. \A k \in DOMAIN table' : table'[k].id \in Product /\ table'[k].quantity \in Quantity
    BY <1>1 DEF Backed, StockOK
  <2> QED BY <1>1, <2>1 DEF StockOK, Quantity
<1>8. ASSUME NEW n \in DOMAIN queue'
      PROVE  /\ queue'[n].op # "insert"
             /\ queue'[n].op \in {"quantity", "delete"} => queue'[n].id \in Product
             /\ queue'[n].op = "quantity" =>
                  /\ queue'[n].quantity \in Quantity
                  /\ queue'[n].id \in Ids(table)'
                  /\ ~DoomedBefore(queue', n, queue'[n].id)
  <2>1. n + 1 \in DOMAIN queue /\ queue'[n] = queue[n + 1] /\ n \in Nat
    BY <1>1, <1>2, AfterHead
  <2>2. queue'[n].op # "insert"
    BY ExecInsertRuns DEF Awaited
  <2>3. ASSUME NEW x, DoomedBefore(queue', n, x) PROVE DoomedBefore(queue, n + 1, x)
    <3>1. PICK m \in 1 .. n - 1 : queue'[m] \in {DeleteOp(x), ClearOp}
      BY <2>3 DEF DoomedBefore
    <3>2. m + 1 \in 1 .. (n + 1) - 1 /\ queue'[m] = queue[m + 1]
      BY <1>1, <1>2, AfterHead
    <3> QED BY <3>1, <3>2 DEF DoomedBefore
  <2> QED BY <1>3, <2>1, <2>2, <2>3 DEF Backed, OpsBacked
<1>9. OpsBacked'
  BY <1>8 DEF OpsBacked, Quantity
<1> QED BY <1>1, <1>6, <1>7, <1>9 DEF Backed, LoadAlone

(* Operations on rows run after the load.                                    *)
LEMMA RowsRun ==
  ASSUME IInv, InsertFails \/ ExecQuantity \/ ExecDelete \/ ExecClear
  PROVE  /\ queue # <<>> /\ queue' = Tail(queue) /\ queue \in Seq(OpType)
         /\ 1 \in DOMAIN queue /\ Head(queue) = queue[1]
         /\ ~Loading /\ ~Loading'
         /\ UNCHANGED <<cartProducts, sheet>>
<1>1. /\ queue # <<>> /\ queue' = Tail(queue) /\ queue \in Seq(OpType)
      /\ Head(queue).op # "load" /\ UNCHANGED <<cartProducts, sheet>>
  BY DEF InsertFails, ExecQuantity, ExecDelete, ExecClear, Running, memory, screen, IInv, Types, ListsOK
<1>2. ~Loading
  BY <1>1 DEF IInv, Order, LoadComesFirst
<1> QED BY <1>1, <1>2, AfterHead DEF Loading

LEMMA ExecQuantityIs ==
  ASSUME IInv, Backed, ExecQuantity
  PROVE  \E p \in Product, q \in Quantity :
           /\ Head(queue) = QuantityOp(p, q) /\ p \in Ids(table)
           /\ DOMAIN table' = DOMAIN table
           /\ \A k \in DOMAIN table :
                /\ table'[k].id = table[k].id
                /\ table'[k].quantity = IF table[k].id = p THEN q ELSE table[k].quantity
<1>1. queue[1].op = "quantity" /\ 1 \in DOMAIN queue /\ Head(queue) = queue[1] /\ queue[1] \in OpType
  BY RowsRun DEF ExecQuantity, Running
<1>2. queue[1] = QuantityOp(queue[1].id, queue[1].quantity)
  BY <1>1 DEF OpType, QuantityOp
<1>3. queue[1].id \in Product /\ queue[1].quantity \in Quantity /\ queue[1].id \in Ids(table)
  BY <1>1 DEF Backed, OpsBacked
<1>4. \A k \in DOMAIN table : table[k] \in RowType
  BY DEF IInv, Types, ListsOK, Bounded
<1>5. table' = [k \in DOMAIN table |->
                 IF table[k].id = queue[1].id
                 THEN [table[k] EXCEPT !.quantity = queue[1].quantity] ELSE table[k]]
  BY <1>1 DEF ExecQuantity
<1>6. \A k \in DOMAIN table :
        /\ table'[k].id = table[k].id
        /\ table'[k].quantity = IF table[k].id = queue[1].id THEN queue[1].quantity ELSE table[k].quantity
  BY <1>4, <1>5 DEF RowType
<1>7. DOMAIN table' = DOMAIN table
  BY <1>5
<1> QED BY <1>1, <1>2, <1>3, <1>6, <1>7

LEMMA ExecDeleteIs ==
  ASSUME IInv, Backed, ExecDelete
  PROVE  \E p \in Product :
           /\ Head(queue) = DeleteOp(p)
           /\ DOMAIN table' \subseteq DOMAIN table
           /\ \A k \in DOMAIN table' : table'[k] = table[k]
           /\ Ids(table)' = Ids(table) \ {p}
<1>1. queue[1].op = "delete" /\ 1 \in DOMAIN queue /\ Head(queue) = queue[1] /\ queue[1] \in OpType
  BY RowsRun DEF ExecDelete, Running
<1>2. queue[1] = DeleteOp(queue[1].id)
  BY <1>1 DEF OpType, DeleteOp
<1>3. queue[1].id \in Product
  BY <1>1 DEF Backed, OpsBacked
<1>4. table' = RestrictValues(table, LAMBDA r : r.id # queue[1].id)
  BY <1>1 DEF ExecDelete
<1>5. /\ DOMAIN table' = {k \in DOMAIN table : table[k].id # queue[1].id}
      /\ \A k \in DOMAIN table' : table'[k] = table[k]
  BY <1>4 DEF RestrictValues, Restrict
<1>6. Ids(table)' = Ids(table) \ {queue[1].id}
  BY <1>5 DEF Ids
<1> QED BY <1>1, <1>2, <1>3, <1>5, <1>6

LEMMA ExecClearIs ==
  ASSUME IInv, ExecClear
  PROVE  Head(queue) = ClearOp /\ DOMAIN table' = {} /\ Ids(table)' = {}
<1>1. queue[1].op = "clear" /\ 1 \in DOMAIN queue /\ Head(queue) = queue[1] /\ queue[1] \in OpType
  BY RowsRun DEF ExecClear, Running
<1>2. queue[1] = ClearOp
  BY <1>1 DEF OpType, ClearOp
<1>3. DOMAIN table' = {}
  BY DEF ExecClear, Empty
<1> QED BY <1>1, <1>2, <1>3 DEF Ids

LEMMA ExecRowsBacked ==
  ASSUME IInv, Backed, InsertFails \/ ExecQuantity \/ ExecDelete \/ ExecClear
  PROVE  Backed'
<1>1. /\ \A k \in DOMAIN table' : table'[k].id \in Product /\ table'[k].quantity \in Quantity
      /\ \A p \in Ids(table) : p \in Ids(table)' \/ Head(queue) \in {DeleteOp(p), ClearOp}
  <2>1. CASE ExecQuantity
    <3>1. PICK p \in Product, q \in Quantity :
           /\ DOMAIN table' = DOMAIN table
           /\ \A k \in DOMAIN table :
                /\ table'[k].id = table[k].id
                /\ table'[k].quantity = IF table[k].id = p THEN q ELSE table[k].quantity
      BY <2>1, ExecQuantityIs
    <3> QED BY <3>1 DEF Ids, Backed, StockOK
  <2>2. CASE ExecDelete
    <3>1. PICK p \in Product :
           /\ Head(queue) = DeleteOp(p)
           /\ DOMAIN table' \subseteq DOMAIN table
           /\ \A k \in DOMAIN table' : table'[k] = table[k]
           /\ Ids(table)' = Ids(table) \ {p}
      BY <2>2, ExecDeleteIs
    <3> QED BY <3>1 DEF Backed, StockOK
  <2>3. CASE ExecClear
    BY <2>3, ExecClearIs
  <2>4. CASE InsertFails
    BY <2>4 DEF InsertFails, Ids, Backed, StockOK
  <2> QED BY <2>1, <2>2, <2>3, <2>4
<1> QED BY <1>1, RowsRun, BackedRun

LEMMA KillBacked ==
  ASSUME Backed, Kill
  PROVE  Backed'
<1>1. DOMAIN queue' = {1} /\ queue'[1].op = "load" /\ Len(queue') = 1
  BY DEF Kill, Load
<1>2. DOMAIN cartProducts' = {} /\ table' = table /\ sheet' = NoSheet
  BY DEF Kill, Empty
<1> QED BY <1>1, <1>2 DEF Backed, LoadAlone, CartBacked, StockOK, OpsBacked, Quantity

LEMMA NextKeepsBacked ==
  ASSUME IInv, Patient, ~LoggedIn, Waiting, Guest, Backed, [Next]_vars
  PROVE  Backed'
<1>1. CASE User /\ ~AskServer /\ ~ActivateCoupon /\ ~PlaceOrder /\ ~ToggleEdit
  <2>1. ASSUME NEW p \in Product, OpenSheet(p) PROVE Backed'
    <3>1. UNCHANGED <<cartProducts, table, queue>> /\ sheet'.id = p /\ sheet'.quantity = 0
      BY <2>1 DEF OpenSheet, memory, Item
    <3>2. 0 \in 0 .. MaxQty
      BY BoundAssumption
    <3> QED BY <3>1, <3>2, BackedStays
  <2>2. CASE CloseSheet \/ AddRefused \/ DialogClose
    <3>1. UNCHANGED <<cartProducts, table, queue>> /\ sheet' \in {sheet, NoSheet}
      BY <2>2 DEF CloseSheet, AddRefused, DialogClose, memory
    <3> QED BY <3>1, BackedStays DEF Backed, StockOK
  <2> QED BY <1>1, <2>1, <2>2, SetValuesBacked, AddToCartBacked, DialogClearBacked,
             ChangeQuantityBacked, DeleteFromCartBacked DEF User
<1>2. CASE UNCHANGED <<cartProducts, screen, table, queue, calls, dataUpdated, vendorShipping>>
  BY <1>2, BackedStays DEF screen, Backed, StockOK
<1>3. CASE Database
  BY <1>3, ExecLoadBacked, ExecInsertBacked, ExecRowsBacked DEF Database
<1>4. CASE Kill
  BY <1>4, KillBacked
<1>5. CASE UNCHANGED vars
  BY <1>5, BackedStays DEF vars, memory, screen, Backed, StockOK
<1> QED BY <1>1, <1>2, <1>3, <1>4, <1>5, GuestAsksNothing DEF Guest

-----------------------------------------------------------------------------
(* What the guest sees and what is stored of a product.                      *)
LEMMA QuantityIs ==
  ASSUME NEW list, Distinct(list)
  PROVE  /\ \A k \in DOMAIN list : QuantityIn(list, list[k].id) = list[k].quantity
         /\ \A p : p \notin Ids(list) => QuantityIn(list, p) = 0
<1>1. ASSUME NEW k \in DOMAIN list PROVE QuantityIn(list, list[k].id) = list[k].quantity
  <2>1. list[k].id \in Ids(list)
    BY DEF Ids
  <2> DEFINE j == CHOOSE j \in DOMAIN list : list[j].id = list[k].id
  <2>2. j \in DOMAIN list /\ list[j].id = list[k].id
    OBVIOUS
  <2>3. j = k
    BY <2>2 DEF Distinct
  <2> QED BY <2>1, <2>3 DEF QuantityIn
<1> QED BY <1>1 DEF QuantityIn

LEMMA QuantityAgrees ==
  ASSUME NEW l1, NEW l2, Distinct(l1), Distinct(l2), NEW p, p \in Ids(l1) <=> p \in Ids(l2),
         \A j \in DOMAIN l1, k \in DOMAIN l2 :
           l1[j].id = p /\ l2[k].id = p => l1[j].quantity = l2[k].quantity
  PROVE  QuantityIn(l1, p) = QuantityIn(l2, p)
<1>1. CASE p \in Ids(l1)
  <2>1. PICK j \in DOMAIN l1, k \in DOMAIN l2 : l1[j].id = p /\ l2[k].id = p
    BY <1>1 DEF Ids
  <2> QED BY <2>1, QuantityIs
<1>2. CASE p \notin Ids(l1)
  BY <1>2, QuantityIs
<1> QED BY <1>1, <1>2

(* What waits for a product when an operation is given, and when one has run. *)
LEMMA WritesPositioned ==
  ASSUME queue \in Seq(OpType), NEW p
  PROVE  Positioned(WritesOf(p))
<1>1. DOMAIN WritesOf(p) \subseteq 1 .. Len(queue) /\ Len(queue) \in Nat
  BY DEF WritesOf
<1> QED BY <1>1 DEF Positioned

LEMMA WaitingGiven ==
  ASSUME queue \in Seq(OpType), NEW o, queue' = Append(queue, o), NEW p
  PROVE  /\ Writes(o, p) => WaitingFor(p)' = Append(WaitingFor(p), Written(o))
         /\ ~Writes(o, p) => WaitingFor(p)' = WaitingFor(p)
<1> DEFINE old == WritesOf(p)
           new == WritesOf(p)'
           x == Len(queue) + 1
<1>1. /\ DOMAIN queue = 1 .. Len(queue) /\ Len(queue) \in Nat
      /\ DOMAIN queue' = DOMAIN queue \cup {x} /\ x \notin DOMAIN queue /\ x \in Nat \ {0}
      /\ queue'[x] = o
      /\ \A n \in DOMAIN queue : queue'[n] = queue[n] /\ n < x
  OBVIOUS
<1>2. /\ DOMAIN old = {m \in DOMAIN queue : Writes(queue[m], p)}
      /\ \A n \in DOMAIN old : old[n] = Written(queue[n])
      /\ DOMAIN new = {m \in DOMAIN queue' : Writes(queue'[m], p)}
      /\ \A n \in DOMAIN new : new[n] = Written(queue'[n])
  BY DEF WritesOf
<1> HIDE DEF x
<1>3. ASSUME Writes(o, p) PROVE WaitingFor(p)' = Append(WaitingFor(p), Written(o))
  <2>1. DOMAIN new = DOMAIN old \cup {x}
    BY <1>1, <1>2, <1>3
  <2>2. \A n \in DOMAIN old : new[n] = old[n] /\ n < x
    BY <1>1, <1>2, <2>1
  <2>3. new[x] = Written(o)
    BY <1>1, <1>2, <2>1
  <2>4. Positioned(old)
    BY WritesPositioned
  <2>5. x \in Nat \ {0}
    BY <1>1
  <2>6. (\A n \in DOMAIN old : n < x) /\ (\A n \in DOMAIN old : new[n] = old[n])
    BY <2>2
  <2> HIDE DEF old, new
  <2>7. InOrder(new) = Append(InOrder(old), new[x])
    BY <2>1, <2>4, <2>5, <2>6, InOrderAppend
  <2> QED BY <2>3, <2>7 DEF WaitingFor, old, new
<1>4. ASSUME ~Writes(o, p) PROVE WaitingFor(p)' = WaitingFor(p)
  <2>1. {m \in DOMAIN queue' : Writes(queue'[m], p)} = {m \in DOMAIN queue : Writes(queue[m], p)}
    BY <1>1, <1>4
  <2>2. WritesOf(p)' = WritesOf(p)
    BY <1>1, <2>1 DEF WritesOf
  <2> QED BY <2>2 DEF WaitingFor
<1> QED BY <1>3, <1>4

LEMMA WaitingRun ==
  ASSUME queue \in Seq(OpType), queue # <<>>, queue' = Tail(queue), NEW p
  PROVE  /\ ~Writes(Head(queue), p) => WaitingFor(p)' = WaitingFor(p)
         /\ Writes(Head(queue), p) =>
              /\ WaitingFor(p) # <<>> /\ Head(WaitingFor(p)) = Written(Head(queue))
              /\ WaitingFor(p)' = Tail(WaitingFor(p))
<1> DEFINE old == WritesOf(p)
           new == WritesOf(p)'
<1>1. /\ DOMAIN old = {m \in DOMAIN queue : Writes(queue[m], p)}
      /\ \A n \in DOMAIN old : old[n] = Written(queue[n])
      /\ DOMAIN new = {m \in DOMAIN queue' : Writes(queue'[m], p)}
      /\ \A n \in DOMAIN new : new[n] = Written(queue'[n])
  BY DEF WritesOf
<1>2. /\ Head(queue) = queue[1] /\ 1 \in DOMAIN queue /\ DOMAIN queue \subseteq Nat \ {0}
      /\ DOMAIN queue' \subseteq Nat \ {0}
      /\ \A k \in DOMAIN queue' : k + 1 \in DOMAIN queue /\ queue'[k] = queue[k + 1]
      /\ \A k \in DOMAIN queue : k # 1 => k - 1 \in DOMAIN queue' /\ queue'[k - 1] = queue[k]
  BY AfterHead
<1>3. Positioned(old)
  BY WritesPositioned
<1> HIDE DEF old, new
<1>4. ASSUME NEW rest, DOMAIN rest = DOMAIN old \ {1}, \A n \in DOMAIN rest : rest[n] = old[n]
      PROVE  Positioned(rest) /\ InOrder(new) = InOrder(rest)
  <2>1. Positioned(rest)
    BY <1>3, <1>4 DEF Positioned
  <2>2. \A n \in DOMAIN rest : n - 1 \in DOMAIN new /\ new[n - 1] = rest[n]
    BY <1>1, <1>2, <1>4
  <2>3. \A n \in DOMAIN new : n + 1 \in DOMAIN rest /\ n = (n + 1) - 1
    BY <1>1, <1>2, <1>4
  <2>4. DOMAIN new = {n - 1 : n \in DOMAIN rest}
    BY <2>2, <2>3
  <2> QED BY <2>1, <2>2, <2>4, InOrderShift
<1>5. ASSUME ~Writes(Head(queue), p) PROVE WaitingFor(p)' = WaitingFor(p)
  <2>1. DOMAIN old = DOMAIN old \ {1}
    BY <1>1, <1>2, <1>5
  <2>2. InOrder(new) = InOrder(old)
    BY <1>4, <2>1
  <2> QED BY <2>2 DEF WaitingFor, old, new
<1>6. ASSUME Writes(Head(queue), p)
      PROVE  /\ WaitingFor(p) # <<>> /\ Head(WaitingFor(p)) = Written(Head(queue))
             /\ WaitingFor(p)' = Tail(WaitingFor(p))
  <2> DEFINE rest == [n \in DOMAIN old \ {1} |-> old[n]]
  <2>1. 1 \in DOMAIN old /\ old[1] = Written(Head(queue))
    BY <1>1, <1>2, <1>6
  <2>2. DOMAIN rest = DOMAIN old \ {1} /\ \A n \in DOMAIN rest : rest[n] = old[n]
    OBVIOUS
  <2>3. \A k \in DOMAIN old : k # 1 => 1 < k
    BY <1>1, <1>2
  <2> HIDE DEF rest
  <2>4. InOrder(new) = InOrder(rest)
    BY <1>4, <2>2
  <2>5. /\ InOrder(old) # <<>> /\ Head(InOrder(old)) = old[1]
        /\ Tail(InOrder(old)) = InOrder(rest)
    BY <1>3, <2>1, <2>2, <2>3, InOrderTail
  <2> QED BY <2>1, <2>4, <2>5 DEF WaitingFor, old, new
<1> QED BY <1>5, <1>6

-----------------------------------------------------------------------------
(* The refinement.  What the store shows, holds and will write of a product. *)
Shown(p) == QuantityIn(IF Loading THEN table ELSE cartProducts, p)
Stored(p) == QuantityIn(table, p)

LEMMA StoreStarts ==
  ASSUME \A p \in Product : Shown(p) = 0 /\ Stored(p) = 0 /\ WaitingFor(p) = <<>>
  PROVE  Durable!Init
<1>1. [p \in Product |-> QuantityIn(IF Loading THEN table ELSE cartProducts, p)] = [p \in Product |-> 0]
  BY DEF Shown
<1>2. [p \in Product |-> QuantityIn(table, p)] = [p \in Product |-> 0]
  BY DEF Stored
<1>3. [p \in Product |-> WaitingFor(p)] = [p \in Product |-> <<>>]
  OBVIOUS
<1> QED BY <1>1, <1>2, <1>3 DEF Durable!Init

LEMMA StoreStays ==
  ASSUME \A p \in Product : /\ Shown(p)' = Shown(p) /\ Stored(p)' = Stored(p)
                            /\ WaitingFor(p)' = WaitingFor(p)
  PROVE  UNCHANGED Durable!store
<1>1. \A p \in Product : QuantityIn(IF Loading THEN table ELSE cartProducts, p)'
                           = QuantityIn(IF Loading THEN table ELSE cartProducts, p)
  BY DEF Shown
<1>2. \A p \in Product : QuantityIn(table, p)' = QuantityIn(table, p)
  BY DEF Stored
<1> QED BY <1>1, <1>2 DEF Durable!store

LEMMA StoreShows ==
  ASSUME NEW ks \in SUBSET Product, NEW v,
         \A p \in Product :
           /\ Shown(p)' = IF p \in ks THEN v ELSE Shown(p)
           /\ Stored(p)' = Stored(p)
           /\ WaitingFor(p)' = IF p \in ks THEN Append(WaitingFor(p), v) ELSE WaitingFor(p)
  PROVE  Durable!Show(ks, v)
<1>1. \A p \in Product : QuantityIn(IF Loading THEN table ELSE cartProducts, p)'
        = IF p \in ks THEN v ELSE QuantityIn(IF Loading THEN table ELSE cartProducts, p)
  BY DEF Shown
<1>2. \A p \in Product : QuantityIn(table, p)' = QuantityIn(table, p)
  BY DEF Stored
<1> QED BY <1>1, <1>2 DEF Durable!Show

LEMMA StoreWrites ==
  ASSUME NEW ks \in SUBSET Product,
         \A p \in Product :
           /\ Shown(p)' = Shown(p)
           /\ p \in ks => WaitingFor(p) # <<>>
           /\ Stored(p)' = IF p \in ks THEN Head(WaitingFor(p)) ELSE Stored(p)
           /\ WaitingFor(p)' = IF p \in ks THEN Tail(WaitingFor(p)) ELSE WaitingFor(p)
  PROVE  Durable!Write(ks)
<1>1. \A p \in Product : QuantityIn(IF Loading THEN table ELSE cartProducts, p)'
                           = QuantityIn(IF Loading THEN table ELSE cartProducts, p)
  BY DEF Shown
<1>2. \A p \in Product :
        QuantityIn(table, p)' = IF p \in ks THEN Head(WaitingFor(p)) ELSE QuantityIn(table, p)
  BY DEF Stored
<1> QED BY <1>1, <1>2 DEF Durable!Write

LEMMA StoreWritesThrough ==
  ASSUME NEW k \in Product, NEW v, WaitingFor(k) = <<>>, Shown(k) = 0,
         \A p \in Product :
           /\ Shown(p)' = IF p = k THEN v ELSE Shown(p)
           /\ Stored(p)' = IF p = k THEN v ELSE Stored(p)
           /\ WaitingFor(p)' = WaitingFor(p)
  PROVE  Durable!WriteThrough(k, v)
<1>1. \A p \in Product : QuantityIn(IF Loading THEN table ELSE cartProducts, p)'
        = IF p = k THEN v ELSE QuantityIn(IF Loading THEN table ELSE cartProducts, p)
  BY DEF Shown
<1>2. \A p \in Product :
        QuantityIn(table, p)' = IF p = k THEN v ELSE QuantityIn(table, p)
  BY DEF Stored
<1>3. QuantityIn(IF Loading THEN table ELSE cartProducts, k) = 0
  BY DEF Shown
<1> QED BY <1>1, <1>2, <1>3 DEF Durable!WriteThrough

LEMMA StoreCrashes ==
  ASSUME \A p \in Product : /\ Shown(p)' = Stored(p) /\ Stored(p)' = Stored(p)
                            /\ WaitingFor(p)' = <<>>
  PROVE  Durable!Crash
<1>1. \A p \in Product :
        QuantityIn(IF Loading THEN table ELSE cartProducts, p)' = QuantityIn(table, p)
  BY DEF Shown, Stored
<1>2. \A p \in Product : QuantityIn(table, p)' = QuantityIn(table, p)
  BY DEF Stored
<1> QED BY <1>1, <1>2 DEF Durable!Crash

(* Nothing waits behind a load, and a load writes nothing.                   *)
NothingGiven == DOMAIN queue \subseteq {1} /\ \A n \in DOMAIN queue : queue[n].op = "load"
NoneWaits == \A p : WaitingFor(p) = <<>>

LEMMA NothingWaits == NothingGiven => NoneWaits
<1> SUFFICES ASSUME NothingGiven, NEW p PROVE WaitingFor(p) = <<>>
  BY DEF NoneWaits
<1>1. \A n \in DOMAIN queue : ~Writes(queue[n], p)
  BY DEF Writes, ClearOp, NothingGiven
<1>2. DOMAIN WritesOf(p) = {}
  BY <1>1 DEF WritesOf
<1> QED BY <1>2, NothingInOrder DEF WaitingFor

LEMMA NothingWaitsNext == NothingGiven' => NoneWaits'
  BY NothingWaits, PTL

LEMMA InitStarts == Init => Durable!Init
<1> SUFFICES ASSUME Init PROVE Durable!Init
  OBVIOUS
<1>1. DOMAIN queue = {1} /\ queue[1].op = "load"
  BY DEF Init, Load
<1>2. Loading /\ Ids(table) = {} /\ Distinct(table)
  BY <1>1 DEF Init, Empty, Loading, Ids, Distinct
<1>3. \A p \in Product : Stored(p) = 0 /\ Shown(p) = 0
  BY <1>2, QuantityIs DEF Stored, Shown
<1>4. \A p \in Product : WaitingFor(p) = <<>>
  BY <1>1, NothingWaits DEF NothingGiven, NoneWaits
<1> QED BY <1>3, <1>4, StoreStarts

LEMMA KillCrashes ==
  ASSUME Kill
  PROVE  Durable!Crash
<1>1. DOMAIN queue' = {1} /\ queue'[1].op = "load" /\ table' = table
  BY DEF Kill, Load
<1>2. Loading'
  BY <1>1 DEF Loading
<1>3. \A p \in Product : Stored(p)' = Stored(p) /\ Shown(p)' = Stored(p)
  BY <1>1, <1>2 DEF Stored, Shown
<1>4. \A p \in Product : WaitingFor(p)' = <<>>
  BY <1>1, NothingWaitsNext DEF NothingGiven, NoneWaits
<1> QED BY <1>3, <1>4, StoreCrashes

(* Steps that neither change the lists nor write anything.                   *)
LEMMA QuietStays ==
  ASSUME UNCHANGED <<cartProducts, table, queue>>
  PROVE  UNCHANGED Durable!store
<1>1. \A p : WaitingFor(p)' = WaitingFor(p)
  BY DEF WaitingFor, WritesOf
<1>2. Loading' = Loading
  BY DEF Loading
<1>3. \A p : Shown(p)' = Shown(p) /\ Stored(p)' = Stored(p)
  BY <1>2 DEF Shown, Stored
<1> QED BY <1>1, <1>3, StoreStays

LEMMA AddToCartStays ==
  ASSUME IInv, Patient, AddToCart
  PROVE  UNCHANGED Durable!store
<1>1. ~Loading /\ UNCHANGED <<cartProducts, table>>
  BY DEF AddToCart, CanTapAdd, Awaited, Loading
<1>2. PICK o : queue' = Append(queue, o) /\ o.op = "insert"
  BY DEF AddToCart, Give, InsertOp
<1>3. queue \in Seq(OpType)
  BY DEF IInv, Types, ListsOK
<1>4. ~Loading'
  BY <1>1, <1>2, <1>3 DEF Loading
<1>5. \A p : ~Writes(o, p)
  BY <1>2 DEF Writes, ClearOp
<1>6. \A p : WaitingFor(p)' = WaitingFor(p)
  BY <1>2, <1>3, <1>5, WaitingGiven
<1>7. \A p : Shown(p)' = Shown(p) /\ Stored(p)' = Stored(p)
  BY <1>1, <1>4 DEF Shown, Stored
<1> QED BY <1>6, <1>7, StoreStays

LEMMA ExecLoadStays ==
  ASSUME IInv, Guest, Guest', Backed, ExecLoad
  PROVE  UNCHANGED Durable!store
<1>1. /\ Loading /\ DOMAIN queue' = {} /\ table' = table
      /\ DOMAIN cartProducts' = DOMAIN table
      /\ \A k \in DOMAIN table : /\ cartProducts'[k].id = table[k].id
                                /\ cartProducts'[k].quantity = table[k].quantity
  BY ExecLoadIs
<1>2. ~Loading'
  BY <1>1 DEF Loading
<1>3. Distinct(cartProducts') /\ Distinct(table)
  BY DEF Guest, ListsFit, Distinct
<1>4. ASSUME NEW p PROVE QuantityIn(cartProducts', p) = QuantityIn(table, p)
  <2>1. p \in Ids(cartProducts') <=> p \in Ids(table)
    BY <1>1 DEF Ids
  <2>2. \A j \in DOMAIN cartProducts', k \in DOMAIN table :
          cartProducts'[j].id = p /\ table[k].id = p => cartProducts'[j].quantity = table[k].quantity
    BY <1>1, <1>3 DEF Distinct
  <2> QED BY <1>3, <2>1, <2>2, QuantityAgrees
<1>5. \A p : Shown(p)' = Shown(p) /\ Stored(p)' = Stored(p)
  BY <1>1, <1>2, <1>4 DEF Shown, Stored
<1>6. DOMAIN queue = {1} /\ queue[1].op = "load"
  <2>1. queue \in Seq(OpType) /\ Len(queue) = 1 /\ Head(queue).op = "load"
    BY <1>1 DEF IInv, Types, ListsOK, ExecLoad, Running, Backed, LoadAlone
  <2> QED BY <2>1
<1>7. \A p : WaitingFor(p) = <<>>
  BY <1>6, NothingWaits DEF NothingGiven, NoneWaits
<1>8. \A p : WaitingFor(p)' = <<>>
  BY <1>1, NothingWaitsNext DEF NothingGiven, NoneWaits
<1> QED BY <1>5, <1>7, <1>8, StoreStays

(* The user's changes are shown, and wait to be written.                     *)
LEMMA DialogClearShows ==
  ASSUME IInv, Waiting, Backed, DialogClear
  PROVE  Durable!Show(Product, 0)
<1>1. /\ DOMAIN cartProducts' = {} /\ queue' = Append(queue, ClearOp) /\ table' = table
      /\ ClearOp.op # "load"
  BY DEF DialogClear, ClearCart, Give, Empty, ClearOp
<1>2. queue \in Seq(OpType) /\ ~Loading
  BY DialogClearBacked DEF IInv, Types, ListsOK
<1>3. ~Loading'
  BY <1>1, <1>2 DEF Loading
<1>4. \A p : Shown(p)' = 0 /\ Stored(p)' = Stored(p)
  <2>1. Ids(cartProducts') = {} /\ Distinct(cartProducts')
    BY <1>1 DEF Ids, Distinct
  <2>2. \A p : QuantityIn(cartProducts', p) = 0
    BY <2>1, QuantityIs
  <2> QED BY <1>1, <1>3, <2>2 DEF Shown, Stored
<1>5. \A p : Writes(ClearOp, p) /\ Written(ClearOp) = 0
  BY DEF Writes, Written, ClearOp
<1>6. \A p : WaitingFor(p)' = Append(WaitingFor(p), 0)
  BY <1>1, <1>2, <1>5, WaitingGiven
<1> QED BY <1>4, <1>6, StoreShows

LEMMA ChangeQuantityShows ==
  ASSUME IInv, Waiting, Guest, Guest', Backed, NEW p, NEW q \in 1 .. MaxQty, ChangeQuantity(p, q)
  PROVE  p \in Product /\ Durable!Show({p}, q)
<1>1. PICK f \in DOMAIN cartProducts :
           /\ cartProducts[f].id = p
           /\ cartProducts' = [cartProducts EXCEPT ![f] = Repriced(cartProducts[f], q)]
           /\ queue' = Append(queue, QuantityOp(p, q))
           /\ UNCHANGED <<sheet, table>> /\ ~Loading
  BY ChangeQuantityIs
<1>2. p \in Product /\ queue \in Seq(OpType) /\ QuantityOp(p, q).op # "load"
  BY <1>1 DEF Backed, CartBacked, IInv, Types, ListsOK, QuantityOp
<1>3. ~Loading'
  BY <1>1, <1>2 DEF Loading
<1>4. Distinct(cartProducts) /\ Distinct(cartProducts')
  BY DEF Guest, ListsFit, Distinct
<1>5. /\ DOMAIN cartProducts' = DOMAIN cartProducts
      /\ \A k \in DOMAIN cartProducts :
           /\ cartProducts'[k].id = cartProducts[k].id
           /\ cartProducts[k].id # p => cartProducts'[k] = cartProducts[k]
      /\ cartProducts'[f].quantity = q
  <2>1. DOMAIN cartProducts' = DOMAIN cartProducts
    BY <1>1
  <2>2. cartProducts'[f] = Repriced(cartProducts[f], q)
    BY <1>1
  <2>3. \A k \in DOMAIN cartProducts : k # f => cartProducts'[k] = cartProducts[k]
    BY <1>1
  <2>4. Repriced(cartProducts[f], q).id = cartProducts[f].id /\ Repriced(cartProducts[f], q).quantity = q
    <3>1. Bounded(cartProducts, ItemType)
      BY DEF IInv, Types, ListsOK
    <3>2. cartProducts[f] \in ItemType
      BY <3>1 DEF Bounded
    <3> QED BY <3>2 DEF Repriced, ItemType
  <2> QED BY <1>1, <2>1, <2>2, <2>3, <2>4
<1>6. ASSUME NEW r PROVE QuantityIn(cartProducts', r) = IF r = p THEN q ELSE QuantityIn(cartProducts, r)
  <2>1. CASE r = p
    BY <1>1, <1>4, <1>5, <2>1, QuantityIs
  <2>2. CASE r # p
    <3>1. r \in Ids(cartProducts') <=> r \in Ids(cartProducts)
      BY <1>5 DEF Ids
    <3>2. \A j \in DOMAIN cartProducts', k \in DOMAIN cartProducts :
            cartProducts'[j].id = r /\ cartProducts[k].id = r
              => cartProducts'[j].quantity = cartProducts[k].quantity
      BY <1>4, <1>5, <2>2 DEF Distinct
    <3>3. QuantityIn(cartProducts', r) = QuantityIn(cartProducts, r)
      BY <1>4, <3>1, <3>2, QuantityAgrees
    <3> QED BY <2>2, <3>3
  <2> QED BY <2>1, <2>2
<1>7. \A r : /\ Shown(r)' = IF r = p THEN q ELSE Shown(r)
             /\ Stored(r)' = Stored(r)
  BY <1>1, <1>3, <1>6 DEF Shown, Stored
<1>8. \A r : /\ Writes(QuantityOp(p, q), r) <=> r = p
             /\ Written(QuantityOp(p, q)) = q
  BY DEF Writes, Written, ClearOp, QuantityOp
<1>9. \A r : WaitingFor(r)' = IF r = p THEN Append(WaitingFor(r), q) ELSE WaitingFor(r)
  BY <1>1, <1>2, <1>8, WaitingGiven
<1>10. \A r : r \in {p} <=> r = p
  OBVIOUS
<1>11. {p} \in SUBSET Product
  BY <1>2
<1>12. \A r \in Product :
           /\ Shown(r)' = IF r \in {p} THEN q ELSE Shown(r)
           /\ Stored(r)' = Stored(r)
           /\ WaitingFor(r)' = IF r \in {p} THEN Append(WaitingFor(r), q) ELSE WaitingFor(r)
  BY <1>7, <1>9, <1>10
<1> QED BY <1>2, <1>11, <1>12, StoreShows

LEMMA DeleteFromCartShows ==
  ASSUME IInv, Guest, Guest', Backed, NEW p \in Product, DeleteFromCart(p)
  PROVE  Durable!Show({p}, 0)
<1>1. /\ DOMAIN cartProducts' \subseteq DOMAIN cartProducts
      /\ \A k \in DOMAIN cartProducts' : cartProducts'[k] = cartProducts[k]
      /\ Ids(cartProducts)' = Ids(cartProducts) \ {p}
      /\ queue' = Append(queue, DeleteOp(p))
      /\ UNCHANGED <<sheet, table>> /\ ~Loading
  BY DeleteFromCartIs
<1>2. queue \in Seq(OpType) /\ DeleteOp(p).op # "load"
  BY DEF IInv, Types, ListsOK, DeleteOp
<1>3. ~Loading'
  BY <1>1, <1>2 DEF Loading
<1>4. Distinct(cartProducts) /\ Distinct(cartProducts')
  BY DEF Guest, ListsFit, Distinct
<1>5. Ids(cartProducts') = Ids(cartProducts) \ {p}
  BY <1>1
<1>6. ASSUME NEW r PROVE QuantityIn(cartProducts', r) = IF r = p THEN 0 ELSE QuantityIn(cartProducts, r)
  <2>1. CASE r = p
    BY <1>4, <1>5, <2>1, QuantityIs
  <2>2. CASE r # p
    <3>1. r \in Ids(cartProducts') <=> r \in Ids(cartProducts)
      BY <1>5, <2>2
    <3>2. \A j \in DOMAIN cartProducts', k \in DOMAIN cartProducts :
            cartProducts'[j].id = r /\ cartProducts[k].id = r
              => cartProducts'[j].quantity = cartProducts[k].quantity
      BY <1>1, <1>4 DEF Distinct
    <3>3. QuantityIn(cartProducts', r) = QuantityIn(cartProducts, r)
      BY <1>4, <3>1, <3>2, QuantityAgrees
    <3> QED BY <2>2, <3>3
  <2> QED BY <2>1, <2>2
<1>7. \A r : /\ Shown(r)' = IF r = p THEN 0 ELSE Shown(r)
             /\ Stored(r)' = Stored(r)
  BY <1>1, <1>3, <1>6 DEF Shown, Stored
<1>8. \A r : /\ Writes(DeleteOp(p), r) <=> r = p
             /\ Written(DeleteOp(p)) = 0
  BY DEF Writes, Written, ClearOp, DeleteOp
<1>9. \A r : WaitingFor(r)' = IF r = p THEN Append(WaitingFor(r), 0) ELSE WaitingFor(r)
  BY <1>1, <1>2, <1>8, WaitingGiven
<1>10. \A r \in Product :
           /\ Shown(r)' = IF r \in {p} THEN 0 ELSE Shown(r)
           /\ Stored(r)' = Stored(r)
           /\ WaitingFor(r)' = IF r \in {p} THEN Append(WaitingFor(r), 0) ELSE WaitingFor(r)
  BY <1>7, <1>9
<1>11. {p} \in SUBSET Product
  OBVIOUS
<1> QED BY <1>10, <1>11, StoreShows

(* The database writes what has waited longest.                              *)
LEMMA QuantityAdded ==
  ASSUME NEW old, NEW new, Distinct(old), Distinct(new), NEW p, NEW q, NEW c,
         p \notin Ids(old), DOMAIN new = DOMAIN old \cup {c},
         new[c].id = p, new[c].quantity = q, \A k \in DOMAIN old : new[k] = old[k], NEW r
  PROVE  QuantityIn(new, r) = IF r = p THEN q ELSE QuantityIn(old, r)
<1>1. CASE r = p
  BY <1>1, QuantityIs
<1>2. CASE r # p
  <2>1. r \in Ids(new) <=> r \in Ids(old)
    BY <1>2 DEF Ids
  <2>2. \A j \in DOMAIN new, k \in DOMAIN old :
          new[j].id = r /\ old[k].id = r => new[j].quantity = old[k].quantity
    BY DEF Distinct
  <2>3. QuantityIn(new, r) = QuantityIn(old, r)
    BY <2>1, <2>2, QuantityAgrees
  <2> QED BY <1>2, <2>3
<1> QED BY <1>1, <1>2

LEMMA ExecInsertWrites ==
  ASSUME IInv, Waiting, Guest, Guest', Backed, ExecInsert
  PROVE  \E p \in Product, q \in Quantity : Durable!WriteThrough(p, q)
<1>1. PICK p \in Product, q \in Quantity, c \in Nat, r \in Nat :
           /\ ~Loading /\ ~Loading'
           /\ queue # <<>> /\ queue' = Tail(queue) /\ Head(queue).op = "insert"
           /\ \A m \in DOMAIN queue : ~Writes(queue[m], p)
           /\ p \notin Ids(cartProducts) /\ p \notin Ids(table)
           /\ DOMAIN cartProducts' = DOMAIN cartProducts \cup {c}
           /\ cartProducts'[c].id = p /\ cartProducts'[c].quantity = q
           /\ \A k \in DOMAIN cartProducts : cartProducts'[k] = cartProducts[k]
           /\ DOMAIN table' = DOMAIN table \cup {r}
           /\ table'[r].id = p /\ table'[r].quantity = q
           /\ \A k \in DOMAIN table : table'[k] = table[k]
  BY ExecInsertIs
<1>2. /\ Distinct(cartProducts) /\ Distinct(cartProducts')
      /\ Distinct(table) /\ Distinct(table') /\ queue \in Seq(OpType)
  BY DEF Guest, ListsFit, Distinct, IInv, Types, ListsOK
<1>3. \A x : QuantityIn(cartProducts', x) = IF x = p THEN q ELSE QuantityIn(cartProducts, x)
  BY <1>1, <1>2, QuantityAdded
<1>4. \A x : QuantityIn(table', x) = IF x = p THEN q ELSE QuantityIn(table, x)
  BY <1>1, <1>2, QuantityAdded
<1>5. \A x : /\ Shown(x)' = IF x = p THEN q ELSE Shown(x)
             /\ Stored(x)' = IF x = p THEN q ELSE Stored(x)
  BY <1>1, <1>3, <1>4 DEF Shown, Stored
<1>6. \A x : ~Writes(Head(queue), x)
  BY <1>1 DEF Writes, ClearOp
<1>7. \A x : WaitingFor(x)' = WaitingFor(x)
  BY <1>1, <1>2, <1>6, WaitingRun
<1>8. WaitingFor(p) = <<>>
  <2>1. DOMAIN WritesOf(p) = {}
    BY <1>1 DEF WritesOf
  <2> QED BY <2>1, NothingInOrder DEF WaitingFor
<1>9. Shown(p) = 0
  BY <1>1, <1>2, QuantityIs DEF Shown
<1> QED BY <1>5, <1>7, <1>8, <1>9, StoreWritesThrough

(* An insert that fails was not shown either.                                *)
LEMMA InsertFailsStays ==
  ASSUME IInv, InsertFails
  PROVE  UNCHANGED Durable!store
<1>1. /\ queue # <<>> /\ queue' = Tail(queue) /\ queue \in Seq(OpType)
      /\ ~Loading /\ ~Loading' /\ cartProducts' = cartProducts
  BY RowsRun
<1>2. Head(queue).op = "insert" /\ table' = table
  BY DEF InsertFails, Running
<1>3. \A p : ~Writes(Head(queue), p)
  BY <1>2 DEF Writes, ClearOp
<1>4. \A p : WaitingFor(p)' = WaitingFor(p)
  BY <1>1, <1>3, WaitingRun
<1>5. \A p : Shown(p)' = Shown(p) /\ Stored(p)' = Stored(p)
  BY <1>1, <1>2 DEF Shown, Stored
<1> QED BY <1>4, <1>5, StoreStays

(* A row operation writes v of the products ps, when it leaves the others.   *)
LEMMA RowsWritten ==
  ASSUME IInv, Guest, ExecQuantity \/ ExecDelete \/ ExecClear, NEW ps \in SUBSET Product, NEW v,
         \A p \in Product : Writes(Head(queue), p) <=> p \in ps, Written(Head(queue)) = v,
         \A p \in Product : QuantityIn(table', p) = IF p \in ps THEN v ELSE QuantityIn(table, p)
  PROVE  Durable!Write(ps)
<1>1. /\ queue # <<>> /\ queue' = Tail(queue) /\ queue \in Seq(OpType)
      /\ ~Loading /\ ~Loading' /\ cartProducts' = cartProducts
  BY RowsRun
<1>2. \A p \in Product :
        /\ p \in ps => WaitingFor(p) # <<>> /\ Head(WaitingFor(p)) = v
        /\ WaitingFor(p)' = IF p \in ps THEN Tail(WaitingFor(p)) ELSE WaitingFor(p)
  BY <1>1, WaitingRun
<1>3. \A p \in Product :
        /\ Shown(p)' = Shown(p)
        /\ Stored(p)' = IF p \in ps THEN Head(WaitingFor(p)) ELSE Stored(p)
  BY <1>1, <1>2 DEF Shown, Stored
<1> QED BY <1>2, <1>3, StoreWrites

LEMMA ExecQuantityWrites ==
  ASSUME IInv, Guest, Guest', Backed, ExecQuantity
  PROVE  \E ps \in SUBSET Product : Durable!Write(ps)
<1>1. PICK p \in Product, q \in Quantity :
        /\ Head(queue) = QuantityOp(p, q) /\ p \in Ids(table)
        /\ DOMAIN table' = DOMAIN table
        /\ \A k \in DOMAIN table :
             /\ table'[k].id = table[k].id
             /\ table'[k].quantity = IF table[k].id = p THEN q ELSE table[k].quantity
  BY ExecQuantityIs
<1>2. Distinct(table) /\ Distinct(table')
  BY DEF Guest, ListsFit, Distinct
<1>3. ASSUME NEW x PROVE QuantityIn(table', x) = IF x \in {p} THEN q ELSE QuantityIn(table, x)
  <2>1. CASE x = p
    <3>1. PICK k \in DOMAIN table : table[k].id = p
      BY <1>1 DEF Ids
    <3>2. table'[k].id = p /\ table'[k].quantity = q /\ k \in DOMAIN table'
      BY <1>1, <3>1
    <3> QED BY <1>2, <2>1, <3>2, QuantityIs
  <2>2. CASE x # p
    <3>1. x \in Ids(table') <=> x \in Ids(table)
      BY <1>1 DEF Ids
    <3>2. \A j \in DOMAIN table', k \in DOMAIN table :
            table'[j].id = x /\ table[k].id = x => table'[j].quantity = table[k].quantity
      BY <1>1, <1>2, <2>2 DEF Distinct
    <3>3. QuantityIn(table', x) = QuantityIn(table, x)
      BY <1>2, <3>1, <3>2, QuantityAgrees
    <3> QED BY <2>2, <3>3
  <2> QED BY <2>1, <2>2
<1>4. \A x : Writes(QuantityOp(p, q), x) <=> x \in {p}
  BY DEF Writes, ClearOp, QuantityOp
<1>5. Written(QuantityOp(p, q)) = q
  BY DEF Written, QuantityOp
<1>6. {p} \in SUBSET Product
  OBVIOUS
<1> QED BY <1>1, <1>3, <1>4, <1>5, <1>6, RowsWritten

LEMMA ExecDeleteWrites ==
  ASSUME IInv, Guest, Guest', Backed, ExecDelete
  PROVE  \E ps \in SUBSET Product : Durable!Write(ps)
<1>1. PICK p \in Product :
        /\ Head(queue) = DeleteOp(p)
        /\ DOMAIN table' \subseteq DOMAIN table
        /\ \A k \in DOMAIN table' : table'[k] = table[k]
        /\ Ids(table)' = Ids(table) \ {p}
  BY ExecDeleteIs
<1>2. Distinct(table) /\ Distinct(table') /\ Ids(table') = Ids(table) \ {p}
  BY <1>1 DEF Guest, ListsFit, Distinct
<1>3. ASSUME NEW x PROVE QuantityIn(table', x) = IF x \in {p} THEN 0 ELSE QuantityIn(table, x)
  <2>1. CASE x = p
    BY <1>2, <2>1, QuantityIs
  <2>2. CASE x # p
    <3>1. x \in Ids(table') <=> x \in Ids(table)
      BY <1>2, <2>2
    <3>2. \A j \in DOMAIN table', k \in DOMAIN table :
            table'[j].id = x /\ table[k].id = x => table'[j].quantity = table[k].quantity
      BY <1>1, <1>2 DEF Distinct
    <3>3. QuantityIn(table', x) = QuantityIn(table, x)
      BY <1>2, <3>1, <3>2, QuantityAgrees
    <3> QED BY <2>2, <3>3
  <2> QED BY <2>1, <2>2
<1>4. \A x : Writes(DeleteOp(p), x) <=> x \in {p}
  BY DEF Writes, ClearOp, DeleteOp
<1>5. Written(DeleteOp(p)) = 0
  BY DEF Written, DeleteOp
<1>6. {p} \in SUBSET Product
  OBVIOUS
<1> QED BY <1>1, <1>3, <1>4, <1>5, <1>6, RowsWritten

LEMMA ExecClearWrites ==
  ASSUME IInv, Guest, ExecClear
  PROVE  Durable!Write(Product)
<1>1. Head(queue) = ClearOp /\ DOMAIN table' = {}
  BY ExecClearIs
<1>2. Ids(table') = {} /\ Distinct(table')
  BY <1>1 DEF Ids, Distinct
<1>3. \A x : QuantityIn(table', x) = 0
  BY <1>2, QuantityIs
<1>4. \A x : Writes(ClearOp, x)
  BY DEF Writes
<1>5. Written(ClearOp) = 0
  BY DEF Written, ClearOp
<1> QED BY <1>1, <1>3, <1>4, <1>5, RowsWritten

-----------------------------------------------------------------------------
LEMMA NextStores ==
  ASSUME IInv, Patient, ~LoggedIn, Waiting, Guest, Backed, [Next]_vars
  PROVE  [Durable!Next]_(Durable!store)
<1>1. Guest'
  BY NextKeepsGuest
<1>2. ASSUME NEW p, NEW q \in 1 .. MaxQty, ChangeQuantity(p, q) PROVE Durable!Next
  BY <1>1, <1>2, ChangeQuantityShows DEF Durable!Next
<1>3. ASSUME NEW p \in Product, DeleteFromCart(p) PROVE Durable!Next
  <2>1. {p} \in SUBSET Product
    OBVIOUS
  <2> QED BY <1>1, <1>3, <2>1, DeleteFromCartShows DEF Durable!Next
<1>4. CASE DialogClear
  BY <1>4, DialogClearShows DEF Durable!Next
<1>5. ASSUME NEW q \in 1 .. MaxQty, SetValues(q) PROVE UNCHANGED Durable!store
  <2>1. UNCHANGED <<cartProducts, table, queue>>
    BY <1>5, SetValuesBacked, SetValuesLeavesCart DEF SetValues
  <2> QED BY <2>1, QuietStays
<1>6. ASSUME NEW p \in Product, OpenSheet(p) PROVE UNCHANGED Durable!store
  BY <1>6, QuietStays DEF OpenSheet, memory
<1>7. CASE CloseSheet \/ AddRefused \/ DialogClose
  <2>1. UNCHANGED <<cartProducts, table, queue>>
    BY <1>7 DEF CloseSheet, AddRefused, DialogClose, memory
  <2> QED BY <2>1, QuietStays
<1>8. CASE User /\ ~AskServer /\ ~ActivateCoupon /\ ~PlaceOrder /\ ~ToggleEdit
  BY <1>2, <1>3, <1>4, <1>5, <1>6, <1>7, <1>8, AddToCartStays DEF User
<1>9. CASE UNCHANGED <<cartProducts, screen, table, queue, calls, dataUpdated, vendorShipping>>
  BY <1>9, QuietStays
<1>10. CASE Database
  <2>1. CASE ExecInsert
    BY <1>1, <2>1, ExecInsertWrites DEF Durable!Next, Quantity
  <2>2. CASE ExecQuantity
    BY <1>1, <2>2, ExecQuantityWrites DEF Durable!Next
  <2>3. CASE ExecDelete
    BY <1>1, <2>3, ExecDeleteWrites DEF Durable!Next
  <2>4. CASE ExecClear
    BY <2>4, ExecClearWrites DEF Durable!Next
  <2> QED BY <1>1, <1>10, <2>1, <2>2, <2>3, <2>4, ExecLoadStays, InsertFailsStays DEF Database
<1>11. CASE Kill
  BY <1>11, KillCrashes DEF Durable!Next
<1>12. CASE UNCHANGED vars
  BY <1>12, QuietStays DEF vars, memory
<1> QED BY <1>8, <1>9, <1>10, <1>11, <1>12, GuestAsksNothing DEF Guest

(* Every item in the cart of a guest who waits has a row that stays.         *)
LEMMA SpecBacked == ASSUME Patient, ~LoggedIn PROVE Spec => [](IInv /\ Waiting /\ Guest /\ Backed)
<1>1. Init => Backed
  BY InitBacked
<1>2. IInv /\ Waiting /\ Guest /\ Backed /\ [Next]_vars => Backed'
  BY NextKeepsBacked
<1> QED BY <1>1, <1>2, SpecGuest, PTL DEF Spec

(* The cart of a patient guest is a write-behind store: each tap on it and   *)
(* each operation of the database, in any interleaving and with any process  *)
(* deaths, is a step of that store or none, so what a death loses is exactly *)
(* the changes still waiting, and an item added is never lost.               *)
THEOREM CartIsWriteBehind == ASSUME Patient, ~LoggedIn PROVE Spec => IsWriteBehind
<1>1. Init => Durable!Init
  BY InitStarts
<1>2. IInv /\ Waiting /\ Guest /\ Backed /\ [Next]_vars => [Durable!Next]_(Durable!store)
  BY NextStores
<1> QED BY <1>1, <1>2, SpecBacked, PTL DEF Spec, IsWriteBehind, Durable!Spec

-----------------------------------------------------------------------------
(* A step of the check out is a step of the cart, so what is proved of the   *)
(* cart holds here.                                                          *)
LEMMA CheckOutSteps == [CONext]_coVars => [Next]_vars
<1>1. Move => UNCHANGED vars
  BY DEF Move
<1>2. OrderButton => [Next]_vars
  BY DEF OrderButton, Next, User
<1>3. CartOpened => [Next]_vars
  BY DEF CartOpened, Next, User
<1>4. InShop => Next
  BY DEF InShop, Next, User
<1>5. InCart => Next
  BY DEF InCart, Next, User
<1>6. OnCheckOutScreen => Next
  BY DEF OnCheckOutScreen, Next, User
<1>7. DatabaseStep => Next
  BY DEF DatabaseStep, Next, Database
<1>8. ServerStep => [Next]_vars
  <2> SUFFICES ASSUME NEW s \in Slots,
                      CartReply(s) \/ OrderTaken(s) \/ OrderAnswered(s) \/ OrderNotAnswered(s)
               PROVE  Next \/ UNCHANGED vars
    BY DEF ServerStep
  <2>1. CartReply(s) \/ OrderAnswered(s) \/ OrderNotAnswered(s) => Server
    BY DEF CartReply, OrderAnswered, OrderNotAnswered, Server
  <2>2. OrderTaken(s) => UNCHANGED vars
    BY DEF OrderTaken
  <2> QED BY <2>1, <2>2 DEF Next
<1>9. Death => Next
  BY DEF Death, Next
<1>10. UNCHANGED coVars => UNCHANGED vars
  BY DEF coVars
<1> QED BY <1>1, <1>2, <1>3, <1>4, <1>5, <1>6, <1>7, <1>8, <1>9, <1>10 DEF CONext

LEMMA CheckOutWaiting == ASSUME Patient PROVE COSpec => [](IInv /\ Waiting)
<1>1. COInit => Init
  BY DEF COInit
<1> QED BY <1>1, CheckOutSteps, SpecWaiting, PTL DEF COSpec, Spec

-----------------------------------------------------------------------------
(* The inductive invariant of a careful user.  The orders are records;       *)
OrdersAre == /\ DOMAIN sent = Slots
             /\ \A s \in Slots : DOMAIN sent[s] = {"items", "accepted"}

(* away from the shop nothing is on its way to the cart, and the first load  *)
(* is done before anything is cleared;                                       *)
ClearWaits == ClearOp \in ToSet(queue)
PlacesFit ==
  /\ place \in {"shop", "opening", "cart", "addresses", "checkOut"}
  /\ place # "shop" => ~Awaited
  /\ Loading => ~ClearWaits

(* at most one request is in flight: on the cart screen one that asks for    *)
(* products of the cart, at the check out an order of just the cart.  Only   *)
(* an order in flight is taken;                                              *)
NothingAsked == \A s \in Slots : calls[s] = NoCall
AsksForCart(s) == /\ place = "cart" /\ calls[s].kind = "update"
                  /\ Ids(calls[s].items) \subseteq Ids(cartProducts)
OrdersCart(s) == /\ place = "checkOut" /\ calls[s].kind = "order"
                 /\ sent[s].items = Items(cartProducts)
CallsFit ==
  /\ \A s, t \in Slots : calls[s] # NoCall /\ calls[t] # NoCall => s = t
  /\ \A s \in Slots : calls[s] # NoCall => AsksForCart(s) \/ OrdersCart(s)
  /\ \A s \in Slots : sent[s].accepted => calls[s].kind = "order"

(* a cart that the button takes to the check out has its bill, as on the way.*)
Clean == cartProducts # Empty /\ ~editMood /\ dataUpdated
Billed ==
  ~failed /\ (OnTheWay \/ (place = "cart" /\ LoggedIn /\ NothingAsked /\ Clean)) =>
    cartDetails # "none" /\ priced = Items(cartProducts)

Screens == OrdersAre /\ PlacesFit /\ CallsFit /\ Billed

LEMMA InitScreens == COInit => Screens
<1> SUFFICES ASSUME COInit PROVE Screens
  OBVIOUS
<1>1. DOMAIN queue = {1} /\ queue[1] = Load /\ place = "shop"
  BY DEF COInit, Init
<1>2. PlacesFit
  BY <1>1 DEF PlacesFit, ClearWaits, ToSet, ClearOp, Load
<1>3. OrdersAre /\ CallsFit
  BY DEF COInit, Init, OrdersAre, CallsFit, NoOrder
<1> QED BY <1>1, <1>2, <1>3 DEF Screens, Billed, OnTheWay

-----------------------------------------------------------------------------
(* What the steps do to the queue and to the requests.                       *)
LEMMA QueueSame ==
  ASSUME queue \in Seq(OpType), queue' \in Seq(OpType), SameOps(queue, queue')
  PROVE  Awaited' = Awaited /\ Loading' = Loading /\ ClearWaits' = ClearWaits
<1>1. /\ DOMAIN queue' = DOMAIN queue
      /\ \A k \in DOMAIN queue : /\ queue[k].op = queue'[k].op
                                 /\ queue[k].op # "insert" => queue[k] = queue'[k]
  BY DEF SameOps
<1>2. ClearOp.op = "clear"
  BY DEF ClearOp
<1>3. \A k \in DOMAIN queue : queue[k] = ClearOp <=> queue'[k] = ClearOp
  BY <1>1, <1>2
<1>4. ClearWaits' = ClearWaits
  BY <1>1, <1>3 DEF ClearWaits, ToSet
<1> QED BY <1>1, <1>4 DEF Awaited, Loading

LEMMA QueueGiven ==
  ASSUME queue \in Seq(OpType), NEW q2 \in Seq(OpType), SameOps(queue, q2),
         NEW o, queue' = Append(q2, o)
  PROVE  /\ o.op \notin {"load", "insert"} => Awaited' = Awaited
         /\ o.op # "load" => Loading' = Loading
         /\ ClearWaits => ClearWaits'
         /\ o = ClearOp => ClearWaits'
         /\ ClearWaits' => ClearWaits \/ o = ClearOp
<1> DEFINE x == Len(queue) + 1
<1>1. /\ DOMAIN queue' = DOMAIN queue \cup {x} /\ queue'[x] = o
      /\ \A k \in DOMAIN queue : /\ queue[k].op = queue'[k].op
                                 /\ queue[k].op # "insert" => queue[k] = queue'[k]
  <2>1. /\ DOMAIN queue' = 1 .. Len(q2) + 1 /\ DOMAIN queue = 1 .. Len(queue)
        /\ Len(queue) \in Nat /\ Len(q2) = Len(queue)
        /\ queue'[Len(q2) + 1] = o
        /\ \A n \in 1 .. Len(q2) : queue'[n] = q2[n]
    BY DEF SameOps
  <2> QED BY <2>1 DEF SameOps
<1>2. ClearOp.op = "clear"
  BY DEF ClearOp
<1> HIDE DEF x
<1>3. \A k \in DOMAIN queue : queue[k] = ClearOp <=> queue'[k] = ClearOp
  BY <1>1, <1>2
<1>4. ClearWaits' <=> ClearWaits \/ o = ClearOp
  <2>1. ClearWaits <=> \E k \in DOMAIN queue : queue[k] = ClearOp
    BY DEF ClearWaits, ToSet
  <2>2. ClearWaits' <=> \E k \in DOMAIN queue' : queue'[k] = ClearOp
    BY DEF ClearWaits, ToSet
  <2> QED BY <1>1, <1>3, <2>1, <2>2
<1>5. o.op \notin {"load", "insert"} => Awaited' = Awaited
  BY <1>1 DEF Awaited
<1>6. o.op # "load" => Loading' = Loading
  BY <1>1 DEF Loading
<1> QED BY <1>4, <1>5, <1>6

LEMMA QueueRun ==
  ASSUME queue \in Seq(OpType), queue # <<>>, queue' = Tail(queue)
  PROVE  /\ Awaited' => Awaited
         /\ Loading' => Loading
         /\ ClearWaits' => ClearWaits
         /\ ClearWaits /\ Head(queue) # ClearOp => ClearWaits'
<1>1. /\ \A k \in DOMAIN queue' : k + 1 \in DOMAIN queue /\ queue'[k] = queue[k + 1]
      /\ \A k \in DOMAIN queue : k # 1 => k - 1 \in DOMAIN queue' /\ queue'[k - 1] = queue[k]
      /\ Head(queue) = queue[1]
  BY AfterHead
<1>2. ClearWaits <=> \E k \in DOMAIN queue : queue[k] = ClearOp
  BY DEF ClearWaits, ToSet
<1>3. ClearWaits' <=> \E k \in DOMAIN queue' : queue'[k] = ClearOp
  BY DEF ClearWaits, ToSet
<1>4. Awaited' => Awaited
  BY <1>1 DEF Awaited
<1>5. Loading' => Loading
  BY <1>1 DEF Loading
<1>6. ClearWaits' => ClearWaits
  BY <1>1, <1>2, <1>3
<1>7. ClearWaits /\ Head(queue) # ClearOp => ClearWaits'
  BY <1>1, <1>2, <1>3
<1> QED BY <1>4, <1>5, <1>6, <1>7

(* The operations that the steps give, when the first load is done.          *)
LEMMA StepQueue ==
  ASSUME IInv, Waiting, Patient, PlacesFit, NEW o, o.op # "load", ~Loading,
         queue' = Append(queue, o) \/ (\E t \in Nat, q \in Nat : queue' = Append(TouchPending(t, q), o)),
         place' = place, place # "shop" => o.op # "insert"
  PROVE  PlacesFit' /\ (ClearWaits => ClearWaits') /\ (o = ClearOp => ClearWaits')
<1>1. queue \in Seq(OpType) /\ SameOps(queue, queue)
  BY SameOpsReflexive DEF IInv, Types, ListsOK
<1>2. PICK q2 \in Seq(OpType) : SameOps(queue, q2) /\ queue' = Append(q2, o)
  BY <1>1, TouchPendingProperties
<1> QED BY <1>1, <1>2, QueueGiven DEF PlacesFit

LEMMA AskedAlone ==
  ASSUME CallsOK, NothingAsked, NEW c, Call(c)
  PROVE  \E s \in Slots : calls'[s] = c /\ \A r \in Slots : r # s => calls'[r] = NoCall
<1>1. PICK s \in Slots : calls' = [calls EXCEPT ![s] = c]
  BY DEF Call
<1> QED BY <1>1 DEF CallsOK, NothingAsked

LEMMA AnsweredAlone ==
  ASSUME CallsOK, CallsFit, NEW s \in Slots, NEW kind, kind # "none", Answered(s, kind)
  PROVE  NothingAsked' /\ calls[s] # NoCall /\ calls[s].kind = kind
<1>1. calls[s] # NoCall /\ calls[s].kind = kind /\ calls' = [calls EXCEPT ![s] = NoCall]
  BY DEF Answered, NoCall
<1> QED BY <1>1 DEF CallsOK, CallsFit, NothingAsked

LEMMA AcceptedIsAsked ==
  ASSUME CallsFit, NothingAsked, NothingAsked', UNCHANGED sent
  PROVE  CallsFit'
  BY DEF CallsFit, NothingAsked, NoCall

-----------------------------------------------------------------------------
(* Every step keeps the invariant.  First the cart's own steps, seen from    *)
(* the queue: none of them clears the table before the first load is done.   *)
LEMMA UserQueue ==
  ASSUME IInv, Waiting, Patient, PlacesFit, place' = place, NEW p, NEW q,
         \/ DialogClear \/ DeleteFromCart(p) \/ (AddToCart /\ place = "shop")
         \/ q \in 1 .. MaxQty /\ (ChangeQuantity(p, q) \/ (SetValues(q) /\ place = "shop"))
  PROVE  PlacesFit' /\ calls' = calls /\ (ClearWaits => ClearWaits')
<1>1. queue \in Seq(OpType) /\ (q \in 1 .. MaxQty => q \in Nat)
  BY BoundAssumption DEF IInv, Types, ListsOK
<1>2. cartProducts # Empty => ~Loading
  BY DEF IInv, Order, LoadComesFirst
<1>3. CASE DialogClear
  <2>1. dialog /\ queue' = Append(queue, ClearOp) /\ calls' = calls /\ ClearOp.op = "clear"
    BY <1>3 DEF DialogClear, ClearCart, Give, ClearOp
  <2>2. ~Loading
    BY <2>1 DEF Waiting, TagsKnown, Awaited, Loading
  <2> QED BY <2>1, <2>2, StepQueue
<1>4. CASE q \in 1 .. MaxQty /\ ChangeQuantity(p, q)
  <2>1. PICK f \in DOMAIN cartProducts :
          queue' = Append(TouchPending(cartProducts[f].tag, q), QuantityOp(p, q))
    BY <1>4 DEF ChangeQuantity
  <2>2. cartProducts[f].tag \in Nat
    <3>1. Bounded(cartProducts, ItemType)
      BY DEF IInv, Types, ListsOK
    <3>2. cartProducts[f] \in ItemType
      BY <3>1 DEF Bounded
    <3> QED BY <3>2 DEF ItemType
  <2>3. QuantityOp(p, q).op = "quantity" /\ calls' = calls
    BY <1>4 DEF ChangeQuantity, QuantityOp
  <2>4. ~Loading
    BY <1>2, <2>1 DEF Empty
  <2> QED BY <1>1, <1>4, <2>1, <2>2, <2>3, <2>4, StepQueue
<1>5. CASE DeleteFromCart(p)
  <2>1. queue' = Append(queue, DeleteOp(p)) /\ calls' = calls /\ DeleteOp(p).op = "delete"
    BY <1>5 DEF DeleteFromCart, Give, DeleteOp
  <2>2. ~Loading
    BY <1>2, <1>5 DEF DeleteFromCart, Empty
  <2> QED BY <2>1, <2>2, StepQueue
<1>6. CASE q \in 1 .. MaxQty /\ SetValues(q) /\ place = "shop"
  <2>1. sheet \in ItemType /\ queue' = TouchPending(sheet.tag, q) /\ calls' = calls
    BY <1>6 DEF SetValues, IInv, Types, ListsOK
  <2>2. sheet.tag \in Nat
    BY <2>1 DEF ItemType
  <2>3. queue' \in Seq(OpType) /\ SameOps(queue, queue')
    BY <1>1, <1>6, <2>1, <2>2, TouchPendingProperties
  <2> QED BY <1>1, <1>6, <2>1, <2>3, QueueSame DEF PlacesFit
<1>7. CASE AddToCart /\ place = "shop"
  <2>1. PICK o : queue' = Append(queue, o) /\ o.op = "insert"
    BY <1>7 DEF AddToCart, Give, InsertOp
  <2>2. ~Loading /\ calls' = calls
    BY <1>7 DEF AddToCart, CanTapAdd, Awaited, Loading
  <2> QED BY <1>7, <2>1, <2>2, StepQueue
<1> QED BY <1>3, <1>4, <1>5, <1>6, <1>7

LEMMA MoveScreens ==
  ASSUME Patient, Careful, IInv, Screens, Move
  PROVE  Screens'
<1>1. Idle /\ UNCHANGED <<vars, sent, priced, failed>>
  BY DEF Move, Tapped
<1>2. UNCHANGED <<queue, calls, cartProducts, editMood, dataUpdated, cartDetails>>
  BY <1>1 DEF vars, memory
<1>3. PlacesFit'
  <2>1. ~Awaited' /\ ~Loading'
    BY <1>1, <1>2 DEF Idle, Awaited, Loading
  <2> QED BY <2>1 DEF PlacesFit, Move, Go
<1>4. NothingAsked /\ NothingAsked'
  BY <1>1, <1>2 DEF Idle, NothingAsked
<1>5. CallsFit'
  BY <1>1, <1>4, AcceptedIsAsked DEF Screens
<1>6. Items(cartProducts)' = Items(cartProducts)
  BY <1>2
<1>7. Billed'
  BY <1>1, <1>2, <1>4, <1>6 DEF Screens, Billed, Move, Go, OnTheWay, Clean
<1>8. OrdersAre'
  BY <1>1 DEF Screens, OrdersAre
<1> QED BY <1>3, <1>5, <1>7, <1>8 DEF Screens

(* A request for the bill of the cart.                                       *)
LEMMA AskedScreens ==
  ASSUME IInv, Screens, NothingAsked, place' = "cart", place # "shop", UpdateCartData,
         cartProducts # Empty, UNCHANGED <<cartProducts, queue, sent>>
  PROVE  Screens'
<1> DEFINE items == [k \in DOMAIN Paid |-> [id |-> Paid[k].id, quantity |-> Paid[k].quantity]]
           c == [kind |-> "update", vendor |-> VendorOfCart, items |-> items]
<1>1. Call(c)
  BY DEF UpdateCartData
<1>2. Ids(items) \subseteq Ids(cartProducts)
  BY DEF Ids, Paid, RestrictValues, Restrict
<1>3. c.kind = "update" /\ c.items = items /\ c # NoCall
  BY DEF NoCall
<1> HIDE DEF c, items
<1>4. PICK s \in Slots : calls'[s] = c /\ \A r \in Slots : r # s => calls'[r] = NoCall
  BY <1>1, AskedAlone DEF IInv, Types
<1>5. AsksForCart(s)'
  BY <1>2, <1>3, <1>4 DEF AsksForCart, Ids
<1>6. CallsFit'
  <2>1. \A r \in Slots : ~sent'[r].accepted
    BY DEF CallsFit, Screens, NothingAsked, NoCall
  <2> QED BY <1>3, <1>4, <1>5, <2>1 DEF CallsFit
<1>7. PlacesFit'
  <2>1. Awaited' = Awaited /\ Loading' = Loading /\ ClearWaits' = ClearWaits
    BY DEF Awaited, Loading, ClearWaits
  <2> QED BY <2>1 DEF PlacesFit, Screens
<1>8. Billed'
  <2>1. ~NothingAsked'
    BY <1>3, <1>4 DEF NothingAsked
  <2> QED BY <2>1 DEF Billed, OnTheWay
<1>9. OrdersAre'
  BY DEF Screens, OrdersAre
<1> QED BY <1>6, <1>7, <1>8, <1>9 DEF Screens

(* Steps to the cart screen, and from it, that leave the cart as it is.      *)
LEMMA StillScreens ==
  ASSUME IInv, Screens, NothingAsked, UNCHANGED <<vars, sent>>, place # "shop",
         place' \in {"cart", "addresses"}, Billed'
  PROVE  Screens'
<1>1. UNCHANGED <<queue, calls>>
  BY DEF vars
<1>2. NothingAsked'
  BY <1>1 DEF NothingAsked
<1>3. CallsFit'
  BY <1>2, AcceptedIsAsked DEF Screens
<1>4. PlacesFit'
  <2>1. Awaited' = Awaited /\ Loading' = Loading /\ ClearWaits' = ClearWaits
    BY <1>1 DEF Awaited, Loading, ClearWaits
  <2> QED BY <2>1 DEF PlacesFit, Screens
<1> QED BY <1>3, <1>4 DEF Screens, OrdersAre

LEMMA OrderButtonScreens ==
  ASSUME Careful, IInv, Screens, OrderButton
  PROVE  Screens'
<1>1. /\ place = "cart" /\ (Clean \/ ~dataUpdated) /\ cartProducts # Empty
      /\ NothingAsked /\ UNCHANGED <<sent, priced, failed>>
  BY DEF OrderButton, CanOrder, Tapped, Idle, Clean, NothingAsked
<1>2. CASE dataUpdated
  <2>1. LoggedIn /\ place' = "addresses" /\ UNCHANGED vars
    BY <1>2 DEF OrderButton
  <2>2. UNCHANGED <<cartProducts, cartDetails>> /\ Items(cartProducts)' = Items(cartProducts)
    BY <2>1 DEF vars, memory
  <2>3. Billed'
    BY <1>1, <1>2, <2>1, <2>2 DEF Screens, Billed, OnTheWay
  <2> QED BY <1>1, <2>1, <2>3, StillScreens
<1>3. CASE ~dataUpdated
  <2>1. AskServer /\ place' = "cart"
    BY <1>1, <1>3 DEF OrderButton
  <2> QED BY <1>1, <2>1, AskedScreens DEF AskServer
<1> QED BY <1>2, <1>3

LEMMA CartOpenedScreens ==
  ASSUME IInv, Screens, CartOpened
  PROVE  Screens'
<1>1. place = "opening" /\ place' = "cart" /\ UNCHANGED <<sent, priced, failed>>
  BY DEF CartOpened, history
<1>2. NothingAsked
  BY <1>1 DEF Screens, CallsFit, AsksForCart, OrdersCart, NothingAsked
<1>3. CASE LoggedIn /\ cartProducts # Empty
  <2>1. AskServer
    BY <1>3 DEF CartOpened
  <2> QED BY <1>1, <1>2, <2>1, AskedScreens DEF AskServer
<1>4. CASE ~(LoggedIn /\ cartProducts # Empty)
  <2>1. UNCHANGED vars
    BY <1>4 DEF CartOpened
  <2>2. cartProducts' = cartProducts
    BY <2>1 DEF vars, memory
  <2>3. Billed'
    BY <1>1, <1>4, <2>2 DEF Billed, OnTheWay, Clean
  <2> QED BY <1>1, <1>2, <2>1, <2>3, StillScreens
<1> QED BY <1>3, <1>4

LEMMA InShopScreens ==
  ASSUME Patient, IInv, Waiting, Screens, InShop
  PROVE  Screens' /\ (ClearWaits => ClearWaits')
<1>1. place = "shop" /\ UNCHANGED <<sent, priced, failed>> /\ place' \in {"shop", "opening"}
  BY DEF InShop
<1>2. NothingAsked
  BY <1>1 DEF Screens, CallsFit, AsksForCart, OrdersCart, NothingAsked
<1>3. PlacesFit' /\ calls' = calls /\ (ClearWaits => ClearWaits')
  <2>1. CASE place' = place /\ UNCHANGED <<queue, calls>>
    <3>1. Awaited' = Awaited /\ Loading' = Loading /\ ClearWaits' = ClearWaits
      BY <2>1 DEF Awaited, Loading, ClearWaits
    <3> QED BY <2>1, <3>1 DEF PlacesFit, Screens
  <2>2. CASE DialogClose
    <3>1. UNCHANGED <<queue, calls>> /\ dialog
      BY <2>2 DEF DialogClose
    <3>2. ~Awaited /\ ~Loading
      BY <3>1 DEF Waiting, TagsKnown, Awaited, Loading
    <3>3. Awaited' = Awaited /\ Loading' = Loading /\ ClearWaits' = ClearWaits
      BY <3>1 DEF Awaited, Loading, ClearWaits
    <3> QED BY <1>1, <3>1, <3>2, <3>3 DEF PlacesFit
  <2>3. ASSUME NEW p \in Product, place' = place, OpenSheet(p) PROVE UNCHANGED <<queue, calls>>
    BY <2>3 DEF OpenSheet
  <2>4. ASSUME CloseSheet \/ AddRefused PROVE UNCHANGED <<queue, calls>>
    BY <2>4 DEF CloseSheet, AddRefused
  <2>5. ASSUME NEW p \in Product, NEW q \in 1 .. MaxQty, place' = place, ChangeQuantity(p, q)
        PROVE  PlacesFit' /\ calls' = calls /\ (ClearWaits => ClearWaits')
    BY <2>5, UserQueue DEF Screens
  <2>6. ASSUME NEW q \in 1 .. MaxQty, place' = place, SetValues(q)
        PROVE  PlacesFit' /\ calls' = calls /\ (ClearWaits => ClearWaits')
    BY <1>1, <2>6, UserQueue DEF Screens
  <2>7. ASSUME place' = place, AddToCart
        PROVE  PlacesFit' /\ calls' = calls /\ (ClearWaits => ClearWaits')
    BY <1>1, <2>7, UserQueue DEF Screens
  <2>8. ASSUME place' = place, DialogClear
        PROVE  PlacesFit' /\ calls' = calls /\ (ClearWaits => ClearWaits')
    BY <2>8, UserQueue DEF Screens
  <2> QED BY <2>1, <2>2, <2>3, <2>4, <2>5, <2>6, <2>7, <2>8 DEF InShop
<1>4. NothingAsked'
  BY <1>2, <1>3 DEF NothingAsked
<1>5. CallsFit'
  BY <1>1, <1>2, <1>4, AcceptedIsAsked DEF Screens
<1>6. Billed'
  BY <1>1 DEF Billed, OnTheWay
<1> QED BY <1>1, <1>3, <1>5, <1>6 DEF Screens, OrdersAre

LEMMA InCartScreens ==
  ASSUME Patient, Careful, IInv, Waiting, Screens, InCart
  PROVE  Screens' /\ (ClearWaits => ClearWaits')
<1>1. place = "cart" /\ NothingAsked /\ UNCHANGED <<place, sent, priced, failed>>
  BY DEF InCart, Tapped, Idle, NothingAsked
<1>2. CASE /\ PlacesFit' /\ calls' = calls /\ (ClearWaits => ClearWaits')
           /\ editMood' \/ cartProducts' = Empty
  <2>1. NothingAsked'
    BY <1>1, <1>2 DEF NothingAsked
  <2>2. CallsFit'
    BY <1>1, <2>1, AcceptedIsAsked DEF Screens
  <2>3. Billed'
    BY <1>1, <1>2 DEF Billed, OnTheWay, Clean
  <2> QED BY <1>1, <1>2, <2>2, <2>3 DEF Screens, OrdersAre
<1>3. ASSUME NEW p \in Product, DeleteFromCart(p)
      PROVE  Screens' /\ (ClearWaits => ClearWaits')
  <2>1. editMood' \/ cartProducts' = Empty
    BY <1>3 DEF DeleteFromCart
  <2> QED BY <1>1, <1>2, <1>3, <2>1, UserQueue DEF Screens
<1>4. ASSUME NEW p \in Product, NEW q \in 1 .. MaxQty, Editable(p), ChangeQuantity(p, q)
      PROVE  Screens' /\ (ClearWaits => ClearWaits')
  <2>1. editMood'
    BY <1>4 DEF Editable, ChangeQuantity
  <2> QED BY <1>1, <1>2, <1>4, <2>1, UserQueue DEF Screens
<1>5. CASE ToggleEdit
  <2>1. UNCHANGED <<cartProducts, dataUpdated, queue>> /\ editMood' = ~editMood
    BY <1>5 DEF ToggleEdit
  <2>2. Awaited' = Awaited /\ Loading' = Loading /\ ClearWaits' = ClearWaits
    BY <2>1 DEF Awaited, Loading, ClearWaits
  <2>3. CASE ~editMood' /\ LoggedIn /\ cartProducts # Empty
    <3>1. UpdateCartData
      BY <1>5, <2>3 DEF ToggleEdit
    <3> QED BY <1>1, <2>1, <2>2, <2>3, <3>1, AskedScreens
  <2>4. CASE editMood' \/ ~LoggedIn \/ cartProducts = Empty
    <3>1. calls' = calls
      BY <1>5, <2>4 DEF ToggleEdit, UpdateCartData
    <3>2. NothingAsked'
      BY <1>1, <3>1 DEF NothingAsked
    <3>3. CallsFit'
      BY <1>1, <3>2, AcceptedIsAsked DEF Screens
    <3>4. Billed'
      BY <1>1, <2>1, <2>4 DEF Billed, OnTheWay, Clean
    <3>5. PlacesFit'
      BY <1>1, <2>2 DEF PlacesFit, Screens
    <3> QED BY <1>1, <2>2, <3>3, <3>4, <3>5 DEF Screens, OrdersAre
  <2> QED BY <2>3, <2>4
<1> QED BY <1>3, <1>4, <1>5 DEF InCart

LEMMA CheckOutScreenScreens ==
  ASSUME Careful, IInv, Screens, OnCheckOutScreen
  PROVE  Screens'
<1>1. /\ place = "checkOut" /\ NothingAsked /\ UNCHANGED <<place, priced, failed>>
      /\ Call([kind |-> "order"])
      /\ UNCHANGED <<cartProducts, editMood, dataUpdated, cartDetails, queue>>
  BY DEF OnCheckOutScreen, Tapped, Idle, NothingAsked, PlaceOrder, memory
<1> DEFINE c == [kind |-> "order"]
           order == [items |-> Items(cartProducts), accepted |-> FALSE]
<1>2. c.kind = "order" /\ c # NoCall
  BY DEF NoCall
<1>3. PICK s \in Slots : calls'[s] = c /\ \A r \in Slots : r # s => calls'[r] = NoCall
  BY <1>1, AskedAlone DEF IInv, Types
<1>4. sent'[s] = order /\ DOMAIN sent' = Slots /\ \A r \in Slots : r # s => sent'[r] = sent[r]
  BY <1>1, <1>2, <1>3 DEF OnCheckOutScreen, NothingAsked
<1>5. order.items = Items(cartProducts) /\ order.accepted = FALSE
  OBVIOUS
<1>6. Items(cartProducts)' = Items(cartProducts)
  BY <1>1
<1>7. DOMAIN order = {"items", "accepted"}
  OBVIOUS
<1> HIDE DEF c, order
<1>8. OrdersCart(s)'
  BY <1>1, <1>2, <1>3, <1>4, <1>5, <1>6 DEF OrdersCart
<1>9. CallsFit'
  <2>1. \A r \in Slots : ~sent[r].accepted
    BY <1>1 DEF Screens, CallsFit, NothingAsked, NoCall
  <2>2. \A r \in Slots : sent'[r].accepted => calls'[r].kind = "order"
    BY <1>2, <1>3, <1>4, <2>1
  <2>3. \A r, t \in Slots : calls'[r] # NoCall /\ calls'[t] # NoCall => r = t
    BY <1>3
  <2>4. \A r \in Slots : calls'[r] # NoCall => OrdersCart(r)'
    BY <1>3, <1>8
  <2> QED BY <2>2, <2>3, <2>4 DEF CallsFit
<1>10. PlacesFit'
  <2>1. Awaited' = Awaited /\ Loading' = Loading /\ ClearWaits' = ClearWaits
    BY <1>1 DEF Awaited, Loading, ClearWaits
  <2> QED BY <1>1, <2>1 DEF PlacesFit, Screens
<1>11. Billed'
  BY <1>1, <1>6 DEF Billed, OnTheWay, Screens
<1>12. OrdersAre'
  BY <1>4, <1>7 DEF OrdersAre, Screens
<1> QED BY <1>9, <1>10, <1>11, <1>12 DEF Screens

LEMMA DatabaseScreens ==
  ASSUME Patient, IInv, Waiting, Screens, DatabaseStep
  PROVE  Screens'
<1>1. /\ queue # <<>> /\ queue' = Tail(queue) /\ queue \in Seq(OpType)
      /\ UNCHANGED <<calls, sent, priced, failed>>
  <2>1. queue \in Seq(OpType) /\ UNCHANGED <<sent, priced, failed>>
    BY DEF DatabaseStep, IInv, Types, ListsOK
  <2>2. ExecLoad \/ ExecInsert \/ InsertFails \/ ExecQuantity \/ ExecDelete \/ ExecClear
    BY DEF DatabaseStep
  <2>3. queue # <<>> /\ queue' = Tail(queue) /\ UNCHANGED calls
    BY <2>2 DEF ExecLoad, ExecInsert, InsertFails, ExecQuantity, ExecDelete, ExecClear, Running
  <2> QED BY <2>1, <2>3
<1>2. /\ Awaited' => Awaited
      /\ Loading' => Loading
      /\ ClearWaits' => ClearWaits
  BY <1>1, QueueRun
<1>3. CASE ExecLoad \/ ExecInsert \/ InsertFails
  <2>1. Awaited
    <3>1. Head(queue).op \in {"load", "insert"} /\ Head(queue) = queue[1] /\ 1 \in DOMAIN queue
      BY <1>1, <1>3, AfterHead DEF ExecLoad, ExecInsert, InsertFails, Running
    <3> QED BY <3>1 DEF Awaited
  <2>2. place = "shop"
    BY <2>1 DEF Screens, PlacesFit
  <2>3. place' = "shop"
    BY <1>3, <2>2 DEF DatabaseStep, Behind, ExecLoad, ExecInsert, InsertFails, ExecQuantity, ExecDelete,
                      ExecClear, Running
  <2>4. NothingAsked
    BY <2>2 DEF Screens, CallsFit, AsksForCart, OrdersCart, NothingAsked
  <2>5. NothingAsked'
    BY <1>1, <2>4 DEF NothingAsked
  <2>6. CallsFit'
    BY <1>1, <2>4, <2>5, AcceptedIsAsked DEF Screens
  <2>7. PlacesFit' /\ Billed'
    BY <1>2, <2>3 DEF PlacesFit, Billed, OnTheWay, Screens
  <2> QED BY <1>1, <2>6, <2>7 DEF Screens, OrdersAre
<1>4. CASE ExecQuantity \/ ExecDelete \/ ExecClear
  <2>1. UNCHANGED <<cartProducts, editMood, dataUpdated, cartDetails, place>>
    <3>1. ~ExecInsert
      BY <1>4 DEF ExecQuantity, ExecDelete, ExecClear, ExecInsert, Running
    <3> QED BY <1>4, <3>1 DEF ExecQuantity, ExecDelete, ExecClear, memory, DatabaseStep
  <2>2. Items(cartProducts)' = Items(cartProducts) /\ Ids(cartProducts)' = Ids(cartProducts)
    BY <2>1
  <2>3. PlacesFit'
    BY <1>2, <2>1 DEF PlacesFit, Screens
  <2>4. CallsFit'
    BY <1>1, <2>1, <2>2 DEF CallsFit, Screens, AsksForCart, OrdersCart
  <2>5. Billed'
    BY <1>1, <2>1, <2>2 DEF Billed, Screens, OnTheWay, Clean, NothingAsked
  <2> QED BY <1>1, <2>3, <2>4, <2>5 DEF Screens, OrdersAre
<1> QED BY <1>3, <1>4 DEF DatabaseStep

(* An answer ends the only request.                                          *)
LEMMA CartReplyScreens ==
  ASSUME IInv, Screens, NEW s \in Slots, CartReply(s)
  PROVE  Screens' /\ NothingAsked' /\ place = "cart"
<1>1. Answered(s, "update") /\ UNCHANGED <<place, sent, queue>>
  BY DEF CartReply, UpdateReply, UpdateFailed
<1>2. NothingAsked' /\ calls[s] # NoCall /\ calls[s].kind = "update"
  BY <1>1, AnsweredAlone DEF Screens, IInv, Types
<1>3. place = "cart"
  BY <1>2 DEF Screens, CallsFit, AsksForCart, OrdersCart
<1>4. CallsFit'
  <2>1. \A r \in Slots : ~sent[r].accepted
    <3> SUFFICES ASSUME NEW r \in Slots, sent[r].accepted PROVE FALSE
      OBVIOUS
    <3>1. calls[r].kind = "order" /\ calls[r] # NoCall
      BY DEF Screens, CallsFit, NoCall
    <3>2. r = s
      BY <1>2, <3>1 DEF Screens, CallsFit
    <3> QED BY <1>2, <3>1, <3>2
  <2> QED BY <1>1, <1>2, <2>1 DEF CallsFit, NothingAsked
<1>5. PlacesFit'
  <2>1. Awaited' = Awaited /\ Loading' = Loading /\ ClearWaits' = ClearWaits
    BY <1>1 DEF Awaited, Loading, ClearWaits
  <2> QED BY <1>1, <2>1 DEF PlacesFit, Screens
<1>6. Billed'
  <2>1. CASE UpdateFailed(s) /\ failed'
    BY <2>1 DEF Billed
  <2>2. CASE UpdateReply(s) /\ priced' = Items(cartProducts')
    <3>1. cartDetails' \in {"plain", "discount"}
      BY <2>2 DEF UpdateReply, Confirmed
    <3> QED BY <2>2, <3>1 DEF Billed, Items
  <2> QED BY <2>1, <2>2 DEF CartReply
<1> QED BY <1>1, <1>2, <1>3, <1>4, <1>5, <1>6 DEF Screens, OrdersAre

LEMMA OrderTakenScreens ==
  ASSUME Screens, NEW s \in Slots, OrderTaken(s)
  PROVE  Screens'
<1>1. /\ calls[s].kind = "order" /\ UNCHANGED <<place, priced, failed, vars>>
      /\ sent' = [sent EXCEPT ![s].accepted = TRUE]
  BY DEF OrderTaken, history
<1>2. UNCHANGED <<cartProducts, editMood, dataUpdated, cartDetails, queue, calls>>
  BY <1>1 DEF vars, memory
<1>3. DOMAIN sent[s] = {"items", "accepted"} /\ DOMAIN sent = Slots
  BY DEF Screens, OrdersAre
<1>4. sent'[s] = [sent[s] EXCEPT !.accepted = TRUE] /\ \A r \in Slots : r # s => sent'[r] = sent[r]
  BY <1>1, <1>3
<1>5. DOMAIN sent'[s] = {"items", "accepted"} /\ sent'[s].items = sent[s].items
  BY <1>3, <1>4
<1>6. \A r \in Slots : sent'[r].items = sent[r].items /\ (r # s => sent'[r] = sent[r])
  BY <1>4, <1>5
<1>7. OrdersAre'
  <2>1. DOMAIN sent' = Slots
    BY <1>1, <1>3
  <2> QED BY <1>5, <1>6, <2>1 DEF Screens, OrdersAre
<1>8. Items(cartProducts)' = Items(cartProducts) /\ Ids(cartProducts)' = Ids(cartProducts)
  BY <1>2
<1>9. CallsFit'
  <2>1. \A r \in Slots : calls'[r] # NoCall => AsksForCart(r)' \/ OrdersCart(r)'
    BY <1>1, <1>2, <1>6, <1>8 DEF Screens, CallsFit, AsksForCart, OrdersCart
  <2>2. \A r \in Slots : sent'[r].accepted => calls'[r].kind = "order"
    BY <1>1, <1>2, <1>6 DEF Screens, CallsFit
  <2> QED BY <1>2, <2>1, <2>2 DEF Screens, CallsFit
<1>10. PlacesFit'
  <2>1. Awaited' = Awaited /\ Loading' = Loading /\ ClearWaits' = ClearWaits
    BY <1>2 DEF Awaited, Loading, ClearWaits
  <2> QED BY <1>1, <2>1 DEF PlacesFit, Screens
<1>11. Billed'
  BY <1>1, <1>2, <1>8 DEF Screens, Billed, OnTheWay, Clean, NothingAsked
<1> QED BY <1>7, <1>9, <1>10, <1>11 DEF Screens

(* When the order in flight is answered, none is.                            *)
LEMMA SentCleared ==
  ASSUME Screens, NEW s \in Slots, calls[s] # NoCall, NothingAsked',
         sent' = [sent EXCEPT ![s] = NoOrder]
  PROVE  OrdersAre' /\ CallsFit'
<1>1. /\ DOMAIN sent' = Slots /\ sent'[s] = NoOrder
      /\ \A r \in Slots : r # s => sent'[r] = sent[r]
  BY DEF Screens, OrdersAre
<1>2. OrdersAre'
  BY <1>1 DEF Screens, OrdersAre, NoOrder
<1>3. \A r \in Slots : ~sent'[r].accepted
  <2> SUFFICES ASSUME NEW r \in Slots, sent'[r].accepted PROVE FALSE
    OBVIOUS
  <2>1. r # s
    BY <1>1 DEF NoOrder
  <2>2. calls[r].kind = "order"
    BY <1>1, <2>1 DEF Screens, CallsFit
  <2>3. calls[r] # NoCall
    BY <2>2 DEF NoCall
  <2> QED BY <2>1, <2>3 DEF Screens, CallsFit
<1>4. CallsFit'
  BY <1>3 DEF CallsFit, NothingAsked
<1> QED BY <1>2, <1>4

LEMMA OrderAnsweredScreens ==
  ASSUME IInv, Screens, NEW s \in Slots, OrderAnswered(s)
  PROVE  /\ Screens' /\ place = "checkOut" /\ sent[s].items = Items(cartProducts)
         /\ ClearWaits' /\ Ids(cartProducts)' = {}
<1>1. /\ Answered(s, "order") /\ queue' = Append(queue, ClearOp) /\ place' = "shop"
      /\ sent' = [sent EXCEPT ![s] = NoOrder] /\ cartProducts' = Empty
  BY DEF OrderAnswered, OrderReply, ClearCart, Give
<1>2. NothingAsked' /\ calls[s] # NoCall /\ calls[s].kind = "order"
  BY <1>1, AnsweredAlone DEF Screens, IInv, Types
<1>3. place = "checkOut" /\ sent[s].items = Items(cartProducts)
  BY <1>2 DEF Screens, CallsFit, AsksForCart, OrdersCart
<1>4. OrdersAre' /\ CallsFit'
  BY <1>1, <1>2, SentCleared
<1>5. ~Loading
  BY <1>2 DEF IInv, Order, QuietLoad
<1>6. queue \in Seq(OpType) /\ SameOps(queue, queue) /\ ClearOp.op = "clear"
  BY SameOpsReflexive DEF IInv, Types, ListsOK, ClearOp
<1>7. ClearWaits' /\ ~Loading'
  BY <1>1, <1>5, <1>6, QueueGiven
<1>8. PlacesFit' /\ Billed'
  BY <1>1, <1>7 DEF PlacesFit, Billed, OnTheWay
<1>9. Ids(cartProducts)' = {}
  BY <1>1, EmptyIsBounded
<1> QED BY <1>3, <1>4, <1>7, <1>8, <1>9 DEF Screens

LEMMA OrderNotAnsweredScreens ==
  ASSUME IInv, Screens, NEW s \in Slots, OrderNotAnswered(s)
  PROVE  Screens'
<1>1. /\ Answered(s, "order") /\ sent' = [sent EXCEPT ![s] = NoOrder]
      /\ UNCHANGED <<place, priced, queue, cartProducts, cartDetails>>
      /\ failed => failed'
  BY DEF OrderNotAnswered, OrderFailed, memory
<1>2. NothingAsked' /\ calls[s] # NoCall /\ calls[s].kind = "order"
  BY <1>1, AnsweredAlone DEF Screens, IInv, Types
<1>3. place = "checkOut"
  BY <1>2 DEF Screens, CallsFit, AsksForCart, OrdersCart
<1>4. OrdersAre' /\ CallsFit'
  BY <1>1, <1>2, SentCleared
<1>5. PlacesFit'
  <2>1. Awaited' = Awaited /\ Loading' = Loading /\ ClearWaits' = ClearWaits
    BY <1>1 DEF Awaited, Loading, ClearWaits
  <2> QED BY <1>1, <2>1 DEF PlacesFit, Screens
<1>6. Items(cartProducts)' = Items(cartProducts)
  BY <1>1
<1>7. Billed'
  BY <1>1, <1>3, <1>6 DEF Billed, OnTheWay, Screens
<1> QED BY <1>4, <1>5, <1>7 DEF Screens

LEMMA DeathScreens ==
  ASSUME Death
  PROVE  Screens'
<1>1. /\ DOMAIN queue' = {1} /\ queue'[1] = Load /\ calls' = [s \in Slots |-> NoCall]
      /\ sent' = [s \in Slots |-> NoOrder] /\ place' = "shop"
  BY DEF Death, Kill
<1>2. ~ClearWaits'
  BY <1>1 DEF ClearWaits, ToSet, ClearOp, Load
<1>3. OrdersAre' /\ CallsFit'
  BY <1>1 DEF OrdersAre, CallsFit, NoOrder
<1> QED BY <1>1, <1>2, <1>3 DEF Screens, PlacesFit, Billed, OnTheWay

LEMMA QuietScreens ==
  ASSUME Screens, UNCHANGED coVars
  PROVE  Screens'
<1>1. UNCHANGED <<cartProducts, editMood, dataUpdated, cartDetails, queue, calls, place, sent, priced, failed>>
  BY DEF coVars, vars, memory, history
<1>2. Awaited' = Awaited /\ Loading' = Loading /\ ClearWaits' = ClearWaits
  BY <1>1 DEF Awaited, Loading, ClearWaits
<1>3. Items(cartProducts)' = Items(cartProducts) /\ Ids(cartProducts)' = Ids(cartProducts)
  BY <1>1
<1>4. CallsFit'
  BY <1>1, <1>3 DEF Screens, CallsFit, AsksForCart, OrdersCart
<1>5. Billed'
  BY <1>1, <1>3 DEF Screens, Billed, OnTheWay, Clean, NothingAsked
<1> QED BY <1>1, <1>2, <1>4, <1>5 DEF Screens, OrdersAre, PlacesFit

LEMMA NextKeepsScreens ==
  ASSUME Patient, Careful, IInv, Waiting, Screens, [CONext]_coVars
  PROVE  Screens'
<1>1. CASE ServerStep
  BY <1>1, CartReplyScreens, OrderTakenScreens, OrderAnsweredScreens, OrderNotAnsweredScreens
     DEF ServerStep
<1> QED BY <1>1, MoveScreens, OrderButtonScreens, InShopScreens, InCartScreens,
           CheckOutScreenScreens, CartOpenedScreens, DatabaseScreens, DeathScreens,
           QuietScreens DEF CONext

(* The screens allow a careful user one request at a time, and the bill on   *)
(* the way to an order is of the cart.                                       *)
LEMMA CheckOutScreens == ASSUME Patient, Careful PROVE COSpec => [](IInv /\ Waiting /\ Screens)
<1>1. COInit => Screens
  BY InitScreens
<1>2. IInv /\ Waiting /\ Screens /\ [CONext]_coVars => Screens'
  BY NextKeepsScreens
<1> QED BY <1>1, <1>2, CheckOutWaiting, PTL DEF COSpec

(* The bill at the check out of a careful user is that of the items he is    *)
(* about to order, however he got there and whatever he changed on the way,  *)
(* unless an answer of the server was missing.                               *)
THEOREM BillIsOfTheCart == ASSUME Patient, Careful PROVE COSpec => []BillOfTheCart
<1>1. Screens => BillOfTheCart
  BY DEF Screens, Billed, BillOfTheCart
<1> QED BY <1>1, CheckOutScreens, PTL

-----------------------------------------------------------------------------
(* What has been ordered.  It is of the shop, and it is gone unless failed.  *)
Gone == ordered \subseteq Product /\ OrderedIsGone

LEMMA GoneStays ==
  ASSUME Gone, failed => failed', ClearWaits => ClearWaits' \/ Ids(table)' = {},
         \A p \in ordered' : /\ p \in ordered
                             /\ p \in Ids(cartProducts)' => p \in Ids(cartProducts)
                             /\ p \in Ids(table)' => p \in Ids(table)
  PROVE  Gone'
<1>1. ordered' \subseteq Product
  BY DEF Gone
<1>2. \A p : IsProductInCart(p) <=> p \in Ids(cartProducts)
  BY DEF IsProductInCart
<1>3. \A p : IsProductInCart(p)' <=> p \in Ids(cartProducts)'
  BY DEF IsProductInCart
<1> QED BY <1>1, <1>2, <1>3 DEF Gone, OrderedIsGone, ClearWaits

LEMMA DatabaseGone ==
  ASSUME IInv, Waiting, Screens, Gone, DatabaseStep
  PROVE  Gone'
<1>1. queue # <<>> /\ queue' = Tail(queue) /\ queue \in Seq(OpType) /\ failed' = failed
  <2>1. ExecLoad \/ ExecInsert \/ InsertFails \/ ExecQuantity \/ ExecDelete \/ ExecClear
    BY DEF DatabaseStep
  <2>2. queue # <<>> /\ queue' = Tail(queue)
    BY <2>1 DEF ExecLoad, ExecInsert, InsertFails, ExecQuantity, ExecDelete, ExecClear, Running
  <2> QED BY <2>2 DEF DatabaseStep, IInv, Types, ListsOK
<1>2. ClearWaits /\ Head(queue).op # "clear" => ClearWaits'
  BY <1>1, QueueRun DEF ClearOp
<1>3. CASE ExecLoad
  <2>1. Head(queue).op = "load" /\ ordered' = ordered /\ table' = table
    BY <1>3 DEF ExecLoad, ExecInsert, InsertFails, Running, DatabaseStep, ExecQuantity,
                ExecDelete, ExecClear
  <2>2. Loading
    <3>1. Head(queue) = queue[1] /\ 1 \in DOMAIN queue
      BY <1>1, AfterHead
    <3> QED BY <2>1, <3>1 DEF Loading
  <2>3. ~ClearWaits
    BY <2>2 DEF Screens, PlacesFit
  <2>4. Ids(cartProducts)' = Ids(table)
    <3>1. /\ DOMAIN cartProducts' = DOMAIN table
          /\ \A k \in DOMAIN table : cartProducts'[k].id = table[k].id
      BY <1>3 DEF ExecLoad, Recalculate, Item
    <3> QED BY <3>1 DEF Ids
  <2>5. Ids(table)' = Ids(table)
    BY <2>1 DEF Ids
  <2> QED BY <1>1, <2>1, <2>3, <2>4, <2>5 DEF Gone, OrderedIsGone, IsProductInCart, ClearWaits
<1>4. CASE ExecInsert /\ ordered' = ordered \ {Head(queue).item.id}
  <2>1. Head(queue).op = "insert"
    BY <1>4 DEF ExecInsert, Running
  <2>2. ordered' = ordered \ {Head(queue).item.id}
    BY <1>4
  <2>3. /\ Head(queue).row.id = Head(queue).item.id
        /\ Bounded(table, RowType) /\ Bounded(cartProducts, ItemType)
        /\ Head(queue).row \in RowType /\ Head(queue).item \in ItemType
    BY <1>4, ExecInsertRuns DEF IInv, Types, ListsOK
  <2>4. /\ Ids(Added(table, Head(queue).row)) = Ids(table) \cup {Head(queue).row.id}
        /\ Ids(Added(cartProducts, Head(queue).item)) = Ids(cartProducts) \cup {Head(queue).item.id}
    BY <2>3, AddedProperties
  <2>5. /\ Ids(table)' = Ids(table) \cup {Head(queue).row.id}
        /\ Ids(cartProducts)' = Ids(cartProducts) \cup {Head(queue).item.id}
    BY <1>4, <2>4 DEF ExecInsert, Recalculate, Ids
  <2> QED BY <1>1, <1>2, <2>1, <2>2, <2>3, <2>5, GoneStays
<1>5. CASE ExecQuantity \/ ExecDelete \/ ExecClear
  <2>1. ordered' = ordered /\ cartProducts' = cartProducts
    <3>1. ~ExecInsert
      BY <1>5 DEF ExecQuantity, ExecDelete, ExecClear, ExecInsert, Running
    <3> QED BY <1>5, <3>1 DEF DatabaseStep, ExecQuantity, ExecDelete, ExecClear, memory
  <2>2. Ids(cartProducts)' = Ids(cartProducts)
    BY <2>1
  <2>3. CASE ExecQuantity
    <3>1. /\ DOMAIN table' = DOMAIN table
          /\ \A k \in DOMAIN table : table'[k].id = table[k].id
      BY <2>3 DEF ExecQuantity, IInv, Types, ListsOK, Bounded, RowType
    <3>2. Ids(table)' = Ids(table) /\ Head(queue).op = "quantity"
      BY <2>3, <3>1 DEF Ids, ExecQuantity, Running
    <3> QED BY <1>1, <1>2, <2>1, <2>2, <3>2, GoneStays
  <2>4. CASE ExecDelete
    <3>1. /\ DOMAIN table' \subseteq DOMAIN table
          /\ \A k \in DOMAIN table' : table'[k] = table[k]
      BY <2>4 DEF ExecDelete, RestrictValues, Restrict
    <3>2. Ids(table)' \subseteq Ids(table) /\ Head(queue).op = "delete"
      BY <2>4, <3>1 DEF Ids, ExecDelete, Running
    <3> QED BY <1>1, <1>2, <2>1, <2>2, <3>2, GoneStays
  <2>5. CASE ExecClear
    <3>1. Ids(table)' = {}
      BY <2>5, EmptyIsBounded DEF ExecClear
    <3> QED BY <1>1, <2>1, <2>2, <3>1, GoneStays
  <2> QED BY <1>5, <2>3, <2>4, <2>5
<1>6. CASE InsertFails /\ ordered' = ordered
  <2>1. UNCHANGED <<cartProducts, table>> /\ Head(queue).op = "insert"
    BY <1>6 DEF InsertFails, Running, memory
  <2>2. Ids(cartProducts)' = Ids(cartProducts) /\ Ids(table)' = Ids(table)
    BY <2>1
  <2> QED BY <1>1, <1>2, <1>6, <2>1, <2>2, GoneStays
<1> QED BY <1>3, <1>4, <1>5, <1>6 DEF DatabaseStep

(* The server lists what it was asked about, and gifts.                      *)
LEMMA ListedIds ==
  ASSUME IInv, NEW s \in Slots, UpdateReply(s)
  PROVE  Ids(cartProducts)' \subseteq Ids(calls[s].items) \cup Gift
<1> DEFINE asked == calls[s].items
           Sold(kept) == [k \in DOMAIN RestrictValues(asked, LAMBDA i : i.id \in kept) |->
                            Listed(asked[k].id, asked[k].quantity, FALSE)]
<1>1. PICK kept \in SUBSET Ids(asked) :
        \/ cartProducts' = Sold(kept)
        \/ \E g \in GiftsOf(calls[s].vendor) :
             cartProducts' = Added(Sold(kept), Listed(g, 1, TRUE))
  <2>1. (IF ServerDrops THEN SUBSET Ids(asked) ELSE {Ids(asked)}) \subseteq SUBSET Ids(asked)
    OBVIOUS
  <2> QED BY <2>1 DEF UpdateReply, Recalculate
<1>2. Bounded(asked, [id : AnyProduct, quantity : Nat])
  <2>1. BoundedCall(calls[s]) /\ calls[s].kind = "update"
    BY DEF IInv, Types, CallsOK, UpdateReply, Answered
  <2> QED BY <2>1 DEF BoundedCall, NoCall
<1>3. \A p, q, gift : Listed(p, q, gift).id = p
  BY DEF Listed, Repriced, Item
<1>4. Ids(Sold(kept)) \subseteq Ids(asked)
  <2>1. DOMAIN Sold(kept) \subseteq DOMAIN asked
    BY DEF RestrictValues, Restrict
  <2>2. ASSUME NEW k \in DOMAIN Sold(kept) PROVE Sold(kept)[k].id = asked[k].id
    <3>1. Sold(kept)[k] = Listed(asked[k].id, asked[k].quantity, FALSE)
      OBVIOUS
    <3>2. Listed(asked[k].id, asked[k].quantity, FALSE).id = asked[k].id
      BY DEF Listed, Repriced, Item
    <3> HIDE DEF Sold
    <3> QED BY <3>1, <3>2
  <2> HIDE DEF Sold
  <2> QED BY <2>1, <2>2 DEF Ids
<1>5. Bounded(Sold(kept), ItemType)
  <2>1. DOMAIN Sold(kept) \subseteq DOMAIN asked
    BY DEF RestrictValues, Restrict
  <2>2. Sold(kept) = [k \in DOMAIN Sold(kept) |-> Listed(asked[k].id, asked[k].quantity, FALSE)]
    OBVIOUS
  <2> HIDE DEF Sold
  <2> QED BY <1>2, <2>1, <2>2, SoldIsBounded
<1> HIDE DEF Sold, asked
<1>6. ASSUME NEW g \in GiftsOf(calls[s].vendor)
      PROVE  Ids(Added(Sold(kept), Listed(g, 1, TRUE))) = Ids(Sold(kept)) \cup {g}
  <2>1. g \in AnyProduct
    BY DEF GiftsOf, AnyProduct
  <2>2. Item(g, 0, 0, TRUE, 0) \in ItemType
    BY <2>1, ItemIsItem
  <2>3. Listed(g, 1, TRUE) \in ItemType
    BY <2>2, RepricedType DEF Listed
  <2>4. PICK list, item : list = Sold(kept) /\ item = Listed(g, 1, TRUE)
    OBVIOUS
  <2>a. Bounded(list, ItemType) /\ item \in ItemType
    BY <1>5, <2>3, <2>4
  <2>b. Ids(Added(list, item)) = Ids(list) \cup {item.id}
    BY <2>a, AddedProperties
  <2>5. Listed(g, 1, TRUE).id = g
    BY DEF Listed, Repriced, Item
  <2> QED BY <2>4, <2>b, <2>5
<1>7. Ids(cartProducts') \subseteq Ids(asked) \cup Gift
  <2>1. CASE cartProducts' = Sold(kept)
    BY <1>4, <2>1
  <2>2. ASSUME NEW g \in GiftsOf(calls[s].vendor), cartProducts' = Added(Sold(kept), Listed(g, 1, TRUE))
        PROVE  Ids(cartProducts') \subseteq Ids(asked) \cup Gift
    BY <1>4, <1>6, <2>2 DEF GiftsOf
  <2> QED BY <1>1, <2>1, <2>2
<1> QED BY <1>7 DEF Ids, asked

LEMMA NextKeepsGone ==
  ASSUME Patient, Careful, Product \cap Gift = {},
         IInv, Waiting, Screens, Gone, [CONext]_coVars
  PROVE  Gone'
<1>1. CASE UNCHANGED <<cartProducts, table, queue, ordered>> /\ (failed => failed')
  <2>1. ClearWaits' = ClearWaits /\ Ids(cartProducts)' = Ids(cartProducts) /\ Ids(table)' = Ids(table)
    BY <1>1 DEF ClearWaits
  <2> QED BY <1>1, <2>1, GoneStays
<1>2. CASE InShop \/ InCart
  <2>1. UNCHANGED <<ordered, failed>> /\ (ClearWaits => ClearWaits')
    BY <1>2, InShopScreens, InCartScreens DEF InShop, InCart
  <2>2. User
    BY <1>2 DEF InShop, InCart, User
  <2>3. table' = table
    <3>1. CASE InShop
      BY <3>1 DEF InShop, OpenSheet, ChangeQuantity, SetValues, CloseSheet, AddToCart, AddRefused,
                  DialogClear, DialogClose
    <3>2. CASE InCart
      BY <3>2 DEF InCart, DeleteFromCart, ChangeQuantity, ToggleEdit
    <3> QED BY <1>2, <3>1, <3>2
  <2>4. Ids(table)' = Ids(table)
    BY <2>3
  <2> QED BY <2>1, <2>2, <2>4, UserShowsNothingNew, GoneStays
<1>3. CASE Move \/ OrderButton \/ CartOpened \/ OnCheckOutScreen
  <2>1. UNCHANGED <<ordered, failed>>
    BY <1>3 DEF Move, OrderButton, CartOpened, OnCheckOutScreen, history
  <2>2. UNCHANGED vars \/ AskServer \/ PlaceOrder
    BY <1>3 DEF Move, OrderButton, CartOpened, OnCheckOutScreen
  <2>3. UNCHANGED <<cartProducts, table, queue>>
    BY <2>2 DEF vars, memory, AskServer, PlaceOrder
  <2> QED BY <1>1, <2>1, <2>3
<1>4. ASSUME NEW s \in Slots, CartReply(s) PROVE Gone'
  <2>1. UNCHANGED <<table, queue, ordered>> /\ (failed => failed')
    <3>1. UpdateReply(s) \/ UpdateFailed(s) => UNCHANGED <<table, queue>>
      BY DEF UpdateReply, UpdateFailed
    <3>2. UNCHANGED ordered /\ (failed => failed')
      BY <1>4 DEF CartReply
    <3> QED BY <1>4, <3>1, <3>2 DEF CartReply
  <2>2. CASE UpdateFailed(s)
    BY <1>1, <2>1, <2>2 DEF UpdateFailed, memory
  <2>3. CASE UpdateReply(s)
    <3>1. Ids(calls[s].items) \subseteq Ids(cartProducts)
      <4>1. Answered(s, "update")
        BY <2>3 DEF UpdateReply
      <4>2. calls[s].kind = "update" /\ calls[s] # NoCall
        BY <4>1 DEF Answered, NoCall
      <4> QED BY <4>2 DEF Screens, CallsFit, AsksForCart, OrdersCart
    <3>2. \A p \in ordered : p \in Ids(cartProducts)' => p \in Ids(cartProducts)
      BY <2>3, <3>1, ListedIds DEF Gone
    <3>3. ClearWaits' = ClearWaits /\ Ids(table)' = Ids(table)
      BY <2>1 DEF ClearWaits
    <3> QED BY <2>1, <3>2, <3>3, GoneStays
  <2> QED BY <1>4, <2>2, <2>3 DEF CartReply
<1>5. ASSUME NEW s \in Slots, OrderTaken(s) PROVE Gone'
  BY <1>1, <1>5 DEF OrderTaken, vars, memory, history
<1>6. ASSUME NEW s \in Slots, OrderNotAnswered(s) PROVE Gone'
  BY <1>1, <1>6 DEF OrderNotAnswered, OrderFailed, memory
<1>7. ASSUME NEW s \in Slots, OrderAnswered(s) PROVE Gone'
  <2>1. ClearWaits' /\ Ids(cartProducts)' = {}
    BY <1>7, OrderAnsweredScreens
  <2>2. ordered' \subseteq Product
    BY <1>7 DEF OrderAnswered, Gone
  <2>3. \A p : ~IsProductInCart(p)'
    BY <2>1 DEF IsProductInCart
  <2> QED BY <2>1, <2>2, <2>3 DEF Gone, OrderedIsGone, ClearWaits
<1>8. CASE Death
  <2>1. /\ cartProducts' = Empty /\ UNCHANGED <<table, ordered>>
        /\ ~failed' => ~failed /\ ~ClearWaits
    BY <1>8 DEF Death, Kill, ClearWaits
  <2>2. \A p : ~IsProductInCart(p)'
    BY <2>1, EmptyIsBounded DEF IsProductInCart
  <2>3. Ids(table)' = Ids(table)
    BY <2>1
  <2> QED BY <2>1, <2>2, <2>3 DEF Gone, OrderedIsGone, ClearWaits
<1>9. CASE UNCHANGED coVars
  BY <1>1, <1>9 DEF coVars, vars, memory, history
<1> QED BY <1>2, <1>3, <1>4, <1>5, <1>6, <1>7, <1>8, <1>9, DatabaseGone DEF CONext, ServerStep

(* What a patient and careful user has ordered is gone from his cart, and no *)
(* later start brings it back, unless the answer to the order was lost or    *)
(* the process died before the table was cleared.  A gift must not be a      *)
(* product of the shop: the server may list it again.                        *)
THEOREM OrderedStaysGone ==
  ASSUME Patient, Careful, Product \cap Gift = {}
  PROVE  COSpec => []OrderedIsGone
<1>1. COInit => Gone
  BY DEF COInit, Gone, OrderedIsGone
<1>2. IInv /\ Waiting /\ Screens /\ Gone /\ [CONext]_coVars => Gone'
  BY NextKeepsGone
<1>3. Gone => OrderedIsGone
  BY DEF Gone
<1> QED BY <1>1, <1>2, <1>3, CheckOutScreens, PTL DEF COSpec

-----------------------------------------------------------------------------
(* On the way to an order.                                                   *)
LEMMA EmptiedByOrder ==
  ASSUME Patient, Careful, IInv, Waiting, Screens, [CONext]_coVars, OnTheWay, Emptied
  PROVE  \/ kills' # kills
         \/ \E s \in Slots : OrderDone(s) /\ sent[s].items = Items(cartProducts)
<1>1. cartProducts' # cartProducts
  BY DEF Emptied
<1>2. place \in {"addresses", "checkOut"} /\ ~Awaited
  BY DEF OnTheWay, Screens, PlacesFit
<1>3. ~InShop /\ ~InCart
  BY <1>2 DEF InShop, InCart
<1>4. ~(Move \/ OrderButton \/ CartOpened \/ OnCheckOutScreen)
  <2> SUFFICES ASSUME Move \/ OrderButton \/ CartOpened \/ OnCheckOutScreen
               PROVE  UNCHANGED cartProducts
    BY <1>1
  <2>1. UNCHANGED vars \/ AskServer \/ PlaceOrder
    BY DEF Move, OrderButton, CartOpened, OnCheckOutScreen
  <2> QED BY <2>1 DEF vars, memory, AskServer, PlaceOrder
<1>5. ~DatabaseStep
  <2> SUFFICES ASSUME DatabaseStep PROVE FALSE
    OBVIOUS
  <2>1. CASE ExecLoad \/ ExecInsert \/ InsertFails
    <3>1. queue # <<>> /\ queue \in Seq(OpType) /\ Head(queue).op \in {"load", "insert"}
      BY <2>1 DEF ExecLoad, ExecInsert, InsertFails, Running, IInv, Types, ListsOK
    <3>2. Head(queue) = queue[1] /\ 1 \in DOMAIN queue
      BY <3>1
    <3> QED BY <1>2, <3>1, <3>2 DEF Awaited
  <2>2. CASE ExecQuantity \/ ExecDelete \/ ExecClear
    BY <1>1, <2>2 DEF ExecQuantity, ExecDelete, ExecClear, memory
  <2> QED BY <2>1, <2>2 DEF DatabaseStep
<1>6. \A s \in Slots : ~CartReply(s)
  BY <1>2, CartReplyScreens
<1>7. \A s \in Slots : ~OrderTaken(s) /\ ~OrderNotAnswered(s)
  BY <1>1 DEF OrderTaken, OrderNotAnswered, OrderFailed, vars, memory
<1>8. ASSUME NEW s \in Slots, OrderAnswered(s)
      PROVE  OrderDone(s) /\ sent[s].items = Items(cartProducts)
  <2>1. sent[s].items = Items(cartProducts)
    BY <1>8, OrderAnsweredScreens
  <2>2. sent[s].accepted /\ sent' = [sent EXCEPT ![s] = NoOrder] /\ DOMAIN sent = Slots
    BY <1>8 DEF OrderAnswered, Screens, OrdersAre
  <2>3. sent'[s].accepted = FALSE
    BY <2>2 DEF NoOrder
  <2> QED BY <2>1, <2>2, <2>3 DEF OrderDone
<1>9. ~UNCHANGED coVars
  BY <1>1 DEF coVars, vars, memory
<1>10. CASE Death
  BY <1>10 DEF Death, Kill, IInv, Types, FlagsOK
<1> QED BY <1>3, <1>4, <1>5, <1>6, <1>7, <1>8, <1>9, <1>10 DEF CONext, ServerStep

(* On the way to an order nothing empties the cart but a death and the order *)
(* of just its items: nothing is lost that was not ordered.                  *)
THEOREM OnlyTheOrderEmpties == ASSUME Patient, Careful PROVE COSpec => OnlyOrdersEmpty
<1>1. IInv /\ Waiting /\ Screens /\ [CONext]_coVars =>
        (OnTheWay /\ Emptied =>
           \/ kills' # kills
           \/ \E s \in Slots : OrderDone(s) /\ sent[s].items = Items(cartProducts))
  BY EmptiedByOrder
<1> QED BY <1>1, CheckOutScreens, PTL DEF COSpec, OnlyOrdersEmpty
=============================================================================
