----------------------------- MODULE CartProofs -----------------------------
(***************************************************************************)
(* Proofs about the cart, for every catalogue and every bound.  Of every   *)
(* user: the types, that the first load of the table overwrites nothing,   *)
(* and that no row of the table outlives its item.  Of the patient user,   *)
(* who while the first load or an add is under way leaves the sheet alone, *)
(* so that at most one item is on its way to the cart and no object is     *)
(* there twice: the sums.  Of the patient guest, whom no answer of the     *)
(* server can overtake: one shop, no product twice, the shipping of it.    *)
(***************************************************************************)
EXTENDS Cart, FiniteSetTheorems, WellFoundedInduction, TLAPS

-----------------------------------------------------------------------------
(* Lists: functions from positions below some bound.                         *)
Bounded(list, T) == /\ \E n \in Nat : DOMAIN list \subseteq 1 .. n
                    /\ list \in [DOMAIN list -> T]

(* A set of naturals that is not empty has a least element.                  *)
LEMMA LeastNatural ==
  ASSUME NEW S \in SUBSET Nat, S # {}
  PROVE  \E x \in S : \A y \in S : x <= y
<1>1. PICK x \in S : \A y \in S : ~ (<<y, x>> \in OpToRel(<, Nat))
  BY NatLessThanWellFounded, WFMin
<1>2. \A y \in S : ~ (y < x)
  BY <1>1 DEF OpToRel
<1> QED BY <1>2

(* The first position of a list that is not empty is one of its positions.   *)
LEMMA MinOfPositions ==
  ASSUME NEW S \in SUBSET Nat, S # {}
  PROVE  Min(S) \in S
<1>1. PICK x \in S : \A y \in S : x <= y
  BY LeastNatural
<1> QED BY <1>1 DEF Min

(* A bounded set of positions has a last one.                                *)
LEMMA MaxOfPositions ==
  ASSUME NEW n \in Nat, NEW S \in SUBSET (1 .. n), S # {}
  PROVE  /\ Max(S) \in S
         /\ \A y \in S : y <= Max(S)
<1> DEFINE Above == {m \in Nat : S \subseteq 1 .. m}
<1>1. PICK m \in Above : \A k \in Above : m <= k
  <2>1. n \in Above /\ Above \in SUBSET Nat
    OBVIOUS
  <2> QED BY <2>1, LeastNatural
<1>2. m \in S
  <2> SUFFICES ASSUME m \notin S PROVE FALSE
    OBVIOUS
  <2>1. m # 0
    <3>1. ASSUME m = 0 PROVE S = {}
      BY <1>1, <3>1
    <3> QED BY <3>1
  <2>2. S \subseteq 1 .. (m - 1)
    BY <1>1
  <2>3. m - 1 \in Above
    BY <1>1, <2>1, <2>2
  <2> QED BY <1>1, <2>3
<1>3. \A y \in S : y <= m /\ y \in Int
  BY <1>1
<1> QED BY <1>2, <1>3 DEF Max

LEMMA BoundedIsFinite ==
  ASSUME NEW T, NEW list, Bounded(list, T)
  PROVE  IsFiniteSet(DOMAIN list)
<1>1. PICK n \in Nat : DOMAIN list \subseteq 1 .. n
  BY DEF Bounded
<1>2. \A k \in DOMAIN list : k <= n
  BY <1>1
<1>3. DOMAIN list \in SUBSET Nat
  BY <1>1
<1> QED BY <1>2, <1>3, FS_BoundedSetOfNaturals

(* A bounded list is a list: its domain is finite.                           *)
LEMMA BoundedIsList ==
  ASSUME NEW T, NEW list, Bounded(list, T)
  PROVE  IsList(list, T)
<1>1. IsFiniteSet(DOMAIN list)
  BY BoundedIsFinite
<1>2. PICK n \in Nat : DOMAIN list \subseteq 1 .. n
  BY DEF Bounded
<1> QED BY <1>1, <1>2 DEF Bounded, IsList

LEMMA EmptyHasNoPositions ==
  ASSUME NEW T, NEW list, Bounded(list, T)
  PROVE  list = Empty <=> DOMAIN list = {}
<1>1. CASE DOMAIN list = {}
  BY <1>1 DEF Bounded, Empty
<1>2. CASE DOMAIN list # {}
  BY <1>2 DEF Empty
<1> QED BY <1>1, <1>2

LEMMA LastPositionIsLast ==
  ASSUME NEW T, NEW list, Bounded(list, T)
  PROVE  /\ LastPosition(list) \in Nat
         /\ \A k \in DOMAIN list : k \in Nat /\ k <= LastPosition(list)
<1>1. PICK n \in Nat : DOMAIN list \subseteq 1 .. n
  BY DEF Bounded
<1>2. CASE DOMAIN list = {}
  <2>1. list = Empty
    BY <1>2 DEF Bounded, Empty
  <2> QED BY <1>2, <2>1 DEF LastPosition
<1>3. CASE DOMAIN list # {}
  <2>1. list # Empty
    BY <1>3 DEF Empty
  <2>2. /\ Max(DOMAIN list) \in DOMAIN list
        /\ \A y \in DOMAIN list : y <= Max(DOMAIN list)
    BY <1>1, <1>3, MaxOfPositions
  <2> QED BY <1>1, <2>1, <2>2 DEF LastPosition
<1> QED BY <1>2, <1>3

(* Adding at the end keeps a list a list and every entry in its place.       *)
LEMMA AddedProperties ==
  ASSUME NEW T, NEW list, Bounded(list, T), NEW e \in T
  PROVE  /\ Bounded(Added(list, e), T)
         /\ Ids(Added(list, e)) = Ids(list) \cup {e.id}
         /\ Added(list, e) # Empty
<1> DEFINE new == LastPosition(list) + 1
<1>1. PICK n \in Nat : DOMAIN list \subseteq 1 .. n
  BY DEF Bounded
<1>2. /\ new \in Nat \ {0}
      /\ new \notin DOMAIN list
      /\ DOMAIN list \cup {new} \subseteq 1 .. new
  BY <1>1, LastPositionIsLast
<1>3. /\ DOMAIN Added(list, e) = DOMAIN list \cup {new}
      /\ \A k \in DOMAIN list : Added(list, e)[k] = list[k]
      /\ Added(list, e)[new] = e
  BY <1>2 DEF Added
<1>4. Added(list, e) \in [DOMAIN Added(list, e) -> T]
  <2>1. \A k \in DOMAIN list : list[k] \in T
    BY DEF Bounded
  <2> QED BY <2>1 DEF Added
<1>5. \E m \in Nat : DOMAIN Added(list, e) \subseteq 1 .. m
  BY <1>2, <1>3
<1>6. Ids(Added(list, e)) = Ids(list) \cup {e.id}
  BY <1>3 DEF Ids
<1>7. Added(list, e) # Empty
  BY <1>3 DEF Empty
<1> QED BY <1>4, <1>5, <1>6, <1>7 DEF Bounded

(* A part of a list, and a list with entries changed in place, are lists.    *)
LEMMA SameOrFewerPositions ==
  ASSUME NEW T, NEW U, NEW list, Bounded(list, T),
         NEW other, DOMAIN other \subseteq DOMAIN list,
         other \in [DOMAIN other -> U]
  PROVE  Bounded(other, U)
  BY DEF Bounded

LEMMA EmptyIsBounded ==
  ASSUME NEW T
  PROVE  Bounded(Empty, T) /\ Ids(Empty) = {} /\ DOMAIN Empty = {}
<1>1. DOMAIN Empty = {}
  BY DEF Empty
<1>2. Empty \in [{} -> T]
  BY DEF Empty
<1> QED BY <1>1, <1>2 DEF Bounded, Ids

-----------------------------------------------------------------------------
(* The inductive invariant.  Types, with lists bounded instead of finite:    *)
BoundedCall(c) ==
  \/ c \in {NoCall} \cup [kind : {"order"}]
  \/ c \in [kind : {"coupon"}, hasDiscount : BOOLEAN]
  \/ /\ c = [kind |-> "update", vendor |-> c.vendor, items |-> c.items]
     /\ c.vendor \in Vendors
     /\ Bounded(c.items, [id : AnyProduct, quantity : Nat])

FlagsOK == /\ isLoading \in BOOLEAN /\ dataUpdated \in BOOLEAN
           /\ editMood \in BOOLEAN /\ dialog \in BOOLEAN
           /\ cartDetails \in {"none", "plain", "discount"}
           /\ userCoupon \in {"none", "with_offer", "no_offer"}
           /\ vendorShipping \in {NoShip} \cup Vendors
           /\ sheets \in Nat /\ kills \in Nat
ListsOK == /\ Bounded(cartProducts, ItemType)
           /\ Bounded(table, RowType)
           /\ sheet \in ItemType \cup {NoSheet}
           /\ queue \in Seq(OpType)
CallsOK == DOMAIN calls = Slots /\ \A s \in Slots : BoundedCall(calls[s])

(* A waiting insert writes the row of the item it will add;                  *)
RowOfItem == \A k \in DOMAIN queue :
               queue[k].op = "insert" => queue[k].row.id = queue[k].item.id
(* and while the first load waits no request is in flight: all of them need  *)
(* something in the cart.  A reply could otherwise fill it before the load.  *)
QuietLoad == Loading => \A s \in Slots : calls[s] = NoCall

Types == FlagsOK /\ ListsOK /\ CallsOK
Order == RowOfItem /\ QuietLoad /\ LoadComesFirst /\ NoGhostRows
IInv == Types /\ Order

LEMMA TypesImplyTypeOK == Types => TypeOK
<1> SUFFICES ASSUME Types PROVE TypeOK
  OBVIOUS
<1>1. IsList(cartProducts, ItemType) /\ IsList(table, RowType)
  BY BoundedIsList DEF Types, ListsOK
<1>2. ASSUME NEW s \in Slots PROVE IsCall(calls[s])
  BY BoundedIsList DEF Types, CallsOK, BoundedCall, IsCall
<1> QED BY <1>1, <1>2 DEF Types, FlagsOK, ListsOK, CallsOK, TypeOK

LEMMA InitIInv == Init => IInv
<1> SUFFICES ASSUME Init PROVE IInv
  OBVIOUS
<1>1. FlagsOK
  BY DEF Init, FlagsOK
<1>2. ListsOK
  BY EmptyIsBounded DEF Init, ListsOK, Load, OpType
<1>3. CallsOK
  BY DEF Init, CallsOK, BoundedCall
<1>4. Order
  BY DEF Init, Order, RowOfItem, QuietLoad, LoadComesFirst, NoGhostRows, Loading, Load
<1> QED BY <1>1, <1>2, <1>3, <1>4 DEF IInv, Types

-----------------------------------------------------------------------------
(* What the helpers return.                                                  *)
LEMMA RepricedType ==
  ASSUME NEW item \in ItemType, NEW q \in Nat
  PROVE  Repriced(item, q) \in ItemType /\ Repriced(item, q).id = item.id
<1>1. UnitPrice[item.id] \in Nat
  BY CatalogueAssumption DEF ItemType, AnyProduct
<1>2. q * UnitPrice[item.id] \in Nat
  BY <1>1
<1> QED BY <1>2 DEF Repriced, ItemType

LEMMA ItemIsItem ==
  ASSUME NEW p \in AnyProduct, NEW q \in Nat, NEW price \in Nat,
         NEW gift \in BOOLEAN, NEW tag \in Nat
  PROVE  Item(p, q, price, gift, tag) \in ItemType
  BY DEF Item, ItemType

(* Changing quantities in place keeps the list and the products in it.       *)
LEMMA RepricingKeepsIds ==
  ASSUME NEW list, Bounded(list, ItemType), NEW q \in Nat,
         NEW new, new = [k \in DOMAIN list |-> new[k]],
         \A k \in DOMAIN list : new[k] \in {list[k], Repriced(list[k], q)}
  PROVE  Bounded(new, ItemType) /\ Ids(new) = Ids(list)
<1>1. \A k \in DOMAIN list : list[k] \in ItemType
  BY DEF Bounded
<1>2. \A k \in DOMAIN list : new[k] \in ItemType /\ new[k].id = list[k].id
  BY <1>1, RepricedType
<1>3. new \in [DOMAIN new -> ItemType]
  BY <1>2
<1> QED BY <1>2, <1>3, SameOrFewerPositions DEF Ids

(* Changing the items of pending inserts changes nothing else in the queue.  *)
SameOps(q1, q2) ==
  /\ Len(q1) = Len(q2)
  /\ \A k \in 1 .. Len(q1) : /\ q1[k].op = q2[k].op
                             /\ q1[k].op # "insert" => q1[k] = q2[k]
                             /\ q1[k].op = "insert" =>
                                  /\ q1[k].row = q2[k].row
                                  /\ q1[k].item.id = q2[k].item.id

LEMMA TouchPendingProperties ==
  ASSUME queue \in Seq(OpType), NEW tag \in Nat, NEW q \in Nat
  PROVE  /\ TouchPending(tag, q) \in Seq(OpType)
         /\ SameOps(queue, TouchPending(tag, q))
<1> DEFINE touched == TouchPending(tag, q)
<1>1. ASSUME NEW k \in DOMAIN queue
      PROVE  /\ touched[k] \in OpType
             /\ touched[k].op = queue[k].op
             /\ queue[k].op # "insert" => touched[k] = queue[k]
             /\ queue[k].op = "insert" => /\ touched[k].row = queue[k].row
                                          /\ touched[k].item.id = queue[k].item.id
  <2>1. queue[k] \in OpType
    OBVIOUS
  <2>2. CASE queue[k].op = "insert"
    <3>1. /\ queue[k].item \in ItemType
          /\ queue[k] \in [op : {"insert"}, row : RowType, item : ItemType]
      BY <2>1, <2>2 DEF OpType
    <3>2. /\ Repriced(queue[k].item, q) \in ItemType
          /\ Repriced(queue[k].item, q).id = queue[k].item.id
      BY <3>1, RepricedType
    <3> QED BY <2>2, <3>1, <3>2 DEF TouchPending, OpType
  <2>3. CASE queue[k].op # "insert"
    BY <2>1, <2>3 DEF TouchPending
  <2> QED BY <2>2, <2>3
<1>2. touched \in [1 .. Len(queue) -> OpType]
  <2>1. DOMAIN queue = 1 .. Len(queue)
    OBVIOUS
  <2>2. touched = [k \in DOMAIN queue |-> touched[k]]
    BY DEF TouchPending
  <2> HIDE DEF touched
  <2> QED BY <1>1, <2>1, <2>2
<1>3. touched \in Seq(OpType) /\ Len(touched) = Len(queue)
  <2> HIDE DEF touched
  <2> QED BY <1>2
<1> QED BY <1>1, <1>3 DEF SameOps

LEMMA SameOpsReflexive ==
  ASSUME queue \in Seq(OpType)
  PROVE  SameOps(queue, queue)
  BY DEF SameOps

LEMMA CallKeepsCallsOK ==
  ASSUME CallsOK, NEW c, BoundedCall(c), Call(c)
  PROVE  CallsOK'
<1>1. PICK s \in Slots : calls' = [calls EXCEPT ![s] = c]
  BY DEF Call
<1>2. \A r \in Slots : calls'[r] = c \/ calls'[r] = calls[r]
  BY <1>1 DEF CallsOK
<1>3. DOMAIN calls' = Slots
  BY <1>1 DEF CallsOK
<1> QED BY <1>2, <1>3 DEF CallsOK

LEMMA AnsweredProperties ==
  ASSUME CallsOK, NEW s \in Slots, NEW kind, Answered(s, kind)
  PROVE  /\ CallsOK'
         /\ \A r \in Slots : calls'[r] \in {calls[r], NoCall}
         /\ kind # "none" => calls[s] # NoCall
<1>1. calls' = [calls EXCEPT ![s] = NoCall]
  BY DEF Answered
<1>2. \A r \in Slots : calls'[r] \in {calls[r], NoCall}
  BY <1>1 DEF CallsOK
<1>3. DOMAIN calls' = Slots
  BY <1>1 DEF CallsOK
<1>4. BoundedCall(NoCall)
  BY DEF BoundedCall
<1>5. kind # "none" => calls[s] # NoCall
  BY DEF Answered, NoCall
<1> QED BY <1>2, <1>3, <1>4, <1>5 DEF CallsOK

LEMMA UpdateCallBounded ==
  ASSUME ListsOK, cartProducts # Empty
  PROVE  BoundedCall([kind |-> "update", vendor |-> VendorOfCart,
                      items |-> [k \in DOMAIN Paid |->
                                   [id |-> Paid[k].id, quantity |-> Paid[k].quantity]]])
<1> DEFINE sent == [k \in DOMAIN Paid |->
                      [id |-> Paid[k].id, quantity |-> Paid[k].quantity]]
<1>1. /\ DOMAIN Paid \subseteq DOMAIN cartProducts
      /\ \A k \in DOMAIN Paid : Paid[k] = cartProducts[k]
  BY DEF Paid, RestrictValues, Restrict
<1>2. \A k \in DOMAIN cartProducts : cartProducts[k] \in ItemType
  BY DEF ListsOK, Bounded
<1>3. Bounded(sent, [id : AnyProduct, quantity : Nat])
  <2>1. DOMAIN sent = DOMAIN Paid
    OBVIOUS
  <2>2. sent \in [DOMAIN sent -> [id : AnyProduct, quantity : Nat]]
    BY <1>1, <1>2 DEF ItemType
  <2> HIDE DEF sent
  <2> QED BY <1>1, <2>1, <2>2, SameOrFewerPositions DEF ListsOK
<1>4. VendorOfCart \in Vendors
  <2>0. Bounded(cartProducts, ItemType)
    BY DEF ListsOK
  <2>1. DOMAIN cartProducts # {}
    BY <2>0, EmptyHasNoPositions
  <2>2. DOMAIN cartProducts \in SUBSET Nat
    BY DEF ListsOK, Bounded
  <2>3. Min(DOMAIN cartProducts) \in DOMAIN cartProducts
    BY <2>1, <2>2, MinOfPositions
  <2> QED BY <1>2, <2>3 DEF VendorOfCart, Vendors, ItemType
<1> QED BY <1>3, <1>4 DEF BoundedCall

(* updateCartData asks only when there is something in the cart.             *)
LEMMA UpdateCartDataProperties ==
  ASSUME ListsOK, CallsOK, isLoading \in BOOLEAN, UpdateCartData
  PROVE  /\ CallsOK' /\ isLoading' \in BOOLEAN
         /\ cartProducts = Empty => calls' = calls
<1>1. CASE cartProducts = Empty
  BY <1>1 DEF UpdateCartData, CallsOK
<1>2. CASE cartProducts # Empty
  BY <1>2, UpdateCallBounded, CallKeepsCallsOK DEF UpdateCartData
<1> QED BY <1>1, <1>2

-----------------------------------------------------------------------------
(* What keeps the order of things.                                           *)

(* Steps that leave cart, table and queue alone and start requests only from *)
(* a cart that is not empty.                                                 *)
LEMMA OrderFrame ==
  ASSUME Order, CallsOK,
         UNCHANGED <<cartProducts, dataUpdated, table, queue>>,
         \/ cartProducts # Empty
         \/ \A s \in Slots : calls'[s] \in {calls[s], NoCall}
  PROVE  Order'
  BY DEF Order, RowOfItem, QuietLoad, LoadComesFirst, NoGhostRows, Loading, Doomed,
         IsProductInCart, Ids

(* Steps that only replace items of the cart, in it and on their way to it.  *)
LEMMA OrderTouch ==
  ASSUME Order, queue \in Seq(OpType), queue' \in Seq(OpType), SameOps(queue, queue'),
         UNCHANGED <<dataUpdated, table, calls>>,
         Ids(cartProducts') = Ids(cartProducts),
         cartProducts = Empty => cartProducts' = Empty
  PROVE  Order'
<1>1. DOMAIN queue = DOMAIN queue' /\ DOMAIN queue = 1 .. Len(queue)
  BY DEF SameOps
<1>2. RowOfItem'
  BY <1>1 DEF Order, RowOfItem, SameOps
<1>3. Loading' = Loading
  BY <1>1 DEF Loading, SameOps
<1>4. QuietLoad'
  BY <1>3 DEF Order, QuietLoad
<1>5. LoadComesFirst'
  <2> SUFFICES ASSUME Loading PROVE LoadComesFirst'
    BY <1>3 DEF LoadComesFirst
  <2>1. Len(queue) > 0
    BY <1>1 DEF Loading
  <2>2. Head(queue) = queue[1] /\ Head(queue') = queue'[1]
    BY <1>1, <2>1 DEF SameOps
  <2> QED BY <1>1, <2>1, <2>2 DEF Order, LoadComesFirst, SameOps
<1>6. \A p : Doomed(p) => Doomed(p)'
  BY <1>1 DEF Doomed, SameOps, DeleteOp, ClearOp
<1>7. NoGhostRows'
  BY <1>3, <1>6 DEF Order, NoGhostRows, IsProductInCart
<1> QED BY <1>2, <1>4, <1>5, <1>7 DEF Order

(* Steps that give the database an operation that is not a load: what leaves *)
(* the cart must be what that operation removes.                             *)
LEMMA OrderGive ==
  ASSUME Order, queue \in Seq(OpType), NEW q2 \in Seq(OpType), SameOps(queue, q2),
         NEW o \in OpType, o.op # "load", o.op = "insert" => o.row.id = o.item.id,
         queue' = Append(q2, o), table' = table,
         \A s \in Slots : calls'[s] \in {calls[s], NoCall},
         cartProducts = Empty => cartProducts' = Empty,
         ~dataUpdated' => \A k \in DOMAIN table :
            \/ o \in {DeleteOp(table[k].id), ClearOp}
            \/ ~dataUpdated /\ (IsProductInCart(table[k].id) => IsProductInCart(table[k].id)')
  PROVE  Order'
<1>1. /\ DOMAIN queue = 1 .. Len(queue)
      /\ DOMAIN queue' = 1 .. Len(queue) + 1
      /\ Len(queue') = Len(queue) + 1
      /\ \A k \in DOMAIN queue : queue'[k] = q2[k]
      /\ queue'[Len(queue) + 1] = o
      /\ Len(queue) \in Nat
  BY DEF SameOps
<1>2. RowOfItem'
  BY <1>1 DEF Order, RowOfItem, SameOps
<1>3. Loading' = Loading
  BY <1>1 DEF Loading, SameOps
<1>4. QuietLoad'
  BY <1>3 DEF Order, QuietLoad
<1>5. LoadComesFirst'
  <2> SUFFICES ASSUME Loading PROVE LoadComesFirst'
    BY <1>3 DEF LoadComesFirst
  <2>1. Len(queue) > 0
    BY <1>1 DEF Loading
  <2>2. Head(queue) = queue[1] /\ Head(queue') = queue'[1]
    BY <1>1, <2>1
  <2> QED BY <1>1, <2>1, <2>2 DEF Order, LoadComesFirst, SameOps
<1>6. \A p : Doomed(p) => Doomed(p)'
  BY <1>1 DEF Doomed, SameOps, DeleteOp, ClearOp
<1>7. \A p : o \in {DeleteOp(p), ClearOp} => Doomed(p)'
  BY <1>1 DEF Doomed
<1>8. NoGhostRows'
  BY <1>3, <1>6, <1>7 DEF Order, NoGhostRows
<1> QED BY <1>2, <1>4, <1>5, <1>8 DEF Order

(* What is left of the queue when its head has run.                          *)
LEMMA AfterHead ==
  ASSUME queue \in Seq(OpType), queue # <<>>, queue' = Tail(queue)
  PROVE  /\ queue' \in Seq(OpType)
         /\ Head(queue) = queue[1] /\ Head(queue) \in OpType
         /\ 1 \in DOMAIN queue
         /\ DOMAIN queue = 1 .. Len(queue)
         /\ Len(queue) \in Nat
         /\ DOMAIN queue' = 1 .. Len(queue) - 1
         /\ \A k \in DOMAIN queue' : k + 1 \in DOMAIN queue /\ queue'[k] = queue[k + 1]
         /\ \A k \in DOMAIN queue : k # 1 => k - 1 \in DOMAIN queue' /\ queue'[k - 1] = queue[k]
  OBVIOUS

(* Steps of the database other than the load: every row that is left must    *)
(* have been there before and not be the one removed, or be in the cart.     *)
LEMMA OrderRun ==
  ASSUME Order, queue \in Seq(OpType), queue # <<>>, queue' = Tail(queue),
         Head(queue).op # "load", calls' = calls, dataUpdated' = dataUpdated,
         Ids(cartProducts) \subseteq Ids(cartProducts'),
         \A p \in Ids(table)' :
            \/ p \in Ids(cartProducts)'
            \/ p \in Ids(table) /\ Head(queue) \notin {DeleteOp(p), ClearOp}
  PROVE  Order'
<1>1. ~Loading
  BY DEF Order, LoadComesFirst
<1>2. ~Loading'
  BY <1>1, AfterHead DEF Loading
<1>3. RowOfItem'
  BY AfterHead DEF Order, RowOfItem
<1>4. ASSUME NEW p, Doomed(p), Head(queue) \notin {DeleteOp(p), ClearOp}
      PROVE  Doomed(p)'
  <2>1. PICK k \in DOMAIN queue : queue[k] \in {DeleteOp(p), ClearOp}
    BY <1>4 DEF Doomed
  <2>2. k # 1
    BY <1>4, <2>1, AfterHead
  <2> QED BY <2>1, <2>2, AfterHead DEF Doomed
<1>5. NoGhostRows'
  <2>1. ASSUME ~dataUpdated, NEW p \in Ids(table)'
        PROVE  p \in Ids(cartProducts)' \/ Doomed(p)'
    <3>1. CASE p \in Ids(table) /\ Head(queue) \notin {DeleteOp(p), ClearOp}
      <4>1. p \in Ids(cartProducts) \/ Doomed(p)
        BY <1>1, <2>1, <3>1 DEF Order, NoGhostRows, Ids, IsProductInCart
      <4> QED BY <1>4, <3>1, <4>1
    <3> QED BY <3>1
  <2> QED BY <2>1 DEF NoGhostRows, Ids, IsProductInCart
<1> QED BY <1>2, <1>3, <1>5 DEF Order, QuietLoad, LoadComesFirst

-----------------------------------------------------------------------------
(* Every step keeps the invariant.  First those of the sheet and its dialog. *)
LEMMA OpenSheetKeeps ==
  ASSUME IInv, NEW p \in Product, OpenSheet(p)
  PROVE  IInv'
<1>1. FlagsOK'
  BY DEF IInv, Types, FlagsOK, OpenSheet, memory
<1>2. ListsOK'
  <2>1. sheet' \in ItemType
    <3>1. p \in AnyProduct /\ sheets' \in Nat
      BY DEF IInv, Types, FlagsOK, OpenSheet, AnyProduct
    <3> QED BY <3>1, ItemIsItem DEF OpenSheet
  <2> QED BY <2>1 DEF IInv, Types, ListsOK, OpenSheet, memory
<1>3. CallsOK'
  BY DEF IInv, Types, CallsOK, OpenSheet
<1>4. Order'
  <2>1. UNCHANGED <<cartProducts, dataUpdated, table, queue, calls>>
    BY DEF OpenSheet, memory
  <2> QED BY <2>1, OrderFrame DEF IInv, Types
<1> QED BY <1>1, <1>2, <1>3, <1>4 DEF IInv, Types

LEMMA ScreenKeeps ==
  ASSUME IInv, CloseSheet \/ AddRefused \/ DialogClose
  PROVE  IInv'
<1>1. UNCHANGED <<memory, sheets, table, queue, calls, kills>>
  BY DEF CloseSheet, AddRefused, DialogClose
<1>2. sheet' \in {sheet, NoSheet} /\ dialog' \in BOOLEAN
  BY DEF CloseSheet, AddRefused, DialogClose, IInv, Types, FlagsOK
<1>3. Types'
  BY <1>1, <1>2 DEF IInv, Types, FlagsOK, ListsOK, CallsOK, memory
<1>4. Order'
  BY <1>1, OrderFrame DEF IInv, Types, memory
<1> QED BY <1>3, <1>4 DEF IInv

LEMMA SetValuesKeeps ==
  ASSUME IInv, NEW q \in 1 .. MaxQty, SetValues(q)
  PROVE  IInv'
<1>1. q \in Nat /\ sheet \in ItemType /\ sheet.tag \in Nat
  <2>1. q \in Nat
    BY BoundAssumption
  <2>2. sheet \in ItemType
    BY DEF SetValues, IInv, Types, ListsOK
  <2> QED BY <2>1, <2>2 DEF ItemType
<1>2. /\ Bounded(cartProducts', ItemType)
      /\ Ids(cartProducts') = Ids(cartProducts)
      /\ cartProducts = Empty => cartProducts' = Empty
  <2>1. Bounded(cartProducts, ItemType)
    BY DEF IInv, Types, ListsOK
  <2>2. /\ cartProducts' = [k \in DOMAIN cartProducts |-> cartProducts'[k]]
        /\ \A k \in DOMAIN cartProducts :
             cartProducts'[k] \in {cartProducts[k], Repriced(cartProducts[k], q)}
    BY DEF SetValues
  <2>3. Bounded(cartProducts', ItemType) /\ Ids(cartProducts') = Ids(cartProducts)
    BY <1>1, <2>1, <2>2, RepricingKeepsIds
  <2>4. DOMAIN cartProducts' = DOMAIN cartProducts
    BY <2>2
  <2> QED BY <2>1, <2>3, <2>4, EmptyHasNoPositions
<1>3. queue' \in Seq(OpType) /\ SameOps(queue, queue')
  BY <1>1, TouchPendingProperties DEF SetValues, IInv, Types, ListsOK
<1>4. sheet' \in ItemType
  BY <1>1, RepricedType DEF SetValues
<1>5. Types'
  BY <1>2, <1>3, <1>4 DEF SetValues, IInv, Types, FlagsOK, ListsOK, CallsOK
<1>6. Order'
  BY <1>2, <1>3, OrderTouch DEF SetValues, IInv, Types, ListsOK
<1> QED BY <1>5, <1>6 DEF IInv

LEMMA AddToCartKeeps ==
  ASSUME IInv, AddToCart
  PROVE  IInv'
<1>1. PICK ship \in {VendorOf[sheet.id], NoShip} :
        /\ vendorShipping' \in {ship, vendorShipping}
        /\ Give(InsertOp([id |-> sheet.id, quantity |-> sheet.quantity,
                          totalPrice |-> sheet.totalPrice, ship |-> ship], sheet))
  BY DEF AddToCart, ShippingAfterAdd
<1> DEFINE row == [id |-> sheet.id, quantity |-> sheet.quantity,
                   totalPrice |-> sheet.totalPrice, ship |-> ship]
           o == InsertOp(row, sheet)
<1>2. sheet \in ItemType
  BY DEF AddToCart, CanTapAdd, ButtonIsLive, IInv, Types, ListsOK
<1>3. ship \in {NoShip} \cup Vendors
  BY <1>2 DEF Vendors, ItemType
<1>4. o \in OpType /\ o.op = "insert" /\ o.row.id = o.item.id
  BY <1>2, <1>3 DEF InsertOp, OpType, RowType, ItemType
<1>5. UNCHANGED <<cartProducts, dataUpdated, table, calls>>
  BY DEF AddToCart
<1> HIDE DEF o
<1>6. queue' = Append(queue, o) /\ queue' \in Seq(OpType)
  BY <1>1, <1>4 DEF Give, o, IInv, Types, ListsOK
<1>7. Types'
  BY <1>1, <1>3, <1>6 DEF AddToCart, screen, IInv, Types, FlagsOK, ListsOK, CallsOK
<1>8. Order'
  <2>1. Order /\ queue \in Seq(OpType) /\ SameOps(queue, queue)
    BY SameOpsReflexive DEF IInv, Types, ListsOK
  <2>2. \A s \in Slots : calls'[s] \in {calls[s], NoCall}
    BY <1>5
  <2>3. \A k \in DOMAIN table :
          IsProductInCart(table[k].id) => IsProductInCart(table[k].id)'
    BY <1>5 DEF IsProductInCart
  <2> QED BY <1>4, <1>5, <1>6, <2>1, <2>2, <2>3, OrderGive
<1> QED BY <1>7, <1>8 DEF IInv

(* Clearing dooms every row at once.  This also serves the accepted order.   *)
LEMMA ClearCartKeeps ==
  ASSUME IInv, ClearCart, CallsOK',
         \A s \in Slots : calls'[s] \in {calls[s], NoCall},
         dialog' = FALSE, sheet' \in {sheet, NoSheet}, UNCHANGED <<sheets, table, kills>>
  PROVE  IInv'
<1>1. ClearOp \in OpType /\ ClearOp.op = "clear"
  BY DEF ClearOp, OpType
<1>2. queue' = Append(queue, ClearOp) /\ queue' \in Seq(OpType)
  BY <1>1 DEF ClearCart, Give, IInv, Types, ListsOK
<1>3. Bounded(cartProducts', ItemType)
  BY EmptyIsBounded DEF ClearCart
<1>4. Types'
  BY <1>2, <1>3 DEF ClearCart, IInv, Types, FlagsOK, ListsOK
<1>5. Order'
  <2>1. Order /\ queue \in Seq(OpType) /\ SameOps(queue, queue)
    BY SameOpsReflexive DEF IInv, Types, ListsOK
  <2>2. cartProducts' = Empty
    BY DEF ClearCart
  <2>3. \A k \in DOMAIN table : ClearOp \in {DeleteOp(table[k].id), ClearOp}
    OBVIOUS
  <2>4. ClearOp.op # "load" /\ ClearOp.op # "insert"
    BY <1>1
  <2> QED BY <1>1, <1>2, <2>1, <2>2, <2>3, <2>4, OrderGive
<1> QED BY <1>4, <1>5 DEF IInv

LEMMA DialogClearKeeps ==
  ASSUME IInv, DialogClear
  PROVE  IInv'
<1>1. /\ ClearCart /\ dialog' = FALSE
      /\ UNCHANGED <<sheet, sheets, table, calls, kills>>
  BY DEF DialogClear
<1>2. CallsOK'
  BY <1>1 DEF IInv, Types, CallsOK
<1> QED BY <1>1, <1>2, ClearCartKeeps

LEMMA ChangeQuantityKeeps ==
  ASSUME IInv, NEW p \in Product \cup Gift, NEW q \in 1 .. MaxQty, ChangeQuantity(p, q)
  PROVE  IInv'
<1>1. PICK f \in DOMAIN cartProducts :
        /\ Recalculate([k \in DOMAIN cartProducts |->
             IF k = f \/ SameObject(cartProducts[k], cartProducts[f])
             THEN Repriced(cartProducts[k], q) ELSE cartProducts[k]])
        /\ queue' = Append(TouchPending(cartProducts[f].tag, q), QuantityOp(p, q))
  BY DEF ChangeQuantity
<1> DEFINE touched == TouchPending(cartProducts[f].tag, q)
<1>2. q \in Nat /\ cartProducts[f] \in ItemType /\ cartProducts[f].tag \in Nat
  <2>1. q \in Nat
    BY BoundAssumption
  <2>2. cartProducts[f] \in ItemType
    BY DEF IInv, Types, ListsOK, Bounded
  <2> QED BY <2>1, <2>2 DEF ItemType
<1>3. Bounded(cartProducts', ItemType) /\ Ids(cartProducts') = Ids(cartProducts)
  <2>1. Bounded(cartProducts, ItemType)
    BY DEF IInv, Types, ListsOK
  <2>2. /\ cartProducts' = [k \in DOMAIN cartProducts |-> cartProducts'[k]]
        /\ \A k \in DOMAIN cartProducts :
             cartProducts'[k] \in {cartProducts[k], Repriced(cartProducts[k], q)}
    BY <1>1 DEF Recalculate
  <2> QED BY <1>2, <2>1, <2>2, RepricingKeepsIds
<1>4. touched \in Seq(OpType) /\ SameOps(queue, touched)
  BY <1>2, TouchPendingProperties DEF IInv, Types, ListsOK
<1>5. QuantityOp(p, q) \in OpType /\ QuantityOp(p, q).op = "quantity"
  BY <1>2 DEF QuantityOp, OpType, AnyProduct
<1> HIDE DEF touched
<1>6. queue' = Append(touched, QuantityOp(p, q)) /\ queue' \in Seq(OpType)
  BY <1>1, <1>4, <1>5 DEF touched
<1>7. UNCHANGED <<dataUpdated, table, calls>>
  BY DEF ChangeQuantity
<1>8. Types'
  BY <1>3, <1>6 DEF ChangeQuantity, screen, IInv, Types, FlagsOK, ListsOK, CallsOK
<1>9. Order'
  <2>1. Order /\ queue \in Seq(OpType)
    BY DEF IInv, Types, ListsOK
  <2>2. \A s \in Slots : calls'[s] \in {calls[s], NoCall}
    BY <1>7
  <2>3. cartProducts # Empty
    BY EmptyIsBounded
  <2>4. \A k \in DOMAIN table :
          IsProductInCart(table[k].id) => IsProductInCart(table[k].id)'
    BY <1>3, <1>7 DEF IsProductInCart
  <2>5. QuantityOp(p, q).op # "load" /\ QuantityOp(p, q).op # "insert"
    BY <1>5
  <2> QED BY <1>4, <1>5, <1>6, <1>7, <2>1, <2>2, <2>3, <2>4, <2>5, OrderGive
<1> QED BY <1>8, <1>9 DEF IInv

(* Only items of the deleted product leave the cart, and their rows are      *)
(* doomed.                                                                   *)
LEMMA DeleteFromCartKeeps ==
  ASSUME IInv, NEW p \in Product, DeleteFromCart(p)
  PROVE  IInv'
<1>1. PICK f \in DOMAIN cartProducts :
        IsFirst(f, p) /\ cartProducts' = Restrict(cartProducts, DOMAIN cartProducts \ {f})
  BY DEF DeleteFromCart, Recalculate
<1>2. /\ DOMAIN cartProducts' = DOMAIN cartProducts \ {f}
      /\ \A k \in DOMAIN cartProducts' : cartProducts'[k] = cartProducts[k]
      /\ cartProducts' = [k \in DOMAIN cartProducts' |-> cartProducts'[k]]
  BY <1>1 DEF Restrict
<1>3. Bounded(cartProducts', ItemType)
  <2>1. Bounded(cartProducts, ItemType) /\ \A k \in DOMAIN cartProducts : cartProducts[k] \in ItemType
    BY DEF IInv, Types, ListsOK, Bounded
  <2>2. cartProducts' \in [DOMAIN cartProducts' -> ItemType]
    BY <1>2, <2>1
  <2> QED BY <1>2, <2>1, <2>2, SameOrFewerPositions
<1>4. ASSUME NEW r \in Ids(cartProducts), r # p
      PROVE  r \in Ids(cartProducts')
  <2>1. PICK k \in DOMAIN cartProducts : r = cartProducts[k].id
    BY DEF Ids
  <2>2. k # f
    BY <1>1, <1>4, <2>1 DEF IsFirst
  <2>3. k \in DOMAIN cartProducts' /\ r = cartProducts'[k].id
    BY <1>2, <2>1, <2>2
  <2> QED BY <2>3 DEF Ids
<1>5. DeleteOp(p) \in OpType /\ DeleteOp(p).op = "delete"
  BY DEF DeleteOp, OpType, AnyProduct
<1>6. queue' = Append(queue, DeleteOp(p)) /\ queue' \in Seq(OpType)
  BY <1>5 DEF DeleteFromCart, Give, IInv, Types, ListsOK
<1>7. UNCHANGED <<dataUpdated, table, calls>>
  BY DEF DeleteFromCart
<1>8. Types'
  BY <1>3, <1>6 DEF DeleteFromCart, screen, IInv, Types, FlagsOK, ListsOK, CallsOK
<1>9. Order'
  <2>1. Order /\ queue \in Seq(OpType) /\ SameOps(queue, queue)
    BY SameOpsReflexive DEF IInv, Types, ListsOK
  <2>2. \A s \in Slots : calls'[s] \in {calls[s], NoCall}
    BY <1>7
  <2>3. cartProducts # Empty
    BY EmptyIsBounded
  <2>4. \A k \in DOMAIN table :
          \/ DeleteOp(p) \in {DeleteOp(table[k].id), ClearOp}
          \/ IsProductInCart(table[k].id) => IsProductInCart(table[k].id)'
    BY <1>4, <1>7 DEF IsProductInCart, DeleteOp
  <2>5. DeleteOp(p).op # "load" /\ DeleteOp(p).op # "insert"
    BY <1>5
  <2> QED BY <1>5, <1>6, <1>7, <2>1, <2>2, <2>3, <2>4, <2>5, OrderGive
<1> QED BY <1>8, <1>9 DEF IInv

(* Requests start only from a cart that is not empty.                        *)
LEMMA AskKeeps ==
  ASSUME IInv, AskServer \/ ToggleEdit
  PROVE  IInv'
<1>1. UNCHANGED <<cartProducts, dataUpdated, cartTotalPrices, totalPoints,
                  cartDetails, userCoupon, vendorShipping, screen, table, queue, kills>>
  BY DEF AskServer, ToggleEdit
<1>2. UpdateCartData \/ UNCHANGED <<isLoading, calls>>
  BY DEF AskServer, ToggleEdit
<1>3. editMood' \in BOOLEAN
  BY DEF AskServer, ToggleEdit, IInv, Types, FlagsOK
<1>4. /\ CallsOK' /\ isLoading' \in BOOLEAN
      /\ cartProducts = Empty => calls' = calls
  <2>1. ListsOK /\ CallsOK /\ isLoading \in BOOLEAN
    BY DEF IInv, Types, FlagsOK
  <2>2. CASE UpdateCartData
    BY <2>1, <2>2, UpdateCartDataProperties
  <2>3. CASE UNCHANGED <<isLoading, calls>>
    BY <2>1, <2>3 DEF CallsOK
  <2> QED BY <1>2, <2>2, <2>3
<1>5. Types'
  BY <1>1, <1>3, <1>4 DEF screen, IInv, Types, FlagsOK, ListsOK
<1>6. Order'
  BY <1>1, <1>4, OrderFrame DEF IInv, Types
<1> QED BY <1>5, <1>6 DEF IInv

LEMMA CheckOutKeeps ==
  ASSUME IInv, ActivateCoupon \/ PlaceOrder
  PROVE  IInv'
<1>1. PICK c : Call(c) /\ BoundedCall(c)
  <2>1. CASE ActivateCoupon
    <3>1. Call([kind |-> "coupon", hasDiscount |-> HasDiscount])
      BY <2>1 DEF ActivateCoupon
    <3>2. BoundedCall([kind |-> "coupon", hasDiscount |-> HasDiscount])
      BY DEF BoundedCall, HasDiscount
    <3> QED BY <3>1, <3>2
  <2>2. CASE PlaceOrder
    <3>1. Call([kind |-> "order"])
      BY <2>2 DEF PlaceOrder
    <3>2. BoundedCall([kind |-> "order"])
      BY DEF BoundedCall
    <3> QED BY <3>1, <3>2
  <2> QED BY <2>1, <2>2
<1>2. /\ UNCHANGED <<memory, screen, table, queue, kills>>
      /\ cartProducts # Empty
  BY DEF ActivateCoupon, PlaceOrder, OnCheckOut
<1>3. CallsOK'
  BY <1>1, CallKeepsCallsOK DEF IInv, Types
<1>4. Types'
  BY <1>2, <1>3 DEF memory, screen, IInv, Types, FlagsOK, ListsOK
<1>5. Order'
  BY <1>2, OrderFrame DEF memory, IInv, Types
<1> QED BY <1>4, <1>5 DEF IInv

(* Replies that leave the list alone.                                        *)
LEMMA PlainReplyKeeps ==
  ASSUME IInv, NEW s \in Slots, UpdateFailed(s) \/ CouponReply(s) \/ OrderFailed(s)
  PROVE  IInv'
<1>1. PICK kind : Answered(s, kind)
  BY DEF UpdateFailed, CouponReply, OrderFailed
<1>2. /\ UNCHANGED <<cartProducts, isLoading, dataUpdated, editMood, cartDetails,
                      vendorShipping, screen, table, queue, kills>>
      /\ userCoupon' \in {"none", "with_offer", "no_offer"}
  BY DEF UpdateFailed, CouponReply, OrderFailed, memory, IInv, Types, FlagsOK
<1>3. CallsOK' /\ \A r \in Slots : calls'[r] \in {calls[r], NoCall}
  BY <1>1, AnsweredProperties DEF IInv, Types
<1>4. Types'
  BY <1>2, <1>3 DEF screen, IInv, Types, FlagsOK, ListsOK
<1>5. Order'
  BY <1>2, <1>3, OrderFrame DEF IInv, Types
<1> QED BY <1>4, <1>5 DEF IInv

LEMMA OrderReplyKeeps ==
  ASSUME IInv, NEW s \in Slots, OrderReply(s)
  PROVE  IInv'
<1>1. /\ Answered(s, "order") /\ ClearCart
      /\ dialog' = FALSE /\ sheet' = NoSheet
      /\ UNCHANGED <<sheets, table, kills>>
  BY DEF OrderReply
<1>2. CallsOK' /\ \A r \in Slots : calls'[r] \in {calls[r], NoCall}
  BY <1>1, AnsweredProperties DEF IInv, Types
<1> QED BY <1>1, <1>2, ClearCartKeeps

(* What the server keeps of a list it was sent, as new items.                *)
LEMMA SoldIsBounded ==
  ASSUME NEW asked, Bounded(asked, [id : AnyProduct, quantity : Nat]),
         NEW sold, DOMAIN sold \subseteq DOMAIN asked,
         sold = [k \in DOMAIN sold |-> Listed(asked[k].id, asked[k].quantity, FALSE)]
  PROVE  Bounded(sold, ItemType)
<1>1. ASSUME NEW k \in DOMAIN sold PROVE sold[k] \in ItemType
  <2>1. asked[k].id \in AnyProduct /\ asked[k].quantity \in Nat
    BY DEF Bounded
  <2>2. Item(asked[k].id, 0, 0, FALSE, 0) \in ItemType
    BY <2>1, ItemIsItem
  <2>3. sold[k] = Listed(asked[k].id, asked[k].quantity, FALSE)
    OBVIOUS
  <2> QED BY <2>1, <2>2, <2>3, RepricedType DEF Listed
<1>2. sold \in [DOMAIN sold -> ItemType]
  BY <1>1
<1> QED BY <1>2, SameOrFewerPositions

LEMMA UpdateReplyKeeps ==
  ASSUME IInv, NEW s \in Slots, UpdateReply(s)
  PROVE  IInv'
<1> DEFINE asked == calls[s].items
           Sold(kept) == [k \in DOMAIN RestrictValues(asked, LAMBDA i : i.id \in kept) |->
                            Listed(asked[k].id, asked[k].quantity, FALSE)]
<1>1. /\ Answered(s, "update") /\ calls[s].kind = "update"
      /\ isLoading' = FALSE /\ editMood' = FALSE /\ dataUpdated' = TRUE
      /\ UNCHANGED <<userCoupon, vendorShipping, screen, table, queue, kills>>
  BY DEF UpdateReply, Answered, Confirmed
<1>2. PICK kept \in SUBSET Ids(asked) :
        /\ \/ cartProducts' = Sold(kept)
           \/ \E g \in GiftsOf(calls[s].vendor) :
                cartProducts' = Added(Sold(kept), Listed(g, 1, TRUE))
        /\ cartDetails' \in {"plain", "discount"}
  <2>1. (IF ServerDrops THEN SUBSET Ids(asked) ELSE {Ids(asked)}) \subseteq SUBSET Ids(asked)
    OBVIOUS
  <2> QED BY <2>1 DEF UpdateReply, Recalculate, Confirmed
<1>3. Bounded(asked, [id : AnyProduct, quantity : Nat])
  <2>1. BoundedCall(calls[s])
    BY DEF IInv, Types, CallsOK
  <2> QED BY <1>1, <2>1 DEF BoundedCall, NoCall
<1>4. Bounded(Sold(kept), ItemType)
  <2>1. DOMAIN Sold(kept) \subseteq DOMAIN asked
    BY DEF RestrictValues, Restrict
  <2>2. Sold(kept) = [k \in DOMAIN Sold(kept) |-> Listed(asked[k].id, asked[k].quantity, FALSE)]
    OBVIOUS
  <2> HIDE DEF Sold
  <2> QED BY <1>3, <2>1, <2>2, SoldIsBounded
<1>5. ASSUME NEW g \in GiftsOf(calls[s].vendor)
      PROVE  Bounded(Added(Sold(kept), Listed(g, 1, TRUE)), ItemType)
  <2>1. g \in AnyProduct
    BY DEF GiftsOf, AnyProduct
  <2>2. Item(g, 0, 0, TRUE, 0) \in ItemType
    BY <2>1, ItemIsItem
  <2>3. Listed(g, 1, TRUE) \in ItemType
    BY <2>2, RepricedType DEF Listed
  <2> HIDE DEF Sold
  <2> QED BY <1>4, <2>3, AddedProperties
<1>6. Bounded(cartProducts', ItemType)
  <2> HIDE DEF Sold
  <2> QED BY <1>2, <1>4, <1>5
<1>7. CallsOK' /\ calls[s] # NoCall
  BY <1>1, AnsweredProperties DEF IInv, Types
<1>8. Types'
  BY <1>1, <1>2, <1>6, <1>7 DEF screen, IInv, Types, FlagsOK, ListsOK
<1>9. Order'
  <2>1. ~Loading
    BY <1>7 DEF IInv, Order, QuietLoad
  <2>2. ~Loading'
    BY <1>1, <2>1 DEF Loading
  <2>3. RowOfItem'
    BY <1>1 DEF IInv, Order, RowOfItem
  <2> QED BY <1>1, <2>2, <2>3 DEF Order, QuietLoad, LoadComesFirst, NoGhostRows
<1> QED BY <1>8, <1>9 DEF IInv

-----------------------------------------------------------------------------
(* The steps of the database, and the death of the process.                  *)
LEMMA ExecLoadKeeps ==
  ASSUME IInv, ExecLoad
  PROVE  IInv'
<1>1. /\ queue # <<>> /\ Head(queue).op = "load" /\ queue' = Tail(queue)
      /\ UNCHANGED <<dataUpdated, editMood, cartDetails, userCoupon, screen, table, calls, kills>>
      /\ isLoading' = FALSE
  BY DEF ExecLoad, Running
<1>2. queue \in Seq(OpType) /\ Bounded(table, RowType)
  BY DEF IInv, Types, ListsOK
<1>3. /\ DOMAIN cartProducts' = DOMAIN table
      /\ \A k \in DOMAIN table : cartProducts'[k] =
           Item(table[k].id, table[k].quantity, table[k].totalPrice, FALSE, 0)
      /\ cartProducts' = [k \in DOMAIN cartProducts' |-> cartProducts'[k]]
  BY DEF ExecLoad, Recalculate
<1>4. \A k \in DOMAIN table : cartProducts'[k] \in ItemType /\ cartProducts'[k].id = table[k].id
  <2>1. ASSUME NEW k \in DOMAIN table
        PROVE  cartProducts'[k] \in ItemType /\ cartProducts'[k].id = table[k].id
    <3>1. table[k] \in RowType
      BY <1>2 DEF Bounded
    <3>2. Item(table[k].id, table[k].quantity, table[k].totalPrice, FALSE, 0) \in ItemType
      BY <3>1, ItemIsItem DEF RowType
    <3>3. Item(table[k].id, table[k].quantity, table[k].totalPrice, FALSE, 0).id = table[k].id
      BY DEF Item
    <3>4. cartProducts'[k] = Item(table[k].id, table[k].quantity, table[k].totalPrice, FALSE, 0)
      BY <1>3
    <3> QED BY <3>2, <3>3, <3>4
  <2> QED BY <2>1
<1>5. Bounded(cartProducts', ItemType)
  <2>1. cartProducts' \in [DOMAIN cartProducts' -> ItemType]
    BY <1>3, <1>4
  <2> QED BY <1>2, <1>3, <2>1, SameOrFewerPositions
<1>6. vendorShipping' \in {NoShip} \cup Vendors
  <2>1. CASE table = Empty
    BY <2>1 DEF ExecLoad, StoredShipping, IInv, Types, FlagsOK
  <2>2. CASE table # Empty
    <3>1. DOMAIN table # {} /\ DOMAIN table \in SUBSET Nat
      <4>1. DOMAIN table # {}
        BY <1>2, <2>2, EmptyHasNoPositions
      <4> QED BY <1>2, <4>1 DEF Bounded
    <3>2. Min(DOMAIN table) \in DOMAIN table
      BY <3>1, MinOfPositions
    <3>3. table[Min(DOMAIN table)] \in RowType
      BY <1>2, <3>2 DEF Bounded
    <3> QED BY <2>2, <3>3 DEF ExecLoad, StoredShipping, RowType
  <2> QED BY <2>1, <2>2
<1>7. queue' \in Seq(OpType)
  BY <1>1, <1>2, AfterHead
<1>8. Types'
  BY <1>1, <1>5, <1>6, <1>7 DEF screen, IInv, Types, FlagsOK, ListsOK, CallsOK
<1>9. Order'
  <2>1. Loading
    BY <1>1, <1>2, AfterHead DEF Loading
  <2>2. ~Loading'
    BY <1>1, <1>2, <2>1, AfterHead DEF Loading, IInv, Order, LoadComesFirst
  <2>3. RowOfItem'
    BY <1>1, <1>2, AfterHead DEF IInv, Order, RowOfItem
  <2>4. NoGhostRows'
    BY <1>1, <1>3, <1>4 DEF NoGhostRows, IsProductInCart, Ids
  <2> QED BY <2>2, <2>3, <2>4 DEF Order, QuietLoad, LoadComesFirst
<1> QED BY <1>8, <1>9 DEF IInv

(* The row written and the item shown are of the same product.               *)
LEMMA ExecInsertProperties ==
  ASSUME IInv, ExecInsert
  PROVE  /\ Bounded(cartProducts', ItemType) /\ Bounded(table', RowType)
         /\ \E p : /\ Ids(cartProducts)' = Ids(cartProducts) \cup {p}
                  /\ Ids(table)' = Ids(table) \cup {p}
<1>1. queue # <<>> /\ Head(queue).op = "insert" /\ queue \in Seq(OpType)
  BY DEF ExecInsert, Running, IInv, Types, ListsOK
<1>2. Head(queue) \in OpType /\ Head(queue).row.id = Head(queue).item.id
  <2>1. Head(queue) = queue[1] /\ 1 \in DOMAIN queue /\ queue[1] \in OpType
    BY <1>1
  <2> QED BY <1>1, <2>1 DEF IInv, Order, RowOfItem
<1>3. Head(queue).row \in RowType /\ Head(queue).item \in ItemType
  BY <1>1, <1>2 DEF OpType
<1>4. /\ cartProducts' = Added(cartProducts, Head(queue).item)
      /\ table' = Added(table, Head(queue).row)
  BY DEF ExecInsert, Recalculate
<1>5. Bounded(cartProducts, ItemType) /\ Bounded(table, RowType)
  BY DEF IInv, Types, ListsOK
<1>6. /\ Bounded(Added(cartProducts, Head(queue).item), ItemType)
      /\ Ids(Added(cartProducts, Head(queue).item)) = Ids(cartProducts) \cup {Head(queue).item.id}
  BY <1>3, <1>5, AddedProperties
<1>7. /\ Bounded(Added(table, Head(queue).row), RowType)
      /\ Ids(Added(table, Head(queue).row)) = Ids(table) \cup {Head(queue).row.id}
  BY <1>3, <1>5, AddedProperties
<1> QED BY <1>2, <1>4, <1>6, <1>7

LEMMA ExecInsertKeeps ==
  ASSUME IInv, ExecInsert
  PROVE  IInv'
<1>1. /\ queue # <<>> /\ Head(queue).op = "insert" /\ queue' = Tail(queue)
      /\ sheet' \in {sheet, NoSheet} /\ dialog' = FALSE
      /\ UNCHANGED <<isLoading, dataUpdated, editMood, cartDetails, userCoupon,
                     vendorShipping, sheets, calls, kills>>
  BY DEF ExecInsert, Running
<1>2. queue \in Seq(OpType) /\ queue' \in Seq(OpType)
  BY <1>1, AfterHead DEF IInv, Types, ListsOK
<1>3. Types'
  BY <1>1, <1>2, ExecInsertProperties DEF IInv, Types, FlagsOK, ListsOK, CallsOK
<1>4. Order'
  <2>1. PICK p : /\ Ids(cartProducts)' = Ids(cartProducts) \cup {p}
                 /\ Ids(table)' = Ids(table) \cup {p}
    BY ExecInsertProperties
  <2>2. \A r : Head(queue) \notin {DeleteOp(r), ClearOp}
    BY <1>1 DEF DeleteOp, ClearOp
  <2> QED BY <1>1, <1>2, <2>1, <2>2, OrderRun DEF IInv
<1> QED BY <1>3, <1>4 DEF IInv

(* The operations that change or remove rows, and the insert that adds none. *)
LEMMA ExecRowsKeeps ==
  ASSUME IInv, InsertFails \/ ExecQuantity \/ ExecDelete \/ ExecClear
  PROVE  IInv'
<1>1. /\ queue # <<>> /\ Head(queue).op \in {"insert", "quantity", "delete", "clear"}
      /\ queue' = Tail(queue) /\ queue \in Seq(OpType)
      /\ UNCHANGED <<memory, screen, calls, kills>>
  BY DEF InsertFails, ExecQuantity, ExecDelete, ExecClear, Running, IInv, Types, ListsOK
<1>2. queue' \in Seq(OpType) /\ Head(queue) \in OpType
  BY <1>1, AfterHead
<1>3. Bounded(table, RowType)
  BY DEF IInv, Types, ListsOK
<1>4. /\ Bounded(table', RowType)
      /\ \A p \in Ids(table)' : p \in Ids(table) /\ Head(queue) \notin {DeleteOp(p), ClearOp}
  <2>1. CASE ExecQuantity
    <3>1. Head(queue) \in [op : {"quantity"}, id : AnyProduct, quantity : Nat]
      BY <1>2, <2>1 DEF ExecQuantity, Running, OpType
    <3>2. /\ DOMAIN table' = DOMAIN table
          /\ table' = [k \in DOMAIN table' |-> table'[k]]
          /\ \A k \in DOMAIN table :
               table'[k] \in {table[k], [table[k] EXCEPT !.quantity = Head(queue).quantity]}
      BY <2>1 DEF ExecQuantity
    <3>3. \A k \in DOMAIN table : table'[k] \in RowType /\ table'[k].id = table[k].id
      BY <1>3, <3>1, <3>2 DEF Bounded, RowType
    <3>4. table' \in [DOMAIN table' -> RowType]
      BY <3>2, <3>3
    <3>5. Ids(table)' = Ids(table)
      BY <3>2, <3>3 DEF Ids
    <3>6. \A p : Head(queue) \notin {DeleteOp(p), ClearOp}
      BY <3>1 DEF DeleteOp, ClearOp
    <3> QED BY <1>3, <3>2, <3>4, <3>5, <3>6, SameOrFewerPositions
  <2>2. CASE ExecDelete
    <3>1. Head(queue).op = "delete"
      BY <2>2 DEF ExecDelete, Running
    <3>2. /\ DOMAIN table' \subseteq DOMAIN table
          /\ table' = [k \in DOMAIN table' |-> table'[k]]
          /\ \A k \in DOMAIN table' : table'[k] = table[k] /\ table[k].id # Head(queue).id
      BY <2>2 DEF ExecDelete, RestrictValues, Restrict
    <3>3. table' \in [DOMAIN table' -> RowType]
      BY <1>3, <3>2 DEF Bounded
    <3>4. \A p \in Ids(table)' : p \in Ids(table) /\ p # Head(queue).id
      BY <3>2 DEF Ids
    <3>5. \A p : p # Head(queue).id => Head(queue) \notin {DeleteOp(p), ClearOp}
      BY <3>1 DEF DeleteOp, ClearOp
    <3> QED BY <1>3, <3>2, <3>3, <3>4, <3>5, SameOrFewerPositions
  <2>3. CASE ExecClear
    BY <2>3, EmptyIsBounded DEF ExecClear
  <2>4. CASE InsertFails
    <3>1. table' = table /\ \A p : Head(queue) \notin {DeleteOp(p), ClearOp}
      BY <2>4 DEF InsertFails, Running, DeleteOp, ClearOp
    <3>2. Ids(table)' = Ids(table)
      BY <3>1 DEF Ids
    <3> QED BY <1>3, <3>1, <3>2
  <2> QED BY <2>1, <2>2, <2>3, <2>4
<1>5. Types'
  BY <1>1, <1>2, <1>4 DEF memory, screen, IInv, Types, FlagsOK, ListsOK, CallsOK
<1>6. Order'
  <2>1. /\ Head(queue).op # "load" /\ calls' = calls /\ dataUpdated' = dataUpdated
        /\ Ids(cartProducts) \subseteq Ids(cartProducts')
    BY <1>1 DEF memory
  <2> QED BY <1>1, <1>4, <2>1, OrderRun DEF IInv
<1> QED BY <1>5, <1>6 DEF IInv

LEMMA KillKeeps ==
  ASSUME IInv, Kill
  PROVE  IInv'
<1>1. Bounded(cartProducts', ItemType) /\ Bounded(table', RowType)
  BY EmptyIsBounded DEF Kill, IInv, Types, ListsOK
<1>2. queue' = <<Load>> /\ Load \in OpType /\ Load.op = "load" /\ queue' \in Seq(OpType)
  BY DEF Kill, Load, OpType
<1>3. calls' = [s \in Slots |-> NoCall]
  BY DEF Kill
<1>4. Types'
  <2>1. FlagsOK'
    <3>1. kills' \in Nat /\ sheets' \in Nat
      BY DEF Kill, IInv, Types, FlagsOK
    <3> QED BY <3>1 DEF Kill, FlagsOK
  <2>2. ListsOK'
    BY <1>1, <1>2 DEF Kill, ListsOK
  <2>3. CallsOK'
    BY <1>3 DEF CallsOK, BoundedCall
  <2> QED BY <2>1, <2>2, <2>3 DEF Types
<1>5. Order'
  <2>1. DOMAIN queue' = {1} /\ queue'[1] = Load /\ Len(queue') = 1 /\ Head(queue') = Load
    BY <1>2
  <2>2. Loading'
    BY <1>2, <2>1 DEF Loading
  <2>3. RowOfItem'
    BY <1>2, <2>1 DEF RowOfItem
  <2>4. LoadComesFirst'
    BY <1>2, <2>1 DEF LoadComesFirst, Kill
  <2> QED BY <1>3, <2>2, <2>3, <2>4 DEF Order, QuietLoad, NoGhostRows
<1> QED BY <1>4, <1>5 DEF IInv

-----------------------------------------------------------------------------
LEMMA NextKeepsIInv ==
  ASSUME IInv, [Next]_vars
  PROVE  IInv'
<1>1. CASE User
  BY <1>1, OpenSheetKeeps, ScreenKeeps, SetValuesKeeps, AddToCartKeeps, DialogClearKeeps,
     ChangeQuantityKeeps, DeleteFromCartKeeps, AskKeeps, CheckOutKeeps DEF User
<1>2. CASE Database
  BY <1>2, ExecLoadKeeps, ExecInsertKeeps, ExecRowsKeeps DEF Database
<1>3. CASE Server
  BY <1>3, UpdateReplyKeeps, PlainReplyKeeps, OrderReplyKeeps DEF Server
<1>4. CASE Kill
  BY <1>4, KillKeeps
<1>5. CASE UNCHANGED vars
  BY <1>5 DEF vars, memory, screen, IInv, Types, FlagsOK, ListsOK, CallsOK, Order,
       RowOfItem, QuietLoad, LoadComesFirst, NoGhostRows, Loading, Doomed,
       IsProductInCart, Ids
<1> QED BY <1>1, <1>2, <1>3, <1>4, <1>5 DEF Next

(* The types, the order of loads and inserts, and that every row has an item *)
(* or is doomed, hold in every state.                                        *)
LEMMA SpecIInv == Spec => []IInv
<1>1. IInv /\ [Next]_vars => IInv'
  BY NextKeepsIInv
<1> QED BY <1>1, InitIInv, PTL DEF Spec

(* Every variable of the cart always has its type, and with it every waiting *)
(* database operation and every request in flight: no handler finds an item  *)
(* or a reply it cannot handle.                                              *)
THEOREM TypesCorrect == Spec => []TypeOK
<1>1. IInv => TypeOK
  BY TypesImplyTypeOK DEF IInv
<1> QED BY <1>1, SpecIInv, PTL

(* Whatever is tapped while onInit waits for the table, its answer overwrites *)
(* nothing: getAllProducts assigns to an empty cart, once.                   *)
THEOREM LoadOverwritesNothing == Spec => []LoadComesFirst
<1>1. IInv => LoadComesFirst
  BY DEF IInv, Order
<1> QED BY <1>1, SpecIInv, PTL

(* A row deleted or cleared by the user does not come back at the next start: *)
(* as long as the server has not replaced the list, every row belongs to an  *)
(* item on screen or to an operation that will remove it.                    *)
THEOREM NoRowOutlivesItsItem == Spec => []NoGhostRows
<1>1. IInv => NoGhostRows
  BY DEF IInv, Order
<1> QED BY <1>1, SpecIInv, PTL

-----------------------------------------------------------------------------
(* Steps that show no product that was not in the cart.                      *)
LEMMA UserShowsNothingNew ==
  ASSUME IInv, User
  PROVE  Ids(cartProducts)' \subseteq Ids(cartProducts)
<1>1. CASE UNCHANGED cartProducts
  BY <1>1
<1>2. CASE cartProducts' = Empty
  BY <1>2, EmptyIsBounded
<1>3. ASSUME NEW q \in 1 .. MaxQty, SetValues(q)
      PROVE  Ids(cartProducts)' \subseteq Ids(cartProducts)
  <2>1. \A k \in DOMAIN cartProducts' :
           k \in DOMAIN cartProducts /\ cartProducts'[k].id = cartProducts[k].id
    <3>1. \A k \in DOMAIN cartProducts : cartProducts[k] \in ItemType /\ q \in Nat
      BY BoundAssumption DEF IInv, Types, ListsOK, Bounded
    <3>2. \A k \in DOMAIN cartProducts : Repriced(cartProducts[k], q).id = cartProducts[k].id
      BY <3>1, RepricedType
    <3> QED BY <1>3, <3>2 DEF SetValues
  <2> QED BY <2>1 DEF Ids
<1>4. ASSUME NEW p \in Product \cup Gift, NEW q \in 1 .. MaxQty, ChangeQuantity(p, q)
      PROVE  Ids(cartProducts)' \subseteq Ids(cartProducts)
  <2>1. \A k \in DOMAIN cartProducts' :
           k \in DOMAIN cartProducts /\ cartProducts'[k].id = cartProducts[k].id
    <3>1. \A k \in DOMAIN cartProducts : cartProducts[k] \in ItemType /\ q \in Nat
      BY BoundAssumption DEF IInv, Types, ListsOK, Bounded
    <3>2. \A k \in DOMAIN cartProducts : Repriced(cartProducts[k], q).id = cartProducts[k].id
      BY <3>1, RepricedType
    <3> QED BY <1>4, <3>2 DEF ChangeQuantity, Recalculate
  <2> QED BY <2>1 DEF Ids
<1>5. ASSUME NEW p \in Product, DeleteFromCart(p)
      PROVE  Ids(cartProducts)' \subseteq Ids(cartProducts)
  <2>1. \A k \in DOMAIN cartProducts' :
           k \in DOMAIN cartProducts /\ cartProducts'[k].id = cartProducts[k].id
    BY <1>5 DEF DeleteFromCart, Recalculate, Restrict
  <2> QED BY <2>1 DEF Ids
<1>6. CASE \E p \in Product : OpenSheet(p) \/ DeleteFromCart(p)
  BY <1>1, <1>5, <1>6 DEF OpenSheet, memory
<1>7. CASE CloseSheet \/ AddToCart \/ AddRefused \/ DialogClose
  BY <1>1, <1>7 DEF CloseSheet, AddToCart, AddRefused, DialogClose, memory
<1>8. CASE DialogClear
  BY <1>2, <1>8 DEF DialogClear, ClearCart
<1>9. CASE AskServer \/ ToggleEdit \/ ActivateCoupon \/ PlaceOrder
  BY <1>1, <1>9 DEF AskServer, ToggleEdit, ActivateCoupon, PlaceOrder, memory
<1> QED BY <1>3, <1>4, <1>6, <1>7, <1>8, <1>9 DEF User

LEMMA NothingNew ==
  ASSUME IInv, [Next]_vars, ~ExecLoad, ~ExecInsert, ~ \E s \in Slots : UpdateReply(s)
  PROVE  Ids(cartProducts)' \subseteq Ids(cartProducts)
<1>1. CASE UNCHANGED cartProducts
  BY <1>1
<1>2. CASE cartProducts' = Empty
  BY <1>2, EmptyIsBounded
<1>3. CASE Database
  BY <1>1, <1>3 DEF Database, InsertFails, ExecQuantity, ExecDelete, ExecClear, memory
<1>4. CASE Server
  BY <1>1, <1>2, <1>4 DEF Server, UpdateFailed, CouponReply, OrderReply, OrderFailed,
       ClearCart, memory
<1>5. CASE Kill
  BY <1>2, <1>5 DEF Kill
<1>6. CASE UNCHANGED vars
  BY <1>1, <1>6 DEF vars, memory
<1> QED BY <1>3, <1>4, <1>5, <1>6, UserShowsNothingNew DEF Next

(* An item the user has seen added is on disk: addToCart shows it only after *)
(* insertProduct has been executed, and nothing but a reply of the server    *)
(* shows products that were not written.                                     *)
THEOREM NothingShownUnwritten == Spec => ShownOnceWritten
<1> DEFINE Written == \A p \in Ids(cartProducts)' \ Ids(cartProducts) :
                        p \in Ids(table)' \/ calls' # calls
<1>1. ASSUME IInv, [Next]_vars PROVE Written
  <2>1. CASE ExecLoad
    <3>1. \A k \in DOMAIN cartProducts' : k \in DOMAIN table /\ cartProducts'[k].id = table[k].id
      BY <2>1 DEF ExecLoad, Recalculate, Item
    <3>2. table' = table
      BY <2>1 DEF ExecLoad
    <3> QED BY <3>1, <3>2 DEF Ids
  <2>2. CASE ExecInsert
    BY <1>1, <2>2, ExecInsertProperties
  <2>3. ASSUME NEW s \in Slots, UpdateReply(s) PROVE calls' # calls
    <3>1. Answered(s, "update") /\ DOMAIN calls = Slots
      BY <1>1, <2>3 DEF UpdateReply, IInv, Types, CallsOK
    <3>2. calls'[s] = NoCall /\ calls[s].kind = "update"
      BY <3>1 DEF Answered
    <3> QED BY <3>2 DEF NoCall
  <2>4. CASE ~ExecLoad /\ ~ExecInsert /\ ~ \E s \in Slots : UpdateReply(s)
    BY <1>1, <2>4, NothingNew
  <2> QED BY <2>1, <2>2, <2>3, <2>4
<1>2. IInv /\ [Next]_vars => [Written]_vars
  BY <1>1
<1> QED BY <1>2, SpecIInv, PTL DEF Spec, ShownOnceWritten

-----------------------------------------------------------------------------
(* The inductive invariant of a patient user.  At most one operation that    *)
(* something waits for is in the queue;                                      *)
Sole ==
  \A j, k \in DOMAIN queue :
    queue[j].op \in {"load", "insert"} /\ queue[k].op \in {"load", "insert"} => j = k

(* the sheet on screen has the latest number, and no item a later one;       *)
TagsKnown ==
  /\ dialog => ~Awaited
  /\ sheet # NoSheet => sheet.tag = sheets /\ sheets # 0
  /\ \A k \in DOMAIN cartProducts : cartProducts[k].tag <= sheets
  /\ \A n \in DOMAIN queue : queue[n].op = "insert" => queue[n].item.tag \in 1 .. sheets

(* and no object is twice in the cart, nor there and in the sheet or on its  *)
(* way.                                                                      *)
TagsApart ==
  /\ \A j, k \in DOMAIN cartProducts :
       SameObject(cartProducts[j], cartProducts[k]) => j = k
  /\ \A k \in DOMAIN cartProducts :
       /\ sheet # NoSheet => cartProducts[k].tag # sheet.tag
       /\ \A n \in DOMAIN queue :
            queue[n].op = "insert" => cartProducts[k].tag # queue[n].item.tag

Waiting == Sole /\ TagsKnown /\ TagsApart

LEMMA InitWaiting == Init => Waiting
<1> SUFFICES ASSUME Init PROVE Waiting
  OBVIOUS
<1>1. DOMAIN queue = {1} /\ queue[1].op = "load" /\ DOMAIN cartProducts = {}
  BY DEF Init, Load, Empty
<1> QED BY <1>1 DEF Init, Waiting, Sole, TagsKnown, TagsApart

(* What a step leaves of the queue: whatever something waits for was there   *)
(* before, one place further on when the head has run, with the same object. *)
Carried(d) ==
  \A n \in DOMAIN queue' : queue'[n].op \in {"load", "insert"} =>
    /\ n + d \in DOMAIN queue
    /\ queue'[n].op = queue[n + d].op
    /\ queue'[n].op = "insert" => queue'[n].item.tag = queue[n + d].item.tag

LEMMA WaitingFrame ==
  ASSUME Waiting, queue \in Seq(OpType), queue' \in Seq(OpType),
         NEW d \in {0, 1}, Carried(d), sheets \in Nat, sheets' = sheets,
         sheet' # NoSheet => sheet # NoSheet /\ sheet'.tag = sheet.tag,
         dialog' => dialog \/ ~Awaited,
         \/ \A k \in DOMAIN cartProducts' : /\ k \in DOMAIN cartProducts
                                            /\ cartProducts'[k].tag = cartProducts[k].tag
         \/ \A k \in DOMAIN cartProducts' : cartProducts'[k].tag = 0
  PROVE  Waiting'
<1>0. DOMAIN queue \subseteq Nat /\ DOMAIN queue' \subseteq Nat
  OBVIOUS
<1>1. Sole'
  <2> SUFFICES ASSUME NEW j \in DOMAIN queue', NEW k \in DOMAIN queue',
                      queue'[j].op \in {"load", "insert"}, queue'[k].op \in {"load", "insert"}
               PROVE  j = k
    BY DEF Sole
  <2>1. j + d = k + d
    BY DEF Carried, Waiting, Sole
  <2> QED BY <1>0, <2>1
<1>2. ~Awaited => ~Awaited'
  BY DEF Awaited, Carried
<1>3. TagsKnown'
  BY <1>2 DEF Waiting, TagsKnown, Carried
<1>4. TagsApart'
  BY DEF Waiting, TagsKnown, TagsApart, Carried, SameObject
<1> QED BY <1>1, <1>3, <1>4 DEF Waiting

(* Touching a pending insert keeps the number of its object.                 *)
LEMMA TouchKeepsTags ==
  ASSUME queue \in Seq(OpType), NEW tag \in Nat, NEW q \in Nat
  PROVE  \A k \in DOMAIN queue :
           queue[k].op = "insert" => TouchPending(tag, q)[k].item.tag = queue[k].item.tag
<1> SUFFICES ASSUME NEW k \in DOMAIN queue, queue[k].op = "insert"
             PROVE  TouchPending(tag, q)[k].item.tag = queue[k].item.tag
  OBVIOUS
<1>1. queue[k].item \in ItemType /\ queue[k] \in [op : {"insert"}, row : RowType, item : ItemType]
  <2>1. queue[k] \in OpType
    OBVIOUS
  <2> QED BY <2>1 DEF OpType
<1>2. Repriced(queue[k].item, q).tag = queue[k].item.tag
  BY <1>1 DEF Repriced, ItemType
<1> QED BY <1>1, <1>2 DEF TouchPending

LEMMA RepricedKeepsTag ==
  ASSUME NEW item \in ItemType, NEW q
  PROVE  Repriced(item, q).tag = item.tag
  BY DEF Repriced, ItemType

(* A patient user changes the sheet while nothing is awaited: its item is    *)
(* not in the cart, which is left as it is.                                  *)
LEMMA SetValuesLeavesCart ==
  ASSUME IInv, Waiting, NEW q \in 1 .. MaxQty, SetValues(q)
  PROVE  cartProducts' = cartProducts
<1>1. \A k \in DOMAIN cartProducts : ~SameObject(cartProducts[k], sheet)
  BY DEF SetValues, Waiting, TagsApart, SameObject
<1>2. cartProducts = [k \in DOMAIN cartProducts |-> cartProducts[k]]
  BY DEF IInv, Types, ListsOK, Bounded
<1> QED BY <1>1, <1>2 DEF SetValues

-----------------------------------------------------------------------------
(* Every step keeps it.                                                      *)
LEMMA OpenSheetWaiting ==
  ASSUME IInv, Waiting, NEW p \in Product, OpenSheet(p)
  PROVE  Waiting'
<1>1. /\ UNCHANGED <<cartProducts, dialog, queue>>
      /\ sheets \in Nat /\ sheets' = sheets + 1 /\ sheet'.tag = sheets'
  BY DEF OpenSheet, memory, Item, IInv, Types, FlagsOK
<1>2. \A k \in DOMAIN cartProducts : cartProducts[k].tag \in Nat
  BY DEF IInv, Types, ListsOK, Bounded, ItemType
<1>3. Sole' /\ (dialog' => ~Awaited')
  BY <1>1 DEF Waiting, Sole, TagsKnown, Awaited
<1>4. TagsKnown'
  <2>1. \A n \in DOMAIN queue : queue[n].op = "insert" => queue[n].item.tag \in 1 .. sheets'
    BY <1>1 DEF Waiting, TagsKnown
  <2>2. \A k \in DOMAIN cartProducts : cartProducts[k].tag <= sheets'
    BY <1>1, <1>2 DEF Waiting, TagsKnown
  <2> QED BY <1>1, <1>3, <2>1, <2>2 DEF TagsKnown
<1>5. TagsApart'
  <2>1. \A k \in DOMAIN cartProducts : cartProducts[k].tag # sheets'
    BY <1>1, <1>2 DEF Waiting, TagsKnown
  <2> QED BY <1>1, <2>1 DEF Waiting, TagsApart
<1> QED BY <1>3, <1>4, <1>5 DEF Waiting

LEMMA ScreenWaiting ==
  ASSUME IInv, Patient, Waiting, CloseSheet \/ AddRefused \/ DialogClose
  PROVE  Waiting'
<1>1. /\ UNCHANGED <<cartProducts, sheets, queue>> /\ sheet' \in {sheet, NoSheet}
      /\ dialog' => dialog \/ ~Awaited
  BY DEF CloseSheet, AddRefused, CanTapAdd, ButtonIsLive, DialogClose, memory
<1>2. Carried(0)
  BY <1>1 DEF Carried, IInv, Types, ListsOK
<1> QED BY <1>1, <1>2, WaitingFrame DEF IInv, Types, FlagsOK, ListsOK

LEMMA SetValuesWaiting ==
  ASSUME IInv, Waiting, NEW q \in 1 .. MaxQty, SetValues(q)
  PROVE  Waiting'
<1>1. q \in Nat /\ sheet \in ItemType /\ sheet.tag \in Nat
  BY BoundAssumption DEF SetValues, IInv, Types, ListsOK, ItemType
<1>2. queue \in Seq(OpType) /\ queue' \in Seq(OpType) /\ SameOps(queue, queue')
  BY <1>1, TouchPendingProperties DEF SetValues, IInv, Types, ListsOK
<1>3. \A k \in DOMAIN queue :
        queue[k].op = "insert" => queue'[k].item.tag = queue[k].item.tag
  BY <1>1, <1>2, TouchKeepsTags DEF SetValues
<1>4. Carried(0)
  BY <1>2, <1>3 DEF Carried, SameOps
<1>5. sheet # NoSheet /\ sheet'.tag = sheet.tag
  BY <1>1, RepricedKeepsTag DEF SetValues
<1>6. UNCHANGED <<cartProducts, dialog, sheets>>
  BY SetValuesLeavesCart DEF SetValues
<1> QED BY <1>2, <1>4, <1>5, <1>6, WaitingFrame DEF IInv, Types, FlagsOK

LEMMA AddToCartWaiting ==
  ASSUME IInv, Patient, Waiting, AddToCart
  PROVE  Waiting'
<1>1. /\ sheet # NoSheet /\ ~dialog /\ ~Awaited
      /\ UNCHANGED <<cartProducts, screen>>
  BY DEF AddToCart, CanTapAdd, ButtonIsLive
<1>2. PICK o : queue' = Append(queue, o) /\ o.op = "insert" /\ o.item = sheet
  BY DEF AddToCart, Give, InsertOp
<1>3. queue \in Seq(OpType) /\ sheets \in Nat
  BY DEF IInv, Types, FlagsOK, ListsOK
<1>4. /\ DOMAIN queue = 1 .. Len(queue) /\ Len(queue) \in Nat
      /\ DOMAIN queue' = 1 .. Len(queue) + 1
      /\ queue'[Len(queue) + 1] = o
      /\ \A n \in DOMAIN queue : queue'[n] = queue[n]
  BY <1>2, <1>3
<1>5. \A n \in DOMAIN queue' :
        queue'[n].op \in {"load", "insert"} => n = Len(queue) + 1
  BY <1>1, <1>4 DEF Awaited
<1>6. Sole'
  BY <1>5 DEF Sole
<1>7. \A n \in DOMAIN queue' : queue'[n].op = "insert" => queue'[n].item = sheet
  BY <1>2, <1>4, <1>5
<1>8. sheet.tag = sheets /\ sheets \in 1 .. sheets
  BY <1>1, <1>3 DEF Waiting, TagsKnown
<1>9. TagsKnown'
  BY <1>1, <1>7, <1>8 DEF Waiting, TagsKnown, screen
<1>10. TagsApart'
  BY <1>1, <1>7 DEF Waiting, TagsApart, screen
<1> QED BY <1>6, <1>9, <1>10 DEF Waiting

(* Giving an operation nothing waits for.                                    *)
LEMMA GiveCarries ==
  ASSUME queue \in Seq(OpType), NEW q2 \in Seq(OpType), SameOps(queue, q2),
         \A k \in DOMAIN queue : queue[k].op = "insert" => q2[k].item.tag = queue[k].item.tag,
         NEW o \in OpType, o.op \notin {"load", "insert"}, queue' = Append(q2, o)
  PROVE  queue' \in Seq(OpType) /\ Carried(0)
<1>1. /\ queue' \in Seq(OpType)
      /\ DOMAIN queue' = 1 .. Len(queue) + 1 /\ DOMAIN queue = 1 .. Len(queue)
      /\ Len(queue) \in Nat
      /\ queue'[Len(queue) + 1] = o
      /\ \A n \in DOMAIN queue : queue'[n] = q2[n]
  BY DEF SameOps
<1>2. ASSUME NEW n \in DOMAIN queue', queue'[n].op \in {"load", "insert"}
      PROVE  n + 0 = n /\ n \in DOMAIN queue
  BY <1>1, <1>2
<1> QED BY <1>1, <1>2 DEF Carried, SameOps

LEMMA ClearCartWaiting ==
  ASSUME IInv, Waiting, ClearCart,
         dialog' = FALSE, sheet' \in {sheet, NoSheet}, sheets' = sheets
  PROVE  Waiting'
<1>1. ClearOp \in OpType /\ ClearOp.op = "clear"
  BY DEF ClearOp, OpType
<1>2. queue \in Seq(OpType) /\ SameOps(queue, queue) /\ queue' = Append(queue, ClearOp)
  BY SameOpsReflexive DEF ClearCart, Give, IInv, Types, ListsOK
<1>3. queue' \in Seq(OpType) /\ Carried(0)
  BY <1>1, <1>2, GiveCarries
<1>4. DOMAIN cartProducts' = {}
  BY DEF ClearCart, Empty
<1> QED BY <1>2, <1>3, <1>4, WaitingFrame DEF IInv, Types, FlagsOK

LEMMA ChangeQuantityWaiting ==
  ASSUME IInv, Waiting, NEW p \in Product \cup Gift, NEW q \in 1 .. MaxQty,
         ChangeQuantity(p, q)
  PROVE  Waiting'
<1>1. PICK f \in DOMAIN cartProducts :
        /\ cartProducts' = [k \in DOMAIN cartProducts |->
             IF k = f \/ SameObject(cartProducts[k], cartProducts[f])
             THEN Repriced(cartProducts[k], q) ELSE cartProducts[k]]
        /\ queue' = Append(TouchPending(cartProducts[f].tag, q), QuantityOp(p, q))
  BY DEF ChangeQuantity, Recalculate
<1>2. q \in Nat /\ \A k \in DOMAIN cartProducts :
                     cartProducts[k] \in ItemType /\ cartProducts[k].tag \in Nat
  BY BoundAssumption DEF IInv, Types, ListsOK, Bounded, ItemType
<1>3. \A k \in DOMAIN cartProducts' :
        k \in DOMAIN cartProducts /\ cartProducts'[k].tag = cartProducts[k].tag
  BY <1>1, <1>2, RepricedKeepsTag
<1> DEFINE touched == TouchPending(cartProducts[f].tag, q)
<1>4. /\ queue \in Seq(OpType) /\ touched \in Seq(OpType) /\ SameOps(queue, touched)
      /\ \A k \in DOMAIN queue : queue[k].op = "insert" => touched[k].item.tag = queue[k].item.tag
  BY <1>2, TouchPendingProperties, TouchKeepsTags DEF IInv, Types, ListsOK
<1>5. QuantityOp(p, q) \in OpType /\ QuantityOp(p, q).op = "quantity"
  BY <1>2 DEF QuantityOp, OpType, AnyProduct
<1> HIDE DEF touched
<1>6. queue' = Append(touched, QuantityOp(p, q))
  BY <1>1 DEF touched
<1>7. queue' \in Seq(OpType) /\ Carried(0)
  BY <1>4, <1>5, <1>6, GiveCarries
<1>8. UNCHANGED <<dialog, sheet, sheets>>
  BY DEF ChangeQuantity, screen
<1> QED BY <1>3, <1>4, <1>7, <1>8, WaitingFrame DEF IInv, Types, FlagsOK

LEMMA DeleteFromCartWaiting ==
  ASSUME IInv, Waiting, NEW p \in Product, DeleteFromCart(p)
  PROVE  Waiting'
<1>1. \A k \in DOMAIN cartProducts' :
        k \in DOMAIN cartProducts /\ cartProducts'[k].tag = cartProducts[k].tag
  BY DEF DeleteFromCart, Recalculate, Restrict
<1>2. DeleteOp(p) \in OpType /\ DeleteOp(p).op = "delete"
  BY DEF DeleteOp, OpType, AnyProduct
<1>3. queue \in Seq(OpType) /\ SameOps(queue, queue) /\ queue' = Append(queue, DeleteOp(p))
  BY SameOpsReflexive DEF DeleteFromCart, Give, IInv, Types, ListsOK
<1>4. queue' \in Seq(OpType) /\ Carried(0)
  BY <1>2, <1>3, GiveCarries
<1>5. UNCHANGED <<dialog, sheet, sheets>>
  BY DEF DeleteFromCart, screen
<1> QED BY <1>1, <1>3, <1>4, <1>5, WaitingFrame DEF IInv, Types, FlagsOK

(* Steps that leave cart, screen and queue alone.                            *)
LEMMA QuietWaiting ==
  ASSUME IInv, Waiting, UNCHANGED <<cartProducts, screen, queue>>
  PROVE  Waiting'
  BY DEF screen, Waiting, Sole, TagsKnown, TagsApart, Awaited

(* Items of a reply and of the table are new objects.                        *)
LEMMA UpdateReplyWaiting ==
  ASSUME IInv, Waiting, NEW s \in Slots, UpdateReply(s)
  PROVE  Waiting'
<1> DEFINE asked == calls[s].items
           Sold(kept) == [k \in DOMAIN RestrictValues(asked, LAMBDA i : i.id \in kept) |->
                            Listed(asked[k].id, asked[k].quantity, FALSE)]
<1>1. PICK kept \in SUBSET Ids(asked) :
        \/ cartProducts' = Sold(kept)
        \/ \E g \in GiftsOf(calls[s].vendor) :
             cartProducts' = Added(Sold(kept), Listed(g, 1, TRUE))
  <2>1. (IF ServerDrops THEN SUBSET Ids(asked) ELSE {Ids(asked)}) \subseteq SUBSET Ids(asked)
    OBVIOUS
  <2> QED BY <2>1 DEF UpdateReply, Recalculate
<1>2. \A p, q, gift : Listed(p, q, gift).tag = 0
  BY DEF Listed, Repriced, Item
<1>3. \A k \in DOMAIN Sold(kept) : Sold(kept)[k].tag = 0
  BY <1>2
<1> HIDE DEF Sold
<1>4. ASSUME NEW k \in DOMAIN cartProducts' PROVE cartProducts'[k].tag = 0
  <2>1. CASE cartProducts' = Sold(kept)
    BY <1>3, <2>1
  <2>2. ASSUME NEW g, cartProducts' = Added(Sold(kept), Listed(g, 1, TRUE))
        PROVE  cartProducts'[k].tag = 0
    <3>1. Listed(g, 1, TRUE).tag = 0
      BY <1>2
    <3> QED BY <1>3, <2>2, <3>1 DEF Added
  <2> QED BY <1>1, <2>1, <2>2
<1>5. UNCHANGED <<screen, queue>> /\ Carried(0)
  BY DEF UpdateReply, Carried, IInv, Types, ListsOK
<1> QED BY <1>4, <1>5, WaitingFrame DEF screen, IInv, Types, FlagsOK, ListsOK

(* What is left when the head has run.                                       *)
LEMMA RunCarries ==
  ASSUME queue \in Seq(OpType), queue # <<>>, queue' = Tail(queue)
  PROVE  queue' \in Seq(OpType) /\ Carried(1)
  BY AfterHead DEF Carried

LEMMA ExecLoadWaiting ==
  ASSUME IInv, Waiting, ExecLoad
  PROVE  Waiting'
<1>1. queue \in Seq(OpType) /\ queue' \in Seq(OpType) /\ Carried(1)
  BY RunCarries DEF ExecLoad, Running, IInv, Types, ListsOK
<1>2. \A k \in DOMAIN cartProducts' : cartProducts'[k].tag = 0
  BY DEF ExecLoad, Recalculate, Item
<1>3. UNCHANGED screen
  BY DEF ExecLoad
<1> QED BY <1>1, <1>2, <1>3, WaitingFrame DEF screen, IInv, Types, FlagsOK

LEMMA ExecRowsWaiting ==
  ASSUME IInv, Waiting, InsertFails \/ ExecQuantity \/ ExecDelete \/ ExecClear
  PROVE  Waiting'
<1>1. queue # <<>> /\ queue' = Tail(queue) /\ UNCHANGED <<memory, screen>>
  BY DEF InsertFails, ExecQuantity, ExecDelete, ExecClear, Running
<1>2. queue \in Seq(OpType) /\ queue' \in Seq(OpType) /\ Carried(1)
  BY <1>1, RunCarries DEF IInv, Types, ListsOK
<1> QED BY <1>1, <1>2, WaitingFrame DEF memory, screen, IInv, Types, FlagsOK

(* The only insert is the one that runs: the sheet closes with it.           *)
LEMMA ExecInsertRuns ==
  ASSUME IInv, Waiting, ExecInsert
  PROVE  /\ Head(queue).item \in ItemType /\ Head(queue).row \in RowType
         /\ Head(queue).row.id = Head(queue).item.id
         /\ 1 \in DOMAIN queue /\ Head(queue) = queue[1] /\ queue[1].op = "insert"
         /\ ~dialog /\ ~dialog' /\ sheet' = NoSheet
         /\ ~Awaited'
<1>1. queue # <<>> /\ Head(queue).op = "insert" /\ queue \in Seq(OpType) /\ queue' = Tail(queue)
  BY DEF ExecInsert, Running, IInv, Types, ListsOK
<1>2. /\ 1 \in DOMAIN queue /\ Head(queue) = queue[1] /\ Head(queue) \in OpType
      /\ Head(queue).row.id = Head(queue).item.id
  BY <1>1, AfterHead DEF IInv, Order, RowOfItem
<1>3. Head(queue).row \in RowType /\ Head(queue).item \in ItemType
  BY <1>1, <1>2 DEF OpType
<1>4. ~dialog
  BY <1>1, <1>2 DEF Awaited, Waiting, TagsKnown
<1>5. ~dialog' /\ sheet' = NoSheet
  BY <1>4 DEF ExecInsert
<1>6. ~Awaited'
  <2> SUFFICES ASSUME NEW k \in DOMAIN queue', queue'[k].op \in {"load", "insert"}
               PROVE  FALSE
    BY DEF Awaited
  <2>1. k \in Nat \ {0} /\ k + 1 \in DOMAIN queue /\ queue'[k] = queue[k + 1]
    BY <1>1, AfterHead
  <2> QED BY <1>1, <1>2, <2>1 DEF Waiting, Sole
<1> QED BY <1>1, <1>2, <1>3, <1>4, <1>5, <1>6

LEMMA AddedEntries ==
  ASSUME NEW T, NEW list, Bounded(list, T), NEW e
  PROVE  \E new \in Nat :
           /\ new \notin DOMAIN list
           /\ DOMAIN Added(list, e) = DOMAIN list \cup {new}
           /\ Added(list, e)[new] = e
           /\ \A k \in DOMAIN list : Added(list, e)[k] = list[k]
<1> DEFINE new == LastPosition(list) + 1
<1>1. new \in Nat /\ new \notin DOMAIN list
  BY LastPositionIsLast
<1> QED BY <1>1 DEF Added

LEMMA ExecInsertWaiting ==
  ASSUME IInv, Waiting, ExecInsert
  PROVE  Waiting'
<1>1. /\ queue[1].item \in ItemType /\ 1 \in DOMAIN queue /\ queue[1].op = "insert"
      /\ ~dialog' /\ sheet' = NoSheet /\ ~Awaited' /\ Head(queue) = queue[1]
  BY ExecInsertRuns
<1>2. cartProducts' = Added(cartProducts, queue[1].item) /\ sheets' = sheets
  BY <1>1 DEF ExecInsert, Recalculate
<1>3. PICK new \in Nat :
        /\ new \notin DOMAIN cartProducts
        /\ DOMAIN cartProducts' = DOMAIN cartProducts \cup {new}
        /\ cartProducts'[new] = queue[1].item
        /\ \A k \in DOMAIN cartProducts : cartProducts'[k] = cartProducts[k]
  <2>1. Bounded(cartProducts, ItemType)
    BY DEF IInv, Types, ListsOK
  <2>2. \E new \in Nat :
          /\ new \notin DOMAIN cartProducts
          /\ DOMAIN Added(cartProducts, queue[1].item) = DOMAIN cartProducts \cup {new}
          /\ Added(cartProducts, queue[1].item)[new] = queue[1].item
          /\ \A k \in DOMAIN cartProducts :
               Added(cartProducts, queue[1].item)[k] = cartProducts[k]
    BY <2>1, AddedEntries
  <2> QED BY <1>2, <2>2
<1>4. queue[1].item.tag \in 1 .. sheets /\ sheets \in Nat
  BY <1>1 DEF Waiting, TagsKnown, IInv, Types, FlagsOK
<1>5. \A k \in DOMAIN cartProducts : cartProducts[k].tag # queue[1].item.tag
  BY <1>1 DEF Waiting, TagsApart
<1>6. Sole'
  BY <1>1 DEF Sole, Awaited
<1>7. TagsKnown'
  BY <1>1, <1>2, <1>3, <1>4 DEF Waiting, TagsKnown, Awaited
<1>8. TagsApart'
  BY <1>1, <1>3, <1>5 DEF Waiting, TagsApart, Awaited, SameObject
<1> QED BY <1>6, <1>7, <1>8 DEF Waiting

LEMMA KillWaiting ==
  ASSUME Kill
  PROVE  Waiting'
<1>1. DOMAIN queue' = {1} /\ queue'[1].op = "load" /\ DOMAIN cartProducts' = {}
  BY DEF Kill, Load, Empty
<1> QED BY <1>1 DEF Kill, Waiting, Sole, TagsKnown, TagsApart

LEMMA NextKeepsWaiting ==
  ASSUME IInv, Patient, Waiting, [Next]_vars
  PROVE  Waiting'
<1>1. CASE User
  <2>1. CASE DialogClear
    BY <2>1, ClearCartWaiting DEF DialogClear
  <2>2. CASE AskServer \/ ToggleEdit \/ ActivateCoupon \/ PlaceOrder
    <3>1. UNCHANGED <<cartProducts, screen, queue>>
      BY <2>2 DEF AskServer, ToggleEdit, ActivateCoupon, PlaceOrder, memory
    <3> QED BY <3>1, QuietWaiting
  <2> QED BY <1>1, <2>1, <2>2, OpenSheetWaiting, ScreenWaiting, SetValuesWaiting,
             AddToCartWaiting, ChangeQuantityWaiting, DeleteFromCartWaiting DEF User
<1>2. CASE Database
  BY <1>2, ExecLoadWaiting, ExecInsertWaiting, ExecRowsWaiting DEF Database
<1>3. ASSUME NEW s \in Slots, UpdateFailed(s) \/ CouponReply(s) \/ OrderFailed(s)
      PROVE  Waiting'
  <2>1. UNCHANGED <<cartProducts, screen, queue>>
    BY <1>3 DEF UpdateFailed, CouponReply, OrderFailed, memory
  <2> QED BY <2>1, QuietWaiting
<1>4. ASSUME NEW s \in Slots, OrderReply(s) PROVE Waiting'
  BY <1>4, ClearCartWaiting DEF OrderReply
<1>5. CASE Server
  BY <1>3, <1>4, <1>5, UpdateReplyWaiting DEF Server
<1>6. CASE Kill
  BY <1>6, KillWaiting
<1>7. CASE UNCHANGED vars
  BY <1>7, QuietWaiting DEF vars, memory
<1> QED BY <1>1, <1>2, <1>5, <1>6, <1>7 DEF Next

(* For a user who waits for loads and adds, no object is twice in the cart.  *)
LEMMA SpecWaiting == ASSUME Patient PROVE Spec => [](IInv /\ Waiting)
<1>1. Init => IInv /\ Waiting
  BY InitIInv, InitWaiting
<1>2. IInv /\ Waiting /\ [Next]_vars => IInv' /\ Waiting'
  BY NextKeepsIInv, NextKeepsWaiting
<1> QED BY <1>1, <1>2, PTL DEF Spec

-----------------------------------------------------------------------------
(* Whatever changes the list of a patient user goes through Recalculate.     *)
LEMMA NextKeepsSums ==
  ASSUME IInv, Waiting, SumsMatchItems, [Next]_vars
  PROVE  SumsMatchItems'
<1>1. CASE UNCHANGED <<cartProducts, cartTotalPrices, totalPoints>>
  BY <1>1 DEF SumsMatchItems
<1>2. CASE \E c : Recalculate(c)
  BY <1>2 DEF SumsMatchItems, Recalculate
<1>3. CASE cartProducts' = Empty
  BY <1>3 DEF SumsMatchItems
<1>4. CASE User
  <2>1. ASSUME NEW q \in 1 .. MaxQty, SetValues(q)
        PROVE  UNCHANGED <<cartProducts, cartTotalPrices, totalPoints>>
    BY <2>1, SetValuesLeavesCart DEF SetValues
  <2>2. ASSUME NEW p, DeleteFromCart(p) \/ \E q \in 1 .. MaxQty : ChangeQuantity(p, q)
        PROVE  \E c : Recalculate(c)
    BY <2>2 DEF DeleteFromCart, ChangeQuantity
  <2>3. CASE DialogClear
    BY <1>3, <2>3 DEF DialogClear, ClearCart
  <2>4. CASE \/ \E p \in Product : OpenSheet(p)
             \/ CloseSheet \/ AddToCart \/ AddRefused \/ DialogClose
             \/ AskServer \/ ToggleEdit \/ ActivateCoupon \/ PlaceOrder
    BY <1>1, <2>4 DEF OpenSheet, CloseSheet, AddToCart, AddRefused, DialogClose,
         AskServer, ToggleEdit, ActivateCoupon, PlaceOrder, memory
  <2> QED BY <1>1, <1>2, <1>4, <2>1, <2>2, <2>3, <2>4 DEF User
<1>5. CASE Database
  <2>1. CASE ExecLoad \/ ExecInsert
    BY <1>2, <2>1 DEF ExecLoad, ExecInsert
  <2>2. CASE InsertFails \/ ExecQuantity \/ ExecDelete \/ ExecClear
    BY <1>1, <2>2 DEF InsertFails, ExecQuantity, ExecDelete, ExecClear, memory
  <2> QED BY <1>5, <2>1, <2>2 DEF Database
<1>6. CASE Server
  <2>1. ASSUME NEW s \in Slots, UpdateReply(s) PROVE \E c : Recalculate(c)
    BY <2>1 DEF UpdateReply
  <2>2. ASSUME NEW s \in Slots, OrderReply(s) PROVE cartProducts' = Empty
    BY <2>2 DEF OrderReply, ClearCart
  <2>3. ASSUME NEW s \in Slots, UpdateFailed(s) \/ CouponReply(s) \/ OrderFailed(s)
        PROVE  UNCHANGED <<cartProducts, cartTotalPrices, totalPoints>>
    BY <2>3 DEF UpdateFailed, CouponReply, OrderFailed, memory
  <2> QED BY <1>1, <1>2, <1>3, <1>6, <2>1, <2>2, <2>3 DEF Server
<1>7. CASE Kill
  BY <1>3, <1>7 DEF Kill
<1>8. CASE UNCHANGED vars
  BY <1>1, <1>8 DEF vars, memory
<1> QED BY <1>4, <1>5, <1>6, <1>7, <1>8 DEF Next

(* The sums on the cart screen of a patient user are those of the items it   *)
(* lists, whatever the server, the database and the process do: every change *)
(* of the list goes through changeTotalPrice and calculateTotalPoints, and   *)
(* setValues of an open sheet, which does not, never reaches an item of the  *)
(* list.                                                                     *)
THEOREM SumsAreRight == ASSUME Patient PROVE Spec => []SumsMatchItems
<1>1. Init => SumsMatchItems
  BY DEF Init, SumsMatchItems
<1>2. IInv /\ Waiting /\ SumsMatchItems /\ [Next]_vars => SumsMatchItems'
  BY NextKeepsSums
<1> QED BY <1>1, <1>2, SpecWaiting, PTL DEF Spec

-----------------------------------------------------------------------------
(* The inductive invariant of a patient guest.  The server is never asked;   *)
Alone == /\ ~dataUpdated
         /\ \A s \in Slots : calls[s] = NoCall

(* what is in the cart, what is in the table and what is on its way is of    *)
(* one shop, and nothing twice: only a row about to be removed may not fit   *)
(* the item that will be added behind it;                                    *)
DoomedBefore(ops, n, p) == \E m \in 1 .. n - 1 : ops[m] \in {DeleteOp(p), ClearOp}
OneShop(list) == \A j, k \in DOMAIN list : VendorOf[list[j].id] = VendorOf[list[k].id]
Distinct(list) == \A j, k \in DOMAIN list : list[j].id = list[k].id => j = k
Fits(p, r) == p # r /\ VendorOf[p] = VendorOf[r]
ListsFit ==
  /\ OneShop(cartProducts) /\ Distinct(cartProducts)
  /\ OneShop(table) /\ Distinct(table)
  /\ \A n \in DOMAIN queue : queue[n].op = "insert" =>
       /\ \A k \in DOMAIN cartProducts : Fits(cartProducts[k].id, queue[n].item.id)
       /\ \A k \in DOMAIN table :
            Fits(table[k].id, queue[n].item.id) \/ DoomedBefore(queue, n, table[k].id)

(* the shipping held, and the one of every row, is of the shop of the items. *)
ShipOf(p) == {NoShip} \cup IF MultiVendor THEN {VendorOf[p]} ELSE {}
ShippingFits ==
  /\ ~MultiVendor => vendorShipping = NoShip
  /\ \A k \in DOMAIN cartProducts : vendorShipping \in ShipOf(cartProducts[k].id)
  /\ \A k \in DOMAIN table : table[k].ship \in ShipOf(table[k].id)
  /\ \A n \in DOMAIN queue : queue[n].op = "insert" =>
       {vendorShipping, queue[n].row.ship} \subseteq ShipOf(queue[n].item.id)

Guest == Alone /\ ListsFit /\ ShippingFits

LEMMA NothingFits ==
  ASSUME DOMAIN queue = {1}, queue[1].op = "load", DOMAIN cartProducts = {}
  PROVE  /\ OneShop(table) /\ Distinct(table) => ListsFit
         /\ /\ ~MultiVendor => vendorShipping = NoShip
            /\ \A k \in DOMAIN table : table[k].ship \in ShipOf(table[k].id)
            => ShippingFits
  BY DEF ListsFit, ShippingFits, OneShop, Distinct

LEMMA InitGuest == Init => Guest
<1> SUFFICES ASSUME Init PROVE Guest
  OBVIOUS
<1>1. DOMAIN queue = {1} /\ queue[1].op = "load"
  BY DEF Init, Load
<1>2. DOMAIN cartProducts = {} /\ DOMAIN table = {} /\ vendorShipping = NoShip
  BY DEF Init, Empty
<1>3. ListsFit /\ ShippingFits
  BY <1>1, <1>2, NothingFits DEF OneShop, Distinct
<1> QED BY <1>3 DEF Init, Guest, Alone

-----------------------------------------------------------------------------
(* A list whose entries are some of another's, perhaps changed in place.     *)
PartOf(new, old) == \A k \in DOMAIN new : k \in DOMAIN old /\ new[k].id = old[k].id
SameShips(new, old) == \A k \in DOMAIN new : new[k].ship = old[k].ship

LEMMA PartsFit ==
  ASSUME NEW new, NEW old, PartOf(new, old)
  PROVE  (OneShop(old) => OneShop(new)) /\ (Distinct(old) => Distinct(new))
  BY DEF PartOf, OneShop, Distinct

(* Steps that keep the queue, or add to it what is not an insert.            *)
Extended == /\ \A n \in DOMAIN queue' : queue'[n].op = "insert" =>
                 /\ n \in DOMAIN queue /\ queue[n].op = "insert"
                 /\ queue'[n].item.id = queue[n].item.id
                 /\ queue'[n].row = queue[n].row
            /\ \A m \in DOMAIN queue : queue[m].op \in {"delete", "clear"} =>
                 m \in DOMAIN queue' /\ queue'[m] = queue[m]

LEMMA SameExtended ==
  ASSUME queue \in Seq(OpType), SameOps(queue, queue'), queue' \in Seq(OpType)
  PROVE  Extended
<1>1. DOMAIN queue = 1 .. Len(queue) /\ DOMAIN queue' = 1 .. Len(queue)
  BY DEF SameOps
<1> QED BY <1>1 DEF SameOps, Extended

LEMMA GivenExtended ==
  ASSUME queue \in Seq(OpType), NEW q2 \in Seq(OpType), SameOps(queue, q2),
         NEW o \in OpType, o.op # "insert", queue' = Append(q2, o)
  PROVE  Extended
<1>1. /\ DOMAIN queue = 1 .. Len(queue) /\ Len(queue) \in Nat
      /\ DOMAIN queue' = 1 .. Len(queue) + 1
      /\ queue'[Len(queue) + 1] = o
      /\ \A n \in DOMAIN queue : queue'[n] = q2[n]
  BY DEF SameOps
<1>2. ASSUME NEW n \in DOMAIN queue', queue'[n].op = "insert" PROVE n \in DOMAIN queue
  BY <1>1, <1>2
<1> QED BY <1>1, <1>2 DEF SameOps, Extended

LEMMA GuestFrame ==
  ASSUME ListsFit, ShippingFits, queue \in Seq(OpType), Extended,
         UNCHANGED <<table, vendorShipping>>, PartOf(cartProducts', cartProducts)
  PROVE  ListsFit' /\ ShippingFits'
<1>1. ASSUME NEW n \in DOMAIN queue, NEW p, DoomedBefore(queue, n, p)
      PROVE  DoomedBefore(queue', n, p)
  <2>1. PICK m \in 1 .. n - 1 : queue[m] \in {DeleteOp(p), ClearOp}
    BY <1>1 DEF DoomedBefore
  <2>2. m \in DOMAIN queue /\ queue[m].op \in {"delete", "clear"}
    BY <2>1 DEF DeleteOp, ClearOp
  <2> QED BY <2>1, <2>2 DEF Extended, DoomedBefore
<1>2. OneShop(cartProducts') /\ Distinct(cartProducts') /\ OneShop(table') /\ Distinct(table')
  BY PartsFit DEF ListsFit
<1>3. ASSUME NEW n \in DOMAIN queue', queue'[n].op = "insert"
      PROVE  /\ \A k \in DOMAIN cartProducts' : Fits(cartProducts'[k].id, queue'[n].item.id)
             /\ \A k \in DOMAIN table' :
                  Fits(table'[k].id, queue'[n].item.id) \/ DoomedBefore(queue', n, table'[k].id)
  <2>1. /\ n \in DOMAIN queue /\ queue[n].op = "insert"
        /\ queue'[n].item.id = queue[n].item.id
    BY <1>3 DEF Extended
  <2>2. \A k \in DOMAIN cartProducts' : Fits(cartProducts'[k].id, queue[n].item.id)
    BY <2>1 DEF ListsFit, PartOf
  <2>3. \A k \in DOMAIN table :
          Fits(table[k].id, queue[n].item.id) \/ DoomedBefore(queue, n, table[k].id)
    BY <2>1 DEF ListsFit
  <2> QED BY <1>1, <2>1, <2>2, <2>3
<1>4. ListsFit'
  BY <1>2, <1>3 DEF ListsFit, OneShop, Distinct, Fits
<1>5. ShippingFits'
  BY DEF ShippingFits, PartOf, Extended, ShipOf
<1> QED BY <1>4, <1>5

(* Steps of the database that change or remove rows: what is left behind a   *)
(* removing operation was not to be removed by it.                           *)
LEMMA GuestRun ==
  ASSUME ListsFit, ShippingFits, queue \in Seq(OpType), queue # <<>>, queue' = Tail(queue),
         UNCHANGED <<cartProducts, vendorShipping>>,
         PartOf(table', table), SameShips(table', table),
         \A k \in DOMAIN table' : Head(queue) \notin {DeleteOp(table'[k].id), ClearOp}
  PROVE  ListsFit' /\ ShippingFits'
<1>1. ASSUME NEW n \in DOMAIN queue', NEW k \in DOMAIN table', DoomedBefore(queue, n + 1, table'[k].id)
      PROVE  DoomedBefore(queue', n, table'[k].id)
  <2>1. PICK m \in 1 .. n : queue[m] \in {DeleteOp(table'[k].id), ClearOp}
    BY <1>1 DEF DoomedBefore
  <2>2. m # 1 /\ m \in DOMAIN queue
    BY <2>1, AfterHead
  <2>3. m - 1 \in 1 .. n - 1 /\ queue'[m - 1] = queue[m]
    BY <2>1, <2>2, AfterHead
  <2> QED BY <2>1, <2>3 DEF DoomedBefore
<1>2. OneShop(cartProducts') /\ Distinct(cartProducts') /\ OneShop(table') /\ Distinct(table')
  BY PartsFit DEF ListsFit
<1>3. ASSUME NEW n \in DOMAIN queue', queue'[n].op = "insert"
      PROVE  /\ \A k \in DOMAIN cartProducts' : Fits(cartProducts'[k].id, queue'[n].item.id)
             /\ \A k \in DOMAIN table' :
                  Fits(table'[k].id, queue'[n].item.id) \/ DoomedBefore(queue', n, table'[k].id)
             /\ {vendorShipping', queue'[n].row.ship} \subseteq ShipOf(queue'[n].item.id)
  <2>1. n + 1 \in DOMAIN queue /\ queue'[n] = queue[n + 1]
    BY AfterHead
  <2>2. \A k \in DOMAIN table' :
          Fits(table'[k].id, queue[n + 1].item.id) \/ DoomedBefore(queue, n + 1, table'[k].id)
    BY <1>3, <2>1 DEF ListsFit, PartOf
  <2> QED BY <1>1, <1>3, <2>1, <2>2 DEF ListsFit, ShippingFits
<1>4. ListsFit'
  BY <1>2, <1>3 DEF ListsFit, OneShop, Distinct, Fits
<1>5. ShippingFits'
  BY <1>3 DEF ShippingFits, PartOf, SameShips, ShipOf
<1> QED BY <1>4, <1>5

-----------------------------------------------------------------------------
(* Every step of a guest keeps it.                                           *)
LEMMA SetValuesGuest ==
  ASSUME IInv, Waiting, Guest, NEW q \in 1 .. MaxQty, SetValues(q)
  PROVE  Guest'
<1>1. q \in Nat /\ sheet.tag \in Nat
  BY BoundAssumption DEF SetValues, IInv, Types, ListsOK, ItemType
<1>2. queue \in Seq(OpType) /\ queue' \in Seq(OpType) /\ SameOps(queue, queue')
  BY <1>1, TouchPendingProperties DEF SetValues, IInv, Types, ListsOK
<1>3. PartOf(cartProducts', cartProducts)
  BY SetValuesLeavesCart DEF PartOf
<1>4. UNCHANGED <<table, vendorShipping, dataUpdated, calls>>
  BY DEF SetValues
<1> QED BY <1>2, <1>3, <1>4, SameExtended, GuestFrame DEF Guest, Alone

(* The first item sets the shop; any other is of the shop of all the others. *)
LEMMA AddToCartGuest ==
  ASSUME IInv, Patient, Waiting, Guest, AddToCart
  PROVE  Guest'
<1>1. /\ ~Awaited /\ ~IsProductInCart(sheet.id) /\ IsFromTheSameVendor(sheet.id)
      /\ UNCHANGED <<cartProducts, dataUpdated, table, calls>>
  BY DEF AddToCart, CanTapAdd
<1>2. PICK ship, o :
        /\ ship \in ShipOf(sheet.id)
        /\ vendorShipping' = IF MultiVendor THEN ship ELSE vendorShipping
        /\ queue' = Append(queue, o)
        /\ o.op = "insert" /\ o.item = sheet /\ o.row.ship = ship
  BY DEF AddToCart, ShippingAfterAdd, Give, InsertOp, ShipOf
<1>3. queue \in Seq(OpType)
  BY DEF IInv, Types, ListsOK
<1>4. /\ DOMAIN queue = 1 .. Len(queue) /\ Len(queue) \in Nat
      /\ DOMAIN queue' = 1 .. Len(queue) + 1
      /\ queue'[Len(queue) + 1] = o
      /\ \A n \in DOMAIN queue : queue'[n] = queue[n]
  BY <1>2, <1>3
<1>5. \A n \in DOMAIN queue' : queue'[n].op = "insert" => n = Len(queue) + 1
  BY <1>1, <1>4 DEF Awaited
<1>6. \A k \in DOMAIN cartProducts : Fits(cartProducts[k].id, sheet.id)
  <2>1. CASE cartProducts = Empty
    BY <2>1 DEF Empty
  <2>2. CASE cartProducts # Empty
    BY <1>1, <2>2 DEF IsFromTheSameVendor, IsProductInCart, Ids, Fits, Guest, ListsFit, OneShop
  <2> QED BY <2>1, <2>2
<1>7. ASSUME NEW k \in DOMAIN table
      PROVE  Fits(table[k].id, sheet.id) \/ DoomedBefore(queue', Len(queue) + 1, table[k].id)
  <2>1. IsProductInCart(table[k].id) \/ Doomed(table[k].id)
    BY <1>1 DEF IInv, Order, NoGhostRows, Loading, Awaited, Guest, Alone
  <2>2. CASE IsProductInCart(table[k].id)
    BY <1>6, <2>2 DEF IsProductInCart, Ids
  <2>3. CASE Doomed(table[k].id)
    BY <1>4, <2>3 DEF Doomed, DoomedBefore
  <2> QED BY <2>1, <2>2, <2>3
<1>8. ListsFit'
  <2>1. \A n \in DOMAIN queue' : queue'[n].op = "insert" =>
          /\ queue'[n].item.id = sheet.id
          /\ \A k \in DOMAIN table : Fits(table[k].id, sheet.id) \/ DoomedBefore(queue', n, table[k].id)
    BY <1>2, <1>4, <1>5, <1>7
  <2>2. OneShop(cartProducts) /\ Distinct(cartProducts) /\ OneShop(table) /\ Distinct(table)
    BY DEF Guest, ListsFit
  <2> QED BY <1>1, <1>6, <2>1, <2>2 DEF ListsFit, OneShop, Distinct, Fits
<1>9. ShippingFits'
  <2>1. vendorShipping' \in ShipOf(sheet.id) /\ (~MultiVendor => vendorShipping' = NoShip)
    BY <1>2 DEF Guest, ShippingFits, ShipOf
  <2>2. \A k \in DOMAIN cartProducts : vendorShipping' \in ShipOf(cartProducts[k].id)
    BY <1>6, <2>1 DEF Fits, ShipOf
  <2>3. \A n \in DOMAIN queue' : queue'[n].op = "insert" =>
          {vendorShipping', queue'[n].row.ship} \subseteq ShipOf(queue'[n].item.id)
    BY <1>2, <1>4, <1>5, <2>1
  <2>4. \A k \in DOMAIN table : table[k].ship \in ShipOf(table[k].id)
    BY DEF Guest, ShippingFits
  <2> QED BY <1>1, <2>1, <2>2, <2>3, <2>4 DEF ShippingFits, ShipOf
<1> QED BY <1>1, <1>8, <1>9 DEF Guest, Alone

LEMMA DialogClearGuest ==
  ASSUME IInv, Guest, DialogClear
  PROVE  Guest'
<1>1. /\ DOMAIN cartProducts' = {} /\ ~dataUpdated'
      /\ UNCHANGED <<table, vendorShipping, calls>>
  BY DEF DialogClear, ClearCart, Empty
<1>2. ClearOp \in OpType /\ ClearOp.op = "clear"
  BY DEF ClearOp, OpType
<1>3. queue \in Seq(OpType) /\ SameOps(queue, queue) /\ queue' = Append(queue, ClearOp)
  BY SameOpsReflexive DEF DialogClear, ClearCart, Give, IInv, Types, ListsOK
<1>4. Extended
  BY <1>2, <1>3, GivenExtended
<1>5. PartOf(cartProducts', cartProducts)
  BY <1>1 DEF PartOf
<1> QED BY <1>1, <1>3, <1>4, <1>5, GuestFrame DEF Guest, Alone

LEMMA ChangeQuantityGuest ==
  ASSUME IInv, Guest, NEW p \in Product \cup Gift, NEW q \in 1 .. MaxQty, ChangeQuantity(p, q)
  PROVE  Guest'
<1>1. PICK f \in DOMAIN cartProducts :
        /\ cartProducts' = [k \in DOMAIN cartProducts |->
             IF k = f \/ SameObject(cartProducts[k], cartProducts[f])
             THEN Repriced(cartProducts[k], q) ELSE cartProducts[k]]
        /\ queue' = Append(TouchPending(cartProducts[f].tag, q), QuantityOp(p, q))
  BY DEF ChangeQuantity, Recalculate
<1>2. q \in Nat /\ \A k \in DOMAIN cartProducts :
                     cartProducts[k] \in ItemType /\ cartProducts[k].tag \in Nat
  BY BoundAssumption DEF IInv, Types, ListsOK, Bounded, ItemType
<1>3. PartOf(cartProducts', cartProducts)
  BY <1>1, <1>2, RepricedType DEF PartOf
<1> DEFINE touched == TouchPending(cartProducts[f].tag, q)
<1>4. queue \in Seq(OpType) /\ touched \in Seq(OpType) /\ SameOps(queue, touched)
  BY <1>2, TouchPendingProperties DEF IInv, Types, ListsOK
<1>5. QuantityOp(p, q) \in OpType /\ QuantityOp(p, q).op = "quantity"
  BY <1>2 DEF QuantityOp, OpType, AnyProduct
<1> HIDE DEF touched
<1>6. queue' = Append(touched, QuantityOp(p, q))
  BY <1>1 DEF touched
<1>7. Extended
  BY <1>4, <1>5, <1>6, GivenExtended
<1>8. UNCHANGED <<table, vendorShipping, dataUpdated, calls>>
  BY DEF ChangeQuantity
<1> QED BY <1>3, <1>4, <1>7, <1>8, GuestFrame DEF Guest, Alone

LEMMA DeleteFromCartGuest ==
  ASSUME IInv, Guest, NEW p \in Product, DeleteFromCart(p)
  PROVE  Guest'
<1>1. PartOf(cartProducts', cartProducts)
  BY DEF DeleteFromCart, Recalculate, Restrict, PartOf
<1>2. DeleteOp(p) \in OpType /\ DeleteOp(p).op = "delete"
  BY DEF DeleteOp, OpType, AnyProduct
<1>3. queue \in Seq(OpType) /\ SameOps(queue, queue) /\ queue' = Append(queue, DeleteOp(p))
  BY SameOpsReflexive DEF DeleteFromCart, Give, IInv, Types, ListsOK
<1>4. Extended
  BY <1>2, <1>3, GivenExtended
<1>5. UNCHANGED <<table, vendorShipping, dataUpdated, calls>>
  BY DEF DeleteFromCart
<1> QED BY <1>1, <1>3, <1>4, <1>5, GuestFrame DEF Guest, Alone

(* Steps that leave the lists and the queue alone.                           *)
LEMMA QuietGuest ==
  ASSUME Guest, UNCHANGED <<cartProducts, table, queue, calls, dataUpdated, vendorShipping>>
  PROVE  Guest'
  BY DEF Guest, Alone, ListsFit, ShippingFits, OneShop, Distinct, DoomedBefore

(* The load is the only thing waited for, and the rows are of one shop.      *)
LEMMA ExecLoadGuest ==
  ASSUME IInv, Waiting, Guest, ExecLoad
  PROVE  Guest'
<1>1. queue # <<>> /\ queue' = Tail(queue) /\ queue \in Seq(OpType) /\ Head(queue).op = "load"
  BY DEF ExecLoad, Running, IInv, Types, ListsOK
<1>2. \A n \in DOMAIN queue' : queue'[n].op # "insert"
  <2> SUFFICES ASSUME NEW n \in DOMAIN queue', queue'[n].op = "insert" PROVE FALSE
    OBVIOUS
  <2>1. n \in Nat \ {0} /\ n + 1 \in DOMAIN queue /\ queue[n + 1].op = "insert"
        /\ 1 \in DOMAIN queue /\ queue[1].op = "load"
    BY <1>1, AfterHead
  <2> QED BY <2>1 DEF Waiting, Sole
<1>3. /\ DOMAIN cartProducts' = DOMAIN table /\ table' = table
      /\ \A k \in DOMAIN table : cartProducts'[k].id = table[k].id
  BY DEF ExecLoad, Recalculate, Item
<1>4. ListsFit'
  BY <1>2, <1>3 DEF Guest, ListsFit, OneShop, Distinct
<1>5. /\ ~MultiVendor => vendorShipping' = NoShip
      /\ \A k \in DOMAIN table : vendorShipping' \in ShipOf(table[k].id)
  <2>1. CASE table = Empty
    BY <2>1 DEF ExecLoad, StoredShipping, Empty, Guest, ShippingFits
  <2>2. CASE table # Empty
    <3>1. DOMAIN table # {} /\ DOMAIN table \in SUBSET Nat
      <4>1. Bounded(table, RowType)
        BY DEF IInv, Types, ListsOK
      <4>2. DOMAIN table # {}
        BY <2>2, <4>1, EmptyHasNoPositions
      <4> QED BY <4>1, <4>2 DEF Bounded
    <3> DEFINE first == Min(DOMAIN table)
    <3>2. first \in DOMAIN table
      BY <3>1, MinOfPositions
    <3>3. vendorShipping' = table[first].ship
      BY <2>2 DEF ExecLoad, StoredShipping
    <3> HIDE DEF first
    <3>4. vendorShipping' \in ShipOf(table[first].id)
      BY <3>2, <3>3 DEF Guest, ShippingFits
    <3>5. \A k \in DOMAIN table : VendorOf[table[k].id] = VendorOf[table[first].id]
      BY <3>2 DEF Guest, ListsFit, OneShop
    <3> QED BY <3>4, <3>5 DEF ShipOf
  <2> QED BY <2>1, <2>2
<1>6. ShippingFits'
  BY <1>2, <1>3, <1>5 DEF Guest, ShippingFits, ShipOf
<1>7. UNCHANGED <<dataUpdated, calls>>
  BY DEF ExecLoad
<1> QED BY <1>4, <1>6, <1>7 DEF Guest, Alone

(* Nothing is before the insert that runs, so no row is left that it does    *)
(* not fit.                                                                  *)
LEMMA ExecInsertGuest ==
  ASSUME IInv, Waiting, Guest, ExecInsert
  PROVE  Guest'
<1> DEFINE item == queue[1].item
           row == queue[1].row
<1>1. /\ 1 \in DOMAIN queue /\ Head(queue) = queue[1] /\ queue[1].op = "insert"
      /\ row.id = item.id /\ ~Awaited'
  BY ExecInsertRuns
<1>2. /\ cartProducts' = Added(cartProducts, item) /\ table' = Added(table, row)
      /\ UNCHANGED <<dataUpdated, calls, vendorShipping>>
  BY <1>1 DEF ExecInsert, Recalculate
<1>3. \A n \in DOMAIN queue' : queue'[n].op # "insert"
  BY <1>1 DEF Awaited
<1>4. /\ \A k \in DOMAIN cartProducts : Fits(cartProducts[k].id, item.id)
      /\ \A k \in DOMAIN table : Fits(table[k].id, item.id)
      /\ {vendorShipping, row.ship} \subseteq ShipOf(item.id)
  <2>1. \A p : ~DoomedBefore(queue, 1, p)
    BY DEF DoomedBefore
  <2> QED BY <1>1, <2>1 DEF Guest, ListsFit, ShippingFits
<1>5. Bounded(cartProducts, ItemType) /\ Bounded(table, RowType)
  BY DEF IInv, Types, ListsOK
<1> HIDE DEF item, row
<1>6. \E c \in Nat :
        /\ c \notin DOMAIN cartProducts
        /\ DOMAIN Added(cartProducts, item) = DOMAIN cartProducts \cup {c}
        /\ Added(cartProducts, item)[c] = item
        /\ \A k \in DOMAIN cartProducts : Added(cartProducts, item)[k] = cartProducts[k]
  BY <1>5, AddedEntries
<1>7. \E r \in Nat :
        /\ r \notin DOMAIN table
        /\ DOMAIN Added(table, row) = DOMAIN table \cup {r}
        /\ Added(table, row)[r] = row
        /\ \A k \in DOMAIN table : Added(table, row)[k] = table[k]
  BY <1>5, AddedEntries
<1>8. OneShop(cartProducts') /\ Distinct(cartProducts')
  BY <1>2, <1>4, <1>6 DEF Guest, ListsFit, OneShop, Distinct, Fits
<1>9. OneShop(table') /\ Distinct(table')
  BY <1>1, <1>2, <1>4, <1>7 DEF Guest, ListsFit, OneShop, Distinct, Fits
<1>10. ListsFit'
  BY <1>3, <1>8, <1>9 DEF ListsFit, OneShop, Distinct
<1>11. ShippingFits'
  BY <1>1, <1>2, <1>3, <1>4, <1>6, <1>7 DEF Guest, ShippingFits, ShipOf
<1> QED BY <1>2, <1>10, <1>11 DEF Guest, Alone

LEMMA ExecRowsGuest ==
  ASSUME IInv, Guest, InsertFails \/ ExecQuantity \/ ExecDelete \/ ExecClear
  PROVE  Guest'
<1>1. /\ queue # <<>> /\ queue' = Tail(queue) /\ queue \in Seq(OpType)
      /\ UNCHANGED <<cartProducts, vendorShipping, dataUpdated, calls>>
  BY DEF InsertFails, ExecQuantity, ExecDelete, ExecClear, Running, memory, IInv, Types, ListsOK
<1>2. \A k \in DOMAIN table : table[k] \in RowType
  BY DEF IInv, Types, ListsOK, Bounded
<1>3. /\ PartOf(table', table) /\ SameShips(table', table)
      /\ \A k \in DOMAIN table' : Head(queue) \notin {DeleteOp(table'[k].id), ClearOp}
  <2>1. CASE ExecQuantity
    <3>1. Head(queue).op = "quantity"
      BY <2>1 DEF ExecQuantity, Running
    <3>2. DOMAIN table' = DOMAIN table /\ \A k \in DOMAIN table :
            table'[k] \in {table[k], [table[k] EXCEPT !.quantity = Head(queue).quantity]}
      BY <2>1 DEF ExecQuantity
    <3>3. \A k \in DOMAIN table : table'[k].id = table[k].id /\ table'[k].ship = table[k].ship
      BY <1>2, <3>2 DEF RowType
    <3> QED BY <3>1, <3>2, <3>3 DEF PartOf, SameShips, DeleteOp, ClearOp
  <2>2. CASE ExecDelete
    <3>1. Head(queue).op = "delete"
      BY <2>2 DEF ExecDelete, Running
    <3>2. \A k \in DOMAIN table' :
            k \in DOMAIN table /\ table'[k] = table[k] /\ table[k].id # Head(queue).id
      BY <2>2 DEF ExecDelete, RestrictValues, Restrict
    <3> QED BY <3>1, <3>2 DEF PartOf, SameShips, DeleteOp, ClearOp
  <2>3. CASE ExecClear
    BY <2>3 DEF ExecClear, Empty, PartOf, SameShips
  <2>4. CASE InsertFails
    BY <2>4 DEF InsertFails, Running, PartOf, SameShips, DeleteOp, ClearOp
  <2> QED BY <2>1, <2>2, <2>3, <2>4
<1> QED BY <1>1, <1>3, GuestRun DEF Guest, Alone

LEMMA KillGuest ==
  ASSUME Guest, Kill
  PROVE  Guest'
<1>1. /\ DOMAIN queue' = {1} /\ queue'[1].op = "load" /\ DOMAIN cartProducts' = {}
      /\ table' = table /\ vendorShipping' = NoShip
  BY DEF Kill, Load, Empty
<1>2. ListsFit' /\ ShippingFits'
  BY <1>1 DEF Guest, ListsFit, ShippingFits, OneShop, Distinct, ShipOf
<1> QED BY <1>2 DEF Kill, Guest, Alone

(* Without a login nothing is asked, and nothing answered.                   *)
LEMMA GuestAsksNothing ==
  ASSUME ~LoggedIn, Alone, [Next]_vars
  PROVE  \/ /\ User
            /\ ~AskServer /\ ~ActivateCoupon /\ ~PlaceOrder
            /\ ToggleEdit => UNCHANGED <<cartProducts, screen, table, queue, calls,
                                         dataUpdated, vendorShipping>>
         \/ Database \/ Kill \/ UNCHANGED vars
<1>1. ASSUME NEW s \in Slots PROVE calls[s].kind = "none"
  BY DEF Alone, NoCall
<1>2. ~Server
  BY <1>1 DEF Server, UpdateReply, UpdateFailed, CouponReply, OrderReply, OrderFailed, Answered
<1>3. ~AskServer /\ ~ActivateCoupon /\ ~PlaceOrder
  BY DEF AskServer, ActivateCoupon, PlaceOrder, OnCheckOut
<1>4. ToggleEdit => UNCHANGED <<cartProducts, screen, table, queue, calls,
                                dataUpdated, vendorShipping>>
  BY DEF ToggleEdit
<1> QED BY <1>2, <1>3, <1>4 DEF Next

LEMMA NextKeepsGuest ==
  ASSUME IInv, Patient, ~LoggedIn, Waiting, Guest, [Next]_vars
  PROVE  Guest'
<1>1. CASE User /\ ~AskServer /\ ~ActivateCoupon /\ ~PlaceOrder /\ ~ToggleEdit
  <2>1. CASE (\E p \in Product : OpenSheet(p)) \/ CloseSheet \/ AddRefused \/ DialogClose
    BY <2>1, QuietGuest DEF OpenSheet, CloseSheet, AddRefused, DialogClose, memory
  <2> QED BY <1>1, <2>1, SetValuesGuest, AddToCartGuest, DialogClearGuest,
             ChangeQuantityGuest, DeleteFromCartGuest DEF User
<1>2. CASE UNCHANGED <<cartProducts, screen, table, queue, calls, dataUpdated, vendorShipping>>
  BY <1>2, QuietGuest
<1>3. CASE Database
  BY <1>3, ExecLoadGuest, ExecInsertGuest, ExecRowsGuest DEF Database
<1>4. CASE Kill
  BY <1>4, KillGuest
<1>5. CASE UNCHANGED vars
  BY <1>5, QuietGuest DEF vars, memory
<1> QED BY <1>1, <1>2, <1>3, <1>4, <1>5, GuestAsksNothing DEF Guest

(* For a guest who waits, what is in the cart, stored and on its way fits.   *)
LEMMA SpecGuest == ASSUME Patient, ~LoggedIn PROVE Spec => [](IInv /\ Waiting /\ Guest)
<1>1. Init => Guest
  BY InitGuest
<1>2. IInv /\ Waiting /\ Guest /\ [Next]_vars => Guest'
  BY NextKeepsGuest
<1> QED BY <1>1, <1>2, SpecWaiting, PTL DEF Spec

(* The cart of a patient guest holds items of one shop, whatever he adds,    *)
(* deletes and clears while operations wait, and whenever the process dies:  *)
(* isFromTheSameVendor is asked before an await and still right after it.    *)
THEOREM CartIsOfOneShop == ASSUME Patient, ~LoggedIn PROVE Spec => []OneVendor
<1>1. Guest => OneVendor
  BY DEF Guest, ListsFit, OneShop, OneVendor
<1> QED BY <1>1, SpecGuest, PTL

(* No product is twice in the cart of a patient guest, after any starts: the *)
(* product looked for before the await is not added meanwhile.               *)
THEOREM NothingTwice == ASSUME Patient, ~LoggedIn PROVE Spec => []NoDuplicates
<1>1. Guest => NoDuplicates
  BY DEF Guest, ListsFit, Distinct, NoDuplicates
<1> QED BY <1>1, SpecGuest, PTL

(* The shipping held by the cart of a patient guest is that of the shop of   *)
(* every item in it, at all times, also when a start reads it from the first *)
(* row of the table.                                                         *)
THEOREM ShippingIsOfTheShop == ASSUME Patient, ~LoggedIn PROVE Spec => []ShippingOfTheVendor
<1>1. Guest => ShippingOfTheVendor
  BY DEF Guest, ShippingFits, ShipOf, ShippingOfTheVendor
<1> QED BY <1>1, SpecGuest, PTL
=============================================================================
