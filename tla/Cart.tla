-------------------------------- MODULE Cart --------------------------------
(***************************************************************************)
(* The shopping cart: lib/controllers/cart_controller.dart, the table it   *)
(* is kept in (lib/services/local_storage/cart_db.dart) and the requests   *)
(* it makes (cart_update, coupon, order).                                  *)
(*                                                                         *)
(* The app is one Dart isolate: a handler runs without interruption up to  *)
(* its next await.  What it awaits is explicit state here:                 *)
(*   queue  the operations given to the database and not yet executed; the *)
(*          plugin executes and answers them in the order they were given; *)
(*   calls  the HTTP requests in flight, answered in any order, or never.  *)
(* A Dart list or a table is a function from positions to entries: entries *)
(* are added after the last position, a removal leaves a gap, the order of *)
(* the positions is the order of the list.                                 *)
(* Kill is the death of the process followed by a new start: memory, queue *)
(* and calls are lost, the table stays.                                    *)
(***************************************************************************)
EXTENDS Integers, Sequences, FiniteSetsExt, Functions, SequencesExt

CONSTANTS
  Product,     \* the products that can be put in the cart
  Gift,        \* the products the server may add as a free gift
  VendorOf,    \* VendorOf[p]: product.vendorId
  UnitPrice,   \* UnitPrice[p]: price of one unit of the selected packaging
  UnitPoints,  \* UnitPoints[p]: points of one unit
  NoShip,      \* no vendor shipping: null or ''
  MultiVendor, \* settings: shipping is the vendor's, not the area's
  LoggedIn,    \* a user is logged in: only then the server is asked
  Unsure,      \* the products whose row the table may refuse: a column without a
               \* value (product.g.dart has a default for each but the id), or an error
  Patient,     \* the user leaves the sheet alone while the first load or an add runs
  ServerFails, \* a request may be answered with an error
  ServerDrops, \* cart_update may leave out products it was asked about
  MaxQty,      \* bound: largest quantity
  MaxSheets,   \* bound: product sheets opened in one life of the process
  MaxQueue,    \* bound: database operations waiting
  MaxCalls,    \* bound: requests in flight
  MaxKills     \* bound: times the process is killed

ASSUME CatalogueAssumption ==
  /\ UnitPrice \in [Product \cup Gift -> Nat]
  /\ UnitPoints \in [Product \cup Gift -> Nat]
  /\ DOMAIN VendorOf = Product \cup Gift
ASSUME EnvironmentAssumption ==
  /\ {MultiVendor, LoggedIn, Patient, ServerFails, ServerDrops} \subseteq BOOLEAN
  /\ Unsure \subseteq Product
ASSUME BoundAssumption ==
  {MaxQty, MaxSheets, MaxQueue, MaxCalls, MaxKills} \subseteq Nat

VARIABLES
  cartProducts, isLoading, dataUpdated, editMood,
  cartTotalPrices, totalPoints,
  cartDetails,     \* "none", or whether the server granted a "discount"
  userCoupon,      \* "none", "with_offer" or "no_offer" (couponData['with_offer'] == 0)
  vendorShipping,  \* the vendor whose shipping cost is held, or NoShip
  sheet,           \* the product sheet on screen: its cart item, or NoSheet
  dialog,          \* the dialog about different shops is on screen
  table,           \* the rows of the cart table
  queue, calls,    \* see above
  sheets, kills    \* counted for the bounds; a sheet's number identifies its item

memory == <<cartProducts, isLoading, dataUpdated, editMood, cartTotalPrices,
            totalPoints, cartDetails, userCoupon, vendorShipping>>
screen == <<sheet, dialog, sheets>>
vars   == <<memory, screen, table, queue, calls, kills>>

-----------------------------------------------------------------------------
(* Items.  Dart shares objects: an item keeps in tag the number of the sheet *)
(* it came from, and items with the same tag are the same object.  Items     *)
(* read from the table or from a reply are new objects, with tag 0.          *)
NoSheet == [id |-> "none"]
NoCall == [kind |-> "none"]
Slots == 1 .. MaxCalls   \* places for requests in flight
Item(p, q, price, gift, tag) ==
  [id |-> p, quantity |-> q, totalPrice |-> price, gift |-> gift, tag |-> tag]

\* calculatePrice, for a new quantity.
Repriced(item, q) ==
  [item EXCEPT !.quantity = q, !.totalPrice = q * UnitPrice[item.id]]

SameObject(a, b) == a.tag # 0 /\ a.tag = b.tag

Empty == <<>>
LastPosition(list) == IF list = Empty THEN 0 ELSE Max(DOMAIN list)
Added(list, e) == [k \in DOMAIN list \cup {LastPosition(list) + 1} |->
                     IF k \in DOMAIN list THEN list[k] ELSE e]
Ids(list) == {list[k].id : k \in DOMAIN list}

\* The loop of changeTotalPrice.
TotalPrice(cart) ==
  SumFunction([k \in DOMAIN cart |-> IF cart[k].gift THEN 0 ELSE cart[k].totalPrice])

\* The loop of calculateTotalPoints, over the points of each item.
Points(cart) ==
  SumFunction([k \in DOMAIN cart |-> UnitPoints[cart[k].id] * cart[k].quantity])

\* Mutants are changed forms of the definition that follows them, the way a bug
\* would change it: each must break a property.  Here: only the last item is
\* compared; a single item is not compared; the points are forgotten.
IsLastInCart(p) ==
  cartProducts # Empty /\ cartProducts[LastPosition(cartProducts)].id = p
IsProductInCart(p) == p \in Ids(cartProducts)
\* getCartById: the first item of that product.
IsFirst(k, p) == /\ cartProducts[k].id = p
                 /\ \A j \in DOMAIN cartProducts : cartProducts[j].id = p => k <= j
IsFromTheSameVendorAsTwo(p) ==
  \/ Cardinality(DOMAIN cartProducts) <= 1
  \/ \E k \in DOMAIN cartProducts : VendorOf[cartProducts[k].id] = VendorOf[p]
IsFromTheSameVendor(p) ==
  \/ cartProducts = Empty
  \/ \E k \in DOMAIN cartProducts : VendorOf[cartProducts[k].id] = VendorOf[p]
HasDiscount == cartDetails = "discount"

RecalculatePrice(c) ==
  /\ cartProducts' = c
  /\ cartTotalPrices' = TotalPrice(c)
  /\ totalPoints' = totalPoints
\* The cart becomes c; points are left alone when nothing is in it.
Recalculate(c) ==
  /\ cartProducts' = c
  /\ cartTotalPrices' = TotalPrice(c)
  /\ totalPoints' = IF c = Empty THEN totalPoints ELSE Points(c)

-----------------------------------------------------------------------------
(* Database operations                                                       *)
Load == [op |-> "load"]
InsertOp(row, item) == [op |-> "insert", row |-> row, item |-> item]
QuantityOp(p, q) == [op |-> "quantity", id |-> p, quantity |-> q]
DeleteOp(p) == [op |-> "delete", id |-> p]
ClearOp == [op |-> "clear"]

Give(o) == Len(queue) < MaxQueue /\ queue' = Append(queue, o)
Running(o) == queue # <<>> /\ Head(queue).op = o

\* A pending insert holds the sheet's object: a change to it reaches there too.
TouchPending(tag, q) ==
  [k \in DOMAIN queue |->
     IF queue[k].op = "insert" /\ tag # 0 /\ queue[k].item.tag = tag
     THEN [queue[k] EXCEPT !.item = Repriced(@, q)] ELSE queue[k]]

Awaited == \E k \in DOMAIN queue : queue[k].op \in {"load", "insert"}
Loading == \E k \in DOMAIN queue : queue[k].op = "load"
Modal == sheet # NoSheet \/ dialog

-----------------------------------------------------------------------------
(* onInit: getAllProducts has set isLoading and waits for the table.         *)
\* The app is installed: the table is empty.
Init ==
  /\ cartProducts = Empty /\ cartTotalPrices = 0 /\ totalPoints = 0
  /\ isLoading = TRUE /\ dataUpdated = FALSE /\ editMood = FALSE
  /\ cartDetails = "none" /\ userCoupon = "none" /\ vendorShipping = NoShip
  /\ sheet = NoSheet /\ dialog = FALSE /\ sheets = 0
  /\ queue = <<Load>> /\ calls = [s \in Slots |-> NoCall]
  /\ table = Empty /\ kills = 0

Kill ==
  /\ kills < MaxKills /\ kills' = kills + 1
  /\ cartProducts' = Empty /\ cartTotalPrices' = 0 /\ totalPoints' = 0
  /\ isLoading' = TRUE /\ dataUpdated' = FALSE /\ editMood' = FALSE
  /\ cartDetails' = "none" /\ userCoupon' = "none" /\ vendorShipping' = NoShip
  /\ sheet' = NoSheet /\ dialog' = FALSE /\ sheets' = 0
  /\ queue' = <<Load>> /\ calls' = [s \in Slots |-> NoCall]
  /\ UNCHANGED table

-----------------------------------------------------------------------------
(* The product sheet and addToCart                                           *)
OpenSheet(p) ==
  /\ ~Modal /\ ~IsProductInCart(p) /\ sheets < MaxSheets
  /\ sheets' = sheets + 1
  /\ sheet' = Item(p, 0, 0, FALSE, sheets')
  /\ UNCHANGED <<memory, dialog, table, queue, calls, kills>>

CloseSheet ==
  /\ sheet # NoSheet /\ ~dialog
  /\ sheet' = NoSheet
  /\ UNCHANGED <<memory, dialog, sheets, table, queue, calls, kills>>

\* setValues: the item may already be in the cart or on its way there.
SetValues(q) ==
  /\ sheet # NoSheet /\ ~dialog /\ sheet.quantity # q
  /\ Patient => ~Awaited
  /\ sheet' = Repriced(sheet, q)
  /\ cartProducts' = [k \in DOMAIN cartProducts |->
                        IF SameObject(cartProducts[k], sheet)
                        THEN Repriced(cartProducts[k], q) ELSE cartProducts[k]]
  /\ queue' = TouchPending(sheet.tag, q)
  /\ UNCHANGED <<isLoading, dataUpdated, editMood, cartTotalPrices, totalPoints,
                 cartDetails, userCoupon, vendorShipping, dialog, sheets, table,
                 calls, kills>>

\* The sheet's button is dead until setValues has chosen a packaging (type), and
\* with it a quantity.
ButtonIsLive == sheet # NoSheet /\ ~dialog /\ sheet.quantity > 0

\* The button is tapped and addToCart does not find the product in the cart.
CanTapAdd == /\ ButtonIsLive
             /\ Patient => ~Awaited
             /\ ~IsProductInCart(sheet.id)

\* Mutant: the shipping of an earlier cart is kept.
FirstShipping(ship) ==
  IF MultiVendor /\ vendorShipping = NoShip THEN ship ELSE vendorShipping
ShippingAfterAdd(ship) == IF MultiVendor THEN ship ELSE vendorShipping

\* Mutant: the item is shown before it is written.
AddToCartAtOnce ==
  /\ CanTapAdd /\ IsFromTheSameVendor(sheet.id)
  /\ Recalculate(Added(cartProducts, sheet))
  /\ \E ship \in IF MultiVendor THEN {VendorOf[sheet.id], NoShip} ELSE {NoShip} :
       /\ vendorShipping' = ShippingAfterAdd(ship)
       /\ Give(InsertOp([id |-> sheet.id, quantity |-> sheet.quantity,
                         totalPrice |-> sheet.totalPrice, ship |-> ship], sheet))
  /\ UNCHANGED <<isLoading, dataUpdated, editMood, cartDetails, userCoupon, screen,
                 table, calls, kills>>

\* getVendorShipping: '' when the vendor's list on screen has not this vendor.
AddToCart ==
  /\ CanTapAdd /\ IsFromTheSameVendor(sheet.id)
  /\ \E ship \in IF MultiVendor THEN {VendorOf[sheet.id], NoShip} ELSE {NoShip} :
       /\ vendorShipping' = ShippingAfterAdd(ship)
       /\ Give(InsertOp([id |-> sheet.id, quantity |-> sheet.quantity,
                         totalPrice |-> sheet.totalPrice, ship |-> ship], sheet))
  /\ UNCHANGED <<cartProducts, isLoading, dataUpdated, editMood, cartTotalPrices,
                 totalPoints, cartDetails, userCoupon, screen, table, calls, kills>>

AddRefused ==
  /\ CanTapAdd /\ ~IsFromTheSameVendor(sheet.id)
  /\ dialog' = TRUE
  /\ UNCHANGED <<memory, sheet, sheets, table, queue, calls, kills>>

\* Mutant: the table is forgotten.
ClearCartOnScreen ==
  /\ cartProducts' = Empty /\ cartTotalPrices' = 0 /\ totalPoints' = 0
  /\ dataUpdated' = FALSE /\ cartDetails' = "none" /\ userCoupon' = "none"
  /\ UNCHANGED <<isLoading, editMood, vendorShipping, queue>>

ClearCart ==
  /\ Give(ClearOp)
  /\ cartProducts' = Empty /\ cartTotalPrices' = 0 /\ totalPoints' = 0
  /\ dataUpdated' = FALSE /\ cartDetails' = "none" /\ userCoupon' = "none"
  /\ UNCHANGED <<isLoading, editMood, vendorShipping>>

DialogClear ==
  /\ dialog /\ dialog' = FALSE
  /\ ClearCart
  /\ UNCHANGED <<sheet, sheets, table, calls, kills>>

\* The dialog is dismissed, or left by its OK, which also leaves the sheet.
DialogClose ==
  /\ dialog /\ dialog' = FALSE
  /\ sheet' \in {sheet, NoSheet}
  /\ UNCHANGED <<memory, sheets, table, queue, calls, kills>>

-----------------------------------------------------------------------------
(* Changes made on the cart screen and on the product cards                  *)
\* The other occurrences of the same object change with the first one.
ChangeQuantity(p, q) ==
  /\ ~Modal
  /\ \E f \in DOMAIN cartProducts :
       /\ IsFirst(f, p) /\ q # cartProducts[f].quantity
       /\ Recalculate([k \in DOMAIN cartProducts |->
            IF k = f \/ SameObject(cartProducts[k], cartProducts[f])
            THEN Repriced(cartProducts[k], q) ELSE cartProducts[k]])
       /\ Len(queue) < MaxQueue
       /\ queue' = Append(TouchPending(cartProducts[f].tag, q), QuantityOp(p, q))
  /\ UNCHANGED <<isLoading, dataUpdated, editMood, cartDetails, userCoupon,
                 vendorShipping, screen, table, calls, kills>>

\* Mutant: the row is not deleted.
DeleteFromScreen(p) ==
  /\ ~Modal /\ editMood /\ ~isLoading
  /\ \E k \in DOMAIN cartProducts : cartProducts[k].id = p /\ ~cartProducts[k].gift
  /\ \E f \in DOMAIN cartProducts :
       IsFirst(f, p) /\ Recalculate(Restrict(cartProducts, DOMAIN cartProducts \ {f}))
  /\ editMood' = (cartProducts' # Empty)
  /\ UNCHANGED <<isLoading, dataUpdated, cartDetails, userCoupon, vendorShipping,
                 screen, table, queue, calls, kills>>

\* The delete button of the tiles that are not gifts.
DeleteFromCart(p) ==
  /\ ~Modal /\ editMood /\ ~isLoading
  /\ \E k \in DOMAIN cartProducts : cartProducts[k].id = p /\ ~cartProducts[k].gift
  /\ \E f \in DOMAIN cartProducts :
       IsFirst(f, p) /\ Recalculate(Restrict(cartProducts, DOMAIN cartProducts \ {f}))
  /\ editMood' = (cartProducts' # Empty)
  /\ Give(DeleteOp(p))
  /\ UNCHANGED <<isLoading, dataUpdated, cartDetails, userCoupon, vendorShipping,
                 screen, table, calls, kills>>

-----------------------------------------------------------------------------
(* Requests                                                                  *)
Call(c) == \E s \in Slots : /\ calls[s] = NoCall
                            /\ \A r \in Slots : r < s => calls[r] # NoCall
                            /\ calls' = [calls EXCEPT ![s] = c]
Answered(s, kind) == calls[s].kind = kind /\ calls' = [calls EXCEPT ![s] = NoCall]

GiftsOf(v) == {g \in Gift : VendorOf[g] = v}
\* vendorId: cartProducts[0].product.vendorId
VendorOfCart == VendorOf[cartProducts[Min(DOMAIN cartProducts)].id]

Paid == RestrictValues(cartProducts, LAMBDA i : ~i.gift)

\* updateCartData up to its await.
UpdateCartData ==
  IF cartProducts = Empty THEN UNCHANGED <<isLoading, calls>>
  ELSE /\ isLoading' = TRUE
       /\ Call([kind |-> "update", vendor |-> VendorOfCart,
                items |-> [k \in DOMAIN Paid |-> [id |-> Paid[k].id,
                                                 quantity |-> Paid[k].quantity]]])

\* The cart screen is opened, or its button asks to confirm the cart.
AskServer ==
  /\ LoggedIn /\ ~Modal /\ cartProducts # Empty
  /\ UpdateCartData
  /\ UNCHANGED <<cartProducts, dataUpdated, editMood, cartTotalPrices, totalPoints,
                 cartDetails, userCoupon, vendorShipping, screen, table, queue, kills>>

ToggleEdit ==
  /\ ~Modal /\ ~isLoading
  /\ editMood' = ~editMood
  /\ IF ~editMood' /\ LoggedIn THEN UpdateCartData ELSE UNCHANGED <<isLoading, calls>>
  /\ UNCHANGED <<cartProducts, dataUpdated, cartTotalPrices, totalPoints,
                 cartDetails, userCoupon, vendorShipping, screen, table, queue, kills>>

\* The server keeps what it can deliver and may add a gift of the vendor it was
\* asked about, or a discount.
\* A listed item is a new object, whose price updateCartData calculates.
Listed(p, q, gift) == Repriced(Item(p, 0, 0, gift, 0), q)

\* Mutant: the loading view is left on.
ConfirmedLoading(details) ==
  /\ cartDetails' = details
  /\ isLoading' = isLoading /\ editMood' = FALSE /\ dataUpdated' = TRUE
Confirmed(details) ==
  /\ cartDetails' = details
  /\ isLoading' = FALSE /\ editMood' = FALSE /\ dataUpdated' = TRUE

UpdateReply(s) ==
  /\ Answered(s, "update")
  /\ LET asked == calls[s].items
     IN  \E kept \in IF ServerDrops THEN SUBSET Ids(asked) ELSE {Ids(asked)},
            details \in {"plain", "discount"} :
           LET sold == [k \in DOMAIN RestrictValues(asked, LAMBDA i : i.id \in kept) |->
                          Listed(asked[k].id, asked[k].quantity, FALSE)]
           IN  /\ \/ Recalculate(sold)
                  \/ \E g \in GiftsOf(calls[s].vendor) :
                       Recalculate(Added(sold, Listed(g, 1, TRUE)))
               /\ Confirmed(details)
  /\ UNCHANGED <<userCoupon, vendorShipping, screen, table, queue, kills>>

\* cartUpdate returns {}: nothing is assigned, isLoading included.
UpdateFailed(s) ==
  /\ ServerFails /\ Answered(s, "update")
  /\ UNCHANGED <<memory, screen, table, queue, kills>>

\* The check-out screen is entered from a confirmed cart.
OnCheckOut == LoggedIn /\ dataUpdated /\ cartProducts # Empty /\ ~Modal

ActivateCoupon ==
  /\ OnCheckOut
  /\ Call([kind |-> "coupon", hasDiscount |-> HasDiscount])
  /\ UNCHANGED <<memory, screen, table, queue, kills>>

\* Refusal and failure both return null, which replaces an earlier coupon.
CouponReply(s) ==
  /\ Answered(s, "coupon")
  /\ userCoupon' \in {"none", "with_offer"}
                     \cup IF calls[s].hasDiscount THEN {} ELSE {"no_offer"}
  /\ UNCHANGED <<cartProducts, isLoading, dataUpdated, editMood, cartTotalPrices,
                 totalPoints, cartDetails, vendorShipping, screen, table, queue, kills>>

PlaceOrder ==
  /\ OnCheckOut
  /\ Call([kind |-> "order"])
  /\ UNCHANGED <<memory, screen, table, queue, kills>>

\* The order is accepted: Get.offAll closes whatever is open, the cart is cleared.
OrderReply(s) ==
  /\ Answered(s, "order")
  /\ sheet' = NoSheet /\ dialog' = FALSE
  /\ ClearCart
  /\ UNCHANGED <<sheets, table, kills>>

\* Mutant: the cart is cleared whatever the answer.
OrderFailedCleared(s) ==
  /\ ServerFails /\ Answered(s, "order")
  /\ ClearCart
  /\ UNCHANGED <<screen, table, kills>>

OrderFailed(s) ==
  /\ ServerFails /\ Answered(s, "order")
  /\ UNCHANGED <<memory, screen, table, queue, kills>>

-----------------------------------------------------------------------------
(* The database executes the oldest operation and the awaiting code goes on. *)

\* Mutant: the shipping is read from the wrong column.
StoredId == IF table = Empty THEN vendorShipping ELSE table[Min(DOMAIN table)].id
StoredShipping == IF table = Empty THEN vendorShipping ELSE table[Min(DOMAIN table)].ship

ExecLoad ==
  /\ Running("load") /\ queue' = Tail(queue)
  /\ Recalculate([k \in DOMAIN table |->
                    Item(table[k].id, table[k].quantity, table[k].totalPrice, FALSE, 0)])
  /\ vendorShipping' = StoredShipping
  /\ isLoading' = FALSE
  /\ UNCHANGED <<dataUpdated, editMood, cartDetails, userCoupon, screen, table,
                 calls, kills>>

\* Mutant: when the sheet has been left nothing more is done.
ExecInsertIfOpen ==
  /\ Running("insert") /\ queue' = Tail(queue)
  /\ table' = Added(table, Head(queue).row)
  /\ IF sheet = NoSheet THEN UNCHANGED <<cartProducts, cartTotalPrices, totalPoints>>
     ELSE Recalculate(Added(cartProducts, Head(queue).item))
  /\ dialog' = FALSE
  /\ sheet' = IF dialog THEN sheet ELSE NoSheet
  /\ UNCHANGED <<isLoading, dataUpdated, editMood, cartDetails, userCoupon,
                 vendorShipping, sheets, calls, kills>>

\* insertProduct, then the rest of addToCart; Get.back closes what is on top.
ExecInsert ==
  /\ Running("insert") /\ queue' = Tail(queue)
  /\ table' = Added(table, Head(queue).row)
  /\ Recalculate(Added(cartProducts, Head(queue).item))
  /\ dialog' = FALSE
  /\ sheet' = IF dialog THEN sheet ELSE NoSheet
  /\ UNCHANGED <<isLoading, dataUpdated, editMood, cartDetails, userCoupon,
                 vendorShipping, sheets, calls, kills>>

\* insertProduct throws, and nothing in addToCart catches: the sheet stays as it
\* is, with an item that is nowhere, and only the shipping has been set.
InsertFails ==
  /\ Running("insert") /\ queue' = Tail(queue)
  /\ Head(queue).item.id \in Unsure
  /\ UNCHANGED <<memory, screen, table, calls, kills>>

\* Mutant: no WHERE.
ExecQuantityEverywhere ==
  /\ Running("quantity") /\ queue' = Tail(queue)
  /\ table' = [k \in DOMAIN table |-> [table[k] EXCEPT !.quantity = Head(queue).quantity]]
  /\ UNCHANGED <<memory, screen, calls, kills>>

ExecQuantity ==
  /\ Running("quantity") /\ queue' = Tail(queue)
  /\ table' = [k \in DOMAIN table |->
                 IF table[k].id = Head(queue).id
                 THEN [table[k] EXCEPT !.quantity = Head(queue).quantity] ELSE table[k]]
  /\ UNCHANGED <<memory, screen, calls, kills>>

ExecDelete ==
  /\ Running("delete") /\ queue' = Tail(queue)
  /\ table' = RestrictValues(table, LAMBDA r : r.id # Head(queue).id)
  /\ UNCHANGED <<memory, screen, calls, kills>>

ExecClear ==
  /\ Running("clear") /\ queue' = Tail(queue)
  /\ table' = Empty
  /\ UNCHANGED <<memory, screen, calls, kills>>

-----------------------------------------------------------------------------
User == \/ \E p \in Product : OpenSheet(p) \/ DeleteFromCart(p)
        \/ \E p \in Product \cup Gift, q \in 1 .. MaxQty : ChangeQuantity(p, q)
        \/ \E q \in 1 .. MaxQty : SetValues(q)
        \/ CloseSheet \/ AddToCart \/ AddRefused \/ DialogClear \/ DialogClose
        \/ AskServer \/ ToggleEdit \/ ActivateCoupon \/ PlaceOrder

Database == ExecLoad \/ ExecInsert \/ InsertFails \/ ExecQuantity \/ ExecDelete \/ ExecClear

Server == \E s \in Slots :
            \/ UpdateReply(s) \/ UpdateFailed(s) \/ CouponReply(s)
            \/ OrderReply(s) \/ OrderFailed(s)

Next == User \/ Database \/ Server \/ Kill

Spec == Init /\ [][Next]_vars

-----------------------------------------------------------------------------
(* Properties                                                                *)
AnyProduct == Product \cup Gift
Vendors == {VendorOf[p] : p \in AnyProduct}
ItemType == [id : AnyProduct, quantity : Nat, totalPrice : Nat, gift : BOOLEAN, tag : Nat]
RowType == [id : AnyProduct, quantity : Nat, totalPrice : Nat, ship : {NoShip} \cup Vendors]
OpType == [op : {"load", "clear"}] \cup [op : {"delete"}, id : AnyProduct]
          \cup [op : {"quantity"}, id : AnyProduct, quantity : Nat]
          \cup [op : {"insert"}, row : RowType, item : ItemType]
IsList(f, T) == /\ DOMAIN f \subseteq Nat \ {0}
                /\ IsFiniteSet(DOMAIN f)
                /\ f \in [DOMAIN f -> T]
IsCall(c) == \/ c \in {NoCall} \cup [kind : {"order"}]
             \/ c \in [kind : {"coupon"}, hasDiscount : BOOLEAN]
             \/ /\ c = [kind |-> "update", vendor |-> c.vendor, items |-> c.items]
                /\ c.vendor \in Vendors
                /\ IsList(c.items, [id : AnyProduct, quantity : Nat])

\* cartTotalPrices and totalPoints are described by SumsMatchItems.
TypeOK ==
  /\ IsList(cartProducts, ItemType)
  /\ isLoading \in BOOLEAN /\ dataUpdated \in BOOLEAN
  /\ editMood \in BOOLEAN /\ dialog \in BOOLEAN
  /\ cartDetails \in {"none", "plain", "discount"}
  /\ userCoupon \in {"none", "with_offer", "no_offer"}
  /\ vendorShipping \in {NoShip} \cup Vendors
  /\ sheet \in ItemType \cup {NoSheet}
  /\ IsList(table, RowType)
  /\ queue \in Seq(OpType)
  /\ DOMAIN calls = Slots /\ \A s \in Slots : IsCall(calls[s])
  /\ sheets \in Nat /\ kills \in Nat

\* The first load of the table can never overwrite an item added meanwhile: as
\* long as it has not come back nothing is in memory, and no second load waits.
LoadComesFirst ==
  Loading => /\ cartProducts = Empty
             /\ Head(queue).op = "load"
             /\ \A k \in 2 .. Len(queue) : queue[k].op # "load"

\* The waiting operations that will remove the rows of p.
Doomed(p) == \E k \in DOMAIN queue : queue[k] \in {DeleteOp(p), ClearOp}

\* Nothing deleted or cleared comes back at a later start: until the server has
\* replaced the list, every row of the table is an item on screen or is about
\* to be removed.  (During the first load the rows are about to be shown.)
NoGhostRows ==
  ~Loading /\ ~dataUpdated =>
    \A k \in DOMAIN table : IsProductInCart(table[k].id) \/ Doomed(table[k].id)

\* A product appears in the cart only when it is on disk, or because the server
\* listed it: an item the user has seen added survives a crash right after.
ShownOnceWritten ==
  [][ \A p \in Ids(cartProducts)' \ Ids(cartProducts) :
        p \in Ids(table)' \/ calls' # calls ]_vars

\* 'you_cant_add_items_from_different_shops'
OneVendor ==
  \A j, k \in DOMAIN cartProducts :
    VendorOf[cartProducts[j].id] = VendorOf[cartProducts[k].id]

\* No product is twice in the cart.
NoDuplicates ==
  \A j, k \in DOMAIN cartProducts : cartProducts[j].id = cartProducts[k].id => j = k

\* The sums on the cart screen are those of the items it lists.
SumsMatchItems ==
  cartProducts # Empty => /\ cartTotalPrices = TotalPrice(cartProducts)
                         /\ totalPoints = Points(cartProducts)

\* The shipping that an order would be charged is that of the shop in the cart.
ShippingOfTheVendor ==
  \A k \in DOMAIN cartProducts :
    vendorShipping \in {VendorOf[cartProducts[k].id], NoShip} \/ Awaited

\* A tapped add ends in the cart, whatever else is tapped meanwhile, unless the
\* process dies (and loads again) or the table refuses the row.
AddLands ==
  \A p \in Product \ Unsure :
    (\E k \in DOMAIN queue : queue[k].op = "insert" /\ queue[k].row.id = p)
      ~> (IsProductInCart(p) \/ Loading)
=============================================================================
