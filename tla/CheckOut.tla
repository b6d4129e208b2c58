------------------------------ MODULE CheckOut ------------------------------
(***************************************************************************)
(* Ordering: the cart (module Cart) with the screens that lead from it to  *)
(* an order (cart_screen, user_addresses, check_out_screen) and the orders *)
(* the server takes (order_services).  A step is a step of the cart on the *)
(* screen that offers it, or a move between screens, or the server taking  *)
(* an order: its answer is another step, and may be lost.                  *)
(*                                                                         *)
(* Left out: the account that must be activated first, the address (module *)
(* Addresses) and the coupon (in Cart alone).                              *)
(***************************************************************************)
EXTENDS Cart

CONSTANT Careful  \* away from the shop the user lets what is under way end first
ASSUME CarefulAssumption == Careful \in BOOLEAN

VARIABLES
  place,    \* the screen: "shop", "cart", "addresses", "checkOut"; "opening" is
            \* a cart screen whose initState has still to ask the server
  sent,     \* sent[s]: the order that the request in slot s carries
  priced,   \* the items cartDetails was made for
  ordered,  \* history: products ordered and paid for, and not added since
  failed    \* history: an answer was lost, or a death undid the end of an order

history == <<ordered, failed>>
coVars == <<vars, place, sent, priced, history>>

NoOrder == [items |-> {}, accepted |-> FALSE]
Items(list) == {<<list[k].id, list[k].quantity>> : k \in DOMAIN list}
Idle == ~Awaited /\ \A s \in Slots : calls[s] = NoCall
Tapped == Careful => Idle

COInit ==
  /\ Init
  /\ place = "shop" /\ sent = [s \in Slots |-> NoOrder] /\ priced = {}
  /\ ordered = {} /\ failed = FALSE

-----------------------------------------------------------------------------
(* Screens.  The cart screen asks the server a moment after it is built.     *)
Go(from, to) == place = from /\ ~Modal /\ place' = to

Move ==
  /\ \/ Go("shop", "opening") \/ Go("cart", "shop")
     \/ Go("addresses", "checkOut") \/ Go("checkOut", "addresses")
     \/ Go("addresses", "cart")
  /\ Tapped
  /\ UNCHANGED <<vars, sent, priced, ordered, failed>>

CartOpened ==
  /\ place = "opening" /\ place' = "cart"
  /\ IF LoggedIn /\ cartProducts # Empty THEN AskServer ELSE UNCHANGED vars
  /\ UNCHANGED <<sent, priced, history>>

\* The button is there when the cart is neither empty nor being edited.
CanOrder == place = "cart" /\ cartProducts # Empty /\ ~editMood

\* Mutant: the button stays while the cart is edited.
OrderButtonAlways ==
  /\ place = "cart" /\ cartProducts # Empty /\ Tapped
  /\ IF dataUpdated THEN LoggedIn /\ place' = "addresses" /\ UNCHANGED vars
                    ELSE AskServer /\ UNCHANGED place
  /\ UNCHANGED <<sent, priced, ordered, failed>>

OrderButton ==
  /\ CanOrder /\ Tapped
  /\ IF dataUpdated THEN LoggedIn /\ place' = "addresses" /\ UNCHANGED vars
                    ELSE AskServer /\ UNCHANGED place
  /\ UNCHANGED <<sent, priced, ordered, failed>>

-----------------------------------------------------------------------------
(* What the screens offer                                                    *)
\* Leaving the dialog by its OK opens the cart screen.
InShop ==
  /\ place = "shop"
  /\ \/ /\ \/ \E p \in Product : OpenSheet(p)
           \/ \E p \in Product, q \in 1 .. MaxQty : ChangeQuantity(p, q)
           \/ \E q \in 1 .. MaxQty : SetValues(q)
           \/ CloseSheet \/ AddToCart \/ AddRefused \/ DialogClear
        /\ UNCHANGED place
     \/ DialogClose /\ place' = IF sheet' = sheet THEN place ELSE "opening"
  /\ UNCHANGED <<sent, priced, ordered, failed>>

\* The tiles are replaced by the loading view; gifts have no controls.
Editable(p) == editMood /\ ~isLoading
               /\ \E k \in DOMAIN cartProducts : cartProducts[k].id = p /\ ~cartProducts[k].gift
InCart ==
  /\ place = "cart" /\ Tapped
  /\ \/ \E p \in Product : DeleteFromCart(p)
     \/ \E p \in Product, q \in 1 .. MaxQty : Editable(p) /\ ChangeQuantity(p, q)
     \/ ToggleEdit
  /\ UNCHANGED <<place, sent, priced, ordered, failed>>

\* placeOrder reads the items when it is tapped.
OnCheckOutScreen ==
  /\ place = "checkOut" /\ Tapped
  /\ PlaceOrder
  /\ sent' = [s \in Slots |-> IF calls'[s] = calls[s] THEN sent[s]
                              ELSE [items |-> Items(cartProducts), accepted |-> FALSE]]
  /\ UNCHANGED <<place, priced, ordered, failed>>

-----------------------------------------------------------------------------
(* What happens by itself                                                    *)
\* Get.back after an insert closes what is on top, whatever it is.
Behind == [checkOut |-> "addresses", addresses |-> "cart", cart |-> "shop"]
DatabaseStep ==
  /\ \/ /\ ExecLoad \/ InsertFails \/ ExecQuantity \/ ExecDelete \/ ExecClear
        /\ UNCHANGED <<place, ordered>>
     \/ /\ ExecInsert
        /\ place' = IF Modal \/ place \notin DOMAIN Behind THEN place ELSE Behind[place]
        /\ ordered' = ordered \ {Head(queue).item.id}
  /\ UNCHANGED <<sent, priced, failed>>

CartReply(s) ==
  /\ \/ UpdateReply(s) /\ priced' = Items(cartProducts') /\ UNCHANGED failed
     \/ UpdateFailed(s) /\ failed' = TRUE /\ UNCHANGED priced
  /\ UNCHANGED <<place, sent, ordered>>

\* The server takes the order.
OrderTaken(s) ==
  /\ calls[s].kind = "order" /\ ~sent[s].accepted
  /\ sent' = [sent EXCEPT ![s].accepted = TRUE]
  /\ UNCHANGED <<vars, place, priced, history>>

\* Get.offAll shows order_sent_successfully, from where one continues shopping.
OrderAnswered(s) ==
  /\ sent[s].accepted /\ OrderReply(s)
  /\ place' = "shop" /\ sent' = [sent EXCEPT ![s] = NoOrder]
  /\ ordered' = ordered \cup ({i[1] : i \in sent[s].items} \cap Product)
  /\ UNCHANGED <<priced, failed>>

\* Refused, or the answer is lost: the user is told 'Error Placing Order'.
OrderNotAnswered(s) ==
  /\ OrderFailed(s)
  /\ sent' = [sent EXCEPT ![s] = NoOrder]
  /\ failed' = (failed \/ sent[s].accepted)
  /\ UNCHANGED <<place, priced, ordered>>

ServerStep == \E s \in Slots : \/ CartReply(s) \/ OrderTaken(s)
                               \/ OrderAnswered(s) \/ OrderNotAnswered(s)

Death ==
  /\ Kill
  /\ place' = "shop" /\ sent' = [s \in Slots |-> NoOrder] /\ priced' = {}
  /\ failed' = (failed \/ ClearOp \in ToSet(queue)
                       \/ \E s \in Slots : calls[s].kind = "order")
  /\ UNCHANGED ordered

CONext == \/ Move \/ OrderButton \/ InShop \/ InCart \/ OnCheckOutScreen
          \/ CartOpened \/ DatabaseStep \/ ServerStep \/ Death

COSpec == COInit /\ [][CONext]_coVars

\* As in Cart: the database executes, cart_update is answered or fails.
COFairSpec == COSpec /\ WF_coVars(DatabaseStep)
                     /\ WF_coVars(\E s \in Slots : CartReply(s))

-----------------------------------------------------------------------------
(* Properties                                                                *)
OnTheWay == place \in {"addresses", "checkOut"}

\* The bill of the check out (cartDetails: sum and discount of the server) is
\* the bill of the items under it, although changes leave dataUpdated and
\* cartDetails as they were: every way from a change to the check out asks the
\* server again.  (It does not hold once an answer is missing.)
BillOfTheCart ==
  ~failed /\ OnTheWay =>
    cartDetails # "none" /\ priced = Items(cartProducts)

\* What has been ordered is not in the cart any more, nor will a restart bring
\* it back: no product is ordered twice without having been added again.
OrderedIsGone ==
  ~failed =>
    \A p \in ordered : /\ ~IsProductInCart(p)
                       /\ p \in Ids(table) => ClearOp \in ToSet(queue)

\* On the way to an order the cart is emptied by nothing but the order of just
\* these items (or a death): nothing is lost that was not ordered.
Emptied == cartProducts # Empty /\ cartProducts' = Empty
OrderDone(s) == sent[s].accepted /\ ~sent'[s].accepted
OnlyOrdersEmpty ==
  [][ OnTheWay /\ Emptied =>
        \/ kills' # kills
        \/ \E s \in Slots : OrderDone(s) /\ sent[s].items = Items(cartProducts) ]_coVars

\* The loading view goes away when cart_update is answered without an error.
ConfirmEnds == isLoading ~> ~isLoading \/ failed
=============================================================================
