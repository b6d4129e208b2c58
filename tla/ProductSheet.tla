---------------------------- MODULE ProductSheet ----------------------------
(***************************************************************************)
(* The sheet that turns a product into a cart item                         *)
(* (lib/common_widgets/product_cart_sheet.dart) and the spin widgets it    *)
(* shows, one per packaging (lib/common_widgets/spin_widget.dart).         *)
(*                                                                         *)
(* A spin widget keeps a private copy of the number it shows and is told   *)
(* the number of its parent only when the sheet is rebuilt, so a tap, the  *)
(* sheet's reaction to it and the next rebuild are three things: a tap     *)
(* runs the handlers of the widget and of the sheet, Rebuild is the frame. *)
(* Two taps may fall before one frame.                                     *)
(***************************************************************************)
EXTENDS Integers

CONSTANTS
  Packs,     \* the packagings the sheet shows (package1 .. package3)
  Stock,     \* Stock[t]: packageStock of each packaging
  MinOrder,  \* product.minimumOrder
  MaxOrder   \* product.maxOrder

NoPack == 0  \* cart.type == null: nothing selected yet

ASSUME PackAssumption  == Packs \subseteq Nat \ {NoPack}
ASSUME StockAssumption == Stock \in [Packs -> Nat]
\* The catalogue's limits agree with each other; a minimum of 0 is allowed.
ASSUME OrderAssumption == /\ MinOrder \in Nat
                          /\ MaxOrder \in Nat
                          /\ MinOrder <= MaxOrder

VARIABLES
  type,      \* cart.type
  quantity,  \* cart.quantity
  shown,     \* shown[t]: _value of the spin widget of packaging t
  floor,     \* floor[t]: its minValue
  given,     \* given[t]: its widget.value, as of the last build
  armed,     \* the button was built with ignoring: cart.type == null
  sent       \* the items handed to addToCart, as <<type, quantity>>

vars == <<type, quantity, shown, floor, given, armed, sent>>

Zero == [t \in Packs |-> 0]
Least(a, b) == IF a <= b THEN a ELSE b

-----------------------------------------------------------------------------
\* Mutants are changed forms of the definition that follows them, the way a bug
\* would change it: each must break a property.
FirstStepOfMinimum(t) == MinOrder
FirstStepSubtracted(t) == IF Stock[t] < MinOrder THEN Stock[t] - MinOrder ELSE MinOrder

\* The quantity a packaging starts at: the minimum order, or what is left.
FirstStep(t) == IF Stock[t] < MinOrder THEN Stock[t] ELSE MinOrder

MinusBtnDisabled(t) == \/ shown[t] <= MinOrder
                       \/ shown[t] = 1
                       \/ shown[t] <= floor[t]
                       \/ shown[t] - 1 < floor[t]

\* Mutant: the stock is not looked at.
AddBtnIgnoresStock(t) == shown[t] >= MaxOrder \/ shown[t] + 1 > MaxOrder

AddBtnDisabled(t) == \/ shown[t] >= Stock[t]
                     \/ shown[t] >= MaxOrder
                     \/ shown[t] + 1 > MaxOrder

\* setValue of the sheet, setValues of the controller.
SetValue(t, q) == /\ type' = t
                  /\ quantity' = q

\* _adjustValue followed by its onChanged: the widget, then the sheet.
AdjustValue(t, adjustment) ==
  LET fresh == shown[t] = 0
      next  == IF fresh THEN FirstStep(t) ELSE shown[t] + adjustment
  IN  /\ shown' = [shown EXCEPT ![t] = next]
      /\ floor' = IF fresh THEN [floor EXCEPT ![t] = FirstStep(t)] ELSE floor
      /\ SetValue(t, next)
      /\ UNCHANGED <<given, armed, sent>>

-----------------------------------------------------------------------------
Init == /\ type = NoPack
        /\ quantity = 0
        /\ shown = Zero
        /\ floor = Zero
        /\ given = Zero
        /\ armed = FALSE
        /\ sent = {}

TapAdd(t) == /\ ~AddBtnDisabled(t)
             /\ AdjustValue(t, 1)

TapMinus(t) == /\ ~MinusBtnDisabled(t)
               /\ AdjustValue(t, -1)

\* The value the sheet passes to the spin widget of packaging t.
Passed(t) == IF type = t THEN quantity ELSE 0

\* Mutant: didUpdateWidget compares rightly and copies the old widget's value.
RebuildFromOldWidget ==
  /\ given' = [t \in Packs |-> Passed(t)]
  /\ shown' = [t \in Packs |-> IF Passed(t) # given[t] THEN given[t] ELSE shown[t]]
  /\ armed' = (type # NoPack)
  /\ UNCHANGED <<type, quantity, floor, sent>>

\* A frame: build of the sheet, didUpdateWidget of every spin widget.
Rebuild == /\ given' = [t \in Packs |-> Passed(t)]
           /\ shown' = [t \in Packs |-> IF Passed(t) # given[t] THEN Passed(t)
                                                               ELSE shown[t]]
           /\ armed' = (type # NoPack)
           /\ UNCHANGED <<type, quantity, floor, sent>>

TapAddToCart == /\ armed
                /\ sent' = sent \cup {<<type, quantity>>}
                /\ UNCHANGED <<type, quantity, shown, floor, given, armed>>

Next == \/ \E t \in Packs : TapAdd(t) \/ TapMinus(t)
        \/ Rebuild
        \/ TapAddToCart

Spec == Init /\ [][Next]_vars

-----------------------------------------------------------------------------
TypeOK == /\ type \in Packs \cup {NoPack}
          /\ quantity \in Nat
          /\ shown \in [Packs -> Nat]
          /\ floor \in [Packs -> Nat]
          /\ given \in [Packs -> Nat]
          /\ armed \in BOOLEAN
          /\ sent \subseteq (Packs \X Nat)

\* What may be sold of packaging t: between the minimum order and the maximum
\* order, but never more than the stock, and the whole stock where it is less
\* than the minimum order.
Sellable(t) == Least(MinOrder, Stock[t]) .. Least(MaxOrder, Stock[t])

\* Whatever the taps and the frames they fall between, every item handed to
\* the cart has a quantity the shop can sell of the packaging it names, and a
\* product that has a minimum order never reaches the cart with quantity zero.
SentIsSellable ==
  \A i \in sent : /\ i[2] \in Sellable(i[1])
                  /\ MinOrder > 0 => i[2] > 0

\* A spin widget never shows a quantity that could not be sold, even while it
\* disagrees with the sheet between a tap and the next frame.
ShownIsSellable ==
  \A t \in Packs : shown[t] # 0 => shown[t] \in Sellable(t)

\* The spin widget of the selected packaging shows the quantity of the cart
\* item at all times: no frame restores a number older than the last tap.
SelectedShowsQuantity ==
  type # NoPack => shown[type] = quantity
=============================================================================
