------------------------- MODULE ProductSheetProofs -------------------------
(* Proofs about the product sheet: for every set of packagings, every stock  *)
(* and every minimum and maximum order, what reaches the cart can be sold.   *)
EXTENDS ProductSheet, TLAPS

(* The first step of a packaging that has stock can be sold.                 *)
LEMMA FirstStepSellable ==
  ASSUME NEW t \in Packs
  PROVE  /\ FirstStep(t) \in Nat
         /\ FirstStep(t) \in Sellable(t)
         /\ Stock[t] > 0 /\ MinOrder > 0 => FirstStep(t) > 0
  BY StockAssumption, OrderAssumption DEF FirstStep, Sellable, Least

(* The inductive invariant.  A selected packaging must be known to have      *)
(* stock and its quantity to be sellable, which the three properties do not  *)
(* say of a quantity that is 0 or has not been sent yet; the button is       *)
(* armed only once something is selected.                                    *)
IInv == /\ TypeOK
        /\ SentIsSellable
        /\ ShownIsSellable
        /\ SelectedShowsQuantity
        /\ type # NoPack => /\ quantity \in Sellable(type)
                            /\ MinOrder > 0 => quantity > 0
        /\ armed => type # NoPack

LEMMA InitIInv == Init => IInv
<1> SUFFICES ASSUME Init PROVE IInv
  OBVIOUS
<1>1. TypeOK
  BY DEF Init, TypeOK, Zero
<1>2. SentIsSellable /\ ShownIsSellable /\ SelectedShowsQuantity
  BY DEF Init, SentIsSellable, ShownIsSellable, SelectedShowsQuantity, Zero
<1> QED
  BY <1>1, <1>2 DEF Init, IInv

(* A tap that _adjustValue follows keeps the invariant, given that the       *)
(* number it leaves in the widget can be sold.                               *)
LEMMA AdjustKeepsIInv ==
  ASSUME IInv, NEW t \in Packs, NEW adjustment \in {-1, 1},
         AdjustValue(t, adjustment),
         NEW next \in Nat,
         next = IF shown[t] = 0 THEN FirstStep(t) ELSE shown[t] + adjustment,
         next \in Sellable(t),
         MinOrder > 0 => next > 0
  PROVE  IInv'
<1>1. /\ type' = t
      /\ quantity' = next
      /\ shown' = [shown EXCEPT ![t] = next]
      /\ UNCHANGED <<given, armed, sent>>
  BY DEF AdjustValue, SetValue
<1>2. floor' \in [Packs -> Nat]
  BY FirstStepSellable DEF AdjustValue, IInv, TypeOK
<1>3. t # NoPack
  BY PackAssumption
<1>4. TypeOK'
  BY <1>1, <1>2 DEF IInv, TypeOK
<1>5. SentIsSellable'
  BY <1>1 DEF IInv, SentIsSellable, Sellable
<1>6. ShownIsSellable'
  BY <1>1 DEF IInv, TypeOK, ShownIsSellable, Sellable
<1>7. SelectedShowsQuantity'
  BY <1>1 DEF IInv, TypeOK, SelectedShowsQuantity
<1> QED
  BY <1>1, <1>3, <1>4, <1>5, <1>6, <1>7 DEF IInv, Sellable

LEMMA TapAddKeepsIInv ==
  ASSUME IInv, NEW t \in Packs, TapAdd(t)
  PROVE  IInv'
<1> DEFINE next == IF shown[t] = 0 THEN FirstStep(t) ELSE shown[t] + 1
<1>1. /\ shown[t] < Stock[t]
      /\ shown[t] < MaxOrder
      /\ shown[t] \in Nat
      /\ Stock[t] \in Nat
  BY StockAssumption, OrderAssumption DEF TapAdd, AddBtnDisabled, IInv, TypeOK
<1>2. /\ next \in Nat
      /\ next \in Sellable(t)
      /\ MinOrder > 0 => next > 0
  <2>1. CASE shown[t] = 0
    BY <1>1, <2>1, FirstStepSellable
  <2>2. CASE shown[t] # 0
    BY <1>1, <2>2, OrderAssumption DEF IInv, ShownIsSellable, Sellable, Least
  <2> QED BY <2>1, <2>2
<1> HIDE DEF next
<1>3. next = IF shown[t] = 0 THEN FirstStep(t) ELSE shown[t] + 1
  BY DEF next
<1> QED
  BY <1>2, <1>3, AdjustKeepsIInv DEF TapAdd

LEMMA TapMinusKeepsIInv ==
  ASSUME IInv, NEW t \in Packs, TapMinus(t)
  PROVE  IInv'
<1> DEFINE next == shown[t] + (-1)
<1>1. /\ shown[t] > MinOrder
      /\ shown[t] \in Nat
      /\ Stock[t] \in Nat
      /\ shown[t] # 0
  BY StockAssumption, OrderAssumption DEF TapMinus, MinusBtnDisabled, IInv, TypeOK
<1>2. /\ next \in Nat
      /\ next \in Sellable(t)
      /\ MinOrder > 0 => next > 0
  BY <1>1, OrderAssumption DEF IInv, ShownIsSellable, Sellable, Least
<1> HIDE DEF next
<1>3. next = IF shown[t] = 0 THEN FirstStep(t) ELSE shown[t] + (-1)
  BY <1>1 DEF next
<1> QED
  BY <1>2, <1>3, AdjustKeepsIInv DEF TapMinus

LEMMA RebuildKeepsIInv ==
  ASSUME IInv, Rebuild
  PROVE  IInv'
<1>1. \A t \in Packs : Passed(t) \in Nat
  BY DEF Passed, IInv, TypeOK
<1>2. TypeOK'
  BY <1>1 DEF Rebuild, IInv, TypeOK
<1>3. ShownIsSellable'
  <2>1. \A t \in Packs : Passed(t) # 0 => Passed(t) \in Sellable(t)
    BY PackAssumption DEF Passed, IInv, NoPack
  <2>2. ASSUME NEW t \in Packs PROVE shown'[t] \in {Passed(t), shown[t]}
    BY DEF Rebuild
  <2> QED
    BY <2>1, <2>2 DEF IInv, ShownIsSellable
<1>4. SelectedShowsQuantity'
  BY PackAssumption DEF Rebuild, IInv, TypeOK, SelectedShowsQuantity, Passed, NoPack
<1> QED
  BY <1>2, <1>3, <1>4 DEF Rebuild, IInv, SentIsSellable, Sellable

LEMMA NextKeepsIInv == IInv /\ [Next]_vars => IInv'
<1> SUFFICES ASSUME IInv, [Next]_vars PROVE IInv'
  OBVIOUS
<1>1. ASSUME NEW t \in Packs, TapAdd(t) PROVE IInv'
  BY <1>1, TapAddKeepsIInv
<1>2. ASSUME NEW t \in Packs, TapMinus(t) PROVE IInv'
  BY <1>2, TapMinusKeepsIInv
<1>3. CASE Rebuild
  BY <1>3, RebuildKeepsIInv
<1>4. CASE TapAddToCart
  BY <1>4 DEF TapAddToCart, IInv, TypeOK, SentIsSellable, ShownIsSellable,
     SelectedShowsQuantity, Sellable
<1>5. CASE UNCHANGED vars
  BY <1>5 DEF vars, IInv, TypeOK, SentIsSellable, ShownIsSellable,
     SelectedShowsQuantity, Sellable
<1> QED
  BY <1>1, <1>2, <1>3, <1>4, <1>5 DEF Next

LEMMA SpecIInv == Spec => []IInv
<1> QED BY InitIInv, NextKeepsIInv, PTL DEF Spec

(* Every item the sheet ever hands to addToCart has a quantity the shop can  *)
(* sell of that packaging.                                                   *)
THEOREM OnlySellableSent == Spec => []SentIsSellable
<1>1. IInv => SentIsSellable
  BY DEF IInv
<1> QED BY <1>1, SpecIInv, PTL

(* No spin widget ever shows an unsellable quantity, in whatever order taps  *)
(* and frames come.                                                          *)
THEOREM OnlySellableShown == Spec => []ShownIsSellable
<1>1. IInv => ShownIsSellable
  BY DEF IInv
<1> QED BY <1>1, SpecIInv, PTL

(* The item, the button and every spin widget always hold what they may: no  *)
(* tap leaves a widget with a number that is negative, nor an item with a    *)
(* packaging the sheet does not show.                                        *)
THEOREM TypesCorrect == Spec => []TypeOK
<1>1. IInv => TypeOK
  BY DEF IInv
<1> QED BY <1>1, SpecIInv, PTL

(* No frame, wherever it falls between taps, restores a number older than    *)
(* the last tap in the widget of the selected packaging.                     *)
THEOREM NoFrameRestores == Spec => []SelectedShowsQuantity
<1>1. IInv => SelectedShowsQuantity
  BY DEF IInv
<1> QED BY <1>1, SpecIInv, PTL
=============================================================================
