-------------------------- MODULE AddressesProofs ---------------------------
(***************************************************************************)
(* Proofs about Addresses, for every number of addresses, taps and         *)
(* requests in flight, and for answers that come in any order or never:    *)
(*   - the types (TypesCorrect);                                           *)
(*   - with addresses listed one of them is selected (SelectionIsListed),  *)
(*     and the check out always has an address (CheckOutIsBuilt);          *)
(*   - rows of the screen that are no longer listed are there only while   *)
(*     a deletion is under way (RowsAreListed);                            *)
(*   - a user who waits for the answers saves what the form showed         *)
(*     (PatientSavesTheForm), sees the list of the server                  *)
(*     (QuietListIsCurrent) and orders to an address of it                 *)
(*     (OrdersToStored).                                                   *)
(* The types are not inductive alone: the place a form is saved with is    *)
(* read twice more after its button, so that a place must have been set    *)
(* while its area is looked up (LookUpHasPlace).  CheckOutHasAddress needs *)
(* that rows are shown only after an address has been selected             *)
(* (ShownWasSelected).  What holds of the patient user rests on his        *)
(* requests being in flight one by one (Single): so the location he waits  *)
(* for opens no other form under a look up, and the list is loaded after   *)
(* every change (OneByOne).                                                *)
(***************************************************************************)
EXTENDS Addresses, SequenceTheorems, WellFoundedInduction, TLAPS

LookUpHasPlace == LookingUp => currentLatLng \in Place

ShownWasSelected == shown.list # <<>> => selectedAddress # Null

\* What a patient user's look up was made for is what the form still holds.
LookUpIsForm ==
  \A s \in Slots : calls[s].kind \in LookUps =>
    /\ calls[s].id = Edited /\ calls[s].text = writtenAddress
    /\ calls[s].place = currentLatLng
    /\ calls[s].kind = "area" => calls[s].at = calls[s].place

Single == \A r, s \in Slots : calls[r] # NoCall /\ calls[s] # NoCall => r = s

IInv == /\ TypeOK /\ LookUpHasPlace
        /\ SelectedIsListed /\ ShownWasSelected /\ CheckOutHasAddress
        /\ ~hurried => Single /\ LookUpIsForm

-----------------------------------------------------------------------------
\* A request is a call.
LEMMA RequestType ==
  ASSUME NEW kind \in {"none", "locate", "select", "delete"} \cup LookUps,
         NEW id \in 0 .. MaxId, NEW text \in Written,
         NEW place \in Place, NEW at \in Place
  PROVE  /\ Request(kind, id, text, place, at) \in CallType
         /\ Request(kind, id, text, place, at).kind = kind
BY DEF Request, CallType, LookUps, ListKinds

LEMMA RequestKeeps ==
  ASSUME NEW kind, NEW id, NEW text, NEW place, NEW at
  PROVE  LET d == Request(kind, id, text, place, at) IN
           d.kind = kind /\ d.mine /\ d.status = "sent"
BY DEF Request

LEMMA ConstantCalls ==
  /\ NoCall \in CallType /\ NoCall.kind = "none"
  /\ Reload \in CallType /\ Reload.kind = "select"
  /\ Locate \in CallType /\ Locate.kind = "locate"
<1>1. 0 \in 0 .. MaxId BY BoundAssumption
<1>2. Here \in Place BY PlaceAssumption
<1>3. Null \in Written BY DEF Written
<1>. QED BY <1>1, <1>2, <1>3, RequestType DEF NoCall, Reload, Locate

\* The first area with the place is one of the areas; without such, they have a first.
LEMMA AreaFound ==
  ASSUME NEW areas \in Seq(Area), areas # <<>>, NEW place \in Place
  PROVE  \E n \in DOMAIN areas :
           /\ AreaIn(areas, place) = areas[n]
           /\ (\E k \in DOMAIN areas : <<areas[k], place>> \in Covers) => <<areas[n], place>> \in Covers
<1> DEFINE has == {i \in DOMAIN areas : <<areas[i], place>> \in Covers}
<1>1. CASE has = {}
  <2>1. AreaIn(areas, place) = areas[1] /\ 1 \in DOMAIN areas
    BY <1>1 DEF AreaIn
  <2>. QED BY <1>1, <2>1
<1>2. CASE has # {}
  <2>0. has \subseteq Nat
    OBVIOUS
  <2>1. \E x \in has : \A y \in has : ~ (<<y, x>> \in OpToRel(<, Nat))
    <3> HIDE DEF has
    <3>. QED BY <1>2, <2>0, NatLessThanWellFounded, WFMin
  <2>2. PICK x \in has : \A y \in has : ~ (y < x)
    BY <2>0, <2>1 DEF OpToRel
  <2> DEFINE first == CHOOSE i \in has : \A k \in has : i <= k
  <2>3. first \in has
    <3>1. \A y \in has : x <= y
      <4> HIDE DEF has
      <4>. QED BY <2>0, <2>2
    <3>. QED BY <3>1
  <2>4. AreaIn(areas, place) = areas[first]
    BY <1>2 DEF AreaIn
  <2> HIDE DEF first
  <2>. QED BY <2>3, <2>4
<1>. QED BY <1>1, <1>2

LEMMA AreaInType ==
  ASSUME NEW areas \in Seq(Area), areas # <<>>, NEW place \in Place
  PROVE  AreaIn(areas, place) \in Area
<1>1. PICK n \in DOMAIN areas : AreaIn(areas, place) = areas[n]
  BY AreaFound
<1>. QED BY <1>1

LEMMA AreaInFits ==
  ASSUME NEW place \in Place, AreasOf[place] # <<>>
  PROVE  AreaFits(AreaIn(AreasOf[place], place), place)
<1>1. AreasOf[place] \in Seq(Area)
  BY AreaAssumption
<1>2. PICK n \in DOMAIN AreasOf[place] :
        /\ AreaIn(AreasOf[place], place) = AreasOf[place][n]
        /\ (\E k \in DOMAIN AreasOf[place] : <<AreasOf[place][k], place>> \in Covers)
              => <<AreasOf[place][n], place>> \in Covers
  BY <1>1, AreaFound
<1>. QED BY <1>1, <1>2 DEF AreaFits, Range

\* The form, as a request to save it.
LEMMA SavedType ==
  ASSUME TypeOK, currentLatLng \in Place, NEW area \in Area
  PROVE  /\ Saved(area) \in CallType /\ Saved(area).kind \in {"insert", "update"}
         /\ Saved(area).mine /\ Saved(area).status = "sent"
         /\ Saved(area).id = Edited /\ Saved(area).text = writtenAddress
         /\ Saved(area).place = currentLatLng /\ Saved(area).area = area
<1> DEFINE d(kind, id) ==
      [kind |-> kind, id |-> id, text |-> writtenAddress, place |-> currentLatLng, at |-> Here,
       area |-> area, status |-> "sent", mine |-> TRUE, reply |-> <<>>]
<1>1. 0 \in 0 .. MaxId /\ Here \in Place
  BY BoundAssumption, PlaceAssumption
<1>2. updateMode => addressToUpdate.id \in 0 .. MaxId
  BY BoundAssumption DEF TypeOK, Address
<1>3. updateMode => Saved(area) = d("update", addressToUpdate.id)
  <2>1. SUFFICES ASSUME updateMode PROVE Saved(area) = d("update", addressToUpdate.id)
    OBVIOUS
  <2> DEFINE e == Request("update", addressToUpdate.id, writtenAddress, currentLatLng, Here)
  <2>2. Saved(area) = [e EXCEPT !.area = area]
    BY <2>1 DEF Saved
  <2>. QED BY <2>2 DEF Request
<1>5. ~updateMode => Saved(area) = d("insert", 0)
  <2>1. SUFFICES ASSUME ~updateMode PROVE Saved(area) = d("insert", 0)
    OBVIOUS
  <2> DEFINE e == Request("insert", 0, writtenAddress, currentLatLng, Here)
  <2>2. Saved(area) = [e EXCEPT !.area = area]
    BY <2>1 DEF Saved
  <2>. QED BY <2>2 DEF Request
<1>4. \A id \in 0 .. MaxId : d("update", id) \in CallType /\ d("insert", id) \in CallType
  BY <1>1 DEF TypeOK, CallType, ListKinds
<1>6. \A kind, id : /\ d(kind, id).kind = kind /\ d(kind, id).mine /\ d(kind, id).status = "sent"
                     /\ d(kind, id).id = id /\ d(kind, id).text = writtenAddress
                     /\ d(kind, id).place = currentLatLng /\ d(kind, id).area = area
  OBVIOUS
<1> HIDE DEF d
<1>7. CASE updateMode
  BY <1>2, <1>3, <1>4, <1>6, <1>7 DEF Edited
<1>8. CASE ~updateMode
  BY <1>1, <1>4, <1>5, <1>6, <1>8 DEF Edited
<1>. QED BY <1>7, <1>8

\* What is left when an element is removed.
LEMMA RemoveAtType ==
  ASSUME NEW S, NEW q \in Seq(S), NEW k \in DOMAIN q
  PROVE  RemoveAt(q, k) \in Seq(S)
BY DEF RemoveAt

\* A call that was made before the screen was left.
LEMMA DisownedType ==
  ASSUME NEW c \in CallType
  PROVE  Disowned(c) \in CallType /\ Disowned(c).kind = c.kind
BY ConstantCalls DEF Disowned, CallType

LEMMA AnswerType ==
  ASSUME NEW c \in CallType, NEW status \in {"sent", "done", "lost"}, NEW reply \in Seq(Address)
  PROVE  Answered(c, status, reply) \in CallType /\ Answered(c, status, reply).kind = c.kind
BY DEF Answered, CallType

-----------------------------------------------------------------------------
\* What a new request does to the requests in flight.
LEMMA CallStep ==
  ASSUME TypeOK, NEW c \in CallType, Call(c)
  PROVE  /\ calls' \in [Slots -> CallType]
         /\ \A s \in Slots : calls'[s] = calls[s] \/ calls'[s] = c
BY DEF TypeOK, Call

LEMMA InitIInv == Init => IInv
<1>. SUFFICES ASSUME Init PROVE IInv
  OBVIOUS
<1>1. TypeOK
  <2>1. calls \in [Slots -> CallType]
    BY ConstantCalls DEF Init
  <2>2. stored \in Seq(Address) /\ lastId \in 0 .. MaxId /\ taps \in 0 .. MaxTaps
    BY BoundAssumption, FirstAssumption DEF Init
  <2>3. addressesData = <<>> /\ shown = [loading |-> TRUE, list |-> <<>>]
    BY DEF Init
  <2>4. addressesData \in Seq(Address) /\ shown \in [loading : BOOLEAN, list : Seq(Address)]
    BY <2>3
  <2>. QED BY <2>1, <2>2, <2>4 DEF Init, TypeOK, Written
<1>2. ~LookingUp
  BY ConstantCalls DEF Init, LookingUp, LookUps
<1>3. LookUpHasPlace /\ Single /\ LookUpIsForm
  BY <1>2 DEF LookUpHasPlace, LookUpIsForm, LookingUp, Single, Init
<1>4. SelectedIsListed /\ ShownWasSelected /\ CheckOutHasAddress
  BY DEF Init, SelectedIsListed, ShownWasSelected, CheckOutHasAddress
<1>. QED BY <1>1, <1>3, <1>4 DEF IInv

\* A tap of a patient user comes when nothing is looked up.
LEMMA PatientTap ==
  ASSUME Tap, ~hurried' PROVE \A s \in Slots : calls[s] = NoCall /\ calls[s].kind \notin LookUps
BY ConstantCalls DEF Tap, Quiet, LookUps

\* Every action of the user is a tap.
LEMMA UserTaps == User => Tap
BY DEF User, LeaveList, OpenList, TapDelete, OpenAdd, GiveLocation, LeaveDialog, LeaveForm,
       ConfirmRefused, CheckOut, LeaveCheckOut, PlaceOrder, SelectAddress, OpenEdit, Confirm

\* The taps that make no request.
Silent == \/ LeaveList \/ OpenAdd \/ LeaveDialog \/ LeaveForm \/ ConfirmRefused
          \/ CheckOut \/ LeaveCheckOut \/ PlaceOrder
          \/ \E i \in 1 .. MaxId : SelectAddress(i) \/ OpenEdit(i)

LEMMA SilentTaps == Silent => User /\ UNCHANGED <<calls, addressesData, stored>> /\ screen # "cart"
BY DEF Silent, User, LeaveList, OpenAdd, LeaveDialog, LeaveForm, ConfirmRefused, CheckOut, LeaveCheckOut,
       PlaceOrder, SelectAddress, OpenEdit, data, server, OnForm

-----------------------------------------------------------------------------
\* The conjuncts one after the other, each from IInv and a step.
LEMMA UserTypes ==
  ASSUME IInv, User PROVE TypeOK' /\ LookUpHasPlace'
<1>. USE DEF IInv
<1>1. taps' \in 0 .. MaxTaps /\ located' \in BOOLEAN /\ hurried' \in BOOLEAN /\ lost' \in BOOLEAN
  <2>1. Tap BY UserTaps
  <2>2. taps' \in 0 .. MaxTaps BY <2>1, BoundAssumption DEF Tap, TypeOK
  <2>3. located' \in BOOLEAN /\ hurried' \in BOOLEAN /\ lost' \in BOOLEAN BY <2>1 DEF Tap, TypeOK
  <2>. QED BY <2>2, <2>3
<1>2. CASE LeaveList
  BY <1>1, <1>2 DEF LeaveList, TypeOK, LookUpHasPlace, LookingUp, data, form, server
<1>3. CASE OpenList
  <2>1. PICK s \in Slots : calls' = [r \in Slots |-> IF r = s THEN Reload ELSE Disowned(calls[r])]
    BY <1>3 DEF OpenList
  <2>2. calls' \in [Slots -> CallType]
    BY <2>1, ConstantCalls, DisownedType DEF TypeOK
  <2>3. ~LookingUp'
    BY <1>3, <2>1, ConstantCalls, DisownedType DEF OpenList, LookingUp, TypeOK, LookUps
  <2>4. /\ addressesData' = <<>> /\ selectedAddress' = Null /\ isLoading' = TRUE
        /\ updateMode' = FALSE /\ addressToUpdate' = Null
        /\ writtenAddress' = Null /\ currentLatLng' = Null
        /\ screen' = "list" /\ shown' = [loading |-> TRUE, list |-> <<>>]
        /\ UNCHANGED <<stored, lastId, order>>
    BY <1>3 DEF OpenList, server
  <2>5. addressesData' \in Seq(Address) /\ shown' \in [loading : BOOLEAN, list : Seq(Address)]
    BY <2>4
  <2>6. /\ updateMode' \in BOOLEAN /\ isLoading' \in BOOLEAN
        /\ writtenAddress' \in Written
        /\ stored' \in Seq(Address) /\ lastId' \in 0 .. MaxId /\ order' \in Address \cup {Null}
    BY <2>4 DEF TypeOK, Written
  <2>. QED BY <1>1, <2>2, <2>3, <2>4, <2>5, <2>6 DEF TypeOK, LookUpHasPlace
<1>4. CASE OpenAdd
  <2>1. /\ shown' = [loading |-> isLoading, list |-> addressesData]
        /\ currentLatLng' \in Place \/ currentLatLng' = currentLatLng
        /\ screen' \in {"form", "dialog"}
    BY <1>4, PlaceAssumption DEF OpenAdd, ShowForm, Update
  <2>2. shown' \in [loading : BOOLEAN, list : Seq(Address)]
    BY <2>1 DEF TypeOK
  <2>. QED BY <1>1, <1>4, <2>1, <2>2
       DEF OpenAdd, TypeOK, LookUpHasPlace, LookingUp, data, server, Written
<1>5. CASE LeaveForm
  BY <1>1, <1>5 DEF LeaveForm, Popped, TypeOK, LookUpHasPlace, LookingUp, data, form, server
<1>6. CASE TapDelete
  <2>1. PICK a \in Address : DeleteAddress(a)
    BY <1>6 DEF TapDelete, TypeOK, CheckOutHasAddress
  <2>2. Request("delete", a.id, Null, Here, Here) \in CallType
    <3>1. a.id \in 0 .. MaxId BY BoundAssumption DEF Address
    <3>. QED BY <3>1, RequestType, PlaceAssumption DEF Written
  <2>3. Request("delete", a.id, Null, Here, Here).kind \notin LookUps
    BY DEF Request, LookUps
  <2>4. calls' \in [Slots -> CallType] /\ (LookingUp' => LookingUp)
    BY <2>1, <2>2, <2>3, CallStep DEF DeleteAddress, LookingUp
  <2>. QED BY <1>1, <2>1, <2>4 DEF DeleteAddress, TypeOK, LookUpHasPlace, form, server
<1>7. CASE CheckOut
  BY <1>1, <1>7 DEF CheckOut, TypeOK, LookUpHasPlace, LookingUp, data, form, server
<1>8. CASE LeaveCheckOut
  BY <1>1, <1>8 DEF LeaveCheckOut, TypeOK, LookUpHasPlace, LookingUp, data, form, server
<1>9. CASE PlaceOrder
  BY <1>1, <1>9 DEF PlaceOrder, TypeOK, LookUpHasPlace, LookingUp, data, form, server
<1>10. ASSUME NEW i \in 1 .. MaxId, SelectAddress(i) PROVE TypeOK' /\ LookUpHasPlace'
  <2>1. selectedAddress' \in Address \cup {Null} /\ shown' \in [loading : BOOLEAN, list : Seq(Address)]
    BY <1>10 DEF SelectAddress, TypeOK, Update
  <2>. QED BY <1>1, <1>10, <2>1 DEF SelectAddress, TypeOK, LookUpHasPlace, LookingUp, form, server
<1>11. ASSUME NEW i \in 1 .. MaxId, OpenEdit(i) PROVE TypeOK' /\ LookUpHasPlace'
  <2>1. shown.list[i] \in Address
    BY <1>11 DEF OpenEdit, TypeOK
  <2>. QED BY <1>1, <1>11, <2>1
    DEF OpenEdit, TypeOK, LookUpHasPlace, LookingUp, data, server, Update, ShowForm, Address
<1>12. ASSUME NEW text \in Text, NEW place \in Place, Confirm(text, place)
       PROVE  TypeOK' /\ LookUpHasPlace'
  <2>1. Edited \in 0 .. MaxId
    BY BoundAssumption DEF Edited, TypeOK, Address
  <2>2. calls' \in [Slots -> CallType]
    BY <1>12, <2>1, RequestType, CallStep DEF Confirm, LookUps, Written
  <2>. QED BY <1>1, <1>12, <2>2 DEF Confirm, TypeOK, LookUpHasPlace, data, server, Update, Written
<1>13. CASE GiveLocation
  <2>1. calls' \in [Slots -> CallType] /\ (LookingUp' => LookingUp)
    BY <1>13, CallStep, ConstantCalls DEF GiveLocation, LookingUp, LookUps
  <2>. QED BY <1>1, <1>13, <2>1 DEF GiveLocation, TypeOK, LookUpHasPlace, data, form, server
<1>14. CASE LeaveDialog
  BY <1>1, <1>14 DEF LeaveDialog, TypeOK, LookUpHasPlace, LookingUp, data, form, server
<1>15. CASE ConfirmRefused
  BY <1>1, <1>15 DEF ConfirmRefused, TypeOK, LookUpHasPlace, LookingUp, data, server, Written
<1>. QED BY <1>2, <1>3, <1>4, <1>5, <1>6, <1>7, <1>8, <1>9, <1>10, <1>11, <1>12,
            <1>13, <1>14, <1>15 DEF User

LEMMA ReplyTypes ==
  ASSUME IInv, NEW s \in Slots, Reply(s) PROVE TypeOK' /\ LookUpHasPlace'
<1>. USE DEF IInv
<1>1. CASE LoadReply(s)
  <2>1. calls' \in [Slots -> CallType] /\ (LookingUp' => LookingUp)
    BY <1>1, ConstantCalls DEF LoadReply, LookingUp, LookUps, TypeOK
  <2>2. calls[s].reply \in Seq(Address)
    BY DEF TypeOK, CallType
  <2>3. /\ addressesData' \in Seq(Address) /\ selectedAddress' \in Address \cup {Null}
        /\ isLoading' \in BOOLEAN /\ shown' \in [loading : BOOLEAN, list : Seq(Address)]
    <3>1. CASE UNCHANGED <<data, shown>>
      BY <3>1 DEF data, TypeOK
    <3>2. CASE calls[s].reply # <<>> /\ Loaded(s) /\ Update(FALSE, addressesData')
      <4>1. calls[s].reply[1] \in Address
        BY <2>2, <3>2
      <4>. QED BY <2>2, <3>2, <4>1 DEF Loaded, Update
    <3>3. CASE LoadFailed(s) /\ Update(isLoading', addressesData)
      BY <3>3 DEF LoadFailed, Update, TypeOK
    <3>. QED BY <1>1, <3>1, <3>2, <3>3 DEF LoadReply
  <2>. QED BY <1>1, <2>1, <2>3 DEF LoadReply, TypeOK, LookUpHasPlace, form, server, rest
<1>2. CASE AreaReply(s)
  <2>1. calls[s].kind = "area" /\ calls[s].at \in Place /\ AreasOf[calls[s].place] \in Seq(Area)
    BY <1>2, AreaAssumption DEF AreaReply, Replied, TypeOK, CallType
  <2>2. currentLatLng \in Place
    BY <2>1 DEF LookUpHasPlace, LookingUp, LookUps
  <2>3. \A area \in Area : Saved(area) \in CallType /\ Saved(area).kind \notin LookUps
    BY <2>2, SavedType DEF LookUps
  <2>4. AreasOf[calls[s].place] # <<>> => AreaIn(AreasOf[calls[s].place], calls[s].at) \in Area
    BY <2>1, AreaInType
  <2>5. \E d \in CallType : d.kind \notin LookUps /\ calls' = [calls EXCEPT ![s] = d]
    BY <1>2, <2>3, <2>4, ConstantCalls DEF AreaReply, LookUps
  <2>6. calls' \in [Slots -> CallType] /\ (LookingUp' => LookingUp)
    BY <2>5 DEF LookingUp, TypeOK
  <2>7. screen' \in {"list", "dialog", "form", "checkout", "cart", "loose"}
    BY <1>2 DEF AreaReply, Popped, TypeOK
  <2>. QED BY <1>2, <2>6, <2>7 DEF AreaReply, TypeOK, LookUpHasPlace, data, form, server, rest
<1>4. CASE GeocodeReply(s)
  <2>1. calls[s] \in CallType /\ calls[s].kind = "geocode" /\ LookingUp
    BY <1>4 DEF GeocodeReply, Replied, TypeOK, LookingUp, LookUps
  <2>2. currentLatLng \in Place
    BY <2>1 DEF LookUpHasPlace
  <2>3. Request("area", calls[s].id, calls[s].text, calls[s].place, currentLatLng) \in CallType
    <3>1. calls[s].id \in 0 .. MaxId /\ calls[s].text \in Written /\ calls[s].place \in Place
      BY <2>1 DEF CallType
    <3>. QED BY <2>2, <3>1, RequestType DEF LookUps
  <2>4. calls' \in [Slots -> CallType]
    BY <1>4, <2>3, ConstantCalls DEF GeocodeReply, TypeOK
  <2>. QED BY <1>4, <2>2, <2>4 DEF GeocodeReply, TypeOK, LookUpHasPlace, data, form, server, rest
<1>5. CASE LocateReply(s)
  <2>1. calls' \in [Slots -> CallType] /\ (LookingUp' => LookingUp)
    BY <1>5, ConstantCalls DEF LocateReply, LookingUp, LookUps, TypeOK
  <2>2. located' \in BOOLEAN
    BY <1>5 DEF LocateReply, TypeOK
  <2>3. CASE UNCHANGED <<screen, updateMode, currentLatLng, shown>>
    BY <1>5, <2>1, <2>2, <2>3 DEF LocateReply, TypeOK, LookUpHasPlace, data, server
  <2>4. CASE screen' \in {"form", "loose"} /\ UNCHANGED updateMode /\ ShowForm(addressToUpdate)
    <3>1. currentLatLng' \in Place
      BY <2>4, PlaceAssumption DEF ShowForm, TypeOK, Address
    <3>2. shown' \in [loading : BOOLEAN, list : Seq(Address)]
      BY <2>4 DEF ShowForm, Update, TypeOK
    <3>. QED BY <1>5, <2>1, <2>2, <2>4, <3>1, <3>2 DEF LocateReply, TypeOK, LookUpHasPlace, data, server
  <2>. QED BY <1>5, <2>3, <2>4 DEF LocateReply
<1>3. CASE ChangeReply(s)
  <2>1. calls' \in [Slots -> CallType] /\ (LookingUp' => LookingUp)
    BY <1>3, ConstantCalls DEF ChangeReply, LookingUp, LookUps, TypeOK
  <2>2. /\ addressesData' \in Seq(Address) /\ selectedAddress' \in Address \cup {Null}
        /\ isLoading' \in BOOLEAN /\ shown' \in [loading : BOOLEAN, list : Seq(Address)]
    <3>1. CASE UNCHANGED <<data, shown>>
      BY <3>1 DEF data, TypeOK
    <3>2. CASE UNCHANGED <<addressesData, selectedAddress>> /\ ReloadAfter(calls[s].kind)
      <4>1. shown' = shown \/ shown' = [loading |-> TRUE, list |-> addressesData]
        BY <3>2 DEF ReloadAfter, Update
      <4>2. shown' \in [loading : BOOLEAN, list : Seq(Address)]
        <5>1. CASE shown' = shown BY <5>1 DEF TypeOK
        <5>2. CASE shown' = [loading |-> TRUE, list |-> addressesData] BY <5>2 DEF TypeOK
        <5>. QED BY <4>1, <5>1, <5>2
      <4>. QED BY <3>2, <4>2 DEF ReloadAfter, TypeOK
    <3>. QED BY <1>3, <3>1, <3>2 DEF ChangeReply
  <2>. QED BY <1>3, <2>1, <2>2 DEF ChangeReply, TypeOK, LookUpHasPlace, form, server, rest
<1>. QED BY <1>1, <1>2, <1>3, <1>4, <1>5 DEF Reply

LEMMA ServeTypes ==
  ASSUME IInv, NEW s \in Slots, Serve(s) \/ Lose(s) \/ Frame PROVE TypeOK' /\ LookUpHasPlace'
<1>. USE DEF IInv
<1>0. /\ UNCHANGED <<data, form, screen, order, taps>>
      /\ shown' \in [loading : BOOLEAN, list : Seq(Address)]
      /\ located' \in BOOLEAN /\ hurried' \in BOOLEAN /\ lost' \in BOOLEAN
  <2>1. CASE Serve(s) BY <2>1 DEF Serve, TypeOK, rest
  <2>2. CASE Lose(s) BY <2>2 DEF Lose, TypeOK
  <2>3. CASE Frame BY <2>3 DEF Frame, Update, TypeOK, rest
  <2>. QED BY <2>1, <2>2, <2>3
<1>1. /\ calls' \in [Slots -> CallType]
      /\ \A r \in Slots : calls'[r].kind = calls[r].kind
  <2>1. CASE Frame
    BY <2>1 DEF Frame, TypeOK
  <2>2. ASSUME NEW status \in {"sent", "done", "lost"}, NEW reply \in Seq(Address),
               Answer(s, status, reply)
        PROVE  /\ calls' \in [Slots -> CallType]
               /\ \A r \in Slots : calls'[r].kind = calls[r].kind
    <3>1. \A r \in Slots : calls[r] \in CallType
      BY DEF TypeOK
    <3>2. /\ Answered(calls[s], status, reply) \in CallType
          /\ Answered(calls[s], status, reply).kind = calls[s].kind
      BY <3>1, AnswerType
    <3>. QED BY <2>2, <3>2 DEF Answer, TypeOK
  <2>3. <<>> \in Seq(Address) /\ stored \in Seq(Address)
    BY DEF TypeOK
  <2>4. CASE Serve(s) \/ Lose(s)
    BY <2>2, <2>3, <2>4 DEF Serve, Lose, ServeSelect, ServeLookUp, ServeInsert, ServeUpdate,
                            ServeDelete, Done
  <2>. QED BY <2>1, <2>4
<1>2. stored' \in Seq(Address) /\ lastId' \in 0 .. MaxId
  <2>1. \A id \in 1 .. MaxId : calls[s].kind \in {"insert", "update"} => Saving(calls[s], id) \in Address
    BY DEF Saving, TypeOK, CallType, Address
  <2>2. CASE ServeSelect(s) \/ ServeLookUp(s) \/ Lose(s) \/ Frame
    BY <2>2 DEF ServeSelect, ServeLookUp, Lose, Frame, server, TypeOK
  <2>3. CASE ServeInsert(s)
    <3>1. lastId + 1 \in 1 .. MaxId /\ lastId' \in 0 .. MaxId
      BY <2>3, BoundAssumption DEF ServeInsert, TypeOK
    <3>. QED BY <2>1, <2>3, <3>1 DEF ServeInsert, Sent, TypeOK
  <2>4. CASE ServeUpdate(s)
    <3>0. \A k \in DOMAIN stored : stored[k] \in Address
      BY DEF TypeOK
    <3>1. \A k \in DOMAIN stored : stored[k] \in Address /\ stored[k].id \in 1 .. MaxId
      BY <3>0 DEF Address
    <3>2. \A k \in DOMAIN stored : stored'[k] \in Address
      BY <2>1, <2>4, <3>1 DEF ServeUpdate, Sent
    <3>3. stored' \in [1 .. Len(stored) -> Address] /\ Len(stored) \in Nat
      BY <2>4, <3>2 DEF ServeUpdate, TypeOK
    <3>4. stored' \in Seq(Address)
      BY <3>3, SeqDef
    <3>. QED BY <2>4, <3>4 DEF ServeUpdate, TypeOK
  <2>5. CASE ServeDelete(s)
    BY <2>5, RemoveAtType DEF ServeDelete, TypeOK
  <2>. QED BY <2>2, <2>3, <2>4, <2>5 DEF Serve
<1>. QED BY <1>0, <1>1, <1>2 DEF TypeOK, LookUpHasPlace, LookingUp, data, form

LEMMA NextTypes ==
  ASSUME IInv, [Next]_vars PROVE TypeOK' /\ LookUpHasPlace'
<1>1. CASE UNCHANGED vars
  BY <1>1 DEF IInv, vars, data, form, server, rest, TypeOK, LookUpHasPlace, LookingUp
<1>2. CASE Next
  <2>1. ASSUME Frame PROVE TypeOK' /\ LookUpHasPlace'
    BY <2>1 DEF Frame, Update, data, form, server, rest, IInv, TypeOK, LookUpHasPlace, LookingUp
  <2>. QED BY <1>2, <2>1, UserTypes, ReplyTypes, ServeTypes DEF Next
<1>. QED BY <1>1, <1>2

\* The steps that leave the list and the selection alone, and do not open the
\* check out; the screen may be rebuilt.
Still == /\ UNCHANGED <<addressesData, selectedAddress>>
         /\ screen' = "checkout" => screen = "checkout"
         /\ \/ shown' = shown
            \/ \E b \in BOOLEAN : shown' = [loading |-> b, list |-> addressesData]

LEMMA StillSteps ==
  ASSUME IInv, [Next]_vars
  PROVE  \/ Still
         \/ CheckOut \/ OpenList \/ TapDelete \/ \E i \in 1 .. MaxId : SelectAddress(i)
         \/ \E s \in Slots : LoadReply(s) /\ calls[s].reply # <<>> /\ Loaded(s)
                              /\ Update(FALSE, addressesData')
<1>0. isLoading \in BOOLEAN BY DEF IInv, TypeOK
<1>. USE <1>0 DEF data, Still
<1>1. CASE UNCHANGED vars
  BY <1>1 DEF vars
<1>2. CASE \/ LeaveList \/ LeaveForm \/ LeaveCheckOut \/ PlaceOrder
           \/ GiveLocation \/ LeaveDialog \/ ConfirmRefused
  BY <1>2 DEF LeaveList, LeaveForm, LeaveCheckOut, PlaceOrder, GiveLocation, LeaveDialog,
              ConfirmRefused, Popped, OnForm
<1>3. CASE OpenAdd \/ Frame
  BY <1>3 DEF OpenAdd, Frame, ShowForm, Update
<1>4. ASSUME NEW i \in 1 .. MaxId, OpenEdit(i) PROVE Still
  BY <1>4 DEF OpenEdit, ShowForm, Update
<1>5. ASSUME NEW text \in Text, NEW place \in Place, Confirm(text, place) PROVE Still
  BY <1>5 DEF Confirm, Update
<1>6. ASSUME NEW s \in Slots, Serve(s) \/ Lose(s) PROVE Still
  BY <1>6 DEF Serve, Lose
<1>7. ASSUME NEW s \in Slots, AreaReply(s) PROVE Still
  BY <1>7 DEF AreaReply, Popped
<1>10. ASSUME NEW s \in Slots, GeocodeReply(s) \/ LocateReply(s) PROVE Still
  BY <1>10 DEF GeocodeReply, LocateReply, ShowForm, Update
<1>8. ASSUME NEW s \in Slots, ChangeReply(s) PROVE Still
  BY <1>8 DEF ChangeReply, ReloadAfter, Update
<1>9. ASSUME NEW s \in Slots, LoadReply(s), ~(calls[s].reply # <<>> /\ Loaded(s) /\ Update(FALSE, addressesData'))
      PROVE  Still
  <2>1. CASE UNCHANGED <<data, shown>> /\ UNCHANGED screen
    BY <2>1
  <2>2. CASE LoadFailed(s) /\ Update(isLoading', addressesData) /\ UNCHANGED screen
    BY <2>2 DEF LoadFailed, Update
  <2>. QED BY <1>9, <2>1, <2>2 DEF LoadReply
<1>. QED BY <1>1, <1>2, <1>3, <1>4, <1>5, <1>6, <1>7, <1>8, <1>9, <1>10 DEF Next, User, Reply

LEMMA NextSelection ==
  ASSUME IInv, [Next]_vars
  PROVE  SelectedIsListed' /\ ShownWasSelected' /\ CheckOutHasAddress'
<1>. USE DEF SelectedIsListed, ShownWasSelected, CheckOutHasAddress
<1>0. /\ SelectedIsListed /\ ShownWasSelected /\ CheckOutHasAddress
      /\ addressesData \in Seq(Address)
      /\ \A q \in Seq(Address) : \A i \in DOMAIN q : q[i] # Null /\ q[i] \in Range(q)
  BY NullAssumption DEF IInv, TypeOK, Range
<1>1. addressesData # <<>> => selectedAddress # Null
  BY <1>0 DEF Range
<1>2. CASE Still
  BY <1>0, <1>1, <1>2 DEF Still
<1>3. CASE CheckOut
  BY <1>0, <1>3 DEF CheckOut, data
<1>4. CASE OpenList
  BY <1>4 DEF OpenList
<1>5. CASE TapDelete
  <2>1. addressesData' = <<>> /\ UNCHANGED <<selectedAddress, screen, shown>>
    BY <1>5 DEF TapDelete, DeleteAddress
  <2>. QED BY <1>0, <2>1
<1>6. ASSUME NEW i \in 1 .. MaxId, SelectAddress(i)
      PROVE  SelectedIsListed' /\ ShownWasSelected' /\ CheckOutHasAddress'
  <2>1. CASE i \in DOMAIN addressesData
    BY <1>0, <1>6, <2>1 DEF SelectAddress, Update
  <2>2. CASE i \notin DOMAIN addressesData
    BY <1>0, <1>6, <2>2 DEF SelectAddress
  <2>. QED BY <2>1, <2>2
<1>7. ASSUME NEW s \in Slots, LoadReply(s), calls[s].reply # <<>>, Loaded(s), Update(FALSE, addressesData')
      PROVE  SelectedIsListed' /\ ShownWasSelected' /\ CheckOutHasAddress'
  <2>1. calls[s].reply \in Seq(Address) /\ 1 \in DOMAIN calls[s].reply
    BY <1>7 DEF IInv, TypeOK, CallType
  <2>2. addressesData' = calls[s].reply /\ selectedAddress' = calls[s].reply[1]
    BY <1>7 DEF Loaded
  <2>3. selectedAddress' # Null /\ selectedAddress' \in Range(addressesData')
    BY <1>0, <2>1, <2>2
  <2>. QED BY <2>3
<1>. QED BY <1>2, <1>3, <1>4, <1>5, <1>6, <1>7, StillSteps

-----------------------------------------------------------------------------
\* Steps that are not taps leave the form alone, and no look up begins or changes;
\* only the location opens a form, and the place is read again between two look ups.
Kept == /\ UNCHANGED form
        /\ \A s \in Slots : calls'[s].kind \in LookUps =>
             /\ calls[s].kind \in LookUps /\ calls'[s].id = calls[s].id
             /\ calls'[s].text = calls[s].text /\ calls'[s].place = calls[s].place
             /\ calls'[s].kind = "area" => \/ calls[s].kind = "area" /\ calls'[s].at = calls[s].at
                                          \/ calls'[s].at = currentLatLng

LEMMA KeptSteps ==
  ASSUME IInv, NEW s \in Slots,
         Serve(s) \/ Lose(s) \/ Frame \/ UNCHANGED vars \/ (Reply(s) /\ ~LocateReply(s))
  PROVE  Kept
<1>0. calls \in [Slots -> CallType] /\ NoCall.kind \notin LookUps /\ Reload.kind \notin LookUps
  BY ConstantCalls DEF IInv, TypeOK, LookUps
<1>1. CASE Frame \/ UNCHANGED vars
  BY <1>1 DEF Frame, vars, Kept
<1>2. CASE LoadReply(s) \/ ChangeReply(s)
  BY <1>0, <1>2 DEF LoadReply, ChangeReply, Kept
<1>3. CASE AreaReply(s)
  <2>1. \A area : Saved(area).kind \notin LookUps
    BY DEF Saved, Request, LookUps
  <2>2. \E d : d.kind \notin LookUps /\ calls' = [calls EXCEPT ![s] = d]
    BY <1>0, <1>3, <2>1 DEF AreaReply
  <2>. QED BY <1>0, <1>3, <2>2 DEF AreaReply, Kept
<1>4. CASE GeocodeReply(s)
  <2> DEFINE d == Request("area", calls[s].id, calls[s].text, calls[s].place, currentLatLng)
  <2>1. /\ d.id = calls[s].id /\ d.text = calls[s].text /\ d.place = calls[s].place
        /\ d.at = currentLatLng
    BY DEF Request
  <2>2. calls[s].kind \in LookUps
    BY <1>4 DEF GeocodeReply, Replied, LookUps
  <2>3. calls' = [calls EXCEPT ![s] = NoCall] \/ calls' = [calls EXCEPT ![s] = d]
    BY <1>4 DEF GeocodeReply
  <2> HIDE DEF d
  <2>. QED BY <1>0, <1>4, <2>1, <2>2, <2>3 DEF GeocodeReply, Kept
<1>5. ASSUME NEW status, NEW reply, Answer(s, status, reply), UNCHANGED form
      PROVE  Kept
  <2>1. calls[s] \in CallType
    BY <1>0
  <2>2. LET d == Answered(calls[s], status, reply) IN
          /\ d.kind = calls[s].kind /\ d.id = calls[s].id /\ d.text = calls[s].text
          /\ d.place = calls[s].place /\ d.at = calls[s].at
    BY <2>1 DEF Answered, CallType
  <2>. QED BY <1>0, <1>5, <2>2 DEF Answer, Kept
<1>6. CASE Serve(s) \/ Lose(s)
  BY <1>5, <1>6 DEF Serve, Lose, ServeSelect, ServeLookUp, ServeInsert, ServeUpdate,
                    ServeDelete, Done
<1>. QED BY <1>1, <1>2, <1>3, <1>4, <1>6 DEF Reply

\* Who has hurried once is no longer patient.
LEMMA HurryStays ==
  ASSUME [Next]_vars, ~hurried' PROVE ~hurried
<1>1. CASE Tap BY <1>1 DEF Tap
<1>2. CASE UNCHANGED hurried BY <1>2
<1>3. User => Tap
  BY UserTaps
<1>4. Frame \/ UNCHANGED vars => UNCHANGED hurried BY DEF Frame, vars, rest
<1>5. \A s \in Slots : Serve(s) \/ Lose(s) \/ Reply(s) => UNCHANGED hurried
  BY DEF Serve, Lose, Reply, LoadReply, LocateReply, GeocodeReply, AreaReply, ChangeReply, rest
<1> QED BY <1>1, <1>2, <1>3, <1>4, <1>5 DEF Next

\* The answers, each with its status and what it brings.
LEMMA Answers ==
  ASSUME NEW s \in Slots, Serve(s) \/ Lose(s)
  PROVE  \E status, reply : Answer(s, status, reply)
BY DEF Serve, Lose, ServeSelect, ServeLookUp, ServeInsert, ServeUpdate, ServeDelete, Done

\* The answers, and what is lost: the other requests stay.
LEMMA SlotSteps ==
  ASSUME IInv, NEW s \in Slots, Serve(s) \/ Lose(s) \/ Reply(s)
  PROVE  calls[s] # NoCall /\ \A r \in Slots : r # s => calls'[r] = calls[r]
<1>0. calls \in [Slots -> CallType]
  BY DEF IInv, TypeOK
<1>1. Serve(s) \/ Reply(s) => calls[s].kind # "none"
  BY <1>0 DEF Serve, ServeSelect, ServeLookUp, ServeInsert, ServeUpdate, ServeDelete, Sent,
              Reply, LoadReply, LocateReply, GeocodeReply, AreaReply, ChangeReply, Replied, LookUps
<1>2. calls[s] # NoCall
  BY <1>1, ConstantCalls DEF Lose
<1>3. CASE Serve(s) \/ Lose(s)
  <2>1. PICK status, reply : Answer(s, status, reply)
    BY <1>3, Answers
  <2>. QED BY <1>0, <1>2, <2>1 DEF Answer
<1>4. CASE LoadReply(s) \/ LocateReply(s)
  <2>1. calls' = [calls EXCEPT ![s] = NoCall]
    BY <1>4 DEF LoadReply, LocateReply
  <2>. QED BY <1>0, <1>2, <2>1
<1>5. CASE GeocodeReply(s)
  <2>1. PICK d : calls' = [calls EXCEPT ![s] = d]
    BY <1>5, Zenon DEF GeocodeReply
  <2>. QED BY <1>0, <1>2, <2>1
<1>7. CASE AreaReply(s)
  <2>1. \/ calls' = [calls EXCEPT ![s] = NoCall]
        \/ calls' = [calls EXCEPT ![s] = Saved(AreaIn(AreasOf[calls[s].place], calls[s].at))]
    BY <1>7 DEF AreaReply
  <2>. QED BY <1>0, <1>2, <2>1
<1>8. CASE ChangeReply(s)
  <2>1. calls' = [calls EXCEPT ![s] = NoCall] \/ calls' = [calls EXCEPT ![s] = Reload]
    BY <1>8 DEF ChangeReply
  <2>. QED BY <1>0, <1>2, <2>1
<1>. QED BY <1>2, <1>3, <1>4, <1>5, <1>7, <1>8 DEF Reply

LEMMA NextSingle ==
  ASSUME IInv, [Next]_vars, ~hurried' PROVE Single'
<1>0. Single /\ calls \in [Slots -> CallType]
  BY HurryStays DEF IInv, TypeOK
<1>1. CASE UNCHANGED calls
  BY <1>0, <1>1 DEF Single
<1>2. CASE User
  <2>1. \A s \in Slots : calls[s] = NoCall
    BY <1>2, UserTaps, PatientTap
  <2>2. CASE Silent
    BY <1>1, <2>2, SilentTaps
  <2>3. CASE OpenList
    <3>1. PICK s \in Slots : calls' = [r \in Slots |-> IF r = s THEN Reload ELSE Disowned(calls[r])]
      BY <2>3 DEF OpenList
    <3>. QED BY <2>1, <3>1 DEF Single, Disowned
  <2>4. ASSUME NEW c, Call(c) PROVE Single'
    BY <1>0, <2>1, <2>4 DEF Call, Single
  <2>5. CASE TapDelete \/ GiveLocation \/ \E text \in Text, place \in Place : Confirm(text, place)
    BY <2>4, <2>5 DEF TapDelete, DeleteAddress, GiveLocation, Confirm
  <2>. QED BY <1>2, <2>2, <2>3, <2>5 DEF User, Silent
<1>3. ASSUME NEW s \in Slots, Serve(s) \/ Lose(s) \/ Reply(s) PROVE Single'
  BY <1>0, <1>3, SlotSteps DEF Single
<1>4. CASE Frame \/ UNCHANGED vars
  BY <1>1, <1>4 DEF Frame, vars
<1>. QED BY <1>2, <1>3, <1>4 DEF Next

LEMMA NextLookUp ==
  ASSUME IInv, [Next]_vars, ~hurried' PROVE LookUpIsForm'
<1>0. LookUpIsForm /\ Single /\ calls \in [Slots -> CallType]
  BY HurryStays DEF IInv, TypeOK
<1>1. CASE Kept
  BY <1>0, <1>1 DEF Kept, LookUpIsForm, Edited, form
<1>2. ASSUME \A s \in Slots : calls'[s].kind \notin LookUps PROVE LookUpIsForm'
  BY <1>2 DEF LookUpIsForm
<1>3. CASE Silent
  <2>1. Tap /\ UNCHANGED calls
    BY <1>3, SilentTaps, UserTaps
  <2>. QED BY <1>2, <2>1, PatientTap
<1>4. CASE OpenList
  <2>1. PICK s \in Slots : calls' = [r \in Slots |-> IF r = s THEN Reload ELSE Disowned(calls[r])]
    BY <1>4 DEF OpenList
  <2>2. \A r \in Slots : calls[r].kind \notin LookUps
    BY <1>4, PatientTap DEF OpenList
  <2>. QED BY <1>0, <1>2, <2>1, <2>2, ConstantCalls, DisownedType DEF LookUps
<1>5. CASE TapDelete \/ GiveLocation
  <2>1. \E c : c.kind \notin LookUps /\ Call(c)
    BY <1>5, RequestKeeps, ConstantCalls DEF TapDelete, DeleteAddress, GiveLocation, LookUps
  <2>2. \A r \in Slots : calls[r].kind \notin LookUps
    BY <1>5, PatientTap DEF TapDelete, GiveLocation
  <2>. QED BY <1>0, <1>2, <2>1, <2>2 DEF Call
<1>6. ASSUME NEW text \in Text, NEW place \in Place, Confirm(text, place) PROVE LookUpIsForm'
  <2>1. \A r \in Slots : calls[r].kind \notin LookUps
    BY <1>6, PatientTap DEF Confirm
  <2> DEFINE c == Request("geocode", Edited, text, place, place)
  <2>2. c.id = Edited /\ c.text = text /\ c.place = place /\ c.at = place
    BY DEF Request
  <2>3. \A r \in Slots : calls'[r] = calls[r] \/ calls'[r] = c
    BY <1>0, <1>6 DEF Confirm, Call
  <2>4. Edited' = Edited /\ writtenAddress' = text /\ currentLatLng' = place
    BY <1>6 DEF Confirm, Edited
  <2> HIDE DEF c
  <2>. QED BY <2>1, <2>2, <2>3, <2>4 DEF LookUpIsForm
<1>7. ASSUME NEW s \in Slots, Serve(s) \/ Lose(s) \/ (Reply(s) /\ ~LocateReply(s)) PROVE LookUpIsForm'
  BY <1>1, <1>7, KeptSteps
<1>8. ASSUME NEW s \in Slots, LocateReply(s) PROVE LookUpIsForm'
  <2>1. calls[s] # NoCall
    BY <1>8, SlotSteps DEF Reply
  <2>2. \A r \in Slots : r # s => calls[r] = NoCall
    BY <1>0, <2>1 DEF Single
  <2>3. \A r \in Slots : calls'[r] = NoCall
    BY <1>0, <1>8, <2>2 DEF LocateReply
  <2>. QED BY <1>2, <2>3, ConstantCalls DEF LookUps
<1>9. CASE Frame \/ UNCHANGED vars
  <2>1. UNCHANGED <<form, calls>>
    BY <1>9 DEF Frame, vars
  <2>. QED BY <1>1, <2>1 DEF Kept
<1>. QED BY <1>3, <1>4, <1>5, <1>6, <1>7, <1>8, <1>9 DEF Next, User, Silent

\* A look up becomes a request to save only when its own answer comes.
LEMMA OnlySavedFollows ==
  ASSUME IInv, [Next]_vars, NEW s \in Slots, calls[s].kind = "area",
         calls'[s].kind \in {"insert", "update"}
  PROVE  /\ calls'[s] = Saved(AreaIn(AreasOf[calls[s].place], calls[s].at))
         /\ AreasOf[calls[s].place] # <<>>
<1>0. calls \in [Slots -> CallType] /\ calls'[s] # calls[s] /\ calls[s] # NoCall
  BY ConstantCalls DEF IInv, TypeOK
<1>1. CASE UNCHANGED calls
  BY <1>0, <1>1
<1>2. CASE OpenList
  <2>1. PICK q \in Slots : calls[q] = NoCall
               /\ calls' = [r \in Slots |-> IF r = q THEN Reload ELSE Disowned(calls[r])]
    BY <1>2 DEF OpenList
  <2>. QED BY <1>0, <2>1, DisownedType
<1>3. ASSUME NEW c, Call(c) PROVE FALSE
  BY <1>0, <1>3 DEF Call
<1>4. CASE TapDelete \/ GiveLocation \/ \E text \in Text, place \in Place : Confirm(text, place)
  BY <1>3, <1>4 DEF TapDelete, DeleteAddress, GiveLocation, Confirm
<1>5. ASSUME NEW r \in Slots, Serve(r) \/ Lose(r) PROVE FALSE
  <2>1. ASSUME NEW status, NEW reply, Answer(r, status, reply) PROVE FALSE
    <3>1. Answered(calls[r], status, reply).kind = calls[r].kind
      BY <1>0 DEF Answered, CallType
    <3>. QED BY <1>0, <2>1, <3>1 DEF Answer
  <2>. QED BY <1>5, <2>1 DEF Serve, Lose, ServeSelect, ServeLookUp, ServeInsert, ServeUpdate,
                             ServeDelete, Done
<1>6. ASSUME NEW r \in Slots, LoadReply(r) \/ ChangeReply(r) \/ LocateReply(r) \/ GeocodeReply(r)
      PROVE  FALSE
  <2>1. r # s
    BY <1>6 DEF LoadReply, ChangeReply, LocateReply, GeocodeReply, Replied
  <2>2. \A q \in Slots : q # r => calls'[q] = calls[q]
    BY <1>6, SlotSteps DEF Reply
  <2>. QED BY <1>0, <2>1, <2>2
<1>7. ASSUME NEW r \in Slots, AreaReply(r)
      PROVE  /\ calls'[s] = Saved(AreaIn(AreasOf[calls[s].place], calls[s].at))
             /\ AreasOf[calls[s].place] # <<>>
  BY <1>0, <1>7, ConstantCalls DEF AreaReply
<1>8. CASE Silent \/ Frame \/ UNCHANGED vars
  BY <1>1, <1>8, SilentTaps DEF Frame, vars
<1>. QED BY <1>2, <1>4, <1>5, <1>6, <1>7, <1>8 DEF Next, User, Reply, Silent

-----------------------------------------------------------------------------
\* The types, with what is known of the selection and of the look-ups in flight,
\* hold in every state: the invariant the theorems below are read from.
THEOREM SpecIInv == Spec => []IInv
<1>1. ASSUME IInv, [Next]_vars PROVE IInv'
  BY <1>1, NextTypes, NextSelection, NextSingle, NextLookUp DEF IInv
<1>. QED BY <1>1, InitIInv, PTL DEF Spec

\* Every variable keeps its type.
THEOREM TypesCorrect == Spec => []TypeOK
<1>1. IInv => TypeOK BY DEF IInv
<1>. QED BY <1>1, SpecIInv, PTL

\* With addresses listed, the address an order would go to is one of them.
THEOREM SelectionIsListed == Spec => []SelectedIsListed
<1>1. IInv => SelectedIsListed BY DEF IInv
<1>. QED BY <1>1, SpecIInv, PTL

\* The check out never reads the fields of an address that is null.
THEOREM CheckOutIsBuilt == Spec => []CheckOutHasAddress
<1>1. IInv => CheckOutHasAddress BY DEF IInv
<1>. QED BY <1>1, SpecIInv, PTL

\* A user who waits for every answer saves the form as it was when its button was
\* tapped, in the address that was edited, with an area that fits its place: the place is
\* read three times, and no other form has been opened in between.
THEOREM PatientSavesTheForm == Spec => PatientSaves
<1>1. ASSUME IInv, [Next]_vars PROVE [~hurried => SavesTheForm]_vars
  <2> SUFFICES ASSUME ~hurried PROVE SavesTheForm
    OBVIOUS
  <2>1. SUFFICES ASSUME NEW s \in Slots, calls[s].kind = "area",
                        calls'[s].kind \in {"insert", "update"}
                 PROVE  /\ calls'[s].id = calls[s].id /\ calls'[s].text = calls[s].text
                        /\ calls'[s].place = calls[s].place
                        /\ AreaFits(calls'[s].area, calls[s].place)
    BY DEF SavesTheForm
  <2>2. /\ calls[s].id = Edited /\ calls[s].text = writtenAddress
        /\ calls[s].place = currentLatLng /\ calls[s].at = calls[s].place
    BY <2>1, <1>1 DEF IInv, LookUpIsForm, LookUps
  <2> DEFINE area == AreaIn(AreasOf[calls[s].place], calls[s].place)
  <2>3. calls'[s] = Saved(area) /\ AreasOf[calls[s].place] # <<>>
    BY <1>1, <2>1, <2>2, OnlySavedFollows
  <2>4. calls[s].place \in Place
    BY <1>1 DEF IInv, TypeOK, CallType
  <2>5. AreaFits(area, calls[s].place) /\ area \in Area
    BY <2>3, <2>4, AreaInFits, AreaInType, AreaAssumption
  <2>6. TypeOK /\ currentLatLng \in Place
    BY <1>1, <2>2, <2>4 DEF IInv
  <2> HIDE DEF area
  <2>. QED BY <2>2, <2>3, <2>5, <2>6, SavedType
<1>. QED BY <1>1, SpecIInv, PTL DEF PatientSaves, Spec

-----------------------------------------------------------------------------
(* The rows that are shown.                                                  *)
\* What an answer leaves of a request.
LEMMA AnswerKeeps ==
  ASSUME NEW c \in CallType, NEW status, NEW reply
  PROVE  LET d == Answered(c, status, reply) IN
           /\ d.kind = c.kind /\ d.mine = c.mine /\ d.status = status /\ d.reply = reply
BY DEF Answered, CallType

\* A deletion stays under way until the list is left or loaded again.
LEMMA DeletionStays ==
  ASSUME IInv, [Next]_vars, NEW r \in Slots, calls[r].kind = "delete", calls[r].mine
  PROVE  (calls'[r].kind = "delete" /\ calls'[r].mine) \/ OpenList \/ ChangeReply(r)
<1>0. calls \in [Slots -> CallType] /\ calls[r] # NoCall /\ calls[r] \in CallType
  BY ConstantCalls DEF IInv, TypeOK
<1>1. CASE UNCHANGED calls
  BY <1>1
<1>2. ASSUME NEW c, Call(c) PROVE calls'[r] = calls[r]
  BY <1>0, <1>2 DEF Call
<1>3. CASE TapDelete \/ GiveLocation \/ \E text \in Text, place \in Place : Confirm(text, place)
  BY <1>2, <1>3 DEF TapDelete, DeleteAddress, GiveLocation, Confirm
<1>4. ASSUME NEW s \in Slots, Serve(s) \/ Lose(s)
      PROVE  calls'[r].kind = "delete" /\ calls'[r].mine
  <2>1. PICK status, reply : Answer(s, status, reply)
    BY <1>4, Answers
  <2>2. CASE s = r
    <3>1. calls'[r] = Answered(calls[r], status, reply)
      BY <1>0, <2>1, <2>2 DEF Answer
    <3>. QED BY <1>0, <3>1, AnswerKeeps
  <2>3. CASE s # r
    BY <1>0, <2>1, <2>3 DEF Answer
  <2>. QED BY <2>2, <2>3
<1>5. ASSUME NEW s \in Slots, Reply(s), ~ChangeReply(r)
      PROVE  calls'[r].kind = "delete" /\ calls'[r].mine
  <2>1. s # r
    BY <1>5 DEF Reply, LoadReply, LocateReply, GeocodeReply, AreaReply, Replied
  <2>. QED BY <1>5, <2>1, SlotSteps
<1>8. CASE Silent \/ Frame \/ UNCHANGED vars
  BY <1>1, <1>8, SilentTaps DEF Frame, vars
<1>. QED BY <1>3, <1>4, <1>5, <1>8 DEF Next, User, Silent

\* After a step the screen shows the list as it is, or what it showed.
LEMMA Seen ==
  ASSUME IInv, [Next]_vars
  PROVE  \/ shown'.list = addressesData'
         \/ UNCHANGED <<shown, addressesData>>
         \/ TapDelete
<1>1. CASE Still
  BY <1>1 DEF Still
<1>2. CASE CheckOut
  BY <1>2 DEF CheckOut, data
<1>3. CASE OpenList
  BY <1>3 DEF OpenList
<1>4. ASSUME NEW i \in 1 .. MaxId, SelectAddress(i)
      PROVE  shown'.list = addressesData' \/ UNCHANGED <<shown, addressesData>>
  BY <1>4 DEF SelectAddress, Update
<1>5. ASSUME NEW s \in Slots, Update(FALSE, addressesData') PROVE shown'.list = addressesData'
  BY <1>5 DEF Update
<1>. QED BY <1>1, <1>2, <1>3, <1>4, <1>5, StillSteps

LEMMA NextRows ==
  ASSUME IInv, RowsCanBeSelected, [Next]_vars PROVE RowsCanBeSelected'
<1>. SUFFICES ASSUME ~shown'.loading, shown'.list # <<>>, addressesData' = <<>>
              PROVE  \E s \in Slots : calls'[s].kind = "delete" /\ calls'[s].mine
  BY DEF RowsCanBeSelected
<1>0. calls \in [Slots -> CallType]
  BY DEF IInv, TypeOK
<1>1. CASE TapDelete
  <2>1. PICK a \in Address : DeleteAddress(a)
    BY <1>1 DEF TapDelete, IInv, TypeOK, CheckOutHasAddress
  <2> DEFINE d == Request("delete", a.id, Null, Here, Here)
  <2>2. d.kind = "delete" /\ d.mine
    BY RequestKeeps
  <2>3. \E s \in Slots : calls'[s] = d
    BY <1>0, <2>1 DEF DeleteAddress, Call
  <2>. QED BY <2>2, <2>3
<1>2. CASE UNCHANGED <<shown, addressesData>>
  <2>1. PICK r \in Slots : calls[r].kind = "delete" /\ calls[r].mine
    BY <1>2 DEF RowsCanBeSelected
  <2>2. ~OpenList
    BY DEF OpenList
  <2>3. ~ChangeReply(r)
    <3>1. SUFFICES ASSUME ChangeReply(r) PROVE FALSE
      OBVIOUS
    <3>2. Update(TRUE, addressesData)
      BY <2>1, <3>1 DEF ChangeReply, ReloadAfter
    <3>. QED BY <3>2 DEF Update
  <2>. QED BY <2>1, <2>2, <2>3, DeletionStays
<1>. QED BY <1>1, <1>2, Seen

\* Rows without an address behind them are on the screen only while a deletion is
\* under way: selectAddress does not fail on a row of a list that has settled.
THEOREM RowsAreListed == Spec => []RowsCanBeSelected
<1>1. Init => RowsCanBeSelected
  BY DEF Init, RowsCanBeSelected
<1>2. IInv /\ RowsCanBeSelected /\ [Next]_vars => RowsCanBeSelected'
  BY NextRows
<1>. QED BY <1>1, <1>2, SpecIInv, PTL DEF Spec

-----------------------------------------------------------------------------
(* The user who waits, with nothing lost: one request at a time              *)
Follows(s) ==
  /\ calls[s].mine
  /\ calls[s].kind \in ListKinds => calls[s].status # "lost"
  /\ calls[s].kind = "select" /\ calls[s].status = "done" => calls[s].reply = stored
  /\ calls[s].kind = "delete" => addressesData = <<>>
  /\ calls[s].kind \notin ListKinds => addressesData = stored
  /\ calls[s].kind \in LookUps => screen = "form"
  /\ calls[s].kind = "locate" => screen = "dialog"

OneByOne ==
  /\ Single
  /\ \A s \in Slots : calls[s] # NoCall => Follows(s) /\ screen # "cart"
  /\ screen # "cart" /\ stored = <<>> => addressesData = <<>>
  /\ screen # "loose"

PatientList == ~hurried /\ ~lost => OneByOne

Listed == PatientList /\ QuietListIsStored

LEMMA LostStays ==
  ASSUME IInv, [Next]_vars, ~lost' PROVE ~lost
<1>1. User => UNCHANGED lost
  BY UserTaps DEF Tap
<1>2. Frame \/ UNCHANGED vars => UNCHANGED lost BY DEF Frame, vars, rest
<1>3. \A s \in Slots : Serve(s) \/ Reply(s) => UNCHANGED lost
  BY DEF Serve, Reply, LoadReply, LocateReply, GeocodeReply, AreaReply, ChangeReply, rest
<1>4. lost \in BOOLEAN => \A s \in Slots : Lose(s) => ~lost BY DEF Lose
<1> QED BY <1>1, <1>2, <1>3, <1>4 DEF Next, IInv, TypeOK

LEMMA QuietTap == Tap /\ ~hurried' => Quiet
BY DEF Tap

\* With one request, what a step does to it is what there is to show.
LEMMA OneRequest ==
  ASSUME IInv, NEW s \in Slots, \A r \in Slots : r # s => calls[r] = NoCall,
         NEW d, calls' = [calls EXCEPT ![s] = d],
         d # NoCall => Follows(s)' /\ screen' # "cart",
         d = NoCall /\ screen' # "cart" => addressesData' = stored',
         screen' # "cart" /\ stored' = <<>> => addressesData' = <<>>,
         screen' # "loose"
  PROVE  Listed'
<1>0. calls \in [Slots -> CallType]
  BY DEF IInv, TypeOK
<1>1. calls'[s] = d /\ \A r \in Slots : r # s => calls'[r] = NoCall
  BY <1>0
<1>2. \A q, r \in Slots : calls'[q] # NoCall /\ calls'[r] # NoCall => q = r
  BY <1>1
<1>3. \A r \in Slots : calls'[r] # NoCall => Follows(r)' /\ screen' # "cart"
  BY <1>1
<1>4. OneByOne'
  BY <1>2, <1>3 DEF OneByOne, Single
<1>5. Quiet' => d = NoCall
  BY <1>1 DEF Quiet
<1>. QED BY <1>4, <1>5 DEF Listed, PatientList, QuietListIsStored

\* Nothing in flight, before and after.
LEMMA NoRequest ==
  ASSUME Listed, ~hurried, ~lost, Quiet, screen # "cart",
         UNCHANGED <<addressesData, stored, calls>>, screen' # "loose"
  PROVE  Listed'
<1>1. addressesData = stored
  BY DEF Listed, QuietListIsStored
<1>2. \A s \in Slots : calls'[s] = NoCall
  BY DEF Quiet
<1>. QED BY <1>1, <1>2 DEF Listed, PatientList, QuietListIsStored, OneByOne, Single

LEMMA NextListedUser ==
  ASSUME IInv, Listed, ~hurried, ~lost, User, ~hurried' PROVE Listed'
<1>0. calls \in [Slots -> CallType]
  BY DEF IInv, TypeOK
<1>1. Quiet
  BY QuietTap, UserTaps
<1>2. /\ screen # "cart" => addressesData = stored
      /\ screen # "loose" /\ OneByOne
  BY <1>1 DEF Listed, PatientList, OneByOne, QuietListIsStored
<1>3. CASE Silent
  <2>1. screen # "cart" /\ UNCHANGED <<addressesData, stored, calls>>
    BY <1>3, SilentTaps
  <2>2. screen' # "loose"
    BY <1>2, <1>3, <2>1 DEF Silent, LeaveList, OpenAdd, LeaveDialog, LeaveForm, ConfirmRefused, CheckOut,
         LeaveCheckOut, PlaceOrder, SelectAddress, OpenEdit, Popped
  <2>. QED BY <1>1, <2>1, <2>2, NoRequest
<1>4. CASE OpenList
  <2>1. PICK s \in Slots : calls' = [r \in Slots |-> IF r = s THEN Reload ELSE Disowned(calls[r])]
    BY <1>4 DEF OpenList
  <2>2. calls' = [calls EXCEPT ![s] = Reload]
    BY <1>0, <1>1, <2>1 DEF Quiet, Disowned
  <2>3. calls'[s].mine /\ calls'[s].status = "sent" /\ calls'[s].kind = "select"
    <3>1. calls'[s] = Reload BY <1>0, <2>2
    <3>. QED BY <3>1, RequestKeeps DEF Reload
  <2>4. screen' = "list" /\ addressesData' = <<>>
    BY <1>4 DEF OpenList
  <2>5. Follows(s)'
    BY <2>3, <2>4 DEF Follows, ListKinds, LookUps
  <2>6. Reload # NoCall
    BY ConstantCalls
  <2>. QED BY <1>1, <2>2, <2>4, <2>5, <2>6, OneRequest DEF Quiet
<1>5. CASE TapDelete
  <2>1. PICK a \in Address : DeleteAddress(a)
    BY <1>5 DEF TapDelete, IInv, TypeOK, CheckOutHasAddress
  <2> DEFINE d == Request("delete", a.id, Null, Here, Here)
  <2>2. PICK s \in Slots : calls' = [calls EXCEPT ![s] = d]
    BY <2>1 DEF DeleteAddress, Call
  <2>3. d.kind = "delete" /\ d.mine /\ d.status = "sent"
    BY RequestKeeps
  <2>4. calls'[s] = d
    BY <1>0, <2>2
  <2>5. addressesData' = <<>> /\ screen' # "cart" /\ screen' # "loose"
    BY <1>5, <2>1 DEF TapDelete, DeleteAddress
  <2>6. Follows(s)'
    BY <2>3, <2>4, <2>5 DEF Follows, ListKinds, LookUps
  <2>7. d # NoCall
    BY <2>3, ConstantCalls
  <2> HIDE DEF d
  <2>. QED BY <1>1, <2>2, <2>5, <2>6, <2>7, OneRequest DEF Quiet
<1>6. ASSUME NEW text \in Text, NEW place \in Place, Confirm(text, place) PROVE Listed'
  <2> DEFINE d == Request("geocode", Edited, text, place, place)
  <2>2. PICK s \in Slots : calls' = [calls EXCEPT ![s] = d]
    BY <1>6 DEF Confirm, Call
  <2>3. d.kind = "geocode" /\ d.mine /\ d.status = "sent"
    BY RequestKeeps
  <2>4. calls'[s] = d
    BY <1>0, <2>2
  <2>5. screen' = "form" /\ screen = "form" /\ UNCHANGED <<addressesData, stored>>
    BY <1>2, <1>6 DEF Confirm, OnForm, data, server
  <2>6. Follows(s)'
    BY <1>2, <2>3, <2>4, <2>5 DEF Follows, ListKinds
  <2>7. d # NoCall
    BY <2>3, ConstantCalls
  <2> HIDE DEF d
  <2>. QED BY <1>1, <1>2, <2>2, <2>5, <2>6, <2>7, OneRequest DEF Quiet
<1>7. CASE GiveLocation
  <2>2. PICK s \in Slots : calls' = [calls EXCEPT ![s] = Locate]
    BY <1>7 DEF GiveLocation, Call
  <2>3. Locate.kind = "locate" /\ Locate.mine /\ Locate.status = "sent"
    BY RequestKeeps DEF Locate
  <2>4. calls'[s] = Locate
    BY <1>0, <2>2
  <2>5. screen' = "dialog" /\ screen = "dialog" /\ UNCHANGED <<addressesData, stored>>
    BY <1>7 DEF GiveLocation, data, server
  <2>6. Follows(s)'
    BY <1>2, <2>3, <2>4, <2>5 DEF Follows, ListKinds, LookUps
  <2>7. Locate # NoCall
    BY ConstantCalls
  <2>. QED BY <1>1, <1>2, <2>2, <2>5, <2>6, <2>7, OneRequest DEF Quiet
<1>. QED BY <1>3, <1>4, <1>5, <1>6, <1>7 DEF User, Silent

\* An answer, or a look up that is lost.
LEMMA NextListedServe ==
  ASSUME IInv, OneByOne, NEW s \in Slots,
         Serve(s) \/ (Lose(s) /\ calls[s].kind \notin ListKinds)
  PROVE  Listed'
<1>0. calls \in [Slots -> CallType] /\ calls[s] \in CallType
  BY DEF IInv, TypeOK
<1>2. calls[s] # NoCall
  BY SlotSteps
<1>3. /\ \A r \in Slots : r # s => calls[r] = NoCall
      /\ Follows(s) /\ screen # "cart" /\ screen # "loose"
      /\ stored = <<>> => addressesData = <<>>
  BY <1>2 DEF OneByOne, Single
<1>4. UNCHANGED <<addressesData, screen>>
  BY DEF Serve, Lose, data
<1>5. PICK status, reply :
        /\ Answer(s, status, reply) /\ status # "sent"
        /\ calls[s].kind \in ListKinds => status # "lost"
        /\ calls[s].kind = "select" => reply = stored /\ stored' = stored
        /\ calls[s].kind \notin ListKinds => stored' = stored
  BY DEF Serve, Lose, ServeSelect, ServeLookUp, ServeInsert, ServeUpdate, ServeDelete, Done, Sent, server,
         ListKinds
<1> DEFINE d == Answered(calls[s], status, reply)
<1>6. d.kind = calls[s].kind /\ d.mine = calls[s].mine /\ d.status = status /\ d.reply = reply
  BY <1>0, AnswerKeeps
<1>7. calls' = [calls EXCEPT ![s] = d] /\ calls'[s] = d
  BY <1>0, <1>5 DEF Answer
<1>8. d # NoCall
  <2>1. NoCall.status = "sent"
    BY RequestKeeps DEF NoCall
  <2>. QED BY <1>5, <1>6, <2>1
<1> HIDE DEF d
<1>9. Follows(s)'
  BY <1>3, <1>4, <1>5, <1>6, <1>7 DEF Follows, ListKinds
<1>10. stored' = <<>> => addressesData = <<>>
  <2>1. CASE ServeSelect(s) \/ ServeLookUp(s) \/ Lose(s)
    BY <1>3, <2>1 DEF ServeSelect, ServeLookUp, Lose, server
  <2>2. CASE ServeInsert(s)
    <3>1. stored \in Seq(Address)
      BY DEF IInv, TypeOK
    <3>2. \A e : Append(stored, e) # <<>>
      BY <3>1, AppendProperties
    <3>. QED BY <2>2, <3>2 DEF ServeInsert
  <2>3. CASE ServeUpdate(s)
    <3>1. stored \in Seq(Address)
      BY DEF IInv, TypeOK
    <3>2. DOMAIN stored' = DOMAIN stored
      BY <2>3 DEF ServeUpdate
    <3>3. stored' = <<>> => DOMAIN stored = {}
      BY <3>2
    <3>4. DOMAIN stored = {} => stored = <<>>
      BY <3>1
    <3>. QED BY <1>3, <3>3, <3>4
  <2>4. CASE ServeDelete(s)
    BY <1>3, <2>4 DEF ServeDelete, Sent, Follows
  <2>. QED BY <2>1, <2>2, <2>3, <2>4 DEF Serve
<1>. QED BY <1>3, <1>4, <1>7, <1>8, <1>9, <1>10, OneRequest

LEMMA NextListedReply ==
  ASSUME IInv, OneByOne, NEW s \in Slots, Reply(s) PROVE Listed'
<1>0. calls \in [Slots -> CallType] /\ calls[s] \in CallType
  BY DEF IInv, TypeOK
<1>2. calls[s] # NoCall
  BY SlotSteps
<1>3. /\ \A r \in Slots : r # s => calls[r] = NoCall
      /\ Follows(s) /\ screen # "cart" /\ screen # "loose"
      /\ stored = <<>> => addressesData = <<>>
  BY <1>2 DEF OneByOne, Single
<1>4. calls[s].mine /\ (LoadReply(s) => calls[s].status = "done")
  BY <1>0, <1>3 DEF LoadReply, Replied, Follows, ListKinds, CallType
<1>5. CASE LoadReply(s)
  <2>1. calls[s].reply = stored
    BY <1>3, <1>4, <1>5 DEF LoadReply, Replied, Follows
  <2>2. UNCHANGED <<stored, screen>> /\ calls' = [calls EXCEPT ![s] = NoCall]
    BY <1>5 DEF LoadReply, server
  <2>3. addressesData' = stored
    <3>1. CASE Loaded(s) BY <2>1, <3>1 DEF Loaded
    <3>2. CASE calls[s].reply = <<>> /\ LoadFailed(s) BY <1>3, <2>1, <3>2 DEF LoadFailed
    <3>. QED BY <1>4, <1>5, <3>1, <3>2 DEF LoadReply
  <2>. QED BY <1>3, <2>2, <2>3, OneRequest
<1>6. CASE AreaReply(s)
  <2>1. screen = "form" /\ addressesData = stored
    BY <1>3, <1>6 DEF AreaReply, Replied, Follows, ListKinds, LookUps
  <2>2. UNCHANGED <<addressesData, stored>>
    BY <1>6 DEF AreaReply, data, server
  <2>3. CASE calls' = [calls EXCEPT ![s] = NoCall] /\ UNCHANGED screen
    BY <1>3, <2>1, <2>2, <2>3, OneRequest
  <2>4. ASSUME NEW area \in Area, calls' = [calls EXCEPT ![s] = Saved(area)], screen' = Popped
        PROVE  Listed'
    <3>1. currentLatLng \in Place
      BY <1>6 DEF IInv, LookUpHasPlace, LookingUp, LookUps, AreaReply, Replied
    <3>2. Saved(area).kind \in {"insert", "update"} /\ Saved(area).mine /\ Saved(area).status = "sent"
      BY <3>1, SavedType DEF IInv
    <3>3. calls'[s] = Saved(area) /\ Saved(area) # NoCall
      BY <1>0, <2>4, <3>2, ConstantCalls
    <3>4. screen' = "list"
      BY <2>1, <2>4 DEF Popped
    <3>5. Follows(s)'
      BY <3>2, <3>3 DEF Follows, ListKinds, LookUps
    <3>. QED BY <1>3, <2>2, <2>4, <3>3, <3>4, <3>5, OneRequest
  <2>5. AreasOf[calls[s].place] # <<>> => AreaIn(AreasOf[calls[s].place], calls[s].at) \in Area
    BY <1>0, AreaAssumption, AreaInType DEF CallType
  <2>. QED BY <1>6, <2>3, <2>4, <2>5 DEF AreaReply
<1>7. CASE ChangeReply(s)
  <2>1. calls' = [calls EXCEPT ![s] = Reload] /\ UNCHANGED <<addressesData, stored, screen>>
    BY <1>4, <1>7 DEF ChangeReply, server
  <2>2. Reload.kind = "select" /\ Reload.mine /\ Reload.status = "sent"
    BY RequestKeeps DEF Reload
  <2>3. calls'[s] = Reload /\ Reload # NoCall
    BY <1>0, <2>1, ConstantCalls
  <2>4. Follows(s)'
    BY <2>2, <2>3 DEF Follows, ListKinds, LookUps
  <2>. QED BY <1>3, <2>1, <2>3, <2>4, OneRequest
<1>8. CASE GeocodeReply(s)
  <2>1. /\ calls[s].kind = "geocode" /\ screen = "form" /\ addressesData = stored
        /\ UNCHANGED <<addressesData, stored, screen>>
    BY <1>3, <1>8 DEF GeocodeReply, Replied, Follows, ListKinds, LookUps, data, server
  <2>2. CASE calls' = [calls EXCEPT ![s] = NoCall]
    BY <1>3, <2>1, <2>2, OneRequest
  <2> DEFINE d == Request("area", calls[s].id, calls[s].text, calls[s].place, currentLatLng)
  <2>3. CASE calls' = [calls EXCEPT ![s] = d]
    <3>1. d.kind = "area" /\ d.mine
      BY RequestKeeps
    <3>2. d # NoCall
      BY <3>1, ConstantCalls
    <3>3. calls'[s] = d
      BY <1>0, <2>3
    <3> HIDE DEF d
    <3>4. Follows(s)'
      BY <2>1, <3>1, <3>3 DEF Follows, ListKinds
    <3>. QED BY <1>3, <2>1, <2>3, <3>2, <3>4, OneRequest
  <2>. QED BY <1>8, <2>2, <2>3 DEF GeocodeReply
<1>9. CASE LocateReply(s)
  <2>1. screen = "dialog" /\ addressesData = stored
    BY <1>3, <1>9 DEF LocateReply, Replied, Follows, ListKinds, LookUps
  <2>2. calls' = [calls EXCEPT ![s] = NoCall] /\ UNCHANGED <<addressesData, stored>>
    BY <1>9 DEF LocateReply, data, server
  <2>3. screen' \in {"form", "dialog"}
    BY <1>9, <2>1 DEF LocateReply, Popped
  <2>. QED BY <1>3, <2>1, <2>2, <2>3, OneRequest
<1>. QED BY <1>5, <1>6, <1>7, <1>8, <1>9 DEF Reply

LEMMA NextListed ==
  ASSUME IInv, Listed, [Next]_vars PROVE Listed'
<1>1. SUFFICES ASSUME ~hurried', ~lost' PROVE Listed'
  BY DEF Listed, PatientList, QuietListIsStored
<1>2. ~hurried /\ ~lost
  BY <1>1, HurryStays, LostStays
<1>3. OneByOne
  BY <1>2 DEF Listed, PatientList
<1>4. CASE User
  BY <1>1, <1>2, <1>4, NextListedUser
<1>5. CASE Frame \/ UNCHANGED vars
  <2>1. UNCHANGED <<addressesData, stored, calls, screen>> /\ UNCHANGED rest
    BY <1>5 DEF Frame, vars, data, server
  <2>2. \A s \in Slots : Follows(s)' <=> Follows(s)
    BY <2>1 DEF Follows
  <2>. QED BY <2>1, <2>2 DEF Listed, PatientList, OneByOne, Single, QuietListIsStored, Quiet, rest
<1>6. \A s \in Slots : Lose(s) => calls[s].kind \notin ListKinds
  BY <1>1 DEF Lose
<1>. QED BY <1>3, <1>4, <1>5, <1>6, NextListedServe, NextListedReply DEF Next

LEMMA InitListed == Init => Listed
<1>. SUFFICES ASSUME Init PROVE Listed
  OBVIOUS
<1>1. addressesData = <<>> /\ screen = "list"
  BY DEF Init
<1>2. \A s \in Slots : calls[s] # NoCall => s = 1 /\ calls[s] = Reload
  BY DEF Init
<1>3. Reload.kind = "select" /\ Reload.mine /\ Reload.status = "sent"
  BY RequestKeeps DEF Reload
<1>4. \A s \in Slots : calls[s] # NoCall => Follows(s)
  BY <1>2, <1>3 DEF Follows, ListKinds, LookUps
<1>5. OneByOne
  BY <1>1, <1>2, <1>4 DEF OneByOne, Single
<1>6. calls[1] = Reload /\ 1 \in Slots /\ Reload # NoCall
  BY BoundAssumption, ConstantCalls DEF Init, Slots
<1>. QED BY <1>5, <1>6 DEF Listed, PatientList, QuietListIsStored, Quiet

\* The requests of a user who waits come one by one, each for what the list then
\* is; so the list is current whenever all has been answered.
THEOREM SpecListed == Spec => []Listed
<1>. QED BY InitListed, NextListed, SpecIInv, PTL DEF Spec

\* Once everything is answered to a user who waits, and nothing was lost, the list
\* on the phone is the server's.
THEOREM QuietListIsCurrent == Spec => []QuietListIsStored
<1>1. Listed => QuietListIsStored BY DEF Listed
<1>. QED BY <1>1, SpecListed, PTL

\* What such a user orders to is an address as the server has it, while the list
\* has any: the order reads the selection, and the selection is of the list.
THEOREM OrdersToStored == Spec => OrderIsCurrent
<1>1. ASSUME IInv, Listed, PlaceOrder, ~hurried', ~lost, addressesData # <<>>
      PROVE  order' \in Range(stored)
  <2>1. Tap /\ screen = "checkout" /\ order' = selectedAddress
    BY <1>1 DEF PlaceOrder
  <2>2. Quiet /\ ~hurried
    BY <1>1, <2>1 DEF Tap
  <2>3. addressesData = stored
    BY <1>1, <2>1, <2>2 DEF Listed, QuietListIsStored
  <2>. QED BY <1>1, <2>1, <2>3 DEF IInv, SelectedIsListed
<1>2. IInv /\ Listed => [PlaceOrder /\ ~hurried' /\ ~lost /\ addressesData # <<>>
                            => order' \in Range(stored)]_vars
  BY <1>1
<1>. QED BY <1>2, SpecIInv, SpecListed, PTL DEF OrderIsCurrent
=============================================================================
