------------------------------ MODULE Addresses ------------------------------
(***************************************************************************)
(* The addresses of the user: lib/controllers/adresses_controller.dart,    *)
(* lib/services/api_calls/addresses_services.dart, and the screens that    *)
(* list, edit, delete and order to them (ui/user_addresses, ui/check_out). *)
(*                                                                         *)
(* A handler runs to its next await; calls holds the requests in flight,   *)
(* which the server may answer in any order, or never see.  The screen is  *)
(* rebuilt only where the code calls update(): shown is what it shows, and *)
(* the rows of shown stay under the finger after the list has been emptied.*)
(***************************************************************************)
EXTENDS Integers, Sequences, SequencesExt

CONSTANTS
  Text,       \* written addresses
  Refused,    \* a text that the form does not accept
  Place,      \* places on the map
  Here,       \* where the user is
  Area,
  AreasOf,    \* the areas the server lists for the region of a place
  Covers,     \* the pairs of an area and a place inside its polygon
  Null,
  FirstStored,\* the addresses the server has at the start
  MaxId,      \* bound: ids the server gives
  MaxTaps,    \* bound: taps of the user
  MaxCalls    \* bound: requests in flight

Written == Text \cup {Refused, Null}
Address == [id : 1 .. MaxId, text : Written, place : Place, area : Area]

\* The first load needs a slot.
ASSUME BoundAssumption == MaxId \in Nat /\ MaxTaps \in Nat /\ MaxCalls \in Nat \ {0}
ASSUME FirstAssumption == FirstStored \in Seq(Address) /\ Len(FirstStored) <= MaxId
ASSUME PlaceAssumption == Here \in Place
ASSUME AreaAssumption == AreasOf \in [Place -> Seq(Area)]
ASSUME NullAssumption == Null \notin Address /\ Null \notin Place

VARIABLES
  addressesData, selectedAddress, isLoading,
  updateMode, addressToUpdate, writtenAddress, currentLatLng,
  screen,     \* "list", and over it "dialog", "form" or "checkout"; "cart" once the list
              \* is left, and "loose" for a form that stands over the cart
  shown,      \* what the list screen shows: the loading view, or a list
  calls,
  stored, lastId, \* the server
  order,      \* the address of the last order that was placed
  taps,
  located,    \* LocationController has a location (its own look up is over: StartUp)
  hurried,    \* history: the user has tapped while a request was on its way
  lost        \* history: a request about the list, or its reply, has been lost

data   == <<addressesData, selectedAddress, isLoading>>
form   == <<updateMode, addressToUpdate, writtenAddress, currentLatLng>>
server == <<stored, lastId>>
rest   == <<located, hurried, lost>>
vars   == <<data, form, screen, shown, calls, server, order, taps, rest>>

-----------------------------------------------------------------------------
Slots == 1 .. MaxCalls

ListKinds == {"select", "insert", "update", "delete"}
LookUps   == {"geocode", "area"}

\* A request: a select, an address to insert, update or delete, the location of the
\* phone ("locate"), or the two steps that find the area of a form: the region of its
\* place ("geocode"), then the areas of the region ("area").  These two keep here the
\* form they are made for, and at is the place that is looked for in the areas.
Request(kind, id, text, place, at) ==
  [kind |-> kind, id |-> id, text |-> text, place |-> place, at |-> at,
   area |-> Null, status |-> "sent", mine |-> TRUE, reply |-> <<>>]
NoCall  == Request("none", 0, Null, Here, Here)
Reload  == Request("select", 0, Null, Here, Here)
Locate  == Request("locate", 0, Null, Here, Here)

Call(c) == \E s \in Slots : calls[s] = NoCall /\ calls' = [calls EXCEPT ![s] = c]
Replied(s, kinds) == calls[s].kind \in kinds /\ calls[s].status # "sent"
Quiet == \A s \in Slots : calls[s] = NoCall
LookingUp == \E s \in Slots : calls[s].kind \in LookUps

Tap ==
  /\ taps < MaxTaps /\ taps' = taps + 1 /\ hurried' = (hurried \/ ~Quiet)
  /\ UNCHANGED <<located, lost>>

\* update(): the screen is rebuilt.
Update(loading, list) == shown' = [loading |-> loading, list |-> list]

-----------------------------------------------------------------------------
\* onInit: the controller is made and loads the addresses.
Init ==
  /\ addressesData = <<>> /\ selectedAddress = Null /\ isLoading = TRUE
  /\ updateMode = FALSE /\ addressToUpdate = Null
  /\ writtenAddress = Null /\ currentLatLng = Null
  /\ screen = "list" /\ shown = [loading |-> TRUE, list |-> <<>>]
  /\ calls = [s \in Slots |-> IF s = 1 THEN Reload ELSE NoCall]
  /\ stored = FirstStored /\ lastId = Len(FirstStored)
  /\ order = Null /\ taps = 0
  /\ located \in BOOLEAN /\ hurried = FALSE /\ lost = FALSE

\* The list is left, and entered again: a controller of its own.  (A form that
\* still looks an area up would save through the former one: not modelled.)
LeaveList ==
  /\ Tap /\ screen = "list" /\ screen' = "cart"
  /\ UNCHANGED <<data, form, shown, calls, server, order>>

Disowned(c) == IF c = NoCall THEN NoCall ELSE [c EXCEPT !.mine = FALSE]

OpenList ==
  /\ Tap /\ screen = "cart" /\ ~LookingUp
  /\ addressesData' = <<>> /\ selectedAddress' = Null /\ isLoading' = TRUE
  /\ updateMode' = FALSE /\ addressToUpdate' = Null
  /\ writtenAddress' = Null /\ currentLatLng' = Null
  /\ screen' = "list" /\ shown' = [loading |-> TRUE, list |-> <<>>]
  /\ \E s \in Slots :
       /\ calls[s] = NoCall
       /\ calls' = [r \in Slots |-> IF r = s THEN Reload ELSE Disowned(calls[r])]
  /\ UNCHANGED <<server, order>>

\* Mutants are changed forms of the definition that follows them, the way a bug
\* would change it: each must break a property.  Here: the first address is not
\* selected; a load without addresses leaves the loading view.
LoadedUnselected(s) ==
  /\ addressesData' = calls[s].reply /\ isLoading' = FALSE
  /\ selectedAddress' = IF selectedAddress = Null THEN calls[s].reply[1] ELSE selectedAddress
\* The answer of a load: the first address is selected.
Loaded(s) ==
  /\ addressesData' = calls[s].reply /\ isLoading' = FALSE
  /\ selectedAddress' = calls[s].reply[1]

LoadFailedLoading(s) ==
  UNCHANGED data
\* No addresses, or no answer: the list stays as it was.
LoadFailed(s) ==
  isLoading' = FALSE /\ UNCHANGED <<addressesData, selectedAddress>>

LoadReply(s) ==
  /\ Replied(s, {"select"})
  /\ calls' = [calls EXCEPT ![s] = NoCall]
  /\ \/ ~calls[s].mine /\ UNCHANGED <<data, shown>>
     \/ calls[s].mine /\ calls[s].reply # <<>> /\ Loaded(s) /\ Update(FALSE, addressesData')
     \/ calls[s].mine /\ calls[s].reply = <<>> /\ LoadFailed(s) /\ Update(isLoading', addressesData)
  /\ UNCHANGED <<form, screen, server, order, taps, rest>>

\* selectAddress on a row of the screen: an error when the list has no such row.
SelectAddress(i) ==
  /\ Tap /\ screen = "list" /\ ~shown.loading /\ i \in DOMAIN shown.list
  /\ IF i \in DOMAIN addressesData
     THEN selectedAddress' = addressesData[i] /\ Update(isLoading, addressesData)
     ELSE UNCHANGED <<selectedAddress, shown>>
  /\ UNCHANGED <<addressesData, isLoading, form, screen, calls, server, order>>

\* A rebuild of the screen that no controller asked for (keyboard, rotation).
Frame ==
  /\ Update(isLoading, addressesData)
  /\ UNCHANGED <<data, form, screen, calls, server, order, taps, rest>>

-----------------------------------------------------------------------------
(* Adding and editing                                                        *)
\* MapScreen.initData: the form starts at the address, or where the user is.
ShowForm(address) ==
  /\ currentLatLng' = IF updateMode' THEN address.place ELSE Here
  /\ Update(isLoading, addressesData)

\* clearSelectedAddress, then the form; without a location a dialog that asks for it.
OpenAdd ==
  /\ Tap /\ screen = "list"
  /\ updateMode' = FALSE /\ writtenAddress' = Null
  /\ \/ located /\ screen' = "form" /\ ShowForm(addressToUpdate)
     \/ ~located /\ screen' = "dialog" /\ Update(isLoading, addressesData) /\ UNCHANGED currentLatLng
  /\ UNCHANGED <<data, addressToUpdate, calls, server, order>>

\* The button of the dialog: it stays, and can be tapped again.
GiveLocation ==
  /\ Tap /\ screen = "dialog" /\ Call(Locate)
  /\ UNCHANGED <<data, form, screen, shown, server, order>>

\* The other button, or the back button: a location is still looked for.
LeaveDialog ==
  /\ Tap /\ screen = "dialog" /\ screen' = "list"
  /\ UNCHANGED <<data, form, shown, calls, server, order>>

\* Get.back(): whatever screen is on top goes (what is under the cart is left out).
Popped == IF screen \in {"dialog", "form", "checkout"} THEN "list" ELSE "cart"

\* What waits for the location: with one, this or an earlier one, the top screen is
\* popped and the map opens on what is under it.  Once the list was left the map has no
\* controller to find, and shows an error.
LocateReply(s) ==
  /\ Replied(s, {"locate"})
  /\ calls' = [calls EXCEPT ![s] = NoCall]
  /\ located' = (located \/ calls[s].status = "done")
  /\ IF located' /\ screen # "cart"
     THEN /\ screen' = IF Popped = "list" THEN "form" ELSE "loose"
          /\ UNCHANGED updateMode /\ ShowForm(addressToUpdate)
     ELSE UNCHANGED <<screen, updateMode, currentLatLng, shown>>
  /\ UNCHANGED <<data, addressToUpdate, writtenAddress, server, order, taps, hurried, lost>>

\* Mutant: the mode is set, the address is not.
OpenEditUnset(i) ==
  /\ Tap /\ screen = "list" /\ ~shown.loading /\ i \in DOMAIN shown.list
  /\ screen' = "form"
  /\ updateMode' = TRUE
  /\ writtenAddress' = shown.list[i].text /\ ShowForm(shown.list[i])
  /\ UNCHANGED <<data, addressToUpdate, calls, server, order>>
\* switchToUpdateMode with the address of the row, then the form, at its place.
OpenEdit(i) ==
  /\ Tap /\ screen = "list" /\ ~shown.loading /\ i \in DOMAIN shown.list
  /\ screen' = "form"
  /\ updateMode' = TRUE /\ addressToUpdate' = shown.list[i]
  /\ writtenAddress' = shown.list[i].text /\ ShowForm(shown.list[i])
  /\ UNCHANGED <<data, calls, server, order>>

OnForm == screen \in {"form", "loose"}

LeaveForm ==
  /\ Tap /\ OnForm /\ screen' = Popped
  /\ UNCHANGED <<data, form, shown, calls, server, order>>

\* The address the form is open for; 0 is a new one.
Edited == IF updateMode THEN addressToUpdate.id ELSE 0

\* The button of the form: nothing tells that it has been tapped, and the form
\* can be left, or its button tapped again, while the area is looked up.
Confirm(text, place) ==
  /\ Tap /\ OnForm
  /\ writtenAddress' = text /\ currentLatLng' = place
  /\ Update(isLoading, addressesData)
  /\ Call(Request("geocode", Edited, text, place, place))
  /\ UNCHANGED <<data, updateMode, addressToUpdate, screen, server, order>>

\* The text is kept before it is validated.
ConfirmRefused ==
  /\ Tap /\ OnForm
  /\ writtenAddress' = Refused
  /\ UNCHANGED <<data, updateMode, addressToUpdate, currentLatLng, screen, shown, calls, server, order>>

\* _getUserArea between its two awaits: the place is read again.  An error of the
\* geocoder ends it, and nothing is saved.
GeocodeReply(s) ==
  /\ Replied(s, {"geocode"})
  /\ calls' = [calls EXCEPT ![s] =
       IF calls[s].status = "lost" THEN NoCall
       ELSE Request("area", calls[s].id, calls[s].text, calls[s].place, currentLatLng)]
  /\ UNCHANGED <<data, form, screen, shown, server, order, taps, rest>>

\* Mutant: the first area, wherever the place is.
AreaFirst(areas, place) == areas[1]
\* getUserAreaId: the first of the areas that has the place, or else the first.
AreaIn(areas, place) ==
  LET has == {i \in DOMAIN areas : <<areas[i], place>> \in Covers}
  IN IF has = {} THEN areas[1] ELSE areas[CHOOSE i \in has : \A k \in has : i <= k]

\* Mutant: the edited address is taken for a new one.
SavedAnew(area) == [Request("insert", 0, writtenAddress, currentLatLng, Here) EXCEPT !.area = area]
\* onSaveAddressPressed: the form as the controller has it now.
Saved(area) ==
  [IF updateMode THEN Request("update", addressToUpdate.id, writtenAddress, currentLatLng, Here)
                 ELSE Request("insert", 0, writtenAddress, currentLatLng, Here)
   EXCEPT !.area = area]

\* With no areas, or no answer, there is none to take: an error, and nothing is saved.
AreaReply(s) ==
  /\ Replied(s, {"area"})
  /\ LET areas == AreasOf[calls[s].place] IN
     IF calls[s].status = "lost" \/ areas = <<>>
     THEN calls' = [calls EXCEPT ![s] = NoCall] /\ UNCHANGED screen
     ELSE calls' = [calls EXCEPT ![s] = Saved(AreaIn(areas, calls[s].at))] /\ screen' = Popped
  /\ UNCHANGED <<data, form, shown, server, order, taps, rest>>

\* Mutants: the list is not emptied; the selection is emptied with it.
DeleteListed(a) ==
  /\ Call(Request("delete", a.id, Null, Here, Here))
  /\ UNCHANGED <<addressesData, selectedAddress, isLoading, form, screen, shown, server, order>>
DeleteSelected(a) ==
  /\ addressesData' = <<>> /\ selectedAddress' = Null
  /\ Call(Request("delete", a.id, Null, Here, Here))
  /\ UNCHANGED <<isLoading, form, screen, shown, server, order>>
\* deleteAddress up to its await.
DeleteAddress(a) ==
  /\ addressesData' = <<>>
  /\ Call(Request("delete", a.id, Null, Here, Here))
  /\ UNCHANGED <<selectedAddress, isLoading, form, screen, shown, server, order>>

\* The delete button of a row of the list, and of the address on the check out.
TapDelete ==
  /\ Tap
  /\ \/ /\ screen = "list" /\ ~shown.loading
        /\ \E i \in DOMAIN shown.list : DeleteAddress(shown.list[i])
     \/ screen = "checkout" /\ DeleteAddress(selectedAddress)

\* Mutant: the screen is not told.
ReloadUnseen(kind) == isLoading' = TRUE /\ UNCHANGED shown
\* getUserAddresses after a change; addNewAddress does not call update().
ReloadAfter(kind) ==
  /\ isLoading' = TRUE
  /\ IF kind = "insert" THEN UNCHANGED shown ELSE Update(TRUE, addressesData)

\* The errors of the three services are caught: lost or not, the list is loaded.
ChangeReply(s) ==
  /\ Replied(s, {"insert", "update", "delete"})
  /\ \/ /\ calls[s].mine /\ calls' = [calls EXCEPT ![s] = Reload]
        /\ UNCHANGED <<addressesData, selectedAddress>> /\ ReloadAfter(calls[s].kind)
     \/ /\ ~calls[s].mine /\ calls' = [calls EXCEPT ![s] = NoCall]
        /\ UNCHANGED <<data, shown>>
  /\ UNCHANGED <<form, screen, server, order, taps, rest>>

-----------------------------------------------------------------------------
(* Ordering                                                                  *)
CheckOut ==
  /\ Tap /\ screen = "list" /\ ~shown.loading /\ shown.list # <<>>
  /\ screen' = "checkout"
  /\ UNCHANGED <<data, form, shown, calls, server, order>>

LeaveCheckOut ==
  /\ Tap /\ screen = "checkout" /\ screen' = "list"
  /\ UNCHANGED <<data, form, shown, calls, server, order>>

\* OrderServices.placeOrder reads the address when the button is tapped.
PlaceOrder ==
  /\ Tap /\ screen = "checkout"
  /\ order' = selectedAddress
  /\ UNCHANGED <<data, form, screen, shown, calls, server>>

-----------------------------------------------------------------------------
(* The server, and the network                                               *)
Sent(s, kind) == calls[s].kind = kind /\ calls[s].status = "sent"
Answered(c, status, reply) == [c EXCEPT !.status = status, !.reply = reply]
Answer(s, status, reply) ==
  calls' = [calls EXCEPT ![s] = Answered(calls[s], status, reply)]
Done(s) == Answer(s, "done", <<>>)
Saving(c, id) == [id |-> id, text |-> c.text, place |-> c.place, area |-> c.area]

ServeSelect(s) ==
  /\ Sent(s, "select")
  /\ Answer(s, "done", stored)
  /\ UNCHANGED server

\* The phone, the geocoder, and the areas of a region: they have an answer.
ServeLookUp(s) ==
  /\ Sent(s, "locate") \/ Sent(s, "geocode") \/ Sent(s, "area")
  /\ Done(s) /\ UNCHANGED server

ServeInsert(s) ==
  /\ Sent(s, "insert") /\ lastId < MaxId /\ Done(s)
  /\ lastId' = lastId + 1
  /\ stored' = Append(stored, Saving(calls[s], lastId + 1))

ServeUpdate(s) ==
  /\ Sent(s, "update") /\ Done(s)
  /\ stored' = [k \in DOMAIN stored |-> IF stored[k].id = calls[s].id
                                       THEN Saving(calls[s], stored[k].id) ELSE stored[k]]
  /\ UNCHANGED lastId

ServeDelete(s) ==
  /\ Sent(s, "delete") /\ Done(s)
  /\ \/ \E k \in DOMAIN stored : stored[k].id = calls[s].id /\ stored' = RemoveAt(stored, k)
     \/ (\A k \in DOMAIN stored : stored[k].id # calls[s].id) /\ UNCHANGED stored
  /\ UNCHANGED lastId

Serve(s) ==
  /\ ServeSelect(s) \/ ServeLookUp(s) \/ ServeInsert(s) \/ ServeUpdate(s) \/ ServeDelete(s)
  /\ UNCHANGED <<data, form, screen, shown, order, taps, rest>>

Lose(s) ==
  /\ calls[s] # NoCall /\ calls[s].status # "lost"
  /\ Answer(s, "lost", <<>>) /\ lost' = (lost \/ calls[s].kind \in ListKinds)
  /\ UNCHANGED <<data, form, screen, shown, server, order, taps, located, hurried>>

-----------------------------------------------------------------------------
User ==
  \/ LeaveList \/ OpenList \/ TapDelete
  \/ OpenAdd \/ GiveLocation \/ LeaveDialog \/ LeaveForm \/ ConfirmRefused
  \/ CheckOut \/ LeaveCheckOut \/ PlaceOrder
  \/ \E i \in 1 .. MaxId : SelectAddress(i) \/ OpenEdit(i)
  \/ \E text \in Text, place \in Place : Confirm(text, place)

Reply(s) == LoadReply(s) \/ LocateReply(s) \/ GeocodeReply(s) \/ AreaReply(s) \/ ChangeReply(s)

Next == User \/ Frame \/ \E s \in Slots : Serve(s) \/ Lose(s) \/ Reply(s)

Spec == Init /\ [][Next]_vars

\* A request is answered or fails, and its handler goes on.
FairSpec == Spec /\ \A s \in Slots : WF_vars(Serve(s)) /\ WF_vars(Reply(s))

-----------------------------------------------------------------------------
(* Properties                                                                *)
CallType ==
  {c \in [kind : {"none", "locate"} \cup LookUps \cup ListKinds,
          id : 0 .. MaxId, text : Written, place : Place, at : Place, area : Area \cup {Null},
          status : {"sent", "done", "lost"}, mine : BOOLEAN, reply : Seq(Address)] :
     c.kind \in {"insert", "update"} => c.area \in Area}

TypeOK ==
  /\ addressesData \in Seq(Address) /\ selectedAddress \in Address \cup {Null}
  /\ isLoading \in BOOLEAN
  /\ updateMode \in BOOLEAN /\ addressToUpdate \in Address \cup {Null}
  /\ updateMode => addressToUpdate \in Address
  /\ writtenAddress \in Written /\ currentLatLng \in Place \cup {Null}
  /\ screen \in {"list", "dialog", "form", "checkout", "cart", "loose"}
  /\ shown \in [loading : BOOLEAN, list : Seq(Address)]
  /\ calls \in [Slots -> CallType]
  /\ stored \in Seq(Address) /\ lastId \in 0 .. MaxId
  /\ order \in Address \cup {Null} /\ taps \in 0 .. MaxTaps
  /\ located \in BOOLEAN /\ hurried \in BOOLEAN /\ lost \in BOOLEAN

\* What the check out reads: with addresses listed, one of them is selected.
SelectedIsListed == addressesData # <<>> => selectedAddress \in Range(addressesData)

\* The check out is built from an address, whatever was deleted on the way.
CheckOutHasAddress == screen = "checkout" => selectedAddress # Null

\* Rows that cannot be selected (selectAddress fails on them) are on the screen
\* only while a deletion is under way.
RowsCanBeSelected ==
  ~shown.loading /\ shown.list # <<>> /\ addressesData = <<>>
    => \E s \in Slots : calls[s].kind = "delete" /\ calls[s].mine

\* Once everything is answered to a user who has waited, and nothing was lost, the
\* list is the server's.
QuietListIsStored ==
  ~hurried /\ ~lost /\ Quiet /\ screen # "cart" => addressesData = stored

\* One of the areas of the region of the place, and one that has the place in it, if any
\* has: both are looked up, one after the other, with a place read anew.
AreaFits(area, place) ==
  LET areas == Range(AreasOf[place])
  IN area \in areas /\ ((\E other \in areas : <<other, place>> \in Covers) => <<area, place>> \in Covers)

\* What is saved is what the form showed when its button was tapped, in the address
\* that was being edited, with an area that fits its place: form, place and area are
\* read at three times, with an await after each but the last.
SavesTheForm ==
  \A s \in Slots : calls[s].kind = "area" /\ calls'[s].kind \in {"insert", "update"} =>
    /\ calls'[s].id = calls[s].id /\ calls'[s].text = calls[s].text
    /\ calls'[s].place = calls[s].place
    /\ AreaFits(calls'[s].area, calls[s].place)

\* 'update_address', for every user.
SavedAsConfirmed == [][SavesTheForm]_vars

\* For the user who waits for the area to be looked up before the next tap.
PatientSaves == [][~hurried => SavesTheForm]_vars

\* Such a user orders to an address as the server knows it, while any is listed.
OrderIsCurrent ==
  [][PlaceOrder /\ ~hurried' /\ ~lost /\ addressesData # <<>> => order' \in Range(stored)]_vars

\* The loading view goes away, whether the requests succeed or not.
LoadingEnds == isLoading ~> ~isLoading
=============================================================================
