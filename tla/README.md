# A TLA+ model of nourgomla

Nourgomla is a Flutter shopping app (Dart, GetX controllers, sqflite, one HTTP API).
This directory models the parts of `src/lib` that keep state of their own and change it
while something else is under way: what the user taps, what the database has not
executed yet, what the server has not answered yet, and what is left when the process
dies. The modules are checked with TLC on small instances and proved about with TLAPS
for all of them.

## 1. How the program runs, and what makes it hard

* **One isolate.** Dart code runs without interruption up to its next `await`. Each
  handler is therefore cut at its awaits: the part before one is an action, the part
  after it another, and between the two anything may happen that the screen allows.
* **Local database.** sqflite executes the operations of one database one after the
  other, in the order they were given. Many calls are not awaited: memory is ahead of
  the disk. (`queue` in Cart and UserSession.)
* **Server.** `ApiService.postData` (`services/api_base/api_service.dart`) has no timeout
  and throws on any status but 200. Requests run side by side, answers overtake each
  other, and most handlers catch the error somewhere and go on. (`calls`.)
* **Process death.** The system may end the process at any point; memory, pending
  database operations and requests are gone, the tables stay.
* **Frames.** Widgets show what they were built from; a tap on a row that is gone from
  the controller is possible until `update()`.

There is no test to learn from (`test/widget_test.dart` is the unmodified template of
Flutter) and no documentation; what the program is meant to do is taken from the texts
it shows and from what it checks.

## 2. Inventory

| Component (files under `src/lib`) | State | Operations | Hard part | What makes it correct | Module |
|---|---|---|---|---|---|
| Product sheet (`common_widgets/product_cart_sheet`, `spin_widget`) | packaging, quantity, each spinner's own number | taps, frames | widget state against sheet state; limits and stock | only sellable quantities are shown and sent | ProductSheet |
| Shopping cart (`controllers/cart_controller`, `services/local_storage/cart_db`, `services/api_calls/cart_services`, `ui/cart`) | items, sums, points, shipping, coupon; the table | add, change, delete, clear, reload from disk, `cart_update`, coupon, order | check before an await, act after it; replies that replace the list; disk behind memory; process death | one shop, no product twice, nothing resurrected, nothing shown and lost, sums that match | Cart |
| User session (`controllers/user_controller`, `user_db`, `user_api_calls`, `splash_controller`, login, profile) | current user, `loggedIn`; the table | login, log out, profile, password, start | a request of the splash screen that nobody waits for; a table that grows by a row per login | logged in means there is a user; a log out is final; a restart finds the same user | UserSession |
| Addresses (`controllers/adresses_controller`, `ui/user_addresses`) | list, selection, form, location known | load, select, add (with a dialog that asks for the location), edit, delete, check out; the region and the areas of a place | the form is read again after two awaits, its place between them; the list is emptied under the screen; a location that arrives when its dialog is gone | an order has a listed address; what is saved is what was confirmed | Addresses |
| Lists page by page (orders, favorites, ratings, images, vendors, areas, search controllers) | rows, `startIndex`, `totalCount`, flags, query, language | first page, next page, bar code, heart | two requests in flight, a changed query, next pages that ask another question than the first, rows that go at the server, errors | the list is a prefix of what was asked for; the loading view ends | PagedList |
| Orders and check out (`order_services`, `check_out_screen`, `cart_screen`) | the screen, the order in flight; cart, address, user | confirm the cart, place an order | a second tap, a change during the request, an order taken whose answer is lost | the bill is that of the items, what is ordered is cleared, nothing else is | CheckOut (composes Cart); the address in Addresses |
| Product filter (`filter_contoller`, `ui/filter`, `products_page`) | marked entries, ids that are sent; a stack of pages with their rows | mark, apply, reset, leave, open a sub category, next page | entries replaced, ids kept; each request reads the filter anew; a first page may fail into null | what is sent is what is marked, a list is of one query | Filter |
| Start (`splash_controller`, `settings_controller`, `location_controller`, `home_controller`) | settings, location, home controller, the dialog on screen | two timers, two look-ups, the dialogs | a fixed delay instead of waiting; two look-ups of the location | the app is entered once, with what its screens read | StartUp (the login part is in UserSession) |
| Language (`language_controller`, `lang_storage`) | language, labels; the stored choice | choose, ask for labels, start | the last answer wins, not the last question | texts in the chosen language, also after a restart | StartUp |
| Categories, home, vendor sections | one answer each | ask again | as for labels | shown = last asked | parts of Filter and StartUp |
| Favourite button; ratings, surveys; chat; phone verification | small | one request, or three | lost requests, late callbacks | screen = server | lists of favourites and ratings in PagedList; the rest is not modelled |
| Push messages, dynamic links | a token | open a screen | — | — | not modelled |
| Widgets, themes, texts, models, place picker, iOS and Android projects | — | — | layout, generated and vendored code | — | not modelled |

How they interact: screens call controllers directly; controllers call the services (a
request) and the database helpers; `Get.find` shares one controller object between
screens. The cart asks the session who is logged in and hands its items to the order;
the order reads the cart and the address controller at the time of the tap; the splash
screen reads session, settings and location, and a language that is chosen shows it again;
a product page reads the filter that all pages of its stack share. `PROJECT.json` lists every file under its component, and
under `hazards` the places where the code is exposed, with the properties that guard
them or the reason why none does.

## 3. Modules

Each module starts with a comment on its source and its abstractions. Names are those of
the source where it has one. Definitions that a comment calls a mutant (`AddToCartAtOnce`,
`DeleteFirstRow`, ...) stand before the definition they are changed forms of; they are
not part of any specification and serve to see that a property can be violated at all.

**ProductSheet** (`ProductSheetProofs`, `MCProductSheet`). `type`/`quantity` are the cart
item of the sheet, `shown` the number of each spinner, `given` what it was last built
with. `TapAdd`, `TapMinus` run the handlers of widget and sheet, `Rebuild` is the frame
(`didUpdateWidget`), `TapAddToCart` hands the item over. Assumed: the catalogue's limits
agree (`MinOrder <= MaxOrder`); a minimum of 0 is allowed.

**Cart** (`CartProofs`, `MCCart`). Memory (`cartProducts` and what is computed from it),
`table`, `queue`, `calls`, and the screen (`sheet`, `dialog`). A list is a function from
positions: adding takes the next position, removing leaves a gap. Items share objects as
in Dart (`tag`): an item waiting to be inserted changes with the sheet it came from. One
action per handler part: `AddToCart`/`ExecInsert`, `AskServer`/`UpdateReply`/
`UpdateFailed`, `PlaceOrder`/`OrderReply`/`OrderFailed`, ...; `Kill` is death and start.
`ButtonIsLive` is the guard of the sheet (its button is dead without a packaging, and under
the dialog), the rest of `CanTapAdd` is `addToCart`'s. The row of a product of `Unsure` may be
refused (`InsertFails`: a NOT NULL column without a value, though `product.g.dart` has a
default for each but the id, or an error of the disk): nothing in `addToCart` catches it, and
the sheet stays open. Prices and points are numbers per product, the bill beyond them is left
out.

**WriteBehind**, **CartDurable** (`ShoppingProofs`). `WriteBehind` is what a store promises
that shows a change before it has written it: per key, a queue of values between what is shown and what is
stored; a crash falls back to what is stored; a new key is written before it is shown.
`CartDurable` maps the cart to it: keys are products, values quantities, `pending` what the
waiting database operations will do to each product (`WaitingFor`: the entries of the queue
that write the product, in order, found by their rank so that it can be reasoned about).

**CheckOut** (`ShoppingProofs`, `MCCheckOut`). Extends Cart by the screens that lead to an order (`place`), the
order that a request carries (`sent`) and the server, which takes an order in one step and
answers in another. Each step of the cart is offered by the screen that has its button;
`ExecInsert` also closes what is on top, as `Get.back` does after the awaited insert.
`priced` are the items that `cartDetails` was made for.

**UserSession** (`UserSessionProofs`, `MCUserSession`). `table` holds the rows at the
positions they were inserted at, of which the first is read; `ExecRead`, `ExecInsert`, ... execute `queue`. `Serve` lets the server act, the
reply actions bring the answer: a reply can be lost after the server has acted. `busy` is
the loading dialog. Signing up is the login handler with another endpoint. The password that
is stored is that of the field when the answer comes (`field` of a request): who leaves the
loading dialog can type another (`Retype`).

**Addresses** (`AddressesProofs`, `MCAddresses`). The controller, the form, what the list
screen `shown` was last built from, the requests and the server's list. `Confirm` is the
button of the form (`ConfirmRefused` with a text it does not take, which it has kept by then);
it asks for the region of the place, `GeocodeReply` for the areas of the region, and
`AreaReply` searches them and saves: the place is read at each of the three. What the areas of
a region are (`AreasOf`) and which polygon has which place (`Covers`) are constants: a place
may be in several polygons, in one, or in none, and then `AreaIn` takes the first area, as
`getUserAreaId` does; a region may have no area. `ChangeReply` is the load that follows a
change. Without a location `OpenAdd` shows the dialog; `GiveLocation` asks for one, and
`LocateReply` pops whatever is on top by then and opens the form over what is under it: over the
list, or over the cart (`loose`). Once the list is left the form finds no controller, an error.

**PagedList** (`PagedListProofs`, `MCPagedList`). The controllers are copies of one
another; `copy` is one of six records that say in what they differ (`clearsFirst`,
`oneFlag`, `keepsQuery`, what an error resets, ...). Ratings and images behave as `Orders`;
`Favorites` does but for the heart, which takes a row off the list at the server (`rows`) and
reloads nothing. A question is a query and a language: `Search` asks its first page with the bar
code that was scanned, or the text, in the language with number 1, and the next pages with the
text of the field in the language of the app; `Vendors` asks the next pages without the text. The list of products (`products_page`) reads its query from the filter and is
in Filter.

**Filter** (`FilterProofs`, `MCFilter`). `stack` are the product pages opened on each other,
each with its rows, `start` and `total`; one filter (`selected`, `listed`, `marked`) serves
them all. A row stands for a page of products and is told apart by the query and the number
it was asked for with. `InitData` and `GetMoreProducts` are the two requests of a page,
`Tick`/`Apply`/`Reset`/`Close` the filter screen, `TapBar` the bars above the products, which
stay tappable while these are loaded again (a hasty step),
`CategoriesReply` replaces the entries (`InitFilter`). A request knows the depth of its page, 0
once that page has been left. `None` is Dart's null where an error
leaves one.

**StartUp** (`StartUpProofs`, `MCStartUp`). `stage` is the splash screen, one of its dialogs,
or the app; `leaving` counts timers that will show the home screen. `CheckForNewVersion` is
the timer of the splash screen (`stuck` when it throws), `FirstLocation` the look-up of
`LocationController.onInit`, `TapGiveLocation`/`GiveReply` that of the dialog, `BackButton`
Android's, which closes a dialog and leaves the splash screen (`stuck`, unless a location is on
its way).
`ChooseLanguage` shows the splash screen again, with a new controller or the old one: which
of them GetX has removed by then depends on the route, so both are possible.

The lemmas about the first and last position of a list stand in CartProofs and in
UserSessionProofs, whose modules do not extend one another.

**History variables.** `careful`/`lost`/`touched` (PagedList), `hurried`/`lost` (Addresses),
`orderly`/`lost` (UserSession), `haste` (Filter; `tidy` is `haste = 0`),
`hasty`/`overtaken`/`hurried`/`firstFailed` (StartUp) and `failed`/`ordered` (CheckOut) record what the user and the network have done so far and
restrict no step. A property that the code keeps only for some users says so in its
premise, and the same run also explores the others. In Cart
and CheckOut this is a constant, `Patient` and `Careful`, because the state space of a hasty
user with all the properties would be too large. `MaxHaste` bounds the steps of an untidy
user of Filter within one visit of its pages.

## 4. Runs

`tlc -config X.cfg MCM.tla`. ProductSheet and Filter are checked for deadlock. The other cfgs
disable that check: their user stops after a bounded number of taps and the system is then
at rest.

| Run | States | Bounds | Shows |
|---|---|---|---|
| ProductSheet | 587 | three packagings: plentiful, below the minimum, out of stock; no bound on taps | what is sent and shown can be sold; the selected spinner shows the quantity |
| CartGuest | 1.5 M | 3 products of 2 shops, quantities to 2, 3 sheets per life, 1 kill, 2 pending operations; guest who waits for the first load and for each add | one shop, no product twice, sums, shipping, and the refinement `IsWriteBehind` |
| CartServer | 3.0 M | 2 products of 2 shops, 1 request, 1 kill; a user who waits for nothing, a server that fails and drops products | types; the first load overwrites nothing; no ghost rows; shown only once written |
| CheckOut | 415 k | 2 products of 2 shops and a gift, quantities to 2, 2 sheets per life, 1 request, 1 kill, a server that fails; a user who waits on the screens of the order; fairness | the bill is that of the items, what is ordered is gone, nothing else empties the cart; a tapped add ends in the cart; the confirmation ends |
| Filter | 690 k | an order the app brings along and a kind with two entries, 2 pages of a stack, 3 requests, 2 hasty steps per visit | no false mark; for a tidy user a list of one query, shown as marked |
| StartUp | 31 k | 2 languages, 2 waiting taps, 3 requests for labels, 2 starts; fairness | entered when ready and once; texts in the language; the splash screen is left |
| Session | 4.6 M | 2 accounts, 2 passwords, 2 profiles, 4 taps, 2 requests, 1 kill | the user on screen, the rows on disk and the server's password agree |
| Addresses | 481 k | 2 addresses at the server and room for a third; 2 places, one in the polygon of the second of 2 areas and one in none; with and without a location; 4 taps, 2 requests; fairness | selection, check out, rows, and for a user who waits: list = server, saved = confirmed with an area that fits, order = current |
| PagedList | 1.4 M | six copies, queries of 5 and 2 rows, a bar code with 3, two languages, pages of 2, 5 moves, 2 requests, fairness | list = prefix for a careful user, where the pages ask one question and no heart was tapped; the loading view ends |
| CartOverlap | violation | 2 products of 2 shops, a guest who does not wait | two adds that overlap put two shops in the cart |
| SessionLate | violation | as Session, 1 request, no kill | the answer to the splash screen's request logs a user in after his log out |
| AddressesForm | violation | as Addresses | the form that is saved is the one on screen when the area arrives |

*Why the bounds are enough.* Every hazard listed needs two actors or two requests that
overlap, and at most one death between them; two shops, two accounts, two addresses and
two queries are what it takes to tell the right one from the wrong one, and a third
product, row page or address what it takes to tell "the list" from "the last one". A page
of two with five rows has full pages, a last page that is not full, and an end.

*Refinement.* CartGuest checks `CartDurable!IsWriteBehind`: with the screen's quantities as
`shown`, the table's as `stored` and the waiting operations as `pending`, every step of the
cart of a guest who waits for his adds is a step of WriteBehind, including process deaths;
before the first load `shown` is the table, since the screen shows its loading view.

*Fairness.* `WF(DatabaseStep)`: sqflite executes what it was given while the process lives
(a kill empties the queue). `WF` of the timers in StartUp: they fire. `WF(Serve(s))`,
`WF(Reply(s))`, `WF(CartReply)`, `WF(GiveReply)`: a request is answered or fails (`Lose` may
pre-empt both but then the reply, an error, comes), and Dart then runs the rest of the
handler. Nothing is assumed of the user. A request that neither answers nor
fails would keep every loading view for ever; the code has no timeout against it.

*What the violations say.*
* CartOverlap: `addToCart` checks the shops at line 74 and adds its item only after
  `insertProduct` was awaited (line 102); it promises 'you_cant_add_items_from_different_shops'.
* SessionLate: `checkIfUserLoggedIn` stores the user of its answer without looking
  whether he is still logged in.
* AddressesForm: `onSaveAddressPressed` reads the controller after an await, while the
  form may have been left and another opened.

Beside these, states that no listed property excludes and that the models reach:

* cart: `updateProductQuantity` (`cart_db.dart:88`) writes the quantity and leaves the stored
  total, so after a restart an item and the cart show the total of an older quantity
  (`SumsMatchItems` compares the sum with the totals of the items, and passes); an insert that
  fails leaves the sheet open and shows nothing; a late `cart_update` brings back cleared items; a coupon that excludes discounts
  stays active when the discount arrives later; an order is placed twice when its button is
  tapped twice; after a death between the order and the clearing of the table the ordered
  items are back; a failed `cart_update` leaves its loading view;
* session: a second login over a first one leaves rows no log out deletes; a failed login
  leaves its loading dialog; a password that is typed anew while the answer is under way is
  the one that is stored; after a lost reply, or a death before it, the old one is;
* addresses: the last address, once deleted, can still be ordered to; a location that arrives
  after its dialog was left pops the screen the user is on and opens a form;
* page lists: after a bar code, or in a language other than the first, the next pages of a
  search are of another question, and so are those of vendors with a text; after a heart on
  the list of favorites the next page skips a row; after a failed first page the old rows
  stay, of another question than the next page; a second scroll, or a new question, while a
  page is under way appends it twice, or to the wrong list; the copies that `assignAll(null)`
  stops keep their loading view after an error;
* filter: first pages that overtake each other (the bars stay tappable meanwhile) leave the
  older list; an entry that is ticked and not applied is sent with the next page; an entry
  without a mark is sent when another page's categories have replaced the entries; a failed
  next page leaves its loading sign;
* start: without settings after four seconds the splash screen stays (`stuck`), and so it does
  after Android's back button on one of its dialogs, which only block a tap beside them
  (`dialogs_and_snacks.dart:116`): that the splash screen is left is said of dialogs left by
  their buttons, or with a location on its way; a second tap
  on give_location shows the home screen twice; a location that is given in the dialog after
  `onInit` found none does not reload the home data, although the dialog says it is needed
  'to_show_you_vendors_in_your_area' (`splash_controller.dart:95`); a tap that gets its
  location before `onInit` does may enter the app before `HomeController` is there, and the
  late `onInit` may take the location back.

They are listed under `hazards`.

## 5. Proofs

`tlapm M.tla`. All theorems hold for every value of the constants that satisfies the named
assumptions of the module, so for any number of taps, kills, requests and rows. The last
column says what a theorem assumes beside them; each of these hypotheses is true of the run
that checks the property.

| Theorem | Statement | For |
|---|---|---|
| ProductSheetProofs `TypesCorrect`, `OnlySellableSent`, `OnlySellableShown`, `NoFrameRestores` | `TypeOK`; what is sent, and what is shown, is sellable; `SelectedShowsQuantity` | every user |
| CartProofs `TypesCorrect`, `LoadOverwritesNothing`, `NoRowOutlivesItsItem`, `NothingShownUnwritten` | `TypeOK`, `LoadComesFirst`, `NoGhostRows`, `ShownOnceWritten` | every user |
| CartProofs `SumsAreRight` | `SumsMatchItems` | `Patient` |
| CartProofs `CartIsOfOneShop`, `NothingTwice`, `ShippingIsOfTheShop` | `OneVendor`, `NoDuplicates`, `ShippingOfTheVendor` | `Patient`, `~LoggedIn` |
| ShoppingProofs `CartIsWriteBehind` | the cart implements `WriteBehind` (`IsWriteBehind`) | `Patient`, `~LoggedIn` |
| ShoppingProofs `BillIsOfTheCart`, `OnlyTheOrderEmpties` | `BillOfTheCart`, `OnlyOrdersEmpty` | `Patient`, `Careful` |
| ShoppingProofs `OrderedStaysGone` | `OrderedIsGone` | `Patient`, `Careful`, no gift is a product of the shop |
| AddressesProofs `TypesCorrect`, `SelectionIsListed`, `CheckOutIsBuilt`, `RowsAreListed` | `TypeOK`, `SelectedIsListed`, `CheckOutHasAddress`, `RowsCanBeSelected` | every user |
| AddressesProofs `PatientSavesTheForm`, `QuietListIsCurrent`, `OrdersToStored` | `PatientSaves`, `QuietListIsStored`, `OrderIsCurrent` | premise of the property: he never hurried, and nothing was lost where the server matters; `PatientSaves` for any regions, areas and polygons |
| PagedListProofs `TypesCorrect`, `PagesFollow` | `TypeOK`, `QuietListIsPrefix` | every user; `PagesFollow`: premise: careful, and `Promised`: no heart since the first page, next pages of the same question, and after an error no rows of another |
| UserSessionProofs `TypesCorrect`, `UserIsThere`, `DiskIsHis` | `TypeOK`, `LoggedInHasUser`, `DiskIsOfUser` | every user; the last two: screens used in order |
| UserSessionProofs `RestartKeepsHim`, `PasswordIsKnown` | `RestartKeepsUser`, `StoredPasswordWorks` | premise: in order, nothing lost, no death yet |
| FilterProofs `MarkIsSelected`, `PagesAreOfOneQuery`, `PagesShowTheMarked` | `NoFalseMark`, `ListOfOneQuery`, `ShownAsMarked` | every user; the last two: tidy |
| StartUpProofs `AppIsReady`, `TextsInLanguage` | `EnteredReady`, `LabelsOfLanguage` | premises of the properties |

*Assumptions.* The named ones of the modules bound numbers and types; three say more.
`MinOrder <= MaxOrder` (ProductSheet) is the server's catalogue. `MaxCalls >= 1` (Addresses):
the first load needs a slot. `AnswerAssumption` (UserSession): the words for an answer
without a profile are no profiles. `Patient` is needed: CartOverlap shows the cart without
it. `~LoggedIn` is needed for the three lists, because the server of a logged-in user may
answer late with another list (section 4), and the guest is whom no answer can overtake.
That no gift is sold as a product is needed for `OrderedStaysGone` only: a late-listed gift
could be a product that was ordered before.

The arguments:

* **ProductSheet.** The invariant relates each spinner's number to its floor and to the
  quantity of the sheet; a step changes the number by one within the limits, or jumps to
  `FirstStep`, which is sellable when it is not 0.
* **Cart.** `IInv` = types (with lists bounded, so that the next position exists), the row
  of a pending insert is that of its item, while a load is pending memory is empty and the
  load is the head of the queue (no second one waits, no insert precedes it), and every row
  is an item or doomed. `NoGhostRows` alone is not inductive: a load at a later start makes
  memory from the table, which needs that nothing was added before it (`LoadComesFirst`),
  and an insert writes the row and shows the item in one step.
* **Cart of a patient user** (`Waiting`). While something he waits for is in the queue it is
  the only such operation (`Sole`); the sheet on screen bears the latest tag and no item a
  later one (`TagsKnown`), so no object is twice in the cart, nor at once there and in the
  sheet or in a waiting insert (`TagsApart`). `setValues`, the one change of a quantity that
  does not recompute the sums, therefore never reaches an item of the list; whatever else
  changes the list goes through `Recalculate`. No induction over the list is needed: the
  sums are the same operator before and after.
* **Cart of a patient guest** (`Guest`). What is in the cart, in the table and on its way is
  of one shop and nothing is twice, with one exception (`ListsFit`): a row may still stand
  against a waiting insert if an operation before that insert removes it (`DoomedBefore`):
  delete, or clear, then add. The shipping held, and that of each row, is of the shop
  (`ShippingFits`); the table is part of the invariant because a start reads all from it.
* **Refinement** (`Backed`). Beside the above: nothing waits behind a load, every item in
  the cart has a row that no waiting operation removes, a waiting quantity is for a row that
  will be there, and nothing behind a waiting insert is about its product (`OpsBacked`).
  Lemmas on entries in order say how `WaitingFor` changes when an operation is appended
  (`Append`), runs (`Head`, `Tail`), or is about something else (no change); with them each
  action of the cart is one action of WriteBehind: `ChangeQuantity`, `DeleteFromCart` and
  clearing are `Show`; `ExecQuantity`, `ExecDelete`, `ExecClear` are `Write`; `ExecInsert`
  is `WriteThrough`; `Kill` is `Crash`; the load, the sheet, the dialog and an insert that fails
  are stutters.
* **CheckOut** (`Screens`). Each of its steps is a step of the cart or leaves it alone
  (`CheckOutSteps`), so the cart's invariants carry over. Away from the shop no add is
  waiting; at most one request is in flight, on the cart screen one that asks for products
  of the cart, at the check out an order of just the cart (`CallsFit`); and a cart that the
  button takes to the check out has its bill (`Billed`): `BillOfTheCart` alone does not
  survive the tap on the button. `OrderedIsGone` needs in addition that a reply lists no
  products but those that were asked for, and gifts.
* **Addresses.** The types are not inductive alone: the place is read when the region comes in
  and again when the areas do, so that one must have been set while any look-up is in flight
  (`LookUpHasPlace`). `CheckOutHasAddress` needs that rows are on screen only after an
  address was selected (`ShownWasSelected`). `PatientSaves` needs that, until the user has
  hurried, a look-up in flight still describes the form, and the place looked for in the areas
  is the one the region was asked for (`LookUpIsForm`), which in turn needs that there is one
  request at a time (`Single`): a second look-up, or a late location, would change the form under
  the first. `AreaIn` then is in the region and has the place, whatever the polygons (a lemma). That the quiet
  list is the server's needs that a user who waits has one request in flight at a time,
  that a list on its way to him is still the one stored, and that a deletion has emptied the
  list it will be loaded into (`OneByOne`, `Follows`); that he orders to a stored address follows from it and from
  `SelectedIsListed`.
* **PagedList.** For a careful user there is at most one request (`Single`); a first page
  was asked for with `startIndex = 0`, a next one at the current `startIndex` of a list
  that is the prefix up to there, with the same question where `SameQuestion` says so
  (`CallOK`); without a first page in flight the list is the prefix, where it is promised
  (`ListOK`). The rows of the server change only by a heart, which ends the promise until the
  next first page (`touched`). That a next page moves `startIndex` beyond one page, by which
  `Promised` knows of it, needs that none is asked for before a first one is there (`IndexOK`). `PagesJoin` says that a page appended to the prefix it follows is the longer
  prefix, also at the end of the rows.
* **UserSession.** While the screens are used in order (`orderly`), at most one request is in
  flight, the database is then idle and the user does not change (`CallsFit`); a row is only
  written by the first operation waiting, the splash screen's read is the last one, and
  after a delete no user is written or read (`Shape`); who is logged in owns every row and
  every operation, and has a row or one on its way (`LoggedIn`); a guest has none, but before
  the first read (`LoggedOut`). None of the three properties is inductive: a read makes the
  user from the table, which is his only because of what may still be waiting. For the two
  properties of an undisturbed session the invariant (`Kept`) follows the profile and the
  password through every place where they are between screen, disk and server: the rows, the
  writes that wait (`WritesCurrent`, `WritesPassword`) and the answers in flight
  (`CallKnown`). A disk that is behind is allowed as long as a write waits that will catch it
  up.
* **Filter.** Marks and selection change together; the step looks at each handler that
  changes one of them. For the two properties of a tidy user the invariant (`Tidy`) says what
  may be in flight: requests of the top page only, one for products at most, and the
  categories while nothing can be selected yet. A page below the top shows the unfiltered
  list up to its `start`; the top page is empty while its first products are on their way,
  and else shows those of one query, that of the selection unless something was ticked since.
* **StartUp.** `EnteredReady` needs that the way to the home screen starts from settings that
  do not change (`Configured`), that `HomeController` comes with `onInit`'s answer at the
  latest (`Located`), that what is read is there from the decision on (`Entering`), and that
  a user who taps once has one timer (`OneTimer`).

Only model-checked: liveness (`AddLands`, `ConfirmEnds`, `LeavesSplash`, both `LoadingEnds`),
for fairness and ENABLED are out of the prover's reach; and the three expected violations,
which are counterexamples. Every other property of a passing run is the statement of a
theorem.

## 6. Not modelled, and what is left

* **Chat** (`chat_services`): a message is three writes to Firestore, and what is shown is a
  stream of Firestore, whose caching and ordering are not in this repository.
* **Phone verification** (`phone_auth_services`): callbacks of Firebase in an order that only
  its SDK knows.
* **Push messages and dynamic links**: callbacks that open a screen.
* **Favourite button**: on the list of favorites its request is the heart of PagedList.
  Elsewhere it is a toggle on the screen beside a toggle on the server whose answer is not
  looked at; there is nothing the code promises about them that could be violated later than
  by the first lost request.
* **Ratings, surveys, images**: submitting is one request and its button.
* **Categories, home and vendor sections**: each shows what its last answer brought.
* **Connection**: `connection_controller` swaps the whole app for a message while there is no
  connection and builds it anew afterwards; requests fail meanwhile as they do in the
  models, what the screens held is lost as by a restart without the death.
* **Cart**: that a coupon is checked against the discount of the same `cart_update`
  (`cart_controller.dart:273`) is in the model and known not to hold; no property states it.
* **Addresses**: the geometry of a polygon, whose outcome is a constant; a location that the
  map itself loses; a form whose controller has been removed by GetX under it while it saves.
* **Layout, generated JSON, barcode scanner, place picker, platform projects**: no state of
  their own, or code of others. They are most of the repository's lines: `ios/Pods` alone
  holds more than all the app.

Left to prove: no safety property of a run is without a theorem. What could be proved beside
them is more than the runs ask: the cart of a patient user who is logged in has no property
of one shop and no duplicates, because a reply may bring back what he removed while it was on
its way; a premise under which it has them (no change of the cart while a request is in
flight) would be a further history variable.
