------------------------------- MODULE Filter -------------------------------
(***************************************************************************)
(* The products of a category and the filter they are asked for with:      *)
(* lib/controllers/filter_contoller.dart, lib/ui/filter and                *)
(* lib/ui/products/products_page.dart.                                     *)
(*                                                                         *)
(* A page may open the page of a sub category; all pages of such a stack   *)
(* share one FilterController, which goes with the first of them.  Each    *)
(* page asks for its categories, whose answer brings the entries of the    *)
(* filter, and for its products, with the filter as it is then.            *)
(* The products are told apart by the request that brought them: the query *)
(* and the number of the page.                                             *)
(* Left out: the products themselves, the grid and the list.               *)
(***************************************************************************)
EXTENDS Integers, Sequences, SequencesExt

CONSTANTS
  Kind,     \* what can be filtered by: order, company, trademark, type
  Fixed,    \* the kinds whose entries the app brings along: the order
  Entry,    \* Entry[k]: the entries of kind k
  None,     \* nothing: '' as an id, null as a list or a number
  PagesOf,  \* PagesOf[q]: pages of products the server has for the query q
  Fails,    \* requests may fail
  MaxDepth, \* bound: pages opened on each other
  MaxCalls, \* bound: requests in flight
  MaxHaste  \* bound: steps that are not those of a tidy user

Query == {q \in [Kind -> (UNION {Entry[k] : k \in Kind}) \cup {None}] :
            \A k \in Kind : q[k] \in Entry[k] \cup {None}}
ASSUME KindAssumption == Fixed \subseteq Kind /\ DOMAIN Entry = Kind
ASSUME EntryAssumption == \A k \in Kind : None \notin Entry[k]
ASSUME ServerAssumption == PagesOf \in [Query -> Nat] /\ Fails \in BOOLEAN
ASSUME BoundAssumption == {MaxDepth, MaxCalls, MaxHaste} \subseteq Nat

VARIABLES
  stack,     \* the pages, the first at the bottom
  selected,  \* selectedOrder, selectedCompany, selectedTrademark, selectedType
  listed,    \* listed[k]: the entries on show (companiesFilterList, ...)
  marked,    \* marked[k]: those with isSelected
  built,     \* filterEntries has been filled
  open,      \* the filter screen is on top
  calls,     \* the requests in flight, the oldest first
  ticked,    \* history: the selection has been changed on the filter screen
  haste      \* history: steps on this stack that a tidy user would not take

filter == <<selected, listed, marked, built>>
vars == <<stack, filter, open, calls, ticked, haste>>

Top == Len(stack)
NewPage == [rows |-> <<>>, start |-> 0, total |-> 0, isLoading |-> FALSE, subs |-> FALSE, bars |-> FALSE]
Nothing == [k \in Kind |-> None]

Call(new) == Len(calls) + Len(new) <= MaxCalls /\ calls' = calls \o new
First(d, q) == [kind |-> "first", depth |-> d, query |-> q, start |-> 0]
More(d) == [kind |-> "more", depth |-> d, query |-> selected, start |-> stack[d].start]
Categories(d) == [kind |-> "categories", depth |-> d]

\* A tidy user waits until nothing is in flight, applies or resets what he has
\* ticked, and goes to another page with nothing selected.
Step(isTidy) == haste' = haste + (IF isTidy THEN 0 ELSE 1) /\ haste' <= MaxHaste
tidy == haste = 0
Waits == Step(calls = <<>>)
Applies == Step(~ticked)
Leaves == Step(calls = <<>> /\ selected = Nothing)

Brought == [k \in Kind |-> IF k \in Fixed THEN Entry[k] ELSE {}]
Unmarked == [k \in Kind |-> {}]

Init ==
  /\ stack = <<>> /\ calls = <<>> /\ open = FALSE /\ ticked = FALSE /\ haste = 0
  /\ selected = Nothing /\ listed = Brought /\ marked = Unmarked /\ built = FALSE

-----------------------------------------------------------------------------
(* Pages                                                                     *)
\* initState: initCategories, then initData.
OpenPage(q) == /\ Top < MaxDepth /\ stack' = Append(stack, NewPage)
               /\ Call(<<Categories(Top + 1), First(Top + 1, q)>>)

OpenRoot ==
  /\ stack = <<>>
  /\ OpenPage(Nothing)
  /\ UNCHANGED <<filter, open, ticked, haste>>

\* navigateToNext
OpenSub ==
  /\ stack # <<>> /\ ~open /\ stack[Top].subs
  /\ OpenPage(selected) /\ Leaves
  /\ UNCHANGED <<filter, open, ticked>>

\* The requests of a page that is left go on: its categories still reach the
\* controller, its products nobody.
Back ==
  /\ Top > 1 /\ ~open /\ Leaves
  /\ stack' = Front(stack)
  /\ calls' = [n \in DOMAIN calls |-> IF calls[n].depth = Top
                                      THEN [calls[n] EXCEPT !.depth = 0] ELSE calls[n]]
  /\ UNCHANGED <<filter, open, ticked>>

\* With the first page the controller goes.
LeaveRoot ==
  /\ Top = 1 /\ ~open
  /\ stack' = <<>> /\ calls' = <<>> /\ ticked' = FALSE /\ haste' = 0
  /\ selected' = Nothing /\ listed' = Brought /\ marked' = Unmarked /\ built' = FALSE
  /\ UNCHANGED open

\* initData up to its await, with the selection as it will be.
InitData == /\ stack' = [stack EXCEPT ![Top].start = 0, ![Top].rows = <<>>]
            /\ Call(<<First(Top, selected')>>)

\* getMoreProducts up to its await; with a total of null it throws.
GetMoreProducts ==
  /\ stack # <<>> /\ ~open /\ Waits
  /\ stack[Top].total # None /\ stack[Top].start < stack[Top].total
  /\ stack' = [stack EXCEPT ![Top].isLoading = TRUE]
  /\ Call(<<More(Top)>>)
  /\ UNCHANGED <<filter, open, ticked>>

-----------------------------------------------------------------------------
(* The filter screen                                                         *)
OpenFilter ==
  /\ stack # <<>> /\ ~open /\ open' = TRUE /\ Waits
  /\ UNCHANGED <<stack, filter, calls, ticked>>

\* Mutant: the entries that were marked stay so.
SelectToo(k, e) ==
  /\ marked' = [marked EXCEPT ![k] = @ \cup {e}]
  /\ selected' = [selected EXCEPT ![k] = e]
SelectFilter(k, e) ==
  /\ marked' = [marked EXCEPT ![k] = {e}]
  /\ selected' = [selected EXCEPT ![k] = e]

Tick(k, e) ==
  /\ open /\ built /\ e \in listed[k]
  /\ SelectFilter(k, e)
  /\ ticked' = TRUE
  /\ UNCHANGED <<stack, listed, built, open, calls, haste>>

\* The screen is left by its button, and the page loads again.
Apply ==
  /\ open /\ open' = FALSE /\ ticked' = FALSE /\ Waits
  /\ UNCHANGED filter
  /\ InitData

\* Mutant: the order is forgotten.
ResetFilterLists ==
  /\ selected' = [k \in Kind |-> IF k \in Fixed THEN selected[k] ELSE None]
  /\ marked' = Unmarked
ResetFilter == selected' = Nothing /\ marked' = Unmarked
Reset ==
  /\ open /\ open' = FALSE /\ ticked' = FALSE /\ Waits
  /\ ResetFilter /\ UNCHANGED <<listed, built>>
  /\ InitData

\* Left by its cross or the back button: what has been ticked stays so.
Close ==
  /\ open /\ open' = FALSE /\ Applies
  /\ UNCHANGED <<stack, filter, calls, ticked>>

-----------------------------------------------------------------------------
(* The bars above the products.  They come with these, and stay while the    *)
(* products are loaded again: initData builds nothing.  (A page that is      *)
(* built meanwhile for another reason goes without them till then.)          *)
Bars == stack # <<>> /\ ~open /\ stack[Top].bars

\* The id, then the reload, then the mark.
TapBar(k, e) ==
  /\ Bars /\ k \notin Fixed /\ e \in listed[k] /\ Waits
  /\ SelectFilter(k, e)
  /\ InitData
  /\ UNCHANGED <<listed, built, open, ticked>>

\* resetCompaniesFilter and its likes.
TapBarReset(k) ==
  /\ Bars /\ k \notin Fixed /\ listed[k] # {} /\ selected[k] # None /\ Waits
  /\ selected' = [selected EXCEPT ![k] = None]
  /\ marked' = [marked EXCEPT ![k] = {}]
  /\ InitData
  /\ UNCHANGED <<listed, built, open, ticked>>

-----------------------------------------------------------------------------
(* Answers                                                                   *)
Answered(n, kind) == calls[n].kind = kind /\ calls' = RemoveAt(calls, n)
Same == UNCHANGED <<open, ticked, haste>>

\* initData after its await.
FirstReply(n) ==
  /\ Answered(n, "first")
  /\ LET c == calls[n]
     IN  stack' = IF c.depth = 0 THEN stack
                  ELSE [stack EXCEPT ![c.depth].rows = << <<c.query, 0>> >>,
                                     ![c.depth].total = PagesOf[c.query],
                                     ![c.depth].start = @ + 1, ![c.depth].bars = TRUE]
  /\ UNCHANGED filter /\ Same

\* getProducts returns {}, of which both are null.
FirstFailed(n) ==
  /\ Fails /\ Answered(n, "first")
  /\ LET d == calls[n].depth
     IN  stack' = IF d = 0 THEN stack
                  ELSE [stack EXCEPT ![d].rows = None, ![d].total = None, ![d].start = @ + 1,
                                     ![d].bars = FALSE]
  /\ UNCHANGED filter /\ Same

\* Mutant: the number of the next page stays.
MoreReplyAgain(n) ==
  /\ Answered(n, "more")
  /\ LET c == calls[n]
     IN  stack' = IF c.depth = 0 \/ stack[c.depth].rows = None THEN stack
                  ELSE [stack EXCEPT ![c.depth].rows = Append(@, <<c.query, c.start>>),
                                     ![c.depth].isLoading = FALSE]
  /\ UNCHANGED filter /\ Same

\* getMoreProducts after its await; null.addAll throws.
MoreReply(n) ==
  /\ Answered(n, "more")
  /\ LET c == calls[n]
     IN  stack' = IF c.depth = 0 \/ stack[c.depth].rows = None THEN stack
                  ELSE [stack EXCEPT ![c.depth].rows = Append(@, <<c.query, c.start>>),
                                     ![c.depth].start = @ + 1,
                                     ![c.depth].isLoading = FALSE]
  /\ UNCHANGED filter /\ Same

\* addAll(null) throws, isLoading stays raised.
MoreFailed(n) ==
  /\ Fails /\ Answered(n, "more")
  /\ UNCHANGED <<stack, filter>> /\ Same

\* initFilter: a list replaces another when it is not empty; its entries are not
\* marked, and the selection stays as it is.
InitFilter(lists) ==
  /\ listed' = [k \in Kind |-> IF k \in Fixed \/ lists[k] = {} THEN listed[k] ELSE lists[k]]
  /\ marked' = [k \in Kind |-> IF k \in Fixed \/ lists[k] = {} THEN marked[k] ELSE {}]
  /\ built' = TRUE
  /\ UNCHANGED selected

CategoriesReply(n) ==
  /\ Answered(n, "categories")
  /\ \E lists \in [Kind -> SUBSET (UNION {Entry[k] : k \in Kind})] :
       /\ \A k \in Kind : lists[k] \subseteq Entry[k] /\ (k \in Fixed => lists[k] = {})
       /\ InitFilter(lists)
  /\ LET d == calls[n].depth
     IN  stack' = IF d = 0 THEN stack ELSE [stack EXCEPT ![d].subs = TRUE]
  /\ Same

\* getCategories returns {}: initFilter throws on null before it does anything.
CategoriesFailed(n) ==
  /\ Fails /\ Answered(n, "categories")
  /\ UNCHANGED <<stack, filter>> /\ Same

-----------------------------------------------------------------------------
User == \/ OpenRoot \/ OpenSub \/ Back \/ LeaveRoot \/ GetMoreProducts
        \/ OpenFilter \/ Apply \/ Reset \/ Close
        \/ \E k \in Kind : TapBarReset(k) \/ \E e \in Entry[k] : Tick(k, e) \/ TapBar(k, e)

Server == \E n \in DOMAIN calls :
            \/ FirstReply(n) \/ FirstFailed(n) \/ MoreReply(n) \/ MoreFailed(n)
            \/ CategoriesReply(n) \/ CategoriesFailed(n)

Next == User \/ Server

Spec == Init /\ [][Next]_vars

-----------------------------------------------------------------------------
(* Properties                                                                *)
\* An entry with a check mark is the one that is sent, whatever is tapped while
\* answers replace the entries: filter_contoller keeps the marks in the entries
\* and the selection beside them, and several handlers change both.
NoFalseMark == \A k \in Kind : marked[k] \subseteq {selected[k]}

\* The products on a page are the first ones of a single query, none of them
\* twice and none left out, although each request reads the filter anew.
\* (Not so for one who is not tidy: a late answer replaces the newer list and
\* moves the start, and a next page takes a filter that was not applied.)
ListOfOneQuery ==
  tidy => \A d \in DOMAIN stack :
            stack[d].rows \in {None, <<>>} \/
              \E q \in Query : stack[d].rows = [n \in DOMAIN stack[d].rows |-> <<q, n - 1>>]

\* When all has come, the products are those of the marked entries, and the
\* entries that are sent are marked, as long as they are listed.
ShownAsMarked ==
  tidy /\ stack # <<>> /\ ~open /\ calls = <<>> =>
    /\ stack[Top].rows # None => stack[Top].rows[1][1] = selected
    /\ \A k \in Kind : marked[k] = {selected[k]} \ {None}
=============================================================================
