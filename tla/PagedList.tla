------------------------------ MODULE PagedList ------------------------------
(***************************************************************************)
(* The lists that load page by page: orders_controller, favorites_contr.,  *)
(* rating_controller, images_controller, vendor_controller, vendors_areas_ *)
(* controller and search_controller.  They are copies of one another that  *)
(* differ in what they do before a request and when it fails; copy is the  *)
(* one that is on the screen.                                              *)
(*                                                                         *)
(* A query is what the rows are asked for: the sort order, the text or a   *)
(* bar code, and it is asked for in a language.  A handler runs to its     *)
(* await; calls holds the requests in flight.                              *)
(***************************************************************************)
EXTENDS Integers, Sequences

CONSTANTS
  Query, NoQuery,
  Code,         \* the queries that are bar codes: they are scanned, never typed
  Lang, Lang1,  \* the languages, and the one whose number is 1
  Row,
  Rows,         \* what the server has for each question at first, in its order
  ItemsPerPage,
  MaxMoves,     \* bound: moves of the user
  MaxCalls      \* bound: requests in flight

Question == [query : Query, lang : Lang]

ASSUME QueryAssumption == NoQuery \in Query \ Code /\ Code \subseteq Query
ASSUME LangAssumption == Lang1 \in Lang
ASSUME RowsAssumption == Rows \in [Question -> Seq(Row)]
ASSUME PageAssumption == ItemsPerPage \in Nat \ {0}
ASSUME BoundAssumption == MaxMoves \in Nat /\ MaxCalls \in Nat

\* What the copies differ in:
Policy == [
  loadsAtStart : BOOLEAN, \* the first page is asked for when the screen is opened
  clearsFirst : BOOLEAN,  \* it is asked for with an empty list, and added to it
  oneFlag : BOOLEAN,      \* there is no loadingMore, only isLoading
  keepsQuery : BOOLEAN,   \* the next pages are asked for with the query too
  firstEnds : BOOLEAN,    \* a failed first page resets its flag
  moreEnds : BOOLEAN,     \* another failed page resets its flag
  typed : BOOLEAN,        \* the query is a text, which changes without a request
  scans : BOOLEAN,        \* a bar code can be scanned; the next pages are not asked for with it
  firstLang : BOOLEAN,    \* the first page is asked for in the language with number 1
  hearts : BOOLEAN]       \* a tap on a row takes it off the list at the server

\* Orders; rates and images, which have only one query.
Orders == [loadsAtStart |-> TRUE, clearsFirst |-> FALSE, oneFlag |-> FALSE, keepsQuery |-> TRUE,
           firstEnds |-> FALSE, moreEnds |-> FALSE, typed |-> FALSE,
           scans |-> FALSE, firstLang |-> FALSE, hearts |-> FALSE]
Favorites == [Orders EXCEPT !.hearts = TRUE]
VendorsAreas == [Orders EXCEPT !.firstEnds = TRUE, !.typed = TRUE]
Vendors == [VendorsAreas EXCEPT !.keepsQuery = FALSE]
VendorSearch == [Vendors EXCEPT !.loadsAtStart = FALSE]
Search == [loadsAtStart |-> FALSE, clearsFirst |-> TRUE, oneFlag |-> TRUE, keepsQuery |-> TRUE,
           firstEnds |-> TRUE, moreEnds |-> TRUE, typed |-> TRUE,
           scans |-> TRUE, firstLang |-> TRUE, hearts |-> FALSE]
Copies == {Orders, Favorites, VendorsAreas, Vendors, VendorSearch, Search}

VARIABLES
  copy,         \* which of the controllers it is
  lang,         \* the language of the app
  rows,         \* the server: what it has for each question
  list,         \* orders, favorites, rates, searchList, ...
  startIndex, totalCount,
  flags,        \* isLoading ("first") and loadingMore ("more")
  query,        \* the query as it is on the screen
  asked,        \* the question of the last first page that was asked for
  calls, moves,
  careful,      \* history: the user has waited for every answer, and has asked for
                \* no more rows while another text was in the field
  lost,         \* history: a request has failed
  touched       \* history: a heart was tapped since the last first page was asked for

vars == <<copy, lang, rows, list, startIndex, totalCount, flags, query, asked, calls, moves,
          careful, lost, touched>>

-----------------------------------------------------------------------------
Slots == 1 .. MaxCalls
\* A question, and the text in the field with which it was asked.
Ask(q, l) == [query |-> q, lang |-> l]
TextOf(question) == IF question.query \in Code THEN NoQuery ELSE question.query
FirstLang == IF copy.firstLang THEN Lang1 ELSE lang

\* A request, and what is answered: rows and the total.  A heart bears its row.
Request(kind, question, from, some) ==
  [kind |-> kind, question |-> question, from |-> from, status |-> "sent", rows |-> some, total |-> 0]
NoCall == Request("none", Ask(NoQuery, Lang1), 0, <<>>)

Call(c) == \E s \in Slots : calls[s] = NoCall /\ calls' = [calls EXCEPT ![s] = c]
Replied(s, kind, status) == calls[s].kind = kind /\ calls[s].status = status
Free(s) == calls' = [calls EXCEPT ![s] = NoCall]
Quiet == \A s \in Slots : calls[s] = NoCall

Move == moves < MaxMoves /\ moves' = moves + 1 /\ UNCHANGED <<copy, lang, rows, lost>>
Stay == UNCHANGED <<copy, lang, query, asked, moves, careful, touched>>

Flag(kind) == IF copy.oneFlag THEN "first" ELSE kind
Raise(kind) == flags' = [flags EXCEPT ![Flag(kind)] = TRUE]
Lower(kind) == flags' = [flags EXCEPT ![Flag(kind)] = FALSE]

\* The server's answer: the rows from a place on, at most a page.
Cap(question, i) == IF i < Len(rows[question]) THEN i ELSE Len(rows[question])
Page(question, from) == SubSeq(rows[question], from + 1, Cap(question, from + ItemsPerPage))

\* A heart takes a row off a list, and brings it back, at its end.
Toggle(some, r) ==
  IF \E i \in DOMAIN some : some[i] = r
    THEN LET i == CHOOSE k \in DOMAIN some : some[k] = r
         IN SubSeq(some, 1, i - 1) \o SubSeq(some, i + 1, Len(some))
    ELSE Append(some, r)

-----------------------------------------------------------------------------
\* The language matters to the search alone: the others ask for every page in it.
Init ==
  /\ copy \in Copies /\ lang \in Lang /\ rows = Rows
  /\ copy.firstLang \/ lang = Lang1
  /\ list = <<>> /\ startIndex = 0 /\ totalCount = 0
  /\ flags = [kind \in {"first", "more"} |-> copy.loadsAtStart /\ kind = "first"]
  /\ query = NoQuery /\ asked = Ask(NoQuery, FirstLang)
  /\ calls = [s \in Slots |-> IF copy.loadsAtStart /\ s = 1
                                THEN Request("first", asked, 0, <<>>) ELSE NoCall]
  /\ moves = 0 /\ careful = TRUE /\ lost = FALSE /\ touched = FALSE

\* The text of the search field changes.
Type(q) ==
  /\ Move /\ copy.typed /\ query' = q
  /\ UNCHANGED <<list, startIndex, totalCount, flags, asked, calls, careful, touched>>

\* The first page is asked for, with a text in the field.
AskFirst(text, q) ==
  /\ Move /\ careful' = (careful /\ Quiet)
  /\ query' = text /\ asked' = Ask(q, FirstLang) /\ startIndex' = 0
  /\ list' = IF copy.clearsFirst THEN <<>> ELSE list
  /\ Raise("first")
  /\ Call(Request("first", asked', 0, <<>>))
  /\ touched' = FALSE /\ UNCHANGED totalCount

\* getUserOrders, getProducts, ...: another order is picked, the search is started.
GetFirst(q) == AskFirst(q, q)

\* scanBarcode, once the camera has an answer: the field is emptied.
Scan(c) == copy.scans /\ AskFirst(NoQuery, c)

\* The scroll reaches the end: getMoreOrders, getMoreProducts, ...  Nothing stops
\* a second one while the first is on its way.
GetMore ==
  /\ Move /\ careful' = (careful /\ Quiet /\ query = TextOf(asked))
  /\ startIndex < totalCount
  /\ Raise("more")
  /\ Call(Request("more", Ask(IF copy.keepsQuery THEN query ELSE NoQuery, lang), startIndex, <<>>))
  /\ UNCHANGED <<list, startIndex, totalCount, query, asked, touched>>

\* The heart of a row: nothing waits for its answer, and the list is not loaded again.
Heart(r) ==
  /\ Move /\ copy.hearts /\ careful' = (careful /\ Quiet)
  /\ Call(Request("heart", asked, 0, <<r>>))
  /\ touched' = TRUE
  /\ UNCHANGED <<list, startIndex, totalCount, flags, query, asked>>

\* Mutants are changed forms of the definition that follows them, the way a bug
\* would change it: each must break a property.  Here: the place is not moved on.
FirstReplyUnmoved(s) ==
  /\ Replied(s, "first", "done") /\ Free(s)
  /\ list' = IF copy.clearsFirst THEN list \o calls[s].rows ELSE calls[s].rows
  /\ totalCount' = calls[s].total
  /\ Lower("first")
  /\ Stay /\ UNCHANGED <<rows, startIndex, lost>>
FirstReply(s) ==
  /\ Replied(s, "first", "done") /\ Free(s)
  /\ list' = IF copy.clearsFirst THEN list \o calls[s].rows ELSE calls[s].rows
  /\ totalCount' = calls[s].total
  /\ startIndex' = startIndex + ItemsPerPage
  /\ Lower("first")
  /\ Stay /\ UNCHANGED <<rows, lost>>

\* Only a message is shown.
HeartReply(s) ==
  /\ calls[s].kind = "heart" /\ calls[s].status # "sent" /\ Free(s)
  /\ Stay /\ UNCHANGED <<rows, list, startIndex, totalCount, flags, lost>>

\* Mutant: an error leaves the flag raised.
FirstFailedLoading(s) ==
  /\ Replied(s, "first", "lost") /\ Free(s)
  /\ Stay /\ UNCHANGED <<rows, list, startIndex, totalCount, flags, lost>>
\* An error: assignAll(null) may have emptied the list before it fails.
FirstFailed(s) ==
  /\ Replied(s, "first", "lost") /\ Free(s)
  /\ \/ copy.firstEnds /\ Lower("first") /\ UNCHANGED list
     \/ ~copy.firstEnds /\ UNCHANGED flags /\ list' \in {list, <<>>}
  /\ Stay /\ UNCHANGED <<rows, startIndex, totalCount, lost>>

\* Mutant: the place is moved the wrong way.
MoreReplyBack(s) ==
  /\ Replied(s, "more", "done") /\ Free(s)
  /\ list' = list \o calls[s].rows
  /\ startIndex' = startIndex - ItemsPerPage
  /\ Lower("more")
  /\ Stay /\ UNCHANGED <<rows, totalCount, lost>>
MoreReply(s) ==
  /\ Replied(s, "more", "done") /\ Free(s)
  /\ list' = list \o calls[s].rows
  /\ startIndex' = startIndex + ItemsPerPage
  /\ Lower("more")
  /\ Stay /\ UNCHANGED <<rows, totalCount, lost>>

MoreFailed(s) ==
  /\ Replied(s, "more", "lost") /\ Free(s)
  /\ IF copy.moreEnds THEN Lower("more") ELSE UNCHANGED flags
  /\ Stay /\ UNCHANGED <<rows, list, startIndex, totalCount, lost>>

-----------------------------------------------------------------------------
Answered(c, status, some, total) == [c EXCEPT !.status = status, !.rows = some, !.total = total]

Serve(s) ==
  /\ calls[s].kind \in {"first", "more"} /\ calls[s].status = "sent"
  /\ LET question == calls[s].question
     IN calls' = [calls EXCEPT ![s] =
          Answered(calls[s], "done", Page(question, calls[s].from), Len(rows[question]))]
  /\ Stay /\ UNCHANGED <<rows, list, startIndex, totalCount, flags, lost>>

ServeHeart(s) ==
  /\ Replied(s, "heart", "sent")
  /\ rows' = [question \in Question |-> Toggle(rows[question], calls[s].rows[1])]
  /\ calls' = [calls EXCEPT ![s].status = "done"]
  /\ Stay /\ UNCHANGED <<list, startIndex, totalCount, flags, lost>>

\* A request or its reply is lost, or the server answers with an error.
Lose(s) ==
  /\ calls[s] # NoCall /\ calls[s].status # "lost"
  /\ calls' = [calls EXCEPT ![s] = Answered(calls[s], "lost", <<>>, 0)]
  /\ lost' = TRUE
  /\ Stay /\ UNCHANGED <<rows, list, startIndex, totalCount, flags>>

Answer(s) == Serve(s) \/ ServeHeart(s)
Reply(s) == FirstReply(s) \/ FirstFailed(s) \/ MoreReply(s) \/ MoreFailed(s) \/ HeartReply(s)

Next == \/ \E q \in Query \ Code : Type(q) \/ GetFirst(q)
        \/ \E c \in Code : Scan(c)
        \/ GetMore
        \/ \E i \in DOMAIN list : Heart(list[i])
        \/ \E s \in Slots : Answer(s) \/ Lose(s) \/ Reply(s)

Spec == Init /\ [][Next]_vars

\* A request is answered or fails, and its handler goes on.
FairSpec == Spec /\ \A s \in Slots : WF_vars(Answer(s)) /\ WF_vars(Reply(s))

-----------------------------------------------------------------------------
(* Properties                                                                *)
CallType == [kind : {"none", "first", "more", "heart"}, question : Question, from : Nat,
             status : {"sent", "done", "lost"}, rows : Seq(Row), total : Nat]

TypeOK ==
  /\ list \in Seq(Row) /\ startIndex \in Nat /\ totalCount \in Nat
  /\ flags \in [{"first", "more"} -> BOOLEAN]
  /\ query \in Query \ Code /\ asked \in Question
  /\ calls \in [Slots -> CallType] /\ moves \in 0 .. MaxMoves
  /\ copy \in Copies /\ lang \in Lang /\ rows \in [Question -> Seq(Row)]
  /\ careful \in BOOLEAN /\ lost \in BOOLEAN /\ touched \in BOOLEAN

\* The next pages are asked for as the first one was: not so of vendors with a text, of
\* a search for a bar code, and of any search in a language other than the first.
SameQuestion == /\ asked.query \notin Code /\ asked.lang = lang
                /\ copy.keepsQuery \/ asked.query = NoQuery

\* What the copies promise of the list: nothing once a heart was tapped, nothing of a next
\* page that asks another question, nor after an error where rows of another question stay.
Promised == /\ ~touched
            /\ startIndex > ItemsPerPage \/ lost => SameQuestion
            /\ lost /\ copy.firstEnds => copy.clearsFirst

\* Once everything is answered to a careful user, the list is the first rows of what
\* was asked for, up to where the next page begins: no row twice, none left out, none
\* of another question; with the exceptions of Promised.
QuietListIsPrefix ==
  careful /\ Promised /\ Quiet /\ ~flags["first"]
    => list = SubSeq(rows[asked], 1, Cap(asked, startIndex))

\* The copies whose flag is reset by every answer and every error.
Ends == copy.firstEnds /\ (copy.oneFlag => copy.moreEnds)

\* There the loading view goes away, also for a hasty user and after an error.
LoadingEnds == flags["first"] /\ Ends ~> ~flags["first"]
=============================================================================
