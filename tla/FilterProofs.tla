---------------------------- MODULE FilterProofs ----------------------------
(***************************************************************************)
(* The properties of module Filter for any kinds and entries, any server   *)
(* and any bounds: the marks agree with the selection whatever the user    *)
(* does; the pages of a tidy one show what is marked.                      *)
(***************************************************************************)
EXTENDS Filter, SequenceTheorems, TLAPS

\* No false mark, with what is needed of the shapes: selected and marked have a
\* value for each kind.
Marks == /\ selected \in [Kind -> (UNION {Entry[k] : k \in Kind}) \cup {None}]
         /\ marked \in [Kind -> SUBSET (UNION {Entry[k] : k \in Kind})]
         /\ NoFalseMark

LEMMA MarksInit == Init => Marks
  BY DEF Init, Marks, Nothing, Unmarked, NoFalseMark

\* What the handlers do to the filter: a selection, a reset of one kind or of
\* all, new entries, or nothing.
LEMMA MarksStep == Marks /\ [Next]_vars => Marks'
  <1> SUFFICES ASSUME Marks, [Next]_vars PROVE Marks'
    OBVIOUS
  <1> USE DEF Marks, NoFalseMark
  <1>same. ASSUME UNCHANGED filter PROVE Marks'
    BY <1>same DEF filter
  <1>select. ASSUME NEW k \in Kind, NEW e \in Entry[k], SelectFilter(k, e) PROVE Marks'
    BY <1>select DEF SelectFilter
  <1>none. ASSUME ResetFilter PROVE Marks'
    BY <1>none DEF ResetFilter, Nothing, Unmarked
  <1>1. CASE UNCHANGED vars
    BY <1>1, <1>same DEF vars
  <1>2. CASE OpenRoot \/ OpenSub \/ Back \/ GetMoreProducts \/ OpenFilter \/ Apply \/ Close
    BY <1>2, <1>same DEF OpenRoot, OpenSub, Back, GetMoreProducts, OpenFilter, Apply, Close
  <1>3. CASE LeaveRoot
    BY <1>3 DEF LeaveRoot, Nothing, Unmarked
  <1>4. CASE Reset
    BY <1>4, <1>none DEF Reset
  <1>5. ASSUME NEW k \in Kind, TapBarReset(k) PROVE Marks'
    BY <1>5 DEF TapBarReset
  <1>6. ASSUME NEW k \in Kind, NEW e \in Entry[k], Tick(k, e) \/ TapBar(k, e) PROVE Marks'
    BY <1>6, <1>select DEF Tick, TapBar
  <1>7. ASSUME NEW n \in DOMAIN calls, CategoriesReply(n) PROVE Marks'
    BY <1>7 DEF CategoriesReply, InitFilter
  <1>8. ASSUME NEW n \in DOMAIN calls,
               \/ FirstReply(n) \/ FirstFailed(n) \/ MoreReply(n) \/ MoreFailed(n)
               \/ CategoriesFailed(n)
        PROVE Marks'
    BY <1>8, <1>same DEF FirstReply, FirstFailed, MoreReply, MoreFailed, CategoriesFailed
  <1>9. CASE User
    BY <1>9, <1>2, <1>3, <1>4, <1>5, <1>6 DEF User
  <1>10. CASE Server
    BY <1>10, <1>7, <1>8 DEF Server
  <1> QED BY <1>1, <1>9, <1>10 DEF Next

\* An entry with a check mark is the one that is sent: filter_contoller changes
\* marks and selection in many places, and always together.
THEOREM MarkIsSelected == Spec => []NoFalseMark
  <1>1. Marks => NoFalseMark
    BY DEF Marks
  <1> QED BY MarksInit, MarksStep, <1>1, PTL DEF Spec

-----------------------------------------------------------------------------
(* A tidy user: the pages of the stack, and what is in flight.               *)
\* The rows of a page, by the request that brought them; the pages.
Row == Query \X Nat
Page == [rows : Seq(Row) \cup {None}, start : Nat, total : Nat \cup {None},
         isLoading : BOOLEAN, subs : BOOLEAN, bars : BOOLEAN]

\* A list without its i-th element.
LEMMA RemoveAtIs ==
  ASSUME NEW T, NEW s \in Seq(T), NEW i \in 1 .. Len(s)
  PROVE  /\ RemoveAt(s, i) \in Seq(T) /\ Len(RemoveAt(s, i)) = Len(s) - 1
         /\ \A j \in 1 .. Len(s) - 1 : /\ j < i => RemoveAt(s, i)[j] = s[j]
                                       /\ j >= i => RemoveAt(s, i)[j] = s[j + 1]
  <1> DEFINE f == SubSeq(s, 1, i - 1)
             g == SubSeq(s, i + 1, Len(s))
  <1>1. f \in Seq(T) /\ Len(f) = i - 1 /\ \A j \in 1 .. i - 1 : f[j] = s[j]
    OBVIOUS
  <1>2. g \in Seq(T) /\ Len(g) = Len(s) - i /\ \A j \in 1 .. Len(s) - i : g[j] = s[j + i]
    OBVIOUS
  <1>3. RemoveAt(s, i) = f \o g
    BY DEF RemoveAt
  <1> HIDE DEF f, g
  <1>4. /\ f \o g \in Seq(T) /\ Len(f \o g) = Len(f) + Len(g)
        /\ \A j \in 1 .. Len(f) + Len(g) :
             (f \o g)[j] = IF j <= Len(f) THEN f[j] ELSE g[j - Len(f)]
    BY <1>1, <1>2, ConcatProperties
  <1>5. Len(f \o g) = Len(s) - 1
    BY <1>1, <1>2, <1>4
  <1>6. ASSUME NEW j \in 1 .. Len(s) - 1, j < i PROVE (f \o g)[j] = s[j]
    BY <1>1, <1>2, <1>4, <1>6
  <1>7. ASSUME NEW j \in 1 .. Len(s) - 1, j >= i PROVE (f \o g)[j] = s[j + 1]
    <2>1. (f \o g)[j] = g[j - (i - 1)]
      BY <1>1, <1>2, <1>4, <1>7
    <2>2. j - (i - 1) \in 1 .. Len(s) - i /\ (j - (i - 1)) + i = j + 1
      BY <1>7
    <2> QED BY <1>2, <2>1, <2>2
  <1> QED BY <1>3, <1>4, <1>5, <1>6, <1>7

\* When a request has been answered the others are there, each of them once.
LEMMA Answer ==
  ASSUME NEW T, calls \in Seq(T), NEW n \in DOMAIN calls, calls' = RemoveAt(calls, n)
  PROVE  /\ calls' \in Seq(T)
         /\ \A j \in DOMAIN calls' : \E i \in DOMAIN calls \ {n} : calls'[j] = calls[i]
         /\ \A i \in DOMAIN calls \ {n} : \E j \in DOMAIN calls' : calls'[j] = calls[i]
         /\ \A j, k \in DOMAIN calls' : j # k =>
              \E i, m \in DOMAIN calls : i # m /\ calls'[j] = calls[i] /\ calls'[k] = calls[m]
  <1>1. /\ calls' \in Seq(T) /\ Len(calls') = Len(calls) - 1
        /\ \A j \in 1 .. Len(calls) - 1 : /\ j < n => calls'[j] = calls[j]
                                          /\ j >= n => calls'[j] = calls[j + 1]
    <2>1. n \in 1 .. Len(calls)
      OBVIOUS
    <2> QED BY <2>1, RemoveAtIs
  <1>2. /\ Len(calls) \in Nat /\ DOMAIN calls = 1 .. Len(calls)
        /\ DOMAIN calls' = 1 .. Len(calls) - 1 /\ n \in 1 .. Len(calls)
    BY <1>1
  <1> DEFINE from(j) == IF j < n THEN j ELSE j + 1
  <1>3. ASSUME NEW j \in DOMAIN calls'
        PROVE  from(j) \in DOMAIN calls \ {n} /\ calls'[j] = calls[from(j)]
    <2>0. j \in 1 .. Len(calls) - 1
      BY <1>2
    <2>1. CASE j < n
      <3>1. calls'[j] = calls[j]
        BY <1>1, <2>0, <2>1
      <3> QED BY <1>2, <2>0, <2>1, <3>1
    <2>2. CASE j >= n
      <3>1. calls'[j] = calls[j + 1]
        BY <1>1, <2>0, <2>2
      <3>2. from(j) = j + 1 /\ j + 1 \in 1 .. Len(calls) /\ j + 1 # n
        BY <1>2, <2>0, <2>2
      <3> QED BY <1>2, <3>1, <3>2
    <2> QED BY <1>2, <2>0, <2>1, <2>2
  <1>4. ASSUME NEW j \in DOMAIN calls', NEW k \in DOMAIN calls', j # k
        PROVE  from(j) # from(k)
    BY <1>2, <1>4
  <1>5. ASSUME NEW i \in DOMAIN calls \ {n}
        PROVE  \E j \in DOMAIN calls' : from(j) = i
    <2>1. CASE i < n
      <3>1. i \in DOMAIN calls' /\ from(i) = i
        BY <1>2, <2>1
      <3> QED BY <3>1
    <2>2. CASE i > n
      <3>1. i - 1 \in DOMAIN calls' /\ from(i - 1) = i
        BY <1>2, <2>2
      <3> QED BY <3>1
    <2> QED BY <1>2, <2>1, <2>2
  <1> HIDE DEF from
  <1>6. \A i \in DOMAIN calls \ {n} : \E j \in DOMAIN calls' : calls'[j] = calls[i]
    BY <1>3, <1>5
  <1>7. \A j, k \in DOMAIN calls' : j # k =>
          \E i, m \in DOMAIN calls : i # m /\ calls'[j] = calls[i] /\ calls'[k] = calls[m]
    BY <1>3, <1>4
  <1> QED BY <1>1, <1>3, <1>6, <1>7

\* The first page.start pages of the query q, or nothing after an error.
Rows(q, page) == \/ page.rows = None
                 \/ /\ page.start # 0
                    /\ page.rows = [n \in 1 .. page.start |-> <<q, n - 1>>]

\* The next page of a query behind the first ones.
LEMMA NextRow ==
  ASSUME NEW q \in Query, NEW s \in Nat \ {0}
  PROVE  Append([n \in 1 .. s |-> <<q, n - 1>>], <<q, s>>) = [n \in 1 .. s + 1 |-> <<q, n - 1>>]
  <1> DEFINE l == [n \in 1 .. s |-> <<q, n - 1>>]
  <1>1. l \in Seq(Row) /\ Len(l) = s
    BY DEF Row
  <1>2. <<q, s>> \in Row
    BY DEF Row
  <1>3. Append(l, <<q, s>>) \in Seq(Row) /\ Len(Append(l, <<q,s>>)) = s + 1
    BY <1>1, <1>2
  <1>4. \A n \in 1 .. s + 1 : Append(l, <<q,s>>)[n] = <<q, n - 1>>
    BY <1>1, <1>2
  <1> QED BY <1>3, <1>4

\* The first page of a query alone.
LEMMA FirstRow ==
  ASSUME NEW q \in Query
  PROVE  << <<q, 0>> >> \in Seq(Row) /\ << <<q, 0>> >> = [n \in 1 .. 1 |-> <<q, n - 1>>]
  <1>1. <<q, 0>> \in Row
    BY DEF Row
  <1> QED BY <1>1

\* Changed pages.
LEMMA Pages ==
  ASSUME NEW p \in Page, NEW rows \in Seq(Row) \cup {None}, NEW total \in Nat \cup {None},
         NEW start \in Nat, NEW loading \in BOOLEAN
  PROVE  /\ [p EXCEPT !.rows = rows, !.total = total, !.start = start, !.bars = loading] \in Page
         /\ [p EXCEPT !.start = start, !.rows = rows] \in Page
         /\ [p EXCEPT !.rows = rows, !.start = start, !.isLoading = loading] \in Page
         /\ [p EXCEPT !.isLoading = loading] \in Page
         /\ [p EXCEPT !.subs = loading] \in Page
  <1> DEFINE S == Seq(Row) \cup {None}
             U == Nat \cup {None}
  <1>1. Page = [rows : S, start : Nat, total : U, isLoading : BOOLEAN, subs : BOOLEAN,
               bars : BOOLEAN]
    BY DEF Page
  <1>2. rows \in S /\ total \in U
    OBVIOUS
  <1> HIDE DEF S, U
  <1> QED BY <1>1, <1>2

\* The requests a tidy user's stack has in flight are those of its top page, with
\* the selection as it is.
Ours == {Categories(Top), First(Top, selected), More(Top)}
InFlight(kind) == \E n \in DOMAIN calls : calls[n].kind = kind

\* With a tidy user: one request for products at most, and the categories before
\* anything can be selected; the pages below the top show the unfiltered list;
\* the top page waits for its first products or shows those of one query, that
\* of the selection unless something has been ticked since.
Tidy ==
  /\ stack \in Seq(Page) /\ calls \in Seq(Ours)
  /\ ticked => open
  /\ open => calls = <<>>
  /\ stack = <<>> => calls = <<>> /\ selected = Nothing /\ ~open
  /\ InFlight("categories") => selected = Nothing
  /\ \A m, n \in DOMAIN calls :
       calls[m].kind # "categories" /\ calls[n].kind # "categories" => m = n
  /\ \A d \in 1 .. Top - 1 : Rows(Nothing, stack[d])
  /\ stack # <<>> => IF InFlight("first")
                     THEN stack[Top].rows = <<>> /\ stack[Top].start = 0
                     ELSE \E q \in Query : Rows(q, stack[Top]) /\ (ticked \/ q = selected)
  /\ \A k \in Kind : marked[k] = {selected[k]} \ {None}

\* The inductive invariant, with the shapes it needs.
Orderly ==
  /\ haste \in Nat /\ selected \in Query
  /\ marked \in [Kind -> SUBSET (UNION {Entry[k] : k \in Kind})]
  /\ tidy => Tidy

\* The empty filter is a query.
LEMMA NothingIsQuery == Nothing \in Query
  BY DEF Nothing, Query

\* Requests sent when nothing is in flight are the only ones.
LEMMA OneCall == ASSUME NEW a PROVE <<>> \o <<a>> = <<a>>
  BY ConcatEmptySeq

\* Likewise for two.
LEMMA TwoCalls == ASSUME NEW a, NEW b PROVE <<>> \o <<a, b>> = <<a, b>>
  <1>1. <<a, b>> \in Seq({a, b})
    OBVIOUS
  <1> QED BY <1>1, ConcatEmptySeq

\* No page is open: at the start, and when the first page has been left.
Fresh == /\ stack = <<>> /\ calls = <<>> /\ ~open /\ ~ticked /\ haste = 0
         /\ selected = Nothing /\ marked = Unmarked

\* Without a page all is in order.
LEMMA AtStart == Fresh => Orderly
  <1> SUFFICES ASSUME stack = <<>>, calls = <<>>, ~open, ~ticked, haste = 0,
                      selected = Nothing, marked = Unmarked
               PROVE  Orderly
    BY DEF Fresh
  <1>1. stack \in Seq(Page) /\ calls \in Seq(Ours) /\ Top = 0 /\ ~InFlight("categories")
    BY DEF Top, InFlight
  <1>2. \A k \in Kind : marked[k] = {selected[k]} \ {None}
    BY DEF Unmarked, Nothing
  <1>3. marked \in [Kind -> SUBSET (UNION {Entry[k] : k \in Kind})]
    BY DEF Unmarked
  <1>4. DOMAIN calls = {}
    OBVIOUS
  <1> QED BY <1>1, <1>2, <1>3, <1>4, NothingIsQuery DEF Orderly, Tidy

\* The top page is loaded again, with what is selected by then.
LEMMA Reload ==
  ASSUME Tidy, stack # <<>>, calls = <<>>, InitData, ~open', ~ticked',
         \A k \in Kind : marked'[k] = {selected'[k]} \ {None}
  PROVE  Tidy'
  <1> DEFINE c == First(Top, selected')
             page == [stack[Top] EXCEPT !.start = 0, !.rows = <<>>]
  <1>1. calls' = <<c>>
    BY OneCall DEF InitData, Call
  <1>2. stack \in Seq(Page) /\ Top \in 1 .. Len(stack) /\ stack[Top] \in Page
    BY DEF Tidy, Top
  <1>3. page \in Page /\ page.rows = <<>> /\ page.start = 0
    <2>1. <<>> \in Seq(Row) /\ 0 \in Nat
      OBVIOUS
    <2>2. page \in Page
      BY <1>2, <2>1, Pages
    <2>3. page.rows = <<>> /\ page.start = 0
      BY <1>2 DEF Page
    <2> QED BY <2>2, <2>3
  <1>4. stack' = [stack EXCEPT ![Top] = page]
    BY <1>2 DEF InitData
  <1> HIDE DEF page
  <1>5. /\ stack' \in Seq(Page) /\ Len(stack') = Len(stack) /\ stack'[Top] = page
        /\ \A d \in 1 .. Len(stack) : d # Top => stack'[d] = stack[d]
    BY <1>2, <1>3, <1>4
  <1>6. Top' = Top /\ stack' # <<>>
    BY <1>2, <1>5 DEF Top
  <1>7. c.kind = "first" /\ c \in Ours'
    BY <1>6 DEF First, Ours
  <1>8. /\ calls' \in Seq(Ours') /\ DOMAIN calls' = {1} /\ calls'[1].kind = "first"
    BY <1>1, <1>7
  <1>9. InFlight("first")' /\ ~InFlight("categories")'
    BY <1>8 DEF InFlight
  <1>10. \A d \in 1 .. Top' - 1 : Rows(Nothing, stack'[d])
    BY <1>2, <1>5, <1>6 DEF Tidy, Top
  <1> QED BY <1>3, <1>5, <1>6, <1>8, <1>9, <1>10 DEF Tidy

\* A page is opened, on another or as the first.
LEMMA Opening ==
  ASSUME Tidy, selected = Nothing, calls = <<>>, ~open, OpenPage(Nothing),
         UNCHANGED <<filter, open, ticked>>
  PROVE  Tidy'
  <1> DEFINE a == Categories(Top + 1)
             b == First(Top + 1, Nothing)
  <1>1. calls' = <<a, b>>
    BY TwoCalls DEF OpenPage, Call
  <1>2. stack \in Seq(Page) /\ Top = Len(stack) /\ Top \in Nat
    BY DEF Tidy, Top
  <1>3. NewPage \in Page /\ NewPage.rows = <<>> /\ NewPage.start = 0
    BY DEF NewPage, Page
  <1>4. stack' = Append(stack, NewPage)
    BY DEF OpenPage
  <1>5. /\ stack' \in Seq(Page) /\ Len(stack') = Top + 1 /\ stack'[Top + 1] = NewPage
        /\ \A d \in 1 .. Top : stack'[d] = stack[d]
    BY <1>2, <1>3, <1>4
  <1>6. Top' = Top + 1 /\ stack' # <<>> /\ Top' - 1 = Top
    BY <1>2, <1>5 DEF Top
  <1>7. selected' = Nothing /\ marked' = marked /\ ~open' /\ ~ticked' /\ ~ticked
    BY DEF filter, Tidy
  <1>8. /\ a \in Ours' /\ b \in Ours' /\ a.kind = "categories" /\ b.kind = "first"
    BY <1>6, <1>7 DEF First, Categories, Ours
  <1>9. /\ calls' \in Seq(Ours') /\ DOMAIN calls' = {1, 2}
        /\ calls'[1].kind = "categories" /\ calls'[2].kind = "first"
    <2> HIDE DEF a, b
    <2> QED BY <1>1, <1>8
  <1>10. InFlight("first")'
    BY <1>9 DEF InFlight
  <1>11. ASSUME NEW d \in 1 .. Top PROVE Rows(Nothing, stack[d])
    <2>1. CASE d < Top
      BY <1>2, <2>1 DEF Tidy
    <2>2. CASE d = Top
      <3>1. ~InFlight("first") /\ stack # <<>>
        BY <1>2, <2>2 DEF InFlight, Top
      <3> QED BY <1>2, <1>7, <2>2, <3>1 DEF Tidy
    <2> QED BY <1>2, <2>1, <2>2
  <1>12. \A d \in 1 .. Top' - 1 : Rows(Nothing, stack'[d])
    BY <1>5, <1>6, <1>11
  <1>13. \A m, n \in DOMAIN calls' :
           calls'[m].kind # "categories" /\ calls'[n].kind # "categories" => m = n
    BY <1>9
  <1>14. \A k \in Kind : marked'[k] = {selected'[k]} \ {None}
    BY <1>7 DEF Tidy
  <1> QED BY <1>3, <1>5, <1>6, <1>7, <1>9, <1>10, <1>12, <1>13, <1>14 DEF Tidy

\* Back to the page below.
LEMMA Return ==
  ASSUME Tidy, selected = Nothing, calls = <<>>, Back
  PROVE  Tidy'
  <1>1. stack \in Seq(Page) /\ Top = Len(stack) /\ Top \in Nat \ {0, 1}
    BY DEF Tidy, Top, Back
  <1>2. stack' = SubSeq(stack, 1, Len(stack) - 1)
    BY DEF Back, Front
  <1>3. /\ stack' \in Seq(Page) /\ Len(stack') = Top - 1
        /\ \A d \in 1 .. Top - 1 : stack'[d] = stack[d]
    BY <1>1, <1>2
  <1>4. Top' = Top - 1 /\ stack' # <<>> /\ Top' \in 1 .. Top - 1
    BY <1>1, <1>3 DEF Top
  <1>5. calls' = <<>>
    BY DEF Back
  <1>6. calls' \in Seq(Ours') /\ ~InFlight("first")' /\ ~InFlight("categories")' /\ DOMAIN calls' = {}
    BY <1>5 DEF InFlight
  <1>7. \A d \in 1 .. Top - 1 : Rows(Nothing, stack'[d])
    BY <1>3 DEF Tidy
  <1>8. UNCHANGED <<selected, marked, open, ticked>>
    BY DEF Back, filter
  <1>9. \A d \in 1 .. Top' - 1 : Rows(Nothing, stack'[d])
    BY <1>1, <1>4, <1>7
  <1>10. Rows(selected', stack'[Top']) /\ selected' \in Query
    BY <1>4, <1>7, <1>8, NothingIsQuery
  <1> QED BY <1>3, <1>4, <1>5, <1>6, <1>8, <1>9, <1>10 DEF Tidy

\* The next page is asked for.
LEMMA LoadingMore ==
  ASSUME Tidy, calls = <<>>, GetMoreProducts
  PROVE  Tidy'
  <1> DEFINE page == [stack[Top] EXCEPT !.isLoading = TRUE]
             c == More(Top)
  <1>1. stack \in Seq(Page) /\ Top = Len(stack) /\ Top \in 1 .. Len(stack) /\ stack[Top] \in Page
    BY DEF Tidy, Top, GetMoreProducts
  <1>2. stack' = [stack EXCEPT ![Top] = page]
    BY <1>1 DEF GetMoreProducts
  <1>3. page \in Page /\ page.rows = stack[Top].rows /\ page.start = stack[Top].start
    <2>1. <<>> \in Seq(Row) /\ 0 \in Nat
      OBVIOUS
    <2>2. page \in Page
      BY <1>1, <2>1, Pages
    <2> QED BY <1>1, <2>2 DEF Page
  <1> HIDE DEF page
  <1>4. /\ stack' \in Seq(Page) /\ Len(stack') = Len(stack) /\ stack'[Top] = page
        /\ \A d \in 1 .. Len(stack) : d # Top => stack'[d] = stack[d]
    BY <1>1, <1>2, <1>3
  <1>5. Top' = Top /\ stack' # <<>> /\ stack # <<>>
    BY <1>1, <1>4 DEF Top
  <1>6. UNCHANGED <<selected, marked, open, ticked>> /\ ~open /\ ~ticked
    BY DEF GetMoreProducts, filter, Tidy
  <1>7. calls' = <<c>>
    BY OneCall DEF GetMoreProducts, Call
  <1>8. c \in Ours' /\ c.kind = "more"
    BY <1>3, <1>4, <1>5, <1>6 DEF More, Ours
  <1>9. calls' \in Seq(Ours') /\ DOMAIN calls' = {1} /\ calls'[1].kind = "more"
    BY <1>7, <1>8
  <1>10. ~InFlight("first")' /\ ~InFlight("categories")' /\ ~InFlight("first")
    BY <1>9 DEF InFlight
  <1>11. \A d \in 1 .. Top' - 1 : Rows(Nothing, stack'[d])
    BY <1>1, <1>4, <1>5 DEF Tidy
  <1>12. \E q \in Query : Rows(q, stack'[Top']) /\ (ticked' \/ q = selected')
    <2>1. PICK q \in Query : Rows(q, stack[Top]) /\ (ticked \/ q = selected)
      BY <1>5, <1>10 DEF Tidy
    <2>2. Rows(q, stack'[Top'])
      BY <1>3, <1>4, <1>5, <2>1 DEF Rows
    <2> QED BY <1>6, <2>1, <2>2
  <1> QED BY <1>4, <1>5, <1>6, <1>9, <1>10, <1>11, <1>12 DEF Tidy

\* The filter screen: no page changes, and nothing is in flight.
LEMMA OnScreen ==
  ASSUME Tidy, calls = <<>>, UNCHANGED <<stack, calls>>, ticked' => open',
         ticked' \/ (~ticked /\ selected' = selected), stack # <<>>,
         \A k \in Kind : marked'[k] = {selected'[k]} \ {None}
  PROVE  Tidy'
  <1>1. ~InFlight("first") /\ ~InFlight("first")' /\ ~InFlight("categories")'
    BY DEF InFlight
  <1>2. Top' = Top /\ calls' \in Seq(Ours')
    BY DEF Top
  <1>3. PICK q \in Query : Rows(q, stack[Top]) /\ (ticked \/ q = selected)
    BY <1>1 DEF Tidy
  <1>4. Rows(q, stack'[Top']) /\ (ticked' \/ q = selected')
    BY <1>2, <1>3
  <1>5. \A d \in 1 .. Top' - 1 : Rows(Nothing, stack'[d])
    BY <1>2 DEF Tidy
  <1> QED BY <1>1, <1>2, <1>4, <1>5 DEF Tidy

\* An answer changes the top page at most, and is in flight no more.
LEMMA Answering ==
  ASSUME Tidy, NEW n \in DOMAIN calls, calls' = RemoveAt(calls, n),
         UNCHANGED <<open, ticked, selected>>,
         \A k \in Kind : marked'[k] = {selected'[k]} \ {None},
         NEW page \in Page, stack' = [stack EXCEPT ![Top] = page],
         \/ /\ calls[n].kind = "categories"
            /\ page.rows = stack[Top].rows /\ page.start = stack[Top].start
         \/ /\ calls[n].kind # "categories"
            /\ Rows(selected, page),
         selected \in Query
  PROVE  Tidy'
  <1>0. calls # <<>> /\ ~open /\ ~ticked /\ stack # <<>>
    BY DEF Tidy
  <1>1. stack \in Seq(Page) /\ Top = Len(stack) /\ Top \in 1 .. Len(stack) /\ stack[Top] \in Page
    BY <1>0 DEF Tidy, Top
  <1>2. /\ stack' \in Seq(Page) /\ Len(stack') = Len(stack) /\ stack'[Top] = page
        /\ \A d \in 1 .. Len(stack) : d # Top => stack'[d] = stack[d]
    BY <1>1
  <1>3. Top' = Top /\ stack' # <<>>
    <2>1. Len(stack') = Len(stack) /\ Len(stack) # 0
      BY <1>1, <1>2
    <2> QED BY <2>1 DEF Top
  <1>4. \A d \in 1 .. Top' - 1 : Rows(Nothing, stack'[d])
    BY <1>1, <1>2, <1>3 DEF Tidy
  <1>5. calls \in Seq(Ours)
    BY DEF Tidy
  <1>6. /\ calls' \in Seq(Ours)
        /\ \A j \in DOMAIN calls' : \E i \in DOMAIN calls \ {n} : calls'[j] = calls[i]
        /\ \A i \in DOMAIN calls \ {n} : \E j \in DOMAIN calls' : calls'[j] = calls[i]
        /\ \A j, k \in DOMAIN calls' : j # k =>
             \E i, m \in DOMAIN calls : i # m /\ calls'[j] = calls[i] /\ calls'[k] = calls[m]
    BY <1>5, Answer
  <1>7. \A j, k \in DOMAIN calls' :
          calls'[j].kind # "categories" /\ calls'[k].kind # "categories" => j = k
    <2>1. SUFFICES ASSUME NEW j \in DOMAIN calls', NEW k \in DOMAIN calls', j # k,
                          calls'[j].kind # "categories", calls'[k].kind # "categories"
                   PROVE  FALSE
      OBVIOUS
    <2>2. PICK i \in DOMAIN calls, m \in DOMAIN calls :
            i # m /\ calls'[j] = calls[i] /\ calls'[k] = calls[m]
      BY <1>6, <2>1
    <2> QED BY <2>1, <2>2 DEF Tidy
  <1>8. InFlight("categories")' => selected' = Nothing
    BY <1>6 DEF InFlight, Tidy
  <1>9. CASE calls[n].kind = "categories"
    <2>1. page.rows = stack[Top].rows /\ page.start = stack[Top].start
      BY <1>9
    <2>2. Ours' = Ours
      BY <1>2, <1>3, <2>1 DEF More, Ours, First, Categories
    <2>3. InFlight("first")' <=> InFlight("first")
      BY <1>6, <1>9 DEF InFlight
    <2>4. IF InFlight("first")'
          THEN stack'[Top'].rows = <<>> /\ stack'[Top'].start = 0
          ELSE \E q \in Query : Rows(q, stack'[Top']) /\ (ticked' \/ q = selected')
      <3>1. CASE InFlight("first")
        BY <1>0, <1>2, <1>3, <2>1, <2>3, <3>1 DEF Tidy
      <3>2. CASE ~InFlight("first")
        <4>1. PICK q \in Query : Rows(q, stack[Top]) /\ (ticked \/ q = selected)
          BY <1>0, <3>2 DEF Tidy
        <4>2. Rows(q, stack'[Top'])
          BY <1>2, <1>3, <2>1, <4>1 DEF Rows
        <4> QED BY <2>3, <3>2, <4>1, <4>2
      <3> QED BY <3>1, <3>2
    <2> QED BY <1>0, <1>2, <1>3, <1>4, <1>6, <1>7, <1>8, <2>2, <2>4 DEF Tidy
  <1>10. CASE calls[n].kind # "categories"
    <2>1. \A j \in DOMAIN calls' : calls'[j].kind = "categories"
      BY <1>6, <1>10 DEF Tidy
    <2>2. ~InFlight("first")'
      BY <2>1 DEF InFlight
    <2>3. \A j \in DOMAIN calls' : calls'[j] = Categories(Top)
      <3>1. \A j \in DOMAIN calls' : calls'[j] \in Ours
        BY <1>6
      <3> QED BY <2>1, <3>1 DEF Ours, First, More, Categories
    <2>4. calls' \in Seq(Ours')
      <3>1. \A j \in DOMAIN calls' : calls'[j] \in Ours'
        BY <1>3, <2>3 DEF Ours, Categories
      <3> QED BY <1>6, <3>1
    <2>5. Rows(selected', stack'[Top'])
      BY <1>2, <1>3, <1>10
    <2> QED BY <1>0, <1>2, <1>3, <1>4, <1>7, <1>8, <2>2, <2>4, <2>5 DEF Tidy
  <1> QED BY <1>9, <1>10

\* The answers, one by one.
LEMMA Handled ==
  ASSUME Tidy, NEW n \in DOMAIN calls, selected \in Query,
         \/ FirstReply(n) \/ FirstFailed(n) \/ MoreReply(n) \/ MoreFailed(n)
         \/ CategoriesReply(n) \/ CategoriesFailed(n)
  PROVE  Tidy'
  <1>0. calls \in Seq(Ours) /\ calls[n] \in Ours /\ stack # <<>>
    BY DEF Tidy
  <1>1. stack \in Seq(Page) /\ Top \in 1 .. Len(stack) /\ stack[Top] \in Page /\ Top # 0
    BY <1>0 DEF Tidy, Top
  <1>2. stack = [stack EXCEPT ![Top] = stack[Top]]
    BY <1>1
  <1>3. calls[n].depth = Top
    BY <1>0 DEF Ours, Categories, First, More
  <1>4. calls[n].kind = "first" => /\ InFlight("first") /\ calls[n] = First(Top, selected)
                                   /\ stack[Top].rows = <<>> /\ stack[Top].start = 0
    BY <1>0 DEF InFlight, Tidy, Ours, Categories, First, More
  <1>5. calls[n].kind = "more" => /\ calls[n] = More(Top)
                                  /\ Rows(selected, stack[Top])
    <2>1. SUFFICES ASSUME calls[n].kind = "more"
                   PROVE  calls[n] = More(Top) /\ Rows(selected, stack[Top])
      OBVIOUS
    <2>2. calls[n] = More(Top)
      BY <1>0, <2>1 DEF Ours, Categories, First
    <2>3. ~InFlight("first")
      BY <2>1 DEF InFlight, Tidy
    <2>4. ~ticked
      BY DEF Tidy
    <2> QED BY <1>0, <2>2, <2>3, <2>4 DEF Tidy
  <1>6. \A k \in Kind : marked[k] = {selected[k]} \ {None}
    BY DEF Tidy
  <1>7. CASE FirstReply(n)
    <2> DEFINE page == [stack[Top] EXCEPT !.rows = << <<selected, 0>> >>,
                                          !.total = PagesOf[selected],
                                          !.start = stack[Top].start + 1, !.bars = TRUE]
    <2>1. calls[n].kind = "first" /\ calls' = RemoveAt(calls, n) /\ calls[n].query = selected
      BY <1>4, <1>7 DEF FirstReply, Answered, First
    <2>2. stack' = [stack EXCEPT ![Top] = page]
      BY <1>1, <1>3, <1>7, <2>1 DEF FirstReply
    <2>3. PagesOf[selected] \in Nat /\ stack[Top].start + 1 = 1 /\ << <<selected, 0>> >> \in Seq(Row)
      <3>1. PagesOf[selected] \in Nat
        BY ServerAssumption
      <3>2. << <<selected, 0>> >> \in Seq(Row)
        BY FirstRow
      <3>3. stack[Top].start + 1 = 1
        BY <1>4, <2>1
      <3> QED BY <3>1, <3>2, <3>3
    <2>4. page \in Page
      BY <1>1, <2>3, Pages
    <2>5. page.rows = << <<selected, 0>> >> /\ page.start = 1
      BY <1>1, <2>3 DEF Page
    <2> HIDE DEF page
    <2>6. Rows(selected, page)
      BY <2>5, FirstRow DEF Rows
    <2> QED BY <1>6, <1>7, <2>1, <2>2, <2>4, <2>6, Answering DEF FirstReply, Same, filter
  <1>8. CASE FirstFailed(n)
    <2> DEFINE page == [stack[Top] EXCEPT !.rows = None, !.total = None,
                                          !.start = stack[Top].start + 1, !.bars = FALSE]
    <2>1. calls[n].kind = "first" /\ calls' = RemoveAt(calls, n)
      BY <1>8 DEF FirstFailed, Answered
    <2>2. stack' = [stack EXCEPT ![Top] = page]
      BY <1>1, <1>3, <1>8, <2>1 DEF FirstFailed
    <2>3. stack[Top].start + 1 \in Nat
      BY <1>4, <2>1
    <2>4. page \in Page
      BY <1>1, <2>3, Pages
    <2>5. page.rows = None
      BY <1>1 DEF Page
    <2> HIDE DEF page
    <2> QED BY <1>6, <1>8, <2>1, <2>2, <2>4, <2>5, Answering DEF FirstFailed, Same, filter, Rows
  <1>9. CASE MoreReply(n)
    <2>1. calls[n].kind = "more" /\ calls' = RemoveAt(calls, n)
      BY <1>9 DEF MoreReply, Answered
    <2>2. CASE stack[Top].rows = None
      <3>1. stack' = [stack EXCEPT ![Top] = stack[Top]]
        BY <1>2, <1>3, <1>9, <2>2 DEF MoreReply
      <3> QED BY <1>1, <1>5, <1>6, <1>9, <2>1, <3>1, Answering DEF MoreReply, Same, filter
    <2>3. CASE stack[Top].rows # None
      <3> DEFINE s == stack[Top].start
                 rows == [i \in 1 .. s + 1 |-> <<selected, i - 1>>]
                 page == [stack[Top] EXCEPT !.rows = rows, !.start = s + 1, !.isLoading = FALSE]
      <3>1. s \in Nat \ {0} /\ stack[Top].rows = [i \in 1 .. s |-> <<selected, i - 1>>]
        BY <1>1, <1>5, <2>1, <2>3 DEF Rows, Page
      <3>2. calls[n].query = selected /\ calls[n].start = s
        BY <1>5, <2>1 DEF More
      <3>3. Append(stack[Top].rows, <<calls[n].query, calls[n].start>>) = rows
        BY <3>1, <3>2, NextRow
      <3>4. stack' = [stack EXCEPT ![Top] = page]
        BY <1>1, <1>3, <1>9, <2>3, <3>3 DEF MoreReply
      <3>5. rows \in Seq(Row) /\ s + 1 \in Nat
        <4>1. s + 1 \in Nat /\ \A i \in 1 .. s + 1 : <<selected, i - 1>> \in Row
          BY <3>1 DEF Row
        <4> QED BY <4>1
      <3>6. page \in Page
        BY <1>1, <3>5, Pages
      <3>7. page.rows = rows /\ page.start = s + 1
        BY <1>1, <3>5 DEF Page
      <3>8. Rows(selected, page)
        BY <3>1, <3>7 DEF Rows
      <3> HIDE DEF page
      <3> QED BY <1>6, <1>9, <2>1, <3>4, <3>6, <3>8, Answering DEF MoreReply, Same, filter
    <2> QED BY <2>2, <2>3
  <1>10. CASE MoreFailed(n)
    <2>1. calls[n].kind = "more" /\ calls' = RemoveAt(calls, n) /\ stack' = stack
      BY <1>10 DEF MoreFailed, Answered
    <2> QED BY <1>1, <1>2, <1>5, <1>6, <1>10, <2>1, Answering DEF MoreFailed, Same, filter
  <1>11. CASE CategoriesReply(n)
    <2> DEFINE page == [stack[Top] EXCEPT !.subs = TRUE]
    <2>1. calls[n].kind = "categories" /\ calls' = RemoveAt(calls, n)
      BY <1>11 DEF CategoriesReply, Answered
    <2>2. stack' = [stack EXCEPT ![Top] = page]
      BY <1>1, <1>3, <1>11 DEF CategoriesReply
    <2>3. page \in Page
      <3>1. <<>> \in Seq(Row) /\ 0 \in Nat
        OBVIOUS
      <3> QED BY <1>1, <3>1, Pages
    <2>4. page.rows = stack[Top].rows /\ page.start = stack[Top].start
      BY <1>1 DEF Page
    <2>5. selected = Nothing /\ selected' = selected
      BY <1>11, <2>1 DEF Tidy, InFlight, CategoriesReply, InitFilter
    <2>6. \A k \in Kind : marked'[k] = {selected'[k]} \ {None}
      BY <1>6, <1>11, <2>5 DEF CategoriesReply, InitFilter, Nothing
    <2> HIDE DEF page
    <2> QED BY <1>11, <2>1, <2>2, <2>3, <2>4, <2>5, <2>6, Answering DEF CategoriesReply, Same
  <1>12. CASE CategoriesFailed(n)
    <2>1. calls[n].kind = "categories" /\ calls' = RemoveAt(calls, n) /\ stack' = stack
      BY <1>12 DEF CategoriesFailed, Answered
    <2> QED BY <1>1, <1>2, <1>6, <1>12, <2>1, Answering DEF CategoriesFailed, Same, filter
  <1> QED BY <1>7, <1>8, <1>9, <1>10, <1>11, <1>12

\* Every step keeps the order; a step that is not tidy leaves nothing to show.
LEMMA OrderlyStep == Orderly /\ Marks /\ [Next]_vars => Orderly'
  <1> SUFFICES ASSUME Orderly, Marks, [Next]_vars PROVE Orderly'
    OBVIOUS
  <1>0. haste \in Nat /\ selected \in Query /\ (tidy => Tidy)
    BY DEF Orderly
  <1>1. CASE UNCHANGED vars
    BY <1>1 DEF vars, filter, Orderly, Tidy, tidy, Ours, First, More, Categories, InFlight, Top
  <1>2. CASE LeaveRoot
    <2>1. ~ticked' /\ ~open' /\ Fresh'
      BY <1>2 DEF LeaveRoot, Fresh
    <2>2. Fresh' => Orderly'
      BY AtStart, PTL
    <2> QED BY <2>1, <2>2
  <1>3. marked' \in [Kind -> SUBSET (UNION {Entry[k] : k \in Kind})]
    BY MarksStep DEF Marks
  <1> SUFFICES ASSUME ~LeaveRoot, Next
               PROVE  selected' \in Query /\ haste' \in Nat /\ (tidy' => tidy /\ Tidy')
    BY <1>1, <1>2, <1>3 DEF Orderly
  <1>4. selected' \in Query
    <2>1. ASSUME NEW k \in Kind, NEW e \in Entry[k], SelectFilter(k, e) PROVE selected' \in Query
      BY <1>0, <2>1 DEF SelectFilter, Query
    <2>2. ASSUME NEW k \in Kind, TapBarReset(k) PROVE selected' \in Query
      BY <1>0, <2>2 DEF TapBarReset, Query
    <2>3. ASSUME UNCHANGED selected PROVE selected' \in Query
      BY <1>0, <2>3
    <2>4. CASE Reset
      BY <2>4, NothingIsQuery DEF Reset, ResetFilter
    <2>5. ASSUME NEW k \in Kind, NEW e \in Entry[k], Tick(k, e) \/ TapBar(k, e)
          PROVE  selected' \in Query
      BY <2>1, <2>5 DEF Tick, TapBar
    <2>6. CASE OpenRoot \/ OpenSub \/ Back \/ GetMoreProducts \/ OpenFilter \/ Apply \/ Close
      BY <2>3, <2>6
         DEF OpenRoot, OpenSub, Back, GetMoreProducts, OpenFilter, Apply, Close, filter
    <2>7. CASE Server
      BY <2>3, <2>7 DEF Server, FirstReply, FirstFailed, MoreReply, MoreFailed,
                        CategoriesReply, CategoriesFailed, InitFilter, filter
    <2> QED BY <2>2, <2>4, <2>5, <2>6, <2>7 DEF Next, User
  <1>5. haste' \in Nat /\ (tidy' => tidy)
    <2>1. ASSUME UNCHANGED haste PROVE haste' \in Nat /\ (tidy' => tidy)
      BY <1>0, <2>1 DEF tidy
    <2>2. ASSUME NEW isTidy, Step(isTidy) PROVE haste' \in Nat /\ (tidy' => tidy)
      BY <1>0, <2>2 DEF Step, tidy
    <2>3. CASE OpenSub \/ Back
      BY <2>2, <2>3 DEF OpenSub, Back, Leaves
    <2>4. CASE GetMoreProducts \/ OpenFilter \/ Apply \/ Reset
      BY <2>2, <2>4 DEF GetMoreProducts, OpenFilter, Apply, Reset, Waits
    <2>5. CASE Close
      BY <2>2, <2>5 DEF Close, Applies
    <2>6. ASSUME NEW k \in Kind, NEW e \in Entry[k], TapBar(k, e) \/ TapBarReset(k)
          PROVE  haste' \in Nat /\ (tidy' => tidy)
      BY <2>2, <2>6 DEF TapBar, TapBarReset, Waits
    <2>7. ASSUME NEW k \in Kind, TapBarReset(k) PROVE haste' \in Nat /\ (tidy' => tidy)
      BY <2>2, <2>7 DEF TapBarReset, Waits
    <2>8. ASSUME NEW k \in Kind, NEW e \in Entry[k], Tick(k, e)
          PROVE  haste' \in Nat /\ (tidy' => tidy)
      BY <2>1, <2>8 DEF Tick
    <2>9. CASE OpenRoot
      BY <2>1, <2>9 DEF OpenRoot
    <2>10. CASE Server
      BY <2>1, <2>10 DEF Server, FirstReply, FirstFailed, MoreReply, MoreFailed,
                         CategoriesReply, CategoriesFailed, Same
    <2> QED BY <2>3, <2>4, <2>5, <2>6, <2>7, <2>8, <2>9, <2>10 DEF Next, User
  <1>6. ASSUME tidy' PROVE Tidy'
    <2>1. Tidy /\ haste = 0 /\ haste' = 0
      BY <1>0, <1>5, <1>6 DEF tidy
    <2>2. \A k \in Kind : marked[k] = {selected[k]} \ {None}
      BY <2>1 DEF Tidy
    <2>3. ASSUME NEW isTidy, Step(isTidy) PROVE isTidy
      BY <2>1, <2>3 DEF Step
    <2>4. ASSUME Waits PROVE calls = <<>>
      BY <2>3, <2>4 DEF Waits
    <2>5. ASSUME Leaves PROVE calls = <<>> /\ selected = Nothing
      BY <2>3, <2>5 DEF Leaves
    <2>6. ASSUME NEW k \in Kind, NEW e \in Entry[k], SelectFilter(k, e)
          PROVE  \A l \in Kind : marked'[l] = {selected'[l]} \ {None}
      BY <1>0, <2>2, <2>6, EntryAssumption DEF SelectFilter, Query, Orderly
    <2>7. CASE OpenRoot
      BY <2>1, <2>7, Opening DEF OpenRoot, Tidy
    <2>8. CASE OpenSub
      BY <2>1, <2>5, <2>8, Opening DEF OpenSub
    <2>9. CASE Back
      BY <2>1, <2>5, <2>9, Return DEF Back
    <2>10. CASE GetMoreProducts
      BY <2>1, <2>4, <2>10, LoadingMore DEF GetMoreProducts
    <2>11. CASE OpenFilter
      BY <2>1, <2>2, <2>4, <2>11, OnScreen DEF OpenFilter, filter, Tidy
    <2>12. CASE Close
      BY <2>1, <2>2, <2>3, <2>12, OnScreen DEF Close, Applies, filter, Tidy
    <2>13. CASE Apply
      BY <2>1, <2>2, <2>4, <2>13, Reload DEF Apply, filter, Tidy
    <2>14. CASE Reset
      BY <2>1, <2>4, <2>14, Reload DEF Reset, ResetFilter, Nothing, Unmarked, Tidy
    <2>15. ASSUME NEW k \in Kind, NEW e \in Entry[k], Tick(k, e) PROVE Tidy'
      BY <2>1, <2>6, <2>15, OnScreen DEF Tick, Tidy
    <2>16. ASSUME NEW k \in Kind, NEW e \in Entry[k], TapBar(k, e) PROVE Tidy'
      BY <2>1, <2>4, <2>6, <2>16, Reload DEF TapBar, Bars, Tidy
    <2>17. ASSUME NEW k \in Kind, TapBarReset(k) PROVE Tidy'
      <3>1. \A l \in Kind : marked'[l] = {selected'[l]} \ {None}
        BY <1>0, <2>2, <2>17 DEF TapBarReset, Query, Orderly
      <3> QED BY <2>1, <2>4, <2>17, <3>1, Reload DEF TapBarReset, Bars, Tidy
    <2>18. CASE Server
      BY <1>0, <2>1, <2>18, Handled DEF Server
    <2> QED BY <2>7, <2>8, <2>9, <2>10, <2>11, <2>12, <2>13, <2>14, <2>15, <2>16, <2>17, <2>18
            DEF Next, User
  <1> QED BY <1>4, <1>5, <1>6

\* What the order gives.
LEMMA OrderlyGood == Orderly => ListOfOneQuery /\ ShownAsMarked
  <1> SUFFICES ASSUME Orderly, tidy PROVE ListOfOneQuery /\ ShownAsMarked
    BY DEF ListOfOneQuery, ShownAsMarked
  <1>1. Tidy /\ stack \in Seq(Page) /\ Top = Len(stack)
    BY DEF Orderly, Tidy, Top
  <1>2. ASSUME NEW q \in Query, NEW page \in Page, Rows(q, page), page.rows # None
        PROVE  /\ page.rows = [n \in DOMAIN page.rows |-> <<q, n - 1>>]
               /\ page.rows[1][1] = q
    BY <1>2 DEF Rows, Page
  <1>3. ASSUME NEW d \in DOMAIN stack, stack[d].rows \notin {None, <<>>}
        PROVE  \E q \in Query : Rows(q, stack[d]) /\ stack[d] \in Page
    <2>1. CASE d < Top
      BY <1>1, <2>1, NothingIsQuery DEF Tidy
    <2>2. CASE d = Top
      BY <1>1, <1>3, <2>2 DEF Tidy
    <2> QED BY <1>1, <2>1, <2>2
  <1>4. ListOfOneQuery
    BY <1>2, <1>3 DEF ListOfOneQuery
  <1>5. ASSUME stack # <<>>, ~open, calls = <<>>, stack[Top].rows # None
        PROVE  stack[Top].rows[1][1] = selected
    <2>1. ~InFlight("first") /\ ~ticked
      BY <1>1, <1>5 DEF InFlight, Tidy
    <2>2. Rows(selected, stack[Top]) /\ selected \in Query
      BY <1>1, <1>5, <2>1 DEF Tidy, Orderly
    <2>3. stack[Top] \in Page
      BY <1>1, <1>5
    <2> QED BY <1>2, <1>5, <2>2, <2>3
  <1> QED BY <1>1, <1>4, <1>5 DEF ShownAsMarked, Tidy

\* For a tidy user the products on each page are the first ones of a single query
\* without gap or repetition, however initData and getMoreProducts of
\* products_page.dart are interleaved with answers, errors and pages.
THEOREM PagesAreOfOneQuery == Spec => []ListOfOneQuery
  <1>1. Init => Orderly /\ Marks
    BY AtStart, MarksInit DEF Init, Fresh
  <1> QED BY <1>1, MarksStep, OrderlyStep, OrderlyGood, PTL DEF Spec

\* When nothing is in flight a tidy user sees the products of the marked entries:
\* what selectFilter, resetFilter and initFilter of filter_contoller.dart leave
\* is what the page on top was loaded with.
THEOREM PagesShowTheMarked == Spec => []ShownAsMarked
  <1>1. Init => Orderly /\ Marks
    BY AtStart, MarksInit DEF Init, Fresh
  <1> QED BY <1>1, MarksStep, OrderlyStep, OrderlyGood, PTL DEF Spec
=============================================================================
