--------------------------- MODULE PagedListProofs ---------------------------
(***************************************************************************)
(* Proofs about the lists that load page by page: their types, and that    *)
(* the list of a careful user is the first rows of what was asked for, as  *)
(* far as the copies of the controller promise it.  With a single request  *)
(* in flight a page begins where the list ends; rows change at the server  *)
(* only while a heart is in flight, after which nothing is promised.       *)
(***************************************************************************)
EXTENDS PagedList, SequenceTheorems, TLAPS

-----------------------------------------------------------------------------
(* The rows of the server                                                    *)
Prefix(q, i) == SubSeq(rows[q], 1, Cap(q, i))

LEMMA CapType ==
  ASSUME NEW q \in Question, NEW i \in Nat, rows \in [Question -> Seq(Row)]
  PROVE  /\ rows[q] \in Seq(Row) /\ Len(rows[q]) \in Nat
         /\ Cap(q, i) \in 0 .. Len(rows[q])
<1>1. rows[q] \in Seq(Row) OBVIOUS
<1>2. Len(rows[q]) \in Nat BY <1>1, LenProperties
<1> QED BY <1>1, <1>2 DEF Cap

\* A page is a list of rows.
LEMMA PageType ==
  ASSUME NEW q \in Question, NEW i \in Nat, rows \in [Question -> Seq(Row)]
  PROVE  Page(q, i) \in Seq(Row)
<1>1. i + ItemsPerPage \in Nat BY PageAssumption
<1>2. Cap(q, i + ItemsPerPage) \in 0 .. Len(rows[q]) BY <1>1, CapType
<1>3. \A k \in (i + 1) .. Cap(q, i + ItemsPerPage) : rows[q][k] \in Row
  <2>1. rows[q] \in Seq(Row) /\ Len(rows[q]) \in Nat BY CapType
  <2>2. \A k \in 1 .. Len(rows[q]) : rows[q][k] \in Row BY <2>1, ElementOfSeq
  <2> QED BY <1>2, <2>1, <2>2
<1>4. i + 1 \in Int /\ Cap(q, i + ItemsPerPage) \in Int BY <1>2, CapType
<1> QED BY <1>3, <1>4, SubSeqProperties DEF Page

\* A page that begins where the first rows end makes them longer by a page.
LEMMA PagesJoin ==
  ASSUME NEW q \in Question, NEW i \in Nat, rows \in [Question -> Seq(Row)]
  PROVE  Prefix(q, i) \o Page(q, i) = Prefix(q, i + ItemsPerPage)
<1> DEFINE j == i + ItemsPerPage
<1>1. j \in Nat /\ i < j BY PageAssumption
<1>2. rows[q] \in Seq(Row) /\ Len(rows[q]) \in Nat BY CapType
<1>3. CASE i < Len(rows[q])
  <2>1. Cap(q, i) = i BY <1>3 DEF Cap
  <2>2. Cap(q, j) \in i .. Len(rows[q]) BY <1>1, <1>2, <1>3 DEF Cap
  <2>3. 1 \in 1 .. Len(rows[q]) + 1 /\ i \in 1 - 1 .. Len(rows[q]) BY <1>2, <1>3
  <2>4. SubSeq(rows[q], 1, i) \o SubSeq(rows[q], i + 1, Cap(q, j)) = SubSeq(rows[q], 1, Cap(q, j))
    BY <1>2, <2>2, <2>3, ConcatAdjacentSubSeq
  <2> QED BY <2>1, <2>4 DEF Prefix, Page
<1>4. CASE ~(i < Len(rows[q]))
  <2>1. Cap(q, i) = Len(rows[q]) /\ Cap(q, j) = Len(rows[q])
    BY <1>1, <1>2, <1>4 DEF Cap
  <2>2. Page(q, i) = <<>>
    <3>1. i + 1 \in Int /\ Cap(q, j) \in Int /\ Cap(q, j) < i + 1 BY <1>2, <1>4, <2>1
    <3> QED BY <3>1, SubSeqEmpty DEF Page
  <2>3. Prefix(q, i) = rows[q] /\ Prefix(q, j) = rows[q]
    BY <1>2, <2>1, SubSeqFull DEF Prefix
  <2> QED BY <1>2, <2>2, <2>3, ConcatEmptySeq
<1> QED BY <1>3, <1>4

LEMMA NoPrefix ==
  ASSUME NEW q \in Question, rows \in [Question -> Seq(Row)]
  PROVE  Prefix(q, 0) = <<>>
<1>1. Cap(q, 0) = 0 BY CapType DEF Cap
<1> QED BY <1>1, SubSeqEmpty DEF Prefix

LEMMA FirstPage ==
  ASSUME NEW q \in Question, rows \in [Question -> Seq(Row)]
  PROVE  /\ Page(q, 0) = Prefix(q, ItemsPerPage)
         /\ <<>> \o Page(q, 0) = Page(q, 0)
<1>1. 0 + ItemsPerPage = ItemsPerPage BY PageAssumption
<1>2. Page(q, 0) \in Seq(Row) BY PageType
<1>3. <<>> \o Page(q, 0) = Page(q, 0) BY <1>2, ConcatEmptySeq
<1> QED BY <1>1, <1>3, PagesJoin, NoPrefix

\* A heart leaves lists of rows.
LEMMA ToggleType ==
  ASSUME NEW some \in Seq(Row), NEW r \in Row
  PROVE  Toggle(some, r) \in Seq(Row)
<1>1. CASE \E i \in DOMAIN some : some[i] = r
  <2> DEFINE i == CHOOSE k \in DOMAIN some : some[k] = r
  <2>1. i \in DOMAIN some BY <1>1
  <2>2. Len(some) \in Nat /\ DOMAIN some = 1 .. Len(some) BY LenProperties
  <2>3. \A k \in 1 .. Len(some) : some[k] \in Row BY ElementOfSeq
  <2> HIDE DEF i
  <2>4. SubSeq(some, 1, i - 1) \in Seq(Row)
    <3>1. i - 1 \in Int /\ \A k \in 1 .. i - 1 : some[k] \in Row BY <2>1, <2>2, <2>3
    <3> QED BY <3>1, SubSeqProperties
  <2>5. SubSeq(some, i + 1, Len(some)) \in Seq(Row)
    <3>1. i + 1 \in Int /\ \A k \in i + 1 .. Len(some) : some[k] \in Row BY <2>1, <2>2, <2>3
    <3> QED BY <2>2, <3>1, SubSeqProperties
  <2>6. Toggle(some, r) = SubSeq(some, 1, i - 1) \o SubSeq(some, i + 1, Len(some))
    BY <1>1 DEF Toggle, i
  <2> QED BY <2>4, <2>5, <2>6, ConcatProperties
<1>2. CASE ~\E i \in DOMAIN some : some[i] = r
  BY <1>2, AppendProperties DEF Toggle
<1> QED BY <1>1, <1>2

-----------------------------------------------------------------------------
(* Types                                                                     *)
LEMMA RequestType ==
  ASSUME NEW kind \in {"none", "first", "more", "heart"}, NEW q \in Question, NEW from \in Nat,
         NEW some \in Seq(Row)
  PROVE  Request(kind, q, from, some) \in CallType
BY DEF Request, CallType

LEMMA AskType ==
  /\ \A q \in Query, l \in Lang : Ask(q, l) \in Question
  /\ lang \in Lang => FirstLang \in Lang
BY LangAssumption DEF Ask, Question, FirstLang

LEMMA AnsweredType ==
  ASSUME NEW c \in CallType, NEW status \in {"sent", "done", "lost"}, NEW some \in Seq(Row),
         NEW total \in Nat
  PROVE  Answered(c, status, some, total) \in CallType
BY DEF Answered, CallType

LEMMA NoCallType == NoCall \in CallType /\ NoCall.kind = "none"
<1>1. <<>> \in Seq(Row) /\ NoQuery \in Query BY EmptySeq, QueryAssumption
<1>2. NoCall \in CallType BY <1>1, LangAssumption, AskType, RequestType DEF NoCall
<1> QED BY <1>2 DEF NoCall, Request

\* What the proofs use of the copies.
LEMMA CopyFacts ==
  ASSUME NEW c \in Copies
  PROVE  /\ c \in Policy
         /\ c.oneFlag => c.firstEnds /\ c.clearsFirst
<1>1. Orders \in Policy /\ ~Orders.oneFlag BY DEF Policy, Orders
<1>2. VendorsAreas \in Policy /\ ~VendorsAreas.oneFlag BY <1>1 DEF Policy, VendorsAreas
<1>3. Vendors \in Policy /\ ~Vendors.oneFlag BY <1>2 DEF Policy, Vendors
<1>4. VendorSearch \in Policy /\ ~VendorSearch.oneFlag BY <1>3 DEF Policy, VendorSearch
<1>5. Search \in Policy /\ Search.firstEnds /\ Search.clearsFirst BY DEF Policy, Search
<1>6. Favorites \in Policy /\ ~Favorites.oneFlag BY <1>1 DEF Policy, Favorites
<1> QED BY <1>1, <1>2, <1>3, <1>4, <1>5, <1>6 DEF Copies

LEMMA TypesAtStart == Init => TypeOK
<1> SUFFICES ASSUME Init PROVE TypeOK OBVIOUS
<1>1. <<>> \in Seq(Row) BY EmptySeq
<1>2. lang \in Lang /\ asked \in Question BY QueryAssumption, AskType DEF Init
<1>3. calls \in [Slots -> CallType] BY <1>1, <1>2, NoCallType, RequestType DEF Init
<1>4. flags \in [{"first", "more"} -> BOOLEAN]
  BY CopyFacts DEF Init, Policy
<1>5. startIndex \in Nat /\ totalCount \in Nat /\ moves \in 0 .. MaxMoves
  BY BoundAssumption DEF Init
<1>6. copy \in Copies /\ query \in Query \ Code /\ rows \in [Question -> Seq(Row)]
  BY QueryAssumption, RowsAssumption DEF Init
<1>7. careful \in BOOLEAN /\ lost \in BOOLEAN /\ touched \in BOOLEAN /\ list = <<>> BY DEF Init
<1> QED BY <1>1, <1>2, <1>3, <1>4, <1>5, <1>6, <1>7 DEF TypeOK

\* A heart on its way bears a row.
HeartsBear ==
  \A s \in Slots : calls[s].kind = "heart" /\ calls[s].status = "sent" => calls[s].rows[1] \in Row

LEMMA HeartsKept == TypeOK /\ HeartsBear /\ [Next]_vars => HeartsBear'
<1> SUFFICES ASSUME TypeOK, HeartsBear, [Next]_vars PROVE HeartsBear' OBVIOUS
<1>t. calls \in [Slots -> CallType] /\ list \in Seq(Row) BY DEF TypeOK
<1>n. NoCall.kind = "none" BY NoCallType
<1>1. ASSUME NEW c, Call(c), c.kind = "heart" => c.rows[1] \in Row
      PROVE  HeartsBear'
  <2>1. PICK s \in Slots : calls' = [calls EXCEPT ![s] = c] BY <1>1 DEF Call
  <2>2. \A k \in Slots : calls'[k] = IF k = s THEN c ELSE calls[k] BY <2>1, <1>t
  <2> QED BY <1>1, <2>2 DEF HeartsBear
<1>2. ASSUME NEW text, NEW q, AskFirst(text, q) PROVE HeartsBear'
  <2>1. Call(Request("first", asked', 0, <<>>)) BY <1>2 DEF AskFirst
  <2> QED BY <1>1, <2>1 DEF Request
<1>3. ASSUME GetMore PROVE HeartsBear'
  <2>1. \E q : Call(Request("more", q, startIndex, <<>>)) BY <1>3 DEF GetMore
  <2> QED BY <1>1, <2>1 DEF Request
<1>4. ASSUME NEW i \in DOMAIN list, Heart(list[i]) PROVE HeartsBear'
  <2>1. Call(Request("heart", asked, 0, <<list[i]>>)) BY <1>4 DEF Heart
  <2>2. list[i] \in Row BY <1>t, ElementOfSeq, LenProperties
  <2>3. Request("heart", asked, 0, <<list[i]>>).rows[1] = list[i] BY DEF Request
  <2> QED BY <1>1, <2>1, <2>2, <2>3
<1>5. ASSUME NEW s \in Slots, Answer(s) \/ Lose(s) PROVE HeartsBear'
  <2>1. calls[s] \in CallType BY <1>t
  <2>2. \E c : calls' = [calls EXCEPT ![s] = c] /\ c.status # "sent"
    <3>1. CASE Serve(s)
      <4> DEFINE c == Answered(calls[s], "done", Page(calls[s].question, calls[s].from), Len(rows[calls[s].question]))
      <4>1. calls' = [calls EXCEPT ![s] = c] BY <3>1 DEF Serve
      <4>2. c.status = "done" BY <2>1 DEF Answered, CallType
      <4> QED BY <4>1, <4>2
    <3>2. CASE ServeHeart(s)
      <4>1. [calls[s] EXCEPT !.status = "done"].status = "done" BY <2>1 DEF CallType
      <4>2. calls' = [calls EXCEPT ![s] = [calls[s] EXCEPT !.status = "done"]] BY <3>2 DEF ServeHeart
      <4> QED BY <4>1, <4>2
    <3>3. CASE Lose(s)
      <4>1. Answered(calls[s], "lost", <<>>, 0).status = "lost" BY <2>1 DEF Answered, CallType
      <4> QED BY <3>3, <4>1 DEF Lose
    <3> QED BY <1>5, <3>1, <3>2, <3>3 DEF Answer
  <2>3. \A k \in Slots : k # s => calls'[k] = calls[k] BY <2>2, <1>t
  <2>4. calls'[s].status # "sent" BY <2>2, <1>t
  <2> QED BY <2>3, <2>4 DEF HeartsBear
<1>6. ASSUME NEW s \in Slots, Reply(s) PROVE HeartsBear'
  <2>1. Free(s)
    BY <1>6 DEF Reply, FirstReply, FirstFailed, MoreReply, MoreFailed, HeartReply
  <2>2. \A k \in Slots : calls'[k] = IF k = s THEN NoCall ELSE calls[k] BY <2>1, <1>t DEF Free
  <2> QED BY <2>2, <1>n DEF HeartsBear
<1>7. ASSUME NEW q, Type(q) PROVE HeartsBear'
  BY <1>7 DEF Type, HeartsBear
<1>8. CASE UNCHANGED vars
  BY <1>8 DEF vars, HeartsBear
<1> QED BY <1>2, <1>3, <1>4, <1>5, <1>6, <1>7, <1>8 DEF Next, GetFirst, Scan

LEMMA TypesKept == TypeOK /\ HeartsBear /\ [Next]_vars => TypeOK'
<1> SUFFICES ASSUME TypeOK, HeartsBear, [Next]_vars PROVE TypeOK' OBVIOUS
<1> USE DEF TypeOK
<1>p. copy \in Policy BY CopyFacts
<1>0. ASSUME NEW kind \in {"first", "more"}
      PROVE  /\ Raise(kind) => flags' \in [{"first", "more"} -> BOOLEAN]
             /\ Lower(kind) => flags' \in [{"first", "more"} -> BOOLEAN]
  BY DEF Raise, Lower
<1>m. ASSUME Move
      PROVE  moves' \in 0 .. MaxMoves /\ copy' = copy /\ lang' = lang /\ rows' = rows /\ lost' = lost
  BY <1>m, BoundAssumption DEF Move
<1>f. ASSUME NEW s \in Slots, Free(s) PROVE calls' \in [Slots -> CallType]
  BY <1>f, NoCallType DEF Free
<1>e. <<>> \in Seq(Row) /\ NoQuery \in Query \ Code BY EmptySeq, QueryAssumption
<1>c. ASSUME NEW s \in Slots
      PROVE  /\ calls[s] \in CallType
             /\ calls[s].rows \in Seq(Row) /\ calls[s].total \in Nat
             /\ calls[s].question \in Question /\ calls[s].from \in Nat
             /\ startIndex + ItemsPerPage \in Nat
             /\ list \o calls[s].rows \in Seq(Row)
  <2>1. calls[s] \in CallType OBVIOUS
  <2>2. /\ calls[s].rows \in Seq(Row) /\ calls[s].question \in Question /\ calls[s].from \in Nat
        /\ calls[s].total \in Nat
    BY <2>1 DEF CallType
  <2> QED BY <2>1, <2>2, PageAssumption, ConcatProperties
<1>1. ASSUME NEW q \in Query \ Code, Type(q) PROVE TypeOK'
  BY <1>1, <1>m DEF Type
<1>2. ASSUME NEW text \in Query \ Code, NEW q \in Query, AskFirst(text, q) PROVE TypeOK'
  <2>1. asked' \in Question BY <1>2, AskType DEF AskFirst
  <2>0. Request("first", asked', 0, <<>>) \in CallType BY <1>e, <2>1, RequestType
  <2>2. calls' \in [Slots -> CallType] BY <1>2, <2>0 DEF AskFirst, Call
  <2>3. list' \in Seq(Row) BY <1>2, <1>e DEF AskFirst
  <2>4. careful' \in BOOLEAN /\ touched' \in BOOLEAN BY <1>2 DEF AskFirst
  <2> QED BY <1>0, <1>2, <1>m, <2>1, <2>2, <2>3, <2>4 DEF AskFirst
<1>3. ASSUME GetMore PROVE TypeOK'
  <2> DEFINE q == Ask(IF copy.keepsQuery THEN query ELSE NoQuery, lang)
  <2>1. q \in Question BY <1>e, AskType
  <2>0. Request("more", q, startIndex, <<>>) \in CallType BY <1>e, <2>1, RequestType
  <2>2. calls' \in [Slots -> CallType] BY <1>3, <2>0 DEF GetMore, Call
  <2>3. careful' \in BOOLEAN BY <1>3 DEF GetMore
  <2> QED BY <1>0, <1>3, <1>m, <2>2, <2>3 DEF GetMore
<1>4. ASSUME NEW i \in DOMAIN list, Heart(list[i]) PROVE TypeOK'
  <2>1. list[i] \in Row BY ElementOfSeq, LenProperties
  <2>2. <<list[i]>> \in Seq(Row) BY <2>1
  <2>0. Request("heart", asked, 0, <<list[i]>>) \in CallType BY <2>2, RequestType
  <2>3. calls' \in [Slots -> CallType] BY <1>4, <2>0 DEF Heart, Call
  <2>4. careful' \in BOOLEAN /\ touched' \in BOOLEAN BY <1>4 DEF Heart
  <2> QED BY <1>4, <1>m, <2>3, <2>4 DEF Heart
<1>5. ASSUME NEW s \in Slots, Serve(s) PROVE TypeOK'
  <2> DEFINE page == Page(calls[s].question, calls[s].from)
  <2> DEFINE total == Len(rows[calls[s].question])
  <2>1. page \in Seq(Row) /\ total \in Nat BY <1>c, PageType, CapType
  <2>2. Answered(calls[s], "done", page, total) \in CallType BY <1>c, <2>1, AnsweredType
  <2>3. calls' = [calls EXCEPT ![s] = Answered(calls[s], "done", page, total)] BY <1>5 DEF Serve
  <2>4. calls' \in [Slots -> CallType] BY <2>2, <2>3
  <2> QED BY <1>5, <2>4 DEF Serve, Stay
<1>6. ASSUME NEW s \in Slots, ServeHeart(s) PROVE TypeOK'
  <2>1. calls[s].rows[1] \in Row BY <1>6 DEF ServeHeart, Replied, HeartsBear
  <2>2. \A question \in Question : Toggle(rows[question], calls[s].rows[1]) \in Seq(Row)
    BY <2>1, ToggleType
  <2>3. rows' \in [Question -> Seq(Row)] BY <1>6, <2>2 DEF ServeHeart
  <2>4. [calls[s] EXCEPT !.status = "done"] \in CallType BY <1>c DEF CallType
  <2>5. calls' = [calls EXCEPT ![s] = [calls[s] EXCEPT !.status = "done"]] BY <1>6 DEF ServeHeart
  <2>6. calls' \in [Slots -> CallType] BY <2>4, <2>5
  <2> QED BY <1>6, <2>3, <2>6 DEF ServeHeart, Stay
<1>7. ASSUME NEW s \in Slots, Lose(s) PROVE TypeOK'
  <2>1. Answered(calls[s], "lost", <<>>, 0) \in CallType BY <1>c, <1>e, AnsweredType
  <2> QED BY <1>7, <2>1 DEF Lose, Stay
<1>8. ASSUME NEW s \in Slots, FirstReply(s) PROVE TypeOK'
  BY <1>8, <1>0, <1>c, <1>f DEF FirstReply, Stay
<1>9. ASSUME NEW s \in Slots, FirstFailed(s) PROVE TypeOK'
  <2>1. list' \in Seq(Row) BY <1>9, <1>e DEF FirstFailed
  <2> QED BY <1>9, <1>0, <1>f, <2>1 DEF FirstFailed, Stay
<1>10. ASSUME NEW s \in Slots, MoreReply(s) PROVE TypeOK'
  BY <1>10, <1>0, <1>c, <1>f DEF MoreReply, Stay
<1>11. ASSUME NEW s \in Slots, MoreFailed(s) PROVE TypeOK'
  BY <1>11, <1>0, <1>f DEF MoreFailed, Stay
<1>12. ASSUME NEW s \in Slots, HeartReply(s) PROVE TypeOK'
  BY <1>12, <1>f DEF HeartReply, Stay
<1>13. CASE UNCHANGED vars
  BY <1>13 DEF vars
<1> QED BY <1>1, <1>2, <1>3, <1>4, <1>5, <1>6, <1>7, <1>8, <1>9, <1>10, <1>11, <1>12, <1>13, <1>e, QueryAssumption
  DEF Next, Answer, Reply, GetFirst, Scan

\* The variables keep their types, whichever copy of the controller it is and
\* however hasty its user.
THEOREM TypesCorrect == Spec => []TypeOK
<1>1. Init => HeartsBear
  <2> SUFFICES ASSUME Init PROVE HeartsBear OBVIOUS
  <2>1. \A s \in Slots : calls[s] = NoCall \/ calls[s] = Request("first", asked, 0, <<>>) BY DEF Init
  <2>2. \A s \in Slots : calls[s].kind # "heart" BY <2>1, NoCallType DEF Request
  <2> QED BY <2>2 DEF HeartsBear
<1> QED BY <1>1, TypesAtStart, TypesKept, HeartsKept, PTL DEF Spec

-----------------------------------------------------------------------------
(* The list of a careful user                                                *)
\* A request for the first page: the list waits for it.
FirstOK(c) ==
  /\ c.kind = "first" /\ c.question = asked /\ c.from = 0 /\ startIndex = 0
  /\ flags["first"]
  /\ copy.clearsFirst => list = <<>>

\* A request for a next page: it begins where the list ends, a page at least from the
\* beginning if nothing has failed.
MoreOK(c) ==
  /\ c.kind = "more" /\ c.from = startIndex
  /\ SameQuestion => c.question = asked
  /\ lost \/ startIndex >= ItemsPerPage

\* A heart: the list is no longer promised.
HeartOK(c) == c.kind = "heart" /\ touched

\* What the server sends, and that an error is remembered.
AnswerOK(c) ==
  /\ c.status = "done" /\ c.kind # "heart" => c.rows = Page(c.question, c.from)
  /\ c.status = "lost" => lost

CallOK(c) == c = NoCall \/ (AnswerOK(c) /\ (FirstOK(c) \/ MoreOK(c) \/ HeartOK(c)))

Single == \A r, s \in Slots : calls[r] # NoCall /\ calls[s] # NoCall => r = s

FirstInFlight == \E s \in Slots : calls[s].kind = "first"

ListOK == Promised /\ ~FirstInFlight /\ (copy.oneFlag \/ ~flags["first"])
            => list = Prefix(asked, startIndex)

\* A next page is asked for only once there is a first one.
IndexOK == lost \/ FirstInFlight \/ startIndex >= ItemsPerPage \/ totalCount = 0

Sound == Single /\ (\A s \in Slots : CallOK(calls[s])) /\ ListOK /\ IndexOK
Careful == careful => Sound

LEMMA CarefulAtStart == Init => Careful
<1> SUFFICES ASSUME Init PROVE Careful OBVIOUS
<1>1. TypeOK BY TypesAtStart
<1>2. Single BY DEF Init, Single
<1>3. ASSUME NEW s \in Slots PROVE CallOK(calls[s])
  <2>1. CASE calls[s] = NoCall BY <2>1 DEF CallOK
  <2>2. CASE calls[s] # NoCall
    <3>1. calls[s] = Request("first", asked, 0, <<>>) /\ copy.loadsAtStart BY <2>2 DEF Init
    <3> QED BY <3>1 DEF Init, CallOK, FirstOK, AnswerOK, Request
  <2> QED BY <2>1, <2>2
<1>4. ListOK
  <2>1. list = Prefix(asked, startIndex) BY <1>1, NoPrefix DEF Init, TypeOK
  <2> QED BY <2>1 DEF ListOK
<1>5. IndexOK BY DEF Init, IndexOK
<1> QED BY <1>2, <1>3, <1>4, <1>5 DEF Careful, Sound

\* A request of the user who waited is the only one.
LEMMA OneRequest ==
  ASSUME TypeOK, Quiet, NEW c \in CallType, c # NoCall, Call(c)
  PROVE  /\ Single'
         /\ \E r \in Slots : \A s \in Slots : calls'[s] = IF s = r THEN c ELSE NoCall
<1>1. PICK r \in Slots : calls' = [calls EXCEPT ![r] = c] BY DEF Call
<1>2. \A s \in Slots : calls'[s] = IF s = r THEN c ELSE NoCall BY <1>1 DEF Quiet, TypeOK
<1> QED BY <1>2 DEF Single

LEMMA FirstAsked ==
  ASSUME TypeOK, Careful, NEW text, NEW q \in Query, AskFirst(text, q), careful'
  PROVE  Sound'
<1> DEFINE c == Request("first", asked', 0, <<>>)
<1>1. Quiet /\ Call(c) BY DEF AskFirst
<1>2. asked' \in Question BY AskType DEF AskFirst, TypeOK
<1>3. c \in CallType /\ c # NoCall
  <2>1. c \in CallType BY <1>2, EmptySeq, RequestType
  <2>2. c.kind = "first" BY DEF Request
  <2> QED BY <2>1, <2>2, NoCallType
<1>4. Single' BY <1>1, <1>3, OneRequest
<1>5. PICK r \in Slots : \A s \in Slots : calls'[s] = IF s = r THEN c ELSE NoCall 
  BY <1>1, <1>3, OneRequest
<1>6. flags'["first"] BY DEF AskFirst, Raise, Flag, TypeOK
<1>7. FirstOK(calls[r])' /\ AnswerOK(calls[r])'
  <2>1. /\ calls'[r].kind = "first" /\ calls'[r].question = asked' /\ calls'[r].from = 0
        /\ calls'[r].status = "sent"
    BY <1>5 DEF Request
  <2>2. startIndex' = 0 /\ copy' = copy /\ (copy.clearsFirst => list' = <<>>) BY DEF AskFirst, Move
  <2> QED BY <1>6, <2>1, <2>2 DEF FirstOK, AnswerOK
<1>8. FirstInFlight' BY <1>7 DEF FirstInFlight, FirstOK
<1>9. \A s \in Slots : CallOK(calls[s])' BY <1>5, <1>7 DEF CallOK
<1> QED BY <1>4, <1>8, <1>9 DEF Sound, ListOK, IndexOK

LEMMA MoreAsked ==
  ASSUME TypeOK, Careful, GetMore, careful'
  PROVE  Sound'
<1> DEFINE q == Ask(IF copy.keepsQuery THEN query ELSE NoQuery, lang)
           c == Request("more", q, startIndex, <<>>)
<1>1. careful /\ Quiet /\ query = TextOf(asked) /\ Call(c) BY DEF GetMore
<1>2. q \in Question BY QueryAssumption, AskType DEF TypeOK
<1>3. c \in CallType /\ c # NoCall
  <2>1. c \in CallType BY <1>2, EmptySeq, RequestType DEF TypeOK
  <2>2. c.kind = "more" BY DEF Request
  <2> QED BY <2>1, <2>2, NoCallType
<1>4. Single' BY <1>1, <1>3, OneRequest
<1>5. PICK r \in Slots : \A s \in Slots : calls'[s] = IF s = r THEN c ELSE NoCall
  BY <1>1, <1>3, OneRequest
<1>6. /\ UNCHANGED <<list, startIndex, totalCount, asked, copy, lang, rows, lost, touched>>
      /\ Promised' = Promised /\ SameQuestion' = SameQuestion
  BY DEF GetMore, Move, Promised, SameQuestion
<1>7. ~FirstInFlight BY <1>1, NoCallType DEF Quiet, FirstInFlight
<1>8. lost \/ startIndex >= ItemsPerPage
  <2>1. startIndex < totalCount /\ startIndex \in Nat BY DEF GetMore, TypeOK
  <2> QED BY <1>1, <1>7, <2>1 DEF Careful, Sound, IndexOK
<1>9. SameQuestion => q = asked
  <2>1. SameQuestion => asked.query = IF copy.keepsQuery THEN query ELSE NoQuery
    BY <1>1 DEF SameQuestion, TextOf
  <2>2. asked = Ask(asked.query, asked.lang) BY DEF Ask, Question, TypeOK
  <2> QED BY <2>1, <2>2 DEF SameQuestion
<1>10. MoreOK(calls[r])' /\ AnswerOK(calls[r])'
  <2>1. /\ calls'[r].kind = "more" /\ calls'[r].question = q /\ calls'[r].from = startIndex
        /\ calls'[r].status = "sent"
    BY <1>5 DEF Request
  <2> HIDE DEF c, q
  <2> QED BY <1>6, <1>8, <1>9, <2>1 DEF MoreOK, AnswerOK
<1>11. \A s \in Slots : CallOK(calls[s])' BY <1>5, <1>10 DEF CallOK
<1>12. ListOK'
  <2>1. flags["first"] => flags'["first"] BY DEF GetMore, Raise, Flag, TypeOK
  <2>2. Prefix(asked, startIndex)' = Prefix(asked, startIndex) BY <1>6 DEF Prefix, Cap
  <2> QED BY <1>1, <1>6, <1>7, <2>1, <2>2 DEF Careful, Sound, ListOK
<1>13. IndexOK' BY <1>6, <1>8 DEF IndexOK
<1> QED BY <1>4, <1>11, <1>12, <1>13 DEF Sound

LEMMA HeartTapped ==
  ASSUME TypeOK, Careful, NEW i \in DOMAIN list, Heart(list[i]), careful'
  PROVE  Sound'
<1> DEFINE c == Request("heart", asked, 0, <<list[i]>>)
<1>1. careful /\ Quiet /\ Call(c) /\ touched' BY DEF Heart
<1>2. c \in CallType /\ c # NoCall
  <2>1. list[i] \in Row BY ElementOfSeq, LenProperties DEF TypeOK
  <2>2. c \in CallType
    <3>1. <<list[i]>> \in Seq(Row) /\ asked \in Question BY <2>1 DEF TypeOK
    <3> QED BY <3>1, RequestType
  <2>3. c.kind = "heart" BY DEF Request
  <2> QED BY <2>2, <2>3, NoCallType
<1>3. Single' BY <1>1, <1>2, OneRequest
<1>4. PICK r \in Slots : \A s \in Slots : calls'[s] = IF s = r THEN c ELSE NoCall
  BY <1>1, <1>2, OneRequest
<1>5. HeartOK(calls[r])' /\ AnswerOK(calls[r])'
  <2>1. calls'[r].kind = "heart" /\ calls'[r].status = "sent" BY <1>4 DEF Request
  <2> QED BY <1>1, <2>1 DEF HeartOK, AnswerOK
<1>6. \A s \in Slots : CallOK(calls[s])' BY <1>4, <1>5 DEF CallOK
<1>7. ListOK' BY <1>1 DEF ListOK, Promised
<1>8. IndexOK'
  <2>1. ~FirstInFlight BY <1>1, NoCallType DEF Quiet, FirstInFlight
  <2>2. UNCHANGED <<lost, startIndex, totalCount>> BY DEF Heart, Move
  <2> QED BY <1>1, <2>1, <2>2 DEF Careful, Sound, IndexOK
<1> QED BY <1>3, <1>6, <1>7, <1>8 DEF Sound

\* What the server or the network does to a request.
LEMMA RequestEnds ==
  ASSUME TypeOK, Careful, NEW r \in Slots, Answer(r) \/ Lose(r), careful'
  PROVE  Sound'
<1>t. /\ calls \in [Slots -> CallType] /\ calls[r] \in CallType
      /\ calls[r].question \in Question /\ calls[r].from \in Nat
      /\ rows \in [Question -> Seq(Row)]
  BY DEF TypeOK, CallType
<1>1. /\ careful /\ calls[r] # NoCall
      /\ UNCHANGED <<copy, lang, list, startIndex, totalCount, flags, asked, touched>>
      /\ lost => lost'
      /\ rows' = rows \/ calls[r].kind = "heart"
  <2>1. CASE Serve(r) BY <2>1, NoCallType DEF Serve, Stay
  <2>2. CASE ServeHeart(r) BY <2>2, NoCallType DEF ServeHeart, Replied, Stay
  <2>3. CASE Lose(r) BY <2>3 DEF Lose, Stay
  <2> QED BY <2>1, <2>2, <2>3 DEF Answer
<1>2. Promised' => Promised BY <1>1 DEF Promised, SameQuestion
<1>3. PICK c : /\ calls' = [calls EXCEPT ![r] = c]
               /\ c.kind = calls[r].kind /\ c.question = calls[r].question
               /\ c.from = calls[r].from
               /\ c.status = "done" /\ c.kind # "heart" => c.rows = Page(c.question, c.from)
               /\ c.status = "lost" => lost'
  <2>1. CASE Serve(r)
    <3> DEFINE page == Page(calls[r].question, calls[r].from)
               total == Len(rows[calls[r].question])
               c == Answered(calls[r], "done", page, total)
    <3>1. page \in Seq(Row) /\ total \in Nat BY <1>t, PageType, CapType
    <3>2. /\ c.kind = calls[r].kind /\ c.question = calls[r].question /\ c.from = calls[r].from
          /\ c.status = "done" /\ c.rows = page
      BY <1>t, <3>1 DEF Answered, CallType
    <3>3. calls' = [calls EXCEPT ![r] = c] BY <2>1 DEF Serve
    <3> HIDE DEF c
    <3> QED BY <3>2, <3>3
  <2>2. CASE ServeHeart(r)
    <3> DEFINE c == [calls[r] EXCEPT !.status = "done"]
    <3>1. /\ c.kind = calls[r].kind /\ c.question = calls[r].question /\ c.from = calls[r].from
          /\ c.status = "done"
      BY <1>t DEF CallType
    <3>2. calls' = [calls EXCEPT ![r] = c] /\ calls[r].kind = "heart" BY <2>2 DEF ServeHeart, Replied
    <3> HIDE DEF c
    <3> QED BY <3>1, <3>2
  <2>3. CASE Lose(r)
    <3> DEFINE c == Answered(calls[r], "lost", <<>>, 0)
    <3>1. /\ c.kind = calls[r].kind /\ c.question = calls[r].question /\ c.from = calls[r].from
          /\ c.status = "lost"
      BY <1>t DEF Answered, CallType
    <3>2. calls' = [calls EXCEPT ![r] = c] /\ lost' BY <2>3 DEF Lose
    <3> HIDE DEF c
    <3> QED BY <3>1, <3>2
  <2> QED BY <2>1, <2>2, <2>3 DEF Answer
<1>4. \A s \in Slots : calls'[s] = IF s = r THEN c ELSE calls[s] BY <1>3, <1>t
<1>5. \A s \in Slots : s # r => calls[s] = NoCall BY <1>1 DEF Careful, Sound, Single
<1>6. Single' BY <1>4, <1>5 DEF Single
<1>7. FirstOK(calls[r]) \/ MoreOK(calls[r]) \/ HeartOK(calls[r])
  BY <1>1 DEF Careful, Sound, CallOK
<1>8. CallOK(calls[r])'
  <2>1. (FirstOK(calls[r]) \/ MoreOK(calls[r]) \/ HeartOK(calls[r]))'
    BY <1>1, <1>3, <1>4, <1>7 DEF FirstOK, MoreOK, HeartOK, SameQuestion
  <2>2. AnswerOK(c)'
    <3>1. c.kind # "heart" => Page(c.question, c.from)' = Page(c.question, c.from)
      BY <1>1, <1>3 DEF Page, Cap
    <3> QED BY <1>3, <3>1 DEF AnswerOK
  <2> QED BY <1>4, <2>1, <2>2 DEF CallOK
<1>9. FirstInFlight' = FirstInFlight BY <1>3, <1>4 DEF FirstInFlight
<1>10. ListOK'
  <2>1. CASE rows' = rows
    <3>1. Prefix(asked, startIndex)' = Prefix(asked, startIndex) BY <1>1, <2>1 DEF Prefix, Cap
    <3> QED BY <1>1, <1>2, <1>9, <3>1 DEF Careful, Sound, ListOK
  <2>2. CASE calls[r].kind = "heart"
    <3>1. touched BY <1>7, <2>2 DEF FirstOK, MoreOK, HeartOK
    <3> QED BY <1>1, <3>1 DEF ListOK, Promised
  <2> QED BY <1>1, <2>1, <2>2
<1>11. IndexOK' BY <1>1, <1>9 DEF Careful, Sound, IndexOK
<1> QED BY <1>4, <1>5, <1>6, <1>8, <1>10, <1>11 DEF Sound, CallOK

\* What the handler does with the only answer.
LEMMA AnswerTaken ==
  ASSUME TypeOK, Careful, NEW r \in Slots, Reply(r), careful'
  PROVE  Sound'
<1>t. /\ copy \in Policy /\ (copy.oneFlag => copy.firstEnds /\ copy.clearsFirst)
      /\ flags \in [{"first", "more"} -> BOOLEAN]
      /\ calls \in [Slots -> CallType] /\ rows \in [Question -> Seq(Row)]
      /\ asked \in Question /\ startIndex \in Nat /\ list \in Seq(Row)
  BY CopyFacts DEF TypeOK
<1>1. /\ careful /\ Free(r) /\ calls[r].kind \in {"first", "more", "heart"}
      /\ UNCHANGED <<copy, lang, rows, asked, lost, touched>> /\ SameQuestion' = SameQuestion
  <2>1. CASE FirstReply(r) BY <2>1 DEF FirstReply, Replied, Stay, SameQuestion
  <2>2. CASE FirstFailed(r) BY <2>2 DEF FirstFailed, Replied, Stay, SameQuestion
  <2>3. CASE MoreReply(r) BY <2>3 DEF MoreReply, Replied, Stay, SameQuestion
  <2>4. CASE MoreFailed(r) BY <2>4 DEF MoreFailed, Replied, Stay, SameQuestion
  <2>5. CASE HeartReply(r) BY <2>5 DEF HeartReply, Stay, SameQuestion
  <2> QED BY <2>1, <2>2, <2>3, <2>4, <2>5 DEF Reply
<1>2. calls[r] # NoCall BY <1>1, NoCallType
<1>3. \A s \in Slots : s # r => calls[s] = NoCall BY <1>1, <1>2 DEF Careful, Sound, Single
<1>4. \A s \in Slots : calls'[s] = NoCall BY <1>1, <1>3, <1>t DEF Free
<1>5. Single' /\ (\A s \in Slots : CallOK(calls[s])') BY <1>4 DEF Single, CallOK
<1>6. AnswerOK(calls[r]) /\ (FirstOK(calls[r]) \/ MoreOK(calls[r]) \/ HeartOK(calls[r]))
  BY <1>1, <1>2 DEF Careful, Sound, CallOK
<1>7. Prefix(asked, startIndex)' = SubSeq(rows[asked], 1, Cap(asked, startIndex'))
  BY <1>1 DEF Prefix, Cap
<1>8. CASE FirstReply(r)
  <2>1. /\ calls[r].rows = Page(asked, 0) /\ startIndex = 0 /\ (copy.clearsFirst => list = <<>>)
    BY <1>6, <1>8 DEF FirstReply, Replied, FirstOK, MoreOK, HeartOK, AnswerOK
  <2>2. list' = Page(asked, 0) BY <1>8, <2>1, <1>t, FirstPage DEF FirstReply
  <2>3. startIndex' = ItemsPerPage BY <1>8, <2>1, PageAssumption DEF FirstReply
  <2>4. list' = Prefix(asked, startIndex)'
    BY <1>7, <2>2, <2>3, <1>t, FirstPage DEF Prefix
  <2>5. IndexOK' BY <2>3, PageAssumption DEF IndexOK
  <2> QED BY <1>5, <2>4, <2>5 DEF Sound, ListOK
<1>9. CASE FirstFailed(r)
  <2>1. /\ lost /\ startIndex = 0 /\ startIndex' = 0 /\ flags["first"]
        /\ copy.clearsFirst => list = <<>>
    BY <1>6, <1>9 DEF FirstFailed, Replied, FirstOK, MoreOK, HeartOK, AnswerOK
  <2>2. ListOK'
    <3> SUFFICES ASSUME Promised', (copy.oneFlag \/ ~flags["first"])'
                 PROVE  list' = Prefix(asked, startIndex)'
      BY DEF ListOK
    <3>1. copy.firstEnds BY <1>1, <1>9, <2>1, <1>t DEF FirstFailed
    <3>2. copy.clearsFirst BY <1>1, <2>1, <3>1 DEF Promised
    <3>3. list' = <<>> BY <1>9, <2>1, <3>1, <3>2 DEF FirstFailed
    <3> QED BY <1>7, <2>1, <3>3, <1>t, NoPrefix DEF Prefix
  <2> QED BY <1>1, <1>5, <2>1, <2>2 DEF Sound, IndexOK
<1>10. CASE MoreReply(r) \/ MoreFailed(r)
  <2>1. /\ calls[r].kind = "more" /\ MoreOK(calls[r]) /\ totalCount' = totalCount
        /\ startIndex' \in {startIndex, startIndex + ItemsPerPage}
    BY <1>6, <1>10 DEF MoreReply, MoreFailed, Replied, FirstOK, HeartOK
  <2>2. ~FirstInFlight
    <3>1. \A s \in Slots : s # r => calls[s].kind = "none" BY <1>3, NoCallType
    <3> QED BY <2>1, <3>1 DEF FirstInFlight
  <2>3. IndexOK' BY <1>1, <2>1, <1>t, PageAssumption DEF IndexOK, MoreOK
  <2>4. ListOK'
    <3> SUFFICES ASSUME Promised', (copy.oneFlag \/ ~flags["first"])'
                 PROVE  list' = Prefix(asked, startIndex)'
      BY DEF ListOK
    <3>1. copy.oneFlag \/ ~flags["first"]
      <4>1. ~copy.oneFlag => flags'["first"] = flags["first"]
        BY <1>10, <1>t DEF MoreReply, MoreFailed, Lower, Flag
      <4> QED BY <1>1, <4>1
    <3>2. Promised /\ (MoreReply(r) => SameQuestion)
      <4>1. startIndex > ItemsPerPage => startIndex' > ItemsPerPage
        BY <2>1, <1>t, PageAssumption
      <4>2. MoreReply(r) => lost \/ startIndex' > ItemsPerPage
        BY <2>1, <1>t, PageAssumption DEF MoreReply, MoreOK
      <4> QED BY <1>1, <4>1, <4>2 DEF Promised
    <3>3. list = Prefix(asked, startIndex)
      BY <1>1, <2>2, <3>1, <3>2 DEF Careful, Sound, ListOK
    <3>4. CASE MoreReply(r)
      <4>1. calls[r].rows = Page(asked, startIndex)
        BY <1>6, <2>1, <3>2, <3>4 DEF MoreReply, Replied, MoreOK, AnswerOK
      <4>2. list' = Prefix(asked, startIndex + ItemsPerPage)
        BY <3>3, <3>4, <4>1, <1>t, PagesJoin DEF MoreReply
      <4> QED BY <1>7, <3>4, <4>2 DEF MoreReply, Prefix
    <3>5. CASE MoreFailed(r)
      BY <1>7, <3>3, <3>5 DEF MoreFailed, Prefix
    <3> QED BY <1>10, <3>4, <3>5
  <2> QED BY <1>5, <2>3, <2>4 DEF Sound
<1>11. CASE HeartReply(r)
  <2>1. touched /\ calls[r].kind = "heart" /\ UNCHANGED <<startIndex, totalCount>>
    BY <1>6, <1>11 DEF HeartReply, FirstOK, MoreOK, HeartOK
  <2>2. ListOK' BY <1>1, <2>1 DEF ListOK, Promised
  <2>3. ~FirstInFlight
    <3>1. \A s \in Slots : s # r => calls[s].kind = "none" BY <1>3, NoCallType
    <3> QED BY <2>1, <3>1 DEF FirstInFlight
  <2>4. IndexOK' BY <1>1, <2>1, <2>3 DEF Careful, Sound, IndexOK
  <2> QED BY <1>5, <2>2, <2>4 DEF Sound
<1> QED BY <1>8, <1>9, <1>10, <1>11 DEF Reply

LEMMA CarefulKept == TypeOK /\ Careful /\ [Next]_vars => Careful'
<1> SUFFICES ASSUME TypeOK, Careful, [Next]_vars, careful' PROVE Sound'
  BY DEF Careful
<1>1. ASSUME NEW q \in Query \ Code, Type(q) PROVE Sound'
  <2>1. /\ careful /\ Promised' = Promised /\ SameQuestion' = SameQuestion
        /\ UNCHANGED <<copy, lang, rows, list, startIndex, totalCount, flags, asked, calls, lost, touched>>
    BY <1>1 DEF Type, Move, Promised, SameQuestion
  <2>2. Sound BY <2>1 DEF Careful
  <2>3. \A s \in Slots : CallOK(calls[s])'
    BY <2>1, <2>2 DEF Sound, CallOK, FirstOK, MoreOK, HeartOK, AnswerOK, Page, Cap
  <2> QED BY <2>1, <2>2, <2>3 DEF Sound, Single, ListOK, IndexOK, FirstInFlight, Prefix, Cap
<1>2. ASSUME NEW text, NEW q \in Query, AskFirst(text, q) PROVE Sound'
  BY <1>2, FirstAsked
<1>3. CASE GetMore BY <1>3, MoreAsked
<1>4. ASSUME NEW i \in DOMAIN list, Heart(list[i]) PROVE Sound'
  BY <1>4, HeartTapped
<1>5. ASSUME NEW s \in Slots, Answer(s) \/ Lose(s) PROVE Sound'
  BY <1>5, RequestEnds
<1>6. ASSUME NEW s \in Slots, Reply(s) PROVE Sound'
  BY <1>6, AnswerTaken
<1>7. CASE UNCHANGED vars
  <2>1. Sound BY <1>7 DEF vars, Careful
  <2>2. \A s \in Slots : CallOK(calls[s])'
    BY <1>7, <2>1 DEF vars, Sound, CallOK, FirstOK, MoreOK, HeartOK, AnswerOK, Page, Cap, SameQuestion
  <2> QED BY <1>7, <2>1, <2>2
          DEF vars, Sound, Single, ListOK, IndexOK, FirstInFlight, Prefix, Cap, Promised, SameQuestion
<1> QED BY <1>1, <1>2, <1>3, <1>4, <1>5, <1>6, <1>7, QueryAssumption DEF Next, GetFirst, Scan

\* A careful user's list is the first rows of what was asked for, whatever is lost: no
\* row twice, none left out, none of another question (getMoreOrders and its copies), as
\* long as the code asks the next pages as the first one and no heart was tapped.
THEOREM PagesFollow == Spec => []QuietListIsPrefix
<1>1. Careful => QuietListIsPrefix
  <2> SUFFICES ASSUME Careful, careful, Promised, Quiet, ~flags["first"]
               PROVE  list = SubSeq(rows[asked], 1, Cap(asked, startIndex))
    BY DEF QuietListIsPrefix
  <2>1. ~FirstInFlight BY NoCallType DEF Quiet, FirstInFlight
  <2> QED BY <2>1 DEF Careful, Sound, ListOK, Prefix
<1> QED BY <1>1, CarefulAtStart, CarefulKept, TypesCorrect, PTL DEF Spec
=============================================================================
