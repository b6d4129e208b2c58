----------------------------- MODULE MCPagedList -----------------------------
(* Pages of two: a query with five rows, whose last page is not full, one of *)
(* one page, a bar code with three; in the other language other rows.        *)
EXTENDS PagedList

CONSTANTS q1, q2, c1, l1, l2

SomeRows == [question \in Question |->
  CASE question.query = c1 -> <<4, 1, 2>>
    [] question = Ask(q1, l1) -> <<1, 2, 3, 4, 5>>
    [] question = Ask(q1, l2) -> <<3, 4, 1>>
    [] question = Ask(q2, l1) -> <<5, 2>>
    [] question = Ask(q2, l2) -> <<2, 4>>]
=============================================================================
