--------------------------- MODULE MCProductSheet ---------------------------
(* Three packagings: a plentiful one, one with less than the minimum order,  *)
(* one that is out of stock.                                                 *)
EXTENDS ProductSheet

MCPacks == {1, 2, 3}
MCStock == <<5, 1, 0>>
=============================================================================
