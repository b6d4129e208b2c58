---------------------------- MODULE MCUserSession ----------------------------
(* Accounts, passwords and profiles as model values.                         *)
EXTENDS UserSession

CONSTANTS a, b, p1, p2, w1, w2
=============================================================================
