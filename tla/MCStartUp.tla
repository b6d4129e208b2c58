------------------------------ MODULE MCStartUp ------------------------------
(* Two languages.                                                            *)
EXTENDS StartUp

CONSTANTS ar, en
=============================================================================
