----------------------------- MODULE MCThreadex ------------------------------
(* Instance of Threadex for TLC: the calling threads. *)
EXTENDS Threadex

CONSTANTS c1, c2, c3

MCCallers == {c1, c2, c3}

==============================================================================
