------------------------------ MODULE MCMinix3 ------------------------------
(* Minix3 for TLC: three files of the directory d, and one of the root. *)
EXTENDS Minix3

PathsUsed == {<<"d", "f">>, <<"d", "g">>, <<"d", "h">>, <<"f">>}
=============================================================================
