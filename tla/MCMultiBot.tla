----------------------------- MODULE MCMultiBot ----------------------------
(***************************************************************************)
(* Bots and pools with which TLC checks MultiBot.                          *)
(***************************************************************************)
EXTENDS MultiBot

CONSTANTS b1, b2                (* model values: bots                      *)

TwoBots == {b1, b2}
TwoPools == <<1, 2>>
=============================================================================
