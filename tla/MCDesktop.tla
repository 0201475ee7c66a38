------------------------------ MODULE MCDesktop ------------------------------
(* A screen of three by three title bars for the windows and the mouse.    *)
EXTENDS Desktop

SmallWindow == {<<2, 2>>}
SignedMoves == {-1, 1}
=============================================================================
