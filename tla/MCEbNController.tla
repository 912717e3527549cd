--------------------------- MODULE MCEbNController ---------------------------
(***************************************************************************)
(* EbNController for TLC: the phone p shifts its address once, from a1 to  *)
(* a2; the phone q keeps its address b1.                                   *)
(***************************************************************************)
EXTENDS EbNController, TLC

CONSTANTS p, q, a1, a2, b1

TwoPhones    == {p, q}
ThreeAddress == {a1, a2, b1}
OneShift     == {<<a2, a1>>}
Starting     == (p :> a1) @@ (q :> b1)

OnePhone     == {p}
TwoAddress   == {a1, a2}
StartingOne  == (p :> a1)
=============================================================================
