--------------------------- MODULE MCBT4Handshake ---------------------------
(***************************************************************************)
(* BT4Handshake for TLC: two radios, which are interchangeable.            *)
(***************************************************************************)
EXTENDS BT4Handshake, TLC

CONSTANTS n1, n2

TwoNodes  == {n1, n2}
NodesSwap == Permutations(TwoNodes)
=============================================================================
