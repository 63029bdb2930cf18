---------------------------- MODULE MCLegacyV4 ----------------------------
(* The snapshots of one finger.                                            *)
EXTENDS LegacyV4

CONSTANT a

MCOne == {NoTouch, a}
===========================================================================
