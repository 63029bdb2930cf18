---------------------------- MODULE MCV5Session ----------------------------
EXTENDS V5Session, TLC

CONSTANTS a, b

MCTouch == {NoTouch, a, b}
MCOneFinger == {NoTouch, a}
Symm == Permutations({a, b})
============================================================================
