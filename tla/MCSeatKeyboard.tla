---------------------------- MODULE MCSeatKeyboard ----------------------------
(* Small instances of SeatKeyboard.                                          *)
EXTENDS SeatKeyboard, TLC

CONSTANTS w1, w2, l1, l2, g1, g2, k1, k2, o1, o2

TwoWindows == {w1, w2}
TwoLayers == {l1, l2}
TwoGrabs == {g1, g2}
TwoLockSurfaces == {k1, k2}
TwoOutputs == {o1, o2}
Symmetry == Permutations(TwoWindows) \cup Permutations(TwoLayers) \cup Permutations(TwoGrabs)
=============================================================================
