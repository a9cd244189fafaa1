---------------------------- MODULE MCIdleInhibit ----------------------------
(* Small instances of IdleInhibit.                                           *)
EXTENDS IdleInhibit, TLC

CONSTANTS p1, p2, h1, c1, c2

TwoPeers == {p1, p2}
OnePath == {h1}
TwoSlots == {c1, c2}
Symmetry == Permutations(TwoPeers) \cup Permutations(TwoSlots)
=============================================================================
