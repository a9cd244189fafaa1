------------------------------ MODULE MCDockTile ------------------------------
(* Small instances of DockTile.                                              *)
EXTENDS DockTile, TLC

CONSTANTS p1, p2

TwoProcs == {p1, p2}
ShortBackoff == <<1, 2>>
Symmetry == Permutations(TwoProcs)
=============================================================================
