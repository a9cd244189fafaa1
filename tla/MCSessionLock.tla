--------------------------- MODULE MCSessionLock ---------------------------
(***************************************************************************)
(* Instances of SessionLock for TLC.                                       *)
(***************************************************************************)
EXTENDS SessionLock, TLC

CONSTANTS o1, o2, l1, l2

TwoOutputs == {o1, o2}
OneOutput == {o1}
TwoLockers == {l1, l2}
OneLocker == {l1}

\* Screens are interchangeable, and so are lockers (safety runs only).
Symmetry == Permutations(TwoOutputs) \cup Permutations(TwoLockers)
=============================================================================
