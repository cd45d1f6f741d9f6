----------------------------- MODULE MCNonceCash -----------------------------
(* Model values and symmetry for checking NonceCash with TLC.               *)
EXTENDS NonceCash, TLC

CONSTANTS c1, c2, c3, k1, k2

TwoCallers == {c1, c2}
ThreeCallers == {c1, c2, c3}
OneKey == {k1}
TwoKeys == {k1, k2}

AllFaults == FaultKinds
Refusals == {"refuse"}

Symmetry == Permutations(Callers) \cup Permutations(Keys)
=============================================================================
