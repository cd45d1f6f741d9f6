------------------------------ MODULE MCGasCash ------------------------------
(* Model values for checking GasCash with TLC.                              *)
EXTENDS GasCash, TLC

CONSTANTS c1, c2

TwoCallers == {c1, c2}

ShortTTL == [x \in Cashes |-> IF x = "tip" THEN 1 ELSE 3]
Rising == {1}

Symmetry == Permutations(Callers)
=============================================================================
