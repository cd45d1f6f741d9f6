------------------------------- MODULE MCToWei -------------------------------
(* Values for checking ToWei with TLC.                                      *)
EXTENDS ToWei

SmallAmounts == {Decimal(c, e) : c \in -99 .. 99, e \in -3 .. 1}
=============================================================================
