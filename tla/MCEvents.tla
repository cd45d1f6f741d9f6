------------------------------- MODULE MCEvents -------------------------------
(* Checking Events with TLC.                                                *)
EXTENDS Events, TLC
=============================================================================
