------------------------------ MODULE MCSyncSend ------------------------------
(* Model values and symmetry for checking SyncSend with TLC.                *)
EXTENDS SyncSend, TLC

CONSTANTS h1, h2, f1, w1, w2

OneCall == {h1}
TwoCalls == {h1, h2}
NoCalls == {}
NoForeign == {}
OneForeign == {f1}
OneWorker == {w1}
TwoWorkers == {w1, w2}

AllFaults == FaultKinds
SettleFaults == {"rpc", "revert"}
LateFaults == {"timeout", "rpc", "stop"}
Reverts == {"revert"}

WorkerSymmetry == Permutations(Workers)
=============================================================================
