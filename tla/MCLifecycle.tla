----------------------------- MODULE MCLifecycle -----------------------------
(* Values for checking Lifecycle with TLC: seconds of eight ticks and       *)
(* durations of six bits, so that four seconds overflow.                    *)
EXTENDS Lifecycle, TLC

CONSTANTS c1, c2, k1, k2

TwoClients == {c1, c2}
TwoCalls == {k1, k2}

SmallUnit ==
  [timeout |-> 8, syncSendTimeout |-> 8, syncSendConfirmInterval |-> 1]

SmallDefaults ==
  [timeout |-> 1, syncSendTimeout |-> 3, syncSendConfirmInterval |-> 5]

(* None; other values; values at and beyond the limits.                     *)
SomeOptions ==
  {<<>>,
   [timeout |-> 2, syncSendTimeout |-> 1, syncSendConfirmInterval |-> 7],
   [syncSendConfirmInterval |-> 0],
   [timeout |-> 0],
   [syncSendTimeout |-> 4]}

Symmetry == Permutations(TwoClients) \cup Permutations(TwoCalls)
=============================================================================
