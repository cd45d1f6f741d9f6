------------------------------- MODULE TxTicket -------------------------------
(***************************************************************************)
(* What SyncSend promises, without its maps, queue and workers: a call is  *)
(* a ticket that is submitted, settled once by somebody else, and only     *)
(* then redeemed as a success.  A call may give up at any time before it   *)
(* is redeemed, and its answer never changes.                              *)
(***************************************************************************)
CONSTANT Calls

VARIABLE ticket

States == {"new", "pending", "settled", "redeemed", "void"}

TypeOK == ticket \in [Calls -> States]

Init == ticket = [c \in Calls |-> "new"]

Move(c, from, to) ==
  /\ ticket[c] \in from
  /\ ticket' = [ticket EXCEPT ![c] = to]

Submit(c) == Move(c, {"new"}, "pending")
Settle(c) == Move(c, {"pending"}, "settled")
Redeem(c) == Move(c, {"settled"}, "redeemed")
GiveUp(c) == Move(c, {"new", "pending", "settled"}, "void")

Next == \E c \in Calls : Submit(c) \/ Settle(c) \/ Redeem(c) \/ GiveUp(c)

Spec == Init /\ [][Next]_ticket
=============================================================================
