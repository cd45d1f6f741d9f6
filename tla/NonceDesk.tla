------------------------------ MODULE NonceDesk ------------------------------
(***************************************************************************)
(* What NonceCash promises for one key, without the mutex, the map and the *)
(* round trip: a desk that hands out numbers.  It opens at a number that   *)
(* is not beyond the account nonce and gives its first number away in the  *)
(* same step.  Numbers that were given back go first, new ones follow each *)
(* other without a gap, and a number somebody holds is handed to nobody    *)
(* else.  The desk may be lost, with all its numbers, and then promises    *)
(* nothing until the process starts over.                                  *)
(***************************************************************************)
EXTENDS Integers

CONSTANT Callers

VARIABLES
  state,    (* "none", "open" or "lost"                                     *)
  next,     (* the next new number                                          *)
  back,     (* numbers given back                                           *)
  held,     (* the number of each caller, Nothing if it holds none          *)
  account   (* the account nonce at the node                                *)

vars == <<state, next, back, held, account>>

Nothing == -1

NobodyHolds == [c \in Callers |-> Nothing]

Empty == next = 0 /\ back = {} /\ held = NobodyHolds

Init == state = "none" /\ Empty /\ account = 0

(* c finds no desk and opens one, at a number n the account has reached.    *)
Open(c, n) ==
  /\ state = "none"
  /\ n <= account
  /\ state' = "open"
  /\ next' = n + 1
  /\ held' = [held EXCEPT ![c] = n]
  /\ UNCHANGED <<back, account>>

DrawNew(c) ==
  /\ state = "open"
  /\ held[c] = Nothing
  /\ back = {}
  /\ next' = next + 1
  /\ held' = [held EXCEPT ![c] = next]
  /\ UNCHANGED <<state, back, account>>

DrawBack(c, n) ==
  /\ state = "open"
  /\ held[c] = Nothing
  /\ n \in back
  /\ back' = back \ {n}
  /\ held' = [held EXCEPT ![c] = n]
  /\ UNCHANGED <<state, next, account>>

(* The number went into a transaction, or its call failed before that.      *)
Use(c) ==
  /\ held[c] # Nothing
  /\ held' = [held EXCEPT ![c] = Nothing]
  /\ UNCHANGED <<state, next, back, account>>

GiveBack(c) ==
  /\ held[c] # Nothing
  /\ back' = back \cup {held[c]}
  /\ held' = [held EXCEPT ![c] = Nothing]
  /\ UNCHANGED <<state, next, account>>

Lose ==
  /\ state = "open"
  /\ state' = "lost"
  /\ Empty'
  /\ UNCHANGED account

Restart == state' = "none" /\ Empty' /\ UNCHANGED account

(* A block mines a transaction of the account.                              *)
Mine ==
  /\ account' = account + 1
  /\ UNCHANGED <<state, next, back, held>>

Next ==
  \/ \E c \in Callers :
       \/ \E n \in 0 .. account : Open(c, n)
       \/ \E n \in back : DrawBack(c, n)
       \/ DrawNew(c) \/ Use(c) \/ GiveBack(c)
  \/ Lose \/ Restart \/ Mine

Spec == Init /\ [][Next]_vars
=============================================================================
