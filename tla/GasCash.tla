------------------------------- MODULE GasCash -------------------------------
(***************************************************************************)
(* The caches of the tip and of the base fee (client/cache.go, TipCapCash  *)
(* and BaseFeeCash) and the dynamic branch of sinedTx, which asks the one  *)
(* and then the other for the price of a transaction.                      *)
(*                                                                         *)
(* Both caches do the same: read value and expiry under the mutex, ask the *)
(* node without it, and store answer and new expiry under the mutex again. *)
(* Several callers may refresh at the same time and store their answers in *)
(* any order.                                                              *)
(*                                                                         *)
(* Time is counted in blocks.  An answer of the node is represented by the *)
(* height it was given at, 0 stands for nil, and fee is the base fee of    *)
(* every block so far.                                                     *)
(***************************************************************************)
EXTENDS Integers, Sequences

CONSTANTS
  Callers,    (* goroutines inside sinedTx                                  *)
  TTL,        (* TTL[x]: the ttl of cache x                                 *)
  Timeout,    (* timeoutDuration, the deadline of the context of the call   *)
  FirstFee,   (* base fee of the first block                                *)
  Swings,     (* how the base fee moves from block to block, in eighths     *)
  MaxHeight   (* bound of the model: blocks                                 *)

Cashes == {"tip", "base"}

ASSUME TTLAssumption == TTL \in [Cashes -> Int]
ASSUME TimeoutAssumption == Timeout \in Nat
ASSUME FeeAssumption == FirstFee \in Nat /\ Swings \subseteq {-1, 0, 1}
ASSUME HeightAssumption == MaxHeight \in Nat \ {0}

VARIABLES
  gas,        (* gas[x]: the cached answer (gas of the tip, base of the fee) *)
  expiredAt,  (* expiredAt[x]: when it expires                              *)
  fee,        (* fee[b]: the base fee of block b                            *)
  pc,         (* where each caller is                                       *)
  asking,     (* the cache the caller is at                                 *)
  got,        (* got[c][x]: the answer the caller goes on with              *)
  started     (* when the caller's context was made                         *)

vars == <<gas, expiredAt, fee, pc, asking, got, started>>

Phases == {"idle", "look", "ask", "store", "priced"}

now == Len(fee)

TypeOK ==
  /\ gas \in [Cashes -> Nat]
  /\ expiredAt \in [Cashes -> Int]
  /\ fee \in Seq(Nat)
  /\ pc \in [Callers -> Phases]
  /\ asking \in [Callers -> Cashes]
  /\ got \in [Callers -> [Cashes -> Nat]]
  /\ started \in [Callers -> Nat]

(* No answer yet.                                                           *)
NoAnswer == [x \in Cashes |-> 0]

Init ==
  /\ gas = NoAnswer
  /\ expiredAt = [x \in Cashes |-> 0]
  /\ fee = <<FirstFee>>
  /\ pc = [c \in Callers |-> "idle"]
  /\ asking = [c \in Callers |-> "tip"]
  /\ got = [c \in Callers |-> NoAnswer]
  /\ started = [c \in Callers |-> 0]

Goto(c, phase) == pc' = [pc EXCEPT ![c] = phase]

(* The call is over and its local variables are gone.                       *)
Return(c) ==
  /\ Goto(c, "idle")
  /\ asking' = [asking EXCEPT ![c] = "tip"]
  /\ got' = [got EXCEPT ![c] = NoAnswer]
  /\ started' = [started EXCEPT ![c] = 0]

-----------------------------------------------------------------------------
(* The node supports EIP-1559: sinedTx goes on with the tip.                *)
IsSupportEIP1559(c) ==
  /\ pc[c] = "idle"
  /\ started' = [started EXCEPT ![c] = now]
  /\ Goto(c, "look")
  /\ UNCHANGED <<gas, expiredAt, fee, asking, got>>

(* c has its answer from cache x: the base fee follows the tip.             *)
Proceed(c, x) ==
  /\ asking' = [asking EXCEPT ![c] = "base"]
  /\ Goto(c, IF x = "tip" THEN "look" ELSE "priced")

IsExpired(x) == expiredAt[x] <= now

(* GasTipCap and GasFee, the first locked section.                          *)
Lookup(c) ==
  LET x == asking[c] IN
  /\ pc[c] = "look"
  /\ IF IsExpired(x)
     THEN Goto(c, "ask") /\ UNCHANGED <<asking, got>>
     ELSE Proceed(c, x) /\ got' = [got EXCEPT ![c][x] = gas[x]]
  /\ UNCHANGED <<gas, expiredAt, fee, started>>

(* Faulty variant: the header of an older block is asked for.               *)
AskOlder(c) ==
  /\ pc[c] = "ask"
  /\ got' = [got EXCEPT ![c][asking[c]] = now - 2]
  /\ Goto(c, "store")
  /\ UNCHANGED <<gas, expiredAt, fee, asking, started>>

(* Faulty variant: the expiry moves before the node has answered.           *)
AskEarlyExpiry(c) ==
  /\ pc[c] = "ask"
  /\ got' = [got EXCEPT ![c][asking[c]] = now]
  /\ expiredAt' = [expiredAt EXCEPT ![asking[c]] = now + TTL[asking[c]]]
  /\ Goto(c, "store")
  /\ UNCHANGED <<gas, fee, asking, started>>

(* SuggestGasTipCap or HeaderByNumber: the node answers for its head.       *)
Ask(c) ==
  /\ pc[c] = "ask"
  /\ got' = [got EXCEPT ![c][asking[c]] = now]
  /\ Goto(c, "store")
  /\ UNCHANGED <<gas, expiredAt, fee, asking, started>>

(* The node fails to answer, or the deadline of the call passes first.      *)
AskFails(c) ==
  /\ pc[c] = "ask"
  /\ Return(c)
  /\ UNCHANGED <<gas, expiredAt, fee>>

(* The second locked section: the answer and its expiry, whatever another   *)
(* caller stored meanwhile.                                                 *)
Store(c) ==
  LET x == asking[c] IN
  /\ pc[c] = "store"
  /\ gas' = [gas EXCEPT ![x] = got[c][x]]
  /\ expiredAt' = [expiredAt EXCEPT ![x] = now + TTL[x]]
  /\ Proceed(c, x)
  /\ UNCHANGED <<fee, got, started>>

(* Faulty variant: the base fee is not doubled.                             *)
GasFeeSingle(c) == fee[got[c]["base"]]

(* cache.go:85, the part of the fee cap that is there for the base fee.     *)
GasFee(c) == 2 * fee[got[c]["base"]]

(* The transaction is signed and sent.                                      *)
SignNewTx(c) ==
  /\ pc[c] = "priced"
  /\ Return(c)
  /\ UNCHANGED <<gas, expiredAt, fee>>

-----------------------------------------------------------------------------
(* The base fee of a block differs by at most one eighth from the one       *)
(* before it.                                                               *)
NextFees(b) == {b + swing * (b \div 8) : swing \in Swings}

(* A block comes in.  The deadline ends a call before Timeout has passed.   *)
Block ==
  /\ now < MaxHeight
  /\ \A c \in Callers : pc[c] # "idle" => now < started[c] + Timeout
  /\ \E b \in NextFees(fee[now]) : fee' = Append(fee, b)
  /\ UNCHANGED <<gas, expiredAt, pc, asking, got, started>>

CallStep(c) ==
  \/ IsSupportEIP1559(c) \/ Lookup(c) \/ Ask(c) \/ AskFails(c) \/ Store(c)
  \/ SignNewTx(c)

Next == Block \/ \E c \in Callers : CallStep(c)

Spec == Init /\ [][Next]_vars

-----------------------------------------------------------------------------
(* Properties.                                                              *)

(* How old an answer may be when it is taken from cache x, which keeps none *)
(* if its ttl is not positive.                                              *)
MaxAge(x) == IF TTL[x] > 0 THEN TTL[x] - 1 + Timeout ELSE 0

(***************************************************************************)
(* A value that is handed out was an answer of the node (never the nil of  *)
(* the empty cache), and although concurrent refreshes store their answers *)
(* in any order, so that an older answer may replace a newer one, no       *)
(* transaction is priced with an answer older than the ttl and two round   *)
(* trips.                                                                  *)
(***************************************************************************)
AgeBounded ==
  \A c \in Callers : pc[c] = "priced" =>
    \A x \in Cashes :
      /\ got[c][x] \in 1 .. now
      /\ now - got[c][x] <= MaxAge(x) + Timeout

(***************************************************************************)
(* The doubling of cache.go:85 lets a fee cap survive five rises of one    *)
(* eighth, and not six.  So whatever the ttl is, a fee cap is below the    *)
(* base fee of the latest block only if its answer is more than five       *)
(* blocks old; and where a call lasts no longer than five blocks, as with  *)
(* DefaultTimeout (60 s), the answer then comes out of the cache: a call   *)
(* that asked the node itself, or was overtaken by others that did, is     *)
(* never underpriced.                                                      *)
(***************************************************************************)
Underpriced(c) == pc[c] = "priced" /\ GasFee(c) < fee[now]

UnderpricedOnlyFromCash ==
  \A c \in Callers : Underpriced(c) =>
    /\ now - got[c]["base"] > 5
    /\ Timeout <= 5 => got[c]["base"] < started[c]
=============================================================================
