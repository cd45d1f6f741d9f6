---------------------------- MODULE GasCashProofs ----------------------------
(***************************************************************************)
(* Proofs about GasCash for any number of callers, any ttl (also zero and  *)
(* negative ones, which the options do not exclude) and any timeout.       *)
(*                                                                         *)
(* An unexpired entry is not much older than its ttl (CashInv) because the *)
(* answer it came from was asked for by a call within its deadline, no     *)
(* matter which of several refreshes stored last; and an answer a call     *)
(* goes on with ages no more than the call itself does (CallerInv).        *)
(***************************************************************************)
EXTENDS GasCash, SequenceTheorems, TLAPS

Busy(c) == pc[c] # "idle"

(* c has its answer from cache x.                                           *)
Has(c, x) == pc[c] = "priced" \/ (Busy(c) /\ asking[c] = "base" /\ x = "tip")

CashInv ==
  \A x \in Cashes : expiredAt[x] > now =>
    /\ gas[x] \in 1 .. now
    /\ expiredAt[x] - gas[x] <= TTL[x] + Timeout
    /\ TTL[x] > 0

CallerInv(c) ==
  /\ ~Busy(c) => asking[c] = "tip"
  /\ Busy(c) => started[c] \in 1 .. now /\ now <= started[c] + Timeout
  /\ pc[c] = "store" => got[c][asking[c]] \in started[c] .. now
  /\ \A x \in Cashes : Has(c, x) =>
       /\ got[c][x] \in 1 .. now
       /\ now - got[c][x] <= MaxAge(x) + (now - started[c])

Parts == CashInv /\ \A c \in Callers : CallerInv(c)

(* What the arithmetic below needs of TypeOK; fee occurs only through now.  *)
Scalars ==
  /\ gas \in [Cashes -> Nat]
  /\ expiredAt \in [Cashes -> Int]
  /\ pc \in [Callers -> Phases]
  /\ asking \in [Callers -> Cashes]
  /\ got \in [Callers -> [Cashes -> Nat]]
  /\ started \in [Callers -> Nat]
  /\ now \in Nat /\ now >= 1

IInv == TypeOK /\ now >= 1 /\ Parts

LEMMA AgeInit == Init => IInv
BY TTLAssumption, TimeoutAssumption, FeeAssumption
DEF Init, IInv, TypeOK, Parts, CashInv, CallerInv, Busy, Has, now, Phases,
    Cashes, NoAnswer

(* The base fee of the next block is a number.                              *)
LEMMA NextFeesType == ASSUME NEW b \in Nat PROVE NextFees(b) \subseteq Nat
<1> SUFFICES ASSUME NEW swing \in {-1, 0, 1} PROVE b + swing * (b \div 8) \in Nat
  BY FeeAssumption DEF NextFees
<1>1. b \div 8 \in Nat /\ b \div 8 <= b
  OBVIOUS
<1>2. swing * (b \div 8) \in {0 - (b \div 8), 0, b \div 8}
  BY <1>1
<1> QED
  BY <1>1, <1>2

LEMMA ScalarsOK == TypeOK /\ now >= 1 => Scalars
BY DEF TypeOK, Scalars, now

(* A block adds one entry to fee; no other step touches it.                 *)
LEMMA BlockFee ==
  ASSUME TypeOK, now >= 1, Block
  PROVE  fee' \in Seq(Nat) /\ now' = now + 1
<1>1. PICK b \in NextFees(fee[now]) : fee' = Append(fee, b)
  BY DEF Block
<1>2. fee[now] \in Nat
  BY DEF TypeOK, now
<1>3. b \in Nat
  BY <1>1, <1>2, NextFeesType
<1> QED
  BY <1>1, <1>3 DEF TypeOK, now

(* One answer more in got.                                                  *)
LEMMA GotUpdate ==
  ASSUME got \in [Callers -> [Cashes -> Nat]],
         NEW c \in Callers, NEW x \in Cashes, NEW v \in Nat,
         got' = [got EXCEPT ![c][x] = v]
  PROVE  /\ got' \in [Callers -> [Cashes -> Nat]]
         /\ got'[c][x] = v
         /\ \A y \in Cashes \ {x} : got'[c][y] = got[c][y]
         /\ \A d \in Callers \ {c} : got'[d] = got[d]
<1> DEFINE row == [got[c] EXCEPT ![x] = v]
<1>1. got' = [got EXCEPT ![c] = row]
  OBVIOUS
<1>2. row \in [Cashes -> Nat] /\ row[x] = v
      /\ \A y \in Cashes \ {x} : row[y] = got[c][y]
  OBVIOUS
<1> HIDE DEF row
<1> QED
  BY <1>1, <1>2

LEMMA NoAnswerType == NoAnswer \in [Cashes -> Nat]
BY DEF NoAnswer

LEMMA TypeNext == TypeOK /\ now >= 1 /\ [Next]_vars => TypeOK' /\ now' >= 1
<1> SUFFICES ASSUME TypeOK, now >= 1, [Next]_vars PROVE TypeOK' /\ now' >= 1
  OBVIOUS
<1>1. CASE Block
  <2>1. fee' \in Seq(Nat) /\ now' = now + 1 /\ now \in Nat
    BY <1>1, BlockFee, ScalarsOK DEF Scalars
  <2> QED
    BY <1>1, <2>1 DEF Block, TypeOK
<1>2. ASSUME NEW c \in Callers, CallStep(c) PROVE TypeOK' /\ now' >= 1
  <2>1. fee' = fee /\ now' = now /\ now \in Nat
    BY <1>2, ScalarsOK
    DEF CallStep, IsSupportEIP1559, Lookup, Ask, AskFails, Store, SignNewTx, now,
        Scalars
  <2>2. asking[c] \in Cashes /\ asking[c] \in {"tip", "base"}
    BY DEF TypeOK, Cashes
  <2>3. Scalars /\ "tip" \in Cashes /\ "base" \in Cashes
    BY ScalarsOK DEF Cashes
  <2> USE DEF Scalars, Phases, Goto
  <2>4. Scalars'
    <3>1. CASE IsSupportEIP1559(c)
      BY <2>1, <2>3, <3>1 DEF IsSupportEIP1559
    <3>2. CASE Lookup(c)
      <4>1. got' \in [Callers -> [Cashes -> Nat]]
        BY <2>2, <2>3, <3>2, GotUpdate DEF Lookup
      <4> QED
        BY <2>1, <2>2, <2>3, <3>2, <4>1 DEF Lookup, Proceed
    <3>3. CASE Ask(c)
      <4>1. got' \in [Callers -> [Cashes -> Nat]]
        BY <2>1, <2>2, <2>3, <3>3, GotUpdate DEF Ask
      <4> QED
        BY <2>1, <2>2, <2>3, <3>3, <4>1 DEF Ask
    <3>4. CASE AskFails(c) \/ SignNewTx(c)
      <4>1. Return(c) /\ UNCHANGED <<gas, expiredAt, fee>>
        BY <3>4 DEF AskFails, SignNewTx
      <4>2. got' \in [Callers -> [Cashes -> Nat]]
        BY <2>3, <4>1, NoAnswerType DEF Return
      <4> QED
        BY <2>1, <2>3, <4>1, <4>2 DEF Return
    <3>5. CASE Store(c)
      <4>0. now + TTL[asking[c]] \in Int
        BY <2>2, <2>3, TTLAssumption
      <4>1. expiredAt' \in [Cashes -> Int]
        BY <2>2, <2>3, <3>5, <4>0 DEF Store
      <4>2. gas' \in [Cashes -> Nat]
        BY <2>2, <2>3, <3>5 DEF Store
      <4> QED
        BY <2>1, <2>2, <2>3, <3>5, <4>1, <4>2 DEF Store, Proceed
    <3> QED
      BY <1>2, <3>1, <3>2, <3>3, <3>4, <3>5 DEF CallStep
  <2> QED
    BY <2>1, <2>4 DEF TypeOK
<1>3. CASE UNCHANGED vars
  BY <1>3 DEF vars, TypeOK, now
<1> QED
  BY <1>1, <1>2, <1>3 DEF Next

-----------------------------------------------------------------------------
(* The ages.                                                                *)

(* A step of one caller leaves the local variables of the others alone.     *)
LEMMA Others ==
  ASSUME Scalars, NEW c \in Callers, CallStep(c)
  PROVE  /\ now' = now
         /\ \A d \in Callers \ {c} :
              /\ pc'[d] = pc[d] /\ asking'[d] = asking[d]
              /\ got'[d] = got[d] /\ started'[d] = started[d]
<1> USE DEF Scalars, Goto
<1>0. asking[c] \in Cashes
  OBVIOUS
<1>1. CASE IsSupportEIP1559(c)
  BY <1>1 DEF IsSupportEIP1559, now
<1>2. CASE Lookup(c)
  BY <1>0, <1>2, GotUpdate DEF Lookup, Proceed, now
<1>3. CASE Ask(c)
  BY <1>0, <1>3, GotUpdate DEF Ask, now
<1>4. CASE AskFails(c) \/ SignNewTx(c)
  BY <1>4 DEF AskFails, SignNewTx, Return, now
<1>5. CASE Store(c)
  BY <1>5 DEF Store, Proceed, now
<1> QED
  BY <1>1, <1>2, <1>3, <1>4, <1>5 DEF CallStep

LEMMA MaxAgeType == \A x \in Cashes : MaxAge(x) \in Nat
BY TTLAssumption, TimeoutAssumption DEF MaxAge

(* What a block does to the ages.                                           *)
LEMMA PartsBlock ==
  ASSUME TypeOK, now >= 1, Parts, Block
  PROVE  Parts'
<1>1. Scalars /\ now' = now + 1
  BY BlockFee, ScalarsOK
<1> USE <1>1, TimeoutAssumption, TTLAssumption DEF Scalars
<1>2. UNCHANGED <<gas, expiredAt, pc, asking, got, started>>
  BY DEF Block
<1>3. CashInv'
  BY <1>2 DEF Parts, CashInv
<1>4. ASSUME NEW c \in Callers PROVE CallerInv(c)'
  <2>1. CallerInv(c)
    BY DEF Parts
  <2>2. Busy(c) => now < started[c] + Timeout
    BY DEF Block, Busy
  <2>3. asking[c] \in Cashes /\ got[c][asking[c]] \in Nat
    OBVIOUS
  <2>4. ASSUME NEW x \in Cashes, Has(c, x)
        PROVE  /\ got[c][x] \in 1 .. now'
               /\ now' - got[c][x] <= MaxAge(x) + (now' - started[c])
    BY <2>1, <2>4, MaxAgeType DEF CallerInv
  <2>5. Busy(c) => started[c] \in 1 .. now' /\ now' <= started[c] + Timeout
    BY <2>1, <2>2 DEF CallerInv
  <2>6. pc[c] = "store" => got[c][asking[c]] \in started[c] .. now'
    BY <2>1, <2>3 DEF CallerInv
  <2> QED
    BY <1>2, <2>1, <2>4, <2>5, <2>6 DEF CallerInv, Busy, Has, MaxAge
<1> QED
  BY <1>3, <1>4 DEF Parts

(* What a step of c does to c's own variables and to the caches.            *)
LEMMA PartsOwn ==
  ASSUME Scalars, Parts, NEW c \in Callers, CallStep(c)
  PROVE  CashInv' /\ CallerInv(c)'
<1>0. CashInv /\ CallerInv(c) /\ now' = now
  BY Others DEF Parts
<1>a. /\ asking[c] \in Cashes /\ asking[c] \in {"tip", "base"}
      /\ "tip" \in Cashes /\ "base" \in Cashes
  BY DEF Scalars, Cashes
<1>b. \A x \in Cashes : TTL[x] \in Int
  BY TTLAssumption
<1> USE <1>0, <1>a, TimeoutAssumption DEF Scalars, Phases, Goto
<1>1. CASE IsSupportEIP1559(c)
  <2>1. CashInv'
    BY <1>1 DEF IsSupportEIP1559, CashInv
  <2>2. CallerInv(c)'
    BY <1>1 DEF IsSupportEIP1559, CallerInv, Busy, Has
  <2> QED
    BY <2>1, <2>2
<1>2. CASE Lookup(c)
  <2>1. CashInv'
    BY <1>2 DEF Lookup, CashInv
  <2>2. CASE IsExpired(asking[c])
    <3>1. /\ pc[c] = "look" /\ pc' = [pc EXCEPT ![c] = "ask"]
          /\ UNCHANGED <<asking, got, started>>
      BY <1>2, <2>2 DEF Lookup
    <3> QED
      BY <2>1, <3>1 DEF CallerInv, Busy, Has, MaxAge
  <2>3. CASE ~IsExpired(asking[c])
    <3> DEFINE x == asking[c]
    <3>1. /\ gas[x] \in 1 .. now
          /\ now - gas[x] <= MaxAge(x)
      BY <2>3, <1>b DEF CashInv, IsExpired, MaxAge
    <3>2. started[c] \in 1 .. now /\ now <= started[c] + Timeout
      BY <1>2 DEF Lookup, CallerInv, Busy
    <3>3. /\ asking' = [asking EXCEPT ![c] = "base"]
          /\ pc' = [pc EXCEPT ![c] = IF x = "tip" THEN "look" ELSE "priced"]
          /\ started' = started
          /\ got' = [got EXCEPT ![c][x] = gas[x]]
      BY <1>2, <2>3 DEF Lookup, Proceed
    <3>4. got'[c][x] = gas[x] /\ \A y \in Cashes \ {x} : got'[c][y] = got[c][y]
      BY <3>3, GotUpdate
    <3>5. ASSUME NEW y \in Cashes, Has(c, y)'
          PROVE  /\ got'[c][y] \in 1 .. now
                 /\ now - got'[c][y] <= MaxAge(y) + (now - started[c])
      <4>1. CASE y = x
        BY <3>1, <3>2, <3>4, <4>1, MaxAgeType
      <4>2. CASE y # x
        <5>1. x = "base" /\ y = "tip"
          BY <3>3, <3>5, <4>2 DEF Has, Cashes
        <5>2. Has(c, y)
          BY <1>2, <5>1 DEF Lookup, Has, Busy
        <5> QED
          BY <3>4, <4>2, <5>2 DEF CallerInv
      <4> QED
        BY <4>1, <4>2
    <3>6. Busy(c)' /\ pc'[c] # "store"
      BY <3>3 DEF Busy
    <3> QED
      BY <2>1, <3>2, <3>3, <3>5, <3>6 DEF CallerInv, MaxAge
  <2> QED
    BY <2>1, <2>2, <2>3
<1>3. CASE Ask(c)
  <2> DEFINE x == asking[c]
  <2>1. CashInv'
    BY <1>3 DEF Ask, CashInv
  <2>2. /\ got'[c][x] = now /\ \A y \in Cashes \ {x} : got'[c][y] = got[c][y]
        /\ asking' = asking /\ started' = started
        /\ pc[c] = "ask" /\ pc' = [pc EXCEPT ![c] = "store"]
    BY <1>3, GotUpdate DEF Ask
  <2>3. started[c] \in 1 .. now /\ now <= started[c] + Timeout
    BY <2>2 DEF CallerInv, Busy
  <2>4. ASSUME NEW y \in Cashes, Has(c, y)'
        PROVE  /\ got'[c][y] \in 1 .. now
               /\ now - got'[c][y] <= MaxAge(y) + (now - started[c])
    <3>1. x = "base" /\ y = "tip"
      BY <2>2, <2>4 DEF Has
    <3>2. Has(c, y)
      BY <2>2, <3>1 DEF Has, Busy
    <3> QED
      BY <2>2, <3>1, <3>2 DEF CallerInv
  <2> QED
    BY <2>1, <2>2, <2>3, <2>4 DEF CallerInv, Busy, MaxAge
<1>4. CASE AskFails(c) \/ SignNewTx(c)
  <2>1. Return(c) /\ UNCHANGED <<gas, expiredAt, fee>>
    BY <1>4 DEF AskFails, SignNewTx
  <2>2. CashInv'
    BY <2>1 DEF CashInv
  <2>3. pc'[c] = "idle" /\ asking'[c] = "tip"
    BY <2>1 DEF Return
  <2> QED
    BY <2>2, <2>3 DEF CallerInv, Busy, Has
<1>5. CASE Store(c)
  <2> DEFINE x == asking[c]
  <2>1. /\ pc[c] = "store" /\ got' = got /\ started' = started
        /\ gas' = [gas EXCEPT ![x] = got[c][x]]
        /\ expiredAt' = [expiredAt EXCEPT ![x] = now + TTL[x]]
        /\ asking' = [asking EXCEPT ![c] = "base"]
        /\ pc' = [pc EXCEPT ![c] = IF x = "tip" THEN "look" ELSE "priced"]
    BY <1>5 DEF Store, Proceed
  <2>2. started[c] \in 1 .. now /\ now <= started[c] + Timeout
    BY <2>1 DEF CallerInv, Busy
  <2>3. got[c][x] \in started[c] .. now
    BY <2>1 DEF CallerInv
  <2>4. CashInv'
    BY <2>1, <2>2, <2>3, <1>b DEF CashInv
  <2>5. ASSUME NEW y \in Cashes, Has(c, y)'
        PROVE  /\ got[c][y] \in 1 .. now
               /\ now - got[c][y] <= MaxAge(y) + (now - started[c])
    <3>1. CASE y = x
      BY <2>2, <2>3, <3>1, MaxAgeType
    <3>2. CASE y # x
      <4>1. x = "base" /\ y = "tip"
        BY <2>1, <2>5, <3>2 DEF Has, Cashes
      <4>2. Has(c, y)
        BY <2>1, <4>1 DEF Has, Busy
      <4> QED
        BY <4>2 DEF CallerInv
    <3> QED
      BY <3>1, <3>2
  <2>6. Busy(c)' /\ pc'[c] # "store"
    BY <2>1 DEF Busy
  <2> QED
    BY <2>1, <2>2, <2>4, <2>5, <2>6 DEF CallerInv, MaxAge
<1> QED
  BY <1>1, <1>2, <1>3, <1>4, <1>5 DEF CallStep

LEMMA AgeNext == IInv /\ [Next]_vars => IInv'
<1> SUFFICES ASSUME IInv, [Next]_vars PROVE IInv'
  OBVIOUS
<1>1. TypeOK' /\ now' >= 1
  BY TypeNext DEF IInv
<1>2. Parts'
  <2>1. CASE Block
    BY <2>1, PartsBlock DEF IInv
  <2>2. ASSUME NEW c \in Callers, CallStep(c) PROVE Parts'
    <3>1. CashInv' /\ CallerInv(c)'
      BY <2>2, PartsOwn, ScalarsOK DEF IInv
    <3>2. ASSUME NEW d \in Callers \ {c} PROVE CallerInv(d)'
      <4>1. /\ now' = now /\ pc'[d] = pc[d] /\ asking'[d] = asking[d]
            /\ got'[d] = got[d] /\ started'[d] = started[d]
        BY <2>2, Others, ScalarsOK DEF IInv
      <4>2. CallerInv(d)
        BY DEF IInv, Parts
      <4> QED
        BY <4>1, <4>2 DEF CallerInv, Busy, Has, MaxAge
    <3> QED
      BY <3>1, <3>2 DEF Parts
  <2>3. CASE UNCHANGED vars
    BY <2>3 DEF vars, IInv, Parts, CashInv, CallerInv, Busy, Has, MaxAge, now
  <2> QED
    BY <2>1, <2>2, <2>3 DEF Next
<1> QED
  BY <1>1, <1>2 DEF IInv

(* A call that has its price is within its deadline, so that the bound of   *)
(* CallerInv becomes the one of AgeBounded.                                 *)
LEMMA AgeSuffices == IInv => AgeBounded
<1> SUFFICES ASSUME IInv, NEW c \in Callers, pc[c] = "priced", NEW x \in Cashes
             PROVE  got[c][x] \in 1 .. now /\ now - got[c][x] <= MaxAge(x) + Timeout
  BY DEF AgeBounded
<1>1. Scalars /\ CallerInv(c) /\ Busy(c) /\ Has(c, x)
  BY ScalarsOK DEF IInv, Parts, Busy, Has
<1> QED
  BY <1>1, MaxAgeType, TimeoutAssumption DEF CallerInv, Scalars

(* Every reachable state is well typed, whatever ttl and timeout are.       *)
THEOREM TypeCorrect == Spec => []TypeOK
<1>1. IInv => TypeOK
  BY DEF IInv
<1> QED
  BY AgeInit, AgeNext, <1>1, PTL DEF Spec

(* No interleaving of refreshes prices a transaction with nil or with an    *)
(* answer older than the ttl and two round trips.                           *)
THEOREM AgeIsBounded == Spec => []AgeBounded
BY AgeInit, AgeNext, AgeSuffices, PTL DEF Spec

-----------------------------------------------------------------------------
(* The doubled base fee.                                                    *)

(* From one block to the next the fee rises by at most one eighth.          *)
Gentle(f) == \A i \in 1 .. (Len(f) - 1) : 8 * f[i + 1] <= 9 * f[i]

LEMMA OneRise ==
  ASSUME NEW b \in Nat, NEW next \in NextFees(b)
  PROVE  8 * next <= 9 * b
<1>1. PICK swing \in {-1, 0, 1} : next = b + swing * (b \div 8)
  BY FeeAssumption DEF NextFees
<1>2. b \div 8 \in Nat /\ 8 * (b \div 8) <= b
  OBVIOUS
<1>3. next \in {b - (b \div 8), b, b + (b \div 8)}
  BY <1>1, <1>2
<1> QED
  BY <1>2, <1>3

LEMMA GentleNext ==
  ASSUME TypeOK, now >= 1, Gentle(fee), [Next]_vars
  PROVE  Gentle(fee')
<1>1. CASE fee' = fee
  BY <1>1
<1>2. CASE Block
  <2>1. PICK b \in NextFees(fee[now]) : fee' = Append(fee, b)
    BY <1>2 DEF Block
  <2>2. fee[now] \in Nat /\ fee \in Seq(Nat) /\ now \in Nat
    BY DEF TypeOK, now
  <2>3. b \in Nat /\ 8 * b <= 9 * fee[now]
    BY <2>2, OneRise, NextFeesType
  <2>4. /\ Len(fee') = now + 1 /\ fee'[now + 1] = b
        /\ \A i \in 1 .. now : fee'[i] = fee[i]
    BY <2>1, <2>2, <2>3, AppendProperties DEF now
  <2>5. ASSUME NEW i \in 1 .. now
        PROVE  8 * fee'[i + 1] <= 9 * fee'[i]
    <3>1. CASE i = now
      BY <2>2, <2>3, <2>4, <3>1
    <3>2. CASE i # now
      <4>1. i \in 1 .. (Len(fee) - 1) /\ i + 1 \in 1 .. now
        BY <2>2, <3>2 DEF now
      <4> QED
        BY <2>4, <4>1 DEF Gentle
    <3> QED
      BY <3>1, <3>2
  <2> QED
    BY <2>2, <2>4, <2>5 DEF Gentle
<1>3. ASSUME NEW c \in Callers, CallStep(c)
      PROVE  fee' = fee
  BY <1>3 DEF CallStep, IsSupportEIP1559, Lookup, Ask, AskFails, Store, SignNewTx
<1> QED
  BY <1>1, <1>2, <1>3 DEF Next, vars

(* Five rises by one eighth stay below the doubling.                        *)
LEMMA FiveRises ==
  ASSUME NEW f \in Seq(Nat), Gentle(f), NEW i \in 1 .. Len(f),
         NEW j \in 1 .. Len(f), i <= j, j - i <= 5
  PROVE  f[j] <= 2 * f[i]
<1>1. Len(f) \in Nat /\ \A k \in 1 .. Len(f) : f[k] \in Nat
  OBVIOUS
<1> DEFINE x(k) == f[i + k]
<1>3. \A k \in 0 .. 5 : i + k <= j => x(k) \in Nat
  BY <1>1
<1>4. \A k \in 0 .. 4 : i + k + 1 <= j => 8 * x(k + 1) <= 9 * x(k)
  <2> SUFFICES ASSUME NEW k \in 0 .. 4, i + k + 1 <= j
               PROVE  8 * x(k + 1) <= 9 * x(k)
    OBVIOUS
  <2>1. i + k \in 1 .. (Len(f) - 1) /\ i + (k + 1) = (i + k) + 1
    BY <1>1
  <2> QED
    BY <2>1 DEF Gentle
<1>5. f[i] = x(0) /\ f[j] = x(j - i) /\ j - i \in 0 .. 5
  BY <1>1
<1> HIDE DEF x
<1>6. x(0) \in Nat
  BY <1>1, <1>3
<1>7. i + 1 <= j => x(1) \in Nat /\ 8 * x(1) <= 9 * x(0)
  BY <1>1, <1>3, <1>4
<1>8. i + 2 <= j => x(2) \in Nat /\ 64 * x(2) <= 81 * x(0)
  <2>1. i + 2 <= j => x(2) \in Nat /\ 8 * x(2) <= 9 * x(1) /\ i + 1 <= j
    BY <1>1, <1>3, <1>4
  <2> QED
    BY <2>1, <1>6, <1>7
<1>9. i + 3 <= j => x(3) \in Nat /\ 512 * x(3) <= 729 * x(0)
  <2>1. i + 3 <= j => x(3) \in Nat /\ 8 * x(3) <= 9 * x(2) /\ i + 2 <= j
    BY <1>1, <1>3, <1>4
  <2> QED
    BY <2>1, <1>6, <1>8
<1>10. i + 4 <= j => x(4) \in Nat /\ 4096 * x(4) <= 6561 * x(0)
  <2>1. i + 4 <= j => x(4) \in Nat /\ 8 * x(4) <= 9 * x(3) /\ i + 3 <= j
    BY <1>1, <1>3, <1>4
  <2> QED
    BY <2>1, <1>6, <1>9
<1>11. i + 5 <= j => x(5) \in Nat /\ 32768 * x(5) <= 59049 * x(0)
  <2>1. i + 5 <= j => x(5) \in Nat /\ 8 * x(5) <= 9 * x(4) /\ i + 4 <= j
    BY <1>1, <1>3, <1>4
  <2> QED
    BY <2>1, <1>6, <1>10
<1>12. \A k \in 0 .. 5 : i + k <= j => x(k) <= 2 * x(0)
  <2> SUFFICES ASSUME NEW k \in 0 .. 5, i + k <= j
               PROVE  x(k) <= 2 * x(0)
    OBVIOUS
  <2>1. CASE k \in {0, 1}
    BY <1>1, <1>6, <1>7, <2>1
  <2>2. CASE k = 2
    BY <1>6, <1>8, <2>2
  <2>3. CASE k = 3
    BY <1>6, <1>9, <2>3
  <2>4. CASE k = 4
    BY <1>6, <1>10, <2>4
  <2>5. CASE k = 5
    BY <1>6, <1>11, <2>5
  <2> QED
    BY <2>1, <2>2, <2>3, <2>4, <2>5
<1> QED
  BY <1>1, <1>5, <1>12

(* Whatever ttl and timeout are, a fee cap below the base fee of the latest *)
(* block rests on an answer that is more than five blocks old; with a       *)
(* timeout of five blocks at most, like the default one, such an answer was *)
(* given before the call began: it was read from the cache.                 *)
THEOREM UnderpricedMeansCashed == Spec => []UnderpricedOnlyFromCash
<1>1. Init => Gentle(fee)
  BY DEF Init, Gentle
<1>2. IInv /\ Gentle(fee) /\ [Next]_vars => Gentle(fee)'
  BY GentleNext DEF IInv
<1>3. ASSUME IInv, Gentle(fee)
      PROVE  UnderpricedOnlyFromCash
  <2> SUFFICES ASSUME NEW c \in Callers, Underpriced(c)
               PROVE  /\ now - got[c]["base"] > 5
                      /\ Timeout <= 5 => got[c]["base"] < started[c]
    BY DEF UnderpricedOnlyFromCash
  <2> DEFINE g == got[c]["base"]
  <2>1. g \in 1 .. now
    BY <1>3, AgeSuffices DEF AgeBounded, Cashes, Underpriced
  <2>2. fee \in Seq(Nat) /\ now \in 1 .. Len(fee)
    BY <1>3, <2>1 DEF IInv, TypeOK, now
  <2>3. fee[now] \in Nat /\ fee[g] \in Nat
    BY <2>1, <2>2 DEF now
  <2>4. ~(fee[now] <= 2 * fee[g])
    BY <2>3 DEF Underpriced, GasFee
  <2>5. now - g > 5
    BY <1>3, <2>1, <2>2, <2>4, FiveRises DEF now
  <2>6. started[c] \in 1 .. now /\ now <= started[c] + Timeout
    BY <1>3 DEF IInv, Parts, CallerInv, Busy, Underpriced
  <2> QED
    BY <2>1, <2>2, <2>5, <2>6, TimeoutAssumption
<1> QED
  BY AgeInit, AgeNext, <1>1, <1>2, <1>3, PTL DEF Spec
=============================================================================
