----------------------------- MODULE ToWeiProofs -----------------------------
(***************************************************************************)
(* Proofs about ToWei for any amounts, any number of decimals and any      *)
(* mantissa.                                                               *)
(*                                                                         *)
(* The powers are recursive functions.  That their definitions have a      *)
(* solution, and which one, is shown by induction over the naturals, which *)
(* is stated here for a set (SetInduction): it follows from the library's  *)
(* theorem that a nonempty set has a minimal element.                      *)
(***************************************************************************)
EXTENDS ToWei, WellFoundedInduction, TLAPS

-----------------------------------------------------------------------------
(* Induction.                                                               *)

(* A nonempty set of naturals has a least element.                          *)
LEMMA Least ==
  ASSUME NEW S \in SUBSET Nat, S # {}
  PROVE  \E x \in S : \A y \in S : x <= y
<1> DEFINE less == OpToRel(<, Nat)
<1>1. IsWellFoundedOn(less, Nat)
  BY NatLessThanWellFounded
<1>2. PICK x \in S : \A y \in S : <<y, x>> \notin less
  <2> HIDE DEF less
  <2> QED
    BY <1>1, WFMin
<1>3. \A y \in S : ~(y < x)
  BY <1>2 DEF OpToRel
<1> QED
  BY <1>3

(* A set that holds 0 and with each natural the next one holds them all.    *)
LEMMA SetInduction ==
  ASSUME NEW S, 0 \in S, \A n \in Nat : n \in S => n + 1 \in S
  PROVE  Nat \subseteq S
<1> SUFFICES ASSUME Nat \ S # {} PROVE FALSE
  OBVIOUS
<1>1. PICK x \in Nat \ S : \A y \in Nat \ S : x <= y
  BY Least
<1>2. x # 0 /\ x - 1 \in Nat
  BY <1>1
<1>3. x - 1 \in S
  BY <1>1, <1>2
<1>4. (x - 1) + 1 \in S
  BY <1>2, <1>3
<1> QED
  BY <1>1, <1>4

-----------------------------------------------------------------------------
(* The powers of ten.                                                       *)

(* g holds the powers of ten up to the n-th.                                *)
TenUpTo(g, n) ==
  /\ g \in [0 .. n -> Nat]
  /\ g[0] = 1
  /\ \A i \in 1 .. n : g[i] = 10 * g[i - 1]

(* For every n there is such a table.                                       *)
LEMMA TableExists == \A n \in Nat : \E g : TenUpTo(g, n)
<1> DEFINE S == {n \in Nat : \E g : TenUpTo(g, n)}
<1>1. 0 \in S
  <2>1. TenUpTo([i \in 0 .. 0 |-> 1], 0)
    BY DEF TenUpTo
  <2> QED
    BY <2>1
<1>2. ASSUME NEW n \in Nat, n \in S PROVE n + 1 \in S
  <2>1. PICK g : TenUpTo(g, n)
    BY <1>2
  <2> DEFINE h == [i \in 0 .. n + 1 |-> IF i = n + 1 THEN 10 * g[n] ELSE g[i]]
  <2>2. n \in 0 .. n /\ g[n] \in Nat
    BY <2>1 DEF TenUpTo
  <2>3. h \in [0 .. n + 1 -> Nat] /\ h[0] = 1
    BY <2>1, <2>2 DEF TenUpTo
  <2>4. ASSUME NEW i \in 1 .. n + 1 PROVE h[i] = 10 * h[i - 1]
    <3>1. i - 1 \in 0 .. n /\ i - 1 # n + 1 /\ h[i - 1] = g[i - 1]
      OBVIOUS
    <3>2. CASE i = n + 1
      BY <3>1, <3>2
    <3>3. CASE i # n + 1
      BY <3>1, <3>3, <2>1 DEF TenUpTo
    <3> QED
      BY <3>2, <3>3
  <2>5. TenUpTo(h, n + 1)
    BY <2>3, <2>4 DEF TenUpTo
  <2> QED
    BY <2>5
<1>3. Nat \subseteq S
  <2> HIDE DEF S
  <2> QED
    BY <1>1, <1>2, SetInduction
<1> QED
  BY <1>3

(* Two tables agree as far as both go.                                      *)
LEMMA TablesAgree ==
  ASSUME NEW m \in Nat, NEW n \in Nat, NEW g, NEW h,
         TenUpTo(g, m), TenUpTo(h, n), m <= n
  PROVE  \A i \in 0 .. m : g[i] = h[i]
<1> DEFINE S == {i \in Nat : i <= m => g[i] = h[i]}
<1>1. 0 \in S
  BY DEF TenUpTo
<1>2. ASSUME NEW i \in Nat, i \in S PROVE i + 1 \in S
  BY <1>2 DEF TenUpTo
<1>3. Nat \subseteq S
  <2> HIDE DEF S
  <2> QED
    BY <1>1, <1>2, SetInduction
<1> QED
  BY <1>3

(* The equation that defines TenTo holds of it.                             *)
LEMMA TenToDef ==
  TenTo = [n \in Nat |-> IF n = 0 THEN 1 ELSE 10 * TenTo[n - 1]]
<1> DEFINE table[n \in Nat] == CHOOSE g : TenUpTo(g, n)
           ten == [n \in Nat |-> table[n][n]]
<1>1. ASSUME NEW n \in Nat PROVE TenUpTo(table[n], n)
  BY TableExists
<1>2. ten[0] = 1
  BY <1>1 DEF TenUpTo
<1>3. ASSUME NEW n \in Nat, n # 0 PROVE ten[n] = 10 * ten[n - 1]
  <2>1. n - 1 \in Nat /\ n - 1 <= n /\ n \in 1 .. n /\ n - 1 \in 0 .. n - 1
    BY <1>3
  <2>2. TenUpTo(table[n], n) /\ TenUpTo(table[n - 1], n - 1)
    BY <1>1, <2>1
  <2> HIDE DEF table
  <2>3. table[n - 1][n - 1] = table[n][n - 1]
    BY <2>1, <2>2, TablesAgree
  <2>4. table[n][n] = 10 * table[n][n - 1]
    BY <2>1, <2>2 DEF TenUpTo
  <2> QED
    BY <2>1, <2>3, <2>4
<1>4. ten = [n \in Nat |-> IF n = 0 THEN 1 ELSE 10 * ten[n - 1]]
  <2> DEFINE right == [n \in Nat |-> IF n = 0 THEN 1 ELSE 10 * ten[n - 1]]
  <2>1. \A n \in Nat : ten[n] = right[n]
    <3> HIDE DEF ten
    <3> QED
      BY <1>2, <1>3
  <2> QED
    BY <2>1
<1> HIDE DEF ten
<1> QED
  BY <1>4 DEF TenTo

(* Its two cases, in the form the proofs use.                               *)
LEMMA TenToCases ==
  /\ TenTo[0] = 1
  /\ \A n \in Nat : TenTo[n + 1] = 10 * TenTo[n]
BY TenToDef

LEMMA TenToPositive == \A n \in Nat : TenTo[n] \in Nat \ {0}
<1> DEFINE S == {n \in Nat : TenTo[n] \in Nat \ {0}}
<1>1. 0 \in S
  BY TenToCases
<1>2. ASSUME NEW n \in Nat, n \in S PROVE n + 1 \in S
  BY <1>2, TenToCases
<1>3. Nat \subseteq S
  <2> HIDE DEF S
  <2> QED
    BY <1>1, <1>2, SetInduction
<1> QED
  BY <1>3

(* Exponents add up.                                                        *)
LEMMA TenToSum ==
  ASSUME NEW m \in Nat, NEW n \in Nat
  PROVE  TenTo[m + n] = TenTo[m] * TenTo[n]
<1> DEFINE S == {i \in Nat : TenTo[m + i] = TenTo[m] * TenTo[i]}
<1>1. 0 \in S
  BY TenToCases, TenToPositive
<1>2. ASSUME NEW i \in Nat, i \in S PROVE i + 1 \in S
  <2>1. TenTo[m + (i + 1)] = 10 * TenTo[m + i]
    <3>1. m + i \in Nat /\ m + (i + 1) = (m + i) + 1
      OBVIOUS
    <3> QED
      BY <3>1, TenToCases
  <2>2. TenTo[i + 1] = 10 * TenTo[i]
    BY TenToCases
  <2>3. TenTo[m + i] = TenTo[m] * TenTo[i]
    BY <1>2
  <2>4. TenTo[m] \in Nat /\ TenTo[i] \in Nat
    BY TenToPositive
  <2>5. 10 * (TenTo[m] * TenTo[i]) = TenTo[m] * (10 * TenTo[i])
    BY <2>4
  <2> QED
    BY <2>1, <2>2, <2>3, <2>5
<1>3. Nat \subseteq S
  <2> HIDE DEF S
  <2> QED
    BY <1>1, <1>2, SetInduction
<1> QED
  BY <1>3

-----------------------------------------------------------------------------
(* The power of decimals.                                                   *)

(* Halving the exponent and squaring gives the power that was asked for.    *)
LEMMA PowIsTenTo == \A n \in Nat : Pow[n] = Decimal(1, n)
<1> DEFINE body(p, n) ==
             IF n = 0 THEN Decimal(1, 0)
             ELSE LET half == p[n \div 2]
                  IN IF n % 2 = 0 THEN Mul(half, half)
                     ELSE Mul(Mul(half, half), Ten)
           closed == [n \in Nat |-> Decimal(1, n)]
<1>1. closed = [n \in Nat |-> body(closed, n)]
  <2>1. ASSUME NEW n \in Nat PROVE Decimal(1, n) = body(closed, n)
    <3>1. CASE n = 0
      BY <3>1
    <3>2. CASE n # 0
      <4>1. n \div 2 \in Nat /\ n % 2 \in {0, 1} /\ n = 2 * (n \div 2) + (n % 2)
        OBVIOUS
      <4>2. closed[n \div 2] = Decimal(1, n \div 2)
        BY <4>1
      <4> HIDE DEF closed
      <4> QED
        BY <3>2, <4>1, <4>2 DEF Mul, Decimal, Ten
    <3> QED
      BY <3>1, <3>2
  <2> QED
    BY <2>1
<1>2. Pow = [n \in Nat |-> body(Pow, n)]
  <2>1. \E p : p = [n \in Nat |-> body(p, n)]
    BY <1>1
  <2> QED
    BY <2>1 DEF Pow
<1>3. ASSUME NEW n \in Nat, \A i \in Nat : i < n => Pow[i] = Decimal(1, i)
      PROVE  Pow[n] = Decimal(1, n)
  <2>1. closed[n] = body(closed, n) /\ Pow[n] = body(Pow, n)
    BY <1>1, <1>2
  <2>2. n # 0 => n \div 2 \in Nat /\ n \div 2 < n
    OBVIOUS
  <2>3. n # 0 => Pow[n \div 2] = closed[n \div 2]
    BY <1>3, <2>2
  <2> HIDE DEF closed
  <2>4. body(closed, n) = body(Pow, n)
    BY <2>3
  <2> QED
    BY <2>1, <2>4 DEF closed
<1> DEFINE S == {n \in Nat : Pow[n] # Decimal(1, n)}
<1>4. S = {}
  <2> SUFFICES ASSUME S # {} PROVE FALSE
    OBVIOUS
  <2>1. PICK n \in S : \A i \in S : n <= i
    BY Least
  <2> QED
    BY <1>3, <2>1
<1> QED
  BY <1>4

-----------------------------------------------------------------------------
(* What a call returns.                                                     *)

(* The last call returned one of the amounts ToWei gives for its arguments. *)
Answered ==
  /\ call.type \in Types
  /\ call.amount \in Amounts
  /\ call.decimals \in Nat
  /\ call.type = "int64" => call.amount.exp = 0
  /\ call.wei \in ToWei(call.type, call.amount, call.decimals)

CallInv == call = NoCall \/ Answered

LEMMA CallInvariant == Spec => []CallInv
<1>1. Init => CallInv
  BY DEF Init, CallInv
<1>2. ASSUME CallInv, [Next]_call PROVE CallInv'
  <2>1. CASE Next
    <3>1. PICK type \in Types, amount \in Amounts, decimals \in 0 .. MaxDecimals :
            /\ type = "int64" => amount.exp = 0
            /\ \E wei \in ToWei(type, amount, decimals) :
                 call' = [type |-> type, amount |-> amount,
                          decimals |-> decimals, wei |-> wei]
      BY <2>1 DEF Next
    <3>2. PICK wei \in ToWei(type, amount, decimals) :
            call' = [type |-> type, amount |-> amount,
                     decimals |-> decimals, wei |-> wei]
      BY <3>1
    <3>3. /\ call'.type = type /\ call'.amount = amount
          /\ call'.decimals = decimals /\ call'.wei = wei
      BY <3>2
    <3>4. decimals \in Nat
      BY BoundsAssumption
    <3>5. Answered'
      BY <3>1, <3>3, <3>4 DEF Answered
    <3> QED
      BY <3>5 DEF CallInv
  <2>2. CASE UNCHANGED call
    BY <1>2, <2>2 DEF CallInv, Answered
  <2> QED
    BY <1>2, <2>1, <2>2
<1> QED
  BY <1>1, <1>2, PTL DEF Spec

(* Multiplying with the power only moves the exponent.                      *)
LEMMA Product ==
  ASSUME NEW a, a.coef \in Int, a.exp \in Int, NEW n \in Nat
  PROVE  Mul(a, Pow[n]) = Decimal(a.coef, a.exp + n)
<1>1. Pow[n] = Decimal(1, n)
  BY PowIsTenTo
<1>2. Mul(a, Decimal(1, n)) = Decimal(a.coef * 1, a.exp + n)
  BY DEF Mul, Decimal
<1> QED
  BY <1>1, <1>2

(* wei units of size unit are the amount asked, cut towards zero.           *)
NotMore(wei, unit, asked) ==
  /\ Abs(wei) * unit <= Abs(asked)
  /\ wei > 0 => asked > 0
  /\ wei < 0 => asked < 0

Cut(wei, unit, asked) ==
  NotMore(wei, unit, asked) /\ Abs(asked) < (Abs(wei) + 1) * unit

LEMMA AbsTimes ==
  ASSUME NEW a \in Int, NEW p \in Nat
  PROVE  Abs(a * p) = Abs(a) * p
<1>1. CASE a >= 0
  <2>1. a * p >= 0
    BY <1>1
  <2> QED
    BY <1>1, <2>1 DEF Abs
<1>2. CASE a < 0
  <2>1. a * p <= 0 /\ (-a) * p = -(a * p)
    BY <1>2
  <2> QED
    BY <1>2, <2>1 DEF Abs
<1> QED
  BY <1>1, <1>2

LEMMA AbsType == \A a \in Int : Abs(a) \in Nat
BY DEF Abs

LEMMA ExactCut ==
  ASSUME NEW wei \in Int, NEW unit \in Nat \ {0}
  PROVE  Cut(wei, unit, wei * unit)
<1>1. Abs(wei * unit) = Abs(wei) * unit /\ Abs(wei) \in Nat
  BY AbsTimes, AbsType
<1>2. (Abs(wei) + 1) * unit = Abs(wei) * unit + unit
  BY <1>1
<1>3. Abs(wei) * unit \in Nat
  BY <1>1
<1>4. (wei > 0 => wei * unit > 0) /\ (wei < 0 => wei * unit < 0)
  OBVIOUS
<1> QED
  BY <1>1, <1>2, <1>3, <1>4 DEF Cut, NotMore

(* Of coef / q whole units are kept, a unit being q * p.                    *)
LEMMA FractionCut ==
  ASSUME NEW coef \in Int, NEW q \in Nat \ {0}, NEW p \in Nat \ {0}, NEW wei,
         LET whole == Abs(coef) \div q
         IN wei = IF coef < 0 THEN -whole ELSE whole
  PROVE  Cut(wei, q * p, coef * p)
<1> DEFINE whole == Abs(coef) \div q
<1>1. /\ Abs(coef) \in Nat
      /\ whole \in Nat
      /\ whole * q <= Abs(coef)
      /\ Abs(coef) < (whole + 1) * q
  BY AbsType
<1>2. wei = IF coef < 0 THEN -whole ELSE whole
  OBVIOUS
<1> HIDE DEF whole
<1>3. wei \in Int /\ Abs(wei) = whole
  BY <1>1, <1>2 DEF Abs
<1>4. Abs(coef * p) = Abs(coef) * p
  BY AbsTimes
<1>5. (whole * q) * p <= Abs(coef) * p
  BY <1>1
<1>6. Abs(coef) * p < ((whole + 1) * q) * p
  BY <1>1
<1>7. (whole * q) * p = whole * (q * p) /\ ((whole + 1) * q) * p = (whole + 1) * (q * p)
  BY <1>1
<1>8. wei > 0 => coef > 0
  BY <1>1, <1>2 DEF Abs
<1>9. wei < 0 => coef < 0
  BY <1>1, <1>2
<1>10. (coef > 0 => coef * p > 0) /\ (coef < 0 => coef * p < 0)
  OBVIOUS
<1> QED
  BY <1>3, <1>4, <1>5, <1>6, <1>7, <1>8, <1>9, <1>10 DEF Cut, NotMore

(* The unit of an amount with this exponent, 1 unless it has a fraction.    *)
ShiftOf(exp) == IF exp < 0 THEN -exp ELSE 0

(* SetString keeps the whole units of any amount.                           *)
LEMMA SetStringCuts ==
  ASSUME NEW coef \in Int, NEW exp \in Int, NEW n \in Nat
  PROVE  Cut(SetString(Decimal(coef, exp + n)), TenTo[ShiftOf(exp)],
             coef * TenTo[exp + n + ShiftOf(exp)])
<1> DEFINE d == Decimal(coef, exp + n)
           s == ShiftOf(exp)
<1>0. d.coef = coef /\ d.exp = exp + n
  BY DEF Decimal
<1>1. s \in Nat
  BY DEF ShiftOf
<1>2. CASE exp + n >= 0
  <2>1. exp + n \in Nat
    BY <1>2
  <2>2. SetString(d) = coef * TenTo[exp + n]
    BY <1>0, <1>2 DEF SetString
  <2> HIDE DEF s, d
  <2>3. TenTo[exp + n] \in Nat \ {0} /\ TenTo[s] \in Nat \ {0}
    BY <1>1, <2>1, TenToPositive
  <2>4. TenTo[exp + n + s] = TenTo[exp + n] * TenTo[s]
    BY <1>1, <2>1, TenToSum
  <2>5. coef * (TenTo[exp + n] * TenTo[s]) = (coef * TenTo[exp + n]) * TenTo[s]
    BY <2>3
  <2>6. Cut(coef * TenTo[exp + n], TenTo[s], (coef * TenTo[exp + n]) * TenTo[s])
    <3>1. coef * TenTo[exp + n] \in Int
      BY <2>3
    <3> QED
      BY <2>3, <3>1, ExactCut
  <2> QED
    BY <2>2, <2>4, <2>5, <2>6 DEF s, d
<1>3. CASE exp + n < 0
  <2>1. s = -exp /\ -(exp + n) \in Nat /\ exp + n + s = n
    BY <1>3 DEF ShiftOf
  <2> DEFINE q == TenTo[-(exp + n)]
             p == TenTo[n]
  <2>2. q \in Nat \ {0} /\ p \in Nat \ {0}
    BY <2>1, TenToPositive
  <2>3. TenTo[s] = q * p
    <3>1. s = (-(exp + n)) + n
      BY <2>1
    <3> QED
      BY <2>1, <3>1, TenToSum
  <2>4. LET whole == Abs(coef) \div q
        IN SetString(d) = IF coef < 0 THEN -whole ELSE whole
    BY <1>0, <1>3 DEF SetString
  <2> HIDE DEF q, p, d
  <2>5. Cut(SetString(d), q * p, coef * p)
    BY <2>2, <2>4, FractionCut
  <2> QED
    BY <2>1, <2>3, <2>5 DEF p, d
<1> QED
  BY <1>2, <1>3

(* For every amount and any decimals, the wei are the amount asked for cut  *)
(* towards zero, and 0 if the argument was not understood.                  *)
THEOREM AlwaysCutsTowardsZero == Spec => []CutsTowardsZero
<1>1. ASSUME CallInv PROVE CutsTowardsZero
  <2>1. CASE call = NoCall
    <3>1. /\ call.type = "none" /\ call.wei = 0 /\ call.decimals = 0
          /\ call.amount.coef = 0 /\ call.amount.exp = 0
      BY <2>1 DEF NoCall, Zero, Decimal
    <3>2. Shift = 0 /\ Asked = 0 /\ TenTo[0] = 1
      BY <3>1, TenToCases DEF Shift, Asked
    <3> QED
      BY <3>1, <3>2 DEF CutsTowardsZero, Abs
  <2>2. CASE Answered /\ call.type # "int64"
    <3> DEFINE a == call.amount
               n == call.decimals
    <3>1. n \in Nat /\ a \in Amounts
      BY <2>2 DEF Answered
    <3>2. a.coef \in Int /\ a.exp \in Int
      BY <3>1, AmountsAssumption
    <3>3. Shift = ShiftOf(a.exp) /\ Shift \in Nat
      BY <3>2 DEF Shift, ShiftOf
    <3>4. Asked = a.coef * TenTo[a.exp + n + ShiftOf(a.exp)] /\ Asked \in Int
      <4>1. a.exp + n + ShiftOf(a.exp) \in Nat
        BY <3>1, <3>2 DEF ShiftOf
      <4>2. TenTo[a.exp + n + ShiftOf(a.exp)] \in Nat
        BY <4>1, TenToPositive
      <4> QED
        BY <3>2, <3>3, <4>2 DEF Asked
    <3>5. PICK b \in Amount(call.type, a) : call.wei = SetString(Mul(b, Pow[n]))
      BY <2>2 DEF Answered, ToWei
    <3>6. CASE call.type \in {"string", "float64", "Decimal", "*Decimal"}
      <4>1. b = a
        BY <3>5, <3>6 DEF Amount
      <4>2. call.wei = SetString(Decimal(a.coef, a.exp + n))
        BY <3>1, <3>2, <3>5, <4>1, Product
      <4>3. Cut(call.wei, TenTo[Shift], Asked)
        BY <3>1, <3>2, <3>3, <3>4, <4>2, SetStringCuts
      <4> QED
        BY <4>3 DEF Cut, NotMore, CutsTowardsZero
    <3>7. CASE call.type \notin {"string", "float64", "Decimal", "*Decimal"}
      <4>1. b = Zero
        BY <2>2, <3>5, <3>7 DEF Amount
      <4>2. b.coef = 0 /\ b.exp = 0
        BY <4>1 DEF Zero, Decimal
      <4>3. call.wei = SetString(Decimal(0, 0 + n))
        BY <3>1, <3>5, <4>2, Product
      <4>4. call.wei = 0
        <5>1. TenTo[0 + n] \in Nat
          BY <3>1, TenToPositive
        <5> QED
          BY <3>1, <4>3, <5>1 DEF SetString, Decimal
      <4>5. Abs(call.wei) * TenTo[Shift] = 0
        <5>1. TenTo[Shift] \in Nat
          BY <3>3, TenToPositive
        <5> QED
          BY <4>4, <5>1 DEF Abs
      <4>6. Abs(Asked) >= 0
        BY <3>4, AbsType
      <4> QED
        BY <3>7, <4>4, <4>5, <4>6 DEF CutsTowardsZero
    <3> QED
      BY <3>6, <3>7
  <2>3. CASE call.type = "int64"
    BY <2>3 DEF CutsTowardsZero
  <2> QED
    BY <1>1, <2>1, <2>2, <2>3 DEF CallInv
<1> QED
  BY CallInvariant, <1>1, PTL

-----------------------------------------------------------------------------
(* The two roundings of an int64.                                           *)

(* Half a unit off at most, and no float64 is passed on the way.            *)
LEMMA NearestNear ==
  ASSUME NEW n \in Nat, NEW u \in Nat \ {0}
  PROVE  /\ Nearest(n, u) \in Nat /\ \E i \in Nat : Nearest(n, u) = i * u
         /\ 2 * (Nearest(n, u) - n) <= u /\ 2 * (n - Nearest(n, u)) <= u
         /\ \A i \in Nat : i * u <= n => i * u <= Nearest(n, u)
<1> DEFINE q == n \div u
           r == n % u
<1>1. q \in Nat /\ r \in Nat /\ r < u /\ n = q * u + r
  OBVIOUS
<1>2. \/ Nearest(n, u) = q * u /\ 2 * r <= u
      \/ Nearest(n, u) = (q + 1) * u /\ 2 * r >= u
  BY <1>1 DEF Nearest
<1> HIDE DEF q, r
<1>3. (q + 1) * u = q * u + u /\ q * u \in Nat
  BY <1>1
<1>4. ASSUME NEW i \in Nat, i * u <= n PROVE i * u <= q * u
  <2>1. i * u < (q + 1) * u
    BY <1>1, <1>3, <1>4
  <2>2. i < q + 1
    BY <1>1, <2>1
  <2>3. i <= q
    BY <1>1, <2>2
  <2> QED
    BY <1>1, <2>3
<1>6. Nearest(n, u) \in Nat /\ q * u <= Nearest(n, u) /\ Nearest(n, u) <= (q + 1) * u
  BY <1>1, <1>2, <1>3
<1>7. 2 * (Nearest(n, u) - n) <= u /\ 2 * (n - Nearest(n, u)) <= u
  BY <1>1, <1>2, <1>3
<1>9. \E i \in Nat : Nearest(n, u) = i * u
  <2>1. q \in Nat /\ q + 1 \in Nat
    BY <1>1
  <2> QED
    BY <1>2, <2>1
<1>8. ASSUME NEW i \in Nat, i * u <= n PROVE i * u <= Nearest(n, u)
  BY <1>1, <1>4, <1>6, <1>8
<1> QED
  BY <1>6, <1>7, <1>8, <1>9

(* The unit of n fits it: a half of the mantissa at least, unless it is 1.  *)
LEMMA UlpFits ==
  ASSUME NEW n \in Nat, NEW u \in Ulp(n)
  PROVE  /\ u \in Nat \ {0}
         /\ n < Exact * u
         /\ u = 1 \/ (u >= 2 /\ Exact * u <= 2 * n)
         /\ n < Exact <=> u = 1
<1>1. /\ u \in Nat \ {0} /\ (u = 1 \/ u % 2 = 0)
      /\ Exact \in Nat /\ Exact >= 4
  BY MantissaAssumption DEF Ulp
<1>2. n < Exact * u /\ (u = 1 \/ Exact * u <= 2 * n)
  BY DEF Ulp
<1>3. u = 1 \/ u >= 2
  BY <1>1
<1>4. u >= 2 => Exact * u >= 2 * Exact
  BY <1>1
<1>5. Exact * u \in Nat /\ Exact * 1 = Exact
  BY <1>1
<1> QED
  BY <1>1, <1>2, <1>3, <1>4, <1>5

(* Where the float64 of a large number lies: in the same binade, and a      *)
(* whole unit above the lower end if the number was rounded up.             *)
LEMMA Binade ==
  ASSUME NEW n \in Nat, NEW u \in Ulp(n), u # 1
  PROVE  /\ Exact * u <= 2 * Nearest(n, u)
         /\ Nearest(n, u) > n => Exact * u + u <= 2 * n
<1>1. u \in Nat \ {0} /\ Exact * u <= 2 * n
  BY UlpFits
<1>2. Exact \in Nat /\ Exact % 2 = 0
  BY MantissaAssumption
<1> DEFINE half == Exact \div 2
<1>3. half \in Nat /\ Exact = 2 * half
  BY <1>2
<1> HIDE DEF half
<1>4. Exact * u = 2 * (half * u) /\ half * u \in Nat
  BY <1>1, <1>3
<1>5. half * u <= n
  BY <1>1, <1>4
<1>6. half * u <= Nearest(n, u)
  BY <1>1, <1>3, <1>5, NearestNear
<1>7. PICK i \in Nat : Nearest(n, u) = i * u
  BY <1>1, NearestNear
<1>8. 2 * (Nearest(n, u) - n) <= u /\ Nearest(n, u) \in Nat
  BY <1>1, NearestNear
<1>9. ASSUME Nearest(n, u) > n PROVE Exact * u + u <= 2 * n
  <2>1. half * u < i * u
    BY <1>4, <1>5, <1>7, <1>8, <1>9
  <2>2. half < i
    BY <1>1, <1>3, <1>7, <2>1
  <2>3. half + 1 <= i
    BY <1>3, <1>7, <2>2
  <2>4. (half + 1) * u <= i * u
    BY <1>1, <1>3, <1>7, <2>3
  <2>5. (half + 1) * u = half * u + u
    BY <1>1, <1>3
  <2> QED
    BY <1>1, <1>4, <1>7, <1>8, <2>4, <2>5
<1> QED
  BY <1>4, <1>6, <1>8, <1>9

(* Two numbers with the same float64 are near each other.                   *)
LEMMA SameFloat ==
  ASSUME NEW n \in Nat, NEW m \in Nat, NEW f, f \in Float64(n), f \in Float64(m)
  PROVE  /\ Abs(m - n) * Exact <= 2 * n
         /\ n < Exact => m = n
<1>1. PICK u \in Ulp(n) : f = Nearest(n, u)
  BY DEF Float64
<1>2. PICK w \in Ulp(m) : f = Nearest(m, w)
  BY DEF Float64
<1>0. Exact \in Nat /\ Exact >= 4
  BY MantissaAssumption
<1>3. /\ u \in Nat \ {0} /\ n < Exact * u
      /\ u = 1 \/ (u >= 2 /\ Exact * u <= 2 * n)
      /\ n < Exact <=> u = 1
  BY UlpFits
<1>4. /\ w \in Nat \ {0} /\ m < Exact * w
      /\ w = 1 \/ (w >= 2 /\ Exact * w <= 2 * m)
      /\ m < Exact <=> w = 1
  BY UlpFits
<1>5. /\ f \in Nat
      /\ 2 * (f - n) <= u /\ 2 * (n - f) <= u
      /\ 2 * (f - m) <= w /\ 2 * (m - f) <= w
  BY <1>1, <1>2, <1>3, <1>4, NearestNear
<1>6. /\ u # 1 => Exact * u <= 2 * f /\ (f > n => Exact * u + u <= 2 * n)
      /\ w # 1 => Exact * w <= 2 * f
  BY <1>1, <1>2, Binade
<1>7. /\ Exact * u \in Nat /\ Exact * w \in Nat
      /\ u >= 2 => Exact * u >= 2 * Exact
      /\ w >= 2 => Exact * w >= 2 * Exact
  BY <1>0, <1>3, <1>4
<1>8. ASSUME n < Exact PROVE m = n
  <2>1. u = 1 /\ f = n
    BY <1>3, <1>5, <1>8
  <2>2. w = 1
    BY <1>0, <1>4, <1>6, <1>7, <1>8, <2>1
  <2> QED
    BY <1>5, <2>1, <2>2
<1>9. ASSUME ~(n < Exact) PROVE Abs(m - n) * Exact <= 2 * n
  <2>1. u >= 2 /\ Exact * u <= 2 * n /\ f >= Exact
    BY <1>0, <1>3, <1>5, <1>6, <1>7, <1>9
  <2>2. w >= 2 /\ Exact * w <= 2 * f
    BY <1>0, <1>4, <1>5, <1>6, <2>1
  <2>3. Exact * u + Exact * w <= 4 * n
    <3>1. CASE f <= n
      BY <1>5, <1>7, <2>1, <2>2, <3>1
    <3>2. CASE f > n
      BY <1>3, <1>5, <1>6, <1>7, <2>1, <2>2, <3>2
    <3> QED
      BY <1>5, <3>1, <3>2
  <2> DEFINE e == Abs(m - n)
  <2>4. e \in Nat /\ 2 * e <= u + w
    BY <1>3, <1>4, <1>5 DEF Abs
  <2> HIDE DEF e
  <2>5. (2 * e) * Exact <= (u + w) * Exact
    BY <1>0, <1>3, <1>4, <2>4
  <2>6. (2 * e) * Exact = 2 * (e * Exact) /\ (u + w) * Exact = Exact * u + Exact * w
    BY <1>0, <1>3, <1>4, <2>4
  <2>7. e * Exact \in Nat
    BY <1>0, <2>4
  <2>8. e * Exact <= 2 * n
    BY <1>7, <2>3, <2>5, <2>6, <2>7
  <2> QED
    BY <2>8 DEF e
<1>10. n < Exact => Abs(m - n) * Exact <= 2 * n
  BY <1>0, <1>8 DEF Abs
<1> QED
  BY <1>8, <1>9, <1>10

(* The float64 of an int64 and its shortest decimal have the sign of it.    *)
LEMMA FloatsNear ==
  ASSUME NEW v \in Int, NEW g \in Floats(v)
  PROVE  /\ g \in Int
         /\ Abs(g - v) * Exact <= 2 * Abs(v)
         /\ Abs(v) < Exact => g = v
<1>0. PICK f \in Float64(Abs(v)) :
        \E m \in Shortest(f) : g = IF v < 0 THEN -m ELSE m
  BY DEF Floats
<1>1. PICK m \in Shortest(f) : g = IF v < 0 THEN -m ELSE m
  BY <1>0
<1>2. PICK k \in 0 .. Digits : m \in Reading(f, k)
  BY <1>1 DEF Shortest
<1>4. Abs(v) \in Nat
  BY AbsType
<1>3. f \in Float64(m) /\ m \in Nat
  <2>1. f \in Nat
    <3>1. PICK u \in Ulp(Abs(v)) : f = Nearest(Abs(v), u)
      BY DEF Float64
    <3> QED
      BY <1>4, <3>1, UlpFits, NearestNear
  <2>2. k \in Nat /\ TenTo[k] \in Nat \ {0}
    BY BoundsAssumption, TenToPositive
  <2>3. f \div TenTo[k] \in Nat
    BY <2>1, <2>2
  <2> QED
    BY <1>2, <2>2, <2>3 DEF Reading
<1>5. Abs(m - Abs(v)) * Exact <= 2 * Abs(v) /\ (Abs(v) < Exact => m = Abs(v))
  BY <1>3, <1>4, SameFloat
<1>6. g \in Int /\ Abs(g - v) = Abs(m - Abs(v))
  BY <1>1, <1>3 DEF Abs
<1>7. m = Abs(v) => g = v
  BY <1>1 DEF Abs
<1> QED
  BY <1>5, <1>6, <1>7

(* For every int64 and any decimals, the wei are exact below the mantissa   *)
(* and relatively as near as two roundings to it allow beyond.              *)
THEOREM AlwaysNearlyExact == Spec => []IntegersNearlyExact
<1>1. ASSUME CallInv PROVE IntegersNearlyExact
  <2>1. CASE call = NoCall
    BY <2>1 DEF NoCall, IntegersNearlyExact
  <2>2. CASE Answered /\ call.type = "int64"
    <3> DEFINE c == call.amount.coef
               n == call.decimals
               p == TenTo[n]
    <3>1. n \in Nat /\ call.amount \in Amounts /\ call.amount.exp = 0
      BY <2>2 DEF Answered
    <3>2. c \in Int /\ p \in Nat \ {0}
      BY <3>1, AmountsAssumption, TenToPositive
    <3>3. Asked = c * p
      BY <3>1 DEF Shift, Asked
    <3>4. PICK b \in Amount("int64", call.amount) : call.wei = SetString(Mul(b, Pow[n]))
      BY <2>2 DEF Answered, ToWei
    <3>5. PICK f \in Floats(c) : b = Decimal(f, 0)
      BY <3>4 DEF Amount
    <3>6. /\ f \in Int
          /\ Abs(f - c) * Exact <= 2 * Abs(c)
          /\ Abs(c) < Exact => f = c
      BY <3>2, <3>5, FloatsNear
    <3>7. call.wei = f * p
      <4>1. b.coef = f /\ b.exp = 0
        BY <3>5 DEF Decimal
      <4>2. call.wei = SetString(Decimal(f, 0 + n))
        BY <3>1, <3>4, <3>6, <4>1, Product
      <4> QED
        BY <3>1, <4>2 DEF SetString, Decimal
    <3> HIDE DEF c, p
    <3>8. call.wei - Asked = (f - c) * p
      BY <3>2, <3>3, <3>6, <3>7
    <3>9. Abs(call.wei - Asked) = Abs(f - c) * p /\ Abs(Asked) = Abs(c) * p
      <4>1. f - c \in Int /\ p \in Nat
        BY <3>2, <3>6
      <4> QED
        BY <3>2, <3>3, <3>8, <4>1, AbsTimes
    <3>0. Exact \in Nat /\ Abs(f - c) \in Nat /\ Abs(c) \in Nat
      BY <3>2, <3>6, MantissaAssumption, AbsType
    <3>10. (Abs(f - c) * Exact) * p <= (2 * Abs(c)) * p
      <4>1. Abs(f - c) * Exact \in Int /\ 2 * Abs(c) \in Int
        BY <3>0
      <4> QED
        BY <3>2, <3>6, <4>1
    <3>11. /\ (Abs(f - c) * Exact) * p = (Abs(f - c) * p) * Exact
           /\ (2 * Abs(c)) * p = 2 * (Abs(c) * p)
      BY <3>0, <3>2
    <3>12. Abs(c) < Exact => call.wei = Asked
      BY <3>3, <3>6, <3>7
    <3> QED
      BY <3>9, <3>10, <3>11, <3>12 DEF IntegersNearlyExact, c
  <2>3. CASE call.type # "int64"
    BY <2>3 DEF IntegersNearlyExact
  <2> QED
    BY <1>1, <2>1, <2>2, <2>3 DEF CallInv
<1> QED
  BY CallInvariant, <1>1, PTL
=============================================================================
