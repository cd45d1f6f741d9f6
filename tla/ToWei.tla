-------------------------------- MODULE ToWei --------------------------------
(***************************************************************************)
(* ToWei (client/util.go): an amount of a currency with some decimals,     *)
(* given as a string, a float64, an int64 or a Decimal, becomes an integer *)
(* number of its smallest units.                                           *)
(*                                                                         *)
(* Decimal (shopspring) is external: a coefficient and an exponent, with   *)
(* an exact product and a power that halves its exponent.  NewFromFloat    *)
(* returns the shortest decimal that reads back as the same float64: the   *)
(* float64 amounts are given by it, an int64 is rounded twice on its way   *)
(* there.  Negative decimals, for which the power divides and rounds, and  *)
(* NaN and infinities, for which NewFromFloat panics, are left out.        *)
(***************************************************************************)
EXTENDS Integers

CONSTANTS
  Amounts,     (* amounts that are asked for, as decimals                   *)
  MaxDecimals, (* bound of the model: the argument decimals                 *)
  Exact,       (* 2^53: integers below it are float64 values                *)
  Ulps,        (* powers of two: the units in the last place of a float64   *)
  Digits       (* bound of the model: zeros at the end of a shortest decimal *)

Decimal(coef, exp) == [coef |-> coef, exp |-> exp]

ASSUME AmountsAssumption == \A a \in Amounts : a.coef \in Int /\ a.exp \in Int
ASSUME BoundsAssumption == MaxDecimals \in Nat /\ Digits \in Nat
ASSUME MantissaAssumption ==
  /\ Exact \in Nat /\ Exact >= 4 /\ Exact % 2 = 0
  /\ \A u \in Ulps : u \in Nat \ {0} /\ (u = 1 \/ u % 2 = 0)
  /\ \A a \in Amounts : \E u \in Ulps :
       /\ a.coef < Exact * u /\ -a.coef < Exact * u
       /\ u = 1 \/ Exact * u <= 2 * a.coef \/ Exact * u <= -2 * a.coef

VARIABLE call  (* the last call: its arguments and what it returned         *)

(* The types ToWei knows, a string that is no number, and all other types,  *)
(* int among them.                                                          *)
Types ==
  {"string", "float64", "int64", "Decimal", "*Decimal", "junk", "other"}

Abs(n) == IF n < 0 THEN -n ELSE n

Zero == Decimal(0, 0)
Ten == Decimal(1, 1)

Mul(a, b) == Decimal(a.coef * b.coef, a.exp + b.exp)

(* Ten.Pow(exponent): the square of half the power, once more Ten if odd.   *)
Pow[exponent \in Nat] ==
  IF exponent = 0 THEN Decimal(1, 0)
  ELSE LET half == Pow[exponent \div 2]
       IN IF exponent % 2 = 0 THEN Mul(half, half) ELSE Mul(Mul(half, half), Ten)

(* The powers of ten as integers.                                           *)
TenTo[n \in Nat] == IF n = 0 THEN 1 ELSE 10 * TenTo[n - 1]

(* Faulty variant: a float32, with a shorter mantissa.                      *)
UlpSingle(n) ==
  {u \in Ulps : n < (Exact \div 4) * u /\ (u = 1 \/ (Exact \div 4) * u <= 2 * n)}

(* The unit in the last place of the float64 next to n, the only member.    *)
Ulp(n) == {u \in Ulps : n < Exact * u /\ (u = 1 \/ Exact * u <= 2 * n)}

(* The multiple of u next to n, the even one of two.                        *)
Nearest(n, u) ==
  LET q == n \div u
      r == n % u
  IN IF 2 * r > u \/ (2 * r = u /\ q % 2 = 1) THEN (q + 1) * u ELSE q * u

(* The conversion float64(n) of a natural number, the only member.          *)
Float64(n) == {Nearest(n, u) : u \in Ulp(n)}

(* The numbers around f that end in k zeros and read back as f.             *)
Reading(f, k) ==
  LET below == (f \div TenTo[k]) * TenTo[k]
  IN {m \in {below, below + TenTo[k]} : f \in Float64(m)}

(* NewFromFloat: as few digits as read back as f, the nearest such number.  *)
Shortest(f) ==
  LET zeros == {k \in 0 .. Digits :
                  Reading(f, k) # {} /\ \A j \in k + 1 .. Digits : Reading(f, j) = {}}
      nearest(k) == {m \in Reading(f, k) : \A x \in Reading(f, k) : Abs(m - f) <= Abs(x - f)}
  IN UNION {nearest(k) : k \in zeros}

(* util.go:31: the integer that NewFromFloat(float64(v)) stands for.        *)
Floats(v) ==
  {IF v < 0 THEN -m ELSE m : m \in UNION {Shortest(f) : f \in Float64(Abs(v))}}

(* util.go:24-37: the amount by its type; what is not known, or does not    *)
(* parse, is zero.                                                          *)
Amount(type, amount) ==
  CASE type \in {"string", "float64", "Decimal", "*Decimal"} -> {amount}
    [] type = "int64" -> {Decimal(n, 0) : n \in Floats(amount.coef)}
    [] OTHER -> {Zero}

(* Faulty variant: SetString leaves zero when it fails on a fraction.       *)
SetStringZero(d) ==
  IF d.exp >= 0 THEN d.coef * TenTo[d.exp]
  ELSE IF d.coef % TenTo[-d.exp] = 0 THEN d.coef \div TenTo[-d.exp]
  ELSE 0

(* String writes an integer without a fraction; on any other number         *)
(* SetString stops at the point and reports a failure, which util.go:42     *)
(* ignores: the digits before the point are what is left in wei.            *)
SetString(d) ==
  IF d.exp >= 0 THEN d.coef * TenTo[d.exp]
  ELSE LET whole == Abs(d.coef) \div TenTo[-d.exp]
       IN IF d.coef < 0 THEN -whole ELSE whole

ToWei(type, amount, decimals) ==
  {SetString(Mul(a, Pow[decimals])) : a \in Amount(type, amount)}

NoCall == [type |-> "none", amount |-> Zero, decimals |-> 0, wei |-> 0]

Init == call = NoCall

(* An int64 has no fraction.                                                *)
Next ==
  /\ call = NoCall
  /\ \E type \in Types, amount \in Amounts, decimals \in 0 .. MaxDecimals :
       /\ type = "int64" => amount.exp = 0
       /\ \E wei \in ToWei(type, amount, decimals) :
            call' = [type |-> type, amount |-> amount, decimals |-> decimals,
                     wei |-> wei]

Spec == Init /\ [][Next]_call

-----------------------------------------------------------------------------
(* Properties.                                                              *)

(* What was asked for, in units of 10^-Shift wei.                           *)
Shift == IF call.amount.exp < 0 THEN -call.amount.exp ELSE 0
Asked == call.amount.coef * TenTo[call.amount.exp + call.decimals + Shift]

(***************************************************************************)
(* The amount in wei is never more than what was asked for, also when      *)
(* the argument was not understood.  A string, a float64 or a Decimal is   *)
(* cut towards zero, less than one unit short of it, although the product  *)
(* may have a fraction, on which SetString fails.                          *)
(***************************************************************************)
CutsTowardsZero ==
  call.type # "int64" =>
    /\ Abs(call.wei) * TenTo[Shift] <= Abs(Asked)
    /\ call.wei > 0 => Asked > 0
    /\ call.wei < 0 => Asked < 0
    /\ call.type \in {"string", "float64", "Decimal", "*Decimal"} =>
         Abs(Asked) < (Abs(call.wei) + 1) * TenTo[Shift]

(***************************************************************************)
(* An int64 goes through a float64 and its shortest decimal (util.go:31),  *)
(* and each of the two rounds.  Together they are off by no more than two  *)
(* parts in 2^53 of what was asked for, also where the one rounding        *)
(* reaches the next power of two, from which on the other may be coarser;  *)
(* below 2^53 no wei is lost.                                              *)
(***************************************************************************)
IntegersNearlyExact ==
  call.type = "int64" =>
    /\ Abs(call.wei - Asked) * Exact <= 2 * Abs(Asked)
    /\ Abs(call.amount.coef) < Exact => call.wei = Asked
=============================================================================
