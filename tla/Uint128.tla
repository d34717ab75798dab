------------------------------ MODULE Uint128 ------------------------------
(***************************************************************************)
(* The arithmetic behind difficulties, targets and proof of work:          *)
(* util/uint128/uint128.go, the targets of util/util.go and the proof of   *)
(* work tests of block/block.go.                                           *)
(*                                                                         *)
(* A number is two limbs of W bits, 64 in the code; the algorithms do not  *)
(* depend on W, and a small W lets TLC try every pair of numbers.  An      *)
(* operation that panics returns Overflow.                                 *)
(***************************************************************************)
EXTENDS Integers

CONSTANT W

\* (What a power of two is, is arithmetic; the provers have no theory of
\* exponentiation.)
ASSUME WAssumption ==
  /\ W \in Nat \ {0}
  /\ 2^0 = 1 /\ \A n \in 0 .. W - 1 : 2^(n + 1) = 2 * 2^n

Base == 2^W
Limb == 0 .. Base - 1
Number == [hi: Limb, lo: Limb]
Overflow == [panic |-> TRUE]

From64(n) == [hi |-> 0, lo |-> n]
Largest == [hi |-> Base - 1, lo |-> Base - 1]

\* The number a pair of limbs stands for: the reference of the checks below.
Value(u) == u.hi * Base + u.lo

-----------------------------------------------------------------------------
(* Package math/bits: carries, double width products and quotients.        *)

Carry(x, y, c) == (x + y + c) \div Base
Wrap(x) == x % Base
MulHi(x, y) == (x * y) \div Base
MulLo(x, y) == (x * y) % Base
Quo(hi, lo, y) == (hi * Base + lo) \div y
Rem(hi, lo, y) == (hi * Base + lo) % y
LeadingZeros64(x) == CHOOSE n \in 0 .. W : /\ x < 2^(W - n)
                                           /\ n = W \/ x >= 2^(W - n - 1)

-----------------------------------------------------------------------------
(* uint128.go                                                              *)

Cmp(u, v) ==
  IF u = v THEN 0
  ELSE IF u.hi < v.hi \/ (u.hi = v.hi /\ u.lo < v.lo) THEN -1 ELSE 1

Cmp64(u, n) == Cmp(u, From64(n))

Add(u, v) ==
  LET c == Carry(u.lo, v.lo, 0)
  IN  IF Carry(u.hi, v.hi, c) # 0
        THEN Overflow
        ELSE [hi |-> u.hi + v.hi + c, lo |-> Wrap(u.lo + v.lo)]

Sub(u, v) ==
  LET b == IF u.lo < v.lo THEN 1 ELSE 0
  IN  IF u.hi < v.hi + b
        THEN Overflow
        ELSE [hi |-> u.hi - v.hi - b, lo |-> Wrap(u.lo - v.lo)]

Mul64(u, n) ==
  LET hi == MulHi(u.lo, n)
      p1 == MulLo(u.hi, n)
  IN  IF MulHi(u.hi, n) # 0 \/ Carry(hi, p1, 0) # 0
        THEN Overflow
        ELSE [hi |-> hi + p1, lo |-> MulLo(u.lo, n)]

\* For shifts of at most W bits, all that QuoRem uses.
Lsh(u, n) == [hi |-> Wrap(u.hi * 2^n) + u.lo \div 2^(W - n), lo |-> Wrap(u.lo * 2^n)]
Rsh(u, n) == [hi |-> u.hi \div 2^n, lo |-> u.lo \div 2^n + Wrap(u.hi * 2^(W - n))]

\* Schoolbook division, in one step when the quotient fits one limb.
Div64(u, n) ==
  IF u.hi < n
    THEN From64(Quo(u.hi, u.lo, n))
    ELSE [hi |-> u.hi \div n, lo |-> Quo(u.hi % n, u.lo, n)]

Mod64(u, n) == Rem(u.hi % n, u.lo, n)

\* The trial quotient of a two limb divisor: within one of the quotient.
TrialQuotient(u, v) ==
  LET n  == LeadingZeros64(v.hi)
      u1 == Rsh(u, 1)
      tq == Quo(u1.hi, u1.lo, Lsh(v, n).hi) \div 2^(W - 1 - n)
  IN  IF tq # 0 THEN tq - 1 ELSE tq

\* Mutant of QuoRem: a remainder equal to the divisor is left.
QuoRemStrict(u, v) ==
  IF v.hi = 0
    THEN [q |-> Div64(u, v.lo), r |-> From64(Mod64(u, v.lo))]
    ELSE LET tq == TrialQuotient(u, v)
             r  == Sub(u, Mul64(v, tq))
         IN  IF Cmp(r, v) > 0
               THEN [q |-> From64(tq + 1), r |-> Sub(r, v)]
               ELSE [q |-> From64(tq), r |-> r]

QuoRem(u, v) ==
  IF v.hi = 0
    THEN [q |-> Div64(u, v.lo), r |-> From64(Mod64(u, v.lo))]
    ELSE LET tq == TrialQuotient(u, v)
             r  == Sub(u, Mul64(v, tq))
         IN  IF Cmp(r, v) >= 0
               THEN [q |-> From64(tq + 1), r |-> Sub(r, v)]
               ELSE [q |-> From64(tq), r |-> r]

Div(u, v) == QuoRem(u, v).q

-----------------------------------------------------------------------------
(* Proof of work and targets                                               *)

\* A hash solves a block of difficulty diff (ValidPowHash, matchesDiff).
ValidPowHash(hash, diff) == Cmp(hash, Div(Largest, diff)) <= 0

\* Mutant of GetTarget: rounded up.
GetTargetUp(diff) == (Base - 1) \div diff.lo + 1

\* What a miner is sent: it looks for a hash whose high limb is below it.
GetTarget(diff) == (Base - 1) \div diff.lo
MeetsTarget(hash, target) == hash.hi < target

\* What a merge mining node makes of the target of a slave chain's job.
TargetToDiff64(t) == IF t = 0 THEN From64(1) ELSE Div64([hi |-> 0, lo |-> Base - 1], t)

=============================================================================
