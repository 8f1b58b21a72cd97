------------------------------- MODULE Words -------------------------------
(***************************************************************************)
(* The values of the generated program: the integers of Bits bits in two's *)
(* complement, and for the booleans the integers 0 and 1.                  *)
(***************************************************************************)
EXTENDS Integers

CONSTANTS Bits,         \* the width of int
          Nothing       \* what is no value

ASSUME BitsAssumption == Bits \in Nat \ {0}

Lowest == -(2 ^ (Bits - 1))
Ints   == Lowest .. 2 ^ (Bits - 1) - 1

Unsigned(n) == n % 2 ^ Bits
Wrap(n)     == Unsigned(n - Lowest) + Lowest
Truth(b)    == IF b THEN 1 ELSE 0

(* Powers, 0^0 being 1, and division that truncates towards zero.          *)
Power(x, n) == IF n = 0 THEN 1 ELSE x ^ n
Abs(n)     == IF n < 0 THEN -n ELSE n
Quot(l, r) == IF (l < 0) = (r < 0) THEN Abs(l) \div Abs(r) ELSE -(Abs(l) \div Abs(r))
=============================================================================
