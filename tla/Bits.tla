-------------------------------- MODULE Bits --------------------------------
(***************************************************************************)
(* Unsigned integers of Width bits, as numbers.                            *)
(***************************************************************************)
EXTENDS Naturals

CONSTANT Width

ASSUME WidthAssumption == Width \in Nat

pow2[n \in Nat] == IF n = 0 THEN 1 ELSE 2 * pow2[n - 1]

Addresses == 0 .. pow2[Width] - 1

Bit(x, i) == (x \div pow2[i]) % 2

(* Bitwise, as C++ writes &.                                               *)
And(x, y) ==
  CHOOSE z \in Addresses :
    \A i \in 0 .. Width - 1 : Bit(z, i) = 1 <=> Bit(x, i) = 1 /\ Bit(y, i) = 1

shiftL(x, n) == (x * pow2[n]) % pow2[Width]
=============================================================================
