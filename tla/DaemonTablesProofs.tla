------------------------- MODULE DaemonTablesProofs -------------------------
(***************************************************************************)
(* The daemon's masks and tables, for addresses of any width: comparing    *)
(* two addresses under a mask compares what is above the prefix's end, so  *)
(* the daemon finds an address in just the subnet it is in, and its tables *)
(* hold just the pairs the policy blocks.                                  *)
(***************************************************************************)
EXTENDS DaemonTables, FiniteSetTheorems, WellFoundedInduction, TLAPS

-----------------------------------------------------------------------------
(* Powers of two. *)

(* Induction: a set of numbers that is not empty has a least one.          *)
LEMMA LeastNumber ==
  ASSUME NEW S \in SUBSET Nat, S # {} PROVE \E n \in S : \A m \in S : n <= m
<1> DEFINE R == OpToRel(<, Nat)
<1>1. IsWellFoundedOn(R, Nat)
  BY NatLessThanWellFounded
<1>2. \A m, n \in Nat : m < n => <<m, n>> \in R
  BY DEF OpToRel
<1> HIDE DEF R
<1>3. \E n \in S : \A m \in S : <<m, n>> \notin R
  BY <1>1, WFMin
<1>4. PICK n \in S : \A m \in S : <<m, n>> \notin R
  BY <1>3
<1>5. \A m \in S : ~(m < n)
  BY <1>2, <1>4
<1> QED  BY <1>5

(* What is true of 0 and handed on to the next number is true of all.      *)
LEMMA Induction ==
  ASSUME NEW S, 0 \in S, \A n \in Nat : n \in S => n + 1 \in S
  PROVE  \A n \in Nat : n \in S
<1> SUFFICES ASSUME Nat \ S # {} PROVE FALSE
  OBVIOUS
<1>1. PICK n \in Nat \ S : \A m \in Nat \ S : n <= m
  BY LeastNumber
<1>2. n # 0 /\ n - 1 \in Nat
  BY <1>1
<1>3. n - 1 \in S
  BY <1>1, <1>2
<1>4. (n - 1) + 1 \in S
  BY <1>2, <1>3
<1> QED  BY <1>1, <1>4

(* The first powers of two, as far as n.                                   *)
Doubling(f, n) ==
  /\ f \in [0 .. n -> Nat] /\ f[0] = 1
  /\ \A i \in 0 .. n : i # 0 => f[i] = 2 * f[i - 1]

(* Where two such functions are both defined they agree.                   *)
LEMMA DoublingUnique ==
  ASSUME NEW m \in Nat, NEW n \in Nat, NEW f, NEW g, Doubling(f, m), Doubling(g, n)
  PROVE  \A i \in Nat : i <= m /\ i <= n => f[i] = g[i]
<1> DEFINE S == {i \in Nat : i <= m /\ i <= n => f[i] = g[i]}
<1>1. 0 \in S
  BY DEF Doubling
<1>2. ASSUME NEW i \in Nat, i \in S PROVE i + 1 \in S
  <2> SUFFICES ASSUME i + 1 <= m, i + 1 <= n PROVE f[i + 1] = g[i + 1]
    OBVIOUS
  <2>1. f[i] = g[i]
    BY <1>2
  <2>2. i + 1 \in 0 .. m /\ i + 1 \in 0 .. n /\ i + 1 # 0 /\ (i + 1) - 1 = i
    OBVIOUS
  <2> QED  BY <2>1, <2>2 DEF Doubling
<1> HIDE DEF S
<1>3. \A i \in Nat : i \in S
  BY <1>1, <1>2, Induction
<1> QED  BY <1>3 DEF S

(* There is one for every n.                                               *)
LEMMA DoublingExists == \A n \in Nat : \E f : Doubling(f, n)
<1> DEFINE S == {n \in Nat : \E f : Doubling(f, n)}
<1>1. 0 \in S
  <2> DEFINE f == [i \in 0 .. 0 |-> 1]
  <2>1. Doubling(f, 0)
    BY DEF Doubling
  <2> QED  BY <2>1
<1>2. ASSUME NEW n \in Nat, n \in S PROVE n + 1 \in S
  <2>1. PICK f : Doubling(f, n)
    BY <1>2
  <2> DEFINE g == [i \in 0 .. n + 1 |-> IF i = n + 1 THEN 2 * f[n] ELSE f[i]]
  <2>2. g \in [0 .. n + 1 -> Nat] /\ g[0] = 1
    BY <2>1 DEF Doubling
  <2>3. ASSUME NEW i \in 0 .. n + 1, i # 0 PROVE g[i] = 2 * g[i - 1]
    <3>1. i - 1 \in 0 .. n /\ i - 1 # n + 1 /\ g[i - 1] = f[i - 1]
      BY <2>3
    <3>2. CASE i = n + 1
      BY <3>1, <3>2
    <3>3. CASE i # n + 1
      BY <2>1, <2>3, <3>1, <3>3 DEF Doubling
    <3> QED  BY <3>2, <3>3
  <2>4. Doubling(g, n + 1)
    BY <2>2, <2>3 DEF Doubling
  <2> QED  BY <2>4
<1> HIDE DEF S
<1>3. \A n \in Nat : n \in S
  BY <1>1, <1>2, Induction
<1> QED  BY <1>3 DEF S

(* What the definition of pow2 says (the shifts of ClassifyZone()).        *)
LEMMA PowersOfTwo ==
  /\ pow2[0] = 1
  /\ \A n \in Nat : pow2[n] \in Nat \ {0} /\ pow2[n + 1] = 2 * pow2[n]
<1> DEFINE F(n) == CHOOSE f : Doubling(f, n)
           p == [n \in Nat |-> F(n)[n]]
<1>1. \A n \in Nat : Doubling(F(n), n)
  BY DoublingExists
<1> HIDE DEF F
<1>2. \A n \in Nat : p[n] \in Nat
  BY <1>1 DEF Doubling
<1>3. p[0] = 1
  BY <1>1 DEF Doubling
<1>4. ASSUME NEW n \in Nat PROVE p[n + 1] = 2 * p[n]
  <2>1. Doubling(F(n), n) /\ Doubling(F(n + 1), n + 1)
    BY <1>1
  <2>2. F(n)[n] = F(n + 1)[n]
    BY <2>1, DoublingUnique
  <2>3. F(n + 1)[n + 1] = 2 * F(n + 1)[n]
    <3>1. n + 1 \in 0 .. n + 1 /\ n + 1 # 0 /\ (n + 1) - 1 = n
      OBVIOUS
    <3> QED  BY <2>1, <3>1 DEF Doubling
  <2> QED  BY <2>2, <2>3
<1>5. p = [n \in Nat |-> IF n = 0 THEN 1 ELSE 2 * p[n - 1]]
  <2>1. ASSUME NEW n \in Nat PROVE p[n] = IF n = 0 THEN 1 ELSE 2 * p[n - 1]
    <3>1. CASE n = 0
      BY <1>3, <3>1
    <3>2. CASE n # 0
      <4>1. n - 1 \in Nat /\ (n - 1) + 1 = n
        BY <3>2
      <4>2. p[(n - 1) + 1] = 2 * p[n - 1]
        BY <1>4, <4>1
      <4> QED  BY <3>2, <4>1, <4>2
    <3> QED  BY <3>1, <3>2
  <2> HIDE DEF p
  <2>2. DOMAIN p = Nat /\ p = [n \in Nat |-> p[n]]
    BY DEF p
  <2> QED  BY <2>1, <2>2
<1> HIDE DEF p
<1>6. pow2 = [n \in Nat |-> IF n = 0 THEN 1 ELSE 2 * pow2[n - 1]]
  BY <1>5 DEF pow2
<1>7. pow2[0] = 1
  BY <1>6
<1>8. ASSUME NEW n \in Nat PROVE pow2[n + 1] = 2 * pow2[n]
  <2>1. n + 1 \in Nat /\ n + 1 # 0 /\ (n + 1) - 1 = n
    OBVIOUS
  <2>2. pow2[n + 1] = IF n + 1 = 0 THEN 1 ELSE 2 * pow2[(n + 1) - 1]
    BY <1>6, <2>1
  <2> QED  BY <2>1, <2>2
<1> DEFINE S == {n \in Nat : pow2[n] \in Nat \ {0}}
<1>9. 0 \in S
  BY <1>7
<1>10. ASSUME NEW n \in Nat, n \in S PROVE n + 1 \in S
  BY <1>8, <1>10
<1> HIDE DEF S
<1>11. \A n \in Nat : n \in S
  BY <1>9, <1>10, Induction
<1> QED  BY <1>7, <1>8, <1>11 DEF S

-----------------------------------------------------------------------------
(* Division. *)

(* Quotient and remainder.                                                 *)
LEMMA DivisionOf ==
  ASSUME NEW a \in Nat, NEW b \in Nat \ {0}
  PROVE  /\ a \div b \in Nat /\ a % b \in Nat /\ a % b < b
         /\ a = b * (a \div b) + (a % b)
OBVIOUS

(* A multiple of b is less only if its factor is.                          *)
LEMMA LessFactor ==
  ASSUME NEW b \in Nat \ {0}, NEW q \in Nat, NEW r \in Nat, NEW s \in Nat, NEW t \in Nat,
         r < b, b * q + r = b * s + t
  PROVE  s <= q
<1> SUFFICES ASSUME q < s PROVE FALSE
  OBVIOUS
<1>1. PICK d \in Nat : s = (q + 1) + d
  <2>1. s - (q + 1) \in Nat /\ s = (q + 1) + (s - (q + 1))
    OBVIOUS
  <2> QED  BY <2>1
<1>2. b * s = b * q + b + b * d
  BY <1>1
<1>3. b * d \in Nat /\ b * q \in Nat
  OBVIOUS
<1> QED  BY <1>2, <1>3

(* There is one way to write a number as a multiple and a remainder.       *)
LEMMA DivisionUnique ==
  ASSUME NEW b \in Nat \ {0}, NEW q \in Nat, NEW r \in Nat, r < b
  PROVE  (b * q + r) \div b = q /\ (b * q + r) % b = r
<1> DEFINE a == b * q + r
<1>1. a \in Nat
  OBVIOUS
<1>2. /\ a \div b \in Nat /\ a % b \in Nat /\ a % b < b
      /\ a = b * (a \div b) + (a % b)
  BY <1>1, DivisionOf
<1>3. a \div b <= q
  BY <1>2, LessFactor
<1>4. q <= a \div b
  BY <1>2, LessFactor
<1>5. a \div b = q
  BY <1>2, <1>3, <1>4
<1> QED  BY <1>2, <1>5

(* The quotient by twice b is half the quotient by b.                      *)
LEMMA HalfQuotient ==
  ASSUME NEW a \in Nat, NEW b \in Nat \ {0}
  PROVE  a \div b = 2 * (a \div (2 * b)) + ((a \div b) % 2)
<1> DEFINE q == a \div b
           r == a % b
<1>1. q \in Nat /\ r \in Nat /\ r < b /\ a = b * q + r
  BY DivisionOf
<1> HIDE DEF q, r
<1> DEFINE h == q \div 2
           o == q % 2
<1>2. h \in Nat /\ o \in 0 .. 1 /\ q = 2 * h + o
  BY <1>1
<1> HIDE DEF h, o
<1>3. b * o + r \in Nat /\ b * o + r < 2 * b
  <2>1. o = 0 \/ o = 1
    BY <1>2
  <2>2. b * o = 0 \/ b * o = b
    BY <2>1
  <2> QED  BY <1>1, <2>2
<1>4. a = (2 * b) * h + (b * o + r)
  BY <1>1, <1>2
<1>5. 2 * b \in Nat \ {0}
  OBVIOUS
<1>6. a \div (2 * b) = h
  BY <1>2, <1>3, <1>4, <1>5, DivisionUnique
<1>7. o = q % 2
  BY DEF o
<1>8. q = 2 * (a \div (2 * b)) + (q % 2)
  BY <1>2, <1>6, <1>7
<1> QED  BY <1>8 DEF q

-----------------------------------------------------------------------------
(* Bits. *)

(* Dividing by the next power of two takes away one bit.                   *)
LEMMA BitBelow ==
  ASSUME NEW x \in Nat, NEW k \in Nat
  PROVE  /\ x \div pow2[k] \in Nat /\ Bit(x, k) \in 0 .. 1
         /\ x \div pow2[k] = 2 * (x \div pow2[k + 1]) + Bit(x, k)
<1>1. pow2[k] \in Nat \ {0} /\ pow2[k + 1] = 2 * pow2[k]
  BY PowersOfTwo
<1>2. x \div pow2[k] \in Nat
  BY <1>1, DivisionOf
<1>3. (x \div pow2[k]) % 2 \in 0 .. 1
  BY <1>2
<1>4. x \div pow2[k] = 2 * (x \div (2 * pow2[k])) + ((x \div pow2[k]) % 2)
  BY <1>1, HalfQuotient
<1> QED  BY <1>1, <1>2, <1>3, <1>4 DEF Bit

(* Two numbers have the same bits from k on just if they are the same      *)
(* multiple of the k-th power of two, apart from remainders.               *)
SameFrom(x, y, k) == \A i \in Nat : k <= i /\ i < Width => Bit(x, i) = Bit(y, i)

(* No address has a bit beyond the width.                                  *)
LEMMA AddressesAreNumbers ==
  /\ Addresses \subseteq Nat
  /\ \A x \in Addresses : x \div pow2[Width] = 0
<1>1. Width \in Nat /\ pow2[Width] \in Nat \ {0}
  BY WidthAssumption, PowersOfTwo
<1>2. Addresses \subseteq Nat
  BY <1>1 DEF Addresses
<1>3. ASSUME NEW x \in Addresses PROVE x \div pow2[Width] = 0
  <2>1. x \in Nat /\ x < pow2[Width]
    BY <1>1 DEF Addresses
  <2>2. x = pow2[Width] * 0 + x
    BY <1>1, <2>1
  <2> QED  BY <1>1, <2>1, <2>2, DivisionUnique
<1> QED  BY <1>2, <1>3

(* By induction on the number of bits from k up to the width.              *)
LEMMA SameQuotient ==
  ASSUME NEW x \in Addresses, NEW y \in Addresses, NEW k \in 0 .. Width
  PROVE  SameFrom(x, y, k) <=> x \div pow2[k] = y \div pow2[k]
<1> DEFINE S == {d \in Nat : d <= Width =>
                   (SameFrom(x, y, Width - d)
                      <=> x \div pow2[Width - d] = y \div pow2[Width - d])}
<1>1. Width \in Nat /\ x \in Nat /\ y \in Nat
  BY WidthAssumption, AddressesAreNumbers
<1>2. 0 \in S
  <2>1. SameFrom(x, y, Width)
    BY <1>1 DEF SameFrom
  <2>2. x \div pow2[Width] = y \div pow2[Width]
    BY AddressesAreNumbers
  <2>3. Width - 0 = Width
    BY <1>1
  <2> QED  BY <2>1, <2>2, <2>3
<1>3. ASSUME NEW d \in Nat, d \in S PROVE d + 1 \in S
  <2> SUFFICES ASSUME d + 1 <= Width
               PROVE  SameFrom(x, y, Width - (d + 1))
                        <=> x \div pow2[Width - (d + 1)] = y \div pow2[Width - (d + 1)]
    OBVIOUS
  <2> DEFINE j == Width - (d + 1)
  <2>1. j \in Nat /\ j + 1 \in Nat /\ j + 1 = Width - d /\ j < Width /\ d <= Width
    BY <1>1
  <2>2. SameFrom(x, y, j + 1) <=> x \div pow2[j + 1] = y \div pow2[j + 1]
    <3>1. SameFrom(x, y, Width - d) <=> x \div pow2[Width - d] = y \div pow2[Width - d]
      BY <1>3, <2>1
    <3> HIDE DEF j
    <3> QED  BY <2>1, <3>1
  <2> HIDE DEF j, S
  <2>3. SameFrom(x, y, j) <=> SameFrom(x, y, j + 1) /\ Bit(x, j) = Bit(y, j)
    <3>1. \A i \in Nat : j <= i <=> i = j \/ j + 1 <= i
      BY <2>1
    <3> QED  BY <2>1, <3>1 DEF SameFrom
  <2>4. /\ x \div pow2[j] \in Nat /\ Bit(x, j) \in 0 .. 1
        /\ x \div pow2[j] = 2 * (x \div pow2[j + 1]) + Bit(x, j)
    BY <1>1, <2>1, BitBelow
  <2>5. /\ y \div pow2[j] \in Nat /\ Bit(y, j) \in 0 .. 1
        /\ y \div pow2[j] = 2 * (y \div pow2[j + 1]) + Bit(y, j)
    BY <1>1, <2>1, BitBelow
  <2>6. x \div pow2[j + 1] \in Nat /\ y \div pow2[j + 1] \in Nat
    BY <1>1, <2>1, BitBelow
  <2>7. x \div pow2[j] = y \div pow2[j]
          <=> x \div pow2[j + 1] = y \div pow2[j + 1] /\ Bit(x, j) = Bit(y, j)
    BY <2>4, <2>5, <2>6
  <2> QED  BY <2>2, <2>3, <2>7 DEF j
<1> HIDE DEF S
<1>4. \A d \in Nat : d \in S
  BY <1>2, <1>3, Induction
<1>5. Width - k \in Nat /\ Width - k <= Width /\ Width - (Width - k) = k
  BY <1>1
<1>6. Width - k \in S
  BY <1>4, <1>5
<1> QED  BY <1>5, <1>6 DEF S

(* Sums of powers.                                                         *)
LEMMA PowerSum ==
  ASSUME NEW i \in Nat PROVE \A d \in Nat : pow2[i + d] = pow2[i] * pow2[d]
<1> DEFINE S == {d \in Nat : pow2[i + d] = pow2[i] * pow2[d]}
<1>1. pow2[i] \in Nat
  BY PowersOfTwo
<1>2. 0 \in S
  <2>1. i + 0 = i /\ pow2[0] = 1
    BY PowersOfTwo
  <2> QED  BY <1>1, <2>1
<1>3. ASSUME NEW d \in Nat, d \in S PROVE d + 1 \in S
  <2>1. i + d \in Nat /\ i + (d + 1) = (i + d) + 1
    OBVIOUS
  <2>2. pow2[(i + d) + 1] = 2 * pow2[i + d] /\ pow2[d + 1] = 2 * pow2[d] /\ pow2[d] \in Nat
    BY <2>1, PowersOfTwo
  <2>3. pow2[i + (d + 1)] = 2 * (pow2[i] * pow2[d])
    BY <1>3, <2>1, <2>2
  <2>4. 2 * (pow2[i] * pow2[d]) = pow2[i] * (2 * pow2[d])
    BY <1>1, <2>2
  <2> QED  BY <2>2, <2>3, <2>4
<1> HIDE DEF S
<1>4. \A d \in Nat : d \in S
  BY <1>2, <1>3, Induction
<1> QED  BY <1>4 DEF S

(* The same for a difference of exponents.                                 *)
LEMMA PowerSplit ==
  ASSUME NEW k \in Nat, NEW n \in Nat, k <= n
  PROVE  n - k \in Nat /\ pow2[n - k] \in Nat \ {0} /\ pow2[n] = pow2[k] * pow2[n - k]
<1>1. PICK d \in Nat : d = n - k
  OBVIOUS
<1>2. k + d = n
  BY <1>1
<1>3. pow2[k + d] = pow2[k] * pow2[d]
  BY PowerSum
<1>4. pow2[d] \in Nat \ {0}
  BY PowersOfTwo
<1> QED  BY <1>1, <1>2, <1>3, <1>4

(* Shifting ones by k leaves no ones but those from k on.                  *)
LEMMA ShiftedOnes ==
  ASSUME NEW k \in Nat, k < Width PROVE shiftL(AllOnes, k) = pow2[Width] - pow2[k]
<1> DEFINE P == pow2[Width]
           Q == pow2[k]
<1>1. P \in Nat \ {0} /\ Q \in Nat \ {0}
  BY WidthAssumption, PowersOfTwo
<1>2. Q <= P
  <2> DEFINE R == pow2[Width - k]
  <2>1. P = Q * R /\ R \in Nat \ {0}
    BY WidthAssumption, PowerSplit
  <2> HIDE DEF P, Q, R
  <2>2. PICK d \in Nat : R = 1 + d
    <3>1. R - 1 \in Nat /\ R = 1 + (R - 1)
      BY <2>1
    <3> QED  BY <3>1
  <2>3. P = Q + Q * d /\ Q * d \in Nat
    BY <1>1, <2>1, <2>2
  <2> QED  BY <1>1, <2>3
<1> HIDE DEF P, Q
<1>3. (P - 1) * Q = P * (Q - 1) + (P - Q)
  BY <1>1
<1>4. (P * (Q - 1) + (P - Q)) % P = P - Q
  <2>1. Q - 1 \in Nat /\ P - Q \in Nat /\ P - Q < P
    BY <1>1, <1>2
  <2> QED  BY <1>1, <2>1, DivisionUnique
<1> QED  BY <1>3, <1>4 DEF shiftL, AllOnes, P, Q

(* The bits of what is left when the lower ones are taken away.            *)
LEMMA UpperBits ==
  ASSUME NEW x \in Nat, NEW k \in Nat, NEW i \in Nat
  PROVE  Bit(pow2[k] * (x \div pow2[k]), i) = IF k <= i THEN Bit(x, i) ELSE 0
<1> DEFINE q == x \div pow2[k]
<1>1. pow2[k] \in Nat \ {0} /\ pow2[i] \in Nat \ {0}
  BY PowersOfTwo
<1>2. q \in Nat /\ x % pow2[k] \in Nat /\ x % pow2[k] < pow2[k]
      /\ x = pow2[k] * q + (x % pow2[k])
  BY <1>1, DivisionOf
<1>3. CASE k <= i
  <2>2. pow2[i] = pow2[k] * pow2[i - k] /\ pow2[i - k] \in Nat \ {0}
    BY <1>3, PowerSplit
  <2> DEFINE B == pow2[k]
             C == pow2[i - k]
             h == q \div C
             r == q % C
             s == x % B
  <2>3. h \in Nat /\ r \in Nat /\ r < C /\ q = C * h + r
    BY <1>2, <2>2, DivisionOf
  <2>4. B \in Nat \ {0} /\ C \in Nat \ {0} /\ s \in Nat /\ s < B /\ x = B * q + s
    BY <1>1, <1>2, <2>2
  <2> HIDE DEF q, h, r, s, B, C
  <2>5. B * r + s \in Nat /\ B * r \in Nat /\ B * r + s < B * C
    <3>1. PICK d \in Nat : C = (r + 1) + d
      <4>1. C - (r + 1) \in Nat /\ C = (r + 1) + (C - (r + 1))
        BY <2>3, <2>4
      <4> QED  BY <4>1
    <3>2. B * C = B * r + B + B * d /\ B * d \in Nat /\ B * r \in Nat
      BY <2>3, <2>4, <3>1
    <3> QED  BY <2>4, <3>2
  <2>6. B * C \in Nat \ {0}
    BY <2>2, <1>1 DEF B, C
  <2>7. x = (B * C) * h + (B * r + s) /\ B * q = (B * C) * h + B * r
    BY <2>3, <2>4
  <2>8. x \div (B * C) = h
    BY <2>3, <2>5, <2>6, <2>7, DivisionUnique
  <2>9. B * r < B * C
    BY <2>4, <2>5, <2>6
  <2>10. (B * q) \div (B * C) = h
    BY <2>3, <2>5, <2>6, <2>7, <2>9, DivisionUnique
  <2> QED  BY <1>3, <2>2, <2>8, <2>10 DEF Bit, B, C, q
<1>4. CASE ~(k <= i)
  <2>1. i + 1 \in Nat /\ i + 1 <= k
    BY <1>4
  <2>2. /\ pow2[k] = pow2[i + 1] * pow2[k - (i + 1)] /\ pow2[k - (i + 1)] \in Nat
        /\ pow2[i + 1] = 2 * pow2[i]
    BY <2>1, PowerSplit, PowersOfTwo
  <2> DEFINE B == pow2[i]
             C == pow2[k - (i + 1)]
             h == C * q
  <2>3. B \in Nat \ {0} /\ C \in Nat /\ pow2[k] = (2 * B) * C
    BY <1>1, <2>2
  <2> HIDE DEF q, B, C
  <2>4. h \in Nat
    BY <1>2, <2>3
  <2>5. pow2[k] * q = B * (2 * h) + 0
    BY <1>2, <2>3, <2>4
  <2> HIDE DEF h
  <2>6. (pow2[k] * q) \div B = 2 * h
    <3>1. 2 * h \in Nat /\ 0 < B
      BY <2>3, <2>4
    <3> QED  BY <2>3, <2>5, <3>1, DivisionUnique
  <2>7. (2 * h) % 2 = 0
    BY <2>4
  <2> QED  BY <1>4, <2>6, <2>7 DEF Bit, B, q
<1> QED  BY <1>3, <1>4

-----------------------------------------------------------------------------
(* Masks. *)

(* All bits of the greatest address are ones.                              *)
LEMMA AllOnesBits == ASSUME NEW i \in 0 .. Width - 1 PROVE Bit(AllOnes, i) = 1
<1> DEFINE B == pow2[i]
           C == pow2[Width - (i + 1)]
<1>1. Width \in Nat /\ i \in Nat /\ i + 1 \in Nat /\ i + 1 <= Width
  BY WidthAssumption
<1>2. /\ B \in Nat \ {0} /\ C \in Nat \ {0}
      /\ pow2[i + 1] = 2 * B /\ pow2[Width] = pow2[i + 1] * C
  BY <1>1, PowersOfTwo, PowerSplit
<1> HIDE DEF B, C
<1> DEFINE h == 2 * (C - 1) + 1
<1>3. h \in Nat /\ h % 2 = 1
  BY <1>2
<1>4. AllOnes = B * h + (B - 1)
  BY <1>2 DEF AllOnes
<1> HIDE DEF h
<1>5. B - 1 \in Nat /\ B - 1 < B
  BY <1>2
<1>6. AllOnes \div B = h
  BY <1>2, <1>3, <1>4, <1>5, DivisionUnique
<1> QED  BY <1>3, <1>6 DEF Bit, B

(* The mask of a prefix has ones in its first bits and nowhere else        *)
(* (ClassifyZone()).                                                       *)
LEMMA MaskBits ==
  ASSUME NEW p \in 0 .. Width, NEW i \in 0 .. Width - 1
  PROVE  Bit(mask(p), i) = 1 <=> Width - p <= i
<1>1. Width \in Nat /\ p \in Nat /\ i \in Nat
  BY WidthAssumption
<1>2. CASE p = 0
  <2>1. pow2[i] \in Nat \ {0} /\ 0 = pow2[i] * 0 + 0
    BY <1>1, PowersOfTwo
  <2>2. 0 \div pow2[i] = 0
    BY <2>1, DivisionUnique
  <2>3. Bit(0, i) = 0
    BY <2>2 DEF Bit
  <2> QED  BY <1>1, <1>2, <2>3 DEF mask
<1>3. CASE p # 0
  <2> DEFINE k == Width - p
             ones == pow2[Width] - pow2[k]
             C == pow2[Width - k]
  <2>1. k \in Nat /\ k < Width /\ k <= Width
    BY <1>1, <1>3
  <2>2. mask(p) = ones
    BY <1>3, <2>1, ShiftedOnes DEF mask
  <2> HIDE DEF k
  <2>3. /\ pow2[k] \in Nat \ {0} /\ C \in Nat \ {0} /\ pow2[Width] = pow2[k] * C
    BY <1>1, <2>1, PowersOfTwo, PowerSplit
  <2> HIDE DEF C
  <2>4. /\ C - 1 \in Nat /\ pow2[k] - 1 \in Nat /\ pow2[k] - 1 < pow2[k]
        /\ AllOnes \in Nat /\ AllOnes = pow2[k] * (C - 1) + (pow2[k] - 1)
    BY <1>1, <2>3, PowersOfTwo DEF AllOnes
  <2>5. AllOnes \div pow2[k] = C - 1
    BY <2>3, <2>4, DivisionUnique
  <2>6. ones = pow2[k] * (AllOnes \div pow2[k])
    BY <2>3, <2>5
  <2>7. Bit(ones, i) = IF k <= i THEN Bit(AllOnes, i) ELSE 0
    BY <1>1, <2>1, <2>4, <2>6, UpperBits
  <2>8. Bit(AllOnes, i) = 1
    BY AllOnesBits
  <2> QED  BY <2>2, <2>7, <2>8 DEF k
<1> QED  BY <1>2, <1>3

(* Two addresses are equal under a mask just if their quotients are.       *)
LEMMA MaskedAlike ==
  ASSUME NEW x \in Addresses, NEW y \in Addresses, NEW p \in 0 .. Width
  PROVE  And(x, mask(p)) = And(y, mask(p)) <=> x \div Size(p) = y \div Size(p)
<1> DEFINE k == Width - p
<1>1. Width \in Nat /\ p \in Nat /\ k \in 0 .. Width /\ k \in Nat
  BY WidthAssumption
<1>2. x \in Nat /\ y \in Nat
  BY AddressesAreNumbers
<1>3. SameFrom(x, y, k) <=> x \div pow2[k] = y \div pow2[k]
  BY <1>1, SameQuotient
<1>4. ASSUME NEW a \in Addresses
      PROVE  /\ And(a, mask(p)) \in Addresses
             /\ \A i \in 0 .. Width - 1 : Bit(And(a, mask(p)), i) = 1 <=> Bit(a, i) = 1 /\ k <= i
  <2> DEFINE A(z) == \A i \in 0 .. Width - 1 :
                       Bit(z, i) = 1 <=> Bit(a, i) = 1 /\ Bit(mask(p), i) = 1
             top == pow2[k] * (a \div pow2[k])
  <2>1. \A i \in 0 .. Width - 1 : Bit(mask(p), i) = 1 <=> k <= i
    BY MaskBits
  <2>2. a \in Nat /\ pow2[k] \in Nat \ {0}
    BY <1>1, AddressesAreNumbers, PowersOfTwo
  <2>3. /\ a \div pow2[k] \in Nat /\ a % pow2[k] \in Nat
        /\ a = pow2[k] * (a \div pow2[k]) + (a % pow2[k])
    BY <2>2, DivisionOf
  <2>4. top \in Nat /\ top <= a
    BY <2>2, <2>3
  <2>5. top \in Addresses
    BY <1>1, <2>2, <2>4, PowersOfTwo DEF Addresses
  <2>6. \A i \in 0 .. Width - 1 : Bit(top, i) = IF k <= i THEN Bit(a, i) ELSE 0
    BY <1>1, <2>2, UpperBits
  <2>7. A(top)
    BY <2>1, <2>6
  <2>8. And(a, mask(p)) = CHOOSE z \in Addresses : A(z)
    BY DEF And
  <2> HIDE DEF A
  <2>9. And(a, mask(p)) \in Addresses /\ A(And(a, mask(p)))
    BY <2>5, <2>7, <2>8
  <2> QED  BY <2>1, <2>9 DEF A
<1>5. ASSUME And(x, mask(p)) = And(y, mask(p)) PROVE SameFrom(x, y, k)
  <2>1. \A i \in 0 .. Width - 1 : k <= i => (Bit(x, i) = 1 <=> Bit(y, i) = 1)
    BY <1>4, <1>5
  <2>2. \A i \in Nat : Bit(x, i) \in 0 .. 1 /\ Bit(y, i) \in 0 .. 1
    BY <1>2, BitBelow
  <2> QED  BY <1>1, <2>1, <2>2 DEF SameFrom
<1>6. ASSUME SameFrom(x, y, k) PROVE And(x, mask(p)) = And(y, mask(p))
  <2>1. ASSUME NEW i \in 0 .. Width - 1
        PROVE  (Bit(x, i) = 1 /\ Bit(mask(p), i) = 1) <=> (Bit(y, i) = 1 /\ Bit(mask(p), i) = 1)
    <3>1. Bit(mask(p), i) = 1 <=> k <= i
      BY MaskBits
    <3>2. k <= i => Bit(x, i) = Bit(y, i)
      BY <1>1, <1>6 DEF SameFrom
    <3> QED  BY <3>1, <3>2
  <2> QED  BY <2>1 DEF And
<1> QED  BY <1>3, <1>5, <1>6 DEF Size

(* The daemon finds an address in a subnet just if it is in it.            *)
THEOREM MaskFindsSubnet ==
  ASSUME NEW z, is_network(z), NEW ip \in Addresses
  PROVE  And(ip, mask(z.prefix)) = And(z.net, mask(z.prefix)) <=> ip \in subnet(z)
<1> DEFINE B == Size(z.prefix)
           q == z.net \div B
           h == ip \div B
           r == ip % B
<1>1. z.net \in Addresses /\ z.prefix \in 0 .. Width /\ z.net % B = 0
  BY DEF is_network
<1>2. B \in Nat \ {0}
  <2>1. Width - z.prefix \in Nat
    BY <1>1, WidthAssumption
  <2> QED  BY <2>1, PowersOfTwo DEF Size
<1>3. z.net \in Nat /\ ip \in Nat
  BY <1>1, AddressesAreNumbers
<1>4. And(ip, mask(z.prefix)) = And(z.net, mask(z.prefix)) <=> h = q
  BY <1>1, MaskedAlike
<1>5. ip \in subnet(z) <=> z.net <= ip /\ ip < z.net + B
  BY DEF subnet
<1> HIDE DEF B
<1>6. q \in Nat /\ z.net = B * q + (z.net % B)
  BY <1>2, <1>3, DivisionOf
<1>7. h \in Nat /\ r \in Nat /\ r < B /\ ip = B * h + r
  BY <1>2, <1>3, DivisionOf
<1> HIDE DEF q, h, r
<1>8. z.net = B * q
  BY <1>1, <1>2, <1>6
<1>9. ASSUME h = q PROVE z.net <= ip /\ ip < z.net + B
  BY <1>2, <1>3, <1>7, <1>8, <1>9
<1>10. ASSUME z.net <= ip, ip < z.net + B PROVE h = q
  <2>1. PICK s \in Nat : ip = B * q + s /\ s < B
    <3>1. ip - z.net \in Nat /\ ip = B * q + (ip - z.net) /\ ip - z.net < B
      BY <1>2, <1>3, <1>6, <1>8, <1>10
    <3> QED  BY <3>1
  <2>2. ip \div B = q
    BY <1>2, <1>6, <2>1, DivisionUnique
  <2> QED  BY <2>2 DEF h
<1> QED  BY <1>4, <1>5, <1>9, <1>10
-----------------------------------------------------------------------------
(* Generated tables. *)

(* A finite set as a sequence has each member once.                        *)
LEMMA ListedSet ==
  ASSUME NEW S, IsFiniteSet(S)
  PROVE  /\ SetToSeq(S) \in [1 .. Cardinality(S) -> S]
         /\ \A x \in S : \E i \in 1 .. Cardinality(S) : SetToSeq(S)[i] = x
<1> DEFINE n == Cardinality(S)
           f == SetToSeq(S)
<1>1. n \in Nat /\ ExistsBijection(1 .. n, S)
  BY FS_CardinalityType
<1>2. \E g \in [1 .. n -> S] : IsInjective(g)
  BY <1>1 DEF ExistsBijection, Bijection, Injection
<1>3. f \in [1 .. n -> S] /\ IsInjective(f)
  BY <1>2 DEF SetToSeq
<1> HIDE DEF f
<1>4. f \in Injection(1 .. n, S)
  BY <1>3 DEF Injection
<1>5. Cardinality(1 .. n) = n
  BY <1>1, FS_Interval
<1>6. f \in Surjection(1 .. n, S)
  BY <1>4, <1>5, FS_Injection
<1> QED  BY <1>3, <1>6 DEF Surjection, f

(* A table read up to its count holds just the policy's pairs, the         *)
(* placeholder of an empty one not being read (render(), ContainsPair()).  *)
LEMMA PairsListed ==
  ASSUME NEW table, IsFiniteSet(table), NEW order, NEW src, NEW dst
  PROVE  ContainsPair(pairs(table, order), src, dst) <=> <<src, dst>> \in table
<1>1. CASE table = {}
  BY <1>1 DEF pairs, ContainsPair
<1>2. CASE table # {}
  <2>1. pairs(table, order) = [rows |-> SetToSeq(table), count |-> Cardinality(table)]
    BY <1>2 DEF pairs
  <2>2. ContainsPair(pairs(table, order), src, dst)
          <=> \E i \in 1 .. Cardinality(table) : SetToSeq(table)[i] = <<src, dst>>
    BY <2>1 DEF ContainsPair
  <2>3. /\ SetToSeq(table) \in [1 .. Cardinality(table) -> table]
        /\ \A x \in table : \E i \in 1 .. Cardinality(table) : SetToSeq(table)[i] = x
    BY ListedSet
  <2>4. \A i \in 1 .. Cardinality(table) : SetToSeq(table)[i] \in table
    BY <2>3
  <2> QED  BY <2>2, <2>3, <2>4
<1> QED  BY <1>1, <1>2

(* Subnets that are apart: the first row that matches is the only one.     *)
LEMMA RowsFindZone ==
  ASSUME NEW tables, IsFiniteSet(DOMAIN tables.zones),
         \A n \in DOMAIN tables.zones : is_network(tables.zones[n]),
         \A n, m \in DOMAIN tables.zones :
           n # m => subnet(tables.zones[n]) \cap subnet(tables.zones[m]) = {},
         NEW ip \in Addresses
  PROVE  /\ \A n \in DOMAIN tables.zones :
              ip \in subnet(tables.zones[n]) => ClassifyZone(render(tables), ip) = n
         /\ (\A n \in DOMAIN tables.zones : ip \notin subnet(tables.zones[n]))
              => ClassifyZone(render(tables), ip) = "Unknown"
<1> DEFINE names == DOMAIN tables.zones
           order == SetToSeq(names)
           rows == render(tables).kZones
           hits == {i \in DOMAIN rows :
                      And(ip, mask(rows[i].prefix_len)) =
                        And(rows[i].network, mask(rows[i].prefix_len))}
<1>1. /\ order \in [1 .. Cardinality(names) -> names] /\ Cardinality(names) \in Nat
      /\ \A n \in names : \E i \in 1 .. Cardinality(names) : order[i] = n
  BY ListedSet, FS_CardinalityType
<1>2. /\ DOMAIN rows = 1 .. Cardinality(names)
      /\ \A i \in DOMAIN rows : /\ order[i] \in names /\ rows[i].zone = order[i]
                                /\ rows[i].network = tables.zones[order[i]].net
                                /\ rows[i].prefix_len = tables.zones[order[i]].prefix
  BY <1>1 DEF render
<1>3. ClassifyZone(render(tables), ip) = IF hits = {} THEN "Unknown" ELSE rows[Min(hits)].zone
  BY DEF ClassifyZone
<1> HIDE DEF order, rows
<1>4. \A i \in DOMAIN rows : i \in hits <=> ip \in subnet(tables.zones[order[i]])
  BY <1>2, MaskFindsSubnet
<1> HIDE DEF hits
<1>5. hits \subseteq DOMAIN rows
  BY DEF hits
<1>6. ASSUME NEW n \in names, ip \in subnet(tables.zones[n])
      PROVE  ClassifyZone(render(tables), ip) = n
  <2>1. hits # {}
    BY <1>1, <1>2, <1>4, <1>6
  <2>2. \A i \in hits : rows[i].zone = n
    BY <1>2, <1>4, <1>5, <1>6
  <2>3. Min(hits) \in hits
    <3>1. hits \in SUBSET Nat
      BY <1>2, <1>5
    <3>2. \E i \in hits : \A j \in hits : i <= j
      BY <2>1, <3>1, LeastNumber
    <3> QED  BY <3>2 DEF Min
  <2> QED  BY <1>3, <2>1, <2>2, <2>3
<1>7. ASSUME \A n \in names : ip \notin subnet(tables.zones[n])
      PROVE  ClassifyZone(render(tables), ip) = "Unknown"
  <2>1. hits = {}
    BY <1>2, <1>4, <1>5, <1>7
  <2> QED  BY <1>3, <2>1
<1> QED  BY <1>6, <1>7
=============================================================================
