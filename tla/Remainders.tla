----------------------------- MODULE Remainders -----------------------------
(***************************************************************************)
(* What the proofs need of division by a divisor that is not a numeral:    *)
(* the 16-bit indices of the buffer ring and its slots, the bytes of a     *)
(* stream of messages, the buckets of the timing wheel.                    *)
(***************************************************************************)
EXTENDS Integers, TLAPS

\* A product of two positive numbers is not below either.
LEMMA ProductBound ==
  ASSUME NEW n \in Nat \ {0}, NEW q \in Int, q >= 1
  PROVE  n * q \in Int /\ n * q >= n
<1>1. n * q = n * (q - 1) + n
  OBVIOUS
<1>2. n * (q - 1) >= 0
  OBVIOUS
<1> QED
  BY <1>1, <1>2

\* Division leaves a remainder below the divisor.
LEMMA Division ==
  ASSUME NEW n \in Nat \ {0}, NEW x \in Int
  PROVE  /\ x % n \in 0 .. n - 1
         /\ \E q \in Int : x = n * q + (x % n)
<1>1. x % n \in 0 .. n - 1
  OBVIOUS
<1>2. x \div n \in Int /\ x = n * (x \div n) + (x % n)
  OBVIOUS
<1> QED
  BY <1>1, <1>2

\* Only one number below the divisor is the remainder.
LEMMA Remainder ==
  ASSUME NEW n \in Nat \ {0}, NEW q \in Int, NEW p \in Int,
         NEW r \in 0 .. n - 1, NEW s \in 0 .. n - 1, n * q + r = n * p + s
  PROVE  r = s /\ q = p
<1>1. n * (q - p) = s - r /\ n * (p - q) = r - s
  OBVIOUS
<1>2. ~ (q - p >= 1)
  BY <1>1, ProductBound
<1>3. ~ (p - q >= 1)
  BY <1>1, ProductBound
<1>4. q = p
  BY <1>2, <1>3
<1> QED
  BY <1>1, <1>4

\* Multiples of the divisor do not change the remainder.
LEMMA ModShift ==
  ASSUME NEW n \in Nat \ {0}, NEW x \in Int, NEW q \in Int
  PROVE  (x + n * q) % n = x % n
<1>1. PICK a \in Int : x = n * a + (x % n)
  BY Division
<1>2. n * q \in Int /\ x + n * q \in Int
  OBVIOUS
<1>3. PICK b \in Int : x + n * q = n * b + ((x + n * q) % n)
  BY <1>2, Division
<1>4. n * (a + q) = n * a + n * q
  OBVIOUS
<1>5. n * (a + q) + (x % n) = n * b + ((x + n * q) % n)
  BY <1>1, <1>3, <1>4
<1>6. x % n \in 0 .. n - 1 /\ (x + n * q) % n \in 0 .. n - 1
  BY <1>2, Division, Zenon
<1>7. a + q \in Int
  OBVIOUS
<1> QED
  <2> DEFINE r == x % n
             w == (x + n * q) % n
             c == a + q
  <2>1. r \in 0 .. n - 1 /\ w \in 0 .. n - 1 /\ c \in Int /\ n * c + r = n * b + w
    BY <1>5, <1>6, <1>7
  <2> HIDE DEF r, w, c
  <2>2. r = w
    BY <2>1, Remainder, SMT
  <2> QED
    BY <2>2 DEF r, w

\* A number below the divisor is its own remainder.
LEMMA ModSmall ==
  ASSUME NEW n \in Nat \ {0}, NEW x \in 0 .. n - 1
  PROVE  x % n = x
<1>1. x \in Int /\ n * 0 = 0
  OBVIOUS
<1>2. PICK q \in Int : x = n * q + (x % n)
  BY <1>1, Division
<1>3. x % n \in 0 .. n - 1
  BY <1>1, Division
<1>4. n * 0 + x = n * q + (x % n)
  BY <1>1, <1>2
<1> QED
  BY <1>3, <1>4, Remainder

\* Numbers closer than the divisor have different remainders.
LEMMA ModApart ==
  ASSUME NEW n \in Nat \ {0}, NEW x \in Int, NEW y \in Int,
         x - y < n, y - x < n, x % n = y % n
  PROVE  x = y
<1>1. PICK a \in Int : x = n * a + (x % n)
  BY Division
<1>2. PICK b \in Int : y = n * b + (y % n)
  BY Division
<1>d. /\ x % n \in Int /\ n * a \in Int /\ n * b \in Int
      /\ n * (a - b) = n * a - n * b
      /\ n * (b - a) = n * b - n * a
  BY Division
<1>3. n * (a - b) = x - y /\ n * (b - a) = y - x
  BY <1>1, <1>2, <1>d
<1>4. ~ (a - b >= 1) /\ ~ (b - a >= 1)
  BY <1>3, ProductBound
<1>5. a = b
  BY <1>4
<1> QED
  BY <1>1, <1>2, <1>5

\* A sum of a multiple and a number below the divisor leaves that number.
LEMMA ModIs ==
  ASSUME NEW n \in Nat \ {0}, NEW x \in Int, NEW r \in 0 .. n - 1, NEW q \in Int,
         x = r + n * q
  PROVE  x % n = r
<1>1. r \in Int
  OBVIOUS
<1>2. (r + n * q) % n = r % n
  BY <1>1, ModShift, Zenon
<1>3. r % n = r
  BY ModSmall, Zenon
<1> QED
  BY <1>2, <1>3

\* The quotient and the remainder of such a sum.
LEMMA DivIs ==
  ASSUME NEW n \in Nat \ {0}, NEW x \in Int, NEW r \in 0 .. n - 1, NEW q \in Int,
         x = n * q + r
  PROVE  x \div n = q /\ x % n = r
<1>1. x \div n \in Int /\ x = n * (x \div n) + (x % n) /\ x % n \in 0 .. n - 1
  OBVIOUS
<1> DEFINE d == x \div n
           m == x % n
<1>2. d \in Int /\ m \in 0 .. n - 1 /\ n * d + m = n * q + r
  BY <1>1
<1> HIDE DEF d, m
<1>3. m = r /\ d = q
  BY <1>2, Remainder, SMT
<1> QED
  BY <1>3 DEF d, m

\* A number below q times the divisor has a quotient below q.
LEMMA DivBelow ==
  ASSUME NEW n \in Nat \ {0}, NEW x \in Nat, NEW q \in Nat, x < n * q
  PROVE  x \div n \in 0 .. q - 1
<1>1. x \div n \in Int /\ x = n * (x \div n) + (x % n) /\ x % n \in 0 .. n - 1
  OBVIOUS
<1> DEFINE d == x \div n
           m == x % n
<1>2. d \in Int /\ m \in 0 .. n - 1 /\ x = n * d + m
  BY <1>1
<1> HIDE DEF d, m
<1>3. d >= 0
  <2>1. ASSUME ~ (d >= 0) PROVE FALSE
    <3>1. -d \in Int /\ -d >= 1 /\ n * (-d) = -(n * d)
      BY <1>2, <2>1
    <3>2. n * (-d) >= n
      BY <3>1, ProductBound
    <3> QED
      BY <1>2, <3>1, <3>2
  <2> QED
    BY <2>1
<1>4. d < q
  <2>1. ASSUME ~ (d < q) PROVE FALSE
    <3>1. d - q \in Nat /\ n * (d - q) = n * d - n * q /\ n * (d - q) >= 0
      BY <1>2, <2>1
    <3> QED
      BY <1>2, <3>1
  <2> QED
    BY <2>1
<1> QED
  BY <1>2, <1>3, <1>4 DEF d
=============================================================================
