----------------------------- MODULE Merkle_proof ------------------------------
(***************************************************************************)
(* Proofs about merkle trees: about the numbers of their nodes as          *)
(* MerkleWalk walks over them, about the sessions of SyncSession that      *)
(* compare two trees, and about MerkleStore, which keeps a tree in step    *)
(* with its rows. They hold for any depths up to MerkleMaxDepth, any keys  *)
(* and hashes, exploration limits, writers and numbers of writes and       *)
(* faults. The lemmas about node numbers come first, and then the three    *)
(* modules one after another.                                              *)
(***************************************************************************)
EXTENDS SyncSession, MerkleWalk, MerkleStore,
        FiniteSetTheorems, SequenceTheorems, WellFoundedInduction, TLAPS

-----------------------------------------------------------------------------
(* Arithmetic *)

LEMMA Powers ==
  ASSUME NEW k \in 0..31
  PROVE  Pow2(k) \in Nat \ {0} /\ Pow2(k + 1) = 2 * Pow2(k)
<1>1. /\ Pow2(0) = 1 /\ Pow2(1) = 2 /\ Pow2(2) = 4
      /\ Pow2(3) = 8 /\ Pow2(4) = 16 /\ Pow2(5) = 32
      /\ Pow2(6) = 64 /\ Pow2(7) = 128 /\ Pow2(8) = 256
      /\ Pow2(9) = 512 /\ Pow2(10) = 1024 /\ Pow2(11) = 2048
      /\ Pow2(12) = 4096 /\ Pow2(13) = 8192 /\ Pow2(14) = 16384
      /\ Pow2(15) = 32768 /\ Pow2(16) = 65536 /\ Pow2(17) = 131072
      /\ Pow2(18) = 262144 /\ Pow2(19) = 524288 /\ Pow2(20) = 1048576
      /\ Pow2(21) = 2097152 /\ Pow2(22) = 4194304 /\ Pow2(23) = 8388608
      /\ Pow2(24) = 16777216 /\ Pow2(25) = 33554432 /\ Pow2(26) = 67108864
      /\ Pow2(27) = 134217728 /\ Pow2(28) = 268435456 /\ Pow2(29) = 536870912
      /\ Pow2(30) = 1073741824 /\ Pow2(31) = 2147483648 /\ Pow2(32) = 4294967296
  BY SMT DEF Pow2
<1>2. k \in 0..7 => Pow2(k) \in Nat \ {0} /\ Pow2(k + 1) = 2 * Pow2(k)
  BY <1>1, SMT
<1>3. k \in 8..15 => Pow2(k) \in Nat \ {0} /\ Pow2(k + 1) = 2 * Pow2(k)
  BY <1>1, SMT
<1>4. k \in 16..23 => Pow2(k) \in Nat \ {0} /\ Pow2(k + 1) = 2 * Pow2(k)
  BY <1>1, SMT
<1>5. k \in 24..31 => Pow2(k) \in Nat \ {0} /\ Pow2(k + 1) = 2 * Pow2(k)
  BY <1>1, SMT
<1> QED BY <1>2, <1>3, <1>4, <1>5, SMT

\* A non-empty set of naturals has a least element.
LEMMA NatMin ==
  ASSUME NEW S, S \subseteq Nat, S # {}
  PROVE  \E x \in S : \A y \in S : x <= y
<1> DEFINE R == {ss \in Nat \X Nat : ss[1] < ss[2]}
<1>1. IsWellFoundedOn(R, Nat)
  BY NatLessThanWellFounded, Zenon DEF OpToRel
<1>2. PICK x \in S : \A y \in S : ~ (<<y, x>> \in R)
  <2> HIDE DEF R
  <2> QED BY <1>1, WFMin, Zenon
<1>3. ASSUME NEW y \in S PROVE x <= y
  <2>1. ~ (<<y, x>> \in R)
    BY <1>2
  <2>2. x \in Nat /\ y \in Nat
    BY <1>2
  <2> QED BY <2>1, <2>2
<1> QED BY <1>2, <1>3

\* Induction up to n.
LEMMA Induct ==
  ASSUME NEW n \in Nat, NEW S, 0 \in S, \A i \in 1..n : i - 1 \in S => i \in S
  PROVE  \A i \in 0..n : i \in S
<1> SUFFICES ASSUME NEW j \in 0..n, j \notin S PROVE FALSE
  OBVIOUS
<1> DEFINE B == {i \in 0..n : i \notin S}
<1>1. B \subseteq Nat /\ B # {}
  OBVIOUS
<1>2. PICK x \in B : \A y \in B : x <= y
  <2> HIDE DEF B
  <2> QED BY <1>1, NatMin
<1>3. x # 0 /\ x \in 1..n
  BY <1>2
<1>4. x - 1 \notin B /\ x - 1 \in 0..n
  BY <1>2, <1>3
<1> QED BY <1>2, <1>3, <1>4

\* Division with remainder.
LEMMA Divided ==
  ASSUME NEW h \in Nat, NEW P \in Nat \ {0}
  PROVE  /\ h \div P \in Nat /\ h % P \in 0..(P - 1)
         /\ h = P * (h \div P) + (h % P)
         /\ h % P = 0 => h = P * (h \div P)
<1>1. h % P \in 0..(P - 1)
  OBVIOUS
<1>2. h = P * (h \div P) + (h % P)
  OBVIOUS
<1>3. h \div P \in Int
  OBVIOUS
<1>4. h \div P >= 0
  <2>1. SUFFICES ASSUME h \div P <= -1 PROVE FALSE
    BY <1>3
  <2> DEFINE q == h \div P
  <2>2. q \in Int /\ q <= -1 /\ h = P * q + (h % P)
    BY <1>2, <1>3, <2>1
  <2> HIDE DEF q
  <2>3. P * q <= P * (-1)
    BY <2>2
  <2> QED BY <1>1, <2>2, <2>3
<1>5. h % P = 0 => h = P * (h \div P)
  <2> DEFINE q == h \div P
  <2>1. q \in Int /\ h = P * q + (h % P)
    BY <1>2, <1>3
  <2> HIDE DEF q
  <2>2. h % P = 0 => h = P * q
    BY <2>1
  <2> QED BY <2>2 DEF q
<1> QED BY <1>1, <1>2, <1>3, <1>4, <1>5

LEMMA Quotient ==
  ASSUME NEW h \in Nat, NEW P \in Nat \ {0}, NEW a \in Nat
  PROVE  h \div P = a <=> P * a <= h /\ h < P * (a + 1)
<1>1. h \div P \in Nat /\ h % P \in 0..(P - 1) /\ h = P * (h \div P) + (h % P)
  BY Divided
<1> DEFINE q == h \div P
<1>2. q \in Nat /\ P * q <= h /\ h < P * q + P
  BY <1>1
<1> HIDE DEF q
<1>3. ASSUME q = a PROVE P * a <= h /\ h < P * (a + 1)
  BY <1>2, <1>3
<1>4. ASSUME P * a <= h, h < P * (a + 1) PROVE q = a
  <2>1. CASE q <= a - 1
    <3>1. P * (q + 1) <= P * a
      BY <1>2, <2>1
    <3> QED BY <1>2, <1>4, <3>1
  <2>2. CASE q >= a + 1
    <3>1. P * q >= P * (a + 1)
      BY <1>2, <2>2
    <3> QED BY <1>2, <1>4, <3>1
  <2> QED BY <1>2, <2>1, <2>2
<1>5. (q = a) <=> (P * a <= h /\ h < P * (a + 1))
  BY <1>3, <1>4
<1> QED BY <1>5 DEF q

\* Powers of two multiply.
LEMMA PowersMultiply ==
  ASSUME NEW a \in 0..32, NEW b \in 0..(32 - a)
  PROVE  Pow2(a + b) = Pow2(a) * Pow2(b)
<1> DEFINE S == {x \in 0..(32 - a) : Pow2(a + x) = Pow2(a) * Pow2(x)}
<1>0. \A x \in 0..32 : Pow2(x) \in Nat
  <2>1. \A x \in 0..31 : Pow2(x) \in Nat /\ Pow2(x + 1) = 2 * Pow2(x)
    BY Powers
  <2>2. \A x \in 1..32 : x - 1 \in 0..31 /\ (x - 1) + 1 = x
    OBVIOUS
  <2>3. \A x \in 1..32 : Pow2(x) \in Nat
    BY <2>1, <2>2
  <2> QED BY <2>1, <2>3
<1>1. 0 \in S
  <2>1. Pow2(0) = 1 /\ a + 0 = a
    BY DEF Pow2
  <2>2. Pow2(a) * 1 = Pow2(a)
    BY <1>0
  <2> QED BY <2>1, <2>2
<1>2. ASSUME NEW i \in 1..(32 - a), i - 1 \in S PROVE i \in S
  <2>1. i - 1 \in 0..31 /\ a + (i - 1) \in 0..31 /\ (i - 1) + 1 = i /\ (a + (i - 1)) + 1 = a + i
    OBVIOUS
  <2>2. Pow2((i - 1) + 1) = 2 * Pow2(i - 1) /\ Pow2((a + (i - 1)) + 1) = 2 * Pow2(a + (i - 1))
    BY <2>1, Powers
  <2>3. Pow2(i) = 2 * Pow2(i - 1) /\ Pow2(a + i) = 2 * Pow2(a + (i - 1)) /\ Pow2(a + (i - 1)) = Pow2(a) * Pow2(i - 1)
    BY <2>1, <2>2, <1>2
  <2>4. Pow2(a) \in Nat /\ Pow2(i - 1) \in Nat
    BY <1>0, <2>1
  <2>5. Pow2(a) * (2 * Pow2(i - 1)) = 2 * (Pow2(a) * Pow2(i - 1))
    BY <2>4
  <2> QED BY <2>3, <2>5
<1>3. \A x \in 0..(32 - a) : x \in S
  <2> HIDE DEF S
  <2>1. 32 - a \in Nat
    OBVIOUS
  <2> QED BY <1>1, <1>2, <2>1, Induct
<1> QED BY <1>3

LEMMA PowersSum ==
  ASSUME NEW a \in Nat, NEW b \in Nat, NEW c \in 0..32, c = a + b
  PROVE  Pow2(c) = Pow2(a) * Pow2(b)
<1>1. a \in 0..32 /\ b \in 0..(32 - a)
  OBVIOUS
<1> QED BY <1>1, PowersMultiply

LEMMA PowersDouble ==
  ASSUME NEW a \in 0..31, NEW b \in 1..32, b = a + 1
  PROVE  Pow2(a) \in Nat \ {0} /\ Pow2(b) = 2 * Pow2(a)
BY Powers

LEMMA PowersGrow ==
  ASSUME NEW a \in 0..32, NEW b \in 0..32
  PROVE  /\ Pow2(a) \in Nat \ {0}
         /\ a <= b => Pow2(a) <= Pow2(b)
         /\ a < b => 2 * Pow2(a) <= Pow2(b)
<1>1. ASSUME NEW x \in 0..32 PROVE Pow2(x) \in Nat \ {0}
  <2>1. CASE x \in 0..31
    BY <2>1, Powers
  <2>2. CASE x = 32
    <3>1. 31 \in 0..31 /\ 31 + 1 = x
      BY <2>2
    <3> QED BY <3>1, Powers
  <2> QED BY <2>1, <2>2
<1>2. ASSUME a <= b PROVE Pow2(a) <= Pow2(b)
  <2>1. b - a \in 0..(32 - a) /\ a + (b - a) = b /\ b - a \in 0..32
    BY <1>2
  <2>2. Pow2(b) = Pow2(a) * Pow2(b - a)
    BY <2>1, PowersMultiply
  <2>3. Pow2(a) \in Nat /\ Pow2(b - a) \in Nat \ {0}
    BY <1>1, <2>1
  <2>4. Pow2(a) * 1 <= Pow2(a) * Pow2(b - a)
    BY <2>3
  <2> QED BY <2>2, <2>3, <2>4
<1>3. ASSUME a < b PROVE 2 * Pow2(a) <= Pow2(b)
  <2>1. b - a - 1 \in 0..31 /\ b - a \in 0..(32 - a) /\ a + (b - a) = b /\ (b - a - 1) + 1 = b - a
    BY <1>3
  <2>2. Pow2(b) = Pow2(a) * Pow2(b - a)
    BY <2>1, PowersMultiply
  <2>3. Pow2(b - a - 1) \in Nat \ {0} /\ Pow2(b - a) = 2 * Pow2(b - a - 1) /\ Pow2(a) \in Nat
    BY <1>1, <2>1, Powers
  <2>4. Pow2(a) * 2 <= Pow2(a) * (2 * Pow2(b - a - 1))
    BY <2>3
  <2> QED BY <2>2, <2>3, <2>4
<1> QED BY <1>1, <1>2, <1>3

LEMMA Cancel ==
  ASSUME NEW P \in Nat \ {0}, NEW x \in Int, NEW y \in Int
  PROVE  /\ P * x = P * y => x = y
         /\ P * x < P * y => x < y
         /\ P * x <= P * y => x <= y
<1>1. x < y => P * x < P * y
  <2>1. ASSUME x < y PROVE P * x < P * y
    <3>1. P * (x + 1) <= P * y
      BY <2>1
    <3> QED BY <3>1
  <2> QED BY <2>1
<1>2. y < x => P * y < P * x
  <2>1. ASSUME y < x PROVE P * y < P * x
    <3>1. P * (y + 1) <= P * x
      BY <2>1
    <3> QED BY <3>1
  <2> QED BY <2>1
<1>3. P * x \in Int /\ P * y \in Int
  OBVIOUS
<1> QED BY <1>1, <1>2, <1>3

-----------------------------------------------------------------------------
(* Node numbers *)

\* The node at height z, the m-th from the left: below it are the hashes whose
\* leading bits are m.
Node(z, m) == Pow2(z) * (2 * m + 1)

\* What is above height z in a tree of depth d.
Width(d, z) == Pow2(d - 1 - z)

\* The pair x of CountTrailingZeros stands for n: x.c - 1 zeros have been taken away.
Stands(x, n) ==
  /\ x.n \in Nat \ {0} /\ x.c \in 1..32
  /\ n = Pow2(x.c - 1) * x.n

\* A conditional shift by k takes k zeros away or leaves less than k.
LEMMA Shifted ==
  ASSUME NEW n \in Nat \ {0}, NEW k \in 1..16, NEW x, Stands(x, n), x.c <= 32 - k
  PROVE  LET y == ShiftIfZero(x, k)
         IN  /\ Stands(y, n) /\ y.c <= x.c + k
             /\ (y.n = x.n /\ y.n % Pow2(k) # 0) \/ x.n = Pow2(k) * y.n
<1> DEFINE y == ShiftIfZero(x, k)
<1>0. x.n \in Nat \ {0} /\ x.c \in 1..(32 - k) /\ n = Pow2(x.c - 1) * x.n
  BY DEF Stands
<1>1. Pow2(k) \in Nat \ {0} /\ Pow2(x.c - 1) \in Nat \ {0}
  BY <1>0, Powers
<1>2. CASE x.n % Pow2(k) = 0
  <2>1. x.n = Pow2(k) * (x.n \div Pow2(k)) /\ x.n \div Pow2(k) \in Nat
    BY <1>0, <1>1, <1>2, Divided
  <2>2. x.n \div Pow2(k) # 0
    BY <1>0, <1>1, <2>1
  <2>3. y = [n |-> x.n \div Pow2(k), c |-> x.c + k]
    BY <1>2, Zenon DEF ShiftIfZero
  <2>4. x.c - 1 \in 0..32 /\ k \in 0..(32 - (x.c - 1)) /\ y.c - 1 = (x.c - 1) + k
    BY <1>0, <2>3
  <2>5. Pow2(y.c - 1) = Pow2(x.c - 1) * Pow2(k)
    BY <2>4, PowersMultiply
  <2>6. n = Pow2(y.c - 1) * y.n
    <3> DEFINE P == Pow2(k)
               Q == Pow2(x.c - 1)
               m == x.n \div Pow2(k)
    <3>1. P \in Nat /\ Q \in Nat /\ m \in Nat /\ n = Q * (P * m) /\ Pow2(y.c - 1) = Q * P /\ y.n = m
      BY <1>0, <1>1, <2>1, <2>3, <2>5
    <3> HIDE DEF P, Q, m
    <3>2. Q * (P * m) = (Q * P) * m
      BY <3>1
    <3> QED BY <3>1, <3>2
  <2> QED BY <1>0, <2>1, <2>2, <2>3, <2>6 DEF Stands
<1>3. CASE x.n % Pow2(k) # 0
  <2>1. y = x
    BY <1>3, Zenon DEF ShiftIfZero
  <2> QED BY <1>0, <1>3, <2>1 DEF Stands
<1> QED BY <1>2, <1>3

\* CountTrailingZeros counts the trailing zeros of the numbers up to 2^28.
LEMMA TrailingZeros ==
  ASSUME NEW n \in 1..Pow2(28)
  PROVE  /\ CountTrailingZeros(n) \in 0..28
         /\ \E m \in Nat : n = Node(CountTrailingZeros(n), m)
<1> DEFINE c == CountTrailingZeros(n)
<1>1. c \in 0..31 /\ \E m \in Nat : n = Node(c, m)
  <2>1. CASE n % 2 = 1
    <3>1. CountTrailingZeros(n) = 0
      BY <2>1 DEF CountTrailingZeros
    <3>2. PICK m \in Nat : n = 2 * m + 1
      BY <2>1
    <3>3. n = Node(0, m)
      BY <3>2 DEF Node, Pow2
    <3> QED BY <3>1, <3>2, <3>3
  <2>2. CASE n % 2 = 0
    <3> DEFINE s == [n |-> n, c |-> 1]
               s1 == ShiftIfZero(s, 16)
               s2 == ShiftIfZero(s1, 8)
               s3 == ShiftIfZero(s2, 4)
               s4 == ShiftIfZero(s3, 2)
    <3>1. CountTrailingZeros(n) = s4.c - (s4.n % 2)
      BY <2>2 DEF CountTrailingZeros
    <3>2. Pow2(16) = 65536 /\ Pow2(8) = 256 /\ Pow2(4) = 16 /\ Pow2(2) = 4 /\ Pow2(0) = 1 /\ Pow2(28) = 268435456
      BY SMT DEF Pow2
    <3>3. n \in Nat \ {0}
      BY <3>2, SMT
    <3>20. n < 4294967296
      BY <3>2, SMT
    <3>4. Stands(s, n) /\ s.n = n /\ s.c <= 1
      BY <3>2, <3>3, SMT DEF Stands
    <3> HIDE DEF s
    <3>5. /\ Stands(s1, n) /\ s1.c <= 17
          /\ (s1.n = s.n /\ s1.n % 65536 # 0) \/ s.n = 65536 * s1.n
      <4>2. s.c \in Nat
        BY <3>4, SMT DEF Stands
      <4>1. 16 \in 1..16 /\ s.c <= 32 - 16
        BY <3>4, <4>2, SMT
      <4>3. /\ Stands(s1, n) /\ s1.c <= s.c + 16
            /\ (s1.n = s.n /\ s1.n % Pow2(16) # 0) \/ s.n = Pow2(16) * s1.n
        BY <3>3, <3>4, <4>1, Shifted, SMT
      <4>4. s1.c \in Nat
        BY <4>3, SMT DEF Stands
      <4> HIDE DEF s1
      <4> QED BY <3>2, <3>4, <4>2, <4>3, <4>4, SMT
    <3> HIDE DEF s1
    <3>6. /\ Stands(s2, n) /\ s2.c <= 25
          /\ (s2.n = s1.n /\ s2.n % 256 # 0) \/ s1.n = 256 * s2.n
      <4>2. s1.c \in Nat
        BY <3>5, SMT DEF Stands
      <4>1. 8 \in 1..16 /\ s1.c <= 32 - 8
        BY <3>5, <4>2, SMT
      <4>3. /\ Stands(s2, n) /\ s2.c <= s1.c + 8
            /\ (s2.n = s1.n /\ s2.n % Pow2(8) # 0) \/ s1.n = Pow2(8) * s2.n
        BY <3>3, <3>5, <4>1, Shifted, SMT
      <4>4. s2.c \in Nat
        BY <4>3, SMT DEF Stands
      <4> HIDE DEF s2
      <4> QED BY <3>2, <3>5, <4>2, <4>3, <4>4, SMT
    <3> HIDE DEF s2
    <3>7. /\ Stands(s3, n) /\ s3.c <= 29
          /\ (s3.n = s2.n /\ s3.n % 16 # 0) \/ s2.n = 16 * s3.n
      <4>2. s2.c \in Nat
        BY <3>6, SMT DEF Stands
      <4>1. 4 \in 1..16 /\ s2.c <= 32 - 4
        BY <3>6, <4>2, SMT
      <4>3. /\ Stands(s3, n) /\ s3.c <= s2.c + 4
            /\ (s3.n = s2.n /\ s3.n % Pow2(4) # 0) \/ s2.n = Pow2(4) * s3.n
        BY <3>3, <3>6, <4>1, Shifted, SMT
      <4>4. s3.c \in Nat
        BY <4>3, SMT DEF Stands
      <4> HIDE DEF s3
      <4> QED BY <3>2, <3>6, <4>2, <4>3, <4>4, SMT
    <3> HIDE DEF s3
    <3>8. /\ Stands(s4, n) /\ s4.c <= 31
          /\ (s4.n = s3.n /\ s4.n % 4 # 0) \/ s3.n = 4 * s4.n
      <4>2. s3.c \in Nat
        BY <3>7, SMT DEF Stands
      <4>1. 2 \in 1..16 /\ s3.c <= 32 - 2
        BY <3>7, <4>2, SMT
      <4>3. /\ Stands(s4, n) /\ s4.c <= s3.c + 2
            /\ (s4.n = s3.n /\ s4.n % Pow2(2) # 0) \/ s3.n = Pow2(2) * s4.n
        BY <3>3, <3>7, <4>1, Shifted, SMT
      <4>4. s4.c \in Nat
        BY <4>3, SMT DEF Stands
      <4> HIDE DEF s4
      <4> QED BY <3>2, <3>7, <4>2, <4>3, <4>4, SMT
    <3> HIDE DEF s4
    \* What each shift leaves cannot be divided by the next power again.
    <3>9. s1.n \in Nat \ {0} /\ s2.n \in Nat \ {0} /\ s3.n \in Nat \ {0} /\ s4.n \in Nat \ {0}
      BY <3>5, <3>6, <3>7, <3>8 DEF Stands
    <3>10. s1.n % 65536 # 0
      BY <3>3, <3>20, <3>4, <3>5, <3>9, SMT
    <3>11. s2.n % 256 # 0
      BY <3>6, <3>9, <3>10, SMT
    <3>12. s3.n % 16 # 0
      BY <3>7, <3>9, <3>11, SMT
    <3>15. s4.n % 4 # 0
      BY <3>8, <3>9, <3>12, SMT
    <3>16. s4.c \in 1..31 /\ n = Pow2(s4.c - 1) * s4.n
      BY <3>8, SMT DEF Stands
    <3>13. CASE s4.n % 2 = 1
      <4>1. PICK m \in Nat : s4.n = 2 * m + 1
        BY <3>9, <3>16, <3>13
      <4>2. CountTrailingZeros(n) = s4.c - 1
        BY <3>1, <3>9, <3>16, <3>13
      <4>3. n = Node(s4.c - 1, m)
        BY <3>9, <3>16, <4>1, Zenon DEF Node
      <4> QED BY <3>9, <3>16, <4>1, <4>2, <4>3
    <3>14. CASE s4.n % 2 = 0
      <4>1. PICK m \in Nat : s4.n = 2 * (2 * m + 1)
        <5>1. PICK j \in Nat : s4.n = 2 * j
          BY <3>9, <3>16, <3>14
        <5>2. PICK m \in Nat : j = 2 * m \/ j = 2 * m + 1
          <6>1. j \div 2 \in Nat /\ (j = 2 * (j \div 2) \/ j = 2 * (j \div 2) + 1)
            OBVIOUS
          <6> QED BY <6>1
        <5> QED BY <3>15, <5>1, <5>2
      <4>2. s4.c - 1 \in 0..31 /\ (s4.c - 1) + 1 = s4.c
        BY <3>9, <3>16
      <4>3. Pow2(s4.c - 1) \in Nat /\ Pow2(s4.c) = 2 * Pow2(s4.c - 1)
        BY <4>2, Powers
      <4>4. n = Node(s4.c, m) /\ CountTrailingZeros(n) = s4.c
        <5>1. CountTrailingZeros(n) = s4.c
          BY <3>1, <3>9, <3>16, <3>14
        <5>2. Pow2(s4.c - 1) * (2 * (2 * m + 1)) = (2 * Pow2(s4.c - 1)) * (2 * m + 1)
          BY <4>1, <4>3
        <5> QED BY <3>9, <3>16, <4>1, <4>3, <5>1, <5>2 DEF Node
      <4> QED BY <3>9, <3>16, <4>1, <4>4
    <3> QED BY <3>9, <3>16, <3>13, <3>14
  <2> QED BY <2>1, <2>2
<1> HIDE DEF c
<1>2. PICK m \in Nat : n = Node(c, m)
  BY <1>1
<1>3. ~(c > 28)
  <2> SUFFICES ASSUME c > 28 PROVE FALSE
    OBVIOUS
  <2>1. 28 \in 0..32 /\ c \in 29..32
    BY <1>1
  <2>2. 2 * Pow2(28) <= Pow2(c) /\ Pow2(28) \in Nat \ {0} /\ Pow2(c) \in Nat
    BY <2>1, PowersGrow
  <2>3. Pow2(c) * 1 <= Pow2(c) * (2 * m + 1)
    BY <2>2
  <2> QED BY <1>2, <2>2, <2>3 DEF Node
<1> QED BY <1>1, <1>2, <1>3 DEF c

\* Node(z, m) is a node of a tree of depth d.
IsAt(d, z, m) ==
  d \in 1..HashBits /\ z \in 0..(d - 1) /\ m \in 0..(Pow2(d - 1 - z) - 1)

\* A number is a node in one way.
LEMMA OneForm ==
  ASSUME NEW a \in 0..31, NEW b \in 0..31, NEW i \in Nat, NEW j \in Nat, Node(a, i) = Node(b, j)
  PROVE  a = b /\ i = j
<1>1. ASSUME NEW x \in 0..31, NEW y \in 0..31, x < y, NEW p \in Nat, NEW q \in Nat
      PROVE  Node(x, p) # Node(y, q)
  <2>1. y - x \in 0..(32 - x) /\ y - x - 1 \in 0..31 /\ (y - x - 1) + 1 = y - x /\ x + (y - x) = y
    BY <1>1
  <2>2. Pow2(y) = Pow2(x) * Pow2(y - x) /\ Pow2(y - x) = 2 * Pow2(y - x - 1)
    <3>1. Pow2(y) = Pow2(x) * Pow2(y - x)
      BY <2>1, PowersSum
    <3>2. y - x \in 1..32
      BY <2>1
    <3>3. Pow2(y - x) = 2 * Pow2(y - x - 1)
      BY <2>1, <3>2, PowersDouble
    <3> QED BY <3>1, <3>3
  <2> DEFINE P == Pow2(x)
             Q == Pow2(y - x - 1)
  <2>3. P \in Nat \ {0} /\ Q \in Nat
    BY <2>1, Powers
  <2>4. Node(y, q) = (P * (2 * Q)) * (2 * q + 1) /\ Node(x, p) = P * (2 * p + 1)
    BY <2>2 DEF Node
  <2> HIDE DEF P, Q
  <2>5. (P * (2 * Q)) * (2 * q + 1) = P * (2 * (Q * (2 * q + 1)))
    BY <2>3
  <2> DEFINE r == Q * (2 * q + 1)
  <2>6. r \in Nat
    BY <2>3
  <2> HIDE DEF r
  <2>7. P * (2 * p + 1) # P * (2 * r)
    BY <2>3, <2>6, Cancel
  <2> QED BY <2>4, <2>5, <2>7 DEF r
<1>2. a = b
  <2>1. ~(a < b)
    BY <1>1
  <2>2. ~(b < a)
    BY <1>1
  <2> QED BY <2>1, <2>2
<1>3. Pow2(a) \in Nat \ {0}
  BY Powers
<1>4. 2 * i + 1 = 2 * j + 1
  <2>1. Pow2(a) * (2 * i + 1) = Pow2(a) * (2 * j + 1)
    BY <1>2, Zenon DEF Node
  <2>2. 2 * i + 1 \in Int /\ 2 * j + 1 \in Int
    OBVIOUS
  <2> QED BY <1>3, <2>1, <2>2, Cancel
<1> QED BY <1>2, <1>4

\* The powers of a node: its height, its width and its tree.
LEMMA AtPowers ==
  ASSUME NEW d, NEW z, NEW m, IsAt(d, z, m)
  PROVE  /\ d \in 1..28 /\ z \in 0..27 /\ m \in Nat
         /\ Pow2(z) \in Nat \ {0} /\ Pow2(d - 1 - z) \in Nat \ {0}
         /\ Pow2(z + 1) = 2 * Pow2(z)
         /\ Pow2(d) = Pow2(z + 1) * Pow2(d - 1 - z)
         /\ Pow2(d) <= Pow2(HashBits) /\ Pow2(HashBits) <= Pow2(28)
<1>0. HashBits \in 1..28
  BY DepthAssumption DEF MerkleMaxDepth
<1>1. d \in 1..HashBits /\ z \in 0..(d - 1) /\ m \in 0..(Pow2(d - 1 - z) - 1)
  BY DEF IsAt
<1>2. d \in 1..28 /\ z \in 0..27 /\ d - 1 - z \in 0..27 /\ z + 1 \in 0..31 /\ (z + 1) + (d - 1 - z) = d
      /\ d - 1 - z \in 0..(32 - (z + 1)) /\ z \in 0..31 /\ d \in 0..32 /\ HashBits \in 0..32
  BY <1>0, <1>1
<1>3. Pow2(z) \in Nat \ {0} /\ Pow2(d - 1 - z) \in Nat \ {0} /\ Pow2(z + 1) = 2 * Pow2(z)
  BY <1>2, Powers
<1>4. Pow2(d) = Pow2(z + 1) * Pow2(d - 1 - z)
  BY <1>2, PowersMultiply
<1>5. Pow2(d) <= Pow2(HashBits) /\ Pow2(HashBits) <= Pow2(28)
  BY <1>0, <1>1, <1>2, PowersGrow
<1> QED BY <1>1, <1>2, <1>3, <1>4, <1>5

LEMMA NodeIs ==
  ASSUME NEW d, NEW z, NEW m, IsAt(d, z, m)
  PROVE  Node(z, m) \in Nodes(d) /\ Zeros[Node(z, m)] = z /\ Level(d, Node(z, m)) = d - z
<1> DEFINE n == Node(z, m)
           P == Pow2(z)
           W == Pow2(d - 1 - z)
<1>1. /\ P \in Nat \ {0} /\ W \in Nat \ {0} /\ m \in 0..(W - 1) /\ Pow2(d) = (2 * P) * W /\ n = P * (2 * m + 1)
      /\ Pow2(d) <= Pow2(HashBits) /\ Pow2(HashBits) <= Pow2(28)
  BY AtPowers DEF IsAt, Node
<1>2. n \in Nat /\ n > 0 /\ n < Pow2(d)
  <2> HIDE DEF P, W, n
  <2>1. P * 1 <= P * (2 * m + 1) /\ P * (2 * m + 1) <= P * (2 * W - 1)
    BY <1>1
  <2>2. P * (2 * W - 1) = (2 * P) * W - P
    BY <1>1
  <2>3. (2 * P) * W \in Nat
    BY <1>1
  <2> QED BY <1>1, <2>1, <2>2, <2>3
<1>3. HashBits \in 0..31 /\ d \in 0..31 /\ 28 \in 0..31
  BY DepthAssumption, AtPowers DEF MerkleMaxDepth
<1>4. Pow2(d) \in Nat /\ Pow2(HashBits) \in Nat /\ Pow2(28) \in Nat
  BY <1>3, Powers
<1> HIDE DEF n
<1>5. n \in Nodes(d) /\ n \in 1..Pow2(HashBits) /\ n \in 1..Pow2(28)
  BY <1>1, <1>2, <1>4 DEF Nodes, NodeLimit
<1>6. CountTrailingZeros(n) \in 0..28 /\ \E i \in Nat : n = Node(CountTrailingZeros(n), i)
  BY <1>5, TrailingZeros
<1>7. CountTrailingZeros(n) = z
  <2>1. CountTrailingZeros(n) \in 0..31 /\ z \in 0..31 /\ m \in Nat
    BY <1>6, AtPowers
  <2> QED BY <1>6, <2>1, OneForm DEF n
<1>8. Zeros[n] = z
  BY <1>5, <1>7 DEF Zeros
<1> QED BY <1>5, <1>8 DEF n, Level

LEMMA NodeForm ==
  ASSUME NEW d \in 1..HashBits, NEW n \in Nodes(d)
  PROVE  \E z, m : IsAt(d, z, m) /\ n = Node(z, m)
<1>0. HashBits \in 1..28 /\ d \in 1..28
  BY DepthAssumption DEF MerkleMaxDepth
<1>1. Pow2(d) \in Nat /\ Pow2(28) \in Nat /\ Pow2(d) <= Pow2(28)
  BY <1>0, PowersGrow
<1>2. n \in Nat /\ n > 0 /\ n < Pow2(d) /\ n \in 1..Pow2(28)
  BY <1>1 DEF Nodes, NodeLimit
<1> DEFINE z == CountTrailingZeros(n)
<1>3. z \in 0..28
  BY <1>2, TrailingZeros
<1>4. PICK m \in Nat : n = Node(z, m)
  BY <1>2, TrailingZeros
<1> HIDE DEF z
<1>5. Pow2(z) \in Nat \ {0} /\ n = Pow2(z) * (2 * m + 1)
  BY <1>3, <1>4, Powers DEF Node
<1>6. z < d
  <2> SUFFICES ASSUME d <= z PROVE FALSE
    BY <1>0, <1>3
  <2>1. Pow2(d) <= Pow2(z)
    BY <1>0, <1>3, PowersGrow
  <2>2. Pow2(z) * 1 <= Pow2(z) * (2 * m + 1)
    BY <1>5
  <2> QED BY <1>1, <1>2, <1>5, <2>1, <2>2
<1>7. m < Pow2(d - 1 - z)
  <2>1. z + 1 \in 0..31 /\ z \in 0..31 /\ d - 1 - z \in 0..(32 - (z + 1)) /\ (z + 1) + (d - 1 - z) = d /\ d - 1 - z \in 0..31
    BY <1>0, <1>3, <1>6
  <2> DEFINE P == Pow2(z)
             W == Pow2(d - 1 - z)
  <2>2. Pow2(d) = (2 * P) * W /\ P \in Nat \ {0} /\ W \in Nat
    <3>1. Pow2(d) = Pow2(z + 1) * Pow2(d - 1 - z)
      BY <1>0, <2>1, PowersSum
    <3>2. Pow2(z + 1) = 2 * Pow2(z) /\ Pow2(z) \in Nat \ {0} /\ Pow2(d - 1 - z) \in Nat
      BY <2>1, Powers
    <3> QED BY <3>1, <3>2
  <2>3. P * (2 * m + 1) < (2 * P) * W
    BY <1>2, <1>5, <2>2
  <2> HIDE DEF P, W
  <2>4. P * (2 * m + 1) < P * (2 * W)
    BY <2>2, <2>3
  <2>5. 2 * m + 1 < 2 * W
    BY <2>2, <2>4, Cancel
  <2>6. m < W
    BY <2>2, <2>5
  <2> QED BY <2>6 DEF W
<1>8. Pow2(d - 1 - z) \in Nat
  BY <1>0, <1>3, <1>6, Powers
<1>9. IsAt(d, z, m)
  BY <1>0, <1>3, <1>6, <1>7, <1>8 DEF IsAt
<1> QED BY <1>4, <1>9

LEMMA QuotientAtLeast ==
  ASSUME NEW h \in Nat, NEW P \in Nat \ {0}, NEW x \in Nat
  PROVE  x <= h \div P <=> P * x <= h
<1> DEFINE q == h \div P
<1>1. q \in Nat /\ P * q <= h /\ h < P * (q + 1)
  <2>1. h \div P \in Nat /\ h % P \in 0..(P - 1) /\ h = P * (h \div P) + (h % P)
    BY Divided
  <2> QED BY <2>1
<1> HIDE DEF q
<1>2. ASSUME x <= q PROVE P * x <= h
  <2>1. P * x <= P * q
    BY <1>1, <1>2
  <2> QED BY <1>1, <2>1
<1>3. ASSUME q < x PROVE h < P * x
  <2>1. P * (q + 1) <= P * x
    BY <1>1, <1>3
  <2> QED BY <1>1, <2>1
<1>4. P * x \in Nat
  OBVIOUS
<1>5. x <= q <=> P * x <= h
  BY <1>1, <1>2, <1>3, <1>4
<1> QED BY <1>5 DEF q

\* Dividing twice is dividing by the product.
LEMMA QuotientTwice ==
  ASSUME NEW h \in Nat, NEW P \in Nat \ {0}, NEW Q \in Nat \ {0}
  PROVE  (h \div P) \div Q = h \div (P * Q)
<1> DEFINE a == (h \div P) \div Q
<1>0. a \in Nat
  <2> DEFINE q == h \div P
  <2>1. q \in Nat
    BY Divided
  <2> HIDE DEF q
  <2>2. q \div Q \in Nat
    BY <2>1, Divided
  <2> QED BY <2>2 DEF q
<1> HIDE DEF a
<1>1. h \div P \in Nat
  BY Divided
<1>2. P * Q \in Nat \ {0} /\ Q * a \in Nat /\ Q * (a + 1) \in Nat
  <2>1. P * Q >= P * 1
    OBVIOUS
  <2> QED BY <1>0, <2>1
<1>3. Q * a <= h \div P /\ h \div P < Q * (a + 1)
  <2> DEFINE q == h \div P
  <2>1. q \in Nat /\ q \div Q = a
    BY <1>1 DEF a
  <2> HIDE DEF q
  <2>2. Q * a <= q /\ q < Q * (a + 1)
    BY <1>0, <2>1, Quotient
  <2> QED BY <2>2 DEF q
<1>4. P * (Q * a) <= h
  BY <1>2, <1>3, QuotientAtLeast
<1>5. h < P * (Q * (a + 1))
  <2>1. Q * (a + 1) <= h \div P <=> P * (Q * (a + 1)) <= h
    BY <1>2, QuotientAtLeast
  <2>2. P * (Q * (a + 1)) \in Nat
    BY <1>2
  <2> QED BY <1>1, <1>2, <1>3, <2>1, <2>2
<1>6. P * (Q * a) = (P * Q) * a /\ P * (Q * (a + 1)) = (P * Q) * (a + 1)
  BY <1>0
<1>7. h \div (P * Q) = a
  <2> DEFINE r == P * Q
  <2>1. r \in Nat \ {0}
    BY <1>2
  <2> HIDE DEF r
  <2>2. r * a <= h /\ h < r * (a + 1)
    BY <1>4, <1>5, <1>6 DEF r
  <2>3. h \div r = a
    BY <1>0, <2>1, <2>2, Quotient
  <2> QED BY <2>3 DEF r
<1> QED BY <1>7 DEF a

\* The height of a hash's ancestors at level l of any tree.
Rest(l) == HashBits - l + 1

Hashes == 0..(Pow2(HashBits) - 1)

LEMMA SubRange ==
  ASSUME NEW d, NEW z, NEW m, IsAt(d, z, m)
  PROVE  /\ SubRangeMin(Node(z, m)) = Pow2(z + 1) * m
         /\ SubRangeMax(Node(z, m)) = Pow2(z + 1) * (m + 1)
<1> DEFINE n == Node(z, m)
           P == Pow2(z)
<1>1. Zeros[n] = z
  BY NodeIs
<1>2. P \in Nat /\ Pow2(z + 1) = 2 * P /\ n = P * (2 * m + 1) /\ m \in Nat
  BY AtPowers DEF Node
<1>3. SubRangeMin(n) = n - P /\ SubRangeMax(n) = n + P
  BY <1>1 DEF SubRangeMin, SubRangeMax
<1> HIDE DEF P, n
<1>4. P * (2 * m + 1) - P = (2 * P) * m /\ P * (2 * m + 1) + P = (2 * P) * (m + 1)
  BY <1>2
<1> QED BY <1>2, <1>3, <1>4 DEF n

\* The rows below a node are those whose hashes begin with its position.
LEMMA BelowIs ==
  ASSUME NEW d, NEW z, NEW m, IsAt(d, z, m), NEW h \in Hashes
  PROVE  LeafNode(h, d) \in SubRangeMin(Node(z, m))..(SubRangeMax(Node(z, m)) - 1)
           <=> h \div Pow2(Rest(d - z)) = m
<1> DEFINE R == Pow2(HashBits - d)
           T == Pow2(z + 1)
           q == h \div R
<1>0. HashBits \in 1..28 /\ d \in 1..HashBits /\ z \in 0..(d - 1) /\ m \in Nat
  BY DepthAssumption, AtPowers DEF MerkleMaxDepth, IsAt
<1>1. h \in Nat
  BY DEF Hashes
<1>2. R \in Nat \ {0} /\ Pow2(z) \in Nat \ {0} /\ T = 2 * Pow2(z)
  <2>1. HashBits - d \in 0..31
    BY <1>0
  <2>2. R \in Nat \ {0}
    BY <2>1, Powers
  <2> QED BY <2>2, AtPowers
<1>3. Pow2(Rest(d - z)) = R * T
  <2>1. HashBits - d \in Nat /\ z + 1 \in Nat /\ Rest(d - z) \in 0..32 /\ Rest(d - z) = (HashBits - d) + (z + 1)
    BY <1>0 DEF Rest
  <2> QED BY <2>1, PowersSum
<1>4. q \in Nat /\ T \in Nat \ {0}
  <2>1. T \in Nat \ {0}
    BY <1>2
  <2> HIDE DEF R
  <2>2. h \div R \in Nat
    BY <1>1, <1>2, Divided
  <2> QED BY <2>1, <2>2
<1>5. q \div T = h \div (R * T)
  <2>1. R \in Nat \ {0} /\ T \in Nat \ {0} /\ m \in Nat
    BY <1>0, <1>2, <1>4
  <2> HIDE DEF R, T
  <2> QED BY <1>1, <2>1, QuotientTwice
<1>6. q \div T = m <=> T * m <= q /\ q < T * (m + 1)
  <2> HIDE DEF q, T
  <2> QED BY <1>0, <1>4, Quotient
<1>7. LeafNode(h, d) = IF q % 2 = 1 THEN q ELSE q + 1
  BY DEF LeafNode
<1>8. SubRangeMin(Node(z, m)) = T * m /\ SubRangeMax(Node(z, m)) = T * (m + 1)
  BY SubRange
<1>9. LeafNode(h, d) \in (T * m)..(T * (m + 1) - 1) <=> T * m <= q /\ q < T * (m + 1)
  <2> DEFINE u == Pow2(z) * m
             v == Pow2(z) * (m + 1)
  <2>1. T * m = 2 * u /\ T * (m + 1) = 2 * v /\ u \in Nat /\ v \in Nat
    BY <1>0, <1>2
  <2> HIDE DEF q, T, u, v
  <2> QED BY <1>4, <1>7, <2>1
<1> QED BY <1>3, <1>5, <1>6, <1>8, <1>9

\* The children of a node.
LEMMA ChildrenAre ==
  ASSUME NEW d, NEW z, NEW m, IsAt(d, z, m)
  PROVE  LET n == Node(z, m)
         IN  /\ n % 2 = 1 <=> z = 0
             /\ z > 0 => /\ IsAt(d, z - 1, 2 * m) /\ LeftChild(n) = Node(z - 1, 2 * m)
                         /\ IsAt(d, z - 1, 2 * m + 1) /\ RightChild(n) = Node(z - 1, 2 * m + 1)
<1> DEFINE n == Node(z, m)
<1>0. d \in 1..HashBits /\ z \in 0..(d - 1) /\ m \in 0..(Pow2(d - 1 - z) - 1) /\ m \in Nat
      /\ HashBits \in 1..28 /\ Zeros[n] = z
  BY AtPowers, NodeIs, DepthAssumption DEF IsAt, MerkleMaxDepth
<1>1. CASE z = 0
  <2>1. n = 2 * m + 1
    BY <1>0, <1>1 DEF Node, Pow2
  <2>2. n % 2 = 1
    BY <1>0, <2>1
  <2> QED BY <1>1, <2>2
<1>2. CASE z > 0
  <2> DEFINE P == Pow2(z - 1)
             W == Pow2(d - 1 - z)
  <2>1. P \in Nat \ {0} /\ Pow2(z) = 2 * P /\ W \in Nat \ {0} /\ Pow2(d - 1 - (z - 1)) = 2 * W
    <3>1. z - 1 \in 0..31 /\ z \in 1..32 /\ z = (z - 1) + 1
          /\ d - 1 - z \in 0..31 /\ d - 1 - (z - 1) \in 1..32 /\ d - 1 - (z - 1) = (d - 1 - z) + 1
      BY <1>0, <1>2
    <3> QED BY <3>1, PowersDouble
  <2>2. n = (2 * P) * (2 * m + 1)
    BY <2>1 DEF Node
  <2>3. n % 2 = 0
    <3> DEFINE r == P * (2 * m + 1)
    <3>1. r \in Nat /\ n = 2 * r
      BY <1>0, <2>1, <2>2
    <3> HIDE DEF r, n
    <3> QED BY <3>1
  <2>4. LeftChild(n) = n - P /\ RightChild(n) = n + P
    BY <1>0, <2>3 DEF LeftChild, RightChild
  <2>5. n - P = P * (2 * (2 * m) + 1) /\ n + P = P * (2 * (2 * m + 1) + 1)
    <3> HIDE DEF P, n
    <3>1. P * (2 * (2 * m) + 1) = (2 * P) * (2 * m + 1) - P /\ P * (2 * (2 * m + 1) + 1) = (2 * P) * (2 * m + 1) + P
      BY <1>0, <2>1
    <3> QED BY <2>2, <3>1
  <2>6. 2 * m \in 0..(2 * W - 1) /\ 2 * m + 1 \in 0..(2 * W - 1)
    BY <1>0, <2>1
  <2>7. IsAt(d, z - 1, 2 * m) /\ IsAt(d, z - 1, 2 * m + 1)
    BY <1>0, <1>2, <2>1, <2>6 DEF IsAt
  <2> QED BY <1>2, <2>3, <2>4, <2>5, <2>7 DEF Node
<1> QED BY <1>0, <1>1, <1>2

\* Going up undoes going down.
LEMMA ParentIs ==
  ASSUME NEW d, NEW z, NEW m, IsAt(d, z, m), NEW j \in Nat, m = 2 * j \/ m = 2 * j + 1
  PROVE  ParentNode(Node(z, m)) = Node(z + 1, j)
<1> DEFINE n == Node(z, m)
           P == Pow2(z)
           T == Pow2(z + 1)
<1>1. Zeros[n] = z /\ P \in Nat \ {0} /\ T = 2 * P /\ n = P * (2 * m + 1) /\ m \in Nat
  BY AtPowers, NodeIs DEF Node
<1>2. n \in Nat /\ T \in Nat \ {0}
  BY <1>1
<1>3. n \div T = m
  <2> HIDE DEF n, P, T
  <2>1. T * m = P * (2 * m) /\ T * (m + 1) = P * (2 * m + 2)
    BY <1>1
  <2>2. P * (2 * m) <= P * (2 * m + 1) /\ P * (2 * m + 1) < P * (2 * m + 2)
    BY <1>1
  <2> QED BY <1>1, <1>2, <2>1, <2>2, Quotient
<1>4. ParentNode(n) = IF m % 2 = 1 THEN n - P ELSE n + P
  BY <1>1, <1>3 DEF ParentNode
<1>5. Node(z + 1, j) = (2 * P) * (2 * j + 1)
  BY <1>1 DEF Node
<1> HIDE DEF n, P
<1>6. CASE m = 2 * j
  <2>1. m % 2 = 0
    BY <1>6
  <2>2. P * (2 * (2 * j) + 1) + P = (2 * P) * (2 * j + 1)
    BY <1>1
  <2> QED BY <1>1, <1>4, <1>5, <1>6, <2>1, <2>2 DEF n
<1>7. CASE m = 2 * j + 1
  <2>1. m % 2 = 1
    BY <1>7
  <2>2. P * (2 * (2 * j + 1) + 1) - P = (2 * P) * (2 * j + 1)
    BY <1>1
  <2> QED BY <1>1, <1>4, <1>5, <1>7, <2>1, <2>2 DEF n
<1> QED BY <1>6, <1>7

\* The node that stands for another one in a tree of another depth has the same
\* position on the same level.
LEMMA TranslatedIs ==
  ASSUME NEW d, NEW z, NEW m, IsAt(d, z, m), NEW e \in 1..HashBits, d - z <= e
  PROVE  /\ IsAt(e, e - (d - z), m)
         /\ TranslateNode(d, Node(z, m), e) = Node(e - (d - z), m)
<1>0. d \in 1..HashBits /\ z \in 0..(d - 1) /\ m \in 0..(Pow2(d - 1 - z) - 1) /\ m \in Nat /\ HashBits \in 1..28
  BY AtPowers, DepthAssumption DEF IsAt, MerkleMaxDepth
<1> DEFINE y == e - (d - z)
<1>1. y \in 0..(e - 1) /\ e - 1 - y = d - 1 - z
  BY <1>0
<1>2. IsAt(e, y, m)
  BY <1>0, <1>1 DEF IsAt
<1>3. CASE d < e
  <2>1. Pow2(y) = Pow2(z) * Pow2(e - d)
    <3>1. z \in Nat /\ e - d \in Nat /\ y \in 0..32 /\ y = z + (e - d)
      BY <1>0, <1>3
    <3> QED BY <3>1, PowersSum
  <2>2. Pow2(z) \in Nat /\ Pow2(e - d) \in Nat
    <3>1. z \in 0..31 /\ e - d \in 0..31
      BY <1>0, <1>3
    <3> QED BY <3>1, Powers
  <2>3. (Pow2(z) * (2 * m + 1)) * Pow2(e - d) = (Pow2(z) * Pow2(e - d)) * (2 * m + 1)
    BY <1>0, <2>2
  <2> QED BY <1>2, <1>3, <2>1, <2>3 DEF Node, TranslateNode
<1>4. CASE ~(d < e)
  <2>1. Pow2(z) = Pow2(d - e) * Pow2(y)
    <3>1. d - e \in Nat /\ y \in Nat /\ z \in 0..32 /\ z = (d - e) + y
      BY <1>0, <1>1, <1>4
    <3> QED BY <3>1, PowersSum
  <2> DEFINE P == Pow2(d - e)
             Q == Pow2(y)
             n == Node(z, m)
             a == Node(y, m)
  <2>2. P \in Nat \ {0} /\ Q \in Nat
    <3>1. d - e \in 0..31 /\ y \in 0..31
      BY <1>0, <1>1, <1>4
    <3> QED BY <3>1, Powers
  <2>3. n = P * a /\ a \in Nat
    <3>1. n = (P * Q) * (2 * m + 1) /\ a = Q * (2 * m + 1)
      BY <2>1 DEF Node
    <3> HIDE DEF P, Q
    <3>2. (P * Q) * (2 * m + 1) = P * (Q * (2 * m + 1)) /\ Q * (2 * m + 1) \in Nat
      BY <1>0, <2>2
    <3> QED BY <3>1, <3>2
  <2>4. n \div P = a
    <3> HIDE DEF P, Q, a, n
    <3>1. P * a <= P * a /\ P * a < P * (a + 1) /\ P * a \in Nat
      BY <2>2, <2>3
    <3> QED BY <2>2, <2>3, <3>1, Quotient
  <2> QED BY <1>2, <1>4, <2>4 DEF TranslateNode
<1> QED BY <1>2, <1>3, <1>4

LEMMA Remainder ==
  ASSUME NEW h \in Nat, NEW P \in Nat \ {0}, NEW a \in Nat, NEW r \in 0..(P - 1), h = P * a + r
  PROVE  h % P = r
<1>1. h \div P = a
  <2>1. P * a <= h /\ h < P * (a + 1)
    OBVIOUS
  <2> QED BY <2>1, Quotient
<1>2. h % P \in 0..(P - 1) /\ h = P * (h \div P) + (h % P)
  BY Divided
<1>3. P * (h \div P) = P * a /\ P * a \in Nat
  BY <1>1
<1> QED BY <1>2, <1>3

\* The node above.
LEMMA ParentAt ==
  ASSUME NEW d, NEW z, NEW m, IsAt(d, z, m), Node(z, m) # RootNode(d)
  PROVE  \E j \in Nat : IsAt(d, z + 1, j) /\ (m = 2 * j \/ m = 2 * j + 1)
<1>0. d \in 1..HashBits /\ z \in 0..(d - 1) /\ m \in 0..(Pow2(d - 1 - z) - 1) /\ m \in Nat /\ HashBits \in 1..28
  BY AtPowers, DepthAssumption DEF IsAt, MerkleMaxDepth
<1>1. z < d - 1
  <2> SUFFICES ASSUME z = d - 1 PROVE FALSE
    BY <1>0
  <2>1. d - 1 - z = 0 /\ Pow2(0) = 1
    BY DEF Pow2
  <2>2. m = 0
    BY <1>0, <2>1
  <2>3. Pow2(d - 1) \in Nat
    BY AtPowers
  <2> QED BY <2>2, <2>3 DEF Node, RootNode
<1>2. PICK j \in Nat : m = 2 * j \/ m = 2 * j + 1
  <2>1. m \div 2 \in Nat /\ (m = 2 * (m \div 2) \/ m = 2 * (m \div 2) + 1)
    BY <1>0
  <2> QED BY <2>1
<1>3. Pow2(d - 1 - z) = 2 * Pow2(d - 1 - (z + 1)) /\ Pow2(d - 1 - (z + 1)) \in Nat
  <2>1. d - 1 - (z + 1) \in 0..31 /\ d - 1 - z \in 1..32 /\ d - 1 - z = (d - 1 - (z + 1)) + 1
    BY <1>0, <1>1
  <2> QED BY <2>1, PowersDouble
<1>4. j <= Pow2(d - 1 - (z + 1)) - 1
  BY <1>0, <1>2, <1>3
<1>5. IsAt(d, z + 1, j)
  BY <1>0, <1>1, <1>3, <1>4 DEF IsAt
<1> QED BY <1>2, <1>5

\* What is below a node is below one of its children.
LEMMA Halves ==
  ASSUME NEW h \in Hashes, NEW l \in 1..(HashBits - 1), NEW m \in Nat
  PROVE  h \div Pow2(Rest(l)) = m
           <=> h \div Pow2(Rest(l + 1)) = 2 * m \/ h \div Pow2(Rest(l + 1)) = 2 * m + 1
<1> DEFINE P == Pow2(Rest(l + 1))
           x == h \div P
<1>1. P \in Nat \ {0} /\ Pow2(Rest(l)) = 2 * P
  <2>1. Rest(l + 1) \in 0..31 /\ Rest(l) \in 1..32 /\ Rest(l) = Rest(l + 1) + 1
    BY DepthAssumption DEF Rest, MerkleMaxDepth
  <2> QED BY <2>1, PowersDouble
<1>2. h \in Nat
  BY DEF Hashes
<1>3. x \in Nat
  <2> HIDE DEF P
  <2> QED BY <1>1, <1>2, Divided
<1>4. x \div 2 = h \div Pow2(Rest(l))
  <2> HIDE DEF P
  <2>1. 2 \in Nat \ {0} /\ P * 2 = 2 * P
    BY <1>1
  <2>2. (h \div P) \div 2 = h \div (P * 2)
    BY <1>1, <1>2, <2>1, QuotientTwice, Zenon
  <2> QED BY <1>1, <2>1, <2>2
<1> HIDE DEF x
<1>5. x \div 2 = m <=> x = 2 * m \/ x = 2 * m + 1
  BY <1>3
<1> QED BY <1>4, <1>5 DEF x

-----------------------------------------------------------------------------
(* Keys in order *)

Enumerates(q, n, K) ==
  /\ n \in Nat /\ q \in [1..n -> K]
  /\ \A i, j \in 1..n : i < j => q[i] < q[j]
  /\ \A k \in K : \E i \in 1..n : q[i] = k

\* InOrder enumerates its argument.
LEMMA OrderExists ==
  ASSUME NEW most \in Nat, NEW K \in SUBSET (1..most)
  PROVE  \E n \in Nat : \E q : Enumerates(q, n, K)
<1> DEFINE S == {x \in 0..most : \A J \in SUBSET (1..x) : \E n \in Nat : \E q : Enumerates(q, n, J)}
<1>1. 0 \in S
  <2> SUFFICES ASSUME NEW J \in SUBSET (1..0) PROVE \E n \in Nat : \E q : Enumerates(q, n, J)
    OBVIOUS
  <2>1. J = {} /\ 0 \in Nat /\ 1..0 = {}
    OBVIOUS
  <2>2. Enumerates([i \in 1..0 |-> i], 0, J)
    BY <2>1 DEF Enumerates
  <2> QED BY <2>1, <2>2
<1>2. ASSUME NEW x \in 1..most, x - 1 \in S PROVE x \in S
  <2>0. x \in Nat /\ x \in 0..most /\ x - 1 \in Nat
    OBVIOUS
  <2> SUFFICES ASSUME NEW J \in SUBSET (1..x) PROVE \E n \in Nat : \E q : Enumerates(q, n, J)
    BY <2>0
  <2> DEFINE I == J \ {x}
  <2>1. I \in SUBSET (1..(x - 1)) /\ \A k \in I : k \in Nat /\ k < x
    BY <2>0
  <2>1a. PICK n \in Nat : \E q : Enumerates(q, n, I)
    BY <2>1, <1>2
  <2>2. PICK q : Enumerates(q, n, I)
    BY <2>1a
  <2>3. CASE x \notin J
    <3>1. I = J
      BY <2>3
    <3> QED BY <3>1, <2>2
  <2>4. CASE x \in J
    <3> DEFINE r == [i \in 1..(n + 1) |-> IF i = n + 1 THEN x ELSE q[i]]
    <3>1. /\ \A i \in 1..n : q[i] \in I /\ i \in 1..(n + 1) /\ i # n + 1
          /\ \A i \in 1..(n + 1) : i = n + 1 \/ i \in 1..n
          /\ n + 1 \in 1..(n + 1) /\ n + 1 \in Nat
      BY <2>2 DEF Enumerates
    <3>2. r \in [1..(n + 1) -> J]
      BY <3>1, <2>4
    <3>3. \A i, j \in 1..(n + 1) : i < j => r[i] < r[j]
      <4> SUFFICES ASSUME NEW i \in 1..(n + 1), NEW j \in 1..(n + 1), i < j PROVE r[i] < r[j]
        OBVIOUS
      <4>1. i \in 1..n
        BY <2>2
      <4>2. CASE j = n + 1
        BY <4>1, <4>2, <3>1, <2>1
      <4>3. CASE j \in 1..n
        BY <4>1, <4>3, <3>1, <2>2 DEF Enumerates
      <4> QED BY <4>2, <4>3, <3>1
    <3>4. \A k \in J : \E i \in 1..(n + 1) : r[i] = k
      <4> SUFFICES ASSUME NEW k \in J PROVE \E i \in 1..(n + 1) : r[i] = k
        OBVIOUS
      <4>1. CASE k = x
        BY <4>1, <3>1
      <4>2. CASE k # x
        <5>1. PICK i \in 1..n : q[i] = k
          BY <4>2, <2>2 DEF Enumerates
        <5> QED BY <5>1, <3>1
      <4> QED BY <4>1, <4>2
    <3> HIDE DEF r
    <3>5. Enumerates(r, n + 1, J)
      BY <3>2, <3>3, <3>4 DEF Enumerates
    <3> QED BY <3>1, <3>5
  <2> QED BY <2>3, <2>4
<1> HIDE DEF S
<1>3. \A x \in 0..most : x \in S
  BY <1>1, <1>2, Induct
<1>4. most \in S
  BY <1>3
<1> QED BY <1>4 DEF S

LEMMA OrderIs ==
  ASSUME NEW most \in Nat, NEW K \in SUBSET (1..most)
  PROVE  /\ InOrder(K) \in Seq(K) /\ ToSet(InOrder(K)) = K
         /\ IsFiniteSet(K) /\ Cardinality(K) \in Nat /\ InOrder(K) \in [1..Cardinality(K) -> K]
<1>0a. PICK n \in Nat : \E q : Enumerates(q, n, K)
  BY OrderExists
<1>0. PICK q : Enumerates(q, n, K)
  BY <1>0a
<1>1. \A k \in K : k \in Nat
  OBVIOUS
<1>2. q \in Bijection(1..n, K)
  <2>1. \A i, j \in 1..n : q[i] = q[j] => i = j
    <3> SUFFICES ASSUME NEW i \in 1..n, NEW j \in 1..n, q[i] = q[j], i # j PROVE FALSE
      OBVIOUS
    <3>1. i < j \/ j < i
      OBVIOUS
    <3>2. q[i] \in Nat /\ q[j] \in Nat
      BY <1>0, <1>1 DEF Enumerates
    <3> QED BY <3>1, <3>2, <1>0 DEF Enumerates
  <2> QED BY <2>1, <1>0 DEF Enumerates, Bijection, Injection, Surjection, IsInjective
<1>3. IsFiniteSet(K) /\ Cardinality(K) = n
  <2>1. n \in Nat /\ ExistsBijection(1..n, K)
    BY <1>2, <1>0 DEF ExistsBijection, Enumerates
  <2> QED BY <2>1, FS_CountingElements, FS_NatBijection
<1> DEFINE Good(f) == \A i, j \in DOMAIN f : i < j => f[i] < f[j]
           f0 == CHOOSE f \in [1..n -> K] : Good(f)
<1>4. InOrder(K) = f0
  BY <1>3 DEF InOrder
<1>5. q \in [1..n -> K] /\ Good(q)
  BY <1>0 DEF Enumerates
<1>6. f0 \in [1..n -> K] /\ Good(f0)
  BY <1>5
<1> HIDE DEF f0
<1>7. f0 \in Injection(1..n, K)
  <2>1. \A i, j \in 1..n : f0[i] = f0[j] => i = j
    <3> SUFFICES ASSUME NEW i \in 1..n, NEW j \in 1..n, f0[i] = f0[j], i # j PROVE FALSE
      OBVIOUS
    <3>1. i < j \/ j < i
      OBVIOUS
    <3>2. f0[i] \in Nat /\ f0[j] \in Nat
      BY <1>6, <1>1
    <3> QED BY <3>1, <3>2, <1>6
  <2> QED BY <2>1, <1>6 DEF Injection, IsInjective
<1>8. IsFiniteSet(1..n) /\ Cardinality(1..n) = n
  BY FS_Interval
<1>9. f0 \in Surjection(1..n, K)
  BY <1>3, <1>7, <1>8, FS_Injection
<1>10. \A k \in K : \E i \in 1..n : f0[i] = k
  BY <1>9 DEF Surjection
<1>11. ToSet(f0) = K
  BY <1>6, <1>10 DEF ToSet
<1> QED BY <1>3, <1>4, <1>6, <1>11

\* The keys of a set, in order.
LEMMA KeysInOrder ==
  ASSUME NEW K \in SUBSET Key
  PROVE  InOrder(K) \in Seq(K) /\ ToSet(InOrder(K)) = K
<1>1. MaxKey \in Nat /\ K \in SUBSET (1..MaxKey)
  BY KeysAssumption DEF Key
<1> QED BY <1>1, OrderIs

-----------------------------------------------------------------------------
(* Walks over node numbers *)

LEMMA BelowAt ==
  ASSUME NEW d, NEW z, NEW m, IsAt(d, z, m)
  PROVE  Below(d, Node(z, m)) = {h \in Hashes : h \div Pow2(Rest(d - z)) = m}
<1> DEFINE A == {h \in Hashes : LeafNode(h, d) \in SubRangeMin(Node(z, m))..(SubRangeMax(Node(z, m)) - 1)}
<1>1. Below(d, Node(z, m)) = A
  BY Zenon DEF Below, Hashes
<1>2. \A h \in Hashes : h \in A <=> h \div Pow2(Rest(d - z)) = m
  BY BelowIs
<1>3. A \subseteq Hashes
  OBVIOUS
<1> HIDE DEF A
<1> QED BY <1>1, <1>2, <1>3

LEMMA WalkTypes == WalkSpec => []WalkTypeOK
<1>1. WalkInit => WalkTypeOK
  <2> SUFFICES ASSUME WalkInit PROVE WalkTypeOK
    OBVIOUS
  <2>1. treeDepth \in 1..HashBits /\ treeDepth \in 1..28 /\ node = Pow2(treeDepth - 1)
    BY DepthAssumption DEF WalkInit, RootNode, MerkleMaxDepth
  <2>2. treeDepth - 1 \in 0..31 /\ treeDepth \in 1..32 /\ treeDepth = (treeDepth - 1) + 1
    BY <2>1
  <2>3. Pow2(treeDepth - 1) \in Nat \ {0} /\ Pow2(treeDepth) = 2 * Pow2(treeDepth - 1)
    BY <2>2, PowersDouble
  <2> QED BY <2>1, <2>3 DEF WalkTypeOK, Nodes, NodeLimit
<1>2. WalkTypeOK /\ [WalkNext]_walkVars => WalkTypeOK'
  <2> SUFFICES ASSUME WalkTypeOK, [WalkNext]_walkVars PROVE WalkTypeOK'
    OBVIOUS
  <2>0. treeDepth \in 1..HashBits /\ node \in Nodes(treeDepth)
    BY DEF WalkTypeOK
  <2>1. PICK z, m : IsAt(treeDepth, z, m) /\ node = Node(z, m)
    BY <2>0, NodeForm
  <2>2. CASE Down
    <3>1. treeDepth' = treeDepth /\ (node' = LeftChild(node) \/ node' = RightChild(node))
      BY <2>2 DEF Down
    <3>2. z \in Nat
      BY <2>1, AtPowers
    <3>3. CASE z = 0
      <4>1. node % 2 = 1
        BY <2>1, <3>3, ChildrenAre
      <4>2. LeftChild(node) = node /\ RightChild(node) = node
        BY <4>1 DEF LeftChild, RightChild
      <4> QED BY <2>0, <3>1, <4>2 DEF WalkTypeOK
    <3>4. CASE z > 0
      <4>1. LeftChild(node) \in Nodes(treeDepth) /\ RightChild(node) \in Nodes(treeDepth)
        <5>1. /\ IsAt(treeDepth, z - 1, 2 * m) /\ LeftChild(node) = Node(z - 1, 2 * m)
              /\ IsAt(treeDepth, z - 1, 2 * m + 1) /\ RightChild(node) = Node(z - 1, 2 * m + 1)
          BY <2>1, <3>4, ChildrenAre
        <5> QED BY <5>1, NodeIs
      <4> QED BY <2>0, <3>1, <4>1 DEF WalkTypeOK
    <3> QED BY <3>2, <3>3, <3>4
  <2>3. CASE Up
    <3>1. PICK j \in Nat : IsAt(treeDepth, z + 1, j) /\ (m = 2 * j \/ m = 2 * j + 1)
      BY <2>1, <2>3, ParentAt DEF Up
    <3>2. ParentNode(node) \in Nodes(treeDepth)
      BY <2>1, <3>1, ParentIs, NodeIs
    <3> QED BY <2>0, <2>3, <3>2 DEF Up, WalkTypeOK
  <2>4. CASE Translate
    <3>1. PICK e \in 1..HashBits : Level(treeDepth, node) <= e /\ node' = TranslateNode(treeDepth, node, e) /\ treeDepth' = e
      BY <2>4 DEF Translate
    <3>2. treeDepth - z <= e
      BY <2>1, <3>1, NodeIs
    <3>3. TranslateNode(treeDepth, node, e) \in Nodes(e)
      BY <2>1, <3>2, TranslatedIs, NodeIs
    <3> QED BY <3>1, <3>3 DEF WalkTypeOK
  <2>5. CASE UNCHANGED walkVars
    BY <2>0, <2>5 DEF walkVars, WalkTypeOK
  <2> QED BY <2>2, <2>3, <2>4, <2>5 DEF WalkNext
<1> QED BY <1>1, <1>2, PTL DEF WalkSpec

LEMMA Partition ==
  ASSUME WalkTypeOK PROVE ChildrenPartition
<1> SUFFICES ASSUME ~IsLeaf(treeDepth, node)
             PROVE  LET l == LeftChild(node)
                        r == RightChild(node)
                    IN  /\ Below(treeDepth, l) \cap Below(treeDepth, r) = {}
                        /\ Below(treeDepth, l) \cup Below(treeDepth, r) = Below(treeDepth, node)
                        /\ ParentNode(l) = node /\ ParentNode(r) = node
                        /\ Level(treeDepth, l) = Level(treeDepth, node) + 1 /\ Level(treeDepth, r) = Level(treeDepth, node) + 1
  BY Zenon DEF ChildrenPartition
<1>0. treeDepth \in 1..HashBits /\ node \in Nodes(treeDepth)
  BY DEF WalkTypeOK
<1>1. PICK z, m : IsAt(treeDepth, z, m) /\ node = Node(z, m)
  BY <1>0, NodeForm
<1>2. z \in 0..27 /\ m \in Nat /\ HashBits \in 1..28 /\ z <= treeDepth - 1
  BY <1>1, AtPowers, DepthAssumption DEF IsAt, MerkleMaxDepth
<1>3. z > 0
  <2>1. Pow2(treeDepth) \in Nat
    <3>1. treeDepth \in 0..31
      BY <1>0, <1>2
    <3> QED BY <3>1, Powers
  <2>2. node < Pow2(treeDepth) /\ node % 2 # 1
    BY <1>0, <2>1 DEF IsLeaf, Nodes, NodeLimit
  <2> QED BY <1>1, <1>2, <2>2, ChildrenAre
<1> DEFINE l == LeftChild(node)
           r == RightChild(node)
<1>4. /\ IsAt(treeDepth, z - 1, 2 * m) /\ l = Node(z - 1, 2 * m)
      /\ IsAt(treeDepth, z - 1, 2 * m + 1) /\ r = Node(z - 1, 2 * m + 1)
  BY <1>1, <1>3, ChildrenAre
<1> HIDE DEF l, r
<1>5. treeDepth - z \in 1..(HashBits - 1) /\ treeDepth - (z - 1) = (treeDepth - z) + 1 /\ (z - 1) + 1 = z
  BY <1>0, <1>2, <1>3
<1> DEFINE x(h) == h \div Pow2(Rest((treeDepth - z) + 1))
<1>6. Below(treeDepth, l) = {h \in Hashes : x(h) = 2 * m} /\ Below(treeDepth, r) = {h \in Hashes : x(h) = 2 * m + 1}
  <2>1. Below(treeDepth, l) = {h \in Hashes : h \div Pow2(Rest(treeDepth - (z - 1))) = 2 * m}
    BY <1>4, BelowAt
  <2>2. Below(treeDepth, r) = {h \in Hashes : h \div Pow2(Rest(treeDepth - (z - 1))) = 2 * m + 1}
    BY <1>4, BelowAt
  <2> QED BY <1>5, <2>1, <2>2
<1>7. Below(treeDepth, node) = {h \in Hashes : x(h) = 2 * m \/ x(h) = 2 * m + 1}
  <2>1. Below(treeDepth, node) = {h \in Hashes : h \div Pow2(Rest(treeDepth - z)) = m}
    BY <1>1, BelowAt
  <2>2. \A h \in Hashes : h \div Pow2(Rest(treeDepth - z)) = m <=> x(h) = 2 * m \/ x(h) = 2 * m + 1
    BY <1>2, <1>5, Halves
  <2> HIDE DEF x
  <2> QED BY <2>1, <2>2
<1>8. 2 * m # 2 * m + 1
  BY <1>2
<1>9. Below(treeDepth, l) \cap Below(treeDepth, r) = {} /\ Below(treeDepth, l) \cup Below(treeDepth, r) = Below(treeDepth, node)
  <2> HIDE DEF x
  <2> QED BY <1>6, <1>7, <1>8
<1>10. ParentNode(l) = node /\ ParentNode(r) = node
  BY <1>1, <1>2, <1>4, <1>5, ParentIs
<1>11. Level(treeDepth, l) = Level(treeDepth, node) + 1 /\ Level(treeDepth, r) = Level(treeDepth, node) + 1
  <2>1. Level(treeDepth, l) = treeDepth - (z - 1) /\ Level(treeDepth, r) = treeDepth - (z - 1) /\ Level(treeDepth, node) = treeDepth - z
    BY <1>1, <1>4, NodeIs
  <2> QED BY <1>5, <2>1
<1> QED BY <1>9, <1>10, <1>11 DEF l, r

LEMMA Counted ==
  ASSUME WalkTypeOK PROVE ZerosCounted
<1> SUFFICES ASSUME NEW k \in 0..(MerkleMaxDepth - HashBits)
             PROVE  LET n == node * Pow2(k)
                        c == CountTrailingZeros(n)
                    IN  n % Pow2(c) = 0 /\ n % Pow2(c + 1) # 0
  BY Zenon DEF ZerosCounted
<1>0. treeDepth \in 1..HashBits /\ node \in Nodes(treeDepth)
  BY DEF WalkTypeOK
<1>1. PICK z, m : IsAt(treeDepth, z, m) /\ node = Node(z, m)
  BY <1>0, NodeForm
<1>2. z \in 0..(treeDepth - 1) /\ m \in Nat /\ HashBits \in 1..28 /\ k \in 0..(28 - HashBits)
  BY <1>1, AtPowers, DepthAssumption DEF IsAt, MerkleMaxDepth
<1>3. z + k \in 0..27 /\ (z + k) + 1 \in 1..32 /\ z + k \in 0..31 /\ z \in Nat /\ k \in Nat /\ z + k \in 0..32
  BY <1>0, <1>2
<1> DEFINE n == node * Pow2(k)
           P == Pow2(z + k)
<1>4. Pow2(z) \in Nat /\ Pow2(k) \in Nat \ {0} /\ P = Pow2(z) * Pow2(k)
  <2>1. z \in 0..31 /\ k \in 0..31
    BY <1>0, <1>2
  <2> QED BY <1>3, <2>1, Powers, PowersSum
<1>5. P \in Nat \ {0} /\ Pow2((z + k) + 1) = 2 * P
  BY <1>3, PowersDouble
<1>6. n = P * (2 * m + 1) /\ n = Node(z + k, m)
  <2>1. (Pow2(z) * (2 * m + 1)) * Pow2(k) = (Pow2(z) * Pow2(k)) * (2 * m + 1)
    BY <1>2, <1>4
  <2> QED BY <1>1, <1>4, <2>1 DEF Node
<1>7. n \in 1..Pow2(28)
  <2>1. Pow2(treeDepth) \in Nat /\ Pow2(treeDepth) <= Pow2(HashBits) /\ Pow2(HashBits) \in Nat
    <3>1. treeDepth \in 0..32 /\ HashBits \in 0..32 /\ treeDepth <= HashBits
      BY <1>0, <1>2
    <3> QED BY <3>1, PowersGrow
  <2>2. node \in Nat /\ node > 0 /\ node <= Pow2(HashBits)
    BY <1>0, <2>1 DEF Nodes, NodeLimit
  <2>3. Pow2(HashBits + k) = Pow2(HashBits) * Pow2(k) /\ Pow2(HashBits + k) <= Pow2(28) /\ Pow2(28) \in Nat
    <3>1. HashBits \in Nat /\ k \in Nat /\ HashBits + k \in 0..32 /\ HashBits + k <= 28 /\ 28 \in 0..32
      BY <1>2
    <3> QED BY <3>1, PowersGrow, PowersSum
  <2>4. n \in Nat /\ n > 0 /\ n <= Pow2(HashBits) * Pow2(k)
    <3> DEFINE a == Pow2(k)
               b == Pow2(HashBits)
    <3>1. a * node <= a * b /\ a * node >= a * 1
      BY <1>4, <2>1, <2>2
    <3>2. a * node = node * a /\ a * b = b * a /\ node * a \in Nat
      BY <1>4, <2>1, <2>2
    <3> QED BY <1>4, <3>1, <3>2
  <2>5. Pow2(HashBits) * Pow2(k) \in Nat /\ Pow2(HashBits) * Pow2(k) <= Pow2(28) /\ Pow2(28) \in Nat
    BY <1>4, <2>1, <2>3
  <2> HIDE DEF n
  <2> QED BY <2>4, <2>5
<1> HIDE DEF n
<1>8. CountTrailingZeros(n) = z + k
  <2>1. CountTrailingZeros(n) \in 0..28 /\ \E i \in Nat : n = Node(CountTrailingZeros(n), i)
    BY <1>7, TrailingZeros
  <2>2. CountTrailingZeros(n) \in 0..31
    BY <2>1
  <2> QED BY <1>2, <1>3, <1>6, <2>1, <2>2, OneForm
<1> HIDE DEF P
<1>9. n % P = 0
  <2>1. n \in Nat /\ 2 * m + 1 \in Nat /\ 0 \in 0..(P - 1) /\ n = P * (2 * m + 1) + 0
    BY <1>2, <1>5, <1>6
  <2> QED BY <1>5, <2>1, Remainder
<1>10. n % (2 * P) # 0
  <2>1. n \in Nat /\ P \in 0..(2 * P - 1) /\ n = (2 * P) * m + P /\ 2 * P \in Nat \ {0}
    BY <1>2, <1>5, <1>6
  <2>2. n % (2 * P) = P
    BY <1>2, <2>1, Remainder
  <2> QED BY <1>5, <2>2
<1>11. n % Pow2(CountTrailingZeros(n)) = 0 /\ n % Pow2(CountTrailingZeros(n) + 1) # 0
  BY <1>5, <1>8, <1>9, <1>10 DEF P
<1> QED BY <1>11 DEF n

(***************************************************************************)
(* The numbers merkle.go gives to nodes are those of a binary tree, for    *)
(* every treeDepth it allows: LeftChild, RightChild, ParentNode and SubRange   *)
(* agree with one another and with LeafNode.                               *)
(***************************************************************************)
THEOREM TreeIsBinary == WalkSpec => []TreeArithmetic
<1>1. WalkTypeOK => TreeArithmetic
  BY Partition, Counted DEF TreeArithmetic
<1> QED BY <1>1, WalkTypes, PTL

(***************************************************************************)
(* TranslateNode finds the node of the other tree that has the same keys   *)
(* below it, whatever the two depths, as long as that tree is deep enough. *)
(***************************************************************************)
THEOREM TranslationSafe == WalkSpec => TranslationKeepsKeys
<1>1. ASSUME WalkTypeOK, WalkNext, treeDepth' # treeDepth
      PROVE  Below(treeDepth', node') = Below(treeDepth, node)
  <2>0. treeDepth \in 1..HashBits /\ node \in Nodes(treeDepth)
    BY <1>1 DEF WalkTypeOK
  <2>1. PICK z, m : IsAt(treeDepth, z, m) /\ node = Node(z, m)
    BY <2>0, NodeForm
  <2>2. PICK e \in 1..HashBits : Level(treeDepth, node) <= e /\ node' = TranslateNode(treeDepth, node, e) /\ treeDepth' = e
    BY <1>1 DEF WalkNext, Down, Up, Translate
  <2>3. treeDepth - z <= e
    BY <2>1, <2>2, NodeIs
  <2>4. IsAt(e, e - (treeDepth - z), m) /\ node' = Node(e - (treeDepth - z), m)
    BY <2>1, <2>2, <2>3, TranslatedIs
  <2>5. e - (e - (treeDepth - z)) = treeDepth - z
    BY <2>1, <2>3, AtPowers
  <2>6. Below(e, node') = {h \in Hashes : h \div Pow2(Rest(treeDepth - z)) = m}
    BY <2>4, <2>5, BelowAt
  <2>7. Below(treeDepth, node) = {h \in Hashes : h \div Pow2(Rest(treeDepth - z)) = m}
    BY <2>1, BelowAt
  <2> QED BY <2>2, <2>6, <2>7
<1>2. WalkTypeOK /\ [WalkNext]_walkVars => [treeDepth' # treeDepth => Below(treeDepth', node') = Below(treeDepth, node)]_walkVars
  BY <1>1
<1> QED BY <1>2, WalkTypes, PTL DEF WalkSpec, TranslationKeepsKeys

-----------------------------------------------------------------------------
(* The invariant of sync sessions. What it says of one session is said of  *)
(* its bucket b, the initiating peer p, what the initiator i and the       *)
(* responder r keep and the message m that is under way.                   *)

SyncStates == {"END", "HANDSHAKE", "ROOT_HASH_COMPARE", "LEFT_HASH_COMPARE",
               "RIGHT_HASH_COMPARE", "DB_OBJECT_PUSH"}
InitiatorType == [state : SyncStates, queue : Seq(Nat), keys : SUBSET Key]
ResponderType == [state : {"START", "HASH_COMPARE", "DB_OBJECT_PUSH"}, node : Nat,
                  iter : Seq(Key), open : BOOLEAN, since : Nat]

SyncTypes ==
  /\ bucket \in Buckets
  /\ rows \in [Peer -> [Key -> SUBSET Version]]
  /\ init \in [Peer -> InitiatorType] /\ resp \in [Peer -> ResponderType]
  /\ DOMAIN msg = Peer
  /\ sent \subseteq [to : Peer, key : Key, val : SUBSET Version]
  /\ nextId \in 1..(MaxWrites + 1) /\ readErrors \in Nat

Most(b) == Min({b.depth[p] : p \in Peer})
There(b, p, n) == TranslateNode(b.depth[p], n, b.depth[Other(p)])

\* The order in which the nodes of a tree of depth d are explored: level by level.
Before(d, a, b) ==
  \/ Level(d, a) < Level(d, b)
  \/ Level(d, a) = Level(d, b) /\ a < b

\* A queue of nodes down to level most: nodes of one level and, behind them, nodes
\* of the next.
Ordered(d, q, most) ==
  /\ q \in Seq(Nodes(d)) /\ q # <<>>
  /\ \A i, j \in 1..Len(q) : i < j => Before(d, q[i], q[j])
  /\ \A j \in 1..Len(q) : Level(d, q[j]) <= most /\ Level(d, q[j]) <= Level(d, q[1]) + 1

\* The front of the queue can be explored: its child c comes behind what is in the
\* queue already.
Explorable(d, q, most, c) ==
  /\ Ordered(d, q, most) /\ Level(d, q[1]) < most
  /\ \A j \in 1..Len(q) : Level(d, q[j]) = Level(d, q[1]) + 1 => q[j] < c

Resting(i, r, m) == i = Idle /\ r = Unopened /\ m = None

Awaiting == [Unopened EXCEPT !.state = "HASH_COMPARE"]

Greeting(i, r, m) ==
  /\ i = [Idle EXCEPT !.state = "HANDSHAKE"]
  /\ \/ m = Start("responder") /\ r = Unopened
     \/ m = Start("initiator") /\ r = Awaiting

\* Before rows are fetched, hashes are asked for and told.
Hashing(r, m) ==
  /\ r = Awaiting
  /\ \/ m.to = "responder" /\ m.type = "NODE_HASH"
     \/ m.to = "initiator" /\ m.type \in {"NODE_HASH", "ABORT"}

Comparing(b, p, i) ==
  /\ i.keys = {}
  /\ \/ i.state = "ROOT_HASH_COMPARE" /\ i.queue = <<RootNode(b.depth[p])>>
     \/ i.state = "LEFT_HASH_COMPARE" /\ Explorable(b.depth[p], i.queue, Most(b), LeftChild(i.queue[1]))
     \/ i.state = "RIGHT_HASH_COMPARE" /\ Explorable(b.depth[p], i.queue, Most(b), RightChild(i.queue[1]))

\* The rows of the front of the queue are fetched: it is at the deepest common
\* level, and keys to drop are keys below it.
Fetching(b, p, i) ==
  /\ i.state = "DB_OBJECT_PUSH"
  /\ Ordered(b.depth[p], i.queue, Most(b)) /\ Level(b.depth[p], i.queue[1]) = Most(b)
  /\ i.keys \subseteq KeysAt(b.depth[p], i.queue[1])
  /\ p \in b.writers => i.keys = {}

\* The responder iterates over the rows of the front of the initiator's queue.
Opening(b, p, i, r) == r.state = "DB_OBJECT_PUSH" /\ r.node = There(b, p, i.queue[1])

Iterating(b, p, r) ==
  \/ r = Awaiting
  \/ /\ r.state = "DB_OBJECT_PUSH" /\ r.node \in Nodes(b.depth[Other(p)])
     /\ ToSet(r.iter) \subseteq KeysAt(b.depth[Other(p)], r.node)

\* A row that is pushed is a row below the front, and the end of the rows is told at
\* the end of the iteration or after a read error.
Pushing(b, p, i, r, m, fails) ==
  \/ m = ObjectNext(There(b, p, i.queue[1]))
  \/ m = Abort
  \/ /\ Opening(b, p, i, r)
     /\ \/ \E k \in KeysAt(b.depth[p], i.queue[1]) :
             \E v \in SUBSET Version : m = Push(k, v)
        \/ m = PushDone /\ (r.iter = <<>> \/ fails > 0)

Active(b, p, i, r, m, fails) ==
  \/ Greeting(i, r, m)
  \/ Comparing(b, p, i) /\ Hashing(r, m)
  \/ Fetching(b, p, i) /\ Iterating(b, p, r) /\ Pushing(b, p, i, r, m, fails)

Sessions ==
  \A p \in Peer : \/ Resting(init[p], resp[p], msg[p])
                  \/ p \in Initiators /\ Active(bucket, p, init[p], resp[p], msg[p], readErrors)

\* A peer that only takes in is the only one pushed to, and what was written since
\* the responder listed keys has numbers from then on.
Copied(p) == (\A m \in sent : m.to = p) /\ resp[p].since <= nextId

\* The row has a version with a number below n.
Earlier(row, n) == \E v \in row : v.id < n

\* A row that the other side had, there, when it listed the rows of the node is not
\* dropped: it is still to come or it is coming now.
Arriving(b, p, i, r, m, there, fails) ==
  i.state = "DB_OBJECT_PUSH" /\ Opening(b, p, i, r) /\ fails = 0 =>
    \A k \in i.keys : Earlier(there[k], r.since) =>
      \/ k \in ToSet(r.iter)
      \/ m.to = "initiator" /\ m.type = "PUSH_MESSAGE" /\ m.key = k
      \/ m = Abort

Copies ==
  \A p \in Peer : p \notin bucket.writers =>
    Copied(p) /\ Arriving(bucket, p, init[p], resp[p], msg[p], rows[Other(p)], readErrors)

SyncInv == SyncTypes /\ Sessions /\ Copies

-----------------------------------------------------------------------------
(* Levels of a tree *)

LEMMA Levels ==
  ASSUME NEW d \in 1..HashBits, NEW n \in Nodes(d)
  PROVE  /\ d \in Nat /\ n \in Nat /\ Level(d, n) \in 1..d
         /\ Level(d, n) # d =>
              /\ LeftChild(n) \in Nodes(d) /\ Level(d, LeftChild(n)) = Level(d, n) + 1
              /\ RightChild(n) \in Nodes(d) /\ Level(d, RightChild(n)) = Level(d, n) + 1
              /\ LeftChild(n) < RightChild(n)
<1>0. HashBits \in 1..28 /\ d \in 1..28
  BY DepthAssumption DEF MerkleMaxDepth
<1>1. PICK z, m : IsAt(d, z, m) /\ n = Node(z, m)
  BY NodeForm
<1>2. z \in 0..(d - 1) /\ m \in Nat /\ Level(d, n) = d - z
  BY <1>1, NodeIs, AtPowers DEF IsAt
<1>3. n \in Nat
  BY <1>0, NodeIs, <1>1 DEF Nodes
<1>4. ASSUME Level(d, n) # d
      PROVE  /\ LeftChild(n) \in Nodes(d) /\ Level(d, LeftChild(n)) = Level(d, n) + 1
             /\ RightChild(n) \in Nodes(d) /\ Level(d, RightChild(n)) = Level(d, n) + 1
             /\ LeftChild(n) < RightChild(n)
  <2>1. z > 0 /\ z - 1 \in 0..27
    BY <1>0, <1>2, <1>4
  <2>2. /\ IsAt(d, z - 1, 2 * m) /\ LeftChild(n) = Node(z - 1, 2 * m)
        /\ IsAt(d, z - 1, 2 * m + 1) /\ RightChild(n) = Node(z - 1, 2 * m + 1)
    BY <1>1, <2>1, ChildrenAre
  <2>3. /\ LeftChild(n) \in Nodes(d) /\ Level(d, LeftChild(n)) = d - (z - 1)
        /\ RightChild(n) \in Nodes(d) /\ Level(d, RightChild(n)) = d - (z - 1)
    BY <2>2, NodeIs
  <2>4. LeftChild(n) < RightChild(n)
    <3>1. Pow2(z - 1) \in Nat \ {0}
      BY <2>2, AtPowers
    <3> QED BY <3>1, <2>2, <1>2 DEF Node
  <2> QED BY <1>0, <1>2, <2>3, <2>4
<1> QED BY <1>0, <1>2, <1>3, <1>4

LEMMA RootLevel ==
  ASSUME NEW d \in 1..HashBits
  PROVE  RootNode(d) \in Nodes(d) /\ Level(d, RootNode(d)) = 1
<1>0. HashBits \in 1..28 /\ d \in 1..28
  BY DepthAssumption DEF MerkleMaxDepth
<1>1. Pow2(0) = 1 /\ Pow2(d - 1) \in Nat
  <2>1. Pow2(0) = 1
    BY DEF Pow2
  <2> QED BY <2>1, <1>0, PowersGrow
<1>2. (d - 1) - (d - 1) = 0 /\ d - 1 - (d - 1) = 0 /\ d - (d - 1) = 1 /\ d - 1 \in 0..(d - 1)
  BY <1>0
<1>3. IsAt(d, d - 1, 0)
  BY <1>1, <1>2 DEF IsAt
<1>4. RootNode(d) = Node(d - 1, 0)
  BY <1>1 DEF RootNode, Node
<1> QED BY <1>2, <1>3, <1>4, NodeIs

\* The children of a node come before those of a node further right.
LEMMA Apart ==
  ASSUME NEW d \in 1..HashBits, NEW a \in Nodes(d), NEW b \in Nodes(d),
         Level(d, a) = Level(d, b), a < b, Level(d, a) # d
  PROVE  RightChild(a) < LeftChild(b)
<1>0. HashBits \in 1..28 /\ d \in 1..28
  BY DepthAssumption DEF MerkleMaxDepth
<1>1. PICK z, m : IsAt(d, z, m) /\ a = Node(z, m)
  BY NodeForm
<1>2. PICK y, k : IsAt(d, y, k) /\ b = Node(y, k)
  BY NodeForm
<1>3. z \in 0..(d - 1) /\ m \in Nat /\ y = z /\ k \in Nat
  <2>1. z \in 0..(d - 1) /\ m \in Nat /\ Level(d, a) = d - z
    BY <1>1, NodeIs, AtPowers DEF IsAt
  <2>2. y \in 0..(d - 1) /\ k \in Nat /\ Level(d, b) = d - y
    BY <1>2, NodeIs, AtPowers DEF IsAt
  <2>3. d - z = d - y
    BY <2>1, <2>2, Zenon
  <2> QED BY <1>0, <2>1, <2>2, <2>3
<1>4. z > 0 /\ z - 1 \in 0..27
  <2>1. Level(d, a) = d - z
    BY <1>1, NodeIs
  <2> QED BY <1>0, <1>3, <2>1
<1>5. m < k
  <2>1. Pow2(z) \in Nat \ {0} /\ 2 * m + 1 \in Int /\ 2 * k + 1 \in Int
    BY <1>1, <1>3, AtPowers
  <2>2. Pow2(z) * (2 * m + 1) < Pow2(z) * (2 * k + 1)
    BY <1>1, <1>2, <1>3 DEF Node
  <2>3. 2 * m + 1 < 2 * k + 1
    BY <2>1, <2>2, Cancel
  <2> QED BY <1>3, <2>3
<1>6. RightChild(a) = Node(z - 1, 2 * m + 1) /\ LeftChild(b) = Node(z - 1, 2 * k) /\ IsAt(d, z - 1, 2 * k)
  BY <1>1, <1>2, <1>3, <1>4, ChildrenAre
<1>7. Pow2(z - 1) \in Nat \ {0}
  BY <1>6, AtPowers
<1>8. 2 * (2 * m + 1) + 1 < 2 * (2 * k) + 1
  BY <1>3, <1>5
<1> QED BY <1>3, <1>6, <1>7, <1>8 DEF Node

\* A node and the node that stands for it in a tree of another depth.
LEMMA StandsFor ==
  ASSUME NEW d \in 1..HashBits, NEW e \in 1..HashBits, NEW n \in Nodes(d), Level(d, n) <= e
  PROVE  /\ TranslateNode(d, n, e) \in Nodes(e)
         /\ \A h \in Hashes : LeafNode(h, e) \in SubRangeMin(TranslateNode(d, n, e))..(SubRangeMax(TranslateNode(d, n, e)) - 1)
                                <=> LeafNode(h, d) \in SubRangeMin(n)..(SubRangeMax(n) - 1)
         /\ \A a \in Nodes(d) : Level(d, a) = Level(d, n) /\ TranslateNode(d, a, e) = TranslateNode(d, n, e) => a = n
<1>0. HashBits \in 1..28 /\ d \in 1..28 /\ e \in 1..28
  BY DepthAssumption DEF MerkleMaxDepth
<1>1. PICK z, m : IsAt(d, z, m) /\ n = Node(z, m)
  BY NodeForm
<1> DEFINE l == d - z
<1>2. z \in 0..(d - 1) /\ Level(d, n) = l /\ l \in 1..d /\ l <= e /\ d - l = z /\ e - (e - l) = l
  <2>1. z \in 0..(d - 1) /\ Level(d, n) = d - z
    BY <1>1, NodeIs DEF IsAt
  <2> QED BY <1>0, <2>1
<1>3. IsAt(e, e - l, m) /\ TranslateNode(d, n, e) = Node(e - l, m)
  BY <1>1, <1>2, TranslatedIs
<1>4. TranslateNode(d, n, e) \in Nodes(e)
  BY <1>3, NodeIs
<1>5. \A h \in Hashes : LeafNode(h, e) \in SubRangeMin(TranslateNode(d, n, e))..(SubRangeMax(TranslateNode(d, n, e)) - 1)
                          <=> LeafNode(h, d) \in SubRangeMin(n)..(SubRangeMax(n) - 1)
  <2> SUFFICES ASSUME NEW h \in Hashes
               PROVE LeafNode(h, e) \in SubRangeMin(TranslateNode(d, n, e))..(SubRangeMax(TranslateNode(d, n, e)) - 1)
                          <=> LeafNode(h, d) \in SubRangeMin(n)..(SubRangeMax(n) - 1)
    OBVIOUS
  <2>1. LeafNode(h, d) \in SubRangeMin(n)..(SubRangeMax(n) - 1) <=> h \div Pow2(Rest(d - z)) = m
    BY <1>1, BelowIs
  <2>2. LeafNode(h, e) \in SubRangeMin(Node(e - l, m))..(SubRangeMax(Node(e - l, m)) - 1)
          <=> h \div Pow2(Rest(e - (e - l))) = m
    BY <1>3, BelowIs
  <2> QED BY <1>2, <1>3, <2>1, <2>2
<1>6. ASSUME NEW a \in Nodes(d), Level(d, a) = Level(d, n), TranslateNode(d, a, e) = TranslateNode(d, n, e)
      PROVE  a = n
  <2>1. PICK y, k : IsAt(d, y, k) /\ a = Node(y, k)
    BY NodeForm
  <2>2. y \in 0..(d - 1) /\ Level(d, a) = d - y
    BY <2>1, NodeIs DEF IsAt
  <2>3. y = z
    BY <1>0, <1>2, <1>6, <2>2
  <2>4. IsAt(e, e - l, k) /\ TranslateNode(d, a, e) = Node(e - l, k)
    BY <1>2, <2>1, <2>3, TranslatedIs
  <2>5. e - l \in 0..31 /\ m \in Nat /\ k \in Nat
    BY <1>0, <1>2, <1>3, <2>4, AtPowers
  <2>6. Node(e - l, m) = Node(e - l, k)
    BY <1>3, <1>6, <2>4
  <2>7. m = k
    <3> HIDE DEF l
    <3> DEFINE x == e - l
    <3>1. x \in 0..31 /\ Node(x, m) = Node(x, k)
      BY <2>5, <2>6
    <3> HIDE DEF x
    <3> QED BY <2>5, <3>1, OneForm
  <2> QED BY <1>1, <2>1, <2>3, <2>7
<1> QED BY <1>4, <1>5, <1>6

-----------------------------------------------------------------------------
(* The exploration queue *)

LEMMA OrderedTypes ==
  ASSUME NEW d \in 1..HashBits, NEW most \in 1..d, NEW q, Ordered(d, q, most)
  PROVE  /\ q \in Seq(Nodes(d)) /\ q # <<>> /\ Len(q) \in Nat /\ 1 \in 1..Len(q)
         /\ Head(q) = q[1]
         /\ \A j \in 1..Len(q) : q[j] \in Nodes(d) /\ q[j] \in Nat /\ Level(d, q[j]) \in 1..most
<1>1. q \in Seq(Nodes(d)) /\ q # <<>>
  BY DEF Ordered
<1>2. Len(q) \in Nat /\ 1 \in 1..Len(q) /\ Head(q) = q[1] /\ \A j \in 1..Len(q) : q[j] \in Nodes(d)
  BY <1>1
<1>3. \A j \in 1..Len(q) : q[j] \in Nat /\ Level(d, q[j]) \in 1..d /\ Level(d, q[j]) <= most
  BY <1>2, Levels DEF Ordered
<1> QED BY <1>1, <1>2, <1>3

LEMMA RootQueue ==
  ASSUME NEW d \in 1..HashBits, NEW most \in 1..d
  PROVE  LET q == <<RootNode(d)>>
         IN  /\ Ordered(d, q, most) /\ Head(q) = RootNode(d) /\ Level(d, RootNode(d)) = 1
             /\ Level(d, RootNode(d)) # most => Explorable(d, q, most, LeftChild(q[1]))
<1> DEFINE q == <<RootNode(d)>>
<1>1. RootNode(d) \in Nodes(d) /\ Level(d, RootNode(d)) = 1
  BY RootLevel
<1> DEFINE r == RootNode(d)
<1> HIDE DEF r
<1>2. q \in Seq(Nodes(d)) /\ q # <<>> /\ Len(q) = 1 /\ q[1] = r /\ Head(q) = r
  BY <1>1 DEF r
<1>3. \A j \in 1..Len(q) : q[j] = r /\ j = 1
  BY <1>2
<1>4. Level(d, r) = 1
  BY <1>1 DEF r
<1> HIDE DEF q
<1>5. Ordered(d, q, most)
  BY <1>2, <1>3, <1>4 DEF Ordered
<1>6. 1 # most => Explorable(d, q, most, LeftChild(q[1]))
  BY <1>2, <1>3, <1>4, <1>5 DEF Explorable
<1> QED BY <1>2, <1>4, <1>5, <1>6 DEF q, r

\* The left child goes to the end of the queue or not, and the right child is next.
LEMMA LeftDone ==
  ASSUME NEW d \in 1..HashBits, NEW most \in 1..d, NEW q, Explorable(d, q, most, LeftChild(q[1])),
         NEW r, r = q \/ r = Append(q, LeftChild(q[1]))
  PROVE  r[1] = q[1] /\ Explorable(d, r, most, RightChild(q[1]))
<1>1. /\ q \in Seq(Nodes(d)) /\ q # <<>> /\ Len(q) \in Nat /\ 1 \in 1..Len(q)
      /\ \A j \in 1..Len(q) : q[j] \in Nodes(d) /\ q[j] \in Nat /\ Level(d, q[j]) \in 1..most
  BY OrderedTypes DEF Explorable
<1> DEFINE n == q[1]
           L == Level(d, n)
           lc == LeftChild(n)
           rc == RightChild(n)
<1>2. n \in Nodes(d) /\ L < most /\ L # d /\ L \in Nat
  BY <1>1 DEF Explorable
<1>3. lc \in Nodes(d) /\ Level(d, lc) = L + 1 /\ lc \in Nat /\ rc \in Nat /\ lc < rc
  BY <1>2, Levels
<1>4. \A i, j \in 1..Len(q) : i < j => Before(d, q[i], q[j])
  BY DEF Explorable, Ordered
<1>5. \A j \in 1..Len(q) : Level(d, q[j]) <= L + 1 /\ (Level(d, q[j]) = L + 1 => q[j] < lc)
  BY DEF Explorable, Ordered
<1> HIDE DEF lc, rc
<1>6. CASE r = q
  <2>1. \A j \in 1..Len(q) : Level(d, q[j]) = L + 1 => q[j] < rc
    BY <1>1, <1>3, <1>5
  <2> QED BY <1>6, <2>1 DEF Explorable, rc
<1>7. CASE r = Append(q, lc)
  <2>1. /\ r \in Seq(Nodes(d)) /\ r # <<>> /\ Len(r) = Len(q) + 1 /\ r[1] = n /\ r[Len(q) + 1] = lc
        /\ \A j \in 1..Len(q) : r[j] = q[j]
    BY <1>1, <1>3, <1>7
  <2>2. \A j \in 1..Len(r) : j \in 1..Len(q) \/ j = Len(q) + 1
    BY <1>1, <2>1
  <2>3. \A i, j \in 1..Len(r) : i < j => Before(d, r[i], r[j])
    <3> SUFFICES ASSUME NEW i \in 1..Len(r), NEW j \in 1..Len(r), i < j PROVE Before(d, r[i], r[j])
      OBVIOUS
    <3>1. i \in 1..Len(q) /\ r[i] = q[i]
      BY <1>1, <2>1, <2>2
    <3>2. CASE j \in 1..Len(q)
      BY <3>1, <3>2, <1>4, <2>1
    <3>3. CASE j = Len(q) + 1
      <4>1. r[j] = lc /\ Level(d, q[i]) \in 1..most
        BY <3>1, <3>3, <2>1, <1>1
      <4>2. Level(d, q[i]) < L + 1 \/ (Level(d, q[i]) = L + 1 /\ q[i] < lc)
        BY <3>1, <4>1, <1>2, <1>5
      <4> QED BY <3>1, <4>1, <4>2, <1>3 DEF Before
    <3> QED BY <3>2, <3>3, <2>2
  <2>4. \A j \in 1..Len(r) : Level(d, r[j]) <= most /\ Level(d, r[j]) <= L + 1
                             /\ (Level(d, r[j]) = L + 1 => r[j] < rc)
    <3> SUFFICES ASSUME NEW j \in 1..Len(r)
                 PROVE  Level(d, r[j]) <= most /\ Level(d, r[j]) <= L + 1 /\ (Level(d, r[j]) = L + 1 => r[j] < rc)
      OBVIOUS
    <3>1. CASE j \in 1..Len(q)
      BY <3>1, <2>1, <1>1, <1>3, <1>5
    <3>2. CASE j = Len(q) + 1
      BY <3>2, <2>1, <1>2, <1>3
    <3> QED BY <3>1, <3>2, <2>2
  <2>5. Ordered(d, r, most)
    BY <2>1, <2>3, <2>4 DEF Ordered
  <2> QED BY <1>2, <2>1, <2>4, <2>5 DEF Explorable, rc
<1> QED BY <1>6, <1>7 DEF lc

\* What is left behind the front of the queue is in order.
LEMMA TailOrdered ==
  ASSUME NEW d \in 1..HashBits, NEW most \in 1..d, NEW q, Ordered(d, q, most), Tail(q) # <<>>
  PROVE  /\ Ordered(d, Tail(q), most)
         /\ Head(Tail(q)) = q[2] /\ Tail(q)[1] = q[2] /\ 2 \in 1..Len(q) /\ Before(d, q[1], q[2])
<1>1. /\ q \in Seq(Nodes(d)) /\ q # <<>> /\ Len(q) \in Nat /\ 1 \in 1..Len(q)
      /\ \A j \in 1..Len(q) : q[j] \in Nodes(d) /\ q[j] \in Nat /\ Level(d, q[j]) \in 1..most
  BY OrderedTypes
<1> DEFINE r == Tail(q)
<1>2. /\ r \in Seq(Nodes(d)) /\ r # <<>> /\ Len(r) = Len(q) - 1
      /\ \A j \in 1..Len(r) : r[j] = q[j + 1] /\ j + 1 \in 1..Len(q)
  BY <1>1
<1>3. 2 \in 1..Len(q) /\ 1 \in 1..Len(r) /\ r[1] = q[2] /\ Head(r) = q[2]
  BY <1>1, <1>2
<1>4. \A i, j \in 1..Len(q) : i < j => Before(d, q[i], q[j])
  BY DEF Ordered
<1>5. \A j \in 1..Len(q) : Level(d, q[j]) <= Level(d, q[1]) + 1 /\ Level(d, q[j]) <= most
  BY DEF Ordered
<1>6. Before(d, q[1], q[2])
  BY <1>1, <1>3, <1>4
<1>7. Level(d, q[1]) <= Level(d, q[2]) /\ Level(d, q[1]) \in Nat /\ Level(d, q[2]) \in Nat
  BY <1>1, <1>3, <1>6 DEF Before
<1> HIDE DEF r
<1>8. \A i, j \in 1..Len(r) : i < j => Before(d, r[i], r[j])
  <2> SUFFICES ASSUME NEW i \in 1..Len(r), NEW j \in 1..Len(r), i < j PROVE Before(d, r[i], r[j])
    OBVIOUS
  <2>1. i + 1 \in 1..Len(q) /\ j + 1 \in 1..Len(q) /\ i + 1 < j + 1 /\ r[i] = q[i + 1] /\ r[j] = q[j + 1]
    BY <1>2
  <2> HIDE DEF r
  <2>2. Before(d, q[i + 1], q[j + 1])
    BY <2>1, <1>4
  <2> QED BY <2>1, <2>2, Zenon
<1>9. \A j \in 1..Len(r) : Level(d, r[j]) <= most /\ Level(d, r[j]) <= Level(d, r[1]) + 1
  <2> SUFFICES ASSUME NEW j \in 1..Len(r) PROVE Level(d, r[j]) <= most /\ Level(d, r[j]) <= Level(d, r[1]) + 1
    OBVIOUS
  <2>1. r[j] = q[j + 1] /\ j + 1 \in 1..Len(q) /\ Level(d, q[j + 1]) \in 1..most
    BY <1>1, <1>2
  <2>2. Level(d, q[j + 1]) <= Level(d, q[1]) + 1
    BY <2>1, <1>5
  <2> QED BY <2>1, <2>2, <1>3, <1>7
<1>10. Ordered(d, r, most)
  BY <1>2, <1>8, <1>9 DEF Ordered
<1> QED BY <1>3, <1>6, <1>10 DEF r

\* The front of the queue has been explored; the right child goes to the end or not.
LEMMA RightDone ==
  ASSUME NEW d \in 1..HashBits, NEW most \in 1..d, NEW q, Explorable(d, q, most, RightChild(q[1])),
         NEW r, r # <<>>, r = Tail(q) \/ r = Append(Tail(q), RightChild(q[1]))
  PROVE  /\ Ordered(d, r, most)
         /\ Level(d, r[1]) # most => Explorable(d, r, most, LeftChild(r[1]))
<1>1. /\ q \in Seq(Nodes(d)) /\ q # <<>> /\ Len(q) \in Nat /\ 1 \in 1..Len(q)
      /\ \A j \in 1..Len(q) : q[j] \in Nodes(d) /\ q[j] \in Nat /\ Level(d, q[j]) \in 1..most
  BY OrderedTypes DEF Explorable
<1> DEFINE n == q[1]
           L == Level(d, n)
           rc == RightChild(n)
           t == Tail(q)
<1>2. n \in Nodes(d) /\ L < most /\ L # d /\ L \in Nat
  BY <1>1 DEF Explorable
<1>3. rc \in Nodes(d) /\ Level(d, rc) = L + 1 /\ rc \in Nat
  BY <1>2, Levels
<1>4. Ordered(d, q, most) /\ \A j \in 1..Len(q) : Level(d, q[j]) = L + 1 => q[j] < rc
  BY DEF Explorable
<1>5. /\ t \in Seq(Nodes(d)) /\ Len(t) \in Nat /\ Len(t) = Len(q) - 1
      /\ \A j \in 1..Len(t) : t[j] = q[j + 1] /\ j + 1 \in 1..Len(q) /\ 1 < j + 1
  BY <1>1
<1>6. \A j \in 1..Len(q) : Level(d, q[j]) <= L + 1
  BY <1>4 DEF Ordered
<1>7. \A j \in 1..Len(t) : Before(d, n, t[j])
  <2>1. \A j \in 1..Len(q) : 1 < j => Before(d, q[1], q[j])
    BY <1>1, <1>4 DEF Ordered
  <2> SUFFICES ASSUME NEW j \in 1..Len(t) PROVE Before(d, n, t[j])
    OBVIOUS
  <2>2. Before(d, q[1], q[j + 1])
    BY <2>1, <1>5
  <2> QED BY <2>2, <1>5
\* Levels and numbers of what was behind the front.
<1>8. \A j \in 1..Len(t) : /\ t[j] \in Nodes(d) /\ t[j] \in Nat /\ Level(d, t[j]) \in {L, L + 1}
                           /\ Level(d, t[j]) = L + 1 => t[j] < rc
                           /\ Level(d, t[j]) = L => n < t[j]
  <2> SUFFICES ASSUME NEW j \in 1..Len(t)
               PROVE  /\ t[j] \in Nodes(d) /\ t[j] \in Nat /\ Level(d, t[j]) \in {L, L + 1}
                      /\ Level(d, t[j]) = L + 1 => t[j] < rc
                      /\ Level(d, t[j]) = L => n < t[j]
    OBVIOUS
  <2>1. t[j] = q[j + 1] /\ j + 1 \in 1..Len(q)
    BY <1>5
  <2>2. t[j] \in Nodes(d) /\ t[j] \in Nat /\ Level(d, t[j]) \in 1..most
    BY <2>1, <1>1
  <2>3. Level(d, t[j]) <= L + 1 /\ (Level(d, t[j]) = L + 1 => t[j] < rc)
    BY <2>1, <1>4, <1>6
  <2>4. Before(d, n, t[j])
    BY <1>7
  <2> QED BY <2>2, <2>3, <2>4, <1>2 DEF Before
<1> HIDE DEF rc, t, L, n
<1>9. Ordered(d, r, most)
  <2>1. CASE r = t
    BY <2>1, <1>4, TailOrdered DEF t
  <2>2. CASE r = Append(t, rc)
    <3>1. /\ r \in Seq(Nodes(d)) /\ r # <<>> /\ Len(r) = Len(t) + 1 /\ r[Len(t) + 1] = rc
          /\ \A j \in 1..Len(t) : r[j] = t[j]
      BY <2>2, <1>3, <1>5
    <3>2. \A j \in 1..Len(r) : j \in 1..Len(t) \/ j = Len(t) + 1
      BY <1>5, <3>1
    <3>3. t # <<>> => Ordered(d, t, most)
      BY <1>4, TailOrdered DEF t
    <3>4. \A i, j \in 1..Len(r) : i < j => Before(d, r[i], r[j])
      <4> SUFFICES ASSUME NEW i \in 1..Len(r), NEW j \in 1..Len(r), i < j PROVE Before(d, r[i], r[j])
        OBVIOUS
      <4>1. i \in 1..Len(t) /\ r[i] = t[i] /\ t # <<>>
        BY <1>5, <3>1, <3>2
      <4>2. CASE j \in 1..Len(t)
        BY <4>1, <4>2, <3>1, <3>3 DEF Ordered
      <4>3. CASE j = Len(t) + 1
        <5>1. r[j] = rc /\ Level(d, t[i]) \in {L, L + 1} /\ (Level(d, t[i]) = L + 1 => t[i] < rc)
          BY <4>1, <4>3, <3>1, <1>8
        <5> QED BY <4>1, <5>1, <1>2, <1>3 DEF Before
      <4> QED BY <4>2, <4>3, <3>2
    <3>5. \A j \in 1..Len(r) : Level(d, r[j]) \in {L, L + 1}
      BY <3>1, <3>2, <1>3, <1>8
    <3>6. 1 \in 1..Len(r)
      BY <1>5, <3>1
    <3>7. \A j \in 1..Len(r) : Level(d, r[j]) <= most /\ Level(d, r[j]) <= Level(d, r[1]) + 1
      BY <3>5, <3>6, <1>2
    <3> QED BY <3>1, <3>4, <3>7 DEF Ordered
  <2> QED BY <2>1, <2>2 DEF t, rc, n
<1>10. ASSUME Level(d, r[1]) # most PROVE Explorable(d, r, most, LeftChild(r[1]))
  <2>1. /\ r \in Seq(Nodes(d)) /\ Len(r) \in Nat /\ 1 \in 1..Len(r)
        /\ \A j \in 1..Len(r) : r[j] \in Nodes(d) /\ r[j] \in Nat /\ Level(d, r[j]) \in 1..most
    BY <1>9, OrderedTypes
  <2>2. \A j \in 1..Len(r) : \/ \E i \in 1..Len(t) : r[j] = t[i]
                             \/ r[j] = rc
    <3>1. CASE r = t
      BY <3>1
    <3>2. CASE r = Append(t, rc)
      BY <3>2, <1>3, <1>5
    <3> QED BY <3>1, <3>2 DEF t, rc, n
  <2>3. \A j \in 1..Len(r) : /\ Level(d, r[j]) \in {L, L + 1}
                             /\ Level(d, r[j]) = L + 1 => r[j] <= rc
                             /\ Level(d, r[j]) = L => n < r[j]
    <3> SUFFICES ASSUME NEW j \in 1..Len(r)
                 PROVE  /\ Level(d, r[j]) \in {L, L + 1}
                        /\ Level(d, r[j]) = L + 1 => r[j] <= rc
                        /\ Level(d, r[j]) = L => n < r[j]
      OBVIOUS
    <3>1. CASE \E i \in 1..Len(t) : r[j] = t[i]
      BY <3>1, <1>8, <1>3
    <3>2. CASE r[j] = rc
      BY <3>2, <1>3, <1>2
    <3> QED BY <3>1, <3>2, <2>2
  <2>4. Level(d, r[1]) < most
    BY <2>1, <1>10
  <2>5. \A j \in 1..Len(r) : Level(d, r[j]) = Level(d, r[1]) + 1 => r[j] < LeftChild(r[1])
    <3> SUFFICES ASSUME NEW j \in 1..Len(r), Level(d, r[j]) = Level(d, r[1]) + 1 PROVE r[j] < LeftChild(r[1])
      OBVIOUS
    <3>1. Level(d, r[1]) = L /\ Level(d, r[j]) = L + 1
      BY <2>1, <2>3, <1>2
    <3>2. n < r[1] /\ r[j] <= rc /\ r[1] \in Nodes(d) /\ r[j] \in Nat
      BY <3>1, <2>1, <2>3
    <3>3. rc < LeftChild(r[1])
      <4>1. Level(d, n) = Level(d, r[1]) /\ Level(d, n) # d
        BY <3>1, <1>2 DEF L
      <4> QED BY <4>1, <3>2, <1>2, Apart DEF rc
    <3>4. LeftChild(r[1]) \in Nat
      <4>1. Level(d, r[1]) # d
        BY <3>1, <1>2
      <4>2. LeftChild(r[1]) \in Nodes(d)
        BY <4>1, <3>2, Levels
      <4> QED BY <4>2, Levels
    <3> QED BY <3>2, <3>3, <3>4, <1>3
  <2> QED BY <1>9, <2>4, <2>5 DEF Explorable
<1> QED BY <1>9, <1>10

\* At the deepest level, every node behind the front is another node of that level.
LEMMA FrontDone ==
  ASSUME NEW d \in 1..HashBits, NEW most \in 1..d, NEW q, Ordered(d, q, most), Level(d, q[1]) = most
  PROVE  /\ \A j \in 1..Len(q) : Level(d, q[j]) = most
         /\ Tail(q) # <<>> => /\ Ordered(d, Tail(q), most) /\ Level(d, Tail(q)[1]) = most
                              /\ Tail(q)[1] # q[1] /\ Tail(q)[1] \in Nodes(d)
<1>1. /\ q \in Seq(Nodes(d)) /\ q # <<>> /\ Len(q) \in Nat /\ 1 \in 1..Len(q)
      /\ \A j \in 1..Len(q) : q[j] \in Nodes(d) /\ q[j] \in Nat /\ Level(d, q[j]) \in 1..most
  BY OrderedTypes
<1>2. \A j \in 1..Len(q) : Level(d, q[j]) = most
  <2> SUFFICES ASSUME NEW j \in 1..Len(q) PROVE Level(d, q[j]) = most
    OBVIOUS
  <2>1. CASE j = 1
    BY <2>1
  <2>2. CASE j # 1
    <3>1. 1 < j
      BY <2>2, <1>1
    <3>2. Before(d, q[1], q[j])
      BY <1>1, <3>1 DEF Ordered
    <3> QED BY <3>2, <1>1 DEF Before
  <2> QED BY <2>1, <2>2
<1>3. ASSUME Tail(q) # <<>>
      PROVE  /\ Ordered(d, Tail(q), most) /\ Level(d, Tail(q)[1]) = most
             /\ Tail(q)[1] # q[1] /\ Tail(q)[1] \in Nodes(d)
  <2>1. /\ Ordered(d, Tail(q), most)
        /\ Tail(q)[1] = q[2] /\ 2 \in 1..Len(q) /\ Before(d, q[1], q[2])
    BY <1>3, TailOrdered
  <2>2. q[2] \in Nodes(d) /\ q[2] \in Nat /\ Level(d, q[2]) = most /\ q[1] \in Nat /\ most \in Nat
    BY <2>1, <1>1, <1>2
  <2>3. q[2] # q[1]
    BY <2>1, <2>2 DEF Before
  <2> QED BY <2>1, <2>2, <2>3
<1> QED BY <1>2, <1>3

-----------------------------------------------------------------------------
(* The two peers and their trees *)

LEMMA Sides ==
  ASSUME NEW p \in Peer
  PROVE  /\ Other(p) \in Peer /\ Other(p) # p /\ Other(Other(p)) = p
         /\ \A q \in Peer : q = p \/ q = Other(p)
<1>1. PICK a \in Peer, b \in Peer : a # b /\ Peer = {a, b}
  BY SyncAssumption
<1>2. \A q \in Peer : \E x \in Peer : x # q
  BY <1>1
<1>3. \A q \in Peer : Other(q) \in Peer /\ Other(q) # q
  BY <1>2, Zenon DEF Other
<1> QED BY <1>1, <1>3

LEMMA TreesOfBoth ==
  ASSUME NEW b \in Buckets, NEW p \in Peer
  PROVE  /\ b.depth[p] \in 1..HashBits /\ b.depth[Other(p)] \in 1..HashBits
         /\ Most(b) \in 1..b.depth[p] /\ Most(b) <= b.depth[Other(p)]
         /\ b.writers \subseteq Peer
<1>1. \A q \in Peer : b.depth[q] \in 1..HashBits
  BY SyncAssumption
<1>2. b.writers \subseteq Peer
  BY SyncAssumption
<1> DEFINE S == {b.depth[q] : q \in Peer}
<1>3. S \subseteq Nat /\ S # {}
  BY <1>1
<1>4. PICK x \in S : \A y \in S : x <= y
  BY <1>3, NatMin
<1>5. Most(b) \in S /\ \A y \in S : Most(b) <= y
  BY <1>4 DEF Most, Min
<1>6. Other(p) \in Peer
  BY Sides
<1>7. b.depth[p] \in S /\ b.depth[Other(p)] \in S
  BY <1>6
<1>8. Most(b) \in Nat /\ Most(b) >= 1
  BY <1>1, <1>5
<1> HIDE DEF S
<1> QED BY <1>1, <1>2, <1>5, <1>6, <1>7, <1>8

\* The model's operators are those of the invariant.
LEMMA OfBucket ==
  /\ MaxDepth = Most(bucket)
  /\ \A p, n : Theirs(p, n) = There(bucket, p, n) /\ KeysBelow(p, n) = KeysAt(bucket.depth[p], n)
BY DEF MaxDepth, Most, Theirs, There, KeysBelow

LEMMA KeysThere ==
  ASSUME NEW b \in Buckets, NEW p \in Peer, NEW n \in Nodes(b.depth[p]), Level(b.depth[p], n) <= Most(b)
  PROVE  /\ There(b, p, n) \in Nodes(b.depth[Other(p)])
         /\ KeysAt(b.depth[Other(p)], There(b, p, n)) = KeysAt(b.depth[p], n)
         /\ \A a \in Nodes(b.depth[p]) :
              Level(b.depth[p], a) = Level(b.depth[p], n) /\ There(b, p, a) = There(b, p, n) => a = n
<1> DEFINE d == b.depth[p]
           e == b.depth[Other(p)]
<1>1. d \in 1..HashBits /\ e \in 1..HashBits /\ Most(b) <= e /\ Most(b) \in Nat /\ Level(d, n) \in Nat
  <2>1. d \in 1..HashBits /\ e \in 1..HashBits /\ Most(b) <= e /\ Most(b) \in Nat
    BY TreesOfBoth
  <2> HIDE DEF e
  <2> QED BY <2>1, Levels
<1>2. Level(d, n) <= e
  BY <1>1
<1>3. \A k \in Key : KeyHash[k] \in Hashes
  BY KeysAssumption DEF Hashes
<1>4. n \in Nodes(d) /\ There(b, p, n) = TranslateNode(d, n, e)
      /\ \A a : There(b, p, a) = TranslateNode(d, a, e)
  BY DEF There
<1> HIDE DEF d, e
<1>5. /\ TranslateNode(d, n, e) \in Nodes(e)
      /\ \A h \in Hashes : LeafNode(h, e) \in SubRangeMin(TranslateNode(d, n, e))..(SubRangeMax(TranslateNode(d, n, e)) - 1)
                             <=> LeafNode(h, d) \in SubRangeMin(n)..(SubRangeMax(n) - 1)
      /\ \A a \in Nodes(d) : Level(d, a) = Level(d, n) /\ TranslateNode(d, a, e) = TranslateNode(d, n, e) => a = n
  BY <1>1, <1>2, <1>4, StandsFor
<1>6. KeysAt(e, TranslateNode(d, n, e)) = KeysAt(d, n)
  BY <1>3, <1>5, Zenon DEF KeysAt
<1> QED BY <1>4, <1>5, <1>6 DEF d, e

LEMMA ChildKeys ==
  ASSUME NEW p, NEW n
  PROVE  /\ GetSyncChildren(p, n) \in Seq(Key)
         /\ ToSet(GetSyncChildren(p, n)) = {k \in KeysAt(bucket.depth[p], n) : rows[p][k] # {}}
<1> DEFINE K == {k \in KeysBelow(p, n) : rows[p][k] # {}}
<1>1. K \in SUBSET Key /\ K = {k \in KeysAt(bucket.depth[p], n) : rows[p][k] # {}}
  BY OfBucket DEF KeysAt
<1>2. GetSyncChildren(p, n) = InOrder(K)
  BY Zenon DEF GetSyncChildren
<1> HIDE DEF K
<1>3. InOrder(K) \in Seq(K) /\ ToSet(InOrder(K)) = K
  BY <1>1, KeysInOrder
<1>4. InOrder(K) \in Seq(Key)
  BY <1>1, <1>3
<1> QED BY <1>1, <1>2, <1>3, <1>4

\* A peer that only takes in has the only session.
LEMMA OnlyCopy ==
  ASSUME SyncInv, NEW c \in Peer, c \notin bucket.writers, NEW q \in Peer, q # c
  PROVE  q \notin Initiators /\ Resting(init[q], resp[q], msg[q])
<1>1. q \notin Initiators
  <2> SUFFICES ASSUME NEW x \in Peer \ {q}, x \in bucket.writers PROVE FALSE
    BY DEF Initiators, ReplicatesOutgoing
  <2>1. x = c
    BY Sides
  <2> QED BY <2>1
<1> QED BY <1>1 DEF SyncInv, Sessions

-----------------------------------------------------------------------------
(* Steps of a session *)

Moved(p, i, r, m) ==
  init' = [init EXCEPT ![p] = i] /\ resp' = [resp EXCEPT ![p] = r] /\ msg' = [msg EXCEPT ![p] = m]

LEMMA Records ==
  /\ Idle \in InitiatorType /\ [Idle EXCEPT !.state = "HANDSHAKE"] \in InitiatorType
  /\ Unopened \in ResponderType /\ Awaiting \in ResponderType
  /\ Idle.state = "END" /\ Idle.keys = {} /\ Idle.queue = <<>>
  /\ Unopened.state = "START" /\ Unopened.node = 0 /\ Awaiting.state = "HASH_COMPARE" /\ Awaiting.node = 0
  /\ Unopened.since = 0 /\ Awaiting.since = 0
<1>1. Idle.state = "END" /\ Idle.keys = {} /\ Idle.queue = <<>>
  BY DEF Idle
<1>2. Awaiting = [state |-> "HASH_COMPARE", node |-> 0, iter |-> <<>>, open |-> FALSE, since |-> 0]
  <2>1. ASSUME NEW q, NEW o
        PROVE  [[state |-> "START", node |-> 0, iter |-> q, open |-> o, since |-> 0] EXCEPT !.state = "HASH_COMPARE"]
                 = [state |-> "HASH_COMPARE", node |-> 0, iter |-> q, open |-> o, since |-> 0]
    OBVIOUS
  <2> QED BY <2>1, Zenon DEF Awaiting, Unopened
<1>3. /\ Unopened.state = "START" /\ Unopened.node = 0 /\ Awaiting.state = "HASH_COMPARE" /\ Awaiting.node = 0
      /\ Unopened.since = 0 /\ Awaiting.since = 0
  BY <1>2 DEF Unopened
<1>4. <<>> \in Seq(Nat) /\ <<>> \in Seq(Key) /\ {} \in SUBSET Key /\ 0 \in Nat
  OBVIOUS
<1>5. Idle \in InitiatorType
  BY <1>4 DEF Idle, InitiatorType, SyncStates
<1>6. [Idle EXCEPT !.state = "HANDSHAKE"] \in InitiatorType
  BY <1>5 DEF InitiatorType, SyncStates
<1>7. Unopened \in ResponderType /\ Awaiting \in ResponderType
  BY <1>2, <1>4 DEF Unopened, ResponderType
<1> QED BY <1>1, <1>3, <1>5, <1>6, <1>7

LEMMA MovedBy ==
  ASSUME SyncTypes, NEW p \in Peer, NEW i \in InitiatorType, NEW r \in ResponderType, NEW m, Moved(p, i, r, m)
  PROVE  /\ init' \in [Peer -> InitiatorType] /\ resp' \in [Peer -> ResponderType] /\ DOMAIN msg' = Peer
         /\ init'[p] = i /\ resp'[p] = r /\ msg'[p] = m
         /\ \A q \in Peer : q # p => init'[q] = init[q] /\ resp'[q] = resp[q] /\ msg'[q] = msg[q]
<1> USE DEF Moved, SyncTypes
<1>1. init' \in [Peer -> InitiatorType] /\ init'[p] = i /\ \A q \in Peer : q # p => init'[q] = init[q]
  OBVIOUS
<1>2. resp' \in [Peer -> ResponderType] /\ resp'[p] = r /\ \A q \in Peer : q # p => resp'[q] = resp[q]
  OBVIOUS
<1>3. DOMAIN msg' = Peer /\ msg'[p] = m /\ \A q \in Peer : q # p => msg'[q] = msg[q]
  OBVIOUS
<1> QED BY <1>1, <1>2, <1>3

\* A read error makes a session no less active.
LEMMA MoreErrors ==
  ASSUME NEW b, NEW p, NEW i, NEW r, NEW m, NEW e \in Nat, NEW f \in Nat, e <= f, Active(b, p, i, r, m, e)
  PROVE  Active(b, p, i, r, m, f)
<1>1. e > 0 => f > 0
  OBVIOUS
<1> QED BY <1>1 DEF Active, Pushing

\* What a step of the session that p has initiated has to keep.
LEMMA SessionStep ==
  ASSUME SyncInv, NEW p \in Initiators, NEW i \in InitiatorType, NEW r \in ResponderType, NEW m,
         Moved(p, i, r, m), UNCHANGED <<bucket, sent, nextId>>,
         readErrors' \in Nat, readErrors <= readErrors',
         rows' \in [Peer -> [Key -> SUBSET Version]],
         Resting(i, r, m) \/ Active(bucket, p, i, r, m, readErrors'),
         p \notin bucket.writers =>
           /\ rows'[Other(p)] = rows[Other(p)] /\ r.since <= nextId
           /\ Arriving(bucket, p, i, r, m, rows[Other(p)], readErrors')
  PROVE  SyncInv'
<1>0. p \in Peer /\ SyncTypes /\ Sessions /\ Copies
  BY DEF SyncInv, Initiators
<1>1. /\ init' \in [Peer -> InitiatorType] /\ resp' \in [Peer -> ResponderType] /\ DOMAIN msg' = Peer
      /\ init'[p] = i /\ resp'[p] = r /\ msg'[p] = m
      /\ \A q \in Peer : q # p => init'[q] = init[q] /\ resp'[q] = resp[q] /\ msg'[q] = msg[q]
  BY <1>0, MovedBy
<1>2. SyncTypes'
  BY <1>0, <1>1 DEF SyncTypes
<1>3. Sessions'
  <2>0. Initiators' = Initiators
    BY DEF Initiators, ReplicatesOutgoing
  <2>1. ASSUME NEW q \in Peer
        PROVE  \/ Resting(init'[q], resp'[q], msg'[q])
               \/ q \in Initiators /\ Active(bucket, q, init'[q], resp'[q], msg'[q], readErrors')
    <3>1. CASE q = p
      BY <3>1, <1>1, Zenon
    <3>2. CASE q # p
      <4>1. init'[q] = init[q] /\ resp'[q] = resp[q] /\ msg'[q] = msg[q]
        BY <3>2, <1>1
      <4>2. \/ Resting(init[q], resp[q], msg[q])
            \/ q \in Initiators /\ Active(bucket, q, init[q], resp[q], msg[q], readErrors)
        BY <1>0 DEF Sessions
      <4>3. readErrors \in Nat
        BY <1>0 DEF SyncTypes
      <4>4. Active(bucket, q, init[q], resp[q], msg[q], readErrors)
              => Active(bucket, q, init[q], resp[q], msg[q], readErrors')
        BY <4>3, MoreErrors
      <4> QED BY <4>1, <4>2, <4>4, Zenon
    <3> QED BY <3>1, <3>2
  <2>2. bucket' = bucket
    OBVIOUS
  <2> QED BY <2>0, <2>1, <2>2, Zenon DEF Sessions
<1>4. Copies'
  <2> SUFFICES ASSUME NEW c \in Peer, c \notin bucket.writers
               PROVE  Copied(c)' /\ Arriving(bucket, c, init'[c], resp'[c], msg'[c], rows'[Other(c)], readErrors')
    BY DEF Copies
  <2>1. c = p
    <3> SUFFICES ASSUME p # c PROVE FALSE
      OBVIOUS
    <3> QED BY <1>0, OnlyCopy
  <2>2. /\ rows'[Other(p)] = rows[Other(p)] /\ r.since <= nextId
        /\ Arriving(bucket, p, i, r, m, rows[Other(p)], readErrors')
    BY <2>1
  <2>3. Copied(p)
    BY <1>0, <2>1 DEF Copies
  <2>5. Copied(p)'
    BY <1>1, <2>2, <2>3 DEF Copied
  <2>6. Arriving(bucket, p, init'[p], resp'[p], msg'[p], rows'[Other(p)], readErrors')
    BY <1>1, <2>2, Zenon
  <2> QED BY <2>1, <2>5, <2>6
<1> QED BY <1>2, <1>3, <1>4 DEF SyncInv

\* What the state of a session or its message tells.
LEMMA During ==
  ASSUME SyncInv, NEW p \in Peer
  PROVE  /\ SyncTypes /\ bucket \in Buckets /\ readErrors \in Nat
         /\ init[p] \in InitiatorType /\ resp[p] \in ResponderType
         /\ init[p].state # "END" \/ msg[p].to # "nobody" => p \in Initiators
         /\ init[p].state = "END" => Resting(init[p], resp[p], msg[p])
         /\ init[p].state = "HANDSHAKE" => Greeting(init[p], resp[p], msg[p])
         /\ init[p].state \in {"ROOT_HASH_COMPARE", "LEFT_HASH_COMPARE", "RIGHT_HASH_COMPARE"} =>
              Comparing(bucket, p, init[p]) /\ Hashing(resp[p], msg[p])
         /\ init[p].state = "DB_OBJECT_PUSH" =>
              /\ Fetching(bucket, p, init[p]) /\ Iterating(bucket, p, resp[p])
              /\ Pushing(bucket, p, init[p], resp[p], msg[p], readErrors)
<1>1. SyncTypes /\ bucket \in Buckets /\ readErrors \in Nat /\ init[p] \in InitiatorType /\ resp[p] \in ResponderType
  BY DEF SyncInv, SyncTypes
<1>2. CASE Resting(init[p], resp[p], msg[p])
  BY <1>1, <1>2 DEF Resting, Idle, None
<1>3. CASE p \in Initiators /\ Active(bucket, p, init[p], resp[p], msg[p], readErrors)
  <2>1. CASE Greeting(init[p], resp[p], msg[p])
    BY <1>1, <1>3, <2>1 DEF Greeting, Idle
  <2>2. CASE Comparing(bucket, p, init[p]) /\ Hashing(resp[p], msg[p])
    <3>1. init[p].state \in {"ROOT_HASH_COMPARE", "LEFT_HASH_COMPARE", "RIGHT_HASH_COMPARE"}
      BY <2>2 DEF Comparing
    <3> QED BY <1>1, <1>3, <2>2, <3>1
  <2>3. CASE /\ Fetching(bucket, p, init[p]) /\ Iterating(bucket, p, resp[p])
             /\ Pushing(bucket, p, init[p], resp[p], msg[p], readErrors)
    <3>1. init[p].state = "DB_OBJECT_PUSH"
      BY <2>3 DEF Fetching
    <3> QED BY <1>1, <1>3, <2>3, <3>1
  <2> QED BY <1>3, <2>1, <2>2, <2>3 DEF Active
<1> QED BY <1>2, <1>3 DEF SyncInv, Sessions

\* What a message to the responder tells.
LEMMA Asked ==
  ASSUME SyncInv, NEW p \in Peer, msg[p].to = "responder"
  PROVE  /\ p \in Initiators
         /\ msg[p].type = "START" => Greeting(init[p], resp[p], msg[p]) /\ resp[p] = Unopened
         /\ msg[p].type = "NODE_HASH" => Comparing(bucket, p, init[p]) /\ Hashing(resp[p], msg[p])
         /\ msg[p].type = "OBJECT_NEXT" =>
              /\ Fetching(bucket, p, init[p]) /\ Iterating(bucket, p, resp[p])
              /\ msg[p] = ObjectNext(There(bucket, p, init[p].queue[1]))
<1>1. p \in Initiators /\ Active(bucket, p, init[p], resp[p], msg[p], readErrors)
  BY DEF SyncInv, Sessions, Resting, None
<1>2. CASE Greeting(init[p], resp[p], msg[p])
  <2>1. msg[p] = Start("responder") /\ resp[p] = Unopened
    BY <1>2 DEF Greeting, Start
  <2>2. msg[p].type = "START"
    BY <2>1 DEF Start
  <2> QED BY <1>1, <1>2, <2>1, <2>2
<1>3. CASE Comparing(bucket, p, init[p]) /\ Hashing(resp[p], msg[p])
  <2>1. msg[p].type = "NODE_HASH"
    BY <1>3 DEF Hashing
  <2> QED BY <1>1, <1>3, <2>1
<1>4. CASE /\ Fetching(bucket, p, init[p]) /\ Iterating(bucket, p, resp[p])
           /\ Pushing(bucket, p, init[p], resp[p], msg[p], readErrors)
  <2>1. msg[p] = ObjectNext(There(bucket, p, init[p].queue[1]))
    <3>1. Abort.to = "initiator" /\ PushDone.to = "initiator" /\ \A k, v : Push(k, v).to = "initiator"
      BY DEF Abort, PushDone, Push
    <3>2. msg[p] # Abort /\ msg[p] # PushDone /\ \A k, v : msg[p] # Push(k, v)
      BY <3>1
    <3> QED BY <1>4, <3>2 DEF Pushing
  <2>2. msg[p].type = "OBJECT_NEXT"
    BY <2>1 DEF ObjectNext
  <2> QED BY <1>1, <1>4, <2>1, <2>2
<1> QED BY <1>1, <1>2, <1>3, <1>4 DEF Active

-----------------------------------------------------------------------------
(* Steps of the initiator *)

With(i, s, q) == [i EXCEPT !.state = s, !.queue = q]
WithKeys(i, s, q, K) == [i EXCEPT !.state = s, !.queue = q, !.keys = K]

LEMMA Replaced ==
  ASSUME NEW i \in InitiatorType, NEW s \in SyncStates, NEW q \in Seq(Nat)
  PROVE  /\ With(i, s, q) \in InitiatorType /\ With(i, s, q).state = s
         /\ With(i, s, q).queue = q /\ With(i, s, q).keys = i.keys
BY DEF InitiatorType, With

LEMMA UpdatedKeys ==
  ASSUME NEW i \in InitiatorType, NEW s \in SyncStates, NEW q \in Seq(Nat), NEW K \in SUBSET Key
  PROVE  /\ WithKeys(i, s, q, K) \in InitiatorType /\ WithKeys(i, s, q, K).state = s
         /\ WithKeys(i, s, q, K).queue = q /\ WithKeys(i, s, q, K).keys = K
BY DEF InitiatorType, WithKeys

LEMMA QueueNat ==
  ASSUME NEW d \in 1..HashBits, NEW most \in 1..d, NEW q, Ordered(d, q, most)
  PROVE  q \in Seq(Nat) /\ Head(q) = q[1] /\ q[1] \in Nodes(d) /\ q # <<>>
<1>1. /\ q \in Seq(Nodes(d)) /\ q # <<>> /\ Len(q) \in Nat /\ 1 \in 1..Len(q) /\ Head(q) = q[1]
      /\ \A j \in 1..Len(q) : q[j] \in Nodes(d) /\ q[j] \in Nat
  BY OrderedTypes
<1> QED BY <1>1

\* What becomes of the rows in a step of the session of p.
RowsKept(p) ==
  /\ rows' \in [Peer -> [Key -> SUBSET Version]]
  /\ p \notin bucket.writers => rows'[Other(p)] = rows[Other(p)]

\* nextId is past what the responder listed last.
LEMMA Since ==
  ASSUME SyncInv, NEW p \in Peer
  PROVE  /\ nextId \in Nat /\ 0 <= nextId /\ Unopened.since <= nextId /\ Awaiting.since <= nextId
         /\ p \notin bucket.writers => resp[p].since <= nextId
<1>1. nextId \in Nat /\ 0 <= nextId
  BY SyncAssumption DEF SyncInv, SyncTypes
<1>2. p \notin bucket.writers => resp[p].since <= nextId
  BY DEF SyncInv, Copies, Copied
<1> QED BY <1>1, <1>2, Records

LEMMA SameRows ==
  ASSUME SyncInv, NEW p, rows' = rows
  PROVE  RowsKept(p)
BY DEF RowsKept, SyncInv, SyncTypes

LEMMA EndKeeps ==
  ASSUME SyncInv, NEW p \in Initiators, End(p), RowsKept(p),
         UNCHANGED <<bucket, sent, nextId, readErrors>>
  PROVE  SyncInv'
<1>1. Moved(p, Idle, Unopened, None)
  BY DEF End, Moved
<1>2. readErrors' \in Nat /\ readErrors <= readErrors'
  BY DEF SyncInv, SyncTypes
<1>3. Resting(Idle, Unopened, None)
  BY DEF Resting
<1>4. Arriving(bucket, p, Idle, Unopened, None, rows[Other(p)], readErrors')
  BY Records DEF Arriving
<1>5. Unopened.since <= nextId
  BY Since DEF Initiators
<1> DEFINE i == Idle
           r == Unopened
           m == None
<1>6. i \in InitiatorType /\ r \in ResponderType
  BY Records
<1> HIDE DEF i, r, m
<1> QED BY <1>1, <1>2, <1>3, <1>4, <1>5, <1>6, SessionStep DEF RowsKept, i, r, m

LEMMA ExploreKeeps ==
  ASSUME SyncInv, NEW p \in Initiators, NEW q, Explore(p, q), UNCHANGED <<bucket, rows, resp, bounds>>,
         Explorable(bucket.depth[p], q, Most(bucket), LeftChild(q[1])), init[p].keys = {}, resp[p] = Awaiting
  PROVE  SyncInv'
<1>0. p \in Peer /\ init[p] \in InitiatorType /\ readErrors \in Nat /\ bucket \in Buckets /\ resp \in [Peer -> ResponderType]
  BY DEF SyncInv, SyncTypes, Initiators
<1>1. q \in Seq(Nat)
  BY <1>0, TreesOfBoth, QueueNat DEF Explorable
<1> DEFINE i == With(init[p], "LEFT_HASH_COMPARE", q)
           m == AskHash(Theirs(p, LeftChild(Head(q))))
<1>2. i \in InitiatorType /\ i.state = "LEFT_HASH_COMPARE" /\ i.queue = q /\ i.keys = {}
  <2>1. "LEFT_HASH_COMPARE" \in SyncStates /\ {} \in SUBSET Key
    BY DEF SyncStates
  <2> QED BY <1>0, <1>1, <2>1, Replaced
<1>3. m.to = "responder" /\ m.type = "NODE_HASH"
  BY DEF AskHash
<1>4. Moved(p, i, Awaiting, m)
  <2>1. resp' = [resp EXCEPT ![p] = Awaiting]
    BY <1>0
  <2> QED BY <2>1, Zenon DEF Moved, Explore, Go, With
<1> HIDE DEF i, m
<1>5. Comparing(bucket, p, i) /\ Hashing(Awaiting, m)
  BY <1>2, <1>3 DEF Comparing, Hashing
<1>6. Arriving(bucket, p, i, Awaiting, m, rows[Other(p)], readErrors')
  BY <1>2 DEF Arriving
<1>7. /\ RowsKept(p) /\ Awaiting \in ResponderType /\ readErrors' \in Nat /\ readErrors <= readErrors'
      /\ Awaiting.since <= nextId
  BY <1>0, SameRows, Records, Since DEF bounds
<1>8. UNCHANGED <<bucket, sent, nextId>> /\ Active(bucket, p, i, Awaiting, m, readErrors')
  BY <1>5 DEF bounds, Active
<1> DEFINE r == Awaiting
<1> HIDE DEF r
<1> QED BY <1>2, <1>3, <1>4, <1>6, <1>7, <1>8, SessionStep DEF RowsKept, r

LEMMA FetchKeeps ==
  ASSUME SyncInv, NEW p \in Initiators, NEW q, NEW K \in SUBSET Key, Fetch(p, q, K), UNCHANGED <<bucket, resp, bounds>>,
         RowsKept(p),
         Ordered(bucket.depth[p], q, Most(bucket)), Level(bucket.depth[p], q[1]) = Most(bucket),
         K \subseteq KeysAt(bucket.depth[p], q[1]), p \in bucket.writers => K = {},
         Iterating(bucket, p, resp[p]),
         p \notin bucket.writers => \A k \in K :
           resp[p].state = "DB_OBJECT_PUSH" /\ resp[p].node = There(bucket, p, q[1]) /\ readErrors = 0
             => (Earlier(rows[Other(p)][k], resp[p].since) => k \in ToSet(resp[p].iter))
  PROVE  SyncInv'
<1>0. /\ p \in Peer /\ init[p] \in InitiatorType /\ readErrors \in Nat /\ bucket \in Buckets
      /\ resp \in [Peer -> ResponderType] /\ resp[p] \in ResponderType
  BY DEF SyncInv, SyncTypes, Initiators
<1>1. q \in Seq(Nat) /\ Head(q) = q[1]
  BY <1>0, TreesOfBoth, QueueNat
<1> DEFINE i == WithKeys(init[p], "DB_OBJECT_PUSH", q, K)
           m == ObjectNext(Theirs(p, Head(q)))
           r == resp[p]
<1>2. i \in InitiatorType /\ i.state = "DB_OBJECT_PUSH" /\ i.queue = q /\ i.keys = K
  <2>1. "DB_OBJECT_PUSH" \in SyncStates
    BY DEF SyncStates
  <2> QED BY <1>0, <1>1, <2>1, UpdatedKeys
<1>3. m = ObjectNext(There(bucket, p, q[1])) /\ m.to = "responder"
  <2>1. m = ObjectNext(There(bucket, p, q[1]))
    BY <1>1, OfBucket
  <2> QED BY <2>1 DEF ObjectNext
<1>4. Moved(p, i, r, m)
  <2>1. resp' = [resp EXCEPT ![p] = r]
    BY <1>0
  <2> QED BY <2>1, Zenon DEF Moved, Fetch, Go, WithKeys
<1>5. readErrors' = readErrors /\ UNCHANGED <<bucket, sent, nextId>> /\ readErrors <= readErrors
  BY <1>0 DEF bounds
<1> HIDE DEF i, m
<1>6. Fetching(bucket, p, i)
  BY <1>2, Zenon DEF Fetching
<1>7. Pushing(bucket, p, i, r, m, readErrors')
  BY <1>2, <1>3 DEF Pushing
<1>8. Active(bucket, p, i, r, m, readErrors')
  BY <1>6, <1>7 DEF Active
<1>9. p \notin bucket.writers => Arriving(bucket, p, i, r, m, rows[Other(p)], readErrors')
  BY <1>2, <1>5 DEF Arriving, Opening
<1>10. p \notin bucket.writers => r.since <= nextId
  BY <1>0, Since
<1> HIDE DEF r
<1>11. r \in ResponderType
  BY <1>0 DEF r
<1> QED BY <1>0, <1>2, <1>3, <1>4, <1>5, <1>8, <1>9, <1>10, <1>11, SessionStep DEF RowsKept

\* A step that goes on comparing asks for another hash.
LEMMA CompareKeeps ==
  ASSUME SyncInv, NEW p \in Initiators, NEW s \in SyncStates, NEW q \in Seq(Nat), NEW n,
         Go(p, With(init[p], s, q), AskHash(n)), UNCHANGED <<bucket, rows, resp, bounds>>,
         resp[p] = Awaiting, s # "DB_OBJECT_PUSH", Comparing(bucket, p, With(init[p], s, q))
  PROVE  SyncInv'
<1>0. p \in Peer /\ init[p] \in InitiatorType /\ readErrors \in Nat /\ bucket \in Buckets /\ resp \in [Peer -> ResponderType]
  BY DEF SyncInv, SyncTypes, Initiators
<1> DEFINE i == With(init[p], s, q)
           m == AskHash(n)
<1>2. i \in InitiatorType /\ i.state = s
  BY <1>0, Replaced
<1>3. m.to = "responder" /\ m.type = "NODE_HASH"
  BY DEF AskHash
<1>4. Moved(p, i, Awaiting, m)
  <2>1. resp' = [resp EXCEPT ![p] = Awaiting]
    BY <1>0
  <2> QED BY <2>1, Zenon DEF Moved, Go
<1> HIDE DEF m
<1>5. Comparing(bucket, p, i) /\ i.keys = {} /\ Hashing(Awaiting, m)
  BY <1>3 DEF Comparing, Hashing
<1> HIDE DEF i
<1>6. Arriving(bucket, p, i, Awaiting, m, rows[Other(p)], readErrors')
  BY <1>2 DEF Arriving
<1>7. /\ RowsKept(p) /\ Awaiting \in ResponderType /\ readErrors' \in Nat /\ readErrors <= readErrors'
      /\ Awaiting.since <= nextId
  BY <1>0, SameRows, Records, Since DEF bounds
<1>8. UNCHANGED <<bucket, sent, nextId>> /\ Active(bucket, p, i, Awaiting, m, readErrors')
  BY <1>5 DEF bounds, Active
<1> DEFINE r == Awaiting
<1> HIDE DEF r
<1> QED BY <1>2, <1>3, <1>4, <1>5, <1>6, <1>7, <1>8, SessionStep DEF RowsKept, r

LEMMA StartSessionKeeps ==
  ASSUME SyncInv, bucket' = bucket, NEW p \in Peer, StartSession(p)
  PROVE  SyncInv'
<1> DEFINE i == [Idle EXCEPT !.state = "HANDSHAKE"]
           m == Start("responder")
           r == Unopened
<1>0. p \in Initiators /\ readErrors \in Nat /\ resp \in [Peer -> ResponderType] /\ resp[p] = Unopened
  BY During DEF StartSession, Resting, SyncTypes
<1>1. Moved(p, i, r, m)
  <2>1. resp' = [resp EXCEPT ![p] = Unopened]
    BY <1>0 DEF StartSession
  <2> QED BY <2>1, Zenon DEF Moved, StartSession, Go
<1>2. i \in InitiatorType /\ i.state = "HANDSHAKE" /\ i.keys = {} /\ r \in ResponderType
  BY Records DEF Idle
<1>3. Greeting(i, r, m) /\ r.since <= nextId
  BY Zenon, <1>0, Since DEF Greeting
<1>4. UNCHANGED <<bucket, sent, nextId>> /\ readErrors' = readErrors /\ RowsKept(p) /\ readErrors <= readErrors
  BY <1>0, SameRows DEF StartSession, bounds
<1> HIDE DEF i, m, r
<1>5. Active(bucket, p, i, r, m, readErrors') /\ Arriving(bucket, p, i, r, m, rows[Other(p)], readErrors')
  BY <1>2, <1>3 DEF Active, Arriving
<1> QED BY <1>0, <1>1, <1>2, <1>3, <1>4, <1>5, SessionStep DEF RowsKept

LEMMA HandshakeKeeps ==
  ASSUME SyncInv, bucket' = bucket, NEW p \in Peer, Handshake(p)
  PROVE  SyncInv'
<1> DEFINE root == RootNode(bucket.depth[p])
           q == <<root>>
<1>0. /\ init[p].state = "HANDSHAKE" /\ msg[p].to = "initiator"
      /\ Go(p, With(init[p], "ROOT_HASH_COMPARE", q), AskHash(Theirs(p, root))) /\ UNCHANGED <<rows, resp, bounds>>
  BY Zenon DEF Handshake, Receives, With
<1>1. p \in Initiators /\ bucket \in Buckets /\ Greeting(init[p], resp[p], msg[p]) /\ init[p] \in InitiatorType
  BY <1>0, During
<1>2. resp[p] = Awaiting /\ init[p].keys = {}
  <2>1. Start("responder").to = "responder"
    BY DEF Start
  <2>2. init[p] = [Idle EXCEPT !.state = "HANDSHAKE"]
    BY <1>1 DEF Greeting
  <2>3. [Idle EXCEPT !.state = "HANDSHAKE"].keys = {}
    BY DEF Idle
  <2> QED BY <1>0, <1>1, <2>1, <2>2, <2>3 DEF Greeting
<1>3. q \in Seq(Nat) /\ "ROOT_HASH_COMPARE" \in SyncStates /\ "ROOT_HASH_COMPARE" # "DB_OBJECT_PUSH"
  <2>1. bucket.depth[p] \in 1..HashBits
    BY <1>1, TreesOfBoth
  <2>2. root \in Nat
    <3>1. root \in Nodes(bucket.depth[p])
      BY <2>1, RootLevel
    <3> HIDE DEF root
    <3> QED BY <2>1, <3>1, Levels
  <2> QED BY <2>2 DEF SyncStates
<1> HIDE DEF q
<1>4. Comparing(bucket, p, With(init[p], "ROOT_HASH_COMPARE", q))
  <2> DEFINE i == With(init[p], "ROOT_HASH_COMPARE", q)
  <2>1. i.state = "ROOT_HASH_COMPARE" /\ i.queue = q /\ i.keys = {}
    BY <1>1, <1>2, <1>3, Replaced
  <2> HIDE DEF i
  <2>2. Comparing(bucket, p, i)
    BY <2>1 DEF Comparing, q
  <2> QED BY <2>2 DEF i
<1> QED BY <1>0, <1>1, <1>2, <1>3, <1>4, CompareKeeps

LEMMA CompareRootKeeps ==
  ASSUME SyncInv, bucket' = bucket, NEW p \in Peer, CompareRoot(p)
  PROVE  SyncInv'
<1> DEFINE d == bucket.depth[p]
           root == RootNode(d)
           q == init[p].queue
<1>0. init[p].state = "ROOT_HASH_COMPARE" /\ UNCHANGED <<rows, bounds>>
  BY DEF CompareRoot, Receives
<1>1. p \in Initiators /\ bucket \in Buckets /\ Comparing(bucket, p, init[p]) /\ Hashing(resp[p], msg[p])
  BY <1>0, During
<1>2. init[p].keys = {} /\ q = <<root>> /\ resp[p] = Awaiting
  BY <1>0, <1>1 DEF Comparing, Hashing
<1>3. d \in 1..HashBits /\ Most(bucket) \in 1..d
  BY <1>1, TreesOfBoth
<1>4. /\ Ordered(d, q, Most(bucket)) /\ Head(q) = root /\ Level(d, root) = 1 /\ q[1] = root
      /\ Level(d, root) # Most(bucket) => Explorable(d, q, Most(bucket), LeftChild(q[1]))
  BY <1>2, <1>3, RootQueue
<1>5. CASE End(p)
  <2>1. RowsKept(p) /\ UNCHANGED <<bucket, sent, nextId, readErrors>>
    BY <1>0, SameRows DEF bounds
  <2> QED BY <1>1, <1>5, <2>1, EndKeeps
<1>6. CASE /\ IF Level(bucket.depth[p], PeekExplorationQueue(p)) # MaxDepth THEN Explore(p, init[p].queue)
              ELSE Fetch(p, init[p].queue, {})
           /\ UNCHANGED resp
  <2>1. PeekExplorationQueue(p) = root /\ MaxDepth = Most(bucket)
    BY <1>4, OfBucket DEF PeekExplorationQueue
  <2>2. CASE Level(d, root) # Most(bucket)
    <3>1. Explore(p, q) /\ UNCHANGED <<bucket, rows, resp, bounds>>
      BY <1>0, <1>6, <2>1, <2>2
    <3> HIDE DEF q, d
    <3> QED BY <1>1, <1>2, <1>4, <2>2, <3>1, ExploreKeeps DEF q, d
  <2>3. CASE Level(d, root) = Most(bucket)
    <3>1. Fetch(p, q, {}) /\ UNCHANGED <<bucket, resp, bounds>> /\ RowsKept(p)
      BY <1>0, <1>6, <2>1, <2>3, SameRows
    <3>2. Iterating(bucket, p, resp[p]) /\ {} \in SUBSET Key
      BY <1>2 DEF Iterating
    <3>3. Level(d, q[1]) = Most(bucket)
      BY <1>4, <2>3
    <3> HIDE DEF q
    <3> DEFINE K == {}
    <3>4. K \in SUBSET Key /\ K \subseteq KeysAt(d, q[1]) /\ K = {}
      OBVIOUS
    <3>5. Fetch(p, q, K)
      BY <3>1
    <3> HIDE DEF K
    <3> QED BY <1>1, <1>4, <3>1, <3>2, <3>3, <3>4, <3>5, FetchKeeps
  <2> QED BY <2>2, <2>3
<1> QED BY <1>5, <1>6 DEF CompareRoot

LEMMA CompareLeftKeeps ==
  ASSUME SyncInv, bucket' = bucket, NEW p \in Peer, CompareLeft(p)
  PROVE  SyncInv'
<1> DEFINE d == bucket.depth[p]
           q == init[p].queue
           l == LeftChild(PeekExplorationQueue(p))
           r == IF msg[p].hash = NodeHash(p, l) THEN q ELSE Append(q, l)
<1>0. /\ init[p].state = "LEFT_HASH_COMPARE" /\ UNCHANGED <<rows, resp, bounds>>
      /\ Go(p, With(init[p], "RIGHT_HASH_COMPARE", r), AskHash(Theirs(p, RightChild(PeekExplorationQueue(p)))))
  BY Zenon DEF CompareLeft, Receives, With
<1>1. /\ p \in Initiators /\ bucket \in Buckets /\ init[p] \in InitiatorType
      /\ Comparing(bucket, p, init[p]) /\ Hashing(resp[p], msg[p])
  BY <1>0, During
<1>2. init[p].keys = {} /\ Explorable(d, q, Most(bucket), LeftChild(q[1])) /\ resp[p] = Awaiting
  BY <1>0, <1>1 DEF Comparing, Hashing
<1>3. d \in 1..HashBits /\ Most(bucket) \in 1..d
  BY <1>1, TreesOfBoth
<1>4. l = LeftChild(q[1])
  BY <1>2, <1>3, QueueNat DEF PeekExplorationQueue, Explorable
<1>5. r = q \/ r = Append(q, LeftChild(q[1]))
  BY <1>4
<1> HIDE DEF l, r
<1>6. r[1] = q[1] /\ Explorable(d, r, Most(bucket), RightChild(q[1]))
  BY <1>2, <1>3, <1>5, LeftDone
<1>7. r \in Seq(Nat)
  BY <1>3, <1>6, QueueNat DEF Explorable
<1>8. "RIGHT_HASH_COMPARE" \in SyncStates /\ "RIGHT_HASH_COMPARE" # "DB_OBJECT_PUSH"
  BY DEF SyncStates
<1>9. Comparing(bucket, p, With(init[p], "RIGHT_HASH_COMPARE", r))
  BY <1>1, <1>2, <1>6, <1>7, <1>8, Replaced DEF Comparing
<1> QED BY <1>0, <1>1, <1>2, <1>7, <1>8, <1>9, CompareKeeps

LEMMA NodeKeysAre ==
  ASSUME NEW p \in Peer, NEW n
  PROVE  /\ NodeKeys(p, n) \in SUBSET Key /\ NodeKeys(p, n) \subseteq KeysAt(bucket.depth[p], n)
         /\ p \in bucket.writers => NodeKeys(p, n) = {}
<1>1. CASE p \in bucket.writers
  BY <1>1 DEF NodeKeys, ReplicatesOutgoing
<1>2. CASE p \notin bucket.writers
  <2>1. NodeKeys(p, n) = {k \in KeysAt(bucket.depth[p], n) : rows[p][k] # {}}
    BY <1>2, ChildKeys DEF NodeKeys, ReplicatesOutgoing
  <2> QED BY <1>2, <2>1 DEF KeysAt
<1> QED BY <1>1, <1>2

\* The step to the next node whose rows are fetched.
LEMMA NextNodeKeeps ==
  ASSUME SyncInv, NEW p \in Initiators, NEW q, Fetch(p, q, NodeKeys(p, Head(q))), UNCHANGED <<bucket, resp, bounds>>,
         RowsKept(p),
         Ordered(bucket.depth[p], q, Most(bucket)), Level(bucket.depth[p], q[1]) = Most(bucket),
         Iterating(bucket, p, resp[p]),
         ~(resp[p].state = "DB_OBJECT_PUSH" /\ resp[p].node = There(bucket, p, q[1]))
  PROVE  SyncInv'
<1>0. p \in Peer /\ bucket \in Buckets
  BY DEF SyncInv, SyncTypes, Initiators
<1>1. Head(q) = q[1]
  BY <1>0, TreesOfBoth, QueueNat
<1> DEFINE K == NodeKeys(p, q[1])
<1>2. /\ K \in SUBSET Key /\ K \subseteq KeysAt(bucket.depth[p], q[1])
      /\ p \in bucket.writers => K = {}
  BY <1>0, NodeKeysAre
<1>3. Fetch(p, q, K)
  BY <1>1
<1> HIDE DEF K
<1> QED BY <1>2, <1>3, FetchKeeps

LEMMA CompareRightKeeps ==
  ASSUME SyncInv, bucket' = bucket, NEW p \in Peer, CompareRight(p)
  PROVE  SyncInv'
<1> DEFINE d == bucket.depth[p]
           q == init[p].queue
           r == AfterRight(p)
<1>0. init[p].state = "RIGHT_HASH_COMPARE" /\ UNCHANGED <<rows, bounds>>
  BY DEF CompareRight, Receives
<1>1. /\ p \in Initiators /\ bucket \in Buckets /\ init[p] \in InitiatorType
      /\ Comparing(bucket, p, init[p]) /\ Hashing(resp[p], msg[p])
  BY <1>0, During
<1>2. init[p].keys = {} /\ Explorable(d, q, Most(bucket), RightChild(q[1])) /\ resp[p] = Awaiting
  BY <1>0, <1>1 DEF Comparing, Hashing
<1>3. d \in 1..HashBits /\ Most(bucket) \in 1..d
  BY <1>1, TreesOfBoth
<1>4. PeekExplorationQueue(p) = q[1] /\ MaxDepth = Most(bucket)
  BY <1>2, <1>3, QueueNat, OfBucket DEF PeekExplorationQueue, Explorable
<1>5. r = Tail(q) \/ r = Append(Tail(q), RightChild(q[1]))
  BY <1>4 DEF AfterRight
<1>6. \/ r = <<>> /\ End(p)
      \/ r # <<>> /\ Level(d, Head(r)) = MaxDepth /\ Fetch(p, r, NodeKeys(p, Head(r))) /\ UNCHANGED resp
      \/ r # <<>> /\ Level(d, Head(r)) # MaxDepth /\ Explore(p, r) /\ UNCHANGED resp
  BY Zenon DEF CompareRight
<1> HIDE DEF r
<1>7. CASE End(p)
  <2>1. RowsKept(p) /\ UNCHANGED <<bucket, sent, nextId, readErrors>>
    BY <1>0, SameRows DEF bounds
  <2> QED BY <1>1, <1>7, <2>1, EndKeeps
<1>8. CASE r # <<>>
  <2>1. Ordered(d, r, Most(bucket)) /\ (Level(d, r[1]) # Most(bucket) => Explorable(d, r, Most(bucket), LeftChild(r[1])))
    BY <1>2, <1>3, <1>5, <1>8, RightDone
  <2>2. Head(r) = r[1]
    BY <1>3, <2>1, QueueNat
  <2>3. CASE Level(d, Head(r)) = MaxDepth /\ Fetch(p, r, NodeKeys(p, Head(r))) /\ UNCHANGED resp
    <3>1. Iterating(bucket, p, resp[p]) /\ resp[p].state # "DB_OBJECT_PUSH"
      BY <1>2, Records DEF Iterating
    <3>2. Level(d, r[1]) = Most(bucket)
      BY <1>4, <2>2, <2>3
    <3>3. RowsKept(p) /\ UNCHANGED <<bucket, resp, bounds>>
      BY <1>0, <2>3, SameRows
    <3> QED BY <1>1, <2>1, <2>3, <3>1, <3>2, <3>3, NextNodeKeeps
  <2>4. CASE Level(d, Head(r)) # MaxDepth /\ Explore(p, r) /\ UNCHANGED resp
    <3>1. Explorable(d, r, Most(bucket), LeftChild(r[1]))
      BY <1>4, <2>1, <2>2, <2>4
    <3>2. UNCHANGED <<bucket, rows, resp, bounds>>
      BY <1>0, <2>4
    <3> HIDE DEF d
    <3> QED BY <1>1, <1>2, <2>4, <3>1, <3>2, ExploreKeeps DEF d
  <2>5. CASE End(p)
    BY <1>7, <2>5
  <2> QED BY <1>6, <2>3, <2>4, <2>5
<1> QED BY <1>6, <1>7, <1>8

\* What a message about rows tells the initiator.
LEMMA Received ==
  ASSUME SyncInv, NEW p \in Peer, init[p].state = "DB_OBJECT_PUSH", msg[p].to = "initiator"
  PROVE  /\ msg[p].type = "PUSH_MESSAGE" =>
              /\ Opening(bucket, p, init[p], resp[p]) /\ msg[p] # Abort
              /\ msg[p].key \in KeysAt(bucket.depth[p], init[p].queue[1]) /\ msg[p].key \in Key
              /\ msg[p].val \in SUBSET Version
         /\ msg[p].type = "PUSH_DONE" =>
              /\ Opening(bucket, p, init[p], resp[p]) /\ msg[p] # Abort
              /\ resp[p].iter = <<>> \/ readErrors > 0
<1>1. Pushing(bucket, p, init[p], resp[p], msg[p], readErrors)
  BY During
<1>2. Abort.type = "ABORT" /\ PushDone.type = "PUSH_DONE"
  BY DEF Abort, PushDone
<1>3. \A k, v : Push(k, v).type = "PUSH_MESSAGE" /\ Push(k, v).key = k /\ Push(k, v).val = v
  BY DEF Push
<1>4. \A n : ObjectNext(n).to # "initiator"
  BY DEF ObjectNext
<1>5. CASE msg[p].type = "PUSH_MESSAGE"
  <2>1. msg[p] # Abort /\ msg[p] # PushDone
    BY <1>2, <1>5
  <2>2. Opening(bucket, p, init[p], resp[p])
    BY <1>1, <1>4, <2>1 DEF Pushing
  <2>3. PICK k \in KeysAt(bucket.depth[p], init[p].queue[1]), v \in SUBSET Version : msg[p] = Push(k, v)
    BY <1>1, <1>4, <2>1 DEF Pushing
  <2>4. k \in Key
    BY DEF KeysAt
  <2>5. msg[p].key = k /\ msg[p].val = v
    BY <1>3, <2>3
  <2>6. msg[p].type # "PUSH_DONE"
    BY <1>5
  <2> QED BY <2>1, <2>2, <2>4, <2>5, <2>6
<1>6. CASE msg[p].type = "PUSH_DONE"
  <2>1. msg[p] # Abort /\ \A k, v : msg[p] # Push(k, v)
    BY <1>2, <1>3, <1>6
  <2> QED BY <1>1, <1>4, <1>6, <2>1 DEF Pushing
<1> QED BY <1>5, <1>6

LEMMA MergeObjectKeeps ==
  ASSUME SyncInv, bucket' = bucket, NEW p \in Peer, MergeObject(p)
  PROVE  SyncInv'
<1> DEFINE d == bucket.depth[p]
           q == init[p].queue
           key == msg[p].key
           K == init[p].keys \ {key}
<1>0. /\ init[p].state = "DB_OBJECT_PUSH" /\ msg[p].to = "initiator" /\ msg[p].type = "PUSH_MESSAGE"
      /\ rows' = [rows EXCEPT ![p][key] = rows[p][key] \cup msg[p].val]
      /\ Fetch(p, q, K) /\ UNCHANGED <<resp, bounds>>
  BY DEF MergeObject, Receives
<1>1. /\ p \in Initiators /\ bucket \in Buckets /\ init[p] \in InitiatorType /\ SyncTypes
      /\ Fetching(bucket, p, init[p]) /\ Iterating(bucket, p, resp[p])
  BY <1>0, During
<1>2. /\ Opening(bucket, p, init[p], resp[p]) /\ msg[p] # Abort
      /\ key \in Key /\ msg[p].val \in SUBSET Version
  BY <1>0, Received
<1>3. Other(p) \in Peer /\ Other(p) # p
  BY Sides
<1>4. p \notin bucket.writers => Copied(p) /\ Arriving(bucket, p, init[p], resp[p], msg[p], rows[Other(p)], readErrors)
  BY DEF SyncInv, Copies
<1>5. RowsKept(p)
  <2>1. rows \in [Peer -> [Key -> SUBSET Version]]
    BY <1>1 DEF SyncTypes
  <2>2. rows' \in [Peer -> [Key -> SUBSET Version]]
    BY <1>0, <1>2, <2>1
  <2>3. rows'[Other(p)] = rows[Other(p)]
    BY <1>0, <1>3, <2>1
  <2> QED BY <2>2, <2>3 DEF RowsKept
<1>6. /\ Ordered(d, q, Most(bucket)) /\ Level(d, q[1]) = Most(bucket)
      /\ K \in SUBSET Key /\ K \subseteq KeysAt(d, q[1])
  BY <1>1 DEF Fetching, InitiatorType
<1>7. p \in bucket.writers => K = {}
  BY <1>1 DEF Fetching
<1>8. p \notin bucket.writers => \A k \in K :
        resp[p].state = "DB_OBJECT_PUSH" /\ resp[p].node = There(bucket, p, q[1]) /\ readErrors = 0
          => (Earlier(rows[Other(p)][k], resp[p].since) => k \in ToSet(resp[p].iter))
  <2> SUFFICES ASSUME p \notin bucket.writers, NEW k \in K, readErrors = 0, Earlier(rows[Other(p)][k], resp[p].since)
               PROVE  k \in ToSet(resp[p].iter)
    OBVIOUS
  <2>1. k \in init[p].keys /\ k # msg[p].key
    OBVIOUS
  <2> QED BY <1>0, <1>2, <1>4, <2>1 DEF Arriving
<1> HIDE DEF K, q
<1> QED BY <1>0, <1>1, <1>5, <1>6, <1>7, <1>8, FetchKeeps

LEMMA FinishNodeKeeps ==
  ASSUME SyncInv, bucket' = bucket, NEW p \in Peer, FinishNode(p)
  PROVE  SyncInv'
<1> DEFINE d == bucket.depth[p]
           q == init[p].queue
           r == Tail(q)
<1>0. /\ init[p].state = "DB_OBJECT_PUSH" /\ msg[p].to = "initiator" /\ msg[p].type = "PUSH_DONE"
      /\ rows' = [rows EXCEPT ![p] = [k \in Key |-> IF k \in init[p].keys THEN {} ELSE rows[p][k]]]
      /\ UNCHANGED bounds
  BY DEF FinishNode, Receives
<1>1. /\ p \in Initiators /\ bucket \in Buckets /\ init[p] \in InitiatorType /\ SyncTypes
      /\ Fetching(bucket, p, init[p]) /\ Iterating(bucket, p, resp[p])
  BY <1>0, During
<1>2. Opening(bucket, p, init[p], resp[p])
  BY <1>0, Received
<1>3. Other(p) \in Peer /\ Other(p) # p
  BY Sides
<1>4. RowsKept(p)
  <2>1. rows \in [Peer -> [Key -> SUBSET Version]]
    BY <1>1 DEF SyncTypes
  <2>2. rows' \in [Peer -> [Key -> SUBSET Version]]
    BY <1>0, <2>1
  <2>3. rows'[Other(p)] = rows[Other(p)]
    BY <1>0, <1>3, <2>1
  <2> QED BY <2>2, <2>3 DEF RowsKept
<1>5. \/ r = <<>> /\ End(p)
      \/ r # <<>> /\ Fetch(p, r, NodeKeys(p, Head(r))) /\ UNCHANGED resp
  BY Zenon DEF FinishNode
<1>6. CASE End(p)
  <2>1. UNCHANGED <<bucket, sent, nextId, readErrors>>
    BY <1>0 DEF bounds
  <2> QED BY <1>1, <1>4, <1>6, <2>1, EndKeeps
<1>7. CASE r # <<>> /\ Fetch(p, r, NodeKeys(p, Head(r))) /\ UNCHANGED resp
  <2>1. d \in 1..HashBits /\ Most(bucket) \in 1..d
    BY <1>1, TreesOfBoth
  <2>2. Ordered(d, q, Most(bucket)) /\ Level(d, q[1]) = Most(bucket)
    BY <1>1 DEF Fetching
  <2>3. Ordered(d, r, Most(bucket)) /\ Level(d, r[1]) = Most(bucket) /\ r[1] # q[1] /\ r[1] \in Nodes(d)
    <3> DEFINE most == Most(bucket)
    <3> HIDE DEF d, q, most
    <3>1. d \in 1..HashBits /\ most \in 1..d /\ Ordered(d, q, most) /\ Level(d, q[1]) = most /\ Tail(q) # <<>>
      BY <1>7, <2>1, <2>2 DEF most
    <3> QED BY <3>1, FrontDone DEF most
  <2>4. q[1] \in Nodes(d)
    BY <2>1, <2>2, QueueNat
  <2>5. There(bucket, p, r[1]) # There(bucket, p, q[1])
    <3>1. Level(d, q[1]) <= Most(bucket) /\ Level(d, r[1]) = Level(d, q[1])
      <4> DEFINE most == Most(bucket)
      <4> HIDE DEF d, q, r, most
      <4>1. Level(d, q[1]) = most /\ Level(d, r[1]) = most /\ most \in 1..d
        BY <2>1, <2>2, <2>3 DEF most
      <4>2. most <= most
        BY <4>1
      <4> QED BY <4>1, <4>2 DEF most
    <3>2. \A a \in Nodes(d) : Level(d, a) = Level(d, q[1]) /\ There(bucket, p, a) = There(bucket, p, q[1]) => a = q[1]
      BY <1>1, <2>4, <3>1, KeysThere
    <3> QED BY <2>3, <3>1, <3>2
  <2>6. ~(resp[p].state = "DB_OBJECT_PUSH" /\ resp[p].node = There(bucket, p, r[1]))
    BY <1>2, <2>5 DEF Opening
  <2>7. UNCHANGED <<bucket, resp, bounds>>
    BY <1>0, <1>7
  <2> HIDE DEF r
  <2> QED BY <1>1, <1>4, <1>7, <2>3, <2>6, <2>7, NextNodeKeeps
<1> QED BY <1>5, <1>6, <1>7

LEMMA AbortedKeeps ==
  ASSUME SyncInv, bucket' = bucket, NEW p \in Peer, Aborted(p)
  PROVE  SyncInv'
<1>1. End(p) /\ UNCHANGED <<bucket, rows, bounds>> /\ msg[p].to = "initiator"
  BY DEF Aborted
<1>2. p \in Initiators
  BY <1>1, During
<1>3. UNCHANGED <<bucket, sent, nextId, readErrors>> /\ RowsKept(p)
  BY <1>1, SameRows DEF bounds
<1> QED BY <1>1, <1>2, <1>3, EndKeeps

LEMMA TimeoutKeeps ==
  ASSUME SyncInv, bucket' = bucket, NEW p \in Peer, Timeout(p)
  PROVE  SyncInv'
<1>1. End(p) /\ UNCHANGED <<bucket, rows, sent, nextId, readErrors>> /\ init[p].state # "END"
  BY DEF Timeout
<1>2. p \in Initiators /\ RowsKept(p)
  BY <1>1, During, SameRows
<1> QED BY <1>1, <1>2, EndKeeps

-----------------------------------------------------------------------------
(* Steps of the responder *)

\* An answer that leaves the rows alone.
LEMMA AnswerKeeps ==
  ASSUME SyncInv, NEW p \in Initiators, NEW r \in ResponderType, NEW m, Answer(p, r, m),
         UNCHANGED <<bucket, sent, nextId>>, readErrors' \in Nat, readErrors <= readErrors',
         Active(bucket, p, init[p], r, m, readErrors'),
         p \notin bucket.writers => r.since <= nextId /\ Arriving(bucket, p, init[p], r, m, rows[Other(p)], readErrors')
  PROVE  SyncInv'
<1>0. p \in Peer /\ init \in [Peer -> InitiatorType]
  BY DEF SyncInv, SyncTypes, Initiators
<1> DEFINE i == init[p]
<1>1. i \in InitiatorType /\ Moved(p, i, r, m)
  BY <1>0 DEF Moved, Answer
<1>2. RowsKept(p)
  BY SameRows DEF Answer
<1> HIDE DEF i
<1>4. Active(bucket, p, i, r, m, readErrors')
  BY DEF i
<1>5. p \notin bucket.writers => r.since <= nextId /\ Arriving(bucket, p, i, r, m, rows[Other(p)], readErrors')
  BY DEF i
<1> QED BY <1>1, <1>2, <1>4, <1>5, SessionStep DEF RowsKept

LEMMA RespondStartKeeps ==
  ASSUME SyncInv, bucket' = bucket, NEW p \in Peer, RespondStart(p)
  PROVE  SyncInv'
<1> DEFINE m == Start("initiator")
<1>1. msg[p].to = "responder" /\ msg[p].type = "START" /\ Answer(p, Awaiting, m) /\ UNCHANGED bounds
  BY Zenon DEF RespondStart, IsAsked, Awaiting
<1>2. p \in Initiators /\ Greeting(init[p], resp[p], msg[p]) /\ readErrors \in Nat
  BY <1>1, Asked, During
<1>3. Greeting(init[p], Awaiting, m)
  BY <1>2 DEF Greeting
<1>4. UNCHANGED <<bucket, sent, nextId>> /\ readErrors' = readErrors /\ readErrors <= readErrors
  BY <1>1, <1>2 DEF bounds
<1>5. m.type = "START" /\ init[p].state = "HANDSHAKE"
  <2>1. init[p] = [Idle EXCEPT !.state = "HANDSHAKE"]
    BY <1>2 DEF Greeting
  <2> QED BY <2>1 DEF Start, Idle
<1> DEFINE r == Awaiting
<1> HIDE DEF m, r
<1>6. Active(bucket, p, init[p], r, m, readErrors') /\ Arriving(bucket, p, init[p], r, m, rows[Other(p)], readErrors')
  BY <1>3, <1>5 DEF Active, Arriving, r
<1>7. r \in ResponderType /\ r.since <= nextId
  BY Records, <1>2, Since DEF r, Initiators
<1>8. Answer(p, r, m) /\ readErrors' \in Nat /\ readErrors <= readErrors'
  BY <1>1, <1>2, <1>4 DEF r
<1> QED BY <1>2, <1>4, <1>5, <1>6, <1>7, <1>8, AnswerKeeps

LEMMA RespondHashKeeps ==
  ASSUME SyncInv, bucket' = bucket, NEW p \in Peer, RespondHash(p)
  PROVE  SyncInv'
<1> DEFINE m == IF msg[p].node \in Nodes(bucket.depth[Other(p)])
                THEN TellHash(NodeHash(Other(p), msg[p].node)) ELSE Abort
           r == resp[p]
<1>1. msg[p].to = "responder" /\ msg[p].type = "NODE_HASH" /\ Answer(p, r, m) /\ UNCHANGED bounds
  BY DEF RespondHash, IsAsked
<1>2. p \in Initiators /\ Comparing(bucket, p, init[p]) /\ Hashing(r, m)
  <2>1. m = Abort \/ \E h : m = TellHash(h)
    BY Zenon
  <2>2. m.to = "initiator" /\ m.type \in {"NODE_HASH", "ABORT"}
    <3> HIDE DEF m
    <3>1. Abort.to = "initiator" /\ Abort.type = "ABORT"
      BY DEF Abort
    <3>2. \A h : TellHash(h).to = "initiator" /\ TellHash(h).type = "NODE_HASH"
      BY DEF TellHash
    <3> QED BY <2>1, <3>1, <3>2
  <2>3. p \in Initiators /\ Comparing(bucket, p, init[p]) /\ Hashing(resp[p], msg[p])
    BY <1>1, Asked
  <2> QED BY <2>2, <2>3 DEF Hashing
<1> HIDE DEF m
<1>3. r \in ResponderType /\ readErrors \in Nat /\ (p \notin bucket.writers => r.since <= nextId)
  BY During, Since
<1> HIDE DEF r
<1>4. UNCHANGED <<bucket, sent, nextId>> /\ readErrors' = readErrors /\ readErrors <= readErrors
  BY <1>1, <1>3 DEF bounds
<1>5. init[p].state # "DB_OBJECT_PUSH"
  BY <1>2 DEF Comparing
<1>6. Active(bucket, p, init[p], r, m, readErrors') /\ Arriving(bucket, p, init[p], r, m, rows[Other(p)], readErrors')
  BY <1>2, <1>5 DEF Active, Arriving
<1>7. readErrors' \in Nat /\ readErrors <= readErrors'
  BY <1>3, <1>4
<1> QED BY <1>1, <1>2, <1>3, <1>4, <1>5, <1>6, <1>7, AnswerKeeps

\* The responder has opened the node it is asked for and moves on.
LEMMA NextRowKeeps ==
  ASSUME SyncInv, bucket' = bucket, NEW p \in Initiators, NEW r \in ResponderType, NextRow(p, r),
         Fetching(bucket, p, init[p]),
         r.state = "DB_OBJECT_PUSH", r.node = There(bucket, p, init[p].queue[1]),
         ToSet(r.iter) \subseteq KeysAt(bucket.depth[Other(p)], r.node),
         p \notin bucket.writers => r.since <= nextId,
         p \notin bucket.writers /\ readErrors = 0 =>
           \A k \in init[p].keys : Earlier(rows[Other(p)][k], r.since) => k \in ToSet(r.iter)
  PROVE  SyncInv'
<1> DEFINE n == init[p].queue[1]
           d == bucket.depth[p]
           there == rows[Other(p)]
<1>0. /\ p \in Peer /\ bucket \in Buckets /\ readErrors \in Nat
      /\ rows \in [Peer -> [Key -> SUBSET Version]] /\ Other(p) \in Peer
  BY Sides DEF SyncInv, SyncTypes, Initiators
<1>1. Level(d, n) = Most(bucket) /\ n \in Nodes(d) /\ d \in 1..HashBits /\ Most(bucket) \in 1..d
  BY <1>0, TreesOfBoth, QueueNat DEF Fetching
<1>2. r.node \in Nodes(bucket.depth[Other(p)]) /\ KeysAt(bucket.depth[Other(p)], r.node) = KeysAt(d, n)
  <2>1. Level(d, n) <= Most(bucket)
    <3> HIDE DEF d, n
    <3> QED BY <1>1
  <2> QED BY <1>0, <1>1, <2>1, KeysThere
<1>3. Opening(bucket, p, init[p], r) /\ Iterating(bucket, p, r)
  BY <1>2 DEF Opening, Iterating
<1>4. PushDone.type = "PUSH_DONE" /\ Abort.type = "ABORT"
      /\ \A k, v : Push(k, v).type = "PUSH_MESSAGE" /\ Push(k, v).key = k /\ Push(k, v).to = "initiator"
  BY DEF PushDone, Abort, Push
<1>5. CASE r.iter = <<>> /\ Answer(p, r, PushDone) /\ UNCHANGED bounds
  <2>1. UNCHANGED <<bucket, sent, nextId>> /\ readErrors' = readErrors /\ readErrors' \in Nat /\ readErrors <= readErrors'
    BY <1>0, <1>5 DEF bounds
  <2> DEFINE m == PushDone
  <2>2. Pushing(bucket, p, init[p], r, m, readErrors')
    BY <1>3, <1>5 DEF Pushing
  <2>3. Active(bucket, p, init[p], r, m, readErrors')
    BY <1>3, <2>2 DEF Active
  <2>4. p \notin bucket.writers => Arriving(bucket, p, init[p], r, m, there, readErrors')
    BY <2>1 DEF Arriving
  <2> HIDE DEF m
  <2> QED BY <1>5, <2>1, <2>3, <2>4, AnswerKeeps DEF m
<1>6. CASE /\ r.iter # <<>>
           /\ Answer(p, [r EXCEPT !.iter = Tail(@), !.open = TRUE],
                     IF there[Head(r.iter)] = {} THEN Abort ELSE Push(Head(r.iter), there[Head(r.iter)]))
           /\ UNCHANGED bounds
  <2> DEFINE k0 == Head(r.iter)
             v == there[k0]
             s == [r EXCEPT !.iter = Tail(r.iter), !.open = TRUE]
             m == IF v = {} THEN Abort ELSE Push(k0, v)
  <2>1. UNCHANGED <<bucket, sent, nextId>> /\ readErrors' = readErrors /\ readErrors' \in Nat /\ readErrors <= readErrors'
    BY <1>0, <1>6 DEF bounds
  <2>2. r.iter \in Seq(Key) /\ r.iter # <<>>
    BY <1>6 DEF ResponderType
  <2>3. /\ k0 \in Key /\ Tail(r.iter) \in Seq(Key)
        /\ ToSet(Tail(r.iter)) \subseteq ToSet(r.iter) /\ \A k \in ToSet(r.iter) : k = k0 \/ k \in ToSet(Tail(r.iter))
        /\ k0 \in ToSet(r.iter)
    <3> DEFINE q == r.iter
    <3> HIDE DEF q
    <3>0. q \in Seq(Key) /\ q # <<>>
      BY <2>2 DEF q
    <3>1. /\ Tail(q) \in Seq(Key) /\ Len(Tail(q)) = Len(q) - 1 /\ Len(q) \in Nat /\ 1 \in 1..Len(q) /\ Head(q) = q[1]
          /\ \A j \in 1..(Len(q) - 1) : Tail(q)[j] = q[j + 1] /\ j + 1 \in 1..Len(q)
          /\ DOMAIN q = 1..Len(q) /\ DOMAIN Tail(q) = 1..(Len(q) - 1) /\ q[1] \in Key
      BY <3>0
    <3>2. ToSet(Tail(q)) \subseteq ToSet(q) /\ Head(q) \in ToSet(q)
      BY <3>1 DEF ToSet
    <3>3. \A k \in ToSet(q) : k = Head(q) \/ k \in ToSet(Tail(q))
      <4> SUFFICES ASSUME NEW j \in 1..Len(q), j # 1 PROVE q[j] \in ToSet(Tail(q))
        BY <3>1 DEF ToSet
      <4>1. j - 1 \in 1..(Len(q) - 1) /\ (j - 1) + 1 = j
        BY <3>1
      <4>2. q[j] = Tail(q)[j - 1]
        BY <3>1, <4>1
      <4> QED BY <3>1, <4>1, <4>2 DEF ToSet
    <3> QED BY <3>1, <3>2, <3>3 DEF q
  <2>4. v \in SUBSET Version
    BY <1>0, <2>3
  <2>5. s \in ResponderType /\ s.state = r.state /\ s.node = r.node /\ s.iter = Tail(r.iter) /\ s.since = r.since
    BY <2>3 DEF ResponderType
  <2>6. Answer(p, s, m)
    BY <1>6
  <2> HIDE DEF s, v, k0
  <2>7. Iterating(bucket, p, s) /\ Opening(bucket, p, init[p], s)
    BY <1>2, <1>3, <2>3, <2>5 DEF Iterating, Opening
  <2>8. m = Abort \/ (v # {} /\ m = Push(k0, v))
    OBVIOUS
  <2>9. k0 \in KeysAt(d, n)
    BY <1>2, <2>3
  <2> HIDE DEF m
  <2>10. Pushing(bucket, p, init[p], s, m, readErrors')
    BY <2>4, <2>7, <2>8, <2>9 DEF Pushing
  <2>11. Active(bucket, p, init[p], s, m, readErrors')
    BY <2>7, <2>10 DEF Active
  <2>12. v = {} => m = Abort
    BY DEF m
  <2>13. p \notin bucket.writers => Arriving(bucket, p, init[p], s, m, there, readErrors')
    BY <1>4, <2>1, <2>3, <2>5, <2>8, <2>12 DEF Arriving
  <2> QED BY <2>1, <2>5, <2>6, <2>11, <2>13, AnswerKeeps
<1>7. CASE /\ readErrors' = readErrors + 1 /\ Answer(p, r, PushDone)
           /\ UNCHANGED <<sent, nextId, purges, timeouts>>
  <2>1. UNCHANGED <<bucket, sent, nextId>> /\ readErrors' \in Nat /\ readErrors <= readErrors' /\ readErrors' > 0
    BY <1>0, <1>7
  <2> DEFINE m == PushDone
  <2>2. Pushing(bucket, p, init[p], r, m, readErrors')
    BY <1>3, <2>1 DEF Pushing
  <2>3. Active(bucket, p, init[p], r, m, readErrors')
    BY <1>3, <2>2 DEF Active
  <2>4. Arriving(bucket, p, init[p], r, m, there, readErrors')
    BY <1>0, <2>1 DEF Arriving
  <2> HIDE DEF m
  <2> QED BY <1>7, <2>1, <2>3, <2>4, AnswerKeeps DEF m
<1> QED BY <1>5, <1>6, <1>7 DEF NextRow

\* The rows of the node that is asked for are the rows below the front of the queue.
LEMMA OpenedIs ==
  ASSUME SyncInv, NEW p \in Peer, msg[p].to = "responder", msg[p].type = "OBJECT_NEXT"
  PROVE  LET r == Opened(p)
         IN  /\ r \in ResponderType /\ r.state = "DB_OBJECT_PUSH"
             /\ r.node = There(bucket, p, init[p].queue[1]) /\ r.since <= nextId
             /\ ToSet(r.iter) \subseteq KeysAt(bucket.depth[Other(p)], r.node)
             /\ \A k \in init[p].keys : Earlier(rows[Other(p)][k], r.since) => k \in ToSet(r.iter)
<1> DEFINE r == Opened(p)
           n == init[p].queue[1]
           d == bucket.depth[p]
           e == bucket.depth[Other(p)]
           there == There(bucket, p, n)
<1>0. bucket \in Buckets /\ resp[p] \in ResponderType
  BY During
<1>1. Fetching(bucket, p, init[p]) /\ msg[p].node = there
  <2>1. Fetching(bucket, p, init[p]) /\ msg[p] = ObjectNext(there)
    BY Asked
  <2>2. ObjectNext(there).node = there
    BY DEF ObjectNext
  <2> QED BY <2>1, <2>2
<1>2. Level(d, n) = Most(bucket) /\ n \in Nodes(d) /\ d \in 1..HashBits /\ Most(bucket) \in 1..d
  BY <1>0, <1>1, TreesOfBoth, QueueNat DEF Fetching
<1>3. there \in Nodes(e) /\ KeysAt(e, there) = KeysAt(d, n) /\ e \in 1..HashBits
  <2>1. Level(d, n) <= Most(bucket)
    <3> HIDE DEF d, n
    <3> QED BY <1>2
  <2> QED BY <1>0, <1>2, <2>1, KeysThere, TreesOfBoth
<1>4. there \in Nat
  <2> HIDE DEF there, e
  <2> QED BY <1>3, Levels
<1> DEFINE c == GetSyncChildren(Other(p), msg[p].node)
<1>5. c \in Seq(Key) /\ ToSet(c) = {k \in KeysAt(e, there) : rows[Other(p)][k] # {}}
  BY <1>1, ChildKeys
<1> HIDE DEF c
<1>6. r = [state |-> "DB_OBJECT_PUSH", node |-> msg[p].node, open |-> resp[p].open, iter |-> c, since |-> nextId]
  BY Zenon DEF Opened, c
<1> HIDE DEF r, there
<1>7. r \in ResponderType /\ r.state = "DB_OBJECT_PUSH" /\ r.node = there /\ r.iter = c /\ r.since <= nextId
  <2>1. nextId \in Nat
    BY Since
  <2> QED BY <1>0, <1>1, <1>4, <1>5, <1>6, <2>1 DEF ResponderType
<1>8. ToSet(c) \subseteq KeysAt(e, there)
  BY <1>5
<1>9. \A k \in init[p].keys : Earlier(rows[Other(p)][k], r.since) => k \in ToSet(c)
  BY <1>1, <1>3, <1>5 DEF Fetching, Earlier
<1> QED BY <1>7, <1>8, <1>9 DEF r, there

LEMMA RespondFirstKeeps ==
  ASSUME SyncInv, bucket' = bucket, NEW p \in Peer, RespondFirst(p)
  PROVE  SyncInv'
<1>1. msg[p].to = "responder" /\ msg[p].type = "OBJECT_NEXT" /\ NextRow(p, Opened(p))
  BY DEF RespondFirst, IsAsked
<1>2. p \in Initiators /\ Fetching(bucket, p, init[p])
  BY <1>1, Asked
<1> DEFINE r == Opened(p)
<1>3. /\ r \in ResponderType /\ r.state = "DB_OBJECT_PUSH"
      /\ r.node = There(bucket, p, init[p].queue[1]) /\ r.since <= nextId
      /\ ToSet(r.iter) \subseteq KeysAt(bucket.depth[Other(p)], r.node)
      /\ \A k \in init[p].keys : Earlier(rows[Other(p)][k], r.since) => k \in ToSet(r.iter)
  BY <1>1, OpenedIs
<1>4. NextRow(p, r)
  BY <1>1
<1> HIDE DEF r
<1> QED BY <1>2, <1>3, <1>4, NextRowKeeps

LEMMA RespondNextKeeps ==
  ASSUME SyncInv, bucket' = bucket, NEW p \in Peer, RespondNext(p)
  PROVE  SyncInv'
<1> DEFINE n == init[p].queue[1]
<1>1. /\ msg[p].to = "responder" /\ msg[p].type = "OBJECT_NEXT" /\ resp[p].state = "DB_OBJECT_PUSH"
      /\ \/ Answer(p, resp[p], Abort) /\ UNCHANGED bounds
         \/ msg[p].node # resp[p].node /\ NextRow(p, Opened(p))
         \/ msg[p].node = resp[p].node /\ NextRow(p, resp[p])
  BY Zenon DEF RespondNext, IsAsked
<1>2. /\ p \in Initiators /\ Fetching(bucket, p, init[p]) /\ Iterating(bucket, p, resp[p])
      /\ msg[p] = ObjectNext(There(bucket, p, n))
  BY <1>1, Asked
<1>3. readErrors \in Nat /\ resp[p] \in ResponderType /\ (p \notin bucket.writers => resp[p].since <= nextId)
  BY During, Since
<1>4. msg[p].node = There(bucket, p, n) /\ msg[p] # Abort
  <2>1. \A x : ObjectNext(x).node = x /\ ObjectNext(x).to = "responder"
    BY DEF ObjectNext
  <2>2. Abort.to # "responder"
    BY DEF Abort
  <2> QED BY <1>2, <2>1, <2>2
<1> DEFINE s == resp[p]
<1>5. CASE Answer(p, s, Abort) /\ UNCHANGED bounds
  <2>1. UNCHANGED <<bucket, sent, nextId>> /\ readErrors' \in Nat /\ readErrors <= readErrors'
    BY <1>3, <1>5 DEF bounds
  <2> DEFINE m == Abort
  <2>3. Pushing(bucket, p, init[p], s, m, readErrors') /\ Arriving(bucket, p, init[p], s, m, rows[Other(p)], readErrors')
    BY DEF Pushing, Arriving
  <2>4. Active(bucket, p, init[p], s, m, readErrors')
    BY <1>2, <2>3 DEF Active
  <2> HIDE DEF m, s
  <2>5. s \in ResponderType /\ Answer(p, s, m) /\ (p \notin bucket.writers => s.since <= nextId)
    BY <1>3, <1>5 DEF s, m
  <2> QED BY <1>2, <2>1, <2>3, <2>4, <2>5, AnswerKeeps
<1>6. CASE NextRow(p, Opened(p))
  <2> DEFINE r == Opened(p)
  <2>1. /\ r \in ResponderType /\ r.state = "DB_OBJECT_PUSH"
        /\ r.node = There(bucket, p, init[p].queue[1]) /\ r.since <= nextId
        /\ ToSet(r.iter) \subseteq KeysAt(bucket.depth[Other(p)], r.node)
        /\ \A k \in init[p].keys : Earlier(rows[Other(p)][k], r.since) => k \in ToSet(r.iter)
    BY <1>1, OpenedIs
  <2>2. NextRow(p, r)
    BY <1>6
  <2> HIDE DEF r
  <2> QED BY <1>2, <2>1, <2>2, NextRowKeeps
<1>7. CASE msg[p].node = s.node /\ NextRow(p, s)
  <2>1. s.node = There(bucket, p, n) /\ s.state = "DB_OBJECT_PUSH"
    BY <1>1, <1>4, <1>7
  <2>2. ToSet(s.iter) \subseteq KeysAt(bucket.depth[Other(p)], s.node)
    BY <1>2, <2>1, Records DEF Iterating
  <2>3. p \notin bucket.writers /\ readErrors = 0 =>
          \A k \in init[p].keys : Earlier(rows[Other(p)][k], s.since) => k \in ToSet(s.iter)
    <3> SUFFICES ASSUME p \notin bucket.writers, readErrors = 0, NEW k \in init[p].keys,
                        Earlier(rows[Other(p)][k], s.since)
                 PROVE  k \in ToSet(s.iter)
      OBVIOUS
    <3>1. Arriving(bucket, p, init[p], s, msg[p], rows[Other(p)], readErrors)
      BY DEF SyncInv, Copies
    <3>2. init[p].state = "DB_OBJECT_PUSH" /\ Opening(bucket, p, init[p], s)
      BY <1>2, <2>1 DEF Fetching, Opening
    <3>3. msg[p].to # "initiator"
      BY <1>1
    <3> QED BY <1>4, <3>1, <3>2, <3>3 DEF Arriving
  <2> HIDE DEF s
  <2>4. s \in ResponderType /\ (p \notin bucket.writers => s.since <= nextId)
    BY <1>3 DEF s
  <2> QED BY <1>2, <1>7, <2>1, <2>2, <2>3, <2>4, NextRowKeeps
<1> QED BY <1>1, <1>5, <1>6, <1>7
-----------------------------------------------------------------------------
(* Steps outside sessions *)

LEMMA WorldStep ==
  ASSUME SyncInv, UNCHANGED <<bucket, init, resp, msg, readErrors>>, SyncTypes',
         \A c \in Peer : c \notin bucket.writers =>
           Copied(c)' /\ Arriving(bucket, c, init[c], resp[c], msg[c], rows'[Other(c)], readErrors)
  PROVE  SyncInv'
<1>1. Sessions
  BY DEF SyncInv
<1>2. Initiators' = Initiators
  BY DEF Initiators, ReplicatesOutgoing
<1>3. /\ bucket' = bucket /\ init' = init /\ resp' = resp /\ msg' = msg /\ readErrors' = readErrors
  OBVIOUS
<1>4. Sessions'
  BY <1>1, <1>2, <1>3, Zenon DEF Sessions
<1>5. Copies'
  BY <1>3, Zenon DEF Copies
<1> QED BY <1>4, <1>5 DEF SyncInv

\* What a step outside sessions may do to the other side of a peer that only takes
\* in: a version is new there only if it has a new number.
LEMMA CopyKeeps ==
  ASSUME SyncInv, UNCHANGED <<bucket, init, resp, msg, readErrors>>, nextId <= nextId', nextId' \in Nat,
         NEW c \in Peer, c \notin bucket.writers,
         \A k \in Key : \A v \in rows'[Other(c)][k] : v \in rows[Other(c)][k] \/ v.id = nextId,
         \A m \in sent' : m \in sent \/ m.to = c
  PROVE  Copied(c)' /\ Arriving(bucket, c, init[c], resp[c], msg[c], rows'[Other(c)], readErrors)
<1>0. Copied(c) /\ Arriving(bucket, c, init[c], resp[c], msg[c], rows[Other(c)], readErrors)
  BY DEF SyncInv, Copies
<1>1. nextId \in Nat /\ resp[c].since \in Nat /\ resp[c].since <= nextId /\ init[c].keys \subseteq Key
  BY <1>0, Since DEF Copied, SyncInv, SyncTypes, InitiatorType, ResponderType
<1>2. Copied(c)'
  BY <1>0, <1>1 DEF Copied
<1>3. ASSUME NEW k \in Key, Earlier(rows'[Other(c)][k], resp[c].since)
      PROVE  Earlier(rows[Other(c)][k], resp[c].since)
  <2>1. PICK v \in rows'[Other(c)][k] : v.id < resp[c].since
    BY <1>3 DEF Earlier
  <2>2. v.id # nextId
    BY <1>1, <2>1
  <2> QED BY <2>1, <2>2 DEF Earlier
<1>4. Arriving(bucket, c, init[c], resp[c], msg[c], rows'[Other(c)], readErrors)
  BY <1>0, <1>1, <1>3 DEF Arriving
<1> QED BY <1>2, <1>4

LEMMA WriteKeeps ==
  ASSUME SyncInv, bucket' = bucket, NEW p \in Peer, NEW k \in Key, Write(p, k)
  PROVE  SyncInv'
<1>0. PICK del \in BOOLEAN :
        rows' = [rows EXCEPT ![p][k] = rows[p][k] \cup
                  {[id |-> nextId, del |-> del, covers |-> {v.id : v \in rows[p][k]}]}]
  BY DEF Write
<1> DEFINE new == [id |-> nextId, del |-> del, covers |-> {v.id : v \in rows[p][k]}]
           row == rows[p][k] \cup {new}
           m0 == [to |-> Other(p), key |-> k, val |-> rows'[p][k]]
<1>1. /\ p \in bucket.writers /\ nextId <= MaxWrites
      /\ rows' = [rows EXCEPT ![p][k] = row] /\ sent' = sent \cup {m0} /\ nextId' = nextId + 1
      /\ UNCHANGED <<init, resp, msg, purges, timeouts, readErrors>>
  BY <1>0 DEF Write
<1>2. SyncTypes /\ MaxWrites \in Nat /\ Other(p) \in Peer
  BY SyncAssumption, Sides DEF SyncInv
<1>3. nextId \in 1..MaxWrites /\ nextId' \in 1..(MaxWrites + 1) /\ nextId \in 0..MaxWrites /\ nextId \in Nat
  BY <1>1, <1>2 DEF SyncTypes
<1>4. rows \in [Peer -> [Key -> SUBSET Version]]
  BY <1>2 DEF SyncTypes
<1>5. new \in Version /\ new.id = nextId
  <2>1. {v.id : v \in rows[p][k]} \in SUBSET (0..MaxWrites)
    <3>1. \A v \in rows[p][k] : v \in Version
      BY <1>4
    <3>2. \A v \in Version : v.id \in 0..MaxWrites
      BY DEF Version
    <3> QED BY <3>1, <3>2
  <2> QED BY <1>3, <2>1 DEF Version
<1> HIDE DEF new
<1>6. row \in SUBSET Version
  BY <1>4, <1>5
<1>7. /\ rows' \in [Peer -> [Key -> SUBSET Version]]
      /\ \A q \in Peer, j \in Key : rows'[q][j] = IF q = p /\ j = k THEN row ELSE rows[q][j]
  <2> HIDE DEF row
  <2> QED BY <1>1, <1>4, <1>6
<1>8. m0 \in [to : Peer, key : Key, val : SUBSET Version] /\ m0.to = Other(p)
  BY <1>2, <1>7
<1> HIDE DEF m0
<1>9. SyncTypes'
  BY <1>1, <1>2, <1>3, <1>7, <1>8 DEF SyncTypes
<1>10. UNCHANGED <<bucket, init, resp, msg, readErrors>>
  BY <1>1
<1>11. ASSUME NEW c \in Peer, c \notin bucket.writers
       PROVE  Copied(c)' /\ Arriving(bucket, c, init[c], resp[c], msg[c], rows'[Other(c)], readErrors)
  <2>1. Other(c) = p /\ Other(p) = c
    BY <1>1, <1>11, Sides
  <2>2. \A j \in Key : \A v \in rows'[Other(c)][j] : v \in rows[Other(c)][j] \/ v.id = nextId
    BY <1>5, <1>7, <2>1
  <2>3. \A m \in sent' : m \in sent \/ m.to = c
    BY <1>1, <1>8, <2>1
  <2>4. nextId' \in Nat /\ nextId <= nextId'
    BY <1>1, <1>3
  <2> QED BY <1>10, <1>11, <2>2, <2>3, <2>4, CopyKeeps
<1> QED BY <1>9, <1>10, <1>11, WorldStep

LEMMA DeliverKeeps ==
  ASSUME SyncInv, bucket' = bucket, NEW m \in sent, Deliver(m)
  PROVE  SyncInv'
<1>0. /\ rows' = [rows EXCEPT ![m.to][m.key] = rows[m.to][m.key] \cup m.val] /\ sent' = sent \ {m}
      /\ UNCHANGED <<init, resp, msg, nextId, purges, timeouts, readErrors>>
  BY DEF Deliver
<1>1. SyncTypes /\ m.to \in Peer /\ m.key \in Key /\ m.val \in SUBSET Version
  BY DEF SyncInv, SyncTypes
<1>3. rows \in [Peer -> [Key -> SUBSET Version]]
  BY <1>1 DEF SyncTypes
<1>4. /\ rows' \in [Peer -> [Key -> SUBSET Version]]
      /\ \A q \in Peer, j \in Key :
           rows'[q][j] = IF q = m.to /\ j = m.key THEN rows[q][j] \cup m.val ELSE rows[q][j]
  <2> DEFINE a == m.to
             b == m.key
             v == m.val
  <2>1. a \in Peer /\ b \in Key /\ v \in SUBSET Version /\ rows' = [rows EXCEPT ![a][b] = rows[a][b] \cup v]
    BY <1>0, <1>1
  <2> HIDE DEF a, b, v
  <2>2. /\ rows' \in [Peer -> [Key -> SUBSET Version]]
        /\ \A q \in Peer, j \in Key :
             rows'[q][j] = IF q = a /\ j = b THEN rows[q][j] \cup v ELSE rows[q][j]
    BY <1>3, <2>1
  <2> QED BY <2>2 DEF a, b, v
<1>6. SyncTypes'
  BY <1>0, <1>1, <1>4 DEF SyncTypes
<1>7. UNCHANGED <<bucket, init, resp, msg, readErrors>>
  BY <1>0
<1>8. ASSUME NEW c \in Peer, c \notin bucket.writers
      PROVE  Copied(c)' /\ Arriving(bucket, c, init[c], resp[c], msg[c], rows'[Other(c)], readErrors)
  <2>1. Other(c) \in Peer /\ Other(c) # c
    BY Sides
  <2>2. m.to = c
    BY <1>8 DEF SyncInv, Copies, Copied
  <2>3. \A j \in Key : rows'[Other(c)][j] = rows[Other(c)][j]
    BY <1>4, <2>1, <2>2
  <2>4. nextId' \in Nat /\ nextId <= nextId'
    BY <1>0, <1>8, Since
  <2> QED BY <1>0, <1>7, <1>8, <2>3, <2>4, CopyKeeps
<1> QED BY <1>6, <1>7, <1>8, WorldStep

LEMMA LoseKeeps ==
  ASSUME SyncInv, bucket' = bucket, NEW m \in sent, Lose(m)
  PROVE  SyncInv'
<1>0. sent' = sent \ {m} /\ UNCHANGED <<rows, init, resp, msg, nextId, purges, timeouts, readErrors>>
  BY DEF Lose
<1>6. SyncTypes'
  BY <1>0 DEF SyncInv, SyncTypes
<1>7. UNCHANGED <<bucket, init, resp, msg, readErrors>>
  BY <1>0
<1>8. ASSUME NEW c \in Peer, c \notin bucket.writers
      PROVE  Copied(c)' /\ Arriving(bucket, c, init[c], resp[c], msg[c], rows'[Other(c)], readErrors)
  <2>1. nextId' \in Nat /\ nextId <= nextId'
    BY <1>0, <1>8, Since
  <2> QED BY <1>0, <1>7, <1>8, <2>1, CopyKeeps
<1> QED BY <1>6, <1>7, <1>8, WorldStep

LEMMA PurgeKeeps ==
  ASSUME SyncInv, bucket' = bucket, NEW p \in Peer, NEW k \in Key, Purge(p, k)
  PROVE  SyncInv'
<1>0. /\ rows' = [rows EXCEPT ![p][k] = {}]
      /\ UNCHANGED <<init, resp, msg, sent, nextId, timeouts, readErrors>>
  BY DEF Purge
<1>1. SyncTypes
  BY DEF SyncInv
<1>3. rows \in [Peer -> [Key -> SUBSET Version]]
  BY <1>1 DEF SyncTypes
<1>4. /\ rows' \in [Peer -> [Key -> SUBSET Version]]
      /\ \A q \in Peer, j \in Key : rows'[q][j] = IF q = p /\ j = k THEN {} ELSE rows[q][j]
  BY <1>0, <1>3
<1>6. SyncTypes'
  BY <1>0, <1>1, <1>4 DEF SyncTypes
<1>7. UNCHANGED <<bucket, init, resp, msg, readErrors>>
  BY <1>0
<1>8. ASSUME NEW c \in Peer, c \notin bucket.writers
      PROVE  Copied(c)' /\ Arriving(bucket, c, init[c], resp[c], msg[c], rows'[Other(c)], readErrors)
  <2>1. Other(c) \in Peer
    BY Sides
  <2>2. \A j \in Key : \A v \in rows'[Other(c)][j] : v \in rows[Other(c)][j]
    BY <1>4, <2>1
  <2>3. nextId' \in Nat /\ nextId <= nextId'
    BY <1>0, <1>8, Since
  <2> QED BY <1>0, <1>7, <1>8, <2>2, <2>3, CopyKeeps
<1> QED BY <1>6, <1>7, <1>8, WorldStep

-----------------------------------------------------------------------------
(* The invariant *)

LEMMA SyncInit == Init => SyncInv
<1> SUFFICES ASSUME Init PROVE SyncInv
  OBVIOUS
<1>1. /\ init = [p \in Peer |-> Idle] /\ resp = [p \in Peer |-> Unopened] /\ msg = [p \in Peer |-> None]
      /\ rows = [p \in Peer |-> [k \in Key |->
                   IF p \in bucket.relays /\ k \in bucket.former THEN {OfFormerSite} ELSE {}]] /\ sent = {} /\ bucket \in Buckets
      /\ nextId = 1 /\ readErrors = 0
  BY DEF Init
<1>2. SyncTypes
  <2>1. MaxWrites \in Nat
    BY SyncAssumption
  <2>2. init \in [Peer -> InitiatorType] /\ resp \in [Peer -> ResponderType] /\ DOMAIN msg = Peer
    BY <1>1, Records
  <2>3. rows \in [Peer -> [Key -> SUBSET Version]]
    <3>1. {OfFormerSite} \in SUBSET Version /\ {} \in SUBSET Version
      BY <2>1 DEF OfFormerSite, Version
    <3> QED BY <1>1, <3>1
  <2>4. nextId \in 1..(MaxWrites + 1) /\ readErrors \in Nat
    BY <1>1, <2>1
  <2> QED BY <1>1, <2>2, <2>3, <2>4 DEF SyncTypes
<1>3. \A p \in Peer : init[p] = Idle /\ resp[p] = Unopened /\ msg[p] = None
  BY <1>1
<1>4. Sessions
  BY <1>3 DEF Sessions, Resting
<1>5. Copies
  <2> SUFFICES ASSUME NEW p \in Peer, p \notin bucket.writers
               PROVE  Copied(p) /\ Arriving(bucket, p, init[p], resp[p], msg[p], rows[Other(p)], readErrors)
    BY DEF Copies
  <2>1. init[p].state # "DB_OBJECT_PUSH" /\ resp[p].since = 0
    BY <1>3, Records
  <2> QED BY <1>1, <2>1 DEF Copied, Arriving
<1> QED BY <1>2, <1>4, <1>5 DEF SyncInv

LEMMA SyncNext == SyncInv /\ [Next]_vars => SyncInv'
<1> SUFFICES ASSUME SyncInv, [Next]_vars PROVE SyncInv'
  OBVIOUS
<1>1. ASSUME NEW p \in Peer, bucket' = bucket, Initiate(p) PROVE SyncInv'
  <2>1. CASE StartSession(p) BY <1>1, <2>1, StartSessionKeeps
  <2>2. CASE Handshake(p) BY <1>1, <2>2, HandshakeKeeps
  <2>3. CASE CompareRoot(p) BY <1>1, <2>3, CompareRootKeeps
  <2>4. CASE CompareLeft(p) BY <1>1, <2>4, CompareLeftKeeps
  <2>5. CASE CompareRight(p) BY <1>1, <2>5, CompareRightKeeps
  <2>6. CASE MergeObject(p) BY <1>1, <2>6, MergeObjectKeeps
  <2>7. CASE FinishNode(p) BY <1>1, <2>7, FinishNodeKeeps
  <2>8. CASE Aborted(p) BY <1>1, <2>8, AbortedKeeps
  <2> QED BY <1>1, <2>1, <2>2, <2>3, <2>4, <2>5, <2>6, <2>7, <2>8 DEF Initiate
<1>2. ASSUME NEW p \in Peer, bucket' = bucket, Respond(p) PROVE SyncInv'
  <2>1. CASE RespondStart(p) BY <1>2, <2>1, RespondStartKeeps
  <2>2. CASE RespondHash(p) BY <1>2, <2>2, RespondHashKeeps
  <2>3. CASE RespondFirst(p) BY <1>2, <2>3, RespondFirstKeeps
  <2>4. CASE RespondNext(p) BY <1>2, <2>4, RespondNextKeeps
  <2> QED BY <1>2, <2>1, <2>2, <2>3, <2>4 DEF Respond
<1>3. ASSUME NEW p \in Peer, bucket' = bucket, Timeout(p) PROVE SyncInv'
  BY <1>3, TimeoutKeeps
<1>4. ASSUME NEW p \in Peer, NEW k \in Key, bucket' = bucket, Write(p, k) \/ Purge(p, k) PROVE SyncInv'
  BY <1>4, WriteKeeps, PurgeKeeps
<1>5. ASSUME NEW m \in sent, bucket' = bucket, Deliver(m) \/ Lose(m) PROVE SyncInv'
  BY <1>5, DeliverKeeps, LoseKeeps
<1>6. CASE UNCHANGED vars
  <2>1. /\ bucket' = bucket /\ rows' = rows /\ init' = init /\ resp' = resp /\ msg' = msg
        /\ sent' = sent /\ nextId' = nextId /\ readErrors' = readErrors
    BY <1>6 DEF vars, bounds
  <2>2. SyncTypes'
    BY <2>1 DEF SyncInv, SyncTypes
  <2>3. Copies'
    BY <2>1, Zenon DEF SyncInv, Copies, Copied
  <2> QED BY <2>1, <2>2, <2>3, WorldStep DEF Copies
<1> QED BY <1>1, <1>2, <1>3, <1>4, <1>5, <1>6, Zenon DEF Next

LEMMA SyncInvariant == Spec => []SyncInv
<1> QED BY SyncInit, SyncNext, PTL DEF Spec

-----------------------------------------------------------------------------
(* SessionSound *)

LEMMA QueueNodes ==
  ASSUME SyncInv, NEW p \in Peer, NEW j \in DOMAIN init[p].queue
  PROVE  init[p].queue[j] \in Nodes(bucket.depth[p])
<1> DEFINE d == bucket.depth[p]
           q == init[p].queue
<1>1. d \in 1..HashBits /\ Most(bucket) \in 1..d
  BY During, TreesOfBoth
<1>2. q \in Seq(Nat)
  BY During DEF InitiatorType
<1>3. DOMAIN q = 1..Len(q)
  BY <1>2
<1>4. CASE Ordered(d, q, Most(bucket))
  <2>1. \A i \in 1..Len(q) : q[i] \in Nodes(d)
    BY <1>1, <1>4, OrderedTypes
  <2> QED BY <1>3, <2>1
<1>5. CASE q = <<>>
  BY <1>5
<1>6. CASE Comparing(bucket, p, init[p])
  <2>1. CASE q = <<RootNode(d)>>
    BY <1>1, <1>4, <2>1, RootQueue
  <2>2. CASE q # <<RootNode(d)>>
    BY <1>4, <1>6, <2>2 DEF Comparing, Explorable
  <2> QED BY <2>1, <2>2
<1>7. CASE Resting(init[p], resp[p], msg[p])
  BY <1>5, <1>7, Records DEF Resting
<1>8. CASE Greeting(init[p], resp[p], msg[p])
  BY <1>5, <1>8 DEF Greeting, Idle
<1>9. CASE Fetching(bucket, p, init[p])
  BY <1>4, <1>9 DEF Fetching
<1> QED BY <1>6, <1>7, <1>8, <1>9 DEF SyncInv, Sessions, Active

LEMMA ResponderNode ==
  ASSUME SyncInv, NEW p \in Peer
  PROVE  resp[p].node \in {0} \cup Nodes(bucket.depth[Other(p)])
<1>1. CASE resp[p] = Unopened \/ resp[p] = Awaiting
  BY <1>1, Records
<1>2. CASE resp[p].node \in Nodes(bucket.depth[Other(p)])
  BY <1>2
<1> QED BY <1>1, <1>2 DEF SyncInv, Sessions, Resting, Active, Greeting, Hashing, Iterating

LEMMA SoundTypes == SyncInv => TypeOK
<1> SUFFICES ASSUME SyncInv PROVE TypeOK
  OBVIOUS
<1>1. SyncTypes
  BY DEF SyncInv
<1>2. ASSUME NEW p \in Peer
      PROVE  /\ init[p].state \in {"END", "HANDSHAKE", "ROOT_HASH_COMPARE", "LEFT_HASH_COMPARE",
                                   "RIGHT_HASH_COMPARE", "DB_OBJECT_PUSH"}
             /\ \A i \in DOMAIN init[p].queue : init[p].queue[i] \in Nodes(bucket.depth[p])
             /\ init[p].keys \subseteq Key
             /\ resp[p].state \in {"START", "HASH_COMPARE", "DB_OBJECT_PUSH"}
             /\ resp[p].node \in {0} \cup Nodes(bucket.depth[Other(p)])
  <2>1. init[p] \in InitiatorType /\ resp[p] \in ResponderType
    BY <1>1 DEF SyncTypes
  <2>2. init[p].state \in SyncStates /\ init[p].keys \in SUBSET Key
        /\ resp[p].state \in {"START", "HASH_COMPARE", "DB_OBJECT_PUSH"}
    BY <2>1 DEF InitiatorType, ResponderType
  <2> QED BY <2>2, QueueNodes, ResponderNode DEF SyncStates
<1> QED BY <1>1, <1>2 DEF SyncTypes, TypeOK

LEMMA SoundRows == SyncInv => RowsBelongToNode
<1> SUFFICES ASSUME SyncInv, NEW p \in Peer, init[p].state = "DB_OBJECT_PUSH",
                    msg[p].to = "initiator", msg[p].type = "PUSH_MESSAGE"
             PROVE  msg[p].key \in KeysBelow(p, PeekExplorationQueue(p))
  BY DEF RowsBelongToNode, Receives
<1>1. msg[p].key \in KeysAt(bucket.depth[p], init[p].queue[1])
  BY Received
<1>2. Ordered(bucket.depth[p], init[p].queue, Most(bucket))
  BY During DEF Fetching
<1>3. PeekExplorationQueue(p) = init[p].queue[1]
  BY <1>2, During, TreesOfBoth, QueueNat DEF PeekExplorationQueue
<1> QED BY <1>1, <1>3, OfBucket

LEMMA SoundLevels == SyncInv => FetchesLeavesOnly
<1> SUFFICES ASSUME SyncInv, NEW p \in Peer, init[p].state = "DB_OBJECT_PUSH", NEW i \in DOMAIN init[p].queue
             PROVE  Level(bucket.depth[p], init[p].queue[i]) = MaxDepth
  BY DEF FetchesLeavesOnly
<1> DEFINE d == bucket.depth[p]
           q == init[p].queue
<1>1. Ordered(d, q, Most(bucket)) /\ Level(d, q[1]) = Most(bucket)
  BY During DEF Fetching
<1>2. d \in 1..HashBits /\ Most(bucket) \in 1..d
  BY During, TreesOfBoth
<1>3. \A j \in 1..Len(q) : Level(d, q[j]) = Most(bucket)
  <2> DEFINE most == Most(bucket)
  <2> HIDE DEF d, q, most
  <2>1. d \in 1..HashBits /\ most \in 1..d /\ Ordered(d, q, most) /\ Level(d, q[1]) = most
    BY <1>1, <1>2 DEF most
  <2> QED BY <2>1, FrontDone DEF most
<1>4. DOMAIN q = 1..Len(q)
  BY During DEF InitiatorType
<1> QED BY <1>3, <1>4, OfBucket

(***************************************************************************)
(* InitiatorSyncSession explores level by level, fetches rows at the       *)
(* deepest common level only and is sent rows of the node it is at, for    *)
(* trees of any two depths and every explorationPathLimit.                 *)
(***************************************************************************)
THEOREM SessionsStaySound == Spec => []SessionSound
<1>1. SyncInv => SessionSound
  BY SoundTypes, SoundRows, SoundLevels DEF SessionSound
<1> QED BY <1>1, SyncInvariant, PTL

-----------------------------------------------------------------------------
(* AuthoritativeKept *)

\* The keys that FinishNode drops are keys the other side had no row of when it
\* listed its keys.
LEMMA NothingToCome ==
  ASSUME SyncInv, NEW p \in Peer, p \notin bucket.writers, Receives(p, "DB_OBJECT_PUSH", "PUSH_DONE"),
         readErrors = 0, NEW k \in init[p].keys
  PROVE  \A v \in rows[Other(p)][k] : v.id >= resp[p].since
<1>1. /\ Opening(bucket, p, init[p], resp[p]) /\ msg[p] # Abort /\ msg[p].type # "PUSH_MESSAGE"
      /\ resp[p].iter = <<>>
  BY Received DEF Receives
<1>2. Arriving(bucket, p, init[p], resp[p], msg[p], rows[Other(p)], readErrors)
  BY DEF SyncInv, Copies
<1>3. k \notin ToSet(resp[p].iter)
  BY <1>1 DEF ToSet
<1>4. ~Earlier(rows[Other(p)][k], resp[p].since)
  BY <1>1, <1>2, <1>3 DEF Arriving, Receives
<1>5. SyncTypes /\ Other(p) \in Peer /\ k \in Key /\ resp[p].since \in Nat
  BY Sides DEF SyncInv, SyncTypes, InitiatorType, ResponderType
<1>6. \A v \in rows[Other(p)][k] : v.id \in Nat
  BY <1>5, SyncAssumption DEF SyncTypes, Version
<1> QED BY <1>4, <1>5, <1>6 DEF Earlier

\* Merging never drops a row.
LEMMA MergeGrows ==
  ASSUME SyncTypes, NEW q, NEW j, NEW v, rows' = [rows EXCEPT ![q][j] = @ \cup v],
         NEW p \in Peer, NEW k \in Key, rows[p][k] # {}
  PROVE  rows'[p][k] # {}
<1>1. rows \in [Peer -> [Key -> SUBSET Version]]
  BY DEF SyncTypes
<1>2. rows'[p][k] = IF p = q /\ k = j THEN rows[p][k] \cup v ELSE rows[p][k]
  BY <1>1
<1> QED BY <1>2

LEMMA DropsAreSafe ==
  ASSUME SyncInv, Next, NEW p \in Peer, NEW k \in Key, Dropped(p, k), readErrors = 0
  PROVE  p \notin bucket.writers /\ \A v \in rows[Other(p)][k] : v.id >= resp[p].since
<1> DEFINE Safe == p \notin bucket.writers /\ \A v \in rows[Other(p)][k] : v.id >= resp[p].since
<1>0. SyncTypes /\ Values(rows[p][k]) # {} /\ rows[p][k] # {} /\ rows'[p][k] = {}
  BY DEF SyncInv, Dropped, Values
<1>1. rows \in [Peer -> [Key -> SUBSET Version]] /\ rows' # rows
  BY <1>0 DEF SyncTypes
<1> DEFINE Merged(q, j, v) == [rows EXCEPT ![q][j] = @ \cup v]
<1>2. \A q, j, v : rows' # Merged(q, j, v)
  BY <1>0, MergeGrows
<1> HIDE DEF Merged, Safe
<1>3. ASSUME NEW q \in Peer, Initiate(q) PROVE Safe
  <2>1. ~StartSession(q) /\ ~Handshake(q) /\ ~CompareRoot(q) /\ ~CompareLeft(q) /\ ~CompareRight(q) /\ ~Aborted(q)
    BY <1>1 DEF StartSession, Handshake, CompareRoot, CompareLeft, CompareRight, Aborted
  <2>2. ~MergeObject(q)
    <3>1. MergeObject(q) => rows' = Merged(q, msg[q].key, msg[q].val)
      BY DEF MergeObject, Merged
    <3> QED BY <1>2, <3>1
  <2>3. FinishNode(q)
    BY <1>3, <2>1, <2>2 DEF Initiate
  <2>4. /\ Receives(q, "DB_OBJECT_PUSH", "PUSH_DONE")
        /\ rows' = [rows EXCEPT ![q] = [j \in Key |-> IF j \in init[q].keys THEN {} ELSE rows[q][j]]]
    BY <2>3 DEF FinishNode
  <2>5. q = p /\ k \in init[q].keys
    BY <1>0, <1>1, <2>4
  <2>6. p \notin bucket.writers
    BY <2>4, <2>5, During DEF Receives, Fetching
  <2> QED BY <2>4, <2>5, <2>6, NothingToCome DEF Safe
<1>4. ASSUME NEW q \in Peer PROVE ~Respond(q) /\ ~Timeout(q)
  <2>1. \A r, m : ~Answer(q, r, m)
    BY <1>1 DEF Answer
  <2>2. \A r : ~NextRow(q, r)
    BY <2>1, Zenon DEF NextRow
  <2>3. ~RespondStart(q) /\ ~RespondHash(q)
    BY <2>1, Zenon DEF RespondStart, RespondHash
  <2>4. ~RespondFirst(q) /\ ~RespondNext(q)
    BY <2>1, <2>2, Zenon DEF RespondFirst, RespondNext
  <2>5. ~Timeout(q)
    BY <1>1 DEF Timeout
  <2> QED BY <2>3, <2>4, <2>5 DEF Respond
<1>5. ASSUME NEW q \in Peer, NEW j \in Key PROVE ~Write(q, j) /\ ~Purge(q, j)
  <2>1. ~Write(q, j)
    <3>1. Write(q, j) => \E v : rows' = Merged(q, j, v)
      BY DEF Write, Merged
    <3> QED BY <1>2, <3>1
  <2>2. Purge(q, j) => Values(rows[q][j]) = {} /\ rows' = [rows EXCEPT ![q][j] = {}]
    BY DEF Purge
  <2>3. Purge(q, j) => p = q /\ k = j
    BY <1>0, <1>1, <2>2
  <2>4. ~Purge(q, j)
    BY <1>0, <2>2, <2>3
  <2> QED BY <2>1, <2>4
<1>6. ASSUME NEW m \in sent PROVE ~Deliver(m) /\ ~Lose(m)
  <2>1. Deliver(m) => rows' = Merged(m.to, m.key, m.val)
    BY DEF Deliver, Merged
  <2>2. ~Lose(m)
    BY <1>1 DEF Lose
  <2> QED BY <1>2, <2>1, <2>2
<1>7. Safe
  BY <1>3, <1>4, <1>5, <1>6, Zenon DEF Next
<1> QED BY <1>7 DEF Safe

(***************************************************************************)
(* A session drops values only from a copy that accepts no writes, and     *)
(* only of keys that the cloud had no row of when it listed the node       *)
(* (finishing a node drops the keys that were not sent), whatever is       *)
(* written, deleted, pushed, lost, purged or interrupted meanwhile, until  *)
(* a read error cuts an iteration short.                                   *)
(***************************************************************************)
THEOREM CopiesStayAuthoritative == Spec => AuthoritativeKept
<1> DEFINE Kept == \A p \in Peer, k \in Key : Dropped(p, k) /\ readErrors = 0
                     => p \notin bucket.writers /\ \A v \in rows[Other(p)][k] : v.id >= resp[p].since
<1>1. SyncInv /\ [Next]_vars => [Kept]_vars
  BY DropsAreSafe
<1> QED BY <1>1, SyncInvariant, PTL DEF Spec, AuthoritativeKept

-----------------------------------------------------------------------------
(* Leaves and the nodes above them *)

LeafAt(d, k) == LeafNode(KeyHash[k], d)

\* Depths and the sizes of trees.
LEMMA Depths28 ==
  ASSUME NEW d \in 1..HashBits
  PROVE  /\ HashBits \in 1..28 /\ d \in 1..28 /\ d \in Nat
         /\ Pow2(d - 1) \in Nat \ {0} /\ Pow2(d) = 2 * Pow2(d - 1) /\ Pow2(d) \in Nat \ {0}
         /\ Pow2(d) <= Pow2(HashBits) /\ Pow2(HashBits) \in Nat
<1>1. HashBits \in 1..28 /\ d \in 1..28
  BY DepthAssumption DEF MerkleMaxDepth
<1>2. d - 1 \in 0..31 /\ d \in 1..32 /\ d = (d - 1) + 1 /\ d \in 0..32 /\ HashBits \in 0..32
  BY <1>1
<1>3. Pow2(d - 1) \in Nat \ {0} /\ Pow2(d) = 2 * Pow2(d - 1)
  BY <1>2, PowersDouble
<1>4. Pow2(d) \in Nat \ {0} /\ Pow2(HashBits) \in Nat \ {0} /\ Pow2(d) <= Pow2(HashBits)
  BY <1>1, <1>2, PowersGrow
<1> QED BY <1>1, <1>3, <1>4

\* The leaf of a key is a leaf.
LEMMA LeafIs ==
  ASSUME NEW d \in 1..HashBits, NEW k \in Key
  PROVE  LeafAt(d, k) \in Nodes(d) /\ LeafAt(d, k) % 2 = 1 /\ LeafAt(d, k) \in AllLeaves
<1> DEFINE h == KeyHash[k]
           P == Pow2(HashBits - d)
           Q == Pow2(d)
           n == h \div P
<1>1. h \in Nat /\ h < Pow2(HashBits)
  BY KeysAssumption, Depths28
<1>2. P \in Nat \ {0} /\ Pow2(HashBits) = P * Q /\ Q \in Nat \ {0}
  <2>1. HashBits - d \in 0..32 /\ HashBits - d \in Nat /\ d \in Nat /\ HashBits \in 0..32 /\ HashBits = (HashBits - d) + d
    BY Depths28
  <2>2. P \in Nat \ {0}
    BY <2>1, PowersGrow
  <2>3. Pow2(HashBits) = P * Q
    BY <2>1, PowersSum
  <2> QED BY <2>2, <2>3, Depths28
<1> HIDE DEF h, P
<1>3. n \in Nat
  BY <1>1, <1>2, Divided
<1>4. n < Q
  <2>1. ~(Q <= n)
    <3>1. Q <= n <=> P * Q <= h
      BY <1>1, <1>2, QuotientAtLeast
    <3> QED BY <1>1, <1>2, <3>1
  <2> QED BY <1>2, <1>3, <2>1
<1> HIDE DEF n
<1>5. LeafAt(d, k) = IF n % 2 = 1 THEN n ELSE n + 1
  BY DEF LeafAt, LeafNode, n, h, P
<1>6. Q = 2 * Pow2(d - 1) /\ Pow2(d - 1) \in Nat /\ Q <= Pow2(HashBits) /\ Pow2(HashBits) \in Nat
  BY Depths28
<1> DEFINE R == Pow2(d - 1)
<1>7. LeafAt(d, k) \in 1..(Q - 1) /\ LeafAt(d, k) % 2 = 1
  <2> HIDE DEF Q, R
  <2>1. Q = 2 * R /\ R \in Nat
    BY <1>6 DEF R
  <2>2. CASE n % 2 = 1
    BY <1>3, <1>4, <1>5, <2>1, <2>2
  <2>3. CASE n % 2 # 1
    <3>1. n % 2 = 0 /\ n + 1 < Q /\ (n + 1) % 2 = 1
      BY <1>3, <1>4, <2>1, <2>3
    <3> QED BY <1>3, <1>5, <2>1, <2>3, <3>1
  <2> QED BY <2>2, <2>3
<1>8. LeafAt(d, k) \in Nodes(d) /\ LeafAt(d, k) \in Nodes(HashBits)
  <2> HIDE DEF Q
  <2>1. LeafAt(d, k) \in 1..(Pow2(HashBits) - 1)
    BY <1>2, <1>6, <1>7
  <2> QED BY <1>7, <2>1 DEF Nodes, NodeLimit, Q
<1> QED BY <1>7, <1>8 DEF AllLeaves

\* The keys below a leaf are the keys whose leaf it is.
LEMMA LeafKeys ==
  ASSUME NEW d \in 1..HashBits, NEW n \in Nodes(d), n % 2 = 1
  PROVE  Zeros[n] = 0 /\ KeysAt(d, n) = {k \in Key : LeafAt(d, k) = n}
<1>1. n \in Nat /\ n \in 1..Pow2(HashBits)
  BY Depths28 DEF Nodes, NodeLimit
<1>2. Zeros[n] = 0
  BY <1>1 DEF Zeros, CountTrailingZeros
<1>3. SubRangeMin(n) = n - 1 /\ SubRangeMax(n) = n + 1
  <2>1. Pow2(0) = 1
    BY DEF Pow2
  <2> QED BY <1>2, <2>1 DEF SubRangeMin, SubRangeMax
<1>4. ASSUME NEW k \in Key
      PROVE  LeafAt(d, k) \in (n - 1)..((n + 1) - 1) <=> LeafAt(d, k) = n
  <2>1. LeafAt(d, k) % 2 = 1 /\ LeafAt(d, k) \in Nat
    BY LeafIs, Depths28 DEF Nodes, NodeLimit
  <2> QED BY <1>1, <2>1
<1> QED BY <1>2, <1>3, <1>4 DEF KeysAt, LeafAt

\* A node is an odd number if it is a leaf.
LEMMA Internal ==
  ASSUME NEW d \in 1..HashBits, NEW n \in Nodes(d)
  PROVE  /\ n \in Nat /\ n \in 1..Pow2(HashBits) /\ Zeros[n] \in 0..(d - 1)
         /\ n % 2 = 1 <=> Zeros[n] = 0
<1>1. n \in Nat /\ n \in 1..Pow2(HashBits)
  BY Depths28 DEF Nodes, NodeLimit
<1>2. PICK z, m : IsAt(d, z, m) /\ n = Node(z, m)
  BY NodeForm
<1>3. Zeros[n] = z
  BY <1>2, NodeIs
<1>4. n % 2 = 1 <=> z = 0
  <2>0. IsAt(d, z, m)
    BY <1>2
  <2>1. Node(z, m) % 2 = 1 <=> z = 0
    BY <2>0, ChildrenAre, ZenonT(120)
  <2> QED BY <1>2, <2>1
<1> QED BY <1>1, <1>2, <1>3, <1>4 DEF IsAt

\* The keys below a node are divided between its children.
LEMMA Split ==
  ASSUME NEW d \in 1..HashBits, NEW n \in Nodes(d), n % 2 # 1
  PROVE  /\ LeftChild(n) \in Nodes(d) /\ Zeros[LeftChild(n)] = Zeros[n] - 1
         /\ RightChild(n) \in Nodes(d) /\ Zeros[RightChild(n)] = Zeros[n] - 1
         /\ KeysAt(d, LeftChild(n)) \cap KeysAt(d, RightChild(n)) = {}
         /\ KeysAt(d, LeftChild(n)) \cup KeysAt(d, RightChild(n)) = KeysAt(d, n)
<1>1. PICK z, m : IsAt(d, z, m) /\ n = Node(z, m)
  BY NodeForm
<1>2. Zeros[n] = z /\ z # 0 /\ z \in 0..(d - 1) /\ m \in Nat /\ d \in Nat
  <2>1. Zeros[n] = z
    BY <1>1, NodeIs
  <2>2. n % 2 = 1 <=> z = 0
    BY <1>1, ChildrenAre
  <2>3. m \in Nat /\ d \in Nat
    BY <1>1, AtPowers
  <2>4. z \in 0..(d - 1)
    BY <1>1 DEF IsAt
  <2> QED BY <2>1, <2>2, <2>3, <2>4
<1>3. /\ IsAt(d, z - 1, 2 * m) /\ LeftChild(n) = Node(z - 1, 2 * m)
      /\ IsAt(d, z - 1, 2 * m + 1) /\ RightChild(n) = Node(z - 1, 2 * m + 1)
  BY <1>1, <1>2, ChildrenAre
<1>4. /\ LeftChild(n) \in Nodes(d) /\ Zeros[LeftChild(n)] = z - 1
      /\ RightChild(n) \in Nodes(d) /\ Zeros[RightChild(n)] = z - 1
  BY <1>3, NodeIs
<1> DEFINE l == d - z
           x(k) == KeyHash[k] \div Pow2(Rest(l + 1))
<1>5. l \in 1..(HashBits - 1) /\ d - (z - 1) = l + 1
  BY <1>2, Depths28
<1>6. ASSUME NEW k \in Key
      PROVE  /\ k \in KeysAt(d, n) <=> x(k) = 2 * m \/ x(k) = 2 * m + 1
             /\ k \in KeysAt(d, LeftChild(n)) <=> x(k) = 2 * m
             /\ k \in KeysAt(d, RightChild(n)) <=> x(k) = 2 * m + 1
  <2>1. KeyHash[k] \in Hashes
    BY KeysAssumption DEF Hashes
  <2>2. k \in KeysAt(d, n) <=> KeyHash[k] \div Pow2(Rest(l)) = m
    BY <1>1, <2>1, BelowIs DEF KeysAt
  <2>3. KeyHash[k] \div Pow2(Rest(l)) = m <=> x(k) = 2 * m \/ x(k) = 2 * m + 1
    BY <1>2, <1>5, <2>1, Halves
  <2>4. k \in KeysAt(d, LeftChild(n)) <=> KeyHash[k] \div Pow2(Rest(d - (z - 1))) = 2 * m
    BY <1>3, <2>1, BelowIs DEF KeysAt
  <2>5. k \in KeysAt(d, RightChild(n)) <=> KeyHash[k] \div Pow2(Rest(d - (z - 1))) = 2 * m + 1
    BY <1>3, <2>1, BelowIs DEF KeysAt
  <2> QED BY <1>5, <2>2, <2>3, <2>4, <2>5
<1>7. \A k \in Key : ~(x(k) = 2 * m /\ x(k) = 2 * m + 1)
  BY <1>2
<1>8. KeysAt(d, n) \subseteq Key /\ KeysAt(d, LeftChild(n)) \subseteq Key /\ KeysAt(d, RightChild(n)) \subseteq Key
  BY DEF KeysAt
<1> HIDE DEF x
<1>9. KeysAt(d, LeftChild(n)) \cap KeysAt(d, RightChild(n)) = {}
  BY <1>6, <1>7, <1>8, Zenon
<1>10. KeysAt(d, LeftChild(n)) \cup KeysAt(d, RightChild(n)) = KeysAt(d, n)
  BY <1>6, <1>8, Zenon
<1> QED BY <1>2, <1>4, <1>9, <1>10

\* The node z levels above leaf l.
Above(l, z) == Node(z, (l \div 2) \div Pow2(z))

\* The parent of a node.
LEMMA Halved ==
  ASSUME NEW d, NEW z, NEW m, IsAt(d, z, m)
  PROVE  /\ ParentNode(Node(z, m)) = Node(z + 1, m \div 2)
         /\ Node(z, m) % 2 = 1 <=> z = 0
         /\ \A j \in Nat : Node(z, m) = Node(z, j) => m = j
<1>1. m \in Nat /\ z \in 0..27
  BY AtPowers
<1>2. PICK j \in Nat : m = 2 * j \/ m = 2 * j + 1
  <2>1. m \div 2 \in Nat /\ (m = 2 * (m \div 2) \/ m = 2 * (m \div 2) + 1)
    BY <1>1
  <2> QED BY <2>1
<1>3. ParentNode(Node(z, m)) = Node(z + 1, j)
  BY <1>2, ParentIs
<1>4. m \div 2 = j
  BY <1>1, <1>2
<1>5. Node(z, m) % 2 = 1 <=> z = 0
  BY ChildrenAre
<1>6. ASSUME NEW j2 \in Nat, Node(z, m) = Node(z, j2) PROVE m = j2
  <2>1. z \in 0..31
    BY <1>1
  <2> QED BY <1>1, <1>6, <2>1, OneForm
<1> QED BY <1>3, <1>4, <1>5, <1>6

\* The way from a leaf to the root, one parent after another.
LEMMA WayUp ==
  ASSUME NEW d \in 1..HashBits, NEW l \in Nodes(d), l % 2 = 1
  PROVE  /\ \A z \in 0..(d - 1) : /\ IsAt(d, z, (l \div 2) \div Pow2(z))
                                  /\ Above(l, z) \in Nodes(d) /\ Zeros[Above(l, z)] = z
                                  /\ Above(l, z) % 2 = 1 <=> z = 0
                                  /\ ParentNode(Above(l, z)) = Above(l, z + 1)
         /\ Above(l, 0) = l /\ Above(l, d - 1) = RootNode(d)
         /\ Above(l, d) = Pow2(d) /\ ParentNode(RootNode(d)) = Pow2(d)
<1> DEFINE M == l \div 2
<1>1. d \in 1..28 /\ Pow2(d) = 2 * Pow2(d - 1) /\ Pow2(d - 1) \in Nat \ {0}
  BY Depths28
<1>2. l \in Nat /\ l < 2 * Pow2(d - 1)
  BY <1>1 DEF Nodes, NodeLimit
<1>3. M \in Nat /\ l = 2 * M + 1 /\ M < Pow2(d - 1)
  BY <1>1, <1>2
<1> HIDE DEF M
<1>4. Pow2(0) = 1
  BY DEF Pow2
<1>5. ASSUME NEW z \in 0..(d - 1)
      PROVE  IsAt(d, z, M \div Pow2(z)) /\ M \div Pow2(z) \in Nat
  <2> DEFINE P == Pow2(z)
             Q == Pow2(d - 1 - z)
  <2>1. P \in Nat \ {0} /\ Q \in Nat \ {0} /\ Pow2(d - 1) = P * Q
    <3>1. z \in 0..32 /\ d - 1 - z \in 0..32 /\ z \in Nat /\ d - 1 - z \in Nat /\ d - 1 \in 0..32 /\ d - 1 = z + (d - 1 - z)
      BY <1>1
    <3>2. P \in Nat \ {0} /\ Q \in Nat \ {0}
      BY <3>1, PowersGrow
    <3>3. Pow2(d - 1) = P * Q
      BY <3>1, PowersSum
    <3> QED BY <3>2, <3>3
  <2> HIDE DEF P, Q
  <2>2. M \div P \in Nat
    BY <1>3, <2>1, Divided
  <2>3. Q <= M \div P <=> P * Q <= M
    BY <1>3, <2>1, QuotientAtLeast
  <2>4. M \div P \in 0..(Q - 1)
    BY <1>1, <1>3, <2>1, <2>2, <2>3
  <2> QED BY <2>2, <2>4 DEF IsAt, P, Q
<1>6. ASSUME NEW z \in 0..(d - 1)
      PROVE  ParentNode(Above(l, z)) = Above(l, z + 1)
  <2> DEFINE m == M \div Pow2(z)
             j == m \div 2
  <2>1. z \in 0..31 /\ z + 1 \in 1..32 /\ Pow2(z) \in Nat \ {0} /\ Pow2(z + 1) = 2 * Pow2(z)
    <3>1. z \in 0..31 /\ z + 1 \in 1..32 /\ z + 1 = z + 1
      BY <1>1
    <3> QED BY <3>1, PowersDouble
  <2>2. IsAt(d, z, m) /\ m \in Nat
    BY <1>5
  <2>3. j = M \div Pow2(z + 1)
    <3>1. (M \div Pow2(z)) \div 2 = M \div (Pow2(z) * 2)
      BY <1>3, <2>1, QuotientTwice
    <3> QED BY <2>1, <3>1
  <2>5. ParentNode(Node(z, m)) = Node(z + 1, j)
    <3> HIDE DEF m
    <3> QED BY <2>2, Halved, Zenon
  <2> QED BY <2>3, <2>5 DEF Above, M, m
<1>7. ASSUME NEW z \in 0..(d - 1)
      PROVE  Above(l, z) \in Nodes(d) /\ Zeros[Above(l, z)] = z /\ (Above(l, z) % 2 = 1 <=> z = 0)
  <2>1. IsAt(d, z, M \div Pow2(z)) /\ Above(l, z) = Node(z, M \div Pow2(z))
    BY <1>5 DEF Above, M
  <2>2. Above(l, z) \in Nodes(d) /\ Zeros[Above(l, z)] = z
    BY <2>1, NodeIs
  <2>3. Above(l, z) % 2 = 1 <=> z = 0
    <3> DEFINE a == M \div Pow2(z)
    <3> HIDE DEF a
    <3>1. IsAt(d, z, a) /\ Above(l, z) = Node(z, a)
      BY <2>1 DEF a
    <3>2. Node(z, a) % 2 = 1 <=> z = 0
      BY <3>1, Halved
    <3> QED BY <3>1, <3>2
  <2> QED BY <2>2, <2>3
<1>8. Above(l, 0) = l
  BY <1>3, <1>4 DEF Above, Node, M
<1>9. Above(l, d - 1) = RootNode(d)
  <2>1. d - 1 \in 0..(d - 1) /\ d - 1 - (d - 1) = 0
    BY <1>1
  <2>2. M \div Pow2(d - 1) \in 0..(Pow2(0) - 1)
    BY <1>5, <2>1 DEF IsAt
  <2>3. M \div Pow2(d - 1) = 0
    BY <1>4, <2>2
  <2> QED BY <1>1, <2>3 DEF Above, Node, RootNode, M
<1>10. Above(l, d) = Pow2(d)
  <2>1. Pow2(d) \in Nat \ {0} /\ M < Pow2(d)
    BY <1>1, <1>3
  <2>2. M \div Pow2(d) = 0
    <3> DEFINE P == Pow2(d)
    <3> HIDE DEF P
    <3>1. P \in Nat \ {0} /\ P * 0 <= M /\ M < P * (0 + 1)
      BY <1>3, <2>1 DEF P
    <3>2. M \div P = 0
      BY <1>3, <3>1, Quotient
    <3> QED BY <3>2 DEF P
  <2> QED BY <2>1, <2>2 DEF Above, Node, M
<1>11. d - 1 \in 0..(d - 1) /\ (d - 1) + 1 = d
  BY <1>1
<1> QED BY <1>5, <1>6, <1>7, <1>8, <1>9, <1>10, <1>11 DEF M

\* A key of leaf l is below the nodes on that way.
LEMMA WayKeys ==
  ASSUME NEW d \in 1..HashBits, NEW l \in Nodes(d), l % 2 = 1, NEW k \in KeysAt(d, l), NEW n \in Nodes(d)
  PROVE  k \in KeysAt(d, n) <=> n = Above(l, Zeros[n])
<1> DEFINE M == l \div 2
           h == KeyHash[k]
<1>1. PICK z, m : IsAt(d, z, m) /\ n = Node(z, m)
  BY NodeForm
<1>2. Zeros[n] = z /\ z \in 0..(d - 1) /\ m \in Nat /\ z \in 0..31 /\ d \in 1..28 /\ HashBits \in 1..28 /\ d <= HashBits
  <2>1. Zeros[n] = z
    BY <1>1, NodeIs
  <2>2. m \in Nat
    BY <1>1, AtPowers
  <2>3. z \in 0..(d - 1)
    BY <1>1 DEF IsAt
  <2>4. d \in 1..28 /\ HashBits \in 1..28 /\ d <= HashBits
    BY Depths28
  <2> QED BY <2>1, <2>2, <2>3, <2>4
<1>3. k \in Key /\ h \in Hashes /\ h \in Nat
  BY KeysAssumption, Depths28 DEF KeysAt, Hashes
<1>4. IsAt(d, 0, M) /\ l = Node(0, M)
  <2>1. 0 \in 0..(d - 1) /\ Pow2(0) = 1 /\ M \in Nat
    BY <1>2, Internal DEF Pow2
  <2>2. M \div Pow2(0) = M
    BY <2>1
  <2> QED BY <2>1, <2>2, WayUp DEF Above
<1>5. h \div Pow2(Rest(d)) = M
  <2>1. LeafNode(h, d) \in SubRangeMin(Node(0, M))..(SubRangeMax(Node(0, M)) - 1)
    BY <1>4 DEF KeysAt
  <2>2. h \div Pow2(Rest(d - 0)) = M
    BY <1>3, <1>4, <2>1, BelowIs
  <2>3. d - 0 = d
    BY <1>2
  <2> QED BY <2>2, <2>3
<1>6. h \div Pow2(Rest(d - z)) = M \div Pow2(z)
  <2>1. /\ Rest(d) \in 0..32 /\ z \in 0..32 /\ Rest(d) \in Nat /\ z \in Nat
        /\ Rest(d - z) \in 0..32 /\ Rest(d - z) = Rest(d) + z
    BY <1>2 DEF Rest
  <2>2. Pow2(Rest(d)) \in Nat \ {0} /\ Pow2(z) \in Nat \ {0}
    BY <2>1, PowersGrow
  <2>3. Pow2(Rest(d - z)) = Pow2(Rest(d)) * Pow2(z)
    BY <2>1, PowersSum
  <2>4. (h \div Pow2(Rest(d))) \div Pow2(z) = h \div (Pow2(Rest(d)) * Pow2(z))
    BY <1>3, <2>2, QuotientTwice
  <2> QED BY <1>5, <2>3, <2>4
<1>7. k \in KeysAt(d, n) <=> M \div Pow2(z) = m
  BY <1>1, <1>3, <1>6, BelowIs DEF KeysAt
<1>8. M \div Pow2(z) \in Nat
  BY <1>2, WayUp, AtPowers
<1>9. n = Above(l, z) <=> M \div Pow2(z) = m
  <2>1. Above(l, z) = Node(z, M \div Pow2(z))
    BY DEF Above
  <2>2. Node(z, M \div Pow2(z)) = Node(z, m) => M \div Pow2(z) = m
    BY <1>1, <1>8, Halved
  <2> QED BY <1>1, <2>1, <2>2
<1> QED BY <1>2, <1>7, <1>9
-----------------------------------------------------------------------------
(* Folds *)

\* A non-empty set of the numbers up to n has a greatest element.
LEMMA MaxIs ==
  ASSUME NEW n \in Nat, NEW s \in SUBSET (1..n), s # {}
  PROVE  Max(s) \in s /\ \A y \in s : y <= Max(s)
<1> DEFINE U == {u \in Nat : \A x \in s : x <= u}
<1>1. n \in U /\ U \subseteq Nat
  OBVIOUS
<1>2. PICK m \in U : \A y \in U : m <= y
  <2> HIDE DEF U
  <2> QED BY <1>1, NatMin
<1>3. m \in s
  <2> SUFFICES ASSUME m \notin s PROVE FALSE
    OBVIOUS
  <2>1. m \in Nat /\ \A x \in s : x <= m - 1 /\ m - 1 >= 1
    BY <1>2
  <2>2. m - 1 \in Nat
    <3>1. PICK x \in s : TRUE
      OBVIOUS
    <3> QED BY <2>1, <3>1
  <2>3. m - 1 \in U
    BY <2>1, <2>2
  <2> QED BY <2>1, <2>3, <1>2
<1>4. \A y \in s : m >= y
  BY <1>2
<1> HIDE DEF U
<1>5. Max(s) \in s /\ \A y \in s : Max(s) >= y
  BY <1>3, <1>4, Zenon DEF Max
<1> QED BY <1>5

\* The greatest element of 1..i, without which the rest is 1..(i - 1).
LEMMA Interval ==
  ASSUME NEW i \in Nat, i > 0
  PROVE  Max(1..i) = i /\ (1..i) \ {i} = 1..(i - 1) /\ 1..i # {}
<1>1. 1..i \in SUBSET (1..i) /\ 1..i # {} /\ i \in 1..i
  OBVIOUS
<1>2. Max(1..i) \in 1..i /\ \A y \in 1..i : y <= Max(1..i)
  BY <1>1, MaxIs
<1> QED BY <1>1, <1>2

\* The recursion behind a fold of the steps F over 1..n has a solution.
Solves(g, n, b, F) ==
  \A s \in SUBSET (1..n) : g[s] = IF s = {} THEN b ELSE F[<<g[s \ {Max(s)}], Max(s)>>]

\* Every fold over 1..n has a solution: CHOOSE in the definition of a fold finds one.
LEMMA FoldExists ==
  ASSUME NEW n \in Nat, NEW St, NEW b \in St, NEW F \in [St \X (1..n) -> St]
  PROVE  \E g \in [SUBSET (1..n) -> St] : Solves(g, n, b, F)
<1> DEFINE small(k) == {s \in SUBSET (1..n) : Cardinality(s) <= k}
           SolvesSmall(k, g) == \A s \in small(k) :
                             g[s] = IF s = {} THEN b ELSE F[<<g[s \ {Max(s)}], Max(s)>>]
           K == {k \in 0..n : \E g \in [small(k) -> St] : SolvesSmall(k, g)}
<1>1. IsFiniteSet(1..n) /\ Cardinality(1..n) = n
  BY FS_Interval
<1>2. ASSUME NEW s \in SUBSET (1..n)
      PROVE  IsFiniteSet(s) /\ Cardinality(s) \in Nat /\ Cardinality(s) <= n
  <2>1. IsFiniteSet(s) /\ Cardinality(s) <= Cardinality(1..n)
    BY <1>1, FS_Subset, Zenon
  <2>2. Cardinality(s) \in Nat
    BY <2>1, FS_CardinalityType
  <2> QED BY <1>1, <2>1, <2>2
<1>3. ASSUME NEW s \in SUBSET (1..n), s # {}
      PROVE  /\ Max(s) \in 1..n /\ s \ {Max(s)} \in SUBSET (1..n)
             /\ Cardinality(s) > 0 /\ Cardinality(s \ {Max(s)}) = Cardinality(s) - 1
  <2>1. Max(s) \in s
    BY <1>3, MaxIs
  <2>2. Cardinality(s) # 0 /\ Cardinality(s) \in Nat /\ IsFiniteSet(s)
    BY <1>2, <1>3, FS_EmptySet
  <2>3. Cardinality(s \ {Max(s)}) = Cardinality(s) - 1
    BY <2>1, <2>2, FS_RemoveElement
  <2>4. Max(s) \in 1..n /\ s \ {Max(s)} \in SUBSET (1..n)
    BY <2>1
  <2>5. Cardinality(s) > 0
    BY <2>2
  <2> QED BY <2>3, <2>4, <2>5
<1>4. 0 \in K
  <2>1. ASSUME NEW s \in small(0) PROVE s = {}
    <3>1. s \in SUBSET (1..n) /\ Cardinality(s) <= 0
      OBVIOUS
    <3>2. ~(Cardinality(s) > 0)
      BY <1>2, <3>1
    <3> QED BY <1>3, <3>1, <3>2, Zenon
  <2> DEFINE g == [s \in small(0) |-> b]
  <2>2. g \in [small(0) -> St] /\ SolvesSmall(0, g)
    <3> HIDE DEF small
    <3> QED BY <2>1
  <2> HIDE DEF g, small, SolvesSmall
  <2> QED BY <2>2
<1>5. ASSUME NEW k \in 1..n, k - 1 \in K PROVE k \in K
  <2>1. PICK f \in [small(k - 1) -> St] : SolvesSmall(k - 1, f)
    BY <1>5
  <2>2. ASSUME NEW s \in small(k), s # {}
        PROVE  s \ {Max(s)} \in small(k - 1) /\ Max(s) \in 1..n
    BY <1>2, <1>3, <2>2
  <2>3. \A s \in small(k - 1) : s \in small(k)
    BY <1>2
  <2> DEFINE g == [s \in small(k) |-> IF s = {} THEN b ELSE F[<<f[s \ {Max(s)}], Max(s)>>]]
  <2> HIDE DEF small
  <2>4. g \in [small(k) -> St]
    BY <2>2
  <2>5. ASSUME NEW s \in small(k - 1) PROVE g[s] = f[s]
    BY <2>1, <2>3
  <2>6. SolvesSmall(k, g)
    <3> SUFFICES ASSUME NEW s \in small(k)
                 PROVE  g[s] = IF s = {} THEN b ELSE F[<<g[s \ {Max(s)}], Max(s)>>]
      OBVIOUS
    <3>1. CASE s = {}
      BY <3>1
    <3>2. CASE s # {}
      <4>1. g[s \ {Max(s)}] = f[s \ {Max(s)}]
        BY <2>2, <2>5, <3>2
      <4> HIDE DEF g
      <4>2. g[s] = F[<<f[s \ {Max(s)}], Max(s)>>]
        BY <3>2 DEF g
      <4> QED BY <3>2, <4>1, <4>2
    <3> QED BY <3>1, <3>2
  <2> HIDE DEF g, SolvesSmall
  <2> QED BY <2>4, <2>6
<1>6. n \in K
  <2> HIDE DEF K
  <2> QED BY <1>4, <1>5, Induct
<1>7. PICK g \in [small(n) -> St] : SolvesSmall(n, g)
  BY <1>6
<1>8. small(n) = SUBSET (1..n)
  BY <1>2
<1> HIDE DEF small
<1>9. g \in [SUBSET (1..n) -> St]
  BY <1>7, <1>8
<1>10. \A s \in SUBSET (1..n) : g[s] = IF s = {} THEN b ELSE F[<<g[s \ {Max(s)}], Max(s)>>]
  BY <1>7, <1>8
<1> QED BY <1>9, <1>10 DEF Solves
-----------------------------------------------------------------------------
(* Trees of sets of rows *)

Pairs == Key \X Value
Trees(d) == [Nodes(d) -> SUBSET Pairs]

\* The rows of W below a node, and the tree of W.
Reach(W, d, n) == {e \in W : e[1] \in KeysAt(d, n)}
TreeOf(d, W) == [n \in Nodes(d) |-> Reach(W, d, n)]

\* A tree is that of the rows W if each of its nodes has the rows of W below it.
LEMMA TreeIs ==
  ASSUME NEW d, NEW W \in SUBSET Pairs
  PROVE  /\ TreeOf(d, W) \in Trees(d)
         /\ \A t \in Trees(d) : (\A n \in Nodes(d) : t[n] = Reach(W, d, n)) => t = TreeOf(d, W)
<1>1. TreeOf(d, W) \in Trees(d)
  BY DEF TreeOf, Trees, Reach
<1>2. ASSUME NEW t \in Trees(d), \A n \in Nodes(d) : t[n] = Reach(W, d, n)
      PROVE  t = TreeOf(d, W)
  BY <1>2 DEF TreeOf, Trees
<1> QED BY <1>1, <1>2

\* Combining the hashes of the children of n.
LEMMA CombinedIs ==
  ASSUME NEW d \in 1..HashBits, NEW t \in Trees(d), NEW n \in Nodes(d)
  PROVE  /\ Combined(t, n) \in Trees(d)
         /\ \A m \in Nodes(d) : m # n \/ n % 2 = 1 => Combined(t, n)[m] = t[m]
         /\ \A W \in SUBSET Pairs :
              /\ n % 2 # 1
              /\ t[LeftChild(n)] = Reach(W, d, LeftChild(n))
              /\ t[RightChild(n)] = Reach(W, d, RightChild(n))
              => Combined(t, n)[n] = Reach(W, d, n)
<1>1. CASE n % 2 = 1
  BY <1>1 DEF Combined
<1>2. CASE n % 2 # 1
  <2> DEFINE l == LeftChild(n)
             r == RightChild(n)
  <2>1. l \in Nodes(d) /\ r \in Nodes(d)
    BY <1>2, Split
  <2>2. KeysAt(d, l) \cap KeysAt(d, r) = {} /\ KeysAt(d, l) \cup KeysAt(d, r) = KeysAt(d, n)
    BY <1>2, Split
  <2> HIDE DEF l, r
  <2>3. Combined(t, n) = [t EXCEPT ![n] = Xor(t[l], t[r])]
    BY <1>2 DEF Combined, l, r
  <2>4. t[l] \in SUBSET Pairs /\ t[r] \in SUBSET Pairs
    BY <2>1 DEF Trees
  <2>5. Xor(t[l], t[r]) \in SUBSET Pairs
    BY <2>4 DEF Xor
  <2>6. /\ Combined(t, n) \in Trees(d) /\ Combined(t, n)[n] = Xor(t[l], t[r])
        /\ \A m \in Nodes(d) : m # n => Combined(t, n)[m] = t[m]
    BY <2>3, <2>5 DEF Trees
  <2>7. ASSUME NEW W \in SUBSET Pairs, t[l] = Reach(W, d, l), t[r] = Reach(W, d, r)
        PROVE  Combined(t, n)[n] = Reach(W, d, n)
    <3>1. Xor(Reach(W, d, l), Reach(W, d, r)) = Reach(W, d, n)
      BY <2>2 DEF Xor, Reach
    <3> QED BY <2>6, <2>7, <3>1
  <2> QED BY <1>2, <2>6, <2>7 DEF l, r
<1> QED BY <1>1, <1>2

\* ParentNode leads from the root out of the tree and from other nodes to another.
LEMMA ParentType ==
  ASSUME NEW d \in 1..HashBits, NEW n \in Nodes(d)
  PROVE  /\ n # RootNode(d) => ParentNode(n) \in Nodes(d)
         /\ n = RootNode(d) => ParentNode(n) = Pow2(d)
         /\ RootNode(d) \in Nodes(d) /\ 1 \in Nodes(d) /\ Pow2(d) \notin Nodes(d)
<1>1. d \in 1..28 /\ Pow2(d) = 2 * Pow2(d - 1) /\ Pow2(d - 1) \in Nat \ {0}
  BY Depths28
<1>2. 1 \in Nodes(d) /\ 1 % 2 = 1 /\ Pow2(d) \notin Nodes(d)
  BY <1>1 DEF Nodes, NodeLimit
<1>3. ParentNode(RootNode(d)) = Pow2(d) /\ RootNode(d) \in Nodes(d)
  <2>1. d - 1 \in 0..(d - 1)
    BY <1>1
  <2> QED BY <1>2, <2>1, WayUp
<1>4. ASSUME n # RootNode(d) PROVE ParentNode(n) \in Nodes(d)
  <2>1. PICK z, m : IsAt(d, z, m) /\ n = Node(z, m)
    BY NodeForm
  <2>2. PICK j \in Nat : IsAt(d, z + 1, j) /\ (m = 2 * j \/ m = 2 * j + 1)
    BY <1>4, <2>1, ParentAt
  <2>3. ParentNode(n) = Node(z + 1, j)
    BY <2>1, <2>2, ParentIs
  <2> QED BY <2>2, <2>3, NodeIs
<1> QED BY <1>2, <1>3, <1>4

-----------------------------------------------------------------------------
(* UpdateLeafHash *)

Climb(d, s) ==
  IF s.node = ParentNode(RootNode(d)) THEN s
  ELSE [tree |-> Combined(s.tree, s.node), node |-> ParentNode(s.node)]

Climbing(d) == [tree : Trees(d), node : Nodes(d) \cup {Pow2(d)}]

\* One step of a climb.
LEMMA ClimbType ==
  ASSUME NEW d \in 1..HashBits, NEW s \in Climbing(d)
  PROVE  /\ Climb(d, s) \in Climbing(d)
         /\ s.node = Pow2(d) => Climb(d, s) = s
         /\ s.node # Pow2(d) => /\ s.node \in Nodes(d) /\ Climb(d, s).tree = Combined(s.tree, s.node)
                                /\ Climb(d, s).node = ParentNode(s.node)
<1>1. ParentNode(RootNode(d)) = Pow2(d)
  <2>1. RootNode(d) \in Nodes(d)
    <3>1. 1 \in Nodes(d)
      BY Depths28 DEF Nodes, NodeLimit
    <3> QED BY <3>1, ParentType
  <2> QED BY <2>1, ParentType
<1>2. CASE s.node = Pow2(d)
  BY <1>1, <1>2 DEF Climb
<1>3. CASE s.node # Pow2(d)
  <2>1. s.node \in Nodes(d) /\ s.tree \in Trees(d)
    BY <1>3 DEF Climbing
  <2>2. Combined(s.tree, s.node) \in Trees(d)
    BY <2>1, CombinedIs
  <2>3. ParentNode(s.node) \in Nodes(d) \cup {Pow2(d)}
    BY <2>1, ParentType
  <2>4. Climb(d, s) = [tree |-> Combined(s.tree, s.node), node |-> ParentNode(s.node)]
    BY <1>1, <1>3 DEF Climb
  <2> QED BY <1>3, <2>1, <2>2, <2>3, <2>4 DEF Climbing
<1> QED BY <1>2, <1>3

\* s are the steps that give leaf l the hash X and carry it up.
Climbs(s, d, t, l, X) ==
  /\ s[0] = [tree |-> [t EXCEPT ![l] = X], node |-> l]
  /\ \A i \in 1..(d + 1) : s[i] = Climb(d, s[i - 1])
  /\ UpdateLeafHash(d, t, l, X) = s[d + 1].tree

\* The hash of a leaf is carried up in d + 1 steps.
LEMMA ClimbSteps ==
  ASSUME NEW d \in 1..HashBits, NEW t \in Trees(d), NEW l \in Nodes(d), l % 2 = 1, NEW X \in SUBSET Pairs
  PROVE  \E s \in [0..(d + 1) -> Climbing(d)] : Climbs(s, d, t, l, X)
<1> DEFINE n == d + 1
           St == Climbing(d)
           b == [tree |-> [t EXCEPT ![l] = X], node |-> l]
           climb(s, i) ==
             IF s.node = ParentNode(RootNode(d)) THEN s
             ELSE [tree |-> Combined(s.tree, s.node), node |-> ParentNode(s.node)]
           q == Rounds(n)
           E(g) == g = [s \in SUBSET (1..n) |-> IF s = {} THEN b ELSE climb(g[s \ {Max(s)}], q[Max(s)])]
           h == CHOOSE g : E(g)
<1>1. n \in Nat /\ DOMAIN q = 1..n
  BY Depths28 DEF Rounds
<1>2. UpdateLeafHash(d, t, l, X) =
        (CHOOSE g : g = [s \in SUBSET (DOMAIN q) |-> IF s = {} THEN b ELSE climb(g[s \ {Max(s)}], q[Max(s)])])[DOMAIN q].tree
  <2>1. IsLeaf(d, l)
    BY Depths28 DEF IsLeaf, Nodes, NodeLimit
  <2> QED BY <2>1, ZenonT(60) DEF UpdateLeafHash, FoldLeft, MapThenFoldSet
<1> HIDE DEF q
<1>3. UpdateLeafHash(d, t, l, X) = h[1..n].tree
  BY <1>1, <1>2
<1>4. b \in St
  BY DEF Climbing, Trees
<1>5. ASSUME NEW s, NEW i PROVE climb(s, i) = Climb(d, s)
  BY DEF Climb
<1> HIDE DEF climb, b, n
<1>6. E(h)
  <2> DEFINE F == [z \in St \X (1..n) |-> Climb(d, z[1])]
  <2>1. F \in [St \X (1..n) -> St]
    BY ClimbType
  <2>2. PICK g \in [SUBSET (1..n) -> St] : Solves(g, n, b, F)
    <3> HIDE DEF F, St
    <3> QED BY <1>1, <1>4, <2>1, FoldExists
  <2>3. ASSUME NEW s \in SUBSET (1..n), s # {}
        PROVE  F[<<g[s \ {Max(s)}], Max(s)>>] = climb(g[s \ {Max(s)}], q[Max(s)])
    <3>1. Max(s) \in 1..n /\ g[s \ {Max(s)}] \in St
      BY <1>1, <2>2, <2>3, MaxIs
    <3> QED BY <1>5, <3>1
  <2>4. E(g)
    <3> HIDE DEF F, St
    <3> QED BY <2>2, <2>3 DEF Solves
  <2> HIDE DEF E
  <2> QED BY <2>4, Zenon
<1> HIDE DEF h
<1> DEFINE s == [i \in 0..n |-> h[1..i]]
<1>7. h[1..0] = b
  <2>1. 1..0 = {} /\ 1..0 \in SUBSET (1..n)
    OBVIOUS
  <2> QED BY <1>6, <2>1
<1>8. ASSUME NEW i \in 1..n PROVE h[1..i] = Climb(d, h[1..(i - 1)])
  <2>1. 1..i \in SUBSET (1..n) /\ i \in Nat /\ i > 0
    BY <1>1
  <2>2. Max(1..i) = i /\ (1..i) \ {i} = 1..(i - 1) /\ 1..i # {}
    BY <2>1, Interval
  <2> QED BY <1>5, <1>6, <2>1, <2>2
<1> DEFINE K == {i \in 0..n : h[1..i] \in St}
<1>9. \A i \in 0..n : i \in K
  <2>1. 0 \in K
    BY <1>1, <1>4, <1>7
  <2>2. ASSUME NEW i \in 1..n, i - 1 \in K PROVE i \in K
    BY <1>8, <2>2, ClimbType
  <2> HIDE DEF K
  <2> QED BY <1>1, <2>1, <2>2, Induct
<1>10. s \in [0..n -> St]
  BY <1>9
<1>11. s[0] = b /\ s[n] = h[1..n] /\ \A i \in 1..n : s[i] = Climb(d, s[i - 1])
  BY <1>1, <1>7, <1>8
<1> HIDE DEF s
<1> QED BY <1>3, <1>10, <1>11 DEF n, b, Climbs

\* UpdateLeafHash makes the tree of W if the leaf is given the rows of W below it and
\* the only nodes that were not right are the leaf and those above it.
LEMMA UpdateLeafHashIs ==
  ASSUME NEW d \in 1..HashBits, NEW t \in Trees(d), NEW l \in AllLeaves, NEW X \in SUBSET Pairs
  PROVE  /\ UpdateLeafHash(d, t, l, X) \in Trees(d)
         /\ l \notin Nodes(d) => UpdateLeafHash(d, t, l, X) = t
         /\ \A W \in SUBSET Pairs :
              /\ l \in Nodes(d) /\ X = Reach(W, d, l)
              /\ \A n \in Nodes(d) : t[n] = Reach(W, d, n) \/ n = Above(l, Zeros[n])
              => UpdateLeafHash(d, t, l, X) = TreeOf(d, W)
<1>1. l % 2 = 1 /\ l \in Nat /\ l > 0
  BY Depths28 DEF AllLeaves, Nodes, NodeLimit
<1>2. CASE l \notin Nodes(d)
  <2>1. ~IsLeaf(d, l)
    BY <1>1, <1>2, Depths28 DEF IsLeaf, Nodes, NodeLimit
  <2> QED BY <1>2, <2>1 DEF UpdateLeafHash
<1>3. CASE l \in Nodes(d)
  <2>0. PICK s \in [0..(d + 1) -> Climbing(d)] : Climbs(s, d, t, l, X)
    BY <1>1, <1>3, ClimbSteps
  <2>1. /\ s[0] = [tree |-> [t EXCEPT ![l] = X], node |-> l]
        /\ \A i \in 1..(d + 1) : s[i] = Climb(d, s[i - 1])
        /\ UpdateLeafHash(d, t, l, X) = s[d + 1].tree
    BY <2>0 DEF Climbs
  <2>2. d \in Nat /\ d > 0 /\ \A i \in 0..(d + 1) : s[i] \in Climbing(d) /\ s[i].tree \in Trees(d)
    BY <2>1, Depths28 DEF Climbing
  <2>3. UpdateLeafHash(d, t, l, X) \in Trees(d)
    BY <2>1, <2>2
  <2>4. ASSUME NEW W \in SUBSET Pairs, X = Reach(W, d, l),
               \A n \in Nodes(d) : t[n] = Reach(W, d, n) \/ n = Above(l, Zeros[n])
        PROVE  UpdateLeafHash(d, t, l, X) = TreeOf(d, W)
    <3> DEFINE Right(i, n) == \/ s[i].tree[n] = Reach(W, d, n)
                              \/ n = Above(l, Zeros[n]) /\ Zeros[n] >= i /\ Zeros[n] > 0
               K == {i \in 0..d : s[i].node = Above(l, i) /\ \A n \in Nodes(d) : Right(i, n)}
    <3>1. 0 \in K
      <4>1. s[0].node = Above(l, 0)
        BY <1>1, <1>3, <2>1, WayUp
      <4>2. ASSUME NEW n \in Nodes(d) PROVE Right(0, n)
        <5>1. Zeros[n] \in 0..(d - 1) /\ Zeros[l] = 0
          BY <1>1, <1>3, Internal
        <5>2. s[0].tree[n] = IF n = l THEN X ELSE t[n]
          BY <1>3, <2>1 DEF Trees
        <5>3. n = Above(l, 0) => n = l
          BY <1>1, <1>3, WayUp
        <5> QED BY <2>4, <5>1, <5>2, <5>3
      <4> QED BY <2>2, <4>1, <4>2
    <3>2. ASSUME NEW i \in 1..d, i - 1 \in K PROVE i \in K
      <4> DEFINE j == i - 1
                 a == Above(l, j)
      <4>1. j \in 0..(d - 1) /\ i \in 0..d /\ i = j + 1 /\ i \in 1..(d + 1) /\ j \in 0..(d + 1)
        BY <2>2
      <4> HIDE DEF j
      <4>2. a \in Nodes(d) /\ Zeros[a] = j /\ (a % 2 = 1 <=> j = 0) /\ ParentNode(a) = Above(l, i)
        BY <1>1, <1>3, <4>1, WayUp
      <4>3. s[j].node = a /\ \A n \in Nodes(d) : Right(j, n)
        BY <3>2 DEF j
      <4>4. s[i] = Climb(d, s[j]) /\ s[j] \in Climbing(d) /\ s[j].tree \in Trees(d)
        BY <2>1, <2>2, <4>1 DEF j
      <4> HIDE DEF a
      <4>5. a # Pow2(d)
        BY <4>2, ParentType
      <4>6. s[i].tree = Combined(s[j].tree, a) /\ s[i].node = Above(l, i)
        BY <4>2, <4>3, <4>4, <4>5, ClimbType
      <4>7. ASSUME NEW n \in Nodes(d) PROVE Right(i, n)
        <5>1. Zeros[n] \in 0..(d - 1)
          BY Internal
        <5>2. CASE n # a
          <6>1. s[i].tree[n] = s[j].tree[n]
            BY <4>2, <4>4, <4>6, <5>2, CombinedIs
          <6>2. n = Above(l, Zeros[n]) => Zeros[n] # j
            BY <5>2 DEF a
          <6> QED BY <4>1, <4>3, <5>1, <6>1, <6>2
        <5>3. CASE n = a /\ j = 0
          <6>1. s[i].tree[n] = s[j].tree[n]
            BY <4>2, <4>4, <4>6, <5>3, CombinedIs
          <6> QED BY <4>2, <4>3, <5>3, <6>1
        <5>4. CASE n = a /\ j # 0
          <6>1. a % 2 # 1
            BY <4>2, <5>4
          <6>2. /\ LeftChild(a) \in Nodes(d) /\ Zeros[LeftChild(a)] = j - 1
                /\ RightChild(a) \in Nodes(d) /\ Zeros[RightChild(a)] = j - 1
            BY <4>2, <6>1, Split
          <6>3. /\ s[j].tree[LeftChild(a)] = Reach(W, d, LeftChild(a))
                /\ s[j].tree[RightChild(a)] = Reach(W, d, RightChild(a))
            <7>1. ~(j - 1 >= j)
              BY <4>1
            <7> QED BY <4>3, <6>2, <7>1
          <6>4. s[i].tree[a] = Reach(W, d, a)
            BY <4>2, <4>4, <4>6, <6>1, <6>3, CombinedIs
          <6> QED BY <5>4, <6>4
        <5> QED BY <5>2, <5>3, <5>4
      <4> HIDE DEF Right
      <4> QED BY <4>1, <4>6, <4>7
    <3>3. d \in K
      <4> HIDE DEF K
      <4>1. \A i \in 0..d : i \in K
        BY <2>2, <3>1, <3>2, Induct
      <4> QED BY <2>2, <4>1
    <3>4. ASSUME NEW n \in Nodes(d) PROVE s[d].tree[n] = Reach(W, d, n)
      <4>1. Zeros[n] \in 0..(d - 1)
        BY Internal
      <4>2. Right(d, n)
        BY <3>3
      <4> QED BY <2>2, <4>1, <4>2
    <3>5. s[d + 1] = s[d]
      <4>1. s[d].node = Pow2(d)
        BY <1>1, <1>3, <3>3, WayUp
      <4>2. d \in 0..(d + 1) /\ d + 1 \in 1..(d + 1) /\ (d + 1) - 1 = d
        BY <2>2
      <4>3. s[d + 1] = Climb(d, s[d]) /\ s[d] \in Climbing(d)
        BY <2>1, <2>2, <4>2
      <4> QED BY <4>1, <4>3, ClimbType
    <3>6. d \in 0..(d + 1)
      BY <2>2
    <3>7. s[d].tree = TreeOf(d, W)
      BY <2>2, <3>4, <3>6, TreeIs
    <3> QED BY <2>1, <3>5, <3>7
  <2> QED BY <1>3, <2>3, <2>4
<1> QED BY <1>2, <1>3
-----------------------------------------------------------------------------
(* Update *)

\* A fold whose steps F stay within St, and these steps one after another.
IsFold(h, n, b, St, F) ==
  \A s \in SUBSET (1..n) :
    /\ s = {} => h[s] = b
    /\ s # {} /\ h[s \ {Max(s)}] \in St => h[s] = F[<<h[s \ {Max(s)}], Max(s)>>]
FoldIs(h, n, b, St, F) ==
  /\ h[1..0] = b
  /\ \A i \in 0..n : h[1..i] \in St
  /\ \A i \in 1..n : h[1..(i - 1)] \in St /\ h[1..i] = F[<<h[1..(i - 1)], i>>]

\* A fold goes through its steps in order.
LEMMA FoldSteps ==
  ASSUME NEW n \in Nat, NEW St, NEW b \in St, NEW F \in [St \X (1..n) -> St], NEW h, IsFold(h, n, b, St, F)
  PROVE  FoldIs(h, n, b, St, F)
<1>0. \A s \in SUBSET (1..n) :
        /\ s = {} => h[s] = b
        /\ s # {} /\ h[s \ {Max(s)}] \in St => h[s] = F[<<h[s \ {Max(s)}], Max(s)>>]
  BY DEF IsFold
<1> DEFINE K == {i \in 0..n : h[1..i] \in St}
<1>1. h[1..0] = b
  <2>1. 1..0 = {} /\ 1..0 \in SUBSET (1..n)
    OBVIOUS
  <2> QED BY <1>0, <2>1
<1>2. ASSUME NEW i \in 1..n, h[1..(i - 1)] \in St
      PROVE  h[1..i] = F[<<h[1..(i - 1)], i>>] /\ h[1..i] \in St
  <2>1. 1..i \in SUBSET (1..n) /\ i \in Nat /\ i > 0
    OBVIOUS
  <2>2. Max(1..i) = i /\ (1..i) \ {i} = 1..(i - 1) /\ 1..i # {}
    BY <2>1, Interval
  <2>3. h[1..i] = F[<<h[1..(i - 1)], i>>]
    BY <1>0, <1>2, <2>1, <2>2
  <2> QED BY <1>2, <2>3
<1>3. \A i \in 0..n : i \in K
  <2>1. 0 \in K
    BY <1>1
  <2>2. ASSUME NEW i \in 1..n, i - 1 \in K PROVE i \in K
    <3>1. h[1..(i - 1)] \in St
      BY <2>2
    <3>2. h[1..i] \in St
      BY <1>2, <3>1, Zenon
    <3> QED BY <3>2
  <2> HIDE DEF K
  <2> QED BY <2>1, <2>2, Induct
<1>4. \A i \in 1..n : h[1..(i - 1)] \in St
  BY <1>3
<1> QED BY <1>1, <1>2, <1>3, <1>4 DEF FoldIs

AtLeaf(u, x) == [u EXCEPT ![x.leaf] = Xor(Xor(@, x.old), x.new)]
LeafDiffs(d) == [leaf : Nodes(d), old : SUBSET Pairs, new : SUBSET Pairs]
Rounding(d) == [tree : Trees(d), queue : Seq(Nodes(d))]

\* Changing the hash of a leaf leaves the rest of the tree alone.
LEMMA AtLeafType ==
  ASSUME NEW d, NEW u \in Trees(d), NEW x \in LeafDiffs(d)
  PROVE  /\ AtLeaf(u, x) \in Trees(d)
         /\ AtLeaf(u, x)[x.leaf] = Xor(Xor(u[x.leaf], x.old), x.new)
         /\ \A n \in Nodes(d) : n # x.leaf => AtLeaf(u, x)[n] = u[n]
<1> DEFINE y == Xor(Xor(u[x.leaf], x.old), x.new)
<1>1. x.leaf \in Nodes(d) /\ u[x.leaf] \in SUBSET Pairs /\ x.old \in SUBSET Pairs /\ x.new \in SUBSET Pairs
  BY DEF LeafDiffs, Trees
<1>2. y \in SUBSET Pairs
  BY <1>1 DEF Xor
<1> HIDE DEF y
<1>3. AtLeaf(u, x) = [u EXCEPT ![x.leaf] = y]
  BY DEF AtLeaf, y
<1> QED BY <1>1, <1>2, <1>3 DEF Trees, y

\* A round of the queue of Update combines the children of its first node.
LEMMA RoundType ==
  ASSUME NEW d \in 1..HashBits, NEW m \in Nat, NEW s \in Rounding(d)
  PROVE  /\ UpdateRound(d, m, s) \in Rounding(d)
         /\ s.queue = <<>> => UpdateRound(d, m, s) = s
         /\ s.queue # <<>> =>
              /\ Head(s.queue) \in Nodes(d)
              /\ UpdateRound(d, m, s).tree = Combined(s.tree, Head(s.queue))
              /\ Head(s.queue) = RootNode(d) => UpdateRound(d, m, s).queue = Tail(s.queue)
              /\ Head(s.queue) # RootNode(d) /\ Len(Tail(s.queue)) # m =>
                   UpdateRound(d, m, s).queue = Append(Tail(s.queue), ParentNode(Head(s.queue)))
<1>1. s.tree \in Trees(d) /\ s.queue \in Seq(Nodes(d)) /\ s = [tree |-> s.tree, queue |-> s.queue]
  BY DEF Rounding
<1>2. CASE s.queue = <<>>
  BY <1>2 DEF UpdateRound
<1>3. CASE s.queue # <<>>
  <2> DEFINE n == Head(s.queue)
             r == Tail(s.queue)
  <2>1. n \in Nodes(d) /\ r \in Seq(Nodes(d))
    BY <1>1, <1>3
  <2>2. UpdateRound(d, m, s) =
          [tree |-> Combined(s.tree, n),
           queue |-> IF n # RootNode(d) THEN Enqueue(r, m, ParentNode(n)) ELSE r]
    BY <1>3 DEF UpdateRound
  <2> HIDE DEF n, r
  <2>3. Combined(s.tree, n) \in Trees(d)
    BY <1>1, <2>1, CombinedIs
  <2>4. n # RootNode(d) => ParentNode(n) \in Nodes(d)
    BY <2>1, ParentType
  <2>5. n # RootNode(d) => Enqueue(r, m, ParentNode(n)) \in Seq(Nodes(d))
    BY <2>1, <2>4 DEF Enqueue
  <2>6. UpdateRound(d, m, s) \in Rounding(d)
    BY <2>1, <2>2, <2>3, <2>5 DEF Rounding
  <2> QED BY <1>3, <2>1, <2>2, <2>6 DEF Enqueue, n, r
<1> QED BY <1>2, <1>3

\* u are the trees after each change of a leaf, s the rounds that carry them up.
Updates(u, s, d, t, m, q) ==
  /\ u[0] = t /\ \A i \in 1..m : u[i] = AtLeaf(u[i - 1], q[i])
  /\ s[0] = [tree |-> u[m], queue |-> [i \in 1..m |-> q[i].leaf]]
  /\ \A i \in 1..(m * d) : s[i] = UpdateRound(d, m, s[i - 1])
  /\ Update(d, t, q) = s[m * d].tree

\* Update is the changes of its leaves and then the rounds of its queue.
LEMMA UpdateSteps ==
  ASSUME NEW d \in 1..HashBits, NEW t \in Trees(d), NEW m \in Nat, NEW q \in [1..m -> LeafDiffs(d)]
  PROVE  \E u \in [0..m -> Trees(d)] : \E s \in [0..(m * d) -> Rounding(d)] : Updates(u, s, d, t, m, q)
<1> DEFINE n == m * d
           r == Rounds(n)
           E1(g) == g = [a \in SUBSET (DOMAIN q) |-> IF a = {} THEN t ELSE AtLeaf(g[a \ {Max(a)}], q[Max(a)])]
           h1 == CHOOSE g : E1(g)
           b == [tree |-> h1[DOMAIN q], queue |-> [i \in 1..Len(q) |-> q[i].leaf]]
           E2(g) == g = [a \in SUBSET (DOMAIN r) |-> IF a = {} THEN b ELSE UpdateRound(d, Len(q), g[a \ {Max(a)}])]
           h2 == CHOOSE g : E2(g)
<1>1. m \in Nat /\ n \in Nat /\ DOMAIN r = 1..n /\ DOMAIN q = 1..m
  BY Depths28 DEF Rounds
<1>2. Len(q) = m
  <2>1. q \in Seq(LeafDiffs(d))
    BY <1>1
  <2> QED BY <1>1, <2>1
<1>3. Update(d, t, q) = h2[DOMAIN r].tree
  <2>1. Update(d, t, q) =
          (CHOOSE g : g = [a \in SUBSET (DOMAIN Rounds(Len(q) * d)) |->
             IF a = {}
             THEN [tree |-> (CHOOSE f : f = [a1 \in SUBSET (DOMAIN q) |->
                              IF a1 = {} THEN t
                              ELSE [f[a1 \ {Max(a1)}] EXCEPT ![q[Max(a1)].leaf] =
                                      Xor(Xor(@, q[Max(a1)].old), q[Max(a1)].new)]])[DOMAIN q],
                   queue |-> [i \in 1..Len(q) |-> q[i].leaf]]
             ELSE UpdateRound(d, Len(q), g[a \ {Max(a)}])])[DOMAIN Rounds(Len(q) * d)].tree
    BY ZenonT(60) DEF Update, FoldLeft, MapThenFoldSet
  <2> QED BY <1>2, <2>1, ZenonT(60) DEF AtLeaf
<1> DEFINE St1 == Trees(d)
           F1 == [z \in St1 \X (1..m) |-> AtLeaf(z[1], q[z[2]])]
<1>4. F1 \in [St1 \X (1..m) -> St1]
  <2> SUFFICES ASSUME NEW z \in St1 \X (1..m) PROVE AtLeaf(z[1], q[z[2]]) \in St1
    OBVIOUS
  <2>1. z[1] \in St1 /\ q[z[2]] \in LeafDiffs(d)
    OBVIOUS
  <2> QED BY <2>1, AtLeafType
<1>5. \A x \in St1, i \in 1..m : F1[<<x, i>>] = AtLeaf(x, q[i])
  <2> HIDE DEF St1
  <2> QED OBVIOUS
<1> HIDE DEF F1, St1
<1>6. E1(h1)
  <2>1. PICK g \in [SUBSET (1..m) -> St1] : Solves(g, m, t, F1)
    BY <1>1, <1>4, FoldExists DEF St1
  <2>2. ASSUME NEW a \in SUBSET (1..m), a # {}
        PROVE  F1[<<g[a \ {Max(a)}], Max(a)>>] = AtLeaf(g[a \ {Max(a)}], q[Max(a)])
    BY <1>1, <1>5, <2>1, <2>2, MaxIs
  <2>3. E1(g)
    BY <1>1, <2>1, <2>2 DEF Solves
  <2> HIDE DEF E1
  <2> QED BY <2>3, Zenon
<1> HIDE DEF h1
<1>7. /\ h1[1..0] = t
      /\ \A i \in 0..m : h1[1..i] \in St1
      /\ \A i \in 1..m : h1[1..i] = AtLeaf(h1[1..(i - 1)], q[i])
  <2>1. ASSUME NEW a \in SUBSET (1..m)
        PROVE  /\ a = {} => h1[a] = t
               /\ a # {} /\ h1[a \ {Max(a)}] \in St1 => h1[a] = F1[<<h1[a \ {Max(a)}], Max(a)>>]
    <3>1. a # {} => Max(a) \in 1..m
      BY <1>1, MaxIs
    <3> QED BY <1>1, <1>5, <1>6, <3>1
  <2>2. t \in St1
    BY DEF St1
  <2>3. FoldIs(h1, m, t, St1, F1)
    <3>1. IsFold(h1, m, t, St1, F1)
      BY <2>1 DEF IsFold
    <3> QED BY <1>1, <1>4, <2>2, <3>1, FoldSteps
  <2> QED BY <1>5, <2>3 DEF FoldIs
<1>8. b = [tree |-> h1[1..m], queue |-> [i \in 1..m |-> q[i].leaf]] /\ b \in Rounding(d)
  <2>1. b = [tree |-> h1[1..m], queue |-> [i \in 1..m |-> q[i].leaf]]
    BY <1>1, <1>2
  <2>2. h1[1..m] \in Trees(d)
    BY <1>1, <1>7 DEF St1
  <2>3. [i \in 1..m |-> q[i].leaf] \in Seq(Nodes(d))
    BY <1>1 DEF LeafDiffs
  <2> QED BY <2>1, <2>2, <2>3 DEF Rounding
<1> HIDE DEF b
<1> DEFINE St2 == Rounding(d)
           F2 == [z \in St2 \X (1..n) |-> UpdateRound(d, m, z[1])]
<1>9. F2 \in [St2 \X (1..n) -> St2] /\ \A x \in St2, i \in 1..n : F2[<<x, i>>] = UpdateRound(d, m, x)
  <2>1. ASSUME NEW z \in St2 \X (1..n) PROVE UpdateRound(d, m, z[1]) \in St2
    BY RoundType
  <2> HIDE DEF St2, n
  <2> QED BY <2>1
<1> HIDE DEF F2, St2, n
<1>10. E2(h2)
  <2>1. PICK g \in [SUBSET (1..n) -> St2] : Solves(g, n, b, F2)
    BY <1>1, <1>8, <1>9, FoldExists DEF St2
  <2>2. ASSUME NEW a \in SUBSET (1..n), a # {}
        PROVE  F2[<<g[a \ {Max(a)}], Max(a)>>] = UpdateRound(d, m, g[a \ {Max(a)}])
    BY <1>1, <1>9, <2>1, <2>2, MaxIs
  <2>3. E2(g)
    BY <1>1, <1>2, <2>1, <2>2 DEF Solves
  <2> HIDE DEF E2
  <2> QED BY <2>3, Zenon
<1> HIDE DEF h2
<1>11. /\ h2[1..0] = b
       /\ \A i \in 0..n : h2[1..i] \in St2
       /\ \A i \in 1..n : h2[1..i] = UpdateRound(d, m, h2[1..(i - 1)])
  <2>1. ASSUME NEW a \in SUBSET (1..n)
        PROVE  /\ a = {} => h2[a] = b
               /\ a # {} /\ h2[a \ {Max(a)}] \in St2 => h2[a] = F2[<<h2[a \ {Max(a)}], Max(a)>>]
    <3>1. a # {} => Max(a) \in 1..n
      BY <1>1, MaxIs
    <3> QED BY <1>1, <1>2, <1>9, <1>10, <3>1
  <2>2. b \in St2
    BY <1>8 DEF St2
  <2>3. FoldIs(h2, n, b, St2, F2)
    <3>1. IsFold(h2, n, b, St2, F2)
      BY <2>1 DEF IsFold
    <3> QED BY <1>1, <1>9, <2>2, <3>1, FoldSteps
  <2> QED BY <1>9, <2>3 DEF FoldIs
<1> DEFINE u == [i \in 0..m |-> h1[1..i]]
           s == [i \in 0..n |-> h2[1..i]]
<1>12. u \in [0..m -> Trees(d)] /\ u[0] = t /\ u[m] = h1[1..m] /\ \A i \in 1..m : u[i] = AtLeaf(u[i - 1], q[i])
  <2>1. m \in Nat /\ 0 \in 0..m /\ m \in 0..m
    BY <1>1
  <2>2. \A i \in 0..m : h1[1..i] \in Trees(d)
    BY <1>7 DEF St1
  <2>3. u \in [0..m -> Trees(d)]
    BY <2>2
  <2>4. u[0] = t /\ u[m] = h1[1..m]
    BY <1>7, <2>1
  <2>5. ASSUME NEW i \in 1..m PROVE u[i] = AtLeaf(u[i - 1], q[i])
    <3>1. i \in 0..m /\ i - 1 \in 0..m
      BY <2>1
    <3>2. u[i] = h1[1..i] /\ u[i - 1] = h1[1..(i - 1)]
      BY <3>1
    <3> QED BY <1>7, <3>2
  <2> QED BY <2>3, <2>4, <2>5
<1>13. s \in [0..n -> Rounding(d)] /\ s[0] = b /\ s[n] = h2[1..n] /\ \A i \in 1..n : s[i] = UpdateRound(d, m, s[i - 1])
  <2>1. n \in Nat /\ 0 \in 0..n /\ n \in 0..n
    BY <1>1
  <2>2. \A i \in 0..n : h2[1..i] \in Rounding(d)
    BY <1>11 DEF St2
  <2>3. s \in [0..n -> Rounding(d)]
    BY <2>2
  <2>4. s[0] = b /\ s[n] = h2[1..n]
    BY <1>11, <2>1
  <2>5. ASSUME NEW i \in 1..n PROVE s[i] = UpdateRound(d, m, s[i - 1])
    <3>1. i \in 0..n /\ i - 1 \in 0..n
      BY <2>1
    <3>2. s[i] = h2[1..i] /\ s[i - 1] = h2[1..(i - 1)]
      BY <3>1
    <3> QED BY <1>11, <3>2
  <2> QED BY <2>3, <2>4, <2>5
<1>14. Update(d, t, q) = s[n].tree
  BY <1>1, <1>3, <1>13
<1> HIDE DEF u, s
<1>15. Updates(u, s, d, t, m, q)
  BY <1>8, <1>12, <1>13, <1>14 DEF Updates, n
<1> QED BY <1>12, <1>13, <1>15 DEF n
\* The rows of a content, and those of one key.
HashesOf(c) == {e \in Pairs : c[e[1]] = e[2]}

\* The hash of a row.
LEMMA RowsAre ==
  ASSUME NEW k \in Key, NEW v
  PROVE  RowHash(k, v) \in SUBSET Pairs /\ \A e \in Pairs : e \in RowHash(k, v) <=> e[1] = k /\ e[2] = v
<1>1. RowHash(k, v) \in SUBSET Pairs
  BY DEF RowHash, Pairs
<1>2. ASSUME NEW e \in Pairs PROVE e \in RowHash(k, v) <=> e[1] = k /\ e[2] = v
  <2>1. e[1] \in Key /\ e[2] \in Value /\ e = <<e[1], e[2]>>
    BY DEF Pairs
  <2> QED BY <2>1 DEF RowHash
<1> QED BY <1>1, <1>2

\* The changes q of the keys K turn the content c into f.
Turns(d, m, q, K, c, f) ==
  /\ \A i, j \in 1..m : K[i] = K[j] => i = j
  /\ \A i \in 1..m : /\ q[i].leaf = LeafAt(d, K[i])
                     /\ \/ q[i].old = RowHash(K[i], c[K[i]]) /\ q[i].new = RowHash(K[i], f[K[i]])
                        \/ q[i].old = RowHash(K[i], f[K[i]]) /\ q[i].new = RowHash(K[i], c[K[i]])
  /\ \A k \in Key : (\A i \in 1..m : K[i] # k) => f[k] = c[k]

\* Once all changes are entered the leaves are those of f.
LEMMA LeavesAre ==
  ASSUME NEW d \in 1..HashBits, NEW m \in Nat, NEW q \in [1..m -> LeafDiffs(d)], NEW K \in [1..m -> Key],
         NEW c, NEW f, Turns(d, m, q, K, c, f),
         NEW u \in [0..m -> Trees(d)], u[0] = TreeOf(d, HashesOf(c)),
         \A i \in 1..m : u[i] = AtLeaf(u[i - 1], q[i])
  PROVE  \A n \in Nodes(d) : u[m][n] = Reach(HashesOf(IF n % 2 = 1 THEN f ELSE c), d, n)
<1> DEFINE Mid(i) == [k \in Key |-> IF \E j \in 1..i : K[j] = k THEN f[k] ELSE c[k]]
           Right(i) == \A n \in Nodes(d) : u[i][n] = IF n % 2 = 1 THEN Reach(HashesOf(Mid(i)), d, n)
                                                     ELSE Reach(HashesOf(c), d, n)
           S == {i \in 0..m : Right(i)}
<1>1. ASSUME NEW n \in Nodes(d), NEW g, NEW h, \A k \in KeysAt(d, n) : g[k] = h[k]
      PROVE  Reach(HashesOf(g), d, n) = Reach(HashesOf(h), d, n)
  BY <1>1 DEF Reach, HashesOf
<1>2. 0 \in S
  <2>1. ASSUME NEW n \in Nodes(d) PROVE u[0][n] = Reach(HashesOf(c), d, n)
    BY DEF TreeOf
  <2>2. \A n \in Nodes(d) : Reach(HashesOf(Mid(0)), d, n) = Reach(HashesOf(c), d, n)
    <3> SUFFICES ASSUME NEW n \in Nodes(d) PROVE Reach(HashesOf(Mid(0)), d, n) = Reach(HashesOf(c), d, n)
      OBVIOUS
    <3>1. \A k \in KeysAt(d, n) : Mid(0)[k] = c[k]
      BY DEF KeysAt
    <3> HIDE DEF Mid
    <3> QED BY <1>1, <3>1
  <2> HIDE DEF Mid
  <2> QED BY <2>1, <2>2
<1>3. ASSUME NEW i \in 1..m, i - 1 \in S PROVE i \in S
  <2> DEFINE x == q[i]
             k0 == K[i]
             l == x.leaf
             a == RowHash(k0, c[k0])
             b == RowHash(k0, f[k0])
  <2>1. x \in LeafDiffs(d) /\ k0 \in Key /\ i - 1 \in 0..m /\ u[i - 1] \in Trees(d) /\ u[i] = AtLeaf(u[i - 1], x)
    OBVIOUS
  <2>2. l \in Nodes(d) /\ l % 2 = 1 /\ l = LeafAt(d, k0)
    <3>1. l = LeafAt(d, k0)
      BY DEF Turns
    <3>2. LeafAt(d, k0) \in Nodes(d) /\ LeafAt(d, k0) % 2 = 1
      BY <2>1, LeafIs
    <3> QED BY <3>1, <3>2
  <2>3. (x.old = a /\ x.new = b) \/ (x.old = b /\ x.new = a)
    BY DEF Turns
  <2>4. /\ u[i][l] = Xor(Xor(u[i - 1][l], x.old), x.new)
        /\ \A n \in Nodes(d) : n # l => u[i][n] = u[i - 1][n]
    BY <2>1, AtLeafType
  <2>5. Mid(i - 1)[k0] = c[k0] /\ Mid(i)[k0] = f[k0]
    <3>1. ~\E j \in 1..(i - 1) : K[j] = k0
      BY DEF Turns
    <3>2. \E j \in 1..i : K[j] = k0
      OBVIOUS
    <3> QED BY <2>1, <3>1, <3>2
  <2>6. \A k \in Key : k # k0 => Mid(i)[k] = Mid(i - 1)[k]
    <3> SUFFICES ASSUME NEW k \in Key, k # k0 PROVE Mid(i)[k] = Mid(i - 1)[k]
      OBVIOUS
    <3>1. (\E j \in 1..i : K[j] = k) <=> (\E j \in 1..(i - 1) : K[j] = k)
      OBVIOUS
    <3> QED BY <3>1
  <2>7. \A n \in Nodes(d) : u[i - 1][n] = IF n % 2 = 1 THEN Reach(HashesOf(Mid(i - 1)), d, n)
                                          ELSE Reach(HashesOf(c), d, n)
    BY <1>3
  <2>8. a \in SUBSET Pairs /\ \A e \in Pairs : e \in a <=> e[1] = k0 /\ e[2] = c[k0]
    BY <2>1, RowsAre
  <2>9. b \in SUBSET Pairs /\ \A e \in Pairs : e \in b <=> e[1] = k0 /\ e[2] = f[k0]
    BY <2>1, RowsAre
  <2> HIDE DEF Mid, x, k0, l, a, b
  <2>10. ASSUME NEW n \in Nodes(d), n # l, n % 2 = 1
         PROVE  u[i][n] = Reach(HashesOf(Mid(i)), d, n)
    <3>1. \A k \in KeysAt(d, n) : k # k0 /\ k \in Key
      BY <2>2, <2>10, LeafKeys
    <3>2. \A k \in KeysAt(d, n) : Mid(i)[k] = Mid(i - 1)[k]
      BY <2>6, <3>1
    <3>3. Reach(HashesOf(Mid(i)), d, n) = Reach(HashesOf(Mid(i - 1)), d, n)
      BY <1>1, <3>2
    <3> QED BY <2>4, <2>7, <2>10, <3>3
  <2>11. u[i][l] = Reach(HashesOf(Mid(i)), d, l)
    <3> DEFINE g == Mid(i - 1)
               h == Mid(i)
               R == Reach(HashesOf(g), d, l)
    <3>1. u[i - 1][l] = R
      BY <2>2, <2>7
    <3>2. k0 \in KeysAt(d, l)
      BY <2>1, <2>2, LeafKeys
    <3>3. ASSUME NEW e \in Pairs
          PROVE  e \in Xor(Xor(R, x.old), x.new) <=> e \in Reach(HashesOf(h), d, l)
      <4>1. e[1] \in Key
        BY DEF Pairs
      <4>2. e \in R <=> e[1] \in KeysAt(d, l) /\ g[e[1]] = e[2]
        BY DEF Reach, HashesOf
      <4>3. e \in Reach(HashesOf(h), d, l) <=> e[1] \in KeysAt(d, l) /\ h[e[1]] = e[2]
        BY DEF Reach, HashesOf
      <4> HIDE DEF R, g, h
      <4>4. CASE e[1] = k0
        <5>1. (e \in R <=> e \in a) /\ (e \in Reach(HashesOf(h), d, l) <=> e \in b)
          BY <2>5, <2>8, <2>9, <3>2, <4>2, <4>3, <4>4 DEF g, h
        <5> QED BY <2>3, <5>1 DEF Xor
      <4>5. CASE e[1] # k0
        <5>1. h[e[1]] = g[e[1]]
          BY <2>6, <4>1, <4>5 DEF g, h
        <5>2. e \notin a /\ e \notin b
          BY <2>8, <2>9, <4>5
        <5> QED BY <2>3, <4>2, <4>3, <5>1, <5>2 DEF Xor
      <4> QED BY <4>4, <4>5
    <3>4. Xor(Xor(R, x.old), x.new) \in SUBSET Pairs
      BY <2>3, <2>8, <2>9 DEF Xor, Reach, HashesOf
    <3>5. Reach(HashesOf(h), d, l) \in SUBSET Pairs
      BY DEF Reach, HashesOf
    <3> HIDE DEF R, h
    <3>6. Xor(Xor(R, x.old), x.new) = Reach(HashesOf(h), d, l)
      BY <3>3, <3>4, <3>5
    <3> QED BY <2>4, <3>1, <3>6 DEF h
  <2>12. ASSUME NEW n \in Nodes(d), n % 2 # 1 PROVE u[i][n] = Reach(HashesOf(c), d, n)
    BY <2>2, <2>4, <2>7, <2>12
  <2>13. Right(i)
    BY <2>10, <2>11, <2>12
  <2> HIDE DEF Right
  <2> QED BY <2>13
<1>4. Right(m)
  <2> HIDE DEF S
  <2>1. \A i \in 0..m : i \in S
    BY <1>2, <1>3, Induct
  <2>2. m \in S
    BY <2>1
  <2> QED BY <2>2 DEF S
<1>5. \A n \in Nodes(d) : Reach(HashesOf(Mid(m)), d, n) = Reach(HashesOf(f), d, n)
  <2> SUFFICES ASSUME NEW n \in Nodes(d) PROVE Reach(HashesOf(Mid(m)), d, n) = Reach(HashesOf(f), d, n)
    OBVIOUS
  <2>1. \A k \in Key : Mid(m)[k] = f[k]
    BY DEF Turns
  <2>2. \A k \in KeysAt(d, n) : Mid(m)[k] = f[k]
    BY <2>1 DEF KeysAt
  <2> HIDE DEF Mid
  <2> QED BY <1>1, <2>2
<1> HIDE DEF Mid
<1> QED BY <1>4, <1>5
\* r rounds into the rounds of level z, the nodes in the queue and the nodes whose
\* hash may not be that of W yet; lf are the leaves changed.
Waiting(d, m, lf, z, r) ==
  [j \in 1..(IF z = d - 1 THEN m - r ELSE m) |->
     IF j <= m - r THEN Above(lf[r + j], z) ELSE Above(lf[j - (m - r)], z + 1)]
Stale(m, lf, z, r, n) ==
  /\ Zeros[n] > 0
  /\ \E i \in 1..m : n = Above(lf[i], Zeros[n]) /\ (Zeros[n] > z \/ (Zeros[n] = z /\ i > r))
InRound(x, d, m, lf, W, z, r) ==
  /\ x.queue = Waiting(d, m, lf, z, r)
  /\ \A n \in Nodes(d) : x.tree[n] = Reach(W, d, n) \/ Stale(m, lf, z, r, n)

\* One round of the queue brings one more node up to date and appends its parent.
LEMMA RoundIs ==
  ASSUME NEW d \in 1..HashBits, NEW m \in Nat, NEW lf \in [1..m -> Nodes(d)], \A i \in 1..m : lf[i] % 2 = 1,
         NEW W \in SUBSET Pairs, NEW x \in Rounding(d), NEW z \in 0..(d - 1), NEW r \in 0..(m - 1),
         InRound(x, d, m, lf, W, z, r)
  PROVE  InRound(UpdateRound(d, m, x), d, m, lf, W, z, r + 1)
<1> DEFINE y == UpdateRound(d, m, x)
           a == Above(lf[r + 1], z)
           Q == x.queue
           len == IF z = d - 1 THEN m - r ELSE m
<1>1. d \in 1..28 /\ m \in Nat /\ m > 0 /\ r \in Nat /\ z \in Nat /\ r + 1 \in 1..m /\ len \in 1..m
  BY Depths28
<1>2. lf[r + 1] \in Nodes(d) /\ lf[r + 1] % 2 = 1
  BY <1>1
<1>3. /\ a \in Nodes(d) /\ Zeros[a] = z /\ (a % 2 = 1 <=> z = 0) /\ ParentNode(a) = Above(lf[r + 1], z + 1)
      /\ Above(lf[r + 1], d - 1) = RootNode(d) /\ Zeros[Above(lf[r + 1], d - 1)] = d - 1
  <2>1. d - 1 \in 0..(d - 1)
    BY <1>1
  <2> QED BY <1>2, <2>1, WayUp
<1>4. a = RootNode(d) <=> z = d - 1
  BY <1>3
<1> HIDE DEF len
<1>5. /\ Q \in Seq(Nodes(d)) /\ Len(Q) = len /\ x.tree \in Trees(d)
      /\ \A j \in 1..len : Q[j] = IF j <= m - r THEN Above(lf[r + j], z) ELSE Above(lf[j - (m - r)], z + 1)
  <2>1. Q = [j \in 1..len |-> IF j <= m - r THEN Above(lf[r + j], z) ELSE Above(lf[j - (m - r)], z + 1)]
    BY DEF InRound, Waiting, len
  <2>2. Q \in Seq(Nodes(d)) /\ x.tree \in Trees(d)
    BY DEF Rounding
  <2>3. DOMAIN Q = 1..len
    BY <2>1
  <2>4. Len(Q) \in Nat /\ DOMAIN Q = 1..Len(Q)
    BY <2>2, LenProperties
  <2>5. Len(Q) = len
    BY <1>1, <2>3, <2>4
  <2> QED BY <2>1, <2>2, <2>5
<1>6. Q # <<>> /\ Head(Q) = a
  <2>1. Q # <<>> /\ Head(Q) = Q[1]
    BY <1>1, <1>5
  <2>2. Q[1] = Above(lf[r + 1], z)
    BY <1>1, <1>5
  <2> QED BY <2>1, <2>2
<1>7. /\ Tail(Q) \in Seq(Nodes(d)) /\ Len(Tail(Q)) = len - 1 /\ \A j \in 1..(len - 1) : Tail(Q)[j] = Q[j + 1]
  BY <1>1, <1>5, <1>6
<1> HIDE DEF a, Q
<1>8. /\ y \in Rounding(d) /\ y.tree = Combined(x.tree, a)
      /\ a = RootNode(d) => y.queue = Tail(Q)
      /\ a # RootNode(d) /\ Len(Tail(Q)) # m => y.queue = Append(Tail(Q), ParentNode(a))
  BY <1>6, RoundType DEF Q
<1> HIDE DEF y
<1>9. y.queue = Waiting(d, m, lf, z, r + 1)
  <2>1. CASE z = d - 1
    <3>1. len = m - r /\ y.queue = Tail(Q) /\ m - (r + 1) = len - 1 /\ m - (r + 1) \in Nat
      BY <1>1, <1>4, <1>8, <2>1 DEF len
    <3>2. Waiting(d, m, lf, z, r + 1) =
            [j \in 1..(len - 1) |-> IF j <= len - 1 THEN Above(lf[r + 1 + j], z) ELSE Above(lf[j - (len - 1)], z + 1)]
      BY <2>1, <3>1 DEF Waiting
    <3>3. ASSUME NEW j \in 1..(len - 1) PROVE Tail(Q)[j] = Above(lf[r + 1 + j], z)
      <4>1. j + 1 \in 1..len /\ j + 1 <= m - r /\ r + (j + 1) = r + 1 + j
        BY <1>1, <3>1
      <4> QED BY <1>5, <1>7, <4>1
    <3>4. Tail(Q) = [j \in 1..(len - 1) |-> Tail(Q)[j]]
      <4>1. Tail(Q) \in [1..Len(Tail(Q)) -> Nodes(d)]
        BY <1>7, LenProperties, Zenon
      <4> QED BY <1>7, <4>1
    <3>5. Waiting(d, m, lf, z, r + 1) = [j \in 1..(len - 1) |-> Above(lf[r + 1 + j], z)]
      BY <1>1, <3>2
    <3> QED BY <3>1, <3>3, <3>4, <3>5
  <2>2. CASE z # d - 1
    <3> DEFINE A == Append(Tail(Q), ParentNode(a))
    <3>1. len = m /\ Len(Tail(Q)) = m - 1 /\ y.queue = A
      BY <1>1, <1>4, <1>7, <1>8, <2>2 DEF len
    <3>2. ParentNode(a) \in Nodes(d)
      BY <1>3, <1>4, <2>2, ParentType
    <3>3. /\ A \in Seq(Nodes(d)) /\ Len(A) = m /\ A[m] = ParentNode(a)
          /\ \A j \in 1..(m - 1) : A[j] = Q[j + 1]
      BY <1>1, <1>7, <3>1, <3>2
    <3> HIDE DEF A
    <3>4. ASSUME NEW j \in 1..m
          PROVE  A[j] = IF j <= m - (r + 1) THEN Above(lf[r + 1 + j], z) ELSE Above(lf[j - (m - (r + 1))], z + 1)
      <4>1. CASE j = m
        <5>1. ~(j <= m - (r + 1)) /\ j - (m - (r + 1)) = r + 1
          BY <1>1, <4>1
        <5> QED BY <1>3, <3>3, <4>1, <5>1
      <4>2. CASE j # m /\ j <= m - (r + 1)
        <5>1. j \in 1..(m - 1) /\ j + 1 \in 1..m /\ j + 1 <= m - r /\ r + (j + 1) = r + 1 + j
          BY <1>1, <4>2
        <5> QED BY <1>5, <3>1, <3>3, <4>2, <5>1
      <4>3. CASE j # m /\ ~(j <= m - (r + 1))
        <5>1. j \in 1..(m - 1) /\ j + 1 \in 1..m /\ ~(j + 1 <= m - r) /\ (j + 1) - (m - r) = j - (m - (r + 1))
          BY <1>1, <4>3
        <5> QED BY <1>5, <3>1, <3>3, <4>3, <5>1
      <4> QED BY <4>1, <4>2, <4>3
    <3>5. A = [j \in 1..m |-> A[j]]
      BY <3>3
    <3>6. Waiting(d, m, lf, z, r + 1) =
            [j \in 1..m |-> IF j <= m - (r + 1) THEN Above(lf[r + 1 + j], z) ELSE Above(lf[j - (m - (r + 1))], z + 1)]
      BY <2>2 DEF Waiting
    <3> QED BY <3>1, <3>4, <3>5, <3>6
  <2> QED BY <2>1, <2>2
<1> DEFINE X == x.tree
<1> HIDE DEF X
<1>11. /\ \A n \in Nodes(d) : n # a \/ a % 2 = 1 => y.tree[n] = X[n]
       /\ a % 2 # 1 /\ X[LeftChild(a)] = Reach(W, d, LeftChild(a)) /\ X[RightChild(a)] = Reach(W, d, RightChild(a))
          => y.tree[a] = Reach(W, d, a)
  <2>1. X \in Trees(d) /\ a \in Nodes(d) /\ y.tree = Combined(X, a)
    BY <1>3, <1>5, <1>8 DEF X
  <2>2. \A n \in Nodes(d) : n # a \/ a % 2 = 1 => Combined(X, a)[n] = X[n]
    BY <2>1, CombinedIs, Zenon
  <2>3. a % 2 # 1 /\ X[LeftChild(a)] = Reach(W, d, LeftChild(a)) /\ X[RightChild(a)] = Reach(W, d, RightChild(a))
          => Combined(X, a)[a] = Reach(W, d, a)
    BY <2>1, CombinedIs, Zenon
  <2> QED BY <2>1, <2>2, <2>3
<1>10. ASSUME NEW n \in Nodes(d)
       PROVE  y.tree[n] = Reach(W, d, n) \/ Stale(m, lf, z, r + 1, n)
  <2>0. x.tree[n] = Reach(W, d, n) \/ Stale(m, lf, z, r, n)
    BY DEF InRound
  <2>1. Zeros[n] \in 0..(d - 1)
    BY Internal
  <2>2. n # a /\ Stale(m, lf, z, r, n) => Stale(m, lf, z, r + 1, n)
    <3> SUFFICES ASSUME n # a, Stale(m, lf, z, r, n) PROVE Stale(m, lf, z, r + 1, n)
      OBVIOUS
    <3>1. Zeros[n] > 0 /\ \E i \in 1..m : n = Above(lf[i], Zeros[n]) /\ (Zeros[n] > z \/ (Zeros[n] = z /\ i > r))
      BY DEF Stale
    <3>2. PICK i \in 1..m : n = Above(lf[i], Zeros[n]) /\ (Zeros[n] > z \/ (Zeros[n] = z /\ i > r))
      BY <3>1
    <3>3. Zeros[n] = z => i # r + 1
      BY <3>2 DEF a
    <3>4. Zeros[n] > z \/ (Zeros[n] = z /\ i > r + 1)
      BY <1>1, <3>2, <3>3
    <3> QED BY <3>1, <3>2, <3>4 DEF Stale
  <2>3. CASE n # a
    <3>1. y.tree[n] = x.tree[n]
      BY <1>11, <2>3 DEF X
    <3> QED BY <2>0, <2>2, <2>3, <3>1
  <2>4. CASE n = a /\ z = 0
    <3>1. y.tree[n] = x.tree[n]
      BY <1>3, <1>11, <2>4 DEF X
    <3>2. ~Stale(m, lf, z, r, n)
      BY <1>3, <2>4 DEF Stale
    <3> QED BY <2>0, <3>1, <3>2
  <2>5. CASE n = a /\ z # 0
    <3>1. a % 2 # 1
      BY <1>3, <2>5
    <3>2. /\ LeftChild(a) \in Nodes(d) /\ Zeros[LeftChild(a)] = z - 1
          /\ RightChild(a) \in Nodes(d) /\ Zeros[RightChild(a)] = z - 1
      BY <1>3, <3>1, Split
    <3>3. ~Stale(m, lf, z, r, LeftChild(a)) /\ ~Stale(m, lf, z, r, RightChild(a))
      BY <1>1, <3>2 DEF Stale
    <3>4. x.tree[LeftChild(a)] = Reach(W, d, LeftChild(a)) /\ x.tree[RightChild(a)] = Reach(W, d, RightChild(a))
      BY <3>2, <3>3 DEF InRound
    <3>5. y.tree[a] = Reach(W, d, a)
      BY <1>11, <3>1, <3>4 DEF X
    <3> QED BY <2>5, <3>5
  <2> QED BY <2>3, <2>4, <2>5
<1> QED BY <1>9, <1>10 DEF InRound, y

\* The rounds of all levels.
LEMMA RoundsAre ==
  ASSUME NEW d \in 1..HashBits, NEW m \in Nat, NEW lf \in [1..m -> Nodes(d)], \A i \in 1..m : lf[i] % 2 = 1,
         NEW W \in SUBSET Pairs, NEW s \in [0..(m * d) -> Rounding(d)],
         \A i \in 1..(m * d) : s[i] = UpdateRound(d, m, s[i - 1]),
         InRound(s[0], d, m, lf, W, 0, 0)
  PROVE  s[m * d].tree = TreeOf(d, W)
<1> DEFINE R == {z \in 0..(d - 1) : InRound(s[m * z], d, m, lf, W, z, 0)}
<1>1. d \in Nat /\ d > 0 /\ d - 1 \in Nat /\ m * d \in Nat
  BY Depths28
<1>2. ASSUME NEW z \in 0..(d - 1)
      PROVE  m * z \in Nat /\ m * (z + 1) = m * z + m /\ m * z + m <= m * d
  <2> DEFINE v == (d - 1) - z
  <2>1. v \in Nat /\ d = z + 1 + v /\ z \in Nat
    BY <1>1
  <2> HIDE DEF v
  <2>2. m * d = m * z + m + m * v /\ m * v \in Nat /\ m * v >= 0 /\ m * z \in Nat
    BY <2>1
  <2>3. m * (z + 1) = m * z + m
    BY <2>1
  <2>4. m * d \in Nat
    BY <1>1
  <2> DEFINE p == m * z
             w == m * v
             e == m * d
  <2> HIDE DEF p, w, e
  <2>5. p + m <= e
    <3>1. p \in Nat /\ w \in Nat /\ e = p + m + w
      BY <2>2 DEF p, w, e
    <3> QED BY <3>1
  <2> QED BY <2>2, <2>3, <2>5 DEF p, e
<1>3. ASSUME NEW z \in 0..(d - 1), InRound(s[m * z], d, m, lf, W, z, 0)
      PROVE  InRound(s[m * z + m], d, m, lf, W, z, m)
  <2> DEFINE b == m * z
             n == m * d
             S == {r \in 0..m : InRound(s[b + r], d, m, lf, W, z, r)}
  <2>1. b \in Nat /\ n \in Nat /\ b + m <= n
    BY <1>1, <1>2
  <2>0. InRound(s[b], d, m, lf, W, z, 0) /\ \A i \in 1..n : s[i] = UpdateRound(d, m, s[i - 1])
    BY <1>3
  <2>7. s \in [0..n -> Rounding(d)]
    OBVIOUS
  <2> HIDE DEF b, n
  <2>2. 0 \in S
    BY <2>0, <2>1
  <2>3. ASSUME NEW r \in 1..m, r - 1 \in S PROVE r \in S
    <3> DEFINE j == r - 1
    <3>1. j \in 0..(m - 1) /\ j \in 0..m /\ r = j + 1 /\ b + r \in 1..n /\ (b + r) - 1 = b + j /\ b + j \in 0..n
      BY <2>1
    <3>2. InRound(s[b + j], d, m, lf, W, z, j)
      BY <2>3
    <3> HIDE DEF j
    <3>3. s[b + r] = UpdateRound(d, m, s[b + j]) /\ s[b + j] \in Rounding(d)
      BY <2>0, <2>7, <3>1
    <3>4. InRound(s[b + r], d, m, lf, W, z, j + 1)
      BY <3>1, <3>2, <3>3, RoundIs
    <3> QED BY <3>1, <3>4
  <2>4. m \in S
    <3> HIDE DEF S
    <3>1. \A r \in 0..m : r \in S
      BY <2>2, <2>3, Induct
    <3> QED BY <3>1
  <2> QED BY <2>4 DEF b
<1>4. ASSUME NEW n \in Nodes(d), NEW z \in 0..(d - 1), Stale(m, lf, z, m, n)
      PROVE  z + 1 <= d - 1 /\ Stale(m, lf, z + 1, 0, n)
  <2>1. Zeros[n] \in 0..(d - 1)
    BY Internal
  <2>2. Zeros[n] > 0
    BY <1>4 DEF Stale
  <2>3. PICK i \in 1..m : n = Above(lf[i], Zeros[n]) /\ (Zeros[n] > z \/ (Zeros[n] = z /\ i > m))
    BY <1>4 DEF Stale
  <2>4. Zeros[n] >= z + 1 /\ i > 0
    BY <2>1, <2>3
  <2>5. Zeros[n] > z + 1 \/ (Zeros[n] = z + 1 /\ i > 0)
    BY <2>1, <2>4
  <2> QED BY <1>1, <2>1, <2>2, <2>3, <2>4, <2>5 DEF Stale
<1>5. ASSUME NEW z \in 1..(d - 1), z - 1 \in R PROVE z \in R
  <2> DEFINE y == z - 1
  <2>1. y \in 0..(d - 1) /\ z = y + 1 /\ y # d - 1 /\ z \in 0..(d - 1)
    BY <1>1
  <2>2. InRound(s[m * y], d, m, lf, W, y, 0)
    BY <1>5
  <2> HIDE DEF y
  <2>3. InRound(s[m * y + m], d, m, lf, W, y, m)
    BY <1>3, <2>1, <2>2
  <2>4. Waiting(d, m, lf, y, m) = Waiting(d, m, lf, z, 0)
    <3>1. Waiting(d, m, lf, y, m) = [j \in 1..m |-> Above(lf[j], z)]
      <4>1. \A j \in 1..m : ~(j <= m - m) /\ j - (m - m) = j
        OBVIOUS
      <4> QED BY <2>1, <4>1 DEF Waiting
    <3>2. Waiting(d, m, lf, z, 0) = [j \in 1..m |-> Above(lf[j], z)]
      <4>1. \A j \in 1..m : j <= m - 0 /\ 0 + j = j
        OBVIOUS
      <4>2. (IF z = d - 1 THEN m - 0 ELSE m) = m
        OBVIOUS
      <4> QED BY <4>1, <4>2 DEF Waiting
    <3> QED BY <3>1, <3>2
  <2>5. InRound(s[m * y + m], d, m, lf, W, z, 0)
    BY <1>4, <2>1, <2>3, <2>4 DEF InRound
  <2>6. m * z = m * y + m
    BY <1>2, <2>1
  <2> QED BY <2>1, <2>5, <2>6
<1>6. 0 \in R
  <2>1. m * 0 = 0
    OBVIOUS
  <2> QED BY <1>1, <2>1
<1>7. d - 1 \in R
  <2> HIDE DEF R
  <2>1. \A z \in 0..(d - 1) : z \in R
    BY <1>1, <1>5, <1>6, Induct
  <2> QED BY <1>1, <2>1
<1> DEFINE z == d - 1
<1>8. z \in 0..(d - 1) /\ InRound(s[m * z + m], d, m, lf, W, z, m) /\ m * z + m = m * d
  <2>1. z \in 0..(d - 1) /\ z + 1 = d /\ InRound(s[m * z], d, m, lf, W, z, 0)
    BY <1>1, <1>7
  <2> HIDE DEF z
  <2> QED BY <1>2, <1>3, <2>1
<1>9. ASSUME NEW n \in Nodes(d) PROVE s[m * d].tree[n] = Reach(W, d, n)
  <2>1. ~Stale(m, lf, z, m, n)
    <3>1. ~(z + 1 <= d - 1)
      BY <1>1
    <3> QED BY <1>4, <1>8, <3>1
  <2> QED BY <1>8, <2>1 DEF InRound
<1>10. s[m * d].tree \in Trees(d)
  BY <1>1 DEF Rounding
<1> QED BY <1>9, <1>10, TreeIs
\* Update turns the tree of one content into that of another.
LEMMA UpdateIs ==
  ASSUME NEW d \in 1..HashBits, NEW t \in Trees(d), NEW m \in Nat, NEW q \in [1..m -> LeafDiffs(d)],
         NEW K \in [1..m -> Key]
  PROVE  /\ Update(d, t, q) \in Trees(d)
         /\ \A c, f : Turns(d, m, q, K, c, f) /\ t = TreeOf(d, HashesOf(c)) => Update(d, t, q) = TreeOf(d, HashesOf(f))
<1>1. PICK u \in [0..m -> Trees(d)] : \E s \in [0..(m * d) -> Rounding(d)] : Updates(u, s, d, t, m, q)
  BY UpdateSteps
<1>2. PICK s \in [0..(m * d) -> Rounding(d)] : Updates(u, s, d, t, m, q)
  BY <1>1
<1>3. m * d \in Nat /\ m * d \in 0..(m * d) /\ m \in 0..m /\ 0 \in 0..(m * d)
  BY Depths28
<1>4. Update(d, t, q) \in Trees(d)
  BY <1>2, <1>3 DEF Updates, Rounding
<1>5. ASSUME NEW c, NEW f, Turns(d, m, q, K, c, f), t = TreeOf(d, HashesOf(c))
      PROVE  Update(d, t, q) = TreeOf(d, HashesOf(f))
  <2> DEFINE lf == [i \in 1..m |-> q[i].leaf]
             W == HashesOf(f)
             V == HashesOf(c)
  <2>1. \A n \in Nodes(d) : u[m][n] = Reach(HashesOf(IF n % 2 = 1 THEN f ELSE c), d, n)
    <3>1. u[0] = TreeOf(d, HashesOf(c)) /\ \A i \in 1..m : u[i] = AtLeaf(u[i - 1], q[i])
      BY <1>2, <1>5 DEF Updates
    <3> QED BY <1>5, <3>1, LeavesAre
  <2>2. ASSUME NEW i \in 1..m
        PROVE  lf[i] \in Nodes(d) /\ lf[i] % 2 = 1 /\ lf[i] = LeafAt(d, K[i]) /\ K[i] \in KeysAt(d, lf[i])
    <3>1. lf[i] = LeafAt(d, K[i]) /\ K[i] \in Key
      BY <1>5 DEF Turns
    <3>2. lf[i] \in Nodes(d) /\ lf[i] % 2 = 1
      BY <3>1, LeafIs
    <3> QED BY <3>1, <3>2, LeafKeys
  <2>3. lf \in [1..m -> Nodes(d)] /\ \A i \in 1..m : lf[i] % 2 = 1
    BY <2>2
  <2>4. W \in SUBSET Pairs
    BY DEF HashesOf
  <2>5. s[0].tree = u[m] /\ s[0].queue = lf
    BY <1>2 DEF Updates
  <2>6. d \in 1..28 /\ 0 \in 0..(d - 1)
    BY Depths28
  <2>7. Waiting(d, m, lf, 0, 0) = lf
    <3>1. \A j \in 1..m : j <= m - 0 /\ 0 + j = j
      OBVIOUS
    <3>2. \A j \in 1..m : Above(lf[j], 0) = lf[j]
      BY <2>2, WayUp
    <3>3. (IF 0 = d - 1 THEN m - 0 ELSE m) = m
      OBVIOUS
    <3>4. Waiting(d, m, lf, 0, 0) = [j \in 1..m |-> Above(lf[j], 0)]
      BY <3>1, <3>3 DEF Waiting
    <3> HIDE DEF lf
    <3> QED BY <2>3, <3>2, <3>4
  <2>8. ASSUME NEW n \in Nodes(d) PROVE u[m][n] = Reach(W, d, n) \/ Stale(m, lf, 0, 0, n)
    <3>1. Zeros[n] \in 0..(d - 1) /\ (n % 2 = 1 <=> Zeros[n] = 0)
      BY Internal
    <3>2. CASE n % 2 = 1
      BY <2>1, <3>2
    <3>3. CASE n % 2 # 1 /\ \A k \in KeysAt(d, n) : f[k] = c[k]
      <4>1. Reach(W, d, n) = Reach(V, d, n)
        BY <3>3 DEF Reach, HashesOf
      <4> QED BY <2>1, <3>3, <4>1
    <3>4. CASE n % 2 # 1 /\ \E k \in KeysAt(d, n) : f[k] # c[k]
      <4>1. PICK k \in KeysAt(d, n) : f[k] # c[k]
        BY <3>4
      <4>2. k \in Key
        BY DEF KeysAt
      <4>3. PICK i \in 1..m : K[i] = k
        BY <1>5, <4>1, <4>2 DEF Turns
      <4>4. n = Above(lf[i], Zeros[n])
        BY <2>2, <4>3, WayKeys
      <4> QED BY <3>1, <3>4, <4>4 DEF Stale
    <3> QED BY <3>2, <3>3, <3>4
  <2> HIDE DEF lf, W
  <2>9. InRound(s[0], d, m, lf, W, 0, 0)
    BY <2>5, <2>7, <2>8 DEF InRound
  <2>10. \A i \in 1..(m * d) : s[i] = UpdateRound(d, m, s[i - 1])
    BY <1>2 DEF Updates
  <2>11. s[m * d].tree = TreeOf(d, W)
    BY <2>3, <2>4, <2>9, <2>10, RoundsAre
  <2> QED BY <1>2, <2>11 DEF Updates, W
<1> QED BY <1>4, <1>5

-----------------------------------------------------------------------------
(* Updates of a writer *)

Changes == [key : Key, old : Content, new : {Tomb} \cup Value]
Distinct(D) == \A x, y \in D : x.key = y.key => x = y

\* SetToSeq enumerates a finite set.
LEMMA SetToSeqIs ==
  ASSUME NEW D, IsFiniteSet(D)
  PROVE  /\ Cardinality(D) \in Nat /\ SetToSeq(D) \in [1..Cardinality(D) -> D]
         /\ \A i, j \in 1..Cardinality(D) : SetToSeq(D)[i] = SetToSeq(D)[j] => i = j
         /\ \A x \in D : \E i \in 1..Cardinality(D) : SetToSeq(D)[i] = x
<1> DEFINE n == Cardinality(D)
           q == SetToSeq(D)
<1>1. n \in Nat /\ ExistsBijection(1..n, D)
  BY FS_CardinalityType
<1>2. PICK f \in Bijection(1..n, D) : TRUE
  BY <1>1 DEF ExistsBijection
<1>3. f \in [1..n -> D] /\ IsInjective(f)
  BY <1>2 DEF Bijection, Injection
<1>4. q \in [1..n -> D] /\ IsInjective(q)
  <2> DEFINE P(g) == IsInjective(g)
  <2>1. q = CHOOSE g \in [1..n -> D] : P(g)
    BY DEF SetToSeq
  <2>2. \E g \in [1..n -> D] : P(g)
    BY <1>3
  <2> HIDE DEF q, P, n
  <2>3. q \in [1..n -> D] /\ P(q)
    BY <2>1, <2>2, Zenon
  <2> QED BY <2>3 DEF P
<1>5. q \in Injection(1..n, D)
  BY <1>4 DEF Injection
<1>6. IsFiniteSet(1..n) /\ Cardinality(1..n) = n
  BY <1>1, FS_Interval
<1> HIDE DEF q
<1>7. q \in Surjection(1..n, D)
  BY <1>1, <1>5, <1>6, FS_Injection
<1>8. \A x \in D : \E i \in 1..n : q[i] = x
  BY <1>7 DEF Surjection
<1>9. \A i, j \in 1..n : q[i] = q[j] => i = j
  BY <1>4 DEF IsInjective
<1> QED BY <1>1, <1>4, <1>8, <1>9 DEF q

\* A writer has finitely many changes: one of each key at most.
LEMMA ChangesFinite ==
  ASSUME NEW D \in SUBSET Changes, Distinct(D)
  PROVE  IsFiniteSet(D)
<1> DEFINE f == [x \in D |-> x.key]
<1>1. IsFiniteSet(Key)
  BY KeysAssumption, FS_Interval DEF Key
<1>2. f \in [D -> Key]
  BY DEF Changes
<1>3. f \in Injection(D, Key)
  BY <1>2 DEF Distinct, Injection, IsInjective
<1> QED BY <1>1, <1>3, FS_Injection

\* The changes D turn the content c into f, or back.
Exchanges(D, c, f) ==
  /\ \A x \in D : (c[x.key] = x.old /\ f[x.key] = x.new) \/ (c[x.key] = x.new /\ f[x.key] = x.old)
  /\ \A k \in Key : (\A x \in D : x.key # k) => f[k] = c[k]

\* Updating the tree with changes turns the tree of one content into that of the other.
LEMMA UpdatedIs ==
  ASSUME depth \in 1..HashBits, tree \in Trees(depth), NEW D \in SUBSET Changes, Distinct(D)
  PROVE  /\ Updated(D) \in Trees(depth)
         /\ \A c, f : Exchanges(D, c, f) /\ tree = TreeOf(depth, HashesOf(c)) => Updated(D) = TreeOf(depth, HashesOf(f))
<1> DEFINE m == Cardinality(D)
           p == SetToSeq(D)
           q == [i \in 1..m |-> Diff(p[i])]
           K == [i \in 1..m |-> p[i].key]
<1>1. /\ m \in Nat /\ p \in [1..m -> D]
      /\ \A i, j \in 1..m : p[i] = p[j] => i = j
      /\ \A x \in D : \E i \in 1..m : p[i] = x
  BY ChangesFinite, SetToSeqIs
<1>2. Updated(D) = Update(depth, tree, q)
  BY DEF Updated
<1> HIDE DEF m, p
<1>3. ASSUME NEW i \in 1..m
      PROVE  /\ K[i] \in Key /\ K[i] = p[i].key /\ p[i] \in D /\ q[i] \in LeafDiffs(depth)
             /\ q[i].leaf = LeafAt(depth, K[i])
             /\ q[i].old = RowHash(K[i], p[i].old) /\ q[i].new = RowHash(K[i], p[i].new)
  <2>1. p[i] \in D /\ p[i].key \in Key
    BY <1>1 DEF Changes
  <2>2. q[i] = Diff(p[i])
    OBVIOUS
  <2>3. LeafAt(depth, K[i]) \in Nodes(depth)
    BY <2>1, LeafIs
  <2>4. RowHash(K[i], p[i].old) \in SUBSET Pairs /\ RowHash(K[i], p[i].new) \in SUBSET Pairs
    BY <2>1, RowsAre
  <2> QED BY <2>1, <2>2, <2>3, <2>4 DEF Diff, LeafDiffs, Leaf, LeafAt
<1>4. q \in [1..m -> LeafDiffs(depth)] /\ K \in [1..m -> Key]
  BY <1>3
<1>5. ASSUME NEW c, NEW f, Exchanges(D, c, f) PROVE Turns(depth, m, q, K, c, f)
  <2> HIDE DEF q, K
  <2>1. \A i, j \in 1..m : K[i] = K[j] => i = j
    BY <1>1, <1>3 DEF Distinct
  <2>2. ASSUME NEW i \in 1..m
        PROVE  /\ q[i].leaf = LeafAt(depth, K[i])
               /\ \/ q[i].old = RowHash(K[i], c[K[i]]) /\ q[i].new = RowHash(K[i], f[K[i]])
                  \/ q[i].old = RowHash(K[i], f[K[i]]) /\ q[i].new = RowHash(K[i], c[K[i]])
    <3>1. \/ c[K[i]] = p[i].old /\ f[K[i]] = p[i].new
          \/ c[K[i]] = p[i].new /\ f[K[i]] = p[i].old
      BY <1>3, <1>5 DEF Exchanges
    <3> QED BY <1>3, <3>1
  <2>3. ASSUME NEW k \in Key, \A i \in 1..m : K[i] # k PROVE f[k] = c[k]
    BY <1>1, <1>3, <1>5, <2>3 DEF Exchanges
  <2> QED BY <2>1, <2>2, <2>3 DEF Turns
<1> HIDE DEF q, K
<1>6. /\ Update(depth, tree, q) \in Trees(depth)
      /\ \A c, f : Turns(depth, m, q, K, c, f) /\ tree = TreeOf(depth, HashesOf(c)) =>
           Update(depth, tree, q) = TreeOf(depth, HashesOf(f))
  BY <1>1, <1>4, UpdateIs
<1> QED BY <1>2, <1>5, <1>6
-----------------------------------------------------------------------------
(* Loading the leaf hashes *)

\* The rows of a content that are below leaf l.
RowsAt(c, d, l) == {e \in HashesOf(c) : LeafAt(d, e[1]) = l}

Loaded ==
  LET enter(t, l) == UpdateLeafHash(depth, t, l, leaves[l])
  IN  FoldLeft(enter, EmptyTree(depth), InOrder(DOMAIN leaves))

\* InOrder enumerates leaves.
LEMMA LeavesInOrder ==
  ASSUME NEW K \in SUBSET AllLeaves
  PROVE  /\ InOrder(K) \in [1..Cardinality(K) -> K] /\ Cardinality(K) \in Nat
         /\ \A l \in K : \E i \in 1..Cardinality(K) : InOrder(K)[i] = l
<1> DEFINE most == Pow2(HashBits) - 1
<1>1. most \in Nat /\ K \in SUBSET (1..most)
  <2>1. HashBits \in 1..HashBits
    BY DepthAssumption
  <2>2. Pow2(HashBits) \in Nat \ {0}
    BY <2>1, Depths28
  <2> QED BY <2>2 DEF AllLeaves, Nodes, NodeLimit
<1>2. InOrder(K) \in [1..Cardinality(K) -> K] /\ Cardinality(K) \in Nat /\ ToSet(InOrder(K)) = K
  BY <1>1, OrderIs, Zenon
<1> QED BY <1>2 DEF ToSet

\* initializeMerkleTree makes the tree of the rows if the stored leaf hashes are right.
LEMMA LoadIs ==
  ASSUME depth \in 1..HashBits, DOMAIN leaves \subseteq AllLeaves, leaves \in [DOMAIN leaves -> SUBSET Pairs]
  PROVE  /\ Loaded \in Trees(depth)
         /\ (\A l \in AllLeaves : StoredLeaf(l) = RowsAt(stored, depth, l)) => Loaded = TreeOf(depth, HashesOf(stored))
<1> DEFINE L == DOMAIN leaves
           q == InOrder(L)
           m == Cardinality(L)
           d == depth
           b == EmptyTree(d)
           E(g) == g = [a \in SUBSET (DOMAIN q) |->
                          IF a = {} THEN b ELSE UpdateLeafHash(d, g[a \ {Max(a)}], q[Max(a)], leaves[q[Max(a)]])]
           h == CHOOSE g : E(g)
           St == Trees(d)
           F == [z \in St \X (1..m) |-> UpdateLeafHash(d, z[1], q[z[2]], leaves[q[z[2]]])]
<1>1. Loaded = h[DOMAIN q]
  BY ZenonT(60) DEF Loaded, FoldLeft, MapThenFoldSet
<1>2. /\ q \in [1..m -> L] /\ m \in Nat /\ DOMAIN q = 1..m
      /\ \A l \in L : \E i \in 1..m : q[i] = l
  BY LeavesInOrder
<1> HIDE DEF q, m, h
<1>3. \A i \in 1..m : q[i] \in L /\ q[i] \in AllLeaves /\ leaves[q[i]] \in SUBSET Pairs
  BY <1>2
<1>4. F \in [St \X (1..m) -> St]
  <2> SUFFICES ASSUME NEW z \in St \X (1..m) PROVE UpdateLeafHash(d, z[1], q[z[2]], leaves[q[z[2]]]) \in St
    OBVIOUS
  <2>1. z[1] \in St /\ q[z[2]] \in AllLeaves /\ leaves[q[z[2]]] \in SUBSET Pairs
    BY <1>3
  <2> QED BY <2>1, UpdateLeafHashIs
<1>5. \A x \in St, i \in 1..m : F[<<x, i>>] = UpdateLeafHash(d, x, q[i], leaves[q[i]])
  <2> HIDE DEF St, d
  <2> QED OBVIOUS
<1>6. b \in St
  BY DEF EmptyTree, Trees
<1> HIDE DEF F, St, b
<1>7. E(h)
  <2>1. PICK g \in [SUBSET (1..m) -> St] : Solves(g, m, b, F)
    BY <1>2, <1>4, <1>6, FoldExists
  <2>2. ASSUME NEW a \in SUBSET (1..m), a # {}
        PROVE  F[<<g[a \ {Max(a)}], Max(a)>>] = UpdateLeafHash(d, g[a \ {Max(a)}], q[Max(a)], leaves[q[Max(a)]])
    BY <1>2, <1>5, <2>1, <2>2, MaxIs
  <2>3. E(g)
    BY <1>2, <2>1, <2>2 DEF Solves
  <2> HIDE DEF E
  <2> QED BY <2>3, Zenon DEF h
<1>8. FoldIs(h, m, b, St, F)
  <2>1. ASSUME NEW a \in SUBSET (1..m)
        PROVE  /\ a = {} => h[a] = b
               /\ a # {} /\ h[a \ {Max(a)}] \in St => h[a] = F[<<h[a \ {Max(a)}], Max(a)>>]
    <3>1. a # {} => Max(a) \in 1..m
      BY <1>2, MaxIs
    <3>2. h[a] = IF a = {} THEN b ELSE UpdateLeafHash(d, h[a \ {Max(a)}], q[Max(a)], leaves[q[Max(a)]])
      BY <1>2, <1>7
    <3> HIDE DEF d, E, L
    <3> QED BY <1>5, <3>1, <3>2
  <2>2. IsFold(h, m, b, St, F)
    BY <2>1 DEF IsFold
  <2> QED BY <1>2, <1>4, <1>6, <2>2, FoldSteps
<1>9. /\ h[1..0] = b
      /\ \A i \in 0..m : h[1..i] \in St
      /\ \A i \in 1..m : /\ h[1..(i - 1)] \in St
                         /\ h[1..i] = UpdateLeafHash(d, h[1..(i - 1)], q[i], leaves[q[i]])
  BY <1>5, <1>8 DEF FoldIs
<1>10. Loaded \in Trees(depth)
  BY <1>1, <1>2, <1>9 DEF St
<1>11. ASSUME \A l \in AllLeaves : StoredLeaf(l) = RowsAt(stored, d, l)
       PROVE  Loaded = TreeOf(d, HashesOf(stored))
  <2> DEFINE R == HashesOf(stored)
             W(i) == {e \in R : \E j \in 1..i : q[j] = LeafAt(d, e[1])}
             S == {i \in 0..m : h[1..i] = TreeOf(d, W(i))}
  <2>0. ASSUME NEW i \in 0..m, NEW V, V = W(i), h[1..i] = TreeOf(d, V) PROVE i \in S
    <3> HIDE DEF W
    <3> QED BY <2>0
  <2>1. R \in SUBSET Pairs /\ \A e \in R : e[1] \in Key
    BY DEF HashesOf, Pairs
  <2>2. 0 \in S
    <3>1. W(0) = {}
      OBVIOUS
    <3>2. TreeOf(d, {}) = b
      BY DEF TreeOf, Reach, EmptyTree, b
    <3>3. h[1..0] = TreeOf(d, W(0)) /\ 0 \in 0..m
      <4>1. h[1..0] = b /\ 0 \in 0..m
        BY <1>2, <1>9
      <4> HIDE DEF W
      <4> QED BY <3>1, <3>2, <4>1, Zenon
    <3> QED BY <2>0, <3>3
  <2>3. ASSUME NEW i \in 1..m, i - 1 \in S PROVE i \in S
    <3> DEFINE l == q[i]
               V == W(i - 1)
               U == W(i)
    <3>1. U = V \cup RowsAt(stored, d, l)
      <4>1. U \subseteq R /\ V \subseteq R /\ RowsAt(stored, d, l) \subseteq R
        BY DEF RowsAt
      <4>2. ASSUME NEW e \in R PROVE e \in U <=> e \in V \/ e \in RowsAt(stored, d, l)
        <5>1. (\E j \in 1..i : q[j] = LeafAt(d, e[1])) <=> (\E j \in 1..(i - 1) : q[j] = LeafAt(d, e[1])) \/ l = LeafAt(d, e[1])
          OBVIOUS
        <5> QED BY <5>1 DEF RowsAt
      <4> HIDE DEF U, V, R
      <4> QED BY <4>1, <4>2
    <3>2. l \in AllLeaves /\ leaves[l] = RowsAt(stored, d, l) /\ RowsAt(stored, d, l) \in SUBSET Pairs
      <4>1. l \in L /\ l \in AllLeaves
        BY <1>3
      <4>2. StoredLeaf(l) = leaves[l]
        BY <4>1 DEF StoredLeaf
      <4> QED BY <1>11, <2>1, <4>1, <4>2 DEF RowsAt
    <3>3. h[1..i] = UpdateLeafHash(d, TreeOf(d, V), l, RowsAt(stored, d, l))
      <4>1. h[1..(i - 1)] = TreeOf(d, V)
        BY <2>3
      <4> HIDE DEF l, V
      <4> QED BY <1>9, <3>2, <4>1 DEF l
    <3>4. V \in SUBSET Pairs /\ U \in SUBSET Pairs
      BY <2>1
    <3>5. \A e \in RowsAt(stored, d, l) : e[1] \in Key /\ LeafAt(d, e[1]) = l
      BY <2>1 DEF RowsAt
    <3>6. \A e \in U : LeafAt(d, e[1]) = l => e \in RowsAt(stored, d, l)
      BY DEF RowsAt
    <3> HIDE DEF l, V, U
    <3>7. TreeOf(d, V) \in Trees(d)
      BY <3>4, TreeIs
    <3>8. CASE l \notin Nodes(d)
      <4>1. RowsAt(stored, d, l) = {}
        BY <3>5, <3>8, LeafIs
      <4>2. U = V
        BY <3>1, <4>1
      <4>3. h[1..i] = TreeOf(d, V)
        <5> DEFINE t == TreeOf(d, V)
                   X == RowsAt(stored, d, l)
        <5> HIDE DEF t, X
        <5>1. t \in Trees(d) /\ X \in SUBSET Pairs /\ l \in AllLeaves
          BY <3>2, <3>7 DEF t, X
        <5>2. UpdateLeafHash(d, t, l, X) = t
          BY <3>8, <5>1, UpdateLeafHashIs
        <5> QED BY <3>3, <5>2 DEF t, X
      <4>4. U = W(i) /\ h[1..i] = TreeOf(d, U) /\ i \in 0..m
        <5>1. h[1..i] = TreeOf(d, U)
          BY <4>2, <4>3
        <5>2. U = W(i)
          BY DEF U
        <5> HIDE DEF W
        <5> QED BY <5>1, <5>2
      <4> HIDE DEF W, S
      <4> QED BY <2>0, <4>4
    <3>9. CASE l \in Nodes(d)
      <4>1. l % 2 = 1
        BY <3>2 DEF AllLeaves
      <4>2. KeysAt(d, l) = {k \in Key : LeafAt(d, k) = l}
        BY <3>9, <4>1, LeafKeys
      <4>3. RowsAt(stored, d, l) = Reach(U, d, l)
        <5>1. RowsAt(stored, d, l) \subseteq Reach(U, d, l)
          BY <3>1, <3>5, <4>2 DEF Reach
        <5>2. Reach(U, d, l) \subseteq RowsAt(stored, d, l)
          BY <3>6, <4>2 DEF Reach
        <5> QED BY <5>1, <5>2
      <4>4. ASSUME NEW n \in Nodes(d), n # Above(l, Zeros[n])
            PROVE  TreeOf(d, V)[n] = Reach(U, d, n)
        <5>1. \A k \in KeysAt(d, l) : k \notin KeysAt(d, n)
          BY <3>9, <4>1, <4>4, WayKeys
        <5>2. \A e \in RowsAt(stored, d, l) : e[1] \notin KeysAt(d, n)
          BY <3>5, <4>2, <5>1
        <5>3. Reach(V, d, n) = Reach(U, d, n)
          BY <3>1, <5>2 DEF Reach
        <5> QED BY <5>3 DEF TreeOf
      <4>5. UpdateLeafHash(d, TreeOf(d, V), l, RowsAt(stored, d, l)) = TreeOf(d, U)
        <5> DEFINE t == TreeOf(d, V)
                   X == RowsAt(stored, d, l)
        <5> HIDE DEF t, X
        <5>1. t \in Trees(d) /\ X \in SUBSET Pairs /\ l \in AllLeaves
          BY <3>2, <3>7 DEF t, X
        <5>2. X = Reach(U, d, l) /\ \A n \in Nodes(d) : t[n] = Reach(U, d, n) \/ n = Above(l, Zeros[n])
          BY <4>3, <4>4 DEF t, X
        <5>3. UpdateLeafHash(d, t, l, X) = TreeOf(d, U)
          BY <3>4, <3>9, <5>1, <5>2, UpdateLeafHashIs
        <5> QED BY <5>3 DEF t, X
      <4>6. U = W(i) /\ h[1..i] = TreeOf(d, U) /\ i \in 0..m
        BY <3>3, <4>5 DEF U
      <4> HIDE DEF W, S
      <4> QED BY <2>0, <4>6
    <3> QED BY <3>8, <3>9
  <2>4. m \in S
    <3> HIDE DEF S
    <3>1. \A i \in 0..m : i \in S
      BY <1>2, <2>2, <2>3, Induct
    <3> QED BY <1>2, <3>1
  <2>5. W(m) = R
    <3> SUFFICES ASSUME NEW e \in R PROVE \E j \in 1..m : q[j] = LeafAt(d, e[1])
      OBVIOUS
    <3> DEFINE l == LeafAt(d, e[1])
    <3>1. l \in AllLeaves
      BY <2>1, LeafIs
    <3>2. e \in RowsAt(stored, d, l)
      BY DEF RowsAt
    <3>3. StoredLeaf(l) # {}
      BY <1>11, <3>1, <3>2
    <3>4. l \in L
      BY <3>3 DEF StoredLeaf
    <3> QED BY <1>2, <3>4
  <2>6. h[1..m] = TreeOf(d, R)
    <3> HIDE DEF W, R
    <3> QED BY <2>4, <2>5
  <2> QED BY <1>1, <1>2, <2>6
<1> QED BY <1>10, <1>11
-----------------------------------------------------------------------------
(* The inductive invariant *)

Locks == ({"key"} \X Key) \cup ({"leaf"} \X AllLeaves)
RowKeys(c) == {k \in Key : c[k] # NoRow}
IndexOf(d, K) == {<<LeafAt(d, k), k>> : k \in K}

StoreTypes ==
  /\ stored \in [Key -> Content]
  /\ DOMAIN leaves \subseteq AllLeaves /\ leaves \in [DOMAIN leaves -> SUBSET Pairs]
  /\ index \subseteq AllLeaves \X Key
  /\ dbDepth \in Depths \cup {0} /\ dbFormat \in {0, 1}
  /\ depth \in Depths /\ tree \in Trees(depth) /\ format \in {0, 1}
  /\ phase \in {"down", "clear", "reindex", "releaf", "upgrade", "record", "load", "up"}
  /\ todo \subseteq Key \cup AllLeaves /\ rebuilding \in BOOLEAN
  /\ pc \in [Writer -> {"idle", "locking", "updated"}]
  /\ wanted \in [Writer -> Seq(Locks)] /\ got \in [Writer -> Nat]
  /\ diffs \in [Writer -> SUBSET Changes]
  /\ forgetErrors \in Nat

\* A list of locks with the leaf of each key in it.
Paired(d, q) ==
  \A i \in 1..Len(q) : q[i][1] = "key" => \E j \in 1..Len(q) : q[j] = <<"leaf", LeafAt(d, q[i][2])>>

Locking(w) ==
  /\ got[w] <= Len(wanted[w]) /\ Paired(depth, wanted[w])
  /\ IF pc[w] = "idle" THEN wanted[w] = <<>> /\ got[w] = 0 ELSE phase = "up"

\* What a writer has changed in the tree is protected by its locks.
Changing(w) ==
  /\ pc[w] # "updated" => diffs[w] = {}
  /\ Distinct(diffs[w])
  /\ \A x \in diffs[w] : /\ x.old = stored[x.key]
                         /\ <<"key", x.key>> \in Held(w) /\ <<"leaf", LeafAt(depth, x.key)>> \in Held(w)
Writers ==
  /\ \A w \in Writer : Locking(w) /\ Changing(w)
  /\ \A v, w \in Writer : v # w => Held(v) \cap Held(w) = {}

LeavesOf(d) == \A l \in AllLeaves : StoredLeaf(l) = RowsAt(stored, d, l)
Settled(d) == index = IndexOf(d, RowKeys(stored)) /\ (forgetErrors = 0 => LeavesOf(d))

\* The disk in each phase of a start.
Disk ==
  /\ phase = "down" /\ ~rebuilding /\ dbDepth # 0 => Settled(dbDepth)
  /\ phase \in {"clear", "reindex", "releaf"} => rebuilding
  /\ phase = "reindex" => /\ DOMAIN leaves = {} /\ todo \subseteq RowKeys(stored)
                          /\ index = IndexOf(depth, RowKeys(stored) \ todo)
  /\ phase = "releaf" => /\ todo \subseteq AllLeaves /\ index = IndexOf(depth, RowKeys(stored))
                         /\ \A l \in AllLeaves \ todo : StoredLeaf(l) = RowsAt(stored, depth, l)
  /\ phase \in {"upgrade", "record", "load", "up"} => Settled(depth)
  /\ phase \in {"upgrade", "record"} => rebuilding \/ dbDepth = depth
  /\ phase \in {"load", "up"} => ~rebuilding /\ dbDepth = depth

\* What a key's content will be once the writers that have changed the tree are done.
ChangesOf(D, p) == UNION {D[w] : w \in {v \in Writer : p[v] = "updated"}}
After(c, U, k) ==
  LET X == {x \in U : x.key = k} IN IF X = {} THEN c[k] ELSE (CHOOSE x \in X : TRUE).new
PendingAt(c, D, p, k) == After(c, ChangesOf(D, p), k)
Coming(c, D, p) == [k \in Key |-> PendingAt(c, D, p, k)]

Tree == phase = "up" /\ forgetErrors = 0 => tree = TreeOf(depth, HashesOf(Coming(stored, diffs, pc)))

StoreInv == StoreTypes /\ Writers /\ Disk /\ Tree
-----------------------------------------------------------------------------
(* Lemmas about locks, pending changes and rows *)

\* The least of a set is one of its elements.
LEMMA MinIs ==
  ASSUME NEW S \in SUBSET Nat, S # {}
  PROVE  Min(S) \in S
<1>1. PICK x \in S : \A y \in S : x <= y
  BY NatMin
<1> QED BY <1>1, Zenon DEF Min

\* The locks of a batch: of its keys, and of the leaves of these keys.
LEMMA LocksAre ==
  ASSUME depth \in 1..HashBits, NEW K \in SUBSET Key
  PROVE  SortedLockKeys(K) \in Seq(Locks) /\ Paired(depth, SortedLockKeys(K))
<1> DEFINE L == {Leaf(k) : k \in K}
           n == Cardinality(K)
           m == Cardinality(L)
           a == [i \in 1..n |-> <<"key", InOrder(K)[i]>>]
           b == [i \in 1..m |-> <<"leaf", InOrder(L)[i]>>]
<1>1. L \in SUBSET AllLeaves /\ \A k \in K : Leaf(k) = LeafAt(depth, k)
  BY LeafIs DEF Leaf, LeafAt
<1>2. n \in Nat /\ InOrder(K) \in [1..n -> K]
  <2>1. MaxKey \in Nat /\ K \in SUBSET (1..MaxKey)
    BY KeysAssumption DEF Key
  <2> HIDE DEF n
  <2> QED BY <2>1, OrderIs DEF n
<1>3. m \in Nat /\ InOrder(L) \in [1..m -> L] /\ \A l \in L : \E i \in 1..m : InOrder(L)[i] = l
  <2> HIDE DEF L
  <2> QED BY <1>1, LeavesInOrder
<1>4. SortedLockKeys(K) = a \o b
  BY DEF SortedLockKeys
<1> HIDE DEF n, m, L
<1>5. a \in Seq(Locks) /\ Len(a) = n /\ \A i \in 1..n : a[i] = <<"key", InOrder(K)[i]>>
  <2>1. \A i \in 1..n : InOrder(K)[i] \in Key
    BY <1>2
  <2> QED BY <1>2, <2>1 DEF Locks
<1>6. b \in Seq(Locks) /\ Len(b) = m /\ \A i \in 1..m : b[i] = <<"leaf", InOrder(L)[i]>>
  <2>1. \A i \in 1..m : InOrder(L)[i] \in AllLeaves
    BY <1>1, <1>3
  <2> QED BY <1>3, <2>1 DEF Locks
<1> HIDE DEF a, b
<1>7. /\ a \o b \in Seq(Locks) /\ Len(a \o b) = n + m
      /\ \A i \in 1..(n + m) : (a \o b)[i] = IF i <= n THEN a[i] ELSE b[i - n]
  <2>1. a \o b \in Seq(Locks) /\ Len(a \o b) = Len(a) + Len(b)
    BY <1>5, <1>6, ConcatProperties
  <2>2. \A i \in 1..(Len(a) + Len(b)) : (a \o b)[i] = IF i <= Len(a) THEN a[i] ELSE b[i - Len(a)]
    BY <1>5, <1>6, ConcatProperties
  <2> QED BY <1>5, <1>6, <2>1, <2>2
<1>8. Paired(depth, a \o b)
  <2> SUFFICES ASSUME NEW i \in 1..(n + m), (a \o b)[i][1] = "key"
               PROVE  \E j \in 1..(n + m) : (a \o b)[j] = <<"leaf", LeafAt(depth, (a \o b)[i][2])>>
    BY <1>7 DEF Paired
  <2>1. i <= n /\ i \in 1..n
    <3> SUFFICES ASSUME ~(i <= n) PROVE FALSE
      BY <1>2, <1>3
    <3>1. i - n \in 1..m
      BY <1>2, <1>3
    <3>2. (a \o b)[i] = <<"leaf", InOrder(L)[i - n]>>
      BY <1>6, <1>7, <3>1
    <3> QED BY <3>2
  <2>2. (a \o b)[i] = <<"key", InOrder(K)[i]>> /\ InOrder(K)[i] \in K
    BY <1>2, <1>5, <1>7, <2>1
  <2>3. LeafAt(depth, InOrder(K)[i]) \in L
    BY <1>1, <2>2 DEF L
  <2>4. PICK j \in 1..m : InOrder(L)[j] = LeafAt(depth, InOrder(K)[i])
    BY <1>3, <2>3
  <2>5. n + j \in 1..(n + m) /\ ~(n + j <= n) /\ (n + j) - n = j
    BY <1>2, <1>3
  <2>6. (a \o b)[n + j] = <<"leaf", LeafAt(depth, InOrder(K)[i])>>
    BY <1>6, <1>7, <2>4, <2>5
  <2>7. (a \o b)[i][2] = InOrder(K)[i]
    BY <2>2
  <2>8. (a \o b)[n + j] = <<"leaf", LeafAt(depth, (a \o b)[i][2])>>
    BY <2>6, <2>7, Zenon
  <2> QED BY <2>5, <2>8, Zenon
<1> QED BY <1>4, <1>7, <1>8

\* No two changes of the tree are of the same key.
OneChange(D, p) ==
  \A v, w \in Writer : p[v] = "updated" /\ p[w] = "updated" =>
    \A x \in D[v], y \in D[w] : x.key = y.key => x = y

IsPending(c, D, p, k) ==
  /\ \A w \in Writer : p[w] = "updated" => \A x \in D[w] : x.key = k => PendingAt(c, D, p, k) = x.new
  /\ (\A w \in Writer : p[w] = "updated" => \A x \in D[w] : x.key # k) => PendingAt(c, D, p, k) = c[k]

\* The content that is coming of a key: that of the only change of it, if there is one.
LEMMA PendingIs ==
  ASSUME NEW c, NEW D, NEW p, OneChange(D, p), NEW k
  PROVE  IsPending(c, D, p, k)
<1> DEFINE X == {x \in ChangesOf(D, p) : x.key = k}
<1>1. PendingAt(c, D, p, k) = IF X = {} THEN c[k] ELSE (CHOOSE x \in X : TRUE).new
  BY DEF PendingAt, After
<1>2. \A x : x \in X <=> x.key = k /\ \E w \in Writer : p[w] = "updated" /\ x \in D[w]
  BY DEF ChangesOf
<1> HIDE DEF X
<1>3. ASSUME NEW w \in Writer, p[w] = "updated", NEW x \in D[w], x.key = k
      PROVE  PendingAt(c, D, p, k) = x.new
  <2>1. x \in X
    BY <1>2, <1>3
  <2>2. \A y \in X : y = x
    BY <1>2, <1>3 DEF OneChange
  <2>3. (CHOOSE y \in X : TRUE) = x
    BY <2>1, <2>2
  <2> QED BY <1>1, <2>1, <2>3
<1>4. ASSUME \A w \in Writer : p[w] = "updated" => \A x \in D[w] : x.key # k
      PROVE  PendingAt(c, D, p, k) = c[k]
  <2>1. X = {}
    BY <1>2, <1>4
  <2> QED BY <1>1, <2>1
<1> QED BY <1>3, <1>4 DEF IsPending

\* Rows below a leaf depend on the keys of the leaf only.
LEMMA RowsSame ==
  ASSUME NEW c, NEW f, NEW d, NEW l, \A k \in Key : LeafAt(d, k) = l => (c[k] = f[k] \/ (c[k] \notin Value /\ f[k] \notin Value))
  PROVE  RowsAt(c, d, l) = RowsAt(f, d, l)
BY DEF RowsAt, HashesOf, Pairs

\* Contents that differ in tombstones only have the same hashes.
LEMMA HashesSame ==
  ASSUME NEW c, NEW f, \A k \in Key : c[k] = f[k] \/ (c[k] \notin Value /\ f[k] \notin Value)
  PROVE  HashesOf(c) = HashesOf(f)
BY DEF HashesOf, Pairs

\* The rows below the leaf of a tree.
LEMMA LeafRows ==
  ASSUME NEW d \in 1..HashBits, NEW l \in Nodes(d), l % 2 = 1, NEW c
  PROVE  Reach(HashesOf(c), d, l) = RowsAt(c, d, l)
<1>1. KeysAt(d, l) = {k \in Key : LeafAt(d, k) = l}
  BY LeafKeys
<1> QED BY <1>1 DEF Reach, RowsAt, HashesOf, Pairs

\* What the invariant says of the depth and of the locks of changes.
LEMMA StoreFacts ==
  ASSUME StoreTypes, Writers
  PROVE  /\ depth \in 1..HashBits /\ depth # 0 /\ \A k : Leaf(k) = LeafAt(depth, k)
         /\ OneChange(diffs, pc)
         /\ \A w \in Writer : /\ got[w] \in 0..Len(wanted[w])
                              /\ \A x \in diffs[w] : x \in Changes /\ pc[w] = "updated"
         /\ phase # "up" => \A w \in Writer : pc[w] = "idle" /\ diffs[w] = {}
<1>1. depth \in 1..HashBits /\ depth # 0
  BY MerkleAssumption, DepthAssumption DEF StoreTypes
<1>2. \A k : Leaf(k) = LeafAt(depth, k)
  BY DEF Leaf, LeafAt
<1>3. OneChange(diffs, pc)
  <2> SUFFICES ASSUME NEW v \in Writer, NEW w \in Writer, NEW x \in diffs[v], NEW y \in diffs[w], x.key = y.key
               PROVE  x = y
    BY DEF OneChange
  <2>1. <<"key", x.key>> \in Held(v) /\ <<"key", x.key>> \in Held(w) /\ Distinct(diffs[v])
    BY DEF Writers, Changing
  <2>2. v = w
    BY <2>1 DEF Writers
  <2> QED BY <2>1, <2>2 DEF Distinct
<1>4. ASSUME NEW w \in Writer
      PROVE  /\ got[w] \in 0..Len(wanted[w])
             /\ \A x \in diffs[w] : x \in Changes /\ pc[w] = "updated"
             /\ phase # "up" => pc[w] = "idle" /\ diffs[w] = {}
  <2>1. got[w] \in Nat /\ wanted[w] \in Seq(Locks) /\ diffs[w] \in SUBSET Changes
    BY DEF StoreTypes
  <2>2. Locking(w) /\ Changing(w)
    BY DEF Writers
  <2>3. Len(wanted[w]) \in Nat
    BY <2>1
  <2>4. phase # "up" => pc[w] = "idle" /\ diffs[w] = {}
    BY <2>2 DEF Locking, Changing
  <2> QED BY <2>1, <2>2, <2>3, <2>4 DEF Locking, Changing
<1> QED BY <1>1, <1>2, <1>3, <1>4
-----------------------------------------------------------------------------
(* Startup preserves the invariant *)

\* Writers that do nothing, and nothing is pending.
LEMMA IdleWriters ==
  ASSUME \A w \in Writer : pc'[w] = "idle" /\ wanted'[w] = <<>> /\ got'[w] = 0 /\ diffs'[w] = {}
  PROVE  /\ Writers' /\ OneChange(diffs', pc')
         /\ \A k \in Key : PendingAt(stored', diffs', pc', k) = stored'[k]
<1>1. \A w \in Writer : Held(w)' = {}
  BY DEF Held
<1>2. \A w \in Writer : Locking(w)'
  <2> SUFFICES ASSUME NEW w \in Writer PROVE Locking(w)'
    OBVIOUS
  <2>1. Len(wanted'[w]) = 0
    <3>1. wanted'[w] = <<>>
      OBVIOUS
    <3> QED BY <3>1
  <2>2. got'[w] <= Len(wanted'[w]) /\ Paired(depth', wanted'[w])
    BY <2>1 DEF Paired
  <2> QED BY <2>2 DEF Locking
<1>3. \A w \in Writer : Changing(w)'
  BY DEF Changing, Distinct
<1>4. OneChange(diffs', pc')
  BY DEF OneChange
<1>5. \A k \in Key : PendingAt(stored', diffs', pc', k) = stored'[k]
  <2> SUFFICES ASSUME NEW k \in Key PROVE PendingAt(stored', diffs', pc', k) = stored'[k]
    OBVIOUS
  <2> QED BY <1>4, PendingIs DEF IsPending
<1> QED BY <1>1, <1>2, <1>3, <1>4, <1>5 DEF Writers

\* There are no writers while the process starts.
LEMMA StartupWriters ==
  ASSUME StoreTypes, Writers, phase # "up", UNCHANGED writers
  PROVE  Writers' /\ \A k \in Key : PendingAt(stored', diffs', pc', k) = stored'[k]
<1>1. \A w \in Writer : pc[w] = "idle" /\ diffs[w] = {}
  BY StoreFacts
<1>2. \A w \in Writer : wanted[w] = <<>> /\ got[w] = 0
  BY <1>1 DEF Writers, Locking
<1>3. \A w \in Writer : pc'[w] = "idle" /\ wanted'[w] = <<>> /\ got'[w] = 0 /\ diffs'[w] = {}
  BY <1>1, <1>2 DEF writers
<1> QED BY <1>3, IdleWriters

\* A start with the depth on disk finds leaves and index right, or rebuilds them.
LEMMA InitializeInv ==
  ASSUME StoreInv, MayRevert = FALSE, NEW d \in Depths, Initialize(d)
  PROVE  StoreInv'
<1>1. StoreTypes'
  <2>1. d \in 1..HashBits
    BY MerkleAssumption
  <2>2. EmptyTree(d) \in Trees(d)
    BY DEF EmptyTree, Trees
  <2> QED BY <2>2 DEF StoreInv, StoreTypes, Initialize, disk, writers, storeBounds
<1>2. Writers'
  BY StartupWriters DEF StoreInv, Initialize
<1>3. Disk'
  <2>1. Settled(d) /\ d # 0 => (Settled(d))'
    BY DEF Settled, LeavesOf, StoredLeaf, Initialize, disk, storeBounds
  <2>2. d # 0
    BY MerkleAssumption, DepthAssumption
  <2>3. dbDepth = d => ~rebuilding /\ Settled(d)
    BY <2>2 DEF StoreInv, Disk, Initialize
  <2>4. depth' = d /\ dbDepth' = dbDepth /\ rebuilding' = (rebuilding \/ dbDepth # d)
        /\ phase' = IF dbDepth # d THEN "clear" ELSE IF dbFormat # 1 THEN "upgrade" ELSE "load"
    BY DEF Initialize, disk
  <2>5. CASE dbDepth # d
    BY <2>4, <2>5 DEF Disk
  <2>6. CASE dbDepth = d
    <3>1. (Settled(depth))'
      BY <2>1, <2>2, <2>3, <2>4, <2>6 DEF Settled, LeavesOf
    <3> QED BY <2>3, <2>4, <2>6, <3>1 DEF Disk
  <2> QED BY <2>5, <2>6
<1>4. Tree'
  BY DEF Tree, Initialize
<1> QED BY <1>1, <1>2, <1>3, <1>4 DEF StoreInv

\* Deleting leaf hashes, index and metadata: nothing is relied on until they are back.
LEMMA ClearInv ==
  ASSUME StoreInv, ClearLeaf \/ ClearIndex \/ ClearMetadata \/ ClearDone
  PROVE  StoreInv'
<1>0. StoreTypes /\ Writers /\ Disk /\ phase = "clear"
  BY DEF StoreInv, ClearLeaf, ClearIndex, ClearMetadata, ClearDone
<1>1. Writers'
  <2>1. UNCHANGED writers
    BY DEF ClearLeaf, ClearIndex, ClearMetadata, ClearDone
  <2> QED BY <1>0, <2>1, StartupWriters
<1>2. CASE ClearLeaf
  <2>1. StoreTypes'
    BY <1>0, <1>2 DEF StoreTypes, ClearLeaf, memory, writers, storeBounds
  <2>2. Disk' /\ Tree'
    BY <1>0, <1>2 DEF Disk, Tree, ClearLeaf
  <2> QED BY <1>1, <2>1, <2>2 DEF StoreInv
<1>3. CASE ClearIndex
  <2>1. index' \subseteq index
    BY <1>3 DEF ClearIndex
  <2>2. StoreTypes'
    BY <1>0, <1>3, <2>1 DEF StoreTypes, ClearIndex, memory, writers, storeBounds
  <2>3. Disk' /\ Tree'
    BY <1>0, <1>3 DEF Disk, Tree, ClearIndex
  <2> QED BY <1>1, <2>2, <2>3 DEF StoreInv
<1>4. CASE ClearMetadata
  <2>1. StoreTypes'
    BY <1>0, <1>4 DEF StoreTypes, ClearMetadata, memory, writers, storeBounds
  <2>2. Disk' /\ Tree'
    BY <1>0, <1>4 DEF Disk, Tree, ClearMetadata
  <2> QED BY <1>1, <2>1, <2>2 DEF StoreInv
<1>5. CASE ClearDone
  <2>1. StoreTypes'
    BY <1>0, <1>5 DEF StoreTypes, ClearDone, disk, memory, writers, storeBounds
  <2>2. /\ phase' = "reindex" /\ DOMAIN leaves' = {} /\ todo' = RowKeys(stored') /\ index' = {} /\ rebuilding'
    BY <1>0, <1>5 DEF ClearDone, disk, RowKeys, Disk
  <2>3. index' = IndexOf(depth', RowKeys(stored') \ todo')
    BY <2>2 DEF IndexOf
  <2>4. Disk' /\ Tree'
    BY <2>2, <2>3 DEF Disk, Tree
  <2> QED BY <1>1, <2>1, <2>4 DEF StoreInv
<1> QED BY <1>2, <1>3, <1>4, <1>5

\* The index is right for the keys that have been entered.
LEMMA ReindexInv ==
  ASSUME StoreInv, Reindex
  PROVE  StoreInv'
<1>0. StoreTypes /\ Writers /\ Disk /\ phase = "reindex" /\ depth \in 1..HashBits /\ \A k : Leaf(k) = LeafAt(depth, k)
  BY StoreFacts DEF StoreInv, Reindex
<1>1. Writers'
  BY <1>0, StartupWriters DEF Reindex
<1>2. /\ UNCHANGED <<stored, leaves, dbDepth, dbFormat, memory, rebuilding, writers, storeBounds>>
      /\ rebuilding /\ DOMAIN leaves = {} /\ todo \subseteq RowKeys(stored)
      /\ index = IndexOf(depth, RowKeys(stored) \ todo)
  BY <1>0 DEF Reindex, Disk
<1>3. CASE todo # {}
  <2> DEFINE k == Min(todo)
  <2>1. k \in todo /\ k \in Key
    <3>1. todo \in SUBSET Nat
      BY <1>2, KeysAssumption DEF RowKeys, Key
    <3>2. k \in todo
      BY <1>3, <3>1, MinIs
    <3> QED BY <1>2, <3>2 DEF RowKeys
  <2>2. index' = index \cup {<<LeafAt(depth, k), k>>} /\ todo' = todo \ {k} /\ phase' = phase
    BY <1>0, <1>3 DEF Reindex
  <2> HIDE DEF k
  <2>3. LeafAt(depth, k) \in AllLeaves
    BY <1>0, <2>1, LeafIs
  <2>4. StoreTypes'
    <3>1. index' \subseteq AllLeaves \X Key /\ todo' \subseteq Key \cup AllLeaves
      BY <1>0, <2>1, <2>2, <2>3 DEF StoreTypes
    <3> QED BY <1>0, <1>2, <2>2, <3>1 DEF StoreTypes, memory, writers, storeBounds
  <2>5. IndexOf(depth, RowKeys(stored) \ (todo \ {k})) = IndexOf(depth, RowKeys(stored) \ todo) \cup {<<LeafAt(depth, k), k>>}
    BY <1>2, <2>1 DEF IndexOf
  <2>6. index' = IndexOf(depth', RowKeys(stored') \ todo')
    BY <1>2, <2>2, <2>5 DEF memory
  <2>7. Disk' /\ Tree'
    BY <1>0, <1>2, <2>2, <2>6 DEF Disk, Tree
  <2> QED BY <1>1, <2>4, <2>7 DEF StoreInv
<1>4. CASE todo = {}
  <2>1. phase' = "releaf" /\ todo' = NonzeroLeaves /\ index' = index
    BY <1>4 DEF Reindex
  <2>2. NonzeroLeaves = {LeafAt(depth, k) : k \in {j \in Key : stored[j] \in Value}}
    BY <1>0 DEF NonzeroLeaves
  <2>3. NonzeroLeaves \subseteq AllLeaves
    BY <1>0, <2>2, LeafIs
  <2>4. StoreTypes'
    BY <1>0, <1>2, <2>1, <2>3 DEF StoreTypes, memory, writers, storeBounds
  <2>5. ASSUME NEW l \in AllLeaves, l \notin NonzeroLeaves
        PROVE  StoredLeaf(l)' = RowsAt(stored', depth', l)
    <3>1. StoredLeaf(l)' = {}
      BY <1>2 DEF StoredLeaf
    <3>2. RowsAt(stored, depth, l) = {}
      BY <2>2, <2>5 DEF RowsAt, HashesOf, Pairs
    <3> QED BY <1>2, <3>1, <3>2 DEF memory
  <2>6. index' = IndexOf(depth', RowKeys(stored'))
    <3>1. RowKeys(stored) \ todo = RowKeys(stored)
      BY <1>4
    <3> QED BY <1>2, <2>1, <3>1 DEF memory
  <2>7. Disk' /\ Tree'
    BY <1>2, <2>1, <2>3, <2>5, <2>6 DEF Disk, Tree
  <2> QED BY <1>1, <2>4, <2>7 DEF StoreInv
<1> QED BY <1>3, <1>4

\* The hash a rebuild gives to a leaf.
LEMMA HashOfRows ==
  ASSUME depth \in 1..HashBits, NEW l
  PROVE  LeafHashOfRows(l) = RowsAt(stored, depth, l)
<1> DEFINE U == UNION {RowHash(k, stored[k]) : k \in Key}
<1>1. U = HashesOf(stored)
  <2>1. \A e : e \in U <=> \E k \in Key : e \in RowHash(k, stored[k])
    OBVIOUS
  <2>2. \A e \in U : e \in Pairs
    BY <2>1, RowsAre
  <2>3. \A e \in Pairs : e \in U <=> stored[e[1]] = e[2]
    <3> SUFFICES ASSUME NEW e \in Pairs PROVE e \in U <=> stored[e[1]] = e[2]
      OBVIOUS
    <3>1. e[1] \in Key
      BY DEF Pairs
    <3>2. \A k \in Key : e \in RowHash(k, stored[k]) <=> e[1] = k /\ e[2] = stored[k]
      BY RowsAre
    <3> HIDE DEF U
    <3> QED BY <2>1, <3>1, <3>2
  <2> HIDE DEF U
  <2> QED BY <2>2, <2>3 DEF HashesOf
<1>2. LeafHashOfRows(l) = {e \in U : Leaf(e[1]) = l}
  BY DEF LeafHashOfRows
<1> QED BY <1>1, <1>2 DEF RowsAt, Leaf, LeafAt

\* Leaf hashes are right for the leaves that have been written.
LEMMA ReleafInv ==
  ASSUME StoreInv, Releaf
  PROVE  StoreInv'
<1>0. StoreTypes /\ Writers /\ Disk /\ phase = "releaf" /\ depth \in 1..HashBits
  BY StoreFacts DEF StoreInv, Releaf
<1>1. Writers'
  BY <1>0, StartupWriters DEF Releaf
<1>2. /\ UNCHANGED <<stored, index, dbDepth, dbFormat, memory, rebuilding, writers, storeBounds>>
      /\ rebuilding /\ todo \subseteq AllLeaves /\ index = IndexOf(depth, RowKeys(stored))
      /\ \A l \in AllLeaves \ todo : StoredLeaf(l) = RowsAt(stored, depth, l)
  BY <1>0 DEF Releaf, Disk
<1>3. CASE todo # {}
  <2> DEFINE l == Min(todo)
             X == RowsAt(stored, depth, l)
  <2>1. l \in todo /\ l \in AllLeaves
    <3>1. todo \in SUBSET Nat
      BY <1>0, <1>2, Depths28 DEF AllLeaves, Nodes, NodeLimit
    <3>2. l \in todo
      BY <1>3, <3>1, MinIs
    <3> QED BY <1>2, <3>2
  <2>2. /\ leaves' = [m \in DOMAIN leaves \cup {l} |-> IF m = l THEN X ELSE leaves[m]]
        /\ todo' = todo \ {l} /\ phase' = phase
    BY <1>0, <1>3, HashOfRows DEF Releaf
  <2>3. X \in SUBSET Pairs
    BY DEF RowsAt, HashesOf
  <2>4. StoreTypes'
    <3>1. DOMAIN leaves' \subseteq AllLeaves /\ leaves' \in [DOMAIN leaves' -> SUBSET Pairs]
      <4> HIDE DEF X, l
      <4> QED BY <1>0, <2>1, <2>2, <2>3 DEF StoreTypes
    <3>2. todo' \subseteq Key \cup AllLeaves
      BY <1>2, <2>2
    <3> HIDE DEF X, l
    <3> QED BY <1>0, <1>2, <2>2, <3>1, <3>2 DEF StoreTypes, memory, writers, storeBounds
  <2>5. ASSUME NEW m \in AllLeaves \ todo'
        PROVE  StoredLeaf(m)' = RowsAt(stored', depth', m)
    <3>1. stored' = stored /\ depth' = depth
      BY <1>2 DEF memory
    <3>2. CASE m = l
      BY <2>2, <3>1, <3>2 DEF StoredLeaf
    <3>3. CASE m # l
      <4>1. m \in AllLeaves \ todo
        BY <2>2, <2>5, <3>3
      <4>2. StoredLeaf(m) = RowsAt(stored, depth, m)
        BY <1>2, <4>1
      <4> HIDE DEF l
      <4>3. StoredLeaf(m)' = StoredLeaf(m)
        BY <2>2, <3>3 DEF StoredLeaf
      <4> QED BY <3>1, <4>2, <4>3
    <3> QED BY <3>2, <3>3
  <2>6. Disk' /\ Tree'
    <3>1. todo' \subseteq AllLeaves /\ index' = IndexOf(depth', RowKeys(stored'))
      BY <1>2, <2>2 DEF memory
    <3>2. phase' = "releaf" /\ rebuilding'
      BY <1>0, <1>2, <2>2
    <3> QED BY <2>5, <3>1, <3>2 DEF Disk, Tree
  <2> QED BY <1>1, <2>4, <2>6 DEF StoreInv
<1>4. CASE todo = {}
  <2>1. phase' \in {"upgrade", "record"} /\ todo' = todo /\ leaves' = leaves
    BY <1>4 DEF Releaf
  <2>2. StoreTypes'
    BY <1>0, <1>2, <2>1 DEF StoreTypes, memory, writers, storeBounds
  <2>3. (Settled(depth))'
    BY <1>2, <1>4, <2>1 DEF Settled, LeavesOf, StoredLeaf, memory
  <2>4. Disk' /\ Tree'
    BY <1>2, <2>1, <2>3 DEF Disk, Tree
  <2> QED BY <1>1, <2>2, <2>4 DEF StoreInv
<1> QED BY <1>3, <1>4

\* The metadata is written when leaves and index are right.
LEMMA RecordInv ==
  ASSUME StoreInv, UpgradeStorageFormat \/ RecordMetadata
  PROVE  StoreInv'
<1>0. StoreTypes /\ Writers /\ Disk /\ phase \in {"upgrade", "record"} /\ depth \in 1..HashBits
  BY StoreFacts DEF StoreInv, UpgradeStorageFormat, RecordMetadata
<1>1. /\ UNCHANGED <<stored, leaves, index, memory, todo, writers, storeBounds>>
      /\ \/ phase' = "record" /\ UNCHANGED <<dbDepth, dbFormat, rebuilding>>
         \/ phase' = "load" /\ dbDepth' = depth /\ dbFormat' = 1 /\ rebuilding' = FALSE
  BY DEF UpgradeStorageFormat, RecordMetadata, disk
<1>2. Writers'
  BY <1>0, <1>1, StartupWriters
<1>3. StoreTypes'
  BY <1>0, <1>1 DEF StoreTypes, memory, writers, storeBounds
<1>4. (Settled(depth))'
  BY <1>0, <1>1 DEF Disk, Settled, LeavesOf, StoredLeaf, memory, storeBounds
<1>5. Disk' /\ Tree'
  BY <1>0, <1>1, <1>4 DEF Disk, Tree, memory
<1> QED BY <1>2, <1>3, <1>5 DEF StoreInv

\* The tree in memory starts as that of the rows.
LEMMA LoadInv ==
  ASSUME StoreInv, InitializeMerkleTree
  PROVE  StoreInv'
<1>0. StoreTypes /\ Writers /\ Disk /\ phase = "load" /\ depth \in 1..HashBits
  BY StoreFacts DEF StoreInv, InitializeMerkleTree
<1>1. UNCHANGED <<disk, depth, format, todo, rebuilding, writers, storeBounds>> /\ phase' = "up" /\ tree' = Loaded
  BY DEF InitializeMerkleTree, Loaded
<1>2. Writers' /\ \A k \in Key : PendingAt(stored', diffs', pc', k) = stored'[k]
  BY <1>0, <1>1, StartupWriters
<1>3. /\ Loaded \in Trees(depth)
      /\ LeavesOf(depth) => Loaded = TreeOf(depth, HashesOf(stored))
  BY <1>0, LoadIs DEF StoreTypes, LeavesOf
<1>4. StoreTypes'
  BY <1>0, <1>1, <1>3 DEF StoreTypes, disk, writers, storeBounds
<1>5. Settled(depth) /\ ~rebuilding /\ dbDepth = depth
  BY <1>0 DEF Disk
<1>6. (Settled(depth))'
  BY <1>1, <1>5 DEF Settled, LeavesOf, StoredLeaf, disk, storeBounds
<1>7. Disk'
  BY <1>1, <1>5, <1>6 DEF Disk, disk
<1>8. Tree'
  <2> SUFFICES ASSUME forgetErrors' = 0 PROVE tree' = TreeOf(depth', HashesOf(Coming(stored', diffs', pc')))
    BY DEF Tree
  <2>1. forgetErrors = 0 /\ stored' = stored /\ depth' = depth
    BY <1>1 DEF storeBounds, disk
  <2>2. tree' = TreeOf(depth, HashesOf(stored))
    BY <1>1, <1>3, <1>5, <2>1 DEF Settled
  <2>3. \A k \in Key : Coming(stored', diffs', pc')[k] = stored[k]
    BY <1>2, <2>1 DEF Coming
  <2>4. HashesOf(Coming(stored', diffs', pc')) = HashesOf(stored)
    BY <2>3, HashesSame
  <2> QED BY <2>1, <2>2, <2>4
<1> QED BY <1>2, <1>4, <1>7, <1>8 DEF StoreInv

\* A crash loses what was pending, which was on no disk.
LEMMA CrashInv ==
  ASSUME StoreInv, Crash
  PROVE  StoreInv'
<1>0. StoreTypes /\ Writers /\ Disk /\ phase # "down" /\ depth \in 1..HashBits
  BY StoreFacts DEF StoreInv, Crash
<1>1. /\ UNCHANGED <<disk, memory, rebuilding, forgetErrors>> /\ phase' = "down" /\ todo' = {}
      /\ pc' = [w \in Writer |-> "idle"] /\ wanted' = [w \in Writer |-> <<>>]
      /\ got' = [w \in Writer |-> 0] /\ diffs' = [w \in Writer |-> {}]
  BY DEF Crash
<1>2. Writers'
  BY <1>1, IdleWriters
<1>3. StoreTypes'
  <2>1. <<>> \in Seq(Locks)
    OBVIOUS
  <2> QED BY <1>0, <1>1, <2>1 DEF StoreTypes, disk, memory
<1>4. Settled(dbDepth) => (Settled(dbDepth))'
  BY <1>1 DEF Settled, LeavesOf, StoredLeaf, disk
<1>5. ~rebuilding => Settled(dbDepth)
  BY <1>0 DEF Disk, StoreTypes
<1>6. Disk' /\ Tree'
  BY <1>1, <1>4, <1>5 DEF Disk, Tree
<1> QED BY <1>2, <1>3, <1>6 DEF StoreInv
-----------------------------------------------------------------------------
(* What writers are doing *)

\* The content that is coming of a key, by the changes of the writers.
LEMMA NowComing ==
  ASSUME Writers, NEW k \in Key
  PROVE  /\ \A w \in Writer : \A x \in diffs[w] : x.key = k => Coming(stored, diffs, pc)[k] = x.new
         /\ (\A w \in Writer : \A x \in diffs[w] : x.key # k) => Coming(stored, diffs, pc)[k] = stored[k]
<1>1. \A w \in Writer : \A x \in diffs[w] : pc[w] = "updated"
  BY DEF Writers, Changing
<1>2. OneChange(diffs, pc)
  <2> SUFFICES ASSUME NEW v \in Writer, NEW w \in Writer, NEW x \in diffs[v], NEW y \in diffs[w], x.key = y.key
               PROVE  x = y
    BY DEF OneChange
  <2>1. <<"key", x.key>> \in Held(v) /\ <<"key", x.key>> \in Held(w) /\ Distinct(diffs[v])
    BY DEF Writers, Changing
  <2>2. v = w
    BY <2>1 DEF Writers
  <2> QED BY <2>1, <2>2 DEF Distinct
<1>3. Coming(stored, diffs, pc)[k] = PendingAt(stored, diffs, pc, k)
  BY DEF Coming
<1>4. IsPending(stored, diffs, pc, k)
  BY <1>2, PendingIs
<1> QED BY <1>1, <1>3, <1>4 DEF IsPending

\* The same of the next state.
LEMMA NextComing ==
  ASSUME Writers', NEW k \in Key
  PROVE  /\ \A w \in Writer : \A x \in diffs'[w] : x.key = k => Coming(stored', diffs', pc')[k] = x.new
         /\ (\A w \in Writer : \A x \in diffs'[w] : x.key # k) => Coming(stored', diffs', pc')[k] = stored'[k]
<1>1. \A w \in Writer : \A x \in diffs'[w] : pc'[w] = "updated"
  BY DEF Writers, Changing
<1>2. OneChange(diffs', pc')
  <2> SUFFICES ASSUME NEW v \in Writer, NEW w \in Writer, NEW x \in diffs'[v], NEW y \in diffs'[w], x.key = y.key
               PROVE  x = y
    BY DEF OneChange
  <2>1. <<"key", x.key>> \in Held(v)' /\ <<"key", x.key>> \in Held(w)' /\ Distinct(diffs'[v])
    BY DEF Writers, Changing
  <2>2. v = w
    BY <2>1 DEF Writers
  <2> QED BY <2>1, <2>2 DEF Distinct
<1>3. Coming(stored', diffs', pc')[k] = PendingAt(stored', diffs', pc', k)
  BY DEF Coming
<1>4. IsPending(stored', diffs', pc', k)
  BY <1>2, PendingIs
<1> QED BY <1>1, <1>3, <1>4 DEF IsPending

\* Changes of two writers are of different keys on different leaves.
LEMMA OtherLocks ==
  ASSUME Writers, NEW v \in Writer, NEW w \in Writer, v # w, NEW x \in diffs[v], NEW y \in diffs[w]
  PROVE  x.key # y.key /\ LeafAt(depth, x.key) # LeafAt(depth, y.key)
<1>1. <<"leaf", LeafAt(depth, x.key)>> \in Held(v) /\ <<"leaf", LeafAt(depth, y.key)>> \in Held(w)
  BY DEF Writers, Changing
<1>2. Held(v) \cap Held(w) = {}
  BY DEF Writers
<1> QED BY <1>1, <1>2

\* Nothing is pending on a leaf whose lock is free.
LEMMA FreeLeaf ==
  ASSUME Writers, NEW k \in Key, Free(<<"leaf", LeafAt(depth, k)>>)
  PROVE  /\ \A v \in Writer : \A x \in diffs[v] : LeafAt(depth, x.key) # LeafAt(depth, k) /\ x.key # k
         /\ \A j \in Key : LeafAt(depth, j) = LeafAt(depth, k) => Coming(stored, diffs, pc)[j] = stored[j]
<1>1. ASSUME NEW v \in Writer, NEW x \in diffs[v]
      PROVE  LeafAt(depth, x.key) # LeafAt(depth, k) /\ x.key # k
  <2>1. <<"leaf", LeafAt(depth, x.key)>> \in Held(v) /\ <<"leaf", LeafAt(depth, k)>> \notin Held(v)
    BY DEF Writers, Changing, Free
  <2> QED BY <2>1
<1>2. ASSUME NEW j \in Key, LeafAt(depth, j) = LeafAt(depth, k) PROVE Coming(stored, diffs, pc)[j] = stored[j]
  BY <1>1, <1>2, NowComing
<1> QED BY <1>1, <1>2

\* Steps that take locks leave tree and disk alone.
LEMMA LockStep ==
  ASSUME StoreInv, UNCHANGED <<disk, memory, phase, todo, rebuilding, diffs, forgetErrors>>,
         \A w \in Writer : pc'[w] = "updated" <=> pc[w] = "updated"
  PROVE  Disk' /\ Tree'
<1>1. Disk /\ Tree
  BY DEF StoreInv
<1>2. \A d : Settled(d) => (Settled(d))'
  BY DEF Settled, LeavesOf, StoredLeaf, disk
<1>3. Disk'
  BY <1>1 DEF Disk, Settled, LeavesOf, StoredLeaf, disk, memory
<1>4. Coming(stored', diffs', pc') = Coming(stored, diffs, pc)
  <2>1. ChangesOf(diffs', pc') = ChangesOf(diffs, pc)
    BY DEF ChangesOf
  <2>2. ASSUME NEW k PROVE PendingAt(stored', diffs', pc', k) = PendingAt(stored, diffs, pc, k)
    <3>1. stored' = stored /\ diffs' = diffs
      BY DEF disk
    <3> QED BY <2>1, <3>1 DEF PendingAt
  <2> QED BY <2>2 DEF Coming
<1>5. Tree'
  BY <1>1, <1>4 DEF Tree, memory, disk
<1> QED BY <1>3, <1>5

\* A writer that begins holds no lock.
LEMMA BeginInv ==
  ASSUME StoreInv, NEW w \in Writer, NEW K \in SUBSET Key \ {{}}, Begin(w, K)
  PROVE  StoreInv'
<1> DEFINE q == SortedLockKeys(K)
<1>0. StoreTypes /\ Writers /\ phase = "up" /\ pc[w] = "idle" /\ depth \in 1..HashBits
  BY StoreFacts DEF StoreInv, Begin
<1>1. /\ UNCHANGED <<disk, memory, phase, todo, rebuilding, diffs, forgetErrors>>
      /\ wanted' = [wanted EXCEPT ![w] = q] /\ got' = [got EXCEPT ![w] = 0] /\ pc' = [pc EXCEPT ![w] = "locking"]
  BY DEF Begin
<1>2. q \in Seq(Locks) /\ Paired(depth, q) /\ Len(q) \in Nat
  <2>1. K \in SUBSET Key
    OBVIOUS
  <2>2. q \in Seq(Locks) /\ Paired(depth, q)
    BY <1>0, <2>1, LocksAre
  <2> QED BY <2>2, LenProperties
<1> HIDE DEF q
<1>3. StoreTypes'
  BY <1>0, <1>1, <1>2 DEF StoreTypes, disk, memory
<1>4. /\ wanted'[w] = q /\ got'[w] = 0 /\ pc'[w] = "locking" /\ diffs[w] = {}
      /\ \A v \in Writer : v # w => wanted'[v] = wanted[v] /\ got'[v] = got[v] /\ pc'[v] = pc[v]
  <2>1. diffs[w] = {}
    BY <1>0 DEF Writers, Changing
  <2>2. DOMAIN wanted = Writer /\ DOMAIN got = Writer /\ DOMAIN pc = Writer
    BY <1>0 DEF StoreTypes
  <2> QED BY <1>1, <2>1, <2>2
<1>5. Held(w)' = {} /\ \A v \in Writer : v # w => Held(v)' = Held(v)
  BY <1>4 DEF Held
<1>6. \A v \in Writer : Locking(v)'
  BY <1>0, <1>1, <1>2, <1>4 DEF Writers, Locking, memory
<1>7. \A v \in Writer : Changing(v)'
  BY <1>0, <1>1, <1>4, <1>5 DEF Writers, Changing, Distinct, memory, disk
<1>8. \A v, u \in Writer : v # u => Held(v)' \cap Held(u)' = {}
  BY <1>0, <1>5 DEF Writers
<1>9. Writers'
  BY <1>6, <1>7, <1>8 DEF Writers
<1>10. \A v \in Writer : pc'[v] = "updated" <=> pc[v] = "updated"
  BY <1>0, <1>4
<1> QED BY <1>1, <1>3, <1>9, <1>10, LockStep DEF StoreInv

\* A lock is taken when no other writer holds it.
LEMMA AcquireInv ==
  ASSUME StoreInv, NEW w \in Writer, Acquire(w)
  PROVE  StoreInv'
<1> DEFINE x == wanted[w][got[w] + 1]
<1>0. StoreTypes /\ Writers /\ phase = "up" /\ pc[w] = "locking" /\ got[w] \in Nat /\ got[w] < Len(wanted[w])
  BY DEF StoreInv, Acquire, StoreTypes, Writers, Locking
<1>1. /\ UNCHANGED <<disk, memory, phase, todo, rebuilding, pc, wanted, diffs, forgetErrors>>
      /\ got' = [got EXCEPT ![w] = got[w] + 1] /\ Free(x)
  BY DEF Acquire, storeBounds
<1>2. StoreTypes'
  BY <1>0, <1>1 DEF StoreTypes, disk, memory
<1>3. got'[w] = got[w] + 1 /\ \A v \in Writer : v # w => got'[v] = got[v]
  BY <1>0, <1>1 DEF StoreTypes
<1>4. Held(w)' = Held(w) \cup {x} /\ \A v \in Writer : v # w => Held(v)' = Held(v)
  <2>1. 1..(got[w] + 1) = (1..got[w]) \cup {got[w] + 1}
    BY <1>0
  <2> QED BY <1>1, <1>3, <2>1 DEF Held
<1>5. \A v \in Writer : Locking(v)'
  <2> SUFFICES ASSUME NEW v \in Writer PROVE Locking(v)'
    OBVIOUS
  <2>1. Locking(v)
    BY <1>0 DEF Writers
  <2>2. Len(wanted[w]) \in Nat
    BY <1>0 DEF StoreTypes
  <2>3. got'[v] <= Len(wanted'[v])
    BY <1>0, <1>1, <1>3, <2>1, <2>2 DEF Locking
  <2>4. pc[v] = "idle" => v # w
    BY <1>0
  <2> QED BY <1>1, <1>3, <2>1, <2>3, <2>4 DEF Locking, memory
<1>6. \A v \in Writer : Changing(v)'
  BY <1>0, <1>1, <1>4 DEF Writers, Changing, Distinct, memory, disk
<1>7. \A v, u \in Writer : v # u => Held(v)' \cap Held(u)' = {}
  BY <1>0, <1>1, <1>4 DEF Writers, Free
<1>8. Writers'
  BY <1>5, <1>6, <1>7 DEF Writers
<1> QED BY <1>1, <1>2, <1>8, LockStep DEF StoreInv
-----------------------------------------------------------------------------
(* Writers preserve the invariant *)

\* The tree goes ahead of the disk by the changes of a writer that holds the locks.
LEMMA UpdateInv ==
  ASSUME StoreInv, NEW w \in Writer, UpdateTree(w)
  PROVE  StoreInv'
<1>0. /\ StoreTypes /\ Writers /\ Disk /\ Tree /\ phase = "up" /\ pc[w] = "locking" /\ got[w] = Len(wanted[w])
      /\ depth \in 1..HashBits /\ diffs[w] = {}
  BY StoreFacts DEF StoreInv, UpdateTree, Writers, Locking, Changing
<1>1. /\ UNCHANGED <<disk, depth, format, phase, todo, rebuilding, wanted, got, storeBounds>>
      /\ pc' = [pc EXCEPT ![w] = "updated"]
  BY DEF UpdateTree
<1>2. PICK U \in SUBSET KeysOf(w) : \E f \in [U -> {Tomb} \cup Value] :
        LET E == {[key |-> k, old |-> stored[k], new |-> f[k]] : k \in U}
        IN  diffs' = [diffs EXCEPT ![w] = E] /\ tree' = Updated(E)
  BY DEF UpdateTree
<1>3. PICK f \in [U -> {Tomb} \cup Value] :
        LET E == {[key |-> k, old |-> stored[k], new |-> f[k]] : k \in U}
        IN  diffs' = [diffs EXCEPT ![w] = E] /\ tree' = Updated(E)
  BY <1>2
<1> DEFINE E == {[key |-> k, old |-> stored[k], new |-> f[k]] : k \in U}
<1>4. ASSUME NEW k \in U
      PROVE  k \in Key /\ <<"key", k>> \in Held(w) /\ <<"leaf", LeafAt(depth, k)>> \in Held(w)
  <2>1. wanted[w] \in Seq(Locks) /\ Len(wanted[w]) \in Nat /\ Paired(depth, wanted[w])
    BY <1>0 DEF StoreTypes, Writers, Locking
  <2>2. PICK y \in Held(w) : y[1] = "key" /\ k = y[2]
    BY DEF KeysOf
  <2>3. PICK i \in 1..Len(wanted[w]) : y = wanted[w][i]
    BY <1>0 DEF Held
  <2>4. y \in Locks
    BY <2>1, <2>3
  <2>5. k \in Key /\ y = <<"key", k>>
    BY <2>2, <2>4 DEF Locks
  <2>6. PICK j \in 1..Len(wanted[w]) : wanted[w][j] = <<"leaf", LeafAt(depth, k)>>
    BY <2>1, <2>2, <2>3 DEF Paired
  <2>7. <<"leaf", LeafAt(depth, k)>> \in Held(w)
    BY <1>0, <2>6 DEF Held
  <2> QED BY <2>5, <2>7
<1>5. /\ E \in SUBSET Changes /\ Distinct(E)
      /\ \A x \in E : x.key \in U /\ x.key \in Key /\ x.old = stored[x.key] /\ x.new = f[x.key]
      /\ \A k \in U : \E x \in E : x.key = k
  <2>1. \A k \in U : k \in Key /\ stored[k] \in Content /\ f[k] \in {Tomb} \cup Value
    BY <1>0, <1>4 DEF StoreTypes
  <2>2. ASSUME NEW x \in E
        PROVE  /\ x.key \in U /\ x.old = stored[x.key] /\ x.new = f[x.key] /\ x \in Changes
               /\ x = [key |-> x.key, old |-> stored[x.key], new |-> f[x.key]]
    <3>1. PICK k \in U : x = [key |-> k, old |-> stored[k], new |-> f[k]]
      OBVIOUS
    <3> QED BY <2>1, <3>1 DEF Changes
  <2>3. ASSUME NEW k \in U PROVE \E x \in E : x.key = k
    <3> DEFINE x == [key |-> k, old |-> stored[k], new |-> f[k]]
    <3>1. x \in E /\ x.key = k
      OBVIOUS
    <3> QED BY <3>1
  <2> HIDE DEF E
  <2>4. Distinct(E)
    <3> SUFFICES ASSUME NEW x \in E, NEW y \in E, x.key = y.key PROVE x = y
      BY DEF Distinct
    <3> QED BY <2>2
  <2> QED BY <2>1, <2>2, <2>3, <2>4
<1>6. diffs' = [diffs EXCEPT ![w] = E] /\ tree' = Updated(E)
  BY <1>3
<1> HIDE DEF E
<1>7. /\ diffs'[w] = E /\ pc'[w] = "updated"
      /\ \A v \in Writer : v # w => diffs'[v] = diffs[v] /\ pc'[v] = pc[v]
      /\ \A v \in Writer : Held(v)' = Held(v)
  <2>1. DOMAIN diffs = Writer /\ DOMAIN pc = Writer
    BY <1>0 DEF StoreTypes
  <2> QED BY <1>1, <1>6, <2>1 DEF Held
<1>8. \A v \in Writer : Locking(v)'
  BY <1>0, <1>1, <1>7 DEF Writers, Locking
<1>9. \A v \in Writer : Changing(v)'
  <2> SUFFICES ASSUME NEW v \in Writer PROVE Changing(v)'
    OBVIOUS
  <2>1. stored' = stored /\ depth' = depth
    BY <1>1 DEF disk
  <2>2. CASE v = w
    BY <1>4, <1>5, <1>7, <2>1, <2>2 DEF Changing
  <2>3. CASE v # w
    BY <1>0, <1>7, <2>1, <2>3 DEF Writers, Changing
  <2> QED BY <2>2, <2>3
<1>10. Writers'
  BY <1>0, <1>7, <1>8, <1>9 DEF Writers
<1>11. /\ Updated(E) \in Trees(depth)
       /\ \A c, g : Exchanges(E, c, g) /\ tree = TreeOf(depth, HashesOf(c)) => Updated(E) = TreeOf(depth, HashesOf(g))
  BY <1>0, <1>5, UpdatedIs DEF StoreTypes
<1>12. StoreTypes'
  BY <1>0, <1>1, <1>5, <1>6, <1>11 DEF StoreTypes, disk, storeBounds
<1>13. Disk'
  BY <1>0, <1>1 DEF Disk, Settled, LeavesOf, StoredLeaf, disk, storeBounds
<1>14. Tree'
  <2> DEFINE c == Coming(stored, diffs, pc)
             g == Coming(stored', diffs', pc')
  <2> SUFFICES ASSUME forgetErrors' = 0 PROVE tree' = TreeOf(depth, HashesOf(g))
    BY <1>1 DEF Tree
  <2>1. tree = TreeOf(depth, HashesOf(c)) /\ stored' = stored
    BY <1>0, <1>1 DEF Tree, storeBounds, disk
  <2>2. ASSUME NEW x \in E PROVE c[x.key] = x.old /\ g[x.key] = x.new
    <3>1. g[x.key] = x.new
      BY <1>5, <1>7, <1>10, NextComing
    <3>2. ASSUME NEW v \in Writer, NEW y \in diffs[v] PROVE y.key # x.key
      <4>1. v # w
        BY <1>0
      <4>2. Held(v) \cap Held(w) = {} /\ <<"key", y.key>> \in Held(v)
        BY <1>0, <4>1 DEF Writers, Changing
      <4> QED BY <1>4, <1>5, <4>2
    <3>3. c[x.key] = stored[x.key]
      BY <1>0, <1>5, <3>2, NowComing
    <3> QED BY <1>5, <3>1, <3>3
  <2>3. ASSUME NEW k \in Key, \A x \in E : x.key # k PROVE g[k] = c[k]
    <3>1. CASE \E v \in Writer : \E y \in diffs[v] : y.key = k
      <4>0. PICK v \in Writer : \E z \in diffs[v] : z.key = k
        BY <3>1
      <4>1. PICK y \in diffs[v] : y.key = k
        BY <4>0
      <4>2. y \in diffs'[v]
        BY <1>0, <1>7, <4>1
      <4>3. c[k] = y.new
        BY <1>0, <4>1, NowComing
      <4>4. g[k] = y.new
        BY <1>10, <4>1, <4>2, NextComing
      <4> QED BY <4>3, <4>4
    <3>2. CASE ~\E v \in Writer : \E y \in diffs[v] : y.key = k
      <4>1. c[k] = stored[k]
        BY <1>0, <3>2, NowComing
      <4>2. \A v \in Writer : \A y \in diffs'[v] : y.key # k
        BY <1>7, <2>3, <3>2
      <4>3. g[k] = stored'[k]
        BY <1>10, <4>2, NextComing
      <4> QED BY <2>1, <4>1, <4>3
    <3> QED BY <3>1, <3>2
  <2> HIDE DEF c, g
  <2>4. Exchanges(E, c, g)
    BY <2>2, <2>3 DEF Exchanges
  <2> QED BY <1>6, <1>11, <2>1, <2>4
<1> QED BY <1>10, <1>12, <1>13, <1>14 DEF StoreInv

\* A writer that is done.
LEMMA ReleaseWriters ==
  ASSUME StoreTypes, Writers, NEW w \in Writer, Release(w), UNCHANGED <<depth, phase>>,
         \A v \in Writer : v # w => \A x \in diffs[v] : stored'[x.key] = stored[x.key]
  PROVE  /\ Writers' /\ diffs'[w] = {} /\ \A v \in Writer : v # w => diffs'[v] = diffs[v]
         /\ pc' \in [Writer -> {"idle", "locking", "updated"}]
         /\ wanted' \in [Writer -> Seq(Locks)] /\ got' \in [Writer -> Nat]
         /\ diffs' \in [Writer -> SUBSET Changes]
<1>1. /\ pc' = [pc EXCEPT ![w] = "idle"] /\ wanted' = [wanted EXCEPT ![w] = <<>>]
      /\ got' = [got EXCEPT ![w] = 0] /\ diffs' = [diffs EXCEPT ![w] = {}]
  BY DEF Release
<1>2. <<>> \in Seq(Locks) /\ Len(<<>>) = 0
  OBVIOUS
<1>3. /\ pc' \in [Writer -> {"idle", "locking", "updated"}]
      /\ wanted' \in [Writer -> Seq(Locks)] /\ got' \in [Writer -> Nat]
      /\ diffs' \in [Writer -> SUBSET Changes]
  BY <1>1, <1>2 DEF StoreTypes
<1>4. /\ pc'[w] = "idle" /\ wanted'[w] = <<>> /\ got'[w] = 0 /\ diffs'[w] = {}
      /\ \A v \in Writer : v # w => /\ pc'[v] = pc[v] /\ wanted'[v] = wanted[v]
                                    /\ got'[v] = got[v] /\ diffs'[v] = diffs[v]
  <2>1. DOMAIN pc = Writer /\ DOMAIN wanted = Writer /\ DOMAIN got = Writer /\ DOMAIN diffs = Writer
    BY DEF StoreTypes
  <2> QED BY <1>1, <2>1
<1>5. Held(w)' = {} /\ \A v \in Writer : v # w => Held(v)' = Held(v)
  BY <1>4 DEF Held
<1>6. Locking(w)'
  <2>1. Len(wanted'[w]) = 0
    BY <1>2, <1>4
  <2>2. got'[w] <= Len(wanted'[w]) /\ Paired(depth', wanted'[w])
    BY <1>4, <2>1 DEF Paired
  <2> QED BY <1>4, <2>2 DEF Locking
<1>7. \A v \in Writer : v # w => Locking(v)'
  BY <1>4 DEF Writers, Locking
<1>8. \A v \in Writer : Changing(v)'
  <2>1. Changing(w)'
    BY <1>4 DEF Changing, Distinct
  <2>2. ASSUME NEW v \in Writer, v # w PROVE Changing(v)'
    <3>1. Changing(v) /\ pc'[v] = pc[v] /\ diffs'[v] = diffs[v] /\ Held(v)' = Held(v) /\ depth' = depth
      BY <1>4, <1>5, <2>2 DEF Writers
    <3> QED BY <2>2, <3>1 DEF Changing
  <2> QED BY <2>1, <2>2
<1>9. Writers'
  BY <1>5, <1>6, <1>7, <1>8 DEF Writers
<1> QED BY <1>3, <1>4, <1>9

\* The disk catches up: the leaf hashes written are right although other writers are
\* ahead of the disk, because they are on other leaves.
LEMMA PersistInv ==
  ASSUME StoreInv, NEW w \in Writer, Persist(w)
  PROVE  StoreInv'
<1> DEFINE D == diffs[w]
           L == {LeafAt(depth, x.key) : x \in D}
           c == Coming(stored, diffs, pc)
           g == Coming(stored', diffs', pc')
<1>0. /\ StoreTypes /\ Writers /\ Disk /\ Tree /\ phase = "up" /\ pc[w] = "updated" /\ depth \in 1..HashBits
      /\ \A k : Leaf(k) = LeafAt(depth, k)
  BY StoreFacts DEF StoreInv, Persist, Writers, Locking
<1>1. /\ UNCHANGED <<dbDepth, dbFormat, memory, phase, todo, rebuilding, storeBounds>> /\ Release(w)
      /\ leaves' = [l \in DOMAIN leaves \cup L |-> IF l \in L THEN tree[l] ELSE leaves[l]]
      /\ index' = index \cup {<<LeafAt(depth, x.key), x.key>> : x \in D}
      /\ stored' = [k \in Key |-> IF \E x \in D : x.key = k THEN (CHOOSE x \in D : x.key = k).new ELSE stored[k]]
  BY <1>0 DEF Persist
<1>2. /\ D \in SUBSET Changes /\ Distinct(D)
      /\ \A x \in D : /\ x.key \in Key /\ x.new \in {Tomb} \cup Value /\ x.new \in Content /\ x.new # NoRow
                      /\ LeafAt(depth, x.key) \in Nodes(depth) /\ LeafAt(depth, x.key) % 2 = 1
                      /\ LeafAt(depth, x.key) \in AllLeaves
  <2>1. D \in SUBSET Changes /\ Distinct(D)
    BY <1>0 DEF StoreTypes, Writers, Changing
  <2>2. \A x \in D : x.key \in Key /\ x.new \in {Tomb} \cup Value
    BY <2>1 DEF Changes
  <2>3. \A v \in {Tomb} \cup Value : v \in Content /\ v # NoRow
    BY MerkleAssumption DEF Content, Tomb, NoRow
  <2> QED BY <1>0, <2>1, <2>2, <2>3, LeafIs
<1> HIDE DEF D, L
<1>3. /\ \A x \in D : stored'[x.key] = x.new
      /\ \A k \in Key : (\A x \in D : x.key # k) => stored'[k] = stored[k]
  <2>1. ASSUME NEW x \in D PROVE stored'[x.key] = x.new
    <3>1. \A y \in D : y.key = x.key => y = x
      BY <1>2 DEF Distinct
    <3>2. (CHOOSE y \in D : y.key = x.key) = x
      BY <3>1
    <3> QED BY <1>1, <1>2, <3>2
  <2>2. ASSUME NEW k \in Key, \A x \in D : x.key # k PROVE stored'[k] = stored[k]
    BY <1>1, <2>2
  <2> QED BY <2>1, <2>2
<1>4. stored' \in [Key -> Content]
  <2>1. \A k \in Key : stored'[k] \in Content
    BY <1>0, <1>2, <1>3 DEF StoreTypes
  <2> QED BY <1>1, <2>1
<1>5. \A l : l \in L <=> \E x \in D : l = LeafAt(depth, x.key)
  BY DEF L
<1>6. \A v \in Writer : v # w => \A x \in diffs[v] : \A y \in D : x.key # y.key /\ LeafAt(depth, x.key) # LeafAt(depth, y.key)
  BY <1>0, OtherLocks DEF D
<1>7. \A v \in Writer : v # w => \A x \in diffs[v] : x.key \in Key /\ stored'[x.key] = stored[x.key]
  BY <1>0, <1>3, <1>6 DEF StoreTypes, Changes
<1>8. /\ Writers' /\ diffs'[w] = {} /\ \A v \in Writer : v # w => diffs'[v] = diffs[v]
      /\ pc' \in [Writer -> {"idle", "locking", "updated"}]
      /\ wanted' \in [Writer -> Seq(Locks)] /\ got' \in [Writer -> Nat]
      /\ diffs' \in [Writer -> SUBSET Changes]
  BY <1>0, <1>1, <1>7, ReleaseWriters DEF memory
<1>9. /\ \A x \in D : c[x.key] = x.new
      /\ \A k \in Key : g[k] = c[k]
  <2>1. ASSUME NEW x \in D PROVE c[x.key] = x.new
    BY <1>0, <1>2, NowComing DEF D
  <2>2. ASSUME NEW k \in Key PROVE g[k] = c[k]
    <3>1. CASE \E x \in D : x.key = k
      <4>1. PICK x \in D : x.key = k
        BY <3>1
      <4>2. \A v \in Writer : \A y \in diffs'[v] : y.key # k
        BY <1>6, <1>8, <4>1
      <4>3. g[k] = stored'[k]
        BY <1>8, <4>2, NextComing
      <4> QED BY <1>3, <2>1, <4>1, <4>3
    <3>2. CASE \E v \in Writer : v # w /\ \E x \in diffs[v] : x.key = k
      <4>1. PICK v \in Writer : v # w /\ \E x \in diffs[v] : x.key = k
        BY <3>2
      <4>2. PICK x \in diffs[v] : x.key = k
        BY <4>1
      <4>3. x \in diffs'[v]
        BY <1>8, <4>1
      <4>4. c[k] = x.new
        BY <1>0, <4>2, NowComing
      <4>5. g[k] = x.new
        BY <1>8, <4>2, <4>3, NextComing
      <4> QED BY <4>4, <4>5
    <3>3. CASE \A v \in Writer : \A x \in diffs[v] : x.key # k
      <4>1. c[k] = stored[k]
        BY <1>0, <3>3, NowComing
      <4>2. \A v \in Writer : \A x \in diffs'[v] : x.key # k
        BY <1>8, <3>3
      <4>3. g[k] = stored'[k]
        BY <1>8, <4>2, NextComing
      <4>4. stored'[k] = stored[k]
        BY <1>3, <3>3 DEF D
      <4> QED BY <4>1, <4>3, <4>4
    <3> QED BY <3>1, <3>2, <3>3 DEF D
  <2> QED BY <2>1, <2>2
<1> HIDE DEF c, g
<1>10. StoreTypes'
  <2>1. tree \in Trees(depth)
    BY <1>0 DEF StoreTypes
  <2>2. DOMAIN leaves' \subseteq AllLeaves /\ leaves' \in [DOMAIN leaves' -> SUBSET Pairs]
    <3>1. \A l \in L : l \in AllLeaves /\ tree[l] \in SUBSET Pairs
      BY <1>2, <1>5, <2>1 DEF Trees
    <3>2. DOMAIN leaves \subseteq AllLeaves /\ \A l \in DOMAIN leaves : leaves[l] \in SUBSET Pairs
      BY <1>0 DEF StoreTypes
    <3>3. DOMAIN leaves' = DOMAIN leaves \cup L
      BY <1>1
    <3> QED BY <1>1, <3>1, <3>2, <3>3
  <2>3. index' \subseteq AllLeaves \X Key
    <3>1. \A x \in D : <<LeafAt(depth, x.key), x.key>> \in AllLeaves \X Key
      BY <1>2
    <3> QED BY <1>0, <1>1, <3>1 DEF StoreTypes
  <2> QED BY <1>0, <1>1, <1>4, <1>8, <2>2, <2>3 DEF StoreTypes, memory, storeBounds
<1>11. index' = IndexOf(depth, RowKeys(stored'))
  <2>1. index = IndexOf(depth, RowKeys(stored))
    BY <1>0 DEF Disk, Settled
  <2>2. RowKeys(stored') = RowKeys(stored) \cup {x.key : x \in D}
    <3>1. ASSUME NEW k \in Key PROVE stored'[k] # NoRow <=> stored[k] # NoRow \/ \E x \in D : x.key = k
      BY <1>2, <1>3
    <3>2. \A x \in D : x.key \in Key
      BY <1>2
    <3> QED BY <3>1, <3>2 DEF RowKeys
  <2> QED BY <1>1, <2>1, <2>2 DEF IndexOf
<1>12. ASSUME forgetErrors = 0, NEW l \in AllLeaves
       PROVE  StoredLeaf(l)' = RowsAt(stored', depth, l)
  <2>1. tree = TreeOf(depth, HashesOf(c)) /\ StoredLeaf(l) = RowsAt(stored, depth, l)
    BY <1>0, <1>12 DEF Tree, Disk, Settled, LeavesOf, c
  <2>2. CASE l \in L
    <3>1. PICK y \in D : l = LeafAt(depth, y.key)
      BY <1>5, <2>2
    <3>2. l \in Nodes(depth) /\ l % 2 = 1
      BY <1>2, <3>1
    <3>3. StoredLeaf(l)' = tree[l]
      BY <1>1, <2>2 DEF StoredLeaf
    <3>4. tree[l] = RowsAt(c, depth, l)
      <4>1. tree[l] = Reach(HashesOf(c), depth, l)
        BY <2>1, <3>2 DEF TreeOf
      <4> QED BY <1>0, <3>2, <4>1, LeafRows
    <3>5. ASSUME NEW k \in Key, LeafAt(depth, k) = l PROVE c[k] = stored'[k]
      <4>1. CASE \E x \in D : x.key = k
        BY <1>3, <1>9, <4>1
      <4>2. CASE \A x \in D : x.key # k
        <5>1. \A v \in Writer : \A x \in diffs[v] : x.key # k
          BY <1>6, <3>1, <3>5, <4>2 DEF D
        <5>2. c[k] = stored[k]
          BY <1>0, <5>1, NowComing DEF c
        <5> QED BY <1>3, <4>2, <5>2
      <4> QED BY <4>1, <4>2
    <3>6. RowsAt(c, depth, l) = RowsAt(stored', depth, l)
      BY <3>5, RowsSame
    <3> QED BY <3>3, <3>4, <3>6
  <2>3. CASE l \notin L
    <3>1. StoredLeaf(l)' = StoredLeaf(l)
      BY <1>1, <2>3 DEF StoredLeaf
    <3>2. \A k \in Key : LeafAt(depth, k) = l => stored[k] = stored'[k]
      BY <1>3, <1>5, <2>3
    <3>3. RowsAt(stored, depth, l) = RowsAt(stored', depth, l)
      BY <3>2, RowsSame
    <3> QED BY <2>1, <3>1, <3>3
  <2> QED BY <2>2, <2>3
<1>13. Disk'
  <2>1. depth' = depth /\ phase' = "up" /\ rebuilding' = rebuilding /\ dbDepth' = dbDepth /\ forgetErrors' = forgetErrors
    BY <1>0, <1>1 DEF memory, storeBounds
  <2>2. (Settled(depth))'
    BY <1>11, <1>12, <2>1 DEF Settled, LeavesOf
  <2> QED BY <1>0, <2>1, <2>2 DEF Disk
<1>14. Tree'
  <2>1. depth' = depth /\ phase' = phase /\ tree' = tree /\ forgetErrors' = forgetErrors
    BY <1>1 DEF memory, storeBounds
  <2>2. HashesOf(g) = HashesOf(c)
    BY <1>9, HashesSame
  <2> QED BY <1>0, <2>1, <2>2 DEF Tree, c, g
<1> QED BY <1>8, <1>10, <1>13, <1>14 DEF StoreInv

\* Updating the tree once more with the same changes takes them back.
LEMMA StorageErrorInv ==
  ASSUME StoreInv, NEW w \in Writer, StorageError(w)
  PROVE  StoreInv'
<1> DEFINE D == diffs[w]
           c == Coming(stored, diffs, pc)
           g == Coming(stored', diffs', pc')
<1>0. /\ StoreTypes /\ Writers /\ Disk /\ Tree /\ phase = "up" /\ pc[w] = "updated" /\ depth \in 1..HashBits
  BY StoreFacts DEF StoreInv, StorageError, Writers, Locking
<1>1. /\ UNCHANGED <<disk, depth, format, phase, todo, rebuilding, forgetErrors>> /\ Release(w)
      /\ tree' = Updated(D)
  BY DEF StorageError
<1>2. D \in SUBSET Changes /\ Distinct(D) /\ \A x \in D : x.key \in Key /\ x.old = stored[x.key]
  <2>1. D \in SUBSET Changes /\ Distinct(D)
    BY <1>0 DEF StoreTypes, Writers, Changing
  <2>2. \A x \in D : x.key \in Key
    BY <2>1 DEF Changes
  <2>3. \A x \in D : x.old = stored[x.key]
    BY <1>0 DEF Writers, Changing
  <2> QED BY <2>1, <2>2, <2>3
<1> HIDE DEF D
<1>3. /\ Updated(D) \in Trees(depth)
      /\ \A a, b : Exchanges(D, a, b) /\ tree = TreeOf(depth, HashesOf(a)) => Updated(D) = TreeOf(depth, HashesOf(b))
  BY <1>0, <1>2, UpdatedIs DEF StoreTypes
<1>4. stored' = stored /\ depth' = depth /\ phase' = phase /\ forgetErrors' = forgetErrors
  BY <1>1 DEF disk
<1>5. /\ Writers' /\ diffs'[w] = {} /\ \A v \in Writer : v # w => diffs'[v] = diffs[v]
      /\ pc' \in [Writer -> {"idle", "locking", "updated"}]
      /\ wanted' \in [Writer -> Seq(Locks)] /\ got' \in [Writer -> Nat]
      /\ diffs' \in [Writer -> SUBSET Changes]
  BY <1>0, <1>1, <1>4, ReleaseWriters
<1>6. StoreTypes'
  BY <1>0, <1>1, <1>3, <1>5 DEF StoreTypes, disk
<1>7. Disk'
  BY <1>0, <1>1 DEF Disk, Settled, LeavesOf, StoredLeaf, disk
<1>8. \A v \in Writer : v # w => \A x \in diffs[v] : \A y \in D : x.key # y.key
  BY <1>0, OtherLocks DEF D
<1>9. ASSUME NEW x \in D PROVE c[x.key] = x.new /\ g[x.key] = x.old
  <2>1. c[x.key] = x.new
    BY <1>0, <1>2, NowComing DEF D
  <2>2. \A v \in Writer : \A y \in diffs'[v] : y.key # x.key
    BY <1>5, <1>8
  <2>3. g[x.key] = stored'[x.key]
    BY <1>2, <1>5, <2>2, NextComing
  <2> QED BY <1>2, <1>4, <2>1, <2>3
<1>10. ASSUME NEW k \in Key, \A x \in D : x.key # k PROVE g[k] = c[k]
  <2>1. CASE \E v \in Writer : \E x \in diffs[v] : x.key = k
    <3>1. PICK v \in Writer : \E x \in diffs[v] : x.key = k
      BY <2>1
    <3>2. PICK x \in diffs[v] : x.key = k
      BY <3>1
    <3>3. x \in diffs'[v]
      BY <1>5, <1>10, <3>2 DEF D
    <3>4. c[k] = x.new
      BY <1>0, <3>2, NowComing
    <3>5. g[k] = x.new
      BY <1>5, <3>2, <3>3, NextComing
    <3> QED BY <3>4, <3>5
  <2>2. CASE \A v \in Writer : \A x \in diffs[v] : x.key # k
    <3>1. c[k] = stored[k]
      BY <1>0, <2>2, NowComing
    <3>2. \A v \in Writer : \A x \in diffs'[v] : x.key # k
      BY <1>5, <2>2
    <3>3. g[k] = stored'[k]
      BY <1>5, <3>2, NextComing
    <3> QED BY <1>4, <3>1, <3>3
  <2> QED BY <2>1, <2>2
<1> HIDE DEF c, g
<1>11. Exchanges(D, c, g)
  BY <1>9, <1>10 DEF Exchanges
<1>12. Tree'
  <2> SUFFICES ASSUME forgetErrors' = 0 PROVE tree' = TreeOf(depth, HashesOf(g))
    BY <1>4 DEF Tree, g
  <2>1. tree = TreeOf(depth, HashesOf(c))
    BY <1>0, <1>4 DEF Tree, c
  <2> QED BY <1>1, <1>3, <1>11, <2>1
<1> QED BY <1>5, <1>6, <1>7, <1>12 DEF StoreInv
-----------------------------------------------------------------------------
(* Garbage collection and Forget preserve the invariant *)

\* A key under its locks loses its row: nothing that writers hold is touched.
LEMMA RowRemoved ==
  ASSUME StoreTypes, Writers, NEW k \in Key, Lockable(k), UNCHANGED <<depth, phase, writers>>,
         stored' = [stored EXCEPT ![k] = NoRow]
  PROVE  /\ Writers' /\ stored' \in [Key -> Content] /\ stored'[k] = NoRow
         /\ RowKeys(stored') = RowKeys(stored) \ {k}
         /\ \A j \in Key : j # k => stored'[j] = stored[j]
         /\ \A j \in Key : j # k => Coming(stored', diffs', pc')[j] = Coming(stored, diffs, pc)[j]
         /\ Coming(stored', diffs', pc')[k] = NoRow
         /\ \A j \in Key : LeafAt(depth, j) = LeafAt(depth, k) => Coming(stored, diffs, pc)[j] = stored[j]
<1>1. /\ Free(<<"leaf", LeafAt(depth, k)>>)
      /\ pc' = pc /\ wanted' = wanted /\ got' = got /\ diffs' = diffs /\ depth' = depth /\ phase' = phase
  BY StoreFacts DEF Lockable, writers
<1>2. /\ \A v \in Writer : \A x \in diffs[v] : x.key # k
      /\ \A j \in Key : LeafAt(depth, j) = LeafAt(depth, k) => Coming(stored, diffs, pc)[j] = stored[j]
  BY <1>1, FreeLeaf
<1>3. stored' \in [Key -> Content] /\ stored'[k] = NoRow /\ \A j \in Key : j # k => stored'[j] = stored[j]
  BY DEF StoreTypes, Content
<1>4. RowKeys(stored') = RowKeys(stored) \ {k}
  BY <1>3 DEF RowKeys
<1>5. \A v \in Writer : Held(v)' = Held(v)
  BY <1>1 DEF Held
<1>6. \A v \in Writer : \A x \in diffs[v] : x.key \in Key
  BY DEF StoreTypes, Changes
<1>7. \A v \in Writer : Locking(v)' /\ Changing(v)'
  <2> SUFFICES ASSUME NEW v \in Writer PROVE Locking(v)' /\ Changing(v)'
    OBVIOUS
  <2>1. Locking(v) /\ Changing(v)
    BY DEF Writers
  <2>2. Locking(v)'
    BY <1>1, <2>1 DEF Locking
  <2>3. \A x \in diffs[v] : stored'[x.key] = stored[x.key]
    BY <1>2, <1>3, <1>6
  <2>4. Changing(v)'
    BY <1>1, <1>5, <2>1, <2>3 DEF Changing
  <2> QED BY <2>2, <2>4
<1>8. Writers'
  BY <1>5, <1>7 DEF Writers
<1>9. ASSUME NEW j \in Key, j # k PROVE Coming(stored', diffs', pc')[j] = Coming(stored, diffs, pc)[j]
  <2>1. CASE \E v \in Writer : \E x \in diffs[v] : x.key = j
    <3>1. PICK v \in Writer : \E x \in diffs[v] : x.key = j
      BY <2>1
    <3>2. PICK x \in diffs[v] : x.key = j
      BY <3>1
    <3>3. x \in diffs'[v]
      BY <1>1
    <3>4. Coming(stored, diffs, pc)[j] = x.new
      BY <3>2, NowComing
    <3>5. Coming(stored', diffs', pc')[j] = x.new
      BY <1>8, <3>2, <3>3, NextComing
    <3> QED BY <3>4, <3>5
  <2>2. CASE \A v \in Writer : \A x \in diffs[v] : x.key # j
    <3>1. \A v \in Writer : \A x \in diffs'[v] : x.key # j
      BY <1>1, <2>2
    <3>2. Coming(stored, diffs, pc)[j] = stored[j]
      BY <2>2, NowComing
    <3>3. Coming(stored', diffs', pc')[j] = stored'[j]
      BY <1>8, <3>1, NextComing
    <3> QED BY <1>3, <1>9, <3>2, <3>3
  <2> QED BY <2>1, <2>2
<1>10. Coming(stored', diffs', pc')[k] = NoRow
  <2>1. \A v \in Writer : \A x \in diffs'[v] : x.key # k
    BY <1>1, <1>2
  <2> QED BY <1>3, <1>8, <2>1, NextComing
<1> QED BY <1>2, <1>3, <1>4, <1>8, <1>9, <1>10

\* A key leaves the index.
LEMMA Unindexed ==
  ASSUME NEW k \in Key
  PROVE  IndexOf(depth, RowKeys(stored)) \ {<<LeafAt(depth, k), k>>} = IndexOf(depth, RowKeys(stored) \ {k})
<1> DEFINE A == IndexOf(depth, RowKeys(stored)) \ {<<LeafAt(depth, k), k>>}
           B == IndexOf(depth, RowKeys(stored) \ {k})
<1>1. ASSUME NEW e \in A PROVE e \in B
  <2>1. PICK j \in RowKeys(stored) : e = <<LeafAt(depth, j), j>>
    BY <1>1 DEF IndexOf
  <2>2. j # k
    BY <1>1, <2>1
  <2> QED BY <2>1, <2>2 DEF IndexOf
<1>2. ASSUME NEW e \in B PROVE e \in A
  <2>1. PICK j \in RowKeys(stored) \ {k} : e = <<LeafAt(depth, j), j>>
    BY <1>2 DEF IndexOf
  <2> QED BY <2>1 DEF IndexOf
<1> QED BY <1>1, <1>2

\* A tombstone hashes to nothing.
LEMMA GarbageCollectInv ==
  ASSUME StoreInv, NEW k \in Key, GarbageCollect(k)
  PROVE  StoreInv'
<1> DEFINE c == Coming(stored, diffs, pc)
           g == Coming(stored', diffs', pc')
<1>0. /\ StoreTypes /\ Writers /\ Disk /\ Tree /\ Lockable(k) /\ phase = "up" /\ stored[k] = Tomb
      /\ Leaf(k) = LeafAt(depth, k) /\ depth \in 1..HashBits
  BY StoreFacts DEF StoreInv, GarbageCollect, Lockable
<1>1. /\ stored' = [stored EXCEPT ![k] = NoRow] /\ index' = index \ {<<LeafAt(depth, k), k>>}
      /\ UNCHANGED <<leaves, dbDepth, dbFormat, memory, phase, todo, rebuilding, writers, storeBounds>>
  BY <1>0 DEF GarbageCollect
<1>2. Tomb \notin Value /\ NoRow \notin Value
  BY MerkleAssumption DEF Tomb, NoRow
<1>3. UNCHANGED <<depth, phase, writers>>
  BY <1>1 DEF memory
<1>4. /\ Writers' /\ stored' \in [Key -> Content] /\ stored'[k] = NoRow
      /\ RowKeys(stored') = RowKeys(stored) \ {k}
      /\ \A j \in Key : j # k => stored'[j] = stored[j] /\ g[j] = c[j]
      /\ g[k] = NoRow /\ c[k] = stored[k]
  BY <1>0, <1>1, <1>3, RowRemoved
<1> HIDE DEF c, g
<1>5. StoreTypes'
  BY <1>0, <1>1, <1>4 DEF StoreTypes, memory, writers, storeBounds
<1>6. Disk'
  <2>1. index = IndexOf(depth, RowKeys(stored)) /\ (forgetErrors = 0 => LeavesOf(depth)) /\ ~rebuilding /\ dbDepth = depth
    BY <1>0 DEF Disk, Settled
  <2>2. index' = IndexOf(depth, RowKeys(stored'))
    <3>1. IndexOf(depth, RowKeys(stored)) \ {<<LeafAt(depth, k), k>>} = IndexOf(depth, RowKeys(stored) \ {k})
      BY Unindexed
    <3> QED BY <1>1, <1>4, <2>1, <3>1
  <2>3. ASSUME forgetErrors = 0, NEW l \in AllLeaves PROVE StoredLeaf(l)' = RowsAt(stored', depth, l)
    <3>1. \A j \in Key : stored'[j] = stored[j] \/ (stored'[j] \notin Value /\ stored[j] \notin Value)
      BY <1>0, <1>2, <1>4
    <3>2. RowsAt(stored', depth, l) = RowsAt(stored, depth, l)
      BY <3>1, RowsSame
    <3>3. StoredLeaf(l)' = StoredLeaf(l)
      BY <1>1 DEF StoredLeaf
    <3> QED BY <2>1, <2>3, <3>2, <3>3 DEF LeavesOf
  <2>4. /\ depth' = depth /\ phase' = "up" /\ rebuilding' = rebuilding /\ dbDepth' = dbDepth
        /\ forgetErrors' = forgetErrors
    BY <1>0, <1>1 DEF memory, storeBounds
  <2>5. (Settled(depth))'
    BY <2>2, <2>3, <2>4 DEF Settled, LeavesOf
  <2> QED BY <2>1, <2>4, <2>5 DEF Disk
<1>7. Tree'
  <2>1. depth' = depth /\ phase' = phase /\ tree' = tree /\ forgetErrors' = forgetErrors
    BY <1>1 DEF memory, storeBounds
  <2>2. \A j \in Key : g[j] = c[j] \/ (g[j] \notin Value /\ c[j] \notin Value)
    BY <1>0, <1>2, <1>4
  <2>3. HashesOf(g) = HashesOf(c)
    BY <2>2, HashesSame
  <2> QED BY <1>0, <2>1, <2>3 DEF Tree, c, g
<1> QED BY <1>4, <1>5, <1>6, <1>7 DEF StoreInv

\* The leaf hash that Forget computes.
LEMMA ForgottenIs ==
  ASSUME StoreTypes, Writers, NEW k \in Key
  PROVE  /\ Leaf(k) = LeafAt(depth, k) /\ LeafAt(depth, k) \in AllLeaves
         /\ ForgottenLeaf(k) \in SUBSET Pairs
         /\ UpdateLeafHash(depth, tree, LeafAt(depth, k), ForgottenLeaf(k)) \in Trees(depth)
<1>1. Leaf(k) = LeafAt(depth, k) /\ depth \in 1..HashBits /\ tree \in Trees(depth)
  BY StoreFacts DEF StoreTypes
<1>2. LeafAt(depth, k) \in AllLeaves /\ LeafAt(depth, k) \in Nodes(depth)
  BY <1>1, LeafIs
<1>3. ForgottenLeaf(k) \in SUBSET Pairs
  <2>1. tree[LeafAt(depth, k)] \in SUBSET Pairs /\ RowHash(k, stored[k]) \in SUBSET Pairs
    BY <1>1, <1>2, RowsAre DEF Trees
  <2> QED BY <1>1, <2>1 DEF ForgottenLeaf, Xor
<1> QED BY <1>1, <1>2, <1>3, UpdateLeafHashIs

\* Forget takes a row out of its leaf and of the nodes above it.
LEMMA ForgetInv ==
  ASSUME StoreInv, NEW k \in Key, Forget(k)
  PROVE  StoreInv'
<1> DEFINE c == Coming(stored, diffs, pc)
           g == Coming(stored', diffs', pc')
           l == LeafAt(depth, k)
           X == ForgottenLeaf(k)
<1>0. /\ StoreTypes /\ Writers /\ Disk /\ Tree /\ Lockable(k) /\ phase = "up"
      /\ depth \in 1..HashBits /\ tree \in Trees(depth)
  BY StoreFacts DEF StoreInv, Forget, Lockable, StoreTypes
<1>1. Leaf(k) = l /\ l \in AllLeaves /\ X \in SUBSET Pairs /\ UpdateLeafHash(depth, tree, l, X) \in Trees(depth)
  BY <1>0, ForgottenIs
<1>2. l \in Nodes(depth) /\ l % 2 = 1 /\ KeysAt(depth, l) = {j \in Key : LeafAt(depth, j) = l}
  BY <1>0, LeafIs, LeafKeys
<1>3. /\ stored' = [stored EXCEPT ![k] = NoRow] /\ index' = index \ {<<l, k>>}
      /\ tree' = UpdateLeafHash(depth, tree, l, X)
      /\ leaves' = [m \in DOMAIN leaves \cup {l} |-> IF m = l THEN X ELSE leaves[m]]
      /\ UNCHANGED <<dbDepth, dbFormat, depth, format, phase, todo, rebuilding, writers, storeBounds>>
  BY <1>1 DEF Forget
<1>4. NoRow \notin Value
  BY MerkleAssumption DEF NoRow
<1>5. /\ Writers' /\ stored' \in [Key -> Content] /\ stored'[k] = NoRow
      /\ RowKeys(stored') = RowKeys(stored) \ {k}
      /\ \A j \in Key : j # k => stored'[j] = stored[j] /\ g[j] = c[j]
      /\ g[k] = NoRow /\ \A j \in Key : LeafAt(depth, j) = l => c[j] = stored[j]
  BY <1>0, <1>3, RowRemoved
<1> HIDE DEF c, g, l, X
<1>6. StoreTypes'
  <2>1. DOMAIN leaves' \subseteq AllLeaves /\ leaves' \in [DOMAIN leaves' -> SUBSET Pairs]
    <3>1. DOMAIN leaves \subseteq AllLeaves /\ \A m \in DOMAIN leaves : leaves[m] \in SUBSET Pairs
      BY <1>0 DEF StoreTypes
    <3>2. DOMAIN leaves' = DOMAIN leaves \cup {l}
      BY <1>3
    <3> QED BY <1>1, <1>3, <3>1, <3>2
  <2>2. tree' \in Trees(depth)
    BY <1>1, <1>3
  <2>3. index' \subseteq AllLeaves \X Key
    BY <1>0, <1>3 DEF StoreTypes
  <2> QED BY <1>0, <1>3, <1>5, <2>1, <2>2, <2>3 DEF StoreTypes, writers, storeBounds
<1>7. ASSUME forgetErrors = 0
      PROVE  X = Reach(HashesOf(g), depth, l) /\ tree' = TreeOf(depth, HashesOf(g))
  <2>1. tree = TreeOf(depth, HashesOf(c))
    BY <1>0, <1>7 DEF Tree, c
  <2>2. tree[l] = {e \in HashesOf(c) : e[1] \in KeysAt(depth, l)}
    BY <1>2, <2>1 DEF TreeOf, Reach
  <2>3. c[k] = stored[k] /\ k \in KeysAt(depth, l)
    BY <1>2, <1>5 DEF l
  <2>4. \A e \in Pairs : e \in RowHash(k, stored[k]) <=> e \in HashesOf(c) /\ e[1] = k
    BY <2>3, RowsAre DEF HashesOf
  <2>5. \A e \in Pairs : e[1] \in Key
    BY DEF Pairs
  <2>6. \A e \in Pairs : e \in HashesOf(g) <=> e \in HashesOf(c) /\ e[1] # k
    <3> SUFFICES ASSUME NEW e \in Pairs PROVE e \in HashesOf(g) <=> e \in HashesOf(c) /\ e[1] # k
      OBVIOUS
    <3>1. e[2] \in Value
      BY DEF Pairs
    <3>2. CASE e[1] = k
      BY <1>4, <1>5, <3>1, <3>2 DEF HashesOf
    <3>3. CASE e[1] # k
      BY <1>5, <2>5, <3>3 DEF HashesOf
    <3> QED BY <3>2, <3>3
  <2>7. HashesOf(c) \in SUBSET Pairs /\ HashesOf(g) \in SUBSET Pairs /\ RowHash(k, stored[k]) \in SUBSET Pairs
    BY RowsAre DEF HashesOf
  <2>8. X = Reach(HashesOf(g), depth, l)
    <3>1. X = (tree[l] \ RowHash(k, stored[k])) \cup (RowHash(k, stored[k]) \ tree[l])
      BY <1>1 DEF X, ForgottenLeaf, Xor
    <3> QED BY <2>2, <2>3, <2>4, <2>6, <2>7, <3>1 DEF Reach
  <2>9. ASSUME NEW n \in Nodes(depth) PROVE tree[n] = Reach(HashesOf(g), depth, n) \/ n = Above(l, Zeros[n])
    <3> SUFFICES ASSUME n # Above(l, Zeros[n]) PROVE tree[n] = Reach(HashesOf(g), depth, n)
      OBVIOUS
    <3>1. k \notin KeysAt(depth, n)
      BY <1>0, <1>2, <2>3, WayKeys
    <3>2. tree[n] = Reach(HashesOf(c), depth, n)
      BY <2>1 DEF TreeOf
    <3> QED BY <2>6, <2>7, <3>1, <3>2 DEF Reach
  <2>10. UpdateLeafHash(depth, tree, l, X) = TreeOf(depth, HashesOf(g))
    BY <1>0, <1>1, <1>2, <2>7, <2>8, <2>9, UpdateLeafHashIs
  <2> QED BY <1>3, <2>8, <2>10
<1>8. /\ depth' = depth /\ phase' = "up" /\ rebuilding' = rebuilding /\ dbDepth' = dbDepth
      /\ forgetErrors' = forgetErrors
  BY <1>0, <1>3 DEF storeBounds
<1>9. Disk'
  <2>1. index = IndexOf(depth, RowKeys(stored)) /\ (forgetErrors = 0 => LeavesOf(depth)) /\ ~rebuilding /\ dbDepth = depth
    BY <1>0 DEF Disk, Settled
  <2>2. index' = IndexOf(depth, RowKeys(stored'))
    <3>1. IndexOf(depth, RowKeys(stored)) \ {<<LeafAt(depth, k), k>>} = IndexOf(depth, RowKeys(stored) \ {k})
      BY Unindexed
    <3> QED BY <1>3, <1>5, <2>1, <3>1 DEF l
  <2>3. ASSUME forgetErrors = 0, NEW m \in AllLeaves PROVE StoredLeaf(m)' = RowsAt(stored', depth, m)
    <3>1. CASE m = l
      <4>1. StoredLeaf(m)' = X
        BY <1>3, <3>1 DEF StoredLeaf
      <4>2. X = RowsAt(g, depth, l)
        BY <1>0, <1>2, <1>7, <2>3, LeafRows
      <4>3. \A j \in Key : LeafAt(depth, j) = l => g[j] = stored'[j]
        BY <1>5
      <4>4. RowsAt(g, depth, l) = RowsAt(stored', depth, l)
        BY <4>3, RowsSame
      <4> QED BY <3>1, <4>1, <4>2, <4>4
    <3>2. CASE m # l
      <4>1. StoredLeaf(m)' = StoredLeaf(m)
        BY <1>3, <3>2 DEF StoredLeaf
      <4>2. \A j \in Key : LeafAt(depth, j) = m => stored[j] = stored'[j]
        BY <1>5, <3>2 DEF l
      <4>3. RowsAt(stored, depth, m) = RowsAt(stored', depth, m)
        BY <4>2, RowsSame
      <4> QED BY <2>1, <2>3, <4>1, <4>3 DEF LeavesOf
    <3> QED BY <3>1, <3>2
  <2>4. (Settled(depth))'
    BY <1>8, <2>2, <2>3 DEF Settled, LeavesOf
  <2> QED BY <1>8, <2>1, <2>4 DEF Disk
<1>10. Tree'
  BY <1>7, <1>8 DEF Tree, g
<1> QED BY <1>5, <1>6, <1>9, <1>10 DEF StoreInv

\* After an error of Forget only types and index are claimed.
LEMMA ForgetErrorInv ==
  ASSUME StoreInv, NEW k \in Key, ForgetError(k)
  PROVE  StoreInv'
<1>0. StoreTypes /\ Writers /\ Disk /\ Tree /\ phase = "up" /\ forgetErrors \in Nat
  BY DEF StoreInv, ForgetError, Lockable, StoreTypes
<1>1. /\ UNCHANGED <<disk, depth, format, phase, todo, rebuilding, writers>>
      /\ forgetErrors' = forgetErrors + 1
      /\ tree' = UpdateLeafHash(depth, tree, LeafAt(depth, k), ForgottenLeaf(k))
  BY <1>0, ForgottenIs DEF ForgetError
<1>2. forgetErrors' \in Nat /\ forgetErrors' # 0
  BY <1>0, <1>1
<1>3. tree' \in Trees(depth)
  BY <1>0, <1>1, ForgottenIs
<1>4. StoreTypes'
  BY <1>0, <1>1, <1>2, <1>3 DEF StoreTypes, disk, writers
<1>5. Writers'
  <2>1. \A v \in Writer : Held(v)' = Held(v)
    BY <1>1 DEF Held, writers
  <2>2. \A v \in Writer : Locking(v)' /\ Changing(v)'
    BY <1>0, <1>1, <2>1 DEF Writers, Locking, Changing, writers, disk
  <2> QED BY <1>0, <2>1, <2>2 DEF Writers
<1>6. Disk'
  <2>1. index = IndexOf(depth, RowKeys(stored)) /\ ~rebuilding /\ dbDepth = depth
    BY <1>0 DEF Disk, Settled
  <2>2. /\ depth' = depth /\ phase' = "up" /\ rebuilding' = rebuilding /\ dbDepth' = dbDepth
        /\ index' = index /\ stored' = stored
    BY <1>0, <1>1 DEF disk
  <2>3. (Settled(depth))'
    BY <1>2, <2>1, <2>2 DEF Settled
  <2> QED BY <2>1, <2>2, <2>3 DEF Disk
<1>7. Tree'
  BY <1>2 DEF Tree
<1> QED BY <1>4, <1>5, <1>6, <1>7 DEF StoreInv
-----------------------------------------------------------------------------
(* The tree and the disk match the rows *)

\* The inductive invariant holds at first.
LEMMA StoreInvInit == StoreInit => StoreInv
<1> SUFFICES ASSUME StoreInit PROVE StoreInv
  OBVIOUS
<1>1. StoreTypes
  <2>1. leaves = << >> /\ DOMAIN << >> = {}
    BY DEF StoreInit
  <2>2. DOMAIN leaves \subseteq AllLeaves /\ leaves \in [DOMAIN leaves -> SUBSET Pairs]
    BY <2>1
  <2>3. tree \in Trees(depth)
    BY DEF StoreInit, EmptyTree, Trees
  <2>4. <<>> \in Seq(Locks)
    OBVIOUS
  <2>5. stored \in [Key -> Content]
    BY DEF StoreInit, Content
  <2> QED BY <2>2, <2>3, <2>4, <2>5 DEF StoreInit, StoreTypes
<1>2. Writers
  <2>1. ASSUME NEW w \in Writer
        PROVE  pc[w] = "idle" /\ wanted[w] = <<>> /\ got[w] = 0 /\ diffs[w] = {} /\ Held(w) = {}
    BY DEF StoreInit, Held
  <2>2. ASSUME NEW w \in Writer PROVE Locking(w)
    <3>1. Len(wanted[w]) = 0
      <4>1. wanted[w] = <<>>
        BY <2>1
      <4> QED BY <4>1
    <3> QED BY <2>1, <3>1 DEF Locking, Paired
  <2>3. ASSUME NEW w \in Writer PROVE Changing(w)
    BY <2>1 DEF Changing, Distinct
  <2> QED BY <2>1, <2>2, <2>3 DEF Writers
<1>3. Disk /\ Tree
  BY DEF StoreInit, Disk, Tree
<1> QED BY <1>1, <1>2, <1>3 DEF StoreInv

\* Every step of the store preserves the inductive invariant.
LEMMA StoreInvKept ==
  ASSUME MayRevert = FALSE, StoreInv, [StoreNext]_storeVars
  PROVE  StoreInv'
<1>1. CASE Startup
  <2>1. CASE \E d \in Depths : Initialize(d)
    BY <2>1, InitializeInv
  <2>2. CASE ClearLeaf \/ ClearIndex \/ ClearMetadata \/ ClearDone
    BY <2>2, ClearInv
  <2>3. CASE Reindex
    BY <2>3, ReindexInv
  <2>4. CASE Releaf
    BY <2>4, ReleafInv
  <2>5. CASE UpgradeStorageFormat \/ RecordMetadata
    BY <2>5, RecordInv
  <2>6. CASE InitializeMerkleTree
    BY <2>6, LoadInv
  <2> QED BY <1>1, <2>1, <2>2, <2>3, <2>4, <2>5, <2>6 DEF Startup
<1>2. CASE Crash
  BY <1>2, CrashInv
<1>3. ASSUME NEW w \in Writer, WriterStep(w) \/ \E K \in SUBSET Key \ {{}} : Begin(w, K)
      PROVE  StoreInv'
  <2>1. CASE \E K \in SUBSET Key \ {{}} : Begin(w, K)
    BY <2>1, BeginInv
  <2>2. CASE Acquire(w)
    BY <2>2, AcquireInv
  <2>3. CASE UpdateTree(w)
    BY <2>3, UpdateInv
  <2>4. CASE Persist(w)
    BY <2>4, PersistInv
  <2>5. CASE StorageError(w)
    BY <2>5, StorageErrorInv
  <2> QED BY <1>3, <2>1, <2>2, <2>3, <2>4, <2>5 DEF WriterStep
<1>4. ASSUME NEW k \in Key, GarbageCollect(k) \/ Forget(k) \/ ForgetError(k)
      PROVE  StoreInv'
  BY <1>4, GarbageCollectInv, ForgetInv, ForgetErrorInv
<1>5. CASE UNCHANGED storeVars
  <2>1. /\ UNCHANGED <<disk, memory, phase, todo, rebuilding, diffs, forgetErrors>>
        /\ pc' = pc /\ wanted' = wanted /\ got' = got
    BY <1>5 DEF storeVars, writers, storeBounds
  <2>2. Disk' /\ Tree'
    BY <2>1, LockStep
  <2>3. StoreTypes'
    BY <2>1 DEF StoreInv, StoreTypes, disk, memory
  <2>4. \A w \in Writer : Held(w)' = Held(w)
    BY <2>1 DEF Held
  <2>5. \A w \in Writer : Locking(w)' /\ Changing(w)'
    BY <2>1, <2>4 DEF StoreInv, Writers, Locking, Changing, disk, memory
  <2>6. Writers'
    BY <2>4, <2>5 DEF StoreInv, Writers
  <2> QED BY <2>2, <2>3, <2>6 DEF StoreInv
<1> QED BY <1>1, <1>2, <1>3, <1>4, <1>5 DEF StoreNext

\* It implies that the tree matches the rows.
LEMMA TreeSoundNow ==
  ASSUME StoreInv
  PROVE  TreeSound
<1>0. StoreTypes /\ Writers /\ Tree
  BY DEF StoreInv
<1>1. StoreTypeOK
  <2>1. DOMAIN tree = Nodes(depth)
    BY <1>0 DEF StoreTypes, Trees
  <2>2. \A w \in Writer : got[w] \in 0..Len(wanted[w])
    BY <1>0, StoreFacts
  <2> QED BY <1>0, <2>1, <2>2 DEF StoreTypes, StoreTypeOK
<1>2. ASSUME phase = "up", forgetErrors = 0, NEW n \in Nodes(depth)
      PROVE  tree[n] = UNION {RowHash(k, Pending(k)) : k \in KeysAt(depth, n)}
  <2> DEFINE c == Coming(stored, diffs, pc)
             U == UNION {RowHash(k, c[k]) : k \in KeysAt(depth, n)}
  <2>1. tree[n] = Reach(HashesOf(c), depth, n)
    BY <1>0, <1>2 DEF Tree, TreeOf
  <2>2. KeysAt(depth, n) \subseteq Key
    BY DEF KeysAt
  <2>3. \A k \in Key : Pending(k) = c[k]
    BY DEF Pending, Coming, PendingAt, After, ChangesOf
  <2> HIDE DEF c
  <2>4. U = UNION {RowHash(k, Pending(k)) : k \in KeysAt(depth, n)}
    BY <2>2, <2>3
  <2>5. \A e : e \in U <=> \E k \in KeysAt(depth, n) : e \in RowHash(k, c[k])
    OBVIOUS
  <2> HIDE DEF U
  <2>6. \A k \in Key : RowHash(k, c[k]) \in SUBSET Pairs /\ \A e \in Pairs : e \in RowHash(k, c[k]) <=> e[1] = k /\ e[2] = c[k]
    BY RowsAre
  <2>7. \A e \in U : e \in Pairs
    BY <2>2, <2>5, <2>6
  <2>8. \A e \in Pairs : e \in U <=> e[1] \in KeysAt(depth, n) /\ c[e[1]] = e[2]
    BY <2>2, <2>5, <2>6
  <2>9. U = Reach(HashesOf(c), depth, n)
    BY <2>7, <2>8 DEF Reach, HashesOf
  <2> QED BY <2>1, <2>4, <2>9
<1> QED BY <1>1, <1>2 DEF TreeSound, TreeMatchesRows

\* It implies that the disk matches the rows.
LEMMA DiskMatchesNow ==
  ASSUME StoreInv
  PROVE  DiskMatchesRows
<1>0. StoreTypes /\ Writers /\ Disk /\ depth \in 1..HashBits /\ \A k : Leaf(k) = LeafAt(depth, k)
  BY StoreFacts DEF StoreInv
<1>1. phase = "up" => Settled(depth)
  BY <1>0 DEF Disk
<1>2. LeavesDurable
  BY <1>0, <1>1, HashOfRows DEF LeavesDurable, Settled, LeavesOf
<1>3. IndexComplete
  BY <1>0, <1>1 DEF IndexComplete, Settled, IndexOf, RowKeys
<1> QED BY <1>2, <1>3 DEF DiskMatchesRows

(***************************************************************************)
(* Every node of the tree in memory is the exclusive or of the rows below  *)
(* it, however Batch, Merge, their UndoUpdate, GarbageCollect, Forget,     *)
(* crashes, rebuilds and restarts interleave, for any number of writers    *)
(* and keys and any depths, until a Forget fails. MayRevert = FALSE: no    *)
(* operator goes back to the recorded depth before a rebuild for another   *)
(* one has ended, because Initialize would take unfinished leaves for      *)
(* finished ones.                                                          *)
(***************************************************************************)
THEOREM TreeStaysSound ==
  ASSUME MayRevert = FALSE
  PROVE  StoreSpec => []TreeSound
<1>1. StoreInit => StoreInv
  BY StoreInvInit
<1>2. StoreInv /\ [StoreNext]_storeVars => StoreInv'
  BY StoreInvKept
<1>3. StoreInv => TreeSound
  BY TreeSoundNow
<1> QED BY <1>1, <1>2, <1>3, PTL DEF StoreSpec

(***************************************************************************)
(* While the store is up, the leaf hashes on disk are those of the rows on *)
(* disk, and the leaf index has these rows and no others: what the next    *)
(* start and the iterators of sync sessions read. Under the same           *)
(* hypotheses.                                                             *)
(***************************************************************************)
THEOREM DiskStaysMatched ==
  ASSUME MayRevert = FALSE
  PROVE  StoreSpec => []DiskMatchesRows
<1>1. StoreInit => StoreInv
  BY StoreInvInit
<1>2. StoreInv /\ [StoreNext]_storeVars => StoreInv'
  BY StoreInvKept
<1>3. StoreInv => DiskMatchesRows
  BY DiskMatchesNow
<1> QED BY <1>1, <1>2, <1>3, PTL DEF StoreSpec
=============================================================================
