-------------------------- MODULE WalletKeysProofs --------------------------
(***************************************************************************)
(* Signatures and keys over any curve whose points are a group of prime      *)
(* order, for any secrets, digests, nonces and seeds.                        *)
(*                                                                          *)
(* The proof has three parts.  The multiples of the generator are counted    *)
(* modulo its order (SumOfMultiples, MultipleOfMultiple), so that an         *)
(* equation between points is one between scalars.  A point is known from    *)
(* its abscissa and the parity of its ordinate (PointAtIs).  What is left is *)
(* arithmetic modulo the order, with the sign of s and the reduction of the  *)
(* abscissa kept apart.                                                      *)
(***************************************************************************)
EXTENDS WalletKeys, WellFoundedInduction, TLAPS

-----------------------------------------------------------------------------
(* Arithmetic modulo a number.                                               *)

LEMMA ProductInside ==
  ASSUME NEW m \in Nat \ {0}, NEW k \in Int, -m < m * k, m * k < m
  PROVE  k = 0
<1>1. CASE k >= 1
  BY <1>1
<1>2. CASE k <= -1
  BY <1>2
<1> QED
  BY <1>1, <1>2

LEMMA DivMod ==
  ASSUME NEW m \in Nat \ {0}, NEW a \in Int
  PROVE  /\ a \div m \in Int /\ a % m \in 0..(m - 1)
         /\ a = m * (a \div m) + (a % m)
<1>1. a \div m \in Int
  OBVIOUS
<1>2. a % m \in 0..(m - 1)
  OBVIOUS
<1>3. a = m * (a \div m) + (a % m)
  OBVIOUS
<1> QED
  BY <1>1, <1>2, <1>3

LEMMA ModIs ==
  ASSUME NEW m \in Nat \ {0}, NEW q \in Int, NEW r \in 0..(m - 1)
  PROVE  (m * q + r) % m = r
<1> DEFINE a == m * q + r
<1>1. a \in Int
  OBVIOUS
<1>2. a \div m \in Int /\ a % m \in 0..(m - 1) /\ a = m * (a \div m) + (a % m)
  BY <1>1, DivMod
<1>3. PICK d \in Int, s \in 0..(m - 1) : d = a \div m /\ s = a % m /\ a = m * d + s
  BY <1>2
<1>4. m * (d - q) = r - s
  BY <1>3
<1>5. d - q = 0
  BY <1>4, ProductInside
<1> QED
  BY <1>3, <1>4, <1>5

\* Numbers that differ by a multiple of "m" are the same modulo "m", and the other way.
LEMMA ModSame ==
  ASSUME NEW m \in Nat \ {0}, NEW a \in Int, NEW q \in Int
  PROVE  (a + m * q) % m = a % m
<1>1. PICK d \in Int, s \in 0..(m - 1) : a = m * d + s /\ s = a % m
  BY DivMod
<1>2. a + m * q = m * (d + q) + s
  BY <1>1
<1>3. (m * (d + q) + s) % m = s
  BY ModIs
<1> QED
  BY <1>1, <1>2, <1>3

LEMMA ModSmall ==
  ASSUME NEW m \in Nat \ {0}, NEW a \in 0..(m - 1)
  PROVE  a % m = a
  BY ModIs, m * 0 + a = a

LEMMA ModSum ==
  ASSUME NEW m \in Nat \ {0}, NEW a \in Int, NEW b \in Int
  PROVE  /\ ((a % m) + b) % m = (a + b) % m
         /\ (b + (a % m)) % m = (a + b) % m
<1>1. PICK d \in Int, s \in 0..(m - 1) : a = m * d + s /\ s = a % m
  BY DivMod
<1>2. PICK e \in Int : e = s + b /\ a + b = e + m * d /\ b + s = e
  BY <1>1
<1>3. (e + m * d) % m = e % m
  BY ModSame
<1> QED
  BY <1>1, <1>2, <1>3

LEMMA ModProduct ==
  ASSUME NEW m \in Nat \ {0}, NEW a \in Int, NEW b \in Int
  PROVE  /\ ((a % m) * b) % m = (a * b) % m
         /\ (b * (a % m)) % m = (a * b) % m
<1>1. PICK d \in Int, s \in 0..(m - 1) : a = m * d + s /\ s = a % m
  BY DivMod
<1>2. d * b \in Int /\ s * b \in Int
  OBVIOUS
<1>3. (m * d + s) * b = s * b + m * (d * b) /\ b * s = s * b
  OBVIOUS
<1>4. a * b = s * b + m * (d * b)
  BY <1>1, <1>3
<1>5. (s * b + m * (d * b)) % m = (s * b) % m
  BY <1>2, ModSame
<1>6. (a * b) % m = (s * b) % m
  BY <1>4, <1>5
<1> QED
  BY <1>1, <1>3, <1>6

\* In a field no product of two numbers is zero.
LEMMA NoZeroDivisors ==
  ASSUME NEW m \in {P, N}, NEW a \in 1..(m - 1), NEW b \in 1..(m - 1)
  PROVE  (a * b) % m # 0
<1>1. m \in Nat \ {0} /\ a \in Nat /\ b \in Nat
  BY CurveAssumption
<1>2. PICK i \in 1..(m - 1) : (a * i) % m = 1
  BY PrimeAssumption
<1>3. SUFFICES ASSUME (a * b) % m = 0 PROVE FALSE
  OBVIOUS
<1>4. PICK c \in Int, d \in Int : c = a * i /\ d = a * b /\ c * b = d * i
  BY <1>1, <1>2
<1>5. /\ (c * b) % m = ((c % m) * b) % m
      /\ (d * i) % m = ((d % m) * i) % m
  <2>1. b \in Int /\ i \in Int
    OBVIOUS
  <2>2. (c * b) % m = ((c % m) * b) % m
    BY <1>1, <2>1, ModProduct
  <2>3. (d * i) % m = ((d % m) * i) % m
    BY <1>1, <2>1, ModProduct
  <2> QED
    BY <2>2, <2>3
<1>6. (1 * b) % m = (0 * i) % m
  BY <1>2, <1>3, <1>4, <1>5
<1>7. 1 * b = b /\ 0 * i = 0 /\ b \in 0..(m - 1) /\ 0 \in 0..(m - 1)
  BY <1>1, <1>2
<1>8. b % m = b /\ 0 % m = 0
  BY <1>1, <1>7, ModSmall
<1> QED
  BY <1>6, <1>7, <1>8

LEMMA Sizes ==
  /\ P \in Nat \ {0} /\ N \in Nat \ {0} /\ 2 < N /\ N < P /\ P < 2 * N
  /\ P % 2 = 1 /\ N % 2 = 1
<1>1. P \in Nat /\ N \in Nat /\ N < P /\ P < 2 * N
  BY CurveAssumption
<1>2. P % 2 = 1 /\ N % 2 = 1
  BY PrimeAssumption
<1> QED
  BY <1>1, <1>2

LEMMA InverseIs ==
  ASSUME NEW a \in 1..(N - 1)
  PROVE  ScalarInverse[a] \in 1..(N - 1) /\ (a * ScalarInverse[a]) % N = 1
<1>1. \E b \in 1..(N - 1) : (a * b) % N = 1
  BY PrimeAssumption
<1>2. ScalarInverse[a] = CHOOSE b \in 1..(N - 1) : (a * b) % N = 1
  BY DEF ScalarInverse, InversesModulo
<1> QED
  BY <1>1, <1>2

-----------------------------------------------------------------------------
(* The multiples of the generator.                                           *)

LEMMA Counting ==
  ASSUME NEW S, 0 \in S, \A n \in Nat : n \in S => n + 1 \in S
  PROVE  Nat \subseteq S
<1> DEFINE T == {n \in Nat : n \notin S}
<1>1. SUFFICES ASSUME T # {} PROVE FALSE
  OBVIOUS
<1>2. PICK n \in T : \A m \in T : ~(<<m, n>> \in OpToRel(<, Nat))
  BY <1>1, NatLessThanWellFounded, WFMin
<1>3. n \in Nat /\ n # 0 /\ n - 1 \in Nat /\ n - 1 < n
  OBVIOUS
<1>4. <<n - 1, n>> \in OpToRel(<, Nat)
  BY <1>3 DEF OpToRel
<1>5. n - 1 \in S
  BY <1>2, <1>3, <1>4
<1>6. (n - 1) + 1 \in S /\ (n - 1) + 1 = n
  BY <1>3, <1>5
<1> QED
  BY <1>6

\* Counting on from zero by "q": the function by which Times is defined exists.
CountsBy(q, f, n) == f = [i \in 0..n |-> IF i = 0 THEN Infinity ELSE Plus(f[i - 1], q)]

LEMMA CountsExist ==
  ASSUME NEW q, NEW n \in Nat
  PROVE  \E f : CountsBy(q, f, n)
<1> DEFINE S == {k \in Nat : \E f : CountsBy(q, f, k)}
<1>1. 0 \in S
  <2>1. CountsBy(q, [i \in 0..0 |-> Infinity], 0)
    BY DEF CountsBy
  <2> QED
    BY <2>1
<1>2. ASSUME NEW k \in Nat, k \in S PROVE k + 1 \in S
  <2>1. PICK f : CountsBy(q, f, k)
    BY <1>2
  <2> DEFINE g == [i \in 0..(k + 1) |-> IF i = k + 1 THEN Plus(f[k], q) ELSE f[i]]
  <2>2. ASSUME NEW i \in 0..(k + 1) PROVE g[i] = IF i = 0 THEN Infinity ELSE Plus(g[i - 1], q)
    <3>1. CASE i = k + 1
      BY <3>1
    <3>2. CASE i # k + 1
      <4>1. i \in 0..k /\ g[i] = f[i] /\ (i # 0 => i - 1 \in 0..(k + 1) /\ i - 1 # k + 1 /\ g[i - 1] = f[i - 1])
        BY <3>2
      <4>2. f[i] = IF i = 0 THEN Infinity ELSE Plus(f[i - 1], q)
        BY <2>1, <4>1 DEF CountsBy
      <4> QED
        BY <4>1, <4>2
    <3> QED
      BY <3>1, <3>2
  <2>3. CountsBy(q, g, k + 1)
    <3> HIDE DEF g
    <3>1. g = [i \in 0..(k + 1) |-> g[i]]
      BY DEF g
    <3>2. [i \in 0..(k + 1) |-> g[i]]
            = [i \in 0..(k + 1) |-> IF i = 0 THEN Infinity ELSE Plus(g[i - 1], q)]
      BY <2>2
    <3> QED
      BY <3>1, <3>2 DEF CountsBy
  <2> QED
    BY <2>3
<1> HIDE DEF S
<1>3. Nat \subseteq S
  BY <1>1, <1>2, Counting
<1> QED
  BY <1>3 DEF S

LEMMA TimesCounts ==
  ASSUME NEW q
  PROVE  /\ Times(0, q) = Infinity
         /\ \A k \in 1..(N - 1) : Times(k, q) = Plus(Times(k - 1, q), q)
<1> DEFINE times == CHOOSE f : CountsBy(q, f, N - 1)
<1>1. N - 1 \in Nat
  BY Sizes
<1>2. CountsBy(q, times, N - 1)
  BY <1>1, CountsExist
<1>3. \A k \in Scalars : Times(k, q) = times[k]
  BY DEF Times, CountsBy, Scalars
<1> HIDE DEF times
<1>4. \A i \in 0..(N - 1) : times[i] = IF i = 0 THEN Infinity ELSE Plus(times[i - 1], q)
  BY <1>2 DEF CountsBy
<1> QED
  BY <1>1, <1>3, <1>4 DEF Scalars

LEMMA Generated ==
  /\ \A k \in Scalars : Times(k, G) \in Group
  /\ \A q \in Group : \E k \in Scalars : q = Times(k, G)
  /\ G \in Group /\ G # Infinity
<1>1. G \in Field \X Field /\ OnCurve(Gx, Gy) /\ G[1] = Gx /\ G[2] = Gy
  BY CurveAssumption DEF G
<1>2. G \in Points
  BY <1>1 DEF Points
<1>3. G # Infinity
  BY DEF G, Infinity
<1> QED
  BY <1>2, <1>3, GroupAssumption DEF Group

LEMMA SumOfMultiples ==
  ASSUME NEW a \in Scalars, NEW b \in Scalars
  PROVE  Plus(Times(a, G), Times(b, G)) = Times((a + b) % N, G)
<1> DEFINE S == {n \in Nat : n < N => Plus(Times(a, G), Times(n, G)) = Times((a + n) % N, G)}
<1>1. a \in Int /\ a \in 0..(N - 1) /\ N \in Nat \ {0}
  BY Sizes DEF Scalars
<1>2. 0 \in S
  <2>1. (a + 0) % N = a
    BY <1>1, ModSmall
  <2>2. Plus(Times(a, G), Infinity) = Times(a, G)
    BY DEF Plus
  <2> QED
    BY <2>1, <2>2, TimesCounts
<1>3. ASSUME NEW n \in Nat, n \in S PROVE n + 1 \in S
  <2> SUFFICES ASSUME n + 1 < N
               PROVE  Plus(Times(a, G), Times(n + 1, G)) = Times((a + (n + 1)) % N, G)
    OBVIOUS
  <2>1. n \in Scalars /\ n + 1 \in 1..(N - 1) /\ (n + 1) - 1 = n
    BY <1>1 DEF Scalars
  <2>2. PICK c \in Scalars : c = (a + n) % N
    BY <1>1, <2>1, DivMod DEF Scalars
  <2>3. Times(n + 1, G) = Plus(Times(n, G), G)
    BY <2>1, TimesCounts
  <2>4. Plus(Times(a, G), Times(n, G)) = Times(c, G)
    BY <1>1, <1>3, <2>1, <2>2 DEF Scalars
  <2>5. Plus(Times(a, G), Times(n + 1, G)) = Plus(Times(c, G), G)
    BY <2>1, <2>3, <2>4, Generated, GroupAssumption
  <2>6. (c + 1) % N = (a + (n + 1)) % N
    <3>1. PICK e \in Int : e = a + n /\ a + (n + 1) = e + 1
      BY <1>1
    <3>2. 1 \in Int /\ N \in Nat \ {0}
      BY <1>1
    <3>3. ((e % N) + 1) % N = (e + 1) % N
      BY ONLY <3>2, e \in Int, ModSum
    <3> QED
      BY <2>2, <3>1, <3>3
  <2>7. CASE c = N - 1
    <3>1. (c + 1) % N = 0
      BY <1>1, <2>7, ModIs, N * 1 + 0 = c + 1
    <3> QED
      BY <2>5, <2>6, <2>7, <3>1, TimesCounts, GroupAssumption
  <2>8. CASE c # N - 1
    <3>1. c + 1 \in 0..(N - 1) /\ c + 1 \in 1..(N - 1) /\ (c + 1) - 1 = c
      BY <1>1, <2>8 DEF Scalars
    <3>2. (c + 1) % N = c + 1
      BY <1>1, <3>1, ModSmall
    <3>3. Times(c + 1, G) = Plus(Times(c, G), G)
      BY <3>1, TimesCounts
    <3> QED
      BY <2>5, <2>6, <3>2, <3>3
  <2> QED
    BY <2>7, <2>8
<1> HIDE DEF S
<1>4. Nat \subseteq S
  BY <1>2, <1>3, Counting
<1> QED
  BY <1>1, <1>4 DEF S, Scalars

LEMMA MultipleOfMultiple ==
  ASSUME NEW a \in Scalars, NEW b \in Scalars
  PROVE  Times(a, Times(b, G)) = Times((a * b) % N, G)
<1> DEFINE S == {n \in Nat : n < N => Times(n, Times(b, G)) = Times((n * b) % N, G)}
<1>1. b \in Int /\ b \in 0..(N - 1) /\ N \in Nat \ {0}
  BY Sizes DEF Scalars
<1>2. 0 \in S
  <2>1. 0 * b = 0 /\ 0 \in 0..(N - 1)
    BY <1>1
  <2>2. (0 * b) % N = 0
    BY <1>1, <2>1, ModSmall
  <2> QED
    BY <2>2, TimesCounts
<1>3. ASSUME NEW n \in Nat, n \in S PROVE n + 1 \in S
  <2> SUFFICES ASSUME n + 1 < N
               PROVE  Times(n + 1, Times(b, G)) = Times(((n + 1) * b) % N, G)
    OBVIOUS
  <2>1. n + 1 \in 1..(N - 1) /\ (n + 1) - 1 = n /\ n < N
    BY <1>1
  <2>2. PICK d \in Int : d = n * b /\ (n + 1) * b = d + b
    BY <1>1
  <2>3. PICK c \in Scalars : c = d % N
    BY <1>1, DivMod DEF Scalars
  <2>4. Times(n + 1, Times(b, G)) = Plus(Times(c, G), Times(b, G))
    BY <1>3, <2>1, <2>2, <2>3, TimesCounts
  <2>5. (c + b) % N = (d + b) % N
    BY <1>1, <2>3, ModSum
  <2> QED
    BY <2>2, <2>4, <2>5, SumOfMultiples
<1> HIDE DEF S
<1>4. Nat \subseteq S
  BY <1>2, <1>3, Counting
<1> QED
  BY <1>1, <1>4 DEF S, Scalars

LEMMA ZeroMultiple ==
  ASSUME NEW c \in Scalars, Times(c, G) = Infinity
  PROVE  c = 0
<1> SUFFICES ASSUME c # 0 PROVE FALSE
  OBVIOUS
<1>1. c \in 1..(N - 1) /\ N \in Nat \ {0} /\ 0 \in Scalars /\ 1 \in 1..(N - 1) /\ 1 - 1 = 0
  BY Sizes DEF Scalars
<1>2. PICK i \in 1..(N - 1) : (c * i) % N = 1
  BY <1>1, InverseIs
<1>3. i \in Scalars /\ i * c = c * i /\ i * 0 = 0
  BY <1>1, <1>2 DEF Scalars
<1>4. Times(i, Times(c, G)) = Times(1, G)
  BY <1>2, <1>3, MultipleOfMultiple
<1>5. Times(i, Times(0, G)) = Times(0, G)
  <2>1. 0 % N = 0
    BY <1>1, ModSmall
  <2> QED
    BY <1>1, <1>3, <2>1, MultipleOfMultiple
<1>6. Times(1, G) = G
  BY <1>1, TimesCounts DEF Plus
<1> QED
  BY <1>4, <1>5, <1>6, TimesCounts, Generated

LEMMA Distinct ==
  ASSUME NEW a \in Scalars, NEW b \in Scalars, Times(a, G) = Times(b, G)
  PROVE  a = b
<1>1. N \in Nat \ {0} /\ a \in 0..(N - 1) /\ b \in 0..(N - 1)
  BY Sizes DEF Scalars
<1> DEFINE m == N - b
<1>10. m \in Int
  BY <1>1
<1>2. PICK c \in Scalars : c = m % N
  BY <1>1, <1>10, DivMod DEF Scalars
<1>3. /\ (a + c) % N = (a + m) % N
      /\ (b + c) % N = (b + m) % N
  <2> HIDE DEF m
  <2>1. N \in Nat \ {0} /\ a \in Int /\ b \in Int
    BY <1>1
  <2>3. (a + (m % N)) % N = (m + a) % N
    BY ONLY <2>1, <1>10, ModSum
  <2>4. (b + (m % N)) % N = (m + b) % N
    BY ONLY <2>1, <1>10, ModSum
  <2>2. m + a = a + m /\ m + b = b + m
    BY <1>1, <1>10
  <2> QED
    BY <1>2, <2>2, <2>3, <2>4
<1>4. (b + (N - b)) % N = 0
  BY <1>1, ModIs, b + (N - b) = N * 1 + 0
<1>5. Times((a + c) % N, G) = Times((b + c) % N, G)
  BY SumOfMultiples
<1>6. (a + (N - b)) % N \in Scalars
  BY <1>1, DivMod DEF Scalars
<1>7. (a + (N - b)) % N = 0
  BY <1>3, <1>4, <1>5, <1>6, TimesCounts, ZeroMultiple
<1>8. CASE a < b
  <2>1. a + (N - b) \in 0..(N - 1)
    BY <1>1, <1>8
  <2> QED
    BY <1>1, <1>7, <2>1, ModSmall
<1>9. CASE a >= b
  <2>1. a - b \in 0..(N - 1) /\ a + (N - b) = N * 1 + (a - b)
    BY <1>1, <1>9
  <2>2. (N * 1 + (a - b)) % N = a - b
    BY <1>1, <2>1, ModIs
  <2> QED
    BY <1>1, <1>7, <2>1, <2>2
<1> QED
  BY <1>1, <1>8, <1>9

-----------------------------------------------------------------------------
(* A point, its negative, and its abscissa.                                  *)

LEMMA PointIs ==
  ASSUME NEW q \in Points
  PROVE  /\ q = <<q[1], q[2]>> /\ q[1] \in Field /\ q[2] \in Field /\ OnCurve(q[1], q[2])
         /\ q # Infinity
  BY DEF Points, Infinity

LEMMA SquareOfNegative ==
  ASSUME NEW y \in 0..P
  PROVE  ((P - y) * (P - y)) % P = (y * y) % P
<1>1. P \in Nat \ {0} /\ y \in Int
  BY Sizes
<1>2. y * y \in Int /\ (P - y) * (P - y) = y * y + P * (P - 2 * y)
  BY <1>1
<1>3. PICK z \in Int, k \in Int : z = y * y /\ k = P - 2 * y
  BY <1>1
<1>4. (z + P * k) % P = z % P
  BY <1>1, ModSame
<1> QED
  BY <1>2, <1>3, <1>4

LEMMA NegatedPoint ==
  ASSUME NEW q \in Points
  PROVE  /\ Negated(q) = <<q[1], IF q[2] = 0 THEN 0 ELSE P - q[2]>>
         /\ Negated(q) \in Points
         /\ Negated(Negated(q)) = q
<1>1. P \in Nat \ {0} /\ q[2] \in 0..(P - 1) /\ q[1] \in Field /\ q = <<q[1], q[2]>>
  BY Sizes, PointIs DEF Field
<1> DEFINE n == IF q[2] = 0 THEN 0 ELSE P - q[2]
<1>2. (P - q[2]) % P = n
  <2>1. CASE q[2] = 0
    BY <1>1, <2>1, ModIs, P - q[2] = P * 1 + 0
  <2>2. CASE q[2] # 0
    BY <1>1, <2>2, ModSmall
  <2> QED
    BY <2>1, <2>2
<1>3. Negated(q) = <<q[1], n>>
  BY <1>2, PointIs DEF Negated
<1>4. n \in Field /\ n \in 0..(P - 1)
  BY <1>1 DEF Field
<1>5. (n * n) % P = (q[2] * q[2]) % P
  <2>1. CASE q[2] = 0
    BY <2>1
  <2>2. CASE q[2] # 0
    BY <1>1, <2>2, SquareOfNegative
  <2> QED
    BY <2>1, <2>2
<1>6. OnCurve(q[1], n)
  BY <1>5, PointIs DEF OnCurve
<1>7. <<q[1], n>> \in Points
  <2> HIDE DEF n
  <2> QED
    BY <1>1, <1>4, <1>6 DEF Points
<1>8. (P - n) % P = q[2]
  <2>1. CASE q[2] = 0
    BY <1>1, <2>1, ModIs, P - n = P * 1 + 0
  <2>2. CASE q[2] # 0
    BY <1>1, <2>2, ModSmall
  <2> QED
    BY <2>1, <2>2
<1>9. Negated(<<q[1], n>>) = q
  <2> HIDE DEF n
  <2> QED
    BY <1>1, <1>8 DEF Negated, Infinity
<1> QED
  BY <1>3, <1>7, <1>9

LEMMA NegatedMultiple ==
  ASSUME NEW a \in Scalars
  PROVE  /\ Negated(Times(a, G)) = Times((N - a) % N, G)
         /\ a # 0 => N - a \in Scalars \ {0} /\ (N - a) % N = N - a
<1> DEFINE q == Times(a, G)
<1>1. N \in Nat \ {0} /\ a \in 0..(N - 1) /\ 0 \in Scalars
  BY Sizes DEF Scalars
<1>2. a # 0 => N - a \in Scalars \ {0} /\ (N - a) % N = N - a
  BY <1>1, ModSmall DEF Scalars
<1>3. CASE a = 0
  <2>1. (N - a) % N = 0
    BY <1>1, <1>3, ModIs, N - a = N * 1 + 0
  <2> QED
    BY <1>2, <1>3, <2>1, TimesCounts DEF Negated
<1>4. CASE a # 0
  <2>1. q \in Points
    BY <1>1, <1>4, ZeroMultiple, Generated DEF Group
  <2>2. Negated(q) \in Points /\ Negated(Negated(q)) = q /\ q # Infinity /\ Negated(q) # Infinity
    BY <2>1, NegatedPoint, PointIs
  <2>3. PICK b \in Scalars : Negated(q) = Times(b, G)
    BY <2>2, Generated DEF Group
  <2>4. Plus(q, Negated(q)) = Infinity
    BY <2>2 DEF Plus
  <2>5. Times((a + b) % N, G) = Times(0, G)
    BY <2>3, <2>4, SumOfMultiples, TimesCounts
  <2>6. (a + b) % N = 0
    <3>1. (a + b) % N \in Scalars
      BY <1>1, DivMod DEF Scalars
    <3> QED
      BY <1>1, <2>5, <3>1, Distinct
  <2>7. b = N - a
    <3>1. b \in 0..(N - 1) /\ a >= 1
      BY <1>1, <1>4 DEF Scalars
    <3>2. CASE a + b < N
      <4>1. a + b \in 0..(N - 1)
        BY <1>1, <3>1, <3>2
      <4> QED
        BY <1>1, <2>6, <3>1, <4>1, ModSmall
    <3>3. CASE a + b >= N
      <4>1. (a + b) - N \in 0..(N - 1) /\ a + b = N * 1 + ((a + b) - N)
        BY <1>1, <3>1, <3>3
      <4>2. (N * 1 + ((a + b) - N)) % N = (a + b) - N
        BY <1>1, <4>1, ModIs
      <4> QED
        BY <1>1, <2>6, <3>1, <4>1, <4>2
    <3> QED
      BY <1>1, <3>1, <3>2, <3>3
  <2> QED
    BY <1>2, <1>4, <2>3, <2>7
<1> QED
  BY <1>3, <1>4

LEMMA ZeroDifference ==
  ASSUME NEW m \in Nat \ {0}, NEW a \in Int, NEW b \in Int, a % m = b % m
  PROVE  (a - b) % m = 0
<1>1. PICK d \in Int, s \in 0..(m - 1) : a = m * d + s /\ s = a % m
  BY DivMod
<1>2. PICK e \in Int : b = m * e + s
  BY <1>1, DivMod
<1>3. a - b = m * (d - e) + 0
  BY <1>1, <1>2
<1>4. (m * (d - e) + 0) % m = 0
  BY ModIs
<1> QED
  BY <1>3, <1>4

\* No two points have one abscissa and ordinates of one parity.
LEMMA ParityTells ==
  ASSUME NEW y \in Field, NEW z \in Field, (y * y) % P = (z * z) % P, y % 2 = z % 2
  PROVE  ~(z < y)
<1> SUFFICES ASSUME z < y PROVE FALSE
  OBVIOUS
<1>1. P \in Nat \ {0} /\ y \in 0..(P - 1) /\ z \in 0..(P - 1) /\ P % 2 = 1
  BY Sizes DEF Field
<1>2. PICK a \in Int, b \in Int : a = y - z /\ b = y + z
  BY <1>1
<1>3. a \in 1..(P - 1)
  BY <1>1, <1>2
<1>4. (a * b) % P = 0
  <2>1. PICK u \in Int, v \in Int : u = y * y /\ v = z * z /\ a * b = u - v
    BY <1>1, <1>2
  <2>2. (u - v) % P = 0
    BY <1>1, <2>1, ZeroDifference
  <2> QED
    BY <2>1, <2>2
<1>5. CASE b < P
  <2>1. b \in 1..(P - 1)
    BY <1>1, <1>2, <1>5
  <2> QED
    BY <1>3, <1>4, <2>1, NoZeroDivisors
<1>6. CASE b = P
  BY <1>1, <1>2, <1>6
<1>7. CASE b > P
  <2>1. PICK c \in 1..(P - 1) : c = b - P
    BY <1>1, <1>2, <1>7
  <2>2. a * b = a * c + P * a
    BY <1>1, <1>2, <2>1
  <2>3. PICK w \in Int : w = a * c
    BY <1>1, <1>2, <2>1
  <2>4. (w + P * a) % P = w % P
    BY <1>1, <2>3, ModSame
  <2> QED
    BY <1>3, <1>4, <2>1, <2>2, <2>3, <2>4, NoZeroDivisors
<1> QED
  BY <1>1, <1>2, <1>5, <1>6, <1>7

LEMMA PointAtIs ==
  ASSUME NEW q \in Points
  PROVE  PointAt(q[1], q[2] % 2) = q
<1> DEFINE Found(p) == p[1] = q[1] /\ p[2] % 2 = q[2] % 2
<1>1. q[2] \in Field /\ OnCurve(q[1], q[2])
  BY PointIs
<1>2. ASSUME NEW p \in Points, Found(p) PROVE p = q
  <2>1. p[2] \in Field /\ OnCurve(p[1], p[2]) /\ p = <<p[1], p[2]>> /\ q = <<q[1], q[2]>>
    BY PointIs
  <2>2. (p[2] * p[2]) % P = (q[2] * q[2]) % P
    BY <1>1, <1>2, <2>1 DEF OnCurve
  <2>3. ~(p[2] < q[2]) /\ ~(q[2] < p[2])
    BY <1>1, <1>2, <2>1, <2>2, ParityTells
  <2>4. p[2] = q[2]
    BY <1>1, <2>1, <2>3, Sizes DEF Field
  <2> QED
    BY <1>2, <2>1, <2>4
<1>3. (CHOOSE p \in Points : p[1] = q[1] /\ p[2] % 2 = q[2] % 2) = q
  BY <1>2
<1> QED
  BY <1>1, <1>3 DEF PointAt

\* The ordinate of a point is not zero, so that its negative has the other parity.
LEMMA OtherParity ==
  ASSUME NEW q \in Points
  PROVE  /\ q[2] # 0
         /\ Negated(q)[1] = q[1] /\ Negated(q)[2] % 2 = (q[2] + 1) % 2
<1>1. PICK a \in Scalars : q = Times(a, G)
  BY Generated DEF Group
<1>2. a # 0
  BY <1>1, TimesCounts, PointIs
<1>3. Negated(q) = Times(N - a, G) /\ N - a \in Scalars
  BY <1>1, <1>2, NegatedMultiple
<1>4. N \in Nat \ {0} /\ a \in 0..(N - 1) /\ N % 2 = 1
  BY Sizes DEF Scalars
<1>5. N - a # a
  BY <1>4
<1>6. Negated(q) # q
  BY <1>1, <1>3, <1>5, Distinct
<1>7. q[2] # 0
  BY <1>6, NegatedPoint, PointIs
<1>8. P \in Nat \ {0} /\ P % 2 = 1 /\ q[2] \in 0..(P - 1)
  BY Sizes, PointIs DEF Field
<1>9. (P - q[2]) % 2 = (q[2] + 1) % 2
  BY <1>8
<1> QED
  BY <1>7, <1>9, NegatedPoint

-----------------------------------------------------------------------------
(* Equations between scalars.                                                *)

Same(a, b) == a % N = b % N

LEMMA SameReduced ==
  ASSUME NEW a \in Int
  PROVE  a % N \in Scalars /\ Same(a % N, a)
<1>1. N \in Nat \ {0} /\ a % N \in 0..(N - 1)
  BY Sizes, DivMod
<1> QED
  BY <1>1, ModSmall DEF Same, Scalars

LEMMA SameScalar ==
  ASSUME NEW a \in Scalars, NEW b \in Scalars, Same(a, b)
  PROVE  a = b
<1>1. N \in Nat \ {0} /\ a \in 0..(N - 1) /\ b \in 0..(N - 1)
  BY Sizes DEF Scalars
<1> QED
  BY <1>1, ModSmall DEF Same

LEMMA SameSum ==
  ASSUME NEW a \in Int, NEW b \in Int, NEW c \in Int, NEW d \in Int, Same(a, b), Same(c, d)
  PROVE  Same(a + c, b + d)
<1>1. N \in Nat \ {0}
  BY Sizes
<1>2. ((a % N) + c) % N = (a + c) % N
  BY ONLY <1>1, a \in Int, c \in Int, ModSum
<1>3. ((b % N) + c) % N = (b + c) % N
  BY ONLY <1>1, b \in Int, c \in Int, ModSum
<1>4. (b + (c % N)) % N = (c + b) % N
  BY ONLY <1>1, b \in Int, c \in Int, ModSum
<1>5. (b + (d % N)) % N = (d + b) % N
  BY ONLY <1>1, b \in Int, d \in Int, ModSum
<1>6. c + b = b + c /\ d + b = b + d
  OBVIOUS
<1> QED
  BY <1>2, <1>3, <1>4, <1>5, <1>6 DEF Same

LEMMA SameProduct ==
  ASSUME NEW a \in Int, NEW b \in Int, NEW c \in Int, NEW d \in Int, Same(a, b), Same(c, d)
  PROVE  Same(a * c, b * d)
<1>1. N \in Nat \ {0}
  BY Sizes
<1>2. ((a % N) * c) % N = (a * c) % N
  BY ONLY <1>1, a \in Int, c \in Int, ModProduct
<1>3. ((b % N) * c) % N = (b * c) % N
  BY ONLY <1>1, b \in Int, c \in Int, ModProduct
<1>4. (b * (c % N)) % N = (c * b) % N
  BY ONLY <1>1, b \in Int, c \in Int, ModProduct
<1>5. (b * (d % N)) % N = (d * b) % N
  BY ONLY <1>1, b \in Int, d \in Int, ModProduct
<1>6. c * b = b * c /\ d * b = b * d
  OBVIOUS
<1> QED
  BY <1>2, <1>3, <1>4, <1>5, <1>6 DEF Same

\* What is multiplied by an inverse and then by the number is what it was.
LEMMA InverseCancels ==
  ASSUME NEW a \in 1..(N - 1), NEW t \in Int
  PROVE  /\ Same(a * ((ScalarInverse[a] * t) % N), t)
         /\ Same((ScalarInverse[a] * a) * t, t)
<1>1. N \in Nat \ {0} /\ a \in Int /\ 1 \in 0..(N - 1)
  BY Sizes
<1>2. PICK i \in 1..(N - 1) : i = ScalarInverse[a] /\ (a * i) % N = 1
  BY InverseIs
<1>3. PICK z \in Int : z = i * t
  BY <1>1, <1>2
<1>4. Same(a * (z % N), a * z)
  <2>1. z % N \in Scalars /\ Same(z % N, z)
    BY SameReduced
  <2>2. z % N \in Int
    BY <2>1 DEF Scalars
  <2>3. Same(a, a)
    BY DEF Same
  <2> QED
    BY <1>1, <2>1, <2>2, <2>3, SameProduct
<1>5. PICK e \in Int : e = a * i /\ a * z = e * t /\ i * a = e
  BY <1>1, <1>2, <1>3
<1>6. Same(e, 1)
  BY <1>1, <1>2, <1>5, ModSmall DEF Same
<1>7. Same(e * t, 1 * t) /\ 1 * t = t
  <2>1. Same(t, t) /\ 1 \in Int
    BY DEF Same
  <2> QED
    BY <1>6, <2>1, SameProduct
<1> QED
  BY <1>2, <1>3, <1>4, <1>5, <1>7 DEF Same

LEMMA SameNegative ==
  ASSUME NEW a \in Int
  PROVE  Same((N - (a % N)) % N, 0 - a)
<1>1. N \in Nat \ {0}
  BY Sizes
<1>2. PICK d \in Int, s \in 0..(N - 1) : a = N * d + s /\ s = a % N
  BY <1>1, DivMod
<1>3. N - s = (0 - a) + N * (d + 1)
  <2>1. N * (d + 1) = N * d + N
    BY <1>1
  <2>2. N * d \in Int
    BY <1>1
  <2> QED
    BY <1>1, <1>2, <2>1, <2>2
<1>4. PICK e \in Int : e = 0 - a
  OBVIOUS
<1>5. (e + N * (d + 1)) % N = e % N
  <2>1. d + 1 \in Int
    OBVIOUS
  <2> QED
    BY <1>1, <2>1, ModSame
<1>6. (N - s) % N = (0 - a) % N
  BY <1>3, <1>4, <1>5
<1>7. Same((N - s) % N, N - s)
  BY <1>1, SameReduced
<1> QED
  BY <1>2, <1>6, <1>7 DEF Same

LEMMA SameMirrored ==
  ASSUME NEW a \in Int, NEW b \in Int
  PROVE  Same((N - a) * (N - b), a * b)
<1>1. N \in Nat \ {0}
  BY Sizes
<1>2. PICK z \in Int, k \in Int : z = a * b /\ k = N - a - b /\ (N - a) * (N - b) = z + N * k
  BY <1>1
<1>3. (z + N * k) % N = z % N
  BY <1>1, ModSame
<1> QED
  BY <1>2, <1>3 DEF Same

-----------------------------------------------------------------------------
(* What a signature is.                                                      *)

\* A signature stands for a point that carries its abscissa and the parity of its ordinate; "j"
\* is the nonce, or its negative if the sign of s was changed.
SignatureOf(sig, secret, message, j) ==
  LET point == Times(j, G) IN
  /\ j \in 1..(N - 1) /\ point \in Points
  /\ sig = [r |-> sig.r, s |-> sig.s, recid |-> sig.recid]
  /\ sig.r \in 1..(N - 1) /\ sig.s \in 1..(N - 1) /\ ~IsHigh(sig.s) /\ sig.recid \in 0..3
  /\ point[1] = IF sig.recid >= 2 THEN sig.r + N ELSE sig.r
  /\ point[2] % 2 = sig.recid % 2
  /\ Same(sig.s * j, sig.r * secret + message)

LEMMA HighIs ==
  ASSUME NEW s \in 1..(N - 1)
  PROVE  /\ N - s \in 1..(N - 1)
         /\ IsHigh(N - s) <=> ~IsHigh(s)
  BY Sizes DEF IsHigh

LEMMA AbscissaIs ==
  ASSUME NEW x \in Field
  PROVE  /\ x % N \in Scalars
         /\ x = IF x >= N THEN (x % N) + N ELSE x % N
<1>1. P \in Nat \ {0} /\ N \in Nat \ {0} /\ P < 2 * N /\ x \in 0..(P - 1)
  BY Sizes DEF Field
<1>2. CASE x >= N
  <2>1. PICK y \in 0..(N - 1) : y = x - N /\ x = N * 1 + y
    BY <1>1, <1>2
  <2>2. (N * 1 + y) % N = y
    BY <1>1, ModIs
  <2> QED
    BY <1>1, <1>2, <2>1, <2>2 DEF Scalars
<1>3. CASE x < N
  <2>1. x \in 0..(N - 1)
    BY <1>1, <1>3
  <2> QED
    BY <1>1, <1>3, <2>1, ModSmall DEF Scalars
<1> QED
  BY <1>1, <1>2, <1>3

LEMMA SignedIs ==
  ASSUME NEW secret \in 1..(N - 1), NEW message \in Scalars, NEW k \in 1..(N - 1),
         SigSign(secret, message, k).r # 0, SigSign(secret, message, k).s # 0
  PROVE  \E j \in 1..(N - 1) : SignatureOf(SigSign(secret, message, k), secret, message, j)
<1> DEFINE sig == SigSign(secret, message, k)
           point == Times(k, G)
           t == sig.r * secret + message
           s == (ScalarInverse[k] * t) % N
           over == IF Overflows(point[1]) THEN 1 ELSE 0
           high == IF IsHigh(s) THEN 1 ELSE 0
<1>1. /\ sig = [r |-> Reduced(point[1]), s |-> IF IsHigh(s) THEN N - s ELSE s,
               recid |-> 2 * over + ((point[2] + high) % 2)]
  BY DEF SigSign
<1>2. sig.r = point[1] % N /\ sig.s = (IF IsHigh(s) THEN N - s ELSE s)
        /\ sig.recid = 2 * over + ((point[2] + high) % 2)
  BY <1>1 DEF Reduced
<1> HIDE DEF sig
<1>3. N \in Nat \ {0} /\ k \in Scalars /\ k # 0 /\ secret \in Int /\ message \in Int /\ k \in Int
  BY Sizes DEF Scalars
<1>4. point \in Points
  BY <1>3, Generated, ZeroMultiple DEF Group
<1>5. point[1] \in Field /\ point[2] \in Nat
  BY <1>4, PointIs, Sizes DEF Field
<1>6. sig.r \in Scalars /\ sig.r \in 1..(N - 1)
      /\ point[1] = IF point[1] >= N THEN sig.r + N ELSE sig.r
  BY <1>2, <1>3, <1>5, AbscissaIs DEF sig, Scalars
<1>7. t \in Int /\ ScalarInverse[k] * t \in Int
  BY <1>3, <1>6, InverseIs
<1> HIDE DEF t
<1>8. s \in Scalars /\ s \in 0..(N - 1)
  BY <1>7, SameReduced DEF Scalars
<1>9. Same(s * k, t)
  <2>1. Same(k * s, t)
    BY <1>7, InverseCancels
  <2>2. k * s = s * k
    BY <1>3, <1>8
  <2> QED
    BY <2>1, <2>2
<1> HIDE DEF s, point
<1>10. s \in 1..(N - 1)
  <2>1. CASE IsHigh(s)
    BY <1>3, <1>8, <2>1, Sizes DEF IsHigh
  <2>2. CASE ~IsHigh(s)
    BY <1>2, <1>8, <2>2 DEF sig
  <2> QED
    BY <2>1, <2>2
<1>11. /\ sig = [r |-> sig.r, s |-> sig.s, recid |-> sig.recid]
       /\ sig.s \in 1..(N - 1) /\ ~IsHigh(sig.s)
  BY <1>1, <1>2, <1>10, HighIs
<1>12. sig.recid \in 0..3 /\ (sig.recid >= 2 <=> point[1] >= N)
         /\ sig.recid % 2 = (point[2] + high) % 2
  <2>1. PICK b \in {0, 1} : b = (point[2] + high) % 2
    BY <1>5
  <2>2. over = (IF point[1] >= N THEN 1 ELSE 0) /\ sig.recid = 2 * over + b
    BY <1>2, <2>1 DEF Overflows
  <2> QED
    BY <2>1, <2>2
<1>13. CASE ~IsHigh(s)
  <2>1. point[2] % 2 = sig.recid % 2 /\ sig.s = s
    BY <1>2, <1>5, <1>12, <1>13
  <2> QED
    BY <1>4, <1>6, <1>9, <1>11, <1>12, <2>1 DEF SignatureOf, point, t, sig
<1>14. CASE IsHigh(s)
  <2> DEFINE j == N - k
  <2>1. j \in 1..(N - 1) /\ Times(j, G) = Negated(point)
    BY <1>3, NegatedMultiple DEF point, Scalars
  <2>2. Negated(point) \in Points /\ Negated(point)[1] = point[1]
          /\ Negated(point)[2] % 2 = (point[2] + 1) % 2
    BY <1>4, NegatedPoint, OtherParity
  <2>3. Same((N - s) * (N - k), s * k)
    BY <1>3, <1>8, SameMirrored
  <2>4. sig.s = N - s /\ high = 1
    BY <1>2, <1>14
  <2>5. Same(sig.s * j, t)
    BY <1>9, <2>3, <2>4 DEF Same
  <2> HIDE DEF j
  <2> QED
    BY <1>6, <1>11, <1>12, <2>1, <2>2, <2>4, <2>5 DEF SignatureOf, t, sig
<1> QED
  BY <1>13, <1>14 DEF sig

LEMMA RecoveredIs ==
  ASSUME NEW secret \in 1..(N - 1), NEW message \in Scalars, NEW j \in 1..(N - 1), NEW sig,
         SignatureOf(sig, secret, message, j)
  PROVE  SigRecover(sig, message) = Times(secret, G)
<1> DEFINE point == Times(j, G)
           x == IF sig.recid >= 2 THEN sig.r + N ELSE sig.r
           i == ScalarInverse[sig.r]
           u == (i * sig.s) % N
           w == (N - ((i * message) % N)) % N
<1>1. N \in Nat \ {0} /\ secret \in Int /\ message \in Int /\ j \in Scalars /\ secret \in Scalars
  BY Sizes DEF Scalars
<1>2. /\ point \in Points /\ sig.r \in 1..(N - 1) /\ sig.s \in 1..(N - 1) /\ sig.recid \in 0..3
      /\ point[1] = x /\ point[2] % 2 = sig.recid % 2
      /\ Same(sig.s * j, sig.r * secret + message)
  BY DEF SignatureOf
<1>3. x < P /\ PointAt(x, sig.recid % 2) = point /\ point # Infinity
  <2>1. point[1] \in 0..(P - 1)
    BY <1>2, PointIs DEF Field
  <2> QED
    BY <1>2, <2>1, Sizes, PointAtIs, PointIs
<1>4. SigRecover(sig, message) = Plus(Times(u, point), Times(w, G))
  BY <1>2, <1>3 DEF SigRecover
<1>5. PICK r \in Int, s \in Int, n \in 1..(N - 1) : r = sig.r /\ s = sig.s /\ n = i
  BY <1>1, <1>2, InverseIs
<1>6. u \in Scalars /\ Same(u, n * s)
  BY <1>5, SameReduced
<1>7. w \in Scalars /\ Same(w, 0 - n * message)
  <2>1. PICK z \in Int : z = n * message
    BY <1>1, <1>5
  <2>2. w = (N - (z % N)) % N
    BY <1>5, <2>1
  <2>3. z % N \in Scalars
    BY SameReduced
  <2>4. N - (z % N) \in Int
    BY <1>1, <2>3 DEF Scalars
  <2>5. w \in Scalars
    BY <2>2, <2>4, SameReduced
  <2>6. Same(w, 0 - z)
    BY <2>2, SameNegative
  <2> QED
    BY <2>1, <2>5, <2>6
<1> HIDE DEF u, w, i
<1>8. Times(u, point) = Times((u * j) % N, G) /\ (u * j) % N \in Scalars
  <2>1. u * j \in Int
    BY <1>1, <1>6 DEF Scalars
  <2> QED
    BY <1>1, <1>6, <2>1, SameReduced, MultipleOfMultiple
<1>9. Plus(Times(u, point), Times(w, G)) = Times((((u * j) % N) + w) % N, G)
  BY <1>7, <1>8, SumOfMultiples
<1>10. Same(((u * j) % N) + w, secret)
  <2>1. PICK v \in Int, e \in Int : v = u * j /\ e = v % N /\ Same(e, v) /\ e \in Scalars
    <3>1. u * j \in Int
      BY <1>1, <1>6 DEF Scalars
    <3> QED
      BY <3>1, SameReduced DEF Scalars
  <2>2. PICK t \in Int : t = r * secret + message
    BY <1>1, <1>5
  <2>3. Same(v, n * (s * j))
    <3>1. Same(u * j, (n * s) * j)
      <4>1. u \in Int /\ n * s \in Int /\ j \in Int /\ Same(j, j)
        BY <1>1, <1>5, <1>6 DEF Scalars, Same
      <4> QED
        BY <1>6, <4>1, SameProduct
    <3>2. (n * s) * j = n * (s * j)
      BY <1>1, <1>5
    <3> QED
      BY <2>1, <3>1, <3>2
  <2>4. Same(n * (s * j), n * t)
    <3>1. s * j \in Int /\ n \in Int /\ Same(n, n) /\ Same(s * j, t)
      BY <1>2, <1>5, <2>2 DEF Same
    <3> QED
      BY <2>2, <3>1, SameProduct
  <2>5. n * t = (n * r) * secret + n * message
    BY <1>1, <1>5, <2>2
  <2>6. Same((n * r) * secret, secret)
    BY <1>1, <1>2, <1>5, InverseCancels DEF i
  <2>7. PICK a \in Int, b \in Int : a = (n * r) * secret /\ b = n * message /\ n * t = a + b
    BY <1>1, <1>5, <2>5
  <2>8. Same(e, a + b)
    BY <2>1, <2>3, <2>4, <2>7 DEF Same
  <2>9. Same(e + w, (a + b) + (0 - b))
    <3>1. w \in Int /\ 0 - b \in Int /\ Same(w, 0 - b) /\ a + b \in Int
      BY <1>7, <2>7 DEF Scalars
    <3> QED
      BY <2>1, <2>8, <3>1, SameSum
  <2>10. (a + b) + (0 - b) = a
    OBVIOUS
  <2> QED
    BY <2>1, <2>6, <2>7, <2>9, <2>10 DEF Same
<1>11. (((u * j) % N) + w) % N = secret
  <2>1. ((u * j) % N) + w \in Int
    BY <1>7, <1>8 DEF Scalars
  <2>2. (((u * j) % N) + w) % N \in Scalars /\ Same((((u * j) % N) + w) % N, ((u * j) % N) + w)
    BY <2>1, SameReduced
  <2> QED
    BY <1>1, <1>10, <2>2, SameScalar DEF Same
<1> QED
  BY <1>4, <1>9, <1>11

LEMMA VerifiedIs ==
  ASSUME NEW secret \in 1..(N - 1), NEW message \in Scalars, NEW j \in 1..(N - 1), NEW sig,
         SignatureOf(sig, secret, message, j)
  PROVE  SigVerify(sig, Times(secret, G), message)
<1> DEFINE point == Times(j, G)
           i == ScalarInverse[sig.s]
           u == (i * sig.r) % N
           w == (i * message) % N
<1>1. N \in Nat \ {0} /\ secret \in Int /\ message \in Int /\ j \in Scalars /\ secret \in Scalars
  BY Sizes DEF Scalars
<1>2. /\ point \in Points /\ sig.r \in 1..(N - 1) /\ sig.s \in 1..(N - 1)
      /\ point[1] = sig.r \/ point[1] = sig.r + N
      /\ Same(sig.s * j, sig.r * secret + message)
  BY DEF SignatureOf
<1>3. PICK r \in Int, s \in Int, n \in 1..(N - 1) : r = sig.r /\ s = sig.s /\ n = i
  <2>1. i \in 1..(N - 1) /\ sig.r \in Int /\ sig.s \in Int
    BY <1>2, InverseIs
  <2> QED
    BY <2>1
<1>4. u \in Scalars /\ Same(u, n * r) /\ w \in Scalars /\ Same(w, n * message)
  <2>1. n * r \in Int /\ n * message \in Int
    BY <1>1, <1>3
  <2> QED
    BY <1>3, <2>1, SameReduced
<1>5. SigVerify(sig, Times(secret, G), message)
        <=> LET q == Plus(Times(u, Times(secret, G)), Times(w, G))
            IN /\ sig.r # 0 /\ sig.s # 0
               /\ q # Infinity /\ (q[1] = sig.r \/ q[1] = sig.r + N)
  BY DEF SigVerify
<1> HIDE DEF u, w, i
<1>6. PICK v \in Int, e \in Scalars : v = u * secret /\ e = v % N /\ Same(e, v)
  <2>1. u * secret \in Int
    BY <1>1, <1>4 DEF Scalars
  <2> QED
    BY <2>1, SameReduced
<1>7. Plus(Times(u, Times(secret, G)), Times(w, G)) = Times((e + w) % N, G)
  BY <1>1, <1>4, <1>6, MultipleOfMultiple, SumOfMultiples
<1>8. Same(e + w, j)
  <2>1. Same(v, (n * r) * secret)
    <3>1. u \in Int /\ n * r \in Int /\ Same(secret, secret)
      BY <1>3, <1>4 DEF Scalars, Same
    <3> QED
      BY <1>1, <1>4, <1>6, <3>1, SameProduct
  <2>2. PICK a \in Int, b \in Int, t \in Int :
          a = (n * r) * secret /\ b = n * message /\ t = r * secret + message /\ n * t = a + b
    BY <1>1, <1>3
  <2>3. Same(e + w, a + b)
    <3>1. Same(e, a) /\ Same(w, b) /\ e \in Int /\ w \in Int
      BY <1>4, <1>6, <2>1, <2>2 DEF Same, Scalars
    <3> QED
      BY <2>2, <3>1, SameSum
  <2>4. Same(n * t, n * (s * j))
    <3>1. s * j \in Int /\ n \in Int /\ Same(n, n) /\ Same(t, s * j)
      BY <1>1, <1>2, <1>3, <2>2 DEF Same
    <3> QED
      BY <2>2, <3>1, SameProduct
  <2>5. n * (s * j) = (n * s) * j
    BY <1>3
  <2>6. Same((n * s) * j, j)
    BY <1>2, <1>3, InverseCancels DEF i
  <2> QED
    BY <2>2, <2>3, <2>4, <2>5, <2>6 DEF Same
<1>9. (e + w) % N = j
  <2>1. e + w \in Int
    BY <1>4, <1>6 DEF Scalars
  <2>2. (e + w) % N \in Scalars /\ Same((e + w) % N, e + w)
    BY <2>1, SameReduced
  <2> QED
    BY <1>1, <1>8, <2>2, SameScalar DEF Same
<1> QED
  BY <1>2, <1>5, <1>7, <1>9, PointIs

-----------------------------------------------------------------------------
(* The invariant of the wallet's keys.                                       *)

Keyed ==
  /\ seed \in Seeds /\ digest \in Words
  /\ account # NoAccount =>
       /\ account = Account(account.secret, account.index)
       /\ account.secret \in 1..(N - 1) /\ account.index \in Indices \cup {NoIndex}
  /\ Signed =>
       /\ account # NoAccount
       /\ \E sig \in ecdsa_sign_recoverable(digest, account.secret), j \in 1..(N - 1) :
            /\ SignatureOf(sig, account.secret, Reduced(digest), j)
            /\ signature = <<sig.r, sig.s, sig.recid + 27>>

LEMMA SecretIs ==
  ASSUME NEW secret
  PROVE  /\ secret \in 1..(N - 1) => ec_seckey_verify(secret)
         /\ secret \in Nat /\ ec_seckey_verify(secret) => secret \in 1..(N - 1)
  BY Sizes DEF ec_seckey_verify, Overflows

LEMMA KeyIs ==
  ASSUME NEW secret \in 1..(N - 1)
  PROVE  /\ ec_pubkey_create(secret) = Times(secret, G)
         /\ Times(secret, G) \in Points /\ Times(secret, G) # Infinity
         /\ Times(secret, G) # ZeroKey
<1>1. ec_pubkey_create(secret) = Times(secret, G)
  BY SecretIs DEF ec_pubkey_create
<1>2. secret \in Scalars /\ secret # 0
  BY Sizes DEF Scalars
<1>3. Times(secret, G) \in Points
  BY <1>2, Generated, ZeroMultiple DEF Group
<1>4. Times(secret, G) # ZeroKey
  BY <1>3, PointIs, CurveAssumption DEF ZeroKey
<1> QED
  BY <1>1, <1>3, <1>4, PointIs

LEMMA SameKeySameSecret ==
  ASSUME NEW a \in 1..(N - 1), NEW b \in 1..(N - 1), ec_pubkey_create(a) = ec_pubkey_create(b)
  PROVE  a = b
  BY KeyIs, Distinct, Sizes DEF Scalars

LEMMA ChildIs ==
  ASSUME seed \in Seeds, NEW i \in Indices
  PROVE  Child(i) # 0 => Child(i) \in 1..(N - 1)
<1>1. seed.parent \in Scalars \ {0} /\ seed.childHash[i] \in Words
  BY KeysAssumption DEF Indices
<1>2. seed.parent + seed.childHash[i] \in Int
  BY <1>1, CurveAssumption DEF Scalars, Words
<1>3. (seed.parent + seed.childHash[i]) % N \in Scalars
  BY <1>2, SameReduced
<1> QED
  BY <1>3, Sizes DEF Child, ec_seckey_tweak_add, Scalars

LEMMA DerivedIs ==
  ASSUME seed \in Seeds, NEW requested \in Indices, NEW i \in DerivationIndex(requested)
  PROVE  i \in Indices /\ Child(i) \in 1..(N - 1)
<1>1. i \in requested..LastIndex /\ Child(i) # 0 /\ LastIndex \in Nat /\ requested \in 0..LastIndex
  BY KeysAssumption DEF DerivationIndex, Indices
<1>2. i \in Indices
  BY <1>1 DEF Indices
<1> QED
  BY <1>1, <1>2, ChildIs

\* The key a signature is made with is the account's, derived again or not.
LEMMA SigningSecretIs ==
  ASSUME Keyed, account # NoAccount
  PROVE  SigningSecrets \subseteq {account.secret}
<1>1. account.secret \in 1..(N - 1) /\ account.key = ec_pubkey_create(account.secret)
  BY DEF Keyed, Account
<1>2. CASE account.index = NoIndex
  BY <1>2 DEF SigningSecrets
<1>3. CASE account.index # NoIndex
  <2>1. account.index \in Indices /\ seed \in Seeds
    BY <1>3 DEF Keyed
  <2>2. ASSUME NEW i \in DerivationIndex(account.index), ec_pubkey_create(Child(i)) = account.key
        PROVE  Child(i) = account.secret
    BY <1>1, <2>1, <2>2, DerivedIs, SameKeySameSecret
  <2> QED
    BY <1>3, <2>2 DEF SigningSecrets
<1> QED
  BY <1>2, <1>3

LEMMA SignatureMade ==
  ASSUME NEW secret \in 1..(N - 1), NEW hash \in Words,
         NEW sig \in ecdsa_sign_recoverable(hash, secret)
  PROVE  \E j \in 1..(N - 1) : SignatureOf(sig, secret, Reduced(hash), j)
<1>1. hash \in Int
  BY CurveAssumption DEF Words
<1>2. Reduced(hash) \in Scalars
  BY <1>1, SameReduced DEF Reduced
<1>3. PICK nonce \in nonce_function : sig = SigSign(secret, Reduced(hash), nonce) /\ sig.r # 0 /\ sig.s # 0
  BY SecretIs DEF ecdsa_sign_recoverable
<1>4. nonce \in 1..(N - 1)
  BY Sizes DEF nonce_function, Scalars
<1> QED
  BY <1>2, <1>3, <1>4, SignedIs

LEMMA KeyedHolds == Spec => []Keyed
<1>1. Init => Keyed
  <2> SUFFICES ASSUME Init PROVE Keyed
    OBVIOUS
  <2>1. 0 \in Words
    BY CurveAssumption DEF Words
  <2> QED
    BY <2>1 DEF Init, Keyed, Signed
<1>2. Keyed /\ [Next]_vars => Keyed'
  <2> SUFFICES ASSUME Keyed, [Next]_vars PROVE Keyed'
    OBVIOUS
  <2>1. ASSUME NEW secret \in Words, Import(secret) PROVE Keyed'
    <3>1. secret \in 1..(N - 1)
      <4>1. secret \in Nat
        BY CurveAssumption DEF Words
      <4> QED
        BY <2>1, <4>1, SecretIs DEF Import
    <3>2. account' = Account(secret, NoIndex) /\ ~Signed
      BY <2>1 DEF Import, Keyed
    <3> QED
      BY <2>1, <3>1, <3>2 DEF Import, Keyed, Account, Signed
  <2>2. ASSUME NEW requested \in Indices, Derive(requested) PROVE Keyed'
    <3>1. PICK i \in DerivationIndex(requested) : account' = Account(Child(i), i)
      BY <2>2 DEF Derive
    <3>2. i \in Indices /\ Child(i) \in 1..(N - 1) /\ ~Signed
      BY <2>2, <3>1, DerivedIs DEF Derive, Keyed
    <3> QED
      BY <2>2, <3>1, <3>2 DEF Derive, Keyed, Account, Signed
  <2>3. ASSUME NEW messageHash \in Digests, SignDigest(messageHash) PROVE Keyed'
    <3>1. messageHash \in Words
      BY KeysAssumption
    <3>2. account # NoAccount /\ account' = account /\ seed' = seed /\ digest' = messageHash
      BY <2>3 DEF SignDigest
    <3>3. account.secret \in 1..(N - 1)
      BY <3>2 DEF Keyed
    <3>4. PICK secret \in SigningSecrets : signature' \in signRecoverable(messageHash, secret)
      BY <2>3 DEF SignDigest
    <3>5. secret = account.secret
      BY <3>2, <3>4, SigningSecretIs
    <3>6. PICK sig \in ecdsa_sign_recoverable(messageHash, account.secret) :
            signature' = <<sig.r, sig.s, sig.recid + 27>>
      BY <3>4, <3>5 DEF signRecoverable, ecdsa_recoverable_signature_serialize_compact
    <3>7. PICK j \in 1..(N - 1) : SignatureOf(sig, account.secret, Reduced(messageHash), j)
      BY <3>1, <3>3, <3>6, SignatureMade
    <3> QED
      BY <3>1, <3>2, <3>3, <3>6, <3>7 DEF Keyed, Signed
  <2>4. CASE UNCHANGED vars
    BY <2>4 DEF vars, Keyed, Signed
  <2> QED
    BY <2>1, <2>2, <2>3, <2>4 DEF Next
<1> QED
  BY <1>1, <1>2, PTL DEF Spec

\* Whoever reads a signature recovers the account that made it, from r, s and v or from what a
\* transaction carries (Secp256k1.swift, EthereumKeys.swift, Transaction.swift).
THEOREM SignerIsFound == Spec => []SignaturesNameTheirAccount
<1>1. Keyed => SignaturesNameTheirAccount
  <2> SUFFICES ASSUME Keyed, Signed
               PROVE  /\ recoverAddress(digest, signature) = account.key
                      /\ LET parts == SignatureParts(signature)
                         IN parts # NoSignature =>
                              /\ parts[3] \in {0, 1}
                              /\ ecdsa_recover([r |-> parts[1], s |-> parts[2], recid |-> parts[3]], digest)
                                   = account.key
    BY DEF SignaturesNameTheirAccount
  <2>1. PICK sig \in ecdsa_sign_recoverable(digest, account.secret), j \in 1..(N - 1) :
          /\ SignatureOf(sig, account.secret, Reduced(digest), j)
          /\ signature = <<sig.r, sig.s, sig.recid + 27>>
    BY DEF Keyed
  <2>2. account.secret \in 1..(N - 1) /\ account.key = Times(account.secret, G)
    BY KeyIs DEF Keyed, Account
  <2>3. digest \in Int
    BY CurveAssumption DEF Keyed, Words
  <2>4. Reduced(digest) \in Scalars
    BY <2>3, SameReduced DEF Reduced
  <2>5. ecdsa_recover(sig, digest) = account.key
    BY <2>1, <2>2, <2>4, RecoveredIs, KeyIs DEF ecdsa_recover
  <2>6. /\ sig = [r |-> sig.r, s |-> sig.s, recid |-> sig.recid]
        /\ sig.r \in 1..(N - 1) /\ sig.s \in 1..(N - 1) /\ sig.recid \in 0..3
    BY <2>1 DEF SignatureOf
  <2>7. signature[1] = sig.r /\ signature[2] = sig.s /\ signature[3] = sig.recid + 27
          /\ (sig.recid + 27) - 27 = sig.recid
    BY <2>1, <2>6
  <2>8. ~Overflows(sig.r) /\ ~Overflows(sig.s)
    BY <2>6, Sizes DEF Overflows
  <2>9. recoverAddress(digest, signature) = account.key
    BY <2>5, <2>6, <2>7, <2>8 DEF recoverAddress, ecdsa_recoverable_signature_parse_compact
  <2>10. ASSUME SignatureParts(signature) # NoSignature
         PROVE  SignatureParts(signature) = <<sig.r, sig.s, sig.recid>> /\ sig.recid \in {0, 1}
    BY <2>6, <2>7, <2>10 DEF SignatureParts
  <2> QED
    BY <2>5, <2>6, <2>9, <2>10
<1> QED
  BY <1>1, KeyedHolds, PTL

\* A signature verifies under its account's key, and only in the form with the low s
\* (secp256k1.h:567-644).
THEOREM OneFormVerifies == Spec => []OneFormOfSignature
<1>1. Keyed => OneFormOfSignature
  <2> DEFINE sig == ecdsa_signature_parse_compact(signature[1], signature[2])
             other == [sig EXCEPT !.s = N - @]
  <2> SUFFICES ASSUME Keyed, Signed
               PROVE  /\ ecdsa_verify(sig, digest, account.key)
                      /\ ~ecdsa_verify(other, digest, account.key)
                      /\ ecdsa_signature_normalize(other) = sig
                      /\ ecdsa_signature_serialize_compact(sig) = <<signature[1], signature[2]>>
                      /\ sig \in ecdsa_sign(digest, account.secret)
    BY DEF OneFormOfSignature
  <2>1. PICK made \in ecdsa_sign_recoverable(digest, account.secret), j \in 1..(N - 1) :
          /\ SignatureOf(made, account.secret, Reduced(digest), j)
          /\ signature = <<made.r, made.s, made.recid + 27>>
    BY DEF Keyed
  <2>2. account.secret \in 1..(N - 1) /\ account.key = Times(account.secret, G)
    BY KeyIs DEF Keyed, Account
  <2>3. digest \in Int
    BY CurveAssumption DEF Keyed, Words
  <2>4. Reduced(digest) \in Scalars
    BY <2>3, SameReduced DEF Reduced
  <2>5. made.r \in 1..(N - 1) /\ made.s \in 1..(N - 1) /\ ~IsHigh(made.s)
    BY <2>1 DEF SignatureOf
  <2>6. sig = [r |-> made.r, s |-> made.s]
    <3>1. ~Overflows(made.r) /\ ~Overflows(made.s)
      BY <2>5, Sizes DEF Overflows
    <3> QED
      BY <2>1, <3>1 DEF ecdsa_signature_parse_compact
  <2>7. other = [r |-> made.r, s |-> N - made.s]
    BY <2>6
  <2>8. ecdsa_verify(sig, digest, account.key)
    <3>1. SigVerify(made, account.key, Reduced(digest))
      BY <2>1, <2>2, <2>4, VerifiedIs
    <3>2. SigVerify(sig, account.key, Reduced(digest))
      BY <2>6, <3>1 DEF SigVerify
    <3> QED
      BY <2>2, <2>5, <2>6, <3>2, KeyIs DEF ecdsa_verify, PublicKeys
  <2>9. IsHigh(other.s)
    BY <2>5, <2>7, HighIs
  <2>10. ecdsa_signature_normalize(other) = sig
    <3>1. N - (N - made.s) = made.s
      BY <2>5, Sizes
    <3> HIDE DEF other, sig
    <3>2. IsHigh(N - made.s) /\ other.s = N - made.s
      BY <2>7, <2>9
    <3>3. ecdsa_signature_normalize(other) = [r |-> made.r, s |-> N - (N - made.s)]
      BY <2>7, <3>2 DEF ecdsa_signature_normalize
    <3> QED
      BY <2>6, <3>1, <3>3
  <2>11. sig \in ecdsa_sign(digest, account.secret)
    BY <2>1, <2>6 DEF ecdsa_sign, ecdsa_recoverable_signature_convert
  <2>12. ecdsa_signature_serialize_compact(sig) = <<signature[1], signature[2]>>
    BY <2>1, <2>6 DEF ecdsa_signature_serialize_compact
  <2>13. ~ecdsa_verify(other, digest, account.key)
    BY <2>9 DEF ecdsa_verify
  <2> QED
    BY <2>8, <2>10, <2>11, <2>12, <2>13
<1> QED
  BY <1>1, KeyedHolds, PTL

-----------------------------------------------------------------------------
(* Public keys follow their secrets.                                         *)

LEMMA NegateFollows ==
  ASSUME NEW d \in 1..(N - 1)
  PROVE  ec_pubkey_negate(Times(d, G)) = ec_pubkey_create(ec_seckey_negate(d))
<1>1. d \in Scalars /\ d # 0 /\ N - d \in 1..(N - 1)
  BY Sizes DEF Scalars
<1>2. ec_pubkey_create(N - d) = Times(N - d, G)
  BY <1>1, KeyIs
<1> QED
  BY <1>1, <1>2, SecretIs, KeyIs, NegatedMultiple DEF ec_pubkey_negate, ec_seckey_negate, PublicKeys

\* The sum of two keys, or nothing.
KeyOf(c) == IF c = 0 THEN ZeroKey ELSE Times(c, G)

LEMMA CreateIs ==
  ASSUME NEW c \in Scalars
  PROVE  ec_pubkey_create(c) = KeyOf(c)
<1>1. CASE c = 0
  BY <1>1 DEF ec_pubkey_create, ec_seckey_verify, KeyOf
<1>2. CASE c # 0
  BY <1>2, KeyIs, Sizes DEF KeyOf, Scalars
<1> QED
  BY <1>1, <1>2

LEMMA InfinityIsZero ==
  ASSUME NEW c \in Scalars
  PROVE  Times(c, G) = Infinity <=> c = 0
  BY ZeroMultiple, TimesCounts

LEMMA SumFollows ==
  ASSUME NEW d \in 1..(N - 1), NEW t \in Scalars
  PROVE  /\ (d + t) % N \in Scalars
         /\ Plus(Times(d, G), Times(t, G)) = Times((d + t) % N, G)
<1>1. d \in Scalars /\ d + t \in Int
  BY Sizes DEF Scalars
<1> QED
  BY <1>1, SameReduced, SumOfMultiples

LEMMA TweakAddFollows ==
  ASSUME NEW d \in 1..(N - 1), NEW t \in Words
  PROVE  ec_pubkey_tweak_add(Times(d, G), t) = ec_pubkey_create(ec_seckey_tweak_add(d, t))
<1>1. Times(d, G) \in PublicKeys /\ ec_seckey_verify(d) /\ t \in Nat
  BY KeyIs, SecretIs, CurveAssumption DEF PublicKeys, Words
<1>2. CASE Overflows(t)
  BY <1>1, <1>2 DEF ec_pubkey_tweak_add, ec_seckey_tweak_add, ec_pubkey_create, ec_seckey_verify
<1>3. CASE ~Overflows(t)
  <2>1. t \in Scalars
    BY <1>1, <1>3, Sizes DEF Overflows, Scalars
  <2>2. PICK c \in Scalars : c = (d + t) % N /\ Plus(Times(d, G), Times(t, G)) = Times(c, G)
    BY <2>1, SumFollows
  <2>3. ec_seckey_tweak_add(d, t) = c
    BY <1>1, <1>3, <2>2 DEF ec_seckey_tweak_add
  <2>4. ec_pubkey_tweak_add(Times(d, G), t) = KeyOf(c)
    BY <1>1, <1>3, <2>2, InfinityIsZero DEF ec_pubkey_tweak_add, KeyOf
  <2> QED
    BY <2>3, <2>4, CreateIs
<1> QED
  BY <1>2, <1>3

LEMMA ProductFollows ==
  ASSUME NEW d \in 1..(N - 1), NEW t \in 1..(N - 1)
  PROVE  /\ (d * t) % N \in 1..(N - 1)
         /\ Times(t, Times(d, G)) = Times((d * t) % N, G)
         /\ Times(d, Times(t, G)) = Times((d * t) % N, G)
<1>1. d \in Scalars /\ t \in Scalars /\ d * t \in Int /\ t * d = d * t
  BY Sizes DEF Scalars
<1>2. (d * t) % N # 0
  BY NoZeroDivisors
<1>3. (d * t) % N \in Scalars
  BY <1>1, SameReduced
<1>4. (d * t) % N \in 1..(N - 1)
  BY <1>2, <1>3, Sizes DEF Scalars
<1> QED
  BY <1>1, <1>4, MultipleOfMultiple

LEMMA TweakMulFollows ==
  ASSUME NEW d \in 1..(N - 1), NEW t \in Words
  PROVE  ec_pubkey_tweak_mul(Times(d, G), t) = ec_pubkey_create(ec_seckey_tweak_mul(d, t))
<1>1. Times(d, G) \in PublicKeys /\ ec_seckey_verify(d) /\ t \in Nat
  BY KeyIs, SecretIs, CurveAssumption DEF PublicKeys, Words
<1>2. ec_pubkey_create(0) = ZeroKey
  BY DEF ec_pubkey_create, ec_seckey_verify
<1>3. CASE Overflows(t)
  BY <1>1, <1>2, <1>3 DEF ec_pubkey_tweak_mul, ec_seckey_tweak_mul, ec_seckey_verify
<1>4. CASE t = 0
  <2>1. (d * t) % N = 0
    <3>1. d * t = 0 /\ N \in Nat \ {0} /\ 0 \in 0..(N - 1)
      BY <1>4, Sizes
    <3> QED
      BY <3>1, ModSmall
  <2>2. ec_seckey_tweak_mul(d, t) = 0
    BY <2>1 DEF ec_seckey_tweak_mul
  <2>3. ec_pubkey_tweak_mul(Times(d, G), t) = ZeroKey
    BY <1>4 DEF ec_pubkey_tweak_mul, ec_seckey_verify
  <2> QED
    BY <1>2, <2>2, <2>3
<1>5. CASE t # 0 /\ ~Overflows(t)
  <2>1. t \in 1..(N - 1) /\ ec_seckey_verify(t)
    BY <1>1, <1>5, SecretIs DEF ec_seckey_verify
  <2>2. ec_seckey_tweak_mul(d, t) = (d * t) % N
    BY <1>1, <1>5 DEF ec_seckey_tweak_mul
  <2>3. ec_pubkey_tweak_mul(Times(d, G), t) = Times((d * t) % N, G)
    BY <1>1, <2>1, ProductFollows DEF ec_pubkey_tweak_mul
  <2> QED
    BY <2>1, <2>2, <2>3, ProductFollows, KeyIs
<1> QED
  BY <1>3, <1>4, <1>5

LEMMA CombineFollows ==
  ASSUME NEW d \in 1..(N - 1), NEW t \in 1..(N - 1)
  PROVE  ec_pubkey_combine(<<Times(d, G), Times(t, G)>>) = ec_pubkey_tweak_add(Times(d, G), t)
<1> DEFINE a == Times(d, G)
           b == Times(t, G)
           keys == <<a, b>>
           f == [i \in 0..2 |-> IF i = 0 THEN Infinity ELSE IF i = 1 THEN a ELSE Plus(a, b)]
<1>1. f = [i \in 0..Len(keys) |-> IF i = 0 THEN Infinity ELSE Plus(f[i - 1], keys[i])]
  <2>1. Plus(Infinity, a) = a
    BY DEF Plus
  <2> HIDE DEF a, b
  <2> QED
    BY <2>1
<1>2. ec_pubkey_combine(keys) = IF Plus(a, b) = Infinity THEN ZeroKey ELSE Plus(a, b)
  <2>1. Plus(Infinity, a) = a
    BY DEF Plus
  <2> HIDE DEF f, a, b
  <2> QED
    BY <1>1, <2>1 DEF ec_pubkey_combine
<1>3. a \in PublicKeys /\ ~Overflows(t)
  BY KeyIs, Sizes DEF PublicKeys, Overflows
<1> QED
  BY <1>2, <1>3 DEF ec_pubkey_tweak_add

LEMMA SharedFollows ==
  ASSUME NEW d \in 1..(N - 1), NEW t \in 1..(N - 1)
  PROVE  ecdh(Times(d, G), t) = ecdh(Times(t, G), d)
  BY ProductFollows, SecretIs DEF ecdh

\* What is read back from each serialization of a key.
LEMMA ParsedIs ==
  ASSUME NEW key \in Points
  PROVE  /\ \A compressed \in BOOLEAN : ec_pubkey_parse(ec_pubkey_serialize(key, compressed)) = key
         /\ ec_pubkey_parse(<<6 + (key[2] % 2), key[1], key[2]>>) = key
         /\ ec_pubkey_parse(<<7 - (key[2] % 2), key[1], key[2]>>) = ZeroKey
<1>1. /\ key = <<key[1], key[2]>> /\ OnCurve(key[1], key[2]) /\ key # Infinity
      /\ key[1] \in 0..(P - 1) /\ key[2] \in 0..(P - 1) /\ P \in Nat \ {0}
  BY PointIs, Sizes DEF Field
<1>2. PICK x \in 0..(P - 1), y \in 0..(P - 1), o \in {0, 1} :
        x = key[1] /\ y = key[2] /\ o = y % 2
  BY <1>1
<1>3. PointAt(x, o) = key
  BY <1>2, PointAtIs
<1>4. ec_pubkey_parse(<<2 + o, x>>) = key
  <2> DEFINE bytes == <<2 + o, x>>
  <2>1. Len(bytes) = 2 /\ bytes[1] = 2 + o /\ bytes[2] = x /\ bytes[1] \in {2, 3} /\ bytes[1] % 2 = o
    BY <1>2
  <2> HIDE DEF bytes
  <2>2. ASSUME NEW i \in 2..Len(bytes) PROVE ~(bytes[i] >= P)
    <3>1. i = 2
      BY <2>1
    <3> QED
      BY <1>1, <1>2, <2>1, <3>1
  <2>3. ec_pubkey_parse(bytes) = key
    BY <1>1, <1>3, <2>1, <2>2 DEF ec_pubkey_parse
  <2> QED
    BY <2>3 DEF bytes
<1>5. ASSUME NEW h \in {4, 6, 7}
      PROVE  ec_pubkey_parse(<<h, x, y>>) = IF h = 4 \/ h % 2 = o THEN key ELSE ZeroKey
  <2> DEFINE bytes == <<h, x, y>>
  <2>1. Len(bytes) = 3 /\ bytes[1] = h /\ bytes[2] = x /\ bytes[3] = y
    OBVIOUS
  <2>2. ~(\E i \in 2..Len(bytes) : bytes[i] >= P)
    BY <1>1, <1>2, <2>1
  <2> HIDE DEF bytes
  <2>3. ec_pubkey_parse(bytes) =
          IF OnCurve(x, y) /\ (h = 4 \/ h % 2 = y % 2) THEN <<x, y>> ELSE ZeroKey
    BY <2>1, <2>2 DEF ec_pubkey_parse
  <2> QED
    BY <1>1, <1>2, <2>3 DEF bytes
<1>6. ec_pubkey_parse(<<4, x, y>>) = key
  BY <1>5
<1>7. ec_pubkey_parse(<<6 + o, x, y>>) = key
  <2>1. 6 + o \in {4, 6, 7} /\ (6 + o) % 2 = o
    BY <1>2
  <2> QED
    BY <1>5, <2>1
<1>8. ec_pubkey_parse(<<7 - o, x, y>>) = ZeroKey
  <2>1. 7 - o \in {4, 6, 7} /\ (7 - o) % 2 # o /\ 7 - o # 4
    BY <1>2
  <2> QED
    BY <1>5, <2>1
<1>9. ASSUME NEW compressed \in BOOLEAN
      PROVE  ec_pubkey_parse(ec_pubkey_serialize(key, compressed)) = key
  BY <1>2, <1>4, <1>6 DEF ec_pubkey_serialize, Header
<1> QED
  BY <1>2, <1>7, <1>8, <1>9

LEMMA ComparedIs ==
  ASSUME NEW a \in Points, NEW b \in Points
  PROVE  /\ ec_pubkey_cmp(a, b) \in Int /\ ec_pubkey_cmp(b, a) = 0 - ec_pubkey_cmp(a, b)
         /\ ec_pubkey_cmp(a, b) = 0 <=> a = b
<1>1. /\ a[1] \in Int /\ b[1] \in Int
      /\ PointAt(a[1], a[2] % 2) = a /\ PointAt(b[1], b[2] % 2) = b
  BY PointIs, PointAtIs, Sizes DEF Field
<1>2. PICK o \in Int, u \in Int : o = a[2] % 2 /\ u = b[2] % 2
  BY PointIs, Sizes DEF Field
<1>3. ASSUME NEW p \in Points, NEW q \in Points
      PROVE  ec_pubkey_cmp(p, q) =
               IF 2 + (p[2] % 2) # 2 + (q[2] % 2) THEN (2 + (p[2] % 2)) - (2 + (q[2] % 2))
               ELSE p[1] - q[1]
  BY DEF ec_pubkey_cmp, ec_pubkey_serialize, Header, PublicKeys
<1>4. /\ ec_pubkey_cmp(a, b) = IF o # u THEN o - u ELSE a[1] - b[1]
      /\ ec_pubkey_cmp(b, a) = IF o # u THEN u - o ELSE b[1] - a[1]
  BY <1>2, <1>3
<1>5. a = b <=> o = u /\ a[1] = b[1]
  BY <1>1, <1>2
<1> QED
  BY <1>1, <1>4, <1>5

LEMMA SortedIs ==
  ASSUME NEW a \in Points, NEW b \in Points
  PROVE  LET sorted == ec_pubkey_sort(<<a, b>>)
         IN /\ ec_pubkey_cmp(sorted[1], sorted[2]) <= 0
            /\ {sorted[1], sorted[2]} = {a, b}
<1> DEFINE keys == <<a, b>>
           InOrder(p) == \A i, j \in DOMAIN keys : i < j => ec_pubkey_cmp(keys[p[i]], keys[p[j]]) <= 0
           order == CHOOSE p \in Orders(DOMAIN keys) : InOrder(p)
           sorted == [i \in DOMAIN keys |-> keys[order[i]]]
<1>1. DOMAIN keys = {1, 2} /\ keys[1] = a /\ keys[2] = b
  OBVIOUS
<1>2. \E p \in Orders(DOMAIN keys) : InOrder(p)
  <2>1. CASE ec_pubkey_cmp(a, b) <= 0
    <3> DEFINE p == [i \in {1, 2} |-> i]
    <3>1. p \in Orders(DOMAIN keys)
      BY <1>1 DEF Orders
    <3>2. InOrder(p)
      BY <1>1, <2>1
    <3> QED
      BY <3>1, <3>2
  <2>2. CASE ~(ec_pubkey_cmp(a, b) <= 0)
    <3> DEFINE p == [i \in {1, 2} |-> 3 - i]
    <3>1. p \in [{1, 2} -> {1, 2}] /\ p[1] = 2 /\ p[2] = 1
      OBVIOUS
    <3>2. p \in Orders(DOMAIN keys)
      BY <1>1, <3>1 DEF Orders
    <3>3. ec_pubkey_cmp(b, a) <= 0
      BY <2>2, ComparedIs
    <3>4. InOrder(p)
      BY <1>1, <3>1, <3>3
    <3> QED
      BY <3>2, <3>4
  <2> QED
    BY <2>1, <2>2
<1>3. order \in Orders({1, 2}) /\ InOrder(order)
  <2> HIDE DEF InOrder
  <2> QED
    BY <1>1, <1>2
<1> HIDE DEF order
<1>4. order \in [{1, 2} -> {1, 2}] /\ {order[1], order[2]} = {1, 2}
  BY <1>3 DEF Orders
<1>5. sorted[1] = keys[order[1]] /\ sorted[2] = keys[order[2]]
  BY <1>1
<1>6. ec_pubkey_cmp(sorted[1], sorted[2]) <= 0
  BY <1>1, <1>3, <1>5
<1>7. {sorted[1], sorted[2]} = {a, b}
  BY <1>1, <1>4, <1>5
<1>8. ec_pubkey_sort(keys) = sorted
  BY DEF ec_pubkey_sort, order
<1> QED
  BY <1>6, <1>7, <1>8

\* What is done to a secret can be done to its public key, and fails for both together
\* (secp256k1.h:418-892, secp256k1_ecdh.h:36-57).
THEOREM PublicKeysFollow == Spec => []PublicFollowsSecret
<1>1. Keyed => PublicFollowsSecret
  <2> DEFINE d == account.secret
             key == account.key
  <2> SUFFICES ASSUME Keyed, account # NoAccount
               PROVE
    /\ ec_pubkey_negate(key) = ec_pubkey_create(ec_seckey_negate(d))
    /\ \A compressed \in BOOLEAN : ec_pubkey_parse(ec_pubkey_serialize(key, compressed)) = key
    /\ ec_pubkey_parse(<<6 + (key[2] % 2), key[1], key[2]>>) = key
    /\ ec_pubkey_parse(<<7 - (key[2] % 2), key[1], key[2]>>) = ZeroKey
    /\ \A t \in Words :
         /\ ec_pubkey_tweak_add(key, t) = ec_pubkey_create(ec_seckey_tweak_add(d, t))
         /\ ec_pubkey_tweak_mul(key, t) = ec_pubkey_create(ec_seckey_tweak_mul(d, t))
         /\ ec_seckey_verify(t) =>
              LET other == ec_pubkey_create(t) IN
              /\ ec_pubkey_combine(<<key, other>>) = ec_pubkey_tweak_add(key, t)
              /\ ecdh(key, t) = ecdh(other, d)
              /\ LET sorted == ec_pubkey_sort(<<key, other>>)
                 IN /\ ec_pubkey_cmp(sorted[1], sorted[2]) <= 0
                    /\ {sorted[1], sorted[2]} = {key, other}
              /\ (ec_pubkey_cmp(key, other) = 0) <=> (key = other)
    BY DEF PublicFollowsSecret
  <2>1. d \in 1..(N - 1) /\ key = Times(d, G) /\ key \in Points
    BY KeyIs DEF Keyed, Account
  <2> HIDE DEF d, key
  <2>2. ec_pubkey_negate(key) = ec_pubkey_create(ec_seckey_negate(d))
    BY <2>1, NegateFollows
  <2>3. /\ \A compressed \in BOOLEAN : ec_pubkey_parse(ec_pubkey_serialize(key, compressed)) = key
        /\ ec_pubkey_parse(<<6 + (key[2] % 2), key[1], key[2]>>) = key
        /\ ec_pubkey_parse(<<7 - (key[2] % 2), key[1], key[2]>>) = ZeroKey
    BY <2>1, ParsedIs
  <2>4. ASSUME NEW t \in Words
        PROVE  /\ ec_pubkey_tweak_add(key, t) = ec_pubkey_create(ec_seckey_tweak_add(d, t))
               /\ ec_pubkey_tweak_mul(key, t) = ec_pubkey_create(ec_seckey_tweak_mul(d, t))
    BY <2>1, TweakAddFollows, TweakMulFollows
  <2>5. ASSUME NEW t \in Words, ec_seckey_verify(t), NEW other, other = ec_pubkey_create(t)
        PROVE  /\ ec_pubkey_combine(<<key, other>>) = ec_pubkey_tweak_add(key, t)
               /\ ecdh(key, t) = ecdh(other, d)
               /\ LET sorted == ec_pubkey_sort(<<key, other>>)
                  IN /\ ec_pubkey_cmp(sorted[1], sorted[2]) <= 0
                     /\ {sorted[1], sorted[2]} = {key, other}
               /\ (ec_pubkey_cmp(key, other) = 0) <=> (key = other)
    <3>1. t \in Nat
      BY CurveAssumption DEF Words
    <3>2. t \in 1..(N - 1)
      BY <2>5, <3>1, SecretIs
    <3>3. other = Times(t, G) /\ other \in Points
      BY <2>5, <3>2, KeyIs
    <3>4. ec_pubkey_combine(<<key, other>>) = ec_pubkey_tweak_add(key, t)
      BY <2>1, <3>2, <3>3, CombineFollows
    <3>5. ecdh(key, t) = ecdh(other, d)
      BY <2>1, <3>2, <3>3, SharedFollows
    <3> QED
      BY <2>1, <3>3, <3>4, <3>5, SortedIs, ComparedIs
  <2> QED
    BY <2>2, <2>3, <2>4, <2>5
<1> QED
  BY <1>1, KeyedHolds, PTL
=============================================================================
