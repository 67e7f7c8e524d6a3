---------------------------- MODULE NumberLemmas ----------------------------
(***************************************************************************)
(* Facts about numbers that the provers do not find alone: induction, in   *)
(* the form of a least counterexample; quotients and remainders; sums; and *)
(* what the carries, the rows of a product and the limbs of a number stand *)
(* for, in any radix and modulo any number.                                *)
(***************************************************************************)
EXTENDS Integers, WellFoundedInduction, TLAPS

-----------------------------------------------------------------------------
(* Induction over the members of a set of numbers, which unlike a predicate can be
   given to a lemma by its name. *)

NatLess == OpToRel(<, Nat)

(* A set of numbers that is not empty has a least member. *)
LEMMA LeastMember ==
  ASSUME NEW T, T \subseteq Nat, T # {}
  PROVE  \E x \in T : \A y \in T : ~(y < x)
<1>1. IsWellFoundedOn(NatLess, Nat)
  BY NatLessThanWellFounded, Zenon DEF NatLess
<1>2. PICK x \in T : \A y \in T : ~(<<y, x>> \in NatLess)
  BY <1>1, WFMin, Zenon
<1>3. \A y \in T : <<y, x>> \in NatLess <=> y < x
  BY DEF NatLess, OpToRel
<1> QED
  BY <1>2, <1>3, Zenon

(* What holds of 0, and of n + 1 if it holds of n, holds up to any bound. *)
LEMMA UpTo ==
  ASSUME NEW n \in Nat, NEW S, 0 \in S,
         \A k \in 0 .. n - 1 : k \in S => k + 1 \in S
  PROVE  \A k \in 0 .. n : k \in S
<1> DEFINE T == {k \in 0 .. n : k \notin S}
<1> SUFFICES ASSUME T # {} PROVE FALSE
  OBVIOUS
<1>1. T \subseteq Nat
  OBVIOUS
<1>2. PICK x \in T : \A y \in T : ~(y < x)
  BY <1>1, LeastMember, Zenon
<1>3. x # 0 /\ x \in 1 .. n
  OBVIOUS
<1>4. x - 1 \in S
  BY <1>2, <1>3
<1> QED
  BY <1>3, <1>4

(* A loop: the values of a variable that starts as x and that step i makes
   F[<<i, v>>] of v, as long as these stay in a set. *)
Loops(g, n, D, x, F) ==
    /\ g \in [0 .. n -> D]
    /\ g[0] = x
    /\ \A i \in 1 .. n : g[i] = F[<<i, g[i - 1]>>]

LEMMA LoopExists ==
  ASSUME NEW n \in Nat, NEW D, NEW x \in D, NEW F,
         \A i \in 1 .. n, v \in D : F[<<i, v>>] \in D
  PROVE  \E g : Loops(g, n, D, x, F)
<1> DEFINE Done == {k \in 0 .. n : \E g : Loops(g, k, D, x, F)}
<1>1. 0 \in Done
  <2> DEFINE g == [i \in 0 .. 0 |-> x]
  <2>1. Loops(g, 0, D, x, F)
    BY DEF Loops
  <2> QED
    BY <2>1
<1>2. \A k \in 0 .. n - 1 : k \in Done => k + 1 \in Done
  <2> SUFFICES ASSUME NEW k \in 0 .. n - 1, k \in Done PROVE k + 1 \in Done
    BY Zenon
  <2>1. PICK g : Loops(g, k, D, x, F)
    OBVIOUS
  <2> DEFINE last == F[<<k + 1, g[k]>>]
             h == [i \in 0 .. k + 1 |-> IF i <= k THEN g[i] ELSE last]
  <2>2. g[k] \in D /\ k + 1 \in 1 .. n
    BY <2>1 DEF Loops
  <2>3. last \in D
    BY <2>2
  <2> HIDE DEF last
  <2>4. h \in [0 .. k + 1 -> D] /\ h[0] = x
    BY <2>1, <2>3 DEF Loops
  <2>5. ASSUME NEW i \in 1 .. k PROVE h[i] = F[<<i, h[i - 1]>>]
    <3>1. h[i] = g[i] /\ h[i - 1] = g[i - 1]
      OBVIOUS
    <3> QED
      BY <2>1, <3>1, Zenon DEF Loops
  <2>6. h[k + 1] = last /\ h[k] = g[k] /\ (k + 1) - 1 = k
    OBVIOUS
  <2>7. h[k + 1] = F[<<k + 1, h[(k + 1) - 1]>>]
    BY <2>6, Zenon DEF last
  <2>8. \A i \in 1 .. k + 1 : i \in 1 .. k \/ i = k + 1
    OBVIOUS
  <2> HIDE DEF h
  <2>9. \A i \in 1 .. k + 1 : h[i] = F[<<i, h[i - 1]>>]
    BY <2>5, <2>7, <2>8, Zenon
  <2>10. Loops(h, k + 1, D, x, F)
    BY <2>4, <2>9, Zenon DEF Loops
  <2> QED
    BY <2>2, <2>10
<1> HIDE DEF Done
<1>3. \A k \in 0 .. n : k \in Done
  BY <1>1, <1>2, UpTo, Zenon
<1> QED
  BY <1>3 DEF Done

(* A number multiplied by another again and again, by a recursive function. *)
Geometric(m, first, base) ==
    LET g[j \in 0 .. m] == IF j = 0 THEN first ELSE base * g[j - 1]
    IN  g

LEMMA GeometricIs ==
  ASSUME NEW m \in Nat, NEW first \in Nat \ {0}, NEW base \in Nat \ {0}
  PROVE  /\ Geometric(m, first, base)[0] = first
         /\ \A j \in 1 .. m :
                Geometric(m, first, base)[j] = base * Geometric(m, first, base)[j - 1]
         /\ \A j \in 0 .. m : Geometric(m, first, base)[j] \in Nat \ {0}
<1> DEFINE N == Nat \ {0}
           Is(s) == s = [j \in 0 .. m |-> IF j = 0 THEN first ELSE base * s[j - 1]]
           t == CHOOSE s : Is(s)
<1>0. base \in N /\ first \in N /\ \A v \in N : base * v \in N
  OBVIOUS
<1>1. \A i \in 1 .. m : i \in 0 .. m /\ i # 0 /\ i - 1 \in 0 .. m
  OBVIOUS
<1> HIDE DEF N
<1>2. \E s : Is(s) /\ \A j \in 0 .. m : s[j] \in N
  <2> DEFINE F == [p \in (1 .. m) \X N |-> base * p[2]]
  <2>1. \A i \in 1 .. m, v \in N : F[<<i, v>>] = base * v
    OBVIOUS
  <2> HIDE DEF F
  <2>2. \A i \in 1 .. m, v \in N : F[<<i, v>>] \in N
    BY <1>0, <2>1, Zenon
  <2>3. PICK g : Loops(g, m, N, first, F)
    BY <1>0, <2>2, LoopExists, Zenon
  <2>4. g \in [0 .. m -> N] /\ g[0] = first
    BY <2>3, Zenon DEF Loops
  <2>5. \A i \in 1 .. m : g[i] = base * g[i - 1]
    <3> TAKE i \in 1 .. m
    <3>1. g[i] = F[<<i, g[i - 1]>>] /\ g[i - 1] \in N
      BY <1>1, <2>3, <2>4, Zenon DEF Loops
    <3> QED
      BY <2>1, <3>1, Zenon
  <2>6. \A i \in 0 .. m : i = 0 \/ i \in 1 .. m
    OBVIOUS
  <2>7. \A i \in 0 .. m : g[i] = IF i = 0 THEN first ELSE base * g[i - 1]
    BY <1>1, <2>4, <2>5, <2>6, Zenon
  <2>8. Is(g) /\ \A j \in 0 .. m : g[j] \in N
    BY <2>4, <2>7, Zenon
  <2> QED
    BY <2>8, Zenon
<1>3. Is(t) /\ Geometric(m, first, base) = t
  BY <1>2, Zenon DEF Geometric
<1> HIDE DEF t
<1>4. \A j \in 0 .. m : t[j] = IF j = 0 THEN first ELSE base * t[j - 1]
  BY <1>3, Zenon
<1>5. 0 \in 0 .. m
  OBVIOUS
<1>6. t[0] = first /\ \A j \in 1 .. m : t[j] = base * t[j - 1]
  BY <1>1, <1>4, <1>5, Zenon
<1> DEFINE S == {k \in 0 .. m : t[k] \in N}
<1>7. 0 \in S
  BY <1>0, <1>5, <1>6, Zenon
<1>8. ASSUME NEW k \in 0 .. m - 1, k \in S PROVE k + 1 \in S
  <2>1. k + 1 \in 1 .. m /\ (k + 1) - 1 = k /\ k + 1 \in 0 .. m
    OBVIOUS
  <2>2. t[k + 1] = base * t[k] /\ t[k] \in N
    BY <1>6, <1>8, <2>1, Zenon
  <2> QED
    BY <1>0, <2>1, <2>2, Zenon
<1> HIDE DEF S
<1>9. \A k \in 0 .. m : k \in S
  BY <1>7, <1>8, UpTo, Zenon
<1> QED
  BY <1>3, <1>6, <1>9, Zenon DEF S, N

-----------------------------------------------------------------------------
(* Quotients and remainders *)

LEMMA Distribute ==
  ASSUME NEW i \in Int, NEW p \in Int, NEW q \in Int
  PROVE  i * (p + q) = i * p + i * q
OBVIOUS

(* What a division leaves. *)
LEMMA Divided ==
  ASSUME NEW i \in Nat \ {0}, NEW c \in Nat
  PROVE  /\ c \div i \in Nat /\ c % i \in 0 .. i - 1
         /\ c = i * (c \div i) + (c % i)
OBVIOUS

(* A quotient and a remainder below the divisor are unique. *)
LEMMA DivModUnique ==
  ASSUME NEW i \in Nat \ {0}, NEW p \in Int, NEW q \in Int,
         NEW r \in 0..(i - 1), NEW s \in 0..(i - 1), i * p + r = i * q + s
  PROVE  p = q /\ r = s
<1>1. CASE p = q
  BY <1>1
<1>2. CASE p > q
  <2>1. PICK d \in Nat \ {0} : p = q + d
    BY <1>2
  <2>2. i * p = i * q + i * d
    BY <2>1
  <2>3. i * d >= i
    BY <2>1
  <2> QED
    BY <2>2, <2>3
<1>3. CASE q > p
  <2>1. PICK d \in Nat \ {0} : q = p + d
    BY <1>3
  <2>2. i * q = i * p + i * d
    BY <2>1
  <2>3. i * d >= i
    BY <2>1
  <2> QED
    BY <2>2, <2>3
<1> QED
  BY <1>1, <1>2, <1>3

(* The successor: the remainder grows by one, or the quotient does and the
   remainder is 0 again. *)
LEMMA DivModSucc ==
  ASSUME NEW i \in Nat \ {0}, NEW c \in Nat
  PROVE  IF (c % i) = i - 1
         THEN (c + 1) % i = 0 /\ (c + 1) \div i = (c \div i) + 1
         ELSE (c + 1) % i = (c % i) + 1 /\ (c + 1) \div i = c \div i
<1> DEFINE q == c \div i
           r == c % i
           q2 == (c + 1) \div i
           r2 == (c + 1) % i
<1>1. q \in Nat /\ r \in 0..(i-1) /\ c = i * q + r
  OBVIOUS
<1>2. q2 \in Nat /\ r2 \in 0..(i-1) /\ c + 1 = i * q2 + r2
  OBVIOUS
<1> HIDE DEF q, r, q2, r2
<1>3. CASE r = i - 1
  <2>1. i * (q + 1) + 0 = i * q2 + r2 /\ q + 1 \in Nat /\ 0 \in 0..(i-1)
    BY <1>1, <1>2, <1>3
  <2>2. q + 1 \in Int /\ q2 \in Int /\ i \in Nat \ {0}
    BY <1>1, <1>2
  <2>3. q2 = q + 1 /\ r2 = 0
    BY <1>2, <2>1, <2>2, DivModUnique, Zenon
  <2> QED
    BY <1>3, <2>3 DEF q, r, q2, r2
<1>4. CASE r # i - 1
  <2>1. i * q + (r + 1) = i * q2 + r2 /\ r + 1 \in 0..(i-1)
    BY <1>1, <1>2, <1>4
  <2>2. q \in Int /\ q2 \in Int /\ i \in Nat \ {0}
    BY <1>1, <1>2
  <2>3. q2 = q /\ r2 = r + 1
    BY <1>2, <2>1, <2>2, DivModUnique, Zenon
  <2> QED
    BY <1>4, <2>3 DEF q, r, q2, r2
<1> QED
  BY <1>3, <1>4

(* The remainder of a successor. *)
LEMMA ModSucc ==
  ASSUME NEW i \in Nat \ {0}, NEW c \in Nat
  PROVE  (c + 1) % i = IF (c % i) = i - 1 THEN 0 ELSE (c % i) + 1
  BY DivModSucc

(* A further multiple of i is passed exactly when the successor is one. *)
LEMMA DivSucc ==
  ASSUME NEW i \in Nat \ {0}, NEW c \in Nat
  PROVE  (c + 1) \div i =
           IF (c + 1) % i = 0 THEN (c \div i) + 1 ELSE c \div i
<1> DEFINE q == c \div i
           r == c % i
           q2 == (c + 1) \div i
           r2 == (c + 1) % i
<1>1. r \in Nat
  OBVIOUS
<1>2. IF r = i - 1 THEN r2 = 0 /\ q2 = q + 1 ELSE r2 = r + 1 /\ q2 = q
  BY DivModSucc
<1> HIDE DEF q, r, q2, r2
<1>3. q2 = IF r2 = 0 THEN q + 1 ELSE q
  BY <1>1, <1>2
<1> QED
  BY <1>3 DEF q, r2, q2

(* The remainder of a sum of a multiple of i and a number below i. *)
LEMMA ModOf ==
  ASSUME NEW i \in Nat \ {0}, NEW q \in Int, NEW r \in 0 .. i - 1
  PROVE  (i * q + r) % i = r /\ (i * q + r) \div i = q
<1> DEFINE c == i * q + r
           p == c \div i
           s == c % i
<1>1. c \in Int
  OBVIOUS
<1>2. p \in Int /\ s \in 0 .. i - 1 /\ i * p + s = c
  <2> HIDE DEF c
  <2> QED
    BY <1>1
<1> HIDE DEF p, s
<1>3. i * p + s = i * q + r
  BY <1>2
<1>4. p = q /\ s = r
  BY <1>2, <1>3, DivModUnique
<1> QED
  BY <1>4 DEF p, s, c
-----------------------------------------------------------------------------
(* Sums *)

SumTo(n, f) ==
    LET s[j \in 0 .. n] == f[j] + IF j = 0 THEN 0 ELSE s[j - 1]
    IN  s[n]

(* The partial sums of f. *)
SumsTo(n, f, s) ==
    /\ s \in [0 .. n -> Int] /\ s[0] = f[0]
    /\ \A j \in 1 .. n : s[j] = s[j - 1] + f[j]

LEMMA SumsToExist ==
  ASSUME NEW n \in Nat, NEW f \in [0 .. n -> Int]
  PROVE  \E s : SumsTo(n, f, s) /\ SumTo(n, f) = s[n]
<1> DEFINE Is(s) == s = [j \in 0 .. n |-> f[j] + IF j = 0 THEN 0 ELSE s[j - 1]]
           t == CHOOSE s : Is(s)
<1>1. \E s : Is(s)
  <2> DEFINE F == [p \in (1 .. n) \X Int |-> f[p[1]] + p[2]]
  <2>1. \A i \in 1 .. n, v \in Int : F[<<i, v>>] = f[i] + v
    OBVIOUS
  <2>2. \A i \in 1 .. n : i \in 0 .. n /\ f[i] \in Int
    OBVIOUS
  <2> HIDE DEF t, Is
  <2> HIDE DEF F
  <2>3. \A i \in 1 .. n, v \in Int : F[<<i, v>>] \in Int
    <3> TAKE i \in 1 .. n, v \in Int
    <3>1. F[<<i, v>>] = f[i] + v /\ f[i] \in Int
      BY <2>1, <2>2, Zenon
    <3> HIDE DEF F
    <3> QED
      BY <3>1
  <2>4. f[0] \in Int /\ n \in Nat
    OBVIOUS
  <2>5. PICK g : Loops(g, n, Int, f[0], F)
    BY <2>3, <2>4, LoopExists
  <2>6. g \in [0 .. n -> Int] /\ g[0] = f[0]
    BY <2>5 DEF Loops
  <2>7. \A i \in 1 .. n : g[i] = f[i] + g[i - 1]
    <3> TAKE i \in 1 .. n
    <3>1. i - 1 \in 0 .. n
      OBVIOUS
    <3>2. g[i] = F[<<i, g[i - 1]>>] /\ g[i - 1] \in Int
      BY <2>5, <2>6, <3>1, Zenon DEF Loops
    <3> QED
      BY <2>1, <3>2, Zenon
  <2>8. \A i \in 0 .. n : g[i] = f[i] + IF i = 0 THEN 0 ELSE g[i - 1]
    <3> TAKE i \in 0 .. n
    <3>1. CASE i = 0
      BY <2>6, <3>1
    <3>2. CASE i # 0
      <4>1. i \in 1 .. n
        BY <3>2
      <4> QED
        BY <2>7, <3>2, <4>1, Zenon
    <3> QED
      BY <3>1, <3>2
  <2>9. Is(g)
    BY <2>6, <2>8 DEF Is
  <2> QED
    BY <2>9
<1>2. Is(t) /\ SumTo(n, f) = t[n]
  BY <1>1, Zenon DEF SumTo
<1> HIDE DEF t
<1>3. t[0] = f[0] /\ \A j \in 1 .. n : t[j] = f[j] + t[j - 1]
  BY <1>2
<1> DEFINE S == {k \in 0 .. n : t[k] \in Int}
<1>4. 0 \in S
  BY <1>3
<1>5. ASSUME NEW k \in 0 .. n - 1, k \in S PROVE k + 1 \in S
  <2>1. k + 1 \in 1 .. n /\ (k + 1) - 1 = k /\ k + 1 \in 0 .. n /\ f[k + 1] \in Int
    BY <1>5
  <2>2. t[k + 1] = f[k + 1] + t[k] /\ t[k] \in Int
    BY <1>3, <1>5, <2>1
  <2> QED
    BY <2>1, <2>2
<1> HIDE DEF S
<1>6. \A k \in 0 .. n : k \in S
  BY <1>4, <1>5, UpTo, Zenon
<1>7. \A k \in 0 .. n : t[k] \in Int
  BY <1>6 DEF S
<1>8. t \in [0 .. n -> Int]
  BY <1>2, <1>7
<1>9. \A j \in 1 .. n : t[j] = t[j - 1] + f[j]
  <2> TAKE j \in 1 .. n
  <2>1. j \in 0 .. n /\ j - 1 \in 0 .. n
    OBVIOUS
  <2> QED
    BY <1>3, <1>7, <2>1
<1>10. SumsTo(n, f, t)
  BY <1>3, <1>8, <1>9 DEF SumsTo
<1> QED
  BY <1>2, <1>10

(* A sum is the last of any partial sums. *)
LEMMA SumToBy ==
  ASSUME NEW n \in Nat, NEW f \in [0 .. n -> Int], NEW s, SumsTo(n, f, s)
  PROVE  SumTo(n, f) = s[n]
<1>1. PICK t : SumsTo(n, f, t) /\ SumTo(n, f) = t[n]
  BY SumsToExist
<1> DEFINE S == {k \in 0 .. n : s[k] = t[k]}
<1>2. 0 \in S
  BY <1>1 DEF SumsTo
<1>3. ASSUME NEW k \in 0 .. n - 1, k \in S PROVE k + 1 \in S
  <2>1. k + 1 \in 1 .. n /\ (k + 1) - 1 = k /\ k + 1 \in 0 .. n
    BY <1>3
  <2>2. s[k + 1] = s[k] + f[k + 1] /\ t[k + 1] = t[k] + f[k + 1]
    BY <1>1, <2>1, Zenon DEF SumsTo
  <2> QED
    BY <1>3, <2>1, <2>2
<1> HIDE DEF S
<1>4. \A k \in 0 .. n : k \in S
  BY <1>2, <1>3, UpTo, Zenon
<1>5. s[n] = t[n]
  BY <1>4 DEF S
<1> QED
  BY <1>1, <1>5

LEMMA SumToType ==
  ASSUME NEW n \in Nat, NEW f \in [0 .. n -> Int]
  PROVE  SumTo(n, f) \in Int
  BY SumsToExist DEF SumsTo

(* A sum of numbers between two bounds. *)
LEMMA SumToBound ==
  ASSUME NEW n \in Nat, NEW f \in [0 .. n -> Int], NEW lo \in Int, NEW hi \in Int,
         \A j \in 0 .. n : lo <= f[j] /\ f[j] <= hi
  PROVE  /\ SumTo(n, f) \in Int
         /\ (n + 1) * lo <= SumTo(n, f) /\ SumTo(n, f) <= (n + 1) * hi
<1>1. PICK s : SumsTo(n, f, s) /\ SumTo(n, f) = s[n]
  BY SumsToExist
<1> DEFINE Bounded(k) == (k + 1) * lo <= s[k] /\ s[k] <= (k + 1) * hi
           S == {k \in 0 .. n : Bounded(k)}
<1>2. 0 \in S
  <2>1. 0 \in 0 .. n /\ (0 + 1) * lo = lo /\ (0 + 1) * hi = hi
    OBVIOUS
  <2>2. s[0] = f[0]
    BY <1>1, Zenon DEF SumsTo
  <2> QED
    BY <2>1, <2>2, Zenon
<1>3. ASSUME NEW k \in 0 .. n - 1, k \in S PROVE k + 1 \in S
  <2>1. k + 1 \in 1 .. n /\ (k + 1) - 1 = k /\ k \in 0 .. n /\ k + 1 \in 0 .. n /\ k \in Int
    OBVIOUS
  <2> DEFINE a == s[k]
             b == f[k + 1]
  <2>2. s[k + 1] = a + b
    BY <1>1, <2>1, Zenon DEF SumsTo
  <2>3. a \in Int /\ b \in Int /\ lo <= b /\ b <= hi
    BY <1>1, <2>1, Zenon DEF SumsTo
  <2>4. (k + 1) * lo <= a /\ a <= (k + 1) * hi
    BY <1>3, Zenon
  <2> HIDE DEF a, b, S
  <2> DEFINE l == (k + 1) * lo
             h == (k + 1) * hi
  <2>5. l \in Int /\ h \in Int /\ ((k + 1) + 1) * lo = l + lo /\ ((k + 1) + 1) * hi = h + hi
    BY <2>1
  <2> HIDE DEF l, h
  <2>6. l + lo <= a + b /\ a + b <= h + hi
    BY <2>3, <2>4, <2>5 DEF l, h
  <2>7. Bounded(k + 1)
    BY <2>2, <2>5, <2>6, Zenon
  <2> QED
    BY <2>1, <2>7, Zenon DEF S
<1> HIDE DEF S
<1>4. \A k \in 0 .. n : k \in S
  BY <1>2, <1>3, UpTo, Zenon
<1>5. n \in 0 .. n
  OBVIOUS
<1>6. Bounded(n)
  BY <1>4, <1>5, Zenon DEF S
<1> QED
  BY <1>1, <1>6, SumToType, Zenon

(* Facts about numbers, to be applied to terms that the provers should not open. *)
LEMMA Product == ASSUME NEW a \in Int, NEW b \in Int PROVE a * b \in Int
  OBVIOUS

(* A sum of sums, and of multiples. *)
Combines(n, h, f, c, g) ==
    /\ n \in Nat /\ c \in Int
    /\ f \in [0 .. n -> Int] /\ g \in [0 .. n -> Int] /\ h \in [0 .. n -> Int]
    /\ \A j \in 0 .. n : h[j] = f[j] + c * g[j]

LEMMA SumToAdds ==
  ASSUME NEW n, NEW f, NEW g, NEW c, NEW h, Combines(n, h, f, c, g)
  PROVE  SumTo(n, h) = SumTo(n, f) + c * SumTo(n, g)
<1>. /\ n \in Nat /\ c \in Int
     /\ f \in [0 .. n -> Int] /\ g \in [0 .. n -> Int] /\ h \in [0 .. n -> Int]
  BY DEF Combines
<1>1. PICK s : SumsTo(n, f, s) /\ SumTo(n, f) = s[n]
  BY SumsToExist
<1>2. PICK t : SumsTo(n, g, t) /\ SumTo(n, g) = t[n]
  BY SumsToExist
<1> DEFINE u == [j \in 0 .. n |-> s[j] + c * t[j]]
<1>3. \A j \in 0 .. n : s[j] \in Int /\ t[j] \in Int /\ f[j] \in Int /\ g[j] \in Int
  BY <1>1, <1>2 DEF SumsTo
<1>4. \A j \in 0 .. n : u[j] = s[j] + c * t[j]
  BY Zenon
<1>5. \A j \in 0 .. n : s[j] + c * t[j] \in Int
  <2> TAKE j \in 0 .. n
  <2>1. c * t[j] \in Int
    BY <1>3, Product, Zenon
  <2> QED
    BY <1>3, <2>1
<1>6. u \in [0 .. n -> Int]
  BY <1>5, Zenon
<1> HIDE DEF u
<1>7. ASSUME NEW j \in 1 .. n PROVE u[j] = u[j - 1] + h[j]
  <2>1. j \in 0 .. n /\ j - 1 \in 0 .. n
    OBVIOUS
  <2>2. s[j] = s[j - 1] + f[j] /\ t[j] = t[j - 1] + g[j]
    BY <1>1, <1>2, Zenon DEF SumsTo
  <2>3. u[j] = (s[j - 1] + f[j]) + c * (t[j - 1] + g[j])
    BY <1>4, <2>1, <2>2, Zenon
  <2>4. /\ s[j - 1] \in Int /\ f[j] \in Int /\ t[j - 1] \in Int /\ g[j] \in Int
    BY <1>3, <2>1, Zenon
  <2>5. h[j] = f[j] + c * g[j] /\ u[j - 1] = s[j - 1] + c * t[j - 1]
    BY <1>4, <2>1, Zenon DEF Combines
  <2>6. (s[j - 1] + f[j]) + c * (t[j - 1] + g[j])
            = (s[j - 1] + c * t[j - 1]) + (f[j] + c * g[j])
    <3> DEFINE a1 == s[j - 1]
               a2 == f[j]
               b1 == t[j - 1]
               b2 == g[j]
    <3>1. a1 \in Int /\ a2 \in Int /\ b1 \in Int /\ b2 \in Int /\ c \in Int
      BY <2>4
    <3> HIDE DEF a1, a2, b1, b2
    <3>2. (a1 + a2) + c * (b1 + b2) = (a1 + c * b1) + (a2 + c * b2)
      BY <3>1, Distribute, Product
    <3> QED
      BY <3>2, Zenon DEF a1, a2, b1, b2
  <2> QED
    BY <2>3, <2>5, <2>6, Zenon
<1>8. 0 \in 0 .. n /\ n \in 0 .. n
  OBVIOUS
<1>9. u[0] = h[0]
  BY <1>1, <1>2, <1>4, <1>8, Zenon DEF SumsTo, Combines
<1>10. SumsTo(n, h, u)
  BY <1>6, <1>7, <1>9, Zenon DEF SumsTo
<1>11. SumTo(n, h) = u[n]
  BY <1>10, SumToBy, Zenon
<1> QED
  BY <1>1, <1>2, <1>4, <1>8, <1>11, Zenon

-----------------------------------------------------------------------------
(* Numbers in limbs *)

\* The powers of a base.
Powers(n, base, P) ==
    /\ n \in Nat /\ n > 0 /\ base \in Nat /\ base > 1
    /\ P[0] = 1
    /\ \A j \in 0 .. n : /\ P[j] \in Nat \ {0} /\ P[j + 1] \in Nat \ {0}
                         /\ P[j + 1] = base * P[j]

LEMMA PowersOf ==
  ASSUME NEW n, NEW base, NEW P, Powers(n, base, P)
  PROVE  /\ n \in Nat /\ n > 0 /\ base \in Nat /\ base > 1
         /\ P[0] = 1
         /\ \A j \in 0 .. n : /\ P[j] \in Nat \ {0} /\ P[j] \in Nat /\ P[j] \in Int
                              /\ P[j + 1] \in Nat \ {0} /\ P[j + 1] = base * P[j]
<1>1. \A p \in Nat \ {0} : p \in Nat /\ p \in Int
  OBVIOUS
<1> QED
  BY <1>1, Zenon DEF Powers

\* The number that limbs x stand for.
ValueIn(n, P, x) == SumTo(n, [j \in 0 .. n |-> x[j] * P[j]])

TermsIn(n, P, x) == [j \in 0 .. n |-> x[j] * P[j]]

LEMMA TermsInType ==
  ASSUME NEW n, NEW base, NEW P, Powers(n, base, P),
         NEW x \in [0 .. n -> Int]
  PROVE  TermsIn(n, P, x) \in [0 .. n -> Int]
<1>. n \in Nat /\ n > 0 /\ base \in Nat /\ base > 1
  BY PowersOf, Zenon
<1>1. \A j \in 0 .. n : x[j] * P[j] \in Int
  <2> TAKE j \in 0 .. n
  <2>1. P[j] \in Int /\ x[j] \in Int
    BY PowersOf
  <2> QED
    BY <2>1, Product, Zenon
<1> QED
  BY <1>1, Zenon DEF TermsIn

(* The value of a number, by partial sums. *)
PartialValuesIn(n, P, x, s) ==
    /\ s \in [0 .. n -> Int] /\ s[0] = x[0]
    /\ \A j \in 1 .. n : s[j] = s[j - 1] + x[j] * P[j]

LEMMA ValueInBySums ==
  ASSUME NEW n, NEW base, NEW P, Powers(n, base, P),
         NEW x \in [0 .. n -> Int]
  PROVE  \E s : PartialValuesIn(n, P, x, s) /\ ValueIn(n, P, x) = s[n]
<1>. n \in Nat /\ n > 0 /\ base \in Nat /\ base > 1
  BY PowersOf, Zenon
<1>1. TermsIn(n, P, x) \in [0 .. n -> Int]
  BY TermsInType
<1>2. PICK s : SumsTo(n, TermsIn(n, P, x), s) /\ SumTo(n, TermsIn(n, P, x)) = s[n]
  BY <1>1, SumsToExist, Zenon
<1>3. \A j \in 0 .. n : TermsIn(n, P, x)[j] = x[j] * P[j]
  BY Zenon DEF TermsIn
<1>4. 0 \in 0 .. n /\ \A j \in 1 .. n : j \in 0 .. n
  OBVIOUS
<1>5. TermsIn(n, P, x)[0] = x[0]
  <2>1. x[0] * P[0] = x[0]
    BY <1>4, PowersOf
  <2> QED
    BY <1>3, <1>4, <2>1, Zenon
<1>6. ValueIn(n, P, x) = SumTo(n, TermsIn(n, P, x))
  BY Zenon DEF ValueIn, TermsIn
<1> QED
  BY <1>2, <1>3, <1>4, <1>5, <1>6, Zenon DEF SumsTo, PartialValuesIn

LEMMA ValueInType ==
  ASSUME NEW n, NEW base, NEW P, Powers(n, base, P),
         NEW x \in [0 .. n -> Int]
  PROVE  ValueIn(n, P, x) \in Int
<1>. n \in Nat /\ n > 0 /\ base \in Nat /\ base > 1
  BY PowersOf, Zenon
<1>1. ValueIn(n, P, x) = SumTo(n, TermsIn(n, P, x))
  BY Zenon DEF ValueIn, TermsIn
<1> QED
  BY <1>1, TermsInType, SumToType, Zenon

LEMMA ValueInAdds ==
  ASSUME NEW n, NEW base, NEW P, Powers(n, base, P),
         NEW a, NEW b, NEW c, NEW x, Combines(n, x, a, c, b)
  PROVE  ValueIn(n, P, x) = ValueIn(n, P, a) + c * ValueIn(n, P, b)
<1>. n \in Nat /\ n > 0 /\ base \in Nat /\ base > 1
  BY PowersOf, Zenon
<1>. /\ c \in Int /\ a \in [0 .. n -> Int] /\ b \in [0 .. n -> Int] /\ x \in [0 .. n -> Int]
  BY DEF Combines
<1>1. \A y : ValueIn(n, P, y) = SumTo(n, TermsIn(n, P, y))
  BY Zenon DEF ValueIn, TermsIn
<1>2. \A j \in 0 .. n : TermsIn(n, P, x)[j] = TermsIn(n, P, a)[j] + c * TermsIn(n, P, b)[j]
  <2> TAKE j \in 0 .. n
  <2>1. a[j] \in Int /\ b[j] \in Int /\ P[j] \in Int /\ x[j] = a[j] + c * b[j]
    BY PowersOf DEF Combines
  <2>2. (a[j] + c * b[j]) * P[j] = a[j] * P[j] + c * (b[j] * P[j])
    <3> DEFINE p == P[j]
               e == a[j]
               f == b[j]
    <3>1. p \in Int /\ e \in Int /\ f \in Int
      BY <2>1, Zenon
    <3> HIDE DEF p, e, f
    <3>2. (e + c * f) * p = e * p + c * (f * p)
      BY <3>1
    <3> QED
      BY <3>2 DEF p, e, f
  <2>3. \A y : TermsIn(n, P, y)[j] = y[j] * P[j]
    BY Zenon DEF TermsIn
  <2> QED
    BY <2>1, <2>2, <2>3, Zenon
<1>3. /\ TermsIn(n, P, x) \in [0 .. n -> Int] /\ TermsIn(n, P, a) \in [0 .. n -> Int]
      /\ TermsIn(n, P, b) \in [0 .. n -> Int]
  BY TermsInType, Zenon
<1>4. Combines(n, TermsIn(n, P, x), TermsIn(n, P, a), c, TermsIn(n, P, b))
  BY <1>2, <1>3 DEF Combines
<1>5. SumTo(n, TermsIn(n, P, x)) = SumTo(n, TermsIn(n, P, a)) + c * SumTo(n, TermsIn(n, P, b))
  BY <1>4, SumToAdds, Zenon
<1>6. /\ ValueIn(n, P, x) = SumTo(n, TermsIn(n, P, x))
      /\ ValueIn(n, P, a) = SumTo(n, TermsIn(n, P, a))
      /\ ValueIn(n, P, b) = SumTo(n, TermsIn(n, P, b))
  BY <1>1, Zenon
<1> QED
  BY <1>5, <1>6, Zenon

(* What is added to the lowest limb is added to the number. *)
LEMMA ValueInLow ==
  ASSUME NEW n, NEW base, NEW P, Powers(n, base, P),
         NEW x \in [0 .. n -> Int], NEW y \in [0 .. n -> Int], NEW c \in Int,
         y[0] = x[0] + c, \A j \in 1 .. n : y[j] = x[j]
  PROVE  ValueIn(n, P, y) = ValueIn(n, P, x) + c
<1>. n \in Nat /\ n > 0 /\ base \in Nat /\ base > 1
  BY PowersOf, Zenon
<1>1. PICK s : PartialValuesIn(n, P, x, s) /\ ValueIn(n, P, x) = s[n]
  BY ValueInBySums
<1>2. PICK t : PartialValuesIn(n, P, y, t) /\ ValueIn(n, P, y) = t[n]
  BY ValueInBySums
<1> DEFINE S == {k \in 0 .. n : t[k] = s[k] + c}
<1>3. 0 \in S
  BY <1>1, <1>2 DEF PartialValuesIn
<1>4. ASSUME NEW k \in 0 .. n - 1, k \in S PROVE k + 1 \in S
  <2>1. k + 1 \in 1 .. n /\ (k + 1) - 1 = k /\ k \in 0 .. n /\ k + 1 \in 0 .. n
    OBVIOUS
  <2> DEFINE d == x[k + 1] * P[k + 1]
  <2>2. s[k + 1] = s[k] + d /\ t[k + 1] = t[k] + d
    BY <1>1, <1>2, <2>1, Zenon DEF PartialValuesIn
  <2>3. x[k + 1] \in Int /\ P[k + 1] \in Int
    BY <2>1, PowersOf
  <2>4. d \in Int /\ s[k] \in Int /\ t[k] = s[k] + c
    BY <1>1, <1>4, <2>1, <2>3, Product, Zenon DEF PartialValuesIn
  <2> HIDE DEF d, S
  <2>5. t[k + 1] = s[k + 1] + c
    BY <2>2, <2>4
  <2> QED
    BY <2>1, <2>5, Zenon DEF S
<1> HIDE DEF S
<1>5. \A k \in 0 .. n : k \in S
  BY <1>3, <1>4, UpTo, Zenon
<1>6. t[n] = s[n] + c
  BY <1>5 DEF S
<1> QED
  BY <1>1, <1>2, <1>6, Zenon

(* A number without its top limb. *)
CutIn(n, x) == [j \in 0 .. n |-> IF j = n THEN 0 ELSE x[j]]

LEMMA ValueInSplits ==
  ASSUME NEW n, NEW base, NEW P, Powers(n, base, P),
         NEW x \in [0 .. n -> Int]
  PROVE  /\ CutIn(n, x) \in [0 .. n -> Int] /\ ValueIn(n, P, CutIn(n, x)) \in Int
         /\ ValueIn(n, P, x) = ValueIn(n, P, CutIn(n, x)) + x[n] * P[n]
<1>. n \in Nat /\ n > 0 /\ base \in Nat /\ base > 1
  BY PowersOf, Zenon
<1>1. CutIn(n, x) \in [0 .. n -> Int]
  BY DEF CutIn
<1>2. ValueIn(n, P, CutIn(n, x)) \in Int
  BY <1>1, ValueInType
<1> DEFINE one == [j \in 0 .. n |-> IF j = n THEN 1 ELSE 0]
           y == CutIn(n, x)
<1>3. n \in 0 .. n /\ 0 \in 0 .. n /\ n # 0 /\ one \in [0 .. n -> Int]
  OBVIOUS
<1>4. ValueIn(n, P, one) = P[n]
  <2>1. PICK s : PartialValuesIn(n, P, one, s) /\ ValueIn(n, P, one) = s[n]
    BY <1>3, ValueInBySums, Zenon
  <2> DEFINE S == {k \in 0 .. n : k # n => s[k] = 0}
  <2>2. 0 \in S
    BY <1>3, <2>1 DEF PartialValuesIn
  <2>3. ASSUME NEW k \in 0 .. n - 1, k \in S PROVE k + 1 \in S
    <3>1. k + 1 \in 1 .. n /\ (k + 1) - 1 = k /\ k + 1 \in 0 .. n /\ k # n
      OBVIOUS
    <3>2. s[k + 1] = s[k] + one[k + 1] * P[k + 1]
      BY <2>1, <3>1, Zenon DEF PartialValuesIn
    <3>3. P[k + 1] \in Nat
      BY <3>1, PowersOf
    <3>4. k + 1 # n => one[k + 1] = 0
      BY <3>1, Zenon
    <3> QED
      BY <2>3, <3>1, <3>2, <3>3, <3>4
  <2> HIDE DEF S
  <2>4. \A k \in 0 .. n : k \in S
    BY <2>2, <2>3, UpTo, Zenon
  <2>5. n - 1 \in 0 .. n /\ n - 1 # n /\ n \in 1 .. n
    OBVIOUS
  <2>6. s[n - 1] = 0
    BY <2>4, <2>5, Zenon DEF S
  <2>7. s[n] = s[n - 1] + one[n] * P[n]
    BY <2>1, <2>5, Zenon DEF PartialValuesIn
  <2>8. one[n] = 1 /\ P[n] \in Int
    BY <1>3, PowersOf
  <2> HIDE DEF one
  <2> QED
    BY <2>1, <2>6, <2>7, <2>8
<1>5. \A j \in 0 .. n : x[j] = y[j] + x[n] * one[j]
    <3> TAKE j \in 0 .. n
    <3>1. y[j] = (IF j = n THEN 0 ELSE x[j]) /\ one[j] = IF j = n THEN 1 ELSE 0
      BY Zenon DEF CutIn
    <3>2. x[j] \in Int /\ x[n] \in Int
      BY <1>3
    <3> HIDE DEF y, one
    <3> QED
      BY <3>1, <3>2
<1>6. x[n] \in Int
  BY <1>3
<1>7. y \in [0 .. n -> Int]
  BY <1>1, Zenon
<1> HIDE DEF y, one
<1>8. Combines(n, x, y, x[n], one)
  BY <1>3, <1>5, <1>6, <1>7 DEF Combines
<1>9. ValueIn(n, P, x) = ValueIn(n, P, y) + x[n] * ValueIn(n, P, one)
  BY <1>8, ValueInAdds
<1> QED
  BY <1>1, <1>2, <1>4, <1>9, Zenon DEF y

LEMMA LimbStep ==
  ASSUME NEW base \in Nat, base > 1, NEW p \in Nat \ {0}, NEW s \in Int, s >= 0, s <= p - 1, NEW d \in 0 .. base - 1
  PROVE  s + d * p >= 0 /\ s + d * p <= base * p - 1
<1>1. base \in Int /\ d \in Int /\ p \in Int /\ base - 1 - d \in Nat
  OBVIOUS
<1> DEFINE e == base - 1 - d
<1>2. e \in Nat /\ base = d + e + 1
  BY <1>1
<1> HIDE DEF e
<1>3. base * p = d * p + e * p + p
  BY <1>1, <1>2
<1>4. d * p \in Nat /\ e * p \in Nat
  BY <1>2
<1> QED
  BY <1>3, <1>4

(* The limbs below the top one stand for a number below base^n. *)
LEMMA CutInBounds ==
  ASSUME NEW n, NEW base, NEW P, Powers(n, base, P),
         NEW x \in [0 .. n -> Int], \A j \in 0 .. n - 1 : x[j] \in 0 .. base - 1
  PROVE  ValueIn(n, P, CutIn(n, x)) \in 0 .. P[n] - 1
<1>. n \in Nat /\ n > 0 /\ base \in Nat /\ base > 1
  BY PowersOf, Zenon
<1> DEFINE y == CutIn(n, x)
<1>1. y \in [0 .. n -> Int] /\ y[n] = 0 /\ \A j \in 0 .. n - 1 : y[j] \in 0 .. base - 1
  BY DEF CutIn
<1> HIDE DEF y
<1>2. PICK s : PartialValuesIn(n, P, y, s) /\ ValueIn(n, P, y) = s[n]
  BY <1>1, ValueInBySums
<1> DEFINE Below(k) == k # n => s[k] >= 0 /\ s[k] <= P[k + 1] - 1
           S == {k \in 0 .. n : Below(k)}
<1>3. \A k \in 0 .. n : s[k] \in Int /\ P[k] \in Nat \ {0} /\ P[k + 1] = base * P[k]
  BY <1>2, PowersOf DEF PartialValuesIn
<1>4. 0 \in S
  <2>1. 0 \in 0 .. n /\ 0 \in 0 .. n - 1 /\ 0 + 1 = 1
    OBVIOUS
  <2>2. s[0] = y[0] /\ y[0] \in 0 .. base - 1
    BY <1>1, <1>2, <2>1, Zenon DEF PartialValuesIn
  <2>3. P[1] = base
    <3>1. P[0 + 1] = base * P[0] /\ P[0] = 1
      BY <1>3, <2>1, PowersOf, Zenon
    <3> QED
      BY <2>1, <3>1
  <2> QED
    BY <2>1, <2>2, <2>3
<1>5. ASSUME NEW k \in 0 .. n - 1, k \in S PROVE k + 1 \in S
  <2>1. k + 1 \in 1 .. n /\ (k + 1) - 1 = k /\ k + 1 \in 0 .. n /\ k # n /\ k \in 0 .. n
    OBVIOUS
  <2> SUFFICES ASSUME k + 1 # n PROVE Below(k + 1)
    BY <2>1, Zenon
  <2>2. k + 1 \in 0 .. n - 1
    BY <2>1
  <2>3. y[k + 1] \in 0 .. base - 1
    BY <1>1, <2>2, Zenon
  <2>4. s[k + 1] = s[k] + y[k + 1] * P[k + 1]
    BY <1>2, <2>1, Zenon DEF PartialValuesIn
  <2>5. Below(k) /\ s[k] \in Int /\ P[k + 1] \in Nat \ {0}
    BY <1>3, <1>5, <2>1, Zenon
  <2>6. s[k] >= 0 /\ s[k] <= P[k + 1] - 1
    BY <2>1, <2>5, Zenon
  <2>7. /\ s[k] + y[k + 1] * P[k + 1] >= 0
        /\ s[k] + y[k + 1] * P[k + 1] <= base * P[k + 1] - 1
    BY <2>3, <2>5, <2>6, LimbStep
  <2>8. P[(k + 1) + 1] = base * P[k + 1]
    BY <1>3, <2>1, Zenon
  <2> QED
    BY <2>4, <2>7, <2>8, Zenon
<1> HIDE DEF S, Below
<1>6. \A k \in 0 .. n : k \in S
  BY <1>4, <1>5, UpTo, Zenon
<1>7. n - 1 \in 0 .. n /\ n - 1 # n /\ (n - 1) + 1 = n /\ n \in 1 .. n
  OBVIOUS
<1>8. s[n - 1] >= 0 /\ s[n - 1] <= P[n] - 1
  <2>1. Below(n - 1)
    BY <1>6, <1>7, Zenon DEF S
  <2> QED
    BY <1>7, <2>1, Zenon DEF Below
<1>9. s[n] = s[n - 1] + y[n] * P[n]
  BY <1>2, <1>7, Zenon DEF PartialValuesIn
<1>10. ValueIn(n, P, y) = s[n - 1] /\ s[n - 1] \in Int
  BY <1>1, <1>2, <1>3, <1>7, <1>9, PowersOf
<1>11. ValueIn(n, P, y) \in 0 .. P[n] - 1
  BY <1>8, <1>10, PowersOf
<1> QED
  BY <1>11 DEF y

(* A number in limbs below the base is below base^(n + 1). *)
LEMMA ValueInDigits ==
  ASSUME NEW n, NEW base, NEW P, Powers(n, base, P),
         NEW x \in [0 .. n -> Int], \A j \in 0 .. n : x[j] \in 0 .. base - 1
  PROVE  ValueIn(n, P, x) \in 0 .. P[n + 1] - 1
<1>. n \in Nat /\ n > 0 /\ base \in Nat /\ base > 1
  BY PowersOf, Zenon
<1> DEFINE s == ValueIn(n, P, CutIn(n, x))
           d == x[n]
           p == P[n]
<1>1. \A j \in 0 .. n - 1 : x[j] \in 0 .. base - 1
  OBVIOUS
<1>2. s \in 0 .. p - 1
  BY <1>1, CutInBounds, Zenon
<1>3. ValueIn(n, P, x) = s + d * p
  BY ValueInSplits, Zenon
<1>4. n \in 0 .. n
  OBVIOUS
<1>5. d \in 0 .. base - 1 /\ p \in Nat \ {0} /\ P[n + 1] = base * p
  BY <1>4, PowersOf
<1> HIDE DEF s, d, p
<1>6. s \in Int /\ s >= 0 /\ s <= p - 1
  BY <1>2, <1>5
<1>7. s + d * p >= 0 /\ s + d * p <= base * p - 1
  BY <1>5, <1>6, LimbStep
<1>8. d * p \in Int /\ base * p \in Int
  BY <1>5
<1>9. s + d * p \in 0 .. base * p - 1
  BY <1>6, <1>7, <1>8
<1> QED
  BY <1>3, <1>5, <1>9, Zenon

(* What was added, s and c, is what was written, t, and the carry q. *)
Balance(t, q, p, s, c) == t + q * p = s + c

LEMMA DividedInt ==
  ASSUME NEW i \in Nat \ {0}, NEW c \in Int
  PROVE  /\ c \div i \in Int /\ c % i \in 0 .. i - 1
         /\ c = i * (c \div i) + (c % i)
OBVIOUS

LEMMA CarryStep ==
  ASSUME NEW base \in Nat, base > 1,
         NEW t \in Int, NEW s \in Int, NEW c \in Int, NEW p \in Int, NEW d \in Int,
         NEW q \in Int, Balance(t, q, p, s, c)
  PROVE  Balance(t + ((d + q) % base) * p, (d + q) \div base, base * p, s + d * p, c)
<1> DEFINE u == d + q
           a == u % base
           b == u \div base
<1>1. u \in Int /\ base \in Nat \ {0}
  OBVIOUS
<1>2. a \in Int /\ b \in Int /\ u = base * b + a
  <2> HIDE DEF u
  <2> QED
    BY <1>1, DividedInt
<1> HIDE DEF a, b
<1>3. (base * b + a) * p = b * (base * p) + a * p
  BY <1>1, <1>2
<1>4. (d + q) * p = d * p + q * p
  OBVIOUS
<1>5. u * p = b * (base * p) + a * p
  BY <1>2, <1>3, Zenon
<1>6. d * p + q * p = b * (base * p) + a * p
  BY <1>4, <1>5, Zenon
<1>7. /\ d * p \in Int /\ q * p \in Int /\ a * p \in Int /\ b * (base * p) \in Int
  <2>1. base * p \in Int
    BY <1>1
  <2> QED
    BY <1>2, <2>1, Product
<1>8. (t + a * p) + b * (base * p) = (s + d * p) + c
  BY <1>6, <1>7 DEF Balance
<1> QED
  BY <1>8, Zenon DEF Balance, a, b, u

\* The sums u of a chain over limbs x into which c is carried.
Carries(n, base, x, c, u) ==
    /\ u \in [0 .. n -> Int] /\ u[0] = x[0] + c
    /\ \A j \in 1 .. n : u[j] = x[j] + (u[j - 1] \div base)

(* The chain of the code: a recursive function on the limbs. *)
ChainTo(n, base, x, c) ==
    LET u[j \in 0 .. n] == x[j] + IF j = 0 THEN c ELSE u[j - 1] \div base
    IN  u

LEMMA ChainToCarries ==
  ASSUME NEW n \in Nat, NEW base \in Nat \ {0},
         NEW x \in [0 .. n -> Int], NEW c \in Int
  PROVE  Carries(n, base, x, c, ChainTo(n, base, x, c))
<1> DEFINE Is(u) == u = [j \in 0 .. n |-> x[j] + IF j = 0 THEN c ELSE u[j - 1] \div base]
           t == CHOOSE u : Is(u)
<1>1. \A v \in Int : v \div base \in Int
  OBVIOUS
<1>2. \A i \in 1 .. n : i \in 0 .. n /\ i # 0 /\ i - 1 \in 0 .. n /\ x[i] \in Int
  OBVIOUS
<1>3. \E u : Is(u)
  <2> DEFINE F == [p \in (1 .. n) \X Int |-> x[p[1]] + (p[2] \div base)]
  <2>1. \A i \in 1 .. n, v \in Int : F[<<i, v>>] = x[i] + (v \div base)
    OBVIOUS
  <2> HIDE DEF F
  <2>2. \A i \in 1 .. n, v \in Int : F[<<i, v>>] \in Int
    <3> TAKE i \in 1 .. n, v \in Int
    <3> DEFINE q == v \div base
    <3>1. F[<<i, v>>] = x[i] + q /\ x[i] \in Int /\ q \in Int
      BY <1>1, <1>2, <2>1, Zenon
    <3> HIDE DEF q
    <3> QED
      BY <3>1
  <2>3. x[0] + c \in Int
    OBVIOUS
  <2>4. PICK g : Loops(g, n, Int, x[0] + c, F)
    BY <2>2, <2>3, LoopExists, Zenon
  <2>5. g \in [0 .. n -> Int] /\ g[0] = x[0] + c
    BY <2>4, Zenon DEF Loops
  <2>6. \A i \in 1 .. n : g[i] = x[i] + (g[i - 1] \div base)
    <3> TAKE i \in 1 .. n
    <3>1. g[i] = F[<<i, g[i - 1]>>] /\ g[i - 1] \in Int
      BY <1>2, <2>4, <2>5, Zenon DEF Loops
    <3> QED
      BY <2>1, <3>1, Zenon
  <2>7. \A i \in 0 .. n : i = 0 \/ i \in 1 .. n
    OBVIOUS
  <2>8. \A i \in 0 .. n : g[i] = x[i] + IF i = 0 THEN c ELSE g[i - 1] \div base
    BY <1>2, <2>5, <2>6, <2>7, Zenon
  <2>9. Is(g)
    BY <2>5, <2>8, Zenon
  <2> QED
    BY <2>9, Zenon
<1>4. Is(t) /\ ChainTo(n, base, x, c) = t
  BY <1>3, Zenon DEF ChainTo
<1> HIDE DEF t
<1>5. \A j \in 0 .. n : t[j] = x[j] + IF j = 0 THEN c ELSE t[j - 1] \div base
  BY <1>4, Zenon
<1>6. 0 \in 0 .. n /\ x[0] + c \in Int
  OBVIOUS
<1>7. t[0] = x[0] + c
  BY <1>5, <1>6, Zenon
<1>8. \A j \in 1 .. n : t[j] = x[j] + (t[j - 1] \div base)
  BY <1>2, <1>5, Zenon
<1> DEFINE S == {k \in 0 .. n : t[k] \in Int}
<1>9. 0 \in S
  BY <1>6, <1>7, Zenon
<1>10. ASSUME NEW k \in 0 .. n - 1, k \in S PROVE k + 1 \in S
  <2>1. k + 1 \in 1 .. n /\ (k + 1) - 1 = k /\ k + 1 \in 0 .. n
    OBVIOUS
  <2> DEFINE q == t[k] \div base
  <2>2. t[k + 1] = x[k + 1] + q /\ q \in Int /\ x[k + 1] \in Int
    BY <1>1, <1>2, <1>8, <1>10, <2>1, Zenon
  <2> HIDE DEF q
  <2>3. t[k + 1] \in Int
    BY <2>2
  <2> QED
    BY <2>1, <2>3, Zenon
<1> HIDE DEF S
<1>11. \A k \in 0 .. n : k \in S
  BY <1>9, <1>10, UpTo, Zenon
<1>12. t \in [0 .. n -> Int]
  <2>1. \A k \in 0 .. n : t[k] \in Int
    BY <1>11, Zenon DEF S
  <2>2. t = [k \in 0 .. n |-> t[k]]
    BY <1>4, <1>5, Zenon
  <2> QED
    BY <2>1, <2>2, Zenon
<1> QED
  BY <1>4, <1>7, <1>8, <1>12, Zenon DEF Carries

LEMMA CarryBoundStep ==
  ASSUME NEW base \in Nat, base > 1, NEW B \in Nat, NEW C \in Nat, B <= (base - 1) * C,
         NEW d \in Int, -B <= d, d <= B, NEW q \in Int, -C <= q, q <= C
  PROVE  -C <= (d + q) \div base /\ (d + q) \div base <= C
<1> DEFINE u == d + q
           v == u \div base
           r == u % base
           W == base * C
<1>1. u \in Int /\ -(B + C) <= u /\ u <= B + C
  OBVIOUS
<1>2. base \in Nat \ {0} /\ W \in Int /\ B + C <= W
  <2>1. (base - 1) * C = base * C - C /\ base * C \in Int
    OBVIOUS
  <2> QED
    BY <2>1
<1> HIDE DEF u
<1>3. v \in Int /\ r \in 0 .. base - 1 /\ u = base * v + r
  BY <1>1, <1>2, DividedInt
<1> HIDE DEF v, r
<1>4. v <= C
  <2> SUFFICES ASSUME v >= C + 1 PROVE FALSE
    BY <1>3
  <2>1. PICK e \in Nat : v = C + 1 + e
    <3>1. v - (C + 1) \in Nat /\ v = C + 1 + (v - (C + 1))
      BY <1>3
    <3> QED
      BY <3>1
  <2>2. base * v = W + base + base * e /\ base * e \in Nat
    BY <2>1
  <2> HIDE DEF W
  <2> QED
    BY <1>1, <1>2, <1>3, <2>2
<1>5. v >= -C
  <2> SUFFICES ASSUME v <= -C - 1 PROVE FALSE
    BY <1>3
  <2>1. PICK e \in Nat : v = -C - 1 - e
    <3>1. -C - 1 - v \in Nat /\ v = -C - 1 - (-C - 1 - v)
      BY <1>3
    <3> QED
      BY <3>1
  <2>2. base * v = -W - base - base * e /\ base * e \in Nat
    BY <2>1
  <2> HIDE DEF W
  <2> QED
    BY <1>1, <1>2, <1>3, <2>2
<1> QED
  BY <1>4, <1>5 DEF v, u

(* How much is carried on from limbs between -B and B. *)
LEMMA CarryBound ==
  ASSUME NEW n \in Nat, NEW base \in Nat, base > 1, NEW B \in Nat, NEW C \in Nat,
         B <= (base - 1) * C,
         NEW x \in [0 .. n -> Int], \A j \in 0 .. n : -B <= x[j] /\ x[j] <= B,
         NEW u, Carries(n, base, x, 0, u)
  PROVE  \A k \in 0 .. n : -C <= u[k] \div base /\ u[k] \div base <= C
<1> DEFINE Bounded(k) == -C <= u[k] \div base /\ u[k] \div base <= C
           S == {k \in 0 .. n : Bounded(k)}
<1>1. \A k \in 0 .. n : x[k] \in Int /\ u[k] \in Int /\ -B <= x[k] /\ x[k] <= B
  BY DEF Carries
<1>2. \A v \in Int : v \div base \in Int
  OBVIOUS
<1>3. 0 \in S
  <2>1. 0 \in 0 .. n /\ 0 \in Int /\ -C <= 0 /\ 0 <= C
    OBVIOUS
  <2>2. u[0] = x[0] + 0
    BY Zenon DEF Carries
  <2>3. x[0] \in Int /\ -B <= x[0] /\ x[0] <= B
    BY <1>1, <2>1, Zenon
  <2>4. -C <= (x[0] + 0) \div base /\ (x[0] + 0) \div base <= C
    BY <2>1, <2>3, CarryBoundStep
  <2> QED
    BY <2>1, <2>2, <2>4, Zenon
<1>4. ASSUME NEW k \in 0 .. n - 1, k \in S PROVE k + 1 \in S
  <2>1. k + 1 \in 1 .. n /\ (k + 1) - 1 = k /\ k \in 0 .. n /\ k + 1 \in 0 .. n
    OBVIOUS
  <2> DEFINE q == u[k] \div base
             d == x[k + 1]
  <2>2. u[k + 1] = d + q
    BY <2>1, Zenon DEF Carries
  <2>3. d \in Int /\ -B <= d /\ d <= B /\ q \in Int /\ -C <= q /\ q <= C
    BY <1>1, <1>2, <1>4, <2>1, Zenon
  <2> HIDE DEF q, d, S
  <2>4. -C <= (d + q) \div base /\ (d + q) \div base <= C
    BY <2>3, CarryBoundStep
  <2> QED
    BY <2>1, <2>2, <2>4, Zenon DEF S
<1> HIDE DEF S
<1> QED
  BY <1>3, <1>4, UpTo, Zenon DEF S

(* A chain keeps the value, but for what it cuts off the top limb. *)
CarriedIn(n, base, u, w) ==
    /\ w \in [0 .. n -> Int]
    /\ \A j \in 0 .. n - 1 : w[j] = u[j] % base

LEMMA CarriedValue ==
  ASSUME NEW n, NEW base, NEW P, Powers(n, base, P),
         NEW x \in [0 .. n -> Int], NEW c \in Int, NEW u, Carries(n, base, x, c, u),
         NEW w, CarriedIn(n, base, u, w)
  PROVE  ValueIn(n, P, w) + (u[n] - w[n]) * P[n] = ValueIn(n, P, x) + c
<1>. n \in Nat /\ n > 0 /\ base \in Nat /\ base > 1
  BY PowersOf, Zenon
<1>1. x \in [0 .. n -> Int]
  OBVIOUS
<1>2. PICK s : PartialValuesIn(n, P, x, s) /\ ValueIn(n, P, x) = s[n]
  BY <1>1, ValueInBySums
<1>3. PICK t : PartialValuesIn(n, P, w, t) /\ ValueIn(n, P, w) = t[n]
  BY ValueInBySums DEF CarriedIn
<1> DEFINE Balanced(k) == Balance(t[k], u[k] \div base, P[k + 1], s[k], c)
           S == {k \in 0 .. n : k # n => Balanced(k)}
<1>4. /\ \A k \in 0 .. n : u[k] \in Int /\ t[k] \in Int /\ s[k] \in Int
      /\ \A k \in 0 .. n : P[k] \in Int /\ P[k + 1] = base * P[k]
      /\ \A k \in 0 .. n : x[k] \in Int /\ w[k] \in Int /\ u[k] \div base \in Int
  <2>1. \A k \in 0 .. n : u[k] \in Int /\ t[k] \in Int /\ s[k] \in Int /\ w[k] \in Int
    BY <1>2, <1>3 DEF PartialValuesIn, Carries, CarriedIn
  <2>2. \A v \in Int : v \div base \in Int
    OBVIOUS
  <2>3. \A k \in 0 .. n : P[k] \in Int /\ P[k + 1] = base * P[k]
    BY PowersOf
  <2>4. \A k \in 0 .. n : x[k] \in Int
    OBVIOUS
  <2> QED
    BY <2>1, <2>2, <2>3, <2>4, Zenon
<1>5. 0 \in S
  <2>1. 0 \in 0 .. n /\ 0 \in 0 .. n - 1 /\ 0 # n /\ 0 + 1 = 1
    OBVIOUS
  <2>2. t[0] = w[0] /\ w[0] = u[0] % base /\ s[0] = x[0] /\ u[0] = x[0] + c
    BY <1>2, <1>3, <2>1, Zenon DEF PartialValuesIn, Carries, CarriedIn
  <2>3. P[0 + 1] = base
    <3>1. P[0 + 1] = base * P[0] /\ P[0] = 1
      BY <1>4, <2>1, PowersOf, Zenon
    <3> QED
      BY <3>1
  <2>4. u[0] \in Int /\ base \in Nat \ {0}
    BY <1>4, <2>1
  <2>5. (u[0] % base) + (u[0] \div base) * base = u[0]
    <3> DEFINE v == u[0]
    <3>1. v \in Int /\ base \in Nat \ {0}
      BY <2>4, Zenon
    <3> HIDE DEF v
    <3>2. v % base \in Int /\ v \div base \in Int /\ v = base * (v \div base) + (v % base)
      <4>1. v % base \in 0 .. base - 1 /\ v \div base \in Int /\ v = base * (v \div base) + (v % base)
        BY <3>1, DividedInt, Zenon
      <4> QED
        BY <4>1
    <3>3. (v % base) + (v \div base) * base = v
      BY <3>1, <3>2
    <3> QED
      BY <3>3, Zenon DEF v
  <2>6. Balanced(0)
    BY <2>2, <2>3, <2>5, Zenon DEF Balance
  <2> QED
    BY <2>1, <2>6, Zenon
<1>6. ASSUME NEW k \in 0 .. n - 1, k \in S PROVE k + 1 \in S
  <2>1. k + 1 \in 1 .. n /\ (k + 1) - 1 = k /\ k + 1 \in 0 .. n /\ k # n /\ k \in 0 .. n
    OBVIOUS
  <2> SUFFICES ASSUME k + 1 # n PROVE Balanced(k + 1)
    BY <2>1, Zenon
  <2>2. k + 1 \in 0 .. n - 1
    BY <2>1
  <2> DEFINE d == x[k + 1]
             q == u[k] \div base
             p == P[k + 1]
  <2>3. /\ s[k + 1] = s[k] + d * p /\ t[k + 1] = t[k] + w[k + 1] * p
        /\ u[k + 1] = d + q /\ w[k + 1] = u[k + 1] % base
    BY <1>2, <1>3, <2>1, <2>2, Zenon DEF PartialValuesIn, Carries, CarriedIn
  <2>4. d \in Int /\ q \in Int /\ p \in Int /\ s[k] \in Int /\ t[k] \in Int
    BY <1>4, <2>1, Zenon
  <2>5. Balance(t[k], q, p, s[k], c)
    BY <1>6, <2>1, Zenon
  <2>6. P[(k + 1) + 1] = base * p
    BY <1>4, <2>1, Zenon
  <2> HIDE DEF d, q, p
  <2>7. Balance(t[k] + ((d + q) % base) * p, (d + q) \div base, base * p,
                s[k] + d * p, c)
    <3>1. c \in Int
      OBVIOUS
    <3> QED
      BY <2>4, <2>5, <3>1, CarryStep, Zenon
  <2> QED
    BY <2>3, <2>6, <2>7, Zenon
<1> HIDE DEF S, Balanced
<1>7. \A k \in 0 .. n : k \in S
  BY <1>5, <1>6, UpTo, Zenon
<1>8. /\ n - 1 \in 0 .. n /\ n - 1 # n /\ (n - 1) + 1 = n /\ n \in 1 .. n
      /\ n \in 0 .. n
  OBVIOUS
<1> DEFINE d == x[n]
           q == u[n - 1] \div base
           p == P[n]
           s1 == s[n - 1]
           t1 == t[n - 1]
           v == w[n]
<1>9. t1 + q * p = s1 + c
  <2>1. Balanced(n - 1)
    BY <1>7, <1>8, Zenon DEF S
  <2> QED
    BY <1>8, <2>1, Zenon DEF Balanced, Balance
<1>10. s[n] = s1 + d * p /\ t[n] = t1 + v * p /\ u[n] = d + q
  BY <1>2, <1>3, <1>8, Zenon DEF PartialValuesIn, Carries
<1>11. /\ d \in Int /\ q \in Int /\ p \in Int /\ s1 \in Int /\ t1 \in Int /\ v \in Int
  BY <1>4, <1>8, Zenon
<1> HIDE DEF d, q, p, s1, t1, v
<1>12. (t1 + v * p) + ((d + q) - v) * p = (s1 + d * p) + c
  <2>1. ((d + q) - v) * p = d * p + q * p - v * p
    BY <1>11
  <2>2. d * p \in Int /\ q * p \in Int /\ v * p \in Int
    BY <1>11, Product
  <2> QED
    BY <1>9, <1>11, <2>1, <2>2
<1>13. (t[n]) + (u[n] - v) * p = s[n] + c
  BY <1>10, <1>12, Zenon
<1> QED
  BY <1>2, <1>3, <1>13, Zenon DEF v, p

(* One limb further on: what leaves at the top comes back at the bottom. *)
Shifted(n, wrap, x, y) ==
    /\ wrap \in Int /\ x \in [0 .. n -> Int] /\ y \in [0 .. n -> Int]
    /\ y[0] = wrap * x[n]
    /\ \A i \in 1 .. n : y[i] = x[i - 1]

LEMMA Rotated ==
  ASSUME NEW n, NEW base, NEW P, Powers(n, base, P),
         NEW wrap, NEW x, NEW y, Shifted(n, wrap, x, y)
  PROVE  ValueIn(n, P, y) = base * ValueIn(n, P, x) + x[n] * (wrap - P[n + 1])
<1>. n \in Nat /\ n > 0 /\ base \in Nat /\ base > 1
  BY PowersOf, Zenon
<1>. /\ wrap \in Int /\ x \in [0 .. n -> Int] /\ y \in [0 .. n -> Int]
     /\ y[0] = wrap * x[n] /\ \A i \in 1 .. n : y[i] = x[i - 1]
  BY Zenon DEF Shifted
<1>1. PICK s : PartialValuesIn(n, P, x, s) /\ ValueIn(n, P, x) = s[n]
  BY ValueInBySums
<1>2. PICK t : PartialValuesIn(n, P, y, t) /\ ValueIn(n, P, y) = t[n]
  BY ValueInBySums
<1> DEFINE a == x[n]
           W == wrap * a
           S == {k \in 0 .. n : k # n => t[k + 1] = W + base * s[k]}
<1>3. wrap \in Int /\ P[n + 1] = base * P[n]
  BY PowersOf
<1>4. n \in 0 .. n /\ a \in Int
  OBVIOUS
<1>5. W \in Int
  BY <1>3, <1>4, Product, Zenon
<1>6. \A k \in 0 .. n : s[k] \in Int /\ t[k] \in Int /\ x[k] \in Int /\ P[k] \in Int
  BY <1>1, <1>2, PowersOf DEF PartialValuesIn
<1> HIDE DEF a, W
<1>7. ASSUME NEW k \in 0 .. n - 1 PROVE t[k + 1] = t[k] + base * (x[k] * P[k])
  <2>1. k \in 0 .. n /\ k + 1 \in 1 .. n /\ (k + 1) - 1 = k
    OBVIOUS
  <2>2. t[k + 1] = t[k] + x[k] * P[k + 1]
    BY <1>2, <2>1, Zenon DEF PartialValuesIn
  <2>3. P[k + 1] = base * P[k]
    BY <2>1, PowersOf
  <2> DEFINE p == P[k]
             d == x[k]
  <2>4. p \in Int /\ d \in Int /\ base \in Int
    BY <1>6, <2>1
  <2> HIDE DEF p, d
  <2>5. d * (base * p) = base * (d * p)
    BY <2>4
  <2> QED
    BY <2>2, <2>3, <2>5, Zenon DEF p, d
<1>8. 0 \in S
  <2>1. 0 \in 0 .. n /\ 0 \in 0 .. n - 1 /\ 0 + 1 = 1
    OBVIOUS
  <2>2. t[0 + 1] = t[0] + base * (x[0] * P[0])
    BY <1>7, <2>1, Zenon
  <2>3. t[0] = W /\ s[0] = x[0]
    BY <1>1, <1>2, Zenon DEF PartialValuesIn, W, a
  <2>4. x[0] * P[0] = x[0]
    <3>1. x[0] \in Int /\ P[0] = 1
      BY <1>6, <2>1, PowersOf
    <3>2. x[0] * 1 = x[0]
      BY <3>1
    <3> QED
      BY <3>1, <3>2, Zenon
  <2> QED
    BY <2>1, <2>2, <2>3, <2>4, Zenon
<1>9. ASSUME NEW k \in 0 .. n - 1, k \in S PROVE k + 1 \in S
  <2>1. k \in 0 .. n /\ k + 1 \in 0 .. n /\ k + 1 \in 1 .. n /\ (k + 1) - 1 = k /\ k # n
    OBVIOUS
  <2> SUFFICES ASSUME k + 1 # n PROVE t[(k + 1) + 1] = W + base * s[k + 1]
    BY <2>1, Zenon
  <2>2. k + 1 \in 0 .. n - 1
    BY <2>1
  <2> DEFINE e == x[k + 1] * P[k + 1]
  <2>3. t[(k + 1) + 1] = t[k + 1] + base * e
    BY <1>7, <2>2, Zenon
  <2>4. t[k + 1] = W + base * s[k]
    BY <1>9, <2>1, Zenon
  <2>5. s[k + 1] = s[k] + e
    BY <1>1, <2>1, Zenon DEF PartialValuesIn
  <2>6. e \in Int
    BY <1>6, <2>1, Product, Zenon
  <2> DEFINE c == s[k]
  <2>7. c \in Int /\ base \in Int
    BY <1>6, <2>1
  <2> HIDE DEF e, c
  <2>8. (W + base * c) + base * e = W + base * (c + e)
    BY <1>5, <2>6, <2>7, Distribute, Product
  <2> QED
    BY <2>3, <2>4, <2>5, <2>8, Zenon DEF c
<1> HIDE DEF S
<1>10. \A k \in 0 .. n : k \in S
  BY <1>8, <1>9, UpTo, Zenon
<1>11. n - 1 \in 0 .. n /\ n - 1 # n /\ (n - 1) + 1 = n /\ n \in 1 .. n
  OBVIOUS
<1> DEFINE s1 == s[n - 1]
           p == P[n]
<1>12. t[n] = W + base * s1
  BY <1>10, <1>11, Zenon DEF S
<1>13. s[n] = s1 + a * p
  BY <1>1, <1>11, Zenon DEF PartialValuesIn, a
<1>14. s1 \in Int /\ p \in Int
  BY <1>6, <1>11, <1>4
<1> HIDE DEF s1, p
<1>15. wrap * a + base * s1 = base * (s1 + a * p) + a * (wrap - base * p)
  BY <1>3, <1>4, <1>14
<1> QED
  BY <1>1, <1>2, <1>3, <1>12, <1>13, <1>15, Zenon DEF a, W, p

NoLimbs(n) == [j \in 0 .. n |-> 0]

LEMMA NoLimbsAre ==
  ASSUME NEW n, NEW base, NEW P, Powers(n, base, P)
  PROVE  /\ NoLimbs(n) \in [0 .. n -> Int] /\ \A j \in 0 .. n : NoLimbs(n)[j] = 0
         /\ SumTo(n, NoLimbs(n)) = 0 /\ ValueIn(n, P, NoLimbs(n)) = 0
<1>. n \in Nat /\ n > 0 /\ base \in Nat /\ base > 1
  BY PowersOf, Zenon
<1> DEFINE z == NoLimbs(n)
<1>1. z \in [0 .. n -> Int] /\ \A j \in 0 .. n : z[j] = 0
  BY DEF NoLimbs
<1> HIDE DEF z
<1>2. Combines(n, z, z, 1, z)
  BY <1>1 DEF Combines
<1>3. SumTo(n, z) = SumTo(n, z) + 1 * SumTo(n, z)
  BY <1>2, SumToAdds, Zenon
<1>4. ValueIn(n, P, z) = ValueIn(n, P, z) + 1 * ValueIn(n, P, z)
  BY <1>2, ValueInAdds
<1>5. SumTo(n, z) \in Int /\ ValueIn(n, P, z) \in Int
  BY <1>1, SumToType, ValueInType, Zenon
<1>6. \A y \in Int : y = y + 1 * y => y = 0
  OBVIOUS
<1> QED
  BY <1>1, <1>3, <1>4, <1>5, <1>6, Zenon DEF z

-----------------------------------------------------------------------------
(* A number modulo p *)

Congruent(p, a, b) == \E q \in Int : a = b + q * p

LEMMA CongruentMod ==
  ASSUME NEW p \in Nat \ {0}, NEW a \in Int, NEW b \in Int, Congruent(p, a, b)
  PROVE  a % p = b % p
<1>1. p \in Nat \ {0}
  OBVIOUS
<1>2. PICK q \in Int : a = b + q * p
  BY Zenon DEF Congruent
<1> DEFINE c == b \div p
           d == b % p
<1>3. c \in Int /\ d \in 0 .. p - 1 /\ b = p * c + d
  BY <1>1
<1> HIDE DEF c, d
<1>4. a = p * (c + q) + d
  BY <1>1, <1>2, <1>3
<1>5. c + q \in Int
  BY <1>2, <1>3
<1> DEFINE e == c + q
<1>6. e \in Int /\ a = p * e + d
  BY <1>4, <1>5
<1> HIDE DEF e
<1>7. (p * e + d) % p = d
  BY <1>1, <1>3, <1>6, ModOf
<1> QED
  BY <1>6, <1>7, Zenon DEF d

LEMMA ModCongruent ==
  ASSUME NEW p \in Nat \ {0}, NEW a \in Int
  PROVE  Congruent(p, a % p, a) /\ a % p \in Nat
<1>1. p \in Nat \ {0}
  OBVIOUS
<1> DEFINE q == a \div p
           d == a % p
<1>2. q \in Int /\ d \in 0 .. p - 1 /\ a = p * q + d
  BY <1>1
<1> HIDE DEF q, d
<1>3. d = a + (-q) * p /\ -q \in Int /\ d \in Nat
  BY <1>1, <1>2
<1> QED
  BY <1>3, Zenon DEF Congruent, d

LEMMA CongruentTrans ==
  ASSUME NEW p \in Int, NEW a \in Int, NEW b \in Int, NEW c \in Int, Congruent(p, a, b), Congruent(p, b, c)
  PROVE  Congruent(p, a, c)
<1>1. p \in Int
  OBVIOUS
<1>2. PICK q \in Int, r \in Int : a = b + q * p /\ b = c + r * p
  BY Zenon DEF Congruent
<1>3. a = c + (q + r) * p /\ q + r \in Int
  BY <1>1, <1>2
<1> QED
  BY <1>3, Zenon DEF Congruent

(* A sum, and a product, modulo p. *)
LEMMA CongruentSumProduct ==
  ASSUME NEW p \in Int, NEW a \in Int, NEW b \in Int, NEW c \in Int, NEW d \in Int, Congruent(p, a, b)
  PROVE  Congruent(p, (a + c) * d, (b + c) * d)
<1>1. p \in Int
  OBVIOUS
<1>2. PICK q \in Int : a = b + q * p
  BY Zenon DEF Congruent
<1>3. (a + c) * d = (b + c) * d + (q * d) * p /\ q * d \in Int
  BY <1>1, <1>2
<1> QED
  BY <1>3, Zenon DEF Congruent

LEMMA CongruentAdds ==
  ASSUME NEW p \in Int, NEW a \in Int, NEW b \in Int, NEW c \in Int, NEW d \in Int,
         NEW e \in Int, Congruent(p, a, b), Congruent(p, c, d)
  PROVE  Congruent(p, a + e * c, b + e * d)
<1>1. PICK q \in Int, r \in Int : a = b + q * p /\ c = d + r * p
  BY Zenon DEF Congruent
<1>2. a + e * c = (b + e * d) + (q + e * r) * p /\ q + e * r \in Int
  BY <1>1
<1> QED
  BY <1>2, Zenon DEF Congruent

LEMMA CongruentTimes ==
  ASSUME NEW p \in Int, NEW a \in Int, NEW b \in Int, NEW c \in Int, NEW d \in Int,
         Congruent(p, a, b), Congruent(p, c, d)
  PROVE  Congruent(p, a * c, b * d)
<1>1. PICK q \in Int, r \in Int : a = b + q * p /\ c = d + r * p
  BY Zenon DEF Congruent
<1>2. a * c = b * d + (b * r + q * d + (q * r) * p) * p
  BY <1>1
<1>3. b * r + q * d + (q * r) * p \in Int
  <2>1. b * r \in Int /\ q * d \in Int /\ q * r \in Int
    BY <1>1
  <2>2. (q * r) * p \in Int
    BY <2>1, Product
  <2> QED
    BY <2>1, <2>2
<1> QED
  BY <1>2, <1>3, Zenon DEF Congruent

-----------------------------------------------------------------------------
(* The product of two numbers modulo p, one of them row by row *)

\* What limb j of the one is multiplied by, for each limb of the product.
Row(n, wrap, r, j) ==
    [i \in 0 .. n |-> IF j <= i THEN r[i - j] ELSE wrap * r[i + (n + 1) - j]]

Products(n, wrap, h, r, i) == [j \in 0 .. n |-> h[j] * Row(n, wrap, r, j)[i]]

\* A limb that leaves at the top comes back wrap times.
Wraps(n, P, wrap, p) == wrap \in Int /\ p \in Int /\ Congruent(p, wrap, P[n + 1])

LEMMA RowType ==
  ASSUME NEW n, NEW base, NEW P, Powers(n, base, P),
         NEW wrap, NEW p, Wraps(n, P, wrap, p), 
         NEW r \in [0 .. n -> Int], NEW j \in 0 .. n
  PROVE  /\ Row(n, wrap, r, j) \in [0 .. n -> Int]
         /\ \A i \in 0 .. n : Row(n, wrap, r, j)[i] \in Int
<1>. n \in Nat /\ n > 0 /\ base \in Nat /\ base > 1
  BY PowersOf, Zenon
<1>. wrap \in Int /\ p \in Int
  BY Zenon DEF Wraps
<1>1. ASSUME NEW i \in 0 .. n
      PROVE  (IF j <= i THEN r[i - j] ELSE wrap * r[i + (n + 1) - j]) \in Int
  <2>1. CASE j <= i
    BY <2>1
  <2>2. CASE ~(j <= i)
    <3>1. r[i + (n + 1) - j] \in Int
      BY <2>2
    <3> QED
      BY <2>2, <3>1, Product, Zenon
  <2> QED
    BY <2>1, <2>2
<1> QED
  BY <1>1, Zenon DEF Row

LEMMA RowValue ==
  ASSUME NEW n, NEW base, NEW P, Powers(n, base, P),
         NEW wrap, NEW p, Wraps(n, P, wrap, p), 
         NEW r \in [0 .. n -> Int], NEW j \in 0 .. n
  PROVE  Congruent(p, ValueIn(n, P, Row(n, wrap, r, j)), P[j] * ValueIn(n, P, r))
<1>. n \in Nat /\ n > 0 /\ base \in Nat /\ base > 1
  BY PowersOf, Zenon
<1>. wrap \in Int /\ p \in Int
  BY Zenon DEF Wraps
<1> DEFINE S == {k \in 0 .. n :
                    Congruent(p, ValueIn(n, P, Row(n, wrap, r, k)), P[k] * ValueIn(n, P, r))}
           v == ValueIn(n, P, r)
<1>1. v \in Int
  BY ValueInType
<1>. PICK e \in Int : wrap = P[n + 1] + e * p
  BY Zenon DEF Wraps, Congruent
<1>2. 0 \in S
  <2>1. 0 \in 0 .. n /\ \A i \in 0 .. n : 0 <= i /\ i - 0 = i
    OBVIOUS
  <2>2. Row(n, wrap, r, 0) = [i \in 0 .. n |-> r[i]]
    BY <2>1, Zenon DEF Row
  <2>3. Row(n, wrap, r, 0) = r
    BY <2>2
  <2> HIDE DEF v
  <2>4. v = 1 * v + 0 * p /\ 0 \in Int
    BY <1>1
  <2>5. Congruent(p, v, 1 * v)
    BY <2>4, Zenon DEF Congruent
  <2> QED
    BY <2>1, <2>3, <2>5, PowersOf, Zenon DEF v
<1>3. ASSUME NEW k \in 0 .. n - 1, k \in S PROVE k + 1 \in S
  <2>1. k \in 0 .. n /\ k + 1 \in 0 .. n
    OBVIOUS
  <2> DEFINE x == Row(n, wrap, r, k)
             y == Row(n, wrap, r, k + 1)
             a == x[n]
             c == P[k]
  <2>2. x \in [0 .. n -> Int] /\ y \in [0 .. n -> Int]
    BY <2>1, RowType
  <2>3. n \in 0 .. n /\ 0 \in 0 .. n /\ a \in Int /\ ValueIn(n, P, x) \in Int
    <3>1. n \in 0 .. n /\ 0 \in 0 .. n
      OBVIOUS
    <3> HIDE DEF x
    <3> QED
      BY <2>2, <3>1, ValueInType
  <2>4. y[0] = wrap * x[n]
    <3>1. ~(k + 1 <= 0) /\ k <= n /\ 0 + (n + 1) - (k + 1) = n - k
      OBVIOUS
    <3>2. /\ y[0] = IF k + 1 <= 0 THEN r[0 - (k + 1)] ELSE wrap * r[0 + (n + 1) - (k + 1)]
          /\ x[n] = IF k <= n THEN r[n - k] ELSE wrap * r[n + (n + 1) - k]
      BY <2>3, Zenon DEF Row
    <3> QED
      BY <3>1, <3>2, Zenon
  <2>5. \A i \in 1 .. n : y[i] = x[i - 1]
    <3> TAKE i \in 1 .. n
    <3>1. /\ i \in 0 .. n /\ i - 1 \in 0 .. n /\ (k + 1 <= i <=> k <= i - 1)
          /\ i - (k + 1) = (i - 1) - k /\ i + (n + 1) - (k + 1) = (i - 1) + (n + 1) - k
      OBVIOUS
    <3>2. /\ y[i] = IF k + 1 <= i THEN r[i - (k + 1)] ELSE wrap * r[i + (n + 1) - (k + 1)]
          /\ x[i - 1] = IF k <= i - 1 THEN r[(i - 1) - k] ELSE wrap * r[(i - 1) + (n + 1) - k]
      BY <3>1, Zenon DEF Row
    <3> HIDE DEF x, y
    <3>3. CASE k <= i - 1
      BY <3>1, <3>2, <3>3, Zenon
    <3>4. CASE ~(k <= i - 1)
      BY <3>1, <3>2, <3>4, Zenon
    <3> QED
      BY <3>3, <3>4, Zenon
  <2>6. Congruent(p, ValueIn(n, P, x), c * v)
    BY <1>3, Zenon
  <2>7. c \in Int /\ P[k + 1] = base * c
    BY <2>1, PowersOf
  <2> HIDE DEF x, y, v, S
  <2>8. ValueIn(n, P, y) = base * ValueIn(n, P, x) + a * (e * p)
    <3>1. ValueIn(n, P, y) = base * ValueIn(n, P, x) + x[n] * (wrap - P[n + 1])
      <4>1. Shifted(n, wrap, x, y)
        BY <2>2, <2>4, <2>5, Zenon DEF Shifted
      <4> QED
        BY <4>1, Rotated
    <3>2. P[n + 1] \in Int /\ e * p \in Int
      BY <2>3, PowersOf, Product
    <3>3. wrap - P[n + 1] = e * p
      BY <3>2
    <3> QED
      BY <3>1, <3>3, Zenon
  <2>9. PICK q \in Int : ValueIn(n, P, x) = c * v + q * p
    BY <2>6, Zenon DEF Congruent
  <2> HIDE DEF a, c
  <2>10. ValueIn(n, P, y) = (base * c) * v + (base * q + a * e) * p
    <3>1. base * (c * v + q * p) + a * (e * p) = (base * c) * v + (base * q + a * e) * p
      BY <1>1, <2>3, <2>7, <2>9
    <3> QED
      BY <2>8, <2>9, <3>1, Zenon
  <2>11. base * q + a * e \in Int
    BY <1>1, <2>3, <2>9
  <2>12. Congruent(p, ValueIn(n, P, y), P[k + 1] * v)
    BY <2>7, <2>10, <2>11, Zenon DEF Congruent
  <2> QED
    BY <2>1, <2>12, Zenon DEF S, y, v
<1> HIDE DEF S
<1>4. \A k \in 0 .. n : k \in S
  BY <1>2, <1>3, UpTo, Zenon
<1> QED
  BY <1>4, Zenon DEF S, v

ProductOf(n, wrap, h, r) == [i \in 0 .. n |-> SumTo(n, Products(n, wrap, h, r, i))]

LEMMA ProductType ==
  ASSUME NEW n, NEW base, NEW P, Powers(n, base, P),
         NEW wrap, NEW p, Wraps(n, P, wrap, p),
         NEW h \in [0 .. n -> Int], NEW r \in [0 .. n -> Int]
  PROVE  ProductOf(n, wrap, h, r) \in [0 .. n -> Int]
<1>. n \in Nat /\ n > 0 /\ base \in Nat /\ base > 1
  BY PowersOf, Zenon
<1>. wrap \in Int /\ p \in Int
  BY Zenon DEF Wraps
<1>1. ASSUME NEW i \in 0 .. n PROVE SumTo(n, Products(n, wrap, h, r, i)) \in Int
  <2>1. \A j \in 0 .. n : h[j] * Row(n, wrap, r, j)[i] \in Int
    <3> TAKE j \in 0 .. n
    <3>1. h[j] \in Int
      OBVIOUS
    <3> QED
      BY <3>1, RowType, Product, Zenon
  <2>2. Products(n, wrap, h, r, i) \in [0 .. n -> Int]
    BY <2>1, Zenon DEF Products
  <2> QED
    BY <2>2, SumToType, Zenon
<1> QED
  BY <1>1, Zenon DEF ProductOf

(* The value of a product is the sum of its rows. *)
RowValues(n, P, wrap, h, r) == [j \in 0 .. n |-> h[j] * ValueIn(n, P, Row(n, wrap, r, j))]

LEMMA RowsValue ==
  ASSUME NEW n, NEW base, NEW P, Powers(n, base, P),
         NEW wrap, NEW p, Wraps(n, P, wrap, p),
         NEW h \in [0 .. n -> Int], NEW r \in [0 .. n -> Int]
  PROVE  /\ RowValues(n, P, wrap, h, r) \in [0 .. n -> Int]
         /\ ValueIn(n, P, ProductOf(n, wrap, h, r)) = SumTo(n, RowValues(n, P, wrap, h, r))
<1>. n \in Nat /\ n > 0 /\ base \in Nat /\ base > 1
  BY PowersOf, Zenon
<1>. wrap \in Int /\ p \in Int
  BY Zenon DEF Wraps
<1> DEFINE f == RowValues(n, P, wrap, h, r)
           Is(i, s) == SumsTo(n, Products(n, wrap, h, r, i), s) /\ SumTo(n, Products(n, wrap, h, r, i)) = s[n]
           s == [i \in 0 .. n |-> CHOOSE t : Is(i, t)]
           c == [k \in 0 .. n |-> [i \in 0 .. n |-> s[i][k]]]
           t == [k \in 0 .. n |-> ValueIn(n, P, c[k])]
           x == ProductOf(n, wrap, h, r)
<1>1. /\ \A j \in 0 .. n : h[j] \in Int /\ Row(n, wrap, r, j) \in [0 .. n -> Int]
      /\ \A j \in 0 .. n, i \in 0 .. n : Row(n, wrap, r, j)[i] \in Int
  <2>1. \A j \in 0 .. n : h[j] \in Int
    OBVIOUS
  <2> QED
    BY <2>1, RowType, Zenon
<1>2. \A j \in 0 .. n : h[j] * ValueIn(n, P, Row(n, wrap, r, j)) \in Int
  <2> TAKE j \in 0 .. n
  <2>1. ValueIn(n, P, Row(n, wrap, r, j)) \in Int /\ h[j] \in Int
    BY <1>1, ValueInType
  <2> QED
    BY <2>1, Product, Zenon
<1>3. f \in [0 .. n -> Int] /\ \A j \in 0 .. n : f[j] = h[j] * ValueIn(n, P, Row(n, wrap, r, j))
  BY <1>2, Zenon DEF RowValues
<1>4. ASSUME NEW i \in 0 .. n
      PROVE  /\ Is(i, s[i])
             /\ \A j \in 0 .. n : Products(n, wrap, h, r, i)[j] = h[j] * Row(n, wrap, r, j)[i]
  <2>1. \A j \in 0 .. n : h[j] * Row(n, wrap, r, j)[i] \in Int
    BY <1>1, Product, Zenon
  <2>2. Products(n, wrap, h, r, i) \in [0 .. n -> Int]
    BY <2>1, Zenon DEF Products
  <2>3. \E u : Is(i, u)
    BY <2>2, SumsToExist, Zenon
  <2>4. s[i] = CHOOSE u : Is(i, u)
    BY Zenon
  <2> HIDE DEF s
  <2>5. Is(i, s[i])
    BY <2>3, <2>4, Zenon
  <2>6. \A j \in 0 .. n : Products(n, wrap, h, r, i)[j] = h[j] * Row(n, wrap, r, j)[i]
    BY Zenon DEF Products
  <2> QED
    BY <2>5, <2>6, Zenon
<1> HIDE DEF s
<1>5. 0 \in 0 .. n /\ n \in 0 .. n
  OBVIOUS
<1>6. ASSUME NEW i \in 0 .. n
      PROVE  /\ s[i] \in [0 .. n -> Int] /\ s[i][0] = 0 + h[0] * Row(n, wrap, r, 0)[i]
             /\ \A k \in 1 .. n : s[i][k] = s[i][k - 1] + h[k] * Row(n, wrap, r, k)[i]
             /\ x[i] = s[i][n]
  <2>1. SumsTo(n, Products(n, wrap, h, r, i), s[i]) /\ SumTo(n, Products(n, wrap, h, r, i)) = s[i][n]
    BY <1>4, Zenon
  <2>2. s[i] \in [0 .. n -> Int] /\ s[i][0] = h[0] * Row(n, wrap, r, 0)[i]
    BY <1>4, <1>5, <2>1, Zenon DEF SumsTo
  <2>3. \A k \in 1 .. n : k \in 0 .. n
    OBVIOUS
  <2>4. \A k \in 1 .. n : s[i][k] = s[i][k - 1] + h[k] * Row(n, wrap, r, k)[i]
    BY <1>4, <2>1, <2>3, Zenon DEF SumsTo
  <2>5. x[i] = s[i][n]
    <3>1. x = [l \in 0 .. n |-> SumTo(n, Products(n, wrap, h, r, l))]
      BY Zenon DEF ProductOf
    <3> HIDE DEF x
    <3> QED
      BY <2>1, <3>1, Zenon
  <2>6. h[0] * Row(n, wrap, r, 0)[i] \in Int
    BY <1>1, <1>5, Product, Zenon
  <2>7. h[0] * Row(n, wrap, r, 0)[i] = 0 + h[0] * Row(n, wrap, r, 0)[i]
    <3> DEFINE e == h[0] * Row(n, wrap, r, 0)[i]
    <3> HIDE DEF e
    <3>1. e = 0 + e
      BY <2>6 DEF e
    <3> QED
      BY <3>1, Zenon DEF e
  <2> QED
    BY <2>2, <2>4, <2>5, <2>7, Zenon
<1>7. ASSUME NEW k \in 0 .. n
      PROVE  c[k] \in [0 .. n -> Int] /\ \A i \in 0 .. n : c[k][i] = s[i][k]
  <2>1. \A i \in 0 .. n : s[i][k] \in Int
    BY <1>6
  <2> QED
    BY <2>1, Zenon
<1> HIDE DEF c
<1>8. t \in [0 .. n -> Int] /\ \A k \in 0 .. n : t[k] = ValueIn(n, P, c[k])
  <2>1. \A k \in 0 .. n : ValueIn(n, P, c[k]) \in Int
    BY <1>7, ValueInType, Zenon
  <2> QED
    BY <2>1, Zenon
<1> HIDE DEF t
<1>9. t[0] = f[0]
  <2>1. \A i \in 0 .. n : c[0][i] = NoLimbs(n)[i] + h[0] * Row(n, wrap, r, 0)[i]
    <3> TAKE i \in 0 .. n
    <3>1. NoLimbs(n)[i] = 0
      BY DEF NoLimbs
    <3> QED
      BY <1>5, <1>6, <1>7, <3>1, Zenon
  <2>3. /\ c[0] \in [0 .. n -> Int] /\ NoLimbs(n) \in [0 .. n -> Int] /\ h[0] \in Int
        /\ Row(n, wrap, r, 0) \in [0 .. n -> Int]
    BY <1>1, <1>5, <1>7, NoLimbsAre, Zenon
  <2>2. Combines(n, c[0], NoLimbs(n), h[0], Row(n, wrap, r, 0))
    BY <2>1, <2>3, Zenon DEF Combines
  <2>4. ValueIn(n, P, c[0]) = ValueIn(n, P, NoLimbs(n)) + h[0] * ValueIn(n, P, Row(n, wrap, r, 0))
    BY <2>2, ValueInAdds
  <2>5. ValueIn(n, P, c[0]) = 0 + f[0] /\ f[0] \in Int
    BY <1>3, <1>5, <2>4, NoLimbsAre, Zenon
  <2> QED
    BY <1>5, <1>8, <2>5
<1>10. ASSUME NEW k \in 1 .. n PROVE t[k] = t[k - 1] + f[k]
  <2>1. k \in 0 .. n /\ k - 1 \in 0 .. n
    OBVIOUS
  <2>2. \A i \in 0 .. n : c[k][i] = c[k - 1][i] + h[k] * Row(n, wrap, r, k)[i]
    BY <1>6, <1>7, <2>1, Zenon
  <2>4. /\ c[k] \in [0 .. n -> Int] /\ c[k - 1] \in [0 .. n -> Int] /\ h[k] \in Int
        /\ Row(n, wrap, r, k) \in [0 .. n -> Int]
    BY <1>1, <1>7, <2>1, Zenon
  <2>3. Combines(n, c[k], c[k - 1], h[k], Row(n, wrap, r, k))
    BY <2>2, <2>4, Zenon DEF Combines
  <2>5. ValueIn(n, P, c[k]) = ValueIn(n, P, c[k - 1]) + h[k] * ValueIn(n, P, Row(n, wrap, r, k))
    BY <2>3, ValueInAdds
  <2> QED
    BY <1>3, <1>8, <2>1, <2>5, Zenon
<1> HIDE DEF f
<1>11. SumsTo(n, f, t)
  BY <1>8, <1>9, <1>10, Zenon DEF SumsTo
<1>12. SumTo(n, f) = t[n]
  BY <1>3, <1>11, SumToBy, Zenon
<1>13. x = c[n]
  <2>1. x \in [0 .. n -> Int] /\ c[n] \in [0 .. n -> Int]
    <3>1. x \in [0 .. n -> Int]
      BY ProductType, Zenon
    <3> HIDE DEF x
    <3> QED
      BY <1>5, <1>7, <3>1
  <2>2. \A i \in 0 .. n : x[i] = c[n][i]
    BY <1>5, <1>6, <1>7, Zenon
  <2> HIDE DEF x
  <2> QED
    BY <2>1, <2>2
<1>14. ValueIn(n, P, x) = SumTo(n, f)
  BY <1>5, <1>8, <1>12, <1>13, Zenon
<1> QED
  BY <1>3, <1>14, Zenon DEF f, x

(* A product of the accumulator and r, modulo p. *)
LEMMA ProductValue ==
  ASSUME NEW n, NEW base, NEW P, Powers(n, base, P),
         NEW wrap, NEW p, Wraps(n, P, wrap, p),
         NEW h \in [0 .. n -> Int], NEW r \in [0 .. n -> Int]
  PROVE  Congruent(p, ValueIn(n, P, ProductOf(n, wrap, h, r)), ValueIn(n, P, h) * ValueIn(n, P, r))
<1>. n \in Nat /\ n > 0 /\ base \in Nat /\ base > 1
  BY PowersOf, Zenon
<1>. wrap \in Int /\ p \in Int
  BY Zenon DEF Wraps
<1> DEFINE f == RowValues(n, P, wrap, h, r)
           v == ValueIn(n, P, r)
           Q(j, q) == q \in Int /\ ValueIn(n, P, Row(n, wrap, r, j)) = P[j] * v + q * p
           q == [j \in 0 .. n |-> CHOOSE e : Q(j, e)]
           b == [j \in 0 .. n |-> h[j] * q[j]]
           g == [j \in 0 .. n |-> v * TermsIn(n, P, h)[j]]
<1>1. f \in [0 .. n -> Int] /\ ValueIn(n, P, ProductOf(n, wrap, h, r)) = SumTo(n, f)
  BY RowsValue, Zenon
<1>2. \A j \in 0 .. n : f[j] = h[j] * ValueIn(n, P, Row(n, wrap, r, j))
  BY Zenon DEF RowValues
<1>3. v \in Int /\ p \in Int /\ h \in [0 .. n -> Int]
  BY ValueInType
<1>4. ASSUME NEW j \in 0 .. n PROVE Q(j, q[j])
  <2>1. \E e \in Int : ValueIn(n, P, Row(n, wrap, r, j)) = P[j] * v + e * p
    <3>1. Congruent(p, ValueIn(n, P, Row(n, wrap, r, j)), P[j] * v)
      BY RowValue
    <3> QED
      BY <3>1, Zenon DEF Congruent
  <2>2. q[j] = CHOOSE e : Q(j, e)
    BY Zenon
  <2> HIDE DEF q
  <2> QED
    BY <2>1, <2>2, Zenon
<1>5. \A j \in 0 .. n : h[j] \in Int /\ TermsIn(n, P, h)[j] \in Int /\ TermsIn(n, P, h)[j] = h[j] * P[j]
  BY <1>3, TermsInType, Zenon DEF TermsIn
<1> HIDE DEF q, f
<1>6. b \in [0 .. n -> Int] /\ \A j \in 0 .. n : b[j] = h[j] * q[j]
  <2>1. \A j \in 0 .. n : h[j] * q[j] \in Int
    BY <1>4, <1>5, Product, Zenon
  <2> QED
    BY <2>1, Zenon
<1>7. g \in [0 .. n -> Int] /\ \A j \in 0 .. n : g[j] = v * TermsIn(n, P, h)[j]
  <2>1. \A j \in 0 .. n : v * TermsIn(n, P, h)[j] \in Int
    BY <1>3, <1>5, Product, Zenon
  <2> QED
    BY <2>1, Zenon
<1> HIDE DEF b, g
<1>8. \A j \in 0 .. n : f[j] = g[j] + p * b[j]
  <2> TAKE j \in 0 .. n
  <2> DEFINE d == h[j]
             c == P[j]
             e == q[j]
  <2>1. d \in Int /\ c \in Int /\ e \in Int
    BY <1>4, <1>5, PowersOf
  <2>2. f[j] = d * (c * v + e * p)
    BY <1>2, <1>4, Zenon
  <2>3. g[j] = v * (d * c) /\ b[j] = d * e
    BY <1>5, <1>6, <1>7, Zenon
  <2> HIDE DEF d, c, e, v
  <2>4. d * (c * v + e * p) = v * (d * c) + p * (d * e)
    BY <1>3, <2>1
  <2> QED
    BY <2>2, <2>3, <2>4, Zenon
<1>9. Combines(n, f, g, p, b)
  BY <1>1, <1>3, <1>6, <1>7, <1>8, Zenon DEF Combines
<1>10. SumTo(n, f) = SumTo(n, g) + p * SumTo(n, b)
  BY <1>9, SumToAdds, Zenon
<1>11. SumTo(n, g) = 0 + v * ValueIn(n, P, h)
  <2>1. ValueIn(n, P, h) = SumTo(n, TermsIn(n, P, h))
    BY Zenon DEF ValueIn, TermsIn
  <2>2. \A j \in 0 .. n : g[j] = NoLimbs(n)[j] + v * TermsIn(n, P, h)[j]
    <3> TAKE j \in 0 .. n
    <3>1. NoLimbs(n)[j] = 0
      BY DEF NoLimbs
    <3>2. g[j] = v * TermsIn(n, P, h)[j] /\ g[j] \in Int
      BY <1>7
    <3>3. g[j] = 0 + g[j]
      BY <3>2
    <3> QED
      BY <3>1, <3>2, <3>3, Zenon
  <2>3. Combines(n, g, NoLimbs(n), v, TermsIn(n, P, h))
    BY <1>3, <1>7, <2>2, NoLimbsAre, TermsInType, Zenon DEF Combines
  <2>4. SumTo(n, g) = SumTo(n, NoLimbs(n)) + v * SumTo(n, TermsIn(n, P, h))
    BY <2>3, SumToAdds, Zenon
  <2> QED
    BY <2>1, <2>4, NoLimbsAre, Zenon
<1> DEFINE B == SumTo(n, b)
           H == ValueIn(n, P, h)
           G == SumTo(n, g)
<1>12. B \in Int /\ H \in Int /\ G \in Int
  BY <1>3, <1>6, <1>7, SumToType, ValueInType
<1> HIDE DEF B, H, G, v
<1>13. G + p * B = H * v + B * p
  <2>1. G = 0 + v * H
    BY <1>11, Zenon DEF G, H
  <2> QED
    BY <1>3, <1>12, <2>1
<1>14. ValueIn(n, P, ProductOf(n, wrap, h, r)) = H * v + B * p
  BY <1>1, <1>10, <1>13, Zenon DEF G, B
<1> QED
  BY <1>12, <1>14, Zenon DEF Congruent, H, v
=============================================================================
