-------------------------- MODULE FiniteSumsProofs --------------------------
(***************************************************************************)
(* What the sums of FiniteSums do when rows change.  The induction is over *)
(* the SET of indices at which a fact holds (an operator cannot be a       *)
(* parameter of a library theorem here), by way of least elements.         *)
(***************************************************************************)
EXTENDS FiniteSums, WellFoundedInduction, TLAPS

\* Every non-empty set of naturals has a least element.
LEMMA LeastElement ==
  ASSUME NEW T, T \subseteq Nat, T # {}
  PROVE  \E x \in T : \A y \in T : x <= y
<1>1. IsWellFoundedOn(OpToRel(<, Nat), Nat)
  BY NatLessThanWellFounded
<1>2. PICK x \in T : \A y \in T : ~ (<<y, x>> \in OpToRel(<, Nat))
  BY <1>1, WFMin
<1>3. \A y \in T : ~ (y < x)
  BY <1>2 DEF OpToRel
<1>4. \A y \in T : x \in Int /\ y \in Int
  OBVIOUS
<1>5. \A y \in T : x <= y
  BY <1>3, <1>4
<1>6. QED
  BY <1>5

\* Induction for a set: one that holds 0 and is closed under +1 is Nat.
LEMMA SetInduction ==
  ASSUME NEW T, T \subseteq Nat, 0 \in T, \A n \in Nat : n \in T => n + 1 \in T
  PROVE  T = Nat
<1>1. SUFFICES ASSUME T # Nat PROVE FALSE
  OBVIOUS
<1>2. Nat \ T # {}
  BY <1>1
<1>3. PICK x \in Nat \ T : \A y \in Nat \ T : x <= y
  BY <1>2, LeastElement
<1>4. x # 0
  OBVIOUS
<1>5. x - 1 \in Nat
  BY <1>4
<1>6. x - 1 \in T
  BY <1>5, <1>3
<1>7. (x - 1) + 1 \in T
  BY <1>5, <1>6
<1>8. QED
  BY <1>7

\* The recursion that PartialSums states has a solution, in the integers.
LEMMA PartialSumsExist ==
  ASSUME NEW N \in Nat, NEW f \in [1..N -> Int]
  PROVE  \E s \in [0..N -> Int] :
            s = [i \in 0..N |-> IF i = 0 THEN 0 ELSE s[i - 1] + f[i]]
<1> DEFINE Good(n, s) == \A i \in 0..n : s[i] = IF i = 0 THEN 0 ELSE s[i - 1] + f[i]
           T == {n \in Nat : n <= N => \E s \in [0..n -> Int] : Good(n, s)}
<1>1. 0 \in T
  <2>1. [i \in 0..0 |-> 0] \in [0..0 -> Int] /\ Good(0, [i \in 0..0 |-> 0])
    OBVIOUS
  <2>2. QED
    BY <2>1
<1>2. ASSUME NEW n \in Nat, n \in T PROVE n + 1 \in T
  <2>1. SUFFICES ASSUME n + 1 <= N
                 PROVE  \E s \in [0..(n + 1) -> Int] : Good(n + 1, s)
    <3>1. n + 1 \in Nat
      OBVIOUS
    <3>2. QED
      BY <3>1, Zenon DEF T
  <2>2. n <= N
    BY <2>1
  <2>3. PICK s \in [0..n -> Int] : Good(n, s)
    BY <1>2, <2>2, Zenon DEF T
  <2> DEFINE t == [i \in 0..(n + 1) |-> IF i = n + 1 THEN s[n] + f[n + 1] ELSE s[i]]
  <2>4. f[n + 1] \in Int /\ s[n] \in Int
    BY <2>1
  <2>5. t \in [0..(n + 1) -> Int]
    BY <2>4
  <2>6. ASSUME NEW i \in 0..(n + 1)
        PROVE  t[i] = IF i = 0 THEN 0 ELSE t[i - 1] + f[i]
    <3>1. CASE i = n + 1
      <4>1. i - 1 = n /\ i - 1 \in 0..(n + 1) /\ i - 1 # n + 1 /\ i # 0
        BY <3>1
      <4>2. QED
        BY <3>1, <4>1
    <3>2. CASE i # n + 1
      <4>1. i \in 0..n
        BY <3>2
      <4>2. s[i] = IF i = 0 THEN 0 ELSE s[i - 1] + f[i]
        BY <4>1, <2>3
      <4>3. i # 0 => i - 1 \in 0..(n + 1) /\ i - 1 # n + 1
        BY <4>1
      <4>4. QED
        BY <4>1, <4>2, <4>3, <3>2
    <3>3. QED
      BY <3>1, <3>2
  <2>7. QED
    BY <2>5, <2>6
<1>3. T = Nat
  <2>1. T \subseteq Nat
    BY DEF T
  <2> HIDE DEF T
  <2>2. QED
    BY <1>1, <1>2, <2>1, SetInduction
<1>4. PICK s \in [0..N -> Int] : Good(N, s)
  <2>1. N \in T
    BY <1>3
  <2>2. N <= N
    OBVIOUS
  <2> HIDE DEF Good
  <2>3. QED
    BY <2>1, <2>2, Zenon DEF T
<1>5. s = [i \in 0..N |-> IF i = 0 THEN 0 ELSE s[i - 1] + f[i]]
  BY <1>4
<1>6. QED
  BY <1>5

\* PartialSums therefore satisfies its own recursion...
LEMMA PartialSumsDef ==
  ASSUME NEW N \in Nat, NEW f \in [1..N -> Int]
  PROVE  /\ PartialSums(f, N)[0] = 0
         /\ \A i \in 1..N : PartialSums(f, N)[i] = PartialSums(f, N)[i - 1] + f[i]
<1> DEFINE P(s) == s = [i \in 0..N |-> IF i = 0 THEN 0 ELSE s[i - 1] + f[i]]
<1>1. \E s : P(s)
  BY PartialSumsExist
<1>2. PartialSums(f, N) = CHOOSE s : P(s)
  BY DEF PartialSums
<1>3. P(PartialSums(f, N))
  BY <1>1, <1>2
<1>4. ASSUME NEW s, P(s)
      PROVE  s[0] = 0 /\ \A i \in 1..N : s[i] = s[i - 1] + f[i]
  BY <1>4
<1>5. QED
  <2> HIDE DEF P
  <2>1. QED
    BY <1>3, <1>4

\* ... and each partial sum is an integer.
LEMMA PartialSumsType ==
  ASSUME NEW N \in Nat, NEW f \in [1..N -> Int]
  PROVE  \A i \in 0..N : PartialSums(f, N)[i] \in Int
<1> DEFINE s == PartialSums(f, N)
           T == {n \in Nat : n <= N => s[n] \in Int}
<1>1. s[0] = 0 /\ \A i \in 1..N : s[i] = s[i - 1] + f[i]
  BY PartialSumsDef
<1> HIDE DEF s
<1>2. 0 \in T
  BY <1>1
<1>3. ASSUME NEW n \in Nat, n \in T PROVE n + 1 \in T
  <2>1. SUFFICES ASSUME n + 1 <= N PROVE s[n + 1] \in Int
    OBVIOUS
  <2>2. n + 1 \in 1..N /\ (n + 1) - 1 = n /\ s[n] \in Int
    BY <1>3, <2>1
  <2>3. s[n + 1] = s[n] + f[n + 1]
    BY <1>1, <2>2
  <2>4. QED
    BY <2>2, <2>3
<1>4. T = Nat
  <2>1. T \subseteq Nat
    BY DEF T
  <2> HIDE DEF T
  <2>2. QED
    BY <1>2, <1>3, <2>1, SetInduction
<1>5. QED
  BY <1>4 DEF s

\* A sum of integers is an integer; a sum of naturals a natural.
LEMMA TotalType ==
  ASSUME NEW N \in Nat, NEW f \in [1..N -> Int]
  PROVE  Total(f, N) \in Int
BY PartialSumsType DEF Total

LEMMA TotalNat ==
  ASSUME NEW N \in Nat, NEW f \in [1..N -> Nat]
  PROVE  Total(f, N) \in Nat
<1> DEFINE s == PartialSums(f, N)
           T == {n \in Nat : n <= N => s[n] \in Nat}
<1>1. s[0] = 0 /\ \A i \in 1..N : s[i] = s[i - 1] + f[i]
  <2>1. f \in [1..N -> Int]
    OBVIOUS
  <2>2. QED
    BY <2>1, PartialSumsDef
<1> HIDE DEF s
<1>2. 0 \in T
  BY <1>1
<1>3. ASSUME NEW n \in Nat, n \in T PROVE n + 1 \in T
  <2>1. SUFFICES ASSUME n + 1 <= N PROVE s[n + 1] \in Nat
    OBVIOUS
  <2>2. n + 1 \in 1..N /\ (n + 1) - 1 = n /\ s[n] \in Nat
    BY <1>3, <2>1
  <2>3. s[n + 1] = s[n] + f[n + 1]
    BY <1>1, <2>2
  <2>4. QED
    BY <2>2, <2>3
<1>4. T = Nat
  <2>1. T \subseteq Nat
    BY DEF T
  <2> HIDE DEF T
  <2>2. QED
    BY <1>2, <1>3, <2>1, SetInduction
<1>5. s[N] \in Nat
  BY <1>4
<1>6. QED
  BY <1>5 DEF Total, s

\* Sums add row by row.
LEMMA TotalPlus ==
  ASSUME NEW N \in Nat, NEW f \in [1..N -> Int], NEW g \in [1..N -> Int],
         NEW h \in [1..N -> Int], \A i \in 1..N : h[i] = f[i] + g[i]
  PROVE  Total(h, N) = Total(f, N) + Total(g, N)
<1> DEFINE a == PartialSums(f, N)
           b == PartialSums(g, N)
           c == PartialSums(h, N)
           T == {n \in Nat : n <= N => c[n] = a[n] + b[n]}
<1>1. a[0] = 0 /\ \A i \in 1..N : a[i] = a[i - 1] + f[i]
  BY PartialSumsDef
<1>2. b[0] = 0 /\ \A i \in 1..N : b[i] = b[i - 1] + g[i]
  BY PartialSumsDef
<1>3. c[0] = 0 /\ \A i \in 1..N : c[i] = c[i - 1] + h[i]
  BY PartialSumsDef
<1>4. \A i \in 0..N : a[i] \in Int /\ b[i] \in Int
  BY PartialSumsType
<1> HIDE DEF a, b, c
<1>5. 0 \in T
  BY <1>1, <1>2, <1>3
<1>6. ASSUME NEW n \in Nat, n \in T PROVE n + 1 \in T
  <2>1. SUFFICES ASSUME n + 1 <= N PROVE c[n + 1] = a[n + 1] + b[n + 1]
    OBVIOUS
  <2>2. n + 1 \in 1..N /\ (n + 1) - 1 = n /\ n \in 0..N
    BY <2>1
  <2>3. c[n] = a[n] + b[n]
    BY <1>6, <2>1
  <2>4. /\ a[n + 1] = a[n] + f[n + 1]
        /\ b[n + 1] = b[n] + g[n + 1]
        /\ c[n + 1] = c[n] + (f[n + 1] + g[n + 1])
    BY <1>1, <1>2, <1>3, <2>2
  <2>5. f[n + 1] \in Int /\ g[n + 1] \in Int /\ a[n] \in Int /\ b[n] \in Int
    BY <1>4, <2>2
  <2>6. QED
    BY <2>3, <2>4, <2>5
<1>7. T = Nat
  <2>1. T \subseteq Nat
    BY DEF T
  <2> HIDE DEF T
  <2>2. QED
    BY <1>5, <1>6, <2>1, SetInduction
<1>8. c[N] = a[N] + b[N]
  BY <1>7
<1>9. QED
  BY <1>8 DEF Total, a, b, c

\* Changing one row changes the sum by what that row changed.
LEMMA TotalUpdate ==
  ASSUME NEW N \in Nat, NEW f \in [1..N -> Int], NEW g \in [1..N -> Int],
         NEW k \in 1..N, \A i \in 1..N : i # k => g[i] = f[i]
  PROVE  Total(g, N) = Total(f, N) + (g[k] - f[k])
<1> DEFINE a == PartialSums(f, N)
           b == PartialSums(g, N)
           d == g[k] - f[k]
           T == {n \in Nat : n <= N => b[n] = a[n] + (IF n < k THEN 0 ELSE d)}
<1>1. a[0] = 0 /\ \A i \in 1..N : a[i] = a[i - 1] + f[i]
  BY PartialSumsDef
<1>2. b[0] = 0 /\ \A i \in 1..N : b[i] = b[i - 1] + g[i]
  BY PartialSumsDef
<1>3. \A i \in 0..N : a[i] \in Int
  BY PartialSumsType
<1>4. d \in Int
  OBVIOUS
<1> HIDE DEF a, b
<1>5. 0 \in T
  BY <1>1, <1>2
<1>6. ASSUME NEW n \in Nat, n \in T PROVE n + 1 \in T
  <2>1. SUFFICES ASSUME n + 1 <= N
                 PROVE  b[n + 1] = a[n + 1] + (IF n + 1 < k THEN 0 ELSE d)
    OBVIOUS
  <2>2. n + 1 \in 1..N /\ (n + 1) - 1 = n /\ n \in 0..N
    BY <2>1
  <2>3. b[n] = a[n] + (IF n < k THEN 0 ELSE d)
    BY <1>6, <2>1
  <2>4. a[n + 1] = a[n] + f[n + 1] /\ b[n + 1] = b[n] + g[n + 1]
    BY <1>1, <1>2, <2>2
  <2>5. f[n + 1] \in Int /\ g[n + 1] \in Int /\ a[n] \in Int
    BY <1>3, <2>2
  <2>6. CASE n + 1 = k
    <3>1. n < k /\ ~(n + 1 < k)
      BY <2>6
    <3>2. b[n] = a[n] /\ d = g[n + 1] - f[n + 1]
      <4>1. d = g[n + 1] - f[n + 1]
        BY <2>6
      <4> HIDE DEF d, T
      <4>2. b[n] = a[n]
        BY <2>3, <2>5, <3>1
      <4>3. QED
        BY <4>1, <4>2
    <3> HIDE DEF d
    <3>3. QED
      BY <2>4, <2>5, <3>1, <3>2
  <2>7. CASE n + 1 # k
    <3>1. g[n + 1] = f[n + 1]
      BY <2>2, <2>7
    <3> HIDE DEF d, T
    <3>2. CASE n < k
      <4>1. n + 1 < k
        BY <2>7, <3>2
      <4>2. b[n] = a[n]
        BY <2>3, <2>5, <3>2
      <4>3. QED
        BY <2>4, <2>5, <3>1, <4>1, <4>2
    <3>3. CASE ~(n < k)
      <4>1. ~(n + 1 < k)
        BY <3>3
      <4>2. b[n] = a[n] + d
        BY <2>3, <3>3
      <4>3. QED
        BY <1>4, <2>4, <2>5, <3>1, <4>1, <4>2
    <3>4. QED
      BY <3>2, <3>3
  <2>8. QED
    BY <2>6, <2>7
<1>7. T = Nat
  <2>1. T \subseteq Nat
    BY DEF T
  <2> HIDE DEF T
  <2>2. QED
    BY <1>5, <1>6, <2>1, SetInduction
<1>8. b[N] = a[N] + d
  BY <1>7
<1>9. QED
  BY <1>8 DEF Total, a, b

\* A table of zeros sums to 0.
LEMMA TotalZero ==
  ASSUME NEW N \in Nat
  PROVE  Total([i \in 1..N |-> 0], N) = 0
<1> DEFINE z == [i \in 1..N |-> 0]
<1>1. z \in [1..N -> Int] /\ \A i \in 1..N : z[i] = z[i] + z[i]
  OBVIOUS
<1>2. Total(z, N) \in Int
  BY <1>1, TotalType
<1>3. Total(z, N) = Total(z, N) + Total(z, N)
  <2> HIDE DEF z
  <2>1. QED
    BY <1>1, TotalPlus
<1>4. QED
  BY <1>2, <1>3

=============================================================================
