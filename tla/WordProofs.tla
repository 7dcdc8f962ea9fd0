----------------------------- MODULE WordProofs -----------------------------
(***************************************************************************)
(* Words and numbers, for every width: what the operators of Words do to   *)
(* the values of words; from it, that saturating and multiply-divide       *)
(* arithmetic, bit fields and queries of bits are exact, and that atomics  *)
(* implement their abstract memory.                                        *)
(* Inductions are over sets of natural numbers (LeastNatural, Induction),  *)
(* since a theorem with an operator as a parameter cannot be instantiated. *)
(***************************************************************************)
EXTENDS Atomics, Arithmetic, BitFields, WellFoundedInduction,
        FiniteSetTheorems, FunctionTheorems, TLAPS

\* A set of natural numbers that is not empty has a least one.
LEMMA LeastNatural ==
    ASSUME NEW T \in SUBSET Nat, T # {}
    PROVE  \E n \in T : \A m \in T : n <= m
<1> DEFINE R == OpToRel(<, Nat)
<1>1. IsWellFoundedOn(R, Nat)
    BY NatLessThanWellFounded
<1>2. \A i, j \in Nat : i < j => <<i, j>> \in R
    BY DEF OpToRel
<1> HIDE DEF R
<1>3. PICK n \in T : \A m \in T : ~(<<m, n>> \in R)
    BY <1>1, WFMin
<1>4. n \in Nat /\ \A m \in T : m \in Nat /\ ~(m < n)
    BY <1>2, <1>3
<1>5. \A m \in T : n <= m
    BY <1>4
<1>6. QED
    BY <1>5

\* A set that holds 0, and with each number below n the next, holds n.
LEMMA Induction ==
    ASSUME NEW n \in Nat, NEW T, 0 \in T,
           \A i \in 0..(n - 1) : i \in T => i + 1 \in T
    PROVE  n \in T
<1> DEFINE Bad == {i \in 0..n : i \notin T}
<1> SUFFICES ASSUME Bad # {} PROVE FALSE
    OBVIOUS
<1>0. Bad \in SUBSET Nat
    OBVIOUS
<1>1. PICK i \in Bad : \A j \in Bad : i <= j
    BY <1>0, LeastNatural
<1>2. i \in 1..n /\ i \notin T
    OBVIOUS
<1>3. i - 1 \in 0..(n - 1) /\ i - 1 \in 0..n /\ ~(i <= i - 1) /\ (i - 1) + 1 = i
    BY <1>2
<1>4. i - 1 \in T
    BY <1>1, <1>3
<1>5. QED
    BY <1>2, <1>3, <1>4

-----------------------------------------------------------------------------
(* Powers of two.                                                          *)

\* There are twice as many words of one bit more.
LEMMA PowerDoubles == ASSUME NEW n \in Nat PROVE 2^(n + 1) = 2 * 2^n
<1> DEFINE S == 1..n
           More == {B \cup {n + 1} : B \in SUBSET S}
           f == [B \in SUBSET S |-> B \cup {n + 1}]
<1>1. /\ IsFiniteSet(S) /\ Cardinality(S) = n
      /\ IsFiniteSet(1..(n + 1)) /\ Cardinality(1..(n + 1)) = n + 1
    BY FS_Interval
<1>2. /\ IsFiniteSet(SUBSET S) /\ Cardinality(SUBSET S) = 2^n
      /\ Cardinality(SUBSET (1..(n + 1))) = 2^(n + 1)
    BY <1>1, FS_SUBSET
<1>3. 1..(n + 1) = S \cup {n + 1} /\ n + 1 \notin S
    OBVIOUS
<1> HIDE DEF S
<1>4. SUBSET (1..(n + 1)) = (SUBSET S) \cup More
    <2>1. ASSUME NEW B \in SUBSET (1..(n + 1)), n + 1 \in B PROVE B \in More
        <3>1. B \ {n + 1} \in SUBSET S /\ B = (B \ {n + 1}) \cup {n + 1}
            BY <1>3, <2>1
        <3>2. QED
            BY <3>1
    <2>2. ASSUME NEW B \in SUBSET (1..(n + 1)), n + 1 \notin B PROVE B \in SUBSET S
        BY <1>3, <2>2
    <2>3. ASSUME NEW B \in SUBSET S
          PROVE  B \in SUBSET (1..(n + 1)) /\ B \cup {n + 1} \in SUBSET (1..(n + 1))
        BY <1>3
    <2>4. \A B \in More : B \in SUBSET (1..(n + 1))
        BY <2>3
    <2> HIDE DEF More
    <2>5. QED
        BY <2>1, <2>2, <2>3, <2>4
<1>5. (SUBSET S) \cap More = {}
    <2>1. \A B \in More : n + 1 \in B
        OBVIOUS
    <2> HIDE DEF More
    <2>2. \A B \in SUBSET S : n + 1 \notin B
        BY <1>3
    <2>3. QED
        BY <2>1, <2>2
<1>6. f \in Bijection(SUBSET S, More)
    <2>1. f \in [SUBSET S -> More]
        OBVIOUS
    <2>2. ASSUME NEW A \in SUBSET S, NEW B \in SUBSET S, f[A] = f[B] PROVE A = B
        <3>1. A \cup {n + 1} = B \cup {n + 1}
            BY <2>2
        <3>2. QED
            BY <3>1, <1>3
    <2>3. \A y \in More : \E B \in SUBSET S : f[B] = y
        OBVIOUS
    <2>4. QED
        BY <2>1, <2>2, <2>3, Fun_IsBij
<1> HIDE DEF f
<1>7. ExistsBijection(SUBSET S, More)
    BY <1>6 DEF ExistsBijection
<1> HIDE DEF More
<1>8. IsFiniteSet(More) /\ Cardinality(More) = 2^n
    BY <1>2, <1>7, FS_Bijection
<1>9. Cardinality((SUBSET S) \cup More) = 2^n + 2^n - 0
    <2> DEFINE Half == SUBSET S
    <2>1. Cardinality(Half \cup More)
            = Cardinality(Half) + Cardinality(More) - Cardinality(Half \cap More)
        BY <1>2, <1>8, FS_Union
    <2>2. Half \cap More = {} /\ Cardinality({}) = 0
        BY <1>5, FS_EmptySet
    <2>3. Cardinality(Half) = 2^n
        BY <1>2
    <2> HIDE DEF Half
    <2>4. Cardinality(Half \cup More) = 2^n + 2^n - 0
        BY <2>1, <2>2, <2>3, <1>8
    <2>5. QED
        BY <2>4 DEF Half
<1>10. 2^(n + 1) = 2^n + 2^n - 0
    BY <1>2, <1>4, <1>9
<1>11. 2^n \in Int
    OBVIOUS
<1>12. QED
    BY <1>10, <1>11

\* Powers of two are positive.
LEMMA PowerIsPositive == ASSUME NEW n \in Nat PROVE 2^n \in Nat \ {0}
<1> DEFINE T == {i \in Nat : 2^i \in Nat \ {0}}
<1>1. 0 \in T
    OBVIOUS
<1>2. ASSUME NEW i \in 0..(n - 1), i \in T PROVE i + 1 \in T
    <2>1. i \in Nat /\ 2^i \in Nat \ {0}
        BY <1>2
    <2>2. 2^(i + 1) = 2 * 2^i
        BY <2>1, PowerDoubles
    <2>3. QED
        BY <2>1, <2>2
<1> HIDE DEF T
<1>3. n \in T
    BY <1>1, <1>2, Induction
<1>4. QED
    BY <1>3 DEF T

\* Exponents add up.
LEMMA PowerOfSum ==
    ASSUME NEW m \in Nat, NEW n \in Nat PROVE 2^(m + n) = 2^m * 2^n
<1> DEFINE T == {i \in Nat : 2^(m + i) = 2^m * 2^i}
<1>1. 0 \in T
    <2>1. 2^m \in Nat /\ 2^0 = 1 /\ m + 0 = m
        BY PowerIsPositive
    <2>2. QED
        BY <2>1
<1>2. ASSUME NEW i \in 0..(n - 1), i \in T PROVE i + 1 \in T
    <2>1. i \in Nat /\ 2^(m + i) = 2^m * 2^i
        BY <1>2
    <2>2. 2^(i + 1) = 2 * 2^i /\ 2^((m + i) + 1) = 2 * 2^(m + i)
        BY <2>1, PowerDoubles
    <2>3. 2^m \in Nat /\ 2^i \in Nat
        BY <2>1, PowerIsPositive
    <2>4. 2^m * (2 * 2^i) = 2 * (2^m * 2^i)
        BY <2>3
    <2>5. (m + i) + 1 = m + (i + 1)
        BY <2>1
    <2>6. QED
        BY <2>1, <2>2, <2>4, <2>5
<1> HIDE DEF T
<1>3. n \in T
    BY <1>1, <1>2, Induction
<1>4. QED
    BY <1>3 DEF T

\* The division of integers.
LEMMA Division ==
    ASSUME NEW n \in Int, NEW d \in Nat \ {0}
    PROVE  n \div d \in Int /\ n % d \in 0..(d - 1) /\ n = d * (n \div d) + (n % d)
OBVIOUS

\* Quotient and rest are the only numbers of their kind.
LEMMA QuotientAndRest ==
    ASSUME NEW n \in Int, NEW q \in Int, NEW r \in Int, NEW d \in Nat \ {0},
           n = d * q + r, 0 <= r, r < d
    PROVE  n \div d = q /\ n % d = r
OBVIOUS

-----------------------------------------------------------------------------
(* Bits of numbers.                                                        *)

\* Bit i of a number does not change when a multiple of a higher power is added.
LEMMA HigherPowersKeepBits ==
    ASSUME NEW n \in Int, NEW k \in Int, NEW m \in Nat, NEW i \in 0..(m - 1)
    PROVE  ((n + k * 2^m) \div 2^i) % 2 = (n \div 2^i) % 2
<1> DEFINE d == 2^i
           g == 2^(m - i - 1)
           q == n \div d
           r == n % d
<1>1. d \in Nat \ {0} /\ g \in Nat \ {0}
    BY PowerIsPositive
<1>2. 2^m = d * (2 * g)
    <2>1. i + 1 \in Nat /\ m - i - 1 \in Nat /\ m = (i + 1) + (m - i - 1) /\ i \in Nat
        OBVIOUS
    <2>2. 2^m = 2^(i + 1) * g
        BY <2>1, PowerOfSum
    <2>3. 2^(i + 1) = 2 * d
        BY <2>1, PowerDoubles
    <2> HIDE DEF d, g
    <2>4. (2 * d) * g = d * (2 * g)
        BY <1>1
    <2>5. QED
        BY <2>2, <2>3, <2>4
<1>3. q \in Int /\ r \in 0..(d - 1) /\ n = d * q + r
    BY <1>1, Division
<1> HIDE DEF d, g, q, r
<1>4. n + k * 2^m = d * (q + 2 * (k * g)) + r
    <2>1. k * (d * (2 * g)) = d * (2 * (k * g))
        BY <1>1
    <2>2. d * (q + 2 * (k * g)) = d * q + d * (2 * (k * g))
        BY <1>1, <1>3
    <2>3. d * q \in Int /\ d * (2 * (k * g)) \in Int
        BY <1>1, <1>3
    <2>4. QED
        BY <1>2, <1>3, <2>1, <2>2, <2>3
<1>5. (n + k * 2^m) \div d = q + 2 * (k * g)
    BY <1>1, <1>3, <1>4, QuotientAndRest
<1>6. \A j \in Int : (q + 2 * j) % 2 = q % 2
    BY <1>3
<1>7. k * g \in Int
    BY <1>1
<1>8. (q + 2 * (k * g)) % 2 = q % 2
    BY <1>6, <1>7
<1>9. QED
    BY <1>5, <1>8 DEF d, q

\* Numbers that differ by a multiple of 2^w are the same word.
LEMMA OfIntPeriodic ==
    ASSUME NEW n \in Int, NEW k \in Int, NEW w \in Nat
    PROVE  OfInt(n + k * 2^w, w) = OfInt(n, w)
BY HigherPowersKeepBits DEF OfInt

\* Only the rest modulo 2^w counts.
LEMMA OfIntOfRest ==
    ASSUME NEW n \in Int, NEW w \in Nat
    PROVE  OfInt(n % 2^w, w) = OfInt(n, w)
<1> DEFINE d == 2^w
<1>1. d \in Nat \ {0}
    BY PowerIsPositive
<1> HIDE DEF d
<1>2. n \div d \in Int /\ n % d \in Int /\ n = d * (n \div d) + (n % d)
    BY <1>1, Division
<1>3. n = (n % d) + (n \div d) * d
    BY <1>1, <1>2
<1>4. OfInt((n % d) + (n \div d) * d, w) = OfInt(n % d, w)
    BY <1>2, OfIntPeriodic DEF d
<1>5. QED
    BY <1>3, <1>4 DEF d

-----------------------------------------------------------------------------
(* The value of a word.                                                    *)

\* What the bits of x below i are worth, for each i up to n.
IsValue(v, x, n) ==
    v = [i \in 0..n |->
            IF i = 0 THEN 0
            ELSE v[i - 1] + (IF i - 1 \in x THEN 2^(i - 1) ELSE 0)]

\* The recursion of UInt has a solution.
LEMMA ValueExists ==
    ASSUME NEW x, NEW n \in Nat
    PROVE  \E v : IsValue(v, x, n)
<1> DEFINE T == {i \in Nat : \E v : IsValue(v, x, i)}
<1>1. 0 \in T
    <2>1. IsValue([i \in 0..0 |-> 0], x, 0)
        BY DEF IsValue
    <2>2. QED
        BY <2>1
<1>2. ASSUME NEW k \in 0..(n - 1), k \in T PROVE k + 1 \in T
    <2>1. PICK g : IsValue(g, x, k)
        BY <1>2
    <2> DEFINE h == [i \in 0..(k + 1) |->
                        IF i <= k THEN g[i]
                        ELSE g[k] + (IF k \in x THEN 2^k ELSE 0)]
    <2>2. \A i \in 0..k : g[i] = IF i = 0 THEN 0
                                 ELSE g[i - 1] + (IF i - 1 \in x THEN 2^(i - 1) ELSE 0)
        BY <2>1 DEF IsValue
    <2>3. \A i \in 0..(k + 1) :
            h[i] = IF i = 0 THEN 0
                   ELSE h[i - 1] + (IF i - 1 \in x THEN 2^(i - 1) ELSE 0)
        <3>1. \A i \in 0..k : h[i] = g[i]
            OBVIOUS
        <3>2. h[k + 1] = g[k] + (IF k \in x THEN 2^k ELSE 0)
            OBVIOUS
        <3> HIDE DEF h
        <3> SUFFICES ASSUME NEW i \in 0..(k + 1)
                     PROVE  h[i] = IF i = 0 THEN 0
                                   ELSE h[i - 1] + (IF i - 1 \in x THEN 2^(i - 1) ELSE 0)
            OBVIOUS
        <3>3. CASE i = 0
            BY <3>1, <3>3, <2>2
        <3>4. CASE i \in 1..k
            <4>1. i \in 0..k /\ i - 1 \in 0..k /\ i # 0
                BY <3>4
            <4>2. QED
                BY <4>1, <3>1, <2>2
        <3>5. CASE i = k + 1
            <4>1. i - 1 = k /\ k \in 0..k /\ i # 0
                BY <3>5
            <4>2. QED
                BY <4>1, <3>1, <3>2, <3>5
        <3>6. QED
            BY <3>3, <3>4, <3>5
    <2>4. h = [i \in 0..(k + 1) |-> h[i]]
        OBVIOUS
    <2> HIDE DEF h
    <2>5. IsValue(h, x, k + 1)
        BY <2>3, <2>4 DEF IsValue
    <2>6. QED
        BY <2>5
<1> HIDE DEF T
<1>3. n \in T
    BY <1>1, <1>2, Induction
<1>4. QED
    BY <1>3 DEF T

\* The value of the first bits, one bit after the other.
LEMMA ValueEquations ==
    ASSUME NEW v, NEW x, NEW n \in Nat, IsValue(v, x, n)
    PROVE  /\ v[0] = 0
           /\ \A i \in 0..(n - 1) : v[i + 1] = v[i] + (IF i \in x THEN 2^i ELSE 0)
<1>1. \A i \in 0..n : v[i] = IF i = 0 THEN 0
                             ELSE v[i - 1] + (IF i - 1 \in x THEN 2^(i - 1) ELSE 0)
    BY DEF IsValue
<1>2. ASSUME NEW i \in 0..(n - 1)
      PROVE  v[i + 1] = v[i] + (IF i \in x THEN 2^i ELSE 0)
    <2>1. i + 1 \in 0..n /\ i + 1 # 0 /\ (i + 1) - 1 = i
        OBVIOUS
    <2>2. QED
        BY <1>1, <2>1
<1>3. QED
    BY <1>1, <1>2

\* The first k bits make a number of k bits.
LEMMA ValueBounds ==
    ASSUME NEW v, NEW x, NEW n \in Nat, IsValue(v, x, n), NEW k \in 0..n
    PROVE  v[k] \in 0..(2^k - 1)
<1> DEFINE T == {i \in Nat : v[i] \in 0..(2^i - 1)}
<1>1. 0 \in T
    BY ValueEquations
<1>2. ASSUME NEW i \in 0..(k - 1), i \in T PROVE i + 1 \in T
    <2>1. i \in 0..(n - 1) /\ i \in Nat /\ v[i] \in 0..(2^i - 1)
        BY <1>2
    <2>2. v[i + 1] = v[i] + (IF i \in x THEN 2^i ELSE 0)
        BY <2>1, ValueEquations
    <2>3. 2^i \in Nat /\ 2^(i + 1) = 2 * 2^i
        BY <2>1, PowerIsPositive, PowerDoubles
    <2>4. QED
        BY <2>1, <2>2, <2>3
<1> HIDE DEF T
<1>3. k \in T
    BY <1>1, <1>2, Induction
<1>4. QED
    BY <1>3 DEF T

\* Below k, values of words with the same bits below k agree.
LEMMA ValuesAgree ==
    ASSUME NEW v, NEW x, NEW n \in Nat, IsValue(v, x, n),
           NEW u, NEW y, NEW m \in Nat, IsValue(u, y, m),
           NEW k \in Nat, k <= n, k <= m,
           \A i \in 0..(k - 1) : i \in x <=> i \in y
    PROVE  v[k] = u[k]
<1> DEFINE T == {i \in Nat : v[i] = u[i]}
<1>1. 0 \in T
    BY ValueEquations
<1>2. ASSUME NEW i \in 0..(k - 1), i \in T PROVE i + 1 \in T
    <2>1. i \in 0..(n - 1) /\ i \in 0..(m - 1)
        OBVIOUS
    <2>2. v[i + 1] = v[i] + (IF i \in x THEN 2^i ELSE 0)
        BY <2>1, ValueEquations
    <2>3. u[i + 1] = u[i] + (IF i \in y THEN 2^i ELSE 0)
        BY <2>1, ValueEquations
    <2>4. QED
        BY <1>2, <2>2, <2>3
<1> HIDE DEF T
<1>3. k \in T
    BY <1>1, <1>2, Induction
<1>4. QED
    BY <1>3 DEF T

\* No bits from a on, so the value stays.
LEMMA ValueStays ==
    ASSUME NEW v, NEW x, NEW n \in Nat, IsValue(v, x, n),
           NEW a \in 0..n, \A i \in x : i < a
    PROVE  v[n] = v[a]
<1> DEFINE T == {i \in Nat : v[a + i] = v[a]}
<1>1. 0 \in T
    OBVIOUS
<1>2. ASSUME NEW i \in 0..(n - a - 1), i \in T PROVE i + 1 \in T
    <2>1. a + i \in 0..(n - 1) /\ ~(a + i < a)
        OBVIOUS
    <2>2. v[(a + i) + 1] = v[a + i] + (IF a + i \in x THEN 2^(a + i) ELSE 0)
        BY <2>1, ValueEquations
    <2>3. a + i \notin x
        BY <2>1
    <2>4. v[a] \in Int
        BY ValueBounds
    <2>5. QED
        BY <1>2, <2>2, <2>3, <2>4
<1> HIDE DEF T
<1>3. n - a \in Nat /\ a + (n - a) = n
    OBVIOUS
<1>4. n - a \in T
    BY <1>1, <1>2, <1>3, Induction
<1>5. QED
    BY <1>3, <1>4 DEF T

\* A word that is not empty has a highest bit.
LEMMA MaxIsUpper ==
    ASSUME NEW w \in Nat, NEW x \in Word(w), x # {}
    PROVE  Max(x) \in x /\ \A i \in x : i <= Max(x)
<1> DEFINE T == {n \in Nat : \A i \in x : i <= n}
<1>1. \A i \in x : i \in Nat /\ i < w
    BY DEF Word
<1>2. w \in T
    BY <1>1
<1>3. PICK n \in T : \A m \in T : n <= m
    BY <1>2, LeastNatural
<1>4. n \in x
    <2> SUFFICES ASSUME n \notin x PROVE FALSE
        OBVIOUS
    <2>1. n \in Nat /\ \A i \in x : i <= n /\ i # n /\ i \in Nat
        BY <1>1, <1>3
    <2>2. n - 1 \in Nat /\ \A i \in x : i <= n - 1
        BY <2>1
    <2>3. n - 1 \in T
        BY <2>2
    <2>4. QED
        BY <1>3, <2>1, <2>3
<1>5. \A i \in x : n >= i
    BY <1>1, <1>3
<1>6. Max(x) \in x /\ \A i \in x : Max(x) >= i
    BY <1>4, <1>5 DEF Max
<1>7. QED
    BY <1>1, <1>6

\* The value of a word can be taken at any width it fits in.
LEMMA UIntIsValue ==
    ASSUME NEW w \in Nat, NEW x \in Word(w), NEW v, IsValue(v, x, w)
    PROVE  UInt(x) = v[w]
<1> DEFINE width == IF x = {} THEN 0 ELSE Max(x) + 1
           u == CHOOSE value : IsValue(value, x, width)
<1>1. width \in 0..w /\ \A i \in x : i < width
    <2>1. \A i \in x : i \in 0..(w - 1)
        BY DEF Word
    <2>2. CASE x = {}
        BY <2>2
    <2>3. CASE x # {}
        <3>1. Max(x) \in x /\ \A i \in x : i <= Max(x)
            BY <2>3, MaxIsUpper
        <3>2. width = Max(x) + 1
            BY <2>3
        <3> HIDE DEF width
        <3>3. QED
            BY <2>1, <3>1, <3>2
    <2>4. QED
        BY <2>2, <2>3
<1>2. IsValue(u, x, width)
    BY <1>1, ValueExists
<1>3. UInt(x) = u[width]
    BY DEF UInt, IsValue
<1> HIDE DEF width, u
<1>4. u[width] = v[width]
    BY <1>1, <1>2, ValuesAgree
<1>5. v[w] = v[width]
    BY <1>1, ValueStays
<1>6. QED
    BY <1>3, <1>4, <1>5

\* The value of a word, by its uppermost bit and the others.
LEMMA UIntOfWord ==
    ASSUME NEW w \in Nat, NEW x \in Word(w)
    PROVE  /\ UInt(x) \in 0..(2^w - 1)
           /\ w = 0 => UInt(x) = 0
           /\ w > 0 => /\ Trunc(x, w - 1) \in Word(w - 1)
                       /\ UInt(x) = UInt(Trunc(x, w - 1))
                                     + (IF w - 1 \in x THEN 2^(w - 1) ELSE 0)
<1>1. PICK v : IsValue(v, x, w)
    BY ValueExists
<1>2. UInt(x) = v[w]
    BY <1>1, UIntIsValue
<1>3. v[w] \in 0..(2^w - 1) /\ v[0] = 0
    BY <1>1, ValueBounds, ValueEquations
<1>4. ASSUME w > 0
      PROVE  /\ Trunc(x, w - 1) \in Word(w - 1)
             /\ v[w] = UInt(Trunc(x, w - 1)) + (IF w - 1 \in x THEN 2^(w - 1) ELSE 0)
    <2> DEFINE y == Trunc(x, w - 1)
    <2>1. w - 1 \in Nat /\ w - 1 \in 0..(w - 1) /\ (w - 1) + 1 = w /\ w - 1 <= w
        BY <1>4
    <2>2. y \in Word(w - 1) /\ \A i \in 0..((w - 1) - 1) : i \in x <=> i \in y
        BY DEF Trunc, Word
    <2> HIDE DEF y
    <2>3. PICK u : IsValue(u, y, w - 1)
        BY <2>1, ValueExists
    <2>4. v[w - 1] = u[w - 1]
        BY <1>1, <2>1, <2>2, <2>3, ValuesAgree
    <2>5. UInt(y) = u[w - 1]
        BY <2>1, <2>2, <2>3, UIntIsValue
    <2>6. v[(w - 1) + 1] = v[w - 1] + (IF w - 1 \in x THEN 2^(w - 1) ELSE 0)
        BY <1>1, <2>1, ValueEquations
    <2>7. QED
        BY <2>1, <2>2, <2>4, <2>5, <2>6 DEF y
<1>5. QED
    BY <1>2, <1>3, <1>4

\* Every word is the word of its value.
LEMMA WordOfValue ==
    ASSUME NEW w \in Nat, NEW x \in Word(w)
    PROVE  OfInt(UInt(x), w) = x
<1> DEFINE T == {i \in Nat : \A y \in Word(i) : OfInt(UInt(y), i) = y}
<1>1. 0 \in T
    <2>1. 0..(0 - 1) = {}
        OBVIOUS
    <2>2. \A y \in Word(0) : y = {}
        BY <2>1 DEF Word
    <2>3. \A n : OfInt(n, 0) = {}
        BY <2>1 DEF OfInt
    <2>4. QED
        BY <2>2, <2>3
<1>2. ASSUME NEW i \in 0..(w - 1), i \in T PROVE i + 1 \in T
    <2> SUFFICES ASSUME NEW y \in Word(i + 1)
                 PROVE  OfInt(UInt(y), i + 1) = y
        OBVIOUS
    <2> DEFINE z == Trunc(y, i)
               b == IF i \in y THEN 1 ELSE 0
    <2>1. i \in Nat /\ i + 1 \in Nat /\ (i + 1) - 1 = i /\ i + 1 > 0 /\ 2^i \in Nat \ {0}
        BY PowerIsPositive
    <2>2. z \in Word(i) /\ UInt(y) = UInt(z) + b * 2^i
        BY <2>1, UIntOfWord
    <2>3. UInt(z) \in 0..(2^i - 1)
        BY <2>1, <2>2, UIntOfWord
    <2>4. OfInt(UInt(z), i) = z
        BY <1>2, <2>2
    <2>5. z = {j \in 0..(i - 1) : j \in y} /\ b \in Int
        BY <2>1 DEF Trunc
    <2>6. b = 1 <=> i \in y
        OBVIOUS
    <2> HIDE DEF z, b
    <2>7. ASSUME NEW j \in 0..(i - 1)
          PROVE  (UInt(y) \div 2^j) % 2 = 1 <=> j \in y
        <3> DEFINE n == UInt(z)
        <3>0. n \in Int /\ b \in Int /\ i \in Nat /\ j \in 0..(i - 1)
            BY <2>3, <2>5
        <3> HIDE DEF n
        <3>1. ((n + b * 2^i) \div 2^j) % 2 = (n \div 2^j) % 2
            BY ONLY <3>0, HigherPowersKeepBits
        <3>3. (UInt(y) \div 2^j) % 2 = (UInt(z) \div 2^j) % 2
            BY <2>2, <3>1 DEF n
        <3>2. j \in OfInt(UInt(z), i) <=> (UInt(z) \div 2^j) % 2 = 1
            BY DEF OfInt
        <3>4. QED
            BY <2>4, <2>5, <3>2, <3>3
    <2>8. (UInt(y) \div 2^i) % 2 = 1 <=> i \in y
        <3> DEFINE d == 2^i
                   n == UInt(y)
                   r == UInt(z)
        <3>1. d \in Nat \ {0} /\ r \in 0..(d - 1) /\ b \in Int /\ n = r + b * d
            BY <2>1, <2>2, <2>3, <2>5
        <3> HIDE DEF d, n, r
        <3>5. n \in Int /\ n = d * b + r
            BY <3>1
        <3>6. n \div d = b
            BY <3>1, <3>5, QuotientAndRest
        <3>2. UInt(y) \div 2^i = b
            BY <3>6 DEF n, d
        <3>3. b \in {0, 1} /\ b % 2 = b
            BY DEF b
        <3>4. QED
            BY <2>6, <3>2, <3>3
    <2>9. 0..i = 0..(i - 1) \cup {i} /\ y \subseteq 0..i
        BY <2>1 DEF Word
    <2>10. QED
        BY <2>1, <2>7, <2>8, <2>9 DEF OfInt
<1> HIDE DEF T
<1>3. w \in T
    BY <1>1, <1>2, Induction
<1>4. QED
    BY <1>3 DEF T

\* Words that have the same value are the same.
LEMMA ValuesTellWords ==
    ASSUME NEW w \in Nat, NEW x \in Word(w), NEW y \in Word(w), UInt(x) = UInt(y)
    PROVE  x = y
BY WordOfValue

\* The value of the word of a number is what 2^w leaves of it.
LEMMA ValueOfWord ==
    ASSUME NEW n \in Int, NEW w \in Nat
    PROVE  OfInt(n, w) \in Word(w) /\ UInt(OfInt(n, w)) = n % 2^w
<1> DEFINE T == {i \in Nat : UInt(OfInt(n, i)) = n % 2^i}
<1>1. 0 \in T
    <2>1. OfInt(n, 0) \in Word(0) /\ n % 2^0 = 0
        BY DEF OfInt, Word
    <2>2. UInt(OfInt(n, 0)) = 0
        BY <2>1, UIntOfWord
    <2>3. QED
        BY <2>1, <2>2
<1>2. ASSUME NEW i \in 0..(w - 1), i \in T PROVE i + 1 \in T
    <2> DEFINE y == OfInt(n, i + 1)
               d == 2^i
               q == n \div d
               r == n % d
    <2>1. i \in Nat /\ i + 1 \in Nat /\ (i + 1) - 1 = i /\ i + 1 > 0
        OBVIOUS
    <2>2. d \in Nat \ {0} /\ 2^(i + 1) = 2 * d
        BY <2>1, PowerIsPositive, PowerDoubles
    <2>3. y \in Word(i + 1) /\ Trunc(y, i) = OfInt(n, i) /\ (i \in y <=> q % 2 = 1)
        BY <2>1 DEF OfInt, Word, Trunc
    <2>4. UInt(y) = r + (IF i \in y THEN d ELSE 0)
        <3>1. UInt(y) = UInt(Trunc(y, i)) + (IF i \in y THEN d ELSE 0)
            BY <2>1, <2>3, UIntOfWord
        <3>2. QED
            BY <1>2, <2>3, <3>1
    <2>5. q \in Int /\ r \in 0..(d - 1) /\ n = d * q + r
        BY <2>2, Division
    <2> HIDE DEF y, d, q, r
    <2>6. q % 2 \in {0, 1} /\ q = 2 * (q \div 2) + (q % 2) /\ q \div 2 \in Int
        BY <2>5
    <2>7. UInt(y) = r + d * (q % 2)
        BY <2>2, <2>3, <2>4, <2>5, <2>6
    <2>8. n = (2 * d) * (q \div 2) + (r + d * (q % 2))
        <3>1. d * q = d * (2 * (q \div 2)) + d * (q % 2)
            BY <2>2, <2>6
        <3>2. d * (2 * (q \div 2)) = (2 * d) * (q \div 2)
            BY <2>2, <2>6
        <3>3. d * (q % 2) \in Int /\ (2 * d) * (q \div 2) \in Int
            BY <2>2, <2>6
        <3>4. QED
            BY <2>5, <3>1, <3>2, <3>3
    <2>9. r + d * (q % 2) \in 0..(2 * d - 1) /\ 2 * d \in Nat \ {0}
        BY <2>2, <2>5, <2>6
    <2> DEFINE rest == r + d * (q % 2)
               half == q \div 2
               dd == 2 * d
    <2>13. n = dd * half + rest /\ rest \in 0..(dd - 1) /\ dd \in Nat \ {0} /\ half \in Int
        BY <2>6, <2>8, <2>9
    <2> HIDE DEF rest, half, dd
    <2>14. n % dd = rest
        BY <2>13, QuotientAndRest
    <2>10. n % (2 * d) = r + d * (q % 2)
        BY <2>14 DEF rest, dd
    <2>11. UInt(y) = n % 2^(i + 1)
        BY <2>2, <2>7, <2>10
    <2>12. QED
        BY <2>1, <2>11 DEF y
<1> HIDE DEF T
<1>3. w \in T
    BY <1>1, <1>2, Induction
<1>4. OfInt(n, w) \in Word(w)
    BY DEF OfInt, Word
<1>5. QED
    BY <1>3, <1>4 DEF T

\* The uppermost bit is set in the upper half of the values.
LEMMA SignBit ==
    ASSUME NEW w \in Nat \ {0}, NEW x \in Word(w)
    PROVE  /\ w - 1 \in x <=> UInt(x) >= 2^(w - 1)
           /\ 2^w = 2 * 2^(w - 1) /\ 2^(w - 1) \in Nat \ {0}
           /\ SInt(x, w) \in -2^(w - 1) .. 2^(w - 1) - 1
           /\ UInt(x) \in 0..(2^w - 1)
<1> DEFINE y == Trunc(x, w - 1)
<1>1. w - 1 \in Nat /\ w > 0 /\ (w - 1) + 1 = w
    OBVIOUS
<1>2. 2^w = 2 * 2^(w - 1) /\ 2^(w - 1) \in Nat \ {0}
    BY <1>1, PowerDoubles, PowerIsPositive
<1>3. /\ y \in Word(w - 1) /\ UInt(x) \in 0..(2^w - 1)
      /\ UInt(x) = UInt(y) + (IF w - 1 \in x THEN 2^(w - 1) ELSE 0)
    BY <1>1, UIntOfWord
<1>4. UInt(y) \in 0..(2^(w - 1) - 1)
    BY <1>1, <1>3, UIntOfWord
<1> HIDE DEF y
<1>5. QED
    BY <1>2, <1>3, <1>4 DEF SInt

\* Cutting down and comparing, and the three operations bit by bit.
LEMMA TruncIsWord ==
    ASSUME NEW x, NEW w \in Nat
    PROVE  /\ Trunc(x, w) \in Word(w)
           /\ Trunc(x, w) \subseteq x
           /\ x \in Word(w) => Trunc(x, w) = x
BY DEF Trunc, Word

\* Widening a word and cutting it down again gives it back.
LEMMA ExtendAndTrunc ==
    ASSUME NEW w \in Nat, NEW v \in Nat, w <= v, NEW x \in Word(w), NEW signed \in BOOLEAN
    PROVE  Trunc(Extend(x, w, signed, v), w) = x
<1> DEFINE y == IF signed /\ w - 1 \in x THEN x \cup w..(v - 1) ELSE x
<1>1. x \subseteq 0..(w - 1)
    BY DEF Word
<1>2. \A i \in 0..(w - 1) : i \in y <=> i \in x
    BY <1>1
<1> HIDE DEF y
<1>3. \A i \in 0..(w - 1) : i \in 0..(v - 1)
    OBVIOUS
<1>4. (y \cap 0..(v - 1)) \cap 0..(w - 1) = x
    BY <1>1, <1>2, <1>3
<1>5. QED
    BY <1>4 DEF Trunc, Extend, y

-----------------------------------------------------------------------------
(* Saturation.                                                             *)

\* Sums and differences of words, by their values.
LEMMA SumOfWords ==
    ASSUME NEW w \in Nat \ {0}, NEW x \in Word(w), NEW y \in Word(w)
    PROVE  /\ Add(x, y, w) \in Word(w)
           /\ UInt(Add(x, y, w)) = (UInt(x) + UInt(y))
                                - (IF UInt(x) + UInt(y) < 2^w THEN 0 ELSE 2^w)
<1> DEFINE n == UInt(x) + UInt(y)
           d == 2^w
           q == IF n < d THEN 0 ELSE 1
           r == n - (IF n < d THEN 0 ELSE d)
<1>1. n \in 0..(2 * d - 2) /\ d \in Nat \ {0}
    BY UIntOfWord, PowerIsPositive
<1>2. OfInt(n, w) \in Word(w) /\ UInt(OfInt(n, w)) = n % d
    BY <1>1, ValueOfWord
<1> HIDE DEF n, d
<1>3. q \in Int /\ r \in 0..(d - 1) /\ n = d * q + r
    BY <1>1
<1> HIDE DEF q
<1>4. n % d = r
    <2> HIDE DEF r
    <2>1. QED
        BY <1>1, <1>3, QuotientAndRest
<1>5. Add(x, y, w) = OfInt(n, w)
    BY DEF Add, n
<1>6. Add(x, y, w) \in Word(w) /\ UInt(Add(x, y, w)) = r
    BY <1>2, <1>4, <1>5
<1>7. QED
    BY <1>6 DEF n, d

\* A difference that would be negative borrows 2^w.
LEMMA DifferenceOfWords ==
    ASSUME NEW w \in Nat \ {0}, NEW x \in Word(w), NEW y \in Word(w)
    PROVE  /\ Sub(x, y, w) \in Word(w)
           /\ UInt(Sub(x, y, w)) = UInt(x) - UInt(y)
                                + (IF UInt(y) <= UInt(x) THEN 0 ELSE 2^w)
<1> DEFINE n == UInt(x) - UInt(y)
           d == 2^w
           q == IF n >= 0 THEN 0 ELSE -1
           r == n + (IF n >= 0 THEN 0 ELSE d)
<1>1. n \in (1 - d)..(d - 1) /\ d \in Nat \ {0}
    BY UIntOfWord, PowerIsPositive
<1>2. OfInt(n, w) \in Word(w) /\ UInt(OfInt(n, w)) = n % d
    BY <1>1, ValueOfWord
<1>0. n >= 0 <=> UInt(y) <= UInt(x)
    BY UIntOfWord
<1> HIDE DEF n, d
<1>3. q \in Int /\ r \in 0..(d - 1) /\ n = d * q + r
    BY <1>1
<1> HIDE DEF q
<1>4. n % d = r
    <2> HIDE DEF r
    <2>1. QED
        BY <1>1, <1>3, QuotientAndRest
<1>5. QED
    BY <1>0, <1>2, <1>4 DEF n, d, Sub

\* All ones are the largest value.
LEMMA ValueOfOnes == ASSUME NEW n \in Nat PROVE UInt(AllOnes(n)) = 2^n - 1
<1> DEFINE T == {i \in Nat : UInt(AllOnes(i)) = 2^i - 1}
<1>1. 0 \in T
    <2>1. AllOnes(0) \in Word(0) /\ 2^0 = 1
        BY DEF AllOnes, Word
    <2>2. QED
        BY <2>1, UIntOfWord
<1>2. ASSUME NEW i \in 0..(n - 1), i \in T PROVE i + 1 \in T
    <2> DEFINE x == AllOnes(i + 1)
    <2>1. i \in Nat /\ i + 1 \in Nat /\ (i + 1) - 1 = i /\ i + 1 > 0
          /\ 2^(i + 1) = 2 * 2^i /\ 2^i \in Nat
        BY PowerDoubles, PowerIsPositive
    <2>2. x \in Word(i + 1) /\ i \in x /\ Trunc(x, i) = AllOnes(i)
        BY <2>1 DEF AllOnes, Word, Trunc
    <2> HIDE DEF x
    <2>3. UInt(x) = UInt(AllOnes(i)) + 2^i
        BY <2>1, <2>2, UIntOfWord
    <2>4. QED
        BY <1>2, <2>1, <2>3 DEF x
<1> HIDE DEF T
<1>3. n \in T
    BY <1>1, <1>2, Induction
<1>4. QED
    BY <1>3 DEF T

\* The words for zero and one.
LEMMA SmallValues == UInt({}) = 0 /\ UInt({0}) = 1
<1>1. {} \in Word(0)
    BY DEF Word
<1>2. UInt({}) = 0
    BY <1>1, UIntOfWord
<1>3. {0} = AllOnes(1) /\ 2^1 = 2
    <2>1. 2^(0 + 1) = 2 * 2^0 /\ 2^0 = 1
        BY PowerDoubles
    <2>2. AllOnes(1) = {0}
        BY DEF AllOnes
    <2>3. QED
        BY <2>1, <2>2
<1>4. UInt(AllOnes(1)) = 2^1 - 1
    BY ValueOfOnes
<1>5. QED
    BY <1>2, <1>3, <1>4

\* The limit on the side of x: the greatest value, and one more below zero.
LEMMA LimitOfSign ==
    ASSUME NEW w \in Nat \ {0}, NEW x \in Word(w)
    PROVE  /\ Limit(x, w) \in Word(w)
           /\ UInt(Limit(x, w)) = 2^(w - 1) - (IF w - 1 \in x THEN 0 ELSE 1)
<1> DEFINE s == Shr(x, w - 1)
           m == SMax(w)
           h == 2^(w - 1)
<1>1. s = IF w - 1 \in x THEN {0} ELSE {}
    BY DEF Shr, Word
<1>2. s \in Word(w) /\ UInt(s) = IF w - 1 \in x THEN 1 ELSE 0
    BY <1>1, SmallValues DEF Word
<1>3. m = AllOnes(w - 1) /\ m \in Word(w)
    BY DEF SMax, AllOnes, Word
<1>4. UInt(m) = h - 1 /\ h \in Nat \ {0} /\ 2^w = 2 * h
    <2>1. UInt(AllOnes(w - 1)) = h - 1
        BY ValueOfOnes
    <2>2. QED
        BY <1>3, <2>1, SignBit
<1> HIDE DEF s, m, h
<1>5. Add(s, m, w) \in Word(w)
      /\ UInt(Add(s, m, w)) = (UInt(s) + UInt(m)) - (IF UInt(s) + UInt(m) < 2^w THEN 0 ELSE 2^w)
    BY <1>2, <1>3, SumOfWords
<1>6. QED
    BY <1>2, <1>4, <1>5 DEF Limit, s, m, h


\* What a signed operation returns, for the exact result n.
SignedExact(n, r, w) ==
    /\ r.res \in Word(w)
    /\ SInt(r.res, w) = Clamped(n, -2^(w - 1), 2^(w - 1) - 1)
    /\ r.sat <=> n # SInt(r.res, w)

\* sat_add of signed numbers.
LEMMA SignedSum ==
    ASSUME NEW w \in Nat \ {0}, NEW x \in Word(w), NEW y \in Word(w)
    PROVE  SignedExact(SInt(x, w) + SInt(y, w), sat_add_signed(x, y, w), w)
<1> DEFINE ux == Limit(x, w)
           res == Add(x, y, w)
           h == 2^(w - 1)
           ok == w - 1 \in Xor(ux, y) \cup Not(Xor(y, res), w)
<1>1. /\ ux \in Word(w) /\ res \in Word(w) /\ w - 1 \in 0..(w - 1)
      /\ UInt(ux) = h - (IF w - 1 \in x THEN 0 ELSE 1)
      /\ UInt(res) = (UInt(x) + UInt(y)) - (IF UInt(x) + UInt(y) < 2^w THEN 0 ELSE 2^w)
    BY LimitOfSign, SumOfWords
<1>2. /\ w - 1 \in x <=> UInt(x) >= h
      /\ w - 1 \in y <=> UInt(y) >= h
      /\ UInt(x) \in 0..(2^w - 1) /\ UInt(y) \in 0..(2^w - 1)
      /\ 2^w = 2 * h /\ h \in Nat \ {0}
    BY SignBit
<1>3. /\ w - 1 \in ux <=> UInt(ux) >= h
      /\ w - 1 \in res <=> UInt(res) >= h
    BY <1>1, SignBit
<1>4. ok <=> (w - 1 \in ux <=> ~(w - 1 \in y)) \/ (w - 1 \in y <=> w - 1 \in res)
    BY <1>1 DEF Xor, SymDiff, Not, AllOnes
<1>5. sat_add_signed(x, y, w) = IF ok THEN [res |-> res, sat |-> FALSE]
                                ELSE [res |-> ux, sat |-> TRUE]
    BY DEF sat_add_signed
<1> HIDE DEF ux, res, h, ok
<1>6. CASE ok
    <2>1. SInt(res, w) = SInt(x, w) + SInt(y, w)
          /\ SInt(res, w) \in -h..(h - 1)
        BY <1>1, <1>2, <1>3, <1>4, <1>6 DEF SInt
    <2>2. QED
        BY <1>1, <1>2, <1>5, <1>6, <2>1 DEF SignedExact, Clamped, h
<1>7. CASE ~ok
    <2>1. SInt(ux, w) = Clamped(SInt(x, w) + SInt(y, w), -h, h - 1)
          /\ SInt(ux, w) # SInt(x, w) + SInt(y, w)
        BY <1>1, <1>2, <1>3, <1>4, <1>7 DEF SInt, Clamped
    <2>2. QED
        BY <1>1, <1>5, <1>7, <2>1 DEF SignedExact, h
<1>8. QED
    BY <1>6, <1>7

\* sat_sub of signed numbers.
LEMMA SignedDifference ==
    ASSUME NEW w \in Nat \ {0}, NEW x \in Word(w), NEW y \in Word(w)
    PROVE  SignedExact(SInt(x, w) - SInt(y, w), sat_sub_signed(x, y, w), w)
<1> DEFINE ux == Limit(x, w)
           res == Sub(x, y, w)
           h == 2^(w - 1)
           over == w - 1 \in Xor(ux, y) \cap Xor(ux, res)
<1>1. /\ ux \in Word(w) /\ res \in Word(w) /\ w - 1 \in 0..(w - 1)
      /\ UInt(ux) = h - (IF w - 1 \in x THEN 0 ELSE 1)
      /\ UInt(res) = UInt(x) - UInt(y) + (IF UInt(y) <= UInt(x) THEN 0 ELSE 2^w)
    BY LimitOfSign, DifferenceOfWords
<1>2. /\ w - 1 \in x <=> UInt(x) >= h
      /\ w - 1 \in y <=> UInt(y) >= h
      /\ UInt(x) \in 0..(2^w - 1) /\ UInt(y) \in 0..(2^w - 1)
      /\ 2^w = 2 * h /\ h \in Nat \ {0}
    BY SignBit
<1>3. /\ w - 1 \in ux <=> UInt(ux) >= h
      /\ w - 1 \in res <=> UInt(res) >= h
    BY <1>1, SignBit
<1>4. over <=> (w - 1 \in ux <=> ~(w - 1 \in y)) /\ (w - 1 \in ux <=> ~(w - 1 \in res))
    BY DEF Xor, SymDiff
<1>5. sat_sub_signed(x, y, w) = IF over THEN [res |-> ux, sat |-> TRUE]
                                ELSE [res |-> res, sat |-> FALSE]
    BY DEF sat_sub_signed
<1> HIDE DEF ux, res, h, over
<1>6. CASE ~over
    <2>1. SInt(res, w) = SInt(x, w) - SInt(y, w)
          /\ SInt(res, w) \in -h..(h - 1)
        BY <1>1, <1>2, <1>3, <1>4, <1>6 DEF SInt
    <2>2. QED
        BY <1>1, <1>2, <1>5, <1>6, <2>1 DEF SignedExact, Clamped, h
<1>7. CASE over
    <2>1. SInt(ux, w) = Clamped(SInt(x, w) - SInt(y, w), -h, h - 1)
          /\ SInt(ux, w) # SInt(x, w) - SInt(y, w)
        BY <1>1, <1>2, <1>3, <1>4, <1>7 DEF SInt, Clamped
    <2>2. QED
        BY <1>1, <1>5, <1>7, <2>1 DEF SignedExact, h
<1>8. QED
    BY <1>6, <1>7

\* Of three operands the two whose signs differ are added first, so that an
\* overflow of the first sum is one of the whole sum.
LEMMA SignedSumOfThree ==
    ASSUME NEW w \in Nat \ {0}, NEW x \in Word(w), NEW y \in Word(w), NEW z \in Word(w)
    PROVE  SignedExact(SInt(x, w) + SInt(y, w) + SInt(z, w), sat_add3(x, y, z, w), w)
<1> DEFINE h == 2^(w - 1)
           swap == w - 1 \in Xor(y, z) \cap Xor(x, z)
           a == IF swap THEN z ELSE y
           b == IF swap THEN y ELSE z
           first == sat_add_signed(x, a, w)
           second == sat_add_signed(first.res, b, w)
<1>1. a \in Word(w) /\ b \in Word(w)
    OBVIOUS
<1>2. swap <=> (w - 1 \in y <=> ~(w - 1 \in z)) /\ (w - 1 \in x <=> ~(w - 1 \in z))
    BY DEF Xor, SymDiff
<1>3. /\ SInt(x, w) \in -h..(h - 1) /\ SInt(y, w) \in -h..(h - 1)
      /\ SInt(z, w) \in -h..(h - 1) /\ h \in Nat \ {0}
      /\ w - 1 \in x <=> SInt(x, w) < 0
      /\ w - 1 \in y <=> SInt(y, w) < 0
      /\ w - 1 \in z <=> SInt(z, w) < 0
    BY SignBit DEF SInt
<1>4. sat_add3(x, y, z, w) = [res |-> second.res, sat |-> first.sat \/ second.sat]
    BY DEF sat_add3
<1>5. \/ a = y /\ b = z /\ ~swap
      \/ a = z /\ b = y /\ swap
    OBVIOUS
<1> HIDE DEF a, b, swap
<1>6. SignedExact(SInt(x, w) + SInt(a, w), first, w)
    BY <1>1, SignedSum
<1>7. first.res \in Word(w)
    BY <1>6 DEF SignedExact
<1>8. SignedExact(SInt(first.res, w) + SInt(b, w), second, w)
    BY <1>1, <1>7, SignedSum
<1> HIDE DEF first, second
<1> DEFINE X == SInt(x, w)
           Y == SInt(y, w)
           Z == SInt(z, w)
           F == SInt(first.res, w)
           R == SInt(second.res, w)
<1>9. /\ F = Clamped(X + SInt(a, w), -h, h - 1)
      /\ first.sat <=> X + SInt(a, w) # F
      /\ R = Clamped(F + SInt(b, w), -h, h - 1)
      /\ second.sat <=> F + SInt(b, w) # R
      /\ second.res \in Word(w)
    BY <1>6, <1>8 DEF SignedExact, h
<1> HIDE DEF h, X, Y, Z, F, R
<1>10. /\ R = Clamped(X + Y + Z, -h, h - 1)
       /\ first.sat \/ second.sat <=> X + Y + Z # R
    <2>1. CASE swap
        <3>1. /\ F = Clamped(X + Z, -h, h - 1) /\ (first.sat <=> X + Z # F)
              /\ R = Clamped(F + Y, -h, h - 1) /\ (second.sat <=> F + Y # R)
            BY <1>5, <1>9, <2>1 DEF Y, Z
        <3>2. (X < 0 <=> ~(Z < 0)) /\ X \in -h..(h - 1) /\ Y \in -h..(h - 1) /\ Z \in -h..(h - 1)
              /\ h \in Nat \ {0}
            BY <1>2, <1>3, <2>1 DEF X, Y, Z
        <3>3. F = X + Z
            BY <3>1, <3>2 DEF Clamped
        <3>4. QED
            BY <3>1, <3>2, <3>3 DEF Clamped
    <2>2. CASE ~swap
        <3>1. /\ F = Clamped(X + Y, -h, h - 1) /\ (first.sat <=> X + Y # F)
              /\ R = Clamped(F + Z, -h, h - 1) /\ (second.sat <=> F + Z # R)
            BY <1>5, <1>9, <2>2 DEF Y, Z
        <3>2. /\ (Y < 0 <=> Z < 0) \/ (X < 0 <=> Z < 0)
              /\ X \in -h..(h - 1) /\ Y \in -h..(h - 1) /\ Z \in -h..(h - 1)
              /\ h \in Nat \ {0}
            BY <1>2, <1>3, <2>2 DEF X, Y, Z
        <3>3. QED
            BY <3>1, <3>2 DEF Clamped
    <2>3. QED
        BY <2>1, <2>2
<1>11. ASSUME NEW sum, sum = sat_add3(x, y, z, w)
       PROVE  sum.res = second.res /\ (sum.sat <=> first.sat \/ second.sat)
    <2> DEFINE sat == first.sat \/ second.sat
    <2>1. sum = [res |-> second.res, sat |-> sat]
        BY <1>4, <1>11
    <2> HIDE DEF sat
    <2>2. sum.res = second.res /\ sum.sat = sat
        BY <2>1
    <2>3. QED
        BY <2>2 DEF sat
<1>12. QED
    BY <1>9, <1>10, <1>11 DEF SignedExact, X, Y, Z, R, h

\* sat_add of unsigned numbers.
LEMMA UnsignedSum ==
    ASSUME NEW w \in Nat \ {0}, NEW x \in Word(w), NEW y \in Word(w),
           NEW r, r = sat_add_unsigned(x, y, w)
    PROVE  /\ UInt(r.res) = Clamped(UInt(x) + UInt(y), 0, 2^w - 1)
           /\ r.sat <=> UInt(x) + UInt(y) # UInt(r.res)
<1> DEFINE res == Add(x, y, w)
           d == 2^w
           ones == AllOnes(w)
<1>1. UInt(res) = (UInt(x) + UInt(y)) - (IF UInt(x) + UInt(y) < d THEN 0 ELSE d)
    BY SumOfWords
<1>2. UInt(x) \in 0..(d - 1) /\ UInt(y) \in 0..(d - 1) /\ d \in Nat \ {0}
    BY UIntOfWord, PowerIsPositive
<1>3. UInt(ones) = d - 1
    BY ValueOfOnes
<1>4. /\ r.res = IF UInt(res) < UInt(x) THEN ones ELSE res
      /\ r.sat <=> UInt(res) < UInt(x)
    <2> DEFINE less == UInt(res) < UInt(x)
    <2>1. r = [res |-> IF less THEN ones ELSE res, sat |-> less]
        BY DEF sat_add_unsigned
    <2> HIDE DEF less
    <2>2. r.res = (IF less THEN ones ELSE res) /\ r.sat = less
        BY <2>1
    <2>3. QED
        BY <2>2 DEF less
<1> HIDE DEF res, d, ones
<1>5. UInt(res) < UInt(x) <=> ~(UInt(x) + UInt(y) < d)
    BY <1>1, <1>2
<1>6. CASE UInt(x) + UInt(y) < d
    <2>1. r.res = res /\ ~r.sat
        BY <1>4, <1>5, <1>6
    <2>2. QED
        BY <1>1, <1>2, <1>6, <2>1 DEF Clamped, d
<1>7. CASE ~(UInt(x) + UInt(y) < d)
    <2>1. r.res = ones /\ r.sat
        BY <1>4, <1>5, <1>7
    <2>2. QED
        BY <1>2, <1>3, <1>7, <2>1 DEF Clamped, d
<1>8. QED
    BY <1>6, <1>7

\* sat_sub of unsigned numbers.
LEMMA UnsignedDifference ==
    ASSUME NEW w \in Nat \ {0}, NEW x \in Word(w), NEW y \in Word(w),
           NEW r, r = sat_sub_unsigned(x, y, w)
    PROVE  /\ UInt(r.res) = Clamped(UInt(x) - UInt(y), 0, 2^w - 1)
           /\ r.sat <=> UInt(x) - UInt(y) # UInt(r.res)
<1> DEFINE res == Sub(x, y, w)
           d == 2^w
<1>1. UInt(res) = UInt(x) - UInt(y) + (IF UInt(y) <= UInt(x) THEN 0 ELSE d)
    BY DifferenceOfWords
<1>2. UInt(x) \in 0..(d - 1) /\ UInt(y) \in 0..(d - 1) /\ d \in Nat \ {0}
    BY UIntOfWord, PowerIsPositive
<1>4. /\ r.res = IF UInt(res) <= UInt(x) THEN res ELSE {}
      /\ r.sat <=> ~(UInt(res) <= UInt(x))
    <2> DEFINE less == ~(UInt(res) <= UInt(x))
    <2>1. r = [res |-> IF UInt(res) <= UInt(x) THEN res ELSE {}, sat |-> less]
        BY DEF sat_sub_unsigned
    <2> HIDE DEF less
    <2>2. r.res = (IF UInt(res) <= UInt(x) THEN res ELSE {}) /\ r.sat = less
        BY <2>1
    <2>3. QED
        BY <2>2 DEF less
<1> HIDE DEF res, d
<1>5. UInt(res) <= UInt(x) <=> UInt(y) <= UInt(x)
    BY <1>1, <1>2
<1>6. CASE UInt(y) <= UInt(x)
    <2>1. r.res = res /\ ~r.sat
        BY <1>4, <1>5, <1>6
    <2>2. QED
        BY <1>1, <1>2, <1>6, <2>1 DEF Clamped, d
<1>7. CASE ~(UInt(y) <= UInt(x))
    <2>1. r.res = {} /\ r.sat
        BY <1>4, <1>5, <1>7
    <2>2. QED
        BY <1>2, <1>7, <2>1, SmallValues DEF Clamped, d
<1>8. QED
    BY <1>6, <1>7

\* At every width sums and differences of both signs are the exact ones, cut
\* off once at the limits of the type, and say whether they were (saturate.h).
THEOREM SaturationIsAlwaysExact ==
    ASSUME NEW w \in Nat \ {0}, NEW x \in Word(w), NEW y \in Word(w), NEW z \in Word(w)
    PROVE  SaturationIsExact(x, y, z, w)
<1>1. /\ SignedExact(SInt(x, w) + SInt(y, w), sat_add_signed(x, y, w), w)
      /\ SignedExact(SInt(x, w) - SInt(y, w), sat_sub_signed(x, y, w), w)
      /\ SignedExact(SInt(x, w) + SInt(y, w) + SInt(z, w), sat_add3(x, y, z, w), w)
    BY SignedSum, SignedDifference, SignedSumOfThree
<1>2. /\ UInt(sat_add_unsigned(x, y, w).res) = Clamped(UInt(x) + UInt(y), 0, 2^w - 1)
      /\ sat_add_unsigned(x, y, w).sat
            <=> UInt(x) + UInt(y) # UInt(sat_add_unsigned(x, y, w).res)
    BY UnsignedSum
<1>3. /\ UInt(sat_sub_unsigned(x, y, w).res) = Clamped(UInt(x) - UInt(y), 0, 2^w - 1)
      /\ sat_sub_unsigned(x, y, w).sat
            <=> UInt(x) - UInt(y) # UInt(sat_sub_unsigned(x, y, w).res)
    BY UnsignedDifference
<1>4. QED
    BY <1>1, <1>2, <1>3 DEF SignedExact, SaturationIsExact

-----------------------------------------------------------------------------
(* Shifts, and parts of words.                                             *)

\* A product of factors within bounds is within the product of the bounds.
LEMMA ProductsGrow ==
    ASSUME NEW a \in Nat, NEW b \in Nat, NEW c \in Nat, NEW d \in Nat, a <= c, b <= d
    PROVE  a * b \in Nat /\ a * b <= c * d
<1>1. c * d = a * b + a * (d - b) + (c - a) * b + (c - a) * (d - b)
    OBVIOUS
<1>2. a * b \in Nat /\ a * (d - b) \in Nat /\ (c - a) * b \in Nat /\ (c - a) * (d - b) \in Nat
    OBVIOUS
<1>3. QED
    BY <1>1, <1>2

\* A number below the divisor is its own rest.
LEMMA RestOfSmall ==
    ASSUME NEW n \in Int, NEW d \in Nat \ {0}, 0 <= n, n < d
    PROVE  n % d = n /\ n \div d = 0
OBVIOUS

\* The floor of a division, left unexpanded where a lemma about it is applied.
Floored(n, d) == n \div d

\* Dividing by two numbers is dividing by their product.
LEMMA DividingTwice ==
    ASSUME NEW n \in Int, NEW a \in Nat \ {0}, NEW b \in Nat \ {0}, NEW c, c = a * b
    PROVE  Floored(Floored(n, a), b) = Floored(n, c)
<1> DEFINE q == n \div a
           r == n % a
           t == q \div b
           u == q % b
           ab == a * b
           rest == a * u + r
<1>1. q \in Int /\ r \in 0..(a - 1) /\ n = a * q + r
    BY Division
<1>2. t \in Int /\ u \in 0..(b - 1) /\ q = b * t + u
    BY <1>1, Division
<1>3. ab \in Nat \ {0}
    OBVIOUS
<1> HIDE DEF q, r, t, u
<1>4. a * u \in Nat /\ a * u <= a * (b - 1)
    BY <1>2, ProductsGrow
<1>5. rest \in 0..(ab - 1)
    BY <1>1, <1>4
<1>6. n = ab * t + rest
    <2>1. a * q = a * (b * t) + a * u /\ a * (b * t) = (a * b) * t
        BY <1>2
    <2> DEFINE p1 == a * q
               p2 == a * u
               p3 == ab * t
    <2>2. p1 = p3 + p2 /\ p1 \in Int /\ p2 \in Int /\ p3 \in Int
        BY <1>1, <1>2, <2>1
    <2>3. n = p1 + r /\ rest = p2 + r /\ r \in Int
        BY <1>1
    <2> HIDE DEF p1, p2, p3, rest
    <2>4. n = p3 + rest
        BY <2>2, <2>3
    <2>5. QED
        BY <2>4 DEF p3
<1> HIDE DEF ab, rest
<1>7. n \div ab = t
    BY <1>2, <1>3, <1>5, <1>6, QuotientAndRest
<1>8. QED
    BY <1>7 DEF ab, t, q, Floored

\* The bits of a word are those of its value.
LEMMA BitsOfValue ==
    ASSUME NEW w \in Nat, NEW x \in Word(w), NEW i \in 0..(w - 1)
    PROVE  i \in x <=> (UInt(x) \div 2^i) % 2 = 1
<1>1. OfInt(UInt(x), w) = x
    BY WordOfValue
<1>2. i \in OfInt(UInt(x), w) <=> (UInt(x) \div 2^i) % 2 = 1
    BY DEF OfInt
<1>3. QED
    BY <1>1, <1>2

\* Cutting off the upper bits takes the rest modulo a power of two.
LEMMA LowerBits ==
    ASSUME NEW w \in Nat, NEW x \in Word(w), NEW n \in 0..w
    PROVE  /\ Trunc(x, n) \in Word(n)
           /\ UInt(Trunc(x, n)) = UInt(x) % 2^n
<1>1. Trunc(x, n) = OfInt(UInt(x), n)
    BY BitsOfValue DEF Trunc, OfInt, Word
<1>2. UInt(x) \in Int
    BY UIntOfWord
<1>3. QED
    BY <1>1, <1>2, ValueOfWord

\* Shifting right divides by a power of two.
LEMMA UpperBits ==
    ASSUME NEW w \in Nat, NEW x \in Word(w), NEW n \in 0..w
    PROVE  /\ Shr(x, n) \in Word(w - n)
           /\ UInt(Shr(x, n)) = UInt(x) \div 2^n
<1> DEFINE v == UInt(x)
           d == 2^n
           g == 2^(w - n)
           q == v \div d
<1>1. v \in 0..(2^w - 1) /\ d \in Nat \ {0} /\ g \in Nat \ {0} /\ w - n \in Nat /\ n \in Nat
    BY UIntOfWord, PowerIsPositive
<1>2. 2^w = d * g
    <2>1. w = n + (w - n)
        OBVIOUS
    <2>2. QED
        BY <1>1, <2>1, PowerOfSum
<1>3. \A i \in 0..(w - n - 1) : n + i \in x <=> (q \div 2^i) % 2 = 1
    <2> SUFFICES ASSUME NEW i \in 0..(w - n - 1)
                 PROVE  n + i \in x <=> (q \div 2^i) % 2 = 1
        OBVIOUS
    <2> DEFINE e == 2^i
               c == 2^(n + i)
    <2>1. n + i \in 0..(w - 1) /\ i \in Nat /\ e \in Nat \ {0}
        BY PowerIsPositive
    <2>2. n + i \in x <=> (v \div 2^(n + i)) % 2 = 1
        BY <2>1, BitsOfValue
    <2>3. c = d * e
        BY <1>1, <2>1, PowerOfSum
    <2>0. v \in Int /\ d \in Nat \ {0} /\ e \in Nat \ {0} /\ c \in Nat \ {0}
        BY <1>1, <2>1, PowerIsPositive
    <2> HIDE DEF v, d, e, c
    <2>4. Floored(Floored(v, d), e) = Floored(v, c)
        BY <2>0, <2>3, DividingTwice
    <2>5. (v \div d) \div e = v \div c
        BY <2>4 DEF Floored
    <2>6. QED
        BY <2>2, <2>5 DEF c, e
<1>4. Shr(x, n) = {i \in 0..(w - n - 1) : n + i \in x}
    <2>1. \A i \in Shr(x, n) : i \in 0..(w - n - 1) /\ n + i \in x
        BY DEF Shr, Word
    <2>2. \A i \in 0..(w - n - 1) : n + i \in x => i \in Shr(x, n)
        <3> SUFFICES ASSUME NEW i \in 0..(w - n - 1), n + i \in x
                     PROVE  i \in Shr(x, n)
            OBVIOUS
        <3>1. n + i >= n /\ i = (n + i) - n
            OBVIOUS
        <3>2. QED
            BY <3>1 DEF Shr
    <2>3. QED
        BY <2>1, <2>2
<1>5. Shr(x, n) = OfInt(q, w - n)
    BY <1>3, <1>4 DEF OfInt
<1> HIDE DEF v, d, g
<1>6. q \in Int /\ v % d \in 0..(d - 1) /\ v = d * q + (v % d)
    BY <1>1, Division
<1> HIDE DEF q
<1>7. 0 <= q /\ q < g
    <2>1. ASSUME q >= g PROVE FALSE
        <3>1. d * q >= d * g
            BY <1>1, <1>6, <2>1, ProductsGrow
        <3>2. QED
            BY <1>1, <1>2, <1>6, <3>1
    <2>2. ASSUME q < 0 PROVE FALSE
        <3>1. d * (q + 1) <= 0 /\ d * (q + 1) = d * q + d
            BY <1>1, <1>6, <2>2
        <3>2. QED
            BY <1>1, <1>6, <3>1
    <2>3. QED
        BY <1>1, <1>6, <2>1, <2>2
<1>8. q % g = q
    BY <1>1, <1>6, <1>7, RestOfSmall
<1>9. OfInt(q, w - n) \in Word(w - n) /\ UInt(OfInt(q, w - n)) = q % 2^(w - n)
    BY <1>1, <1>6, ValueOfWord
<1>10. QED
    BY <1>5, <1>8, <1>9 DEF q, v, d, g

\* Shifting left multiplies by a power of two and wraps around.
LEMMA ShiftedBits ==
    ASSUME NEW w \in Nat, NEW x \in Word(w), NEW n \in 0..w
    PROVE  /\ Shl(x, n, w) \in Word(w)
           /\ UInt(Shl(x, n, w)) = (UInt(x) * 2^n) % 2^w
<1> DEFINE v == UInt(x)
           d == 2^n
           p == v * d
<1>1. v \in Nat /\ d \in Nat \ {0} /\ n \in Nat /\ p \in Int
    BY UIntOfWord, PowerIsPositive
<1>2. ASSUME NEW i \in 0..(w - 1), i < n
      PROVE  (p \div 2^i) % 2 = 0
    <2> DEFINE e == 2^i
               g == 2^(n - i - 1)
               k == 2 * (v * g)
               zero == 0
    <2>1. /\ e \in Nat \ {0} /\ g \in Nat \ {0} /\ i \in Nat /\ n - i - 1 \in Nat
          /\ n = (i + 1) + (n - i - 1)
        BY <1>2, PowerIsPositive
    <2>2. 2^n = 2^(i + 1) * g /\ 2^(i + 1) = 2 * e
        BY <2>1, PowerOfSum, PowerDoubles
    <2> HIDE DEF v, d, e, g
    <2>3. p = e * k + zero /\ k \in Int /\ zero \in Int /\ 0 <= zero /\ zero < e
        <3>1. v * ((2 * e) * g) = e * (2 * (v * g))
            BY <1>1, <2>1
        <3>2. e * (2 * (v * g)) \in Int
            BY <1>1, <2>1
        <3>3. QED
            BY <1>1, <2>1, <2>2, <3>1, <3>2 DEF d
    <2> HIDE DEF p, zero, k
    <2>4. p \div e = k
        BY <1>1, <2>1, <2>3, QuotientAndRest
    <2>5. k % 2 = 0
        <3>1. v * g \in Int
            BY <1>1, <2>1
        <3>2. \A m \in Int : (2 * m) % 2 = 0
            OBVIOUS
        <3>3. QED
            BY <3>1, <3>2 DEF k
    <2>6. QED
        BY <2>4, <2>5 DEF e
<1>3. ASSUME NEW i \in n..(w - 1)
      PROVE  (p \div 2^i) % 2 = 1 <=> i - n \in x
    <2> DEFINE e == 2^(i - n)
               c == 2^i
    <2>1. i - n \in 0..(w - 1) /\ i - n \in Nat /\ i = n + (i - n) /\ e \in Nat \ {0}
        BY PowerIsPositive
    <2>2. c = d * e
        BY <1>1, <2>1, PowerOfSum
    <2>3. i - n \in x <=> (v \div e) % 2 = 1
        BY <2>1, BitsOfValue
    <2> DEFINE zero == 0
    <2> HIDE DEF v, d, e, c
    <2>4. p = d * v + zero /\ zero \in Int /\ 0 <= zero /\ zero < d
        BY <1>1
    <2> HIDE DEF p, zero
    <2>5. p \div d = v
        BY <1>1, <2>4, QuotientAndRest
    <2>a. p \in Int /\ d \in Nat \ {0} /\ e \in Nat \ {0} /\ c \in Nat \ {0}
        BY <1>1, <2>1, <2>2
    <2>6. Floored(Floored(p, d), e) = Floored(p, c)
        BY <2>2, <2>a, DividingTwice
    <2>7. (p \div d) \div e = p \div c
        BY <2>6 DEF Floored
    <2>8. QED
        BY <2>3, <2>5, <2>7 DEF c
<1> HIDE DEF p
<1>4. Shl(x, n, w) = OfInt(p, w)
    <2>1. ASSUME NEW i \in 0..(w - 1)
          PROVE  i \in Shl(x, n, w) <=> (p \div 2^i) % 2 = 1
        <3>1. CASE i < n
            <4>1. (p \div 2^i) % 2 = 0
                BY <1>2, <3>1
            <4>2. i \notin n..(w - 1)
                BY <3>1
            <4>3. QED
                BY <4>1, <4>2 DEF Shl
        <3>2. CASE i >= n
            <4>1. i \in n..(w - 1)
                BY <3>2
            <4>2. QED
                BY <4>1, <1>3 DEF Shl
        <3>3. QED
            BY <3>1, <3>2
    <2>2. Shl(x, n, w) \subseteq 0..(w - 1)
        BY DEF Shl
    <2>3. OfInt(p, w) = {i \in 0..(w - 1) : (p \div 2^i) % 2 = 1}
        BY DEF OfInt
    <2>4. QED
        BY <2>1, <2>2, <2>3
<1>5. QED
    BY <1>1, <1>4, ValueOfWord DEF p, v, d

-----------------------------------------------------------------------------
(* Products.                                                               *)

\* A product of two digits and a carry has two digits.
LEMMA DigitProduct ==
    ASSUME NEW B \in Nat \ {0}, NEW a \in 0..(B - 1), NEW b \in 0..(B - 1),
           NEW c \in 0..(B - 1)
    PROVE  a * b + c \in 0..(B * B - B) /\ a * b \in 0..(B * B - 1) /\ B * B \in Nat \ {0}
<1>1. a * b \in Nat /\ a * b <= (B - 1) * (B - 1)
    BY ProductsGrow
<1>2. (B - 1) * (B - 1) = B * B - 2 * B + 1 /\ B * B \in Nat \ {0}
    OBVIOUS
<1> DEFINE ab == a * b
           bb == B * B
<1>3. ab \in Nat /\ ab <= bb - 2 * B + 1 /\ bb \in Nat \ {0}
    BY <1>1, <1>2
<1> HIDE DEF ab, bb
<1>4. ab + c \in 0..(bb - B) /\ ab \in 0..(bb - 1)
    BY <1>3
<1>5. QED
    BY <1>3, <1>4 DEF ab, bb

\* The product of two numbers of two digits, from the products of the digits,
\* with the carries that run through the middle.
LEMMA LongProduct ==
    ASSUME NEW B \in Nat, NEW ah \in Nat, NEW al \in Nat, NEW bh \in Nat, NEW bl \in Nat,
           NEW s1 \in Int, NEW s0 \in Int, al * bl = B * s1 + s0,
           NEW q1 \in Int, NEW q0 \in Int, ah * bl + s1 = B * q1 + q0,
           NEW r1 \in Int, NEW r0 \in Int, al * bh + q0 = B * r1 + r0
    PROVE  (ah * B + al) * (bh * B + bl) = (ah * bh + q1 + r1) * (B * B) + (r0 * B + s0)
<1> DEFINE P == ah * bh
           Q == ah * bl
           R == al * bh
           S == al * bl
           L == (ah * B + al) * (bh * B + bl)
           BB == B * B
           K == r0 * B + s0
<1>1. /\ P \in Nat /\ Q \in Nat /\ R \in Nat /\ S \in Nat
      /\ Q = B * q1 + q0 - s1 /\ R = B * r1 + r0 - q0 /\ S = B * s1 + s0
    <2>1. P \in Nat /\ Q \in Nat /\ R \in Nat /\ S \in Nat
        OBVIOUS
    <2>2. Q + s1 = B * q1 + q0 /\ R + q0 = B * r1 + r0 /\ S = B * s1 + s0
        OBVIOUS
    <2>3. B * q1 \in Int /\ B * r1 \in Int
        OBVIOUS
    <2> HIDE DEF P, Q, R, S
    <2>4. QED
        BY <2>1, <2>2, <2>3
<1>2. L = P * BB + Q * B + R * B + S
    OBVIOUS
<1> HIDE DEF P, Q, R, S, L
<1>3. Q * B = q1 * BB + q0 * B - s1 * B
    BY <1>1
<1>4. R * B = r1 * BB + r0 * B - q0 * B
    BY <1>1
<1>5. S = s1 * B + s0
    BY <1>1
<1>6. (P + q1 + r1) * BB = P * BB + q1 * BB + r1 * BB
    BY <1>1
<1> DEFINE n1 == P * BB
           n2 == q1 * BB
           n3 == r1 * BB
           n4 == q0 * B
           n5 == s1 * B
           n6 == r0 * B
           n7 == (P + q1 + r1) * BB
           n8 == Q * B
           n9 == R * B
<1>7. /\ n1 \in Int /\ n2 \in Int /\ n3 \in Int /\ n4 \in Int /\ n5 \in Int /\ n6 \in Int
      /\ n7 = n1 + n2 + n3 /\ L = n1 + n8 + n9 + S /\ n8 = n2 + n4 - n5
      /\ n9 = n3 + n6 - n4 /\ S = n5 + s0 /\ K = n6 + s0
    BY <1>1, <1>2, <1>3, <1>4, <1>5, <1>6
<1> HIDE DEF n1, n2, n3, n4, n5, n6, n7, n8, n9, BB, K
<1>8. L = n7 + K
    BY <1>7
<1>9. QED
    BY <1>8 DEF L, n7, K, P, BB

\* Products and sums of words that fit.
LEMMA FittingProduct ==
    ASSUME NEW w \in Nat, NEW x \in Word(w), NEW y \in Word(w), UInt(x) * UInt(y) < 2^w
    PROVE  Mul(x, y, w) \in Word(w) /\ UInt(Mul(x, y, w)) = UInt(x) * UInt(y)
<1> DEFINE n == UInt(x) * UInt(y)
           d == 2^w
<1>1. n \in Nat /\ n < d /\ d \in Nat \ {0}
    BY UIntOfWord, PowerIsPositive
<1>2. OfInt(n, w) \in Word(w) /\ UInt(OfInt(n, w)) = n % d
    BY <1>1, ValueOfWord
<1>3. Mul(x, y, w) = OfInt(n, w)
    BY DEF Mul
<1> HIDE DEF n, d
<1>4. n % d = n
    BY <1>1, RestOfSmall
<1>5. QED
    BY <1>2, <1>3, <1>4 DEF n

\* A sum that fits does not wrap around.
LEMMA FittingSum ==
    ASSUME NEW w \in Nat \ {0}, NEW x \in Word(w), NEW y \in Word(w), UInt(x) + UInt(y) < 2^w
    PROVE  Add(x, y, w) \in Word(w) /\ UInt(Add(x, y, w)) = UInt(x) + UInt(y)
<1>1. UInt(x) \in Int /\ UInt(y) \in Int
    BY UIntOfWord
<1>2. QED
    BY <1>1, SumOfWords

\* A word is one of every larger width.
LEMMA Narrower ==
    ASSUME NEW m \in Nat, NEW w \in Nat, m <= w PROVE Word(m) \subseteq Word(w)
BY DEF Word

\* A u64 is two words of half its width.
LEMMA HalfWidth ==
    ASSUME ArithmeticAssumption
    PROVE  /\ U32 \in Nat \ {0} /\ U64 = U32 + U32 /\ U64 \in Nat \ {0}
           /\ 2^U32 \in Nat \ {0} /\ 2^U64 = 2^U32 * 2^U32 /\ 2^U64 \in Nat \ {0}
<1>1. U32 \in Nat \ {0} /\ U64 = U32 + U32 /\ U64 \in Nat \ {0}
    BY DEF ArithmeticAssumption, U32
<1>2. QED
    BY <1>1, PowerOfSum, PowerIsPositive

\* The upper and the lower half of a word.
LEMMA HalvesOfWord ==
    ASSUME ArithmeticAssumption, NEW x \in Word(U64)
    PROVE  /\ Shr(x, U32) \in Word(U32) /\ Trunc(x, U32) \in Word(U32)
           /\ Shr(x, U32) \in Word(U64) /\ Trunc(x, U32) \in Word(U64)
           /\ UInt(Shr(x, U32)) = UInt(x) \div 2^U32
           /\ UInt(Trunc(x, U32)) = UInt(x) % 2^U32
           /\ UInt(Shr(x, U32)) \in 0..(2^U32 - 1)
           /\ UInt(Trunc(x, U32)) \in 0..(2^U32 - 1)
           /\ UInt(x) = 2^U32 * UInt(Shr(x, U32)) + UInt(Trunc(x, U32))
<1>1. U32 \in 0..U64 /\ U64 - U32 = U32 /\ U32 \in Nat /\ U64 \in Nat /\ U32 <= U64
    BY HalfWidth
<1>2. /\ Shr(x, U32) \in Word(U32) /\ Trunc(x, U32) \in Word(U32)
      /\ UInt(Shr(x, U32)) = UInt(x) \div 2^U32
      /\ UInt(Trunc(x, U32)) = UInt(x) % 2^U32
    BY <1>1, UpperBits, LowerBits
<1>3. UInt(x) \in Int /\ 2^U32 \in Nat \ {0}
    BY <1>1, UIntOfWord, PowerIsPositive
<1>4. UInt(x) = 2^U32 * (UInt(x) \div 2^U32) + (UInt(x) % 2^U32)
    BY <1>3, Division
<1>5. QED
    BY <1>1, <1>2, <1>4, UIntOfWord, Narrower

\* umul64_slow loses no carry between its four partial products.
LEMMA ProductIsExact ==
    ASSUME ArithmeticAssumption, NEW a \in Word(U64), NEW b \in Word(U64)
    PROVE  /\ umul64_slow(a, b).hi \in Word(U64)
           /\ umul64_slow(a, b).lo \in Word(U64)
           /\ UInt(a) * UInt(b)
                = UInt(umul64_slow(a, b).hi) * 2^U64 + UInt(umul64_slow(a, b).lo)
<1> DEFINE m == U32
           w == U64
           B == 2^m
           W == 2^w
           ah == Shr(a, m)
           al == Trunc(a, m)
           bh == Shr(b, m)
           bl == Trunc(b, m)
           u1 == Mul(al, bl, w)
           t1 == u1
           s1 == Shr(t1, m)
           s0 == Trunc(t1, m)
           u2 == Mul(ah, bl, w)
           t2 == Add(u2, s1, w)
           q1 == Shr(t2, m)
           q0 == Trunc(t2, m)
           u3 == Mul(al, bh, w)
           t3 == Add(u3, q0, w)
           r1 == Shr(t3, m)
           r0 == Trunc(t3, m)
           u4 == Mul(ah, bh, w)
           h1 == Add(u4, q1, w)
           hi == Add(h1, r1, w)
           up == Shl(t3, m, w)
           lo == Add(up, s0, w)
<1>1. umul64_slow(a, b) = [hi |-> hi, lo |-> lo]
    BY DEF umul64_slow
<1>2. /\ m \in Nat \ {0} /\ w = m + m /\ w \in Nat \ {0}
      /\ B \in Nat \ {0} /\ W = B * B /\ W \in Nat \ {0} /\ m \in 0..w
    BY HalfWidth
<1>3. /\ ah \in Word(w) /\ al \in Word(w) /\ bh \in Word(w) /\ bl \in Word(w)
      /\ UInt(ah) \in 0..(B - 1) /\ UInt(al) \in 0..(B - 1)
      /\ UInt(bh) \in 0..(B - 1) /\ UInt(bl) \in 0..(B - 1)
      /\ UInt(a) = B * UInt(ah) + UInt(al)
      /\ UInt(b) = B * UInt(bh) + UInt(bl)
    BY HalvesOfWord
<1>4. ASSUME NEW x \in Word(w)
      PROVE  /\ Shr(x, m) \in Word(w) /\ Trunc(x, m) \in Word(w)
             /\ UInt(Shr(x, m)) \in 0..(B - 1) /\ UInt(Trunc(x, m)) \in 0..(B - 1)
             /\ UInt(x) = B * UInt(Shr(x, m)) + UInt(Trunc(x, m))
    BY HalvesOfWord
<1> HIDE DEF m, w, B, W
<1>5. ASSUME NEW x \in Word(w), NEW y \in Word(w), NEW c \in Word(w),
             UInt(x) \in 0..(B - 1), UInt(y) \in 0..(B - 1), UInt(c) \in 0..(B - 1)
      PROVE  /\ Mul(x, y, w) \in Word(w) /\ UInt(Mul(x, y, w)) = UInt(x) * UInt(y)
             /\ Add(Mul(x, y, w), c, w) \in Word(w)
             /\ UInt(Add(Mul(x, y, w), c, w)) = UInt(x) * UInt(y) + UInt(c)
    <2>1. UInt(x) * UInt(y) + UInt(c) \in 0..(W - B) /\ UInt(x) * UInt(y) \in 0..(W - 1)
        BY <1>2, <1>5, DigitProduct
    <2>2. Mul(x, y, w) \in Word(w) /\ UInt(Mul(x, y, w)) = UInt(x) * UInt(y)
        BY <1>2, <2>1, FittingProduct DEF W
    <2>3. UInt(Mul(x, y, w)) + UInt(c) < 2^w
        BY <1>2, <2>1, <2>2 DEF W
    <2>4. QED
        BY <1>2, <2>2, <2>3, FittingSum
<1> HIDE DEF ah, al, bh, bl
<1>6. u1 \in Word(w) /\ UInt(u1) = UInt(al) * UInt(bl)
    BY <1>3, <1>5
<1> HIDE DEF u1
<1>7. /\ s1 \in Word(w) /\ s0 \in Word(w)
      /\ UInt(s1) \in 0..(B - 1) /\ UInt(s0) \in 0..(B - 1)
      /\ UInt(al) * UInt(bl) = B * UInt(s1) + UInt(s0)
    BY <1>4, <1>6
<1> HIDE DEF s1, s0
<1>8. t2 \in Word(w) /\ UInt(t2) = UInt(ah) * UInt(bl) + UInt(s1)
    BY <1>3, <1>5, <1>7
<1> HIDE DEF t2
<1>9. /\ q1 \in Word(w) /\ q0 \in Word(w)
      /\ UInt(q1) \in 0..(B - 1) /\ UInt(q0) \in 0..(B - 1)
      /\ UInt(ah) * UInt(bl) + UInt(s1) = B * UInt(q1) + UInt(q0)
    BY <1>4, <1>8
<1> HIDE DEF q1, q0
<1>10. t3 \in Word(w) /\ UInt(t3) = UInt(al) * UInt(bh) + UInt(q0)
    BY <1>3, <1>5, <1>9
<1> HIDE DEF t3
<1>11. /\ r1 \in Word(w) /\ r0 \in Word(w)
       /\ UInt(r1) \in 0..(B - 1) /\ UInt(r0) \in 0..(B - 1)
       /\ UInt(t3) = B * UInt(r1) + UInt(r0)
       /\ UInt(al) * UInt(bh) + UInt(q0) = B * UInt(r1) + UInt(r0)
    BY <1>4, <1>10
<1> HIDE DEF r1, r0
<1>12. UInt(a) * UInt(b)
        = (UInt(ah) * UInt(bh) + UInt(q1) + UInt(r1)) * W + (UInt(r0) * B + UInt(s0))
    <2>1. /\ UInt(ah) \in Nat /\ UInt(al) \in Nat /\ UInt(bh) \in Nat /\ UInt(bl) \in Nat
          /\ UInt(s1) \in Int /\ UInt(s0) \in Int /\ UInt(q1) \in Int /\ UInt(q0) \in Int
          /\ UInt(r1) \in Int /\ UInt(r0) \in Int /\ B \in Nat
        BY <1>2, <1>3, <1>7, <1>9, <1>11
    <2> DEFINE vah == UInt(ah)  val == UInt(al)  vbh == UInt(bh)  vbl == UInt(bl)
               vs1 == UInt(s1)  vs0 == UInt(s0)  vq1 == UInt(q1)  vq0 == UInt(q0)
               vr1 == UInt(r1)  vr0 == UInt(r0)
    <2>2. (vah * B + val) * (vbh * B + vbl)
            = (vah * vbh + vq1 + vr1) * (B * B) + (vr0 * B + vs0)
        <3>1. /\ vah \in Nat /\ val \in Nat /\ vbh \in Nat /\ vbl \in Nat /\ B \in Nat
              /\ vs1 \in Int /\ vs0 \in Int /\ vq1 \in Int /\ vq0 \in Int
              /\ vr1 \in Int /\ vr0 \in Int
              /\ val * vbl = B * vs1 + vs0
              /\ vah * vbl + vs1 = B * vq1 + vq0
              /\ val * vbh + vq0 = B * vr1 + vr0
            BY <1>7, <1>9, <1>11, <2>1
        <3> HIDE DEF vah, val, vbh, vbl, vs1, vs0, vq1, vq0, vr1, vr0
        <3>2. QED
            BY <3>1, LongProduct
    <2>3. UInt(a) = UInt(ah) * B + UInt(al) /\ UInt(b) = UInt(bh) * B + UInt(bl)
        BY <1>3, <2>1
    <2>4. QED
        BY <1>2, <2>2, <2>3
<1>13. lo \in Word(w) /\ UInt(lo) = UInt(r0) * B + UInt(s0)
    <2>1. up \in Word(w) /\ UInt(up) = (UInt(t3) * B) % W
        BY <1>2, <1>10, ShiftedBits DEF W, B
    <2> DEFINE n == UInt(t3) * B
               r == UInt(r0) * B
               k == UInt(r1)
    <2>2. r \in 0..(W - B) /\ r \in Nat
        <3>1. UInt(r0) * B \in Nat /\ UInt(r0) * B <= (B - 1) * B /\ (B - 1) * B = B * B - B
            BY <1>2, <1>11, ProductsGrow
        <3>2. QED
            BY <1>2, <3>1
    <2>3. n = W * k + r /\ n \in Int /\ k \in Int
        <3>1. UInt(r1) \in Int /\ UInt(r0) \in Int /\ B \in Int /\ W = B * B
            BY <1>2, <1>11
        <3>2. (B * UInt(r1) + UInt(r0)) * B = (B * B) * UInt(r1) + UInt(r0) * B
            BY <3>1
        <3>3. QED
            BY <1>11, <3>1, <3>2
    <2> HIDE DEF n, r, k
    <2>4. n % W = r
        <3>1. 0 <= r /\ r < W /\ r \in Int /\ W \in Nat \ {0}
            BY <1>2, <2>2
        <3>2. QED
            BY <2>3, <3>1, QuotientAndRest
    <2>5. UInt(up) = r
        BY <2>1, <2>4 DEF n
    <2>6. UInt(up) + UInt(s0) < 2^w
        BY <1>2, <1>7, <2>2, <2>5 DEF W
    <2> HIDE DEF up
    <2>7. QED
        BY <1>2, <1>7, <2>1, <2>5, <2>6, FittingSum DEF r
<1> DEFINE p == UInt(ah) * UInt(bh)
           hv == p + UInt(q1) + UInt(r1)
           k == UInt(r0) * B + UInt(s0)
<1>14. hv \in Nat /\ hv < W
    <2>1. p \in Nat /\ k \in Nat
        BY <1>2, <1>3, <1>7, <1>11
    <2>2. UInt(a) * UInt(b) = hv * W + k
        BY <1>12
    <2>3. UInt(a) \in 0..(W - 1) /\ UInt(b) \in 0..(W - 1)
        BY <1>2, UIntOfWord DEF W, w
    <2>4. UInt(a) * UInt(b) \in 0..(W * W - 1)
        <3> DEFINE x == UInt(a)
                   y == UInt(b)
        <3>1. x \in 0..(W - 1) /\ y \in 0..(W - 1) /\ 0 \in 0..(W - 1)
            BY <1>2, <2>3
        <3> HIDE DEF x, y
        <3>2. x * y \in 0..(W * W - 1)
            BY <1>2, <3>1, DigitProduct
        <3>3. QED
            BY <3>2 DEF x, y
    <2>5. hv \in Nat
        BY <1>9, <1>11, <2>1
    <2> HIDE DEF p, hv, k
    <2>6. ASSUME hv >= W PROVE FALSE
        <3>1. W * W <= hv * W /\ W * W \in Nat /\ hv * W \in Nat
            BY <1>2, <2>5, <2>6, ProductsGrow
        <3>2. QED
            BY <2>1, <2>2, <2>4, <3>1
    <2>7. QED
        BY <1>2, <2>5, <2>6
<1>15. h1 \in Word(w) /\ UInt(h1) = p + UInt(q1)
    BY <1>3, <1>5, <1>9
<1> HIDE DEF h1
<1>16. hi \in Word(w) /\ UInt(hi) = hv
    <2>1. UInt(h1) + UInt(r1) < 2^w
        BY <1>14, <1>15 DEF W
    <2>2. QED
        BY <1>2, <1>11, <1>15, <2>1, FittingSum
<1> HIDE DEF hi, lo
<1>17. umul64_slow(a, b).hi = hi /\ umul64_slow(a, b).lo = lo
    BY <1>1
<1>18. QED
    BY <1>12, <1>13, <1>16, <1>17 DEF w, W

\* A number of twice the width has one pair of halves, and only its rest counts.
LEMMA HalvesAreUnique ==
    ASSUME ArithmeticAssumption, NEW hi \in Word(U64), NEW lo \in Word(U64),
           NEW n \in Int, NEW k \in Int, n = (UInt(hi) + k * 2^U64) * 2^U64 + UInt(lo)
    PROVE  Halves(n) = [hi |-> hi, lo |-> lo]
<1> DEFINE W == 2^U64
           h == UInt(hi)
           l == UInt(lo)
           q == h + k * W
<1>1. W \in Nat \ {0} /\ U64 \in Nat /\ h \in Int /\ l \in 0..(W - 1) /\ q \in Int
    BY HalfWidth, UIntOfWord
<1>7. n = W * q + l /\ n = l + q * W
    <2>1. q * W \in Int /\ q * W = W * q /\ n = q * W + l
        BY <1>1
    <2> DEFINE p == q * W
    <2> HIDE DEF q, W
    <2>2. p \in Int /\ p = W * q /\ n = p + l
        BY <2>1
    <2> HIDE DEF p
    <2>3. QED
        BY <1>1, <2>2 DEF p
<1> HIDE DEF W, h, l
<1>8. n = W * q + l
    BY <1>7
<1>2. n = l + q * W
    BY <1>7
<1>3. n \div W = q
    <2> HIDE DEF q
    <2>1. 0 <= l /\ l < W /\ l \in Int
        BY <1>1
    <2>2. W \in Nat \ {0} /\ q \in Int
        BY <1>1
    <2>3. QED
        BY <1>8, <2>1, <2>2, QuotientAndRest
<1>4. OfInt(q, U64) = hi
    <2>1. OfInt(h + k * 2^U64, U64) = OfInt(h, U64)
        BY <1>1, OfIntPeriodic
    <2>2. OfInt(h, U64) = hi
        BY <1>1, WordOfValue DEF h
    <2>3. QED
        BY <2>1, <2>2 DEF W
<1>5. OfInt(n, U64) = lo
    <2> HIDE DEF q
    <2>0. l \in Int
        BY <1>1
    <2>1. OfInt(l + q * 2^U64, U64) = OfInt(l, U64)
        BY <1>1, <2>0, OfIntPeriodic
    <2>2. OfInt(l, U64) = lo
        BY <1>1, WordOfValue DEF l
    <2>3. QED
        BY <1>2, <2>1, <2>2 DEF W
<1>6. QED
    BY <1>3, <1>4, <1>5 DEF Halves, W

\* The product from half words is that of the wide integers.
LEMMA UnsignedProduct ==
    ASSUME ArithmeticAssumption, NEW a \in Word(U64), NEW b \in Word(U64)
    PROVE  umul64_slow(a, b) = umul64(a, b)
<1> DEFINE u == umul64_slow(a, b)
           hi == u.hi
           lo == u.lo
           n == UInt(a) * UInt(b)
           W == 2^U64
<1>1. hi \in Word(U64) /\ lo \in Word(U64) /\ n = UInt(hi) * W + UInt(lo)
    BY ProductIsExact
<1>2. u = [hi |-> hi, lo |-> lo]
    BY DEF umul64_slow
<1>3. n \in Int /\ W \in Nat /\ UInt(hi) \in Int /\ UInt(lo) \in Int
    BY <1>1, HalfWidth, UIntOfWord
<1> HIDE DEF u, hi, lo, n, W
<1> DEFINE zero == 0
<1>4. n = (UInt(hi) + zero * W) * W + UInt(lo) /\ zero \in Int
    BY <1>1, <1>3
<1> HIDE DEF zero
<1>5. Halves(n) = [hi |-> hi, lo |-> lo]
    BY <1>1, <1>3, <1>4, HalvesAreUnique DEF W
<1>6. QED
    BY <1>2, <1>5 DEF u, n, umul64

\* Numbers that are the same word.
Congruent(n, m, w) == \E k \in Int : n = m + k * 2^w

\* A correction that is made or not, as a subtraction of s times y.
LEMMA SubtractIf ==
    ASSUME NEW w \in Nat \ {0}, NEW x \in Word(w), NEW y \in Word(w), NEW s \in 0..1,
           NEW r, r = IF s = 1 THEN Sub(x, y, w) ELSE x
    PROVE  r \in Word(w) /\ Congruent(UInt(r), UInt(x) - s * UInt(y), w)
<1>1. /\ UInt(x) \in Int /\ UInt(y) \in Int /\ 2^w \in Int
    BY UIntOfWord, PowerIsPositive
<1>2. CASE s = 1
    <2>1. /\ r \in Word(w)
          /\ UInt(r) = UInt(x) - UInt(y) + (IF UInt(y) <= UInt(x) THEN 0 ELSE 2^w)
        BY <1>2, DifferenceOfWords
    <2>2. CASE UInt(y) <= UInt(x)
        <3>1. UInt(r) = UInt(x) - s * UInt(y) + 0 * 2^w
            BY <1>1, <1>2, <2>1, <2>2
        <3>2. QED
            BY <2>1, <3>1 DEF Congruent
    <2>3. CASE ~(UInt(y) <= UInt(x))
        <3>1. UInt(r) = UInt(x) - s * UInt(y) + 1 * 2^w
            BY <1>1, <1>2, <2>1, <2>3
        <3>2. QED
            BY <2>1, <3>1 DEF Congruent
    <2>4. QED
        BY <2>2, <2>3
<1>3. CASE s = 0
    <2>1. r = x /\ UInt(x) = UInt(x) - s * UInt(y) + 0 * 2^w
        BY <1>1, <1>3
    <2>2. QED
        BY <2>1 DEF Congruent
<1>4. QED
    BY <1>2, <1>3

\* imul64_slow corrects the unsigned product for the sign of either factor.
LEMMA SignedProduct ==
    ASSUME ArithmeticAssumption, NEW a \in Word(U64), NEW b \in Word(U64)
    PROVE  imul64_slow(a, b) = imul64(a, b)
<1> DEFINE W == 2^U64
           A == UInt(a)
           B == UInt(b)
           u == umul64(a, b)
           s == IF U64 - 1 \in a THEN 1 ELSE 0
           t == IF U64 - 1 \in b THEN 1 ELSE 0
           m == IF U64 - 1 \in b THEN Sub(u.hi, a, U64) ELSE u.hi
           r == IF U64 - 1 \in a THEN Sub(m, b, U64) ELSE m
           n == SInt(a, U64) * SInt(b, U64)
<1>1. imul64_slow(a, b) = [hi |-> r, lo |-> u.lo]
    BY DEF imul64_slow
<1>2. u.hi \in Word(U64) /\ u.lo \in Word(U64) /\ A * B = UInt(u.hi) * W + UInt(u.lo)
    BY ProductIsExact, UnsignedProduct
<1>3. SInt(a, U64) = A - s * W /\ SInt(b, U64) = B - t * W
    <2>1. A \in Int /\ B \in Int /\ W \in Int
        BY HalfWidth, UIntOfWord
    <2> HIDE DEF A, B, W
    <2>2. SInt(a, U64) = (IF U64 - 1 \in a THEN A - W ELSE A)
          /\ SInt(b, U64) = (IF U64 - 1 \in b THEN B - W ELSE B)
        BY DEF SInt, A, B, W
    <2>3. QED
        BY <2>1, <2>2
<1>4. /\ A \in Int /\ B \in Int /\ W \in Int /\ UInt(u.hi) \in Int /\ UInt(u.lo) \in Int
      /\ s \in 0..1 /\ t \in 0..1 /\ U64 \in Nat \ {0}
    BY <1>2, HalfWidth, UIntOfWord
<1>5. m = IF t = 1 THEN Sub(u.hi, a, U64) ELSE u.hi
    OBVIOUS
<1>6. r = IF s = 1 THEN Sub(m, b, U64) ELSE m
    OBVIOUS
<1> HIDE DEF s, t, m, r, u
<1> DEFINE h == u.hi
<1>14. h \in Word(U64) /\ m = IF t = 1 THEN Sub(h, a, U64) ELSE h
    BY <1>2, <1>5
<1> HIDE DEF h
<1>7. m \in Word(U64) /\ Congruent(UInt(m), UInt(h) - t * UInt(a), U64)
    BY <1>4, <1>14, SubtractIf
<1>8. PICK i \in Int : UInt(m) = UInt(u.hi) - t * A + i * W
    BY <1>7 DEF h, Congruent
<1>9. r \in Word(U64) /\ Congruent(UInt(r), UInt(m) - s * UInt(b), U64)
    BY <1>4, <1>6, <1>7, SubtractIf
<1>10. PICK j \in Int : UInt(r) = UInt(m) - s * B + j * W
    BY <1>9 DEF Congruent
<1> DEFINE H == UInt(u.hi)
           L == UInt(u.lo)
           R == UInt(r)
           k == s * t - i - j
<1> HIDE DEF A, B, W, H, L, R
<1>11. n = (R + k * W) * W + L /\ n \in Int /\ k \in Int
    <2>1. /\ A \in Int /\ B \in Int /\ W \in Int /\ H \in Int /\ L \in Int
          /\ s \in Int /\ t \in Int
        BY <1>4 DEF H, L
    <2> DEFINE tA == t * A
               sB == s * B
               iW == i * W
               jW == j * W
               st == s * t
               WW == W * W
               HW == H * W
               AB == A * B
    <2>2. R = H - tA + iW - sB + jW
        <3>1. tA \in Int /\ sB \in Int /\ iW \in Int /\ jW \in Int
            BY <2>1
        <3>2. UInt(m) = H - tA + iW /\ R = UInt(m) - sB + jW
            BY <1>8, <1>10 DEF H, R
        <3> HIDE DEF tA, sB, iW, jW
        <3>3. QED
            BY <2>1, <3>1, <3>2
    <2>3. AB = HW + L
        BY <1>2 DEF A, B, H, L, W
    <2>4. n = AB - t * A * W - s * B * W + st * WW
        <3>1. n = (A - s * W) * (B - t * W)
            BY <1>3 DEF A, B, W
        <3>2. (A - s * W) * (B - t * W) = AB - t * A * W - s * B * W + st * WW
            BY <2>1
        <3>3. QED
            BY <3>1, <3>2
    <2>5. R + k * W = H - tA - sB + st * W
        <3>1. k * W = st * W - iW - jW
            BY <2>1
        <3>2. tA \in Int /\ sB \in Int /\ iW \in Int /\ jW \in Int /\ st * W \in Int /\ k * W \in Int
            BY <2>1
        <3> DEFINE kW == k * W
                   stW == st * W
        <3>3. kW = stW - iW - jW /\ kW \in Int /\ stW \in Int
            BY <3>1, <3>2
        <3> HIDE DEF tA, sB, iW, jW, kW, stW
        <3>4. R + kW = H - tA - sB + stW
            BY <2>1, <2>2, <3>2, <3>3
        <3>5. QED
            BY <3>4 DEF kW, stW
    <2>6. (H - tA - sB + st * W) * W = HW - t * A * W - s * B * W + st * WW
        BY <2>1
    <2>7. (R + k * W) * W = HW - t * A * W - s * B * W + st * WW
        BY <2>5, <2>6
    <2> DEFINE x1 == t * A * W
               x2 == s * B * W
               x3 == st * WW
               x4 == (R + k * W) * W
    <2>8. /\ x1 \in Int /\ x2 \in Int /\ x3 \in Int /\ HW \in Int /\ AB \in Int /\ k \in Int
          /\ x4 = HW - x1 - x2 + x3 /\ n = AB - x1 - x2 + x3
        BY <2>1, <2>4, <2>7
    <2> HIDE DEF x1, x2, x3, x4, HW, AB, k, n
    <2>9. n = x4 + L /\ n \in Int
        BY <2>1, <2>3, <2>8
    <2>10. QED
        BY <2>8, <2>9 DEF x4
<1> HIDE DEF k, n
<1>12. Halves(n) = [hi |-> r, lo |-> u.lo]
    BY <1>2, <1>9, <1>11, HalvesAreUnique DEF R, L, W
<1>13. QED
    BY <1>1, <1>12 DEF imul64, n

-----------------------------------------------------------------------------
(* Quotients.                                                              *)

\* The quotient that is rounded up, where the sum with the divisor fits.
LEMMA RoundedUp ==
    ASSUME ArithmeticAssumption, NEW b \in Word(U64), NEW d \in Word(U64), d # {},
           UInt(b) + UInt(d) - 1 < 2^U64
    PROVE  /\ (UInt(udivup(b, d)) - 1) * UInt(d) < UInt(b)
           /\ UInt(b) <= UInt(udivup(b, d)) * UInt(d)
<1> DEFINE W == 2^U64
           B == UInt(b)
           D == UInt(d)
           n == B + D - 1
           q == n \div D
           r == n % D
           sum == Add(b, d, U64)
           less == Sub(sum, {0}, U64)
<1>1. /\ W \in Nat \ {0} /\ U64 \in Nat \ {0} /\ B \in 0..(W - 1) /\ D \in 0..(W - 1)
      /\ D # 0
    <2>1. UInt({}) = 0 /\ {} \in Word(U64)
        BY SmallValues DEF Word
    <2>2. U64 \in Nat \ {0} /\ W \in Nat \ {0} /\ B \in 0..(W - 1) /\ D \in 0..(W - 1)
        BY HalfWidth, UIntOfWord
    <2>3. D # 0
        BY <2>1, <2>2, ValuesTellWords
    <2>4. QED
        BY <2>2, <2>3
<1>2. sum \in Word(U64) /\ UInt(sum) = (B + D) - (IF B + D < W THEN 0 ELSE W)
    BY <1>1, SumOfWords
<1>3. {0} \in Word(U64) /\ UInt({0}) = 1
    BY <1>1, SmallValues DEF Word
<1> HIDE DEF sum
<1>4. UInt(less) = UInt(sum) - 1 + (IF 1 <= UInt(sum) THEN 0 ELSE W)
    BY <1>1, <1>2, <1>3, DifferenceOfWords
<1>5. n \in 0..(W - 1)
    BY <1>1
<1> HIDE DEF less, W, B, D
<1>6. UInt(less) = n
    BY <1>1, <1>2, <1>4, <1>5
<1>7. q \in Int /\ r \in 0..(D - 1) /\ n = D * q + r
    BY <1>1, <1>5, Division
<1>8. udivup(b, d) = OfInt(q, U64)
    BY <1>6 DEF udivup, less, sum, D
<1> HIDE DEF n, q, r
<1>9. q \in 0..(W - 1)
    <2>1. ASSUME q >= W PROVE FALSE
        <3>1. 1 * W <= D * q /\ D * q \in Nat
            BY <1>1, <1>7, <2>1, ProductsGrow
        <3>2. QED
            BY <1>1, <1>5, <1>7, <3>1
    <2>2. ASSUME q < 0 PROVE FALSE
        <3>1. D * (q + 1) <= 0 /\ D * (q + 1) = D * q + D
            BY <1>1, <1>7, <2>2
        <3>2. QED
            BY <1>1, <1>5, <1>7, <3>1
    <2>3. QED
        BY <1>1, <1>7, <2>1, <2>2
<1>10. UInt(OfInt(q, U64)) = q
    <2>0. q \in Int /\ U64 \in Nat
        BY <1>1, <1>9
    <2>1. UInt(OfInt(q, U64)) = q % W
        BY <2>0, ValueOfWord DEF W
    <2>2. q % W = q
        BY <1>1, <1>9, RestOfSmall
    <2>3. QED
        BY <2>1, <2>2
<1>11. (q - 1) * D < B /\ B <= q * D
    <2>1. D * q = q * D /\ (q - 1) * D = q * D - D
        BY <1>1, <1>7
    <2>2. q * D \in Int
        BY <1>1, <1>7
    <2>3. QED
        BY <1>1, <1>7, <2>1, <2>2 DEF n
<1>12. QED
    BY <1>8, <1>10, <1>11 DEF B, D

\* A divisor that is greater than the upper half leaves a quotient that fits.
LEMMA UnsignedQuotient ==
    ASSUME ArithmeticAssumption, NEW a \in Word(U64), NEW b \in Word(U64),
           NEW d \in Word(U64), UInt(a) < UInt(d)
    PROVE  Dividend(UInt(a), b) = UInt(udiv128lo(a, b, d)) * UInt(d) + UInt(umod128(a, b, d))
<1> DEFINE W == 2^U64
           A == UInt(a)
           B == UInt(b)
           D == UInt(d)
           n == A * W + B
           q == n \div D
           r == n % D
<1>1. /\ W \in Nat \ {0} /\ U64 \in Nat \ {0} /\ A \in 0..(W - 1) /\ B \in 0..(W - 1)
      /\ D \in 0..(W - 1) /\ A < D
    BY HalfWidth, UIntOfWord
<1>2. d # {}
    BY <1>1, SmallValues
<1>3. udiv128lo(a, b, d) = OfInt(q, U64) /\ umod128(a, b, d) = OfInt(r, U64)
    <2>1. CASE a = {}
        <3>1. A = 0
            BY <2>1, SmallValues
        <3>2. n = B
            BY <1>1, <3>1
        <3>3. QED
            BY <1>2, <2>1, <3>2 DEF udiv128lo, umod128
    <2>2. CASE a # {}
        BY <1>2, <2>2 DEF udiv128lo, umod128, Dividend
    <2>3. QED
        BY <2>1, <2>2
<1>4. Dividend(UInt(a), b) = n
    BY DEF Dividend
<1> HIDE DEF W, A, B, D
<1>5. n \in Nat /\ n < D * W
    <2>1. (A + 1) * W <= D * W /\ (A + 1) * W \in Nat
        BY <1>1, ProductsGrow
    <2>2. (A + 1) * W = A * W + W /\ A * W \in Nat
        BY <1>1
    <2>3. D * W \in Nat
        BY <1>1
    <2>4. QED
        BY <1>1, <2>1, <2>2, <2>3
<1> HIDE DEF n
<1>6. q \in Int /\ r \in 0..(D - 1) /\ n = D * q + r
    <2>1. n \in Int /\ D \in Nat \ {0}
        BY <1>1, <1>5
    <2>2. QED
        BY <2>1, Division
<1> HIDE DEF q, r
<1>7. q \in 0..(W - 1)
    <2>1. ASSUME q >= W PROVE FALSE
        <3>1. D * W <= D * q /\ D * q \in Nat /\ D * W \in Nat
            BY <1>1, <1>6, <2>1, ProductsGrow
        <3>2. QED
            BY <1>1, <1>5, <1>6, <3>1
    <2>2. ASSUME q < 0 PROVE FALSE
        <3>1. D * (q + 1) <= 0 /\ D * (q + 1) = D * q + D
            BY <1>1, <1>6, <2>2
        <3>2. QED
            BY <1>1, <1>5, <1>6, <3>1
    <2>3. QED
        BY <1>1, <1>6, <2>1, <2>2
<1>8. ASSUME NEW m \in 0..(W - 1) PROVE UInt(OfInt(m, U64)) = m
    <2>1. UInt(OfInt(m, U64)) = m % W
        BY <1>1, ValueOfWord DEF W
    <2>2. m % W = m
        BY <1>1, RestOfSmall
    <2>3. QED
        BY <2>1, <2>2
<1>9. UInt(OfInt(q, U64)) = q /\ UInt(OfInt(r, U64)) = r
    <2>1. r \in 0..(W - 1)
        BY <1>1, <1>6
    <2>2. QED
        BY <1>7, <1>8, <2>1
<1>10. n = q * D + r
    BY <1>1, <1>6
<1>11. QED
    BY <1>3, <1>4, <1>9, <1>10 DEF D

\* A number that fits is the signed value of its word.
LEMMA SignedValueOfWord ==
    ASSUME NEW w \in Nat \ {0}, NEW n \in -2^(w - 1) .. 2^(w - 1) - 1
    PROVE  SInt(OfInt(n, w), w) = n
<1> DEFINE x == OfInt(n, w)
           h == 2^(w - 1)
           d == 2^w
           q == IF n < 0 THEN -1 ELSE 0
           r == IF n < 0 THEN n + d ELSE n
<1>1. h \in Nat \ {0} /\ d = 2 * h
    BY PowerDoubles, PowerIsPositive
<1>2. n \in Int /\ n \in -h..(h - 1)
    BY <1>1
<1>3. x \in Word(w) /\ UInt(x) = n % d
    BY <1>2, ValueOfWord
<1>4. w - 1 \in x <=> UInt(x) >= h
    BY <1>3, SignBit
<1> HIDE DEF x, h, d
<1>5. n = d * q + r /\ r \in 0..(d - 1) /\ q \in Int /\ r \in Int /\ 0 <= r /\ r < d
      /\ d \in Nat \ {0}
    BY <1>1, <1>2
<1>6. n % d = r
    <2> HIDE DEF q, r
    <2>1. QED
        BY <1>2, <1>5, QuotientAndRest
<1>7. SInt(x, w) = IF UInt(x) >= h THEN UInt(x) - d ELSE UInt(x)
    BY <1>4 DEF SInt, d
<1>8. SInt(x, w) = n
    BY <1>1, <1>2, <1>3, <1>6, <1>7
<1>9. QED
    BY <1>8 DEF x

\* The division of C++: what it leaves is smaller than the divisor and has the
\* sign of the dividend.
LEMMA DivisionRoundsToZero ==
    ASSUME NEW n \in Int, NEW d \in Int, d # 0
    PROVE  /\ Quotient(n, d) \in Int /\ Remainder(n, d) \in Int
           /\ n = Quotient(n, d) * d + Remainder(n, d)
           /\ Remainder(n, d) = 0 \/ (Remainder(n, d) < 0 <=> n < 0)
           /\ IF d < 0 THEN d < Remainder(n, d) /\ Remainder(n, d) < -d
              ELSE -d < Remainder(n, d) /\ Remainder(n, d) < d
<1> DEFINE N == IF n < 0 THEN -n ELSE n
           D == IF d < 0 THEN -d ELSE d
           t == N \div D
           u == N % D
           q == Quotient(n, d)
           r == Remainder(n, d)
<1>1. N \in Nat /\ D \in Nat \ {0}
    OBVIOUS
<1>2. q = IF (n < 0) = (d < 0) THEN t ELSE -t
    BY DEF Quotient
<1>3. r = n - d * q
    BY DEF Remainder
<1>6. /\ n < 0 => n = -N
      /\ ~(n < 0) => n = N
      /\ d < 0 => d = -D
      /\ ~(d < 0) => d = D
    OBVIOUS
<1> HIDE DEF N, D, q, r
<1>4. t \in Int /\ u \in 0..(D - 1) /\ N = D * t + u
    BY <1>1, Division
<1> HIDE DEF t, u
<1>5. q \in Int /\ n - d * q = (IF n < 0 THEN -u ELSE u)
    <2>1. D * t \in Int /\ (-D) * (-t) = D * t /\ (-D) * t = -(D * t) /\ D * (-t) = -(D * t)
        BY <1>1, <1>4
    <2> DEFINE p == D * t
    <2> HIDE DEF p
    <2>2. (-D) * (-t) = p /\ (-D) * t = -p /\ D * (-t) = -p /\ D * t = p /\ N = p + u
          /\ p \in Int
        BY <1>4, <2>1 DEF p
    <2>3. CASE n < 0 /\ d < 0
        <3>1. q = t /\ d * q = -p
            BY <1>2, <1>6, <2>2, <2>3
        <3>2. QED
            BY <1>4, <1>6, <2>2, <2>3, <3>1
    <2>4. CASE n < 0 /\ ~(d < 0)
        <3>1. q = -t /\ d * q = -p
            BY <1>2, <1>6, <2>2, <2>4
        <3>2. QED
            BY <1>4, <1>6, <2>2, <2>4, <3>1
    <2>5. CASE ~(n < 0) /\ d < 0
        <3>1. q = -t /\ d * q = p
            BY <1>2, <1>6, <2>2, <2>5
        <3>2. QED
            BY <1>4, <1>6, <2>2, <2>5, <3>1
    <2>6. CASE ~(n < 0) /\ ~(d < 0)
        <3>1. q = t /\ d * q = p
            BY <1>2, <1>6, <2>2, <2>6
        <3>2. QED
            BY <1>4, <1>6, <2>2, <2>6, <3>1
    <2>7. QED
        BY <2>3, <2>4, <2>5, <2>6
<1>7. r = IF n < 0 THEN -u ELSE u
    BY <1>3, <1>5
<1>8. n = q * d + r
    <2>1. d * q \in Int /\ d * q = q * d
        BY <1>5
    <2>2. QED
        BY <1>3, <2>1
<1>9. /\ r \in Int
      /\ r = 0 \/ (r < 0 <=> n < 0)
      /\ IF d < 0 THEN d < r /\ r < -d ELSE -d < r /\ r < d
    BY <1>1, <1>4, <1>6, <1>7
<1>10. QED
    BY <1>5, <1>8, <1>9 DEF q, r

\* idiv128lo and imod128, for quotients that fit.
LEMMA SignedQuotient ==
    ASSUME ArithmeticAssumption, NEW a \in Word(U64), NEW b \in Word(U64),
           NEW d \in Word(U64), d # {}, a # {} \/ U64 - 1 \notin b,
           NEW n, n = Dividend(SInt(a, U64), b), NEW sd, sd = SInt(d, U64),
           Quotient(n, sd) \in -2^(U64 - 1) .. 2^(U64 - 1) - 1,
           NEW r, r = SInt(imod128(a, b, d), U64)
    PROVE  /\ n = SInt(idiv128lo(a, b, d), U64) * sd + r
           /\ r = 0 \/ (r < 0 <=> n < 0)
<1> DEFINE h == 2^(U64 - 1)
<1>1. /\ U64 \in Nat \ {0} /\ h \in Nat \ {0} /\ 2^U64 \in Nat /\ 2^U64 = 2 * h
      /\ SInt(a, U64) \in Int /\ UInt(b) \in Int /\ sd \in -h..(h - 1)
    BY HalfWidth, SignBit
<1>2. n \in Int
    BY <1>1 DEF Dividend
<1>3. sd # 0
    <2>1. UInt(d) # 0
        <3>1. UInt({}) = 0 /\ {} \in Word(U64)
            BY SmallValues DEF Word
        <3>2. QED
            BY <1>1, <3>1, ValuesTellWords
    <2>2. UInt(d) \in 0..(2^U64 - 1)
        BY <1>1, UIntOfWord
    <2>3. QED
        BY <1>1, <2>1, <2>2 DEF SInt
<1>4. /\ idiv128lo(a, b, d) = OfInt(Quotient(n, sd), U64)
      /\ imod128(a, b, d) = OfInt(Remainder(n, sd), U64)
    <2>1. CASE a = {}
        <3>1. UInt(a) = 0 /\ U64 - 1 \notin a /\ U64 - 1 \notin b
            BY <2>1, SmallValues
        <3>2. SInt(a, U64) = 0 /\ SInt(b, U64) = UInt(b)
            BY <3>1 DEF SInt
        <3>3. n = SInt(b, U64)
            BY <1>1, <3>2 DEF Dividend
        <3>4. QED
            BY <2>1, <3>3 DEF idiv128lo, imod128
    <2>2. CASE a # {}
        BY <2>2 DEF idiv128lo, imod128
    <2>3. QED
        BY <2>1, <2>2
<1>5. /\ Quotient(n, sd) \in Int /\ Remainder(n, sd) \in Int
      /\ n = Quotient(n, sd) * sd + Remainder(n, sd)
      /\ Remainder(n, sd) = 0 \/ (Remainder(n, sd) < 0 <=> n < 0)
      /\ IF sd < 0 THEN sd < Remainder(n, sd) /\ Remainder(n, sd) < -sd
         ELSE -sd < Remainder(n, sd) /\ Remainder(n, sd) < sd
    <2>1. sd \in Int
        BY <1>1
    <2>2. QED
        BY <1>2, <1>3, <2>1, DivisionRoundsToZero
<1>6. SInt(OfInt(Quotient(n, sd), U64), U64) = Quotient(n, sd)
    BY <1>1, SignedValueOfWord
<1>7. SInt(OfInt(Remainder(n, sd), U64), U64) = Remainder(n, sd)
    <2> DEFINE m == Remainder(n, sd)
    <2>1. m \in -h..(h - 1)
        <3> HIDE DEF h, m
        <3>1. m \in Int /\ IF sd < 0 THEN sd < m /\ m < -sd ELSE -sd < m /\ m < sd
            BY <1>5 DEF m
        <3>2. QED
            BY <1>1, <3>1
    <2> HIDE DEF m
    <2>2. SInt(OfInt(m, U64), U64) = m
        BY <1>1, <2>1, SignedValueOfWord
    <2>3. QED
        BY <2>2 DEF m
<1>8. QED
    BY <1>4, <1>5, <1>6, <1>7

\* At every even width of u64 the product that is put together from products of
\* halves is the one of wide integers, of either sign, and the quotients and
\* remainders give back the dividend where they fit (muldiv.h).
THEOREM MultiplyDivideIsAlwaysExact ==
    ASSUME ArithmeticAssumption, NEW a \in Word(U64), NEW b \in Word(U64), NEW d \in Word(U64)
    PROVE  MultiplyDivideIsExact(a, b, d)
<1>1. umul64_slow(a, b) = umul64(a, b) /\ imul64_slow(a, b) = imul64(a, b)
    BY UnsignedProduct, SignedProduct
<1>2. d # {} /\ UInt(b) + UInt(d) - 1 < 2^U64 =>
        /\ (UInt(udivup(b, d)) - 1) * UInt(d) < UInt(b)
        /\ UInt(b) <= UInt(udivup(b, d)) * UInt(d)
    BY RoundedUp
<1>3. UInt(a) < UInt(d) =>
        Dividend(UInt(a), b) = UInt(udiv128lo(a, b, d)) * UInt(d) + UInt(umod128(a, b, d))
    BY UnsignedQuotient
<1> DEFINE sd == SInt(d, U64)
           sn == Dividend(SInt(a, U64), b)
           r == SInt(imod128(a, b, d), U64)
<1>4. ASSUME d # {}, a # {} \/ U64 - 1 \notin b,
             Quotient(sn, sd) \in -2^(U64 - 1) .. 2^(U64 - 1) - 1
      PROVE  /\ sn = SInt(idiv128lo(a, b, d), U64) * sd + r
             /\ r = 0 \/ (r < 0 <=> sn < 0)
    BY <1>4, SignedQuotient
<1>5. QED
    BY <1>1, <1>2, <1>3, <1>4 DEF MultiplyDivideIsExact

-----------------------------------------------------------------------------
(* Single bits and masks.                                                  *)

\* Words without a common bit add up.
LEMMA DisjointSum ==
    ASSUME NEW w \in Nat, NEW x \in Word(w), NEW y \in Word(w), x \cap y = {}
    PROVE  x \cup y \in Word(w) /\ UInt(x \cup y) = UInt(x) + UInt(y)
<1> DEFINE S(i) == UInt(Trunc(x, i)) + UInt(Trunc(y, i))
           T == {i \in Nat : UInt(Trunc(x \cup y, i)) = S(i)}
<1>1. ASSUME NEW z, NEW i \in Nat, i > 0
      PROVE  UInt(Trunc(z, i)) = UInt(Trunc(z, i - 1))
                                  + (IF i - 1 \in z THEN 2^(i - 1) ELSE 0)
    <2>1. Trunc(z, i) \in Word(i)
        BY TruncIsWord
    <2>2. Trunc(Trunc(z, i), i - 1) = Trunc(z, i - 1) /\ (i - 1 \in Trunc(z, i) <=> i - 1 \in z)
        BY <1>1 DEF Trunc
    <2>3. QED
        BY <1>1, <2>1, <2>2, UIntOfWord
<1>2. ASSUME NEW z PROVE UInt(Trunc(z, 0)) = 0
    BY TruncIsWord, UIntOfWord
<1>3. 0 \in T
    BY <1>2
<1>4. ASSUME NEW i \in 0..(w - 1), i \in T PROVE i + 1 \in T
    <2>1. i + 1 \in Nat /\ i + 1 > 0 /\ (i + 1) - 1 = i
        OBVIOUS
    <2>2. \A z : UInt(Trunc(z, i + 1)) = UInt(Trunc(z, i)) + (IF i \in z THEN 2^i ELSE 0)
        BY <1>1, <2>1
    <2>3. /\ UInt(Trunc(x, i)) \in Int /\ UInt(Trunc(y, i)) \in Int /\ 2^i \in Int
          /\ UInt(Trunc(x \cup y, i)) = UInt(Trunc(x, i)) + UInt(Trunc(y, i))
        BY <1>4, TruncIsWord, UIntOfWord, PowerIsPositive
    <2>4. ~(i \in x /\ i \in y) /\ (i \in x \cup y <=> i \in x \/ i \in y)
        OBVIOUS
    <2> DEFINE p == 2^i
               a == UInt(Trunc(x, i))
               b == UInt(Trunc(y, i))
    <2>5. /\ UInt(Trunc(x, i + 1)) = a + (IF i \in x THEN p ELSE 0)
          /\ UInt(Trunc(y, i + 1)) = b + (IF i \in y THEN p ELSE 0)
          /\ UInt(Trunc(x \cup y, i + 1)) = (a + b) + (IF i \in x \cup y THEN p ELSE 0)
          /\ a \in Int /\ b \in Int /\ p \in Int
        BY <2>2, <2>3
    <2> HIDE DEF a, b, p
    <2>6. UInt(Trunc(x \cup y, i + 1)) = UInt(Trunc(x, i + 1)) + UInt(Trunc(y, i + 1))
        BY <2>4, <2>5
    <2>7. QED
        BY <2>1, <2>6
<1> HIDE DEF T
<1>5. w \in T
    BY <1>3, <1>4, Induction
<1>6. x \cup y \in Word(w)
    BY DEF Word
<1>7. Trunc(x, w) = x /\ Trunc(y, w) = y /\ Trunc(x \cup y, w) = x \cup y
    BY <1>6, TruncIsWord
<1>8. UInt(Trunc(x \cup y, w)) = UInt(Trunc(x, w)) + UInt(Trunc(y, w))
    BY <1>5 DEF T
<1>9. QED
    BY <1>6, <1>7, <1>8

\* The value of a single bit.
LEMMA ValueOfBit ==
    ASSUME NEW n \in Nat
    PROVE  {n} \in Word(n + 1) /\ UInt({n}) = 2^n
<1>1. {n} \in Word(n + 1) /\ n + 1 \in Nat /\ n + 1 > 0 /\ (n + 1) - 1 = n /\ Trunc({n}, n) = {}
    BY DEF Word, Trunc
<1>2. UInt({n}) = UInt({}) + 2^n
    <2> DEFINE m == n + 1
               x == {n}
    <2>1. m \in Nat /\ m > 0 /\ x \in Word(m) /\ m - 1 = n /\ n \in x
        BY <1>1
    <2> HIDE DEF m, x
    <2>2. UInt(x) = UInt(Trunc(x, m - 1)) + (IF m - 1 \in x THEN 2^(m - 1) ELSE 0)
        BY ONLY <2>1, UIntOfWord
    <2>3. UInt(x) = UInt(Trunc(x, n)) + 2^n
        BY ONLY <2>1, <2>2
    <2>4. QED
        BY <1>1, <2>3 DEF x
<1>3. UInt({}) = 0
    BY SmallValues
<1>4. 2^n \in Nat
    BY PowerIsPositive
<1>5. QED
    BY <1>1, <1>2, <1>3, <1>4

\* bitmask at every border, and a single bit.
LEMMA MaskIsExact ==
    ASSUME BitOpsAssumption, NEW width \in Nat, NEW offset \in Nat
    PROVE  /\ bitmask(width, offset)
                = {i \in 0..(LongLong - 1) : i >= offset /\ i < offset + width}
           /\ width < LongLong => bit(width) = {width}
<1> USE DEF BitOpsAssumption
<1>1. width < LongLong => Shl({0}, width, LongLong) = {width}
    BY DEF Shl
<1>2. CASE offset >= LongLong
    BY <1>1, <1>2 DEF bitmask, bit
<1>3. CASE offset < LongLong /\ width >= LongLong
    <2>1. bitmask(width, offset) = Shl(AllOnes(LongLong), offset, LongLong)
        BY <1>3 DEF bitmask
    <2>2. QED
        BY <1>3, <2>1 DEF Shl, AllOnes
<1>4. CASE offset < LongLong /\ width < LongLong
    <2>1. {width} \in Word(LongLong) /\ {0} \in Word(LongLong) /\ AllOnes(width) \in Word(LongLong)
        BY <1>4 DEF Word, AllOnes
    <2>2. /\ UInt({width}) = 2^width /\ UInt({0}) = 1 /\ UInt(AllOnes(width)) = 2^width - 1
          /\ 2^width \in Nat \ {0}
        BY ValueOfBit, SmallValues, ValueOfOnes, PowerIsPositive
    <2>3. /\ Sub({width}, {0}, LongLong) \in Word(LongLong)
          /\ UInt(Sub({width}, {0}, LongLong)) = UInt(AllOnes(width))
        BY <2>1, <2>2, DifferenceOfWords
    <2>4. Sub({width}, {0}, LongLong) = AllOnes(width)
        BY <2>1, <2>3, ValuesTellWords
    <2>5. bitmask(width, offset) = Shl(AllOnes(width), offset, LongLong)
        BY <1>1, <1>4, <2>4 DEF bitmask
    <2>6. Shl(AllOnes(width), offset, LongLong)
            = {i \in 0..(LongLong - 1) : i >= offset /\ i < offset + width}
        BY <1>4 DEF Shl, AllOnes
    <2>7. QED
        BY <1>1, <1>4, <2>5, <2>6 DEF bit
<1>5. QED
    BY <1>2, <1>3, <1>4

\* A widened word bit by bit.
LEMMA ExtendedBits ==
    ASSUME NEW n \in Nat, NEW x \in Word(n), NEW w \in Nat, n <= w, NEW signed \in BOOLEAN
    PROVE  /\ Extend(x, n, signed, w) \in Word(w)
           /\ \A i \in 0..(w - 1) :
                i \in Extend(x, n, signed, w) <=> i \in x \/ (signed /\ n - 1 \in x /\ i >= n)
<1> DEFINE y == IF signed /\ n - 1 \in x THEN x \cup n..(w - 1) ELSE x
<1>1. Extend(x, n, signed, w) = y \cap 0..(w - 1)
    BY DEF Extend, Trunc
<1>2. CASE signed /\ n - 1 \in x
    BY <1>1, <1>2 DEF Word
<1>3. CASE ~(signed /\ n - 1 \in x)
    BY <1>1, <1>3 DEF Word
<1>4. QED
    BY <1>2, <1>3

\* Widening a signed number keeps its value.
LEMMA SignExtension ==
    ASSUME NEW n \in Nat \ {0}, NEW x \in Word(n), NEW w \in Nat, n <= w
    PROVE  /\ Extend(x, n, TRUE, w) \in Word(w)
           /\ SInt(Extend(x, n, TRUE, w), w) = SInt(x, n)
<1> DEFINE E(m) == Extend(x, n, TRUE, m)
           T == {i \in Nat : \A m \in Nat : m = n + i => SInt(E(m), m) = SInt(x, n)}
<1>1. \A m \in Nat : n <= m =>
        /\ E(m) \in Word(m)
        /\ \A i \in 0..(m - 1) : i \in E(m) <=> i \in x \/ (n - 1 \in x /\ i >= n)
    BY ExtendedBits
<1>2. x \subseteq 0..(n - 1)
    BY DEF Word
<1> HIDE DEF E
<1>3. 0 \in T
    <2>1. E(n) \subseteq 0..(n - 1) /\ \A i \in 0..(n - 1) : i \in E(n) <=> i \in x
        BY <1>1 DEF Word
    <2>2. E(n) = x
        BY <1>2, <2>1
    <2>3. QED
        BY <2>2
<1>4. ASSUME NEW i \in 0..((w - n) - 1), i \in T PROVE i + 1 \in T
    <2> SUFFICES ASSUME NEW k \in Nat, k = n + (i + 1) PROVE SInt(E(k), k) = SInt(x, n)
        OBVIOUS
    <2> DEFINE m == n + i
               p == 2^m
    <2>1. m \in Nat \ {0} /\ n <= m /\ k = m + 1 /\ k - 1 = m /\ k > 0 /\ n <= k
        OBVIOUS
    <2>2. SInt(E(m), m) = SInt(x, n)
        BY <1>4, <2>1
    <2> HIDE DEF m
    <2>3. /\ E(k) \in Word(k) /\ E(m) \in Word(m)
          /\ m \in E(k) <=> n - 1 \in x
          /\ m - 1 \in E(m) <=> n - 1 \in x
          /\ \A j \in 0..(m - 1) : j \in E(k) <=> j \in E(m)
        BY <1>1, <1>2, <2>1
    <2>4. Trunc(E(k), m) = E(m)
        BY <2>3 DEF Trunc, Word
    <2>5. UInt(E(k)) = UInt(E(m)) + (IF n - 1 \in x THEN p ELSE 0)
        BY <2>1, <2>3, <2>4, UIntOfWord
    <2>6. UInt(E(m)) \in Int /\ p \in Int /\ 2^k = 2 * p
        BY <2>1, <2>3, UIntOfWord, PowerDoubles, PowerIsPositive
    <2>7. /\ SInt(E(k), k) = UInt(E(k)) - (IF n - 1 \in x THEN 2^k ELSE 0)
          /\ SInt(E(m), m) = UInt(E(m)) - (IF n - 1 \in x THEN p ELSE 0)
        BY <2>1, <2>3, <2>5, <2>6 DEF SInt
    <2> HIDE DEF p
    <2>8. QED
        BY <2>2, <2>5, <2>6, <2>7
<1> HIDE DEF T
<1>5. w - n \in Nat /\ w = n + (w - n)
    OBVIOUS
<1>6. w - n \in T
    BY <1>3, <1>4, <1>5, Induction
<1>7. SInt(E(w), w) = SInt(x, n)
    BY <1>5, <1>6 DEF T
<1>8. QED
    BY <1>1, <1>7 DEF E

-----------------------------------------------------------------------------
(* Fields.                                                                 *)

Lowered(y, o, n) == {j \in 0..(n - 1) : j + o \in y}
Inside(o, n, w) == {i \in 0..(w - 1) : i >= o /\ i < o + n}

\* The bits of a field, moved down, with and without the sign above them.
LEMMA ExtractedBits ==
    ASSUME BitOpsAssumption, NEW w \in 1..LongLong, NEW y \in Word(w),
           NEW o \in Nat, NEW n \in Nat, o + n <= w
    PROVE  /\ extract(y, o, n) = Lowered(y, o, n)
           /\ n > 0 => sextract(y, o, n, w) = Extend(Lowered(y, o, n), n, TRUE, w)
<1> DEFINE low == {j \in 0..(n - 1) : j + o \in y}
<1>0. Lowered(y, o, n) = low
    BY DEF Lowered
<1>1. LongLong \in Nat /\ w \in Nat \ {0} /\ w <= LongLong /\ y \subseteq 0..(w - 1)
    BY DEF BitOpsAssumption, Word
<1>2. extract(y, o, n) = low
    <2> DEFINE zero == 0
    <2>0. zero \in Nat /\ zero = 0
        OBVIOUS
    <2> HIDE DEF zero
    <2>1. bitmask(n, zero) = {i \in 0..(LongLong - 1) : i >= zero /\ i < zero + n}
        BY <2>0, MaskIsExact
    <2>a. {i \in 0..(LongLong - 1) : i >= zero /\ i < zero + n} = 0..(n - 1)
        <3>1. \A i : i \in {j \in 0..(LongLong - 1) : j >= zero /\ j < zero + n}
                     <=> i \in 0..(n - 1)
            BY <1>1, <2>0
        <3>2. QED
            BY <3>1
    <2>b. bitmask(n, 0) = 0..(n - 1)
        BY <2>1, <2>a DEF zero
    <2>2. \A j : j \in Shr(y, o) <=> j \in Nat /\ j + o \in y
        BY <1>1 DEF Shr
    <2>3. QED
        BY <2>b, <2>2 DEF extract
<1>3. ASSUME n > 0 PROVE sextract(y, o, n, w) = Extend(low, n, TRUE, w)
    <2> DEFINE up == w - n - o
               z == Shl(y, up, w)
               d == w - n
    <2>1. up \in Nat /\ d \in Nat /\ up = d - o
        BY <1>1
    <2>2. \A i : i \in z <=> i \in up..(w - 1) /\ i - up \in y
        BY DEF Shl
    <2>3. (w - 1 \in z <=> n - 1 \in low)
        BY <1>1, <1>3, <2>1, <2>2
    <2>4. Shr(z, d) = low
        <3>1. \A j : j \in Shr(z, d) <=> j \in Nat /\ j + d \in z
            BY <1>1, <2>1, <2>2 DEF Shr
        <3>2. \A j \in Nat : j + d \in z <=> j < n /\ j + o \in y
            BY <1>1, <2>1, <2>2
        <3>3. QED
            BY <3>1, <3>2
    <2>5. sextract(y, o, n, w) = Sar(z, d, w)
        BY <1>3 DEF sextract
    <2>b. w - d = n
        BY <1>1
    <2> HIDE DEF z, d, low
    <2>6. Sar(z, d, w) = IF n - 1 \in low THEN low \cup {i \in 0..(w - 1) : i >= n} ELSE low
        BY <2>3, <2>4, <2>b DEF Sar
    <2>7. {i \in 0..(w - 1) : i >= n} = n..(w - 1) /\ low \subseteq 0..(w - 1)
        BY <1>1 DEF low
    <2>8. (IF n - 1 \in low THEN low \cup n..(w - 1) ELSE low) \subseteq 0..(w - 1)
        BY <1>1, <2>7
    <2>9. QED
        BY <2>5, <2>6, <2>7, <2>8 DEF Extend, Trunc, d
<1>4. QED
    BY <1>0, <1>2, <1>3

\* A deposit replaces the bits inside and no other.
LEMMA DepositedBits ==
    ASSUME BitOpsAssumption, NEW w \in 1..LongLong, NEW x \in Word(w),
           NEW o \in Nat, NEW n \in Nat, o + n <= w, NEW in, NEW S,
           NEW v \in Word(w), Extend(in, S.w, S.signed, w) = v
    PROVE  /\ Trunc(bitmask(n, o), w) = Inside(o, n, w)
           /\ deposit(x, o, n, in, S, w)
                = (x \ Inside(o, n, w)) \cup {i \in Inside(o, n, w) : i - o \in v}
<1>1. LongLong \in Nat /\ w \in Nat \ {0} /\ w <= LongLong /\ x \subseteq 0..(w - 1)
    BY DEF BitOpsAssumption, Word
<1>2. Trunc(bitmask(n, o), w) = Inside(o, n, w)
    BY <1>1, MaskIsExact DEF Trunc, Inside
<1> DEFINE shifted == IF o < w THEN Shl(v, o, w) ELSE {}
<1>3. deposit(x, o, n, in, S, w)
        = (x \cap Not(Inside(o, n, w), w)) \cup (shifted \cap Inside(o, n, w))
    BY <1>2 DEF deposit
<1>4. x \cap Not(Inside(o, n, w), w) = x \ Inside(o, n, w)
    BY <1>1 DEF Not, AllOnes
<1>5. shifted \cap Inside(o, n, w) = {i \in Inside(o, n, w) : i - o \in v}
    BY <1>1 DEF Shl, Inside
<1>6. QED
    BY <1>2, <1>3, <1>4, <1>5

\* At every width up to the one of long long, every field, of either sign, is
\* read as it was written, and writing it leaves the others alone (bitfields.h).
THEOREM FieldsAreAlwaysIndependent ==
    ASSUME BitOpsAssumption, NEW w \in 1..LongLong, NEW signed \in BOOLEAN,
           NEW x \in Word(w), NEW v \in Word(w), NEW o \in Nat, NEW n \in Nat
    PROVE  FieldsAreIndependent(x, [w |-> w, signed |-> signed],
                                [OFFSET |-> o, LENGTH |-> n], v)
<1> DEFINE T == [w |-> w, signed |-> signed]
           f == [OFFSET |-> o, LENGTH |-> n]
<1>0. T.w = w /\ T.signed = signed /\ f.OFFSET = o /\ f.LENGTH = n
    OBVIOUS
<1> HIDE DEF T, f
<1> SUFFICES ASSUME o + n <= w PROVE FieldsAreIndependent(x, T, f, v)
    BY <1>0 DEF FieldsAreIndependent, InRange, T, f
<1> DEFINE y == set_fieldTo(f, x, v, T)
           low == Trunc(v, n)
           inside == Inside(o, n, w)
<1>1. /\ LongLong \in Nat \ {0} /\ w \in Nat \ {0} /\ w <= LongLong
      /\ x \subseteq 0..(w - 1) /\ v \subseteq 0..(w - 1)
    BY DEF BitOpsAssumption, Word
<1>2. Extend(v, w, signed, w) = v
    <2>1. ~(w - 1 >= w) /\ \A i \in 0..(w - 1) : ~(i >= w)
        BY <1>1
    <2>2. Extend(v, w, signed, w) \subseteq 0..(w - 1)
        BY DEF Extend, Trunc
    <2>3. \A i \in 0..(w - 1) : i \in Extend(v, w, signed, w) <=> i \in v
        BY <1>1, <2>1, ExtendedBits
    <2>4. QED
        BY <1>1, <2>2, <2>3
<1>3. MASK(f, w) = inside /\ y = (x \ inside) \cup {i \in inside : i - o \in v}
    BY <1>0, <1>2, DepositedBits DEF MASK, set_fieldTo
<1>4. y \in Word(w)
    BY <1>1, <1>3 DEF Inside, Word
<1>5. Lowered(y, o, n) = low
    <2>1. \A j \in 0..(n - 1) : j + o \in inside /\ (j + o) - o = j
        BY <1>1 DEF Inside
    <2> HIDE DEF inside, y
    <2>2. \A j \in 0..(n - 1) : j + o \in y <=> j \in v
        BY <1>3, <2>1
    <2>3. QED
        BY <2>2 DEF Trunc, Lowered
<1>6. low \in Word(n) /\ low \in Word(LongLong)
    BY <1>1 DEF Trunc, Word
<1> HIDE DEF y, low, inside
<1>7. extract(y, o, n) = low
    BY <1>4, <1>5, ExtractedBits
<1>8. n > 0 => sextract(y, o, n, w) = Extend(low, n, TRUE, w)
    BY <1>4, <1>5, ExtractedBits
<1> DEFINE wide == Extend(low, n, TRUE, w)
<1>a. n > 0 => SInt(wide, w) = SInt(low, n)
    <2>1. n <= w /\ (n > 0 => n \in Nat \ {0})
        BY <1>1
    <2>2. QED
        BY <1>1, <1>6, <2>1, SignExtension
<1>b. n > 0 => sextract(y, o, n, w) = wide
    BY <1>8
<1> HIDE DEF wide
<1>9. n > 0 => SInt(sextract(y, o, n, w), w) = SInt(low, n)
    BY <1>a, <1>b
<1>10. get_field(f, y, T) = IF signed /\ n > 0 THEN wide ELSE low
    <2>1. n = 0 => low = {}
        BY DEF low, Trunc
    <2>2. CASE signed
        <3>1. get_field(f, y, T) = sextract(y, o, n, w)
            BY <1>0, <2>2 DEF get_field
        <3>2. n = 0 => sextract(y, o, n, w) = {}
            BY DEF sextract
        <3>3. QED
            BY <1>b, <2>1, <2>2, <3>1, <3>2
    <2>3. CASE ~signed
        BY <1>0, <1>7, <2>3 DEF get_field
    <2>4. QED
        BY <2>2, <2>3
<1>11. y \ inside = x \ inside
    BY <1>3
<1>12. SetInMask(f, v, w) = y \cap inside
    <2>1. Shl(v, o, w) \cap inside = {i \in inside : i - o \in v}
        BY <1>1 DEF Shl, Inside, inside
    <2>2. y \cap inside = {i \in inside : i - o \in v}
        BY <1>3
    <2>3. QED
        BY <1>0, <1>3, <2>1, <2>2 DEF SetInMask
<1>13. set_field(f, x, w) = x \cup inside
    <2> DEFINE S == Unsigned(LongLong)
    <2>1. S.w = LongLong /\ S.signed = FALSE
        BY DEF Unsigned
    <2>2. Extend(AllOnes(LongLong), LongLong, FALSE, w) = 0..(w - 1) /\ 0..(w - 1) \in Word(w)
        BY <1>1 DEF Extend, Trunc, AllOnes, Word
    <2> DEFINE all == AllOnes(LongLong)
               v1 == 0..(w - 1)
    <2>a. Extend(all, S.w, S.signed, w) = v1 /\ v1 \in Word(w)
        BY <2>1, <2>2
    <2> HIDE DEF all, v1, S
    <2>3. deposit(x, o, n, all, S, w)
            = (x \ inside) \cup {i \in inside : i - o \in v1}
        BY <2>a, DepositedBits DEF inside
    <2>4. {i \in inside : i - o \in v1} = inside
        BY <1>1 DEF Inside, inside, v1
    <2> USE DEF all, S
    <2>5. QED
        BY <1>0, <2>3, <2>4 DEF set_field
<1>14. /\ set_bitOf(MASK(f, w), x, TRUE, w) = x \cup inside
       /\ set_bitOf(MASK(f, w), x, FALSE, w) = x \ inside
    <2>1. inside \subseteq 0..(w - 1)
        BY DEF Inside, inside
    <2>2. QED
        BY <1>1, <1>3, <2>1 DEF set_bitOf, Trunc, Not, AllOnes
<1>15. n > 0 => signext(low, n) = Extend(low, n, TRUE, LongLong)
    <2> DEFINE zero == 0
    <2>1. zero \in Nat /\ zero + n <= LongLong /\ LongLong \in 1..LongLong
        BY <1>1
    <2>2. Lowered(low, zero, n) = low
        <3>1. \A j \in 0..(n - 1) : j + zero = j
            OBVIOUS
        <3>2. low \subseteq 0..(n - 1)
            BY <1>6 DEF Word
        <3> HIDE DEF zero
        <3>3. QED
            BY <3>1, <3>2 DEF Lowered
    <2> HIDE DEF zero
    <2>3. n > 0 => sextract(low, zero, n, LongLong)
                    = Extend(Lowered(low, zero, n), n, TRUE, LongLong)
        BY <1>6, <2>1, ExtractedBits
    <2>4. QED
        BY <2>2, <2>3 DEF signext, zero
<1>16. QED
    BY <1>0, <1>3, <1>7, <1>9, <1>10, <1>11, <1>12, <1>13, <1>14, <1>15
    DEF FieldsAreIndependent, Inside, inside, y, low, wide

\* At every width, setting a bit of an array of two words sets that bit and no
\* other, on either side of the border (bitfields.h).
THEOREM ArrayBitsAreAlwaysIndependent ==
    ASSUME BitOpsAssumption, NEW w \in 1..LongLong, NEW x \in Word(w), NEW y \in Word(w)
    PROVE  ArrayBitsAreIndependent(x, y, w)
<1> DEFINE words == [k \in {0, 1} |-> IF k = 0 THEN x ELSE y]
<1>1. /\ LongLong \in Nat \ {0} /\ w \in Nat \ {0} /\ w <= LongLong
      /\ x \subseteq 0..(w - 1) /\ y \subseteq 0..(w - 1)
    BY DEF BitOpsAssumption, Word
<1>2. words[0] = x /\ words[1] = y /\ DOMAIN words = {0, 1}
    OBVIOUS
<1> HIDE DEF words
<1>a. \A k \in 0..1 : words[k] \subseteq 0..(w - 1)
    <2>1. \A k \in 0..1 : k = 0 \/ k = 1
        OBVIOUS
    <2>2. QED
        BY <1>1, <1>2, <2>1
<1> SUFFICES ASSUME NEW pos \in 0..(2 * w - 1), NEW other \in 0..(2 * w - 1),
                    NEW set \in BOOLEAN
             PROVE  get_bit(set_bit(words, pos, set, w), other, w)
                      = IF other = pos THEN set ELSE get_bit(words, other, w)
    BY DEF ArrayBitsAreIndependent, words
<1>3. ASSUME NEW p \in 0..(2 * w - 1)
      PROVE  /\ p \div w \in 0..1 /\ p % w \in 0..(w - 1) /\ p = w * (p \div w) + (p % w)
             /\ bit(p % w) = {p % w}
    <2>0. p \in Int
        BY <1>1
    <2>1. p \div w \in Int /\ p % w \in 0..(w - 1) /\ p = w * (p \div w) + (p % w)
        BY <1>1, <2>0, Division
    <2> DEFINE q == p \div w
               r == p % w
    <2> HIDE DEF q, r
    <2>2. q \in Int /\ r \in 0..(w - 1) /\ p = w * q + r
        BY <2>1 DEF q, r
    <2>3. q < 0 => w * q <= -w
        BY <1>1, <2>2
    <2>4. q > 1 => w * q >= 2 * w
        BY <1>1, <2>2
    <2>5. q \in 0..1
        BY <1>1, <2>2, <2>3, <2>4
    <2>6. r \in Nat /\ r < LongLong
        BY <1>1, <2>2
    <2>7. bit(r) = {r}
        BY <2>6, MaskIsExact
    <2>8. QED
        BY <2>1, <2>5, <2>7 DEF q, r
<1> DEFINE q1 == pos \div w
           r1 == pos % w
           q2 == other \div w
           r2 == other % w
<1>4. /\ q1 \in 0..1 /\ r1 \in 0..(w - 1) /\ pos = w * q1 + r1 /\ bit(r1) = {r1}
      /\ q2 \in 0..1 /\ r2 \in 0..(w - 1) /\ other = w * q2 + r2 /\ bit(r2) = {r2}
    BY <1>3
<1> DEFINE new == IF set THEN words[q1] \cup {r1} ELSE words[q1] \cap Not({r1}, w)
<1>5. set_bit(words, pos, set, w) = [words EXCEPT ![q1] = new]
    BY <1>4 DEF set_bit
<1>6. \A u : get_bit(u, other, w) = (u[q2] \cap {r2} # {})
    BY <1>4 DEF get_bit
<1> HIDE DEF q1, q2, r1, r2
<1>7. other = pos <=> q1 = q2 /\ r1 = r2
    BY <1>1, <1>4
<1> HIDE DEF new
<1>8. [words EXCEPT ![q1] = new][q2] = IF q1 = q2 THEN new ELSE words[q2]
    BY <1>2, <1>4
<1>9. r2 \in new <=> IF r2 = r1 THEN set ELSE r2 \in words[q1]
    BY <1>1, <1>a, <1>4 DEF Not, AllOnes, new
<1>10. /\ get_bit(set_bit(words, pos, set, w), other, w)
            <=> r2 \in [words EXCEPT ![q1] = new][q2]
       /\ get_bit(words, other, w) <=> r2 \in words[q2]
    BY <1>5, <1>6
<1>11. get_bit(set_bit(words, pos, set, w), other, w)
         <=> IF other = pos THEN set ELSE get_bit(words, other, w)
    BY <1>7, <1>8, <1>9, <1>10
<1>12. \A u : get_bit(u, other, w) \in BOOLEAN
    BY DEF get_bit
<1>13. QED
    BY <1>11, <1>12

-----------------------------------------------------------------------------
(* Queries.                                                                *)

\* A word that is not empty has a lowest bit.
LEMMA MinIsLower ==
    ASSUME NEW w \in Nat, NEW x \in Word(w), x # {}
    PROVE  Min(x) \in x /\ \A i \in x : Min(x) <= i
<1>1. x \in SUBSET Nat
    BY DEF Word
<1>2. \E n \in x : \A m \in x : n <= m
    BY <1>1, LeastNatural
<1>3. QED
    BY <1>2 DEF Min

\* Subtracting one clears the lowest bit and sets those below it.
LEMMA OneLess ==
    ASSUME NEW w \in Nat \ {0}, NEW x \in Word(w), x # {}
    PROVE  Sub(x, {0}, w) = (x \ {Min(x)}) \cup 0..(Min(x) - 1)
<1> DEFINE m == Min(x)
           rest == x \ {m}
           z == rest \cup AllOnes(m)
<1>1. m \in 0..(w - 1) /\ m \in x /\ \A i \in x : m <= i
    BY MinIsLower DEF Word
<1> HIDE DEF m
<1>2. /\ m \in Nat /\ {m} \in Word(w) /\ {0} \in Word(w) /\ AllOnes(m) \in Word(w)
      /\ rest \in Word(w) /\ rest \cap {m} = {} /\ rest \cup {m} = x
    BY <1>1 DEF Word, AllOnes
<1>3. rest \cap AllOnes(m) = {}
    BY <1>1 DEF AllOnes
<1> HIDE DEF rest
<1>4. /\ UInt(x) = UInt(rest) + 2^m
      /\ z \in Word(w) /\ UInt(z) = UInt(rest) + (2^m - 1)
      /\ 2^m \in Nat \ {0} /\ UInt(rest) \in Nat
    <2>1. UInt(x) = UInt(rest) + UInt({m})
        BY <1>2, DisjointSum
    <2>2. z \in Word(w) /\ UInt(z) = UInt(rest) + UInt(AllOnes(m))
        BY <1>2, <1>3, DisjointSum
    <2>3. QED
        BY <1>2, <2>1, <2>2, ValueOfBit, ValueOfOnes, PowerIsPositive, UIntOfWord
<1> DEFINE u == UInt(rest)
           p == 2^m
<1>5. UInt(x) = u + p /\ UInt(z) = u + (p - 1) /\ p \in Nat \ {0} /\ u \in Nat
    BY <1>4
<1> HIDE DEF u, p, z
<1>6. /\ Sub(x, {0}, w) \in Word(w)
      /\ UInt(Sub(x, {0}, w)) = UInt(x) - 1 + (IF 1 <= UInt(x) THEN 0 ELSE 2^w)
    BY <1>2, DifferenceOfWords, SmallValues
<1>7. UInt(Sub(x, {0}, w)) = UInt(z)
    BY <1>5, <1>6
<1>8. Sub(x, {0}, w) = z
    BY <1>4, <1>6, <1>7, ValuesTellWords
<1>9. QED
    BY <1>8 DEF z, rest, m, AllOnes

\* A number is a multiple of 2^n when its lowest n bits are not set.
LEMMA Alignment ==
    ASSUME NEW w \in Nat, NEW x \in Word(w), NEW n \in Nat
    PROVE  UInt(x) % 2^n = 0 <=> \A i \in x : i >= n
<1> DEFINE m == IF w < n THEN n ELSE w
<1>1. m \in Nat /\ w <= m /\ n \in 0..m
    OBVIOUS
<1>2. x \in Word(m)
    BY <1>1, Narrower
<1>3. Trunc(x, n) \in Word(n) /\ UInt(Trunc(x, n)) = UInt(x) % 2^n
    BY <1>1, <1>2, LowerBits
<1>4. {} \in Word(n)
    BY DEF Word
<1>5. UInt(x) % 2^n = 0 <=> Trunc(x, n) = {}
    BY <1>3, <1>4, SmallValues, ValuesTellWords
<1>6. Trunc(x, n) = {} <=> \A i \in x : i >= n
    BY DEF Trunc, Word
<1>7. QED
    BY <1>5, <1>6

\* A word with one bit is the power of two of that bit.
LEMMA PowersOfTwo ==
    ASSUME NEW w \in Nat \ {0}, NEW x \in Word(w)
    PROVE  /\ (x # {} /\ x \cap Sub(x, {0}, w) = {}) <=> Cardinality(x) = 1
           /\ Cardinality(x) = 1 => UInt(x) = 2^Min(x)
<1>1. IsFiniteSet(x) /\ x \subseteq 0..(w - 1)
    <2>1. 0 \in Int /\ w - 1 \in Int
        OBVIOUS
    <2>2. IsFiniteSet(0..(w - 1))
        BY <2>1, FS_Interval
    <2>3. x \subseteq 0..(w - 1)
        BY DEF Word
    <2>4. QED
        BY <2>2, <2>3, FS_Subset
<1>2. Cardinality(x) = 1 <=> \E i : x = {i}
    BY <1>1, FS_Singleton
<1>3. ASSUME x # {} PROVE x \cap Sub(x, {0}, w) = x \ {Min(x)} /\ Min(x) \in x /\ Min(x) \in Nat
    <2>0. Min(x) \in x /\ \A i \in x : Min(x) <= i
        BY <1>3, MinIsLower
    <2>a. \A i \in x : i \in Nat
        BY <1>1
    <2>1. Min(x) \in x /\ Min(x) \in Nat /\ \A i \in x : i \in Nat /\ Min(x) <= i
        BY <2>0, <2>a
    <2>2. \A i \in x : i \notin 0..(Min(x) - 1)
        BY <2>1
    <2>3. QED
        BY <1>3, <2>1, <2>2, OneLess
<1>4. x # {} => (x \ {Min(x)} = {} <=> x = {Min(x)})
    BY <1>3
<1>5. ASSUME NEW i, x = {i} PROVE Min(x) = i /\ x # {}
    BY <1>3, <1>5
<1>6. Cardinality(x) = 1 <=> x # {} /\ x = {Min(x)}
    BY <1>2, <1>5
<1>7. (x # {} /\ x \cap Sub(x, {0}, w) = {}) <=> Cardinality(x) = 1
    BY <1>3, <1>4, <1>6
<1>8. ASSUME Cardinality(x) = 1 PROVE UInt(x) = 2^Min(x)
    <2> DEFINE m == Min(x)
    <2>1. x = {m} /\ m \in Nat
        BY <1>3, <1>6, <1>8
    <2> HIDE DEF m
    <2>2. m \in Nat
        BY <2>1
    <2>3. UInt({m}) = 2^m
        BY ONLY <2>2, ValueOfBit
    <2>4. QED
        BY <2>1, <2>3 DEF m
<1>9. QED
    BY <1>7, <1>8

\* Turning a word is adding to the places of its bits, modulo the width.
LEMMA Rotation ==
    ASSUME NEW w \in Nat \ {0}, NEW x \in Word(w), NEW n \in Nat
    PROVE  /\ rol(x, n, w) = {(i + n) % w : i \in x}
           /\ ror(rol(x, n, w), n, w) = x
<1> DEFINE k == n % w
           r == rol(x, n, w)
<1>0. n \in Int /\ w \in Nat \ {0}
    OBVIOUS
<1>1. n \in Int /\ n \div w \in Int /\ k \in 0..(w - 1) /\ n = w * (n \div w) + k
    BY ONLY <1>0, Division
<1>2. x \subseteq 0..(w - 1)
    BY DEF Word
<1>3. \A i \in 0..(w - 1) : (i + n) % w = IF i + k < w THEN i + k ELSE i + k - w
    <2> SUFFICES ASSUME NEW i \in 0..(w - 1)
                 PROVE  (i + n) % w = IF i + k < w THEN i + k ELSE i + k - w
        OBVIOUS
    <2> DEFINE q == n \div w
    <2>0. q \in Int /\ n = w * q + k /\ k \in 0..(w - 1)
        BY <1>1
    <2> HIDE DEF q, k
    <2>1. CASE i + k < w
        <3>1. i + n \in Int /\ i + k \in Int /\ i + n = w * q + (i + k) /\ 0 <= i + k
            BY <2>0
        <3>2. QED
            BY <2>0, <2>1, <3>1, QuotientAndRest
    <2>2. CASE ~(i + k < w)
        <3> DEFINE j == (i + k) - w
        <3>1. w * (q + 1) = w * q + w
            BY <2>0
        <3>2. i + n = w * (q + 1) + j /\ 0 <= j /\ j < w /\ j \in Int /\ q + 1 \in Int /\ i + n \in Int
            BY <2>0, <2>2, <3>1
        <3> HIDE DEF j
        <3>3. (i + n) % w = j
            BY <3>2, QuotientAndRest
        <3>4. j = i + k - w
            BY <2>0 DEF j
        <3>5. QED
            BY <2>2, <3>3, <3>4
    <2>3. QED
        BY <2>1, <2>2
<1>4. rol(x, n, w) = IF k = 0 THEN x ELSE Shl(x, k, w) \cup Shr(x, w - k)
    BY DEF rol
<1>5. \A z : ror(z, n, w) = IF k = 0 THEN z ELSE Shr(z, k) \cup Shl(z, w - k, w)
    BY DEF ror
<1> HIDE DEF k
<1>6. rol(x, n, w) \subseteq 0..(w - 1)
    <2>1. Shl(x, k, w) \subseteq 0..(w - 1)
        BY <1>1 DEF Shl
    <2>2. Shr(x, w - k) \subseteq 0..(w - 1)
        BY <1>1, <1>2 DEF Shr
    <2>3. QED
        BY <1>2, <1>4, <2>1, <2>2
<1>7. \A j \in 0..(w - 1) : j \in rol(x, n, w) <=> (IF j >= k THEN j - k ELSE (j - k) + w) \in x
    <2>1. CASE k = 0
        BY <1>4, <2>1
    <2>2. CASE k # 0
        <3>1. \A j \in 0..(w - 1) : j \in Shl(x, k, w) <=> j >= k /\ j - k \in x
            BY <1>1 DEF Shl
        <3>2. \A j \in 0..(w - 1) : j \in Shr(x, w - k) <=> j + (w - k) \in x
            BY <1>1, <1>2 DEF Shr
        <3>3. \A j \in 0..(w - 1) : j < k => ~(j - k \in x)
            BY <1>1, <1>2
        <3>4. \A j \in 0..(w - 1) : j >= k => ~(j + (w - k) \in x)
            BY <1>1, <1>2
        <3>5. \A j \in 0..(w - 1) : (j - k) + w = j + (w - k)
            BY <1>1
        <3>6. QED
            BY <1>4, <2>2, <3>1, <3>2, <3>3, <3>4, <3>5
    <2>3. QED
        BY <2>1, <2>2
<1>8. rol(x, n, w) = {(i + n) % w : i \in x}
    <2> DEFINE to(i) == IF i + k < w THEN i + k ELSE i + k - w
               from(j) == IF j >= k THEN j - k ELSE (j - k) + w
    <2>1. \A i \in 0..(w - 1) : to(i) \in 0..(w - 1) /\ from(to(i)) = i
        BY <1>1
    <2>2. \A j \in 0..(w - 1) : from(j) \in 0..(w - 1) /\ to(from(j)) = j
        BY <1>1
    <2>3. \A i \in x : (i + n) % w = to(i)
        BY <1>2, <1>3
    <2>4. \A j \in 0..(w - 1) : j \in rol(x, n, w) <=> from(j) \in x
        BY <1>7
    <2> HIDE DEF to, from
    <2>5. {(i + n) % w : i \in x} = {to(i) : i \in x}
        BY <2>3
    <2>6. {to(i) : i \in x} \subseteq rol(x, n, w)
        BY <1>2, <2>1, <2>4
    <2>7. rol(x, n, w) \subseteq {to(i) : i \in x}
        BY <1>6, <2>2, <2>4
    <2>8. QED
        BY <2>5, <2>6, <2>7
<1>9. ror(r, n, w) = x
    <2>0. r \subseteq 0..(w - 1) /\ \A j \in 0..(w - 1) :
            j \in r <=> (IF j >= k THEN j - k ELSE (j - k) + w) \in x
        BY <1>6, <1>7
    <2>1. CASE k = 0
        BY <1>4, <1>5, <2>1
    <2>2. CASE k # 0
        <3> HIDE DEF r
        <3>1. \A i \in 0..(w - 1) : i \in Shr(r, k) <=> i + k < w /\ i + k \in r
            BY <1>1, <2>0 DEF Shr
        <3>2. \A i \in 0..(w - 1) : i \in Shl(r, w - k, w) <=> i >= w - k /\ i - (w - k) \in r
            BY <1>1 DEF Shl
        <3>3. \A i \in 0..(w - 1) : i + k < w =>
                i + k \in 0..(w - 1) /\ i + k >= k /\ (i + k) - k = i /\ ~(i >= w - k)
            BY <1>1
        <3>4. \A i \in 0..(w - 1) : ~(i + k < w) =>
                /\ i - (w - k) \in 0..(w - 1) /\ ~(i - (w - k) >= k) /\ i >= w - k
                /\ ((i - (w - k)) - k) + w = i
            BY <1>1
        <3>5. \A i \in 0..(w - 1) : i + k < w => (i \in Shr(r, k) <=> i \in x)
            BY <2>0, <3>1, <3>3
        <3>6. \A i \in 0..(w - 1) : ~(i + k < w) => (i \in Shl(r, w - k, w) <=> i \in x)
            BY <2>0, <3>2, <3>4
        <3>7. /\ Shr(r, k) \subseteq 0..(w - 1) /\ Shl(r, w - k, w) \subseteq 0..(w - 1)
              /\ \A i \in 0..(w - 1) : i \in Shr(r, k) => i + k < w
              /\ \A i \in 0..(w - 1) : i \in Shl(r, w - k, w) => ~(i + k < w)
            BY <1>1, <2>0, <3>1, <3>2, <3>3 DEF Shr, Shl
        <3>8. Shr(r, k) \cup Shl(r, w - k, w) = x
            BY <1>2, <3>5, <3>6, <3>7
        <3>9. QED
            BY <1>5, <2>2, <3>8
    <2>3. QED
        BY <2>1, <2>2
<1>10. QED
    BY <1>8, <1>9

\* At every width up to the one of long long the queries are exact for words
\* that are not extended with their sign, and rotations can be undone (bitops.h).
THEOREM QueriesAreAlwaysExact ==
    ASSUME BitOpsAssumption, NEW w \in 1..LongLong, NEW signed \in BOOLEAN,
           NEW x \in Word(w), NEW n \in Nat
    PROVE  QueriesAreExactFor(x, [w |-> w, signed |-> signed], n)
<1> DEFINE T == [w |-> w, signed |-> signed]
<1>0. T.w = w /\ T.signed = signed
    OBVIOUS
<1> HIDE DEF T
<1> SUFFICES ASSUME signed /\ w < LongLong => w - 1 \notin x
             PROVE  QueriesAreExactFor(x, T, n)
    BY <1>0 DEF QueriesAreExactFor, T
<1>1. LongLong \in Nat \ {0} /\ w \in Nat \ {0} /\ w <= LongLong /\ x \subseteq 0..(w - 1)
    BY DEF BitOpsAssumption, Word
<1>2. Wide(x, T) = x
    <2> DEFINE y == Extend(x, w, signed, LongLong)
    <2>1. y \subseteq 0..(LongLong - 1)
        BY DEF Extend, Trunc
    <2>2. \A i \in 0..(LongLong - 1) : i \in y <=> i \in x \/ (signed /\ w - 1 \in x /\ i >= w)
        BY <1>1, ExtendedBits
    <2>3. \A i \in 0..(LongLong - 1) : ~(signed /\ w - 1 \in x /\ i >= w)
        BY <1>1
    <2>4. Wide(x, T) = y
        BY <1>0 DEF Wide
    <2>a. x \subseteq 0..(LongLong - 1)
        BY <1>1
    <2> HIDE DEF y
    <2>5. y = x
        <3>1. \A i \in 0..(LongLong - 1) : i \in y <=> i \in x
            BY <2>2, <2>3
        <3>2. QED
            BY <2>1, <2>a, <3>1
    <2>6. QED
        BY <2>4, <2>5
<1>3. popcnt(x, T) = Cardinality(x) /\ (parity(x, T) = 1 <=> Cardinality(x) % 2 = 1)
    BY <1>2 DEF popcnt, parity
<1>4. is_aligned(x, T, 2^n) <=> \A i \in x : i >= n
    BY <1>1, <1>2, Alignment DEF is_aligned
<1>5. /\ ctz(x, T) = IF x = {} THEN w ELSE Min(x)
      /\ clz(x, T) = IF x = {} THEN w ELSE LongLong - 1 - Max(x) - (LongLong - w)
      /\ ffs(x, T) = IF x = {} THEN -1 ELSE Min(x)
      /\ fls(x, T) = (w - clz(x, T)) - 1
    BY <1>0, <1>2 DEF ctz, clz, ffs, fls
<1>6. x # {} => /\ Min(x) \in x /\ Max(x) \in x /\ Min(x) \in Int /\ Max(x) \in Int
                /\ \A i \in x : i \in Int /\ Min(x) <= i /\ i <= Max(x)
    <2>1. \A i \in x : i \in Int
        BY <1>1
    <2>2. x # {} => Min(x) \in x /\ \A i \in x : Min(x) <= i
        BY <1>1, MinIsLower
    <2>3. x # {} => Max(x) \in x /\ \A i \in x : i <= Max(x)
        BY <1>1, MaxIsUpper
    <2>4. QED
        BY <2>1, <2>2, <2>3
<1>7. \A k \in 0..ctz(x, T) : k < w => (k \in x <=> k = ctz(x, T))
    BY <1>1, <1>5, <1>6
<1>8. clz(x, T) = IF x = {} THEN w ELSE (w - 1) - Max(x)
    BY <1>1, <1>5, <1>6
<1>9. \A k \in 0..clz(x, T) : k < w => (w - 1 - k \in x <=> k = clz(x, T))
    <2>1. CASE x = {}
        BY <1>1, <1>8, <2>1
    <2>2. CASE x # {}
        <3> SUFFICES ASSUME NEW k \in 0..clz(x, T), k < w
                     PROVE  (w - 1) - k \in x <=> k = clz(x, T)
            BY <1>1
        <3> DEFINE m == Max(x)
        <3>1. clz(x, T) = (w - 1) - m /\ m \in Int /\ m \in x /\ \A i \in x : i <= m
            BY <1>6, <1>8, <2>2
        <3> HIDE DEF m
        <3>2. CASE k = clz(x, T)
            <4>1. (w - 1) - k = m
                BY <1>1, <3>1, <3>2
            <4>2. QED
                BY <3>1, <3>2, <4>1
        <3>3. CASE k # clz(x, T)
            <4>1. (w - 1) - k > m
                BY <1>1, <3>1, <3>3
            <4>2. QED
                BY <1>1, <3>1, <3>3, <4>1
        <3>4. QED
            BY <3>2, <3>3
    <2>3. QED
        BY <2>1, <2>2
<1>10. /\ x # {} => ffs(x, T) = ctz(x, T) /\ fls(x, T) = T.w - 1 - clz(x, T)
       /\ x = {} => ffs(x, T) = -1 /\ fls(x, T) = -1
    BY <1>0, <1>1, <1>5, <1>6, <1>8
<1>11. is_pow2(x, T) <=> Cardinality(x) = 1
    BY <1>0, <1>1, PowersOfTwo DEF is_pow2
<1>12. is_pow2(x, T) => UInt(x) = 2^log2i(x, T)
    BY <1>1, <1>5, <1>11, PowersOfTwo DEF is_pow2, log2i
<1>13. rol(x, n, w) = {(i + n) % w : i \in x} /\ ror(rol(x, n, w), n, w) = x
    BY <1>1, Rotation
<1>14. QED
    BY <1>0, <1>3, <1>4, <1>7, <1>9, <1>10, <1>11, <1>12, <1>13 DEF QueriesAreExactFor

-----------------------------------------------------------------------------
(* Sizes.                                                                  *)

\* The value of a word of type [w, signed] has k bits.
HasValue(x, w, signed) == IF signed THEN SInt(x, w) ELSE UInt(x)
FitsIn(n, k, signed) == IF signed THEN -2^(k - 1) <= n /\ n < 2^(k - 1) ELSE n < 2^k

\* A type holds its own values, and those of narrower ones.
LEMMA WiderFits ==
    ASSUME NEW w \in Nat \ {0}, NEW x \in Word(w), NEW k \in Nat, w <= k,
           NEW signed \in BOOLEAN
    PROVE  FitsIn(HasValue(x, w, signed), k, signed)
<1>1. /\ SInt(x, w) \in -2^(w - 1) .. 2^(w - 1) - 1 /\ UInt(x) \in 0..(2^w - 1)
      /\ 2^w \in Nat \ {0} /\ 2^(w - 1) \in Nat \ {0}
    BY SignBit
<1>2. ASSUME NEW i \in Nat, NEW j \in Nat, i <= j PROVE 2^i <= 2^j /\ 2^j \in Nat
    <2> DEFINE p == 2^i
               d == 2^(j - i)
    <2>1. j - i \in Nat /\ i + (j - i) = j
        BY <1>2
    <2>2. 2^j = p * d /\ p \in Nat \ {0} /\ d \in Nat \ {0}
        BY <2>1, PowerOfSum, PowerIsPositive
    <2> HIDE DEF p, d
    <2>3. p * d >= p /\ p * d \in Nat
        BY <2>2
    <2>4. QED
        BY <2>2, <2>3 DEF p
<1>3. 2^w <= 2^k /\ 2^(w - 1) <= 2^(k - 1) /\ 2^k \in Nat /\ 2^(k - 1) \in Nat
    BY <1>2
<1> DEFINE a == 2^(w - 1)
           b == 2^(k - 1)
           c == 2^w
           d == 2^k
           s == SInt(x, w)
           u == UInt(x)
<1>4. /\ s \in -a .. (a - 1) /\ u \in 0..(c - 1) /\ a \in Nat /\ c \in Nat
      /\ c <= d /\ a <= b /\ d \in Nat /\ b \in Nat
    BY <1>1, <1>3
<1> HIDE DEF a, b, c, d, s, u
<1>5. -b <= s /\ s < b /\ u < d
    BY <1>4
<1>6. QED
    BY <1>5 DEF FitsIn, HasValue, b, d, s, u

\* Signed values tell words as well.
LEMMA SignedValuesTellWords ==
    ASSUME NEW w \in Nat \ {0}, NEW x \in Word(w), NEW y \in Word(w), SInt(x, w) = SInt(y, w)
    PROVE  x = y
<1> DEFINE p == 2^w
<1>1. /\ UInt(x) \in 0..(p - 1) /\ UInt(y) \in 0..(p - 1) /\ p \in Nat
    BY SignBit, PowerIsPositive
<1>2. /\ SInt(x, w) = UInt(x) \/ SInt(x, w) = UInt(x) - p
      /\ SInt(y, w) = UInt(y) \/ SInt(y, w) = UInt(y) - p
    BY DEF SInt
<1> HIDE DEF p
<1>3. UInt(x) = UInt(y)
    BY <1>1, <1>2
<1>4. QED
    BY <1>3, ValuesTellWords

\* The conversion to a narrower type and back keeps what that type can hold.
LEMMA NarrowerFits ==
    ASSUME NEW w \in Nat \ {0}, NEW x \in Word(w), NEW k \in Nat \ {0}, k < w,
           NEW signed \in BOOLEAN
    PROVE  Extend(Trunc(x, k), k, signed, w) = x
             <=> FitsIn(HasValue(x, w, signed), k, signed)
<1> DEFINE t == Trunc(x, k)
           y == Extend(t, k, signed, w)
<1>1. t \in Word(k)
    BY TruncIsWord
<1> HIDE DEF t
<1>2. y \in Word(w) /\ \A i \in 0..(w - 1) : i \in y <=> i \in t \/ (signed /\ k - 1 \in t /\ i >= k)
    BY <1>1, ExtendedBits
<1>3. ASSUME ~signed PROVE y = t
    <2>1. \A i \in 0..(w - 1) : i \in y <=> i \in t
        BY <1>2, <1>3
    <2>2. t \subseteq 0..(w - 1) /\ y \subseteq 0..(w - 1)
        BY <1>1, <1>2 DEF Word
    <2>3. QED
        BY <2>1, <2>2
<1>4. CASE ~signed
    <2>1. UInt(t) = UInt(x) % 2^k /\ UInt(t) \in 0..(2^k - 1) /\ 2^k \in Nat \ {0} /\ UInt(x) \in Nat
        BY <1>1, LowerBits, UIntOfWord, PowerIsPositive DEF t
    <2>2. UInt(x) < 2^k => UInt(x) % 2^k = UInt(x)
        BY <2>1, RestOfSmall
    <2>3. t \in Word(w)
        BY <1>1, Narrower
    <2>4. UInt(x) < 2^k <=> UInt(t) = UInt(x)
        BY <2>1, <2>2
    <2>5. UInt(t) = UInt(x) <=> t = x
        BY <2>3, ValuesTellWords
    <2>6. FitsIn(HasValue(x, w, signed), k, signed) <=> UInt(x) < 2^k
        BY <1>4 DEF FitsIn, HasValue
    <2>7. y = t /\ Extend(Trunc(x, k), k, signed, w) = y
        BY <1>3, <1>4 DEF t
    <2> HIDE DEF y
    <2>8. QED
        BY <2>4, <2>5, <2>6, <2>7
<1>5. CASE signed
    <2> DEFINE n == SInt(x, w)
    <2>1. y = Extend(t, k, TRUE, w)
        BY <1>5
    <2>2. SInt(y, w) = SInt(t, k) /\ SInt(t, k) \in -2^(k - 1) .. 2^(k - 1) - 1
          /\ 2^(k - 1) \in Nat
        <3>1. k <= w /\ k \in Nat \ {0} /\ w \in Nat
            OBVIOUS
        <3> DEFINE z == Extend(t, k, TRUE, w)
        <3>2. SInt(z, w) = SInt(t, k)
            BY <1>1, <3>1, SignExtension
        <3>3. SInt(t, k) \in -2^(k - 1) .. 2^(k - 1) - 1 /\ 2^(k - 1) \in Nat
            BY <1>1, <3>1, SignBit
        <3> HIDE DEF z, y
        <3>4. y = z
            BY <2>1 DEF z
        <3>5. QED
            BY <3>2, <3>3, <3>4
    <2>3. ASSUME -2^(k - 1) <= n, n < 2^(k - 1) PROVE y = x
        <3>1. n \in Int
            BY SignBit, PowerIsPositive
        <3>2. n \in -2^(k - 1) .. 2^(k - 1) - 1
            BY <2>2, <2>3, <3>1
        <3>3. SInt(OfInt(n, k), k) = n
            BY <3>2, SignedValueOfWord
        <3>4. OfInt(n, w) = x
            <4>1. n = UInt(x) \/ n = UInt(x) + (-1) * 2^w
                BY UIntOfWord, PowerIsPositive DEF SInt
            <4>2. UInt(x) \in Int /\ -1 \in Int
                BY UIntOfWord
            <4>3. OfInt(UInt(x) + (-1) * 2^w, w) = OfInt(UInt(x), w)
                BY <4>2, OfIntPeriodic
            <4>4. QED
                BY <4>1, <4>3, WordOfValue
        <3>5. OfInt(n, k) = t
            BY <3>4 DEF OfInt, Trunc, t
        <3>6. SInt(y, w) = SInt(x, w)
            BY <2>2, <3>3, <3>5
        <3>7. QED
            BY <1>2, <3>6, SignedValuesTellWords
    <2>4. ASSUME y = x PROVE -2^(k - 1) <= n /\ n < 2^(k - 1)
        <3> DEFINE p == 2^(k - 1)
        <3>1. n \in -p .. (p - 1) /\ p \in Nat
            BY <2>2, <2>4
        <3> HIDE DEF p, n
        <3>2. -p <= n /\ n < p
            BY <3>1
        <3>3. QED
            BY <3>2 DEF p
    <2>5. QED
        BY <1>5, <2>3, <2>4 DEF FitsIn, HasValue, t
<1>6. QED
    BY <1>4, <1>5

\* A value fits into a type when converting it there and back keeps it.
LEMMA FitsIsExact ==
    ASSUME NEW w \in Nat \ {0}, NEW x \in Word(w), NEW k \in Nat \ {0},
           NEW signed \in BOOLEAN, NEW T1, NEW T2,
           T1.w = w, T1.signed = signed, T2.w = k, T2.signed = signed
    PROVE  fits(x, T1, T2) <=> FitsIn(HasValue(x, w, signed), k, signed)
<1> DEFINE y == Extend(x, w, signed, k)
<1>1. fits(x, T1, T2) <=> Extend(y, k, signed, w) = x
    BY DEF fits
<1>2. x \subseteq 0..(w - 1)
    BY DEF Word
<1>3. CASE w <= k
    <2>1. y \in Word(k) /\ Trunc(y, w) = x
        BY <1>3, ExtendAndTrunc, ExtendedBits
    <2>2. Extend(y, k, signed, w) = x
        <3> HIDE DEF y
        <3>1. y \subseteq 0..(k - 1)
            BY <2>1 DEF Word
        <3>2. \A i \in k..(w - 1) : FALSE
            BY <1>3
        <3>3. k..(w - 1) = {}
            BY <3>2
        <3>4. (IF signed /\ k - 1 \in y THEN y \cup k..(w - 1) ELSE y) = y
            BY <3>3
        <3>5. QED
            BY <2>1, <3>4 DEF Extend
    <2>3. QED
        BY <1>1, <1>3, <2>2, WiderFits
<1>4. CASE k < w
    <2>1. y = Trunc(x, k)
        <3>1. \A i \in w..(k - 1) : FALSE
            BY <1>4
        <3>2. w..(k - 1) = {}
            BY <3>1
        <3>3. (IF signed /\ w - 1 \in x THEN x \cup w..(k - 1) ELSE x) = x
            BY <3>2
        <3>4. QED
            BY <3>3 DEF Extend
    <2>2. QED
        BY <1>1, <1>4, <2>1, NarrowerFits
<1>5. QED
    BY <1>3, <1>4

\* At every width of long long, masks are exact at their borders, and for the
\* four types up to it encode_size finds the least that holds the value (bitops.h).
THEOREM MasksAndSizesAreAlwaysExact ==
    ASSUME BitOpsAssumption,
           NEW w \in {LongLong \div 8, LongLong \div 4, LongLong \div 2, LongLong},
           NEW signed \in BOOLEAN, NEW x \in Word(w), NEW n \in Nat
    PROVE  MasksAndSizesAreExact(x, [w |-> w, signed |-> signed], n)
<1> DEFINE T == [w |-> w, signed |-> signed]
           widths == {LongLong \div 8, LongLong \div 4, LongLong \div 2, LongLong}
           sizes == {k \in widths : fits(x, T, [T EXCEPT !.w = k])}
           v == HasValue(x, w, signed)
<1>0. /\ T.w = w /\ T.signed = signed
      /\ \A k : [T EXCEPT !.w = k].w = k /\ [T EXCEPT !.w = k].signed = signed
    OBVIOUS
<1> HIDE DEF T
<1>1. PICK b \in Nat \ {0} : LongLong = 8 * b
    <2>1. LongLong = 8 * (LongLong \div 8) + (LongLong % 8)
        BY DEF BitOpsAssumption
    <2>2. QED
        BY <2>1 DEF BitOpsAssumption
<1>2. widths = {b, 2 * b, 4 * b, 8 * b}
    BY <1>1
<1>3. LongLong \div 8 = b
    BY <1>1
<1> HIDE DEF widths
<1>4. w \in widths /\ w \in Nat \ {0} /\ widths \subseteq Nat \ {0}
    <2>1. w \in widths
        BY DEF widths
    <2>2. QED
        BY <1>2, <2>1
<1>5. \A k \in widths : fits(x, T, [T EXCEPT !.w = k]) <=> FitsIn(v, k, signed)
    <2> SUFFICES ASSUME NEW k \in widths
                 PROVE  fits(x, T, [T EXCEPT !.w = k]) <=> FitsIn(v, k, signed)
        OBVIOUS
    <2> DEFINE T2 == [T EXCEPT !.w = k]
    <2>1. T2.w = k /\ T2.signed = signed /\ k \in Nat \ {0}
        BY <1>0, <1>4
    <2> HIDE DEF T2
    <2>2. fits(x, T, T2) <=> FitsIn(HasValue(x, w, signed), k, signed)
        BY <1>0, <1>4, <2>1, FitsIsExact
    <2>3. QED
        BY <2>2 DEF T2
<1>6. sizes = {k \in widths : FitsIn(v, k, signed)}
    BY <1>5
<1>7. w \in sizes /\ sizes \in SUBSET Nat /\ sizes # {}
    BY <1>4, <1>6, WiderFits
<1>8. encode_size(x, T) = Min(sizes)
    BY <1>7 DEF encode_size, widths
<1> HIDE DEF sizes
<1>9. Min(sizes) \in sizes /\ \A k \in sizes : Min(sizes) <= k
    BY <1>7, LeastNatural DEF Min
<1> DEFINE size == Min(sizes)
<1>10. size \in widths /\ FitsIn(v, size, signed)
    BY <1>6, <1>9
<1>11. ASSUME size > LongLong \div 8 PROVE ~FitsIn(v, size \div 2, signed)
    <2> HIDE DEF size
    <2>1. size \in {2 * b, 4 * b, 8 * b}
        BY <1>2, <1>3, <1>10, <1>11
    <2>2. size \div 2 \in widths /\ ~(size <= size \div 2)
        BY <1>2, <2>1
    <2>3. QED
        BY <1>6, <1>9, <2>2 DEF size
<1> HIDE DEF size
<1>12. /\ \A k : FitsIn(v, k, signed) <=>
                    IF T.signed
                    THEN -2^(k - 1) <= (IF T.signed THEN SInt(x, T.w) ELSE UInt(x))
                          /\ (IF T.signed THEN SInt(x, T.w) ELSE UInt(x)) < 2^(k - 1)
                    ELSE (IF T.signed THEN SInt(x, T.w) ELSE UInt(x)) < 2^k
    BY <1>0 DEF FitsIn, HasValue
<1>13. encode_size(x, T) = size
    BY <1>8 DEF size
<1>14. UInt(x) \in Nat
    BY <1>4, UIntOfWord
<1>15. bitmask(n, UInt(x)) = {i \in 0..(LongLong - 1) : i >= UInt(x) /\ i < UInt(x) + n}
    BY <1>14, MaskIsExact
<1>16. n < LongLong => bit(n) = {n}
    BY MaskIsExact
<1>17. QED
    <2>1. FitsIn(v, size, signed) /\ (size > LongLong \div 8 => ~FitsIn(v, size \div 2, signed))
        BY <1>10, <1>11
    <2> HIDE DEF v
    <2>2. MasksAndSizesAreExact(x, T, n)
        BY <1>12, <1>13, <1>15, <1>16, <2>1 DEF MasksAndSizesAreExact
    <2>3. QED
        BY <2>2 DEF T

-----------------------------------------------------------------------------
(* Atomic operations.                                                      *)

\* AtomicMemory has its own copies of the operators on words.
LEMMA SameWords ==
    /\ \A x : Abstract!UInt(x) = UInt(x)
    /\ \A x, w : Abstract!Trunc(x, w) = Trunc(x, w)
    /\ \A x, y : Abstract!Xor(x, y) = Xor(x, y)
    /\ \A n, w : Abstract!OfInt(n, w) = OfInt(n, w)
    /\ \A w : Abstract!AllOnes(w) = AllOnes(w)
<1>1. \A x : Abstract!UInt(x) = UInt(x)
    BY DEF Abstract!UInt, UInt, Abstract!Max, Max
<1>2. \A x, y : Abstract!Xor(x, y) = Xor(x, y)
    BY DEF Abstract!Xor, Xor, Abstract!SymDiff, SymDiff
<1>3. QED
    BY <1>1, <1>2
       DEF Abstract!Trunc, Trunc, Abstract!OfInt, OfInt, Abstract!AllOnes, AllOnes

\* What the parts of a call are.
LEMMA CallTypes ==
    ASSUME AtomicsAssumption, NEW c \in Calls
    PROVE  /\ Width(c) \in Nat \ {0}
           /\ c.val \in Word(Width(c)) /\ c.cmp \in Word(Width(c))
           /\ c.size \in NativeSizes => Width(c) <= LongBits
           /\ c.signed \in BOOLEAN /\ c # Idle
           /\ c.size \in Nat \ {0}
           /\ LongBits \in Nat
           /\ Abstract!Width(c.size) = Width(c)
           /\ Abstract!Modulus(c) = 2^Width(c)
           /\ Operand(c) \in Word(Width(c)) /\ Operand(c) \subseteq mem
<1>1. c.size \in Nat \ {0} /\ ByteBits \in Nat \ {0}
    BY DEF AtomicsAssumption
<1>2. Width(c) \in Nat \ {0} /\ Abstract!Width(c.size) = Width(c)
    BY <1>1 DEF Width, Abstract!Width
<1>3. c.size \in NativeSizes => Width(c) <= LongBits
    BY <1>1 DEF AtomicsAssumption, Width
<1>4. Operand(c) \in Word(Width(c)) /\ Operand(c) \subseteq mem
    BY <1>2, TruncIsWord DEF Operand
<1>5. QED
    BY <1>1, <1>2, <1>3, <1>4 DEF AtomicsAssumption, Abstract!Modulus

\* What a word stands for in its type, from its value.
LEMMA ValueInType ==
    ASSUME AtomicsAssumption, NEW c \in Calls, NEW x \in Word(Width(c))
    PROVE  /\ AsT(c, x) = Abstract!As(UInt(x), c)
           /\ AsT(c, x) \in Int
           /\ OfInt(AsT(c, x), Width(c)) = x
<1> DEFINE w == Width(c)
           m == 2^w
<1>1. w \in Nat \ {0} /\ c.signed \in BOOLEAN /\ Abstract!Modulus(c) = m
    BY CallTypes
<1>2. /\ w - 1 \in x <=> UInt(x) >= 2^(w - 1)
      /\ m = 2 * 2^(w - 1) /\ 2^(w - 1) \in Nat
      /\ UInt(x) \in 0..(m - 1)
    BY <1>1, SignBit
<1>3. OfInt(UInt(x), w) = x /\ OfInt(UInt(x) + (-1) * m, w) = OfInt(UInt(x), w)
    BY <1>1, <1>2, WordOfValue, OfIntPeriodic
<1>4. AsT(c, x) = IF c.signed /\ w - 1 \in x THEN UInt(x) - m ELSE UInt(x)
    BY <1>1 DEF AsT, SInt
<1> HIDE DEF m
<1>5. Abstract!As(UInt(x), c) = IF c.signed /\ 2 * UInt(x) >= m THEN UInt(x) - m ELSE UInt(x)
    BY <1>1 DEF Abstract!As, Abstract!AsSigned
<1>6. 2 * UInt(x) >= m <=> w - 1 \in x
    BY <1>2
<1>7. UInt(x) + (-1) * m = UInt(x) - m /\ m \in Int
    BY <1>2
<1>8. QED
    BY <1>2, <1>3, <1>4, <1>5, <1>6, <1>7

\* A word converted to the native long, with or without sign, and back.
LEMMA ThereAndBack ==
    ASSUME AtomicsAssumption, NEW c \in Calls, c.size \in NativeSizes,
           NEW x \in Word(Width(c))
    PROVE  /\ FromLong(c, ToLong(c, x)) = x
           /\ FromLong(c, ToU64(c, x)) = x
           /\ FromLong(c, ToI64(c, x)) = x
<1>1. /\ Width(c) \in Nat /\ LongBits \in Nat /\ Width(c) <= LongBits
      /\ c.signed \in BOOLEAN
    BY CallTypes
<1>2. \A signed \in BOOLEAN : Trunc(Extend(x, Width(c), signed, LongBits), Width(c)) = x
    BY <1>1, ExtendAndTrunc
<1>3. QED
    BY <1>1, <1>2 DEF FromLong, ToLong, ToU64, ToI64

\* What is stored is cut down to the operand, and every word is a result.
LEMMA StoredIsResult ==
    ASSUME AtomicsAssumption, NEW c \in Calls, NEW x \in Word(Width(c)), NEW n,
           OfInt(n, Width(c)) = x
    PROVE  Stored(c, x) = (mem \ AllOnes(Abstract!Width(c.size)))
                            \cup OfInt(n, Abstract!Width(c.size))
BY CallTypes DEF Stored

\* What AtomicMemory finds, stores and returns, in terms of words.
LEMMA FoundIsOperand ==
    ASSUME AtomicsAssumption, NEW c \in Calls
    PROVE  /\ Abstract!Found(c) = UInt(Operand(c))
           /\ Stored(c, Operand(c)) = mem
           /\ c.op \notin {"cas", "write"} =>
                Abstract!Returned(c) = AsT(c, Operand(c))
           /\ c.op = "write" => Abstract!Returned(c) = 0
           /\ c.op = "cas" =>
                Abstract!Returned(c) = IF Operand(c) = c.cmp THEN 1 ELSE 0
<1>1. /\ Operand(c) \in Word(Width(c)) /\ c.cmp \in Word(Width(c))
      /\ Width(c) \in Nat /\ Abstract!Width(c.size) = Width(c)
    BY CallTypes
<1>2. Abstract!Found(c) = UInt(Operand(c))
    BY <1>1, SameWords DEF Abstract!Found, Operand
<1>3. Stored(c, Operand(c)) = mem
    BY DEF Stored, Operand, Trunc, AllOnes
<1>4. Abstract!As(Abstract!Found(c), c) = AsT(c, Operand(c))
    BY <1>1, <1>2, ValueInType
<1>5. UInt(Operand(c)) = UInt(c.cmp) <=> Operand(c) = c.cmp
    BY <1>1, ValuesTellWords
<1>6. c.op = "cas" =>
        Abstract!Returned(c) = IF Operand(c) = c.cmp THEN 1 ELSE 0
    BY <1>2, <1>5, SameWords DEF Abstract!Returned, Abstract!Succeeds
<1>7. c.op = "write" => Abstract!Returned(c) = 0
    BY DEF Abstract!Returned
<1>8. c.op \notin {"cas", "write"} => Abstract!Returned(c) = AsT(c, Operand(c))
    BY <1>4 DEF Abstract!Returned
<1>9. QED
    BY <1>2, <1>3, <1>6, <1>7, <1>8

\* The abstract results of the operations on bits.
LEMMA ResultsOfBits ==
    ASSUME AtomicsAssumption, NEW c \in Calls
    PROVE  LET w == Width(c)
               x == Operand(c)
               r == OfInt(Abstract!Result(c), w)
           IN /\ c.op = "and" => r = x \cap c.val /\ r \in Word(w)
              /\ c.op = "or" => r = x \cup c.val /\ r \in Word(w)
              /\ c.op = "xor" => r = Xor(x, c.val) /\ r \in Word(w)
              /\ c.op \in {"swap", "write"} => r = c.val
              /\ c.op = "read" => r = x
<1> DEFINE w == Width(c)
           x == Operand(c)
<1>1. /\ x \in Word(w) /\ c.val \in Word(w) /\ w \in Nat
      /\ x = mem \cap 0..(w - 1) /\ Abstract!Width(c.size) = w
      /\ x = Trunc(mem, Abstract!Width(c.size))
    BY CallTypes, SameWords DEF Operand, Trunc
<1>2. mem \cap c.val = x \cap c.val
    BY <1>1 DEF Word
<1>3. /\ x \cap c.val \in Word(w)
      /\ x \cup c.val \in Word(w)
      /\ Xor(x, c.val) \in Word(w)
    BY <1>1 DEF Word, Xor, SymDiff
<1>4. Abstract!Found(c) = UInt(x)
    BY FoundIsOperand
<1> HIDE DEF w, x
<1>5. c.op = "and" => Abstract!Result(c) = UInt(x \cap c.val)
    BY <1>2, SameWords DEF Abstract!Result, Abstract!ResultOfWords
<1>6. c.op = "or" => Abstract!Result(c) = UInt(x \cup c.val)
    BY <1>1, SameWords DEF Abstract!Result, Abstract!ResultOfWords
<1>7. c.op = "xor" => Abstract!Result(c) = UInt(Xor(x, c.val))
    BY <1>1, SameWords DEF Abstract!Result, Abstract!ResultOfWords
<1>8. c.op \in {"swap", "write"} => Abstract!Result(c) = UInt(c.val)
    BY SameWords DEF Abstract!Result
<1>9. c.op = "read" => Abstract!Result(c) = UInt(x)
    BY <1>4 DEF Abstract!Result
<1>10. QED
    BY <1>1, <1>3, <1>5, <1>6, <1>7, <1>8, <1>9, WordOfValue DEF w, x

\* The abstract results of the operations on numbers.
LEMMA ResultsOfNumbers ==
    ASSUME AtomicsAssumption, NEW c \in Calls
    PROVE  LET w == Width(c)
               x == Operand(c)
               r == OfInt(Abstract!Result(c), w)
           IN /\ c.op = "add" => r = Add(x, c.val, w) /\ r \in Word(w)
              /\ c.op = "cas" => r = IF x = c.cmp THEN c.val ELSE x
              /\ c.op = "min" => r = std_min(c, x, c.val)
              /\ c.op = "max" => r = std_max(c, x, c.val)
<1> DEFINE w == Width(c)
           x == Operand(c)
<1>1. /\ x \in Word(w) /\ c.val \in Word(w) /\ c.cmp \in Word(w) /\ w \in Nat
      /\ Abstract!Modulus(c) = 2^w
    BY CallTypes
<1>2. Abstract!Found(c) = UInt(x)
    BY FoundIsOperand
<1>3. UInt(x) \in Int /\ UInt(c.val) \in Int
    BY <1>1, UIntOfWord
<1>4. /\ AsT(c, x) = Abstract!As(UInt(x), c)
      /\ AsT(c, c.val) = Abstract!As(UInt(c.val), c)
      /\ AsT(c, x) \in Int /\ OfInt(AsT(c, x), w) = x
      /\ AsT(c, c.val) \in Int /\ OfInt(AsT(c, c.val), w) = c.val
    BY <1>1, ValueInType
<1>5. UInt(x) = UInt(c.cmp) <=> x = c.cmp
    BY <1>1, ValuesTellWords
<1>6. OfInt(UInt(x), w) = x /\ OfInt(UInt(c.val), w) = c.val
    BY <1>1, WordOfValue
<1> HIDE DEF w, x
<1>7. ASSUME c.op = "add"
      PROVE  /\ OfInt(Abstract!Result(c), w) = Add(x, c.val, w)
             /\ Add(x, c.val, w) \in Word(w)
    <2>1. Abstract!Result(c) = (UInt(x) + UInt(c.val)) % 2^w
        BY <1>1, <1>2, <1>7, SameWords DEF Abstract!Result, Abstract!ResultOfNumbers
    <2>2. UInt(x) + UInt(c.val) \in Int
        BY <1>3
    <2>3. QED
        BY <1>1, <2>1, <2>2, OfIntOfRest, ValueOfWord DEF Add
<1>8. ASSUME c.op = "cas"
      PROVE  OfInt(Abstract!Result(c), w) = IF x = c.cmp THEN c.val ELSE x
    BY <1>2, <1>5, <1>6, <1>8, SameWords DEF Abstract!Result, Abstract!Succeeds
<1>9. ASSUME c.op = "min"
      PROVE  OfInt(Abstract!Result(c), w) = std_min(c, x, c.val)
    <2>1. Abstract!Result(c) = Abstract!Least(AsT(c, x), AsT(c, c.val))
        BY <1>2, <1>4, <1>9, SameWords DEF Abstract!Result, Abstract!ResultOfNumbers
    <2>2. QED
        BY <1>4, <2>1 DEF Abstract!Least, std_min
<1>10. ASSUME c.op = "max"
       PROVE  OfInt(Abstract!Result(c), w) = std_max(c, x, c.val)
    <2>1. Abstract!Result(c) = Abstract!Greatest(AsT(c, x), AsT(c, c.val))
        BY <1>2, <1>4, <1>10, SameWords DEF Abstract!Result, Abstract!ResultOfNumbers
    <2>2. QED
        BY <1>4, <2>1 DEF Abstract!Greatest, std_max
<1>11. QED
    BY <1>7, <1>8, <1>9, <1>10 DEF w, x

\* The steps of one thread keep the invariant, when they do for that thread.
LEMMA ThreadStep ==
    ASSUME AtomicsAssumption, Inductive, NEW t \in Threads, mem' \subseteq Nat,
           NEW c \in Calls \cup {Idle}, NEW n \in Int, NEW x, NEW l,
           NEW p \in {"read", "cas"},
           call' = [call EXCEPT ![t] = c],
           ret' = [ret EXCEPT ![t] = n],
           curr' = [curr EXCEPT ![t] = x],
           left' = [left EXCEPT ![t] = l],
           pc' = [pc EXCEPT ![t] = p],
           c = Idle => x = {} /\ l = {} /\ p = "read",
           c # Idle => /\ x \in Word(Width(c))
                       /\ l \subseteq Bytes(c)
                       /\ n = 0
                       /\ c.size \in NativeSizes =>
                            l = {} /\ (c.op = "read" => p = "read")
    PROVE  Inductive'
<1>1. /\ call \in [Threads -> Calls \cup {Idle}] /\ ret \in [Threads -> Int]
      /\ curr \in [Threads -> SUBSET Nat] /\ left \in [Threads -> SUBSET Nat]
      /\ pc \in [Threads -> {"read", "cas"}]
    BY DEF Inductive, TypeOK
<1>2. ASSUME c # Idle PROVE x \subseteq Nat /\ l \subseteq Nat
    <2>1. c \in Calls
        BY <1>2
    <2>2. Width(c) \in Nat /\ c.size \in Nat
        BY <2>1, CallTypes
    <2>3. QED
        BY <1>2, <2>2 DEF Word, Bytes
<1>3. x \subseteq Nat /\ l \subseteq Nat
    BY <1>2
<1>4. /\ call' \in [Threads -> Calls \cup {Idle}] /\ ret' \in [Threads -> Int]
      /\ curr' \in [Threads -> SUBSET Nat] /\ left' \in [Threads -> SUBSET Nat]
      /\ pc' \in [Threads -> {"read", "cas"}]
    BY <1>1, <1>3
<1>5. ASSUME NEW u \in Threads
      PROVE  /\ IF call'[u] = Idle
                THEN curr'[u] = {} /\ left'[u] = {} /\ pc'[u] = "read"
                ELSE /\ curr'[u] \in Word(Width(call'[u]))
                     /\ left'[u] \subseteq Bytes(call'[u])
             /\ call'[u] # Idle /\ call'[u].size \in NativeSizes =>
                    left'[u] = {} /\ (call'[u].op = "read" => pc'[u] = "read")
             /\ call'[u] # Idle => ret'[u] = 0
    <2>1. CASE u = t
        <3>1. /\ call'[u] = c /\ ret'[u] = n /\ curr'[u] = x
              /\ left'[u] = l /\ pc'[u] = p
            BY <1>1, <2>1
        <3>2. QED
            BY <3>1
    <2>2. CASE u # t
        <3>1. /\ call'[u] = call[u] /\ ret'[u] = ret[u] /\ curr'[u] = curr[u]
              /\ left'[u] = left[u] /\ pc'[u] = pc[u]
            BY <1>1, <2>2
        <3>2. /\ IF call[u] = Idle
                 THEN curr[u] = {} /\ left[u] = {} /\ pc[u] = "read"
                 ELSE curr[u] \in Word(Width(call[u])) /\ left[u] \subseteq Bytes(call[u])
              /\ call[u] # Idle /\ call[u].size \in NativeSizes =>
                     left[u] = {} /\ (call[u].op = "read" => pc[u] = "read")
              /\ call[u] # Idle => ret[u] = 0
            BY DEF Inductive, TypeOK, NoPieces, NothingReturned
        <3>3. QED
            BY <3>1, <3>2
    <2>3. QED
        BY <2>1, <2>2
<1>6. TypeOK'
    BY <1>4, <1>5 DEF TypeOK, Word, Width, Bytes
<1>7. NoPieces' /\ NothingReturned'
    BY <1>5 DEF NoPieces, NothingReturned
<1>8. QED
    BY <1>6, <1>7 DEF Inductive

\* What is known of a thread in a call.
LEMMA InCall ==
    ASSUME AtomicsAssumption, Inductive, NEW t \in Threads, call[t] # Idle
    PROVE  /\ call[t] \in Calls
           /\ call[t].size \in Nat \ {0} /\ Width(call[t]) \in Nat \ {0}
           /\ call[t].val \in Word(Width(call[t]))
           /\ Operand(call[t]) \in Word(Width(call[t]))
           /\ curr[t] \in Word(Width(call[t])) /\ left[t] \subseteq Bytes(call[t])
           /\ ret[t] = 0 /\ pc[t] \in {"read", "cas"} /\ mem \subseteq Nat
           /\ call[t].size \in NativeSizes =>
                left[t] = {} /\ (call[t].op = "read" => pc[t] = "read")
           /\ call \in [Threads -> Calls \cup {Idle}] /\ ret \in [Threads -> Int]
           /\ curr \in [Threads -> SUBSET Nat] /\ left \in [Threads -> SUBSET Nat]
           /\ pc \in [Threads -> {"read", "cas"}]
<1>1. /\ call \in [Threads -> Calls \cup {Idle}] /\ ret \in [Threads -> Int]
      /\ curr \in [Threads -> SUBSET Nat] /\ left \in [Threads -> SUBSET Nat]
      /\ pc \in [Threads -> {"read", "cas"}] /\ mem \subseteq Nat
      /\ curr[t] \in Word(Width(call[t])) /\ left[t] \subseteq Bytes(call[t])
    BY DEF Inductive, TypeOK
<1>2. call[t] \in Calls /\ pc[t] \in {"read", "cas"}
    BY <1>1
<1>3. QED
    BY <1>1, <1>2, CallTypes DEF Inductive, NoPieces, NothingReturned

\* A call returns.
LEMMA Returns ==
    ASSUME AtomicsAssumption, Inductive, NEW t \in Threads, NEW n \in Int,
           call[t] # Idle, mem' \subseteq Nat, Return(t, n)
    PROVE  Inductive'
BY ThreadStep DEF Return

\* A call goes on.
LEMMA StaysInCall ==
    ASSUME AtomicsAssumption, Inductive, NEW t \in Threads, mem' \subseteq Nat,
           NEW c \in Calls, NEW x \in Word(Width(c)), NEW l \in SUBSET Bytes(c),
           NEW p \in {"read", "cas"},
           call' = [call EXCEPT ![t] = c],
           ret' = [ret EXCEPT ![t] = 0],
           curr' = [curr EXCEPT ![t] = x],
           left' = [left EXCEPT ![t] = l],
           pc' = [pc EXCEPT ![t] = p],
           c.size \in NativeSizes => l = {} /\ (c.op = "read" => p = "read")
    PROVE  Inductive'
<1>1. c # Idle /\ c \in Calls \cup {Idle} /\ 0 \in Int
    BY CallTypes
<1> DEFINE n == 0
<1>2. n \in Int /\ n = 0 /\ ret' = [ret EXCEPT ![t] = n]
    OBVIOUS
<1> HIDE DEF n
<1>3. QED
    BY <1>1, <1>2, ThreadStep

\* A byte of an operand lies within it.
LEMMA ByteOfOperand ==
    ASSUME AtomicsAssumption, NEW c \in Calls, NEW b \in Bytes(c)
    PROVE  /\ Byte(b) \subseteq 0..(Width(c) - 1)
           /\ Byte(b) = Abstract!Width(b)..(Abstract!Width(b + 1) - 1)
           /\ b \in Nat
<1> DEFINE p == b * ByteBits
           r == (c.size - 1 - b) * ByteBits
<1>1. b \in Nat /\ c.size \in Nat /\ b <= c.size - 1 /\ ByteBits \in Nat
    BY CallTypes DEF Bytes, AtomicsAssumption
<1>2. p \in Nat /\ r \in Nat
    <2>1. c.size - 1 - b \in Nat
        BY <1>1
    <2>2. QED
        BY <1>1, <2>1
<1>3. Width(c) = p + ByteBits + r
    BY <1>1 DEF Width
<1>4. Abstract!Width(b) = p /\ Abstract!Width(b + 1) = p + ByteBits
    BY <1>1 DEF Abstract!Width
<1>5. Byte(b) = p..(p + ByteBits - 1)
    BY DEF Byte
<1> HIDE DEF p, r
<1>6. Byte(b) \subseteq 0..(Width(c) - 1)
    <2>1. ASSUME NEW i \in Byte(b) PROVE i \in 0..(Width(c) - 1)
        BY <1>1, <1>2, <1>3, <1>5
    <2>2. QED
        BY <2>1
<1>7. Byte(b) = Abstract!Width(b)..(Abstract!Width(b + 1) - 1)
    BY <1>1, <1>2, <1>4, <1>5
<1>8. QED
    BY <1>1, <1>6, <1>7

\* An operation that stores its result and returns as it should takes effect
\* in that one step.
LEMMA Performs ==
    ASSUME AtomicsAssumption, Inductive, NEW t \in Threads, call[t] # Idle,
           NEW x \in Word(Width(call[t])),
           x = OfInt(Abstract!Result(call[t]), Width(call[t])),
           mem' = Stored(call[t], x),
           Return(t, Abstract!Returned(call[t]))
    PROVE  Inductive' /\ Abstract!Perform(t)
<1>1. call[t] \in Calls /\ Width(call[t]) \in Nat /\ mem \subseteq Nat
    BY InCall
<1>2. Abstract!Returned(call[t]) \in Int
    <2>1. Operand(call[t]) \in Word(Width(call[t]))
        BY InCall
    <2>2. AsT(call[t], Operand(call[t])) \in Int
        BY <1>1, <2>1, ValueInType
    <2>3. QED
        BY <1>1, <2>2, FoundIsOperand
<1>3. mem' \subseteq Nat
    <2>1. x \subseteq 0..(Width(call[t]) - 1)
        BY DEF Word
    <2>2. x \subseteq Nat
        BY <1>1, <2>1
    <2>3. QED
        BY <1>1, <2>2 DEF Stored
<1>4. Inductive'
    BY <1>2, <1>3, Returns
<1>5. /\ Abstract!Width(call[t].size) = Width(call[t])
    BY <1>1, CallTypes
<1>6. mem' = (mem \ Abstract!AllOnes(Abstract!Width(call[t].size)))
                \cup Abstract!OfInt(Abstract!Result(call[t]), Abstract!Width(call[t].size))
    BY <1>5, SameWords DEF Stored
<1>7. QED
    BY <1>4, <1>6 DEF Abstract!Perform, Return

\* The start of a call.
LEMMA CallStep ==
    ASSUME AtomicsAssumption, Inductive, NEW t \in Threads, NEW c \in Calls, Call(t, c)
    PROVE  Inductive' /\ Abstract!Invoke(t)
<1>1. /\ call \in [Threads -> Calls \cup {Idle}] /\ ret \in [Threads -> Int]
      /\ curr \in [Threads -> SUBSET Nat] /\ left \in [Threads -> SUBSET Nat]
      /\ pc \in [Threads -> {"read", "cas"}] /\ mem \subseteq Nat
      /\ call[t] = Idle /\ curr[t] = {} /\ pc[t] = "read"
    BY DEF Inductive, TypeOK, Call
<1>2. c # Idle /\ c.size \in Nat /\ {} \in Word(Width(c))
    BY CallTypes DEF Word
<1> DEFINE l == IF c.size \in NativeSizes THEN {} ELSE Bytes(c)
<1>3. /\ l \subseteq Bytes(c) /\ (c.size \in NativeSizes => l = {})
      /\ left' = [left EXCEPT ![t] = l]
    BY DEF Call
<1>4. /\ call' = [call EXCEPT ![t] = c] /\ ret' = [ret EXCEPT ![t] = 0]
      /\ curr' = [curr EXCEPT ![t] = {}] /\ pc' = [pc EXCEPT ![t] = "read"]
      /\ mem' \subseteq Nat
    BY <1>1 DEF Call
<1> HIDE DEF l
<1>5. Inductive'
    BY <1>2, <1>3, <1>4, StaysInCall
<1>6. Abstract!Invoke(t)
    BY <1>1, <1>2 DEF Call, Abstract!Invoke
<1>7. QED
    BY <1>5, <1>6

\* A load is the read itself, or a step of a loop that nobody else sees.
LEMMA ReadStep ==
    ASSUME AtomicsAssumption, Inductive, NEW t \in Threads, read_once(t)
    PROVE  Inductive' /\ (Abstract!Perform(t) \/ UNCHANGED Abstract!vars)
<1> DEFINE c == call[t]
<1>0. /\ c \in Calls /\ c # Idle /\ c.size \in NativeSizes
      /\ Operand(c) \in Word(Width(c)) /\ mem' = mem /\ mem \subseteq Nat
      /\ c.size \in NativeSizes => left[t] = {}
    BY InCall DEF read_once
<1>1. CASE c.op = "read"
    <2>1. Return(t, AsT(c, Operand(c)))
        BY <1>1 DEF read_once
    <2>2. Operand(c) = OfInt(Abstract!Result(c), Width(c))
        BY <1>0, <1>1, ResultsOfBits
    <2>3. /\ AsT(c, Operand(c)) = Abstract!Returned(c)
          /\ mem' = Stored(c, Operand(c))
        BY <1>0, <1>1, FoundIsOperand
    <2>4. QED
        BY <1>0, <2>1, <2>2, <2>3, Performs
<1>2. CASE c.op # "read"
    <2>1. /\ curr' = [curr EXCEPT ![t] = Operand(c)]
          /\ pc' = [pc EXCEPT ![t] = "cas"]
          /\ UNCHANGED <<mem, call, ret, left>>
        BY <1>2 DEF read_once
    <2>2. /\ call' = [call EXCEPT ![t] = c] /\ ret' = [ret EXCEPT ![t] = 0]
          /\ left' = [left EXCEPT ![t] = {}]
        BY <1>0, <2>1, InCall
    <2>3. Inductive'
        BY <1>0, <1>2, <2>1, <2>2, StaysInCall
    <2>4. QED
        BY <2>1, <2>3 DEF Abstract!vars
<1>3. QED
    BY <1>1, <1>2

\* A byte of a wide operand is read.
LEMMA ReadByteStep ==
    ASSUME AtomicsAssumption, Inductive, NEW t \in Threads, read_memcpy(t)
    PROVE  Inductive' /\ UNCHANGED Abstract!vars
<1> DEFINE c == call[t]
<1>0. /\ c \in Calls /\ c # Idle /\ mem' = mem /\ mem \subseteq Nat
      /\ curr[t] \in Word(Width(c)) /\ left[t] \subseteq Bytes(c) /\ ret[t] = 0
      /\ call' = call /\ ret' = ret
    BY InCall DEF read_memcpy
<1>1. PICK b \in left[t] :
        /\ curr' = [curr EXCEPT ![t] = (@ \ Byte(b)) \cup (mem \cap Byte(b))]
        /\ left' = [left EXCEPT ![t] = @ \ {b}]
    BY DEF read_memcpy
<1>2. /\ Byte(b) \subseteq 0..(Width(c) - 1) /\ c.size \notin NativeSizes
    BY <1>0, InCall, ByteOfOperand
<1> DEFINE x == (curr[t] \ Byte(b)) \cup (mem \cap Byte(b))
           l == left[t] \ {b}
           p == IF l = {} THEN "cas" ELSE "read"
<1>3. /\ x \in Word(Width(c)) /\ l \subseteq Bytes(c) /\ p \in {"read", "cas"}
    BY <1>0, <1>2 DEF Word
<1>4. /\ curr' = [curr EXCEPT ![t] = x] /\ left' = [left EXCEPT ![t] = l]
    BY <1>1
<1>5. left'[t] = l
    BY <1>4, InCall, <1>0
<1>6. pc' = [pc EXCEPT ![t] = p]
    BY <1>5 DEF read_memcpy
<1>7. call' = [call EXCEPT ![t] = c] /\ ret' = [ret EXCEPT ![t] = 0]
    BY <1>0, InCall
<1> HIDE DEF x, l, p
<1>8. Inductive'
    BY <1>0, <1>2, <1>3, <1>4, <1>6, <1>7, StaysInCall
<1>9. QED
    BY <1>0, <1>8 DEF Abstract!vars

\* The ends of wide reads and writes, and the refusal of other operations.
LEMMA EndStep ==
    ASSUME AtomicsAssumption, Inductive, NEW t \in Threads,
           EndRead(t) \/ EndWrite(t) \/ Unsupported(t)
    PROVE  Inductive' /\ (Abstract!EndInPieces(t) \/ Abstract!Refuse(t))
<1> DEFINE c == call[t]
<1>0. /\ c \in Calls /\ c # Idle /\ mem' = mem /\ mem \subseteq Nat
      /\ curr[t] \in Word(Width(c)) /\ AsT(c, curr[t]) \in Int
      /\ ret \in [Threads -> Int] /\ ret[t] = 0
    BY InCall, ValueInType DEF EndRead, EndWrite, Unsupported
<1>1. PICK n \in Int : Return(t, n) /\ (Unsupported(t) => n = 0)
    <2>1. CASE EndRead(t)
        <3>1. Return(t, AsT(c, curr[t])) /\ ~Unsupported(t)
            BY <2>1 DEF EndRead, Unsupported
        <3>2. QED
            BY <1>0, <3>1
    <2>2. CASE EndWrite(t) \/ Unsupported(t)
        BY <2>2 DEF EndWrite, Unsupported
    <2>3. QED
        BY <2>1, <2>2
<1>2. Inductive'
    BY <1>0, <1>1, Returns
<1>3. /\ c.size \notin NativeSizes
      /\ EndRead(t) \/ EndWrite(t) => c.op \in {"read", "write"}
      /\ Unsupported(t) => c.op \in {"and", "or", "xor", "add", "swap"}
    BY InCall DEF EndRead, EndWrite, Unsupported
<1>4. /\ call' = [call EXCEPT ![t] = Idle] /\ ret' = [ret EXCEPT ![t] = n]
      /\ \A u \in Threads \ {t} : ret'[u] = ret[u]
    BY <1>0, <1>1 DEF Return
<1>5. CASE EndRead(t) \/ EndWrite(t)
    BY <1>0, <1>2, <1>3, <1>4, <1>5 DEF Abstract!EndInPieces, Abstract!InPieces
<1>6. CASE Unsupported(t)
    <2>1. ret' = ret
        BY <1>0, <1>1, <1>4, <1>6
    <2>2. QED
        BY <1>0, <1>2, <1>3, <1>4, <1>6, <2>1 DEF Abstract!Refuse
<1>7. QED
    BY <1>5, <1>6

\* A byte of a wide operand is written.
LEMMA WriteByteStep ==
    ASSUME AtomicsAssumption, Inductive, NEW t \in Threads, write_memcpy(t)
    PROVE  Inductive' /\ Abstract!WriteByte(t)
<1> DEFINE c == call[t]
<1>0. /\ c \in Calls /\ c # Idle /\ c.op = "write" /\ mem \subseteq Nat
      /\ c.val \in Word(Width(c)) /\ c.size \in Nat
      /\ curr[t] \in Word(Width(c)) /\ left[t] \subseteq Bytes(c) /\ ret[t] = 0
      /\ call' = call /\ ret' = ret /\ curr' = curr /\ pc' = pc
    BY InCall DEF write_memcpy
<1>1. PICK b \in left[t] :
        /\ mem' = (mem \ Byte(b)) \cup (c.val \cap Byte(b))
        /\ left' = [left EXCEPT ![t] = @ \ {b}]
    BY DEF write_memcpy
<1>2. /\ Byte(b) = Abstract!Width(b)..(Abstract!Width(b + 1) - 1)
      /\ b \in 0..(c.size - 1) /\ c.size \notin NativeSizes
      /\ Byte(b) \subseteq 0..(Width(c) - 1)
    BY <1>0, InCall, ByteOfOperand DEF Bytes
<1>3. mem' \subseteq Nat
    <2>1. Byte(b) \subseteq Nat
        BY <1>2
    <2>2. QED
        BY <1>0, <1>1, <2>1
<1> DEFINE l == left[t] \ {b}
           x == curr[t]
           p == pc[t]
<1>4. left' = [left EXCEPT ![t] = l] /\ l \in SUBSET Bytes(c)
    BY <1>0, <1>1
<1>5. /\ c \in Calls /\ c.size \notin NativeSizes
      /\ call' = [call EXCEPT ![t] = c] /\ ret' = [ret EXCEPT ![t] = 0]
      /\ curr' = [curr EXCEPT ![t] = x] /\ pc' = [pc EXCEPT ![t] = p]
      /\ x \in Word(Width(c)) /\ p \in {"read", "cas"}
    BY <1>0, <1>2, InCall
<1> HIDE DEF c, l, x, p
<1>6. Inductive'
    BY <1>3, <1>4, <1>5, StaysInCall
<1> USE DEF c
<1>7. Abstract!WriteByte(t)
    BY <1>0, <1>1, <1>2 DEF Abstract!WriteByte, Abstract!InPieces
<1>8. QED
    BY <1>6, <1>7

-----------------------------------------------------------------------------
(* The operations that take effect in one step.                            *)

\* A plain write of a size that has an instruction.
LEMMA WriteStep ==
    ASSUME AtomicsAssumption, Inductive, NEW t \in Threads, write_once(t)
    PROVE  Inductive' /\ Abstract!Perform(t)
<1> DEFINE c == call[t]
<1>1. /\ c \in Calls /\ c # Idle /\ c.op = "write" /\ c.val \in Word(Width(c))
      /\ mem' = Stored(c, c.val) /\ Return(t, 0)
    BY InCall DEF write_once
<1>2. c.val = OfInt(Abstract!Result(c), Width(c)) /\ Abstract!Returned(c) = 0
    BY <1>1, ResultsOfBits, FoundIsOperand
<1>3. QED
    BY <1>1, <1>2, Performs

\* The conversions to a long and back lose nothing of the operand, so that what
\* an exchange stores and returns is what the operation on the operand gives.
LEMMA ExchangeStep ==
    ASSUME AtomicsAssumption, Inductive, NEW t \in Threads, call[t] # Idle,
           call[t].op \notin {"cas", "write"},
           NEW new, NEW old, Exchange(t, new, old),
           FromLong(call[t], old) = Operand(call[t]),
           NEW x \in Word(Width(call[t])), Trunc(new, Width(call[t])) = x,
           x = OfInt(Abstract!Result(call[t]), Width(call[t]))
    PROVE  Inductive' /\ Abstract!Perform(t)
<1>1. call[t] \in Calls
    BY InCall
<1>2. AsT(call[t], FromLong(call[t], old)) = Abstract!Returned(call[t])
    BY <1>1, FoundIsOperand
<1>3. mem' = Stored(call[t], x) /\ Return(t, Abstract!Returned(call[t]))
    BY <1>2 DEF Exchange
<1>4. QED
    BY <1>3, Performs

\* What an instruction works on, with the operand that came as a long.
LEMMA Instruction ==
    ASSUME AtomicsAssumption, Inductive, NEW t \in Threads, NEW op, Supported(t, op)
    PROVE  LET c == call[t]
               x == Operand(c)
           IN /\ c \in Calls /\ c # Idle /\ c.op = op /\ Width(c) \in Nat
              /\ x \in Word(Width(c)) /\ c.val \in Word(Width(c))
              /\ FromLong(c, ToLong(c, c.val)) = c.val
              /\ FromLong(c, ToU64(c, x)) = x
              /\ FromLong(c, ToI64(c, x)) = x
BY InCall, ThereAndBack DEF Supported

\* atomic_and of a size that has an instruction.
LEMMA AndStep ==
    ASSUME AtomicsAssumption, Inductive, NEW t \in Threads, atomic_and(t)
    PROVE  Inductive' /\ Abstract!Perform(t)
<1> DEFINE c == call[t]
           x == Operand(c)
           y == ToLong(c, c.val)
<1>1. /\ c \in Calls /\ c # Idle /\ c.op = "and" /\ Width(c) \in Nat
      /\ x \in Word(Width(c)) /\ FromLong(c, ToU64(c, x)) = x
      /\ Trunc(y, Width(c)) = c.val
    BY Instruction DEF atomic_and, FromLong
<1>2. Exchange(t, x \cap y, ToU64(c, x))
    BY DEF atomic_and
<1> DEFINE w == Width(c)
<1> HIDE DEF y, x, w
<1>3. Trunc(x \cap y, Width(c)) = x \cap c.val
    <2>1. w \in Nat /\ x \in Word(w)
        BY <1>1 DEF w
    <2>2. Trunc(x \cap y, w) = x \cap Trunc(y, w)
        BY <2>1 DEF Trunc, Word, Xor, SymDiff
    <2>3. QED
        BY <1>1, <2>2 DEF w
<1> USE DEF x
<1>4. x \cap c.val = OfInt(Abstract!Result(c), Width(c)) /\ x \cap c.val \in Word(Width(c))
    BY <1>1, ResultsOfBits
<1>5. QED
    BY <1>1, <1>2, <1>3, <1>4, ExchangeStep

\* atomic_or of a size that has an instruction.
LEMMA OrStep ==
    ASSUME AtomicsAssumption, Inductive, NEW t \in Threads, atomic_or(t)
    PROVE  Inductive' /\ Abstract!Perform(t)
<1> DEFINE c == call[t]
           x == Operand(c)
           y == ToLong(c, c.val)
<1>1. /\ c \in Calls /\ c # Idle /\ c.op = "or" /\ Width(c) \in Nat
      /\ x \in Word(Width(c)) /\ FromLong(c, ToU64(c, x)) = x
      /\ Trunc(y, Width(c)) = c.val
    BY Instruction DEF atomic_or, FromLong
<1>2. Exchange(t, x \cup y, ToU64(c, x))
    BY DEF atomic_or
<1> DEFINE w == Width(c)
<1> HIDE DEF y, x, w
<1>3. Trunc(x \cup y, Width(c)) = x \cup c.val
    <2>1. w \in Nat /\ x \in Word(w)
        BY <1>1 DEF w
    <2>2. Trunc(x \cup y, w) = x \cup Trunc(y, w)
        BY <2>1 DEF Trunc, Word, Xor, SymDiff
    <2>3. QED
        BY <1>1, <2>2 DEF w
<1> USE DEF x
<1>4. x \cup c.val = OfInt(Abstract!Result(c), Width(c)) /\ x \cup c.val \in Word(Width(c))
    BY <1>1, ResultsOfBits
<1>5. QED
    BY <1>1, <1>2, <1>3, <1>4, ExchangeStep

\* atomic_xor of a size that has an instruction.
LEMMA XorStep ==
    ASSUME AtomicsAssumption, Inductive, NEW t \in Threads, atomic_xor(t)
    PROVE  Inductive' /\ Abstract!Perform(t)
<1> DEFINE c == call[t]
           x == Operand(c)
           y == ToLong(c, c.val)
<1>1. /\ c \in Calls /\ c # Idle /\ c.op = "xor" /\ Width(c) \in Nat
      /\ x \in Word(Width(c)) /\ FromLong(c, ToU64(c, x)) = x
      /\ Trunc(y, Width(c)) = c.val
    BY Instruction DEF atomic_xor, FromLong
<1>2. Exchange(t, Xor(x, y), ToU64(c, x))
    BY DEF atomic_xor
<1> DEFINE w == Width(c)
<1> HIDE DEF y, x, w
<1>3. Trunc(Xor(x, y), Width(c)) = Xor(x, c.val)
    <2>1. w \in Nat /\ x \in Word(w)
        BY <1>1 DEF w
    <2>2. Trunc(Xor(x, y), w) = Xor(x, Trunc(y, w))
        BY <2>1 DEF Trunc, Word, Xor, SymDiff
    <2>3. QED
        BY <1>1, <2>2 DEF w
<1> USE DEF x
<1>4. Xor(x, c.val) = OfInt(Abstract!Result(c), Width(c)) /\ Xor(x, c.val) \in Word(Width(c))
    BY <1>1, ResultsOfBits
<1>5. QED
    BY <1>1, <1>2, <1>3, <1>4, ExchangeStep

\* atomic_add of a size that has an instruction.
LEMMA AddStep ==
    ASSUME AtomicsAssumption, Inductive, NEW t \in Threads, atomic_add(t)
    PROVE  Inductive' /\ Abstract!Perform(t)
<1> DEFINE c == call[t]
           x == Operand(c)
           z == Add(x, c.val, Width(c))
<1>1. /\ c \in Calls /\ c # Idle /\ c.op = "add" /\ Width(c) \in Nat
      /\ x \in Word(Width(c)) /\ FromLong(c, ToI64(c, x)) = x
      /\ FromLong(c, ToLong(c, c.val)) = c.val
    BY Instruction DEF atomic_add
<1>2. Exchange(t, z, ToI64(c, x))
    BY <1>1 DEF atomic_add
<1>3. z = OfInt(Abstract!Result(c), Width(c)) /\ z \in Word(Width(c))
    BY <1>1, ResultsOfNumbers
<1>4. Trunc(z, Width(c)) = z
    BY <1>1, <1>3, TruncIsWord
<1> HIDE DEF z
<1>5. QED
    BY <1>1, <1>2, <1>3, <1>4, ExchangeStep

\* atomic_swap of a size that has an instruction.
LEMMA SwapStep ==
    ASSUME AtomicsAssumption, Inductive, NEW t \in Threads, atomic_swap(t)
    PROVE  Inductive' /\ Abstract!Perform(t)
<1> DEFINE c == call[t]
           x == Operand(c)
           y == ToLong(c, c.val)
<1>1. /\ c \in Calls /\ c # Idle /\ c.op = "swap" /\ c.val \in Word(Width(c))
      /\ FromLong(c, ToU64(c, x)) = x /\ Trunc(y, Width(c)) = c.val
    BY Instruction DEF atomic_swap, FromLong
<1>2. Exchange(t, y, ToU64(c, x))
    BY DEF atomic_swap
<1>3. c.val = OfInt(Abstract!Result(c), Width(c))
    BY <1>1, ResultsOfBits
<1> HIDE DEF y
<1>4. QED
    BY <1>1, <1>2, <1>3, ExchangeStep

\* A compare and swap that fails leaves what it found.
LEMMA CasStep ==
    ASSUME AtomicsAssumption, Inductive, NEW t \in Threads, atomic_cas(t)
    PROVE  Inductive' /\ Abstract!Perform(t)
<1> DEFINE c == call[t]
           x == IF Operand(c) = c.cmp THEN c.val ELSE Operand(c)
<1>1. /\ c \in Calls /\ c # Idle /\ c.op = "cas" /\ x \in Word(Width(c))
    BY InCall DEF atomic_cas
<1>2. /\ x = OfInt(Abstract!Result(c), Width(c))
      /\ Abstract!Returned(c) = IF Operand(c) = c.cmp THEN 1 ELSE 0
      /\ Stored(c, Operand(c)) = mem
    BY <1>1, ResultsOfNumbers, FoundIsOperand
<1>3. mem' = Stored(c, x) /\ Return(t, Abstract!Returned(c))
    BY <1>2 DEF atomic_cas
<1> HIDE DEF x
<1>4. QED
    BY <1>1, <1>2, <1>3, Performs

\* Whatever happened since the load, a swap that finds what was loaded replaces
\* it by what the operation makes of it; one that does not changes nothing.
LEMMA LoopStep ==
    ASSUME AtomicsAssumption, Inductive, NEW t \in Threads,
           NEW op \in {"min", "max"}, NEW next, SwapOrRetry(t, op, next),
           call[t] # Idle /\ Operand(call[t]) = curr[t] =>
                next \in Word(Width(call[t]))
                /\ next = OfInt(Abstract!Result(call[t]), Width(call[t]))
    PROVE  Inductive' /\ (Abstract!Perform(t) \/ UNCHANGED Abstract!vars)
<1> DEFINE c == call[t]
<1>0. /\ c \in Calls /\ c # Idle /\ c.op = op /\ mem \subseteq Nat
      /\ ret \in [Threads -> Int] /\ ret[t] = 0
      /\ call \in [Threads -> Calls \cup {Idle}]
    BY InCall DEF SwapOrRetry
<1>1. CASE Operand(c) = curr[t]
    <2>1. mem' = Stored(c, next) /\ Return(t, AsT(c, Operand(c)))
        BY <1>1 DEF SwapOrRetry
    <2>2. Abstract!Returned(c) = AsT(c, Operand(c))
        BY <1>0, FoundIsOperand
    <2>3. QED
        BY <1>0, <1>1, <2>1, <2>2, Performs
<1>2. CASE Operand(c) # curr[t]
    <2> DEFINE l == IF c.size \in NativeSizes THEN {} ELSE Bytes(c)
    <2>1. /\ pc' = [pc EXCEPT ![t] = "read"] /\ curr' = [curr EXCEPT ![t] = {}]
          /\ left' = [left EXCEPT ![t] = l] /\ UNCHANGED <<mem, call, ret>>
        BY <1>2 DEF SwapOrRetry
    <2>2. /\ call' = [call EXCEPT ![t] = c] /\ ret' = [ret EXCEPT ![t] = 0]
          /\ {} \in Word(Width(c)) /\ l \in SUBSET Bytes(c)
          /\ c.size \in NativeSizes => l = {}
        BY <1>0, <2>1 DEF Word
    <2> HIDE DEF l
    <2>3. mem' \subseteq Nat
        BY <1>0, <2>1
    <2>4. Inductive'
        BY <1>0, <2>1, <2>2, <2>3, StaysInCall
    <2>5. QED
        BY <2>1, <2>4 DEF Abstract!vars
<1>3. QED
    BY <1>1, <1>2

\* A round of the loop of atomic_min.
LEMMA MinStep ==
    ASSUME AtomicsAssumption, Inductive, NEW t \in Threads, atomic_min(t)
    PROVE  Inductive' /\ (Abstract!Perform(t) \/ UNCHANGED Abstract!vars)
<1> DEFINE c == call[t]
           next == std_min(c, curr[t], c.val)
<1>1. SwapOrRetry(t, "min", next) /\ c.op = "min" /\ c # Idle
    BY DEF atomic_min, SwapOrRetry
<1>2. /\ c \in Calls /\ curr[t] \in Word(Width(c)) /\ c.val \in Word(Width(c))
    BY <1>1, InCall
<1>3. next \in Word(Width(c))
    BY <1>2 DEF std_min
<1>4. Operand(c) = curr[t] => next = OfInt(Abstract!Result(c), Width(c))
    BY <1>1, <1>2, ResultsOfNumbers
<1> HIDE DEF next
<1>5. QED
    BY <1>1, <1>3, <1>4, LoopStep

\* A round of the loop of atomic_max.
LEMMA MaxStep ==
    ASSUME AtomicsAssumption, Inductive, NEW t \in Threads, atomic_max(t)
    PROVE  Inductive' /\ (Abstract!Perform(t) \/ UNCHANGED Abstract!vars)
<1> DEFINE c == call[t]
           next == std_max(c, curr[t], c.val)
<1>1. SwapOrRetry(t, "max", next) /\ c.op = "max" /\ c # Idle
    BY DEF atomic_max, SwapOrRetry
<1>2. /\ c \in Calls /\ curr[t] \in Word(Width(c)) /\ c.val \in Word(Width(c))
    BY <1>1, InCall
<1>3. next \in Word(Width(c))
    BY <1>2 DEF std_max
<1>4. Operand(c) = curr[t] => next = OfInt(Abstract!Result(c), Width(c))
    BY <1>1, <1>2, ResultsOfNumbers
<1> HIDE DEF next
<1>5. QED
    BY <1>1, <1>3, <1>4, LoopStep

-----------------------------------------------------------------------------
(* Every operation implements its promise.                                 *)

\* The calls, the locations and the loops keep their types; an operand with an
\* instruction is never copied in pieces; a call returns once.
LEMMA InitiallyInductive ==
    ASSUME AtomicsAssumption, Init
    PROVE  Inductive /\ Abstract!Init
<1>1. TypeOK
    BY DEF Init, TypeOK
<1>2. NoPieces /\ NothingReturned /\ Abstract!Init
    BY DEF Init, NoPieces, NothingReturned, Abstract!Init
<1>3. QED
    BY <1>1, <1>2 DEF Inductive

\* Each step of a thread is a step of AtomicMemory, or nothing it can tell.
LEMMA StepImplements ==
    ASSUME AtomicsAssumption, Inductive, Next
    PROVE  Inductive' /\ (Abstract!Next \/ UNCHANGED Abstract!vars)
<1>1. PICK t \in Threads :
        \/ \E c \in Calls : Call(t, c)
        \/ read_once(t) \/ read_memcpy(t) \/ EndRead(t)
        \/ write_once(t) \/ write_memcpy(t) \/ EndWrite(t)
        \/ atomic_and(t) \/ atomic_or(t) \/ atomic_xor(t) \/ atomic_add(t)
        \/ atomic_swap(t) \/ Unsupported(t)
        \/ atomic_cas(t) \/ atomic_min(t) \/ atomic_max(t)
    BY DEF Next
<1> DEFINE Steps == \/ Abstract!Invoke(t) \/ Abstract!Perform(t)
                    \/ Abstract!WriteByte(t) \/ Abstract!EndInPieces(t)
                    \/ Abstract!Refuse(t)
<1>2. Inductive' /\ (Steps \/ UNCHANGED Abstract!vars)
    <2>1. CASE \E c \in Calls : Call(t, c)
        BY <2>1, CallStep
    <2>2. CASE read_once(t)
        BY <2>2, ReadStep
    <2>3. CASE read_memcpy(t)
        BY <2>3, ReadByteStep
    <2>4. CASE EndRead(t) \/ EndWrite(t) \/ Unsupported(t)
        BY <2>4, EndStep
    <2>5. CASE write_once(t)
        BY <2>5, WriteStep
    <2>6. CASE write_memcpy(t)
        BY <2>6, WriteByteStep
    <2>7. CASE atomic_and(t) \/ atomic_or(t) \/ atomic_xor(t)
        BY <2>7, AndStep, OrStep, XorStep
    <2>8. CASE atomic_add(t) \/ atomic_swap(t) \/ atomic_cas(t)
        BY <2>8, AddStep, SwapStep, CasStep
    <2>9. CASE atomic_min(t) \/ atomic_max(t)
        BY <2>9, MinStep, MaxStep
    <2>10. QED
        BY <1>1, <2>1, <2>2, <2>3, <2>4, <2>5, <2>6, <2>7, <2>8, <2>9
<1>3. Steps => Abstract!Next
    BY DEF Abstract!Next
<1>4. QED
    BY <1>2, <1>3

\* Every step keeps the invariant, and is a step of the abstract memory or none.
LEMMA StepKeepsInductive ==
    ASSUME AtomicsAssumption, Inductive, [Next]_vars
    PROVE  Inductive' /\ [Abstract!Next]_(Abstract!vars)
<1>1. CASE Next
    BY <1>1, StepImplements
<1>2. CASE UNCHANGED vars
    <2>1. /\ mem' = mem /\ call' = call /\ ret' = ret
          /\ curr' = curr /\ left' = left /\ pc' = pc
        BY <1>2 DEF vars
    <2>2. TypeOK' /\ NoPieces' /\ NothingReturned'
        BY <2>1 DEF Inductive, TypeOK, NoPieces, NothingReturned, Word, Width, Bytes
    <2>3. QED
        BY <2>1, <2>2 DEF Inductive, Abstract!vars
<1>3. QED
    BY <1>1, <1>2

\* Operands with an instruction are never copied in pieces, and no operation has
\* returned before it is over, for any calls by any threads (atomics.h).
THEOREM AtomicsInductive == AtomicsAssumption => (Spec => []Inductive)
<1> SUFFICES ASSUME AtomicsAssumption PROVE Spec => []Inductive
    OBVIOUS
<1>1. Init => Inductive
    BY InitiallyInductive
<1>2. Inductive /\ [Next]_vars => Inductive'
    BY StepKeepsInductive
<1>3. QED
    BY <1>1, <1>2, PTL DEF Spec

\* Whatever the threads do meanwhile, each operation on the location takes
\* effect in one step, on its own bytes, and returns what it replaced.
THEOREM AtomicsImplementMemory ==
    AtomicsAssumption => (Spec => ImplementsAtomicMemory)
<1> SUFFICES ASSUME AtomicsAssumption PROVE Spec => ImplementsAtomicMemory
    OBVIOUS
<1>1. Init => Abstract!Init
    BY InitiallyInductive
<1>2. Inductive /\ [Next]_vars => [Abstract!Next]_(Abstract!vars)
    BY StepKeepsInductive
<1>3. Spec => Abstract!Spec
    BY <1>1, <1>2, AtomicsInductive, PTL DEF Spec, Abstract!Spec
<1>4. QED
    BY <1>3 DEF ImplementsAtomicMemory

=============================================================================
