--------------------------- MODULE PublisherProofs ---------------------------
(***************************************************************************)
(* Proofs about Publisher, for any threads, publishers, levels, messages   *)
(* and filters.                                                            *)
(***************************************************************************)
EXTENDS Publisher, WellFoundedInduction, FiniteSetTheorems, TLAPS

-----------------------------------------------------------------------------
(* Induction.  The provers cannot instantiate the theorems of the library  *)
(* that take an operator; the least element of a set of numbers will do.   *)

LEMMA LeastNatural ==
    ASSUME NEW T \in SUBSET Nat, T # {}
    PROVE  \E n \in T : \A m \in T : n <= m
<1> DEFINE R == OpToRel(<, Nat)
<1>1. IsWellFoundedOn(R, Nat)
    BY NatLessThanWellFounded
<1>2. \A i, j \in Nat : i < j => <<i, j>> \in R
    BY DEF OpToRel
<1> HIDE DEF R
<1>3. PICK n \in T : \A m \in T : ~(<<m, n>> \in R)
    BY <1>1, WFMin
<1>4. n \in Nat /\ \A m \in T : m \in Nat /\ ~(m < n)
    BY <1>2, <1>3
<1>5. \A m \in T : n <= m
    BY <1>4
<1>6. QED
    BY <1>5

\* A set that holds 0, and with each number below n the next, holds n.
LEMMA Induction ==
    ASSUME NEW n \in Nat, NEW T, 0 \in T,
           \A i \in 0..(n - 1) : i \in T => i + 1 \in T
    PROVE  n \in T
<1> DEFINE Bad == {i \in 0..n : i \notin T}
<1> SUFFICES ASSUME Bad # {} PROVE FALSE
    OBVIOUS
<1>0. Bad \in SUBSET Nat
    OBVIOUS
<1>1. PICK i \in Bad : \A j \in Bad : i <= j
    BY <1>0, LeastNatural
<1>2. i \in 1..n /\ i \notin T
    OBVIOUS
<1>3. i - 1 \in 0..(n - 1) /\ i - 1 \in 0..n /\ ~(i <= i - 1) /\ (i - 1) + 1 = i
    BY <1>2
<1>4. i - 1 \in T
    BY <1>1, <1>3
<1>5. QED
    BY <1>2, <1>3, <1>4

-----------------------------------------------------------------------------
(* What stl_remove and stl_add_unique return.                              *)

IsIn(p, s) == \E i \in 1..Len(s) : s[i] = p

\* What stays of the first i elements of s, for each i up to n.
IsKept(kept, s, p, n) ==
    kept = [i \in 0..n |-> IF i = 0 THEN <<>>
                           ELSE IF s[i] = p THEN kept[i - 1]
                           ELSE Append(kept[i - 1], s[i])]

\* The recursion of stl_remove has a solution.
LEMMA KeptExists ==
    ASSUME NEW S, NEW s \in Seq(S), NEW p
    PROVE  \E kept : IsKept(kept, s, p, Len(s))
<1> DEFINE T == {n \in Nat : \E kept : IsKept(kept, s, p, n)}
<1>1. 0 \in T
    <2>1. IsKept([i \in 0..0 |-> <<>>], s, p, 0)
        BY DEF IsKept
    <2>2. QED
        BY <2>1
<1>2. ASSUME NEW n \in 0..(Len(s) - 1), n \in T PROVE n + 1 \in T
    <2>1. PICK g : IsKept(g, s, p, n)
        BY <1>2
    <2> DEFINE h == [i \in 0..(n + 1) |->
                        IF i <= n THEN g[i]
                        ELSE IF s[i] = p THEN g[n] ELSE Append(g[n], s[i])]
    <2>2. n \in Nat
        OBVIOUS
    <2>3. IsKept(h, s, p, n + 1)
        <3> SUFFICES ASSUME NEW i \in 0..(n + 1)
                     PROVE  h[i] = IF i = 0 THEN <<>>
                                   ELSE IF s[i] = p THEN h[i - 1]
                                   ELSE Append(h[i - 1], s[i])
            BY DEF IsKept
        <3>1. CASE i = 0
            BY <2>1, <2>2, <3>1 DEF IsKept
        <3>2. CASE i \in 1..n
            <4>1. i \in 0..n /\ i - 1 \in 0..n /\ i # 0
                BY <3>2
            <4>2. h[i] = g[i] /\ h[i - 1] = g[i - 1]
                BY <4>1
            <4>3. QED
                BY <2>1, <4>1, <4>2 DEF IsKept
        <3>3. CASE i = n + 1
            <4>1. i - 1 = n /\ ~(i <= n) /\ i # 0
                BY <2>2, <3>3
            <4>2. h[i - 1] = g[n]
                BY <2>2, <4>1
            <4>3. QED
                BY <4>1, <4>2
        <3>4. QED
            BY <2>2, <3>1, <3>2, <3>3
    <2>4. QED
        BY <2>2, <2>3
<1>3. Len(s) \in Nat
    OBVIOUS
<1> HIDE DEF T
<1>4. Len(s) \in T
    BY <1>1, <1>2, <1>3, Induction
<1>5. QED
    BY <1>4 DEF T

\* What an element more at the end makes of a sequence.
LEMMA AppendAdds ==
    ASSUME NEW S, NEW s \in Seq(S), NEW e \in S
    PROVE  /\ Append(s, e) \in Seq(S)
           /\ Len(Append(s, e)) = Len(s) + 1
           /\ Append(s, e)[Len(s) + 1] = e
           /\ \A i \in 1..Len(s) : Append(s, e)[i] = s[i]
           /\ \A q : IsIn(q, Append(s, e)) <=> q = e \/ IsIn(q, s)
           /\ NoDuplicates(s) /\ (\A i \in 1..Len(s) : s[i] # e)
                => NoDuplicates(Append(s, e))
<1> DEFINE new == Append(s, e)
<1>1. /\ new \in Seq(S) /\ Len(new) = Len(s) + 1 /\ new[Len(s) + 1] = e
      /\ \A i \in 1..Len(s) : new[i] = s[i]
    OBVIOUS
<1>2. Len(s) \in Nat
    OBVIOUS
<1> HIDE DEF new
<1>3. 1..Len(new) = 1..Len(s) \cup {Len(s) + 1} /\ Len(s) + 1 \notin 1..Len(s)
    BY <1>1, <1>2
<1>4. \A q : IsIn(q, new) <=> q = e \/ IsIn(q, s)
    BY <1>1, <1>3 DEF IsIn
<1>5. ASSUME NoDuplicates(s), \A i \in 1..Len(s) : s[i] # e
      PROVE  NoDuplicates(new)
    BY <1>1, <1>3, <1>5 DEF NoDuplicates
<1>6. QED
    BY <1>1, <1>4, <1>5 DEF new

\* stl_remove keeps what is not p, and makes nothing appear twice.
LEMMA RemoveKeepsTheOthers ==
    ASSUME NEW S, NEW s \in Seq(S), NEW p, NoDuplicates(s)
    PROVE  /\ stl_remove(s, p) \in Seq(S)
           /\ NoDuplicates(stl_remove(s, p))
           /\ \A q : IsIn(q, stl_remove(s, p)) <=> q # p /\ IsIn(q, s)
<1>1. PICK g : IsKept(g, s, p, Len(s)) /\ stl_remove(s, p) = g[Len(s)]
    <2> DEFINE kept == CHOOSE g : IsKept(g, s, p, Len(s))
    <2>1. IsKept(kept, s, p, Len(s))
        BY KeptExists
    <2>2. stl_remove(s, p) = kept[Len(s)]
        BY DEF stl_remove, IsKept
    <2>3. QED
        BY <2>1, <2>2
<1> DEFINE Good(n) == /\ g[n] \in Seq(S)
                      /\ NoDuplicates(g[n])
                      /\ \A q : IsIn(q, g[n]) <=> q # p /\ \E i \in 1..n : s[i] = q
           T == {n \in Nat : Good(n)}
<1>2. 0 \in T
    <2>1. g[0] = <<>>
        BY <1>1 DEF IsKept
    <2>2. Good(0)
        BY <2>1 DEF NoDuplicates, IsIn
    <2>3. QED
        BY <2>2
<1>3. ASSUME NEW n \in 0..(Len(s) - 1), n \in T PROVE n + 1 \in T
    <2>1. Good(n) /\ n \in Nat
        BY <1>3
    <2>2. n + 1 \in 1..Len(s) /\ s[n + 1] \in S /\ (n + 1) - 1 = n
        OBVIOUS
    <2>3. n + 1 \in 0..Len(s) /\ n + 1 # 0
        BY <2>2
    <2>4. g[n + 1] = IF s[n + 1] = p THEN g[n] ELSE Append(g[n], s[n + 1])
        BY <1>1, <2>2, <2>3 DEF IsKept
    <2>5. \A q : (\E i \in 1..(n + 1) : s[i] = q)
                    <=> q = s[n + 1] \/ \E i \in 1..n : s[i] = q
        BY <2>1
    <2>6. CASE s[n + 1] = p
        <3>1. Good(n + 1)
            BY <2>1, <2>4, <2>5, <2>6
        <3>2. QED
            BY <2>1, <3>1
    <2>7. CASE s[n + 1] # p
        <3>1. ~\E i \in 1..n : s[i] = s[n + 1]
            <4>1. \A i \in 1..n : i \in 1..Len(s) /\ i # n + 1
                BY <2>1, <2>2
            <4>2. QED
                BY <2>2, <4>1 DEF NoDuplicates
        <3>2. PICK r \in Seq(S) : r = g[n]
            BY <2>1
        <3>3. \A i \in 1..Len(r) : r[i] # s[n + 1]
            BY <2>1, <3>1, <3>2 DEF IsIn
        <3>4. /\ Append(r, s[n + 1]) \in Seq(S)
              /\ NoDuplicates(Append(r, s[n + 1]))
              /\ \A q : IsIn(q, Append(r, s[n + 1])) <=> q = s[n + 1] \/ IsIn(q, r)
            BY <2>1, <2>2, <3>2, <3>3, AppendAdds
        <3>5. g[n + 1] = Append(r, s[n + 1])
            BY <2>4, <2>7, <3>2
        <3>6. \A q : IsIn(q, r) <=> q # p /\ \E i \in 1..n : s[i] = q
            BY <2>1, <3>2
        <3>7. \A q : IsIn(q, g[n + 1]) <=> q # p /\ \E i \in 1..(n + 1) : s[i] = q
            BY <2>5, <2>7, <3>4, <3>5, <3>6
        <3>8. Good(n + 1)
            BY <3>4, <3>5, <3>7
        <3>9. QED
            BY <2>1, <3>8
    <2>8. QED
        BY <2>6, <2>7
<1>4. Len(s) \in Nat
    OBVIOUS
<1> HIDE DEF T
<1>5. Len(s) \in T
    BY <1>2, <1>3, <1>4, Induction
<1>6. QED
    BY <1>1, <1>5 DEF T, IsIn
\* stl_add_unique adds p, and makes nothing appear twice.
LEMMA AddUniqueAdds ==
    ASSUME NEW S, NEW s \in Seq(S), NEW p \in S, NoDuplicates(s)
    PROVE  /\ stl_add_unique(s, p) \in Seq(S)
           /\ NoDuplicates(stl_add_unique(s, p))
           /\ \A q : IsIn(q, stl_add_unique(s, p)) <=> q = p \/ IsIn(q, s)
<1>1. DOMAIN s = 1..Len(s)
    OBVIOUS
<1>2. CASE \E i \in DOMAIN s : s[i] = p
    <2>1. stl_add_unique(s, p) = s
        BY <1>2 DEF stl_add_unique
    <2>2. QED
        BY <1>1, <1>2, <2>1 DEF IsIn
<1>3. CASE ~\E i \in DOMAIN s : s[i] = p
    <2>1. stl_add_unique(s, p) = Append(s, p)
        BY <1>3 DEF stl_add_unique
    <2>2. \A i \in 1..Len(s) : s[i] # p
        BY <1>1, <1>3
    <2>3. QED
        BY <2>1, <2>2, AppendAdds
<1>4. QED
    BY <1>2, <1>3

-----------------------------------------------------------------------------
(* The registry.                                                           *)

IsRegistry(reg) ==
    /\ reg \in [Levels -> Seq(Publishers)]
    /\ \A l \in Levels : NoDuplicates(reg[l])

LEMMA RegisterAdds ==
    ASSUME NEW reg, IsRegistry(reg), NEW p \in Publishers,
           NEW min \in Levels, NEW max \in Levels
    PROVE  /\ IsRegistry(register_publisher(reg, p, min, max))
           /\ \A l \in Levels, q \in Publishers :
                IsIn(q, register_publisher(reg, p, min, max)[l])
                    <=> IsIn(q, reg[l]) \/ (q = p /\ l \in min..max)
<1> DEFINE new == register_publisher(reg, p, min, max)
<1>1. new = [l \in Levels |->
                IF l \in min..max THEN stl_add_unique(reg[l], p) ELSE reg[l]]
    BY DEF register_publisher
<1> HIDE DEF new
<1>2. ASSUME NEW l \in Levels
      PROVE  /\ new[l] \in Seq(Publishers)
             /\ NoDuplicates(new[l])
             /\ \A q \in Publishers :
                    IsIn(q, new[l]) <=> IsIn(q, reg[l]) \/ (q = p /\ l \in min..max)
    <2>1. reg[l] \in Seq(Publishers) /\ NoDuplicates(reg[l])
        BY DEF IsRegistry
    <2>2. CASE l \in min..max
        <3>1. new[l] = stl_add_unique(reg[l], p)
            BY <1>1, <2>2
        <3>2. /\ new[l] \in Seq(Publishers) /\ NoDuplicates(new[l])
              /\ \A q : IsIn(q, new[l]) <=> q = p \/ IsIn(q, reg[l])
            BY <2>1, <3>1, AddUniqueAdds
        <3>3. QED
            BY <2>2, <3>2
    <2>3. CASE l \notin min..max
        <3>1. new[l] = reg[l]
            BY <1>1, <2>3
        <3>2. QED
            BY <2>1, <2>3, <3>1
    <2>4. QED
        BY <2>2, <2>3
<1>3. IsRegistry(new)
    BY <1>1, <1>2 DEF IsRegistry
<1>4. QED
    BY <1>2, <1>3 DEF new

LEMMA UnregisterRemoves ==
    ASSUME NEW reg, IsRegistry(reg), NEW p \in Publishers,
           NEW min \in Levels, NEW max \in Levels
    PROVE  /\ IsRegistry(unregister_publisher(reg, p, min, max))
           /\ \A l \in Levels, q \in Publishers :
                IsIn(q, unregister_publisher(reg, p, min, max)[l])
                    <=> IsIn(q, reg[l]) /\ ~(q = p /\ l \in min..max)
<1> DEFINE new == unregister_publisher(reg, p, min, max)
<1>1. new = [l \in Levels |->
                IF l \in min..max THEN stl_remove(reg[l], p) ELSE reg[l]]
    BY DEF unregister_publisher
<1> HIDE DEF new
<1>2. ASSUME NEW l \in Levels
      PROVE  /\ new[l] \in Seq(Publishers)
             /\ NoDuplicates(new[l])
             /\ \A q \in Publishers :
                    IsIn(q, new[l]) <=> IsIn(q, reg[l]) /\ ~(q = p /\ l \in min..max)
    <2>1. reg[l] \in Seq(Publishers) /\ NoDuplicates(reg[l])
        BY DEF IsRegistry
    <2>2. CASE l \in min..max
        <3>1. new[l] = stl_remove(reg[l], p)
            BY <1>1, <2>2
        <3>2. /\ new[l] \in Seq(Publishers) /\ NoDuplicates(new[l])
              /\ \A q : IsIn(q, new[l]) <=> q # p /\ IsIn(q, reg[l])
            BY <2>1, <3>1, RemoveKeepsTheOthers
        <3>3. QED
            BY <2>2, <3>2
    <2>3. CASE l \notin min..max
        <3>1. new[l] = reg[l]
            BY <1>1, <2>3
        <3>2. QED
            BY <2>1, <2>3, <3>1
    <2>4. QED
        BY <2>2, <2>3
<1>3. IsRegistry(new)
    BY <1>1, <1>2 DEF IsRegistry
<1>4. QED
    BY <1>2, <1>3 DEF new

LEMMA RegisteredIs ==
    ASSUME TypeOK
    PROVE  Registered <=>
            /\ IsRegistry(publishers)
            /\ \A l \in Levels, q \in Publishers :
                IsIn(q, publishers[l]) <=> Wants(q, l)
BY DEF TypeOK, Registered, IsRegistry, IsIn

\* What the three operations on a publisher make of the registry.
LEMMA RegistryStep ==
    ASSUME TypeOK, Registered,
           NEW p \in Publishers, NEW min \in Levels, NEW max \in Levels,
           Create(p, min, max) \/ Destroy(p) \/ set_level(p, min, max)
    PROVE  /\ IsRegistry(publishers')
           /\ \A l \in Levels, q \in Publishers :
                IsIn(q, publishers'[l]) <=> Wants(q, l)'
<1>1. /\ alive \subseteq Publishers
      /\ m_min \in [Publishers -> Levels] /\ m_max \in [Publishers -> Levels]
      /\ m_min[p] \in Levels /\ m_max[p] \in Levels
    BY DEF TypeOK
<1>2. /\ IsRegistry(publishers)
      /\ \A l \in Levels, q \in Publishers : IsIn(q, publishers[l]) <=> Wants(q, l)
    BY RegisteredIs
<1>3. CASE Create(p, min, max)
    <2>1. publishers' = register_publisher(publishers, p, min, max)
        BY <1>3 DEF Create
    <2>2. /\ IsRegistry(publishers')
          /\ \A l \in Levels, q \in Publishers :
                IsIn(q, publishers'[l])
                    <=> Wants(q, l) \/ (q = p /\ l \in min..max)
        BY <1>2, <2>1, RegisterAdds
    <2>3. \A l \in Levels, q \in Publishers :
            Wants(q, l)' <=> Wants(q, l) \/ (q = p /\ l \in min..max)
        BY <1>1, <1>3 DEF Create, Wants
    <2>4. QED
        BY <2>2, <2>3
<1>4. CASE Destroy(p)
    <2>1. publishers' = unregister_publisher(publishers, p, m_min[p], m_max[p])
        BY <1>4 DEF Destroy
    <2>2. /\ IsRegistry(publishers')
          /\ \A l \in Levels, q \in Publishers :
                IsIn(q, publishers'[l])
                    <=> Wants(q, l) /\ ~(q = p /\ l \in m_min[p]..m_max[p])
        BY <1>1, <1>2, <2>1, UnregisterRemoves
    <2>3. \A l \in Levels, q \in Publishers :
            Wants(q, l)' <=> Wants(q, l) /\ ~(q = p /\ l \in m_min[p]..m_max[p])
        BY <1>1, <1>4 DEF Destroy, Wants
    <2>4. QED
        BY <2>2, <2>3
<1>5. CASE set_level(p, min, max)
    <2> DEFINE less == unregister_publisher(publishers, p, m_min[p], m_max[p])
    <2>1. publishers' = register_publisher(less, p, min, max)
        BY <1>5 DEF set_level
    <2>2. /\ IsRegistry(less)
          /\ \A l \in Levels, q \in Publishers :
                IsIn(q, less[l])
                    <=> Wants(q, l) /\ ~(q = p /\ l \in m_min[p]..m_max[p])
        BY <1>1, <1>2, UnregisterRemoves
    <2> HIDE DEF less
    <2>3. /\ IsRegistry(publishers')
          /\ \A l \in Levels, q \in Publishers :
                IsIn(q, publishers'[l])
                    <=> IsIn(q, less[l]) \/ (q = p /\ l \in min..max)
        BY <2>1, <2>2, RegisterAdds
    <2>4. \A l \in Levels, q \in Publishers :
            Wants(q, l)' <=> \/ Wants(q, l) /\ ~(q = p /\ l \in m_min[p]..m_max[p])
                             \/ q = p /\ l \in min..max
        BY <1>1, <1>5 DEF set_level, Wants
    <2>5. QED
        BY <2>2, <2>3, <2>4
<1>6. QED
    BY <1>3, <1>4, <1>5

-----------------------------------------------------------------------------
(* The invariant.                                                          *)

LEMMA InitialState ==
    ASSUME PublisherAssumption, Init
    PROVE  Inductive
<1> USE DEF Init
<1>1. 0 \in Levels
    BY DEF PublisherAssumption, Levels
<1>2. TypeOK
    <2>1. /\ publishers \in [Levels -> Seq(Publishers)]
          /\ seen \in [Threads -> Seq(Publishers \X BOOLEAN)]
        OBVIOUS
    <2>2. /\ alive \in SUBSET Publishers
          /\ m_min \in [Publishers -> Levels] /\ m_max \in [Publishers -> Levels]
          /\ m_filters \in [Publishers -> SUBSET (SUBSET Msgs)]
        BY <1>1
    <2>3. /\ print_source \in BOOLEAN /\ setting \in BOOLEAN
          /\ pc \in [Threads -> {"idle", "force", "walk"}]
          /\ level \in [Threads -> Levels]
          /\ msg \in [Threads -> Msgs \cup {NoMsg}]
          /\ isReport \in [Threads -> BOOLEAN] /\ saved \in [Threads -> BOOLEAN]
          /\ pos \in [Threads -> Nat]
        BY <1>1
    <2>4. QED
        BY <2>1, <2>2, <2>3 DEF TypeOK
<1>3. Registered
    BY DEF Registered, NoDuplicates, Wants
<1>4. Walking
    <2> SUFFICES ASSUME NEW t \in Threads
                 PROVE  /\ pos[t] = 1 /\ seen[t] = <<>>
                        /\ pos[t] \in 1..(Len(publishers[level[t]]) + 1)
                        /\ Delivered(seen[t], publishers[level[t]], pos[t] - 1, msg[t])
        BY DEF Walking
    <2>1. pos[t] = 1 /\ seen[t] = <<>> /\ publishers[level[t]] = <<>>
        BY <1>1
    <2>2. Delivered(<<>>, <<>>, 0, msg[t])
        BY DEF Delivered
    <2>3. QED
        BY <2>1, <2>2
<1>5. QED
    BY <1>2, <1>3, <1>4 DEF Inductive

LEMMA TypesStep ==
    ASSUME PublisherAssumption, Inductive, [Next]_vars
    PROVE  TypeOK'
<1>1. TypeOK /\ Registered /\ 0 \in Levels
    BY DEF Inductive, PublisherAssumption, Levels
<1> USE DEF TypeOK, registryVars, localVars
<1>2. ASSUME NEW p \in Publishers, NEW min \in Levels, NEW max \in Levels,
             Create(p, min, max) \/ Destroy(p) \/ set_level(p, min, max)
      PROVE  TypeOK'
    <2>1. publishers' \in [Levels -> Seq(Publishers)]
        BY <1>1, <1>2, RegistryStep DEF IsRegistry
    <2>2. /\ alive' \in SUBSET Publishers
          /\ m_min' \in [Publishers -> Levels] /\ m_max' \in [Publishers -> Levels]
        BY <1>1, <1>2 DEF Create, Destroy, set_level
    <2>3. m_filters' \in [Publishers -> SUBSET (SUBSET Msgs)]
        BY <1>1, <1>2 DEF Create, Destroy, set_level
    <2>4. UNCHANGED <<print_source, setting, pc, level, msg, isReport, saved, pos, seen>>
        BY <1>2 DEF Create, Destroy, set_level
    <2>5. QED
        BY <1>1, <2>1, <2>2, <2>3, <2>4
<1>3. ASSUME NEW p \in Publishers, NEW f \in SUBSET Msgs, filter(p, f)
      PROVE  TypeOK'
    BY <1>1, <1>3 DEF filter
<1>4. ASSUME NEW on \in BOOLEAN, SetPrintSource(on)
      PROVE  TypeOK'
    BY <1>1, <1>4 DEF SetPrintSource
<1>5. ASSUME NEW t \in Threads, NEW l \in Levels, NEW m \in Msgs,
             Log(t, l, m) \/ LogReport(t, l, m)
      PROVE  TypeOK'
    <2>1. CASE Log(t, l, m)
        BY <1>1, <2>1 DEF Log
    <2>2. CASE LogReport(t, l, m)
        BY <1>1, <2>2 DEF LogReport
    <2>3. QED
        BY <1>5, <2>1, <2>2
<1>6. ASSUME NEW t \in Threads, ForceSource(t)
      PROVE  TypeOK'
    BY <1>1, <1>6 DEF ForceSource
<1>7. ASSUME NEW t \in Threads, Walk(t)
      PROVE  TypeOK'
    <2> DEFINE reg == publishers[level[t]]
               e == <<reg[pos[t]], print_source>>
    <2>1. reg \in Seq(Publishers) /\ pos[t] \in 1..Len(reg)
        BY <1>1, <1>7 DEF Walk, Inductive, Walking
    <2>2. reg[pos[t]] \in Publishers
        BY <2>1
    <2>3. e \in Publishers \X BOOLEAN
        BY <1>1, <2>2
    <2>4. seen' = seen \/ seen' = [seen EXCEPT ![t] = Append(@, e)]
        BY <1>7 DEF Walk
    <2>5. Append(seen[t], e) \in Seq(Publishers \X BOOLEAN)
        BY <1>1, <2>3
    <2> HIDE DEF e, reg
    <2>6. seen' \in [Threads -> Seq(Publishers \X BOOLEAN)]
        BY <1>1, <2>4, <2>5
    <2>7. pos' \in [Threads -> Nat]
        BY <1>1, <1>7 DEF Walk
    <2>8. QED
        BY <1>1, <1>7, <2>6, <2>7 DEF Walk
<1>8. ASSUME NEW t \in Threads, Finish(t)
      PROVE  TypeOK'
    BY <1>1, <1>8 DEF Finish
<1>9. CASE UNCHANGED vars
    BY <1>1, <1>9 DEF vars
<1>10. QED
    BY <1>2, <1>3, <1>4, <1>5, <1>6, <1>7, <1>8, <1>9, <1>1 DEF Next

LEMMA RegisteredStep ==
    ASSUME PublisherAssumption, Inductive, [Next]_vars
    PROVE  Registered'
<1>1. TypeOK /\ Registered /\ TypeOK'
    BY TypesStep DEF Inductive
<1>2. CASE UNCHANGED <<publishers, alive, m_min, m_max>>
    BY <1>1, <1>2 DEF Registered, Wants
<1>3. ASSUME NEW p \in Publishers, NEW min \in Levels, NEW max \in Levels,
             Create(p, min, max) \/ Destroy(p) \/ set_level(p, min, max)
      PROVE  Registered'
    <2>1. /\ IsRegistry(publishers')
          /\ \A l \in Levels, q \in Publishers :
                IsIn(q, publishers'[l]) <=> Wants(q, l)'
        BY <1>1, <1>3, RegistryStep
    <2>2. QED
        BY <2>1 DEF Registered, IsRegistry, IsIn
<1>4. 0 \in Levels
    BY DEF PublisherAssumption, Levels
<1>5. QED
    BY <1>2, <1>3, <1>4
    DEF Next, filter, SetPrintSource, Log, LogReport, ForceSource, Walk, Finish, vars,
        registryVars

\* A publisher more is asked to print the message.
LEMMA WalkDelivers ==
    ASSUME NEW s \in Seq(Publishers \X BOOLEAN), NEW reg \in Seq(Publishers),
           NoDuplicates(reg), NEW n \in 1..Len(reg), NEW m, NEW on \in BOOLEAN,
           Delivered(s, reg, n - 1, m)
    PROVE  Delivered(IF check_filters(reg[n], m) THEN Append(s, <<reg[n], on>>) ELSE s,
                     reg, n, m)
<1>1. n \in Nat /\ n \notin 1..(n - 1) /\ 1..n = 1..(n - 1) \cup {n}
      /\ 1..(n - 1) \subseteq 1..Len(reg) /\ reg[n] \in Publishers
    OBVIOUS
<1>2. CASE ~check_filters(reg[n], m)
    BY <1>1, <1>2 DEF Delivered
<1>3. CASE check_filters(reg[n], m)
    <2> DEFINE e == <<reg[n], on>>
               new == Append(s, e)
    <2>1. e \in Publishers \X BOOLEAN /\ e[1] = reg[n]
        BY <1>1
    <2>2. /\ Len(new) = Len(s) + 1 /\ new[Len(s) + 1] = e
          /\ \A i \in 1..Len(s) : new[i] = s[i]
        BY <2>1
    <2>3. Len(s) \in Nat
        OBVIOUS
    <2> HIDE DEF new, e
    <2>4. 1..Len(new) = 1..Len(s) \cup {Len(s) + 1}
        BY <2>2, <2>3
    <2>5. \A i \in 1..Len(s) : s[i][1] # reg[n]
        BY <1>1 DEF Delivered, NoDuplicates
    <2>6. \A i \in 1..Len(new) :
            \E j \in 1..n : new[i][1] = reg[j] /\ check_filters(reg[j], m)
        <3> SUFFICES ASSUME NEW i \in 1..Len(new)
                     PROVE  \E j \in 1..n : new[i][1] = reg[j] /\ check_filters(reg[j], m)
            OBVIOUS
        <3>1. CASE i \in 1..Len(s)
            BY <1>1, <2>2, <3>1 DEF Delivered
        <3>2. CASE i = Len(s) + 1
            BY <1>1, <1>3, <2>1, <2>2, <3>2
        <3>3. QED
            BY <2>4, <3>1, <3>2
    <2>7. ASSUME NEW j \in 1..n, check_filters(reg[j], m)
          PROVE  \E i \in 1..Len(new) : new[i][1] = reg[j]
        <3>1. CASE j \in 1..(n - 1)
            <4>1. PICK i \in 1..Len(s) : s[i][1] = reg[j]
                BY <2>7, <3>1 DEF Delivered
            <4>2. i \in 1..Len(new) /\ new[i][1] = reg[j]
                BY <2>2, <2>4, <4>1
            <4>3. QED
                BY <4>2
        <3>2. CASE j = n
            BY <2>1, <2>2, <2>4, <3>2
        <3>3. QED
            BY <1>1, <3>1, <3>2
    <2>8. ASSUME NEW i \in 1..Len(new), NEW k \in 1..Len(new), new[i][1] = new[k][1]
          PROVE  i = k
        <3>1. CASE i \in 1..Len(s) /\ k \in 1..Len(s)
            BY <2>2, <2>8, <3>1 DEF Delivered
        <3>2. CASE i = Len(s) + 1 /\ k \in 1..Len(s)
            BY <2>1, <2>2, <2>5, <2>8, <3>2
        <3>3. CASE i \in 1..Len(s) /\ k = Len(s) + 1
            BY <2>1, <2>2, <2>5, <2>8, <3>3
        <3>4. QED
            BY <2>4, <3>1, <3>2, <3>3
    <2>9. Delivered(new, reg, n, m)
        BY <2>6, <2>7, <2>8 DEF Delivered
    <2>10. QED
        BY <1>3, <2>9 DEF new, e
<1>4. QED
    BY <1>2, <1>3

LEMMA WalkingStep ==
    ASSUME PublisherAssumption, Inductive, [Next]_vars
    PROVE  Walking'
<1>0. /\ TypeOK /\ Registered /\ Walking /\ TypeOK' /\ 0 \in Levels
      /\ \A s : Delivered(<<>>, s, 0, NoMsg) /\ \A m : Delivered(<<>>, s, 0, m)
    BY TypesStep DEF Inductive, PublisherAssumption, Levels, Delivered
<1>1. \A l \in Levels : Len(publishers'[l]) \in Nat
    BY <1>0 DEF TypeOK
<1>2. CASE Quiet /\ UNCHANGED <<pc, localVars>>
    <2> SUFFICES ASSUME NEW t \in Threads
                 PROVE  /\ pos'[t] = 1 /\ seen'[t] = <<>>
                        /\ pos'[t] \in 1..(Len(publishers'[level'[t]]) + 1)
                        /\ Delivered(seen[t], publishers[level[t]], pos[t] - 1, msg[t])'
        BY DEF Walking
    <2>1. pos'[t] = 1 /\ seen'[t] = <<>> /\ level'[t] \in Levels
        BY <1>0, <1>2 DEF Quiet, Walking, localVars, TypeOK
    <2>2. Delivered(<<>>, publishers'[level'[t]], 0, msg'[t])
        BY <1>0
    <2>3. Delivered(seen[t], publishers[level[t]], pos[t] - 1, msg[t])'
        BY <2>1, <2>2 DEF Delivered, check_filters
    <2>4. QED
        BY <1>1, <2>1, <2>3
<1>3. ASSUME NEW t \in Threads, UNCHANGED <<publishers, m_filters>>,
             \A u \in Threads \ {t} :
                /\ pc'[u] = pc[u] /\ level'[u] = level[u] /\ msg'[u] = msg[u]
                /\ pos'[u] = pos[u] /\ seen'[u] = seen[u],
             /\ pc'[t] # "walk" => pos'[t] = 1 /\ seen'[t] = <<>>
             /\ pos'[t] \in 1..(Len(publishers[level'[t]]) + 1)
             /\ Delivered(seen'[t], publishers[level'[t]], pos'[t] - 1, msg'[t])
      PROVE  Walking'
    <2>1. ASSUME NEW u \in Threads
          PROVE  /\ pc'[u] # "walk" => pos'[u] = 1 /\ seen'[u] = <<>>
                 /\ pos'[u] \in 1..(Len(publishers'[level'[u]]) + 1)
                 /\ Delivered(seen'[u], publishers'[level'[u]], pos'[u] - 1, msg'[u])
        BY <1>0, <1>3 DEF Walking
    <2>2. ASSUME NEW u \in Threads
          PROVE  Delivered(seen[u], publishers[level[u]], pos[u] - 1, msg[u])'
        <3>1. Delivered(seen'[u], publishers'[level'[u]], pos'[u] - 1, msg'[u])
            BY <2>1
        <3>2. QED
            BY <1>3, <3>1 DEF Delivered, check_filters
    <2>3. QED
        BY <2>1, <2>2 DEF Walking
<1>4. ASSUME NEW t \in Threads, NEW l \in Levels, NEW m \in Msgs,
             Log(t, l, m) \/ LogReport(t, l, m)
      PROVE  Walking'
    <2>1. /\ UNCHANGED <<publishers, m_filters, pos, seen>>
          /\ pos[t] = 1 /\ seen[t] = <<>>
        BY <1>0, <1>4 DEF Log, LogReport, registryVars, Walking
    <2>2. /\ pc'[t] # "idle" /\ level'[t] = l
          /\ \A u \in Threads \ {t} :
                pc'[u] = pc[u] /\ level'[u] = level[u] /\ msg'[u] = msg[u]
        BY <1>0, <1>4 DEF Log, LogReport, TypeOK
    <2>3. Len(publishers[l]) \in Nat
        BY <1>0 DEF TypeOK
    <2>4. Delivered(<<>>, publishers[l], 0, msg'[t])
        BY <1>0
    <2>5. QED
        BY <1>3, <2>1, <2>2, <2>3, <2>4
<1>5. ASSUME NEW t \in Threads, ForceSource(t)
      PROVE  Walking'
    <2>1. /\ UNCHANGED <<publishers, m_filters, level, msg, pos, seen>>
          /\ \A u \in Threads \ {t} : pc'[u] = pc[u]
          /\ pc'[t] = "walk"
        BY <1>0, <1>5 DEF ForceSource, registryVars, localVars, TypeOK
    <2>2. /\ pos[t] \in 1..(Len(publishers[level[t]]) + 1)
          /\ Delivered(seen[t], publishers[level[t]], pos[t] - 1, msg[t])
        BY <1>0 DEF Walking
    <2>3. QED
        BY <1>3, <2>1, <2>2
<1>6. ASSUME NEW t \in Threads, Walk(t)
      PROVE  Walking'
    <2> DEFINE n == pos[t]
    <2>1. PICK reg \in Seq(Publishers) : reg = publishers[level[t]]
        BY <1>0 DEF TypeOK
    <2>2. PICK s \in Seq(Publishers \X BOOLEAN) : s = seen[t]
        BY <1>0 DEF TypeOK
    <2>3. NoDuplicates(reg) /\ Delivered(s, reg, n - 1, msg[t])
        BY <1>0, <2>1, <2>2 DEF Registered, Walking, TypeOK
    <2>4. n \in 1..Len(reg)
        BY <1>0, <1>6, <2>1 DEF Walking, Walk
    <2>5. /\ UNCHANGED <<publishers, m_filters, level, msg, pc>>
          /\ pc[t] = "walk"
          /\ pos'[t] = n + 1 /\ \A u \in Threads \ {t} : pos'[u] = pos[u]
        BY <1>0, <1>6 DEF Walk, registryVars, TypeOK
    <2>6. /\ seen'[t] = IF check_filters(reg[n], msg[t])
                        THEN Append(s, <<reg[n], print_source>>) ELSE s
          /\ \A u \in Threads \ {t} : seen'[u] = seen[u]
        BY <1>0, <1>6, <2>1, <2>2 DEF Walk, TypeOK
    <2>7. Delivered(seen'[t], reg, n, msg[t])
        <3>1. PICK on \in BOOLEAN : on = print_source
            BY <1>0 DEF TypeOK
        <3>2. Delivered(IF check_filters(reg[n], msg[t])
                        THEN Append(s, <<reg[n], on>>) ELSE s, reg, n, msg[t])
            BY <2>3, <2>4, WalkDelivers
        <3>3. QED
            BY <2>6, <3>1, <3>2
    <2>8. pos'[t] \in 1..(Len(reg) + 1) /\ pos'[t] - 1 = n
        BY <2>4, <2>5
    <2>9. QED
        BY <1>3, <2>1, <2>5, <2>6, <2>7, <2>8
<1>7. ASSUME NEW t \in Threads, Finish(t)
      PROVE  Walking'
    <2>1. /\ UNCHANGED <<publishers, m_filters>>
          /\ pos'[t] = 1 /\ seen'[t] = <<>> /\ level'[t] = 0
          /\ \A u \in Threads \ {t} :
                /\ pc'[u] = pc[u] /\ level'[u] = level[u] /\ msg'[u] = msg[u]
                /\ pos'[u] = pos[u] /\ seen'[u] = seen[u]
        BY <1>0, <1>7 DEF Finish, registryVars, TypeOK
    <2>2. Len(publishers[0]) \in Nat
        BY <1>0 DEF TypeOK
    <2>3. Delivered(<<>>, publishers[0], 0, msg'[t])
        BY <1>0
    <2>4. QED
        BY <1>3, <2>1, <2>2, <2>3
<1>8. CASE UNCHANGED vars
    <2> SUFFICES ASSUME NEW t \in Threads PROVE Walking'
        BY DEF Walking
    <2>1. UNCHANGED <<publishers, m_filters, pc, level, msg, pos, seen>>
        BY <1>8 DEF vars
    <2>2. /\ pc[t] # "walk" => pos[t] = 1 /\ seen[t] = <<>>
          /\ pos[t] \in 1..(Len(publishers[level[t]]) + 1)
          /\ Delivered(seen[t], publishers[level[t]], pos[t] - 1, msg[t])
        BY <1>0 DEF Walking
    <2>3. QED
        BY <1>3, <2>1, <2>2
<1>9. QED
    BY <1>2, <1>4, <1>5, <1>6, <1>7, <1>8
    DEF Next, Create, Destroy, set_level, filter, SetPrintSource

LEMMA InductiveStep ==
    ASSUME PublisherAssumption, Inductive, [Next]_vars
    PROVE  Inductive'
BY TypesStep, RegisteredStep, WalkingStep DEF Inductive

\* The registry, and what every thread has printed so far, are exact throughout.
THEOREM InductiveHolds == ASSUME PublisherAssumption PROVE Spec => []Inductive
<1>1. Init => Inductive
    BY InitialState
<1>2. Inductive /\ [Next]_vars => Inductive'
    BY InductiveStep
<1>3. QED
    BY <1>1, <1>2, PTL DEF Spec


-----------------------------------------------------------------------------
(* What follows from it.                                                   *)

\* A set of elements that are all the same.
LEMMA AtMostOne ==
    ASSUME NEW X, \A i, j \in X : i = j
    PROVE  Cardinality(X) = IF X = {} THEN 0 ELSE 1
<1>1. CASE X = {}
    BY <1>1, FS_EmptySet
<1>2. CASE X # {}
    <2>1. PICK i \in X : X = {i}
        BY <1>2
    <2>2. Cardinality({i}) = 1
        BY FS_Singleton
    <2>3. QED
        BY <1>2, <2>1, <2>2
<1>3. QED
    BY <1>1, <1>2

\* Every variable keeps its range: bounds on levels and places in the registry.
THEOREM TypeCorrect == ASSUME PublisherAssumption PROVE Spec => []TypeOK
<1>1. Inductive => TypeOK
    BY DEF Inductive
<1>2. QED
    BY <1>1, InductiveHolds, PTL

\* Whatever set_level, constructors and destructors are called, a publisher is
\* registered once for each level it wants (publisher.cpp:36) and for no other.
LEMMA RegistryIsExact ==
    ASSUME Inductive
    PROVE  RegistryMatchesLevels
<1> SUFFICES ASSUME NEW p \in Publishers, NEW l \in Levels
             PROVE  Cardinality({i \in DOMAIN publishers[l] : publishers[l][i] = p}) =
                        IF p \in alive /\ m_min[p] <= l /\ l <= m_max[p] THEN 1 ELSE 0
    BY DEF RegistryMatchesLevels
<1> DEFINE X == {i \in DOMAIN publishers[l] : publishers[l][i] = p}
<1>1. publishers[l] \in Seq(Publishers) /\ NoDuplicates(publishers[l])
    BY DEF Inductive, TypeOK, Registered
<1>2. DOMAIN publishers[l] = 1..Len(publishers[l])
    BY <1>1
<1>3. \A i, j \in X : i = j
    BY <1>1, <1>2 DEF NoDuplicates
<1>4. X # {} <=> \E i \in 1..Len(publishers[l]) : publishers[l][i] = p
    BY <1>2
<1>5. X # {} <=> Wants(p, l)
    BY <1>4 DEF Inductive, Registered
<1> HIDE DEF X
<1>6. Cardinality(X) = IF Wants(p, l) THEN 1 ELSE 0
    BY <1>3, <1>5, AtMostOne
<1>7. Wants(p, l) <=> p \in alive /\ m_min[p] <= l /\ l <= m_max[p]
    <2>1. l \in Int /\ m_min[p] \in Int /\ m_max[p] \in Int
        BY DEF Inductive, TypeOK, Levels
    <2>2. QED
        BY <2>1 DEF Wants
<1>8. QED
    BY <1>6, <1>7 DEF X

\* At the end of the walk through the registry (publisher.cpp:149) a message has
\* been printed once by each publisher that wants it.
LEMMA DeliveryIsExact ==
    ASSUME PublisherAssumption, Inductive
    PROVE  DeliveredOnce
<1> SUFFICES ASSUME NEW t \in Threads, AtEnd(t), NEW p \in Publishers
             PROVE  Cardinality({i \in DOMAIN seen[t] : seen[t][i][1] = p}) =
                        IF /\ p \in alive
                           /\ level[t] \in m_min[p]..m_max[p]
                           /\ \/ m_filters[p] = {}
                              \/ \E f \in m_filters[p] : msg[t] \in f
                        THEN 1 ELSE 0
    BY DEF DeliveredOnce
<1> DEFINE X == {i \in DOMAIN seen[t] : seen[t][i][1] = p}
           reg == publishers[level[t]]
<1>1. /\ level[t] \in Levels /\ reg \in Seq(Publishers)
      /\ seen[t] \in Seq(Publishers \X BOOLEAN)
    BY DEF Inductive, TypeOK
<1>2. DOMAIN seen[t] = 1..Len(seen[t])
    BY <1>1
<1>3. Len(reg) \in Nat
    BY <1>1
<1>4. pos[t] \in 1..(Len(reg) + 1) /\ pos[t] > Len(reg)
    BY DEF Inductive, Walking, AtEnd
<1>5. pos[t] - 1 = Len(reg)
    BY <1>3, <1>4
<1>6. Delivered(seen[t], reg, Len(reg), msg[t])
    BY <1>5 DEF Inductive, Walking
<1>7. \A i, j \in X : i = j
    BY <1>2, <1>6 DEF Delivered
<1>8. (\E j \in 1..Len(reg) : reg[j] = p) <=> Wants(p, level[t])
    BY <1>1 DEF Inductive, Registered
<1>9. X # {} <=> Wants(p, level[t]) /\ check_filters(p, msg[t])
    <2>1. ASSUME NEW i \in X PROVE Wants(p, level[t]) /\ check_filters(p, msg[t])
        <3>1. i \in 1..Len(seen[t]) /\ seen[t][i][1] = p
            BY <1>2
        <3>2. PICK j \in 1..Len(reg) : p = reg[j] /\ check_filters(reg[j], msg[t])
            BY <1>6, <3>1 DEF Delivered
        <3>3. QED
            BY <1>8, <3>2
    <2>2. ASSUME Wants(p, level[t]), check_filters(p, msg[t]) PROVE X # {}
        <3>1. PICK j \in 1..Len(reg) : reg[j] = p
            BY <1>8, <2>2
        <3>2. PICK i \in 1..Len(seen[t]) : seen[t][i][1] = p
            BY <1>6, <2>2, <3>1 DEF Delivered
        <3>3. QED
            BY <1>2, <3>2
    <2>3. QED
        BY <2>1, <2>2
<1> HIDE DEF X
<1>10. Cardinality(X) = IF Wants(p, level[t]) /\ check_filters(p, msg[t]) THEN 1 ELSE 0
    BY <1>7, <1>9, AtMostOne
<1>11. QED
    BY <1>10 DEF X, Wants, check_filters

-----------------------------------------------------------------------------
(* Reports, when messages are logged one after the other.                  *)

OneLogger == \A t, u \in Threads : t = u

LEMMA SourcesInit == Init => Sources
BY DEF Init, Sources, PrintSourceRestored

LEMMA SourcesStep ==
    ASSUME OneLogger, Inductive, Inductive', Sources, [Next]_vars
    PROVE  Sources'
<1>1. /\ TypeOK /\ Walking /\ TypeOK'
      /\ setting \in BOOLEAN /\ print_source \in BOOLEAN
    BY DEF Inductive, TypeOK
<1> USE DEF Sources, PrintSourceRestored, registryVars, localVars
<1>2. CASE UNCHANGED <<print_source, setting, pc, localVars>>
    BY <1>2
<1>3. ASSUME NEW on \in BOOLEAN, SetPrintSource(on)
      PROVE  Sources'
    BY <1>3 DEF SetPrintSource, Quiet
<1>4. ASSUME NEW t \in Threads, NEW l \in Levels, NEW m \in Msgs,
             Log(t, l, m) \/ LogReport(t, l, m)
      PROVE  Sources'
    <2>1. Threads = {t} /\ ~isReport[t] /\ print_source = setting /\ pc[t] = "idle"
        BY <1>4 DEF OneLogger, Log, LogReport
    <2>2. seen[t] = <<>> /\ seen' = seen
        BY <1>1, <1>4, <2>1 DEF Walking, Log, LogReport
    <2>3. /\ isReport'[t] <=> LogReport(t, l, m)
          /\ pc'[t] = IF isReport'[t] THEN "force" ELSE "walk"
          /\ isReport'[t] => saved'[t] = print_source
          /\ UNCHANGED <<print_source, setting>>
        BY <1>1, <1>4 DEF Log, LogReport, TypeOK
    <2>4. QED
        BY <2>1, <2>2, <2>3
<1>5. ASSUME NEW t \in Threads, ForceSource(t)
      PROVE  Sources'
    <2>1. Threads = {t} /\ isReport[t] /\ saved[t] = setting
        BY <1>5 DEF OneLogger, ForceSource
    <2>2. seen[t] = <<>> /\ UNCHANGED <<seen, isReport, saved, setting>>
        BY <1>1, <1>5 DEF Walking, ForceSource
    <2>3. pc'[t] = "walk" /\ print_source'
        BY <1>1, <1>5 DEF ForceSource, TypeOK
    <2>4. QED
        BY <2>1, <2>2, <2>3
<1>6. ASSUME NEW t \in Threads, Walk(t)
      PROVE  Sources'
    <2>1. Threads = {t} /\ pc[t] = "walk"
        BY <1>6 DEF OneLogger, Walk
    <2>2. UNCHANGED <<print_source, setting, pc, isReport, saved>>
        BY <1>6 DEF Walk
    <2>3. ASSUME isReport[t]
          PROVE  \A i \in 1..Len(seen'[t]) : seen'[t][i][2]
        <3>1. print_source = TRUE /\ \A i \in 1..Len(seen[t]) : seen[t][i][2]
            BY <1>1, <2>1, <2>3
        <3>2. PICK s \in Seq(Publishers \X BOOLEAN) : s = seen[t]
            BY <1>1 DEF TypeOK
        <3>3. \/ seen'[t] = s
              \/ \E p \in Publishers : seen'[t] = Append(s, <<p, print_source>>)
            <4>1. PICK reg \in Seq(Publishers) : reg = publishers[level[t]]
                BY <1>1 DEF TypeOK
            <4>2. pos[t] \in 1..Len(reg)
                BY <1>1, <1>6, <4>1 DEF Walking, Walk
            <4>3. reg[pos[t]] \in Publishers
                BY <4>2
            <4>4. seen'[t] \in {s, Append(s, <<reg[pos[t]], print_source>>)}
                BY <1>1, <1>6, <3>2, <4>1 DEF Walk, TypeOK
            <4>5. QED
                BY <4>3, <4>4
        <3>4. ASSUME NEW p \in Publishers, seen'[t] = Append(s, <<p, print_source>>)
              PROVE  \A i \in 1..Len(seen'[t]) : seen'[t][i][2]
            <4> DEFINE e == <<p, print_source>>
                       new == Append(s, e)
            <4>1. e \in Publishers \X BOOLEAN /\ e[2] = print_source
                BY <1>1
            <4>2. /\ Len(new) = Len(s) + 1 /\ new[Len(s) + 1] = e
                  /\ \A i \in 1..Len(s) : new[i] = s[i]
                BY <4>1, AppendAdds
            <4>3. Len(s) \in Nat
                OBVIOUS
            <4> HIDE DEF new, e
            <4>4. \A i \in 1..Len(new) : i \in 1..Len(s) \/ i = Len(s) + 1
                BY <4>2, <4>3
            <4>5. \A i \in 1..Len(new) : new[i][2]
                BY <3>1, <3>2, <4>1, <4>2, <4>4
            <4>6. QED
                BY <3>4, <4>5 DEF new, e
        <3>5. QED
            BY <3>1, <3>2, <3>3, <3>4
    <2>4. QED
        BY <2>1, <2>2, <2>3
<1>7. ASSUME NEW t \in Threads, Finish(t)
      PROVE  Sources'
    <2>1. Threads = {t} /\ pc[t] = "walk"
        BY <1>7 DEF OneLogger, Finish, AtEnd
    <2>2. /\ ~isReport'[t] /\ pc'[t] = "idle" /\ UNCHANGED setting
          /\ print_source' = IF isReport[t] THEN saved[t] ELSE print_source
        BY <1>1, <1>7 DEF Finish, TypeOK
    <2>3. print_source' = setting
        BY <2>1, <2>2
    <2>4. QED
        BY <2>1, <2>2, <2>3
<1>8. QED
    BY <1>2, <1>3, <1>4, <1>5, <1>6, <1>7
    DEF Next, Create, Destroy, set_level, filter, vars

LEMMA SourcesShown ==
    ASSUME Inductive, Sources
    PROVE  ReportsPrintSource /\ PrintSourceRestored
<1>1. \A t \in Threads : DOMAIN seen[t] = 1..Len(seen[t])
    BY DEF Inductive, TypeOK
<1>2. QED
    BY <1>1 DEF Sources, ReportsPrintSource

=============================================================================
