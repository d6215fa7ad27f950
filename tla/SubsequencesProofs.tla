---- MODULE SubsequencesProofs ----
(***************************************************************************)
(* What a part of a list has: the elements asked for, and no more of them. *)
(***************************************************************************)
EXTENDS Subsequences, Integers, Functions, WellFoundedInduction, TLAPS

\* Induction over the naturals, with the property as a set.
LEMMA NatSetInduction ==
    ASSUME NEW T \in SUBSET Nat, 0 \in T, \A n \in T : n + 1 \in T
    PROVE  T = Nat
<1>1. SUFFICES ASSUME Nat \ T # {} PROVE FALSE
  OBVIOUS
<1>2. PICK x \in Nat \ T : \A y \in Nat \ T : <<y, x>> \notin OpToRel(<, Nat)
  BY <1>1, WFMin, NatLessThanWellFounded
<1>3. x # 0 /\ x - 1 \in Nat /\ x - 1 < x /\ (x - 1) + 1 = x
  OBVIOUS
<1>4. <<x - 1, x>> \in OpToRel(<, Nat)
  BY <1>3 DEF OpToRel
<1> QED
  BY <1>2, <1>3, <1>4

\* The recursive functions on 0..n that start at b; the step is a function of the
\* index and of the value before.
Iterations(X, b, n, g) ==
    {f \in [0..n -> X] : f[0] = b /\ \A i \in 1..n : f[i] = g[<<i, f[i - 1]>>]}

LEMMA Iterates ==
    ASSUME NEW X, NEW b, NEW n, NEW g,
           b \in X, n \in Nat, \A i \in 1..n, x \in X : g[<<i, x>>] \in X
    PROVE  Iterations(X, b, n, g) # {}
<1> DEFINE Up(m) == \E f \in [0..m -> X] : f[0] = b /\ \A i \in 1..m : f[i] = g[<<i, f[i - 1]>>]
           T == {m \in Nat : m <= n => Up(m)}
<1>1. 0 \in T
  <2>1. [i \in 0..0 |-> b] \in [0..0 -> X] /\ [i \in 0..0 |-> b][0] = b /\ 1..0 = {}
    OBVIOUS
  <2>2. Up(0)
    BY <2>1
  <2> QED  BY <2>2
<1>2. ASSUME NEW m \in T
      PROVE  m + 1 \in T
  <2>1. SUFFICES ASSUME m + 1 <= n PROVE Up(m + 1)
    BY <1>2
  <2>2. m \in Nat /\ m <= n /\ m + 1 \in 1..n /\ (m + 1) - 1 = m /\ m + 1 # 0
    BY <1>2, <2>1
  <2>3. PICK f \in [0..m -> X] : f[0] = b /\ \A i \in 1..m : f[i] = g[<<i, f[i - 1]>>]
    BY <1>2, <2>2
  <2>4. f[m] \in X /\ g[<<m + 1, f[m]>>] \in X
    BY <2>2, <2>3
  <2> DEFINE h == [i \in 0..m + 1 |-> IF i = m + 1 THEN g[<<m + 1, f[m]>>] ELSE f[i]]
  <2>5. h \in [0..m + 1 -> X]
    <3>1. \A i \in 0..m + 1 : i # m + 1 => i \in 0..m /\ f[i] \in X
      BY <2>2, <2>3
    <3> QED  BY <2>4, <3>1
  <2>6. h[m + 1] = g[<<m + 1, f[m]>>] /\ \A i \in 0..m : h[i] = f[i]
    BY <2>2
  <2>7. h[0] = b
    BY <2>2, <2>3, <2>6
  <2>8. ASSUME NEW i \in 1..m + 1 PROVE h[i] = g[<<i, h[i - 1]>>]
    <3> HIDE DEF h
    <3>1. CASE i = m + 1
      <4>1. i - 1 = m /\ h[m] = f[m]
        BY <2>2, <2>6, <3>1
      <4> QED  BY <2>6, <3>1, <4>1
    <3>2. CASE i # m + 1
      <4>1. i \in 1..m /\ i \in 0..m /\ i - 1 \in 0..m
        BY <2>2, <3>2
      <4> QED  BY <2>3, <2>6, <4>1
    <3> QED  BY <3>1, <3>2
  <2> HIDE DEF h
  <2> QED  BY <2>5, <2>7, <2>8
<1>3. T = Nat
  <2>1. T \in SUBSET Nat  OBVIOUS
  <2> HIDE DEF T
  <2> QED  BY <1>1, <1>2, <2>1, NatSetInduction
<1>4. n \in T /\ n <= n
  BY <1>3
<1> QED  BY <1>4 DEF Iterations

\* f is the function that kept defines, on the first n elements of s.
Keeps(f, s, S, n) ==
    f = [i \in 0..n |-> IF i = 0 THEN <<>>
                        ELSE IF s[i] \in S THEN Append(f[i - 1], s[i]) ELSE f[i - 1]]

LEMMA KeepsExists ==
    ASSUME NEW s, NEW S, NEW n \in Nat
    PROVE  \E f : Keeps(f, s, S, n)
<1> DEFINE T == {m \in Nat : \E f : Keeps(f, s, S, m)}
<1>1. 0 \in T
  <2>1. Keeps([i \in 0..0 |-> <<>>], s, S, 0)
    BY DEF Keeps
  <2> QED  BY <2>1
<1>2. ASSUME NEW m \in T
      PROVE  m + 1 \in T
  <2>1. PICK f : Keeps(f, s, S, m)
    BY <1>2
  <2> DEFINE g == [i \in 0..m + 1 |->
                     IF i # m + 1 THEN f[i]
                     ELSE IF s[i] \in S THEN Append(f[m], s[i]) ELSE f[m]]
  <2>2. m \in Nat /\ m + 1 # 0 /\ (m + 1) - 1 = m
    BY <1>2
  <2>3. \A i \in 0..m : f[i] = IF i = 0 THEN <<>>
                               ELSE IF s[i] \in S THEN Append(f[i - 1], s[i]) ELSE f[i - 1]
    BY <2>1 DEF Keeps
  <2>4. \A i \in 0..m + 1 : g[i] = IF i = 0 THEN <<>>
                                   ELSE IF s[i] \in S THEN Append(g[i - 1], s[i]) ELSE g[i - 1]
    BY <2>2, <2>3
  <2>5. Keeps(g, s, S, m + 1)
    BY <2>4 DEF Keeps
  <2> QED  BY <2>2, <2>5
<1>3. T = Nat
  <2> HIDE DEF T
  <2>1. T \in SUBSET Nat  BY DEF T
  <2> QED  BY <1>1, <1>2, <2>1, NatSetInduction
<1> QED  BY <1>3

LEMMA AppendRange ==
    ASSUME NEW A, NEW s \in Seq(A), NEW a \in A
    PROVE  Append(s, a) \in Seq(A) /\ Range(Append(s, a)) = Range(s) \cup {a}
<1>1. /\ Append(s, a) \in Seq(A) /\ Len(s) \in Nat /\ DOMAIN s = 1..Len(s)
      /\ DOMAIN Append(s, a) = 1..Len(s) + 1
      /\ \A i \in 1..Len(s) : Append(s, a)[i] = s[i]
      /\ Append(s, a)[Len(s) + 1] = a
  OBVIOUS
<1> QED
  BY <1>1 DEF Range

\* kept(s, S) has the elements of s that are in S.
LEMMA KeptRange ==
    ASSUME NEW A, NEW s \in Seq(A), NEW S
    PROVE  /\ kept(s, S) \in Seq(A) /\ Range(kept(s, S)) = Range(s) \cap S
           /\ Len(kept(s, S)) <= Len(s)
<1> DEFINE f == CHOOSE g : Keeps(g, s, S, Len(s))
           Good(i) == /\ f[i] \in Seq(A) /\ Len(f[i]) <= i
                      /\ \A a : a \in Range(f[i]) <=> a \in S /\ \E k \in 1..i : s[k] = a
           T == {i \in Nat : i <= Len(s) => Good(i)}
<1>1. Len(s) \in Nat /\ DOMAIN s = 1..Len(s) /\ \A i \in 1..Len(s) : s[i] \in A
  OBVIOUS
<1>2. Keeps(f, s, S, Len(s))
  BY KeepsExists, <1>1
<1>3. kept(s, S) = f[Len(s)]
  BY Zenon DEF kept, Keeps
<1>4. \A i \in 0..Len(s) : f[i] = IF i = 0 THEN <<>>
                                  ELSE IF s[i] \in S THEN Append(f[i - 1], s[i]) ELSE f[i - 1]
  BY <1>2 DEF Keeps
<1> HIDE DEF f
<1>5. 0 \in T
  <2>0. 0 \in 0..Len(s)
    BY <1>1
  <2>1. f[0] = <<>> /\ <<>> \in Seq(A) /\ Len(f[0]) <= 0
    BY <1>4, <2>0
  <2>2. DOMAIN f[0] = {}
    BY <2>1
  <2>3. Range(f[0]) = {}
    BY <2>2 DEF Range
  <2>4. Good(0)
    BY <2>1, <2>3
  <2> QED  BY <2>4
<1>6. ASSUME NEW m \in T
      PROVE  m + 1 \in T
  <2>1. SUFFICES ASSUME m + 1 <= Len(s) PROVE Good(m + 1)
    BY <1>6
  <2>2. m \in Nat /\ Good(m) /\ m + 1 \in 1..Len(s) /\ (m + 1) - 1 = m
    BY <1>1, <1>6, <2>1
  <2>3. f[m + 1] = IF s[m + 1] \in S THEN Append(f[m], s[m + 1]) ELSE f[m]
    BY <1>4, <2>2
  <2>4. \A a : (\E k \in 1..m + 1 : s[k] = a) <=> (s[m + 1] = a \/ \E k \in 1..m : s[k] = a)
    BY <2>2
  <2>5. CASE s[m + 1] \in S
    <3>1. /\ f[m + 1] \in Seq(A) /\ Range(f[m + 1]) = Range(f[m]) \cup {s[m + 1]}
          /\ Len(f[m + 1]) <= m + 1
      BY <1>1, <2>2, <2>3, <2>5, AppendRange
    <3> QED  BY <2>2, <2>4, <2>5, <3>1
  <2>6. CASE s[m + 1] \notin S
    BY <2>2, <2>3, <2>4, <2>6
  <2> QED  BY <2>5, <2>6
<1>7. T = Nat
  <2> HIDE DEF T
  <2>1. T \in SUBSET Nat  BY DEF T
  <2> QED  BY <1>5, <1>6, <2>1, NatSetInduction
<1>8. Good(Len(s))
  <2>1. Len(s) \in T
    BY <1>1, <1>7, Zenon
  <2> QED  BY <1>1, <2>1
<1>9. \A a : a \in Range(s) <=> \E k \in 1..Len(s) : s[k] = a
  BY <1>1 DEF Range
<1> QED
  BY <1>3, <1>8, <1>9

\* The elements of u stand among the first n of s in the order they have in u.
InOrder(u, s, n) ==
    /\ \A b \in 1..Len(u) : \E l \in 1..n : u[b] = s[l]
    /\ \A a, b \in 1..Len(u) : a < b =>
         \E k \in 1..n : \E l \in 1..n : k < l /\ u[a] = s[k] /\ u[b] = s[l]

\* kept(s, S) leaves the order of s.
LEMMA KeptOrder ==
    ASSUME NEW A, NEW s \in Seq(A), NEW S
    PROVE  InOrder(kept(s, S), s, Len(s))
<1> DEFINE f == CHOOSE g : Keeps(g, s, S, Len(s))
           Good(i) == f[i] \in Seq(A) /\ InOrder(f[i], s, i)
           T == {i \in Nat : i <= Len(s) => Good(i)}
<1>1. Len(s) \in Nat /\ DOMAIN s = 1..Len(s) /\ \A i \in 1..Len(s) : s[i] \in A
  OBVIOUS
<1>2. Keeps(f, s, S, Len(s))
  BY KeepsExists, <1>1
<1>3. kept(s, S) = f[Len(s)]
  BY Zenon DEF kept, Keeps
<1>4. \A i \in 0..Len(s) : f[i] = IF i = 0 THEN <<>>
                                  ELSE IF s[i] \in S THEN Append(f[i - 1], s[i]) ELSE f[i - 1]
  BY <1>2 DEF Keeps
<1> HIDE DEF f
<1>5. 0 \in T
  <2>1. 0 \in 0..Len(s)
    BY <1>1
  <2>2. f[0] = <<>> /\ <<>> \in Seq(A)
    BY <1>4, <2>1
  <2>3. InOrder(<<>>, s, 0)
    BY DEF InOrder
  <2> QED  BY <2>2, <2>3
<1>6. ASSUME NEW m \in T
      PROVE  m + 1 \in T
  <2>1. SUFFICES ASSUME m + 1 <= Len(s) PROVE Good(m + 1)
    BY <1>6
  <2>2. m \in Nat /\ Good(m) /\ m + 1 \in 1..Len(s) /\ (m + 1) - 1 = m
    BY <1>1, <1>6, <2>1
  <2>3. f[m + 1] = IF s[m + 1] \in S THEN Append(f[m], s[m + 1]) ELSE f[m]
    BY <1>4, <2>2
  <2> DEFINE u == f[m]
             v == f[m + 1]
  <2>4. u \in Seq(A) /\ InOrder(u, s, m) /\ Len(u) \in Nat /\ s[m + 1] \in A
    BY <1>1, <2>2
  <2>5. CASE s[m + 1] \in S
    <3>1. v = Append(u, s[m + 1])
      BY <2>3, <2>5
    <3> HIDE DEF u, v
    <3>2. /\ v \in Seq(A) /\ Len(v) = Len(u) + 1 /\ v[Len(u) + 1] = s[m + 1]
          /\ \A b \in 1..Len(u) : v[b] = u[b]
      BY <2>4, <3>1
    <3>3. ASSUME NEW b \in 1..Len(v)
          PROVE  \/ b \in 1..Len(u)
                 \/ v[b] = s[m + 1] /\ b = Len(u) + 1
      BY <2>4, <3>2
    <3>4. ASSUME NEW b \in 1..Len(v)
          PROVE  \E l \in 1..m + 1 : v[b] = s[l]
      <4>1. CASE b \in 1..Len(u)
        <5>1. PICK l \in 1..m : u[b] = s[l]
          BY <2>4, <4>1 DEF InOrder
        <5> QED  BY <2>2, <3>2, <4>1, <5>1
      <4> QED  BY <2>2, <3>3, <4>1
    <3>5. ASSUME NEW a \in 1..Len(v), NEW b \in 1..Len(v), a < b
          PROVE  \E k \in 1..m + 1 : \E l \in 1..m + 1 : k < l /\ v[a] = s[k] /\ v[b] = s[l]
      <4>1. a \in 1..Len(u)
        BY <2>4, <3>2, <3>5
      <4>2. CASE b \in 1..Len(u)
        <5>1. PICK k \in 1..m : \E l \in 1..m : k < l /\ u[a] = s[k] /\ u[b] = s[l]
          BY <2>4, <3>5, <4>1, <4>2 DEF InOrder
        <5>2. PICK l \in 1..m : k < l /\ u[a] = s[k] /\ u[b] = s[l]
          BY <5>1
        <5>3. k \in 1..m + 1 /\ l \in 1..m + 1 /\ v[a] = s[k] /\ v[b] = s[l]
          BY <2>2, <3>2, <4>1, <4>2, <5>2
        <5> QED  BY <5>2, <5>3
      <4>3. CASE v[b] = s[m + 1]
        <5>1. PICK k \in 1..m : u[a] = s[k]
          BY <2>4, <4>1 DEF InOrder
        <5>2. k \in 1..m + 1 /\ m + 1 \in 1..m + 1 /\ k < m + 1 /\ v[a] = s[k]
          BY <2>2, <3>2, <4>1, <5>1
        <5> QED  BY <4>3, <5>2
      <4> QED  BY <3>3, <4>2, <4>3
    <3>6. InOrder(v, s, m + 1)
      BY <3>4, <3>5 DEF InOrder
    <3> QED  BY <3>2, <3>6 DEF v
  <2>6. CASE s[m + 1] \notin S
    <3>1. v = u
      BY <2>3, <2>6
    <3> HIDE DEF u, v
    <3>2. InOrder(u, s, m + 1)
      <4>1. 1..m \subseteq 1..m + 1
        BY <2>2
      <4> QED  BY <2>4, <4>1 DEF InOrder
    <3> QED  BY <2>4, <3>1, <3>2 DEF v
  <2> QED  BY <2>5, <2>6
<1>7. T = Nat
  <2> HIDE DEF T
  <2>1. T \in SUBSET Nat  BY DEF T
  <2> QED  BY <1>5, <1>6, <2>1, NatSetInduction
<1>8. Good(Len(s))
  <2>1. Len(s) \in T
    BY <1>1, <1>7, Zenon
  <2> QED  BY <1>1, <2>1
<1> QED
  BY <1>3, <1>8

====
