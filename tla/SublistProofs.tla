----------------------------- MODULE SublistProofs -----------------------------
(***************************************************************************)
(* Facts about lists, positions and least elements that the proofs of the  *)
(* components share.  Every set of naturals that is not empty has a least  *)
(* one: the proofs use it for induction, on the least counterexample.      *)
(***************************************************************************)
EXTENDS Sublist, Functions, FiniteSetTheorems, SequenceTheorems, WellFoundedInduction, TLAPS

Less == {p \in Nat \X Nat : p[1] < p[2]}

LEMMA LessWellFounded == IsWellFoundedOn(Less, Nat)
  BY NatLessThanWellFounded, Zenon DEF OpToRel, Less

\* A set of naturals that is not empty has a least one.
LEMMA LeastOf ==
  ASSUME NEW S \in SUBSET Nat, S # {}
  PROVE  \E n \in S : \A m \in S : n <= m
<1>1. PICK n \in S : \A m \in S : <<m, n>> \notin Less
  BY LessWellFounded, WFMin
<1>2. ASSUME NEW m \in S PROVE n <= m
  <2>1. m \in Nat /\ n \in Nat /\ <<m, n>> \notin Less
    BY <1>1
  <2>2. ~(m < n)
    BY <2>1 DEF Less
  <2>. QED BY <2>1, <2>2
<1>. QED BY <1>2

\* Nth lists a finite set of positions in increasing order, all of it.
LEMMA NthLists ==
  ASSUME NEW S \in SUBSET Nat, IsFiniteSet(S)
  PROVE  /\ Cardinality(S) \in Nat
         /\ \A n \in 1 .. Cardinality(S) : Nth(S, n) \in S
         /\ \A m, n \in 1 .. Cardinality(S) : m < n => Nth(S, m) < Nth(S, n)
         /\ \A p \in S : \E n \in 1 .. Cardinality(S) : Nth(S, n) = p
<1> DEFINE upto(p) == {q \in S : q <= p}
           rank == [p \in S |-> Cardinality(upto(p))]
<1>1. Cardinality(S) \in Nat
  BY FS_CardinalityType
<1>2. ASSUME NEW p \in S
      PROVE  /\ IsFiniteSet(upto(p)) /\ Cardinality(upto(p)) \in 1 .. Cardinality(S)
  <2>1. upto(p) \subseteq S /\ p \in upto(p)
    OBVIOUS
  <2>2. IsFiniteSet(upto(p)) /\ Cardinality(upto(p)) <= Cardinality(S)
    BY <2>1, FS_Subset
  <2>3. Cardinality(upto(p)) \in Nat /\ Cardinality(upto(p)) # 0
    BY <2>1, <2>2, FS_CardinalityType, FS_EmptySet
  <2>. QED BY <1>1, <2>2, <2>3
<1>3. ASSUME NEW p \in S, NEW q \in S, p < q
      PROVE  Cardinality(upto(p)) < Cardinality(upto(q))
  <2>0. \A r \in S : r <= p => r <= q
    BY <1>3
  <2>1. upto(p) \subseteq upto(q) /\ q \in upto(q) /\ q \notin upto(p)
    <3>1. p \in Nat /\ q \in Nat /\ q <= q /\ ~(q <= p)
      BY <1>3
    <3>. QED BY <2>0, <3>1
  <2>2. upto(p) # upto(q)
    BY <2>1
  <2>3. Cardinality(upto(p)) \in Nat /\ Cardinality(upto(q)) \in Nat
    BY <1>2
  <2>. QED BY <1>2, <2>1, <2>2, <2>3, FS_Subset
<1>. HIDE DEF upto
<1>4. \A p, q \in S : Cardinality(upto(p)) = Cardinality(upto(q)) => p = q
  <2>. SUFFICES ASSUME NEW p \in S, NEW q \in S, p # q
                PROVE  Cardinality(upto(p)) # Cardinality(upto(q))
    OBVIOUS
  <2>1. p < q \/ q < p
    OBVIOUS
  <2>2. Cardinality(upto(p)) \in Nat /\ Cardinality(upto(q)) \in Nat
    BY <1>2
  <2>. QED BY <1>3, <2>1, <2>2
<1>5. ASSUME NEW n \in 1 .. Cardinality(S)
      PROVE  \E p \in S : Cardinality(upto(p)) = n
  <2>. SUFFICES ASSUME \A p \in S : Cardinality(upto(p)) # n PROVE FALSE
    OBVIOUS
  <2>1. rank \in Injection(S, (1 .. Cardinality(S)) \ {n})
    BY <1>2, <1>4 DEF Injection, IsInjective
  <2>2. IsFiniteSet(1 .. Cardinality(S)) /\ Cardinality(1 .. Cardinality(S)) = Cardinality(S)
    BY <1>1, FS_Interval
  <2>3. /\ IsFiniteSet((1 .. Cardinality(S)) \ {n})
        /\ Cardinality((1 .. Cardinality(S)) \ {n}) = Cardinality(S) - 1
    BY <2>2, FS_RemoveElement, ZenonT(40)
  <2>4. Cardinality(S) <= Cardinality(S) - 1
    BY <2>1, <2>3, FS_Injection
  <2>. QED BY <1>1, <2>4
<1>6. ASSUME NEW n \in 1 .. Cardinality(S)
      PROVE  Nth(S, n) \in S /\ Cardinality(upto(Nth(S, n))) = n
  <2>1. Nth(S, n) = CHOOSE p \in S : Cardinality(upto(p)) = n
    BY DEF Nth, upto
  <2>. QED BY <1>5, <2>1
<1>7. ASSUME NEW m \in 1 .. Cardinality(S), NEW n \in 1 .. Cardinality(S), m < n
      PROVE  Nth(S, m) < Nth(S, n)
  <2>1. PICK p \in S : p = Nth(S, m) /\ Cardinality(upto(p)) = m
    BY <1>6
  <2>2. PICK q \in S : q = Nth(S, n) /\ Cardinality(upto(q)) = n
    BY <1>6
  <2>3. p # q /\ ~(q < p)
    BY <1>3, <1>7, <2>1, <2>2
  <2>. QED BY <2>1, <2>2, <2>3
<1>8. ASSUME NEW p \in S PROVE \E n \in 1 .. Cardinality(S) : Nth(S, n) = p
  BY <1>2, <1>4, <1>6
<1>. QED BY <1>1, <1>6, <1>7, <1>8

\* Positions of a list are a finite set of naturals.
LEMMA LivePositions ==
  ASSUME NEW T, NEW list \in Seq(T), NEW S \in SUBSET DOMAIN list
  PROVE  S \in SUBSET Nat /\ IsFiniteSet(S) /\ DOMAIN list = 1 .. Len(list)
<1>1. DOMAIN list = 1 .. Len(list) /\ Len(list) \in Nat
  OBVIOUS
<1>2. IsFiniteSet(1 .. Len(list))
  BY <1>1, FS_Interval
<1>3. IsFiniteSet(S)
  BY <1>1, <1>2, FS_Subset
<1>. QED BY <1>1, <1>3

\* What Kept keeps: the elements at the positions, each once.
LEMMA KeptFacts ==
  ASSUME NEW T, NEW list \in Seq(T), NEW S \in SUBSET DOMAIN list
  PROVE  /\ Kept(list, S) \in Seq(T) /\ Len(Kept(list, S)) = Cardinality(S)
         /\ \A n \in 1 .. Cardinality(S) : Nth(S, n) \in S /\ Kept(list, S)[n] = list[Nth(S, n)]
         /\ \A m, n \in 1 .. Cardinality(S) : m # n => Nth(S, m) # Nth(S, n)
         /\ \A p \in S : \E n \in 1 .. Cardinality(S) : Nth(S, n) = p
<1>1. S \in SUBSET Nat /\ IsFiniteSet(S) /\ DOMAIN list = 1 .. Len(list)
  BY LivePositions
<1>2. /\ Cardinality(S) \in Nat
      /\ \A n \in 1 .. Cardinality(S) : Nth(S, n) \in S
      /\ \A m, n \in 1 .. Cardinality(S) : m < n => Nth(S, m) < Nth(S, n)
      /\ \A p \in S : \E n \in 1 .. Cardinality(S) : Nth(S, n) = p
  BY <1>1, NthLists
<1>3. \A m, n \in 1 .. Cardinality(S) : m # n => Nth(S, m) # Nth(S, n)
  <2>. SUFFICES ASSUME NEW m \in 1 .. Cardinality(S), NEW n \in 1 .. Cardinality(S), m # n
                PROVE  Nth(S, m) # Nth(S, n)
    OBVIOUS
  <2>1. m < n \/ n < m
    BY <1>2
  <2>2. PICK p \in Nat, q \in Nat : p = Nth(S, m) /\ q = Nth(S, n) /\ (p < q \/ q < p)
    BY <1>1, <1>2, <2>1
  <2>. QED BY <2>2
<1>4. \A n \in 1 .. Cardinality(S) : list[Nth(S, n)] \in T
  BY <1>1, <1>2
<1>. QED BY <1>2, <1>3, <1>4 DEF Kept

\* A set of positions is listed in increasing order in one way.
LEMMA NthUnique ==
  ASSUME NEW S \in SUBSET Nat, IsFiniteSet(S), NEW n \in Nat, NEW f \in [1 .. n -> S],
         \A i, j \in 1 .. n : i < j => f[i] < f[j],
         \A p \in S : \E i \in 1 .. n : f[i] = p
  PROVE  n = Cardinality(S) /\ \A i \in 1 .. n : f[i] = Nth(S, i)
<1> DEFINE m == Cardinality(S)
           g == [i \in 1 .. m |-> Nth(S, i)]
<1>1. m \in Nat /\ g \in [1 .. m -> S] /\ \A i \in 1 .. m : g[i] = Nth(S, i)
  BY NthLists
<1>2. /\ \A i, j \in 1 .. m : i < j => g[i] < g[j]
      /\ \A p \in S : \E i \in 1 .. m : g[i] = p
  BY NthLists, <1>1
<1>. HIDE DEF m, g
<1>3. \A i \in 1 .. n : f[i] \in S /\ f[i] \in Nat
  OBVIOUS
<1>4. \A i \in 1 .. m : g[i] \in S /\ g[i] \in Nat
  BY <1>1
<1> DEFINE Bad == {i \in Nat : i \in 1 .. n /\ i \in 1 .. m /\ f[i] # g[i]}
<1>5. Bad = {}
  <2>. SUFFICES ASSUME Bad # {} PROVE FALSE
    OBVIOUS
  <2>1. PICK i \in Bad : \A j \in Bad : i <= j
    BY LeastOf
  <2>2. i \in 1 .. n /\ i \in 1 .. m /\ f[i] # g[i]
    BY <2>1
  <2>3. \A j \in 1 .. i - 1 : j \in 1 .. n /\ j \in 1 .. m /\ f[j] = g[j] /\ j < i
    <3>. SUFFICES ASSUME NEW j \in 1 .. i - 1
                  PROVE  j \in 1 .. n /\ j \in 1 .. m /\ f[j] = g[j] /\ j < i
      OBVIOUS
    <3>1. j \in Nat /\ j \in 1 .. n /\ j \in 1 .. m /\ j < i /\ ~(i <= j)
      BY <1>1, <2>2
    <3>. QED BY <2>1, <3>1
  <2>4. CASE f[i] < g[i]
    <3>1. PICK j \in 1 .. m : g[j] = f[i]
      BY <1>2, <1>3, <2>2
    <3>2. ~(i < j) /\ i # j
      <4>1. g[i] \in Nat /\ g[j] \in Nat /\ f[i] \in Nat
        BY <1>3, <1>4, <2>2
      <4>. QED BY <1>2, <2>2, <2>4, <3>1, <4>1
    <3>3. j \in 1 .. i - 1
      BY <2>2, <3>2
    <3>4. f[j] = f[i] /\ f[j] < f[i]
      BY <2>2, <2>3, <3>1, <3>3
    <3>. QED BY <1>3, <2>2, <3>4
  <2>5. CASE g[i] < f[i]
    <3>1. PICK j \in 1 .. n : f[j] = g[i]
      BY <1>4, <2>2
    <3>2. ~(i < j) /\ i # j
      <4>1. f[i] \in Nat /\ f[j] \in Nat /\ g[i] \in Nat
        BY <1>3, <1>4, <2>2
      <4>. QED BY <2>2, <2>5, <3>1, <4>1
    <3>3. j \in 1 .. i - 1
      BY <2>2, <3>2
    <3>4. g[j] = g[i] /\ g[j] < g[i]
      BY <1>2, <2>2, <2>3, <3>1, <3>3
    <3>. QED BY <1>4, <2>2, <3>4
  <2>. QED BY <1>3, <1>4, <2>2, <2>4, <2>5
<1>6. \A i \in 1 .. n : i \in 1 .. m => f[i] = g[i]
  BY <1>5
<1>. HIDE DEF Bad
<1>7. ~(n < m)
  <2>. SUFFICES ASSUME n < m PROVE FALSE
    OBVIOUS
  <2>1. m \in 1 .. m
    BY <1>1
  <2>2. PICK j \in 1 .. n : f[j] = g[m]
    BY <1>4, <2>1
  <2>3. j \in 1 .. m /\ j < m
    BY <1>1
  <2>4. g[j] < g[m] /\ g[j] = g[m]
    BY <1>2, <1>6, <2>1, <2>2, <2>3
  <2>. QED BY <1>4, <2>1, <2>4
<1>8. ~(m < n)
  <2>. SUFFICES ASSUME m < n PROVE FALSE
    OBVIOUS
  <2>1. n \in 1 .. n
    BY <1>1
  <2>2. PICK j \in 1 .. m : g[j] = f[n]
    BY <1>2, <1>3, <2>1
  <2>3. j \in 1 .. n /\ j < n
    BY <1>1
  <2>4. f[j] < f[n] /\ f[j] = f[n]
    BY <1>6, <2>1, <2>2, <2>3
  <2>. QED BY <1>3, <2>1, <2>4
<1>9. n = m
  BY <1>1, <1>7, <1>8
<1>. QED BY <1>1, <1>6, <1>9 DEF m

\* Erasing twice is erasing once.
LEMMA KeptKept ==
  ASSUME NEW T, NEW list \in Seq(T), NEW S \in SUBSET DOMAIN list,
         NEW Q \in SUBSET (1 .. Cardinality(S))
  PROVE  /\ Kept(Kept(list, S), Q) = Kept(list, {Nth(S, q) : q \in Q})
         /\ {Nth(S, q) : q \in Q} \in SUBSET S
<1> DEFINE P == {Nth(S, q) : q \in Q}
<1>1. S \in SUBSET Nat /\ IsFiniteSet(S)
  BY LivePositions
<1>2. /\ Cardinality(S) \in Nat
      /\ \A n \in 1 .. Cardinality(S) : Nth(S, n) \in S
      /\ \A m, n \in 1 .. Cardinality(S) : m < n => Nth(S, m) < Nth(S, n)
  BY <1>1, NthLists
<1>3. Q \in SUBSET Nat /\ IsFiniteSet(Q)
  <2>1. IsFiniteSet(1 .. Cardinality(S))
    BY <1>2, FS_Interval
  <2>2. Q \subseteq 1 .. Cardinality(S)
    OBVIOUS
  <2>3. IsFiniteSet(Q)
    BY <2>1, <2>2, FS_Subset, Zenon
  <2>. QED BY <1>2, <2>3
<1>4. /\ Cardinality(Q) \in Nat
      /\ \A n \in 1 .. Cardinality(Q) : Nth(Q, n) \in Q
      /\ \A m, n \in 1 .. Cardinality(Q) : m < n => Nth(Q, m) < Nth(Q, n)
      /\ \A p \in Q : \E n \in 1 .. Cardinality(Q) : Nth(Q, n) = p
  BY <1>3, NthLists
<1>5. P \in SUBSET S
  BY <1>2
<1>6. P \in SUBSET Nat /\ IsFiniteSet(P)
  BY <1>1, <1>5, FS_Subset
<1> DEFINE f == [n \in 1 .. Cardinality(Q) |-> Nth(S, Nth(Q, n))]
<1>7. f \in [1 .. Cardinality(Q) -> P]
  BY <1>4
<1>8. \A i, j \in 1 .. Cardinality(Q) : i < j => f[i] < f[j]
  <2>. SUFFICES ASSUME NEW i \in 1 .. Cardinality(Q), NEW j \in 1 .. Cardinality(Q), i < j
                PROVE  f[i] < f[j]
    OBVIOUS
  <2>1. Nth(Q, i) \in 1 .. Cardinality(S) /\ Nth(Q, j) \in 1 .. Cardinality(S) /\ Nth(Q, i) < Nth(Q, j)
    BY <1>4
  <2>. QED BY <1>2, <2>1
<1>9. \A p \in P : \E n \in 1 .. Cardinality(Q) : f[n] = p
  <2>. SUFFICES ASSUME NEW p \in P PROVE \E n \in 1 .. Cardinality(Q) : f[n] = p
    OBVIOUS
  <2>1. PICK q \in Q : p = Nth(S, q)
    OBVIOUS
  <2>2. PICK n \in 1 .. Cardinality(Q) : Nth(Q, n) = q
    BY <1>4
  <2>. QED BY <2>1, <2>2
<1>10. Cardinality(Q) = Cardinality(P) /\ \A n \in 1 .. Cardinality(Q) : f[n] = Nth(P, n)
  <2>. HIDE DEF f, P
  <2>. QED BY <1>4, <1>6, <1>7, <1>8, <1>9, NthUnique
<1>11. ASSUME NEW n \in 1 .. Cardinality(Q)
       PROVE  Kept(Kept(list, S), Q)[n] = list[Nth(P, n)]
  <2>1. Nth(Q, n) \in 1 .. Cardinality(S)
    BY <1>4
  <2>2. Kept(list, S)[Nth(Q, n)] = list[Nth(S, Nth(Q, n))]
    BY <2>1 DEF Kept
  <2>3. Kept(Kept(list, S), Q)[n] = Kept(list, S)[Nth(Q, n)]
    BY DEF Kept
  <2>. QED BY <1>10, <2>2, <2>3
<1>12. Kept(Kept(list, S), Q) = [n \in 1 .. Cardinality(Q) |-> Kept(Kept(list, S), Q)[n]]
  BY DEF Kept
<1>13. Kept(list, P) = [n \in 1 .. Cardinality(P) |-> list[Nth(P, n)]]
  BY DEF Kept
<1>. HIDE DEF P, f
<1>14. Kept(Kept(list, S), Q) = Kept(list, P)
  BY <1>10, <1>11, <1>12, <1>13
<1>. QED BY <1>5, <1>14 DEF P

\* A list grows at its end.
Grown(list, x) == Append(list, x)

LEMMA KeptMore ==
  ASSUME NEW T, NEW list \in Seq(T), NEW S \in SUBSET DOMAIN list, NEW x \in T
  PROVE  /\ Kept(Grown(list, x), S) = Kept(list, S)
         /\ Kept(Grown(list, x), S \cup {Len(list) + 1}) = Grown(Kept(list, S), x)
<1>1. S \in SUBSET Nat /\ IsFiniteSet(S) /\ DOMAIN list = 1 .. Len(list) /\ Len(list) \in Nat
  BY LivePositions
<1>2. /\ Cardinality(S) \in Nat
      /\ \A n \in 1 .. Cardinality(S) : Nth(S, n) \in S
      /\ \A m, n \in 1 .. Cardinality(S) : m < n => Nth(S, m) < Nth(S, n)
      /\ \A p \in S : \E n \in 1 .. Cardinality(S) : Nth(S, n) = p
  BY <1>1, NthLists
<1>3. PICK longer : /\ longer = Append(list, x) /\ longer[Len(list) + 1] = x
                    /\ \A n \in 1 .. Len(list) : longer[n] = list[n]
  <2>1. PICK longer : longer = Append(list, x)
    OBVIOUS
  <2>2. longer[Len(list) + 1] = x /\ \A n \in 1 .. Len(list) : longer[n] = list[n]
    BY <2>1
  <2>. QED BY <2>1, <2>2
<1>4. \A n \in 1 .. Cardinality(S) : longer[Nth(S, n)] = list[Nth(S, n)]
  BY <1>1, <1>2, <1>3
<1>5. Kept(longer, S) = Kept(list, S)
  BY <1>4 DEF Kept
<1> DEFINE P == S \cup {Len(list) + 1}
           m == Cardinality(S)
           f == [n \in 1 .. m + 1 |-> IF n = m + 1 THEN Len(list) + 1 ELSE Nth(S, n)]
<1>6. P \in SUBSET Nat /\ IsFiniteSet(P) /\ m \in Nat
  <2>1. S \in SUBSET Nat /\ IsFiniteSet(S) /\ Len(list) + 1 \in Nat
    BY <1>1
  <2>2. IsFiniteSet(S \cup {Len(list) + 1})
    BY <2>1, FS_AddElement
  <2>. QED BY <1>2, <2>1, <2>2
<1>7. /\ \A n \in 1 .. m : f[n] = Nth(S, n) /\ f[n] \in S /\ n \in 1 .. m + 1
      /\ f[m + 1] = Len(list) + 1 /\ m + 1 \in 1 .. m + 1
      /\ f \in [1 .. m + 1 -> P]
  BY <1>2, <1>6
<1>8. \A n \in 1 .. m + 1 : n \in 1 .. m \/ n = m + 1
  BY <1>6
<1>9. \A p \in S : p \in Nat /\ p < Len(list) + 1
  BY <1>1
<1>. HIDE DEF f, m
<1>10. \A i, j \in 1 .. m + 1 : i < j => f[i] < f[j]
  <2>. SUFFICES ASSUME NEW i \in 1 .. m + 1, NEW j \in 1 .. m + 1, i < j PROVE f[i] < f[j]
    OBVIOUS
  <2>1. i \in 1 .. m
    BY <1>6
  <2>2. CASE j \in 1 .. m
    BY <1>2, <1>7, <2>1, <2>2 DEF m
  <2>3. CASE j = m + 1
    BY <1>7, <1>9, <2>1, <2>3
  <2>. QED BY <1>8, <2>2, <2>3
<1>11. \A p \in P : \E n \in 1 .. m + 1 : f[n] = p
  <2>. SUFFICES ASSUME NEW p \in P PROVE \E n \in 1 .. m + 1 : f[n] = p
    OBVIOUS
  <2>1. CASE p \in S
    <3>1. PICK n \in 1 .. m : Nth(S, n) = p
      BY <1>2, <2>1 DEF m
    <3>. QED BY <1>7, <3>1
  <2>2. CASE p = Len(list) + 1
    BY <1>7, <2>2
  <2>. QED BY <2>1, <2>2
<1>12. Cardinality(P) = m + 1 /\ \A n \in 1 .. m + 1 : f[n] = Nth(P, n)
  <2>1. m + 1 \in Nat
    BY <1>6
  <2>. HIDE DEF P
  <2>. QED BY <1>6, <1>7, <1>10, <1>11, <2>1, NthUnique
<1>13. Kept(longer, P) = [n \in 1 .. m + 1 |-> longer[f[n]]]
  BY <1>12 DEF Kept
<1>14. PICK k : k = Kept(list, S) /\ k \in Seq(T) /\ Len(k) = m /\ \A n \in 1 .. m : k[n] = list[Nth(S, n)]
  <2>1. /\ Kept(list, S) \in Seq(T) /\ Len(Kept(list, S)) = Cardinality(S)
        /\ \A n \in 1 .. Cardinality(S) : Kept(list, S)[n] = list[Nth(S, n)]
    BY KeptFacts
  <2>. QED BY <2>1 DEF m
<1>15. Append(k, x) = [n \in 1 .. m + 1 |-> IF n = m + 1 THEN x ELSE k[n]]
  <2>1. PICK g : g = Append(k, x)
    OBVIOUS
  <2>2. /\ g \in Seq(T) /\ Len(g) = m + 1 /\ DOMAIN g = 1 .. m + 1
        /\ g[m + 1] = x /\ \A n \in 1 .. m : g[n] = k[n]
    BY <1>14, <2>1
  <2>3. g = [n \in DOMAIN g |-> g[n]]
    BY <2>2
  <2>4. \A n \in 1 .. m + 1 : g[n] = IF n = m + 1 THEN x ELSE k[n]
    BY <1>8, <2>2
  <2>. QED BY <2>1, <2>2, <2>3, <2>4
<1>16. ASSUME NEW n \in 1 .. m + 1 PROVE longer[f[n]] = IF n = m + 1 THEN x ELSE k[n]
  <2>1. CASE n = m + 1
    BY <1>3, <1>7, <2>1
  <2>2. CASE n \in 1 .. m
    <3>1. longer[Nth(S, n)] = list[Nth(S, n)] /\ n # m + 1
      BY <1>4, <1>6, <2>2 DEF m
    <3>. QED BY <1>7, <1>14, <2>2, <3>1
  <2>. QED BY <1>8, <2>1, <2>2
<1>17. Kept(longer, P) = Append(k, x)
  BY <1>13, <1>15, <1>16
<1>. QED BY <1>3, <1>5, <1>14, <1>17 DEF P, Grown

\* The elements of a list, and of a longer one.
LEMMA RangeOf ==
  ASSUME NEW T, NEW list \in Seq(T)
  PROVE  /\ Range(list) = {list[n] : n \in 1 .. Len(list)}
         /\ \A x \in T : Range(Append(list, x)) = Range(list) \cup {x}
<1>1. DOMAIN list = 1 .. Len(list)
  OBVIOUS
<1>2. Range(list) = {list[n] : n \in 1 .. Len(list)}
  BY <1>1 DEF Range
<1>3. ASSUME NEW x \in T PROVE Range(Append(list, x)) = Range(list) \cup {x}
  <2>1. PICK t : t = Append(list, x)
    OBVIOUS
  <2>2. /\ DOMAIN t = 1 .. Len(list) + 1 /\ t[Len(list) + 1] = x
        /\ \A n \in 1 .. Len(list) : t[n] = list[n]
    BY <2>1
  <2>3. 1 .. Len(list) + 1 = (1 .. Len(list)) \cup {Len(list) + 1}
    OBVIOUS
  <2>4. Range(t) = {list[n] : n \in 1 .. Len(list)} \cup {x}
    BY <2>2, <2>3 DEF Range
  <2>. QED BY <1>2, <2>1, <2>4
<1>. QED BY <1>2, <1>3

\* A list without its last element.
LEMMA DropLast ==
  ASSUME NEW S, NEW s \in Seq(S), Len(s) # 0
  PROVE  LET t == SubSeq(s, 1, Len(s) - 1) IN
         t \in Seq(S) /\ Len(t) = Len(s) - 1 /\ \A k \in 1 .. Len(s) - 1 : t[k] = s[k]
<1>1. PICK n \in Nat : n = Len(s) - 1
  OBVIOUS
<1>2. \A k \in 1 .. n : s[k] \in S
  BY <1>1
<1>3. /\ SubSeq(s, 1, n) \in Seq(S)
      /\ Len(SubSeq(s, 1, n)) = IF 1 <= n THEN n - 1 + 1 ELSE 0
      /\ \A k \in 1 .. n - 1 + 1 : SubSeq(s, 1, n)[k] = s[1 + k - 1]
  BY <1>2, SubSeqProperties
<1>4. \A k \in 1 .. n : k \in 1 .. n - 1 + 1 /\ 1 + k - 1 = k
  OBVIOUS
<1>5. \A k \in 1 .. n : SubSeq(s, 1, n)[k] = s[k]
  BY <1>3, <1>4
<1>6. Len(SubSeq(s, 1, n)) = n
  BY <1>3
<1>. QED BY <1>1, <1>3, <1>5, <1>6
=============================================================================
