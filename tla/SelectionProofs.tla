-------------------------- MODULE SelectionProofs --------------------------
(***************************************************************************)
(* Theorems about Selection for all keys, histories, weights, policies and *)
(* numbers of concurrent requests: types, the sharing of requests between  *)
(* keys, round-robin, and how good the selected key is.                    *)
(*                                                                         *)
(* First come facts about numbers and sequences, then what the scores of   *)
(* Scoring are worth, then what one decision does, and then the theorems.  *)
(***************************************************************************)
EXTENDS Selection, FiniteSetTheorems, FunctionTheorems, SequenceTheorems, WellFoundedInduction, TLAPS

\* Every set of natural numbers has a least one.
LEMMA LeastNatural ==
    ASSUME NEW T \in SUBSET Nat, T # {}
    PROVE  \E x \in T : \A y \in T : x <= y
<1> DEFINE Initials == {1..x : x \in T}
<1>1. Initials \subseteq FiniteSubsetsOf(Nat) /\ Initials # {}
    <2>1. ASSUME NEW x \in T
          PROVE  1..x \in SUBSET Nat /\ IsFiniteSet(1..x)
        BY FS_Interval
    <2> QED
        BY <2>1 DEF FiniteSubsetsOf
<1>2. PICK I \in Initials : \A J \in Initials : <<J, I>> \notin StrictSubsetOrdering(Nat)
    <2> HIDE DEF Initials
    <2> QED  BY <1>1, FS_StrictSubsetOrderingWellFounded, WFMin
<1>3. PICK x \in T : I = 1..x
    BY <1>2
<1>4. ASSUME NEW y \in T, y < x
      PROVE  FALSE
    <2>1. 1..y \in SUBSET Nat /\ 1..x \in SUBSET Nat /\ 1..y \subseteq 1..x /\ 1..y # 1..x
        <3>1. x \in 1..x /\ x \notin 1..y
            BY <1>4
        <3> QED  BY <1>4, <3>1
    <2>2. <<1..y, 1..x>> \in StrictSubsetOrdering(Nat)
        BY <2>1, Zenon DEF StrictSubsetOrdering
    <2> QED
        BY <1>2, <1>3, <2>2
<1> QED
    BY <1>4

\* The greatest of finitely many numbers exists: one below which most of them lie.
LEMMA GreatestNatural ==
    ASSUME NEW S \in SUBSET Nat, S # {}, IsFiniteSet(S)
    PROVE  \E x \in S : \A y \in S : y <= x
<1> DEFINE Above(x) == {y \in S : x < y}
<1>1. ASSUME NEW x \in S
      PROVE  IsFiniteSet(Above(x)) /\ Cardinality(Above(x)) \in Nat
    BY FS_Subset, FS_CardinalityType
<1> DEFINE C == {Cardinality(Above(x)) : x \in S}
<1>2. C \in SUBSET Nat /\ C # {}
    BY <1>1
<1> HIDE DEF Above
<1>3. PICK c \in C : \A d \in C : c <= d
    <2> HIDE DEF C
    <2> QED  BY <1>2, LeastNatural
<1>4. PICK x \in S : c = Cardinality(Above(x))
    BY <1>3
<1>5. ASSUME NEW y \in S, x < y
      PROVE  FALSE
    <2>1. Above(y) \in SUBSET Above(x) /\ y \in Above(x) /\ y \notin Above(y)
        <3>1. \A z \in S : y < z => x < z
            BY <1>5
        <3>2. \A z : z \in Above(y) <=> z \in S /\ y < z
            BY DEF Above
        <3>3. \A z : z \in Above(x) <=> z \in S /\ x < z
            BY DEF Above
        <3>4. ~ (y < y)
            OBVIOUS
        <3> QED  BY <1>5, <3>1, <3>2, <3>3, <3>4
    <2>2. Cardinality(Above(y)) < Cardinality(Above(x))
        BY <1>1, <2>1, FS_Subset
    <2> QED
        BY <1>1, <1>3, <1>4, <2>2
<1> QED
    BY <1>5

\* The values of a function on a finite set are finitely many.
LEMMA ImageOfFinite ==
    ASSUME NEW S, IsFiniteSet(S), NEW f, S \subseteq DOMAIN f
    PROVE  IsFiniteSet({f[x] : x \in S})
<1> DEFINE g == [x \in S |-> f[x]]
<1>1. g \in Surjection(S, {f[x] : x \in S})
    BY DEF Surjection
<1> QED
    BY <1>1, FS_Surjection

\* The greatest and the least of the amounts of finitely many keys, and when
\* these differ.
LEMMA Extremes ==
    ASSUME NEW S, S # {}, IsFiniteSet(S), NEW f \in [S -> Nat],
           NEW amounts, \A v : v \in amounts <=> \E x \in S : v = f[x]
    PROVE  /\ Max(amounts) \in Nat /\ Min(amounts) \in Nat
           /\ \A x \in S : Min(amounts) <= f[x] /\ f[x] <= Max(amounts)
           /\ \E x \in S : Max(amounts) = f[x]
           /\ Cardinality(amounts) = 1 <=> \A x, y \in S : f[x] = f[y]
           /\ Cardinality(amounts) > 1 <=> \E x, y \in S : f[x] # f[y]
           /\ \A x, y \in S : f[x] # f[y] => Min(amounts) < Max(amounts)
<1> DEFINE all == {f[x] : x \in S}
<1>0. amounts = all
    OBVIOUS
<1>1. all \in SUBSET Nat /\ all # {} /\ IsFiniteSet(all)
    BY ImageOfFinite
<1>2. PICK x \in all : \A y \in all : y <= x
    <2> HIDE DEF all
    <2> QED  BY <1>1, GreatestNatural
<1>3. PICK z \in all : \A y \in all : z <= y
    <2> HIDE DEF all
    <2> QED  BY <1>1, LeastNatural
<1>4. Max(all) \in all /\ \A y \in all : Max(all) >= y
    <2> HIDE DEF all
    <2>1. \A y \in all : x >= y
        BY <1>1, <1>2
    <2> QED
        BY <2>1 DEF Max
<1>5. Min(all) \in all /\ \A y \in all : Min(all) <= y
    <2> HIDE DEF all
    <2> QED  BY <1>3 DEF Min
<1>6. Cardinality(all) \in Nat /\ Cardinality(all) # 0
    <2> HIDE DEF all
    <2> QED  BY <1>1, FS_CardinalityType, FS_EmptySet
<1>7. Cardinality(all) = 1 <=> \E v : all = {v}
    <2> HIDE DEF all
    <2> QED  BY <1>1, FS_Singleton
<1>8. (\E v : all = {v}) <=> \A a, b \in S : f[a] = f[b]
    <2>1. ASSUME NEW v, all = {v}, NEW a \in S, NEW b \in S
          PROVE  f[a] = f[b]
        <3>1. f[a] \in all /\ f[b] \in all
            OBVIOUS
        <3> HIDE DEF all
        <3> QED  BY <2>1, <3>1
    <2>2. ASSUME \A a, b \in S : f[a] = f[b]
          PROVE  \E v : all = {v}
        <3>1. PICK a \in S : TRUE
            OBVIOUS
        <3>2. all = {f[a]}
            BY <2>2
        <3> QED  BY <3>2
    <2> QED
        BY <2>1, <2>2
<1>9. \A a \in S : f[a] \in all
    OBVIOUS
<1>10. ASSUME NEW a \in S, NEW b \in S, f[a] # f[b]
       PROVE  Min(all) < Max(all)
    <2>1. f[a] \in all /\ f[b] \in all /\ f[a] \in Nat /\ f[b] \in Nat
        OBVIOUS
    <2> HIDE DEF all
    <2>2. Min(all) \in Nat /\ Max(all) \in Nat
        BY <1>1, <1>4, <1>5
    <2>3. Min(all) <= f[a] /\ f[a] <= Max(all) /\ Min(all) <= f[b] /\ f[b] <= Max(all)
        BY <1>4, <1>5, <2>1
    <2> QED  BY <1>10, <2>1, <2>2, <2>3
<1>11. \E a \in S : Max(all) = f[a]
    BY <1>4
<1>12. Cardinality(all) > 1 <=> \E a, b \in S : f[a] # f[b]
    <2> HIDE DEF all
    <2>1. Cardinality(all) > 1 <=> Cardinality(all) # 1
        BY <1>6
    <2>2. Cardinality(all) = 1 <=> \A a, b \in S : f[a] = f[b]
        BY <1>7, <1>8, Zenon
    <2> QED  BY <2>1, <2>2, Zenon
<1>13. Max(all) \in Nat /\ Min(all) \in Nat
    BY <1>1, <1>4, <1>5
<1>14. \A a \in S : Min(all) <= f[a] /\ f[a] <= Max(all)
    <2> HIDE DEF all
    <2> QED  BY <1>1, <1>4, <1>5, <1>9
<1> HIDE DEF all
<1>15. Cardinality(all) = 1 <=> \A a, b \in S : f[a] = f[b]
    BY <1>7, <1>8
<1> QED
    BY <1>0, <1>10, <1>11, <1>12, <1>13, <1>14, <1>15

\* The concatenation of sequences over S is one.  FlattenSeq is built by a
\* recursive function: it exists on each initial segment, the least segment
\* without one being impossible.
LEMMA FlattenType ==
    ASSUME NEW S, NEW seqs \in Seq(Seq(S))
    PROVE  FlattenSeq(seqs) \in Seq(S)
<1> DEFINE n == Len(seqs)
           Joins(f, m) == f = [i \in 1..m |-> IF i = 1 THEN seqs[i] ELSE f[i - 1] \o seqs[i]]
           Without == {m \in 1..n : ~ \E f : Joins(f, m)}
<1>1. n \in Nat /\ \A i \in 1..n : seqs[i] \in Seq(S)
    OBVIOUS
<1>2. Without = {}
    <2>1. ASSUME Without # {}
          PROVE  FALSE
        <3>1. PICK m \in Without : \A l \in Without : m <= l
            <4>1. Without \in SUBSET Nat
                <5> HIDE DEF Joins
                <5> QED  BY <1>1
            <4> HIDE DEF Without
            <4> QED  BY <2>1, <4>1, LeastNatural
        <3>2. CASE m = 1
            <4>1. Joins([i \in 1..m |-> seqs[i]], m)
                BY <3>2
            <4> QED  BY <3>1, <4>1
        <3>3. CASE m # 1
            <4>1. m \in 2..n /\ m - 1 \in 1..n /\ ~ (m <= m - 1)
                BY <1>1, <3>1, <3>3
            <4>2. PICK f : Joins(f, m - 1)
                BY <3>1, <4>1
            <4> DEFINE g == [i \in 1..m |-> IF i = m THEN f[m - 1] \o seqs[m] ELSE f[i]]
            <4>3. ASSUME NEW i \in 1..m
                  PROVE  g[i] = IF i = 1 THEN seqs[i] ELSE g[i - 1] \o seqs[i]
                <5>1. CASE i = m
                    <6>1. i # 1 /\ m - 1 \in 1..m /\ m - 1 # m
                        BY <4>1, <5>1
                    <6> QED  BY <5>1, <6>1
                <5>2. CASE i # m
                    <6>1. i \in 1..(m - 1)
                        BY <4>1, <5>2
                    <6>2. f[i] = IF i = 1 THEN seqs[i] ELSE f[i - 1] \o seqs[i]
                        BY <4>2, <6>1
                    <6>3. i # 1 => i - 1 \in 1..m /\ i - 1 # m
                        BY <4>1, <6>1
                    <6> QED  BY <5>2, <6>1, <6>2, <6>3
                <5> QED  BY <5>1, <5>2
            <4>4. Joins(g, m)
                <5>1. g = [i \in 1..m |-> g[i]]
                    OBVIOUS
                <5> HIDE DEF g
                <5> QED  BY <4>3, <5>1
            <4> HIDE DEF g, Joins
            <4> QED  BY <3>1, <4>4
        <3> QED  BY <3>2, <3>3
    <2> QED  BY <2>1
<1> DEFINE flatten == CHOOSE f : Joins(f, n)
<1>3. CASE n = 0
    <2>1. FlattenSeq(seqs) = seqs
        BY <1>3 DEF FlattenSeq
    <2>2. seqs = <<>>
        BY <1>3
    <2> QED  BY <2>1, <2>2
<1>4. CASE n # 0
    <2>1. Joins(flatten, n)
        <3>1. n \in 1..n
            BY <1>1, <1>4
        <3>2. \E f : Joins(f, n)
            BY <1>2, <3>1
        <3> HIDE DEF Joins
        <3> QED  BY <3>2
    <2>2. FlattenSeq(seqs) = flatten[n]
        BY <1>4 DEF FlattenSeq
    <2> HIDE DEF flatten
    <2> DEFINE Ill == {m \in 1..n : flatten[m] \notin Seq(S)}
    <2>3. ASSUME Ill # {}
          PROVE  FALSE
        <3>1. PICK m \in Ill : \A l \in Ill : m <= l
            <4>1. Ill \in SUBSET Nat
                BY <1>1
            <4> HIDE DEF Ill
            <4> QED  BY <2>3, <4>1, LeastNatural
        <3>2. flatten[m] = IF m = 1 THEN seqs[m] ELSE flatten[m - 1] \o seqs[m]
            BY <2>1, <3>1
        <3>3. CASE m = 1
            BY <1>1, <3>1, <3>2, <3>3
        <3>4. CASE m # 1
            <4>1. m - 1 \in 1..n /\ ~ (m <= m - 1)
                BY <1>1, <3>1, <3>4
            <4>2. flatten[m - 1] \in Seq(S)
                BY <3>1, <4>1
            <4>3. flatten[m - 1] \o seqs[m] \in Seq(S)
                BY <1>1, <3>1, <4>2
            <4> QED  BY <3>1, <3>2, <3>4, <4>3
        <3> QED  BY <3>3, <3>4
    <2>4. n \in 1..n
        BY <1>1, <1>4
    <2> QED  BY <2>2, <2>3, <2>4
<1> QED
    BY <1>3, <1>4

\* What Picked returns: the elements at the positions, each once, in order.
LEMMA PickedFacts ==
    ASSUME NEW S, NEW list \in Seq(S), NEW positions \in SUBSET (DOMAIN list)
    PROVE  /\ Picked(list, positions) \in Seq(S)
           /\ Len(Picked(list, positions)) = Cardinality(positions)
           /\ Cardinality(positions) \in Nat
           /\ \E p \in Bijection(1..Cardinality(positions), positions) :
                Picked(list, positions) = [n \in 1..Cardinality(positions) |-> list[p[n]]]
<1> DEFINE N == Cardinality(positions)
           UpTo(i) == {j \in positions : j <= i}
           rank == [i \in positions |-> Cardinality(UpTo(i))]
           Ranked(n) == CHOOSE i \in positions : Cardinality(UpTo(i)) = n
           p == [n \in 1..N |-> Ranked(n)]
<1>1. positions \in SUBSET Nat /\ IsFiniteSet(positions) /\ N \in Nat
    <2>1. DOMAIN list = 1..Len(list) /\ Len(list) \in Nat
        OBVIOUS
    <2>2. IsFiniteSet(1..Len(list))
        BY <2>1, FS_Interval
    <2> QED  BY <2>1, <2>2, FS_Subset, FS_CardinalityType
<1>2. ASSUME NEW i \in positions
      PROVE  IsFiniteSet(UpTo(i)) /\ Cardinality(UpTo(i)) \in 1..N
    <2>1. i \in UpTo(i)
        BY <1>1
    <2>2. UpTo(i) \in SUBSET positions
        OBVIOUS
    <2> HIDE DEF UpTo
    <2>3. IsFiniteSet(UpTo(i)) /\ Cardinality(UpTo(i)) <= N /\ Cardinality(UpTo(i)) \in Nat
        BY <1>1, <2>2, FS_Subset, FS_CardinalityType
    <2>4. Cardinality(UpTo(i)) # 0
        BY <2>1, <2>3, FS_EmptySet
    <2> QED  BY <1>1, <2>3, <2>4
<1>3. ASSUME NEW i \in positions, NEW j \in positions, i < j
      PROVE  Cardinality(UpTo(i)) # Cardinality(UpTo(j))
    <2>1. \A l \in positions : l <= i => l <= j
        BY <1>1, <1>3
    <2>2. ~ (j <= i) /\ j <= j
        BY <1>1, <1>3
    <2>3. UpTo(i) \in SUBSET UpTo(j) /\ UpTo(i) # UpTo(j)
        BY <2>1, <2>2
    <2> HIDE DEF UpTo
    <2> QED  BY <1>2, <2>3, FS_Subset
<1>4. rank \in Injection(positions, 1..N)
    <2>1. rank \in [positions -> 1..N]
        BY <1>2
    <2>2. ASSUME NEW i \in positions, NEW j \in positions, rank[i] = rank[j]
          PROVE  i = j
        <3>1. i = j \/ i < j \/ j < i
            BY <1>1
        <3> HIDE DEF UpTo
        <3> QED  BY <1>3, <2>2, <3>1
    <2> HIDE DEF rank
    <2> QED  BY <2>1, <2>2 DEF Injection, IsInjective
<1>5. rank \in Surjection(positions, 1..N)
    <2>1. IsFiniteSet(1..N) /\ Cardinality(1..N) = N
        BY <1>1, FS_Interval
    <2> HIDE DEF rank
    <2> QED  BY <1>4, <2>1, FS_Injection
<1>6. ASSUME NEW n \in 1..N
      PROVE  p[n] \in positions /\ rank[p[n]] = n
    <2>1. \E i \in positions : rank[i] = n
        BY <1>5 DEF Surjection
    <2>2. \E i \in positions : Cardinality(UpTo(i)) = n
        BY <2>1
    <2> HIDE DEF UpTo
    <2>3. Ranked(n) \in positions /\ Cardinality(UpTo(Ranked(n))) = n
        BY <2>2
    <2> HIDE DEF Ranked
    <2> QED  BY <2>3
<1>7. p \in Bijection(1..N, positions)
    <2>1. p \in [1..N -> positions]
        <3>1. p = [n \in 1..N |-> p[n]]
            <4> HIDE DEF Ranked
            <4> QED  OBVIOUS
        <3> HIDE DEF p
        <3> QED  BY <1>6, <3>1
    <2>2. rank \in [positions -> 1..N] /\ \A i, j \in positions : rank[i] = rank[j] => i = j
        <3> HIDE DEF rank
        <3> QED  BY <1>4 DEF Injection, IsInjective
    <2> HIDE DEF p, rank, N
    <2>3. \A m, n \in 1..N : p[m] = p[n] => m = n
        BY <1>6
    <2>4. \A i \in positions : p[rank[i]] = i
        BY <1>6, <2>2
    <2> QED  BY <2>1, <2>2, <2>3, <2>4, Zenon DEF Bijection, Injection, Surjection, IsInjective
<1>8. Picked(list, positions) = [n \in 1..N |-> list[p[n]]]
    BY DEF Picked
<1>9. ASSUME NEW n \in 1..N
      PROVE  list[p[n]] \in S
    <2>1. DOMAIN list = 1..Len(list) /\ \A i \in 1..Len(list) : list[i] \in S
        OBVIOUS
    <2>2. positions \in SUBSET (DOMAIN list)
        OBVIOUS
    <2> HIDE DEF p, N
    <2> QED  BY <1>6, <2>1, <2>2
<1> HIDE DEF p, N
<1>10. [n \in 1..N |-> list[p[n]]] \in Seq(S) /\ Len([n \in 1..N |-> list[p[n]]]) = N
    BY <1>1, <1>9
<1> QED
    BY <1>1, <1>7, <1>8, <1>10 DEF N


\* InOrder lists each of the keys once.
LEMMA InOrderFacts ==
    ASSUME NEW keys \in SUBSET Keys
    PROVE  /\ InOrder(keys) \in Seq(Keys)
           /\ ToSet(InOrder(keys)) = keys
           /\ IsInjective(InOrder(keys))
           /\ IsFiniteSet(keys)
           /\ Cardinality(keys) \in Nat
           /\ Len(InOrder(keys)) = Cardinality(keys)
<1> DEFINE P == {i \in DOMAIN Order : Order[i] \in keys}
           N == Cardinality(P)
<1>1. /\ Order \in Seq(Keys)
      /\ \A i, j \in DOMAIN Order : Order[i] = Order[j] => i = j
      /\ \A k \in Keys : \E i \in DOMAIN Order : Order[i] = k
    BY SelectionAssumption DEF IsInjective, Keys, ToSet
<1>2. P \in SUBSET (DOMAIN Order) /\ IsFiniteSet(P) /\ N \in Nat
    <2>1. DOMAIN Order = 1..Len(Order) /\ Len(Order) \in Nat
        BY <1>1
    <2>2. IsFiniteSet(DOMAIN Order)
        BY <2>1, FS_Interval
    <2> QED  BY <2>2, FS_Subset, FS_CardinalityType
<1>3. /\ InOrder(keys) \in Seq(Keys)
      /\ Len(InOrder(keys)) = N
      /\ \E p \in Bijection(1..N, P) : InOrder(keys) = [n \in 1..N |-> Order[p[n]]]
    <2>1. InOrder(keys) = Picked(Order, P)
        BY DEF InOrder
    <2> HIDE DEF P
    <2> QED  BY <1>1, <1>2, <2>1, PickedFacts
<1>4. PICK p \in Bijection(1..N, P) : InOrder(keys) = [n \in 1..N |-> Order[p[n]]]
    BY <1>3
<1>5. /\ p \in [1..N -> P]
      /\ \A m, n \in 1..N : p[m] = p[n] => m = n
      /\ \A i \in P : \E n \in 1..N : p[n] = i
    <2> HIDE DEF P, N
    <2>1. p \in Injection(1..N, P) /\ p \in Surjection(1..N, P)
        BY <1>4 DEF Bijection
    <2>2. p \in [1..N -> P] /\ IsInjective(p) /\ DOMAIN p = 1..N
        BY <2>1 DEF Injection
    <2> QED  BY <2>1, <2>2 DEF Surjection, IsInjective
<1>6. IsInjective(InOrder(keys))
    <2>1. \A i \in P : i \in DOMAIN Order
        OBVIOUS
    <2>2. DOMAIN InOrder(keys) = 1..N /\ \A n \in 1..N : InOrder(keys)[n] = Order[p[n]]
        <3> HIDE DEF N
        <3> QED  BY <1>4
    <2> HIDE DEF P, N
    <2> QED  BY <1>1, <1>5, <2>1, <2>2 DEF IsInjective
<1>7. ToSet(InOrder(keys)) = keys
    <2>1. \A i \in P : Order[i] \in keys
        OBVIOUS
    <2>2. \A k \in keys : \E i \in P : Order[i] = k
        BY <1>1
    <2>3. DOMAIN InOrder(keys) = 1..N /\ \A n \in 1..N : InOrder(keys)[n] = Order[p[n]]
        <3> HIDE DEF N
        <3> QED  BY <1>4
    <2> HIDE DEF P, N
    <2>4. \A n \in 1..N : InOrder(keys)[n] \in keys
        BY <1>5, <2>1, <2>3
    <2>5. \A k \in keys : \E n \in 1..N : InOrder(keys)[n] = k
        BY <1>5, <2>2, <2>3
    <2> QED  BY <2>3, <2>4, <2>5 DEF ToSet
<1>8. IsFiniteSet(keys) /\ Cardinality(keys) = N
    <2> DEFINE f == [i \in P |-> Order[i]]
    <2>1. f \in [P -> keys]
        OBVIOUS
    <2>2. \A i, j \in P : f[i] = f[j] => i = j
        BY <1>1
    <2>3. \A k \in keys : \E i \in P : f[i] = k
        BY <1>1
    <2> HIDE DEF P, f
    <2>4. f \in Bijection(P, keys)
        BY <2>1, <2>2, <2>3, Zenon DEF Bijection, Injection, Surjection, IsInjective
    <2>5. ExistsBijection(P, keys)
        BY <2>4 DEF ExistsBijection
    <2> QED  BY <1>2, <2>5, FS_Bijection
<1> QED
    BY <1>2, <1>3, <1>6, <1>7, <1>8

-----------------------------------------------------------------------------
\* A score between 0.0 and 1.0 for each of the keys.
Scored(s, keys) ==
    /\ s.one \in Nat \ {0}
    /\ s.of \in [keys -> Nat]
    /\ \A k \in keys : s.of[k] <= s.one

\* LeastFirst gives scores, in the opposite order of the amounts; and a score of
\* at least five sixths means at most a sixth of the range above any other.
LEMMA LeastFirstFacts ==
    ASSUME NEW keys, keys # {}, IsFiniteSet(keys), NEW amount \in [keys -> Nat]
    PROVE  LET s == LeastFirst(amount, keys)
           IN  /\ Scored(s, keys)
               /\ \A j, k \in keys :
                    /\ amount[j] <= amount[k] => s.of[j] >= s.of[k]
                    /\ amount[j] < amount[k] => s.of[j] > s.of[k]
               /\ \A j, k \in keys : 5 * s.one <= 6 * s.of[k] =>
                    \E i \in keys : 6 * (amount[k] - amount[j]) <= amount[i] - amount[j]
<1> DEFINE all == {amount[k] : k \in keys}
           s == LeastFirst(amount, keys)
<1>1. /\ Max(all) \in Nat /\ Min(all) \in Nat
      /\ \A x \in keys : Min(all) <= amount[x] /\ amount[x] <= Max(all)
      /\ \E x \in keys : Max(all) = amount[x]
      /\ Cardinality(all) = 1 <=> \A x, y \in keys : amount[x] = amount[y]
      /\ \A x, y \in keys : amount[x] # amount[y] => Min(all) < Max(all)
    <2>1. \A v : v \in all <=> \E x \in keys : v = amount[x]
        OBVIOUS
    <2> HIDE DEF all
    <2> QED  BY <2>1, Extremes
<1>2. \A k \in keys : amount[k] \in Nat
    OBVIOUS
<1>3. s = IF Cardinality(all) = 1 THEN Equal(keys)
          ELSE [of |-> [k \in keys |-> Max(all) - amount[k]], one |-> Max(all) - Min(all)]
    BY DEF LeastFirst
<1> HIDE DEF all, s
<1>4. CASE Cardinality(all) = 1
    <2>1. s.one = 1 /\ s.of = [k \in keys |-> 1] /\ \A j, k \in keys : amount[j] = amount[k]
        BY <1>1, <1>3, <1>4 DEF Equal
    <2>2. \A k \in keys : s.of[k] = 1
        BY <2>1
    <2>3. Scored(s, keys)
        BY <2>1, <2>2 DEF Scored
    <2> QED  BY <1>2, <2>1, <2>2, <2>3 DEF s
<1>5. CASE Cardinality(all) # 1
    <2>1. s.one = Max(all) - Min(all) /\ s.of = [k \in keys |-> Max(all) - amount[k]]
        BY <1>3, <1>5
    <2>2. Min(all) < Max(all)
        BY <1>1, <1>5
    <2>3. \A k \in keys : s.of[k] = Max(all) - amount[k]
        BY <2>1
    <2>4. Scored(s, keys)
        <3>1. s.one \in Nat \ {0}
            BY <1>1, <2>1, <2>2
        <3>2. \A k \in keys : Max(all) - amount[k] \in Nat /\ s.of[k] <= s.one
            BY <1>1, <1>2, <2>1, <2>3
        <3> QED  BY <2>1, <3>1, <3>2 DEF Scored
    <2>5. ASSUME NEW j \in keys, NEW k \in keys
          PROVE  /\ amount[j] <= amount[k] => s.of[j] >= s.of[k]
                 /\ amount[j] < amount[k] => s.of[j] > s.of[k]
        BY <1>1, <1>2, <2>3
    <2>6. ASSUME NEW j \in keys, NEW k \in keys, 5 * s.one <= 6 * s.of[k]
          PROVE  \E i \in keys : 6 * (amount[k] - amount[j]) <= amount[i] - amount[j]
        <3>1. PICK i \in keys : Max(all) = amount[i]
            BY <1>1
        <3>2. 6 * (amount[k] - amount[j]) <= amount[i] - amount[j]
            BY <1>1, <1>2, <2>1, <2>3, <2>6, <3>1
        <3> QED  BY <3>2
    <2> QED  BY <2>4, <2>5, <2>6 DEF s
<1> QED
    BY <1>4, <1>5

\* Stretching keeps the order of the scores.
LEMMA StretchedFacts ==
    ASSUME NEW keys, keys # {}, IsFiniteSet(keys), NEW raw, Scored(raw, keys)
    PROVE  LET s == Stretched(raw, keys)
           IN  /\ Scored(s, keys)
               /\ \A j, k \in keys :
                    /\ raw.of[j] <= raw.of[k] => s.of[j] <= s.of[k]
                    /\ raw.of[j] < raw.of[k] => s.of[j] < s.of[k]
<1> DEFINE all == {raw.of[k] : k \in keys}
           s == Stretched(raw, keys)
<1>1. raw.of \in [keys -> Nat] /\ \A k \in keys : raw.of[k] \in Nat
    BY DEF Scored
<1>2. /\ Max(all) \in Nat /\ Min(all) \in Nat
      /\ \A x \in keys : Min(all) <= raw.of[x] /\ raw.of[x] <= Max(all)
      /\ Cardinality(all) > 1 <=> \E x, y \in keys : raw.of[x] # raw.of[y]
      /\ \A x, y \in keys : raw.of[x] # raw.of[y] => Min(all) < Max(all)
    <2> DEFINE f == raw.of
    <2>1. f \in [keys -> Nat]
        BY <1>1
    <2> HIDE DEF f
    <2>2. \A v : v \in all <=> \E x \in keys : v = f[x]
        BY DEF f
    <2> HIDE DEF all
    <2>3. /\ Max(all) \in Nat /\ Min(all) \in Nat
          /\ \A x \in keys : Min(all) <= f[x] /\ f[x] <= Max(all)
          /\ Cardinality(all) > 1 <=> \E x, y \in keys : f[x] # f[y]
          /\ \A x, y \in keys : f[x] # f[y] => Min(all) < Max(all)
        BY <2>1, <2>2, Extremes
    <2> QED  BY <2>3 DEF f
<1>3. s = IF Cardinality(all) > 1
          THEN [of |-> [k \in keys |-> raw.of[k] - Min(all)], one |-> Max(all) - Min(all)]
          ELSE IF all = {0} THEN [of |-> [k \in keys |-> 1], one |-> 10]
          ELSE raw
    BY DEF Stretched
<1> HIDE DEF all, s
<1>4. CASE Cardinality(all) > 1
    <2>1. s.one = Max(all) - Min(all) /\ s.of = [k \in keys |-> raw.of[k] - Min(all)]
        BY <1>3, <1>4
    <2>2. Min(all) < Max(all)
        BY <1>2, <1>4
    <2>3. \A k \in keys : s.of[k] = raw.of[k] - Min(all)
        BY <2>1
    <2>4. Scored(s, keys)
        <3>1. s.one \in Nat \ {0}
            BY <1>2, <2>1, <2>2
        <3>2. \A k \in keys : raw.of[k] - Min(all) \in Nat /\ s.of[k] <= s.one
            BY <1>1, <1>2, <2>1, <2>3
        <3> QED  BY <2>1, <3>1, <3>2 DEF Scored
    <2>5. ASSUME NEW j \in keys, NEW k \in keys
          PROVE  /\ raw.of[j] <= raw.of[k] => s.of[j] <= s.of[k]
                 /\ raw.of[j] < raw.of[k] => s.of[j] < s.of[k]
        BY <1>1, <1>2, <2>3
    <2> QED  BY <2>4, <2>5 DEF s
<1>5. CASE ~ (Cardinality(all) > 1) /\ all = {0}
    <2>1. s.one = 10 /\ s.of = [k \in keys |-> 1]
        BY <1>3, <1>5
    <2>2. \A k \in keys : s.of[k] = 1
        BY <2>1
    <2>3. \A j, k \in keys : raw.of[j] = raw.of[k]
        BY <1>2, <1>5
    <2>4. Scored(s, keys)
        BY <2>1, <2>2 DEF Scored
    <2> QED  BY <1>1, <2>2, <2>3, <2>4 DEF s
<1>6. CASE ~ (Cardinality(all) > 1) /\ all # {0}
    <2>1. s = raw
        BY <1>3, <1>6
    <2> QED  BY <2>1 DEF s
<1> QED
    BY <1>4, <1>5, <1>6


\* The index after p, going round after n.
LEMMA NextIndex ==
    ASSUME NEW n \in Nat \ {0}, NEW p \in 0..n
    PROVE  (p % n) + 1 = IF p = n THEN 1 ELSE p + 1
<1>1. CASE p = n
    BY <1>1
<1>2. CASE p # n
    BY <1>2
<1> QED
    BY <1>1, <1>2

\* What is needed of division and of products of natural numbers.
LEMMA DivFacts ==
    ASSUME NEW a \in Nat, NEW c \in Nat \ {0}
    PROVE  /\ a \div c \in Nat
           /\ c * (a \div c) <= a
           /\ a < c * (a \div c) + c
  BY SMT

LEMMA Products ==
    ASSUME NEW a \in Nat, NEW b \in Nat, NEW c \in Nat
    PROVE  /\ a * c \in Nat /\ c * a \in Nat
           /\ a <= b => a * c <= b * c /\ c * a <= c * b
           /\ a < b /\ c > 0 => a * c < b * c /\ c * a < c * b
           /\ a > 0 /\ c > 0 => a * c > 0
  BY SMT

\* Success rates stay between 0 and 1, and 0.9 is where the penalty sets in.
LEMMA SuccessRateFacts ==
    ASSUME NEW stats \in Stats
    PROVE  /\ SuccessRate(stats) \in 0..Grain
           /\ stats.usage > 0 =>
                (10 * stats.failures > Calls(stats) <=> 10 * SuccessRate(stats) < 9 * Grain)
<1>1. PICK h \in Nat \ {0} : Grain = 10 * h
    <2>1. Grain \in Nat \ {0} /\ Grain = 10 * (Grain \div 10) /\ Grain \div 10 \in Nat \ {0}
        BY GrainAssumption
    <2> QED  BY <2>1
<1> DEFINE u == stats.usage
           c == Calls(stats)
           q == SuccessRate(stats)
<1>2. u \in Nat /\ stats.failures \in Nat /\ c = u + stats.failures /\ c \in Nat
    BY DEF Stats, Calls
<1>3. CASE c = 0
    <2>1. q = (95 * Grain) \div 100 /\ u = 0
        BY <1>2, <1>3 DEF SuccessRate
    <2> QED  BY <1>1, <2>1
<1>4. CASE c # 0
    <2>1. q = (Grain * u) \div c
        BY <1>4 DEF SuccessRate
    <2>2. Grain * u \in Nat
        BY <1>1, <1>2
    <2>3. q \in Nat /\ c * q <= Grain * u /\ Grain * u < c * q + c
        BY <1>2, <1>4, <2>1, <2>2, DivFacts
    <2> HIDE DEF u, c, q
    <2>4. q <= Grain
        <3>1. Grain * u <= Grain * c
            BY <1>1, <1>2, Products
        <3>2. Grain * c \in Nat /\ c * q \in Nat /\ Grain * c = c * Grain
            BY <1>1, <1>2, <2>3
        <3>3. c * q <= c * Grain
            BY <2>2, <2>3, <3>1, <3>2
        <3>4. Grain < q => c * Grain < c * q
            BY <1>1, <1>2, <1>4, <2>3, Products
        <3> QED  BY <1>1, <2>3, <3>2, <3>3, <3>4
    <2>5. Grain * u = h * (10 * u)
        BY <1>1, <1>2
    <2>6. ASSUME 10 * u < 9 * c
          PROVE  q < 9 * h
        <3>1. h * (10 * u) < h * (9 * c)
            BY <1>1, <1>2, <2>6, Products
        <3>2. h * (9 * c) = c * (9 * h) /\ c * (9 * h) \in Nat /\ c * q \in Nat
            BY <1>1, <1>2, <2>3
        <3>3. c * q < c * (9 * h)
            BY <2>2, <2>3, <2>5, <3>1, <3>2
        <3>4. 9 * h <= q => c * (9 * h) <= c * q
            BY <1>1, <1>2, <2>3, Products
        <3> QED  BY <1>1, <2>3, <3>2, <3>3, <3>4
    <2>7. ASSUME 10 * u >= 9 * c
          PROVE  q >= 9 * h
        <3>1. h * (9 * c) <= h * (10 * u)
            BY <1>1, <1>2, <2>7, Products
        <3>2. h * (9 * c) = c * (9 * h) /\ c * (9 * h) \in Nat /\ c * q \in Nat
              /\ c * (q + 1) = c * q + c
            BY <1>1, <1>2, <2>3
        <3>3. c * (9 * h) < c * (q + 1)
            BY <1>2, <2>2, <2>3, <2>5, <3>1, <3>2
        <3>4. q + 1 <= 9 * h => c * (q + 1) <= c * (9 * h)
            <4>1. q + 1 \in Nat /\ 9 * h \in Nat
                BY <1>1, <2>3
            <4> QED  BY <1>2, <4>1, Products
        <3> QED  BY <1>1, <1>2, <2>3, <3>2, <3>3, <3>4
    <2>8. 10 * stats.failures > c <=> 10 * u < 9 * c
        BY <1>2
    <2> QED  BY <1>1, <1>2, <2>3, <2>4, <2>6, <2>7, <2>8 DEF u, c, q
<1> QED
    BY <1>3, <1>4

\* Reliability as a score, and what the success rate does to it.
LEMMA ReliabilityFacts ==
    ASSUME NEW stats \in Stats
    PROVE  /\ Reliability(stats) \in 0..(200 * Grain * Grain)
           /\ FailurePenalty(stats) \in Grain..(2 * Grain)
           /\ 2 * HealthScore(stats.health) + CapacityScore(stats.capacity) \in 0..30
<1>1. Grain \in Nat \ {0}
    BY GrainAssumption
<1> DEFINE q == SuccessRate(stats)
           b == 2 * HealthScore(stats.health) + CapacityScore(stats.capacity)
           p == FailurePenalty(stats)
<1>2. q \in 0..Grain
    BY SuccessRateFacts
<1>3. b \in 0..30
    <2>1. HealthScore(stats.health) \in 0..10
        BY DEF Stats, HealthScore
    <2>2. CapacityScore(stats.capacity) \in 0..10
        BY DEF Stats, Capacities, CapacityScore
    <2> QED  BY <2>1, <2>2
<1>4. p \in Grain..(2 * Grain)
    BY <1>1, <1>2 DEF FailurePenalty
<1>5. Reliability(stats) = (70 * q + Grain * b) * p
    BY DEF Reliability
<1> HIDE DEF q, b, p
<1>6. Grain * b <= Grain * 30 /\ Grain * b \in Nat
    BY <1>1, <1>3, Products
<1> DEFINE w == 70 * q + Grain * b
<1>7. w \in Nat /\ w <= 100 * Grain
    BY <1>1, <1>2, <1>6
<1> HIDE DEF w
<1>8. w * p <= w * (2 * Grain) /\ w * (2 * Grain) <= (100 * Grain) * (2 * Grain) /\ w * p \in Nat
    BY <1>1, <1>4, <1>7, Products
<1>9. (100 * Grain) * (2 * Grain) = 200 * Grain * Grain
    BY <1>1
<1>10. Reliability(stats) = w * p
    BY <1>5 DEF w
<1>11. Reliability(stats) \in Nat /\ 200 * Grain * Grain \in Nat /\ Reliability(stats) <= 200 * Grain * Grain
    <2>1. w * (2 * Grain) \in Nat
        BY <1>1, <1>7
    <2> QED  BY <1>1, <1>8, <1>9, <1>10, <2>1
<1> QED
    BY <1>3, <1>4, <1>11 DEF b, p

\* Of two used keys in the same state and with the same quota, the one with the
\* higher success rate is the more reliable, penalty included.
LEMMA ReliabilityGrows ==
    ASSUME NEW j \in Stats, NEW k \in Stats, j.usage > 0, k.usage > 0,
           j.health = k.health, j.capacity = k.capacity
    PROVE  /\ SuccessRate(j) >= SuccessRate(k) => Reliability(j) >= Reliability(k)
           /\ SuccessRate(j) > SuccessRate(k) => Reliability(j) > Reliability(k)
<1>1. Grain \in Nat \ {0}
    BY GrainAssumption
<1> DEFINE b == 2 * HealthScore(k.health) + CapacityScore(k.capacity)
           pj == FailurePenalty(j)
           pk == FailurePenalty(k)
           qj == SuccessRate(j)
           qk == SuccessRate(k)
<1>2. qj \in 0..Grain /\ qk \in 0..Grain /\ b \in 0..30
      /\ pj \in Grain..(2 * Grain) /\ pk \in Grain..(2 * Grain)
    BY SuccessRateFacts, ReliabilityFacts
<1>3. qj >= qk => pj >= pk
    <2>1. pj = IF 10 * qj < 9 * Grain THEN Grain + qj ELSE 2 * Grain
        BY SuccessRateFacts DEF FailurePenalty
    <2>2. pk = IF 10 * qk < 9 * Grain THEN Grain + qk ELSE 2 * Grain
        BY SuccessRateFacts DEF FailurePenalty
    <2> HIDE DEF pj, pk, qj, qk
    <2> QED  BY <1>1, <1>2, <2>1, <2>2
<1> DEFINE wj == 70 * qj + Grain * b
           wk == 70 * qk + Grain * b
<1>4. Reliability(j) = wj * pj /\ Reliability(k) = wk * pk
    BY DEF Reliability
<1> HIDE DEF pj, pk, qj, qk, b
<1>5. Grain * b \in Nat
    BY <1>1, <1>2
<1>6. wj \in Nat /\ wk \in Nat /\ (qj >= qk => wj >= wk) /\ (qj > qk => wj > wk)
    BY <1>2, <1>5
<1> HIDE DEF wj, wk
<1>7. ASSUME qj >= qk
      PROVE  wk * pk <= wj * pk /\ wj * pk <= wj * pj /\ (qj > qk => wk * pk < wj * pk)
    BY <1>1, <1>2, <1>3, <1>6, <1>7, Products
<1>8. wk * pk \in Nat /\ wj * pk \in Nat /\ wj * pj \in Nat
    BY <1>1, <1>2, <1>6
<1> QED
    BY <1>2, <1>4, <1>7, <1>8 DEF qj, qk


\* A score that is better for the keys that are no worse.
Agrees(s, keys, criterion) ==
    /\ Scored(s, keys)
    /\ \A j, k \in keys :
        /\ board[j].capacity = board[k].capacity
        /\ NoWorse(j, k, criterion)
        => /\ s.of[k] <= s.of[j]
           /\ ~NoWorse(k, j, criterion) => s.of[k] < s.of[j]

\* Each criterion prefers the keys that are better by it.
LEMMA ScoresAgree ==
    ASSUME board \in [Keys -> Stats], NEW keys \in SUBSET Keys, keys # {},
           NEW criterion \in Criteria
    PROVE  Agrees(Scores(board, keys, criterion), keys, criterion)
<1>1. IsFiniteSet(keys)
    BY InOrderFacts
<1>2. \A k \in keys : board[k] \in Stats
    OBVIOUS
<1>3. CASE criterion = "cost"
    <2> DEFINE amount == [k \in keys |-> board[k].cost]
    <2>1. amount \in [keys -> Nat] /\ \A k \in keys : amount[k] = board[k].cost
        BY <1>2 DEF Stats
    <2>2. Scores(board, keys, criterion) = LeastFirst(amount, keys)
        BY <1>3 DEF Scores, CostScores
    <2>3. \A j, k \in keys : NoWorse(j, k, criterion) <=> amount[j] <= amount[k]
        BY <1>3 DEF NoWorse
    <2> HIDE DEF amount
    <2>4. \A j, k \in keys : ~ (amount[k] <= amount[j]) => amount[j] < amount[k]
        BY <2>1
    <2> QED
        BY <1>1, <2>1, <2>2, <2>3, <2>4, LeastFirstFacts DEF Agrees
<1>4. CASE criterion = "fairness"
    <2> DEFINE amount == [k \in keys |-> board[k].usage]
    <2>1. amount \in [keys -> Nat] /\ \A k \in keys : amount[k] = board[k].usage
        BY <1>2 DEF Stats
    <2>2. Scores(board, keys, criterion) = LeastFirst(amount, keys)
        BY <1>4 DEF Scores, FairnessScores
    <2>3. \A j, k \in keys : NoWorse(j, k, criterion) <=> amount[j] <= amount[k]
        BY <1>4 DEF NoWorse
    <2> HIDE DEF amount
    <2>4. \A j, k \in keys : ~ (amount[k] <= amount[j]) => amount[j] < amount[k]
        BY <2>1
    <2> QED
        BY <1>1, <2>1, <2>2, <2>3, <2>4, LeastFirstFacts DEF Agrees
<1>5. CASE criterion = "reliability"
    <2> DEFINE raw == [of |-> [k \in keys |-> Reliability(board[k])], one |-> 200 * Grain * Grain]
    <2>1. Scores(board, keys, criterion) = Stretched(raw, keys)
        BY <1>5 DEF Scores, ReliabilityScores
    <2>2. \A k \in keys : Reliability(board[k]) \in Nat /\ Reliability(board[k]) <= 200 * Grain * Grain
        <3>1. Grain \in Nat
            BY GrainAssumption
        <3>2. 200 * Grain * Grain \in Nat
            BY <3>1
        <3> QED  BY <1>2, <3>2, ReliabilityFacts
    <2>3. 200 * Grain * Grain \in Nat \ {0}
        BY GrainAssumption, Products
    <2>4. \A k \in keys : raw.of[k] = Reliability(board[k])
        OBVIOUS
    <2>5. Scored(raw, keys)
        BY <2>2, <2>3 DEF Scored
    <2> HIDE DEF raw
    <2>6. ASSUME NEW j \in keys, NEW k \in keys, board[j].capacity = board[k].capacity,
                 NoWorse(j, k, criterion)
          PROVE  /\ raw.of[k] <= raw.of[j]
                 /\ ~NoWorse(k, j, criterion) => raw.of[k] < raw.of[j]
        <3>1. /\ board[j].usage > 0 /\ board[k].usage > 0
              /\ board[j].health = board[k].health
              /\ SuccessRate(board[j]) >= SuccessRate(board[k])
            BY <1>5, <2>6 DEF NoWorse
        <3>2. SuccessRate(board[j]) \in Nat /\ SuccessRate(board[k]) \in Nat
            BY <1>2, SuccessRateFacts, GrainAssumption
        <3>3. ~NoWorse(k, j, criterion) => SuccessRate(board[j]) > SuccessRate(board[k])
            BY <1>5, <3>1, <3>2 DEF NoWorse
        <3> QED
            BY <1>2, <2>2, <2>4, <2>6, <3>1, <3>3, ReliabilityGrows
    <2> QED
        BY <1>1, <2>1, <2>5, <2>6, StretchedFacts DEF Agrees
<1> QED
    BY <1>3, <1>4, <1>5 DEF Criteria

\* A term of the weighted sum.
LEMMA WeightedTerm ==
    ASSUME NEW w \in Nat, NEW x \in Nat, NEW y \in Nat, NEW z \in Nat \ {0}
    PROVE  /\ w * (x * z) \in Nat
           /\ x <= y => w * (x * z) <= w * (y * z)
           /\ w > 0 /\ x < y => w * (x * z) < w * (y * z)
<1>1. x * z \in Nat /\ y * z \in Nat /\ (x <= y => x * z <= y * z) /\ (x < y => x * z < y * z)
    BY Products
<1> QED
    BY <1>1, Products

\* What evaluate_keys returns is a score, and respects every criterion that
\* counts.
LEMMA EvaluateAgrees ==
    ASSUME board \in [Keys -> Stats], NEW keys \in SUBSET Keys, keys # {},
           NEW objective \in Objectives
    PROVE  LET s == Evaluate(board, keys, objective)
           IN  /\ Scored(s, keys)
               /\ \A j, k \in keys :
                    /\ board[j].capacity = board[k].capacity
                    /\ \A c \in Considered(objective) : NoWorse(j, k, c)
                    /\ \E c \in Considered(objective) : ~NoWorse(k, j, c)
                    => s.of[k] < s.of[j]
<1>1. IsFiniteSet(keys)
    BY InOrderFacts
<1>2. CASE objective.weights = <<>>
    <2>1. objective.primary \in Criteria
        BY SelectionAssumption
    <2>2. Evaluate(board, keys, objective) = Scores(board, keys, objective.primary)
        BY <1>2 DEF Evaluate
    <2>3. Considered(objective) = {objective.primary}
        BY <1>2 DEF Considered
    <2> QED  BY <2>1, <2>2, <2>3, ScoresAgree DEF Agrees
<1>3. CASE objective.weights # <<>>
    <2> DEFINE given == objective.weights
               Score(c) == IF c \in DOMAIN given THEN Scores(board, keys, c) ELSE Equal(keys)
               Weight(c) == IF c \in DOMAIN given THEN Weights(given)[c] ELSE 0
               cost == Score("cost")
               reliability == Score("reliability")
               fairness == Score("fairness")
               Total(x, y, z) == Weight("cost") * (x * (reliability.one * fairness.one))
                                 + Weight("reliability") * (y * (cost.one * fairness.one))
                                 + Weight("fairness") * (z * (cost.one * reliability.one))
               raw == [of |-> [k \in keys |-> Total(cost.of[k], reliability.of[k], fairness.of[k])],
                       one |-> Total(cost.one, reliability.one, fairness.one)]
    <2>1. Evaluate(board, keys, objective) = Stretched(raw, keys)
        BY <1>3 DEF Evaluate, Composite
    <2>2. /\ DOMAIN given \subseteq Criteria /\ DOMAIN given # {}
          /\ given \in [DOMAIN given -> Nat]
        <3>1. DOMAIN given \subseteq Criteria /\ given \in [DOMAIN given -> Nat]
            BY SelectionAssumption
        <3>2. ASSUME DOMAIN given = {}
              PROVE  FALSE
            <4>1. given \in [{} -> Nat]
                BY <3>1, <3>2
            <4>2. <<>> \in [{} -> Nat]
                OBVIOUS
            <4>3. given = <<>>
                <5> HIDE DEF given
                <5> QED  BY <4>1, <4>2
            <4> QED  BY <1>3, <4>3
        <3> QED  BY <3>1, <3>2
    <2>3. Weights(given) \in [DOMAIN given -> Nat] /\ \E c \in DOMAIN given : Weights(given)[c] > 0
        <3> HIDE DEF given
        <3> QED  BY <2>2 DEF Weights
    <2>4. ASSUME NEW c \in Criteria
          PROVE  /\ Weight(c) \in Nat
                 /\ Scored(Score(c), keys)
                 /\ Weight(c) > 0 <=> c \in Considered(objective)
                 /\ Weight(c) > 0 => Agrees(Score(c), keys, c)
        <3>1. Scored(Equal(keys), keys)
            BY DEF Scored, Equal
        <3>2. Agrees(Scores(board, keys, c), keys, c) /\ Scored(Scores(board, keys, c), keys)
            BY ScoresAgree DEF Agrees
        <3>3. c \in Considered(objective) <=> c \in DOMAIN given /\ Weights(given)[c] > 0
            BY <1>3 DEF Considered
        <3> HIDE DEF given
        <3> QED  BY <2>3, <3>1, <3>2, <3>3
    <2>5. \E c \in Criteria : Weight(c) > 0
        <3> HIDE DEF given
        <3> QED  BY <2>2, <2>3
    <2> HIDE DEF given, Score, Weight, cost, reliability, fairness
    <2>6. /\ Scored(cost, keys) /\ Scored(reliability, keys) /\ Scored(fairness, keys)
          /\ Weight("cost") \in Nat /\ Weight("reliability") \in Nat /\ Weight("fairness") \in Nat
          /\ Weight("cost") > 0 \/ Weight("reliability") > 0 \/ Weight("fairness") > 0
          /\ Weight("cost") > 0 => Agrees(cost, keys, "cost")
          /\ Weight("reliability") > 0 => Agrees(reliability, keys, "reliability")
          /\ Weight("fairness") > 0 => Agrees(fairness, keys, "fairness")
        BY <2>4, <2>5 DEF Criteria, cost, reliability, fairness
    <2> DEFINE zc == reliability.one * fairness.one
               zr == cost.one * fairness.one
               zf == cost.one * reliability.one
    <2>7. /\ cost.one \in Nat \ {0} /\ reliability.one \in Nat \ {0} /\ fairness.one \in Nat \ {0}
          /\ zc \in Nat \ {0} /\ zr \in Nat \ {0} /\ zf \in Nat \ {0}
        BY <2>6, Products DEF Scored
    <2>8. \A k \in keys :
            /\ cost.of[k] \in Nat /\ cost.of[k] <= cost.one
            /\ reliability.of[k] \in Nat /\ reliability.of[k] <= reliability.one
            /\ fairness.of[k] \in Nat /\ fairness.of[k] <= fairness.one
        BY <2>6 DEF Scored
    <2>9. \A x, y, z : Total(x, y, z) = Weight("cost") * (x * zc) + Weight("reliability") * (y * zr)
                                        + Weight("fairness") * (z * zf)
        OBVIOUS
    <2> HIDE DEF Total, zc, zr, zf
    <2>10. ASSUME NEW x \in Nat, NEW y \in Nat, NEW z \in Nat,
                  NEW x1 \in Nat, NEW y1 \in Nat, NEW z1 \in Nat,
                  Weight("cost") > 0 => x <= x1,
                  Weight("reliability") > 0 => y <= y1,
                  Weight("fairness") > 0 => z <= z1
           PROVE  /\ Total(x, y, z) \in Nat
                  /\ Total(x, y, z) <= Total(x1, y1, z1)
                  /\ \/ Weight("cost") > 0 /\ x < x1
                     \/ Weight("reliability") > 0 /\ y < y1
                     \/ Weight("fairness") > 0 /\ z < z1
                     => Total(x, y, z) < Total(x1, y1, z1)
        <3>1. ASSUME NEW w \in Nat, NEW a \in Nat, NEW b \in Nat, NEW c \in Nat \ {0}, w > 0 => a <= b
              PROVE  /\ w * (a * c) \in Nat /\ w * (b * c) \in Nat
                     /\ w * (a * c) <= w * (b * c)
                     /\ w > 0 /\ a < b => w * (a * c) < w * (b * c)
            <4>1. CASE w = 0
                BY <4>1, Products
            <4>2. CASE w > 0
                BY <3>1, <4>2, WeightedTerm
            <4> QED  BY <4>1, <4>2
        <3> DEFINE tc == Weight("cost") * (x * zc)
                   tr == Weight("reliability") * (y * zr)
                   tf == Weight("fairness") * (z * zf)
                   tc1 == Weight("cost") * (x1 * zc)
                   tr1 == Weight("reliability") * (y1 * zr)
                   tf1 == Weight("fairness") * (z1 * zf)
        <3>2. /\ tc \in Nat /\ tc1 \in Nat /\ tc <= tc1
              /\ Weight("cost") > 0 /\ x < x1 => tc < tc1
            BY <2>6, <2>7, <2>10, <3>1
        <3>3. /\ tr \in Nat /\ tr1 \in Nat /\ tr <= tr1
              /\ Weight("reliability") > 0 /\ y < y1 => tr < tr1
            BY <2>6, <2>7, <2>10, <3>1
        <3>4. /\ tf \in Nat /\ tf1 \in Nat /\ tf <= tf1
              /\ Weight("fairness") > 0 /\ z < z1 => tf < tf1
            BY <2>6, <2>7, <2>10, <3>1
        <3>5. Total(x, y, z) = tc + tr + tf /\ Total(x1, y1, z1) = tc1 + tr1 + tf1
            BY <2>9
        <3> HIDE DEF tc, tr, tf, tc1, tr1, tf1
        <3> QED  BY <3>2, <3>3, <3>4, <3>5
    <2>11. \A k \in keys : raw.of[k] = Total(cost.of[k], reliability.of[k], fairness.of[k])
        OBVIOUS
    <2>12. Scored(raw, keys)
        <3>1. ASSUME NEW k \in keys
              PROVE  Total(cost.of[k], reliability.of[k], fairness.of[k]) \in Nat
                     /\ raw.of[k] <= raw.one
            BY <2>7, <2>8, <2>10, <2>11
        <3>2. Total(0, 0, 0) \in Nat /\ Total(0, 0, 0) < raw.one /\ raw.one \in Nat
            <4>1. raw.one = Total(cost.one, reliability.one, fairness.one)
                OBVIOUS
            <4> HIDE DEF raw
            <4>2. 0 \in Nat /\ 0 < cost.one /\ 0 < reliability.one /\ 0 < fairness.one
                BY <2>7
            <4> DEFINE a == cost.one
                       b == reliability.one
                       c == fairness.one
            <4>3. a \in Nat /\ b \in Nat /\ c \in Nat /\ 0 < a /\ 0 < b /\ 0 < c
                  /\ 0 <= a /\ 0 <= b /\ 0 <= c /\ a <= a /\ b <= b /\ c <= c
                BY <2>7
            <4> HIDE DEF a, b, c
            <4>4. Total(0, 0, 0) \in Nat /\ Total(0, 0, 0) < Total(a, b, c)
                BY <2>6, <2>10, <4>2, <4>3
            <4>5. Total(a, b, c) \in Nat
                BY <2>10, <4>3
            <4> QED  BY <4>1, <4>4, <4>5 DEF a, b, c
        <3>3. raw.of \in [keys -> Nat]
            BY <3>1
        <3> HIDE DEF raw
        <3> QED  BY <3>1, <3>2, <3>3 DEF Scored
    <2>13. ASSUME NEW j \in keys, NEW k \in keys,
                  board[j].capacity = board[k].capacity,
                  \A c \in Considered(objective) : NoWorse(j, k, c),
                  \E c \in Considered(objective) : ~NoWorse(k, j, c)
           PROVE  raw.of[k] < raw.of[j]
        <3>1. /\ Weight("cost") > 0 => cost.of[k] <= cost.of[j]
              /\ Weight("reliability") > 0 => reliability.of[k] <= reliability.of[j]
              /\ Weight("fairness") > 0 => fairness.of[k] <= fairness.of[j]
            BY <2>4, <2>6, <2>13 DEF Agrees, Criteria
        <3>2. \/ Weight("cost") > 0 /\ cost.of[k] < cost.of[j]
              \/ Weight("reliability") > 0 /\ reliability.of[k] < reliability.of[j]
              \/ Weight("fairness") > 0 /\ fairness.of[k] < fairness.of[j]
            <4>1. PICK c \in Considered(objective) : ~NoWorse(k, j, c)
                BY <2>13
            <4>2. c \in Criteria
                BY <1>3, <2>2, <4>1 DEF Considered, given
            <4>3. Weight(c) > 0 /\ NoWorse(j, k, c)
                BY <2>4, <2>13, <4>1, <4>2
            <4> QED  BY <2>6, <2>13, <4>1, <4>2, <4>3 DEF Agrees, Criteria
        <3> HIDE DEF raw
        <3>3. Total(cost.of[k], reliability.of[k], fairness.of[k])
                < Total(cost.of[j], reliability.of[j], fairness.of[j])
            BY <2>8, <2>10, <3>1, <3>2
        <3> QED  BY <2>11, <3>3
    <2> HIDE DEF raw
    <2> QED
        BY <1>1, <2>1, <2>12, <2>13, StretchedFacts
<1> QED
    BY <1>2, <1>3


\* Min of two numbers, as the cut-off at 1.0 uses it.
LEMMA MinOfTwo ==
    ASSUME NEW a \in Nat, NEW b \in Nat
    PROVE  Min({a, b}) = IF a <= b THEN a ELSE b
<1> DEFINE m == IF a <= b THEN a ELSE b
<1>1. m \in {a, b} /\ \A y \in {a, b} : m <= y
    OBVIOUS
<1>2. \A x \in {a, b} : (\A y \in {a, b} : x <= y) => x = m
    OBVIOUS
<1> HIDE DEF m
<1>3. Min({a, b}) = m
    BY <1>1, <1>2 DEF Min
<1> QED
    BY <1>3 DEF m

\* The factors neither remove a score nor raise it by more than a fifth.
LEMMA FactorFacts ==
    ASSUME NEW stats \in Stats
    PROVE  Factor(stats) \in 1..240
<1>1. stats.soft \in BOOLEAN /\ stats.capacity \in Capacities
    BY DEF Stats
<1> QED
    BY <1>1 DEF Factor, Capacities

\* There is a best key; and one whose factor is no better than another's scores
\* no less than it, unless the cut-off at 1.0 made both the same.
LEMMA BestFacts ==
    ASSUME board \in [Keys -> Stats], NEW keys \in SUBSET Keys, keys # {},
           NEW objective \in Objectives
    PROVE  LET s == Evaluate(board, keys, objective)
               best == Best(board, keys, objective)
           IN  /\ best \in SUBSET keys /\ best # {}
               /\ \A k \in best, j \in keys :
                    /\ Factor(board[k]) <= Factor(board[j])
                        => s.of[j] <= s.of[k] \/ 5 * s.one <= 6 * s.of[k]
                    /\ Factor(board[k]) = Factor(board[j]) /\ Factor(board[k]) <= 200
                        => s.of[j] <= s.of[k]
<1> DEFINE s == Evaluate(board, keys, objective)
           best == Best(board, keys, objective)
           final == Adjusted(board, keys, s)
           F(k) == Factor(board[k])
<1>1. /\ s.one \in Nat \ {0}
      /\ \A k \in keys : s.of[k] \in Nat /\ s.of[k] <= s.one
    BY EvaluateAgrees DEF Scored
<1>2. \A k \in keys : F(k) \in 1..240
    BY FactorFacts
<1>3. best = {k \in keys : \A j \in keys : final[j] <= final[k]}
    BY DEF Best
<1>4. final = [k \in keys |-> Min({s.of[k] * F(k), 200 * s.one})]
    BY DEF Adjusted
<1> HIDE DEF s, best, final, F
<1>5. ASSUME NEW k \in keys
      PROVE  /\ s.of[k] * F(k) \in Nat
             /\ final[k] = IF s.of[k] * F(k) <= 200 * s.one THEN s.of[k] * F(k) ELSE 200 * s.one
             /\ final[k] \in Nat
    <2>1. s.of[k] * F(k) \in Nat /\ 200 * s.one \in Nat
        BY <1>1, <1>2, Products
    <2>2. final[k] = Min({s.of[k] * F(k), 200 * s.one})
        BY <1>4
    <2> QED
        BY <2>1, <2>2, MinOfTwo
<1>6. best # {}
    <2>1. final \in [keys -> Nat]
        BY <1>4, <1>5
    <2>2. IsFiniteSet(keys)
        BY InOrderFacts
    <2> DEFINE all == {final[k] : k \in keys}
    <2>3. \A v : v \in all <=> \E k \in keys : v = final[k]
        OBVIOUS
    <2> HIDE DEF all
    <2>4. /\ \A k \in keys : final[k] <= Max(all)
          /\ \E k \in keys : Max(all) = final[k]
        BY <2>1, <2>2, <2>3, Extremes
    <2> QED
        BY <1>3, <2>4
<1>7. ASSUME NEW k \in best, NEW j \in keys
      PROVE  /\ F(k) <= F(j) => s.of[j] <= s.of[k] \/ 5 * s.one <= 6 * s.of[k]
             /\ F(k) = F(j) /\ F(k) <= 200 => s.of[j] <= s.of[k]
    <2>1. k \in keys /\ final[j] <= final[k]
        BY <1>3
    <2> DEFINE a == s.of[j]
               b == s.of[k]
               f == F(j)
               g == F(k)
    <2>2. a \in Nat /\ b \in Nat /\ a <= s.one /\ b <= s.one /\ f \in 1..240 /\ g \in 1..240
        BY <1>1, <1>2, <2>1
    <2>3. /\ final[j] = IF a * f <= 200 * s.one THEN a * f ELSE 200 * s.one
          /\ final[k] = IF b * g <= 200 * s.one THEN b * g ELSE 200 * s.one
          /\ a * f \in Nat /\ b * g \in Nat
        BY <1>5, <2>1
    <2> HIDE DEF a, b, f, g
    <2>4. /\ b * g <= b * 240 /\ b * f \in Nat
          /\ g <= f => b * g <= b * f
          /\ g <= 200 => b * g <= b * 200
          /\ f <= 200 => a * f <= a * 200
          /\ b < a => b * f < a * f
        BY <2>2, Products
    <2>5. (IF a * f <= 200 * s.one THEN a * f ELSE 200 * s.one) <= b * g
        BY <1>1, <2>1, <2>3, <2>4
    <2>6. CASE a * f <= 200 * s.one
        <3> DEFINE af == a * f
                   bf == b * f
                   bg == b * g
        <3>2. af <= bg /\ af \in Nat /\ bf \in Nat /\ bg \in Nat /\ (g <= f => bg <= bf) /\ (b < a => bf < af)
            BY <2>3, <2>4, <2>5, <2>6
        <3> HIDE DEF af, bf, bg
        <3>1. g <= f => ~ (b < a)
            BY <2>2, <3>2
        <3> QED  BY <2>2, <3>1 DEF a, b, f, g
    <2>7. CASE ~ (a * f <= 200 * s.one)
        <3>1. 200 * s.one <= b * 240
            BY <1>1, <2>2, <2>3, <2>4, <2>5, <2>7
        <3>2. 5 * s.one <= 6 * b
            BY <1>1, <2>2, <3>1
        <3>3. ~ (f <= 200)
            BY <1>1, <2>2, <2>3, <2>4, <2>7
        <3> QED  BY <2>2, <3>2, <3>3 DEF a, b, f, g
    <2> QED  BY <2>6, <2>7
<1>8. best \in SUBSET keys
    BY <1>3
<1> QED
    BY <1>6, <1>7, <1>8 DEF s, best, F


\* The candidates are keys, each listed once.
LEMMA CandidatesFacts ==
    /\ Candidates \in Seq(Keys)
    /\ ToSet(Candidates) \in SUBSET Keys
    /\ IsInjective(Candidates)
    /\ Candidates # <<>> => ToSet(Candidates) # {} /\ Len(Candidates) > 0
<1>1. /\ Candidates \in Seq(Keys) /\ IsInjective(Candidates)
      /\ ToSet(Candidates) \in SUBSET Keys
    <2> DEFINE C == Keys \ (QuotaFiltered \cup ToSet(PolicyFiltered))
    <2>1. C \in SUBSET Keys /\ Candidates = InOrder(C)
        BY DEF Candidates
    <2> HIDE DEF C
    <2> QED  BY <2>1, InOrderFacts
<1>2. ASSUME Candidates # <<>>
      PROVE  ToSet(Candidates) # {} /\ Len(Candidates) > 0
    <2>1. Len(Candidates) \in Nat \ {0} /\ DOMAIN Candidates = 1..Len(Candidates)
        BY <1>1, <1>2, EmptySeq, LenProperties
    <2>2. Candidates[1] \in ToSet(Candidates)
        BY <2>1 DEF ToSet
    <2> QED  BY <2>1, <2>2
<1> QED
    BY <1>1, <1>2

\* The key that is taken has the highest score and, in round-robin, is not the
\* one that the index stands for.
LEMMA SelectedFacts ==
    ASSUME board \in [Keys -> Stats], Candidates # <<>>, NEW objective \in Objectives
    PROVE  LET best == Best(board, ToSet(Candidates), objective)
           IN  /\ Selected(objective) \in best
               /\ Selected(objective) \in ToSet(Candidates) /\ Selected(objective) \in Keys
               /\ /\ objective.primary = "fairness"
                  /\ Cardinality(best) > 1
                  /\ lastIndex \in 1..Len(Candidates)
                  => Selected(objective) # Candidates[lastIndex]
<1> DEFINE best == Best(board, ToSet(Candidates), objective)
           tied == InOrder(best)
           n == Len(tied)
           k == Selected(objective)
<1>1. best \in SUBSET ToSet(Candidates) /\ best \in SUBSET Keys /\ best # {}
    BY CandidatesFacts, BestFacts
<1>2. k = IF objective.primary = "fairness" /\ n > 1 THEN AfterLast(tied) ELSE tied[1]
    BY DEF Selected
<1> HIDE DEF best, k
<1>3. /\ tied \in Seq(Keys) /\ ToSet(tied) = best /\ IsInjective(tied)
      /\ n = Cardinality(best)
    BY <1>1, InOrderFacts
<1> HIDE DEF tied
<1>4. n \in Nat \ {0} /\ DOMAIN tied = 1..n
    <2>1. n \in Nat /\ DOMAIN tied = 1..n
        BY <1>3, LenProperties
    <2>2. n # 0
        BY <1>1, <1>3, <2>1 DEF ToSet
    <2> QED  BY <2>1, <2>2
<1>5. \A i \in 1..n : tied[i] \in best
    BY <1>3, <1>4 DEF ToSet
<1>6. CASE ~ (objective.primary = "fairness" /\ n > 1)
    <2>1. k = tied[1] /\ 1 \in 1..n
        BY <1>2, <1>4, <1>6
    <2>2. k \in best
        BY <1>5, <2>1
    <2> HIDE DEF n
    <2> QED  BY <1>1, <1>3, <1>6, <2>2 DEF best, k
<1>7. CASE objective.primary = "fairness" /\ n > 1
    <2> DEFINE there == lastIndex \in 1..Len(Candidates) /\ Contains(tied, Candidates[lastIndex])
               position == IF there THEN CHOOSE i \in 1..n : tied[i] = Candidates[lastIndex]
                           ELSE 0
    <2>1. k = tied[(position % n) + 1]
        BY <1>2, <1>7 DEF AfterLast
    <2>2. there => position \in 1..n /\ tied[position] = Candidates[lastIndex]
        <3>1. there => \E i \in 1..n : tied[i] = Candidates[lastIndex]
            BY DEF Contains
        <3> QED  BY <3>1
    <2>3. ~there => position = 0
        OBVIOUS
    <2>4. there <=> lastIndex \in 1..Len(Candidates) /\ \E i \in 1..n : tied[i] = Candidates[lastIndex]
        BY DEF Contains
    <2> HIDE DEF there, position, n
    <2>5. position \in 0..n
        BY <1>4, <2>2, <2>3
    <2>6. (position % n) + 1 = IF position = n THEN 1 ELSE position + 1
        BY <1>4, <2>5, NextIndex
    <2>7. (position % n) + 1 \in 1..n /\ (position % n) + 1 # position
        BY <1>4, <1>7, <2>5, <2>6
    <2>8. k \in best
        BY <1>5, <2>1, <2>7
    <2>9. ASSUME lastIndex \in 1..Len(Candidates), k = Candidates[lastIndex]
          PROVE  FALSE
        <3>1. there
            BY <2>1, <2>4, <2>7, <2>9
        <3>2. tied[position] = tied[(position % n) + 1] /\ position \in 1..n
            BY <2>1, <2>2, <2>9, <3>1
        <3> QED  BY <1>3, <1>4, <2>7, <3>2 DEF IsInjective
    <2> QED  BY <1>1, <2>8, <2>9 DEF best, k
<1> QED
    BY <1>6, <1>7

\* The keys that policies filter, policy by policy, are keys.
LEMMA PolicyFilteredType == PolicyFiltered \in Seq(Keys)
<1> DEFINE filtered == [i \in DOMAIN Policies |->
                InOrder({k \in Keys \ QuotaFiltered : FilteredByPolicy(Policies[i], board[k])})]
<1>1. \A i \in DOMAIN Policies :
        InOrder({k \in Keys \ QuotaFiltered : FilteredByPolicy(Policies[i], board[k])}) \in Seq(Keys)
    <2>1. SUFFICES ASSUME NEW i \in DOMAIN Policies
                   PROVE  InOrder({k \in Keys \ QuotaFiltered : FilteredByPolicy(Policies[i], board[k])})
                            \in Seq(Keys)
        OBVIOUS
    <2> DEFINE P == {k \in Keys \ QuotaFiltered : FilteredByPolicy(Policies[i], board[k])}
    <2>2. P \in SUBSET Keys
        OBVIOUS
    <2> HIDE DEF P
    <2>3. InOrder(P) \in Seq(Keys)
        BY <2>2, InOrderFacts
    <2> QED  BY <2>3 DEF P
<1>2. DOMAIN Policies = 1..Len(Policies) /\ Len(Policies) \in Nat
    BY SelectionAssumption
<1>3. filtered \in Seq(Seq(Keys))
    BY <1>1, <1>2
<1>4. PolicyFiltered = FlattenSeq(filtered)
    BY DEF PolicyFiltered
<1> HIDE DEF filtered
<1> QED
    BY <1>3, <1>4, FlattenType

\* The list that route tries begins with the selected key and repeats none.
LEMMA AttemptsFacts ==
    ASSUME NEW k \in Keys
    PROVE  /\ Attempts(k) \in Seq(Keys)
           /\ Attempts(k) # <<>>
           /\ Head(Attempts(k)) = k
           /\ Len(Attempts(k)) <= MaxRetries
           /\ IsInjective(Attempts(k))
<1> DEFINE rest == Candidates \o InOrder(QuotaFiltered) \o PolicyFiltered
           firsts == {i \in DOMAIN rest : rest[i] # k /\ \A j \in 1..(i - 1) : rest[j] # rest[i]}
           picked == Picked(rest, firsts)
           list == <<k>> \o picked
           m == Min({Len(list), MaxRetries})
<1>1. rest \in Seq(Keys)
    <2>1. InOrder(QuotaFiltered) \in Seq(Keys)
        BY InOrderFacts DEF QuotaFiltered
    <2> QED  BY <2>1, CandidatesFacts, PolicyFilteredType
<1>2. Attempts(k) = SubSeq(list, 1, m)
    BY DEF Attempts
<1> HIDE DEF rest
<1>3. DOMAIN rest = 1..Len(rest) /\ Len(rest) \in Nat
    BY <1>1
<1>4. firsts \in SUBSET (DOMAIN rest)
    OBVIOUS
<1>5. \A i, j \in firsts : rest[i] = rest[j] => i = j
    <2>1. ASSUME NEW i \in firsts, NEW j \in firsts, i < j, rest[i] = rest[j]
          PROVE  FALSE
        <3>1. i \in 1..(j - 1)
            BY <1>3, <2>1
        <3> QED  BY <2>1, <3>1
    <2>2. ASSUME NEW i \in firsts, NEW j \in firsts
          PROVE  i = j \/ i < j \/ j < i
        BY <1>3
    <2> QED  BY <2>1, <2>2
<1>6. \A i \in firsts : rest[i] # k
    OBVIOUS
<1> HIDE DEF firsts
<1> DEFINE N == Cardinality(firsts)
<1>7. /\ picked \in Seq(Keys) /\ Len(picked) = N /\ N \in Nat
      /\ \E p \in Bijection(1..N, firsts) : picked = [n \in 1..N |-> rest[p[n]]]
    BY <1>1, <1>4, PickedFacts
<1> HIDE DEF picked, N
<1>8. PICK p \in Bijection(1..N, firsts) : picked = [n \in 1..N |-> rest[p[n]]]
    BY <1>7
<1>9. p \in [1..N -> firsts] /\ \A a, b \in 1..N : p[a] = p[b] => a = b
    <2>1. p \in Injection(1..N, firsts)
        BY <1>8 DEF Bijection
    <2>2. p \in [1..N -> firsts] /\ IsInjective(p) /\ DOMAIN p = 1..N
        BY <2>1 DEF Injection
    <2> QED  BY <2>2 DEF IsInjective
<1>10. \A a, b \in 1..N : picked[a] # k /\ (picked[a] = picked[b] => a = b)
    BY <1>5, <1>6, <1>8, <1>9
<1>11. /\ list \in Seq(Keys) /\ Len(list) = N + 1
       /\ \A i \in 1..(N + 1) : list[i] = IF i = 1 THEN k ELSE picked[i - 1]
    BY <1>7
<1>12. m \in 1..Len(list) /\ m <= MaxRetries
    BY <1>7, <1>11, SelectionAssumption, MinOfTwo
<1> HIDE DEF list, m
<1>13. /\ Attempts(k) \in Seq(Keys) /\ Len(Attempts(k)) = m
       /\ \A i \in 1..m : Attempts(k)[i] = list[i]
    <2>1. \A i \in 1..m : list[i] \in Keys
        BY <1>11, <1>12
    <2>2. 1 \in Int /\ m \in Int /\ 1 <= m
        BY <1>11, <1>12
    <2>3. /\ SubSeq(list, 1, m) \in Seq(Keys) /\ Len(SubSeq(list, 1, m)) = m - 1 + 1
          /\ \A i \in 1..(m - 1 + 1) : SubSeq(list, 1, m)[i] = list[1 + i - 1]
        BY <2>1, <2>2, SubSeqProperties
    <2> QED  BY <1>2, <2>2, <2>3
<1>14. IsInjective(Attempts(k))
    <2>1. ASSUME NEW a \in 1..m, NEW b \in 1..m, list[a] = list[b]
          PROVE  a = b
        <3>1. /\ list[a] = IF a = 1 THEN k ELSE picked[a - 1]
              /\ list[b] = IF b = 1 THEN k ELSE picked[b - 1]
              /\ a # 1 => a - 1 \in 1..N
              /\ b # 1 => b - 1 \in 1..N
            BY <1>7, <1>11, <1>12
        <3>2. a # 1 /\ b # 1 => a - 1 = b - 1
            BY <1>10, <2>1, <3>1
        <3>3. a = 1 <=> b = 1
            BY <1>10, <2>1, <3>1
        <3>4. a \in Int /\ b \in Int
            BY <1>7, <1>11, <1>12
        <3> QED  BY <3>2, <3>3, <3>4
    <2>2. DOMAIN Attempts(k) = 1..m
        BY <1>13
    <2> QED  BY <1>13, <2>1, <2>2 DEF IsInjective
<1>15. Attempts(k) # <<>> /\ Head(Attempts(k)) = k
    <2>1. 1 \in 1..m /\ 1 \in 1..(N + 1) /\ m # 0
        BY <1>7, <1>11, <1>12
    <2>2. Attempts(k)[1] = k
        BY <1>11, <1>13, <2>1
    <2> QED  BY <1>13, <2>1, <2>2
<1> QED
    BY <1>12, <1>13, <1>14, <1>15


\* No more candidates than keys.
LEMMA CandidatesFit == Len(Candidates) \in Nat /\ Len(Candidates) <= Len(Order)
<1> DEFINE n == Len(Order)
           C == Keys \ (QuotaFiltered \cup ToSet(PolicyFiltered))
<1>1. /\ Order \in [1..n -> Keys] /\ n \in Nat
      /\ \A k \in Keys : \E i \in 1..n : Order[i] = k
    BY SelectionAssumption, LenProperties DEF Keys, ToSet
<1>2. Cardinality(Keys) <= n
    <2> HIDE DEF n
    <2>1. Order \in Surjection(1..n, Keys)
        BY <1>1 DEF Surjection
    <2>2. IsFiniteSet(1..n) /\ Cardinality(1..n) = n
        BY <1>1, FS_Interval
    <2> QED  BY <2>1, <2>2, FS_Surjection
<1>3. C \in SUBSET Keys /\ Candidates = InOrder(C)
    BY DEF Candidates
<1> HIDE DEF C
<1>4. /\ Len(Candidates) = Cardinality(C) /\ Cardinality(C) \in Nat
      /\ IsFiniteSet(Keys) /\ Cardinality(Keys) \in Nat
    BY <1>3, InOrderFacts
<1>5. Cardinality(C) <= Cardinality(Keys)
    BY <1>3, <1>4, FS_Subset
<1> QED
    BY <1>1, <1>2, <1>4, <1>5

\* The index after a decision stands for the key that was taken.
LEMMA IndexOfSelected ==
    ASSUME board \in [Keys -> Stats], NEW r, NEW objective \in Objectives,
           RouteRequest(r, objective)
    PROVE  /\ lastIndex' \in 1..Len(Candidates)
           /\ Candidates[lastIndex'] = Selected(objective)
<1>1. Selected(objective) \in ToSet(Candidates)
    BY SelectedFacts DEF RouteRequest
<1>2. \E i \in 1..Len(Candidates) : Candidates[i] = Selected(objective)
    BY <1>1, CandidatesFacts, LenProperties DEF ToSet
<1>3. lastIndex' = CHOOSE i \in 1..Len(Candidates) : Candidates[i] = Selected(objective)
    BY DEF RouteRequest
<1> QED
    BY <1>2, <1>3

\* The key being called and the keys left after it.
LEMMA HeadServed ==
    ASSUME SLTypeOK, NEW r \in Requests, serving[r] # <<>>
    PROVE  /\ Head(serving[r]) \in Keys
           /\ Tail(serving[r]) \in Seq(Keys)
           /\ Len(Tail(serving[r])) <= MaxRetries
           /\ IsInjective(Tail(serving[r]))
<1>1. /\ serving[r] \in Seq(Keys) /\ Len(serving[r]) <= MaxRetries
      /\ IsInjective(serving[r])
    BY DEF SLTypeOK
<1> DEFINE s == serving[r]
<1> HIDE DEF s
<1>2. s \in Seq(Keys) /\ s # <<>> /\ Len(s) <= MaxRetries /\ IsInjective(s)
    BY <1>1 DEF s
<1>3. /\ Head(s) \in Keys /\ Tail(s) \in Seq(Keys) /\ Len(Tail(s)) = Len(s) - 1
      /\ \A i \in 1..Len(Tail(s)) : Tail(s)[i] = s[i + 1]
      /\ Len(s) \in Nat /\ Len(Tail(s)) \in Nat
      /\ DOMAIN s = 1..Len(s) /\ DOMAIN Tail(s) = 1..Len(Tail(s))
    BY <1>2, HeadTailProperties, LenProperties
<1>4. Len(Tail(s)) <= MaxRetries
    BY <1>2, <1>3, SelectionAssumption
<1>5. \A a, b \in DOMAIN Tail(s) : Tail(s)[a] = Tail(s)[b] => a = b
    <2>1. SUFFICES ASSUME NEW a \in 1..Len(Tail(s)), NEW b \in 1..Len(Tail(s)),
                          Tail(s)[a] = Tail(s)[b]
                   PROVE  a = b
        BY <1>3
    <2>2. a + 1 \in DOMAIN s /\ b + 1 \in DOMAIN s /\ s[a + 1] = s[b + 1]
        BY <1>3, <2>1
    <2>3. a + 1 = b + 1
        BY <1>2, <2>2 DEF IsInjective
    <2> QED  BY <1>3, <2>3
<1> QED
    BY <1>3, <1>4, <1>5 DEF s, IsInjective

\* A request that is over has no key left.
LEMMA EmptyServed == /\ <<>> \in Seq(Keys) /\ Len(<<>>) <= MaxRetries /\ IsInjective(<<>>)
    BY SelectionAssumption DEF IsInjective

\* Counting a call or moving the quota leaves what is known of a key well-formed.
LEMMA CountedStats ==
    ASSUME NEW stats \in Stats, NEW capacity \in Capacities
    PROVE  /\ [stats EXCEPT !.usage = @ + 1] \in Stats
           /\ [stats EXCEPT !.failures = @ + 1] \in Stats
           /\ [stats EXCEPT !.capacity = capacity] \in Stats
    BY DEF Stats

\* Every step keeps the types.
LEMMA SLTypesStep == SLTypeOK /\ [Next]_slVars => SLTypeOK'
<1> SUFFICES ASSUME SLTypeOK, [Next]_slVars
             PROVE  SLTypeOK'
    OBVIOUS
<1>0. /\ board \in [Keys -> Stats] /\ lastIndex \in 0..Len(Order)
      /\ serving \in [Requests -> Seq(Keys)] /\ level \subseteq Keys
      /\ \A r \in Requests : Len(serving[r]) <= MaxRetries /\ IsInjective(serving[r])
    BY DEF SLTypeOK
<1> DEFINE Good(list) == list \in Seq(Keys) /\ Len(list) <= MaxRetries /\ IsInjective(list)
<1>1. ASSUME NEW r \in Requests, NEW list, Good(list), serving' = [serving EXCEPT ![r] = list]
      PROVE  /\ serving' \in [Requests -> Seq(Keys)]
             /\ \A q \in Requests : Len(serving'[q]) <= MaxRetries /\ IsInjective(serving'[q])
    <2>1. \A q \in Requests : serving'[q] = IF q = r THEN list ELSE serving[q]
        BY <1>0, <1>1
    <2> QED  BY <1>0, <1>1, <2>1
<1>2. Good(<<>>)
    BY EmptyServed
<1> HIDE DEF Good
<1>3. ASSUME NEW r \in Requests, NEW objective \in Objectives, RouteRequest(r, objective)
      PROVE  SLTypeOK'
    <2>1. Selected(objective) \in Keys
        BY <1>0, <1>3, SelectedFacts DEF RouteRequest
    <2>2. Good(Attempts(Selected(objective)))
        BY <2>1, AttemptsFacts DEF Good
    <2>3. serving' = [serving EXCEPT ![r] = Attempts(Selected(objective))]
          /\ board' = board /\ level' \subseteq level
        BY <1>3 DEF RouteRequest
    <2>4. lastIndex' \in 0..Len(Order)
        <3>1. lastIndex' \in 1..Len(Candidates)
            BY <1>0, <1>3, IndexOfSelected
        <3>2. Len(Order) \in Nat
            BY SelectionAssumption, LenProperties
        <3> QED  BY <3>1, <3>2, CandidatesFit
    <2> QED  BY <1>0, <1>1, <2>2, <2>3, <2>4 DEF SLTypeOK
<1>4. ASSUME NEW r \in Requests, Succeed(r)
      PROVE  SLTypeOK'
    <2>1. Head(serving[r]) \in Keys
        BY <1>4, HeadServed DEF Succeed
    <2>2. board' \in [Keys -> Stats]
        <3> DEFINE h == Head(serving[r])
        <3>1. board' = [board EXCEPT ![h] = [board[h] EXCEPT !.usage = @ + 1]]
            BY <1>0, <1>4, <2>1 DEF Succeed
        <3>2. [board[h] EXCEPT !.usage = @ + 1] \in Stats
            BY <1>0, <2>1, CountedStats DEF Capacities
        <3> HIDE DEF h
        <3> QED  BY <1>0, <3>1, <3>2
    <2>3. serving' = [serving EXCEPT ![r] = <<>>] /\ lastIndex' = lastIndex /\ level' = level
        BY <1>4 DEF Succeed
    <2> QED  BY <1>0, <1>1, <1>2, <2>2, <2>3 DEF SLTypeOK
<1>5. ASSUME NEW r \in Requests, NEW retryable \in BOOLEAN, Fail(r, retryable)
      PROVE  SLTypeOK'
    <2>1. Head(serving[r]) \in Keys /\ Good(Tail(serving[r]))
        BY <1>5, HeadServed DEF Fail, Good
    <2>2. board' \in [Keys -> Stats]
        <3> DEFINE h == Head(serving[r])
        <3>1. board' = [board EXCEPT ![h] = [board[h] EXCEPT !.failures = @ + 1]]
            BY <1>0, <1>5, <2>1 DEF Fail
        <3>2. [board[h] EXCEPT !.failures = @ + 1] \in Stats
            BY <1>0, <2>1, CountedStats DEF Capacities
        <3> HIDE DEF h
        <3> QED  BY <1>0, <3>1, <3>2
    <2>3. /\ serving' = [serving EXCEPT ![r] = IF retryable THEN Tail(serving[r]) ELSE <<>>]
          /\ lastIndex' = lastIndex /\ level' \subseteq level
        BY <1>0, <1>5 DEF Fail
    <2>4. Good(IF retryable THEN Tail(serving[r]) ELSE <<>>)
        BY <1>2, <2>1
    <2> QED  BY <1>0, <1>1, <2>2, <2>3, <2>4 DEF SLTypeOK
<1>6. ASSUME NEW r \in Requests, Abort(r)
      PROVE  SLTypeOK'
    <2>1. /\ serving' = [serving EXCEPT ![r] = <<>>]
          /\ board' = board /\ lastIndex' = lastIndex /\ level' = level
        BY <1>6 DEF Abort
    <2> QED  BY <1>0, <1>1, <1>2, <2>1 DEF SLTypeOK
<1>7. ASSUME NEW k \in Keys, NEW capacity \in Moves, MoveCapacity(k, capacity)
      PROVE  SLTypeOK'
    <2>1. capacity \in Capacities
        BY SelectionAssumption
    <2>2. board' \in [Keys -> Stats]
        BY <1>0, <1>7, <2>1 DEF MoveCapacity, Stats
    <2> QED  BY <1>0, <1>7, <2>2 DEF MoveCapacity, SLTypeOK
<1>8. CASE UNCHANGED slVars
    BY <1>0, <1>8 DEF slVars, SLTypeOK
<1> QED
    BY <1>3, <1>4, <1>5, <1>6, <1>7, <1>8 DEF Next

\* The first boards have the types.
LEMMA SLTypesInit == Init => SLTypeOK
<1> SUFFICES ASSUME Init
             PROVE  SLTypeOK
    OBVIOUS
<1>1. Len(Order) \in Nat
    BY SelectionAssumption, LenProperties
<1>2. board \in [Keys -> Stats]
    BY SelectionAssumption DEF Init
<1> QED
    BY <1>1, <1>2, EmptyServed DEF Init, SLTypeOK

\* In every run the counters, the index and the lists of the requests keep their
\* types: route tries no key twice and never more than max_retries keys.
THEOREM SelectionTypes == Spec => []SLTypeOK
    BY SLTypesInit, SLTypesStep, PTL DEF Spec


\* Awaited requests are requests; one that is not awaited makes one more.
LEMMA PendingFacts ==
    ASSUME NEW k
    PROVE  /\ IsFiniteSet(Pending(k)) /\ Cardinality(Pending(k)) \in Nat
           /\ \A r \in Requests : r \notin Pending(k) => Cardinality(Pending(k)) + 1 <= Cardinality(Requests)
           /\ Cardinality(Requests) \in Nat
<1>1. Pending(k) \in SUBSET Requests /\ IsFiniteSet(Requests)
    BY SelectionAssumption DEF Pending
<1>2. IsFiniteSet(Pending(k)) /\ Cardinality(Pending(k)) \in Nat /\ Cardinality(Requests) \in Nat
    BY <1>1, FS_Subset, FS_CardinalityType
<1>3. ASSUME NEW r \in Requests, r \notin Pending(k)
      PROVE  Cardinality(Pending(k)) + 1 <= Cardinality(Requests)
    <2> DEFINE more == Pending(k) \cup {r}
    <2>1. Cardinality(more) = Cardinality(Pending(k)) + 1
        BY <1>2, <1>3, FS_AddElement
    <2>2. more \in SUBSET Requests
        BY <1>1
    <2> HIDE DEF more
    <2> QED  BY <1>1, <2>1, <2>2, FS_Subset
<1> QED
    BY <1>2, <1>3

\* What a decision by fairness has to go by: the key that it takes has at most
\* a sixth of the range more on its counter than a key on equal terms.
LEMMA FairlySelected ==
    ASSUME board \in [Keys -> Stats], Candidates # <<>>, NEW objective \in Objectives,
           NEW j \in EqualTerms(objective)
    PROVE  LET k == Selected(objective)
           IN  /\ j \in Keys /\ k \in Keys
               /\ \/ board[k].usage <= board[j].usage
                  \/ \E i \in Keys :
                        6 * (board[k].usage - board[j].usage) <= board[i].usage - board[j].usage
<1> DEFINE k == Selected(objective)
           keys == ToSet(Candidates)
           amount == [i \in keys |-> board[i].usage]
           s == Evaluate(board, keys, objective)
<1>1. /\ objective = [primary |-> "fairness", weights |-> <<>>]
      /\ j \in keys /\ \A i \in keys : Factor(board[i]) <= Factor(board[j])
    BY DEF EqualTerms
<1>2. keys \in SUBSET Keys /\ keys # {}
    BY CandidatesFacts
<1>3. k \in Best(board, keys, objective) /\ k \in keys /\ k \in Keys
    BY SelectedFacts
<1>4. s = LeastFirst(amount, keys)
    BY <1>1 DEF Evaluate, Scores, FairnessScores
<1>5. amount \in [keys -> Nat] /\ \A i \in keys : amount[i] = board[i].usage /\ amount[i] \in Nat
    BY <1>2 DEF Stats
<1>6. IsFiniteSet(keys)
    BY <1>2, InOrderFacts
<1> HIDE DEF k, amount, keys
<1>7. s.of[j] <= s.of[k] \/ 5 * s.one <= 6 * s.of[k]
    BY <1>1, <1>2, <1>3, BestFacts
<1>8. s.of[j] \in Nat /\ s.of[k] \in Nat
    BY <1>1, <1>2, <1>3, EvaluateAgrees DEF Scored
<1> HIDE DEF s
<1>9. /\ amount[j] < amount[k] => s.of[j] > s.of[k]
      /\ 5 * s.one <= 6 * s.of[k] =>
            \E i \in keys : 6 * (amount[k] - amount[j]) <= amount[i] - amount[j]
    BY <1>1, <1>2, <1>3, <1>4, <1>5, <1>6, LeastFirstFacts
<1>10. CASE s.of[j] <= s.of[k]
    <2>1. amount[k] <= amount[j]
        BY <1>1, <1>3, <1>5, <1>8, <1>9, <1>10
    <2> QED  BY <1>1, <1>2, <1>3, <1>5, <2>1 DEF k
<1>11. CASE 5 * s.one <= 6 * s.of[k]
    <2>1. PICK i \in keys : 6 * (amount[k] - amount[j]) <= amount[i] - amount[j]
        BY <1>9, <1>11
    <2> QED  BY <1>1, <1>2, <1>3, <1>5, <2>1 DEF k
<1> QED
    BY <1>7, <1>10, <1>11

\* Every step keeps the shares fair; FairShare is inductive with the types.  A
\* decision adds one awaited request to a key that FairlySelected keeps low; an
\* answer moves one from awaited to counted.
LEMMA FairShareStep == SLTypeOK /\ FairShare /\ [Next]_slVars => FairShare'
<1> SUFFICES ASSUME SLTypeOK, FairShare, [Next]_slVars
             PROVE  FairShare'
    OBVIOUS
<1>0. /\ board \in [Keys -> Stats] /\ serving \in [Requests -> Seq(Keys)] /\ level \subseteq Keys
      /\ \A k \in Keys : board[k] \in Stats /\ board[k].usage \in Nat
    BY DEF SLTypeOK, Stats
<1> DEFINE N == Cardinality(Requests)
           P(k) == Cardinality(Pending(k))
           u(k) == board[k].usage
<1>1. /\ N \in Nat /\ \A k : P(k) \in Nat /\ IsFiniteSet(Pending(k))
      /\ \A k : \A r \in Requests : r \notin Pending(k) => P(k) + 1 <= N
    BY PendingFacts
<1>2. \A k \in Keys : u(k) \in Nat
    BY <1>0
<1>3. \A j \in level, i \in Keys : 5 * (u(i) + P(i) - u(j)) <= 6 * N
    BY DEF FairShare
<1>4. FairShare' <=> \A j \in level', i \in Keys : 5 * (u(i)' + P(i)' - u(j)') <= 6 * N
    BY DEF FairShare
<1> HIDE DEF N
\* An answer that ends a request, whether its use is counted or not.
<1>5. ASSUME NEW r \in Requests, serving[r] # <<>>, serving' = [serving EXCEPT ![r] = <<>>]
      PROVE  \A i \in Keys : P(i)' = IF i = Head(serving[r]) THEN P(i) - 1 ELSE P(i)
    <2>1. SUFFICES ASSUME NEW i \in Keys
                   PROVE  P(i)' = IF i = Head(serving[r]) THEN P(i) - 1 ELSE P(i)
        OBVIOUS
    <2>2. Pending(i)' = Pending(i) \ {r}
        BY <1>0, <1>5 DEF Pending
    <2>3. r \in Pending(i) <=> i = Head(serving[r])
        BY <1>5 DEF Pending
    <2> QED  BY <1>1, <2>2, <2>3, FS_RemoveElement
<1>6. ASSUME NEW r \in Requests, NEW objective \in Objectives, RouteRequest(r, objective)
      PROVE  FairShare'
    <2> DEFINE k == Selected(objective)
    <2>1. /\ serving[r] = <<>> /\ Candidates # <<>>
          /\ serving' = [serving EXCEPT ![r] = Attempts(k)]
          /\ board' = board /\ level' = level \cap EqualTerms(objective)
        BY <1>6 DEF RouteRequest
    <2>2. k \in Keys
        BY <1>0, <2>1, SelectedFacts
    <2> HIDE DEF k
    <2>3. Attempts(k) # <<>> /\ Head(Attempts(k)) = k
        BY <2>2, AttemptsFacts
    <2>4. \A i \in Keys : r \notin Pending(i) /\ P(i)' = IF i = k THEN P(i) + 1 ELSE P(i)
        <3>1. SUFFICES ASSUME NEW i \in Keys
                       PROVE  r \notin Pending(i) /\ P(i)' = IF i = k THEN P(i) + 1 ELSE P(i)
            OBVIOUS
        <3>2. r \notin Pending(i)
            BY <2>1 DEF Pending
        <3>3. Pending(i)' = IF i = k THEN Pending(i) \cup {r} ELSE Pending(i)
            BY <1>0, <2>1, <2>3 DEF Pending
        <3> QED  BY <1>1, <3>2, <3>3, FS_AddElement
    <2>5. ASSUME NEW j \in level', NEW i \in Keys
          PROVE  5 * (u(i)' + P(i)' - u(j)') <= 6 * N
        <3>1. j \in level /\ j \in EqualTerms(objective) /\ j \in Keys
            BY <1>0, <2>1
        <3>2. u(i)' = u(i) /\ u(j)' = u(j)
            BY <2>1
        <3>3. CASE i # k
            <4>1. P(i)' = P(i)
                BY <2>4, <3>3
            <4> QED  BY <1>3, <3>1, <3>2, <4>1
        <3>4. CASE i = k
            <4>1. P(i)' = P(i) + 1 /\ P(i) + 1 <= N
                BY <1>1, <2>4, <3>4
            <4>2. \/ u(i) <= u(j)
                  \/ \E l \in Keys : 6 * (u(i) - u(j)) <= u(l) - u(j)
                BY <1>0, <2>1, <3>1, <3>4, FairlySelected DEF k
            <4>3. P(i) \in Nat /\ u(i) \in Nat /\ u(j) \in Nat /\ N \in Nat
                BY <1>1, <1>2, <3>1
            <4> HIDE DEF u, P
            <4>4. ASSUME NEW l \in Keys, 6 * (u(i) - u(j)) <= u(l) - u(j)
                  PROVE  5 * (u(i) - u(j)) <= N
                <5>1. 5 * (u(l) + P(l) - u(j)) <= 6 * N
                    BY <1>3, <3>1
                <5>2. u(l) \in Nat /\ P(l) \in Nat
                    BY <1>1, <1>2
                <5> QED  BY <4>3, <4>4, <5>1, <5>2
            <4>5. 5 * (u(i) - u(j)) <= N
                BY <4>2, <4>3, <4>4
            <4>6. 5 * (u(i) + (P(i) + 1) - u(j)) <= 6 * N
                BY <4>1, <4>3, <4>5
            <4> QED  BY <3>2, <4>1, <4>6
        <3> QED  BY <3>3, <3>4
    <2> QED  BY <1>4, <2>5
<1>7. ASSUME NEW r \in Requests, Succeed(r)
      PROVE  FairShare'
    <2> DEFINE h == Head(serving[r])
    <2>1. /\ serving[r] # <<>> /\ serving' = [serving EXCEPT ![r] = <<>>]
          /\ board' = [board EXCEPT ![h].usage = @ + 1] /\ level' = level
        BY <1>7 DEF Succeed
    <2>2. h \in Keys
        BY <2>1, HeadServed
    <2> HIDE DEF h
    <2>3. \A i \in Keys : u(i)' = IF i = h THEN u(i) + 1 ELSE u(i)
        BY <1>0, <2>1, <2>2 DEF Stats
    <2>4. \A i \in Keys : P(i)' = IF i = h THEN P(i) - 1 ELSE P(i)
        BY <1>5, <2>1 DEF h
    <2> HIDE DEF u, P
    <2>5. ASSUME NEW j \in level, NEW i \in Keys
          PROVE  5 * (u(i)' + P(i)' - u(j)') <= 6 * N
        <3>1. j \in Keys
            BY <1>0
        <3>2. /\ u(i)' \in Int /\ P(i)' \in Int /\ u(i)' + P(i)' = u(i) + P(i)
              /\ u(j)' \in Int /\ u(j)' >= u(j)
            BY <1>1, <1>2, <2>3, <2>4, <3>1
        <3> QED  BY <1>1, <1>2, <1>3, <3>1, <3>2
    <2> QED  BY <1>4, <2>1, <2>5 DEF u, P
\* Steps that change no counter of uses and add no request.
<1>8. ASSUME level' \subseteq level, \A k \in Keys : u(k)' = u(k) /\ P(k)' \in Int /\ P(k)' <= P(k)
      PROVE  FairShare'
    <2>1. ASSUME NEW j \in level', NEW i \in Keys
          PROVE  5 * (u(i)' + P(i)' - u(j)') <= 6 * N
        <3>1. j \in level /\ j \in Keys
            BY <1>0, <1>8
        <3>2. u(i)' = u(i) /\ u(j)' = u(j) /\ P(i)' \in Int /\ P(i)' <= P(i)
            BY <1>8, <3>1
        <3>3. 5 * (u(i) + P(i) - u(j)) <= 6 * N
            BY <1>3, <3>1
        <3> HIDE DEF u, P
        <3> QED  BY <1>1, <1>2, <3>1, <3>2, <3>3
    <2> QED  BY <1>4, <2>1
<1>9. ASSUME NEW r \in Requests, NEW retryable \in BOOLEAN, Fail(r, retryable)
      PROVE  FairShare'
    <2> DEFINE h == Head(serving[r])
    <2>1. /\ serving[r] # <<>> /\ board' = [board EXCEPT ![h].failures = @ + 1]
          /\ serving' = [serving EXCEPT ![r] = IF retryable THEN Tail(serving[r]) ELSE <<>>]
          /\ level' = IF serving'[r] = <<>> THEN level ELSE {}
        BY <1>0, <1>9 DEF Fail
    <2>2. h \in Keys
        BY <2>1, HeadServed
    <2>3. CASE serving'[r] = <<>>
        <3>1. serving' = [serving EXCEPT ![r] = <<>>] /\ level' = level
            BY <1>0, <2>1, <2>3
        <3>2. \A i \in Keys : P(i)' = IF i = h THEN P(i) - 1 ELSE P(i)
            BY <1>5, <2>1, <3>1
        <3> HIDE DEF h
        <3>3. \A i \in Keys : u(i)' = u(i)
            BY <1>0, <2>1, <2>2 DEF Stats
        <3>4. \A i \in Keys : P(i)' \in Int /\ P(i)' <= P(i)
            <4> HIDE DEF P
            <4> QED  BY <1>1, <3>2
        <3> QED  BY <1>8, <3>1, <3>3, <3>4
    <2>4. CASE serving'[r] # <<>>
        BY <2>1, <2>4 DEF FairShare
    <2> QED  BY <2>3, <2>4
<1>10. ASSUME NEW r \in Requests, Abort(r)
      PROVE  FairShare'
    <2>1. /\ serving[r] # <<>> /\ serving' = [serving EXCEPT ![r] = <<>>]
          /\ board' = board /\ level' = level
        BY <1>10 DEF Abort
    <2>2. \A i \in Keys : P(i)' \in Int /\ P(i)' <= P(i)
        <3>1. \A i \in Keys : P(i)' = IF i = Head(serving[r]) THEN P(i) - 1 ELSE P(i)
            BY <1>5, <2>1
        <3> HIDE DEF P
        <3> QED  BY <1>1, <3>1
    <2>3. \A i \in Keys : u(i)' = u(i)
        BY <2>1
    <2> QED  BY <1>8, <2>1, <2>2, <2>3
<1>11. ASSUME NEW k \in Keys, NEW capacity \in Moves, MoveCapacity(k, capacity)
      PROVE  FairShare'
    <2>1. serving' = serving /\ level' = level /\ board' = [board EXCEPT ![k].capacity = capacity]
        BY <1>11 DEF MoveCapacity
    <2>2. \A i \in Keys : u(i)' = u(i)
        BY <1>0, <2>1 DEF Stats
    <2>3. \A i \in Keys : P(i)' = P(i)
        BY <2>1 DEF Pending
    <2>4. \A i \in Keys : P(i)' \in Int /\ P(i)' <= P(i)
        <3> HIDE DEF P
        <3> QED  BY <1>1, <2>3
    <2> QED  BY <1>8, <2>1, <2>2, <2>4
<1>12. CASE UNCHANGED slVars
    BY <1>12 DEF slVars, FairShare, Pending
<1> QED
    BY <1>6, <1>7, <1>9, <1>10, <1>11, <1>12 DEF Next


\* The requests of a selection by fairness are shared by the keys that were
\* always on equal terms: none is left behind by more than the number of
\* concurrent requests and a fifth of it.
THEOREM KeysShareRequests == Spec => []FairShare
<1>1. Init => FairShare
    <2> SUFFICES ASSUME Init
                 PROVE  FairShare
        OBVIOUS
    <2>1. board \in [Keys -> Stats]
        BY SelectionAssumption DEF Init
    <2>2. \A i \in Keys : board[i].usage \in Nat
        BY <2>1 DEF Stats
    <2>3. \A i \in Keys : Pending(i) = {}
        BY DEF Init, Pending
    <2>4. Cardinality({}) = 0 /\ Cardinality(Requests) \in Nat
        BY FS_EmptySet, PendingFacts
    <2>5. \A j \in level, i \in Keys : board[i].usage <= board[j].usage /\ j \in Keys
        BY DEF Init
    <2>6. ASSUME NEW j \in level, NEW i \in Keys
          PROVE  5 * (board[i].usage + 0 - board[j].usage) <= 6 * Cardinality(Requests)
        BY <2>2, <2>4, <2>5
    <2> QED  BY <2>3, <2>4, <2>6 DEF FairShare
<1> QED
    BY <1>1, SLTypesInit, SLTypesStep, FairShareStep, PTL DEF Spec

-----------------------------------------------------------------------------
\* A request is decided in no other step than route_request, by what it finds.
LEMMA DecidedByRouteRequest ==
    ASSUME SLTypeOK, [Next]_slVars, NEW r \in Requests, Decided(r)
    PROVE  \E objective \in Objectives :
                /\ RouteRequest(r, objective)
                /\ latest'.objective = objective
                /\ latest'.key = Selected(objective)
                /\ latest'.list = Candidates
<1>1. serving \in [Requests -> Seq(Keys)] /\ serving[r] = <<>> /\ serving'[r] # <<>>
    BY DEF SLTypeOK, Decided
<1>2. ASSUME NEW q \in Requests, NEW objective \in Objectives, RouteRequest(q, objective)
      PROVE  q = r
    BY <1>1, <1>2 DEF RouteRequest
<1>3. ASSUME NEW q \in Requests, Succeed(q) \/ Abort(q) \/ \E retryable \in BOOLEAN : Fail(q, retryable)
      PROVE  FALSE
    BY <1>1, <1>3 DEF Succeed, Abort, Fail
<1>4. ASSUME NEW k \in Keys, NEW capacity \in Moves, MoveCapacity(k, capacity)
      PROVE  FALSE
    BY <1>1, <1>4 DEF MoveCapacity
<1>5. ~ UNCHANGED slVars
    BY <1>1 DEF slVars
<1>6. \E objective \in Objectives : RouteRequest(r, objective)
    BY <1>2, <1>3, <1>4, <1>5 DEF Next
<1>7. PICK objective \in Objectives : RouteRequest(r, objective)
    BY <1>6
<1>8. latest' = [key |-> Selected(objective), list |-> Candidates, objective |-> objective]
    BY <1>7 DEF RouteRequest
<1>9. latest'.key = Selected(objective) /\ latest'.list = Candidates /\ latest'.objective = objective
    BY <1>8
<1> QED
    BY <1>7, <1>9

\* The index stands for the latest key in the latest list.
LatestIndexed ==
    latest.key # "none" => /\ lastIndex \in 1..Len(latest.list)
                           /\ latest.list[lastIndex] = latest.key

\* Every decision sets the index together with the latest decision, and no other
\* step touches either.
LEMMA LatestIndexedStep == SLTypeOK /\ LatestIndexed /\ [Next]_slVars => LatestIndexed'
<1> SUFFICES ASSUME SLTypeOK, LatestIndexed, [Next]_slVars
             PROVE  LatestIndexed'
    OBVIOUS
<1>1. ASSUME NEW r \in Requests, NEW objective \in Objectives, RouteRequest(r, objective)
      PROVE  LatestIndexed'
    <2>1. latest'.key = Selected(objective) /\ latest'.list = Candidates
        BY <1>1 DEF RouteRequest
    <2>2. lastIndex' \in 1..Len(Candidates) /\ Candidates[lastIndex'] = Selected(objective)
        BY <1>1, IndexOfSelected DEF SLTypeOK
    <2> QED  BY <2>1, <2>2 DEF LatestIndexed
<1>2. ASSUME UNCHANGED <<lastIndex, latest>>
      PROVE  LatestIndexed'
    BY <1>2 DEF LatestIndexed
<1> QED
    BY <1>1, <1>2 DEF Next, Succeed, Fail, Abort, MoveCapacity, slVars

\* Round-robin works: while the candidates stay the same, a fairness decision
\* among several best keys never takes the key of the decision before.
THEOREM NeverTwiceInARow == Spec => RoundRobin
<1>1. Init => LatestIndexed
    BY DEF Init, LatestIndexed
<1> DEFINE Repeats(r) ==
        /\ Decided(r)
        /\ latest.key # "none"
        /\ latest'.objective.primary = "fairness"
        /\ latest'.list = latest.list
        /\ Cardinality(Best(board, ToSet(Candidates), latest'.objective)) > 1
        /\ latest'.key = latest.key
<1>2. SLTypeOK /\ LatestIndexed /\ [Next]_slVars => \A r \in Requests : ~Repeats(r)
    <2> SUFFICES ASSUME SLTypeOK, LatestIndexed, [Next]_slVars, NEW r \in Requests, Repeats(r)
                 PROVE  FALSE
        OBVIOUS
    <2>1. PICK objective \in Objectives :
            /\ RouteRequest(r, objective)
            /\ latest'.objective = objective
            /\ latest'.key = Selected(objective)
            /\ latest'.list = Candidates
        BY DecidedByRouteRequest
    <2>2. lastIndex \in 1..Len(Candidates) /\ Candidates[lastIndex] = Selected(objective)
        BY <2>1 DEF LatestIndexed
    <2>3. board \in [Keys -> Stats] /\ Candidates # <<>>
        BY <2>1 DEF SLTypeOK, RouteRequest
    <2> QED
        BY <2>1, <2>2, <2>3, SelectedFacts
<1>3. (\A r \in Requests : ~Repeats(r)) =>
        \A r \in Requests :
            (/\ Decided(r)
             /\ latest.key # "none"
             /\ latest'.objective.primary = "fairness"
             /\ latest'.list = latest.list
             /\ Cardinality(Best(board, ToSet(Candidates), latest'.objective)) > 1)
            => latest'.key # latest.key
    BY Zenon
<1> QED
    BY <1>1, <1>2, <1>3, SLTypesInit, SLTypesStep, LatestIndexedStep, PTL DEF Spec, RoundRobin

\* What the boost of Abundant keys can hide is a sixth of the range.
THEOREM DecisionNearBest == Spec => SelectedNearBest
<1>1. SLTypeOK /\ [Next]_slVars =>
        \A r \in Requests : Decided(r) =>
            LET keys == ToSet(Candidates)
                scores == Evaluate(board, keys, latest'.objective)
                k == latest'.key
            IN  \A j \in keys :
                    Factor(board[j]) >= Factor(board[k]) =>
                        6 * (scores.of[j] - scores.of[k]) <= scores.one
    <2> SUFFICES ASSUME SLTypeOK, [Next]_slVars, NEW r \in Requests, Decided(r),
                        NEW j \in ToSet(Candidates),
                        Factor(board[j]) >= Factor(board[latest'.key])
                 PROVE  LET scores == Evaluate(board, ToSet(Candidates), latest'.objective)
                        IN  6 * (scores.of[j] - scores.of[latest'.key]) <= scores.one
        OBVIOUS
    <2>1. PICK objective \in Objectives :
            /\ RouteRequest(r, objective)
            /\ latest'.objective = objective
            /\ latest'.key = Selected(objective)
        BY DecidedByRouteRequest
    <2> DEFINE keys == ToSet(Candidates)
               s == Evaluate(board, keys, objective)
               k == Selected(objective)
    <2>2. board \in [Keys -> Stats] /\ Candidates # <<>> 
          /\ keys \in SUBSET Keys /\ keys # {} /\ j \in keys
        BY <2>1, CandidatesFacts DEF SLTypeOK, RouteRequest
    <2>3. k \in Best(board, keys, objective) /\ k \in keys
        BY <2>2, SelectedFacts
    <2>4. Factor(board[j]) \in Nat /\ Factor(board[k]) \in Nat /\ Factor(board[k]) <= Factor(board[j])
        <3>1. Factor(board[k]) <= Factor(board[j]) <=> Factor(board[j]) >= Factor(board[k])
              /\ Factor(board[j]) \in 1..240 /\ Factor(board[k]) \in 1..240
            <4>1. board[j] \in Stats /\ board[k] \in Stats
                BY <2>2, <2>3
            <4>2. Factor(board[j]) \in 1..240 /\ Factor(board[k]) \in 1..240
                BY <4>1, FactorFacts
            <4> QED  BY <4>2
        <3>2. Factor(board[j]) >= Factor(board[k])
            BY <2>1
        <3> QED  BY <3>1, <3>2
    <2> HIDE DEF keys, k
    <2>5. s.of[j] <= s.of[k] \/ 5 * s.one <= 6 * s.of[k]
        BY <2>2, <2>3, <2>4, BestFacts
    <2>6. s.one \in Nat /\ s.of[j] \in Nat /\ s.of[k] \in Nat /\ s.of[j] <= s.one
        BY <2>2, <2>3, EvaluateAgrees DEF Scored
    <2> HIDE DEF s
    <2>7. 6 * (s.of[j] - s.of[k]) <= s.one
        BY <2>5, <2>6
    <2> QED  BY <2>1, <2>7 DEF s, k, keys
<1> QED
    BY <1>1, SLTypesInit, SLTypesStep, PTL DEF Spec, SelectedNearBest

\* No decision takes a key when another one is better by one criterion and
\* worse by none.
THEOREM DecisionNotDominated == Spec => SelectedNotDominated
<1>1. SLTypeOK /\ [Next]_slVars =>
        \A r \in Requests : Decided(r) =>
            (Factor(board[latest'.key]) <= 200 =>
                ~ \E j \in ToSet(Candidates) : Dominates(j, latest'.key, latest'.objective))
    <2> SUFFICES ASSUME SLTypeOK, [Next]_slVars, NEW r \in Requests, Decided(r),
                        Factor(board[latest'.key]) <= 200,
                        NEW j \in ToSet(Candidates), Dominates(j, latest'.key, latest'.objective)
                 PROVE  FALSE
        OBVIOUS
    <2>1. PICK objective \in Objectives :
            /\ RouteRequest(r, objective)
            /\ latest'.objective = objective
            /\ latest'.key = Selected(objective)
        BY DecidedByRouteRequest
    <2> DEFINE keys == ToSet(Candidates)
               s == Evaluate(board, keys, objective)
               k == Selected(objective)
    <2>2. board \in [Keys -> Stats] /\ Candidates # <<>> 
          /\ keys \in SUBSET Keys /\ keys # {} /\ j \in keys
        BY <2>1, CandidatesFacts DEF SLTypeOK, RouteRequest
    <2>3. k \in Best(board, keys, objective) /\ k \in keys
        BY <2>2, SelectedFacts
    <2>4. /\ board[j].capacity = board[k].capacity /\ board[j].soft = board[k].soft
          /\ \A c \in Considered(objective) : NoWorse(j, k, c)
          /\ \E c \in Considered(objective) : ~NoWorse(k, j, c)
        BY <2>1 DEF Dominates, Considered
    <2>5. Factor(board[k]) = Factor(board[j]) /\ Factor(board[k]) <= 200
        BY <2>1, <2>4 DEF Factor
    <2> HIDE DEF keys, k
    <2>6. s.of[j] <= s.of[k]
        BY <2>2, <2>3, <2>5, BestFacts
    <2>7. s.of[k] < s.of[j] /\ s.of[j] \in Nat /\ s.of[k] \in Nat
        BY <2>2, <2>3, <2>4, EvaluateAgrees DEF Scored
    <2> HIDE DEF s
    <2> QED  BY <2>6, <2>7
<1> QED
    BY <1>1, SLTypesInit, SLTypesStep, PTL DEF Spec, SelectedNotDominated
=============================================================================
