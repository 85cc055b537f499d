------------------------- MODULE SsiNetworkProofs -------------------------
(* Proofs about SsiNetwork, for every plan, traffic and compromise the       *)
(* assumptions of the module admit. First what the operators compute: the    *)
(* search over the contacts against its reference definition, the launch     *)
(* ring and what taking in a block of records makes of it, the chains and    *)
(* statuses of keys, the receipts of a bundle. Then the invariant of the     *)
(* network, kept step by step, and the properties that follow from it.       *)
(*                                                                           *)
(* Folds and searches are reasoned about step by step: the steps are a       *)
(* function on 0 .. n whose values a lemma gives, and Induction carries a    *)
(* fact from one to the next.                                                *)
EXTENDS SsiNetwork, FiniteSetTheorems, SequenceTheorems, WellFoundedInduction, TLAPS

----------------------------------------------------------------------------
\* A set that holds 0, and each number's successor with it, holds every number:
\* the induction the proofs over the model's folds are made of.
LEMMA Induction ==
  ASSUME NEW P, 0 \in P, \A n \in Nat : n \in P => n + 1 \in P
  PROVE  \A n \in Nat : n \in P
<1> DEFINE Q == {n \in Nat : n \notin P}
<1>1. SUFFICES ASSUME Q # {} PROVE FALSE
  OBVIOUS
<1>2. PICK m \in Q : \A k \in Q : ~(<<k, m>> \in OpToRel(<, Nat))
  BY <1>1, NatLessThanWellFounded, WFMin
<1>3. m # 0 /\ m - 1 \in Nat
  OBVIOUS
<1>4. m - 1 \notin Q
  <2>1. m - 1 < m
    BY <1>3
  <2> QED BY <1>2, <1>3, <2>1 DEF OpToRel
<1> QED
  BY <1>3, <1>4

\* A set of numbers with a bound has a greatest.
LEMMA MaxOf ==
  ASSUME NEW n \in Nat, NEW T \in SUBSET (1 .. n), T # {}
  PROVE  Max(T) \in T /\ \A y \in T : y <= Max(T)
<1> DEFINE Q == {m \in Nat : \A k \in T : k <= m}
<1>1. n \in Q
  OBVIOUS
<1>2. PICK m \in Q : \A k \in Q : ~(<<k, m>> \in OpToRel(<, Nat))
  <2>1. Q \subseteq Nat /\ Q # {}
    BY <1>1
  <2> QED BY <2>1, NatLessThanWellFounded, WFMin
<1>3. \A k \in Q : m <= k
  <2>1. ASSUME NEW k \in Q, k < m PROVE FALSE
    <3>1. <<k, m>> \in OpToRel(<, Nat)
      BY <2>1 DEF OpToRel
    <3> QED BY <1>2, <3>1
  <2> QED BY <2>1
<1>4. m \in T
  <2>1. SUFFICES ASSUME m \notin T PROVE FALSE
    OBVIOUS
  <2>2. PICK k \in T : TRUE
    OBVIOUS
  <2>3. k <= m /\ k \in 1 .. n
    BY <2>2
  <2>4. m - 1 \in Nat
    BY <2>3
  <2>5. \A j \in T : j <= m - 1
    BY <2>1
  <2>6. m - 1 \in Q
    BY <2>4, <2>5
  <2> QED BY <1>3, <2>6
<1>5. m \in T /\ \A y \in T : m >= y
  BY <1>4
<1> QED
  BY <1>5 DEF Max

\* The greatest of the numbers up to i is i.
LEMMA MaxUpTo ==
  ASSUME NEW i \in Nat, i # 0
  PROVE  Max(1 .. i) = i
<1>1. 1 .. i \in SUBSET (1 .. i) /\ 1 .. i # {} /\ i \in 1 .. i
  OBVIOUS
<1>2. Max(1 .. i) \in 1 .. i /\ \A y \in 1 .. i : y <= Max(1 .. i)
  BY <1>1, MaxOf
<1> QED
  BY <1>1, <1>2

\* it folds F over the subsets of S, each set losing the element that pick
\* names.
FoldsBy(it, b, S, pick, F) ==
  /\ it[{}] = b
  /\ \A T \in SUBSET S : T # {} => it[T] = F[<<it[T \ {pick[T]}], pick[T]>>]

\* h goes through the values of an iteration of n steps from b to last.
Iterates(h, b, n, F, last) ==
  h[0] = b /\ h[n] = last /\ \A i \in 1 .. n : h[i] = F[<<h[i - 1], i>>]

\* What takes the elements of a finite set one after the other, each set
\* losing the element that pick names, is a function.
LEMMA FoldExists ==
  ASSUME NEW S, IsFiniteSet(S), NEW V, NEW b \in V,
         NEW pick, \A T \in SUBSET S : T # {} => pick[T] \in T,
         NEW F \in [V \X S -> V]
  PROVE  \E g \in [SUBSET S -> V] : FoldsBy(g, b, S, pick, F)
<1> DEFINE Small(m) == {T \in SUBSET S : Cardinality(T) <= m}
           Has(m) == \E g \in [Small(m) -> V] :
                        \A T \in Small(m) :
                          g[T] = IF T = {} THEN b ELSE F[<<g[T \ {pick[T]}], pick[T]>>]
           P == {m \in Nat : Has(m)}
<1>0. \A T \in SUBSET S : IsFiniteSet(T) /\ Cardinality(T) \in Nat /\ (Cardinality(T) = 0 <=> T = {})
  BY FS_Subset, FS_CardinalityType, FS_EmptySet
<1>1. 0 \in P
  <2> DEFINE g == [T \in Small(0) |-> b]
  <2>1. g \in [Small(0) -> V]
    OBVIOUS
  <2>2. \A T \in Small(0) : T = {} /\ g[T] = b
    BY <1>0
  <2> QED
    BY <2>1, <2>2
<1>2. ASSUME NEW m \in Nat, m \in P PROVE m + 1 \in P
  <2>0. Has(m)
    <3> HIDE DEF Has
    <3> QED BY <1>2
  <2>2. PICK g \in [Small(m) -> V] :
          \A T \in Small(m) :
             g[T] = IF T = {} THEN b ELSE F[<<g[T \ {pick[T]}], pick[T]>>]
    BY <2>0
  <2> DEFINE rest(T) == T \ {pick[T]}
             f == [T \in Small(m + 1) |->
                     IF T \in Small(m) THEN g[T] ELSE F[<<g[rest(T)], pick[T]>>]]
  <2>3. ASSUME NEW T \in Small(m + 1), T # {}
        PROVE  rest(T) \in Small(m) /\ pick[T] \in S
    <3>1. pick[T] \in T /\ IsFiniteSet(T)
      BY <1>0, <2>3
    <3>2. Cardinality(rest(T)) = Cardinality(T) - 1
      BY <3>1, FS_RemoveElement
    <3> QED BY <1>0, <3>1, <3>2
  <2>4. \A T \in Small(m + 1) : T \notin Small(m) => T # {}
    BY <1>0
  <2>5. f \in [Small(m + 1) -> V]
    <3>1. ASSUME NEW T \in Small(m + 1) PROVE f[T] \in V
      <4>1. CASE T \in Small(m)
        BY <4>1
      <4>2. CASE T \notin Small(m)
        <5>1. g[rest(T)] \in V /\ pick[T] \in S
          BY <2>3, <2>4, <4>2, SMTT(60)
        <5> HIDE DEF rest, Small
        <5> QED BY <4>2, <5>1
      <4> QED BY <4>1, <4>2
    <3> QED BY <3>1
  <2>6. ASSUME NEW T \in Small(m + 1)
        PROVE  f[T] = IF T = {} THEN b ELSE F[<<f[rest(T)], pick[T]>>]
    <3>1. T # {} => rest(T) \in Small(m) /\ rest(T) \in Small(m + 1)
      BY <1>0, <2>3
    <3>2. T # {} => f[rest(T)] = g[rest(T)]
      <4> HIDE DEF rest, Small
      <4> QED BY <3>1
    <3>3. CASE T \in Small(m)
      <4>1. f[T] = g[T]
        <5> HIDE DEF Small, rest
        <5> QED BY <3>3
      <4>2. g[T] = IF T = {} THEN b ELSE F[<<g[rest(T)], pick[T]>>]
        <5> HIDE DEF Small
        <5> QED BY <2>2, <3>3
      <4> HIDE DEF Small, rest, f
      <4> QED BY <3>2, <4>1, <4>2
    <3>4. CASE T \notin Small(m)
      <4>1. T # {}
        BY <2>4, <3>4
      <4> HIDE DEF Small
      <4> QED BY <3>2, <3>4, <4>1
    <3> QED BY <3>3, <3>4
  <2> HIDE DEF f
  <2>7. Has(m + 1)
    BY <2>5, <2>6
  <2> HIDE DEF Has
  <2> QED BY <2>7
<1>3. \A m \in Nat : m \in P
  <2> HIDE DEF P
  <2> QED BY <1>1, <1>2, Induction
<1>4. Cardinality(S) \in Nat /\ \A T \in SUBSET S : Cardinality(T) <= Cardinality(S)
  BY <1>0, FS_Subset
<1>5. Has(Cardinality(S))
  <2> HIDE DEF Has
  <2> QED BY <1>3, <1>4
<1>6. Small(Cardinality(S)) = SUBSET S
  BY <1>4
<1> HIDE DEF Small
<1> QED
  BY <1>5, <1>6 DEF FoldsBy

\* it satisfies the equation of a fold to the left, where it is in V.
Unfolds(it, V, b, n, F) ==
  /\ it[{}] = b
  /\ \A T \in SUBSET (1 .. n) :
       T # {} /\ it[T \ {Max(T)}] \in V => it[T] = F[<<it[T \ {Max(T)}], Max(T)>>]

\* What satisfies the equation of a fold to the left goes through the values
\* of an iteration.
LEMMA FoldIterates ==
  ASSUME NEW V, NEW b \in V, NEW n \in Nat, NEW F \in [V \X (1 .. n) -> V], NEW it,
         Unfolds(it, V, b, n, F)
  PROVE  \E h \in [0 .. n -> V] : Iterates(h, b, n, F, it[1 .. n])
<1> DEFINE P == {m \in Nat : m <= n => it[1 .. m] \in V}
           h == [i \in 0 .. n |-> it[1 .. i]]
<1>1. \A i \in 1 .. n : 1 .. i \in SUBSET (1 .. n) /\ 1 .. i # {} /\ Max(1 .. i) = i
                        /\ (1 .. i) \ {i} = 1 .. i - 1
  BY MaxUpTo, SMTT(60)
<1>2. \A i \in 1 .. n : it[1 .. i - 1] \in V => it[1 .. i] = F[<<it[1 .. i - 1], i>>]
  BY <1>1 DEF Unfolds
<1>3. 1 .. 0 = {}
  OBVIOUS
<1>4. 0 \in P
  BY <1>3 DEF Unfolds
<1>5. ASSUME NEW m \in Nat, m \in P PROVE m + 1 \in P
  <2>1. SUFFICES ASSUME m + 1 <= n PROVE it[1 .. m + 1] \in V
    OBVIOUS
  <2>2. it[1 .. m] \in V
    BY <1>5, <2>1
  <2>3. m + 1 \in 1 .. n /\ (m + 1) - 1 = m
    BY <2>1
  <2> QED BY <1>2, <2>2, <2>3
<1>6. \A m \in Nat : m \in P
  BY <1>4, <1>5, Induction
<1>7. h \in [0 .. n -> V]
  BY <1>6
<1>8. \A i \in 1 .. n : h[i] = F[<<h[i - 1], i>>]
  BY <1>2, <1>6
<1>9. h[0] = b /\ h[n] = it[1 .. n]
  BY <1>3 DEF Unfolds
<1> HIDE DEF h
<1> QED
  BY <1>7, <1>8, <1>9 DEF Iterates

\* The iteration exists.
LEMMA FoldLeftExists ==
  ASSUME NEW V, NEW b \in V, NEW n \in Nat, NEW F \in [V \X (1 .. n) -> V]
  PROVE  \E g \in [SUBSET (1 .. n) -> V] :
           FoldsBy(g, b, 1 .. n, [T \in SUBSET (1 .. n) |-> Max(T)], F)
<1> DEFINE S == 1 .. n
           pick == [T \in SUBSET S |-> Max(T)]
<1>1. IsFiniteSet(S)
  BY FS_Interval
<1>2. \A T \in SUBSET S : T # {} => pick[T] \in T
  BY MaxOf
<1>3. \E g \in [SUBSET S -> V] : FoldsBy(g, b, S, pick, F)
  <2>1. F \in [V \X S -> V] /\ b \in V
    OBVIOUS
  <2> HIDE DEF S, pick
  <2> QED BY <1>1, <1>2, <2>1, FoldExists
<1> QED
  BY <1>3

\* The values that Ingest goes through.
IngestRun(ring, block, at, h) ==
  /\ h[0] = ring /\ h[Len(block)] = Ingest(ring, block, at)
  /\ \A i \in 1 .. Len(block) : h[i] = Add(h[i - 1], block[i], at)

\* Ingest adds the records of the block one after the other.
LEMMA IngestIterates ==
  ASSUME NEW V, NEW ring, NEW U, NEW block \in Seq(U), NEW at, ring \in V,
         \A v \in V : \A i \in 1 .. Len(block) : Add(v, block[i], at) \in V
  PROVE  \E h \in [0 .. Len(block) -> V] : IngestRun(ring, block, at, h)
<1> DEFINE n == Len(block)
           F == [p \in V \X (1 .. n) |-> Add(p[1], block[p[2]], at)]
           Body(g) == [T \in SUBSET DOMAIN block |->
                         IF T = {} THEN ring ELSE Add(g[T \ {Max(T)}], block[Max(T)], at)]
           it == CHOOSE g : g = Body(g)
<1>0. n \in Nat /\ DOMAIN block = 1 .. n
  OBVIOUS
<1>1. F \in [V \X (1 .. n) -> V]
  OBVIOUS
<1>2. \A v \in V : \A i \in 1 .. n : F[<<v, i>>] = Add(v, block[i], at)
  OBVIOUS
<1>3. PICK g \in [SUBSET (1 .. n) -> V] :
        FoldsBy(g, ring, 1 .. n, [T \in SUBSET (1 .. n) |-> Max(T)], F)
  <2> HIDE DEF F, n
  <2> QED BY <1>0, <1>1, FoldLeftExists
<1>4. g = Body(g)
  <2>1. ASSUME NEW T \in SUBSET (1 .. n), T # {}
        PROVE  g[T] = Add(g[T \ {Max(T)}], block[Max(T)], at)
    <3>1. Max(T) \in 1 .. n
      BY <1>0, <2>1, MaxOf
    <3>2. g[T] = F[<<g[T \ {Max(T)}], Max(T)>>]
      <4> HIDE DEF F, n
      <4> QED BY <1>3, <2>1 DEF FoldsBy
    <3>3. g[T \ {Max(T)}] \in V
      OBVIOUS
    <3> HIDE DEF F, n
    <3> QED BY <1>2, <3>1, <3>2, <3>3
  <2>2. g[{}] = ring
    BY <1>3 DEF FoldsBy
  <2> HIDE DEF n
  <2> QED BY <1>0, <2>1, <2>2
<1>5. it = Body(it)
  <2> HIDE DEF Body
  <2> QED BY <1>4
<1>6. Ingest(ring, block, at) = it[1 .. n]
  BY <1>0 DEF Ingest, FoldLeft, MapThenFoldSet
<1>7. Unfolds(it, V, ring, n, F)
  <2>1. it[{}] = ring
    <3> HIDE DEF it
    <3> QED BY <1>5
  <2>2. ASSUME NEW T \in SUBSET (1 .. n), T # {}, it[T \ {Max(T)}] \in V
        PROVE  it[T] = F[<<it[T \ {Max(T)}], Max(T)>>]
    <3>1. Max(T) \in 1 .. n
      BY <1>0, <2>2, MaxOf
    <3>2. it[T] = Add(it[T \ {Max(T)}], block[Max(T)], at)
      <4> HIDE DEF it, n
      <4> QED BY <1>0, <1>5, <2>2
    <3> HIDE DEF it, F, n
    <3> QED BY <1>2, <2>2, <3>1, <3>2
  <2> HIDE DEF it, F, n
  <2> QED BY <2>1, <2>2 DEF Unfolds
<1>8. PICK h \in [0 .. n -> V] : Iterates(h, ring, n, F, it[1 .. n])
  <2> HIDE DEF it, F, n
  <2> QED BY <1>0, <1>1, <1>7, FoldIterates
<1>9. \A i \in 1 .. n : h[i] = Add(h[i - 1], block[i], at)
  <2>1. \A i \in 1 .. n : h[i] = F[<<h[i - 1], i>>] /\ h[i - 1] \in V
    <3> HIDE DEF F, n
    <3> QED BY <1>0, <1>8 DEF Iterates
  <2> HIDE DEF F, n
  <2> QED BY <1>2, <2>1
<1>10. h[0] = ring /\ h[n] = it[1 .. n]
  BY <1>8 DEF Iterates
<1> QED
  BY <1>6, <1>9, <1>10 DEF IngestRun

\* The values that NoDuplicates goes through.
NoDuplicatesRun(records, h) ==
  /\ h[0] = <<>> /\ h[Len(records)] = NoDuplicates(records)
  /\ \A i \in 1 .. Len(records) : h[i] = (IF Contains(h[i - 1], records[i]) THEN h[i - 1] ELSE Append(h[i - 1], records[i]))

\* So does the removal of duplicates.
LEMMA NoDuplicatesIterates ==
  ASSUME NEW V, NEW U, NEW records \in Seq(U), <<>> \in V,
         \A v \in V : \A i \in 1 .. Len(records) : (IF Contains(v, records[i]) THEN v ELSE Append(v, records[i])) \in V
  PROVE  \E h \in [0 .. Len(records) -> V] : NoDuplicatesRun(records, h)
<1> DEFINE n == Len(records)
           F == [p \in V \X (1 .. n) |-> (IF Contains(p[1], records[p[2]]) THEN p[1] ELSE Append(p[1], records[p[2]]))]
           Body(g) == [T \in SUBSET DOMAIN records |->
                         IF T = {} THEN <<>> ELSE (IF Contains(g[T \ {Max(T)}], records[Max(T)]) THEN g[T \ {Max(T)}] ELSE Append(g[T \ {Max(T)}], records[Max(T)]))]
           it == CHOOSE g : g = Body(g)
<1>0. n \in Nat /\ DOMAIN records = 1 .. n
  OBVIOUS
<1>1. F \in [V \X (1 .. n) -> V]
  OBVIOUS
<1>2. \A v \in V : \A i \in 1 .. n : F[<<v, i>>] = (IF Contains(v, records[i]) THEN v ELSE Append(v, records[i]))
  OBVIOUS
<1>3. PICK g \in [SUBSET (1 .. n) -> V] :
        FoldsBy(g, <<>>, 1 .. n, [T \in SUBSET (1 .. n) |-> Max(T)], F)
  <2> HIDE DEF F, n
  <2> QED BY <1>0, <1>1, FoldLeftExists
<1>4. g = Body(g)
  <2>1. ASSUME NEW T \in SUBSET (1 .. n), T # {}
        PROVE  g[T] = (IF Contains(g[T \ {Max(T)}], records[Max(T)]) THEN g[T \ {Max(T)}] ELSE Append(g[T \ {Max(T)}], records[Max(T)]))
    <3>1. Max(T) \in 1 .. n
      BY <1>0, <2>1, MaxOf
    <3>2. g[T] = F[<<g[T \ {Max(T)}], Max(T)>>]
      <4> HIDE DEF F, n
      <4> QED BY <1>3, <2>1 DEF FoldsBy
    <3>3. g[T \ {Max(T)}] \in V
      OBVIOUS
    <3> HIDE DEF F, n
    <3> QED BY <1>2, <3>1, <3>2, <3>3
  <2>2. g[{}] = <<>>
    BY <1>3 DEF FoldsBy
  <2> HIDE DEF n
  <2> QED BY <1>0, <2>1, <2>2
<1>5. it = Body(it)
  <2> HIDE DEF Body
  <2> QED BY <1>4
<1>6. NoDuplicates(records) = it[1 .. n]
  BY <1>0 DEF NoDuplicates, FoldLeft, MapThenFoldSet
<1>7. Unfolds(it, V, <<>>, n, F)
  <2>1. it[{}] = <<>>
    <3> HIDE DEF it
    <3> QED BY <1>5
  <2>2. ASSUME NEW T \in SUBSET (1 .. n), T # {}, it[T \ {Max(T)}] \in V
        PROVE  it[T] = F[<<it[T \ {Max(T)}], Max(T)>>]
    <3>1. Max(T) \in 1 .. n
      BY <1>0, <2>2, MaxOf
    <3>2. it[T] = (IF Contains(it[T \ {Max(T)}], records[Max(T)]) THEN it[T \ {Max(T)}] ELSE Append(it[T \ {Max(T)}], records[Max(T)]))
      <4> HIDE DEF it, n
      <4> QED BY <1>0, <1>5, <2>2
    <3> HIDE DEF it, F, n
    <3> QED BY <1>2, <2>2, <3>1, <3>2
  <2> HIDE DEF it, F, n
  <2> QED BY <2>1, <2>2 DEF Unfolds
<1>8. PICK h \in [0 .. n -> V] : Iterates(h, <<>>, n, F, it[1 .. n])
  <2> HIDE DEF it, F, n
  <2> QED BY <1>0, <1>1, <1>7, FoldIterates
<1>9. \A i \in 1 .. n : h[i] = (IF Contains(h[i - 1], records[i]) THEN h[i - 1] ELSE Append(h[i - 1], records[i]))
  <2>1. \A i \in 1 .. n : h[i] = F[<<h[i - 1], i>>] /\ h[i - 1] \in V
    <3> HIDE DEF F, n
    <3> QED BY <1>0, <1>8 DEF Iterates
  <2> HIDE DEF F, n
  <2> QED BY <1>2, <2>1
<1>10. h[0] = <<>> /\ h[n] = it[1 .. n]
  BY <1>8 DEF Iterates
<1> QED
  BY <1>6, <1>9, <1>10 DEF NoDuplicatesRun

\* The values that Settle goes through.
SettleRun(plan, free, node, dst, bytes, exclude, s, h) ==
  /\ h[0] = [s EXCEPT !.done = @ \cup {s.order[Nearest(s)]}] /\ h[Len(plan)] = Settle(plan, free, node, dst, bytes, exclude, s)
  /\ \A i \in 1 .. Len(plan) : h[i] = Relax(plan, free, node, bytes, exclude, s.order[Nearest(s)], h[i - 1], [j \in DOMAIN plan |-> j][i])

\* A turn of the search relaxes the contacts one after the other.
LEMMA SettleIterates ==
  ASSUME NEW V, NEW U, NEW plan \in Seq(U), NEW free, NEW node, NEW dst, NEW bytes, NEW exclude, NEW s,
         Nearest(s) # 0, s.order[Nearest(s)] # dst, [s EXCEPT !.done = @ \cup {s.order[Nearest(s)]}] \in V,
         \A v \in V : \A i \in 1 .. Len(plan) : Relax(plan, free, node, bytes, exclude, s.order[Nearest(s)], v, [j \in DOMAIN plan |-> j][i]) \in V
  PROVE  \E h \in [0 .. Len(plan) -> V] : SettleRun(plan, free, node, dst, bytes, exclude, s, h)
<1> DEFINE n == Len(plan)
           F == [p \in V \X (1 .. n) |-> Relax(plan, free, node, bytes, exclude, s.order[Nearest(s)], p[1], [j \in DOMAIN plan |-> j][p[2]])]
           Body(g) == [T \in SUBSET DOMAIN [j \in DOMAIN plan |-> j] |->
                         IF T = {} THEN [s EXCEPT !.done = @ \cup {s.order[Nearest(s)]}] ELSE Relax(plan, free, node, bytes, exclude, s.order[Nearest(s)], g[T \ {Max(T)}], [j \in DOMAIN plan |-> j][Max(T)])]
           it == CHOOSE g : g = Body(g)
<1>0. n \in Nat /\ DOMAIN [j \in DOMAIN plan |-> j] = 1 .. n
  OBVIOUS
<1>1. F \in [V \X (1 .. n) -> V]
  OBVIOUS
<1>2. \A v \in V : \A i \in 1 .. n : F[<<v, i>>] = Relax(plan, free, node, bytes, exclude, s.order[Nearest(s)], v, [j \in DOMAIN plan |-> j][i])
  OBVIOUS
<1>3. PICK g \in [SUBSET (1 .. n) -> V] :
        FoldsBy(g, [s EXCEPT !.done = @ \cup {s.order[Nearest(s)]}], 1 .. n, [T \in SUBSET (1 .. n) |-> Max(T)], F)
  <2> HIDE DEF F, n
  <2> QED BY <1>0, <1>1, FoldLeftExists
<1>4. g = Body(g)
  <2>1. ASSUME NEW T \in SUBSET (1 .. n), T # {}
        PROVE  g[T] = Relax(plan, free, node, bytes, exclude, s.order[Nearest(s)], g[T \ {Max(T)}], [j \in DOMAIN plan |-> j][Max(T)])
    <3>1. Max(T) \in 1 .. n
      BY <1>0, <2>1, MaxOf
    <3>2. g[T] = F[<<g[T \ {Max(T)}], Max(T)>>]
      <4> HIDE DEF F, n
      <4> QED BY <1>3, <2>1 DEF FoldsBy
    <3>3. g[T \ {Max(T)}] \in V
      OBVIOUS
    <3> HIDE DEF F, n
    <3> QED BY <1>2, <3>1, <3>2, <3>3
  <2>2. g[{}] = [s EXCEPT !.done = @ \cup {s.order[Nearest(s)]}]
    BY <1>3 DEF FoldsBy
  <2> HIDE DEF n
  <2> QED BY <1>0, <2>1, <2>2
<1>5. it = Body(it)
  <2> HIDE DEF Body
  <2> QED BY <1>4
<1>6. Settle(plan, free, node, dst, bytes, exclude, s) = it[1 .. n]
  BY <1>0 DEF Settle, FoldLeft, MapThenFoldSet
<1>7. Unfolds(it, V, [s EXCEPT !.done = @ \cup {s.order[Nearest(s)]}], n, F)
  <2>1. it[{}] = [s EXCEPT !.done = @ \cup {s.order[Nearest(s)]}]
    <3> HIDE DEF it
    <3> QED BY <1>5
  <2>2. ASSUME NEW T \in SUBSET (1 .. n), T # {}, it[T \ {Max(T)}] \in V
        PROVE  it[T] = F[<<it[T \ {Max(T)}], Max(T)>>]
    <3>1. Max(T) \in 1 .. n
      BY <1>0, <2>2, MaxOf
    <3>2. it[T] = Relax(plan, free, node, bytes, exclude, s.order[Nearest(s)], it[T \ {Max(T)}], [j \in DOMAIN plan |-> j][Max(T)])
      <4> HIDE DEF it, n
      <4> QED BY <1>0, <1>5, <2>2
    <3> HIDE DEF it, F, n
    <3> QED BY <1>2, <2>2, <3>1, <3>2
  <2> HIDE DEF it, F, n
  <2> QED BY <2>1, <2>2 DEF Unfolds
<1>8. PICK h \in [0 .. n -> V] : Iterates(h, [s EXCEPT !.done = @ \cup {s.order[Nearest(s)]}], n, F, it[1 .. n])
  <2> HIDE DEF it, F, n
  <2> QED BY <1>0, <1>1, <1>7, FoldIterates
<1>9. \A i \in 1 .. n : h[i] = Relax(plan, free, node, bytes, exclude, s.order[Nearest(s)], h[i - 1], [j \in DOMAIN plan |-> j][i])
  <2>1. \A i \in 1 .. n : h[i] = F[<<h[i - 1], i>>] /\ h[i - 1] \in V
    <3> HIDE DEF F, n
    <3> QED BY <1>0, <1>8 DEF Iterates
  <2> HIDE DEF F, n
  <2> QED BY <1>2, <2>1
<1>10. h[0] = [s EXCEPT !.done = @ \cup {s.order[Nearest(s)]}] /\ h[n] = it[1 .. n]
  BY <1>8 DEF Iterates
<1> QED
  BY <1>6, <1>9, <1>10 DEF SettleRun

\* The values that Search goes through.
SearchRun(plan, free, node, dst, t, bytes, exclude, h) ==
  /\ h[0] = Start(node, t) /\ h[Cardinality(Nodes)] = Search(plan, free, node, dst, t, bytes, exclude)
  /\ \A i \in 1 .. Cardinality(Nodes) : h[i] = Settle(plan, free, node, dst, bytes, exclude, h[i - 1])

\* The search settles one node after the other.
LEMMA SearchIterates ==
  ASSUME NEW V, NEW plan, NEW free, NEW node, NEW dst, NEW t, NEW bytes, NEW exclude, Start(node, t) \in V,
         \A v \in V : \A i \in 1 .. Cardinality(Nodes) : Settle(plan, free, node, dst, bytes, exclude, v) \in V
  PROVE  \E h \in [0 .. Cardinality(Nodes) -> V] : SearchRun(plan, free, node, dst, t, bytes, exclude, h)
<1> DEFINE n == Cardinality(Nodes)
           F == [p \in V \X (1 .. n) |-> Settle(plan, free, node, dst, bytes, exclude, p[1])]
           Body(g) == [T \in SUBSET DOMAIN [i \in 1 .. Cardinality(Nodes) |-> i] |->
                         IF T = {} THEN Start(node, t) ELSE Settle(plan, free, node, dst, bytes, exclude, g[T \ {Max(T)}])]
           it == CHOOSE g : g = Body(g)
<1>0. n \in Nat /\ DOMAIN [i \in 1 .. Cardinality(Nodes) |-> i] = 1 .. n
  BY RoutingAssumption, FS_CardinalityType
<1>1. F \in [V \X (1 .. n) -> V]
  OBVIOUS
<1>2. \A v \in V : \A i \in 1 .. n : F[<<v, i>>] = Settle(plan, free, node, dst, bytes, exclude, v)
  OBVIOUS
<1>3. PICK g \in [SUBSET (1 .. n) -> V] :
        FoldsBy(g, Start(node, t), 1 .. n, [T \in SUBSET (1 .. n) |-> Max(T)], F)
  <2> HIDE DEF F, n
  <2> QED BY <1>0, <1>1, FoldLeftExists
<1>4. g = Body(g)
  <2>1. ASSUME NEW T \in SUBSET (1 .. n), T # {}
        PROVE  g[T] = Settle(plan, free, node, dst, bytes, exclude, g[T \ {Max(T)}])
    <3>1. Max(T) \in 1 .. n
      BY <1>0, <2>1, MaxOf
    <3>2. g[T] = F[<<g[T \ {Max(T)}], Max(T)>>]
      <4> HIDE DEF F, n
      <4> QED BY <1>3, <2>1 DEF FoldsBy
    <3>3. g[T \ {Max(T)}] \in V
      OBVIOUS
    <3> HIDE DEF F, n
    <3> QED BY <1>2, <3>1, <3>2, <3>3
  <2>2. g[{}] = Start(node, t)
    BY <1>3 DEF FoldsBy
  <2> HIDE DEF n
  <2> QED BY <1>0, <2>1, <2>2
<1>5. it = Body(it)
  <2> HIDE DEF Body
  <2> QED BY <1>4
<1>6. Search(plan, free, node, dst, t, bytes, exclude) = it[1 .. n]
  BY <1>0 DEF Search, FoldLeft, MapThenFoldSet
<1>7. Unfolds(it, V, Start(node, t), n, F)
  <2>1. it[{}] = Start(node, t)
    <3> HIDE DEF it
    <3> QED BY <1>5
  <2>2. ASSUME NEW T \in SUBSET (1 .. n), T # {}, it[T \ {Max(T)}] \in V
        PROVE  it[T] = F[<<it[T \ {Max(T)}], Max(T)>>]
    <3>1. Max(T) \in 1 .. n
      BY <1>0, <2>2, MaxOf
    <3>2. it[T] = Settle(plan, free, node, dst, bytes, exclude, it[T \ {Max(T)}])
      <4> HIDE DEF it, n
      <4> QED BY <1>0, <1>5, <2>2
    <3> HIDE DEF it, F, n
    <3> QED BY <1>2, <2>2, <3>1, <3>2
  <2> HIDE DEF it, F, n
  <2> QED BY <2>1, <2>2 DEF Unfolds
<1>8. PICK h \in [0 .. n -> V] : Iterates(h, Start(node, t), n, F, it[1 .. n])
  <2> HIDE DEF it, F, n
  <2> QED BY <1>0, <1>1, <1>7, FoldIterates
<1>9. \A i \in 1 .. n : h[i] = Settle(plan, free, node, dst, bytes, exclude, h[i - 1])
  <2>1. \A i \in 1 .. n : h[i] = F[<<h[i - 1], i>>] /\ h[i - 1] \in V
    <3> HIDE DEF F, n
    <3> QED BY <1>0, <1>8 DEF Iterates
  <2> HIDE DEF F, n
  <2> QED BY <1>2, <2>1
<1>10. h[0] = Start(node, t) /\ h[n] = it[1 .. n]
  BY <1>8 DEF Iterates
<1> QED
  BY <1>6, <1>9, <1>10 DEF SearchRun

\* The values that Credit goes through.
CreditRun(ring, delivered, before, claim, h) ==
  /\ h[0] = before /\ h[Len(claim.bundle.receipts)] = Credit(ring, delivered, before, claim)
  /\ \A i \in 1 .. Len(claim.bundle.receipts) : h[i] = CreditReceipt(ring, claim, h[i - 1], [j \in DOMAIN claim.bundle.receipts |-> j][i])

\* An admitted claim is credited receipt by receipt.
LEMMA CreditIterates ==
  ASSUME NEW V, NEW ring, NEW delivered, NEW before, NEW U, NEW claim, claim.bundle.receipts \in Seq(U), Admitted(claim, delivered), before \in V,
         \A v \in V : \A i \in 1 .. Len(claim.bundle.receipts) : CreditReceipt(ring, claim, v, [j \in DOMAIN claim.bundle.receipts |-> j][i]) \in V
  PROVE  \E h \in [0 .. Len(claim.bundle.receipts) -> V] : CreditRun(ring, delivered, before, claim, h)
<1> DEFINE n == Len(claim.bundle.receipts)
           F == [p \in V \X (1 .. n) |-> CreditReceipt(ring, claim, p[1], [j \in DOMAIN claim.bundle.receipts |-> j][p[2]])]
           Body(g) == [T \in SUBSET DOMAIN [j \in DOMAIN claim.bundle.receipts |-> j] |->
                         IF T = {} THEN before ELSE CreditReceipt(ring, claim, g[T \ {Max(T)}], [j \in DOMAIN claim.bundle.receipts |-> j][Max(T)])]
           it == CHOOSE g : g = Body(g)
<1>0. n \in Nat /\ DOMAIN [j \in DOMAIN claim.bundle.receipts |-> j] = 1 .. n
  OBVIOUS
<1>1. F \in [V \X (1 .. n) -> V]
  OBVIOUS
<1>2. \A v \in V : \A i \in 1 .. n : F[<<v, i>>] = CreditReceipt(ring, claim, v, [j \in DOMAIN claim.bundle.receipts |-> j][i])
  OBVIOUS
<1>3. PICK g \in [SUBSET (1 .. n) -> V] :
        FoldsBy(g, before, 1 .. n, [T \in SUBSET (1 .. n) |-> Max(T)], F)
  <2> HIDE DEF F, n
  <2> QED BY <1>0, <1>1, FoldLeftExists
<1>4. g = Body(g)
  <2>1. ASSUME NEW T \in SUBSET (1 .. n), T # {}
        PROVE  g[T] = CreditReceipt(ring, claim, g[T \ {Max(T)}], [j \in DOMAIN claim.bundle.receipts |-> j][Max(T)])
    <3>1. Max(T) \in 1 .. n
      BY <1>0, <2>1, MaxOf
    <3>2. g[T] = F[<<g[T \ {Max(T)}], Max(T)>>]
      <4> HIDE DEF F, n
      <4> QED BY <1>3, <2>1 DEF FoldsBy
    <3>3. g[T \ {Max(T)}] \in V
      OBVIOUS
    <3> HIDE DEF F, n
    <3> QED BY <1>2, <3>1, <3>2, <3>3
  <2>2. g[{}] = before
    BY <1>3 DEF FoldsBy
  <2> HIDE DEF n
  <2> QED BY <1>0, <2>1, <2>2
<1>5. it = Body(it)
  <2> HIDE DEF Body
  <2> QED BY <1>4
<1>6. Credit(ring, delivered, before, claim) = it[1 .. n]
  BY <1>0 DEF Credit, FoldLeft, MapThenFoldSet
<1>7. Unfolds(it, V, before, n, F)
  <2>1. it[{}] = before
    <3> HIDE DEF it
    <3> QED BY <1>5
  <2>2. ASSUME NEW T \in SUBSET (1 .. n), T # {}, it[T \ {Max(T)}] \in V
        PROVE  it[T] = F[<<it[T \ {Max(T)}], Max(T)>>]
    <3>1. Max(T) \in 1 .. n
      BY <1>0, <2>2, MaxOf
    <3>2. it[T] = CreditReceipt(ring, claim, it[T \ {Max(T)}], [j \in DOMAIN claim.bundle.receipts |-> j][Max(T)])
      <4> HIDE DEF it, n
      <4> QED BY <1>0, <1>5, <2>2
    <3> HIDE DEF it, F, n
    <3> QED BY <1>2, <2>2, <3>1, <3>2
  <2> HIDE DEF it, F, n
  <2> QED BY <2>1, <2>2 DEF Unfolds
<1>8. PICK h \in [0 .. n -> V] : Iterates(h, before, n, F, it[1 .. n])
  <2> HIDE DEF it, F, n
  <2> QED BY <1>0, <1>1, <1>7, FoldIterates
<1>9. \A i \in 1 .. n : h[i] = CreditReceipt(ring, claim, h[i - 1], [j \in DOMAIN claim.bundle.receipts |-> j][i])
  <2>1. \A i \in 1 .. n : h[i] = F[<<h[i - 1], i>>] /\ h[i - 1] \in V
    <3> HIDE DEF F, n
    <3> QED BY <1>0, <1>8 DEF Iterates
  <2> HIDE DEF F, n
  <2> QED BY <1>2, <2>1
<1>10. h[0] = before /\ h[n] = it[1 .. n]
  BY <1>8 DEF Iterates
<1> QED
  BY <1>6, <1>9, <1>10 DEF CreditRun

\* The values that Clear goes through.
ClearRun(ring, delivered, claims, h) ==
  /\ h[0] = NothingCredited /\ h[Len(claims)] = Clear(claims, ring, delivered)
  /\ \A i \in 1 .. Len(claims) : h[i] = Credit(ring, delivered, h[i - 1], claims[i])

\* The clearing takes the claims one after the other.
LEMMA ClearIterates ==
  ASSUME NEW V, NEW ring, NEW delivered, NEW U, NEW claims \in Seq(U), NothingCredited \in V,
         \A v \in V : \A i \in 1 .. Len(claims) : Credit(ring, delivered, v, claims[i]) \in V
  PROVE  \E h \in [0 .. Len(claims) -> V] : ClearRun(ring, delivered, claims, h)
<1> DEFINE n == Len(claims)
           F == [p \in V \X (1 .. n) |-> Credit(ring, delivered, p[1], claims[p[2]])]
           Body(g) == [T \in SUBSET DOMAIN claims |->
                         IF T = {} THEN NothingCredited ELSE Credit(ring, delivered, g[T \ {Max(T)}], claims[Max(T)])]
           it == CHOOSE g : g = Body(g)
<1>0. n \in Nat /\ DOMAIN claims = 1 .. n
  OBVIOUS
<1>1. F \in [V \X (1 .. n) -> V]
  OBVIOUS
<1>2. \A v \in V : \A i \in 1 .. n : F[<<v, i>>] = Credit(ring, delivered, v, claims[i])
  OBVIOUS
<1>3. PICK g \in [SUBSET (1 .. n) -> V] :
        FoldsBy(g, NothingCredited, 1 .. n, [T \in SUBSET (1 .. n) |-> Max(T)], F)
  <2> HIDE DEF F, n
  <2> QED BY <1>0, <1>1, FoldLeftExists
<1>4. g = Body(g)
  <2>1. ASSUME NEW T \in SUBSET (1 .. n), T # {}
        PROVE  g[T] = Credit(ring, delivered, g[T \ {Max(T)}], claims[Max(T)])
    <3>1. Max(T) \in 1 .. n
      BY <1>0, <2>1, MaxOf
    <3>2. g[T] = F[<<g[T \ {Max(T)}], Max(T)>>]
      <4> HIDE DEF F, n
      <4> QED BY <1>3, <2>1 DEF FoldsBy
    <3>3. g[T \ {Max(T)}] \in V
      OBVIOUS
    <3> HIDE DEF F, n
    <3> QED BY <1>2, <3>1, <3>2, <3>3
  <2>2. g[{}] = NothingCredited
    BY <1>3 DEF FoldsBy
  <2> HIDE DEF n
  <2> QED BY <1>0, <2>1, <2>2
<1>5. it = Body(it)
  <2> HIDE DEF Body
  <2> QED BY <1>4
<1>6. Clear(claims, ring, delivered) = it[1 .. n]
  BY <1>0 DEF Clear, FoldLeft, MapThenFoldSet
<1>7. Unfolds(it, V, NothingCredited, n, F)
  <2>1. it[{}] = NothingCredited
    <3> HIDE DEF it
    <3> QED BY <1>5
  <2>2. ASSUME NEW T \in SUBSET (1 .. n), T # {}, it[T \ {Max(T)}] \in V
        PROVE  it[T] = F[<<it[T \ {Max(T)}], Max(T)>>]
    <3>1. Max(T) \in 1 .. n
      BY <1>0, <2>2, MaxOf
    <3>2. it[T] = Credit(ring, delivered, it[T \ {Max(T)}], claims[Max(T)])
      <4> HIDE DEF it, n
      <4> QED BY <1>0, <1>5, <2>2
    <3> HIDE DEF it, F, n
    <3> QED BY <1>2, <2>2, <3>1, <3>2
  <2> HIDE DEF it, F, n
  <2> QED BY <2>1, <2>2 DEF Unfolds
<1>8. PICK h \in [0 .. n -> V] : Iterates(h, NothingCredited, n, F, it[1 .. n])
  <2> HIDE DEF it, F, n
  <2> QED BY <1>0, <1>1, <1>7, FoldIterates
<1>9. \A i \in 1 .. n : h[i] = Credit(ring, delivered, h[i - 1], claims[i])
  <2>1. \A i \in 1 .. n : h[i] = F[<<h[i - 1], i>>] /\ h[i - 1] \in V
    <3> HIDE DEF F, n
    <3> QED BY <1>0, <1>8 DEF Iterates
  <2> HIDE DEF F, n
  <2> QED BY <1>2, <2>1
<1>10. h[0] = NothingCredited /\ h[n] = it[1 .. n]
  BY <1>8 DEF Iterates
<1> QED
  BY <1>6, <1>9, <1>10 DEF ClearRun

\* The values that StartQueue goes through.
StartQueueRun(traffic, cmp, h) ==
  /\ h[0] = <<>> /\ h[Len(Scheduled(traffic, cmp))] = StartQueue(traffic, cmp)
  /\ \A i \in 1 .. Len(Scheduled(traffic, cmp)) : h[i] = Push(h[i - 1], Scheduled(traffic, cmp)[i])

\* The queue is filled event by event.
LEMMA StartQueueIterates ==
  ASSUME NEW V, NEW traffic, NEW cmp, NEW U, Scheduled(traffic, cmp) \in Seq(U), <<>> \in V,
         \A v \in V : \A i \in 1 .. Len(Scheduled(traffic, cmp)) : Push(v, Scheduled(traffic, cmp)[i]) \in V
  PROVE  \E h \in [0 .. Len(Scheduled(traffic, cmp)) -> V] : StartQueueRun(traffic, cmp, h)
<1> DEFINE n == Len(Scheduled(traffic, cmp))
           F == [p \in V \X (1 .. n) |-> Push(p[1], Scheduled(traffic, cmp)[p[2]])]
           Body(g) == [T \in SUBSET DOMAIN Scheduled(traffic, cmp) |->
                         IF T = {} THEN <<>> ELSE Push(g[T \ {Max(T)}], Scheduled(traffic, cmp)[Max(T)])]
           it == CHOOSE g : g = Body(g)
<1>0. n \in Nat /\ DOMAIN Scheduled(traffic, cmp) = 1 .. n
  OBVIOUS
<1>1. F \in [V \X (1 .. n) -> V]
  OBVIOUS
<1>2. \A v \in V : \A i \in 1 .. n : F[<<v, i>>] = Push(v, Scheduled(traffic, cmp)[i])
  OBVIOUS
<1>3. PICK g \in [SUBSET (1 .. n) -> V] :
        FoldsBy(g, <<>>, 1 .. n, [T \in SUBSET (1 .. n) |-> Max(T)], F)
  <2> HIDE DEF F, n
  <2> QED BY <1>0, <1>1, FoldLeftExists
<1>4. g = Body(g)
  <2>1. ASSUME NEW T \in SUBSET (1 .. n), T # {}
        PROVE  g[T] = Push(g[T \ {Max(T)}], Scheduled(traffic, cmp)[Max(T)])
    <3>1. Max(T) \in 1 .. n
      BY <1>0, <2>1, MaxOf
    <3>2. g[T] = F[<<g[T \ {Max(T)}], Max(T)>>]
      <4> HIDE DEF F, n
      <4> QED BY <1>3, <2>1 DEF FoldsBy
    <3>3. g[T \ {Max(T)}] \in V
      OBVIOUS
    <3> HIDE DEF F, n
    <3> QED BY <1>2, <3>1, <3>2, <3>3
  <2>2. g[{}] = <<>>
    BY <1>3 DEF FoldsBy
  <2> HIDE DEF n
  <2> QED BY <1>0, <2>1, <2>2
<1>5. it = Body(it)
  <2> HIDE DEF Body
  <2> QED BY <1>4
<1>6. StartQueue(traffic, cmp) = it[1 .. n]
  BY <1>0 DEF StartQueue, FoldLeft, MapThenFoldSet
<1>7. Unfolds(it, V, <<>>, n, F)
  <2>1. it[{}] = <<>>
    <3> HIDE DEF it
    <3> QED BY <1>5
  <2>2. ASSUME NEW T \in SUBSET (1 .. n), T # {}, it[T \ {Max(T)}] \in V
        PROVE  it[T] = F[<<it[T \ {Max(T)}], Max(T)>>]
    <3>1. Max(T) \in 1 .. n
      BY <1>0, <2>2, MaxOf
    <3>2. it[T] = Push(it[T \ {Max(T)}], Scheduled(traffic, cmp)[Max(T)])
      <4> HIDE DEF it, n
      <4> QED BY <1>0, <1>5, <2>2
    <3> HIDE DEF it, F, n
    <3> QED BY <1>2, <2>2, <3>1, <3>2
  <2> HIDE DEF it, F, n
  <2> QED BY <2>1, <2>2 DEF Unfolds
<1>8. PICK h \in [0 .. n -> V] : Iterates(h, <<>>, n, F, it[1 .. n])
  <2> HIDE DEF it, F, n
  <2> QED BY <1>0, <1>1, <1>7, FoldIterates
<1>9. \A i \in 1 .. n : h[i] = Push(h[i - 1], Scheduled(traffic, cmp)[i])
  <2>1. \A i \in 1 .. n : h[i] = F[<<h[i - 1], i>>] /\ h[i - 1] \in V
    <3> HIDE DEF F, n
    <3> QED BY <1>0, <1>8 DEF Iterates
  <2> HIDE DEF F, n
  <2> QED BY <1>2, <2>1
<1>10. h[0] = <<>> /\ h[n] = it[1 .. n]
  BY <1>8 DEF Iterates
<1> QED
  BY <1>6, <1>9, <1>10 DEF StartQueueRun

\* Any set of naturals has a least element, which Min gives.
LEMMA MinOf ==
  ASSUME NEW T \in SUBSET Nat, T # {}
  PROVE  Min(T) \in T /\ \A y \in T : Min(T) <= y
<1>1. PICK m \in T : \A k \in T : ~(<<k, m>> \in OpToRel(<, Nat))
  BY NatLessThanWellFounded, WFMin
<1>2. \A k \in T : m <= k
  <2>1. ASSUME NEW k \in T, k < m PROVE FALSE
    <3>1. <<k, m>> \in OpToRel(<, Nat)
      BY <2>1 DEF OpToRel
    <3> QED BY <1>1, <3>1
  <2> QED BY <2>1
<1> QED
  BY <1>2 DEF Min

\* An iteration of any step exists.
LEMMA IterationExists ==
  ASSUME NEW V, NEW b \in V, NEW n \in Nat, NEW F \in [V \X (1 .. n) -> V]
  PROVE  \E h \in [0 .. n -> V] : \E last : Iterates(h, b, n, F, last)
<1>1. PICK g \in [SUBSET (1 .. n) -> V] :
        FoldsBy(g, b, 1 .. n, [T \in SUBSET (1 .. n) |-> Max(T)], F)
  BY FoldLeftExists
<1>2. Unfolds(g, V, b, n, F)
  BY <1>1 DEF FoldsBy, Unfolds
<1> QED
  BY <1>2, FoldIterates

----------------------------------------------------------------------------
SearchState == [order : Seq(Nodes), arr : [Nodes -> Nat], via : [Nodes -> Nat], done : SUBSET Nodes]

FreeOn(plan, free, node, i) == IF plan[i].from = node THEN free[i] ELSE 0

\* Over contact i of the plan, ready at its start at time at.
Can(plan, free, node, bytes, i, at) == Fits(plan[i], at, FreeOn(plan, free, node, i), bytes)
Reach(plan, free, node, bytes, i, at) == Arrival(plan[i], at, FreeOn(plan, free, node, i), bytes)

\* A transmission takes whole seconds, and something takes some time.
LEMMA TxTimeType ==
  ASSUME NEW c \in ContactSet, NEW bytes \in Nat
  PROVE  TxTime(c, bytes) \in Nat /\ (bytes # 0 => TxTime(c, bytes) # 0)
<1>1. c.rate \in Nat /\ c.rate # 0
  BY DEF ContactSet
<1> DEFINE r == c.rate a == bytes + c.rate - 1
<1>2. a \in Nat /\ r \in Nat /\ r > 0
  BY <1>1
<1>3. a \div r \in Nat
  <2> HIDE DEF a, r
  <2> QED BY <1>2
<1>4. bytes # 0 => a >= r
  BY <1>1
<1>5. a >= r => a \div r # 0
  <2> HIDE DEF a, r
  <2> QED BY <1>2
<1> QED
  BY <1>3, <1>4, <1>5 DEF TxTime

\* Nothing arrives before it is given to a contact; and something, only later.
LEMMA ArrivalLater ==
  ASSUME NEW c \in ContactSet, NEW bytes \in Nat, NEW at \in Nat, NEW fr \in Nat
  PROVE  /\ Arrival(c, at, fr, bytes) \in Nat
         /\ at <= Arrival(c, at, fr, bytes)
         /\ bytes # 0 => at < Arrival(c, at, fr, bytes)
<1>1. TxTime(c, bytes) \in Nat /\ (bytes # 0 => TxTime(c, bytes) # 0)
  BY TxTimeType
<1>2. c.start \in Nat /\ c.owlt \in Nat
  BY DEF ContactSet
<1> QED
  BY <1>1, <1>2 DEF Arrival, Departure

\* Who comes to a contact earlier gets over it no later (ssi/cgr.mjs).
LEMMA ArrivalMonotone ==
  ASSUME NEW c \in ContactSet, NEW bytes \in Nat, NEW x \in Nat, NEW y \in Nat, NEW fr \in Nat,
         x <= y
  PROVE  /\ Arrival(c, x, fr, bytes) <= Arrival(c, y, fr, bytes)
         /\ Fits(c, y, fr, bytes) => Fits(c, x, fr, bytes)
<1>1. TxTime(c, bytes) \in Nat
  BY TxTimeType
<1>2. c.start \in Nat /\ c.owlt \in Nat /\ c.end \in Nat
  BY DEF ContactSet
<1>3. Departure(c, x, fr) <= Departure(c, y, fr) /\ Departure(c, x, fr) \in Nat /\ Departure(c, y, fr) \in Nat
  BY <1>2 DEF Departure
<1>4. Arrival(c, x, fr, bytes) <= Arrival(c, y, fr, bytes)
  BY <1>1, <1>2, <1>3 DEF Arrival
<1>5. Fits(c, y, fr, bytes) => Fits(c, x, fr, bytes)
  BY <1>1, <1>2, <1>3 DEF Fits
<1> QED
  BY <1>4, <1>5
----------------------------------------------------------------------------
Met(s) == {s.order[i] : i \in DOMAIN s.order}

\* A node was reached over a contact from a node that is done.
ReachedBy(plan, free, node, bytes, exclude, s, n) ==
  /\ s.via[n] \in DOMAIN plan /\ plan[s.via[n]].to = n /\ plan[s.via[n]].from \in s.done
  /\ n \notin exclude
  /\ Can(plan, free, node, bytes, s.via[n], s.arr[plan[s.via[n]].from])
  /\ s.arr[n] = Reach(plan, free, node, bytes, s.via[n], s.arr[plan[s.via[n]].from])
  /\ s.arr[n] < Unreached

SearchInv(plan, free, node, t, bytes, exclude, s) ==
  /\ s \in SearchState
  /\ node \in Met(s) /\ s.done \subseteq Met(s)
  /\ s.arr[node] = t /\ s.via[node] = 0
  /\ \A n \in Nodes : n \notin Met(s) => s.arr[n] = Unreached /\ s.via[n] = 0
  /\ \A n \in Met(s) : t <= s.arr[n]
  /\ \A n \in Met(s) : n # node => ReachedBy(plan, free, node, bytes, exclude, s, n)

\* The nodes are done in the order of their arrivals, and what can be reached
\* from a node that is done is reached no later than from there.
InOrder(s) == \A d \in s.done : \A n \in Met(s) \ s.done : s.arr[d] <= s.arr[n]

Relaxed(plan, free, node, bytes, exclude, s, i) ==
  /\ plan[i].to \notin exclude
  /\ Can(plan, free, node, bytes, i, s.arr[plan[i].from])
  => s.arr[plan[i].to] <= Reach(plan, free, node, bytes, i, s.arr[plan[i].from])

RelaxedFrom(plan, free, node, bytes, exclude, s, D) ==
  \A i \in DOMAIN plan : plan[i].from \in D => Relaxed(plan, free, node, bytes, exclude, s, i)

\* While node u is settled, in a search that stood at s: v is where it is now.
Midway(plan, free, node, bytes, exclude, s, u, v) ==
  /\ v.done = s.done \cup {u}
  /\ \A d \in v.done : v.arr[d] = s.arr[d]
  /\ \A n \in Nodes :
       \/ v.arr[n] = s.arr[n]
       \/ \E i \in DOMAIN plan :
            /\ plan[i].from = u /\ plan[i].to = n /\ n \notin exclude
            /\ Can(plan, free, node, bytes, i, s.arr[u])
            /\ v.arr[n] = Reach(plan, free, node, bytes, i, s.arr[u])
            /\ v.arr[n] < s.arr[n] /\ v.arr[n] < Unreached

\* What a contact of a plan is.
LEMMA ContactFacts ==
  ASSUME NEW plan \in Seq(ContactSet), NEW i \in DOMAIN plan
  PROVE  /\ i \in Nat /\ i # 0 /\ plan[i] \in ContactSet
         /\ plan[i].from \in Nodes /\ plan[i].to \in Nodes
         /\ plan[i].start \in Nat /\ plan[i].end \in Nat /\ plan[i].owlt \in Nat
<1>1. i \in Nat /\ i # 0 /\ plan[i] \in ContactSet
  OBVIOUS
<1> QED
  BY <1>1 DEF ContactSet

\* The same of the contacts of a plan, each with the time it is free from.
LEMMA ReachFacts ==
  ASSUME NEW plan \in Seq(ContactSet), NEW free \in [DOMAIN plan -> Nat], NEW node,
         NEW bytes \in Nat, NEW i \in DOMAIN plan, NEW x \in Nat
  PROVE  /\ FreeOn(plan, free, node, i) \in Nat
         /\ Reach(plan, free, node, bytes, i, x) \in Nat
         /\ x <= Reach(plan, free, node, bytes, i, x)
         /\ bytes # 0 => x < Reach(plan, free, node, bytes, i, x)
         /\ \A y \in Nat : x <= y =>
              /\ Reach(plan, free, node, bytes, i, x) <= Reach(plan, free, node, bytes, i, y)
              /\ Can(plan, free, node, bytes, i, y) => Can(plan, free, node, bytes, i, x)
<1>1. plan[i] \in ContactSet
  OBVIOUS
<1>2. FreeOn(plan, free, node, i) \in Nat
  BY DEF FreeOn
<1>3. /\ Reach(plan, free, node, bytes, i, x) \in Nat
      /\ x <= Reach(plan, free, node, bytes, i, x)
      /\ bytes # 0 => x < Reach(plan, free, node, bytes, i, x)
  BY <1>1, <1>2, ArrivalLater DEF Reach
<1>4. \A y \in Nat : x <= y =>
        /\ Reach(plan, free, node, bytes, i, x) <= Reach(plan, free, node, bytes, i, y)
        /\ Can(plan, free, node, bytes, i, y) => Can(plan, free, node, bytes, i, x)
  BY <1>1, <1>2, ArrivalMonotone DEF Reach, Can
<1> QED
  BY <1>2, <1>3, <1>4

\* The nearest node is open and none of the open nodes is nearer.
LEMMA NearestFacts ==
  ASSUME NEW s \in SearchState
  PROVE  /\ Nearest(s) = 0 => Met(s) \subseteq s.done
         /\ Nearest(s) # 0 =>
              /\ Nearest(s) \in DOMAIN s.order
              /\ s.order[Nearest(s)] \in Met(s) \ s.done
              /\ \A n \in Met(s) \ s.done : s.arr[s.order[Nearest(s)]] <= s.arr[n]
<1> DEFINE open == {i \in DOMAIN s.order : s.order[i] \notin s.done}
           arrs == {s.arr[s.order[i]] : i \in open}
           best == {i \in open : \A j \in open : s.arr[s.order[i]] <= s.arr[s.order[j]]}
<1>1. s.order \in Seq(Nodes) /\ s.arr \in [Nodes -> Nat]
  BY DEF SearchState
<1>2. \A i \in DOMAIN s.order : i \in Nat /\ i # 0 /\ s.order[i] \in Nodes /\ s.arr[s.order[i]] \in Nat
  BY <1>1
<1>3. CASE open = {}
  <2>1. Nearest(s) = 0
    BY <1>3 DEF Nearest
  <2>2. Met(s) \subseteq s.done
    BY <1>3 DEF Met
  <2> QED BY <2>1, <2>2
<1>4. CASE open # {}
  <2>1. arrs \in SUBSET Nat /\ arrs # {}
    BY <1>2, <1>4
  <2>2. Min(arrs) \in arrs /\ \A y \in arrs : Min(arrs) <= y
    BY <2>1, MinOf
  <2>3. PICK i \in open : s.arr[s.order[i]] = Min(arrs)
    BY <2>2
  <2>4. i \in best
    BY <2>2, <2>3
  <2>5. best \in SUBSET Nat /\ best # {}
    BY <1>2, <2>4
  <2>6. Min(best) \in best /\ \A j \in best : Min(best) <= j
    BY <2>5, MinOf
  <2>7. Nearest(s) = CHOOSE k \in best : \A j \in best : k <= j
    BY <1>4, SMTT(60) DEF Nearest
  <2>8. Nearest(s) \in best
    BY <2>6, <2>7
  <2>9. Nearest(s) \in open /\ \A j \in open : s.arr[s.order[Nearest(s)]] <= s.arr[s.order[j]]
    BY <2>8
  <2>10. \A n \in Met(s) \ s.done : \E j \in open : n = s.order[j]
    BY DEF Met
  <2>11. Nearest(s) # 0
    BY <1>2, <2>9
  <2>12. s.order[Nearest(s)] \in Met(s) \ s.done
    BY <2>9 DEF Met
  <2> HIDE DEF open
  <2>13. \A n \in Met(s) \ s.done : s.arr[s.order[Nearest(s)]] <= s.arr[n]
    BY <2>9, <2>10
  <2>14. Nearest(s) \in DOMAIN s.order
    BY <2>9 DEF open
  <2> QED BY <2>11, <2>12, <2>13, <2>14
<1> QED
  BY <1>3, <1>4

\* The search starts at its node, with nobody settled, in good order.
LEMMA StartFacts ==
  ASSUME NEW plan, NEW free, NEW node \in Nodes, NEW t \in Nat, NEW bytes, NEW exclude
  PROVE  /\ SearchInv(plan, free, node, t, bytes, exclude, Start(node, t))
         /\ InOrder(Start(node, t)) /\ Start(node, t).done = {}
         /\ Start(node, t) \in SearchState
<1> DEFINE s == Start(node, t)
<1>1. s.order = <<node>> /\ s.done = {} /\ s.via = [n \in Nodes |-> 0]
      /\ s.arr = [n \in Nodes |-> IF n = node THEN t ELSE Unreached]
  BY DEF Start
<1>2. Met(s) = {node}
  <2> HIDE DEF s
  <2> QED BY <1>1 DEF Met
<1>3. s \in SearchState
  BY RoutingAssumption DEF SearchState, Start
<1>4. s.arr[node] = t /\ s.via[node] = 0 /\ \A n \in Nodes : n # node => s.arr[n] = Unreached /\ s.via[n] = 0
  <2> HIDE DEF s
  <2> QED BY <1>1
<1> HIDE DEF s
<1>5. SearchInv(plan, free, node, t, bytes, exclude, s)
  BY <1>1, <1>2, <1>3, <1>4 DEF SearchInv
<1>6. InOrder(s)
  BY <1>1 DEF InOrder
<1> QED
  BY <1>1, <1>3, <1>5, <1>6 DEF s

\* Contact j brings the bundle from u to its other end sooner.
Better(plan, free, node, bytes, exclude, u, v, j) ==
  /\ plan[j].from = u /\ plan[j].to \notin v.done /\ plan[j].to \notin exclude
  /\ Can(plan, free, node, bytes, j, v.arr[u])
  /\ Reach(plan, free, node, bytes, j, v.arr[u]) < v.arr[plan[j].to]

\* What one relaxation does to the state v of the search, w being the next.
RelaxOutcome(plan, free, node, bytes, exclude, u, v, j, w) ==
  /\ w \in SearchState /\ w.done = v.done
  /\ ~Better(plan, free, node, bytes, exclude, u, v, j) => w = v
  /\ Better(plan, free, node, bytes, exclude, u, v, j) =>
       /\ w.arr = [v.arr EXCEPT ![plan[j].to] = Reach(plan, free, node, bytes, j, v.arr[u])]
       /\ w.via = [v.via EXCEPT ![plan[j].to] = j]
       /\ Met(w) = Met(v) \cup {plan[j].to}

\* The parts of a state of the search.
LEMMA StateTypes ==
  ASSUME NEW s \in SearchState
  PROVE  /\ s.order \in Seq(Nodes) /\ s.arr \in [Nodes -> Nat] /\ s.via \in [Nodes -> Nat]
         /\ s.done \in SUBSET Nodes /\ Met(s) \subseteq Nodes
         /\ \A n \in Nodes : s.arr[n] \in Nat /\ s.via[n] \in Nat
<1>1. s.order \in Seq(Nodes) /\ s.arr \in [Nodes -> Nat] /\ s.via \in [Nodes -> Nat] /\ s.done \in SUBSET Nodes
  BY DEF SearchState
<1>2. Met(s) \subseteq Nodes
  BY <1>1 DEF Met
<1> QED
  BY <1>1, <1>2

\* What trying one contact can come to: nothing changes, a node is met for the
\* first time, or a node that was met is reached sooner.
LEMMA RelaxCases ==
  ASSUME NEW plan \in Seq(ContactSet), NEW free \in [DOMAIN plan -> Nat], NEW node \in Nodes,
         NEW bytes \in Nat, NEW exclude, NEW u, NEW v \in SearchState, NEW j \in DOMAIN plan,
         NEW w, w = Relax(plan, free, node, bytes, exclude, u, v, j)
  PROVE  RelaxOutcome(plan, free, node, bytes, exclude, u, v, j, w)
<1> DEFINE n == plan[j].to
           a == Reach(plan, free, node, bytes, j, v.arr[u])
           better == Better(plan, free, node, bytes, exclude, u, v, j)
           order == IF Contains(v.order, n) THEN v.order ELSE Append(v.order, n)
<1>0. v.order \in Seq(Nodes) /\ v.arr \in [Nodes -> Nat] /\ v.via \in [Nodes -> Nat] /\ v.done \in SUBSET Nodes
      /\ v = [order |-> v.order, arr |-> v.arr, via |-> v.via, done |-> v.done]
  BY DEF SearchState
<1>1. n \in Nodes /\ plan[j].from \in Nodes /\ j \in Nat
  BY ContactFacts
<1>2. plan[j].from = u => (IF u = node THEN free[j] ELSE 0) = FreeOn(plan, free, node, j)
  BY DEF FreeOn
<1>3. ~better => w = v
  BY <1>2 DEF Relax, Reach, Can, Better
<1>4. better => w = [v EXCEPT !.arr[n] = a, !.via[n] = j, !.order = order]
  BY <1>2 DEF Relax, Reach, Can, Better
<1>5. ASSUME better
      PROVE  /\ w \in SearchState /\ w.done = v.done
             /\ w.arr = [v.arr EXCEPT ![n] = a] /\ w.via = [v.via EXCEPT ![n] = j]
             /\ Met(w) = Met(v) \cup {n}
  <2>1. a \in Nat
    <3>1. u \in Nodes
      BY <1>1, <1>5 DEF Better
    <3>2. v.arr[u] \in Nat
      BY <1>0, <3>1
    <3> QED BY <3>2, ReachFacts
  <2>2. /\ w.done = v.done /\ w.arr = [v.arr EXCEPT ![n] = a]
        /\ w.via = [v.via EXCEPT ![n] = j] /\ w.order = order
        /\ w = [order |-> w.order, arr |-> w.arr, via |-> w.via, done |-> w.done]
    <3> HIDE DEF a, n, order, better
    <3> QED BY <1>0, <1>4, <1>5
  <2>3. order \in Seq(Nodes)
    <3> HIDE DEF n
    <3> QED BY <1>0, <1>1
  <2>4. {order[i] : i \in DOMAIN order} = Met(v) \cup {n}
    <3>1. CASE Contains(v.order, n)
      <4>1. n \in Met(v)
        BY <1>0, <3>1, SMTT(60) DEF Met, Contains
      <4>2. order = v.order
        BY <3>1
      <4> HIDE DEF n, order
      <4> QED BY <4>1, <4>2 DEF Met
    <3>2. CASE ~Contains(v.order, n)
      <4>1. order = Append(v.order, n)
        BY <3>2
      <4> HIDE DEF n, order
      <4> DEFINE l == Len(v.order)
      <4>2. DOMAIN order = 1 .. l + 1 /\ DOMAIN v.order = 1 .. l /\ l \in Nat
        BY <1>0, <1>1, <4>1
      <4>3. order[l + 1] = n /\ \A i \in 1 .. l : order[i] = v.order[i]
        BY <1>0, <1>1, <4>1
      <4> HIDE DEF l
      <4>4. 1 .. l + 1 = (1 .. l) \cup {l + 1}
        BY <4>2
      <4> QED BY <4>2, <4>3, <4>4, SMTT(60) DEF Met
    <3> QED BY <3>1, <3>2
  <2>5. w \in SearchState
    <3> HIDE DEF a, n, order, better
    <3>1. w.arr \in [Nodes -> Nat] /\ w.via \in [Nodes -> Nat]
      BY <1>0, <1>1, <2>1, <2>2, SMTT(60)
    <3>2. w.order \in Seq(Nodes) /\ w.done \in SUBSET Nodes
      BY <1>0, <2>2, <2>3
    <3> QED BY <2>2, <3>1, <3>2 DEF SearchState
  <2>6. Met(w) = Met(v) \cup {n}
    <3> HIDE DEF order, n
    <3> QED BY <2>2, <2>4, ZenonT(60) DEF Met
  <2> HIDE DEF a, n, order
  <2> QED BY <2>2, <2>5, <2>6
<1> HIDE DEF a, n, better
<1>6. w \in SearchState /\ w.done = v.done
  BY <1>3, <1>5
<1>7. /\ w \in SearchState /\ w.done = v.done
      /\ ~better => w = v
      /\ better => /\ w.arr = [v.arr EXCEPT ![n] = a] /\ w.via = [v.via EXCEPT ![n] = j]
                   /\ Met(w) = Met(v) \cup {n}
  BY <1>3, <1>5, <1>6
<1> QED
  BY <1>7 DEF a, n, better, RelaxOutcome

\* The invariant of the loop over the contacts.
Settling(plan, free, node, t, bytes, exclude, s, u, v, j) ==
  /\ SearchInv(plan, free, node, t, bytes, exclude, v)
  /\ InOrder(v)
  /\ \A d \in v.done : v.arr[d] <= v.arr[u]
  /\ RelaxedFrom(plan, free, node, bytes, exclude, v, s.done)
  /\ \A i \in 1 .. j : plan[i].from = u => Relaxed(plan, free, node, bytes, exclude, v, i)
  /\ Midway(plan, free, node, bytes, exclude, s, u, v)

\* Trying one more of a node's contacts keeps what holds while it is settled.
LEMMA RelaxKeeps ==
  ASSUME NEW plan \in Seq(ContactSet), NEW free \in [DOMAIN plan -> Nat], NEW node \in Nodes,
         NEW t \in Nat, NEW bytes \in Nat, NEW exclude, NEW s \in SearchState, NEW u \in Nodes,
         NEW v \in SearchState, NEW j \in DOMAIN plan,
         Settling(plan, free, node, t, bytes, exclude, s, u, v, j - 1),
         NEW w, w = Relax(plan, free, node, bytes, exclude, u, v, j)
  PROVE  Settling(plan, free, node, t, bytes, exclude, s, u, w, j)
<1> DEFINE n == plan[j].to
           a == Reach(plan, free, node, bytes, j, v.arr[u])
           better == Better(plan, free, node, bytes, exclude, u, v, j)
<1>0. v.arr \in [Nodes -> Nat] /\ v.via \in [Nodes -> Nat] /\ v.done \in SUBSET Nodes /\ Met(v) \subseteq Nodes
      /\ s.arr \in [Nodes -> Nat] /\ s.done \in SUBSET Nodes
  BY StateTypes
<1>1. n \in Nodes /\ plan[j].from \in Nodes /\ j \in Nat /\ j # 0
  BY ContactFacts
<1>2. /\ SearchInv(plan, free, node, t, bytes, exclude, v) /\ InOrder(v)
      /\ \A d \in v.done : v.arr[d] <= v.arr[u]
      /\ RelaxedFrom(plan, free, node, bytes, exclude, v, s.done)
      /\ \A i \in 1 .. j - 1 : plan[i].from = u => Relaxed(plan, free, node, bytes, exclude, v, i)
      /\ Midway(plan, free, node, bytes, exclude, s, u, v)
  BY DEF Settling
<1>3. /\ w \in SearchState /\ w.done = v.done
      /\ ~better => w = v
      /\ better => /\ w.arr = [v.arr EXCEPT ![n] = a] /\ w.via = [v.via EXCEPT ![n] = j]
                   /\ Met(w) = Met(v) \cup {n}
  <2>1. RelaxOutcome(plan, free, node, bytes, exclude, u, v, j, w)
    BY RelaxCases
  <2> QED BY <2>1 DEF RelaxOutcome
<1>4. v.done = s.done \cup {u} /\ v.arr[u] = s.arr[u] /\ u \in v.done
  BY <1>2 DEF Midway
<1>5. a \in Nat /\ v.arr[u] <= a /\ v.arr[u] \in Nat
  <2>1. v.arr[u] \in Nat
    BY <1>0
  <2> QED BY <2>1, ReachFacts
<1>6. CASE ~better
  <2>1. w = v
    BY <1>3, <1>6
  <2>2. plan[j].from = u => Relaxed(plan, free, node, bytes, exclude, v, j)
    <3>1. ASSUME plan[j].from = u, n \notin exclude, Can(plan, free, node, bytes, j, v.arr[u])
          PROVE  v.arr[n] <= a
      <4>1. CASE n \in v.done
        <5>1. v.arr[n] <= v.arr[u]
          BY <1>2, <4>1
        <5>2. v.arr[n] \in Nat
          BY <1>0, <1>1
        <5> HIDE DEF n, a
        <5> QED BY <1>5, <5>1, <5>2, SMTT(60)
      <4>2. CASE n \notin v.done
        <5>1. ~(a < v.arr[n])
          BY <1>6, <3>1, <4>2 DEF Better
        <5>2. v.arr[n] \in Nat
          BY <1>0, <1>1
        <5> HIDE DEF n, a
        <5> QED BY <1>5, <5>1, <5>2
      <4> QED BY <4>1, <4>2
    <3> QED BY <3>1 DEF Relaxed
  <2>3. \A i \in 1 .. j : plan[i].from = u => Relaxed(plan, free, node, bytes, exclude, v, i)
    BY <1>1, <1>2, <2>2
  <2> HIDE DEF n, a, better
  <2> QED BY <1>2, <2>1, <2>3 DEF Settling
<1>7. CASE better
  <2>0. /\ plan[j].from = u /\ n \notin v.done /\ n \notin exclude
        /\ Can(plan, free, node, bytes, j, v.arr[u]) /\ a < v.arr[n]
    BY <1>7 DEF Better
  <2>1. /\ w.arr = [v.arr EXCEPT ![n] = a] /\ w.via = [v.via EXCEPT ![n] = j]
        /\ Met(w) = Met(v) \cup {n} /\ w.done = v.done /\ w \in SearchState
    BY <1>3, <1>7
  <2> HIDE DEF n, a, better
  <2>2. /\ w.arr[n] = a /\ w.via[n] = j
        /\ \A m \in Nodes : m # n => w.arr[m] = v.arr[m] /\ w.via[m] = v.via[m]
        /\ \A m \in Nodes : w.arr[m] \in Nat /\ v.arr[m] \in Nat /\ w.arr[m] <= v.arr[m]
    <3>1. w.arr[n] = a /\ w.via[n] = j
      BY <1>0, <1>1, <2>1
    <3>2. \A m \in Nodes : m # n => w.arr[m] = v.arr[m] /\ w.via[m] = v.via[m]
      BY <1>0, <1>1, <2>1
    <3>3. \A m \in Nodes : v.arr[m] \in Nat
      BY <1>0
    <3> QED BY <1>5, <2>0, <3>1, <3>2, <3>3, SMTT(60)
  <2>3. \A d \in v.done : d # n /\ w.arr[d] = v.arr[d] /\ w.via[d] = v.via[d] /\ d \in Nodes
    BY <1>0, <2>0, <2>2
  <2>4. n # node
    BY <1>2, <1>5, <2>0, <2>2, <1>4, <1>1, SMTT(60) DEF SearchInv
  <2>5. v.arr[n] <= Unreached
    <3>1. CASE n \in Met(v)
      BY <1>2, <2>2, <1>1, <2>4, <3>1, RoutingAssumption, SMTT(60) DEF SearchInv, ReachedBy
    <3>2. CASE n \notin Met(v)
      BY <1>2, <1>1, <3>2, RoutingAssumption DEF SearchInv
    <3> QED BY <3>1, <3>2
  <2>6. ReachedBy(plan, free, node, bytes, exclude, w, n)
    <3>1. a < Unreached
      BY <1>1, <1>5, <2>0, <2>2, <2>5, RoutingAssumption, SMTT(60)
    <3>2. w.arr[u] = v.arr[u] /\ u \in w.done
      BY <1>4, <2>1, <2>3
    <3> QED BY <2>0, <2>2, <3>1, <3>2 DEF ReachedBy, n, a
  <2>7. ASSUME NEW m \in Met(v), m # node, m # n
        PROVE  ReachedBy(plan, free, node, bytes, exclude, w, m)
    <3>1. ReachedBy(plan, free, node, bytes, exclude, v, m) /\ m \in Nodes
      BY <1>0, <1>2, <2>7 DEF SearchInv
    <3>2. w.arr[m] = v.arr[m] /\ w.via[m] = v.via[m]
      BY <2>2, <2>7, <3>1
    <3>3. w.arr[plan[v.via[m]].from] = v.arr[plan[v.via[m]].from]
      BY <2>3, <3>1 DEF ReachedBy
    <3> QED BY <2>1, <3>1, <3>2, <3>3 DEF ReachedBy
  <2>8. SearchInv(plan, free, node, t, bytes, exclude, w)
    <3>1. node \in Met(w) /\ w.done \subseteq Met(w) /\ w.arr[node] = t /\ w.via[node] = 0
      BY <1>2, <2>1, <2>2, <2>4 DEF SearchInv
    <3>2. \A m \in Nodes : m \notin Met(w) => w.arr[m] = Unreached /\ w.via[m] = 0
      BY <1>2, <2>1, <2>2 DEF SearchInv
    <3>3. \A m \in Met(w) : t <= w.arr[m]
      <4>1. t <= v.arr[u]
        BY <1>2, <1>4 DEF SearchInv
      <4>2. t <= a
        BY <1>5, <4>1
      <4> QED BY <1>0, <1>2, <2>1, <2>2, <4>2 DEF SearchInv
    <3>4. \A m \in Met(w) : m # node => ReachedBy(plan, free, node, bytes, exclude, w, m)
      BY <2>1, <2>6, <2>7
    <3> QED BY <2>1, <3>1, <3>2, <3>3, <3>4 DEF SearchInv
  <2>9. InOrder(w)
    <3>1. ASSUME NEW d \in w.done, NEW m \in Met(w) \ w.done PROVE w.arr[d] <= w.arr[m]
      <4>1. d \in v.done /\ d \in Nodes /\ w.arr[d] = v.arr[d] /\ v.arr[d] <= v.arr[u]
        BY <1>2, <2>1, <2>3
      <4>2. CASE m = n
        <5>1. v.arr[d] \in Nat
          BY <4>1, <2>2
        <5> QED BY <4>1, <4>2, <2>2, <1>5, <5>1
      <4>3. CASE m # n
        <5>1. m \in Met(v) \ v.done /\ m \in Nodes
          BY <1>0, <2>1, <4>3
        <5> QED BY <4>1, <4>3, <5>1, <2>2, <1>2 DEF InOrder
      <4> QED BY <4>2, <4>3
    <3> QED BY <3>1 DEF InOrder
  <2>10. \A d \in w.done : w.arr[d] <= w.arr[u]
    BY <1>2, <1>4, <2>1, <2>3
  <2>11. ASSUME NEW i \in DOMAIN plan, plan[i].from \in v.done,
                Relaxed(plan, free, node, bytes, exclude, v, i)
         PROVE  Relaxed(plan, free, node, bytes, exclude, w, i)
    <3>1. w.arr[plan[i].from] = v.arr[plan[i].from] /\ v.arr[plan[i].from] \in Nat
      BY <1>0, <2>3, <2>11
    <3>2. w.arr[plan[i].to] <= v.arr[plan[i].to] /\ w.arr[plan[i].to] \in Nat /\ v.arr[plan[i].to] \in Nat
      BY <2>2, ContactFacts
    <3>3. Reach(plan, free, node, bytes, i, v.arr[plan[i].from]) \in Nat
      BY <3>1, ReachFacts
    <3> QED BY <2>11, <3>1, <3>2, <3>3, SMTT(60) DEF Relaxed
  <2>12. RelaxedFrom(plan, free, node, bytes, exclude, w, s.done)
    BY <1>2, <1>4, <2>11 DEF RelaxedFrom
  <2>13. Relaxed(plan, free, node, bytes, exclude, w, j)
    <3>1. w.arr[u] = v.arr[u]
      BY <1>4, <2>3
    <3> QED BY <2>0, <2>2, <3>1, <1>5 DEF Relaxed, n, a
  <2>14. \A i \in 1 .. j : plan[i].from = u => Relaxed(plan, free, node, bytes, exclude, w, i)
    <3>1. ASSUME NEW i \in 1 .. j, plan[i].from = u PROVE Relaxed(plan, free, node, bytes, exclude, w, i)
      <4>1. i \in DOMAIN plan
        BY <1>1
      <4>2. CASE i = j
        BY <2>13, <4>2
      <4>3. CASE i # j
        BY <1>1, <1>2, <1>4, <2>11, <3>1, <4>1, <4>3
      <4> QED BY <4>2, <4>3
    <3> QED BY <3>1
  <2>15. Midway(plan, free, node, bytes, exclude, s, u, w)
    <3>1. w.done = s.done \cup {u} /\ \A d \in w.done : w.arr[d] = s.arr[d]
      BY <1>2, <1>4, <2>1, <2>3 DEF Midway
    <3>2. v.arr[n] <= s.arr[n] /\ s.arr[n] \in Nat
      <4>1. v.arr[n] = s.arr[n] \/ v.arr[n] < s.arr[n]
        BY <1>1, <1>2 DEF Midway
      <4>2. v.arr[n] \in Nat /\ s.arr[n] \in Nat
        BY <1>0, <1>1
      <4> QED BY <4>1, <4>2, SMTT(60)
    <3>3. /\ plan[j].from = u /\ plan[j].to = n /\ n \notin exclude
          /\ Can(plan, free, node, bytes, j, s.arr[u])
          /\ w.arr[n] = Reach(plan, free, node, bytes, j, s.arr[u])
          /\ w.arr[n] < s.arr[n] /\ w.arr[n] < Unreached
      BY <1>1, <1>4, <1>5, <2>0, <2>2, <2>6, <3>2, SMTT(60) DEF n, a, ReachedBy
    <3>4. \A m \in Nodes : m # n => w.arr[m] = v.arr[m]
      BY <2>2
    <3> QED BY <1>2, <3>1, <3>3, <3>4 DEF Midway
  <2> QED BY <2>8, <2>9, <2>10, <2>12, <2>14, <2>15 DEF Settling
<1> QED
  BY <1>6, <1>7

\* Where the search stands between two turns.
Standing(plan, free, node, t, bytes, exclude, s) ==
  /\ SearchInv(plan, free, node, t, bytes, exclude, s)
  /\ InOrder(s)
  /\ RelaxedFrom(plan, free, node, bytes, exclude, s, s.done)

\* The search is over when no open node is nearer than the destination.
Over(dst, s) == Nearest(s) = 0 \/ s.order[Nearest(s)] = dst

\* What a turn makes of s, doing the node u.
Settled(plan, free, node, t, bytes, exclude, s, u, w) ==
  /\ Standing(plan, free, node, t, bytes, exclude, w)
  /\ Midway(plan, free, node, bytes, exclude, s, u, w)
  /\ u \in Nodes \ s.done

\* A turn of the search does one more node.
LEMMA SettleKeeps ==
  ASSUME NEW plan \in Seq(ContactSet), NEW free \in [DOMAIN plan -> Nat], NEW node \in Nodes,
         NEW dst \in Nodes, NEW t \in Nat, NEW bytes \in Nat, NEW exclude,
         NEW s, Standing(plan, free, node, t, bytes, exclude, s),
         ~Over(dst, s)
  PROVE  Settled(plan, free, node, t, bytes, exclude, s, s.order[Nearest(s)],
                 Settle(plan, free, node, dst, bytes, exclude, s))
<1> SUFFICES ASSUME NEW u, u = s.order[Nearest(s)],
                    NEW w, w = Settle(plan, free, node, dst, bytes, exclude, s)
             PROVE  Settled(plan, free, node, t, bytes, exclude, s, u, w)
  OBVIOUS
<1>over. Nearest(s) # 0 /\ u # dst
  BY DEF Over
<1> DEFINE n == Len(plan)
           v0 == [s EXCEPT !.done = @ \cup {u}]
           Stays(v, j) == Settling(plan, free, node, t, bytes, exclude, s, u, v, j)
<1>0. n \in Nat /\ DOMAIN plan = 1 .. n
  OBVIOUS
<1>1. /\ s \in SearchState /\ SearchInv(plan, free, node, t, bytes, exclude, s)
      /\ InOrder(s) /\ RelaxedFrom(plan, free, node, bytes, exclude, s, s.done)
  BY DEF Standing, SearchInv
<1>2. u \in Met(s) \ s.done /\ u \in Nodes /\ \A m \in Met(s) \ s.done : s.arr[u] <= s.arr[m]
  BY <1>1, <1>over, NearestFacts, StateTypes
<1>3. /\ v0 \in SearchState /\ v0.arr = s.arr /\ v0.via = s.via /\ v0.order = s.order
      /\ v0.done = s.done \cup {u}
  <2>1. s = [order |-> s.order, arr |-> s.arr, via |-> s.via, done |-> s.done]
    BY <1>1 DEF SearchState
  <2>2. v0 = [order |-> s.order, arr |-> s.arr, via |-> s.via, done |-> s.done \cup {u}]
    <3>1. PICK o, a, v, d : s = [order |-> o, arr |-> a, via |-> v, done |-> d]
      BY <2>1
    <3> HIDE <2>1
    <3>2. \A x : [s EXCEPT !.done = x] = [order |-> o, arr |-> a, via |-> v, done |-> x]
      BY <3>1
    <3>3. s.order = o /\ s.arr = a /\ s.via = v /\ s.done = d
      BY <3>1
    <3> QED BY <3>2, <3>3
  <2>3. s.order \in Seq(Nodes) /\ s.arr \in [Nodes -> Nat] /\ s.via \in [Nodes -> Nat]
        /\ s.done \cup {u} \in SUBSET Nodes
    BY <1>1, <1>2, StateTypes
  <2> HIDE DEF v0
  <2> QED BY <2>2, <2>3 DEF SearchState
<1>4. Stays(v0, 0)
  <2> HIDE DEF v0
  <2>1. Met(v0) = Met(s)
    BY <1>3 DEF Met
  <2>2. SearchInv(plan, free, node, t, bytes, exclude, v0)
    <3>1. \A m \in Met(s) : m # node => ReachedBy(plan, free, node, bytes, exclude, v0, m)
      BY <1>1, <1>3 DEF SearchInv, ReachedBy
    <3> QED BY <1>1, <1>2, <1>3, <2>1, <3>1 DEF SearchInv
  <2>3. InOrder(v0)
    BY <1>1, <1>2, <1>3, <2>1 DEF InOrder
  <2>4. \A d \in v0.done : v0.arr[d] <= v0.arr[u]
    <3>1. \A d \in s.done : s.arr[d] <= s.arr[u]
      BY <1>1, <1>2 DEF InOrder
    <3>2. s.arr[u] \in Nat
      BY <1>1, <1>2, StateTypes
    <3> QED BY <1>3, <3>1, <3>2
  <2>5. RelaxedFrom(plan, free, node, bytes, exclude, v0, s.done)
    BY <1>1, <1>3 DEF RelaxedFrom, Relaxed
  <2>6. Midway(plan, free, node, bytes, exclude, s, u, v0)
    BY <1>3 DEF Midway
  <2> QED BY <2>2, <2>3, <2>4, <2>5, <2>6 DEF Settling
<1>5. \A v \in SearchState : \A i \in 1 .. n :
        Relax(plan, free, node, bytes, exclude, u, v, [j \in DOMAIN plan |-> j][i]) \in SearchState
  <2>1. ASSUME NEW v \in SearchState, NEW i \in DOMAIN plan
        PROVE  Relax(plan, free, node, bytes, exclude, u, v, i) \in SearchState
    <3>1. RelaxOutcome(plan, free, node, bytes, exclude, u, v, i, Relax(plan, free, node, bytes, exclude, u, v, i))
      BY RelaxCases
    <3> QED BY <3>1 DEF RelaxOutcome
  <2> QED BY <1>0, <2>1
<1>6. PICK h \in [0 .. n -> SearchState] :
        /\ h[0] = v0 /\ h[n] = w
        /\ \A i \in 1 .. n : h[i] = Relax(plan, free, node, bytes, exclude, u, h[i - 1], [j \in DOMAIN plan |-> j][i])
  <2>1. \E h \in [0 .. n -> SearchState] : SettleRun(plan, free, node, dst, bytes, exclude, s, h)
    <3> HIDE DEF v0
    <3> QED BY <1>3, <1>5, <1>over, SettleIterates DEF v0
  <2> QED BY <2>1 DEF SettleRun
<1>7. \A i \in 1 .. n : h[i] = Relax(plan, free, node, bytes, exclude, u, h[i - 1], i) /\ h[i - 1] \in SearchState
  BY <1>0, <1>6
<1> DEFINE P == {j \in Nat : j <= n => Stays(h[j], j)}
<1>8. 0 \in P
  <2> HIDE DEF v0, Stays
  <2> QED BY <1>4, <1>6
<1>9. ASSUME NEW j \in Nat, j \in P PROVE j + 1 \in P
  <2> SUFFICES ASSUME j + 1 <= n PROVE Stays(h[j + 1], j + 1)
    OBVIOUS
  <2>1. j <= n /\ j + 1 \in DOMAIN plan /\ j + 1 \in 1 .. n /\ (j + 1) - 1 = j
    BY <1>0
  <2>2. Stays(h[j], j)
    <3> HIDE DEF Stays
    <3> QED BY <1>9, <2>1
  <2>3. h[j + 1] = Relax(plan, free, node, bytes, exclude, u, h[j], j + 1) /\ h[j] \in SearchState
    <3> HIDE DEF n
    <3> QED BY <1>7, <2>1
  <2> HIDE DEF n
  <2> QED BY <1>1, <1>2, <2>1, <2>2, <2>3, RelaxKeeps
<1>10. \A j \in Nat : j \in P
  <2> HIDE DEF P
  <2> QED BY <1>8, <1>9, Induction
<1>11. Stays(w, n)
  <2> HIDE DEF Stays
  <2> QED BY <1>0, <1>6, <1>10
<1>12. RelaxedFrom(plan, free, node, bytes, exclude, w, w.done)
  <2>1. w.done = s.done \cup {u}
    BY <1>11 DEF Settling, Midway
  <2> QED BY <1>0, <1>11, <2>1 DEF Settling, RelaxedFrom
<1> QED
  BY <1>2, <1>11, <1>12 DEF Settling, Standing, Settled

\* The search ends with nothing left to settle, after at most a round for each
\* node (ssi/cgr.mjs).
LEMMA SearchFacts ==
  ASSUME NEW plan \in Seq(ContactSet), NEW free \in [DOMAIN plan -> Nat], NEW node \in Nodes,
         NEW dst \in Nodes, NEW t \in Nat, NEW bytes \in Nat, NEW exclude,
         NEW s, s = Search(plan, free, node, dst, t, bytes, exclude)
  PROVE  /\ Standing(plan, free, node, t, bytes, exclude, s) /\ Over(dst, s) /\ dst \notin s.done
         /\ \E h \in [0 .. Cardinality(Nodes) -> SearchState] :
              /\ h[0] = Start(node, t) /\ h[Cardinality(Nodes)] = s
              /\ \A i \in 1 .. Cardinality(Nodes) :
                   h[i] = h[i - 1] \/ \E u \in Nodes : Midway(plan, free, node, bytes, exclude, h[i - 1], u, h[i])
<1> DEFINE N == Cardinality(Nodes)
           Good(x) == Standing(plan, free, node, t, bytes, exclude, x) /\ dst \notin x.done
           V == {x \in SearchState : Good(x)}
           Turn(x) == Settle(plan, free, node, dst, bytes, exclude, x)
<1>0. N \in Nat /\ N # 0 /\ IsFiniteSet(Nodes)
  BY RoutingAssumption, FS_CardinalityType, FS_EmptySet
<1>1. \A x : Over(dst, x) => Turn(x) = x
  BY DEF Settle, Over
<1>2. ASSUME NEW x \in V, ~Over(dst, x)
      PROVE  \E u \in Nodes : /\ u \notin x.done /\ u # dst /\ Turn(x) \in V
                              /\ Midway(plan, free, node, bytes, exclude, x, u, Turn(x))
  <2> DEFINE u == x.order[Nearest(x)]
  <2>1. Nearest(x) # 0 /\ u # dst
    BY <1>2 DEF Over
  <2>2. Standing(plan, free, node, t, bytes, exclude, x) /\ dst \notin x.done
    BY <1>2
  <2>3. /\ Standing(plan, free, node, t, bytes, exclude, Turn(x))
        /\ Midway(plan, free, node, bytes, exclude, x, u, Turn(x)) /\ u \in Nodes \ x.done
    <3>1. Settled(plan, free, node, t, bytes, exclude, x, u, Turn(x))
      BY <1>2, <2>2, SettleKeeps
    <3> QED BY <3>1 DEF Settled
  <2>4. Turn(x).done = x.done \cup {u}
    BY <2>3 DEF Midway
  <2>5. Turn(x) \in SearchState
    BY <2>3 DEF Standing, SearchInv
  <2> HIDE DEF u, Turn
  <2>6. Turn(x) \in V
    BY <2>1, <2>2, <2>3, <2>4, <2>5
  <2> QED BY <2>1, <2>3, <2>6
<1>3. Start(node, t) \in V
  <2>1. /\ SearchInv(plan, free, node, t, bytes, exclude, Start(node, t))
        /\ InOrder(Start(node, t)) /\ Start(node, t).done = {} /\ Start(node, t) \in SearchState
    BY StartFacts
  <2> QED BY <2>1 DEF Standing, RelaxedFrom
<1>4. \A x \in V : \A i \in 1 .. N : Turn(x) \in V
  <2> HIDE DEF Turn, V
  <2> QED BY <1>1, <1>2
<1>5. PICK h \in [0 .. N -> V] : SearchRun(plan, free, node, dst, t, bytes, exclude, h)
  <2> HIDE DEF V
  <2> QED BY <1>3, <1>4, SearchIterates
<1>6. /\ h[0] = Start(node, t) /\ h[N] = s
      /\ \A i \in 1 .. N : h[i] = Turn(h[i - 1])
  BY <1>5 DEF SearchRun
<1>7. h \in [0 .. N -> SearchState] /\ s \in V
  <2>1. V \subseteq SearchState
    OBVIOUS
  <2> HIDE DEF V, N
  <2> QED BY <1>0, <1>5, <1>6, <2>1
<1>8. ASSUME NEW i \in 1 .. N
      PROVE  h[i] = h[i - 1] \/ \E u \in Nodes : Midway(plan, free, node, bytes, exclude, h[i - 1], u, h[i])
  <2>1. i - 1 \in 0 .. N
    BY <1>0
  <2>2. h[i - 1] \in V /\ h[i] = Turn(h[i - 1])
    <3> HIDE DEF V, N, Turn
    <3> QED BY <1>5, <1>6, <2>1
  <2> HIDE DEF V, N, Turn
  <2> QED BY <1>1, <1>2, <2>2
<1> DEFINE Done(i) == h[i].done
           P == {i \in Nat : i <= N => Over(dst, h[i]) \/ Cardinality(Done(i)) >= i}
<1>9. 0 \in P
  <2>1. Done(0) = {}
    BY <1>6 DEF Start
  <2>2. Cardinality(Done(0)) = 0
    BY <2>1, FS_EmptySet
  <2> HIDE DEF Done
  <2> QED BY <2>2
<1>10. ASSUME NEW i \in Nat, i \in P PROVE i + 1 \in P
  <2> SUFFICES ASSUME i + 1 <= N PROVE Over(dst, h[i + 1]) \/ Cardinality(Done(i + 1)) >= i + 1
    OBVIOUS
  <2>1. i \in 0 .. N /\ i + 1 \in 1 .. N /\ (i + 1) - 1 = i
    <3> HIDE DEF N
    <3> QED BY <1>0
  <2>2. h[i] \in V /\ h[i + 1] = Turn(h[i])
    <3> HIDE DEF V, N, Turn
    <3> QED BY <1>5, <1>6, <2>1
  <2>3. Over(dst, h[i]) \/ Cardinality(Done(i)) >= i
    <3> HIDE DEF Done, V, Turn
    <3> QED BY <1>10, <2>1
  <2>4. CASE Over(dst, h[i])
    <3>1. h[i + 1] = h[i]
      <4> HIDE DEF Turn, V
      <4> QED BY <1>1, <2>2, <2>4
    <3> QED BY <2>4, <3>1
  <2>5. CASE ~Over(dst, h[i])
    <3>1. PICK u \in Nodes : u \notin Done(i) /\ Midway(plan, free, node, bytes, exclude, h[i], u, h[i + 1])
      <4> HIDE DEF Turn, V
      <4> QED BY <1>2, <2>2, <2>5
    <3>2. Done(i + 1) = Done(i) \cup {u}
      BY <3>1 DEF Midway
    <3>3. IsFiniteSet(Done(i))
      <4>1. Done(i) \subseteq Nodes
        BY <2>2 DEF SearchState
      <4> QED BY <1>0, <4>1, FS_Subset
    <3>4. Cardinality(Done(i + 1)) = Cardinality(Done(i)) + 1
      <4> HIDE DEF Done
      <4> QED BY <3>1, <3>2, <3>3, FS_AddElement
    <3>5. Cardinality(Done(i)) \in Nat
      BY <3>3, FS_CardinalityType
    <3> HIDE DEF Done, V, Turn
    <3> QED BY <2>3, <2>5, <3>4, <3>5
  <2> QED BY <2>4, <2>5
<1>11. \A i \in Nat : i \in P
  <2> HIDE DEF P
  <2> QED BY <1>9, <1>10, Induction
<1>12. Over(dst, s)
  <2>1. SUFFICES ASSUME ~Over(dst, s) PROVE FALSE
    OBVIOUS
  <2>2. Cardinality(s.done) >= N
    <3>1. N \in P
      <4> HIDE DEF P, N
      <4> QED BY <1>0, <1>11
    <3> HIDE DEF V, N, Turn
    <3> QED BY <1>0, <1>6, <2>1, <3>1
  <2>3. s.done \subseteq Nodes \ {dst}
    BY <1>7 DEF SearchState
  <2>4. Cardinality(Nodes \ {dst}) = N - 1 /\ IsFiniteSet(Nodes \ {dst})
    BY <1>0, FS_RemoveElement
  <2>5. Cardinality(s.done) <= Cardinality(Nodes \ {dst}) /\ Cardinality(s.done) \in Nat
    BY <2>3, <2>4, FS_Subset, FS_CardinalityType
  <2> HIDE DEF N
  <2> QED BY <1>0, <2>2, <2>4, <2>5
<1> HIDE DEF N
<1> QED
  BY <1>6, <1>7, <1>8, <1>12 DEF N

\* What is reached with one contact more than before.
SoonerOutcome(plan, free, node, bytes, exclude, before, now) ==
  /\ now \in [Nodes -> Nat]
  /\ \A n \in Nodes : now[n] <= before[n]
  /\ \A i \in DOMAIN plan :
       /\ plan[i].to \notin exclude /\ before[plan[i].from] < Unreached
       /\ Can(plan, free, node, bytes, i, before[plan[i].from])
       => now[plan[i].to] <= Reach(plan, free, node, bytes, i, before[plan[i].from])
  /\ \A n \in Nodes :
       \/ now[n] = before[n]
       \/ \E i \in DOMAIN plan :
            /\ plan[i].to = n /\ n \notin exclude /\ before[plan[i].from] < Unreached
            /\ Can(plan, free, node, bytes, i, before[plan[i].from])
            /\ now[n] = Reach(plan, free, node, bytes, i, before[plan[i].from])

\* What one round of the reference definition gives each node.
LEMMA SoonerFacts ==
  ASSUME NEW plan \in Seq(ContactSet), NEW free \in [DOMAIN plan -> Nat], NEW node \in Nodes,
         NEW bytes \in Nat, NEW exclude, NEW before \in [Nodes -> Nat]
  PROVE  SoonerOutcome(plan, free, node, bytes, exclude, before,
                       Sooner(plan, free, node, bytes, exclude, before))
<1> DEFINE now == Sooner(plan, free, node, bytes, exclude, before)
           onTo(n) == {i \in DOMAIN plan :
                         /\ plan[i].to = n /\ n \notin exclude
                         /\ before[plan[i].from] < Unreached
                         /\ Can(plan, free, node, bytes, i, before[plan[i].from])}
           arrivals(n) == {Reach(plan, free, node, bytes, i, before[plan[i].from]) : i \in onTo(n)}
           all(n) == {before[n]} \cup arrivals(n)
<1>1. now = [n \in Nodes |-> Min(all(n))]
  BY DEF Sooner, Reach, Can, FreeOn
<1>2. \A i \in DOMAIN plan : plan[i].to \in Nodes /\ before[plan[i].from] \in Nat
                             /\ Reach(plan, free, node, bytes, i, before[plan[i].from]) \in Nat
  <2>1. ASSUME NEW i \in DOMAIN plan
        PROVE  plan[i].to \in Nodes /\ before[plan[i].from] \in Nat
               /\ Reach(plan, free, node, bytes, i, before[plan[i].from]) \in Nat
    <3>1. plan[i].to \in Nodes /\ before[plan[i].from] \in Nat
      BY ContactFacts
    <3> QED BY <3>1, ReachFacts
  <2> QED BY <2>1
<1>3. ASSUME NEW n \in Nodes
      PROVE  /\ all(n) \in SUBSET Nat /\ now[n] \in all(n)
             /\ \A y \in all(n) : now[n] <= y
  <2>1. all(n) \in SUBSET Nat /\ all(n) # {}
    BY <1>2
  <2>2. now[n] = Min(all(n))
    <3> HIDE DEF now, all
    <3> QED BY <1>1
  <2> HIDE DEF now, all
  <2> QED BY <2>1, <2>2, MinOf
<1>4. now \in [Nodes -> Nat]
  <2>1. now = [n \in Nodes |-> now[n]]
    <3> HIDE DEF all
    <3> QED BY <1>1
  <2>2. \A n \in Nodes : now[n] \in Nat
    <3> HIDE DEF now, all
    <3> QED BY <1>3
  <2> HIDE DEF now
  <2> QED BY <2>1, <2>2
<1> HIDE DEF now
<1>5. \A n \in Nodes : now[n] <= before[n]
  BY <1>3
<1>6. ASSUME NEW i \in DOMAIN plan, plan[i].to \notin exclude, before[plan[i].from] < Unreached,
             Can(plan, free, node, bytes, i, before[plan[i].from])
      PROVE  now[plan[i].to] <= Reach(plan, free, node, bytes, i, before[plan[i].from])
  <2>1. i \in onTo(plan[i].to)
    BY <1>6
  <2>2. Reach(plan, free, node, bytes, i, before[plan[i].from]) \in all(plan[i].to)
    BY <2>1
  <2> HIDE DEF all
  <2> QED BY <1>2, <1>3, <2>2
<1>7. ASSUME NEW n \in Nodes
      PROVE  \/ now[n] = before[n]
             \/ \E i \in DOMAIN plan :
                  /\ plan[i].to = n /\ n \notin exclude /\ before[plan[i].from] < Unreached
                  /\ Can(plan, free, node, bytes, i, before[plan[i].from])
                  /\ now[n] = Reach(plan, free, node, bytes, i, before[plan[i].from])
  BY <1>3, SMTT(60)
<1> QED
  BY <1>4, <1>5, <1>6, <1>7 DEF SoonerOutcome, now

\* The function by which Soonest is defined exists.
SoonestRun(plan, free, node, t, bytes, exclude, at) ==
  /\ at[0] = Start(node, t).arr
  /\ \A k \in 1 .. Cardinality(Nodes) : at[k] = Sooner(plan, free, node, bytes, exclude, at[k - 1])
  /\ at[Cardinality(Nodes)] = Soonest(plan, free, node, t, bytes, exclude)

\* The rounds of the reference definition, one after another.
LEMMA SoonestExists ==
  ASSUME NEW plan \in Seq(ContactSet), NEW free \in [DOMAIN plan -> Nat], NEW node \in Nodes,
         NEW t \in Nat, NEW bytes \in Nat, NEW exclude
  PROVE  \E at \in [0 .. Cardinality(Nodes) -> [Nodes -> Nat]] :
           SoonestRun(plan, free, node, t, bytes, exclude, at)
<1> DEFINE N == Cardinality(Nodes)
           V == [Nodes -> Nat]
           b == Start(node, t).arr
           Next1(x) == Sooner(plan, free, node, bytes, exclude, x)
           F == [p \in V \X (1 .. N) |-> Next1(p[1])]
           Body(g) == [k \in 0 .. N |-> IF k = 0 THEN b ELSE Next1(g[k - 1])]
           at == CHOOSE g : g = Body(g)
<1>0. N \in Nat /\ b \in V
  <2>1. Start(node, t) \in SearchState
    BY StartFacts
  <2> QED BY <2>1, RoutingAssumption, FS_CardinalityType, StateTypes
<1>1. \A x \in V : Next1(x) \in V
  <2>1. ASSUME NEW x \in V PROVE Next1(x) \in V
    <3>1. SoonerOutcome(plan, free, node, bytes, exclude, x, Next1(x))
      BY SoonerFacts
    <3> QED BY <3>1 DEF SoonerOutcome
  <2> HIDE DEF V, Next1
  <2> QED BY <2>1
<1> HIDE DEF N, V, b, Next1
<1>2. F \in [V \X (1 .. N) -> V] /\ \A x \in V : \A k \in 1 .. N : F[<<x, k>>] = Next1(x)
  BY <1>1
<1>3. PICK h \in [0 .. N -> V] : \E last : Iterates(h, b, N, F, last)
  <2> HIDE DEF F
  <2> QED BY <1>0, <1>2, IterationExists
<1>4. h[0] = b /\ \A k \in 1 .. N : h[k] = Next1(h[k - 1])
  <2>1. \A k \in 1 .. N : h[k - 1] \in V /\ h[k] = F[<<h[k - 1], k>>]
    <3> HIDE DEF F
    <3> QED BY <1>0, <1>3, SMTT(60) DEF Iterates
  <2> HIDE DEF F
  <2> QED BY <1>2, <1>3, <2>1 DEF Iterates
<1>5. h = Body(h)
  BY <1>0, <1>4
<1>6. at = Body(at)
  <2> HIDE DEF Body
  <2> QED BY <1>5
<1> HIDE DEF at
<1>7. at[0] = b /\ \A k \in 1 .. N : at[k] = Next1(at[k - 1])
  BY <1>0, <1>6
<1> DEFINE P == {k \in Nat : k <= N => at[k] \in V}
<1>8. \A k \in Nat : k \in P
  <2>1. 0 \in P
    BY <1>0, <1>7
  <2>2. ASSUME NEW k \in Nat, k \in P PROVE k + 1 \in P
    <3>1. SUFFICES ASSUME k + 1 <= N PROVE at[k + 1] \in V
      OBVIOUS
    <3>2. at[k] \in V /\ k + 1 \in 1 .. N /\ (k + 1) - 1 = k
      BY <1>0, <2>2, <3>1
    <3> QED BY <1>1, <1>7, <3>2
  <2> HIDE DEF P
  <2> QED BY <2>1, <2>2, Induction
<1>9. at \in [0 .. N -> V]
  BY <1>0, <1>6, <1>8, SMTT(60)
<1>10. Soonest(plan, free, node, t, bytes, exclude) = at[N]
  BY DEF Soonest, at, N, b, Next1
<1> QED
  BY <1>7, <1>9, <1>10 DEF SoonestRun, N, V, b, Next1
----------------------------------------------------------------------------
\* The search finds the earliest arrival (ssi/cgr.mjs): no way over the plan
\* that keeps away from the excluded nodes is sooner at dst.
LEMMA SearchIsEarliest ==
  ASSUME NEW plan \in Seq(ContactSet), NEW free \in [DOMAIN plan -> Nat], NEW node \in Nodes,
         NEW dst \in Nodes, NEW t \in Nat, NEW bytes \in Nat, NEW exclude
  PROVE  Search(plan, free, node, dst, t, bytes, exclude).arr[dst]
           = Soonest(plan, free, node, t, bytes, exclude)[dst]
<1> DEFINE N == Cardinality(Nodes)
           Can1(i, x) == Can(plan, free, node, bytes, i, x)
           Reach1(i, x) == Reach(plan, free, node, bytes, i, x)
<1> SUFFICES ASSUME NEW s, s = Search(plan, free, node, dst, t, bytes, exclude)
             PROVE  s.arr[dst] = Soonest(plan, free, node, t, bytes, exclude)[dst]
  OBVIOUS
<1>0. N \in Nat
  BY RoutingAssumption, FS_CardinalityType
<1>1. /\ Standing(plan, free, node, t, bytes, exclude, s) /\ Over(dst, s) /\ dst \notin s.done
      /\ \E h \in [0 .. N -> SearchState] :
           /\ h[0] = Start(node, t) /\ h[N] = s
           /\ \A i \in 1 .. N :
                h[i] = h[i - 1] \/ \E u \in Nodes : Midway(plan, free, node, bytes, exclude, h[i - 1], u, h[i])
  BY SearchFacts, SMTT(60)
<1>2. PICK h \in [0 .. N -> SearchState] :
           /\ h[0] = Start(node, t) /\ h[N] = s
           /\ \A i \in 1 .. N :
                h[i] = h[i - 1] \/ \E u \in Nodes : Midway(plan, free, node, bytes, exclude, h[i - 1], u, h[i])
  BY <1>1
<1>3. PICK at \in [0 .. N -> [Nodes -> Nat]] : SoonestRun(plan, free, node, t, bytes, exclude, at)
  BY SoonestExists
<1>4. /\ at[0] = Start(node, t).arr /\ at[N] = Soonest(plan, free, node, t, bytes, exclude)
      /\ \A k \in 1 .. N : SoonerOutcome(plan, free, node, bytes, exclude, at[k - 1], at[k])
  <2>1. \A k \in 1 .. N : at[k - 1] \in [Nodes -> Nat]
    <3> HIDE DEF N
    <3> QED BY <1>0, <1>3
  <2>2. \A k \in 1 .. N : at[k] = Sooner(plan, free, node, bytes, exclude, at[k - 1])
    BY <1>3 DEF SoonestRun
  <2>3. \A k \in 1 .. N : SoonerOutcome(plan, free, node, bytes, exclude, at[k - 1], at[k])
    <3> HIDE DEF N
    <3> QED BY <2>1, <2>2, SoonerFacts, SMTT(60)
  <2> QED BY <1>3, <2>3 DEF SoonestRun
<1>5. /\ s \in SearchState /\ SearchInv(plan, free, node, t, bytes, exclude, s)
      /\ InOrder(s) /\ RelaxedFrom(plan, free, node, bytes, exclude, s, s.done)
  BY <1>1 DEF Standing, SearchInv
<1>6. s.arr \in [Nodes -> Nat] /\ Met(s) \subseteq Nodes /\ s.done \in SUBSET Nodes
  BY <1>5, StateTypes
<1>7. \A i \in DOMAIN plan : \A x \in Nat :
        /\ plan[i].to \in Nodes /\ plan[i].from \in Nodes
        /\ Reach1(i, x) \in Nat /\ x <= Reach1(i, x)
        /\ \A y \in Nat : x <= y => Reach1(i, x) <= Reach1(i, y) /\ (Can1(i, y) => Can1(i, x))
  <2>1. ASSUME NEW i \in DOMAIN plan, NEW x \in Nat
        PROVE  /\ plan[i].to \in Nodes /\ plan[i].from \in Nodes
               /\ Reach1(i, x) \in Nat /\ x <= Reach1(i, x)
               /\ \A y \in Nat : x <= y => Reach1(i, x) <= Reach1(i, y) /\ (Can1(i, y) => Can1(i, x))
    BY ContactFacts, ReachFacts
  <2> QED BY <2>1
<1> HIDE DEF Can1, Reach1
<1>8. at[N][dst] <= s.arr[dst]
  <2> DEFINE P == {k \in Nat : k <= N => \A n \in Nodes : at[k][n] <= h[k].arr[n]}
  <2>1. 0 \in P
    <3>1. Start(node, t).arr \in [Nodes -> Nat]
      BY StartFacts, StateTypes
    <3> QED BY <1>2, <1>4, <3>1
  <2>2. ASSUME NEW k \in Nat, k \in P PROVE k + 1 \in P
    <3>1. SUFFICES ASSUME k + 1 <= N, NEW n \in Nodes PROVE at[k + 1][n] <= h[k + 1].arr[n]
      OBVIOUS
    <3> HIDE DEF N
    <3>2. k + 1 \in 1 .. N /\ k \in 0 .. N /\ k + 1 \in 0 .. N /\ (k + 1) - 1 = k
      BY <1>0, <3>1
    <3>3. \A m \in Nodes : at[k][m] <= h[k].arr[m]
      BY <2>2, <3>2
    <3>4. h[k] \in SearchState /\ h[k + 1] \in SearchState
      BY <1>2, <3>2
    <3>5. \A m \in Nodes : h[k].arr[m] \in Nat /\ h[k + 1].arr[m] \in Nat /\ at[k][m] \in Nat /\ at[k + 1][m] \in Nat
      BY <1>3, <3>2, <3>4, StateTypes, ZenonT(60)
    <3>6. SoonerOutcome(plan, free, node, bytes, exclude, at[k], at[k + 1])
      BY <1>4, <3>2
    <3>7. at[k + 1][n] <= at[k][n]
      BY <3>6 DEF SoonerOutcome
    <3>8. CASE h[k + 1].arr[n] = h[k].arr[n]
      BY <3>3, <3>5, <3>7, <3>8, SMTT(60)
    <3>9. CASE h[k + 1].arr[n] # h[k].arr[n]
      <4>1. PICK u \in Nodes : Midway(plan, free, node, bytes, exclude, h[k], u, h[k + 1])
        BY <1>2, <3>2, <3>9
      <4>2. PICK i \in DOMAIN plan :
              /\ plan[i].from = u /\ plan[i].to = n /\ n \notin exclude
              /\ Can1(i, h[k].arr[u]) /\ h[k + 1].arr[n] = Reach1(i, h[k].arr[u])
              /\ h[k + 1].arr[n] < Unreached
        BY <3>9, <4>1 DEF Midway, Can1, Reach1
      <4>3. at[k][u] <= h[k].arr[u] /\ at[k][u] \in Nat /\ h[k].arr[u] \in Nat
        BY <3>3, <3>5
      <4>4. Can1(i, at[k][u]) /\ Reach1(i, at[k][u]) <= Reach1(i, h[k].arr[u])
            /\ h[k].arr[u] <= Reach1(i, h[k].arr[u]) /\ Reach1(i, at[k][u]) \in Nat /\ Reach1(i, h[k].arr[u]) \in Nat
        BY <1>7, <4>2, <4>3
      <4>5. at[k][u] < Unreached
        BY <4>2, <4>3, <4>4, RoutingAssumption, SMTT(60)
      <4>6. at[k + 1][n] <= Reach1(i, at[k][u])
        BY <3>6, <4>2, <4>4, <4>5 DEF SoonerOutcome, Can1, Reach1
      <4> QED BY <3>5, <4>2, <4>4, <4>6, SMTT(60)
    <3> QED BY <3>8, <3>9
  <2>3. \A k \in Nat : k \in P
    <3> HIDE DEF P
    <3> QED BY <2>1, <2>2, Induction
  <2> HIDE DEF N
  <2> QED BY <1>0, <1>2, <2>3
<1>9. s.arr[dst] <= at[N][dst]
  <2>1. \A m \in Met(s) \ s.done : s.arr[dst] <= s.arr[m]
    BY <1>1, <1>5, NearestFacts DEF Over
  <2> DEFINE P == {k \in Nat : k <= N => \A n \in Nodes : s.arr[n] <= at[k][n] \/ s.arr[dst] <= at[k][n]}
  <2>2. 0 \in P
    <3>1. ASSUME NEW n \in Nodes PROVE s.arr[n] <= at[0][n]
      <4>1. at[0][n] = IF n = node THEN t ELSE Unreached
        BY <1>4 DEF Start
      <4>2. CASE n = node
        BY <1>5, <4>1, <4>2 DEF SearchInv
      <4>3. CASE n # node
        <5>1. s.arr[n] = Unreached \/ s.arr[n] < Unreached
          BY <1>5, <4>3 DEF SearchInv, ReachedBy
        <5> QED BY <1>6, <4>1, <4>3, <5>1, RoutingAssumption
      <4> QED BY <4>2, <4>3
    <3> QED BY <3>1
  <2>3. ASSUME NEW k \in Nat, k \in P PROVE k + 1 \in P
    <3>1. SUFFICES ASSUME k + 1 <= N, NEW n \in Nodes
                   PROVE  s.arr[n] <= at[k + 1][n] \/ s.arr[dst] <= at[k + 1][n]
      OBVIOUS
    <3> HIDE DEF N
    <3>2. k + 1 \in 1 .. N /\ k \in 0 .. N /\ k + 1 \in 0 .. N /\ (k + 1) - 1 = k
      BY <1>0, <3>1
    <3>3. \A m \in Nodes : s.arr[m] <= at[k][m] \/ s.arr[dst] <= at[k][m]
      BY <2>3, <3>2
    <3>4. \A m \in Nodes : s.arr[m] \in Nat /\ at[k][m] \in Nat /\ at[k + 1][m] \in Nat
      BY <1>3, <1>6, <3>2
    <3>5. SoonerOutcome(plan, free, node, bytes, exclude, at[k], at[k + 1])
      BY <1>4, <3>2
    <3>6. CASE at[k + 1][n] = at[k][n]
      BY <3>3, <3>6
    <3>7. CASE at[k + 1][n] # at[k][n]
      <4>1. PICK i \in DOMAIN plan :
              /\ plan[i].to = n /\ n \notin exclude /\ at[k][plan[i].from] < Unreached
              /\ Can1(i, at[k][plan[i].from]) /\ at[k + 1][n] = Reach1(i, at[k][plan[i].from])
        BY <3>5, <3>7 DEF SoonerOutcome, Can1, Reach1
      <4> DEFINE m == plan[i].from
      <4>2. m \in Nodes
        BY <1>7
      <4> HIDE DEF m
      <4>3. at[k][m] < Unreached /\ Can1(i, at[k][m]) /\ at[k + 1][n] = Reach1(i, at[k][m])
        BY <4>1 DEF m
      <4>4. at[k][m] <= at[k + 1][n]
        <5>1. at[k][m] \in Nat
          BY <3>4, <4>2
        <5>2. at[k][m] <= Reach1(i, at[k][m])
          BY <1>7, <5>1
        <5> QED BY <4>3, <5>2
      <4>5. CASE s.arr[dst] <= at[k][m]
        BY <3>4, <4>2, <4>4, <4>5, SMTT(60)
      <4>6. CASE ~(s.arr[dst] <= at[k][m])
        <5>1. s.arr[m] <= at[k][m] /\ s.arr[m] < s.arr[dst] /\ s.arr[m] < Unreached
          BY <3>3, <3>4, <4>2, <4>3, <4>6, RoutingAssumption, SMTT(60)
        <5>2. m \in Met(s)
          BY <1>5, <1>6, <4>2, <5>1, RoutingAssumption DEF SearchInv
        <5>3. m \in s.done
          BY <1>6, <2>1, <4>2, <5>1, <5>2, SMTT(60)
        <5>4. Can1(i, s.arr[m]) /\ Reach1(i, s.arr[m]) <= Reach1(i, at[k][m])
              /\ Reach1(i, s.arr[m]) \in Nat /\ Reach1(i, at[k][m]) \in Nat
          BY <1>7, <3>4, <4>2, <4>3, <5>1
        <5>5. s.arr[n] <= Reach1(i, s.arr[m])
          BY <1>5, <4>1, <5>3, <5>4 DEF RelaxedFrom, Relaxed, Can1, Reach1, m
        <5> QED BY <3>4, <4>3, <5>4, <5>5
      <4> QED BY <4>5, <4>6
    <3> QED BY <3>6, <3>7
  <2>4. \A k \in Nat : k \in P
    <3> HIDE DEF P
    <3> QED BY <2>2, <2>3, Induction
  <2> HIDE DEF N
  <2> QED BY <1>0, <2>4
<1>10. at[N][dst] \in Nat /\ s.arr[dst] \in Nat
  <2> HIDE DEF N
  <2> QED BY <1>0, <1>3, <1>6
<1> QED
  BY <1>4, <1>8, <1>9, <1>10

\* The contact before those of x, on the way to dst.
Longer(plan, via, node, dst, i, x) ==
  LET n == IF i = 1 \/ x = <<>> THEN dst ELSE plan[Head(x)].from
  IN  IF n = node \/ via[n] = 0 THEN x ELSE <<via[n]>> \o x

HopsRun(plan, via, node, dst, hops) ==
  /\ hops[0] = <<>>
  /\ \A i \in 1 .. Cardinality(Nodes) : hops[i] = Longer(plan, via, node, dst, i, hops[i - 1])
  /\ hops[Cardinality(Nodes)] = Hops(plan, via, node, dst)

\* The function by which Hops is defined exists.
LEMMA HopsExists ==
  ASSUME NEW plan \in Seq(ContactSet), NEW node, NEW dst \in Nodes, NEW via \in [Nodes -> Nat],
         \A n \in Nodes : via[n] # 0 => via[n] \in DOMAIN plan
  PROVE  \E hops \in [0 .. Cardinality(Nodes) -> Seq(DOMAIN plan)] : HopsRun(plan, via, node, dst, hops)
<1> DEFINE N == Cardinality(Nodes)
           V == Seq(DOMAIN plan)
           Next1(i, x) == Longer(plan, via, node, dst, i, x)
           F == [p \in V \X (1 .. N) |-> Next1(p[2], p[1])]
           Body(g) == [i \in 0 .. N |-> IF i = 0 THEN <<>> ELSE Next1(i, g[i - 1])]
           at == CHOOSE g : g = Body(g)
<1>0. N \in Nat /\ <<>> \in V
  BY RoutingAssumption, FS_CardinalityType
<1>1. \A x \in V : \A i \in 1 .. N : Next1(i, x) \in V
  <2>1. ASSUME NEW x \in V, NEW i \in 1 .. N PROVE Next1(i, x) \in V
    <3> DEFINE n == IF i = 1 \/ x = <<>> THEN dst ELSE plan[Head(x)].from
    <3>1. n \in Nodes
      <4>1. x # <<>> => Head(x) \in DOMAIN plan
        OBVIOUS
      <4>2. x # <<>> => plan[Head(x)].from \in Nodes
        BY <4>1, ContactFacts
      <4> QED BY <4>2
    <3>2. Next1(i, x) = IF n = node \/ via[n] = 0 THEN x ELSE <<via[n]>> \o x
      BY DEF Longer
    <3> HIDE DEF n, Next1
    <3>3. CASE n = node \/ via[n] = 0
      BY <3>2, <3>3
    <3>4. CASE ~(n = node \/ via[n] = 0)
      <4>1. via[n] \in DOMAIN plan
        BY <3>1, <3>4
      <4>2. <<via[n]>> \in Seq(DOMAIN plan)
        BY <4>1
      <4>3. <<via[n]>> \o x \in Seq(DOMAIN plan)
        BY <4>2
      <4> QED BY <3>2, <3>4, <4>3
    <3> QED BY <3>3, <3>4
  <2> HIDE DEF V, Next1
  <2> QED BY <2>1
<1> HIDE DEF N, V, Next1
<1>2. F \in [V \X (1 .. N) -> V] /\ \A x \in V : \A k \in 1 .. N : F[<<x, k>>] = Next1(k, x)
  BY <1>1
<1>3. PICK h \in [0 .. N -> V] : \E last : Iterates(h, <<>>, N, F, last)
  <2> HIDE DEF F
  <2> QED BY <1>0, <1>2, IterationExists
<1>4. h[0] = <<>> /\ \A k \in 1 .. N : h[k] = Next1(k, h[k - 1])
  <2>1. \A k \in 1 .. N : h[k - 1] \in V /\ h[k] = F[<<h[k - 1], k>>]
    <3> HIDE DEF F
    <3> QED BY <1>0, <1>3 DEF Iterates
  <2> HIDE DEF F
  <2> QED BY <1>2, <1>3, <2>1 DEF Iterates
<1>5. h = Body(h)
  BY <1>0, <1>4
<1>6. at = Body(at)
  <2> HIDE DEF Body
  <2> QED BY <1>5
<1> HIDE DEF at
<1>7. at[0] = <<>> /\ \A k \in 1 .. N : at[k] = Next1(k, at[k - 1])
  BY <1>0, <1>6
<1> DEFINE P == {k \in Nat : k <= N => at[k] \in V}
<1>8. \A k \in Nat : k \in P
  <2>1. 0 \in P
    BY <1>0, <1>7
  <2>2. ASSUME NEW k \in Nat, k \in P PROVE k + 1 \in P
    <3>1. SUFFICES ASSUME k + 1 <= N PROVE at[k + 1] \in V
      OBVIOUS
    <3>2. at[k] \in V /\ k + 1 \in 1 .. N /\ (k + 1) - 1 = k
      BY <1>0, <2>2, <3>1
    <3> QED BY <1>1, <1>7, <3>2
  <2> HIDE DEF P
  <2> QED BY <2>1, <2>2, Induction
<1>9. at \in [0 .. N -> V]
  BY <1>0, <1>6, <1>8
<1>10. Hops(plan, via, node, dst) = at[N]
  BY DEF Hops, at, N, Next1, Longer
<1> QED
  BY <1>7, <1>9, <1>10 DEF HopsRun, N, V, Next1

\* The first contact of a route starts at the node, and the bundle fits there.
LEMMA HopsFacts ==
  ASSUME NEW plan \in Seq(ContactSet), NEW free \in [DOMAIN plan -> Nat], NEW node \in Nodes,
         NEW dst \in Nodes, NEW t \in Nat, NEW bytes \in Nat, bytes # 0, NEW exclude,
         NEW s, SearchInv(plan, free, node, t, bytes, exclude, s),
         dst # node, s.arr[dst] < Unreached
  PROVE  LET i == Head(Hops(plan, s.via, node, dst))
         IN  /\ i \in DOMAIN plan /\ plan[i].from = node /\ plan[i].to \notin exclude
             /\ Fits(plan[i], t, free[i], bytes)
<1> DEFINE N == Cardinality(Nodes)
<1>0. N \in Nat /\ IsFiniteSet(Nodes) /\ N # 0
  BY RoutingAssumption, FS_CardinalityType, FS_EmptySet
<1>1. /\ s \in SearchState /\ s.arr \in [Nodes -> Nat] /\ s.via \in [Nodes -> Nat]
      /\ Met(s) \subseteq Nodes /\ s.done \subseteq Met(s) /\ s.via[node] = 0 /\ s.arr[node] = t
      /\ \A n \in Nodes : n \notin Met(s) => s.arr[n] = Unreached /\ s.via[n] = 0
      /\ \A n \in Met(s) : n # node => ReachedBy(plan, free, node, bytes, exclude, s, n)
  BY StateTypes DEF SearchInv
<1>2. \A n \in Nodes : s.via[n] # 0 => s.via[n] \in DOMAIN plan
  BY <1>1 DEF ReachedBy
<1>3. PICK hops \in [0 .. N -> Seq(DOMAIN plan)] : HopsRun(plan, s.via, node, dst, hops)
  BY <1>1, <1>2, HopsExists
<1> DEFINE fr(n) == plan[s.via[n]].from
           above(n) == {m \in Nodes : s.arr[m] > s.arr[n]}
           First(x) == {n \in Met(s) : n # node /\ x # <<>> /\ Head(x) = s.via[n]}
           Long(k, n) == fr(n) = node \/ Cardinality(above(fr(n))) >= k
<1>4. ASSUME NEW n \in Met(s), n # node
      PROVE  /\ s.via[n] \in DOMAIN plan /\ s.via[n] # 0 /\ fr(n) \in Met(s) /\ fr(n) \in Nodes
             /\ s.arr[fr(n)] < s.arr[n] /\ n \in Nodes /\ s.via[n] \in Nat
  <2>1. /\ s.via[n] \in DOMAIN plan /\ fr(n) \in s.done
        /\ s.arr[n] = Reach(plan, free, node, bytes, s.via[n], s.arr[fr(n)])
    BY <1>1, <1>4 DEF ReachedBy
  <2>2. fr(n) \in Met(s) /\ fr(n) \in Nodes /\ n \in Nodes /\ s.via[n] \in Nat /\ s.via[n] # 0
    BY <1>1, <2>1, SMTT(60)
  <2>3. s.arr[fr(n)] \in Nat
    BY <1>1, <2>2
  <2>4. s.arr[fr(n)] < Reach(plan, free, node, bytes, s.via[n], s.arr[fr(n)])
    <3> HIDE DEF fr
    <3> QED BY <2>1, <2>3, ReachFacts
  <2> QED BY <2>1, <2>2, <2>4
<1>5. \A n \in Nodes : /\ IsFiniteSet(above(n)) /\ Cardinality(above(n)) \in Nat
                       /\ n \notin above(n)
  <2>1. ASSUME NEW n \in Nodes
        PROVE  IsFiniteSet(above(n)) /\ Cardinality(above(n)) \in Nat /\ n \notin above(n)
    <3>1. above(n) \subseteq Nodes
      OBVIOUS
    <3>2. IsFiniteSet(above(n)) /\ Cardinality(above(n)) \in Nat
      <4> HIDE DEF above
      <4> QED BY <1>0, <3>1, FS_Subset, FS_CardinalityType
    <3> QED BY <1>1, <3>2
  <2> QED BY <2>1
\* One node more is above the node before.
<1>6. ASSUME NEW n \in Nodes, NEW m \in Nodes, s.arr[m] < s.arr[n]
      PROVE  Cardinality(above(m)) >= Cardinality(above(n)) + 1
  <2>1. n \in above(m) /\ above(n) \subseteq above(m)
    BY <1>1, <1>6
  <2>2. Cardinality(above(n) \cup {n}) = Cardinality(above(n)) + 1
    <3> HIDE DEF above
    <3> QED BY <1>5, FS_AddElement
  <2>3. above(n) \cup {n} \subseteq above(m)
    BY <2>1
  <2> HIDE DEF above
  <2>4. Cardinality(above(n) \cup {n}) <= Cardinality(above(m))
    BY <1>5, <2>3, FS_Subset
  <2> QED BY <2>2, <2>4
<1>7. dst \in Met(s)
  BY <1>1, RoutingAssumption
<1> DEFINE P == {k \in Nat : k + 1 <= N => \E n \in First(hops[k + 1]) : Long(k + 1, n)}
<1>8. 0 \in P
  <2>1. 1 \in 1 .. N /\ 1 - 1 = 0
    <3> HIDE DEF N
    <3> QED BY <1>0
  <2>2. hops[1] = Longer(plan, s.via, node, dst, 1, hops[0]) /\ hops[0] = <<>>
    BY <1>3, <2>1 DEF HopsRun
  <2>3. hops[1] = <<s.via[dst]>> \o <<>>
    BY <1>4, <1>7, <2>2 DEF Longer
  <2>4. hops[1] = <<s.via[dst]>>
    BY <1>4, <1>7, <2>3
  <2>5. dst \in First(hops[1])
    BY <1>7, <2>4
  <2>6. Cardinality(above(fr(dst))) >= 1
    <3> HIDE DEF above, fr
    <3> QED BY <1>4, <1>5, <1>6, <1>7
  <2>7. Long(1, dst) /\ 0 + 1 = 1
    BY <2>6
  <2> HIDE DEF First, Long, N
  <2> QED BY <2>5, <2>7
<1>9. ASSUME NEW k \in Nat, k \in P PROVE k + 1 \in P
  <2>1. SUFFICES ASSUME k + 2 <= N PROVE \E n \in First(hops[k + 2]) : Long(k + 2, n)
    <3> HIDE DEF First, Long
    <3> QED OBVIOUS
  <2>2. k + 1 <= N /\ k + 2 \in 1 .. N /\ k + 1 \in 0 .. N /\ (k + 2) - 1 = k + 1 /\ k + 2 # 1
    <3> HIDE DEF N
    <3> QED BY <1>0, <2>1
  <2>3. PICK n \in First(hops[k + 1]) : Long(k + 1, n)
    <3> HIDE DEF First, Long
    <3> QED BY <1>9, <2>2
  <2>4. hops[k + 2] = Longer(plan, s.via, node, dst, k + 2, hops[k + 1]) /\ hops[k + 1] \in Seq(DOMAIN plan)
    <3> HIDE DEF N
    <3> QED BY <1>3, <2>2 DEF HopsRun, N
  <2>5. n \in Met(s) /\ n # node /\ hops[k + 1] # <<>> /\ Head(hops[k + 1]) = s.via[n]
    BY <2>3
  <2> DEFINE m == fr(n)
  <2>6. m \in Met(s) /\ m \in Nodes
    BY <1>4, <2>5, SMTT(60)
  <2>7. hops[k + 2] = IF m = node \/ s.via[m] = 0 THEN hops[k + 1] ELSE <<s.via[m]>> \o hops[k + 1]
    BY <2>2, <2>4, <2>5 DEF Longer
  <2>8. CASE m = node
    <3>1. hops[k + 2] = hops[k + 1]
      BY <2>7, <2>8
    <3>2. Long(k + 2, n)
      BY <2>8
    <3> HIDE DEF First, Long
    <3> QED BY <2>3, <3>1, <3>2
  <2>9. CASE m # node
    <3>1. s.via[m] # 0 /\ s.via[m] \in DOMAIN plan /\ fr(m) \in Nodes /\ s.arr[fr(m)] < s.arr[m]
      <4> HIDE DEF m, fr
      <4> QED BY <1>4, <2>6, <2>9, SMTT(60)
    <3>2. hops[k + 2] = <<s.via[m]>> \o hops[k + 1]
      BY <2>7, <2>9, <3>1
    <3>3. hops[k + 2] # <<>> /\ Head(hops[k + 2]) = s.via[m]
      <4> HIDE DEF m
      <4> DEFINE x == <<s.via[m]>>
      <4>0. x \in Seq(DOMAIN plan) /\ Len(x) = 1 /\ x[1] = s.via[m]
        BY <3>1
      <4> HIDE DEF x
      <4>1. hops[k + 2] = x \o hops[k + 1]
        BY <3>2 DEF x
      <4>2. ASSUME NEW y \in Seq(DOMAIN plan)
            PROVE x \o y \in Seq(DOMAIN plan) /\ Len(x \o y) >= 1 /\ (x \o y)[1] = x[1]
        <5>1. /\ x \o y \in Seq(DOMAIN plan) /\ Len(x \o y) = Len(x) + Len(y)
              /\ \A i \in 1 .. Len(x) + Len(y) :
                   (x \o y)[i] = IF i <= Len(x) THEN x[i] ELSE y[i - Len(x)]
          BY <4>0, ConcatProperties, ZenonT(60)
        <5>2. Len(y) \in Nat
          OBVIOUS
        <5> QED BY <4>0, <5>1, <5>2
      <4>3. hops[k + 2] \in Seq(DOMAIN plan) /\ Len(hops[k + 2]) >= 1 /\ hops[k + 2][1] = x[1]
        BY <2>4, <4>1, <4>2
      <4> QED BY <4>0, <4>3
    <3>4. m \in First(hops[k + 2])
      BY <2>6, <2>9, <3>3
    <3>5. Cardinality(above(m)) >= k + 1
      BY <2>3, <2>9
    <3>6. Cardinality(above(fr(m))) >= k + 2
      <4>1. Cardinality(above(fr(m))) >= Cardinality(above(m)) + 1
        <5> HIDE DEF above, fr, m
        <5> QED BY <1>6, <2>6, <3>1
      <4>2. Cardinality(above(fr(m))) \in Nat /\ Cardinality(above(m)) \in Nat
        <5> HIDE DEF above, fr, m
        <5> QED BY <1>5, <2>6, <3>1
      <4> HIDE DEF above, fr, m
      <4> QED BY <3>5, <4>1, <4>2
    <3> HIDE DEF First, m
    <3> QED BY <3>4, <3>6
  <2> QED BY <2>8, <2>9
<1>10. \A k \in Nat : k \in P
  <2> HIDE DEF P
  <2> QED BY <1>8, <1>9, Induction
<1>11. PICK n \in First(hops[N]) : Long(N, n)
  <2>1. N - 1 \in Nat /\ (N - 1) + 1 = N
    <3> HIDE DEF N
    <3> QED BY <1>0
  <2>2. N - 1 \in P
    <3> HIDE DEF N, P
    <3> QED BY <1>10, <2>1
  <2> HIDE DEF First, Long, N
  <2> QED BY <1>0, <2>1, <2>2
<1>12. n \in Met(s) /\ n # node /\ Head(hops[N]) = s.via[n]
  BY <1>11
<1>13. fr(n) = node
  <2>1. SUFFICES ASSUME fr(n) # node PROVE FALSE
    BY SMTT(60)
  <2>2. Cardinality(above(fr(n))) >= N
    BY <1>11, <2>1
  <2> DEFINE m == fr(n)
  <2>3. m \in Nodes
    BY <1>4, <1>12
  <2>4. above(m) \subseteq Nodes \ {m}
    BY <1>1, <2>3, SMTT(60)
  <2> HIDE DEF m, above, fr
  <2>5. Cardinality(Nodes \ {m}) = N - 1 /\ IsFiniteSet(Nodes \ {m})
    BY <1>0, <2>3, FS_RemoveElement
  <2>6. Cardinality(above(m)) <= Cardinality(Nodes \ {m}) /\ Cardinality(above(m)) \in Nat
    BY <2>4, <2>5, FS_Subset, FS_CardinalityType
  <2>7. Cardinality(above(m)) >= N
    BY <2>2 DEF m
  <2> HIDE DEF N
  <2> QED BY <1>0, <2>5, <2>6, <2>7
<1>14. /\ s.via[n] \in DOMAIN plan /\ plan[s.via[n]].to \notin exclude
       /\ Can(plan, free, node, bytes, s.via[n], t)
  BY <1>1, <1>12, <1>13, SMTT(60) DEF ReachedBy
<1>15. Fits(plan[s.via[n]], t, free[s.via[n]], bytes)
  BY <1>13, <1>14 DEF Can, FreeOn
<1>16. Head(Hops(plan, s.via, node, dst)) = s.via[n]
  BY <1>3, <1>12 DEF HopsRun
<1> QED
  BY <1>13, <1>14, <1>15, <1>16

\* The two records by which the operator of the victim answers compromise c.
Revoked(c) == RevokeKey(Issuer[OpOf[Victim]], StolenKey, c.stolenAt, c.detectAt)
Reissued(c) ==
  IssueKey(Issuer[OpOf[Victim]], Victim, NewKey, {"custody"}, c.detectAt, c.detectAt + KeyLife, c.detectAt)

IssuerRecord(op) ==
  IssueKey(Root[op], op, Issuer[op], {"issue", "revoke"}, LaunchAt, Never - 1, LaunchAt)
NodeRecord(n) ==
  IssueKey(Issuer[OpOf[n]], n, NodeKey[n], {"custody"}, LaunchAt, LaunchAt + KeyLife, LaunchAt)

Records(c) == Provision \cup {Revoked(c), Reissued(c)}
Entries(c) == [rec : Records(c), seenAt : Nat]

\* What is provisioned is a finite set of key records.
LEMMA ProvisionFacts ==
  /\ IsFiniteSet(Provision)
  /\ \A r \in Provision : \/ \E op \in Operators : r = IssuerRecord(op)
                          \/ \E n \in Nodes : r = NodeRecord(n)
  /\ \A op \in Operators : IssuerRecord(op) \in Provision
  /\ \A n \in Nodes : NodeRecord(n) \in Provision
<1> DEFINE A == {IssuerRecord(op) : op \in Operators}
           B == {NodeRecord(n) : n \in Nodes}
<1>1. Provision = A \cup B
  BY DEF Provision, IssuerRecord, NodeRecord
<1>2. IsFiniteSet(A)
  <2> DEFINE f == [op \in Operators |-> IssuerRecord(op)]
  <2>1. f \in Surjection(Operators, A)
    BY DEF Surjection
  <2> HIDE DEF f, A
  <2> QED BY <2>1, FS_Surjection, NetworkAssumption
<1>3. IsFiniteSet(B)
  <2> DEFINE f == [n \in Nodes |-> NodeRecord(n)]
  <2>1. f \in Surjection(Nodes, B)
    BY DEF Surjection
  <2> HIDE DEF f, B
  <2> QED BY <2>1, FS_Surjection, RoutingAssumption
<1>4. IsFiniteSet(Provision)
  BY <1>1, <1>2, <1>3, FS_Union
<1> QED
  BY <1>1, <1>4

\* The key records of a key: each key of the ceremony has one, a root has none.
LEMMA KeysApart ==
  ASSUME NEW c
  PROVE  /\ \A r \in Records(c) : IsKey(r) <=> r # Revoked(c)
         /\ \A r \in Records(c) : IsRevocation(r) <=> r = Revoked(c)
         /\ \A r \in Records(c) : \A op \in Operators :
              r.key = Issuer[op] /\ IsKey(r) <=> r = IssuerRecord(op)
         /\ \A r \in Records(c) : \A n \in Nodes :
              r.key = NodeKey[n] /\ IsKey(r) <=> r = NodeRecord(n)
         /\ \A r \in Records(c) : r.key = NewKey /\ IsKey(r) <=> r = Reissued(c)
         /\ \A r \in Records(c) : IsKey(r) => r.key \notin Anchors
<1>1. ASSUME NEW r \in Records(c)
      PROVE  /\ IsKey(r) <=> r # Revoked(c)
             /\ IsRevocation(r) <=> r = Revoked(c)
             /\ \A op \in Operators : r.key = Issuer[op] /\ IsKey(r) <=> r = IssuerRecord(op)
             /\ \A n \in Nodes : r.key = NodeKey[n] /\ IsKey(r) <=> r = NodeRecord(n)
             /\ r.key = NewKey /\ IsKey(r) <=> r = Reissued(c)
             /\ IsKey(r) => r.key \notin Anchors
  <2>0. /\ \A op \in Operators : IssuerRecord(op).key = Issuer[op] /\ IssuerRecord(op).kind = "key"
        /\ \A n \in Nodes : NodeRecord(n).key = NodeKey[n] /\ NodeRecord(n).kind = "key"
        /\ Reissued(c).key = NewKey /\ Reissued(c).kind = "key" /\ Revoked(c).kind = "revoke"
    BY DEF IssuerRecord, NodeRecord, Reissued, Revoked, IssueKey, RevokeKey
  <2>1. CASE \E op \in Operators : r = IssuerRecord(op)
    BY <2>0, <2>1, NetworkAssumption DEF IsKey, IsRevocation
  <2>2. CASE \E n \in Nodes : r = NodeRecord(n)
    BY <2>0, <2>2, NetworkAssumption DEF IsKey, IsRevocation
  <2>3. CASE r = Reissued(c)
    BY <2>0, <2>3, NetworkAssumption DEF IsKey, IsRevocation
  <2>4. CASE r = Revoked(c)
    BY <2>0, <2>4, NetworkAssumption DEF IsKey, IsRevocation
  <2> QED BY <2>1, <2>2, <2>3, <2>4, ProvisionFacts DEF Records
<1> QED
  BY <1>1

\* The ring that every node is given: each record of the ceremony once.
AtLaunch(ring) ==
  /\ ring \in Seq([rec : Provision, seenAt : {LaunchAt}])
  /\ \A r \in Provision : Knows(ring, r)
  /\ \A i, j \in DOMAIN ring : ring[i].rec = ring[j].rec => i = j

\* The times of the inputs.
LEMMA Times == LaunchAt \in Nat /\ KeyLife \in Nat /\ Never \in Nat /\ LaunchAt + KeyLife < Never
  BY InputAssumption, KeyringAssumption

\* A new record goes to the end of the ring; a known one is not added again.
LEMMA AddFacts ==
  ASSUME NEW E, NEW ring \in Seq(E), NEW r, NEW at \in Nat
  PROVE  /\ ~Knows(ring, r) => Add(ring, r, at) = Append(ring, [rec |-> r, seenAt |-> at])
         /\ Knows(ring, r) /\ (\A i \in DOMAIN ring : ring[i].rec = r => ring[i].seenAt <= at /\ ring[i].seenAt \in Nat)
              => Add(ring, r, at) = ring
<1>1. ~Knows(ring, r) => Add(ring, r, at) = Append(ring, [rec |-> r, seenAt |-> at])
  BY DEF Add
<1>2. ASSUME Knows(ring, r), \A i \in DOMAIN ring : ring[i].rec = r => ring[i].seenAt <= at /\ ring[i].seenAt \in Nat
      PROVE  Add(ring, r, at) = ring
  <2>1. \A i \in DOMAIN ring : ~(ring[i].rec = r /\ at < ring[i].seenAt)
    BY <1>2
  <2>2. Add(ring, r, at) = [i \in DOMAIN ring |-> ring[i]]
    BY <1>2, <2>1 DEF Add
  <2> QED BY <2>2
<1> QED
  BY <1>1, <1>2

\* The ring of the ceremony holds each of its records once.
LEMMA LaunchRingFacts == AtLaunch(LaunchRing)
<1> DEFINE E == [rec : Provision, seenAt : {LaunchAt}]
           V == Seq(E)
           pick == [T \in SUBSET Provision |-> CHOOSE x \in T : TRUE]
           F == [p \in V \X Provision |-> IF Knows(p[1], p[2]) THEN p[1]
                                          ELSE Append(p[1], [rec |-> p[2], seenAt |-> LaunchAt])]
           Body(g) == [T \in SUBSET Provision |->
                         IF T = {} THEN <<>>
                         ELSE Add(g[T \ {CHOOSE x \in T : TRUE}], CHOOSE x \in T : TRUE, LaunchAt)]
           it == CHOOSE g : g = Body(g)
<1>0. IsFiniteSet(Provision) /\ <<>> \in V /\ LaunchAt \in Nat
  <2>1. <<>> \in V
    OBVIOUS
  <2> HIDE DEF V
  <2> QED BY <2>1, ProvisionFacts, Times
<1>1. \A T \in SUBSET Provision : T # {} => pick[T] \in T /\ pick[T] = CHOOSE x \in T : TRUE
  OBVIOUS
<1>2. F \in [V \X Provision -> V]
  <2>1. ASSUME NEW v \in V, NEW r \in Provision
        PROVE  (IF Knows(v, r) THEN v ELSE Append(v, [rec |-> r, seenAt |-> LaunchAt])) \in V
    <3>1. [rec |-> r, seenAt |-> LaunchAt] \in E
      OBVIOUS
    <3> HIDE DEF E
    <3> QED BY <3>1
  <2> HIDE DEF V
  <2> QED BY <2>1
<1>3. \A v \in V : \A r \in Provision : F[<<v, r>>] = Add(v, r, LaunchAt)
  <2>1. ASSUME NEW v \in V, NEW r \in Provision PROVE F[<<v, r>>] = Add(v, r, LaunchAt)
    <3>1. F[<<v, r>>] = IF Knows(v, r) THEN v ELSE Append(v, [rec |-> r, seenAt |-> LaunchAt])
      OBVIOUS
    <3>2. \A i \in DOMAIN v : v[i].seenAt <= LaunchAt /\ v[i].seenAt \in Nat
      <4>1. \A i \in DOMAIN v : v[i] \in E
        <5> HIDE DEF E
        <5> QED OBVIOUS
      <4>2. \A i \in DOMAIN v : v[i].seenAt = LaunchAt
        BY <4>1
      <4> QED BY <1>0, <4>2
    <3> HIDE DEF F
    <3> QED BY <1>0, <3>1, <3>2, AddFacts
  <2> QED BY <2>1
<1>4. PICK g \in [SUBSET Provision -> V] : FoldsBy(g, <<>>, Provision, pick, F)
  <2> HIDE DEF F, pick, V
  <2> QED BY <1>0, <1>1, <1>2, FoldExists
<1>5. \A T \in SUBSET Provision : T # {} =>
        /\ g[T] = Add(g[T \ {CHOOSE x \in T : TRUE}], CHOOSE x \in T : TRUE, LaunchAt)
        /\ T \ {CHOOSE x \in T : TRUE} \in SUBSET Provision
        /\ (CHOOSE x \in T : TRUE) \in T
  <2>1. ASSUME NEW T \in SUBSET Provision, T # {}
        PROVE  /\ g[T] = Add(g[T \ {CHOOSE x \in T : TRUE}], CHOOSE x \in T : TRUE, LaunchAt)
               /\ T \ {CHOOSE x \in T : TRUE} \in SUBSET Provision
               /\ (CHOOSE x \in T : TRUE) \in T
    <3>1. pick[T] \in T /\ pick[T] = CHOOSE x \in T : TRUE
      <4> HIDE DEF pick
      <4> QED BY <1>1, <2>1
    <3>2. g[T] = F[<<g[T \ {pick[T]}], pick[T]>>]
      <4> HIDE DEF F, pick, V
      <4> QED BY <1>4, <2>1 DEF FoldsBy
    <3>3. g[T \ {pick[T]}] \in V /\ pick[T] \in Provision
      <4> HIDE DEF F, pick, V
      <4> QED BY <1>4, <2>1, <3>1
    <3>4. g[T] = Add(g[T \ {pick[T]}], pick[T], LaunchAt)
      <4> HIDE DEF F, pick, V
      <4> QED BY <1>3, <3>2, <3>3
    <3> HIDE DEF F, pick
    <3> QED BY <3>1, <3>4
  <2> HIDE DEF F, pick, V
  <2> QED BY <2>1
<1>6. g[{}] = <<>>
  BY <1>4 DEF FoldsBy
<1>7. g = Body(g)
  <2> HIDE DEF V, F, pick
  <2> QED BY <1>4, <1>5, <1>6
<1>8. it = Body(it)
  <2> HIDE DEF Body
  <2> QED BY <1>7
<1>9. LaunchRing = it[Provision]
  BY DEF LaunchRing, FoldSet, MapThenFoldSet
<1> DEFINE Holds(T) == /\ it[T] \in V
                       /\ \A r \in Provision : Knows(it[T], r) <=> r \in T
                       /\ \A i, j \in DOMAIN it[T] : it[T][i].rec = it[T][j].rec => i = j
           P == {m \in Nat : \A T \in SUBSET Provision : Cardinality(T) <= m => Holds(T)}
<1>10. \A T \in SUBSET Provision : IsFiniteSet(T) /\ Cardinality(T) \in Nat /\ (Cardinality(T) = 0 <=> T = {})
  BY <1>0, FS_Subset, FS_CardinalityType, FS_EmptySet
<1>11. Holds({})
  <2>1. it[{}] = <<>>
    <3> HIDE DEF it
    <3> QED BY <1>8
  <2> HIDE DEF it
  <2> QED BY <1>0, <2>1 DEF Knows
<1>12. 0 \in P
  <2>1. ASSUME NEW T \in SUBSET Provision, Cardinality(T) <= 0 PROVE Holds(T)
    <3>1. T = {}
      BY <1>10, <2>1
    <3> HIDE DEF Holds
    <3> QED BY <1>11, <3>1
  <2> HIDE DEF Holds
  <2> QED BY <2>1
<1>13. ASSUME NEW m \in Nat, m \in P PROVE m + 1 \in P
  <2>0. SUFFICES ASSUME NEW T \in SUBSET Provision, Cardinality(T) <= m + 1 PROVE Holds(T)
    <3> HIDE DEF Holds
    <3> QED OBVIOUS
  <2>1. SUFFICES ASSUME T # {} PROVE Holds(T)
    <3> HIDE DEF Holds
    <3> QED BY <1>11
  <2> DEFINE x == CHOOSE x \in T : TRUE
             R == T \ {x}
  <2>2. x \in T /\ R \in SUBSET Provision /\ x \notin R /\ T = R \cup {x}
    BY <2>1
  <2>3. Cardinality(R) <= m
    <3>1. Cardinality(R) = Cardinality(T) - 1
      <4> HIDE DEF x
      <4> QED BY <1>10, <2>2, FS_RemoveElement
    <3> HIDE DEF R
    <3> QED BY <1>10, <2>0, <2>1, <3>1
  <2>4. Holds(R)
    <3> HIDE DEF Holds, R
    <3> QED BY <1>13, <2>2, <2>3
  <2>5. it[T] = Add(it[R], x, LaunchAt)
    <3>1. it[T] = Body(it)[T]
      <4> HIDE DEF it, Body
      <4> QED BY <1>8
    <3> HIDE DEF it
    <3> QED BY <2>1, <3>1
  <2>6. ~Knows(it[R], x) /\ it[R] \in Seq(E) /\ x \in Provision
    <3> HIDE DEF it, R, x
    <3> QED BY <2>2, <2>4
  <2>7. it[T] = Append(it[R], [rec |-> x, seenAt |-> LaunchAt])
    <3> HIDE DEF it, R, x
    <3> QED BY <1>0, <2>5, <2>6, AddFacts
  <2> DEFINE q == it[R] e == [rec |-> x, seenAt |-> LaunchAt] a == Append(q, e)
  <2>8. q \in Seq(E) /\ e \in E /\ e.rec = x
    <3> HIDE DEF it, R, x
    <3> QED BY <2>6
  <2>9. a \in Seq(E) /\ Len(a) = Len(q) + 1 /\ a[Len(q) + 1] = e /\ \A i \in 1 .. Len(q) : a[i] = q[i]
    <3> HIDE DEF q, e
    <3> QED BY <2>8
  <2>10. /\ DOMAIN a = 1 .. Len(q) + 1 /\ DOMAIN q = 1 .. Len(q) /\ Len(q) \in Nat
    <3> HIDE DEF q, e, a
    <3> QED BY <2>8, <2>9
  <2>11. \A r \in Provision : Knows(q, r) <=> r \in R
    BY <2>4
  <2>12. \A i, j \in DOMAIN q : q[i].rec = q[j].rec => i = j
    BY <2>4
  <2>13. \A r : Knows(a, r) <=> Knows(q, r) \/ r = x
    <3> HIDE DEF q, e, a, x
    <3> QED BY <2>8, <2>9, <2>10 DEF Knows
  <2>14. \A i, j \in DOMAIN a : a[i].rec = a[j].rec => i = j
    <3>1. \A i \in DOMAIN q : q[i].rec # x
      <4> HIDE DEF q, e, a, x, R
      <4> QED BY <2>2, <2>11, <2>6, <2>8 DEF Knows
    <3>2. \A i \in DOMAIN a : i \in DOMAIN q \/ i = Len(q) + 1
      <4> HIDE DEF q, a
      <4> QED BY <2>10
    <3> HIDE DEF q, e, a, x, R
    <3> QED BY <2>8, <2>9, <2>10, <2>12, <3>1, <3>2
  <2>15. it[T] = a
    BY <2>7
  <2> HIDE DEF it, q, e, a, x, R
  <2> QED BY <2>2, <2>9, <2>11, <2>13, <2>14, <2>15
<1>14. \A m \in Nat : m \in P
  <2> HIDE DEF P
  <2> QED BY <1>12, <1>13, Induction
<1>15. Holds(Provision)
  <2>1. Cardinality(Provision) \in P /\ Cardinality(Provision) \in Nat
    <3> HIDE DEF P
    <3> QED BY <1>10, <1>14
  <2> HIDE DEF Holds
  <2> QED BY <2>1
<1> HIDE DEF it
<1> QED
  BY <1>9, <1>15 DEF AtLaunch

Home == OpOf[Victim]

\* The ring of a node that heard of compromise c at time s.
Heard(c, s) ==
  LaunchRing \o <<[rec |-> Revoked(c), seenAt |-> s], [rec |-> Reissued(c), seenAt |-> s]>>

\* What a node that heard passes on, and what of it a block has room for.
Known(c) == <<Revoked(c), Reissued(c), IssuerRecord(Home)>>
Carried(c) == Capped(Known(c))

\* The victim has an operator.
LEMMA HomeFacts == Home \in Operators /\ Victim \in Nodes
  BY NetworkAssumption DEF Home

\* The new records are not among those of the ceremony.
LEMMA NewRecords ==
  ASSUME NEW c
  PROVE  /\ Revoked(c) \notin Provision /\ Reissued(c) \notin Provision
         /\ Revoked(c) # Reissued(c) /\ IssuerRecord(Home) \in Provision
         /\ Revoked(c) \in Records(c) /\ Reissued(c) \in Records(c) /\ IssuerRecord(Home) \in Records(c)
<1>1. Revoked(c) \in Records(c) /\ Reissued(c) \in Records(c) /\ Provision \subseteq Records(c)
  BY DEF Records
<1>2. Revoked(c) \notin Provision /\ Revoked(c) # Reissued(c)
  <2>1. \A r \in Provision : r.kind = "key"
    BY ProvisionFacts DEF IssuerRecord, NodeRecord, IssueKey
  <2>2. Revoked(c).kind = "revoke" /\ Reissued(c).kind = "key"
    BY DEF Revoked, Reissued, RevokeKey, IssueKey
  <2> QED BY <2>1, <2>2
<1>3. Reissued(c) \notin Provision
  <2>1. \A r \in Provision : r.key # NewKey
    BY ProvisionFacts, NetworkAssumption DEF IssuerRecord, NodeRecord, IssueKey
  <2>2. Reissued(c).key = NewKey
    BY DEF Reissued, IssueKey
  <2> QED BY <2>1, <2>2
<1> QED
  BY <1>1, <1>2, <1>3, ProvisionFacts, HomeFacts

\* The launch ring, entry by entry.
LEMMA LaunchEntries ==
  ASSUME NEW c
  PROVE  /\ LaunchRing \in Seq(Entries(c)) /\ Len(LaunchRing) \in Nat /\ DOMAIN LaunchRing = 1 .. Len(LaunchRing)
         /\ \A i \in 1 .. Len(LaunchRing) :
              /\ LaunchRing[i].rec \in Provision /\ LaunchRing[i].seenAt = LaunchAt
              /\ LaunchRing[i] = [rec |-> LaunchRing[i].rec, seenAt |-> LaunchAt]
         /\ \A r \in Provision : \E i \in 1 .. Len(LaunchRing) : LaunchRing[i].rec = r
         /\ \A i, j \in 1 .. Len(LaunchRing) : LaunchRing[i].rec = LaunchRing[j].rec => i = j
         /\ ~Knows(LaunchRing, Revoked(c)) /\ ~Knows(LaunchRing, Reissued(c))
         /\ Knows(LaunchRing, IssuerRecord(Home))
<1> DEFINE E == [rec : Provision, seenAt : {LaunchAt}] L == LaunchRing
<1>1. L \in Seq(E) /\ (\A r \in Provision : Knows(L, r)) /\ \A i, j \in DOMAIN L : L[i].rec = L[j].rec => i = j
  BY LaunchRingFacts DEF AtLaunch
<1>2. E \subseteq Entries(c)
  BY Times DEF Entries, Records
<1>3. Len(L) \in Nat /\ DOMAIN L = 1 .. Len(L) /\ \A i \in 1 .. Len(L) : L[i] \in E
  <2> HIDE DEF L, E
  <2> QED BY <1>1
<1>4. \A i \in 1 .. Len(L) : L[i].rec \in Provision /\ L[i].seenAt = LaunchAt /\ L[i] = [rec |-> L[i].rec, seenAt |-> LaunchAt]
  <2>1. \A e \in E : e.rec \in Provision /\ e.seenAt = LaunchAt /\ e = [rec |-> e.rec, seenAt |-> LaunchAt]
    OBVIOUS
  <2> HIDE DEF L, E
  <2> QED BY <1>3, <2>1
<1>5. L \in Seq(Entries(c))
  <2> HIDE DEF L, E
  <2> QED BY <1>1, <1>2, SeqMonotonic
<1>6. \A r : Knows(L, r) <=> \E i \in 1 .. Len(L) : L[i].rec = r
  <2> HIDE DEF L
  <2> QED BY <1>3 DEF Knows
<1> HIDE DEF L
<1>7. \A i, j \in 1 .. Len(L) : L[i].rec = L[j].rec => i = j
  BY <1>1, <1>3
<1>8. (\A r \in Provision : \E i \in 1 .. Len(L) : L[i].rec = r) /\ Knows(L, IssuerRecord(Home))
  BY <1>1, <1>6, NewRecords
<1>9. ~Knows(L, Revoked(c)) /\ ~Knows(L, Reissued(c))
  <2>1. Revoked(c) \notin Provision /\ Reissued(c) \notin Provision
    BY NewRecords
  <2>2. \A i \in 1 .. Len(L) : L[i].rec # Revoked(c) /\ L[i].rec # Reissued(c)
    BY <1>4, <2>1
  <2> QED BY <1>6, <2>2
<1> QED
  BY <1>3, <1>4, <1>5, <1>7, <1>8, <1>9 DEF L

\* The ring of a node that heard, entry by entry.
LEMMA HeardEntries ==
  ASSUME NEW c, NEW s \in Nat
  PROVE  /\ Heard(c, s) \in Seq(Entries(c)) /\ Len(Heard(c, s)) = Len(LaunchRing) + 2
         /\ DOMAIN Heard(c, s) = 1 .. Len(LaunchRing) + 2
         /\ \A i \in 1 .. Len(LaunchRing) : Heard(c, s)[i] = LaunchRing[i]
         /\ Heard(c, s)[Len(LaunchRing) + 1] = [rec |-> Revoked(c), seenAt |-> s]
         /\ Heard(c, s)[Len(LaunchRing) + 2] = [rec |-> Reissued(c), seenAt |-> s]
         /\ Heard(c, s) = Append(Append(LaunchRing, [rec |-> Revoked(c), seenAt |-> s]), [rec |-> Reissued(c), seenAt |-> s])
<1> DEFINE L == LaunchRing a == [rec |-> Revoked(c), seenAt |-> s] b == [rec |-> Reissued(c), seenAt |-> s]
           E == Entries(c)
<1>1. L \in Seq(E) /\ Len(L) \in Nat
  BY LaunchEntries
<1>2. a \in E /\ b \in E
  BY NewRecords DEF Entries
<1>3. Heard(c, s) = L \o <<a, b>>
  BY DEF Heard
<1> HIDE DEF L, a, b, E
<1>4. <<a, b>> \in Seq(E) /\ Len(<<a, b>>) = 2 /\ <<a, b>>[1] = a /\ <<a, b>>[2] = b
  BY <1>2
<1> DEFINE h == L \o <<a, b>>
<1>5. h \in Seq(E) /\ Len(h) = Len(L) + 2 /\ \A i \in 1 .. Len(L) + 2 : h[i] = IF i <= Len(L) THEN L[i] ELSE <<a, b>>[i - Len(L)]
  BY <1>1, <1>4, ConcatProperties
<1>6. DOMAIN h = 1 .. Len(L) + 2 /\ (\A i \in 1 .. Len(L) : h[i] = L[i]) /\ h[Len(L) + 1] = a /\ h[Len(L) + 2] = b
  <2> HIDE DEF h
  <2>1. DOMAIN h = 1 .. Len(L) + 2
    BY <1>5
  <2>2. (Len(L) + 1) - Len(L) = 1 /\ (Len(L) + 2) - Len(L) = 2
    BY <1>1
  <2>3. Len(L) + 1 \in 1 .. Len(L) + 2 /\ Len(L) + 2 \in 1 .. Len(L) + 2 /\ ~(Len(L) + 1 <= Len(L)) /\ ~(Len(L) + 2 <= Len(L))
    BY <1>1
  <2>4. h[Len(L) + 1] = <<a, b>>[1] /\ h[Len(L) + 2] = <<a, b>>[2]
    BY <1>5, <2>2, <2>3
  <2> QED BY <1>1, <1>4, <1>5, <2>1, <2>4
<1>7. h = Append(Append(L, a), b)
  <2> DEFINE g == Append(Append(L, a), b)
  <2>1. g \in Seq(E) /\ Len(g) = Len(L) + 2 /\ (\A i \in 1 .. Len(L) : g[i] = L[i]) /\ g[Len(L) + 1] = a /\ g[Len(L) + 2] = b
    BY <1>1, <1>2
  <2> HIDE DEF g, h
  <2>2. \A i \in 1 .. Len(h) : h[i] = g[i]
    BY <1>1, <1>5, <1>6, <2>1
  <2>3. h = g
    BY <1>5, <2>1, <2>2, SeqEqual
  <2> QED BY <2>3 DEF g
<1> QED
  BY <1>3, <1>5, <1>6, <1>7 DEF L, a, b, E

\* Whatever block of records a ring takes in, it is a sequence of entries.
LEMMA AddType ==
  ASSUME NEW c, NEW ring \in Seq(Entries(c)), NEW r \in Records(c), NEW at \in Nat
  PROVE  Add(ring, r, at) \in Seq(Entries(c))
<1> DEFINE e == [rec |-> r, seenAt |-> at] E == Entries(c)
<1>1. e \in E
  BY DEF Entries
<1>2. CASE Knows(ring, r)
  <2> DEFINE n == Len(ring)
             f(i) == IF ring[i].rec = r /\ at < ring[i].seenAt THEN [ring[i] EXCEPT !.seenAt = at] ELSE ring[i]
  <2>1. n \in Nat /\ DOMAIN ring = 1 .. n /\ \A i \in 1 .. n : ring[i] \in E
    OBVIOUS
  <2>2. \A x \in E : [x EXCEPT !.seenAt = at] \in E
    BY DEF Entries
  <2>3. \A i \in 1 .. n : f(i) \in E
    <3> HIDE DEF E, n
    <3> QED BY <2>1, <2>2
  <2>4. [i \in 1 .. n |-> f(i)] \in Seq(E)
    <3> HIDE DEF E, n, f
    <3> QED BY <2>1, <2>3, IsASeq
  <2>5. Add(ring, r, at) = [i \in DOMAIN ring |-> f(i)]
    BY <1>2 DEF Add
  <2> HIDE DEF E, f, n
  <2> QED BY <2>1, <2>4, <2>5 DEF E
<1>3. CASE ~Knows(ring, r)
  <2>1. Add(ring, r, at) = Append(ring, e)
    BY <1>3 DEF Add
  <2> HIDE DEF e, E
  <2>2. Append(ring, e) \in Seq(E)
    BY <1>1 DEF E
  <2> QED BY <2>1, <2>2 DEF E
<1> QED BY <1>2, <1>3

\* A block is taken in record by record.
LEMMA IngestSteps ==
  ASSUME NEW c, NEW ring \in Seq(Entries(c)), NEW block \in Seq(Records(c)), NEW at \in Nat
  PROVE  \E h \in [0 .. Len(block) -> Seq(Entries(c))] : IngestRun(ring, block, at, h)
<1> DEFINE V == Seq(Entries(c)) U == Records(c)
<1>1. \A v \in V : \A i \in 1 .. Len(block) : Add(v, block[i], at) \in V
  <2>1. ASSUME NEW v \in V, NEW i \in 1 .. Len(block) PROVE Add(v, block[i], at) \in V
    <3>1. block[i] \in U
      OBVIOUS
    <3> QED BY <3>1, AddType
  <2> QED BY <2>1
<1> HIDE DEF V, U
<1>2. ring \in V /\ block \in Seq(U)
  BY DEF V, U
<1>3. \E h \in [0 .. Len(block) -> V] : IngestRun(ring, block, at, h)
  BY <1>1, <1>2, IngestIterates
<1> QED
  BY <1>3 DEF V

\* A ring that takes in nothing stays as it is.
LEMMA IngestNothing ==
  ASSUME NEW c, NEW ring \in Seq(Entries(c)), NEW at \in Nat
  PROVE  Ingest(ring, <<>>, at) = ring
<1>1. <<>> \in Seq(Records(c)) /\ Len(<<>>) = 0
  OBVIOUS
<1>2. PICK h \in [0 .. Len(<<>>) -> Seq(Entries(c))] : IngestRun(ring, <<>>, at, h)
  BY <1>1, IngestSteps
<1> QED
  BY <1>1, <1>2 DEF IngestRun

\* The records of a block come in the same order, cut to its size.
LEMMA CarriedCases ==
  ASSUME NEW c
  PROVE  /\ Carried(c) \in Seq(Records(c))
         /\ \/ Carried(c) = <<Revoked(c), Reissued(c)>> /\ MaxBlockRecords = 2
            \/ Carried(c) = Known(c) /\ MaxBlockRecords >= 3
<1> DEFINE k == Known(c) R == Records(c)
<1>1. Revoked(c) \in R /\ Reissued(c) \in R /\ IssuerRecord(Home) \in R
  BY NewRecords
<1>2. k \in Seq(R) /\ Len(k) = 3 /\ k[1] = Revoked(c) /\ k[2] = Reissued(c) /\ k[3] = IssuerRecord(Home)
  <2> HIDE DEF R
  <2> QED BY <1>1 DEF Known
<1>3. MaxBlockRecords \in Nat /\ MaxBlockRecords >= 2
  BY KeyringAssumption, NetworkAssumption
<1>4. CASE MaxBlockRecords = 2
  <2>1. Carried(c) = SubSeq(k, 1, 2)
    BY <1>2, <1>4 DEF Carried, Capped
  <2> HIDE DEF k, R
  <2>2. \A i \in 1 .. 2 : k[i] \in R
    BY <1>2, SMTT(60)
  <2>3. SubSeq(k, 1, 2) \in Seq(R) /\ Len(SubSeq(k, 1, 2)) = 2 /\ \A i \in 1 .. 2 - 1 + 1 : SubSeq(k, 1, 2)[i] = k[1 + i - 1]
    BY <2>2, SubSeqProperties
  <2>4. SubSeq(k, 1, 2)[1] = k[1] /\ SubSeq(k, 1, 2)[2] = k[2]
    BY <2>3
  <2> DEFINE q == SubSeq(k, 1, 2) w == <<Revoked(c), Reissued(c)>>
  <2>5. w \in Seq(R) /\ Len(w) = 2 /\ w[1] = k[1] /\ w[2] = k[2]
    BY <1>1, <1>2
  <2>6. q \in Seq(R) /\ Len(q) = 2 /\ q[1] = k[1] /\ q[2] = k[2]
    BY <2>3, <2>4
  <2> HIDE DEF q, w
  <2>7. \A i \in 1 .. Len(q) : q[i] = w[i]
    BY <2>5, <2>6
  <2>8. q = w
    BY <2>5, <2>6, <2>7, SeqEqual
  <2> QED BY <1>4, <2>1, <2>6, <2>8 DEF q, w, R
<1>5. CASE MaxBlockRecords >= 3
  <2>1. Carried(c) = SubSeq(k, 1, 3)
    BY <1>2, <1>3, <1>5 DEF Carried, Capped
  <2> HIDE DEF k, R
  <2>2. Carried(c) = k
    BY <1>2, <2>1, SubSeqFull
  <2> QED BY <1>2, <1>5, <2>2 DEF k, R
<1> QED
  BY <1>3, <1>4, <1>5

\* The news reaches a ring of the ceremony.
LEMMA FirstNews ==
  ASSUME NEW c, NEW at \in Nat, LaunchAt <= at
  PROVE  /\ Ingest(LaunchRing, <<Revoked(c), Reissued(c)>>, at) = Heard(c, at)
         /\ Ingest(LaunchRing, Carried(c), at) = Heard(c, at)
<1> DEFINE E == Entries(c) L == LaunchRing
           a == [rec |-> Revoked(c), seenAt |-> at] b == [rec |-> Reissued(c), seenAt |-> at]
           I == IssuerRecord(Home)
<1>1. /\ L \in Seq(E) /\ Len(L) \in Nat /\ ~Knows(L, Revoked(c)) /\ ~Knows(L, Reissued(c)) /\ Knows(L, I)
      /\ \A i \in 1 .. Len(L) : L[i].seenAt = LaunchAt
  BY LaunchEntries
<1>2. /\ Heard(c, at) \in Seq(E) /\ DOMAIN Heard(c, at) = 1 .. Len(L) + 2
      /\ \A i \in 1 .. Len(L) : Heard(c, at)[i] = L[i]
      /\ Heard(c, at)[Len(L) + 1] = a /\ Heard(c, at)[Len(L) + 2] = b
      /\ Heard(c, at) = Append(Append(L, a), b)
  BY HeardEntries
<1>3. Revoked(c) # Reissued(c) /\ Revoked(c) # I /\ Reissued(c) # I
  BY NewRecords
<1>4. Add(L, Revoked(c), at) = Append(L, a)
  BY <1>1, AddFacts
<1>5. Append(L, a) \in Seq(E) /\ ~Knows(Append(L, a), Reissued(c))
  <2>1. a \in E /\ a.rec = Revoked(c)
    BY NewRecords DEF Entries
  <2> HIDE DEF a, E, L
  <2>2. Append(L, a) \in Seq(E) /\ DOMAIN Append(L, a) = 1 .. Len(L) + 1
        /\ (\A i \in 1 .. Len(L) : Append(L, a)[i] = L[i]) /\ Append(L, a)[Len(L) + 1] = a
    BY <1>1, <2>1
  <2>3. DOMAIN L = 1 .. Len(L)
    BY <1>1
  <2>4. \A i \in 1 .. Len(L) + 1 : i \in 1 .. Len(L) \/ i = Len(L) + 1
    BY <1>1
  <2> QED BY <1>1, <1>3, <2>1, <2>2, <2>3, <2>4 DEF Knows
<1>6. Add(Append(L, a), Reissued(c), at) = Heard(c, at)
  <2> DEFINE X == Append(L, a)
  <2>1. X \in Seq(E) /\ ~Knows(X, Reissued(c))
    BY <1>5
  <2> HIDE DEF X, E
  <2>2. Add(X, Reissued(c), at) = Append(X, b)
    BY <2>1, AddFacts
  <2> QED BY <1>2, <2>2 DEF X
<1>7. Add(Heard(c, at), I, at) = Heard(c, at)
  <2> DEFINE H == Heard(c, at)
  <2>1. Knows(H, I)
    <3>1. PICK i \in 1 .. Len(L) : L[i].rec = I
      BY LaunchEntries, NewRecords
    <3>2. i \in 1 .. Len(L) + 2
      BY <1>1, <3>1
    <3> HIDE DEF L, I, a, b
    <3> QED BY <1>2, <3>1, <3>2 DEF Knows
  <2>2. \A i \in DOMAIN H : H[i].seenAt <= at /\ H[i].seenAt \in Nat
    <3>1. \A i \in 1 .. Len(L) + 2 : i \in 1 .. Len(L) \/ i = Len(L) + 1 \/ i = Len(L) + 2
      BY <1>1
    <3>2. a.seenAt = at /\ b.seenAt = at
      OBVIOUS
    <3> HIDE DEF L, I, a, b, H
    <3> QED BY <1>1, <1>2, <3>1, <3>2, Times DEF H
  <2>3. H \in Seq(E)
    BY <1>2
  <2> HIDE DEF I, E, L, a, b, H
  <2>4. Add(H, I, at) = H
    BY <2>1, <2>2, <2>3, AddFacts
  <2> QED BY <2>4 DEF H
<1>8. Ingest(L, <<Revoked(c), Reissued(c)>>, at) = Heard(c, at)
  <2> DEFINE w == <<Revoked(c), Reissued(c)>>
  <2>1. w \in Seq(Records(c)) /\ Len(w) = 2 /\ w[1] = Revoked(c) /\ w[2] = Reissued(c)
    BY NewRecords
  <2> HIDE DEF w
  <2>2. PICK h \in [0 .. Len(w) -> Seq(E)] : IngestRun(L, w, at, h)
    BY <1>1, <2>1, IngestSteps
  <2>3. h[0] = L /\ h[2] = Ingest(L, w, at) /\ h[1] = Add(h[0], w[1], at) /\ h[2] = Add(h[1], w[2], at)
    <3>1. \A i \in 1 .. 2 : h[i] = Add(h[i - 1], w[i], at)
      BY <2>1, <2>2 DEF IngestRun
    <3>2. h[1] = Add(h[1 - 1], w[1], at) /\ h[2] = Add(h[2 - 1], w[2], at) /\ 1 - 1 = 0 /\ 2 - 1 = 1
      BY <3>1
    <3> QED BY <2>1, <2>2, <3>2 DEF IngestRun
  <2> QED BY <1>4, <1>6, <2>1, <2>3 DEF w
<1>9. Ingest(L, Known(c), at) = Heard(c, at)
  <2> DEFINE w == Known(c)
  <2>1. w \in Seq(Records(c)) /\ Len(w) = 3 /\ w[1] = Revoked(c) /\ w[2] = Reissued(c) /\ w[3] = I
    BY NewRecords DEF Known
  <2> HIDE DEF w, I
  <2>2. PICK h \in [0 .. Len(w) -> Seq(E)] : IngestRun(L, w, at, h)
    BY <1>1, <2>1, IngestSteps
  <2>3. h[0] = L /\ h[3] = Ingest(L, w, at) /\ h[1] = Add(h[0], w[1], at) /\ h[2] = Add(h[1], w[2], at) /\ h[3] = Add(h[2], w[3], at)
    <3>1. \A i \in 1 .. 3 : h[i] = Add(h[i - 1], w[i], at)
      BY <2>1, <2>2 DEF IngestRun
    <3>2. h[1] = Add(h[1 - 1], w[1], at) /\ h[2] = Add(h[2 - 1], w[2], at) /\ h[3] = Add(h[3 - 1], w[3], at) /\ 1 - 1 = 0 /\ 2 - 1 = 1 /\ 3 - 1 = 2
      BY <3>1
    <3> QED BY <2>1, <2>2, <3>2 DEF IngestRun
  <2> QED BY <1>4, <1>6, <1>7, <2>1, <2>3 DEF w
<1> QED
  BY <1>8, <1>9, CarriedCases

\* The same news again changes nothing.
LEMMA OldNews ==
  ASSUME NEW c, NEW s \in Nat, NEW at \in Nat, LaunchAt <= s, s <= at
  PROVE  Ingest(Heard(c, s), Carried(c), at) = Heard(c, s)
<1> DEFINE E == Entries(c) H == Heard(c, s) w == Carried(c)
<1>0. /\ H \in Seq(E) /\ DOMAIN H = 1 .. Len(LaunchRing) + 2
      /\ \A i \in 1 .. Len(LaunchRing) : H[i] = LaunchRing[i]
      /\ H[Len(LaunchRing) + 1] = [rec |-> Revoked(c), seenAt |-> s]
      /\ H[Len(LaunchRing) + 2] = [rec |-> Reissued(c), seenAt |-> s]
  BY HeardEntries
<1>1. H \in Seq(E)
  BY <1>0
<1>2. w \in Seq(Records(c)) /\ (\A i \in 1 .. Len(w) : w[i] \in {Revoked(c), Reissued(c), IssuerRecord(Home)})
  BY CarriedCases DEF Known
<1>3. \A r \in {Revoked(c), Reissued(c), IssuerRecord(Home)} : Add(H, r, at) = H
  <2>1. \A i \in DOMAIN H : H[i].seenAt <= at /\ H[i].seenAt \in Nat
    <3>1. \A i \in 1 .. Len(LaunchRing) + 2 : i \in 1 .. Len(LaunchRing) \/ i = Len(LaunchRing) + 1 \/ i = Len(LaunchRing) + 2
      BY LaunchEntries
    <3>2. \A i \in 1 .. Len(LaunchRing) : LaunchRing[i].seenAt = LaunchAt
      BY LaunchEntries
    <3>3. [rec |-> Revoked(c), seenAt |-> s].seenAt = s /\ [rec |-> Reissued(c), seenAt |-> s].seenAt = s
      OBVIOUS
    <3> HIDE DEF H, E
    <3> QED BY <1>0, <3>1, <3>2, <3>3, Times, SMTT(60)
  <2>2. Knows(H, Revoked(c)) /\ Knows(H, Reissued(c)) /\ Knows(H, IssuerRecord(Home))
    <3>1. PICK i \in 1 .. Len(LaunchRing) : LaunchRing[i].rec = IssuerRecord(Home)
      BY LaunchEntries, NewRecords
    <3>0. Len(LaunchRing) \in Nat
      BY LaunchEntries
    <3> HIDE DEF H, E
    <3>2. i \in DOMAIN H /\ Len(LaunchRing) + 1 \in DOMAIN H /\ Len(LaunchRing) + 2 \in DOMAIN H
      BY <1>0, <3>0
    <3>3. H[i].rec = IssuerRecord(Home) /\ H[Len(LaunchRing) + 1].rec = Revoked(c) /\ H[Len(LaunchRing) + 2].rec = Reissued(c)
      BY <1>0, <3>1
    <3> QED BY <3>2, <3>3 DEF Knows
  <2> HIDE DEF H, E
  <2>3. ASSUME NEW r \in {Revoked(c), Reissued(c), IssuerRecord(Home)} PROVE Add(H, r, at) = H
    <3>1. Knows(H, r)
      BY <2>2
    <3> QED BY <1>1, <2>1, <3>1, AddFacts
  <2> QED BY <2>3
<1> HIDE DEF E, H, w
<1>4. PICK h \in [0 .. Len(w) -> Seq(E)] : IngestRun(H, w, at, h)
  BY <1>1, <1>2, IngestSteps DEF E
<1> DEFINE P == {k \in Nat : k <= Len(w) => h[k] = H}
<1>5. 0 \in P
  BY <1>4 DEF IngestRun
<1>6. ASSUME NEW k \in Nat, k \in P PROVE k + 1 \in P
  <2>1. SUFFICES ASSUME k + 1 <= Len(w) PROVE h[k + 1] = H
    OBVIOUS
  <2>2. Len(w) \in Nat
    BY <1>2
  <2>3. k + 1 \in 1 .. Len(w) /\ (k + 1) - 1 = k /\ k <= Len(w)
    BY <2>1, <2>2
  <2>4. h[k + 1] = Add(h[k], w[k + 1], at)
    BY <1>4, <2>3 DEF IngestRun
  <2> QED BY <1>2, <1>3, <1>6, <2>3, <2>4
<1>7. Len(w) \in P
  <2>1. Len(w) \in Nat
    BY <1>2
  <2> HIDE DEF P
  <2> QED BY <1>5, <1>6, <2>1, Induction
<1> QED
  <2>1. Len(w) \in Nat
    BY <1>2
  <2> QED BY <1>4, <1>7, <2>1 DEF IngestRun, H, w

\* What Among has kept after the first i elements.
AmongRun(seq, S, h) ==
  /\ h[0] = <<>> /\ h[Len(seq)] = Among(seq, S)
  /\ \A i \in 1 .. Len(seq) : h[i] = IF seq[i] \in S THEN Append(h[i - 1], seq[i]) ELSE h[i - 1]

\* The function by which Among is defined exists.
LEMMA AmongExists ==
  ASSUME NEW U, NEW seq \in Seq(U), NEW S
  PROVE  \E h \in [0 .. Len(seq) -> Seq(U)] : AmongRun(seq, S, h)
<1> DEFINE N == Len(seq)
           V == Seq(U)
           Next1(i, x) == IF seq[i] \in S THEN Append(x, seq[i]) ELSE x
           F == [p \in V \X (1 .. N) |-> Next1(p[2], p[1])]
           Body(g) == [i \in 0 .. N |-> IF i = 0 THEN <<>>
                         ELSE IF seq[i] \in S THEN Append(g[i - 1], seq[i]) ELSE g[i - 1]]
           at == CHOOSE g : g = Body(g)
<1>0. N \in Nat /\ <<>> \in V
  OBVIOUS
<1>1. \A x \in V : \A i \in 1 .. N : Next1(i, x) \in V
  <2>1. \A i \in 1 .. N : seq[i] \in U
    OBVIOUS
  <2> QED BY <2>1
<1>2. F \in [V \X (1 .. N) -> V] /\ \A x \in V : \A i \in 1 .. N : F[<<x, i>>] = Next1(i, x)
  <2> HIDE DEF Next1, V, N
  <2> QED BY <1>1
<1>3. PICK h \in [0 .. N -> V] : \E last : Iterates(h, <<>>, N, F, last)
  <2> HIDE DEF F, V, N
  <2> QED BY <1>0, <1>2, IterationExists
<1>4. h[0] = <<>> /\ \A i \in 1 .. N : h[i] = Next1(i, h[i - 1])
  <2>1. h[0] = <<>> /\ \A i \in 1 .. N : h[i] = F[<<h[i - 1], i>>]
    BY <1>3 DEF Iterates
  <2>2. \A i \in 1 .. N : h[i - 1] \in V
    <3> HIDE DEF V, F, N
    <3> QED BY <1>0, <1>3
  <2> HIDE DEF F, V, N, Next1
  <2> QED BY <1>2, <2>1, <2>2
<1>5. h = Body(h)
  <2>1. \A i \in 0 .. N : h[i] = Body(h)[i]
    <3>1. \A i \in 0 .. N : i = 0 \/ i \in 1 .. N
      BY <1>0
    <3> HIDE DEF N
    <3> QED BY <1>4, <3>1
  <2>2. DOMAIN h = 0 .. N /\ h \in [0 .. N -> V]
    BY <1>3
  <2>3. Body(h) = [i \in 0 .. N |-> h[i]]
    <3> HIDE DEF N
    <3> QED BY <2>1
  <2> HIDE DEF Body, V, N
  <2> QED BY <2>2, <2>3
<1>6. at = Body(at)
  <2> HIDE DEF Body
  <2> QED BY <1>5
<1>7. Among(seq, S) = at[N]
  BY DEF Among
<1>8. at[0] = <<>> /\ \A i \in 1 .. N : at[i] = Next1(i, at[i - 1])
  <2>1. \A i \in 0 .. N : at[i] = Body(at)[i]
    <3> HIDE DEF at, Body
    <3> QED BY <1>6
  <2> HIDE DEF at
  <2>2. at[0] = <<>>
    BY <1>0, <2>1
  <2>3. ASSUME NEW i \in 1 .. N PROVE at[i] = Next1(i, at[i - 1])
    <3>1. i \in 0 .. N /\ i # 0
      BY <1>0
    <3> HIDE DEF N
    <3> QED BY <2>1, <3>1
  <2> QED BY <2>2, <2>3
<1> DEFINE P == {k \in Nat : k <= N => at[k] = h[k]}
<1>9. 0 \in P
  <2> HIDE DEF at
  <2> QED BY <1>4, <1>8
<1>10. ASSUME NEW k \in Nat, k \in P PROVE k + 1 \in P
  <2>1. SUFFICES ASSUME k + 1 <= N PROVE at[k + 1] = h[k + 1]
    <3> HIDE DEF at
    <3> QED OBVIOUS
  <2>2. k + 1 \in 1 .. N /\ (k + 1) - 1 = k /\ k <= N
    <3> HIDE DEF N
    <3> QED BY <1>0, <2>1
  <2>3. at[k] = h[k]
    <3> HIDE DEF at
    <3> QED BY <1>10, <2>2
  <2>4. at[k + 1] = Next1(k + 1, at[k]) /\ h[k + 1] = Next1(k + 1, h[k])
    <3> HIDE DEF at, N, Next1
    <3> QED BY <1>4, <1>8, <2>2
  <2> HIDE DEF at, Next1
  <2> QED BY <2>3, <2>4
<1>11. at[N] = h[N]
  <2>1. N \in P
    <3> HIDE DEF P, N
    <3> QED BY <1>0, <1>9, <1>10, Induction
  <2> HIDE DEF at, N
  <2> QED BY <1>0, <2>1
<1> HIDE DEF at
<1> QED
  BY <1>3, <1>4, <1>7, <1>11 DEF AmongRun

\* Among of a sequence of which nothing, or one element, is in S.
LEMMA AmongFew ==
  ASSUME NEW U, NEW seq \in Seq(U), NEW S
  PROVE  /\ (\A i \in 1 .. Len(seq) : seq[i] \notin S) => Among(seq, S) = <<>>
         /\ \A k \in 1 .. Len(seq) : seq[k] \in S /\ (\A i \in 1 .. Len(seq) : i # k => seq[i] \notin S)
               => Among(seq, S) = <<seq[k]>>
<1>0. Len(seq) \in Nat
  OBVIOUS
<1>1. PICK h \in [0 .. Len(seq) -> Seq(U)] : AmongRun(seq, S, h)
  BY AmongExists
<1>2. /\ h[0] = <<>> /\ h[Len(seq)] = Among(seq, S)
      /\ \A i \in 1 .. Len(seq) : seq[i] \notin S => h[i] = h[i - 1]
      /\ \A i \in 1 .. Len(seq) : seq[i] \in S => h[i] = Append(h[i - 1], seq[i])
  BY <1>1 DEF AmongRun
<1>3. ASSUME NEW m \in 0 .. Len(seq), \A i \in 1 .. m : seq[i] \notin S
      PROVE  h[m] = <<>>
  <2> DEFINE P == {k \in Nat : k <= m => h[k] = <<>>}
  <2>1. 0 \in P
    BY <1>2
  <2>2. ASSUME NEW k \in Nat, k \in P PROVE k + 1 \in P
    <3>1. SUFFICES ASSUME k + 1 <= m PROVE h[k + 1] = <<>>
      OBVIOUS
    <3>2. k + 1 \in 1 .. m /\ k + 1 \in 1 .. Len(seq) /\ (k + 1) - 1 = k /\ k <= m
      BY <1>0, <3>1
    <3> QED BY <1>2, <1>3, <2>2, <3>2
  <2>3. m \in P
    <3> HIDE DEF P
    <3> QED BY <2>1, <2>2, <1>0, Induction, SMTT(60)
  <2> QED BY <2>3
<1>4. ASSUME \A i \in 1 .. Len(seq) : seq[i] \notin S PROVE Among(seq, S) = <<>>
  <2>1. Len(seq) \in 0 .. Len(seq)
    BY <1>0
  <2> QED BY <1>2, <1>3, <1>4, <2>1
<1>5. ASSUME NEW k \in 1 .. Len(seq), seq[k] \in S, \A i \in 1 .. Len(seq) : i # k => seq[i] \notin S
      PROVE  Among(seq, S) = <<seq[k]>>
  <2>1. h[k - 1] = <<>>
    <3>1. k - 1 \in 0 .. Len(seq) /\ \A i \in 1 .. k - 1 : i \in 1 .. Len(seq) /\ i # k
      BY <1>0
    <3> QED BY <1>3, <1>5, <3>1
  <2>2. h[k] = <<seq[k]>>
    BY <1>2, <1>5, <2>1, SMTT(60)
  <2> DEFINE P == {j \in Nat : k + j <= Len(seq) => h[k + j] = <<seq[k]>>}
  <2>3. 0 \in P
    BY <2>2
  <2>4. ASSUME NEW j \in Nat, j \in P PROVE j + 1 \in P
    <3>1. SUFFICES ASSUME k + (j + 1) <= Len(seq) PROVE h[k + (j + 1)] = <<seq[k]>>
      OBVIOUS
    <3>2. k + (j + 1) \in 1 .. Len(seq) /\ k + (j + 1) # k /\ (k + (j + 1)) - 1 = k + j /\ k + j <= Len(seq)
      BY <1>0, <3>1
    <3> QED BY <1>2, <1>5, <2>4, <3>2
  <2>5. Len(seq) - k \in P /\ k + (Len(seq) - k) = Len(seq)
    <3>1. Len(seq) - k \in Nat
      BY <1>0
    <3>2. Len(seq) - k \in P
      <4> HIDE DEF P
      <4> QED BY <2>3, <2>4, <3>1, Induction
    <3> QED BY <1>0, <3>2
  <2>6. h[k + (Len(seq) - k)] = <<seq[k]>>
    BY <1>0, <2>5
  <2>7. h[Len(seq)] = <<seq[k]>>
    <3> HIDE DEF P
    <3> QED BY <2>5, <2>6
  <2> QED BY <1>2, <2>7
<1> QED
  BY <1>4, <1>5

\* Short lists, element by element.
LEMMA Lists ==
  ASSUME NEW a, NEW b, NEW c
  PROVE  /\ Append(<<>>, a) = <<a>> /\ Append(<<a>>, b) = <<a, b>> /\ Append(<<a, b>>, c) = <<a, b, c>>
         /\ <<a>> \o <<b, c>> = <<a, b, c>>
<1> DEFINE S == {a, b, c} one == <<a>> two == <<a, b>> three == <<a, b, c>> rest == <<b, c>>
           x == Append(one, b) y == Append(two, c) z == one \o rest
<1>1. /\ one \in Seq(S) /\ Len(one) = 1 /\ one[1] = a
      /\ two \in Seq(S) /\ Len(two) = 2 /\ two[1] = a /\ two[2] = b
      /\ rest \in Seq(S) /\ Len(rest) = 2 /\ rest[1] = b /\ rest[2] = c
      /\ three \in Seq(S) /\ Len(three) = 3 /\ three[1] = a /\ three[2] = b /\ three[3] = c
      /\ Append(<<>>, a) = one /\ a \in S /\ b \in S /\ c \in S
  OBVIOUS
<1> HIDE DEF one, two, three, rest, S
<1>0. ASSUME NEW s \in Seq(S), NEW e \in S
      PROVE  /\ Append(s, e) \in Seq(S) /\ Len(Append(s, e)) = Len(s) + 1
             /\ Append(s, e)[Len(s) + 1] = e /\ \A j \in 1 .. Len(s) : Append(s, e)[j] = s[j]
  OBVIOUS
<1>2. x \in Seq(S) /\ Len(x) = 2 /\ x[1] = a /\ x[2] = b
  <2>1. /\ x \in Seq(S) /\ Len(x) = Len(one) + 1
        /\ x[Len(one) + 1] = b /\ \A j \in 1 .. Len(one) : x[j] = one[j]
    BY <1>0, <1>1
  <2>2. 1 + 1 = 2 /\ 1 \in 1 .. 1
    OBVIOUS
  <2> HIDE DEF x
  <2> QED BY <1>1, <2>1, <2>2
<1>3. y \in Seq(S) /\ Len(y) = 3 /\ y[1] = a /\ y[2] = b /\ y[3] = c
  <2>1. /\ y \in Seq(S) /\ Len(y) = Len(two) + 1
        /\ y[Len(two) + 1] = c /\ \A j \in 1 .. Len(two) : y[j] = two[j]
    BY <1>0, <1>1
  <2>2. 2 + 1 = 3 /\ 1 \in 1 .. 2 /\ 2 \in 1 .. 2
    OBVIOUS
  <2> HIDE DEF y
  <2> QED BY <1>1, <2>1, <2>2
<1>4. z \in Seq(S) /\ Len(z) = 3 /\ z[1] = a /\ z[2] = b /\ z[3] = c
  <2>1. z \in Seq(S) /\ Len(z) = 3 /\ \A j \in 1 .. 3 : z[j] = IF j <= 1 THEN one[j] ELSE rest[j - 1]
    <3>1. /\ z \in Seq(S) /\ Len(z) = Len(one) + Len(rest)
          /\ \A j \in 1 .. Len(one) + Len(rest) : z[j] = IF j <= Len(one) THEN one[j] ELSE rest[j - Len(one)]
      BY <1>1, ConcatProperties, ZenonT(60)
    <3> HIDE DEF z
    <3> QED BY <1>1, <3>1
  <2>2. 1 \in 1 .. 3 /\ 2 \in 1 .. 3 /\ 3 \in 1 .. 3 /\ 2 - 1 = 1 /\ 3 - 1 = 2
    OBVIOUS
  <2> HIDE DEF z
  <2> QED BY <1>1, <2>1, <2>2
<1> HIDE DEF x, y, z
<1>5. x = two
  <2>1. \A j \in 1 .. Len(x) : j = 1 \/ j = 2
    BY <1>2
  <2>2. \A j \in 1 .. Len(x) : x[j] = two[j]
    BY <1>1, <1>2, <2>1
  <2> QED BY <1>1, <1>2, <2>2, SeqEqual
<1>6. \A j \in 1 .. 3 : j = 1 \/ j = 2 \/ j = 3
  OBVIOUS
<1>7. y = three
  <2>1. \A j \in 1 .. Len(y) : y[j] = three[j]
    BY <1>1, <1>3, <1>6
  <2> QED BY <1>1, <1>3, <2>1, SeqEqual, SMTT(60)
<1>8. z = three
  <2>1. \A j \in 1 .. Len(z) : z[j] = three[j]
    BY <1>1, <1>4, <1>6
  <2> QED BY <1>1, <1>4, <2>1, SeqEqual
<1> QED
  BY <1>1, <1>5, <1>7, <1>8 DEF one, two, three, rest, x, y, z

\* A record joins a list only once.
Once(v, r) == IF Contains(v, r) THEN v ELSE Append(v, r)

\* What Once makes of the beginnings of a list of three.
LEMMA OnceTable ==
  ASSUME NEW a, NEW b, NEW i, a # b, a # i, b # i
  PROVE  /\ Once(<<>>, a) = <<a>> /\ Once(<<a>>, b) = <<a, b>> /\ Once(<<a, b>>, i) = <<a, b, i>>
         /\ Once(<<a, b>>, a) = <<a, b>> /\ Once(<<a, b>>, b) = <<a, b>>
         /\ \A x \in {a, b, i} : Once(<<a, b, i>>, x) = <<a, b, i>>
<1>1. Once(<<>>, a) = <<a>> /\ Once(<<a>>, b) = <<a, b>>
  <2>1. ~Contains(<<>>, a) /\ ~Contains(<<a>>, b)
    BY DEF Contains
  <2> QED BY <2>1, Lists DEF Once
<1>2. Once(<<a, b>>, i) = <<a, b, i>>
  <2>1. ~Contains(<<a, b>>, i)
    <3>1. \A k \in 1 .. 2 : k = 1 \/ k = 2
      OBVIOUS
    <3>2. Len(<<a, b>>) = 2 /\ <<a, b>>[1] = a /\ <<a, b>>[2] = b
      OBVIOUS
    <3> DEFINE w == <<a, b>>
    <3> HIDE DEF w
    <3>3. Len(w) = 2 /\ w[1] = a /\ w[2] = b
      BY <3>2 DEF w
    <3>4. ~Contains(w, i)
      BY <3>1, <3>3 DEF Contains
    <3> QED BY <3>4 DEF w
  <2>2. Append(<<a, b>>, i) = <<a, b, i>>
    BY Lists
  <2> QED BY <2>1, <2>2 DEF Once
<1>3. Contains(<<a, b>>, a) /\ Contains(<<a, b>>, b)
  <2>1. Len(<<a, b>>) = 2 /\ <<a, b>>[1] = a /\ <<a, b>>[2] = b /\ 1 \in 1 .. 2 /\ 2 \in 1 .. 2
    OBVIOUS
  <2> QED BY <2>1 DEF Contains
<1>4. \A x \in {a, b, i} : Contains(<<a, b, i>>, x)
  <2>1. Len(<<a, b, i>>) = 3 /\ <<a, b, i>>[1] = a /\ <<a, b, i>>[2] = b /\ <<a, b, i>>[3] = i
        /\ 1 \in 1 .. 3 /\ 2 \in 1 .. 3 /\ 3 \in 1 .. 3
    OBVIOUS
  <2> QED BY <2>1 DEF Contains
<1> QED
  BY <1>1, <1>2, <1>3, <1>4 DEF Once

OnceRun(records, h) ==
  /\ h[0] = <<>> /\ h[Len(records)] = NoDuplicates(records)
  /\ \A i \in 1 .. Len(records) : h[i] = Once(h[i - 1], records[i])

\* The duplicates of a block are dropped record by record.
LEMMA NoDuplicatesSteps ==
  ASSUME NEW U, NEW records \in Seq(U)
  PROVE  \E h \in [0 .. Len(records) -> Seq(U)] : OnceRun(records, h)
<1> DEFINE V == Seq(U)
<1>1. \A v \in V : \A i \in 1 .. Len(records) : (IF Contains(v, records[i]) THEN v ELSE Append(v, records[i])) \in V
  <2>1. \A i \in 1 .. Len(records) : records[i] \in U
    OBVIOUS
  <2>2. \A v \in V : \A x \in U : Append(v, x) \in V
    OBVIOUS
  <2> HIDE DEF V
  <2> QED BY <2>1, <2>2
<1>2. <<>> \in V
  OBVIOUS
<1>3. \E h \in [0 .. Len(records) -> V] : NoDuplicatesRun(records, h)
  <2> HIDE DEF V
  <2> QED BY <1>1, <1>2, NoDuplicatesIterates
<1> QED
  BY <1>3 DEF NoDuplicatesRun, Once, OnceRun

\* The records of a block and the same again: each stays once.
LEMMA KnownOnce ==
  ASSUME NEW c, NEW block \in {<<>>, Carried(c)}
  PROVE  NoDuplicates(block \o Known(c)) = Known(c)
<1> DEFINE a == Revoked(c) b == Reissued(c) i == IssuerRecord(Home) R == Records(c) k == Known(c)
<1>1. a # b /\ a # i /\ b # i /\ a \in R /\ b \in R /\ i \in R
  BY NewRecords
<1>2. k \in Seq(R) /\ Len(k) = 3 /\ k = <<a, b, i>> /\ k[1] = a /\ k[2] = b /\ k[3] = i
  <2> HIDE DEF R, a, b, i
  <2> QED BY <1>1 DEF Known, a, b, i
<1> HIDE DEF a, b, i, k, R
<1> DEFINE none == <<>> one == <<a>> two == <<a, b>> three == <<a, b, i>>
<1>T. /\ Once(none, a) = one /\ Once(one, b) = two /\ Once(two, i) = three
      /\ Once(two, a) = two /\ Once(two, b) = two /\ \A x \in {a, b, i} : Once(three, x) = three
  BY <1>1, OnceTable, SMTT(60)
<1>Z. k = three /\ <<>> = none
  BY <1>2
<1> HIDE DEF none, one, two, three
<1>3. CASE block = <<>>
  <2>1. block \o k = k
    BY <1>2, <1>3
  <2>2. PICK h \in [0 .. Len(k) -> Seq(R)] : OnceRun(k, h)
    BY <1>2, NoDuplicatesSteps
  <2>3. h[1] = Once(h[0], a) /\ h[2] = Once(h[1], b) /\ h[3] = Once(h[2], i)
    <3>1. h[1] = Once(h[1 - 1], k[1]) /\ h[2] = Once(h[2 - 1], k[2]) /\ h[3] = Once(h[3 - 1], k[3])
      BY <1>2, <2>2 DEF OnceRun
    <3>2. 1 - 1 = 0 /\ 2 - 1 = 1 /\ 3 - 1 = 2
      OBVIOUS
    <3> QED BY <1>2, <3>1, <3>2
  <2>4. h[3] = three
    BY <1>T, <1>Z, <2>2, <2>3 DEF OnceRun
  <2>5. h[3] = NoDuplicates(k)
    BY <1>2, <2>2 DEF OnceRun
  <2> QED BY <1>Z, <2>1, <2>4, <2>5 DEF k
<1>4. CASE block = <<a, b>>
  <2> DEFINE w == block \o k
  <2>0. block \in Seq(R) /\ Len(block) = 2 /\ block[1] = a /\ block[2] = b
    BY <1>1, <1>4
  <2>1. w \in Seq(R) /\ Len(w) = 5 /\ \A j \in 1 .. 5 : w[j] = IF j <= 2 THEN block[j] ELSE k[j - 2]
    <3>1. /\ w \in Seq(R) /\ Len(w) = Len(block) + Len(k)
          /\ \A j \in 1 .. Len(block) + Len(k) : w[j] = IF j <= Len(block) THEN block[j] ELSE k[j - Len(block)]
      <4>1. ASSUME NEW x \in Seq(R), NEW y \in Seq(R)
            PROVE  /\ x \o y \in Seq(R) /\ Len(x \o y) = Len(x) + Len(y)
                   /\ \A j \in 1 .. Len(x) + Len(y) : (x \o y)[j] = IF j <= Len(x) THEN x[j] ELSE y[j - Len(x)]
        BY ConcatProperties
      <4> QED BY <1>2, <2>0, <4>1
    <3> HIDE DEF w
    <3> QED BY <1>2, <2>0, <3>1
  <2>2. w[1] = a /\ w[2] = b /\ w[3] = a /\ w[4] = b /\ w[5] = i
    <3>1. 1 \in 1 .. 5 /\ 2 \in 1 .. 5 /\ 3 \in 1 .. 5 /\ 4 \in 1 .. 5 /\ 5 \in 1 .. 5 /\ 3 - 2 = 1 /\ 4 - 2 = 2 /\ 5 - 2 = 3
      OBVIOUS
    <3> HIDE DEF w
    <3> QED BY <1>2, <2>0, <2>1, <3>1
  <2> HIDE DEF w
  <2>3. PICK h \in [0 .. Len(w) -> Seq(R)] : OnceRun(w, h)
    BY <2>1, NoDuplicatesSteps
  <2>4. h[1] = Once(h[0], a) /\ h[2] = Once(h[1], b) /\ h[3] = Once(h[2], a) /\ h[4] = Once(h[3], b) /\ h[5] = Once(h[4], i)
    <3>1. h[1] = Once(h[1 - 1], w[1]) /\ h[2] = Once(h[2 - 1], w[2]) /\ h[3] = Once(h[3 - 1], w[3])
          /\ h[4] = Once(h[4 - 1], w[4]) /\ h[5] = Once(h[5 - 1], w[5])
      BY <2>1, <2>3 DEF OnceRun
    <3>2. 1 - 1 = 0 /\ 2 - 1 = 1 /\ 3 - 1 = 2 /\ 4 - 1 = 3 /\ 5 - 1 = 4
      OBVIOUS
    <3> QED BY <2>2, <3>1, <3>2
  <2>5. h[2] = two
    BY <1>T, <1>Z, <2>3, <2>4 DEF OnceRun
  <2>6. h[4] = two
    BY <1>T, <2>4, <2>5
  <2>7. h[5] = three
    BY <1>T, <2>4, <2>6
  <2>8. h[5] = NoDuplicates(w)
    BY <2>1, <2>3 DEF OnceRun
  <2> QED BY <1>Z, <2>7, <2>8 DEF k, w
<1>5. CASE block = k
  <2> DEFINE w == block \o k
  <2>1. w \in Seq(R) /\ Len(w) = 6 /\ \A j \in 1 .. 6 : w[j] = IF j <= 3 THEN k[j] ELSE k[j - 3]
    <3>1. /\ w \in Seq(R) /\ Len(w) = Len(k) + Len(k)
          /\ \A j \in 1 .. Len(k) + Len(k) : w[j] = IF j <= Len(k) THEN k[j] ELSE k[j - Len(k)]
      BY <1>2, <1>5, ConcatProperties
    <3> HIDE DEF w
    <3> QED BY <1>2, <3>1
  <2>2. w[1] = a /\ w[2] = b /\ w[3] = i /\ w[4] \in {a, b, i} /\ w[5] \in {a, b, i} /\ w[6] \in {a, b, i}
    <3>1. 1 \in 1 .. 6 /\ 2 \in 1 .. 6 /\ 3 \in 1 .. 6 /\ 4 \in 1 .. 6 /\ 5 \in 1 .. 6 /\ 6 \in 1 .. 6
          /\ 4 - 3 = 1 /\ 5 - 3 = 2 /\ 6 - 3 = 3
      OBVIOUS
    <3> HIDE DEF w
    <3> QED BY <1>2, <2>1, <3>1
  <2> HIDE DEF w
  <2>3. PICK h \in [0 .. Len(w) -> Seq(R)] : OnceRun(w, h)
    BY <2>1, NoDuplicatesSteps
  <2>4. h[1] = Once(h[0], w[1]) /\ h[2] = Once(h[1], w[2]) /\ h[3] = Once(h[2], w[3])
        /\ h[4] = Once(h[3], w[4]) /\ h[5] = Once(h[4], w[5]) /\ h[6] = Once(h[5], w[6])
    <3>1. h[1] = Once(h[1 - 1], w[1]) /\ h[2] = Once(h[2 - 1], w[2]) /\ h[3] = Once(h[3 - 1], w[3])
          /\ h[4] = Once(h[4 - 1], w[4]) /\ h[5] = Once(h[5 - 1], w[5]) /\ h[6] = Once(h[6 - 1], w[6])
      BY <2>1, <2>3 DEF OnceRun
    <3>2. 1 - 1 = 0 /\ 2 - 1 = 1 /\ 3 - 1 = 2 /\ 4 - 1 = 3 /\ 5 - 1 = 4 /\ 6 - 1 = 5
      OBVIOUS
    <3> QED BY <3>1, <3>2
  <2>5. h[2] = two
    BY <1>T, <1>Z, <2>2, <2>3, <2>4 DEF OnceRun
  <2>6. h[3] = three
    BY <1>T, <2>2, <2>4, <2>5
  <2>7. h[6] = three
    BY <1>T, <2>2, <2>4, <2>6
  <2>8. h[6] = NoDuplicates(w)
    BY <2>1, <2>3 DEF OnceRun
  <2> QED BY <1>Z, <2>7, <2>8 DEF k, w
<1> QED
  BY <1>3, <1>4, <1>5, CarriedCases DEF k, a, b

\* A node that heard passes the news on, whatever came with the bundle; one
\* that has none adds none.
LEMMA CarryFacts ==
  ASSUME NEW c
  PROVE  /\ \A block \in {<<>>, Carried(c)} : CarryRecords(block, Known(c)) = Carried(c)
         /\ CarryRecords(<<>>, <<>>) = <<>>
<1> DEFINE a == Revoked(c) b == Reissued(c) i == IssuerRecord(Home) R == Records(c) k == Known(c)
           A == {r \in ToSet(k) : IsRevocation(r)} B == {r \in ToSet(k) : ~IsRevocation(r)}
<1>1. a # b /\ a # i /\ b # i /\ a \in R /\ b \in R /\ i \in R
  BY NewRecords
<1>2. k \in Seq(R) /\ Len(k) = 3 /\ k = <<a, b, i>> /\ k[1] = a /\ k[2] = b /\ k[3] = i
  <2> HIDE DEF R, a, b, i
  <2> QED BY <1>1 DEF Known, a, b, i
<1>3. IsRevocation(a) /\ ~IsRevocation(b) /\ ~IsRevocation(i)
  BY <1>1, KeysApart
<1>4. a \in A /\ b \notin A /\ i \notin A /\ a \notin B /\ b \in B /\ i \in B
  <2> HIDE DEF k, a, b, i
  <2>1. a \in ToSet(k) /\ b \in ToSet(k) /\ i \in ToSet(k)
    <3>1. 1 \in DOMAIN k /\ 2 \in DOMAIN k /\ 3 \in DOMAIN k
      BY <1>2
    <3> QED BY <1>2, <3>1 DEF ToSet
  <2> QED BY <1>3, <2>1
<1> HIDE DEF a, b, i, k, R, A, B
<1>5. Among(k, A) = <<a>>
  <2>1. \A j \in 1 .. 3 : j # 1 => k[j] \notin A
    <3>1. \A j \in 1 .. 3 : j = 1 \/ j = 2 \/ j = 3
      OBVIOUS
    <3> QED BY <1>2, <1>4, <3>1
  <2>2. 1 \in 1 .. Len(k)
    BY <1>2
  <2> QED BY <1>2, <1>4, <2>1, <2>2, AmongFew
<1>6. Among(k, B) = <<b, i>>
  <2>1. PICK h \in [0 .. Len(k) -> Seq(R)] : AmongRun(k, B, h)
    BY <1>2, AmongExists
  <2>2. h[1] = h[0] /\ h[2] = Append(h[1], b) /\ h[3] = Append(h[2], i) /\ h[0] = <<>> /\ h[3] = Among(k, B)
    <3>1. \A j \in 1 .. 3 : h[j] = IF k[j] \in B THEN Append(h[j - 1], k[j]) ELSE h[j - 1]
      BY <1>2, <2>1 DEF AmongRun
    <3>2. 1 \in 1 .. 3 /\ 2 \in 1 .. 3 /\ 3 \in 1 .. 3 /\ 1 - 1 = 0 /\ 2 - 1 = 1 /\ 3 - 1 = 2
      OBVIOUS
    <3> QED BY <1>2, <1>4, <2>1, <3>1, <3>2 DEF AmongRun
  <2>3. h[3] = Append(Append(<<>>, b), i)
    BY <2>2
  <2> QED BY <2>2, <2>3, Lists
<1>7. RevocationsFirst(k) = k
  <2>1. RevocationsFirst(k) = <<a>> \o <<b, i>>
    BY <1>5, <1>6 DEF RevocationsFirst, A, B
  <2>2. <<a>> \o <<b, i>> = <<a, b, i>>
    BY Lists
  <2> QED BY <1>2, <2>1, <2>2
<1>8. ASSUME NEW block \in {<<>>, Carried(c)} PROVE CarryRecords(block, Known(c)) = Carried(c)
  <2>1. NoDuplicates(block \o Known(c)) = Known(c)
    BY KnownOnce
  <2> QED BY <1>7, <2>1 DEF CarryRecords, Carried, k
<1>9. CarryRecords(<<>>, <<>>) = <<>>
  <2> DEFINE e == <<>>
  <2>1. e \in Seq(R) /\ Len(e) = 0 /\ e \o e = e
    OBVIOUS
  <2>3. NoDuplicates(e) = e
    BY <2>1, NoDuplicatesSteps, ZenonT(60) DEF OnceRun
  <2>4. \A S : Among(e, S) = e
    <3>1. ASSUME NEW S PROVE Among(e, S) = e
      <4>1. \A j \in 1 .. Len(e) : e[j] \notin S
        BY <2>1
      <4> QED BY <2>1, <4>1, AmongFew
    <3> QED BY <3>1
  <2>5. RevocationsFirst(e) = e
    BY <2>1, <2>4 DEF RevocationsFirst
  <2>6. Capped(e) = e
    <3>1. MaxBlockRecords \in Nat /\ MaxBlockRecords >= 2
      BY KeyringAssumption, NetworkAssumption
    <3>2. Capped(e) = SubSeq(e, 1, 0)
      BY <2>1, <3>1 DEF Capped
    <3> QED BY <3>2, SubSeqEmpty
  <2> QED BY <2>1, <2>3, <2>5, <2>6 DEF CarryRecords
<1> QED
  BY <1>8, <1>9

\* The verdicts at the greatest depth, and those one level less deep than up.
Top == [chain |-> [k \in Keys |-> IF k \in Anchors THEN AnchorChain(k) ELSE NoChain],
        revoked |-> [k \in Keys |-> Never]]
Below(ring, up) ==
  [chain |-> [k \in Keys |-> IF k \in Anchors THEN AnchorChain(k) ELSE Chain(ring, up, k)],
   revoked |-> [k \in Keys |-> RevokedAt(ring, up, k)]]

\* Once a level is followed by itself, every level from there on is the same.
LEMMA VerdictsSettle ==
  ASSUME NEW ring, NEW a, NEW b, NEW d, a = Below(ring, Top), b = Below(ring, a), d = Below(ring, b),
         Below(ring, d) = d
  PROVE  Verdicts(ring) = d
<1> DEFINE N == MaxDepth
           Value(x) == IF x = N THEN Top ELSE IF x = N - 1 THEN a ELSE IF x = N - 2 THEN b ELSE d
           Body(g) == [x \in 0 .. N |->
                         IF x = N
                         THEN [chain |-> [k \in Keys |-> IF k \in Anchors THEN AnchorChain(k) ELSE NoChain],
                               revoked |-> [k \in Keys |-> Never]]
                         ELSE [chain |-> [k \in Keys |-> IF k \in Anchors THEN AnchorChain(k)
                                                         ELSE Chain(ring, g[x + 1], k)],
                               revoked |-> [k \in Keys |-> RevokedAt(ring, g[x + 1], k)]]]
           h == [x \in 0 .. N |-> Value(x)]
           at == CHOOSE g : g = Body(g)
<1>0. N \in Nat /\ N >= 3
  BY KeyringAssumption, NetworkAssumption
<1>1. \A g : Body(g) = [x \in 0 .. N |-> IF x = N THEN Top ELSE Below(ring, g[x + 1])]
  BY DEF Top, Below
<1>2. h = Body(h)
  <2>1. \A x \in 0 .. N : Value(x) = IF x = N THEN Top ELSE Below(ring, h[x + 1])
    <3>1. SUFFICES ASSUME NEW x \in 0 .. N, x # N PROVE Value(x) = Below(ring, h[x + 1])
      <4> HIDE DEF N
      <4> QED OBVIOUS
    <3>2. x + 1 \in 0 .. N
      <4> HIDE DEF N
      <4> QED BY <1>0, <3>1
    <3>3. h[x + 1] = Value(x + 1)
      <4> HIDE DEF Value, N
      <4> QED BY <3>2
    <3> HIDE DEF N, h
    <3>4. CASE x = N - 1
      BY <1>0, <3>3, <3>4
    <3>5. CASE x = N - 2
      BY <1>0, <3>3, <3>5
    <3>6. CASE x = N - 3
      BY <1>0, <3>3, <3>6
    <3>7. CASE x # N - 1 /\ x # N - 2 /\ x # N - 3
      BY <1>0, <3>1, <3>3, <3>7
    <3> QED BY <3>4, <3>5, <3>6, <3>7
  <2> HIDE DEF Value, N, Body
  <2>2. Body(h) = [x \in 0 .. N |-> IF x = N THEN Top ELSE Below(ring, h[x + 1])]
    BY <1>1
  <2>3. [x \in 0 .. N |-> Value(x)] = [x \in 0 .. N |-> IF x = N THEN Top ELSE Below(ring, h[x + 1])]
    <3> HIDE DEF h
    <3> QED BY <2>1
  <2> QED BY <2>2, <2>3
<1>3. at = Body(at)
  <2> HIDE DEF Body
  <2> QED BY <1>2
<1>4. Verdicts(ring) = at[0]
  BY DEF Verdicts
<1>5. \A x \in 0 .. N : at[x] = IF x = N THEN Top ELSE Below(ring, at[x + 1])
  <2> HIDE DEF at, N, Body
  <2>1. at = [x \in 0 .. N |-> IF x = N THEN Top ELSE Below(ring, at[x + 1])]
    BY <1>1, <1>3
  <2> QED BY <2>1
<1> DEFINE P == {j \in Nat : j <= N => at[N - j] = Value(N - j)}
<1>6. 0 \in P
  <2>1. at[N - 0] = Top
    <3> HIDE DEF at, N
    <3> QED BY <1>0, <1>5
  <2> HIDE DEF at
  <2> QED BY <1>0, <2>1
<1>7. ASSUME NEW j \in Nat, j \in P PROVE j + 1 \in P
  <2>1. SUFFICES ASSUME j + 1 <= N PROVE at[N - (j + 1)] = Value(N - (j + 1))
    <3> HIDE DEF at, Value
    <3> QED OBVIOUS
  <2> DEFINE x == N - (j + 1)
  <2>2. x \in 0 .. N /\ x # N /\ x + 1 = N - j /\ j <= N /\ x + 1 \in 0 .. N
    <3> HIDE DEF N
    <3> QED BY <1>0, <2>1
  <2>3. at[x + 1] = Value(x + 1)
    <3> HIDE DEF at, Value, N, x
    <3> QED BY <1>7, <2>2
  <2>4. at[x] = Below(ring, Value(x + 1))
    <3> HIDE DEF at, Value, N, x
    <3> QED BY <1>5, <2>2, <2>3
  <2>5. Value(x) = Below(ring, Value(x + 1))
    <3>1. h[x] = Body(h)[x]
      <4> HIDE DEF h, Body
      <4> QED BY <1>2
    <3>2. h[x] = Value(x) /\ h[x + 1] = Value(x + 1)
      <4> HIDE DEF Value, x, N
      <4> QED BY <2>2
    <3>3. Body(h)[x] = Below(ring, h[x + 1])
      <4> HIDE DEF Body, x, N, h
      <4> QED BY <1>1, <2>2
    <3> HIDE DEF Value, x, N, h, Body
    <3> QED BY <3>1, <3>2, <3>3
  <2> HIDE DEF at, Value
  <2> QED BY <2>4, <2>5
<1>8. at[0] = Value(0)
  <2>1. N \in P
    <3> HIDE DEF P, N
    <3> QED BY <1>0, <1>6, <1>7, Induction
  <2>2. at[N - N] = Value(N - N) /\ N - N = 0
    <3> HIDE DEF at, Value, N
    <3> QED BY <1>0, <2>1
  <2> HIDE DEF at, Value, N
  <2> QED BY <2>2
<1>9. Value(0) = d
  <2>1. 0 # N /\ 0 # N - 1 /\ 0 # N - 2
    BY <1>0, SMTT(60)
  <2> QED BY <2>1
<1> HIDE DEF at, Value
<1> QED
  BY <1>4, <1>8, <1>9

\* A key that no record names has no chain, one that a single record names has
\* the chain of that record, if it counts.
LEMMA ChainNone ==
  ASSUME NEW ring, NEW up, NEW k, \A j \in 1 .. Len(ring) : ~IsRecordOf(ring[j], k)
  PROVE  Chain(ring, up, k) = NoChain
BY ZenonT(60) DEF Chain, SelectInSeq

\* A ring with one record of a key has one chain for it, over that record.
LEMMA ChainUnique ==
  ASSUME NEW U, NEW ring \in Seq(U), NEW up, NEW k, NEW i \in 1 .. Len(ring), IsRecordOf(ring[i], k),
         \A j \in 1 .. Len(ring) : IsRecordOf(ring[j], k) => j = i
  PROVE  Chain(ring, up, k) =
           IF Counts(up, ring[i])
           THEN [ok |-> TRUE, rec |-> <<ring[i].rec>>, ids |-> <<k>> \o up.chain[ring[i].rec.issuer].ids,
                 roles |-> ring[i].rec.roles]
           ELSE NoChain
<1> DEFINE I == {j \in 1 .. Len(ring) : IsRecordOf(ring[j], k) /\ Counts(up, ring[j])}
           m == IF I # {} THEN Min(I) ELSE 0
<1>1. Chain(ring, up, k) =
        IF m = 0 THEN NoChain
        ELSE [ok |-> TRUE, rec |-> <<ring[m].rec>>, ids |-> <<k>> \o up.chain[ring[m].rec.issuer].ids,
              roles |-> ring[m].rec.roles]
  BY SMTT(60) DEF Chain, SelectInSeq
<1>2. CASE Counts(up, ring[i])
  <2>1. I = {i} /\ i \in Nat /\ i # 0
    BY <1>2
  <2>2. Min(I) = i
    <3>1. I \in SUBSET Nat /\ I # {}
      BY <2>1
    <3> HIDE DEF I
    <3>2. Min(I) \in I
      BY <3>1, MinOf, SMTT(60)
    <3> QED BY <2>1, <3>2
  <2> QED BY <1>1, <1>2, <2>1, <2>2
<1>3. CASE ~Counts(up, ring[i])
  <2>1. I = {}
    BY <1>3
  <2> QED BY <1>1, <1>3, <2>1
<1> QED
  BY <1>2, <1>3

\* The chains of the ceremony's keys, and of the new one.
IssuerChain(op) ==
  [ok |-> TRUE, rec |-> <<IssuerRecord(op)>>, ids |-> <<Issuer[op]>> \o <<Root[op]>>, roles |-> {"issue", "revoke"}]
NodeChain(n) ==
  [ok |-> TRUE, rec |-> <<NodeRecord(n)>>, ids |-> <<NodeKey[n]>> \o IssuerChain(OpOf[n]).ids, roles |-> {"custody"}]
NewChain(c) ==
  [ok |-> TRUE, rec |-> <<Reissued(c)>>, ids |-> <<NewKey>> \o IssuerChain(Home).ids, roles |-> {"custody"}]

IsIssuer(k) == \E op \in Operators : k = Issuer[op]
IsNodeKey(k) == \E n \in Nodes : k = NodeKey[n]

\* A ring of the network: that of the ceremony, or of a node that heard at s.
RingOf(c, s, news, ring) == ring = IF news THEN Heard(c, s) ELSE LaunchRing

Compromised(c) == c.stolenAt \in Nat /\ c.detectAt \in Nat /\ c.stolenAt <= c.detectAt
                    /\ LaunchAt < c.detectAt /\ c.detectAt < Never

\* What the ring says of each key.
RingSays(c, s, news, ring) ==
  /\ ring \in Seq(Entries(c))
  /\ \A op \in Operators : \E i \in 1 .. Len(ring) :
       /\ ring[i] = [rec |-> IssuerRecord(op), seenAt |-> LaunchAt]
       /\ \A j \in 1 .. Len(ring) : IsRecordOf(ring[j], Issuer[op]) <=> j = i
  /\ \A n \in Nodes : \E i \in 1 .. Len(ring) :
       /\ ring[i] = [rec |-> NodeRecord(n), seenAt |-> LaunchAt]
       /\ \A j \in 1 .. Len(ring) : IsRecordOf(ring[j], NodeKey[n]) <=> j = i
  /\ news => \E i \in 1 .. Len(ring) :
       /\ ring[i] = [rec |-> Reissued(c), seenAt |-> s]
       /\ \A j \in 1 .. Len(ring) : IsRecordOf(ring[j], NewKey) <=> j = i
  /\ ~news => \A j \in 1 .. Len(ring) : ~IsRecordOf(ring[j], NewKey)
  /\ \A k : k \in Anchors \/ (~IsIssuer(k) /\ ~IsNodeKey(k) /\ k # NewKey) =>
       \A j \in 1 .. Len(ring) : ~IsRecordOf(ring[j], k)
  /\ \A k : Revocations(ring, k) = IF news /\ k = StolenKey THEN {Revoked(c)} ELSE {}

\* The rings of the network say so.
LEMMA RingSaysSo ==
  ASSUME NEW c, NEW s \in Nat, NEW news \in BOOLEAN, NEW ring, RingOf(c, s, news, ring)
  PROVE  RingSays(c, s, news, ring)
<1> DEFINE E == Entries(c) L == LaunchRing n0 == Len(LaunchRing)
           a == [rec |-> Revoked(c), seenAt |-> s] b == [rec |-> Reissued(c), seenAt |-> s]
<1>1. /\ L \in Seq(E) /\ n0 \in Nat /\ DOMAIN L = 1 .. n0
      /\ \A i \in 1 .. n0 : L[i].rec \in Provision /\ L[i] = [rec |-> L[i].rec, seenAt |-> LaunchAt]
      /\ \A r \in Provision : \E i \in 1 .. n0 : L[i].rec = r
      /\ \A i, j \in 1 .. n0 : L[i].rec = L[j].rec => i = j
  BY LaunchEntries
<1>2. /\ ring \in Seq(E) /\ DOMAIN ring = 1 .. Len(ring) /\ \A i \in 1 .. n0 : i \in 1 .. Len(ring) /\ ring[i] = L[i]
      /\ ~news => \A i \in 1 .. Len(ring) : i \in 1 .. n0
      /\ news => /\ n0 + 1 \in 1 .. Len(ring) /\ n0 + 2 \in 1 .. Len(ring)
                 /\ ring[n0 + 1] = a /\ ring[n0 + 2] = b
                 /\ \A i \in 1 .. Len(ring) : i \in 1 .. n0 \/ i = n0 + 1 \/ i = n0 + 2
  <2>1. CASE news
    <3>1. ring = Heard(c, s)
      BY <2>1 DEF RingOf
    <3>2. /\ ring \in Seq(E) /\ Len(ring) = n0 + 2 /\ DOMAIN ring = 1 .. n0 + 2
          /\ (\A i \in 1 .. n0 : ring[i] = L[i]) /\ ring[n0 + 1] = a /\ ring[n0 + 2] = b
      BY <3>1, HeardEntries
    <3> HIDE DEF L, n0, a, b, E
    <3> QED BY <1>1, <2>1, <3>2
  <2>2. CASE ~news
    <3>1. ring = L
      BY <2>2 DEF RingOf
    <3> HIDE DEF L, a, b, E
    <3> QED BY <1>1, <2>2, <3>1
  <2> QED BY <2>1, <2>2
<1>3. a.rec = Revoked(c) /\ b.rec = Reissued(c)
  OBVIOUS
<1>4. Revoked(c) \notin Provision /\ Reissued(c) \notin Provision /\ Revoked(c) # Reissued(c)
      /\ Provision \subseteq Records(c) /\ Revoked(c) \in Records(c) /\ Reissued(c) \in Records(c)
  BY NewRecords DEF Records
<1>5. \A i \in 1 .. Len(ring) : ring[i].rec \in Records(c)
  <2> HIDE DEF L, n0, a, b
  <2>1. \A i \in 1 .. n0 : ring[i].rec \in Provision
    BY <1>1, <1>2
  <2> QED BY <1>2, <1>3, <1>4, <2>1
<1>6. \A r \in Provision : \E i \in 1 .. Len(ring) :
         /\ ring[i] = [rec |-> r, seenAt |-> LaunchAt]
         /\ \A j \in 1 .. Len(ring) : ring[j].rec = r <=> j = i
  <2>1. SUFFICES ASSUME NEW r \in Provision
        PROVE  \E i \in 1 .. Len(ring) :
                 /\ ring[i] = [rec |-> r, seenAt |-> LaunchAt]
                 /\ \A j \in 1 .. Len(ring) : ring[j].rec = r <=> j = i
    OBVIOUS
  <2> HIDE DEF L, n0, a, b
  <2>2. PICK i \in 1 .. n0 : L[i].rec = r
    BY <1>1
  <2>3. i \in 1 .. Len(ring) /\ ring[i] = [rec |-> r, seenAt |-> LaunchAt] /\ ring[i].rec = r
    BY <1>1, <1>2, <2>2
  <2>4. ASSUME NEW j \in 1 .. Len(ring), ring[j].rec = r PROVE j = i
    <3>1. j \in 1 .. n0
      BY <1>2, <1>3, <1>4, <2>4
    <3> QED BY <1>1, <1>2, <2>2, <2>4, <3>1
  <2> QED BY <2>3, <2>4
<1>7. \A j \in 1 .. Len(ring) :
         /\ \A op \in Operators : IsRecordOf(ring[j], Issuer[op]) <=> ring[j].rec = IssuerRecord(op)
         /\ \A n \in Nodes : IsRecordOf(ring[j], NodeKey[n]) <=> ring[j].rec = NodeRecord(n)
         /\ IsRecordOf(ring[j], NewKey) <=> ring[j].rec = Reissued(c)
         /\ \A k \in Anchors : ~IsRecordOf(ring[j], k)
         /\ IsRevocation(ring[j].rec) <=> ring[j].rec = Revoked(c)
  <2> HIDE DEF L, n0, a, b
  <2>1. SUFFICES ASSUME NEW j \in 1 .. Len(ring)
        PROVE  /\ \A op \in Operators : IsRecordOf(ring[j], Issuer[op]) <=> ring[j].rec = IssuerRecord(op)
               /\ \A n \in Nodes : IsRecordOf(ring[j], NodeKey[n]) <=> ring[j].rec = NodeRecord(n)
               /\ IsRecordOf(ring[j], NewKey) <=> ring[j].rec = Reissued(c)
               /\ \A k \in Anchors : ~IsRecordOf(ring[j], k)
               /\ IsRevocation(ring[j].rec) <=> ring[j].rec = Revoked(c)
    OBVIOUS
  <2>2. ring[j].rec \in Records(c)
    BY <1>5
  <2> QED BY <2>2, KeysApart DEF IsRecordOf
<1>8. \A op \in Operators : \E i \in 1 .. Len(ring) :
       /\ ring[i] = [rec |-> IssuerRecord(op), seenAt |-> LaunchAt]
       /\ \A j \in 1 .. Len(ring) : IsRecordOf(ring[j], Issuer[op]) <=> j = i
  <2>1. SUFFICES ASSUME NEW op \in Operators
        PROVE \E i \in 1 .. Len(ring) :
                /\ ring[i] = [rec |-> IssuerRecord(op), seenAt |-> LaunchAt]
                /\ \A j \in 1 .. Len(ring) : IsRecordOf(ring[j], Issuer[op]) <=> j = i
    OBVIOUS
  <2>2. PICK i \in 1 .. Len(ring) :
           /\ ring[i] = [rec |-> IssuerRecord(op), seenAt |-> LaunchAt]
           /\ \A j \in 1 .. Len(ring) : ring[j].rec = IssuerRecord(op) <=> j = i
    BY <1>6, ProvisionFacts
  <2>3. \A j \in 1 .. Len(ring) : IsRecordOf(ring[j], Issuer[op]) <=> j = i
    BY <1>7, <2>2
  <2> QED BY <2>2, <2>3
<1>9. \A n \in Nodes : \E i \in 1 .. Len(ring) :
       /\ ring[i] = [rec |-> NodeRecord(n), seenAt |-> LaunchAt]
       /\ \A j \in 1 .. Len(ring) : IsRecordOf(ring[j], NodeKey[n]) <=> j = i
  <2>1. SUFFICES ASSUME NEW n \in Nodes
        PROVE \E i \in 1 .. Len(ring) :
                /\ ring[i] = [rec |-> NodeRecord(n), seenAt |-> LaunchAt]
                /\ \A j \in 1 .. Len(ring) : IsRecordOf(ring[j], NodeKey[n]) <=> j = i
    OBVIOUS
  <2>2. PICK i \in 1 .. Len(ring) :
           /\ ring[i] = [rec |-> NodeRecord(n), seenAt |-> LaunchAt]
           /\ \A j \in 1 .. Len(ring) : ring[j].rec = NodeRecord(n) <=> j = i
    BY <1>6, ProvisionFacts
  <2>3. \A j \in 1 .. Len(ring) : IsRecordOf(ring[j], NodeKey[n]) <=> j = i
    BY <1>7, <2>2
  <2> QED BY <2>2, <2>3
<1>10. ASSUME news
       PROVE  \E i \in 1 .. Len(ring) :
                /\ ring[i] = [rec |-> Reissued(c), seenAt |-> s]
                /\ \A j \in 1 .. Len(ring) : IsRecordOf(ring[j], NewKey) <=> j = i
  <2>1. n0 + 2 \in 1 .. Len(ring) /\ ring[n0 + 2] = b /\ ring[n0 + 1] = a
    BY <1>2, <1>10
  <2>2. \A j \in 1 .. Len(ring) : ring[j].rec = Reissued(c) <=> j = n0 + 2
    <3>1. \A i \in 1 .. n0 : ring[i].rec \in Provision
      BY <1>1, <1>2
    <3> HIDE DEF n0, a, b, L
    <3> QED BY <1>1, <1>2, <1>3, <1>4, <1>10, <2>1, <3>1
  <2> QED BY <1>7, <2>1, <2>2
<1>11. ASSUME ~news PROVE \A j \in 1 .. Len(ring) : ~IsRecordOf(ring[j], NewKey)
  <2>1. \A i \in 1 .. Len(ring) : ring[i].rec \in Provision
    BY <1>1, <1>2, <1>11
  <2> QED BY <1>4, <1>7, <2>1
<1>12. \A k : k \in Anchors \/ (~IsIssuer(k) /\ ~IsNodeKey(k) /\ k # NewKey) =>
         \A j \in 1 .. Len(ring) : ~IsRecordOf(ring[j], k)
  <2>1. ASSUME NEW j \in 1 .. Len(ring), NEW k, IsRecordOf(ring[j], k) PROVE IsIssuer(k) \/ IsNodeKey(k) \/ k = NewKey
    <3>1. ring[j].rec \in Records(c)
      BY <1>5
    <3>2. ring[j].rec.kind = "key" /\ ring[j].rec.key = k
      BY <2>1 DEF IsRecordOf, IsKey
    <3>3. ring[j].rec # Revoked(c)
      BY <3>2 DEF Revoked, RevokeKey
    <3>4. \/ \E op \in Operators : ring[j].rec = IssuerRecord(op)
          \/ \E n \in Nodes : ring[j].rec = NodeRecord(n)
          \/ ring[j].rec = Reissued(c)
      BY <3>1, <3>3, ProvisionFacts DEF Records
    <3>5. /\ \A op \in Operators : IssuerRecord(op).key = Issuer[op]
          /\ \A n \in Nodes : NodeRecord(n).key = NodeKey[n]
          /\ Reissued(c).key = NewKey
      BY DEF IssuerRecord, NodeRecord, Reissued, IssueKey
    <3> QED BY <3>2, <3>4, <3>5 DEF IsIssuer, IsNodeKey
  <2> QED BY <1>7, <2>1
<1>13. ASSUME NEW k PROVE Revocations(ring, k) = IF news /\ k = StolenKey THEN {Revoked(c)} ELSE {}
  <2>1. Revoked(c).target = StolenKey
    BY DEF Revoked, RevokeKey
  <2>2. \A r \in Revocations(ring, k) : r = Revoked(c) /\ k = StolenKey
    BY <1>2, <1>7, <2>1 DEF Revocations
  <2>3. ~news => Revocations(ring, k) = {}
    <3>1. ~news => \A i \in 1 .. Len(ring) : ring[i].rec \in Provision
      BY <1>1, <1>2
    <3> QED BY <1>2, <1>4, <1>7, <3>1 DEF Revocations
  <2>4. news /\ k = StolenKey => Revoked(c) \in Revocations(ring, k)
    <3>1. news => n0 + 1 \in DOMAIN ring /\ ring[n0 + 1].rec = Revoked(c) /\ IsRevocation(ring[n0 + 1].rec)
      BY <1>2, <1>3, <1>7
    <3> HIDE DEF n0
    <3> QED BY <2>1, <3>1 DEF Revocations
  <2> QED BY <2>2, <2>3, <2>4
<1> QED
  BY <1>2, <1>8, <1>9, <1>10, <1>11, <1>12, <1>13 DEF RingSays

IsPlain(k) == k \notin Anchors /\ ~IsIssuer(k) /\ ~IsNodeKey(k) /\ k # NewKey

\* The chains known d levels above the greatest depth.
Chained(c, news, v, d) ==
  /\ \A k \in Anchors : v.chain[k] = AnchorChain(k)
  /\ \A op \in Operators : v.chain[Issuer[op]] = IF d >= 1 THEN IssuerChain(op) ELSE NoChain
  /\ \A n \in Nodes : v.chain[NodeKey[n]] = IF d >= 2 THEN NodeChain(n) ELSE NoChain
  /\ v.chain[NewKey] = IF d >= 2 /\ news THEN NewChain(c) ELSE NoChain
  /\ \A k \in Keys : IsPlain(k) => v.chain[k] = NoChain

RevokedOnly(c, on, v) ==
  \A k \in Keys : v.revoked[k] = IF on /\ k = StolenKey THEN c.stolenAt ELSE Never

\* Each key of the ceremony is of one sort.
LEMMA KeySorts ==
  /\ \A op \in Operators : /\ Root[op] \in Keys /\ Root[op] \in Anchors
                           /\ Issuer[op] \in Keys /\ Issuer[op] \notin Anchors /\ Issuer[op] # StolenKey
                           /\ Issuer[op] # NewKey /\ IsIssuer(Issuer[op]) /\ Root[op] # StolenKey
  /\ \A n \in Nodes : /\ NodeKey[n] \in Keys /\ NodeKey[n] \notin Anchors /\ NodeKey[n] # NewKey
                      /\ IsNodeKey(NodeKey[n]) /\ OpOf[n] \in Operators
                      /\ (NodeKey[n] = StolenKey <=> n = Victim)
  /\ NewKey \in Keys /\ NewKey \notin Anchors /\ NewKey # StolenKey
  /\ \A k \in Keys : k \in Anchors \/ IsIssuer(k) \/ IsNodeKey(k) \/ k = NewKey \/ IsPlain(k)
  /\ Anchors \subseteq Keys /\ StolenKey \in Keys
<1>1. \A op \in Operators : Root[op] \in Keys /\ Root[op] \in Anchors /\ Issuer[op] \in Keys
                             /\ Issuer[op] \notin Anchors /\ Issuer[op] # NewKey /\ \A n \in Nodes : Issuer[op] # NodeKey[n]
  BY NetworkAssumption
<1>2. \A n \in Nodes : NodeKey[n] \in Keys /\ NodeKey[n] \notin Anchors /\ NodeKey[n] # NewKey /\ OpOf[n] \in Operators
                        /\ \A m \in Nodes : NodeKey[n] = NodeKey[m] => n = m
  BY NetworkAssumption
<1>3. Victim \in Nodes /\ NewKey \in Keys /\ NewKey \notin Anchors
  BY NetworkAssumption
<1>4. Anchors \subseteq Keys
  BY KeyringAssumption
<1> QED
  BY <1>1, <1>2, <1>3, <1>4 DEF IsIssuer, IsNodeKey, IsPlain, StolenKey

\* The chains of one level from those of the level above.
LEMMA BelowChains ==
  ASSUME NEW c, Compromised(c), NEW s \in Nat, s < Never, NEW news \in BOOLEAN, NEW ring,
         RingSays(c, s, news, ring), NEW up, NEW d \in {0, 1, 2}, NEW on \in BOOLEAN,
         Chained(c, news, up, d), RevokedOnly(c, on, up)
  PROVE  Chained(c, news, Below(ring, up), IF d = 0 THEN 1 ELSE 2)
<1> DEFINE v == Below(ring, up)
<1>1. \A k \in Keys : v.chain[k] = IF k \in Anchors THEN AnchorChain(k) ELSE Chain(ring, up, k)
  BY DEF Below
<1>2. \A k \in Anchors : v.chain[k] = AnchorChain(k)
  BY <1>1, KeySorts
<1>3. ASSUME NEW k \in Keys, IsPlain(k) PROVE v.chain[k] = NoChain
  <2>1. \A j \in 1 .. Len(ring) : ~IsRecordOf(ring[j], k)
    BY <1>3 DEF RingSays, IsPlain
  <2> QED BY <1>1, <1>3, <2>1, ChainNone DEF IsPlain
<1>4. LaunchAt \in Nat /\ LaunchAt < Never /\ Never \in Nat /\ SkewMs \in Nat
  BY Times, KeyringAssumption
<1>5. ASSUME NEW op \in Operators PROVE v.chain[Issuer[op]] = IssuerChain(op)
  <2>1. PICK i \in 1 .. Len(ring) :
           /\ ring[i] = [rec |-> IssuerRecord(op), seenAt |-> LaunchAt]
           /\ \A j \in 1 .. Len(ring) : IsRecordOf(ring[j], Issuer[op]) <=> j = i
    BY DEF RingSays
  <2>2. ring[i].rec = IssuerRecord(op) /\ ring[i].seenAt = LaunchAt
    BY <2>1
  <2>3. IssuerRecord(op).issuer = Root[op] /\ IssuerRecord(op).roles = {"issue", "revoke"}
    BY DEF IssuerRecord, IssueKey
  <2>4. up.chain[Root[op]] = AnchorChain(Root[op]) /\ up.revoked[Root[op]] = Never
    BY KeySorts DEF Chained, RevokedOnly
  <2>5. Counts(up, ring[i])
    <3>1. AnchorChain(Root[op]).ok /\ "issue" \in AnchorChain(Root[op]).roles /\ AnchorChain(Root[op]).rec = <<>>
      BY SMTT(60) DEF AnchorChain, Roles
    <3> QED BY <1>4, <2>2, <2>3, <2>4, <3>1 DEF Counts
  <2>6. Chain(ring, up, Issuer[op]) =
          [ok |-> TRUE, rec |-> <<ring[i].rec>>, ids |-> <<Issuer[op]>> \o up.chain[ring[i].rec.issuer].ids,
           roles |-> ring[i].rec.roles]
    <3>1. ring \in Seq(Entries(c))
      BY DEF RingSays
    <3> QED BY <2>1, <2>5, <3>1, ChainUnique
  <2>7. AnchorChain(Root[op]).ids = <<Root[op]>>
    BY DEF AnchorChain
  <2>8. Chain(ring, up, Issuer[op]) = IssuerChain(op)
    BY <2>2, <2>3, <2>4, <2>6, <2>7 DEF IssuerChain
  <2> QED BY <1>1, <2>8, KeySorts
<1>6. \A op \in Operators : \A t \in Nat : t < Never /\ LaunchAt <= t => InWindow(IssuerRecord(op), t)
  <2>1. \A op \in Operators : IssuerRecord(op).notBefore = LaunchAt /\ IssuerRecord(op).notAfter = Never - 1
    BY DEF IssuerRecord, IssueKey
  <2> QED BY <1>4, <2>1 DEF InWindow
<1>7. ASSUME NEW op \in Operators, NEW e, e.rec.issuer = Issuer[op], e.rec.issuedAt \in Nat,
             LaunchAt <= e.rec.issuedAt, e.rec.issuedAt < Never, e.seenAt < Never
      PROVE  /\ d = 0 => ~Counts(up, e)
             /\ d # 0 => Counts(up, e) /\ up.chain[e.rec.issuer].ids = IssuerChain(op).ids
  <2>1. up.revoked[Issuer[op]] = Never
    BY KeySorts DEF RevokedOnly
  <2>2. d = 0 => ~Counts(up, e)
    <3>1. d = 0 => up.chain[Issuer[op]] = NoChain
      BY DEF Chained
    <3>2. ~NoChain.ok
      BY DEF NoChain
    <3> QED BY <1>7, <3>1, <3>2 DEF Counts
  <2>3. d # 0 => up.chain[Issuer[op]] = IssuerChain(op)
    BY DEF Chained
  <2>4. IssuerChain(op).ok /\ "issue" \in IssuerChain(op).roles /\ Head(IssuerChain(op).rec) = IssuerRecord(op)
    BY DEF IssuerChain
  <2>5. d # 0 => Counts(up, e)
    BY <1>6, <1>7, <2>1, <2>3, <2>4 DEF Counts
  <2> QED BY <1>7, <2>2, <2>3, <2>5
<1>8. ASSUME NEW n \in Nodes PROVE v.chain[NodeKey[n]] = IF d = 0 THEN NoChain ELSE NodeChain(n)
  <2>1. PICK i \in 1 .. Len(ring) :
           /\ ring[i] = [rec |-> NodeRecord(n), seenAt |-> LaunchAt]
           /\ \A j \in 1 .. Len(ring) : IsRecordOf(ring[j], NodeKey[n]) <=> j = i
    BY DEF RingSays
  <2>2. ring[i].rec = NodeRecord(n) /\ ring[i].seenAt = LaunchAt
    BY <2>1
  <2>3. /\ NodeRecord(n).issuer = Issuer[OpOf[n]] /\ NodeRecord(n).roles = {"custody"}
        /\ NodeRecord(n).issuedAt = LaunchAt /\ OpOf[n] \in Operators
    BY KeySorts DEF NodeRecord, IssueKey
  <2>4. /\ d = 0 => ~Counts(up, ring[i])
        /\ d # 0 => Counts(up, ring[i]) /\ up.chain[ring[i].rec.issuer].ids = IssuerChain(OpOf[n]).ids
    BY <1>4, <1>7, <2>2, <2>3, SMTT(60)
  <2>5. Chain(ring, up, NodeKey[n]) =
          IF Counts(up, ring[i])
          THEN [ok |-> TRUE, rec |-> <<ring[i].rec>>, ids |-> <<NodeKey[n]>> \o up.chain[ring[i].rec.issuer].ids,
                roles |-> ring[i].rec.roles]
          ELSE NoChain
    <3>1. ring \in Seq(Entries(c))
      BY DEF RingSays
    <3> QED BY <2>1, <3>1, ChainUnique
  <2>6. Chain(ring, up, NodeKey[n]) = IF d = 0 THEN NoChain ELSE NodeChain(n)
    BY <2>2, <2>3, <2>4, <2>5 DEF NodeChain
  <2> QED BY <1>1, <2>6, KeySorts
<1>9. v.chain[NewKey] = IF d # 0 /\ news THEN NewChain(c) ELSE NoChain
  <2>1. CASE news
    <3>1. PICK i \in 1 .. Len(ring) :
             /\ ring[i] = [rec |-> Reissued(c), seenAt |-> s]
             /\ \A j \in 1 .. Len(ring) : IsRecordOf(ring[j], NewKey) <=> j = i
      BY <2>1 DEF RingSays
    <3>2. ring[i].rec = Reissued(c) /\ ring[i].seenAt = s
      BY <3>1
    <3>3. /\ Reissued(c).issuer = Issuer[Home] /\ Reissued(c).roles = {"custody"}
          /\ Reissued(c).issuedAt = c.detectAt /\ Home \in Operators
      BY HomeFacts DEF Reissued, IssueKey, Home
    <3>4. /\ d = 0 => ~Counts(up, ring[i])
          /\ d # 0 => Counts(up, ring[i]) /\ up.chain[ring[i].rec.issuer].ids = IssuerChain(Home).ids
      <4>1. c.detectAt \in Nat /\ LaunchAt <= c.detectAt /\ c.detectAt < Never
        BY <1>4, SMTT(60) DEF Compromised
      <4> QED BY <1>7, <3>2, <3>3, <4>1, SMTT(60)
    <3>5. Chain(ring, up, NewKey) =
            IF Counts(up, ring[i])
            THEN [ok |-> TRUE, rec |-> <<ring[i].rec>>, ids |-> <<NewKey>> \o up.chain[ring[i].rec.issuer].ids,
                  roles |-> ring[i].rec.roles]
            ELSE NoChain
      <4>1. ring \in Seq(Entries(c))
        BY DEF RingSays
      <4> QED BY <3>1, <4>1, ChainUnique
    <3>6. Chain(ring, up, NewKey) = IF d = 0 THEN NoChain ELSE NewChain(c)
      BY <3>2, <3>3, <3>4, <3>5 DEF NewChain
    <3> QED BY <1>1, <2>1, <3>6, KeySorts
  <2>2. CASE ~news
    <3>1. \A j \in 1 .. Len(ring) : ~IsRecordOf(ring[j], NewKey)
      BY <2>2 DEF RingSays
    <3> QED BY <1>1, <2>2, <3>1, ChainNone, KeySorts
  <2> QED BY <2>1, <2>2
<1> HIDE DEF v
<1>10. \A e \in {1, 2} : (e = IF d = 0 THEN 1 ELSE 2) => (e >= 1 /\ (e >= 2 <=> d # 0))
  OBVIOUS
<1> QED
  BY <1>2, <1>3, <1>5, <1>8, <1>9, <1>10 DEF Chained, v

\* The revocations of one level from the chains of the level above.
LEMMA BelowRevoked ==
  ASSUME NEW c, Compromised(c), NEW s \in Nat, NEW news \in BOOLEAN, NEW ring,
         RingSays(c, s, news, ring), NEW up, NEW d \in {0, 1, 2}, Chained(c, news, up, d)
  PROVE  RevokedOnly(c, news /\ d = 2, Below(ring, up))
<1> DEFINE v == Below(ring, up)
           counted(k) == {r \in Revocations(ring, k) : PubKnown(ring, r.issuer) /\ MayRevoke(up.chain, r.issuer, k)}
           times(k) == {r.effectiveFrom : r \in counted(k)}
<1>1. \A k \in Keys : v.revoked[k] = Earliest(times(k))
  BY DEF Below, RevokedAt
<1>2. Revoked(c).issuer = Issuer[Home] /\ Revoked(c).effectiveFrom = c.stolenAt /\ Home \in Operators
  BY HomeFacts DEF Revoked, RevokeKey, Home
<1>3. ASSUME NEW k \in Keys, ~(news /\ k = StolenKey) PROVE times(k) = {}
  <2>1. Revocations(ring, k) = {}
    BY <1>3 DEF RingSays
  <2> QED BY <2>1
<1>4. ASSUME news PROVE PubKnown(ring, Issuer[Home])
  <2>1. \E i \in 1 .. Len(ring) : IsRecordOf(ring[i], Issuer[Home])
    BY <1>2 DEF RingSays
  <2>2. DOMAIN ring = 1 .. Len(ring)
    BY DEF RingSays
  <2> QED BY <2>1, <2>2 DEF PubKnown
<1>5. ASSUME d # 2 PROVE ~MayRevoke(up.chain, Issuer[Home], StolenKey)
  <2>1. up.chain[StolenKey] = NoChain /\ ~NoChain.ok
    <3>1. \A n \in Nodes : up.chain[NodeKey[n]] = NoChain
      BY <1>5 DEF Chained
    <3> QED BY <3>1, HomeFacts DEF NoChain, StolenKey
  <2> QED BY <1>2, <2>1, KeySorts DEF MayRevoke
<1>6. ASSUME d = 2 PROVE MayRevoke(up.chain, Issuer[Home], StolenKey)
  <2>1. up.chain[StolenKey] = NodeChain(Victim)
    <3>1. \A n \in Nodes : up.chain[NodeKey[n]] = NodeChain(n)
      BY <1>6 DEF Chained
    <3> QED BY <3>1, HomeFacts DEF StolenKey
  <2>2. Issuer[Home] \in ToSet(NodeChain(Victim).ids) /\ NodeChain(Victim).ok
    <3>1. NodeChain(Victim).ids = <<NodeKey[Victim]>> \o (<<Issuer[Home]>> \o <<Root[Home]>>)
      BY DEF NodeChain, IssuerChain, Home
    <3> DEFINE x == <<NodeKey[Victim]>> y == <<Issuer[Home]>> \o <<Root[Home]>> z == x \o y S == {NodeKey[Victim], Issuer[Home], Root[Home]}
    <3>2. y \in Seq(S) /\ Len(y) = 2 /\ y[1] = Issuer[Home] /\ x \in Seq(S) /\ Len(x) = 1
      OBVIOUS
    <3> HIDE DEF x, y, S
    <3>3. z \in Seq(S) /\ Len(z) = Len(x) + Len(y) /\ \A j \in 1 .. Len(x) + Len(y) : z[j] = IF j <= Len(x) THEN x[j] ELSE y[j - Len(x)]
      BY <3>2, ConcatProperties
    <3>4. 2 \in DOMAIN z /\ z[2] = Issuer[Home]
      <4> HIDE DEF z
      <4>1. 2 \in 1 .. Len(x) + Len(y) /\ ~(2 <= Len(x)) /\ 2 - Len(x) = 1
        BY <3>2
      <4> QED BY <3>2, <3>3, <4>1
    <3> QED BY <3>1, <3>4 DEF ToSet, x, y, NodeChain
  <2> QED BY <2>1, <2>2 DEF MayRevoke
<1>7. ASSUME news PROVE times(StolenKey) = IF d = 2 THEN {c.stolenAt} ELSE {}
  <2>1. Revocations(ring, StolenKey) = {Revoked(c)}
    BY <1>7 DEF RingSays
  <2>2. counted(StolenKey) = IF d = 2 THEN {Revoked(c)} ELSE {}
    BY <1>2, <1>4, <1>5, <1>6, <1>7, <2>1
  <2> HIDE DEF counted
  <2> QED BY <1>2, <2>2
<1>8. Earliest({}) = Never /\ Earliest({c.stolenAt}) = c.stolenAt
  <2>1. c.stolenAt <= c.stolenAt
    BY DEF Compromised
  <2> QED BY <2>1 DEF Earliest
<1> HIDE DEF v, times
<1> QED
  BY <1>1, <1>3, <1>7, <1>8, KeySorts, SMTT(60) DEF RevokedOnly, v

\* What the network's rings make of its keys: every chain of the ceremony, the
\* new key where it is heard of, and the copied key revoked there.
LEMMA VerdictFacts ==
  ASSUME NEW c, Compromised(c), NEW s \in Nat, s < Never, NEW news \in BOOLEAN, NEW ring, RingOf(c, s, news, ring)
  PROVE  Chained(c, news, Verdicts(ring), 2) /\ RevokedOnly(c, news, Verdicts(ring))
<1> DEFINE a == Below(ring, Top) b == Below(ring, a) d == Below(ring, b) e == Below(ring, d)
<1>1. RingSays(c, s, news, ring)
  BY RingSaysSo
<1>2. Chained(c, news, Top, 0) /\ RevokedOnly(c, FALSE, Top)
  BY KeySorts DEF Chained, RevokedOnly, Top, IsPlain
<1>0. /\ 0 \in {0, 1, 2} /\ 1 \in {0, 1, 2} /\ 2 \in {0, 1, 2} /\ FALSE \in BOOLEAN
      /\ (IF 0 = 0 THEN 1 ELSE 2) = 1 /\ (IF 1 = 0 THEN 1 ELSE 2) = 2 /\ (IF 2 = 0 THEN 1 ELSE 2) = 2
  OBVIOUS
<1>3. Chained(c, news, a, 1)
  BY <1>0, <1>1, <1>2, BelowChains
<1>4. RevokedOnly(c, news /\ 0 = 2, a)
  BY <1>0, <1>1, <1>2, BelowRevoked
<1>5. RevokedOnly(c, FALSE, a)
  BY <1>4 DEF RevokedOnly
<1> HIDE DEF a
<1>6. Chained(c, news, b, 2)
  BY <1>0, <1>1, <1>3, <1>5, BelowChains
<1>7. RevokedOnly(c, news /\ 1 = 2, b)
  BY <1>0, <1>1, <1>3, BelowRevoked
<1>8. RevokedOnly(c, FALSE, b)
  BY <1>7 DEF RevokedOnly
<1> HIDE DEF b
<1>9. Chained(c, news, d, 2)
  BY <1>0, <1>1, <1>6, <1>8, BelowChains
<1>10. RevokedOnly(c, news /\ 2 = 2, d)
  BY <1>0, <1>1, <1>6, BelowRevoked
<1>11. RevokedOnly(c, news, d)
  BY <1>10 DEF RevokedOnly
<1>12. d = [chain |-> d.chain, revoked |-> d.revoked] /\ d.chain = [k \in Keys |-> d.chain[k]] /\ d.revoked = [k \in Keys |-> d.revoked[k]]
  BY DEF Below
<1> HIDE DEF d
<1>13. Chained(c, news, e, 2)
  BY <1>0, <1>1, <1>9, <1>11, BelowChains
<1>14. RevokedOnly(c, news /\ 2 = 2, e)
  BY <1>0, <1>1, <1>9, BelowRevoked
<1>15. RevokedOnly(c, news, e)
  BY <1>14 DEF RevokedOnly
<1>16. e = [chain |-> e.chain, revoked |-> e.revoked] /\ e.chain = [k \in Keys |-> e.chain[k]] /\ e.revoked = [k \in Keys |-> e.revoked[k]]
  BY DEF Below
<1> HIDE DEF e
<1>17. \A k \in Keys : d.revoked[k] = e.revoked[k]
  BY <1>11, <1>15 DEF RevokedOnly
<1>18. \A k \in Keys : d.chain[k] = e.chain[k]
  <2>1. ASSUME NEW k \in Keys PROVE d.chain[k] = e.chain[k]
    <3>1. CASE k \in Anchors
      BY <1>9, <1>13, <3>1 DEF Chained
    <3>2. CASE IsIssuer(k)
      BY <1>9, <1>13, <3>2 DEF Chained, IsIssuer
    <3>3. CASE IsNodeKey(k)
      BY <1>9, <1>13, <3>3 DEF Chained, IsNodeKey
    <3>4. CASE k = NewKey
      BY <1>9, <1>13, <3>4 DEF Chained
    <3>5. CASE IsPlain(k)
      BY <1>9, <1>13, <3>5 DEF Chained
    <3> QED BY <3>1, <3>2, <3>3, <3>4, <3>5, KeySorts
  <2> QED BY <2>1
<1>19. d.chain = e.chain /\ d.revoked = e.revoked
  <2>1. [k \in Keys |-> d.chain[k]] = [k \in Keys |-> e.chain[k]]
    BY <1>18
  <2>2. [k \in Keys |-> d.revoked[k]] = [k \in Keys |-> e.revoked[k]]
    BY <1>17
  <2> QED BY <1>12, <1>16, <2>1, <2>2
<1>20. d = e
  BY <1>12, <1>16, <1>19
<1>21. Verdicts(ring) = d
  <2>1. a = Below(ring, Top) /\ b = Below(ring, a) /\ d = Below(ring, b) /\ Below(ring, d) = d
    BY <1>20 DEF a, b, d, e
  <2> QED BY <2>1, VerdictsSettle
<1> QED
  BY <1>9, <1>11, <1>21

\* Which keys may sign for whom: a node's key in the time of its record, the
\* new key for the victim where it is heard of.
LEMMA MaySign ==
  ASSUME NEW c, Compromised(c), NEW s \in Nat, s < Never, NEW news \in BOOLEAN, NEW ring, RingOf(c, s, news, ring)
  PROVE  /\ \A n \in Nodes : /\ NodeKey[n] \in PubsFor(ring, n)
                             /\ \A t \in LaunchAt .. LaunchAt + KeyLife : Status(ring, NodeKey[n], n, t, "custody").ok
         /\ \A n \in Nodes, t \in Nat : Status(ring, NodeKey[n], n, t, "custody").revokedFrom =
              IF news /\ n = Victim THEN c.stolenAt ELSE Never
         /\ news => \A t \in c.detectAt .. c.detectAt + KeyLife : Status(ring, NewKey, Victim, t, "custody").ok
         /\ news => \A t \in Nat : Status(ring, NewKey, Victim, t, "custody").revokedFrom = Never
         /\ NewKey \in PubsFor(ring, Victim) <=> news
<1> DEFINE v == Verdicts(ring)
<1>1. Chained(c, news, v, 2) /\ RevokedOnly(c, news, v)
  BY VerdictFacts
<1>2. RingSays(c, s, news, ring)
  BY RingSaysSo
<1>3. DOMAIN ring = 1 .. Len(ring)
  BY <1>2 DEF RingSays
<1>4. SkewMs \in Nat /\ LaunchAt \in Nat /\ KeyLife \in Nat /\ c.detectAt \in Nat
  BY KeyringAssumption, Times DEF Compromised
<1> HIDE DEF v
<1>5. ASSUME NEW n \in Nodes PROVE NodeKey[n] \in PubsFor(ring, n)
  <2>1. PICK i \in 1 .. Len(ring) :
           /\ ring[i] = [rec |-> NodeRecord(n), seenAt |-> LaunchAt]
           /\ \A j \in 1 .. Len(ring) : IsRecordOf(ring[j], NodeKey[n]) <=> j = i
    BY <1>2 DEF RingSays
  <2>2. ring[i].rec = NodeRecord(n)
    BY <2>1
  <2>3. NodeRecord(n).key = NodeKey[n] /\ NodeRecord(n).subject = n /\ IsKey(NodeRecord(n))
    BY DEF NodeRecord, IssueKey, IsKey
  <2> QED BY <1>3, <2>2, <2>3 DEF PubsFor
<1>6. ASSUME NEW n \in Nodes, NEW t \in LaunchAt .. LaunchAt + KeyLife
      PROVE  Status(ring, NodeKey[n], n, t, "custody").ok
  <2>1. v.chain[NodeKey[n]] = NodeChain(n)
    BY <1>1 DEF Chained
  <2>2. /\ NodeChain(n).ok /\ NodeChain(n).rec # <<>> /\ Head(NodeChain(n).rec) = NodeRecord(n)
        /\ "custody" \in NodeChain(n).roles
    BY DEF NodeChain
  <2>3. NodeRecord(n).subject = n /\ InWindow(NodeRecord(n), t)
    BY <1>4 DEF NodeRecord, IssueKey, InWindow
  <2> QED BY <2>1, <2>2, <2>3 DEF Status, Judge, v
<1>7. ASSUME NEW n \in Nodes, NEW t \in Nat
      PROVE  Status(ring, NodeKey[n], n, t, "custody").revokedFrom = IF news /\ n = Victim THEN c.stolenAt ELSE Never
  <2>1. v.revoked[NodeKey[n]] = IF news /\ n = Victim THEN c.stolenAt ELSE Never
    BY <1>1, KeySorts DEF RevokedOnly
  <2> QED BY <2>1 DEF Status, Judge, v
<1>8. ASSUME news, NEW t \in c.detectAt .. c.detectAt + KeyLife PROVE Status(ring, NewKey, Victim, t, "custody").ok
  <2>1. v.chain[NewKey] = NewChain(c)
    BY <1>1, <1>8 DEF Chained
  <2>2. /\ NewChain(c).ok /\ NewChain(c).rec # <<>> /\ Head(NewChain(c).rec) = Reissued(c)
        /\ "custody" \in NewChain(c).roles
    BY DEF NewChain
  <2>3. Reissued(c).subject = Victim /\ InWindow(Reissued(c), t)
    BY <1>4, <1>8 DEF Reissued, IssueKey, InWindow
  <2> QED BY <2>1, <2>2, <2>3 DEF Status, Judge, v
<1>9. ASSUME NEW t \in Nat PROVE Status(ring, NewKey, Victim, t, "custody").revokedFrom = Never
  <2>1. v.revoked[NewKey] = Never
    BY <1>1, KeySorts DEF RevokedOnly
  <2> QED BY <2>1 DEF Status, Judge, v
<1>10. NewKey \in PubsFor(ring, Victim) <=> news
  <2>1. CASE news
    <3>1. PICK i \in 1 .. Len(ring) : ring[i] = [rec |-> Reissued(c), seenAt |-> s]
      BY <1>2, <2>1 DEF RingSays
    <3>2. ring[i].rec = Reissued(c)
      BY <3>1
    <3>3. Reissued(c).key = NewKey /\ Reissued(c).subject = Victim /\ IsKey(Reissued(c))
      BY DEF Reissued, IssueKey, IsKey
    <3> QED BY <1>3, <2>1, <3>2, <3>3 DEF PubsFor
  <2>2. CASE ~news
    <3>1. \A j \in 1 .. Len(ring) : ~IsRecordOf(ring[j], NewKey)
      BY <1>2, <2>2 DEF RingSays
    <3> QED BY <1>3, <2>2, <3>1, KeySorts DEF PubsFor, IsRecordOf
  <2> QED BY <2>1, <2>2
<1> QED
  BY <1>5, <1>6, <1>7, <1>8, <1>9, <1>10

\* What FlattenSeq has put together after the first i sequences.
FlattenRun(seqs, h) ==
  /\ h[0] = <<>> /\ h[Len(seqs)] = FlattenSeq(seqs)
  /\ \A i \in 1 .. Len(seqs) : h[i] = h[i - 1] \o seqs[i]

\* The function by which FlattenSeq is defined exists.
LEMMA FlattenExists ==
  ASSUME NEW U, NEW seqs \in Seq(Seq(U))
  PROVE  \E h \in [0 .. Len(seqs) -> Seq(U)] : FlattenRun(seqs, h)
<1> DEFINE N == Len(seqs)
           V == Seq(U)
           Next1(i, x) == x \o seqs[i]
           F == [p \in V \X (1 .. N) |-> Next1(p[2], p[1])]
           Body(g) == [i \in 1 .. N |-> IF i = 1 THEN seqs[i] ELSE g[i - 1] \o seqs[i]]
           at == CHOOSE g : g = Body(g)
<1>0. N \in Nat /\ <<>> \in V /\ \A i \in 1 .. N : seqs[i] \in V
  OBVIOUS
<1>1. \A x \in V : \A i \in 1 .. N : Next1(i, x) \in V
  <2>1. \A x \in V, y \in V : x \o y \in V
    BY ConcatProperties
  <2> HIDE DEF N, V
  <2> QED BY <1>0, <2>1
<1>2. F \in [V \X (1 .. N) -> V] /\ \A x \in V : \A i \in 1 .. N : F[<<x, i>>] = Next1(i, x)
  <2> HIDE DEF Next1, V, N
  <2> QED BY <1>1
<1>3. PICK h \in [0 .. N -> V] : \E last : Iterates(h, <<>>, N, F, last)
  <2> HIDE DEF F, V, N
  <2> QED BY <1>0, <1>2, IterationExists
<1>4. h[0] = <<>> /\ \A i \in 1 .. N : h[i] = Next1(i, h[i - 1])
  <2>1. h[0] = <<>> /\ \A i \in 1 .. N : h[i] = F[<<h[i - 1], i>>]
    BY <1>3 DEF Iterates
  <2>2. \A i \in 1 .. N : h[i - 1] \in V
    <3> HIDE DEF V, F, N
    <3> QED BY <1>0, <1>3
  <2> HIDE DEF F, V, N, Next1
  <2> QED BY <1>2, <2>1, <2>2
<1> DEFINE g0 == [i \in 1 .. N |-> h[i]]
<1>5. g0 = Body(g0)
  <2>1. \A i \in 1 .. N : g0[i] = Body(g0)[i]
    <3>1. SUFFICES ASSUME NEW i \in 1 .. N PROVE h[i] = IF i = 1 THEN seqs[i] ELSE g0[i - 1] \o seqs[i]
      <4> HIDE DEF N
      <4> QED OBVIOUS
    <3>2. CASE i = 1
      <4>1. h[1] = <<>> \o seqs[1] /\ 1 \in 1 .. N
        <5>1. 1 \in 1 .. N /\ 1 - 1 = 0
          BY <3>2
        <5>2. h[1] = Next1(1, h[0])
          <6> HIDE DEF N, Next1
          <6> QED BY <1>4, <5>1
        <5> QED BY <1>4, <5>1, <5>2
      <4>2. <<>> \o seqs[1] = seqs[1]
        <5>1. seqs[1] \in Seq(U)
          BY <1>0, <4>1
        <5> QED BY <5>1
      <4> QED BY <3>2, <4>1, <4>2
    <3>3. CASE i # 1
      <4>1. i - 1 \in 1 .. N
        BY <1>0, <3>1, <3>3
      <4>2. g0[i - 1] = h[i - 1]
        <5> HIDE DEF N
        <5> QED BY <4>1
      <4> HIDE DEF N, g0
      <4> QED BY <1>4, <3>3, <4>2
    <3> QED BY <3>2, <3>3
  <2>2. Body(g0) = [i \in 1 .. N |-> g0[i]]
    <3> HIDE DEF N, g0
    <3> QED BY <2>1
  <2>3. g0 = [i \in 1 .. N |-> g0[i]]
    OBVIOUS
  <2> HIDE DEF Body, V, N, g0
  <2> QED BY <2>2, <2>3
<1>6. at = Body(at)
  <2> HIDE DEF Body, g0
  <2> QED BY <1>5
<1>7. N # 0 => FlattenSeq(seqs) = at[N]
  BY DEF FlattenSeq
<1>8. \A i \in 1 .. N : at[i] = IF i = 1 THEN seqs[i] ELSE at[i - 1] \o seqs[i]
  <2>1. \A i \in 1 .. N : at[i] = Body(at)[i]
    <3> HIDE DEF at, Body
    <3> QED BY <1>6
  <2> HIDE DEF at, N
  <2> QED BY <2>1
<1> DEFINE P == {k \in Nat : k # 0 /\ k <= N => at[k] = h[k]}
<1>9. 0 \in P
  <2> HIDE DEF at, N
  <2> QED OBVIOUS
<1>10. ASSUME NEW k \in Nat, k \in P PROVE k + 1 \in P
  <2>1. SUFFICES ASSUME k + 1 <= N PROVE at[k + 1] = h[k + 1]
    <3> HIDE DEF at, N
    <3> QED OBVIOUS
  <2>2. k + 1 \in 1 .. N /\ k + 1 - 1 = k
    BY <1>0, <2>1
  <2>3. CASE k = 0
    <3>1. at[1] = seqs[1] /\ h[1] = <<>> \o seqs[1] /\ seqs[1] \in Seq(U)
      <4>1. 1 \in 1 .. N /\ 1 - 1 = 0
        BY <2>2, <2>3
      <4>2. h[1] = Next1(1, h[0])
        <5> HIDE DEF N, Next1
        <5> QED BY <1>4, <4>1
      <4>3. at[1] = seqs[1]
        <5> HIDE DEF at, N
        <5> QED BY <1>8, <4>1
      <4> HIDE DEF at, N
      <4> QED BY <1>0, <1>4, <4>1, <4>2, <4>3
    <3>2. <<>> \o seqs[1] = seqs[1]
      BY <3>1
    <3> HIDE DEF at, N
    <3> QED BY <2>3, <3>1, <3>2
  <2>4. CASE k # 0
    <3>1. at[k] = h[k] /\ k + 1 # 1
      <4> HIDE DEF at
      <4> QED BY <1>0, <1>10, <2>1, <2>4
    <3>2. at[k + 1] = Next1(k + 1, at[k])
      <4>1. \A i \in 1 .. N : i # 1 => at[i] = Next1(i, at[i - 1])
        <5> HIDE DEF at, N
        <5> QED BY <1>8
      <4> HIDE DEF at, N, Next1
      <4> QED BY <2>2, <3>1, <4>1
    <3>3. h[k + 1] = Next1(k + 1, h[k])
      <4> HIDE DEF at, N, Next1
      <4> QED BY <1>4, <2>2
    <3> HIDE DEF at, N
    <3> QED BY <3>1, <3>2, <3>3
  <2> QED BY <2>3, <2>4
<1>11. \A k \in Nat : k \in P
  <2> HIDE DEF P
  <2> QED BY <1>9, <1>10, Induction
<1>12. h[N] = FlattenSeq(seqs)
  <2>1. CASE N = 0
    <3>1. FlattenSeq(seqs) = seqs /\ seqs = <<>>
      BY <2>1 DEF FlattenSeq
    <3> HIDE DEF N
    <3> QED BY <1>4, <2>1, <3>1
  <2>2. CASE N # 0
    <3>1. at[N] = h[N]
      <4> HIDE DEF at
      <4> QED BY <1>0, <1>11, <2>2, SMTT(60)
    <3> HIDE DEF N, at
    <3> QED BY <1>7, <2>2, <3>1
  <2> QED BY <2>1, <2>2
<1> QED
  <2>1. FlattenRun(seqs, h)
    <3> HIDE DEF FlattenSeq
    <3> QED BY <1>4, <1>12 DEF FlattenRun
  <2> QED BY <1>3, <2>1

\* One sequence, and three of which the last is empty.
LEMMA FlattenFew ==
  ASSUME NEW U
  PROVE  /\ \A x \in Seq(U) : FlattenSeq(<<x>>) = x
         /\ \A a, b \in U : FlattenSeq(<<<<a>>, <<b>>, <<>>>>) = <<a, b>>
<1>1. ASSUME NEW x \in Seq(U) PROVE FlattenSeq(<<x>>) = x
  <2>1. <<x>> \in Seq(Seq(U)) /\ Len(<<x>>) = 1 /\ <<x>>[1] = x
    OBVIOUS
  <2>2. PICK h : FlattenRun(<<x>>, h)
    BY <2>1, FlattenExists
  <2>3. h[0] = <<>> /\ h[1] = FlattenSeq(<<x>>) /\ h[1] = h[0] \o x
    <3>1. 1 \in 1 .. Len(<<x>>) /\ 1 - 1 = 0
      BY <2>1
    <3> HIDE DEF FlattenSeq
    <3> QED BY <2>1, <2>2, <3>1 DEF FlattenRun
  <2>4. <<>> \o x = x
    OBVIOUS
  <2> QED BY <2>3, <2>4
<1>2. ASSUME NEW a \in U, NEW b \in U PROVE FlattenSeq(<<<<a>>, <<b>>, <<>>>>) = <<a, b>>
  <2> DEFINE sq == <<<<a>>, <<b>>, <<>>>>
  <2>1. sq \in Seq(Seq(U)) /\ Len(sq) = 3 /\ sq[1] = <<a>> /\ sq[2] = <<b>> /\ sq[3] = <<>>
    OBVIOUS
  <2> HIDE DEF sq
  <2>2. PICK h : FlattenRun(sq, h)
    BY <2>1, FlattenExists
  <2>3. h[0] = <<>> /\ h[3] = FlattenSeq(sq) /\ h[1] = h[0] \o <<a>> /\ h[2] = h[1] \o <<b>> /\ h[3] = h[2] \o <<>>
    <3>1. 1 \in 1 .. Len(sq) /\ 2 \in 1 .. Len(sq) /\ 3 \in 1 .. Len(sq)
      BY <2>1
    <3>2. 1 - 1 = 0 /\ 2 - 1 = 1 /\ 3 - 1 = 2
      OBVIOUS
    <3>3. \A i \in 1 .. Len(sq) : h[i] = h[i - 1] \o sq[i]
      BY <2>2 DEF FlattenRun
    <3>4. h[0] = <<>> /\ h[3] = FlattenSeq(sq)
      BY <2>1, <2>2 DEF FlattenRun
    <3> QED BY <2>1, <3>1, <3>2, <3>3, <3>4
  <2>4. <<>> \o <<a>> = <<a>>
    OBVIOUS
  <2>5. <<a, b>> \o <<>> = <<a, b>>
    OBVIOUS
  <2>6. <<a>> \o <<b>> = Append(<<a>>, b)
    OBVIOUS
  <2> QED BY <2>3, <2>4, <2>5, <2>6, Lists DEF sq
<1> QED
  BY <1>1, <1>2

\* The new records among the entries of a ring, and its key records.
Said(c, s, news, ring) ==
  /\ ~news => /\ Among(ring, {x \in ToSet(ring) : IsKey(x.rec) /\ x.seenAt > LaunchAt}) = <<>>
              /\ Among(ring, {e \in ToSet(ring) : IsRevocation(e.rec)}) = <<>>
  /\ news => /\ Among(ring, {x \in ToSet(ring) : IsKey(x.rec) /\ x.seenAt > LaunchAt})
                   = <<[rec |-> Reissued(c), seenAt |-> s]>>
             /\ Among(ring, {e \in ToSet(ring) : IsRevocation(e.rec)}) = <<[rec |-> Revoked(c), seenAt |-> s]>>
             /\ KeyRecords(ring, NewKey) = <<[rec |-> Reissued(c), seenAt |-> s]>>
  /\ KeyRecords(ring, Issuer[Home]) = <<[rec |-> IssuerRecord(Home), seenAt |-> LaunchAt]>>
  /\ KeyRecords(ring, Root[Home]) = <<>>

\* The network's rings hold these, and no other.
LEMMA SaidSo ==
  ASSUME NEW c, Compromised(c), NEW s \in Nat, LaunchAt < s, NEW news \in BOOLEAN, NEW ring, RingOf(c, s, news, ring)
  PROVE  Said(c, s, news, ring)
<1> DEFINE n == Len(LaunchRing)
           isNew == {x \in ToSet(ring) : IsKey(x.rec) /\ x.seenAt > LaunchAt}
           isRev == {e \in ToSet(ring) : IsRevocation(e.rec)}
           isOf(k) == {e \in ToSet(ring) : IsRecordOf(e, k)}
<1>0. n \in Nat /\ LaunchAt \in Nat
  BY LaunchEntries, Times
<1>1. RingSays(c, s, news, ring)
  BY RingSaysSo
<1>2. ring \in Seq(Entries(c)) /\ DOMAIN ring = 1 .. Len(ring) /\ Len(ring) \in Nat
  BY <1>1 DEF RingSays
<1>3. \A i \in 1 .. Len(ring) : ring[i] \in ToSet(ring)
  BY <1>2 DEF ToSet
<1>4. \A i \in 1 .. n : i \in 1 .. Len(ring) => IsKey(ring[i].rec) /\ ~IsRevocation(ring[i].rec) /\ ring[i].seenAt = LaunchAt
  <2>1. \A i \in 1 .. n : LaunchRing[i].rec \in Provision /\ LaunchRing[i].seenAt = LaunchAt
    BY LaunchEntries
  <2>2. \A r \in Provision : IsKey(r) /\ ~IsRevocation(r)
    BY NewRecords, KeysApart DEF Records
  <2>3. \A i \in 1 .. n : ring[i] = LaunchRing[i]
    <3>1. CASE news
      <4>1. ring = Heard(c, s)
        BY <3>1 DEF RingOf
      <4>2. \A i \in 1 .. n : Heard(c, s)[i] = LaunchRing[i]
        <5>1. /\ \A i \in 1 .. n : Heard(c, s)[i] = LaunchRing[i]
              /\ Heard(c, s)[n + 1] = [rec |-> Revoked(c), seenAt |-> s]
              /\ Heard(c, s)[n + 2] = [rec |-> Reissued(c), seenAt |-> s]
          BY HeardEntries
        <5> QED BY <5>1
      <4> HIDE DEF n
      <4> QED BY <4>1, <4>2
    <3>2. CASE ~news
      BY <3>2 DEF RingOf
    <3> QED BY <3>1, <3>2
  <2> HIDE DEF n
  <2> QED BY <2>1, <2>2, <2>3
<1>5. IsKey(Reissued(c)) /\ ~IsRevocation(Reissued(c)) /\ ~IsKey(Revoked(c)) /\ IsRevocation(Revoked(c))
  BY NewRecords, KeysApart
<1>6. ASSUME ~news PROVE Among(ring, isNew) = <<>> /\ Among(ring, isRev) = <<>>
  <2>1. Len(ring) = n
    BY <1>6 DEF RingOf
  <2>2. \A i \in 1 .. Len(ring) : ring[i] \notin isNew /\ ring[i] \notin isRev
    <3> HIDE DEF n
    <3> QED BY <1>0, <1>4, <2>1
  <2> HIDE DEF isNew, isRev
  <2> QED BY <1>2, <2>2, AmongFew
<1>7. ASSUME news PROVE /\ Among(ring, isNew) = <<[rec |-> Reissued(c), seenAt |-> s]>>
                        /\ Among(ring, isRev) = <<[rec |-> Revoked(c), seenAt |-> s]>>
                        /\ Among(ring, isOf(NewKey)) = <<[rec |-> Reissued(c), seenAt |-> s]>>
  <2>1. /\ Len(ring) = n + 2
        /\ ring[n + 1] = [rec |-> Revoked(c), seenAt |-> s] /\ ring[n + 2] = [rec |-> Reissued(c), seenAt |-> s]
    BY <1>7, HeardEntries DEF RingOf
  <2>2. n + 1 \in 1 .. Len(ring) /\ n + 2 \in 1 .. Len(ring) /\ \A i \in 1 .. Len(ring) : i \in 1 .. n \/ i = n + 1 \/ i = n + 2
    <3> HIDE DEF n
    <3> QED BY <1>0, <2>1
  <2>3. ring[n + 1].rec = Revoked(c) /\ ring[n + 1].seenAt = s /\ ring[n + 2].rec = Reissued(c) /\ ring[n + 2].seenAt = s
    <3> HIDE DEF n
    <3> QED BY <2>1
  <2>4. ring[n + 2] \in isNew /\ ring[n + 1] \in isRev
    <3> HIDE DEF n
    <3> QED BY <1>3, <1>5, <2>2, <2>3
  <2>5. \A i \in 1 .. Len(ring) : (i # n + 2 => ring[i] \notin isNew) /\ (i # n + 1 => ring[i] \notin isRev)
    <3> HIDE DEF n
    <3> QED BY <1>0, <1>4, <1>5, <2>2, <2>3
  <2>6. Among(ring, isNew) = <<ring[n + 2]>> /\ Among(ring, isRev) = <<ring[n + 1]>>
    <3> HIDE DEF isNew, isRev, n
    <3> QED BY <1>2, <2>2, <2>4, <2>5, AmongFew
  <2>7. PICK i \in 1 .. Len(ring) : /\ ring[i] = [rec |-> Reissued(c), seenAt |-> s]
                                    /\ \A j \in 1 .. Len(ring) : IsRecordOf(ring[j], NewKey) <=> j = i
    BY <1>1, <1>7 DEF RingSays
  <2>8. ring[i] \in isOf(NewKey) /\ \A j \in 1 .. Len(ring) : i # j => ring[j] \notin isOf(NewKey)
    BY <1>3, <2>7
  <2>9. Among(ring, isOf(NewKey)) = <<ring[i]>>
    <3> HIDE DEF isOf
    <3> QED BY <1>2, <2>7, <2>8, AmongFew
  <2> HIDE DEF isNew, isRev, isOf, n
  <2> QED BY <2>1, <2>6, <2>7, <2>9
<1>8. Among(ring, isOf(Issuer[Home])) = <<[rec |-> IssuerRecord(Home), seenAt |-> LaunchAt]>>
  <2>1. PICK i \in 1 .. Len(ring) : /\ ring[i] = [rec |-> IssuerRecord(Home), seenAt |-> LaunchAt]
                                    /\ \A j \in 1 .. Len(ring) : IsRecordOf(ring[j], Issuer[Home]) <=> j = i
    BY <1>1, HomeFacts DEF RingSays
  <2>2. ring[i] \in isOf(Issuer[Home]) /\ \A j \in 1 .. Len(ring) : i # j => ring[j] \notin isOf(Issuer[Home])
    BY <1>3, <2>1
  <2>3. Among(ring, isOf(Issuer[Home])) = <<ring[i]>>
    <3> HIDE DEF isOf
    <3> QED BY <1>2, <2>1, <2>2, AmongFew
  <2> HIDE DEF isOf
  <2> QED BY <2>1, <2>3
<1>9. Among(ring, isOf(Root[Home])) = <<>>
  <2>1. \A j \in 1 .. Len(ring) : ~IsRecordOf(ring[j], Root[Home])
    BY <1>1, HomeFacts, KeySorts DEF RingSays
  <2>2. \A j \in 1 .. Len(ring) : ring[j] \notin isOf(Root[Home])
    BY <2>1
  <2> HIDE DEF isOf
  <2> QED BY <1>2, <2>2, AmongFew
<1> QED
  BY <1>6, <1>7, <1>8, <1>9 DEF Said, KeyRecords

\* What a node passes on of a ring of the network.
LEMMA PassedOn ==
  ASSUME NEW c, Compromised(c), NEW s \in Nat, LaunchAt < s, s < Never, NEW news \in BOOLEAN, NEW ring,
         RingOf(c, s, news, ring)
  PROVE  ForCarriage(ring, NewsIds(ring)) = IF news THEN Known(c) ELSE <<>>
<1> DEFINE records(es) == [i \in DOMAIN es |-> es[i].rec]
           chain == Verdicts(ring).chain
           ofChain(k) == FlattenSeq([i \in DOMAIN chain[k].ids |-> records(KeyRecords(ring, chain[k].ids[i]))])
           revs == Among(ring, {e \in ToSet(ring) : IsRevocation(e.rec)})
<1>1. Said(c, s, news, ring)
  BY SaidSo
<1>2. ForCarriage(ring, NewsIds(ring)) = records(revs) \o FlattenSeq([i \in DOMAIN NewsIds(ring) |-> ofChain(NewsIds(ring)[i])])
  BY DEF ForCarriage
<1>3. /\ records(<<>>) = <<>>
      /\ \A x : records(<<x>>) = <<x.rec>>
  <2>1. ASSUME NEW x PROVE records(<<x>>) = <<x.rec>>
    OBVIOUS
  <2> QED BY <2>1
<1>4. CASE ~news
  <2>1. NewsIds(ring) = <<>> /\ revs = <<>>
    <3> DEFINE new == Among(ring, {x \in ToSet(ring) : IsKey(x.rec) /\ x.seenAt > LaunchAt})
    <3>1. new = <<>> /\ revs = <<>>
      BY <1>1, <1>4 DEF Said
    <3>2. NewsIds(ring) = [i \in DOMAIN new |-> new[i].rec.key]
      BY DEF NewsIds
    <3> HIDE DEF new, revs
    <3> QED BY <3>1, <3>2
  <2>2. [i \in DOMAIN NewsIds(ring) |-> ofChain(NewsIds(ring)[i])] = <<>>
    <3> HIDE DEF ofChain
    <3> QED BY <2>1
  <2>3. FlattenSeq(<<>>) = <<>>
    BY DEF FlattenSeq
  <2> HIDE DEF ofChain, revs, records
  <2>4. ForCarriage(ring, NewsIds(ring)) = <<>> \o <<>>
    BY <1>2, <1>3, <2>1, <2>2, <2>3
  <2> QED BY <1>4, <2>4
<1>5. CASE news
  <2>1. revs = <<[rec |-> Revoked(c), seenAt |-> s]>>
    BY <1>1, <1>5 DEF Said
  <2>2. NewsIds(ring) = <<NewKey>>
    <3>1. NewsIds(ring) = [i \in DOMAIN <<[rec |-> Reissued(c), seenAt |-> s]>> |-> <<[rec |-> Reissued(c), seenAt |-> s]>>[i].rec.key]
      BY <1>1, <1>5 DEF Said, NewsIds
    <3>2. Reissued(c).key = NewKey
      BY DEF Reissued, IssueKey
    <3> QED BY <3>1, <3>2
  <2>3. chain[NewKey].ids = <<NewKey, Issuer[Home], Root[Home]>>
    <3>1. chain[NewKey] = NewChain(c)
      <4>1. Chained(c, news, Verdicts(ring), 2)
        BY VerdictFacts
      <4> QED BY <1>5, <4>1 DEF Chained
    <3>2. NewChain(c).ids = <<NewKey>> \o (<<Issuer[Home]>> \o <<Root[Home]>>)
      BY DEF NewChain, IssuerChain
    <3>3. <<Issuer[Home]>> \o <<Root[Home]>> = Append(<<Issuer[Home]>>, Root[Home])
      OBVIOUS
    <3>4. Append(<<Issuer[Home]>>, Root[Home]) = <<Issuer[Home], Root[Home]>>
      BY Lists
    <3>5. <<NewKey>> \o <<Issuer[Home], Root[Home]>> = <<NewKey, Issuer[Home], Root[Home]>>
      BY Lists
    <3> HIDE DEF chain
    <3> QED BY <3>1, <3>2, <3>3, <3>4, <3>5
  <2> DEFINE lists == [i \in DOMAIN chain[NewKey].ids |-> records(KeyRecords(ring, chain[NewKey].ids[i]))]
  <2>4. lists = <<<<Reissued(c)>>, <<IssuerRecord(Home)>>, <<>>>>
    <3>1. /\ records(KeyRecords(ring, NewKey)) = <<Reissued(c)>>
          /\ records(KeyRecords(ring, Issuer[Home])) = <<IssuerRecord(Home)>>
          /\ records(KeyRecords(ring, Root[Home])) = <<>>
      <4> HIDE DEF records
      <4> QED BY <1>1, <1>3, <1>5 DEF Said
    <3>2. lists = [i \in DOMAIN <<NewKey, Issuer[Home], Root[Home]>> |-> records(KeyRecords(ring, <<NewKey, Issuer[Home], Root[Home]>>[i]))]
      <4> HIDE DEF records, chain
      <4> QED BY <2>3
    <3>3. ASSUME NEW a, NEW b, NEW d PROVE [i \in DOMAIN <<a, b, d>> |-> records(KeyRecords(ring, <<a, b, d>>[i]))]
            = <<records(KeyRecords(ring, a)), records(KeyRecords(ring, b)), records(KeyRecords(ring, d))>>
      <4> HIDE DEF records
      <4> QED OBVIOUS
    <3> HIDE DEF records, lists
    <3> QED BY <3>1, <3>2, <3>3
  <2>5. ofChain(NewKey) = <<Reissued(c), IssuerRecord(Home)>>
    <3>1. ofChain(NewKey) = FlattenSeq(lists)
      OBVIOUS
    <3>2. Reissued(c) \in Records(c) /\ IssuerRecord(Home) \in Records(c)
      BY NewRecords
    <3> HIDE DEF ofChain, lists
    <3> QED BY <2>4, <3>1, <3>2, FlattenFew
  <2>6. [i \in DOMAIN NewsIds(ring) |-> ofChain(NewsIds(ring)[i])] = <<ofChain(NewKey)>>
    <3>1. ASSUME NEW x PROVE [i \in DOMAIN <<x>> |-> ofChain(<<x>>[i])] = <<ofChain(x)>>
      <4> HIDE DEF ofChain
      <4> QED OBVIOUS
    <3> HIDE DEF ofChain
    <3> QED BY <2>2, <3>1
  <2>7. FlattenSeq(<<ofChain(NewKey)>>) = ofChain(NewKey)
    <3>1. <<Reissued(c), IssuerRecord(Home)>> \in Seq(Records(c))
      BY NewRecords
    <3> HIDE DEF ofChain
    <3> QED BY <2>5, <3>1, FlattenFew
  <2>8. records(revs) = <<Revoked(c)>>
    <3> HIDE DEF records, revs
    <3>1. records(<<[rec |-> Revoked(c), seenAt |-> s]>>) = <<[rec |-> Revoked(c), seenAt |-> s].rec>>
      BY <1>3
    <3> QED BY <2>1, <3>1
  <2>9. <<Revoked(c)>> \o <<Reissued(c), IssuerRecord(Home)>> = Known(c)
    BY Lists DEF Known
  <2> HIDE DEF ofChain, records, revs
  <2> QED BY <1>2, <1>5, <2>5, <2>6, <2>7, <2>8, <2>9
<1> QED
  BY <1>4, <1>5

(* The invariant of the network.                                             *)

IsList(x) == \E U : x \in Seq(U)

\* The time in which bundles move, that of the launch keys.
Span == LaunchAt .. LaunchAt + KeyLife

\* The ring is that of a node that heard, between the detection and time t.
HeardBy(c, t, ring) == \E s \in Nat : c.detectAt <= s /\ s <= t /\ ring = Heard(c, s)

RingOk(c, now, sw, ring) == ring = LaunchRing \/ (sw /\ HeardBy(c, now, ring))

RingsOk(c, now, sw, R) ==
  /\ R = [n \in Nodes |-> R[n]]
  /\ \A n \in Nodes : RingOk(c, now, sw, R[n])
  /\ sw => \A n \in GroundNodes : HeardBy(c, now, R[n])

SignersOk(c, now, R, sig) ==
  /\ sig = [n \in Nodes |-> sig[n]]
  /\ \A n \in Nodes : sig[n] = NodeKey[n] \/ (n = Victim /\ sig[n] = NewKey /\ HeardBy(c, now, R[n]))

\* Key k signs for node n at time t, when news says whether the new key's
\* record travels with what it signs.
KeyOk(c, n, k, t, news) == k = NodeKey[n] \/ (n = Victim /\ k = NewKey /\ c.detectAt <= t /\ news)

\* One hop of a bundle that is at its next node at time t.
StepOk(c, now, t, st, news) ==
  /\ st.node \in Nodes /\ st.arrive \in Span /\ st.depart \in Nat
  /\ st.arrive <= st.depart /\ st.depart <= t /\ st.arrive <= now
  /\ st.signed = (st.node \in Custodians)
  /\ st.signed => KeyOk(c, st.node, st.key, st.depart, news)

PathOk(c, now, t, path, news) ==
  IsList(path) /\ \A k \in DOMAIN path : StepOk(c, now, t, path[k], news)

\* A custodian on the way that knew of the revocation sent the news along.
NewsRode(c, R, path, news) ==
  \A k \in DOMAIN path :
    path[k].signed /\ HeardBy(c, path[k].arrive - 1, R[path[k].node]) => news

\* The receipt of a hop.
OfStep(r, st) ==
  /\ st.signed /\ r.this = st.node /\ r.key = st.key
  /\ r.receivedAt = st.arrive /\ r.forwardedAt = st.depart

\* A bundle's receipts are those of its signed hops, each committed to the
\* ones before it.
ReceiptsOk(b, path) ==
  /\ IsList(b.receipts) /\ Len(b.receipts) <= Len(path)
  /\ \A j \in DOMAIN b.receipts :
       /\ b.receipts[j].bundle = Identity(b) /\ b.receipts[j].payload = b.payload
       /\ b.receipts[j].chain = <<ChainDigest(SubSeq(b.receipts, 1, j - 1))>>
       /\ \E k \in DOMAIN path : OfStep(b.receipts[j], path[k])
  /\ \A k \in DOMAIN path : path[k].signed => \E j \in DOMAIN b.receipts : OfStep(b.receipts[j], path[k])

\* A whole bundle, without a Previous Node block.
IsBundle(b) ==
  \E source, created, payload, bytes, version, receipts, records, hopCount :
    b = [source |-> source, created |-> created, fragment |-> <<>>, payload |-> payload,
         bytes |-> bytes, version |-> version, receipts |-> receipts, records |-> records,
         hopCount |-> hopCount, previous |-> NoNode]

BundleOk(c, b) ==
  /\ IsBundle(b)
  /\ b.source \in Nodes /\ b.created # "never sent" /\ b.bytes \in Nat \ {0}
  /\ b.records \in {<<>>, Carried(c)}

\* A bundle that is going to arrive.
ArriveOk(c, now, sw, R, e) ==
  /\ e = Arrive(e.t, e.node, e.b, e.dst, e.prev, e.path)
  /\ e.t \in Span /\ e.node \in Nodes /\ e.dst \in Custodians
  /\ BundleOk(c, e.b) /\ (~sw => e.b.records = <<>>)
  /\ PathOk(c, now, e.t, e.path, e.b.records = Carried(c)) /\ Len(e.path) <= MaxPath + 1
  /\ ReceiptsOk(e.b, e.path)
  /\ NewsRode(c, R, e.path, e.b.records = Carried(c))

EventOk(c, now, sw, R, e) ==
  \/ e = Event(c.stolenAt, "stolen")
  \/ e = Event(c.detectAt, "detected")
  \/ ArriveOk(c, now, sw, R, e)

\* The events come in the order of their times, the detection is one of them
\* until it has happened.
QueueOk(c, now, sw, R, q) ==
  /\ IsList(q)
  /\ \A i \in DOMAIN q : q[i].t \in Nat /\ now <= q[i].t /\ q[i].t < Never /\ EventOk(c, now, sw, R, q[i])
  /\ \A i, j \in DOMAIN q : i <= j => q[i].t <= q[j].t
  /\ sw => \A i \in DOMAIN q : q[i].kind # "detected"
  /\ ~sw => \E i \in DOMAIN q : q[i].kind = "detected" /\ \A j \in DOMAIN q : q[j].kind = "detected" => j = i

\* A bundle at its destination.
DeliveryOk(c, now, R, d) ==
  LET news == HeardBy(c, d.deliveredAt, R[d.dst])
  IN  /\ d.dst \in Custodians /\ d.deliveredAt \in Span /\ d.deliveredAt <= now
      /\ BundleOk(c, d.b) /\ d.b.version = 2
      /\ PathOk(c, now, d.deliveredAt, d.path, news) /\ Len(d.path) <= MaxPath + 2
      /\ ReceiptsOk(d.b, d.path) /\ d.b.receipts # <<>>
      /\ NewsRode(c, R, d.path, news)

DeliveriesOk(c, now, R, ds) == IsList(ds) /\ \A i \in DOMAIN ds : DeliveryOk(c, now, R, ds[i])

NetInv(now) ==
  /\ now \in Nat /\ now < Never
  /\ contacts \in Plans /\ compromise \in Compromises
  /\ nextFree \in [DOMAIN contacts -> Nat]
  /\ switching \in BOOLEAN /\ (switching => compromise.detectAt <= now)
  /\ RingsOk(compromise, now, switching, rings)
  /\ SignersOk(compromise, now, rings, signer)
  /\ QueueOk(compromise, now, switching, rings, queue)
  /\ DeliveriesOk(compromise, now, rings, deliveries)

IInv == \E now \in Nat : NetInv(now)

----------------------------------------------------------------------------
\* The inputs that Init chose.
LEMMA InputFacts ==
  /\ \A plan \in Plans : plan \in Seq(ContactSet) /\ DOMAIN plan = 1 .. Len(plan)
  /\ \A c \in Compromises : Compromised(c) /\ c = [stolenAt |-> c.stolenAt, detectAt |-> c.detectAt]
  /\ \A plan \in Plans : \A i \in DOMAIN plan :
       plan[i].end + TxTime(plan[i], ReceiptBytes + RecordBytes * MaxBlockRecords) + plan[i].owlt
         <= LaunchAt + KeyLife
<1>1. \A plan \in Plans : plan \in Seq(ContactSet)
  BY InputAssumption
<1>2. \A c \in Compromises : Compromised(c) /\ c = [stolenAt |-> c.stolenAt, detectAt |-> c.detectAt]
  <2>1. ASSUME NEW c \in Compromises PROVE Compromised(c) /\ c = [stolenAt |-> c.stolenAt, detectAt |-> c.detectAt]
    <3>1. c \in [stolenAt : Nat, detectAt : Nat] /\ c.stolenAt <= c.detectAt /\ LaunchAt < c.detectAt /\ c.detectAt < Never
      BY InputAssumption
    <3> QED BY <3>1 DEF Compromised
  <2> QED BY <2>1
<1>3. \A plan \in Plans : \A i \in DOMAIN plan :
       plan[i].end + TxTime(plan[i], ReceiptBytes + RecordBytes * MaxBlockRecords) + plan[i].owlt
         <= LaunchAt + KeyLife
  BY InputAssumption
<1> QED
  BY <1>1, <1>2, <1>3

\* Two nodes that heard at different times have different rings, and neither
\* has that of the ceremony.
LEMMA HeardApart ==
  ASSUME NEW c, NEW s \in Nat
  PROVE  Heard(c, s) # LaunchRing /\ \A u \in Nat : Heard(c, s) = Heard(c, u) => s = u
<1> DEFINE n == Len(LaunchRing)
<1>1. n \in Nat
  BY LaunchEntries
<1>2. ASSUME NEW u \in Nat
      PROVE  /\ Len(Heard(c, u)) = n + 2
             /\ Heard(c, u)[n + 1] = [rec |-> Revoked(c), seenAt |-> u]
             /\ Heard(c, u)[n + 2] = [rec |-> Reissued(c), seenAt |-> u]
  BY HeardEntries
<1>3. Heard(c, s) # LaunchRing
  <2>1. Len(Heard(c, s)) = n + 2
    BY <1>2
  <2> QED BY <1>1, <2>1
<1>4. ASSUME NEW u \in Nat, Heard(c, s) = Heard(c, u) PROVE s = u
  <2>1. [rec |-> Revoked(c), seenAt |-> s] = [rec |-> Revoked(c), seenAt |-> u]
    BY <1>2, <1>4
  <2> QED BY <2>1
<1> QED
  BY <1>3, <1>4

\* What a node takes in at time t: nothing, the news, or what it knew.
LEMMA TakesIn ==
  ASSUME NEW c, Compromised(c), NEW now \in Nat, NEW sw \in BOOLEAN, NEW ring, RingOk(c, now, sw, ring),
         NEW t \in Nat, now <= t, sw => c.detectAt <= now,
         NEW block, block = <<>> \/ (sw /\ block = Carried(c))
  PROVE  /\ block = <<>> \/ HeardBy(c, now, ring) => Ingest(ring, block, t) = ring
         /\ block = Carried(c) /\ ring = LaunchRing => Ingest(ring, block, t) = Heard(c, t)
<1>0. c.detectAt \in Nat /\ LaunchAt < c.detectAt /\ LaunchAt \in Nat
  BY Times DEF Compromised
<1>1. CASE ring = LaunchRing
  <2>1. ring \in Seq(Entries(c))
    BY <1>1, LaunchEntries
  <2>2. Ingest(ring, <<>>, t) = ring
    BY <2>1, IngestNothing
  <2>3. Carried(c) # <<>>
    <3>1. Carried(c) = <<Revoked(c), Reissued(c)>> \/ Carried(c) = <<Revoked(c), Reissued(c), IssuerRecord(Home)>>
      BY CarriedCases DEF Known
    <3> QED BY <3>1
  <2>4. ASSUME block = Carried(c) PROVE Ingest(ring, block, t) = Heard(c, t)
    <3>1. LaunchAt <= t
      BY <1>0, <2>3, <2>4
    <3>2. Ingest(LaunchRing, <<Revoked(c), Reissued(c)>>, t) = Heard(c, t) /\ Ingest(LaunchRing, Carried(c), t) = Heard(c, t)
      BY <3>1, FirstNews
    <3> QED BY <1>1, <2>4, <3>2
  <2>5. ~HeardBy(c, now, ring)
    BY <1>1, HeardApart DEF HeardBy
  <2> QED BY <2>2, <2>4, <2>5
<1>2. CASE ring # LaunchRing
  <2>1. PICK s \in Nat : c.detectAt <= s /\ s <= now /\ ring = Heard(c, s)
    BY <1>2 DEF RingOk, HeardBy
  <2>2. ring \in Seq(Entries(c))
    BY <2>1, HeardEntries
  <2>3. Ingest(ring, <<>>, t) = ring
    BY <2>2, IngestNothing
  <2>4. Ingest(ring, Carried(c), t) = ring
    <3>1. LaunchAt <= s /\ s <= t
      BY <1>0, <2>1
    <3> QED BY <2>1, <3>1, OldNews
  <2> QED BY <1>2, <2>3, <2>4
<1> QED
  BY <1>1, <1>2

\* Lists, and what is made of them.
LEMMA ListFacts ==
  /\ IsList(<<>>)
  /\ \A x : IsList(x) => Len(x) \in Nat /\ DOMAIN x = 1 .. Len(x)
<1>1. <<>> \in Seq({})
  OBVIOUS
<1> QED
  BY <1>1 DEF IsList

\* What an element appended to a list leaves, and where it is.
LEMMA ListAppend ==
  ASSUME NEW x, IsList(x), NEW e
  PROVE  /\ IsList(Append(x, e)) /\ Len(Append(x, e)) = Len(x) + 1
         /\ \A i \in 1 .. Len(x) : Append(x, e)[i] = x[i]
         /\ Append(x, e)[Len(x) + 1] = e
<1>1. PICK U : x \in Seq(U)
  BY DEF IsList
<1>2. x \in Seq(U \cup {e}) /\ e \in U \cup {e}
  BY <1>1
<1>3. /\ Append(x, e) \in Seq(U \cup {e}) /\ Len(Append(x, e)) = Len(x) + 1
      /\ \A i \in 1 .. Len(x) : Append(x, e)[i] = x[i]
      /\ Append(x, e)[Len(x) + 1] = e
  BY <1>2, AppendProperties
<1> QED
  BY <1>3 DEF IsList

\* What a list is without its first element.
LEMMA ListTail ==
  ASSUME NEW x, IsList(x), x # <<>>
  PROVE  /\ IsList(Tail(x)) /\ Len(Tail(x)) = Len(x) - 1 /\ Len(x) \in Nat \ {0}
         /\ Head(x) = x[1] /\ \A i \in 1 .. Len(x) - 1 : Tail(x)[i] = x[i + 1]
<1>1. PICK U : x \in Seq(U)
  BY DEF IsList
<1>2. /\ Tail(x) \in Seq(U) /\ Len(Tail(x)) = Len(x) - 1 /\ Len(x) \in Nat \ {0}
      /\ Head(x) = x[1] /\ \A i \in 1 .. Len(x) - 1 : Tail(x)[i] = x[i + 1]
  BY <1>1
<1> QED
  BY <1>2 DEF IsList

----------------------------------------------------------------------------
\* From one event to the next, a ring stays as it was, or hears the news.
RingsGrow(c, now2, R, R2) ==
  \A n \in Nodes : R2[n] = R[n] \/ (R[n] = LaunchRing /\ R2[n] = Heard(c, now2))

\* Who heard stays so; who heard before now had heard already.
LEMMA HeardStays ==
  ASSUME NEW c, NEW now2 \in Nat, NEW R, NEW R2, RingsGrow(c, now2, R, R2), NEW n \in Nodes, NEW t \in Int
  PROVE  /\ HeardBy(c, t, R[n]) => HeardBy(c, t, R2[n])
         /\ t < now2 /\ HeardBy(c, t, R2[n]) => HeardBy(c, t, R[n])
<1>1. CASE R2[n] = R[n]
  BY <1>1
<1>2. CASE R[n] = LaunchRing /\ R2[n] = Heard(c, now2)
  <2>1. ~HeardBy(c, t, R[n])
    BY <1>2, HeardApart DEF HeardBy
  <2>2. ASSUME t < now2, HeardBy(c, t, R2[n]) PROVE FALSE
    <3>1. PICK s \in Nat : s <= t /\ Heard(c, now2) = Heard(c, s)
      BY <1>2, <2>2 DEF HeardBy
    <3>2. s = now2
      BY <3>1, HeardApart
    <3> QED BY <2>2, <3>1, <3>2
  <2> QED BY <2>1, <2>2
<1> QED
  BY <1>1, <1>2 DEF RingsGrow

\* A ring that is good stays good as time goes by and the key is replaced.
LEMMA RingOkStays ==
  ASSUME NEW c, NEW now \in Nat, NEW now2 \in Nat, now <= now2, NEW sw \in BOOLEAN, NEW ring, RingOk(c, now, sw, ring)
  PROVE  /\ RingOk(c, now2, sw, ring) /\ RingOk(c, now2, TRUE, ring)
         /\ HeardBy(c, now, ring) => HeardBy(c, now2, ring)
<1>1. HeardBy(c, now, ring) => HeardBy(c, now2, ring)
  BY DEF HeardBy
<1> QED
  BY <1>1 DEF RingOk

\* What was true of a path, and of the news, stays true.
LEMMA PathStays ==
  ASSUME NEW c, NEW now \in Nat, NEW now2 \in Nat, now <= now2, NEW t, NEW path, NEW news, NEW news2, news => news2,
         PathOk(c, now, t, path, news)
  PROVE  PathOk(c, now2, t, path, news2)
<1>1. IsList(path) /\ \A k \in DOMAIN path : StepOk(c, now, t, path[k], news)
  BY DEF PathOk
<1>2. ASSUME NEW st, StepOk(c, now, t, st, news) PROVE StepOk(c, now2, t, st, news2)
  <2>1. /\ st.node \in Nodes /\ st.arrive \in Span /\ st.depart \in Nat
        /\ st.arrive <= st.depart /\ st.depart <= t /\ st.arrive <= now
        /\ st.signed = (st.node \in Custodians)
        /\ st.signed => KeyOk(c, st.node, st.key, st.depart, news)
    BY <1>2 DEF StepOk
  <2>2. st.arrive <= now2
    <3>1. st.arrive \in Int
      BY <2>1, Times DEF Span
    <3> QED BY <2>1, <3>1
  <2>3. KeyOk(c, st.node, st.key, st.depart, news) => KeyOk(c, st.node, st.key, st.depart, news2)
    BY DEF KeyOk
  <2> QED BY <2>1, <2>2, <2>3 DEF StepOk
<1> QED
  BY <1>1, <1>2 DEF PathOk

\* What was known along a way stays known as the rings grow.
LEMMA NewsStays ==
  ASSUME NEW c, NEW now \in Nat, NEW now2 \in Nat, now <= now2, NEW R, NEW R2, RingsGrow(c, now2, R, R2),
         NEW t, NEW path, NEW news, NEW news2, news => news2, PathOk(c, now, t, path, news),
         NewsRode(c, R, path, news)
  PROVE  NewsRode(c, R2, path, news2)
<1>1. SUFFICES ASSUME NEW k \in DOMAIN path, path[k].signed, HeardBy(c, path[k].arrive - 1, R2[path[k].node])
               PROVE  news2
  BY DEF NewsRode
<1>2. path[k].node \in Nodes /\ path[k].arrive \in Int /\ path[k].arrive <= now
  BY Times DEF PathOk, StepOk, Span
<1>3. HeardBy(c, path[k].arrive - 1, R[path[k].node])
  <2> DEFINE u == path[k].arrive - 1
  <2>1. u \in Int /\ u < now2
    BY <1>2
  <2>2. HeardBy(c, u, R2[path[k].node])
    BY <1>1
  <2> HIDE DEF u
  <2>3. HeardBy(c, u, R[path[k].node])
    BY <1>2, <2>1, <2>2, HeardStays
  <2> QED BY <2>3 DEF u
<1> QED
  BY <1>1, <1>3 DEF NewsRode

\* A bundle on its way stays good as time goes by and the rings grow.
LEMMA ArriveStays ==
  ASSUME NEW c, NEW now \in Nat, NEW now2 \in Nat, now <= now2, NEW R, NEW R2, RingsGrow(c, now2, R, R2),
         NEW sw \in BOOLEAN, NEW sw2 \in BOOLEAN, sw => sw2, NEW e, ArriveOk(c, now, sw, R, e)
  PROVE  ArriveOk(c, now2, sw2, R2, e)
<1>1. PathOk(c, now2, e.t, e.path, e.b.records = Carried(c))
  BY PathStays DEF ArriveOk
<1>2. NewsRode(c, R2, e.path, e.b.records = Carried(c))
  BY NewsStays DEF ArriveOk
<1> QED
  BY <1>1, <1>2 DEF ArriveOk

\* So does a delivery.
LEMMA DeliveryStays ==
  ASSUME NEW c, NEW now \in Nat, NEW now2 \in Nat, now <= now2, NEW R, NEW R2, RingsGrow(c, now2, R, R2),
         NEW d, DeliveryOk(c, now, R, d)
  PROVE  DeliveryOk(c, now2, R2, d)
<1> DEFINE news == HeardBy(c, d.deliveredAt, R[d.dst])
           news2 == HeardBy(c, d.deliveredAt, R2[d.dst])
<1>1. /\ d.dst \in Custodians /\ d.deliveredAt \in Span /\ d.deliveredAt <= now
      /\ BundleOk(c, d.b) /\ d.b.version = 2
      /\ PathOk(c, now, d.deliveredAt, d.path, news) /\ Len(d.path) <= MaxPath + 2
      /\ ReceiptsOk(d.b, d.path) /\ d.b.receipts # <<>>
      /\ NewsRode(c, R, d.path, news)
  BY DEF DeliveryOk
<1>2. d.dst \in Nodes /\ d.deliveredAt \in Int
  BY <1>1, NetworkAssumption, Times, SMTT(60) DEF Span
<1>3. news => news2
  BY <1>2, HeardStays
<1>4. d.deliveredAt <= now2
  BY <1>1, <1>2
<1> HIDE DEF news, news2
<1>5. PathOk(c, now2, d.deliveredAt, d.path, news2)
  BY <1>1, <1>3, PathStays
<1>6. NewsRode(c, R2, d.path, news2)
  BY <1>1, <1>3, NewsStays
<1> QED
  BY <1>1, <1>4, <1>5, <1>6 DEF DeliveryOk, news2

\* So do all deliveries.
LEMMA DeliveriesStay ==
  ASSUME NEW c, NEW now \in Nat, NEW now2 \in Nat, now <= now2, NEW R, NEW R2, RingsGrow(c, now2, R, R2),
         NEW ds, DeliveriesOk(c, now, R, ds)
  PROVE  DeliveriesOk(c, now2, R2, ds)
BY DeliveryStays DEF DeliveriesOk

\* So do the keys the nodes sign with.
LEMMA SignersStay ==
  ASSUME NEW c, NEW now \in Nat, NEW now2 \in Nat, now <= now2, NEW R, NEW R2, RingsGrow(c, now2, R, R2),
         NEW sig, SignersOk(c, now, R, sig)
  PROVE  SignersOk(c, now2, R2, sig)
<1>1. ASSUME NEW n \in Nodes, HeardBy(c, now, R[n]) PROVE HeardBy(c, now2, R2[n])
  <2>1. HeardBy(c, now, R2[n])
    BY <1>1, HeardStays
  <2> QED BY <2>1 DEF HeardBy
<1> QED
  BY <1>1 DEF SignersOk

\* The queue without its first event.
LEMMA QueueTail ==
  ASSUME NEW c, NEW now \in Nat, NEW sw \in BOOLEAN, NEW R, NEW q, QueueOk(c, now, sw, R, q), q # <<>>,
         NEW R2, RingsGrow(c, Head(q).t, R, R2), NEW sw2 \in BOOLEAN, sw => sw2,
         Head(q).kind = "detected" => sw2, sw2 /\ ~sw => Head(q).kind = "detected"
  PROVE  /\ Head(q).t \in Nat /\ now <= Head(q).t /\ Head(q).t < Never
         /\ EventOk(c, now, sw, R, Head(q)) /\ (sw => Head(q).kind # "detected")
         /\ QueueOk(c, Head(q).t, sw2, R2, Tail(q))
<1> DEFINE e == Head(q) r == Tail(q)
<1>1. /\ IsList(r) /\ Len(r) = Len(q) - 1 /\ Len(q) \in Nat \ {0}
      /\ e = q[1] /\ \A i \in 1 .. Len(q) - 1 : r[i] = q[i + 1]
  BY ListTail DEF QueueOk
<1>2. DOMAIN q = 1 .. Len(q) /\ DOMAIN r = 1 .. Len(r) /\ 1 \in DOMAIN q
  BY <1>1, ListFacts DEF QueueOk
<1>3. /\ \A i \in DOMAIN q : q[i].t \in Nat /\ now <= q[i].t /\ q[i].t < Never /\ EventOk(c, now, sw, R, q[i])
      /\ \A i, j \in DOMAIN q : i <= j => q[i].t <= q[j].t
      /\ sw => \A i \in DOMAIN q : q[i].kind # "detected"
      /\ ~sw => \E i \in DOMAIN q : q[i].kind = "detected" /\ \A j \in DOMAIN q : q[j].kind = "detected" => j = i
  BY DEF QueueOk
<1> HIDE DEF e, r
<1>4. /\ e.t \in Nat /\ now <= e.t /\ e.t < Never
      /\ EventOk(c, now, sw, R, e) /\ (sw => e.kind # "detected")
  BY <1>1, <1>2, <1>3
<1>5. \A i \in DOMAIN r : i + 1 \in DOMAIN q /\ r[i] = q[i + 1] /\ 1 <= i + 1
  BY <1>1, <1>2
<1>6. RingsGrow(c, e.t, R, R2)
  BY DEF e
<1>7. ASSUME NEW i \in DOMAIN r
      PROVE  r[i].t \in Nat /\ e.t <= r[i].t /\ r[i].t < Never /\ EventOk(c, e.t, sw2, R2, r[i])
  <2>1. r[i].t \in Nat /\ e.t <= r[i].t /\ r[i].t < Never /\ EventOk(c, now, sw, R, r[i])
    BY <1>1, <1>2, <1>3, <1>5
  <2>2. ArriveOk(c, now, sw, R, r[i]) => ArriveOk(c, e.t, sw2, R2, r[i])
    BY <1>4, <1>6, ArriveStays
  <2> QED BY <2>1, <2>2 DEF EventOk
<1>8. \A i, j \in DOMAIN r : i <= j => r[i].t <= r[j].t
  <2>1. \A i, j \in DOMAIN r : i <= j => i + 1 <= j + 1
    BY <1>1, <1>2
  <2> QED BY <1>3, <1>5, <2>1
<1>9. sw2 => \A i \in DOMAIN r : r[i].kind # "detected"
  <2>1. CASE sw
    BY <1>3, <1>5, <2>1
  <2>2. CASE sw2 /\ ~sw
    <3>1. e.kind = "detected"
      BY <2>2 DEF e
    <3>2. \A j \in DOMAIN q : q[j].kind = "detected" => j = 1
      BY <1>1, <1>2, <1>3, <2>2, <3>1
    <3>3. \A i \in DOMAIN r : i + 1 # 1
      BY <1>1, <1>2
    <3> QED BY <1>5, <3>2, <3>3
  <2> QED BY <2>1, <2>2
<1>10. ~sw2 => \E i \in DOMAIN r : r[i].kind = "detected" /\ \A j \in DOMAIN r : r[j].kind = "detected" => j = i
  <2>1. SUFFICES ASSUME ~sw2 PROVE \E i \in DOMAIN r : r[i].kind = "detected" /\ \A j \in DOMAIN r : r[j].kind = "detected" => j = i
    OBVIOUS
  <2>2. ~sw /\ e.kind # "detected"
    BY <2>1 DEF e
  <2>3. PICK i \in DOMAIN q : q[i].kind = "detected" /\ \A j \in DOMAIN q : q[j].kind = "detected" => j = i
    BY <1>3, <2>2
  <2>4. i # 1
    BY <1>1, <2>2, <2>3
  <2>5. i - 1 \in DOMAIN r /\ i - 1 + 1 = i
    BY <1>1, <1>2, <2>3, <2>4
  <2>6. r[i - 1].kind = "detected"
    BY <1>5, <2>3, <2>5
  <2>7. \A j \in DOMAIN r : r[j].kind = "detected" => j = i - 1
    <3>1. \A j \in DOMAIN r : r[j].kind = "detected" => j + 1 = i
      BY <1>5, <2>3
    <3> QED BY <1>1, <1>2, <2>3, <3>1
  <2> QED BY <2>5, <2>6, <2>7
<1>11. QueueOk(c, e.t, sw2, R2, r)
  BY <1>1, <1>7, <1>8, <1>9, <1>10 DEF QueueOk
<1> QED
  BY <1>4, <1>11 DEF e, r

Sorted(q) ==
  /\ IsList(q) /\ \A i \in DOMAIN q : q[i].t \in Nat
  /\ \A i, j \in DOMAIN q : i <= j => q[i].t <= q[j].t

\* Event e has joined q as its m-th, behind those of its own time.
PushedAt(q, e, m, p) ==
  /\ m \in 1 .. Len(q) + 1 /\ IsList(p) /\ Len(p) = Len(q) + 1 /\ p[m] = e
  /\ \A i \in 1 .. Len(q) : i < m => p[i] = q[i] /\ q[i].t <= e.t
  /\ \A i \in 1 .. Len(q) : m <= i => p[i + 1] = q[i] /\ e.t <= q[i].t

\* An event that joins the queue goes in at one place, and all else stays in order.
LEMMA PushFacts ==
  ASSUME NEW q, Sorted(q), NEW e, e.t \in Nat
  PROVE  \E m : PushedAt(q, e, m, Push(q, e))
<1> DEFINE n == Len(q)
           I == {j \in 1 .. n : q[j].t <= e.t}
           i == IF I # {} THEN Max(I) ELSE 0
           a == SubSeq(q, 1, i)
           b == SubSeq(q, i + 1, n)
           p == Push(q, e)
<1>1. PICK U : q \in Seq(U)
  BY DEF Sorted, IsList
<1>2. n \in Nat /\ DOMAIN q = 1 .. n
  BY <1>1
<1>3. p = a \o <<e>> \o b
  BY DEF Push, SelectLastInSeq
<1>4. i \in 0 .. n /\ (i # 0 => q[i].t <= e.t) /\ \A j \in I : j <= i
  <2>1. CASE I = {}
    <3> HIDE DEF I, n
    <3> QED BY <1>2, <2>1
  <2>2. CASE I # {}
    <3>1. I \in SUBSET (1 .. n)
      OBVIOUS
    <3>2. Max(I) \in I /\ \A y \in I : y <= Max(I)
      <4> HIDE DEF I, n
      <4> QED BY <1>2, <2>2, <3>1, MaxOf
    <3>3. i = Max(I)
      BY <2>2
    <3>4. Max(I) \in 1 .. n /\ q[Max(I)].t <= e.t
      <4>1. \A x \in I : x \in 1 .. n /\ q[x].t <= e.t
        OBVIOUS
      <4> HIDE DEF I
      <4> QED BY <3>2, <4>1
    <3> HIDE DEF I, n, i
    <3> QED BY <1>2, <3>2, <3>3, <3>4
  <2> QED BY <2>1, <2>2
<1>5. \A j \in 1 .. n : (j <= i => q[j].t <= e.t) /\ (i < j => e.t <= q[j].t)
  <2>1. ASSUME NEW j \in 1 .. n, j <= i PROVE q[j].t <= e.t
    <3>1. i # 0 /\ i \in 1 .. n
      <4> HIDE DEF i, n
      <4> QED BY <1>2, <1>4, <2>1
    <3>2. q[j].t <= q[i].t /\ q[j].t \in Nat /\ q[i].t \in Nat
      <4> HIDE DEF i, n
      <4> QED BY <1>2, <2>1, <3>1 DEF Sorted
    <3> HIDE DEF i, n
    <3> QED BY <1>4, <3>1, <3>2
  <2>2. ASSUME NEW j \in 1 .. n, i < j PROVE e.t <= q[j].t
    <3>1. j \notin I
      <4> HIDE DEF I, i, n
      <4> QED BY <1>2, <1>4, <2>2
    <3>2. ~(q[j].t <= e.t) /\ q[j].t \in Nat
      <4> HIDE DEF i
      <4> QED BY <2>2, <3>1 DEF Sorted
    <3> HIDE DEF i, n
    <3> QED BY <3>2
  <2> HIDE DEF i, n
  <2> QED BY <2>1, <2>2
<1> HIDE DEF i, I
<1>6. /\ a \in Seq(U) /\ Len(a) = i /\ \A k \in 1 .. i : a[k] = q[k]
      /\ b \in Seq(U) /\ Len(b) = n - i /\ \A k \in 1 .. n - i : b[k] = q[i + k]
  <2>1. i \in Nat /\ i <= n /\ i + 1 \in 1 .. n + 1
    BY <1>2, <1>4
  <2>2. a \in Seq(U) /\ Len(a) = i /\ \A k \in 1 .. i : a[k] = q[k]
    BY <1>1, <1>2, <2>1
  <2>3. b \in Seq(U) /\ Len(b) = n - i /\ \A k \in 1 .. n - i : b[k] = q[i + k]
    <3> HIDE DEF n, a, p
    <3> DEFINE l == i + 1
    <3>1. l \in Int /\ n \in Int /\ \A j \in l .. n : q[j] \in U
      BY <1>1, <1>2, <2>1
    <3> HIDE DEF l
    <3>2. /\ SubSeq(q, l, n) \in Seq(U)
          /\ Len(SubSeq(q, l, n)) = IF l <= n THEN n - l + 1 ELSE 0
          /\ \A k \in 1 .. n - l + 1 : SubSeq(q, l, n)[k] = q[l + k - 1]
      BY <3>1, SubSeqProperties
    <3>3. n - l + 1 = n - i /\ (~(l <= n) => n - i = 0) /\ \A k \in 1 .. n - i : l + k - 1 = i + k
      BY <2>1, <1>2 DEF l
    <3> QED BY <3>2, <3>3 DEF l
  <2> QED BY <2>2, <2>3
<1> HIDE DEF a, b, n, p
<1> DEFINE W == U \cup {e}
<1>7. a \in Seq(W) /\ <<e>> \in Seq(W) /\ b \in Seq(W)
  BY <1>6
<1>8. /\ a \o <<e>> \in Seq(W) /\ Len(a \o <<e>>) = i + 1
      /\ (\A k \in 1 .. i : (a \o <<e>>)[k] = a[k]) /\ (a \o <<e>>)[i + 1] = e
  <2>1. a \o <<e>> = Append(a, e)
    BY <1>7
  <2> QED BY <1>4, <1>6, <1>7, <2>1, AppendProperties
<1> DEFINE ae == a \o <<e>>
<1> HIDE DEF ae, W
<1>9. ae \in Seq(W) /\ Len(ae) = i + 1 /\ (\A k \in 1 .. i : ae[k] = a[k]) /\ ae[i + 1] = e
  BY <1>8 DEF ae, W
<1>10. /\ p \in Seq(W) /\ Len(p) = Len(ae) + Len(b)
       /\ \A k \in 1 .. Len(ae) + Len(b) : p[k] = IF k <= Len(ae) THEN ae[k] ELSE b[k - Len(ae)]
  <2>1. p = ae \o b
    BY <1>3 DEF ae
  <2> QED BY <1>7, <1>9, <2>1, ConcatProperties
<1>11. Len(p) = n + 1 /\ p[i + 1] = e /\ IsList(p)
  <2>1. Len(ae) + Len(b) = n + 1 /\ i + 1 \in 1 .. n + 1 /\ i + 1 <= Len(ae)
    BY <1>2, <1>4, <1>6, <1>9
  <2> QED BY <1>9, <1>10, <2>1 DEF IsList
<1>12. ASSUME NEW k \in 1 .. n, k < i + 1 PROVE p[k] = q[k] /\ q[k].t <= e.t
  <2>1. k \in 1 .. i /\ k <= i /\ k <= Len(ae) /\ k \in 1 .. Len(ae) + Len(b)
    BY <1>2, <1>4, <1>6, <1>9, <1>12
  <2> QED BY <1>5, <1>6, <1>9, <1>10, <2>1
<1>13. ASSUME NEW k \in 1 .. n, i + 1 <= k PROVE p[k + 1] = q[k] /\ e.t <= q[k].t
  <2>1. k + 1 \in 1 .. Len(ae) + Len(b) /\ ~(k + 1 <= Len(ae)) /\ i < k
    BY <1>2, <1>4, <1>6, <1>9, <1>13
  <2>2. k + 1 - Len(ae) = k - i /\ k - i \in 1 .. n - i /\ i + (k - i) = k
    BY <1>2, <1>4, <1>9, <1>13
  <2>3. p[k + 1] = b[k - i]
    BY <1>10, <2>1, <2>2
  <2>4. b[k - i] = q[k]
    BY <1>6, <2>2
  <2> QED BY <1>5, <2>1, <2>3, <2>4
<1>14. i + 1 \in 1 .. n + 1
  BY <1>2, <1>4
<1>15. PushedAt(q, e, i + 1, p)
  <2> HIDE DEF a, b, ae, W
  <2> QED BY <1>11, <1>12, <1>13, <1>14 DEF PushedAt, n
<1> QED
  BY <1>15 DEF p

\* The queue with one more event.
LEMMA Pushed ==
  ASSUME NEW q, Sorted(q), NEW e, e.t \in Nat
  PROVE  /\ Sorted(Push(q, e))
         /\ \A i \in DOMAIN Push(q, e) : Push(q, e)[i] = e \/ \E j \in DOMAIN q : Push(q, e)[i] = q[j]
         /\ \A j \in DOMAIN q : \E i \in DOMAIN Push(q, e) : Push(q, e)[i] = q[j]
         /\ \E i \in DOMAIN Push(q, e) : Push(q, e)[i] = e
         /\ (\A i, j \in DOMAIN q : q[i].kind = "detected" /\ q[j].kind = "detected" => i = j)
            /\ (e.kind = "detected" => \A i \in DOMAIN q : q[i].kind # "detected")
              => \A i, j \in DOMAIN Push(q, e) : Push(q, e)[i].kind = "detected" /\ Push(q, e)[j].kind = "detected" => i = j
<1> DEFINE p == Push(q, e) n == Len(q)
<1>1. PICK m : PushedAt(q, e, m, p)
  BY PushFacts
<1>2. n \in Nat /\ DOMAIN q = 1 .. n
  BY ListFacts DEF Sorted
<1> HIDE DEF p
<1>3. /\ m \in 1 .. n + 1 /\ IsList(p) /\ DOMAIN p = 1 .. n + 1 /\ p[m] = e
      /\ \A i \in 1 .. n : i < m => p[i] = q[i] /\ q[i].t <= e.t
      /\ \A i \in 1 .. n : m <= i => p[i + 1] = q[i] /\ e.t <= q[i].t
  BY <1>1, ListFacts DEF PushedAt
<1> HIDE DEF n
\* Where each event of p comes from.
<1> DEFINE From(i, j) == (i < m /\ j = i) \/ (i > m /\ j = i - 1)
<1>4. \A i \in 1 .. n + 1 : i # m => \E j \in 1 .. n : From(i, j) /\ p[i] = q[j]
  <2>1. SUFFICES ASSUME NEW i \in 1 .. n + 1, i # m PROVE \E j \in 1 .. n : From(i, j) /\ p[i] = q[j]
    OBVIOUS
  <2>2. CASE i < m
    <3>1. i \in 1 .. n
      BY <1>2, <1>3, <2>2
    <3> QED BY <1>3, <2>2, <3>1
  <2>3. CASE i > m
    <3>1. i - 1 \in 1 .. n /\ m <= i - 1 /\ i - 1 + 1 = i
      BY <1>2, <1>3, <2>3
    <3>2. p[i - 1 + 1] = q[i - 1]
      BY <1>3, <3>1
    <3> QED BY <2>3, <3>1, <3>2
  <2> QED BY <1>2, <1>3, <2>1, <2>2, <2>3
<1>5. \A j \in 1 .. n : \E i \in 1 .. n + 1 : i # m /\ p[i] = q[j]
  <2>1. SUFFICES ASSUME NEW j \in 1 .. n PROVE \E i \in 1 .. n + 1 : i # m /\ p[i] = q[j]
    OBVIOUS
  <2>2. CASE j < m
    <3>1. j \in 1 .. n + 1 /\ j # m
      BY <1>2, <1>3, <2>2
    <3> QED BY <1>3, <2>2, <3>1
  <2>3. CASE m <= j
    <3>1. j + 1 \in 1 .. n + 1 /\ j + 1 # m
      BY <1>2, <1>3, <2>3
    <3> QED BY <1>3, <2>3, <3>1
  <2> QED BY <1>2, <1>3, <2>2, <2>3
<1>6. /\ \A j \in 1 .. n : q[j].t \in Nat
      /\ \A i, j \in 1 .. n : i <= j => q[i].t <= q[j].t
  BY <1>2 DEF Sorted
<1>7. \A i \in 1 .. n + 1 : p[i].t \in Nat
  BY <1>3, <1>4, <1>6
<1>8. ASSUME NEW i \in 1 .. n + 1, NEW j \in 1 .. n + 1, i <= j PROVE p[i].t <= p[j].t
  <2>1. CASE i = m /\ j = m
    BY <1>7, <2>1
  <2>2. CASE i = m /\ j # m
    <3>1. PICK k \in 1 .. n : From(j, k) /\ p[j] = q[k]
      BY <1>4, <2>2
    <3>2. m <= k
      BY <1>2, <1>3, <1>8, <2>2, <3>1
    <3> QED BY <1>3, <2>2, <3>1, <3>2
  <2>3. CASE i # m /\ j = m
    <3>1. PICK k \in 1 .. n : From(i, k) /\ p[i] = q[k]
      BY <1>4, <2>3
    <3>2. k < m
      BY <1>2, <1>3, <1>8, <2>3, <3>1
    <3> QED BY <1>3, <2>3, <3>1, <3>2
  <2>4. CASE i # m /\ j # m
    <3>1. PICK k \in 1 .. n : From(i, k) /\ p[i] = q[k]
      BY <1>4, <2>4
    <3>2. PICK l \in 1 .. n : From(j, l) /\ p[j] = q[l]
      BY <1>4, <2>4
    <3>3. k <= l
      BY <1>2, <1>3, <1>8, <3>1, <3>2
    <3> QED BY <1>6, <3>1, <3>2, <3>3
  <2> QED BY <2>1, <2>2, <2>3, <2>4
<1>9. Sorted(p)
  BY <1>3, <1>7, <1>8 DEF Sorted
<1>10. ASSUME \A i, j \in 1 .. n : q[i].kind = "detected" /\ q[j].kind = "detected" => i = j,
              e.kind = "detected" => \A i \in 1 .. n : q[i].kind # "detected",
              NEW i \in 1 .. n + 1, NEW j \in 1 .. n + 1, p[i].kind = "detected", p[j].kind = "detected"
       PROVE  i = j
  <2>1. CASE i = m \/ j = m
    <3>1. SUFFICES ASSUME i # j PROVE FALSE
      OBVIOUS
    <3>2. PICK k \in 1 .. n : q[k].kind = "detected"
      <4>1. CASE i # m
        BY <1>4, <1>10, <4>1
      <4>2. CASE j # m
        BY <1>4, <1>10, <4>2
      <4> QED BY <3>1, <4>1, <4>2
    <3>3. e.kind = "detected"
      BY <1>3, <1>10, <2>1
    <3> QED BY <1>10, <3>2, <3>3
  <2>2. CASE i # m /\ j # m
    <3>1. PICK k \in 1 .. n : From(i, k) /\ p[i] = q[k]
      BY <1>4, <2>2
    <3>2. PICK l \in 1 .. n : From(j, l) /\ p[j] = q[l]
      BY <1>4, <2>2
    <3>3. k = l
      BY <1>10, <3>1, <3>2
    <3> QED BY <1>2, <1>3, <3>1, <3>2, <3>3
  <2> QED BY <2>1, <2>2
<1> HIDE DEF From
<1>11. /\ \A i \in DOMAIN p : p[i] = e \/ \E j \in DOMAIN q : p[i] = q[j]
       /\ \A j \in DOMAIN q : \E i \in DOMAIN p : p[i] = q[j]
       /\ \E i \in DOMAIN p : p[i] = e
  BY <1>2, <1>3, <1>4, <1>5
<1> QED
  BY <1>2, <1>3, <1>9, <1>10, <1>11 DEF p

\* A list of elements of W is a sequence over W.
LEMMA ListOf ==
  ASSUME NEW x, IsList(x), NEW W, \A i \in DOMAIN x : x[i] \in W
  PROVE  x \in Seq(W)
<1>1. PICK U : x \in Seq(U)
  BY DEF IsList
<1>2. Len(x) \in Nat /\ DOMAIN x = 1 .. Len(x) /\ x \in [1 .. Len(x) -> U]
  BY <1>1
<1>3. x \in [1 .. Len(x) -> W]
  BY <1>2
<1> QED
  BY <1>2, <1>3

\* The time of a bundle's move is one of the program's.
LEMMA SpanFacts == \A t \in Span : t \in Nat /\ t < Never /\ LaunchAt <= t /\ t <= LaunchAt + KeyLife
BY Times DEF Span

\* The time and the kind of an event.
LEMMA EventFields == \A t, kind : Event(t, kind).t = t /\ Event(t, kind).kind = kind
BY DEF Event

\* What is going to happen, event by event.
LEMMA ScheduledFacts ==
  ASSUME NEW traffic \in Traffics, NEW c \in Compromises
  PROVE  /\ IsList(Scheduled(traffic, c)) /\ Len(traffic) \in Nat /\ Len(Scheduled(traffic, c)) = Len(traffic) + 2
         /\ \A i \in 1 .. Len(traffic) :
              Scheduled(traffic, c)[i] =
                Arrive(traffic[i].created, traffic[i].src, Bundle(traffic[i]), traffic[i].dst, traffic[i].src, <<>>)
         /\ Scheduled(traffic, c)[Len(traffic) + 1] = Event(c.stolenAt, "stolen")
         /\ Scheduled(traffic, c)[Len(traffic) + 2] = Event(c.detectAt, "detected")
<1> DEFINE n == Len(traffic)
           ev(i) == Arrive(traffic[i].created, traffic[i].src, Bundle(traffic[i]), traffic[i].dst, traffic[i].src, <<>>)
           a == [i \in DOMAIN traffic |-> ev(i)]
           b == <<Event(c.stolenAt, "stolen"), Event(c.detectAt, "detected")>>
           W == {ev(i) : i \in DOMAIN traffic} \cup {Event(c.stolenAt, "stolen"), Event(c.detectAt, "detected")}
<1>1. traffic \in Seq(ToSet(traffic))
  BY InputAssumption
<1>2. n \in Nat /\ DOMAIN traffic = 1 .. n
  BY <1>1
<1>3. Scheduled(traffic, c) = a \o b
  BY DEF Scheduled
<1>4. a \in Seq(W) /\ Len(a) = n /\ \A i \in 1 .. n : a[i] = ev(i)
  <2>1. a \in [1 .. n -> W]
    <3> HIDE DEF ev, n
    <3> QED BY <1>2
  <2> HIDE DEF W, n, ev
  <2> QED BY <1>2, <2>1
<1>5. b \in Seq(W) /\ Len(b) = 2 /\ b[1] = Event(c.stolenAt, "stolen") /\ b[2] = Event(c.detectAt, "detected")
  <2> HIDE DEF ev
  <2> QED OBVIOUS
<1> HIDE DEF a, b, W, n
<1>6. /\ a \o b \in Seq(W) /\ Len(a \o b) = n + 2
      /\ \A i \in 1 .. n + 2 : (a \o b)[i] = IF i <= n THEN a[i] ELSE b[i - n]
  <2>1. /\ a \o b \in Seq(W) /\ Len(a \o b) = Len(a) + Len(b)
        /\ \A i \in 1 .. Len(a) + Len(b) : (a \o b)[i] = IF i <= Len(a) THEN a[i] ELSE b[i - Len(a)]
    <3>1. ASSUME NEW x \in Seq(W), NEW y \in Seq(W)
          PROVE  /\ x \o y \in Seq(W) /\ Len(x \o y) = Len(x) + Len(y)
                 /\ \A i \in 1 .. Len(x) + Len(y) : (x \o y)[i] = IF i <= Len(x) THEN x[i] ELSE y[i - Len(x)]
      BY ConcatProperties
    <3> QED BY <1>4, <1>5, <3>1
  <2> QED BY <1>4, <1>5, <2>1
<1>7. /\ \A i \in 1 .. n : i \in 1 .. n + 2 /\ i <= n
      /\ n + 1 \in 1 .. n + 2 /\ n + 2 \in 1 .. n + 2 /\ ~(n + 1 <= n) /\ ~(n + 2 <= n) /\ n + 1 - n = 1 /\ n + 2 - n = 2
  BY <1>2
<1>8. IsList(a \o b)
  BY <1>6 DEF IsList
<1> HIDE DEF ev
<1>9. /\ \A i \in 1 .. n : (a \o b)[i] = ev(i)
      /\ (a \o b)[n + 1] = Event(c.stolenAt, "stolen") /\ (a \o b)[n + 2] = Event(c.detectAt, "detected")
  BY <1>4, <1>5, <1>6, <1>7, SMTT(60)
<1> QED
  BY <1>2, <1>3, <1>6, <1>8, <1>9 DEF n, ev

LaunchRings == [x \in Nodes |-> LaunchRing]

\* Each of these events is one the network can be in.
LEMMA ScheduledOk ==
  ASSUME NEW traffic \in Traffics, NEW c \in Compromises, NEW i \in DOMAIN Scheduled(traffic, c)
  PROVE  /\ Scheduled(traffic, c)[i].t \in Nat /\ Scheduled(traffic, c)[i].t < Never
         /\ EventOk(c, 0, FALSE, LaunchRings, Scheduled(traffic, c)[i])
         /\ i # Len(Scheduled(traffic, c)) => Scheduled(traffic, c)[i].kind # "detected"
<1> DEFINE n == Len(traffic) s == Scheduled(traffic, c)
<1>1. /\ n \in Nat /\ Len(s) = n + 2 /\ DOMAIN s = 1 .. n + 2
      /\ \A j \in 1 .. n : s[j] = Arrive(traffic[j].created, traffic[j].src, Bundle(traffic[j]), traffic[j].dst, traffic[j].src, <<>>)
      /\ s[n + 1] = Event(c.stolenAt, "stolen") /\ s[n + 2] = Event(c.detectAt, "detected")
  BY ScheduledFacts, ListFacts
<1>2. c.stolenAt \in Nat /\ c.detectAt \in Nat /\ c.stolenAt <= c.detectAt /\ c.detectAt < Never /\ Never \in Nat
  BY InputFacts, Times DEF Compromised
<1> HIDE DEF s, n
<1>3. CASE i = n + 1
  <2>1. s[i] = Event(c.stolenAt, "stolen") /\ s[i].t = c.stolenAt /\ s[i].kind = "stolen"
    BY <1>1, <1>3, EventFields
  <2>2. EventOk(c, 0, FALSE, LaunchRings, s[i])
    BY <2>1 DEF EventOk
  <2>3. s[i].t \in Nat /\ s[i].t < Never
    BY <1>2, <2>1
  <2> QED BY <2>1, <2>2, <2>3 DEF s
<1>4. CASE i = n + 2
  <2>1. s[i] = Event(c.detectAt, "detected") /\ s[i].t = c.detectAt /\ i = Len(s)
    BY <1>1, <1>4, EventFields
  <2>2. EventOk(c, 0, FALSE, LaunchRings, s[i])
    BY <2>1 DEF EventOk
  <2>3. s[i].t \in Nat /\ s[i].t < Never
    BY <1>2, <2>1
  <2> QED BY <2>1, <2>2, <2>3 DEF s
<1>5. CASE i \in 1 .. n
  <2> DEFINE tr == traffic[i] b == Bundle(tr) e == s[i]
  <2>1. e = Arrive(tr.created, tr.src, b, tr.dst, tr.src, <<>>)
    BY <1>1, <1>5
  <2>2. tr.src \in Nodes /\ tr.dst \in Custodians /\ tr.bytes \in Nat \ {0} /\ tr.label # "never sent" /\ tr.created \in Span
    <3>1. i \in DOMAIN traffic
      <4>1. traffic \in Seq(ToSet(traffic))
        BY InputAssumption
      <4> QED BY <1>5, <4>1 DEF n
    <3> QED BY <3>1, InputAssumption DEF Span
  <2> HIDE DEF tr
  <2>3. b = [source |-> tr.src, created |-> tr.label, fragment |-> <<>>, payload |-> tr.label,
             bytes |-> tr.bytes, version |-> 0, receipts |-> <<>>, records |-> <<>>, hopCount |-> 0, previous |-> NoNode]
    BY DEF Bundle
  <2>4. BundleOk(c, b) /\ b.records = <<>> /\ b.receipts = <<>>
    <3>1. /\ b.source = tr.src /\ b.created = tr.label /\ b.payload = tr.label /\ b.bytes = tr.bytes /\ b.version = 0
          /\ b.receipts = <<>> /\ b.records = <<>> /\ b.hopCount = 0
      BY <2>3
    <3> HIDE DEF b
    <3> QED BY <2>2, <2>3, <3>1 DEF BundleOk, IsBundle
  <2> HIDE DEF b, e
  <2>5. e = Arrive(e.t, e.node, e.b, e.dst, e.prev, e.path) /\ e.t = tr.created /\ e.node = tr.src /\ e.b = b /\ e.dst = tr.dst
        /\ e.path = <<>> /\ e.kind = "arrive"
    BY <2>1 DEF Arrive
  <2>6. \A news : PathOk(c, 0, e.t, <<>>, news) /\ NewsRode(c, LaunchRings, <<>>, news)
    BY ListFacts DEF PathOk, NewsRode
  <2>7. ReceiptsOk(b, <<>>)
    BY <2>4, ListFacts DEF ReceiptsOk
  <2>8. Len(<<>>) <= MaxPath + 1
    BY NetworkAssumption
  <2>9. ArriveOk(c, 0, FALSE, LaunchRings, e)
    BY <2>2, <2>4, <2>5, <2>6, <2>7, <2>8 DEF ArriveOk
  <2>10. e.t \in Nat /\ e.t < Never
    BY <2>2, <2>5, SpanFacts
  <2> QED BY <2>5, <2>9, <2>10 DEF EventOk, e, s
<1>6. i = n + 1 \/ i = n + 2 \/ i \in 1 .. n
  BY <1>1 DEF s
<1> QED
  BY <1>3, <1>4, <1>5, <1>6

\* The first queue is in the order of the times and has the detection once.
LEMMA StartQueueOk ==
  ASSUME NEW traffic \in Traffics, NEW c \in Compromises
  PROVE  QueueOk(c, 0, FALSE, LaunchRings, StartQueue(traffic, c))
<1> DEFINE s == Scheduled(traffic, c) n == Len(s)
           W == {s[i] : i \in DOMAIN s}
           V == {q \in Seq(W) : Sorted(q)}
<1>1. IsList(s) /\ n \in Nat \ {0} /\ DOMAIN s = 1 .. n /\ s[n].kind = "detected"
  <2>1. IsList(s) /\ Len(traffic) \in Nat /\ n = Len(traffic) + 2 /\ s[Len(traffic) + 2] = Event(c.detectAt, "detected")
    BY ScheduledFacts
  <2>2. DOMAIN s = 1 .. n
    BY <2>1, ListFacts
  <2> HIDE DEF s, n
  <2> QED BY <2>1, <2>2, EventFields
<1>2. \A i \in 1 .. n : s[i].t \in Nat /\ (i # n => s[i].kind # "detected")
  BY <1>1, ScheduledOk
<1>3. s \in Seq(W)
  <2> HIDE DEF s
  <2> QED BY <1>1, ListOf
<1>4. <<>> \in V
  BY ListFacts DEF Sorted
<1> HIDE DEF s
<1>5. ASSUME NEW q \in V, NEW i \in 1 .. n PROVE Push(q, s[i]) \in V
  <2>1. /\ Sorted(Push(q, s[i]))
        /\ \A k \in DOMAIN Push(q, s[i]) : Push(q, s[i])[k] = s[i] \/ \E j \in DOMAIN q : Push(q, s[i])[k] = q[j]
    BY <1>2, <1>5, Pushed
  <2>2. \A j \in DOMAIN q : q[j] \in W
    BY <1>5
  <2>3. s[i] \in W
    BY <1>1, <1>5
  <2>4. Push(q, s[i]) \in Seq(W)
    <3> HIDE DEF W
    <3> QED BY <2>1, <2>2, <2>3, ListOf DEF Sorted
  <2> QED BY <2>1, <2>4
<1>6. \E h \in [0 .. n -> V] : StartQueueRun(traffic, c, h)
  <2>1. Scheduled(traffic, c) \in Seq(W)
    BY <1>3 DEF s
  <2>2. \A q \in V : \A i \in 1 .. Len(Scheduled(traffic, c)) : Push(q, Scheduled(traffic, c)[i]) \in V
    BY <1>5 DEF s
  <2> HIDE DEF V, W
  <2>3. \E h \in [0 .. Len(Scheduled(traffic, c)) -> V] : StartQueueRun(traffic, c, h)
    BY <1>4, <2>1, <2>2, StartQueueIterates
  <2> QED BY <2>3 DEF s
<1>7. PICK h \in [0 .. n -> V] : StartQueueRun(traffic, c, h)
  BY <1>6
<1>8. h[0] = <<>> /\ h[n] = StartQueue(traffic, c) /\ \A i \in 1 .. n : h[i] = Push(h[i - 1], s[i])
  BY <1>7 DEF StartQueueRun, s
<1> HIDE DEF n
<1>9. \A i \in 0 .. n : h[i] \in Seq(W) /\ Sorted(h[i])
  <2> HIDE DEF W
  <2> QED BY <1>7
<1> DEFINE P == {i \in Nat : i < n => \A k \in DOMAIN h[i] : h[i][k].kind # "detected"}
<1>10. 0 \in P
  BY <1>8
<1>11. ASSUME NEW i \in Nat, i \in P PROVE i + 1 \in P
  <2>1. SUFFICES ASSUME i + 1 < n PROVE \A k \in DOMAIN h[i + 1] : h[i + 1][k].kind # "detected"
    OBVIOUS
  <2>2. i + 1 \in 1 .. n /\ i \in 0 .. n /\ i < n /\ i + 1 # n /\ i + 1 - 1 = i
    BY <1>1, <2>1
  <2>3. h[i + 1] = Push(h[i], s[i + 1]) /\ Sorted(h[i]) /\ s[i + 1].t \in Nat /\ s[i + 1].kind # "detected"
    <3> DEFINE l == i + 1
    <3>1. l \in 1 .. n /\ i \in 0 .. n /\ l # n /\ l - 1 = i
      BY <2>2
    <3> HIDE DEF l
    <3>2. h[l] = Push(h[l - 1], s[l]) /\ s[l].t \in Nat /\ s[l].kind # "detected"
      BY <1>2, <1>8, <3>1
    <3>3. h[l] = Push(h[i], s[l]) /\ Sorted(h[i])
      BY <1>9, <3>1, <3>2
    <3> QED BY <3>2, <3>3 DEF l
  <2>4. \A k \in DOMAIN h[i] : h[i][k].kind # "detected"
    BY <1>11, <2>2
  <2>5. \A k \in DOMAIN h[i + 1] : h[i + 1][k] = s[i + 1] \/ \E j \in DOMAIN h[i] : h[i + 1][k] = h[i][j]
    BY <2>3, Pushed
  <2> QED BY <2>3, <2>4, <2>5
<1>12. \A i \in Nat : i \in P
  <2> HIDE DEF P
  <2> QED BY <1>10, <1>11, Induction
<1>13. n - 1 \in 0 .. n /\ n - 1 \in Nat /\ n - 1 < n /\ n \in 1 .. n /\ n \in 0 .. n
  BY <1>1
<1>14. \A k \in DOMAIN h[n - 1] : h[n - 1][k].kind # "detected"
  BY <1>12, <1>13
<1> DEFINE g == h[n - 1] q == StartQueue(traffic, c)
<1>15. q = Push(g, s[n]) /\ Sorted(g) /\ s[n].t \in Nat
  BY <1>2, <1>8, <1>9, <1>13
<1>16. q \in Seq(W)
  BY <1>8, <1>9, <1>13
<1> HIDE DEF g, q
<1>17. /\ Sorted(q) /\ \E i \in DOMAIN q : q[i] = s[n]
       /\ \A i, j \in DOMAIN q : q[i].kind = "detected" /\ q[j].kind = "detected" => i = j
  <2>1. \A i \in DOMAIN g : g[i].kind # "detected"
    BY <1>14 DEF g
  <2> QED BY <1>15, <2>1, Pushed
<1>18. \A i \in DOMAIN q : \E j \in DOMAIN s : q[i] = s[j]
  <2>1. \A i \in DOMAIN q : q[i] \in W
    <3> HIDE DEF W
    <3> QED BY <1>16
  <2> QED BY <2>1
<1>19. \A i \in DOMAIN q : q[i].t \in Nat /\ 0 <= q[i].t /\ q[i].t < Never /\ EventOk(c, 0, FALSE, LaunchRings, q[i])
  <2>1. \A j \in DOMAIN s : s[j].t \in Nat /\ s[j].t < Never /\ EventOk(c, 0, FALSE, LaunchRings, s[j])
    BY ScheduledOk DEF s
  <2>2. \A x \in Nat : 0 <= x
    OBVIOUS
  <2> HIDE DEF W, V, P
  <2>3. ASSUME NEW i \in DOMAIN q
        PROVE  q[i].t \in Nat /\ q[i].t < Never /\ EventOk(c, 0, FALSE, LaunchRings, q[i])
    <3>1. PICK j \in DOMAIN s : q[i] = s[j]
      BY <1>18
    <3> QED BY <2>1, <3>1
  <2> QED BY <2>2, <2>3
<1>20. QueueOk(c, 0, FALSE, LaunchRings, q)
  BY <1>1, <1>17, <1>19 DEF QueueOk, Sorted
<1> QED
  BY <1>20 DEF q

\* The network starts so.
LEMMA InitInvariant == Init => IInv
<1>1. SUFFICES ASSUME Init PROVE NetInv(0)
  BY DEF IInv
<1>2. /\ contacts \in Plans /\ compromise \in Compromises
      /\ nextFree = [i \in DOMAIN contacts |-> 0]
      /\ rings = LaunchRings /\ signer = NodeKey /\ switching = FALSE /\ deliveries = <<>>
  BY <1>1 DEF Init, LaunchRings
<1>3. PICK traffic \in Traffics : queue = StartQueue(traffic, compromise)
  BY <1>1 DEF Init
<1>4. 0 \in Nat /\ 0 < Never
  BY Times
<1>5. nextFree \in [DOMAIN contacts -> Nat]
  BY <1>2
<1>6. RingsOk(compromise, 0, switching, rings)
  <2>1. rings = [x \in Nodes |-> rings[x]] /\ \A x \in Nodes : rings[x] = LaunchRing
    BY <1>2 DEF LaunchRings
  <2> QED BY <1>2, <2>1 DEF RingsOk, RingOk
<1>7. SignersOk(compromise, 0, rings, signer)
  BY <1>2, NetworkAssumption DEF SignersOk
<1>8. QueueOk(compromise, 0, switching, rings, queue)
  BY <1>2, <1>3, StartQueueOk
<1>9. DeliveriesOk(compromise, 0, rings, deliveries)
  BY <1>2, ListFacts DEF DeliveriesOk
<1> QED
  BY <1>2, <1>4, <1>5, <1>6, <1>7, <1>8, <1>9 DEF NetInv

\* The events by their kinds.
LEMMA EventKinds ==
  ASSUME NEW c, NEW now, NEW sw, NEW R, NEW e, EventOk(c, now, sw, R, e)
  PROVE  /\ e.kind = "arrive" => ArriveOk(c, now, sw, R, e)
         /\ e.kind = "detected" => e = Event(c.detectAt, "detected")
<1>1. ArriveOk(c, now, sw, R, e) => e.kind = "arrive"
  <2>1. \A t, n, b, dst, prev, path : Arrive(t, n, b, dst, prev, path).kind = "arrive"
    BY DEF Arrive
  <2> QED BY <2>1 DEF ArriveOk
<1> QED
  BY <1>1, EventFields DEF EventOk

\* The rings stay good as time goes by.
LEMMA RingsStay ==
  ASSUME NEW c, NEW now \in Nat, NEW now2 \in Nat, now <= now2, NEW sw \in BOOLEAN, NEW R, RingsOk(c, now, sw, R)
  PROVE  RingsOk(c, now2, sw, R)
<1>1. \A n \in Nodes : RingOk(c, now, sw, R[n]) => RingOk(c, now2, sw, R[n])
  BY RingOkStays
<1>2. \A n \in GroundNodes : HeardBy(c, now, R[n]) => HeardBy(c, now2, R[n])
  BY DEF HeardBy
<1> QED
  BY <1>1, <1>2 DEF RingsOk

\* The invariant, part by part, at one time.
LEMMA InvariantParts ==
  ASSUME NEW now, NetInv(now)
  PROVE  /\ now \in Nat /\ now < Never
         /\ contacts \in Plans /\ compromise \in Compromises /\ Compromised(compromise)
         /\ nextFree \in [DOMAIN contacts -> Nat]
         /\ switching \in BOOLEAN /\ (switching => compromise.detectAt <= now)
         /\ RingsOk(compromise, now, switching, rings) /\ SignersOk(compromise, now, rings, signer)
         /\ QueueOk(compromise, now, switching, rings, queue) /\ DeliveriesOk(compromise, now, rings, deliveries)
BY InputFacts DEF NetInv

\* Copying the key keeps the invariant.
LEMMA CompromiseStep == ASSUME NEW now, NetInv(now), Compromise PROVE IInv'
<1> DEFINE c == compromise
<1> PICK t : t = Head(queue).t
  OBVIOUS
<1>1. queue # <<>> /\ Head(queue).kind = "stolen" /\ queue' = Tail(queue)
  BY DEF Compromise
<1>2. UNCHANGED <<contacts, compromise, nextFree, rings, signer, switching, deliveries>>
  BY DEF Compromise, inputs
<1>3. RingsGrow(c, t, rings, rings)
  BY DEF RingsGrow
<1>4. t \in Nat /\ now <= t /\ t < Never /\ QueueOk(c, t, switching, rings, Tail(queue))
  BY <1>1, <1>3, InvariantParts, QueueTail
<1>5. SignersOk(c, t, rings, signer) /\ DeliveriesOk(c, t, rings, deliveries) /\ RingsOk(c, t, switching, rings)
  BY <1>3, <1>4, InvariantParts, SignersStay, DeliveriesStay, RingsStay
<1>6. switching => c.detectAt <= t
  <2>1. now \in Nat /\ (switching => c.detectAt <= now) /\ c.detectAt \in Nat
    BY InvariantParts DEF Compromised
  <2> QED BY <1>4, <2>1
<1>7. NetInv(t)'
  BY <1>1, <1>2, <1>4, <1>5, <1>6, InvariantParts DEF NetInv
<1> QED
  BY <1>4, <1>7 DEF IInv

\* Finding the copy out keeps the invariant, and the rings of the ground grow.
LEMMA DetectStep ==
  ASSUME NEW now, NetInv(now), Detect
  PROVE  IInv' /\ \E t \in Nat : now <= t /\ RingsGrow(compromise, t, rings, rings')
<1> DEFINE c == compromise
<1> PICK t : t = Head(queue).t
  OBVIOUS
<1> DEFINE R2 == [n \in Nodes |-> IF n \in GroundNodes THEN Heard(c, t) ELSE rings[n]]
<1>1. queue # <<>> /\ Head(queue).kind = "detected" /\ queue' = Tail(queue) /\ switching' = TRUE
  BY DEF Detect
<1>2. UNCHANGED <<contacts, compromise, nextFree, signer, deliveries>>
  BY DEF Detect, inputs
<1>3. rings' = [n \in Nodes |-> IF n \in GroundNodes THEN Ingest(rings[n], News(t), t) ELSE rings[n]]
  BY DEF Detect
<1>4. RingsGrow(c, t, rings, rings)
  BY DEF RingsGrow
<1>5. t \in Nat /\ now <= t /\ t < Never /\ EventOk(c, now, switching, rings, Head(queue)) /\ ~switching
  BY <1>1, <1>4, InvariantParts, QueueTail
<1>6. t = c.detectAt
  BY <1>1, <1>5, EventKinds, EventFields
<1>7. \A n \in Nodes : rings[n] = LaunchRing
  BY <1>5, InvariantParts DEF RingsOk, RingOk
<1>8. News(t) = <<Revoked(c), Reissued(c)>>
  BY <1>6 DEF News, Revoked, Reissued
<1>9. Ingest(LaunchRing, News(t), t) = Heard(c, t)
  <2>1. LaunchAt <= t
    BY <1>6, InvariantParts, Times DEF Compromised
  <2> QED BY <1>5, <1>8, <2>1, FirstNews
<1>10. GroundNodes \subseteq Nodes
  BY NetworkAssumption
<1>11. rings' = R2
  <2>1. \A n \in GroundNodes : Ingest(rings[n], News(t), t) = Heard(c, t)
    BY <1>7, <1>9, <1>10
  <2> QED BY <1>3, <2>1
<1>12. RingsGrow(c, t, rings, R2)
  BY <1>7 DEF RingsGrow
<1>13. HeardBy(c, t, Heard(c, t))
  <2>1. c.detectAt <= t /\ t <= t
    BY <1>5, <1>6
  <2> QED BY <1>5, <2>1 DEF HeardBy
<1>14. RingsOk(c, t, TRUE, R2)
  <2>1. \A n \in Nodes : R2[n] = IF n \in GroundNodes THEN Heard(c, t) ELSE LaunchRing
    BY <1>7
  <2>2. R2 = [n \in Nodes |-> R2[n]]
    OBVIOUS
  <2> HIDE DEF R2
  <2> QED BY <1>10, <1>13, <2>1, <2>2 DEF RingsOk, RingOk
<1> HIDE DEF R2
<1>15. QueueOk(c, t, TRUE, R2, Tail(queue))
  BY <1>1, <1>5, <1>12, InvariantParts, QueueTail
<1>16. SignersOk(c, t, R2, signer) /\ DeliveriesOk(c, t, R2, deliveries)
  BY <1>5, <1>12, InvariantParts, SignersStay, DeliveriesStay
<1>17. NetInv(t)'
  <2>1. c.detectAt <= t
    BY <1>5, <1>6
  <2> QED BY <1>1, <1>2, <1>5, <1>11, <1>14, <1>15, <1>16, <2>1, InvariantParts DEF NetInv
<1>18. \E u \in Nat : now <= u /\ RingsGrow(c, u, rings, rings')
  BY <1>5, <1>11, <1>12
<1> QED
  BY <1>5, <1>17, <1>18 DEF IInv

\* The clearing keeps the invariant.
LEMMA ClearStep == ASSUME NEW now, NetInv(now), ClearPeriod PROVE NetInv(now)'
BY DEF ClearPeriod, NetInv, inputs

\* A step that changes nothing keeps the invariant.
LEMMA StutterStep == ASSUME NEW now, NetInv(now), UNCHANGED vars PROVE NetInv(now)'
BY DEF NetInv, vars, inputs

\* What a node knows and signs with once it has taken in what event e brings.
RingsAt(e) == [rings EXCEPT ![e.node] = RingAt(e)]
SignersAt(e) == [signer EXCEPT ![e.node] = SignerAt(e)]

Learnt(c, now, t, e) ==
  /\ t \in Nat /\ now <= t /\ t < Never /\ e.t = t
  /\ ArriveOk(c, now, switching, rings, e)
  /\ RingOk(c, t, switching, RingAt(e))
  /\ e.b.records = Carried(c) => HeardBy(c, t, RingAt(e))
  /\ RingsGrow(c, t, rings, RingsAt(e)) /\ RingsAt(e)[e.node] = RingAt(e)
  /\ RingsOk(c, t, switching, RingsAt(e)) /\ SignersOk(c, t, RingsAt(e), SignersAt(e))
  /\ QueueOk(c, t, switching, RingsAt(e), Tail(queue))
  /\ DeliveriesOk(c, t, RingsAt(e), deliveries)
  /\ KeyOk(c, e.node, SignerAt(e), t, HeardBy(c, t, RingAt(e)))
  /\ switching => c.detectAt <= t

\* What a node knows and signs with once it has taken in the records of a bundle.
LEMMA LearnFacts ==
  ASSUME NEW now, NetInv(now), queue # <<>>, Head(queue).kind = "arrive"
  PROVE  Learnt(compromise, now, Head(queue).t, Head(queue))
<1> DEFINE c == compromise e == Head(queue) t == e.t sw == switching n == e.node ring == RingAt(e)
           R2 == RingsAt(e) sig2 == SignersAt(e)
<1>1. /\ now \in Nat /\ now < Never
      /\ c \in Compromises /\ Compromised(c) /\ sw \in BOOLEAN /\ (sw => c.detectAt <= now)
      /\ RingsOk(c, now, sw, rings) /\ SignersOk(c, now, rings, signer)
      /\ QueueOk(c, now, sw, rings, queue) /\ DeliveriesOk(c, now, rings, deliveries)
  BY InvariantParts
<1>2. t \in Nat /\ now <= t /\ t < Never /\ EventOk(c, now, sw, rings, e)
  <2>1. RingsGrow(c, t, rings, rings)
    BY DEF RingsGrow
  <2> QED BY <1>1, <2>1, QueueTail
<1>3. ArriveOk(c, now, sw, rings, e)
  BY <1>2, EventKinds
<1>4. n \in Nodes /\ e.b.records \in {<<>>, Carried(c)} /\ (~sw => e.b.records = <<>>)
  BY <1>3 DEF ArriveOk, BundleOk
<1>5. Carried(c) # <<>>
  <2>1. Carried(c) = <<Revoked(c), Reissued(c)>> \/ Carried(c) = <<Revoked(c), Reissued(c), IssuerRecord(Home)>>
    BY CarriedCases DEF Known
  <2> QED BY <2>1
<1>6. RingOk(c, now, sw, rings[n])
  BY <1>1, <1>4 DEF RingsOk
<1>7. c.detectAt \in Nat /\ (sw => c.detectAt <= t)
  BY <1>1, <1>2 DEF Compromised
<1>8. /\ e.b.records = <<>> \/ HeardBy(c, now, rings[n]) => ring = rings[n]
      /\ e.b.records = Carried(c) /\ rings[n] = LaunchRing => ring = Heard(c, t)
  <2> DEFINE block == e.b.records rg == rings[n]
  <2>1. block = <<>> \/ (sw /\ block = Carried(c))
    BY <1>4
  <2>2. RingOk(c, now, sw, rg)
    BY <1>6
  <2> HIDE DEF block, rg, t
  <2>3. /\ block = <<>> \/ HeardBy(c, now, rg) => Ingest(rg, block, t) = rg
        /\ block = Carried(c) /\ rg = LaunchRing => Ingest(rg, block, t) = Heard(c, t)
    BY <1>1, <1>2, <2>1, <2>2, TakesIn
  <2> QED BY <2>3 DEF block, rg, t, RingAt
<1> HIDE DEF ring, t, n, R2, sig2, sw
<1>9. e.b.records = Carried(c) => sw
  BY <1>4, <1>5
<1>10. sw => HeardBy(c, t, Heard(c, t))
  BY <1>2, <1>7 DEF HeardBy
<1>11. HeardBy(c, now, rings[n]) => HeardBy(c, t, rings[n])
  BY <1>1, <1>2, <1>6, RingOkStays
<1>12. /\ RingOk(c, t, sw, ring) /\ (e.b.records = Carried(c) => HeardBy(c, t, ring))
       /\ ring = rings[n] \/ (rings[n] = LaunchRing /\ ring = Heard(c, t))
       /\ HeardBy(c, now, rings[n]) => HeardBy(c, t, ring)
  <2>1. CASE e.b.records = <<>>
    BY <1>5, <1>6, <1>8, <1>11, <2>1 DEF RingOk
  <2>2. CASE e.b.records = Carried(c) /\ rings[n] = LaunchRing
    <3>1. ~HeardBy(c, now, rings[n])
      BY <2>2, HeardApart DEF HeardBy
    <3> QED BY <1>8, <1>9, <1>10, <2>2, <3>1 DEF RingOk
  <2>3. CASE e.b.records = Carried(c) /\ rings[n] # LaunchRing
    BY <1>6, <1>8, <1>11, <2>3 DEF RingOk
  <2> QED BY <1>4, <2>1, <2>2, <2>3
<1>13. R2 = [x \in Nodes |-> IF x = n THEN ring ELSE rings[x]]
  <2>1. rings = [x \in Nodes |-> rings[x]]
    BY <1>1 DEF RingsOk
  <2>2. [rings EXCEPT ![n] = ring] = [x \in Nodes |-> IF x = n THEN ring ELSE rings[x]]
    BY <2>1
  <2> QED BY <2>2 DEF R2, RingsAt, n, ring
<1>14. R2[n] = ring /\ \A x \in Nodes : x # n => R2[x] = rings[x]
  BY <1>4, <1>13
<1>15. RingsGrow(c, t, rings, R2)
  BY <1>12, <1>14 DEF RingsGrow
<1>16. RingsOk(c, t, sw, R2)
  <2>1. RingsOk(c, t, sw, rings)
    BY <1>1, <1>2, RingsStay DEF sw
  <2>2. \A x \in Nodes : RingOk(c, t, sw, R2[x])
    BY <1>12, <1>14, <2>1 DEF RingsOk
  <2>3. ASSUME sw, NEW x \in GroundNodes PROVE HeardBy(c, t, R2[x])
    <3>1. x \in Nodes
      BY NetworkAssumption
    <3>2. HeardBy(c, now, rings[x])
      BY <1>1, <2>3 DEF RingsOk, sw
    <3>3. CASE x = n
      BY <1>12, <1>14, <3>2, <3>3
    <3>4. CASE x # n
      BY <1>14, <2>1, <2>3, <3>1, <3>4 DEF RingsOk
    <3> QED BY <3>3, <3>4
  <2>4. R2 = [x \in Nodes |-> R2[x]]
    <3>1. \A x \in Nodes : R2[x] = IF x = n THEN ring ELSE rings[x]
      BY <1>13
    <3> QED BY <1>13, <3>1
  <2> QED BY <2>2, <2>3, <2>4 DEF RingsOk
<1>17. SignersOk(c, t, R2, signer)
  BY <1>1, <1>2, <1>15, SignersStay
<1>18. LaunchRing # ring /\ sw => HeardBy(c, t, ring)
  BY <1>12 DEF RingOk
<1>19. SignerAt(e) = NodeKey[n] \/ (n = Victim /\ SignerAt(e) = NewKey /\ HeardBy(c, t, ring))
  <2>1. CASE n = Victim /\ sw /\ NewKey \in PubsFor(ring, Victim)
    <3>1. SignerAt(e) = NewKey
      BY <2>1 DEF SignerAt, n, sw, ring
    <3>2. ring # LaunchRing
      <4>1. SUFFICES ASSUME ring = LaunchRing PROVE FALSE
        OBVIOUS
      <4>2. RingOf(c, 0, FALSE, ring)
        BY <4>1 DEF RingOf
      <4>3. 0 \in Nat /\ 0 < Never /\ FALSE \in BOOLEAN
        BY Times
      <4>4. NewKey \in PubsFor(ring, Victim) <=> FALSE
        BY <1>1, <4>2, <4>3, MaySign
      <4> QED BY <2>1, <4>4
    <3> QED BY <1>18, <2>1, <3>1, <3>2
  <2>2. CASE ~(n = Victim /\ sw /\ NewKey \in PubsFor(ring, Victim))
    <3>1. SignerAt(e) = signer[n]
      BY <2>2 DEF SignerAt, n, sw, ring
    <3>2. signer[n] = NodeKey[n] \/ (n = Victim /\ signer[n] = NewKey /\ HeardBy(c, t, R2[n]))
      BY <1>4, <1>17 DEF SignersOk
    <3> QED BY <1>14, <3>1, <3>2
  <2> QED BY <2>1, <2>2
<1>20. SignersOk(c, t, R2, sig2)
  <2>1. signer = [x \in Nodes |-> signer[x]]
    BY <1>17 DEF SignersOk
  <2>2. [signer EXCEPT ![n] = SignerAt(e)] = [x \in Nodes |-> IF x = n THEN SignerAt(e) ELSE signer[x]]
    BY <2>1
  <2>3. sig2 = [x \in Nodes |-> IF x = n THEN SignerAt(e) ELSE signer[x]]
    BY <2>2 DEF sig2, SignersAt, n
  <2>4. sig2 = [x \in Nodes |-> sig2[x]] /\ \A x \in Nodes : sig2[x] = IF x = n THEN SignerAt(e) ELSE signer[x]
    BY <2>3
  <2>5. ASSUME NEW x \in Nodes
        PROVE  sig2[x] = NodeKey[x] \/ (x = Victim /\ sig2[x] = NewKey /\ HeardBy(c, t, R2[x]))
    BY <1>14, <1>17, <1>19, <2>4 DEF SignersOk
  <2> QED BY <2>4, <2>5 DEF SignersOk
<1>21. KeyOk(c, n, SignerAt(e), t, HeardBy(c, t, ring))
  <2>1. HeardBy(c, t, ring) => c.detectAt <= t
    BY <1>2, <1>7 DEF HeardBy
  <2> QED BY <1>19, <2>1 DEF KeyOk
<1>22. QueueOk(c, t, sw, R2, Tail(queue))
  BY <1>1, <1>15, QueueTail DEF t, sw
<1>23. DeliveriesOk(c, t, R2, deliveries)
  BY <1>1, <1>2, <1>15, DeliveriesStay
<1> QED
  BY <1>2, <1>3, <1>7, <1>12, <1>14, <1>15, <1>16, <1>20, <1>21, <1>22, <1>23 DEF Learnt, t, n, sw, ring, R2, sig2

\* Bundle s is bundle b with one more receipt, r, and its version set.
Stamped(b, s, r, key, eid, opts) ==
  /\ IsBundle(s) /\ s.version = 2 /\ s.receipts = Append(b.receipts, r) /\ s.records = b.records
  /\ Identity(s) = Identity(b) /\ s.payload = b.payload /\ s.bytes = b.bytes
  /\ s.source = b.source /\ s.created = b.created /\ s.fragment = b.fragment
  /\ r.this = eid /\ r.key = key /\ r.bundle = Identity(b) /\ r.payload = b.payload
  /\ r.receivedAt = opts.receivedAt /\ r.forwardedAt = opts.forwardedAt
  /\ r.chain = <<ChainDigest(b.receipts)>>

\* A stamp adds a receipt to a bundle, and nothing else.
LEMMA StampFields ==
  ASSUME NEW b, IsBundle(b), NEW key, NEW eid, NEW opts, opts.chain
  PROVE  Stamped(b, Stamp(b, key, eid, opts), Receipt(b, key, eid, opts), key, eid, opts)
<1> DEFINE s == Stamp(b, key, eid, opts)
           r == Receipt(b, key, eid, opts)
           w == [b EXCEPT !.version = 2]
<1>1. PICK f1, f2, f3, f4, f5, f6, f7, f8 :
        b = [source |-> f1, created |-> f2, fragment |-> <<>>, payload |-> f3, bytes |-> f4,
             version |-> f5, receipts |-> f6, records |-> f7, hopCount |-> f8, previous |-> NoNode]
  BY Zenon DEF IsBundle
<1>2. /\ b.source = f1 /\ b.created = f2 /\ b.fragment = <<>> /\ b.payload = f3 /\ b.bytes = f4
      /\ b.receipts = f6 /\ b.records = f7 /\ b.hopCount = f8
  BY <1>1
<1>3. /\ r.this = eid /\ r.key = key /\ r.bundle = Identity(b) /\ r.payload = b.payload
      /\ r.receivedAt = opts.receivedAt /\ r.forwardedAt = opts.forwardedAt
      /\ r.chain = <<ChainDigest(b.receipts)>>
  BY DEF Receipt
<1> HIDE DEF r
<1>4. w = [source |-> f1, created |-> f2, fragment |-> <<>>, payload |-> f3, bytes |-> f4,
           version |-> 2, receipts |-> f6, records |-> f7, hopCount |-> f8, previous |-> NoNode]
  BY <1>1
<1>5. s = [w EXCEPT !.receipts = Append(b.receipts, r)]
  <2>1. s = [b EXCEPT !.version = 2, !.receipts = Append(@, r)]
    BY DEF Stamp, r
  <2>2. [b EXCEPT !.version = 2, !.receipts = Append(@, r)] = [b EXCEPT !.version = 2, !.receipts = Append(b.receipts, r)]
    OBVIOUS
  <2>3. [b EXCEPT !.version = 2, !.receipts = Append(b.receipts, r)] = [w EXCEPT !.receipts = Append(b.receipts, r)]
    BY Zenon
  <2> HIDE DEF s, w
  <2> QED BY Zenon, <2>1, <2>2, <2>3
<1> HIDE DEF s, w
<1>6. s = [source |-> f1, created |-> f2, fragment |-> <<>>, payload |-> f3, bytes |-> f4,
           version |-> 2, receipts |-> Append(b.receipts, r), records |-> f7, hopCount |-> f8, previous |-> NoNode]
  BY <1>4, <1>5
<1>7. /\ s.source = b.source /\ s.created = b.created /\ s.fragment = <<>> /\ s.payload = b.payload
      /\ s.bytes = b.bytes /\ s.version = 2 /\ s.receipts = Append(b.receipts, r) /\ s.records = b.records
  BY <1>2, <1>6
<1>8. Identity(s) = Identity(b)
  BY <1>2, <1>7 DEF Identity, Whole
<1>9. IsBundle(s)
  BY <1>6 DEF IsBundle
<1>10. s.fragment = b.fragment
  BY <1>2, <1>7
<1>11. Stamped(b, s, r, key, eid, opts)
  BY <1>3, <1>7, <1>8, <1>9, <1>10 DEF Stamped
<1> QED
  BY <1>11 DEF r, s

\* The stamp of a custodian keeps a bundle good.
LEMMA StampFacts ==
  ASSUME NEW c, NEW b, BundleOk(c, b), NEW key, NEW eid, NEW opts, opts.chain
  PROVE  LET s == Stamp(b, key, eid, opts)
             r == Receipt(b, key, eid, opts)
         IN  /\ BundleOk(c, s) /\ s.version = 2 /\ s.receipts = Append(b.receipts, r) /\ s.records = b.records
             /\ Identity(s) = Identity(b) /\ s.payload = b.payload /\ s.bytes = b.bytes
             /\ s.source = b.source /\ s.created = b.created
             /\ r.this = eid /\ r.key = key /\ r.bundle = Identity(b) /\ r.payload = b.payload
             /\ r.receivedAt = opts.receivedAt /\ r.forwardedAt = opts.forwardedAt
             /\ r.chain = <<ChainDigest(b.receipts)>>
<1> DEFINE s == Stamp(b, key, eid, opts)
           r == Receipt(b, key, eid, opts)
<1>1. b.source \in Nodes /\ b.created # "never sent" /\ b.bytes \in Nat \ {0} /\ b.records \in {<<>>, Carried(c)}
      /\ IsBundle(b)
  BY DEF BundleOk
<1>2. Stamped(b, s, r, key, eid, opts)
  BY <1>1, StampFields
<1> HIDE DEF s, r
<1>3. s.source \in Nodes /\ s.created # "never sent" /\ s.bytes \in Nat \ {0} /\ s.records \in {<<>>, Carried(c)}
  BY Zenon, <1>1, <1>2 DEF Stamped
<1>4. BundleOk(c, s)
  BY <1>2, <1>3 DEF BundleOk, Stamped
<1> QED
  BY <1>2, <1>4 DEF r, s, Stamped

\* The beginnings of a list that has grown.
LEMMA Beginnings ==
  ASSUME NEW x, IsList(x), NEW r
  PROVE  /\ \A j \in 1 .. Len(x) : SubSeq(Append(x, r), 1, j - 1) = SubSeq(x, 1, j - 1)
         /\ SubSeq(Append(x, r), 1, Len(x)) = x
<1>1. PICK U : x \in Seq(U)
  BY DEF IsList
<1> DEFINE W == U \cup {r} y == Append(x, r)
<1>2. x \in Seq(W) /\ r \in W
  BY <1>1
<1>3. y \in Seq(W) /\ Len(y) = Len(x) + 1 /\ \A i \in 1 .. Len(x) : y[i] = x[i]
  <2> HIDE DEF W
  <2> QED BY <1>2, AppendProperties
<1>4. Len(x) \in Nat
  BY <1>1
<1> HIDE DEF y, W
<1>5. \A j \in 0 .. Len(x) : SubSeq(y, 1, j) = SubSeq(x, 1, j)
  <2>1. ASSUME NEW j \in 0 .. Len(x) PROVE SubSeq(y, 1, j) = SubSeq(x, 1, j)
    <3>1. /\ j \in Nat /\ \A i \in 1 .. j : y[i] \in W /\ x[i] \in W /\ y[i] = x[i]
          /\ j - 1 + 1 = j
      BY <1>2, <1>3, <1>4
    <3>2. ASSUME NEW z, \A i \in 1 .. j : z[i] \in W
          PROVE  /\ SubSeq(z, 1, j) \in Seq(W) /\ Len(SubSeq(z, 1, j)) = j
                 /\ \A i \in 1 .. j : SubSeq(z, 1, j)[i] = z[i]
      <4>1. 1 \in Int /\ j \in Int
        BY <3>1
      <4>2. /\ SubSeq(z, 1, j) \in Seq(W)
            /\ Len(SubSeq(z, 1, j)) = IF 1 <= j THEN j - 1 + 1 ELSE 0
            /\ \A i \in 1 .. j - 1 + 1 : SubSeq(z, 1, j)[i] = z[1 + i - 1]
        BY <3>2, <4>1, SubSeqProperties
      <4> QED BY <3>1, <4>2
    <3> QED BY <3>1, <3>2
  <2> QED BY <2>1
<1>6. SubSeq(x, 1, Len(x)) = x
  BY <1>1
<1>7. \A j \in 1 .. Len(x) : j - 1 \in 0 .. Len(x)
  BY <1>4
<1>8. Len(x) \in 0 .. Len(x)
  BY <1>4
<1> QED
  BY <1>5, <1>6, <1>7, <1>8 DEF y

\* A custodian's hop comes with its receipt.
LEMMA ReceiptsGrow ==
  ASSUME NEW b, NEW path, IsList(path), ReceiptsOk(b, path), NEW s, NEW r, NEW st,
         s.receipts = Append(b.receipts, r), Identity(s) = Identity(b), s.payload = b.payload,
         r.bundle = Identity(b), r.payload = b.payload, r.chain = <<ChainDigest(b.receipts)>>, OfStep(r, st)
  PROVE  ReceiptsOk(s, Append(path, st)) /\ s.receipts # <<>>
<1> DEFINE x == b.receipts y == s.receipts p2 == Append(path, st) n == Len(x) m == Len(path)
<1>1. /\ IsList(x) /\ n <= m
      /\ \A j \in DOMAIN x : /\ x[j].bundle = Identity(b) /\ x[j].payload = b.payload
                             /\ x[j].chain = <<ChainDigest(SubSeq(x, 1, j - 1))>>
                             /\ \E k \in DOMAIN path : OfStep(x[j], path[k])
      /\ \A k \in DOMAIN path : path[k].signed => \E j \in DOMAIN x : OfStep(x[j], path[k])
  BY DEF ReceiptsOk
<1>2. n \in Nat /\ DOMAIN x = 1 .. n /\ m \in Nat /\ DOMAIN path = 1 .. m
  BY <1>1, ListFacts
<1>3. /\ IsList(y) /\ Len(y) = n + 1 /\ DOMAIN y = 1 .. n + 1
      /\ (\A i \in 1 .. n : y[i] = x[i]) /\ y[n + 1] = r
  BY <1>1, ListAppend, ListFacts
<1>4. /\ IsList(p2) /\ Len(p2) = m + 1 /\ DOMAIN p2 = 1 .. m + 1
      /\ (\A i \in 1 .. m : p2[i] = path[i]) /\ p2[m + 1] = st
  BY ListAppend, ListFacts
<1>5. /\ \A j \in 1 .. n : SubSeq(y, 1, j - 1) = SubSeq(x, 1, j - 1)
      /\ SubSeq(y, 1, n) = x
  BY <1>1, Beginnings, SMTT(60)
<1> HIDE DEF x, y, p2, n, m
<1>6. /\ \A j \in 1 .. n + 1 : j \in 1 .. n \/ j = n + 1
      /\ \A k \in 1 .. m + 1 : k \in 1 .. m \/ k = m + 1
      /\ n + 1 \in 1 .. n + 1 /\ m + 1 \in 1 .. m + 1 /\ n + 1 - 1 = n /\ n + 1 <= m + 1 /\ n + 1 # 0
      /\ (\A j \in 1 .. n : j \in 1 .. n + 1) /\ (\A k \in 1 .. m : k \in 1 .. m + 1)
  BY <1>1, <1>2
<1>7. ASSUME NEW j \in 1 .. n + 1
      PROVE  /\ y[j].bundle = Identity(s) /\ y[j].payload = s.payload
             /\ y[j].chain = <<ChainDigest(SubSeq(y, 1, j - 1))>>
             /\ \E k \in DOMAIN p2 : OfStep(y[j], p2[k])
  <2>1. CASE j \in 1 .. n
    <3>1. PICK k \in 1 .. m : OfStep(x[j], path[k])
      BY <1>1, <1>2, <2>1
    <3>2. k \in DOMAIN p2 /\ OfStep(y[j], p2[k])
      BY <1>3, <1>4, <1>6, <2>1, <3>1
    <3>3. y[j] = x[j] /\ SubSeq(y, 1, j - 1) = SubSeq(x, 1, j - 1)
      BY <1>3, <1>5, <2>1
    <3> QED BY <1>1, <1>2, <2>1, <3>2, <3>3
  <2>2. CASE j = n + 1
    <3>0. j - 1 = n
      BY <1>2, <2>2
    <3>1. y[j] = r /\ SubSeq(y, 1, j - 1) = x /\ p2[m + 1] = st /\ m + 1 \in DOMAIN p2
      BY <1>3, <1>4, <1>5, <1>6, <2>2, <3>0
    <3> QED BY <3>1 DEF x
  <2> QED BY <1>6, <2>1, <2>2
<1>8. ASSUME NEW k \in 1 .. m + 1, p2[k].signed PROVE \E j \in DOMAIN y : OfStep(y[j], p2[k])
  <2>1. CASE k \in 1 .. m
    <3>1. PICK j \in 1 .. n : OfStep(x[j], path[k])
      BY <1>1, <1>2, <1>4, <1>8, <2>1
    <3> QED BY <1>3, <1>4, <1>6, <2>1, <3>1
  <2>2. CASE k = m + 1
    BY <1>3, <1>4, <1>6, <2>2
  <2> QED BY <1>6, <2>1, <2>2
<1>9. Len(y) <= Len(p2) /\ y # <<>>
  BY <1>3, <1>4, <1>6, <1>2
<1> QED
  BY <1>3, <1>4, <1>7, <1>8, <1>9 DEF ReceiptsOk, y, p2

\* A hop without a signature brings none.
LEMMA ReceiptsStay ==
  ASSUME NEW b, NEW path, IsList(path), ReceiptsOk(b, path), NEW s, NEW st, ~st.signed,
         s.receipts = b.receipts, Identity(s) = Identity(b), s.payload = b.payload
  PROVE  ReceiptsOk(s, Append(path, st))
<1> DEFINE x == b.receipts p2 == Append(path, st) m == Len(path)
<1>1. /\ IsList(x) /\ Len(x) <= m
      /\ \A j \in DOMAIN x : /\ x[j].bundle = Identity(b) /\ x[j].payload = b.payload
                             /\ x[j].chain = <<ChainDigest(SubSeq(x, 1, j - 1))>>
                             /\ \E k \in DOMAIN path : OfStep(x[j], path[k])
      /\ \A k \in DOMAIN path : path[k].signed => \E j \in DOMAIN x : OfStep(x[j], path[k])
  BY DEF ReceiptsOk
<1>2. Len(x) \in Nat /\ m \in Nat /\ DOMAIN path = 1 .. m
  BY <1>1, ListFacts
<1>3. /\ IsList(p2) /\ Len(p2) = m + 1 /\ DOMAIN p2 = 1 .. m + 1
      /\ (\A i \in 1 .. m : p2[i] = path[i]) /\ p2[m + 1] = st
  BY ListAppend, ListFacts
<1> HIDE DEF x, p2, m
<1>4. /\ \A k \in 1 .. m + 1 : k \in 1 .. m \/ k = m + 1
      /\ \A k \in 1 .. m : k \in 1 .. m + 1
      /\ Len(x) <= m + 1
  BY <1>1, <1>2
<1>5. \A j \in DOMAIN x : \E k \in DOMAIN p2 : OfStep(x[j], p2[k])
  <2>1. SUFFICES ASSUME NEW j \in DOMAIN x PROVE \E k \in DOMAIN p2 : OfStep(x[j], p2[k])
    OBVIOUS
  <2>2. PICK k \in 1 .. m : OfStep(x[j], path[k])
    BY <1>1, <1>2
  <2> QED BY <1>3, <1>4, <2>2
<1>6. \A k \in DOMAIN p2 : p2[k].signed => \E j \in DOMAIN x : OfStep(x[j], p2[k])
  <2>1. SUFFICES ASSUME NEW k \in 1 .. m + 1, p2[k].signed PROVE \E j \in DOMAIN x : OfStep(x[j], p2[k])
    BY <1>3
  <2>2. k \in 1 .. m /\ p2[k] = path[k]
    BY <1>3, <1>4, <2>1
  <2> QED BY <1>1, <1>2, <2>1, <2>2
<1> QED
  BY <1>1, <1>3, <1>4, <1>5, <1>6 DEF ReceiptsOk, x, p2

\* A node's hop of event e joins the bundle's path: what it knew rides along.
LEMMA HopPath ==
  ASSUME NEW c, Compromised(c), NEW now \in Nat, NEW e, Learnt(c, now, e.t, e),
         NEW depart \in Nat, e.t <= depart, NEW until \in Nat, depart <= until,
         NEW news \in BOOLEAN, e.b.records = Carried(c) => news,
         e.node \in Custodians /\ HeardBy(c, e.t, RingAt(e)) => news
  PROVE  /\ PathOk(c, e.t, until, Append(e.path, Step(e, depart)), news)
         /\ NewsRode(c, RingsAt(e), Append(e.path, Step(e, depart)), news)
         /\ Len(Append(e.path, Step(e, depart))) = Len(e.path) + 1
<1> DEFINE t == e.t st == Step(e, depart) old == (e.b.records = Carried(c)) p == e.path p2 == Append(p, st) R2 == RingsAt(e)
<1>1. /\ t \in Nat /\ now <= t /\ t < Never
      /\ ArriveOk(c, now, switching, rings, e)
      /\ RingsGrow(c, t, rings, R2) /\ R2[e.node] = RingAt(e)
      /\ KeyOk(c, e.node, SignerAt(e), t, HeardBy(c, t, RingAt(e)))
  BY DEF Learnt
<1>2. t \in Span /\ e.node \in Nodes /\ PathOk(c, now, t, p, old) /\ NewsRode(c, rings, p, old)
  BY <1>1 DEF ArriveOk
<1>3. NewsRode(c, R2, p, news) /\ PathOk(c, t, t, p, news)
  <2> HIDE DEF old, R2, t
  <2>1. NewsRode(c, R2, p, news)
    BY <1>1, <1>2, NewsStays DEF old
  <2>2. PathOk(c, t, t, p, news)
    BY <1>1, <1>2, PathStays DEF old
  <2> QED BY <2>1, <2>2
<1>4. StepOk(c, t, until, st, news)
  <2>1. st.node = e.node /\ st.arrive = t /\ st.depart = depart /\ st.signed = (e.node \in Custodians) /\ st.key = SignerAt(e)
    BY DEF Step
  <2>2. e.node \in Custodians => KeyOk(c, e.node, SignerAt(e), depart, news)
    <3>1. c.detectAt \in Nat
      BY DEF Compromised
    <3> QED BY <1>1, <3>1 DEF KeyOk
  <2> HIDE DEF st, t
  <2>3. t <= t
    BY <1>1
  <2> QED BY <1>1, <1>2, <2>1, <2>2, <2>3 DEF StepOk, t
<1>5. /\ IsList(p) /\ IsList(p2) /\ Len(p) \in Nat /\ Len(p2) = Len(p) + 1 /\ DOMAIN p = 1 .. Len(p) /\ DOMAIN p2 = 1 .. Len(p2)
      /\ (\A i \in 1 .. Len(p) : p2[i] = p[i]) /\ p2[Len(p) + 1] = st
  BY <1>2, ListAppend, ListFacts DEF PathOk
<1> HIDE DEF p2, st, t
<1>6. \A k \in DOMAIN p2 : k \in DOMAIN p \/ k = Len(p) + 1
  BY <1>5
<1>7. PathOk(c, t, until, p2, news)
  <2>1. ASSUME NEW k \in DOMAIN p PROVE StepOk(c, t, until, p[k], news)
    <3>1. StepOk(c, t, t, p[k], news)
      BY <1>3, <2>1 DEF PathOk
    <3>2. t <= until
      BY <1>1 DEF t
    <3>3. p[k].depart \in Nat /\ p[k].depart <= t
      BY <3>1 DEF StepOk
    <3>4. p[k].depart <= until
      BY <1>1, <3>2, <3>3
    <3> QED BY <3>1, <3>4 DEF StepOk
  <2>2. \A k \in DOMAIN p2 : StepOk(c, t, until, p2[k], news)
    BY <1>4, <1>5, <1>6, <2>1
  <2> QED BY <1>5, <2>2 DEF PathOk
<1>8. NewsRode(c, R2, p2, news)
  <2>1. ASSUME NEW k \in DOMAIN p2, p2[k].signed, HeardBy(c, p2[k].arrive - 1, R2[p2[k].node]) PROVE news
    <3>1. CASE k \in DOMAIN p
      BY <1>3, <1>5, <2>1, <3>1 DEF NewsRode
    <3>2. CASE k = Len(p) + 1
      <4>1. p2[k].arrive = t /\ p2[k].node = e.node /\ e.node \in Custodians
        <5>1. st.arrive = t /\ st.node = e.node /\ st.signed = (e.node \in Custodians)
          BY DEF st, Step, t
        <5> QED BY <1>5, <2>1, <3>2, <5>1
      <4>2. HeardBy(c, t - 1, R2[e.node])
        BY <2>1, <4>1
      <4>3. HeardBy(c, t, RingAt(e))
        <5>1. PICK s \in Nat : c.detectAt <= s /\ s <= t - 1 /\ R2[e.node] = Heard(c, s)
          BY <4>2 DEF HeardBy
        <5>2. s <= t
          BY <1>1, <5>1 DEF t
        <5> QED BY <1>1, <5>1, <5>2 DEF HeardBy
      <4> QED BY <4>1, <4>3 DEF t
    <3> QED BY <1>6, <2>1, <3>1, <3>2
  <2> QED BY <2>1 DEF NewsRode
<1> QED
  BY <1>5, <1>7, <1>8 DEF p2, st, t

\* Giving a bundle up changes only what the node knows.
LEMMA StrandStep == ASSUME NEW now, NetInv(now), Strand PROVE IInv'
<1> DEFINE c == compromise
<1> PICK e : e = Head(queue)
  OBVIOUS
<1> PICK t : t = e.t
  OBVIOUS
<1>1. queue # <<>> /\ e.kind = "arrive" /\ queue' = Tail(queue)
  BY DEF Strand
<1>2. UNCHANGED <<contacts, compromise, nextFree, switching, deliveries>>
  BY DEF Strand, inputs
<1>3. rings' = RingsAt(e) /\ signer' = SignersAt(e)
  BY DEF Strand, Learn, RingsAt, SignersAt
<1>4. Learnt(c, now, t, e)
  BY <1>1, LearnFacts
<1>5. /\ t \in Nat /\ t < Never /\ (switching => c.detectAt <= t)
      /\ RingsOk(c, t, switching, RingsAt(e)) /\ SignersOk(c, t, RingsAt(e), SignersAt(e))
      /\ QueueOk(c, t, switching, RingsAt(e), Tail(queue))
      /\ DeliveriesOk(c, t, RingsAt(e), deliveries)
  BY <1>4 DEF Learnt
<1>6. NetInv(t)'
  BY <1>1, <1>2, <1>3, <1>5, InvariantParts DEF NetInv
<1> QED
  BY <1>5, <1>6 DEF IInv

\* The destination stamps the bundle: what it then holds is a delivery.
LEMMA DeliverStep == ASSUME NEW now, NetInv(now), Deliver PROVE IInv'
<1> DEFINE c == compromise
<1> PICK e : e = Head(queue)
  OBVIOUS
<1> PICK t : t = e.t
  OBVIOUS
<1> DEFINE opts == [Opts(e, e.t) EXCEPT !.hopsReleased = e.b.hopCount]
           b == Stamp(e.b, SignerAt(e), e.node, opts)
           st == Step(e, e.t)
           news == HeardBy(c, t, RingAt(e))
           R2 == RingsAt(e)
<1>1. queue # <<>> /\ e.kind = "arrive" /\ queue' = Tail(queue) /\ e.node = e.dst
  BY DEF Deliver
<1>2. UNCHANGED <<contacts, compromise, nextFree, switching>>
  BY DEF Deliver, inputs
<1>3. rings' = R2 /\ signer' = SignersAt(e)
  BY DEF Deliver, Learn, RingsAt, SignersAt
<1>4. Learnt(c, now, t, e)
  BY <1>1, LearnFacts
<1>5. /\ t \in Nat /\ t < Never /\ (switching => c.detectAt <= t) /\ now <= t
      /\ RingsOk(c, t, switching, R2) /\ SignersOk(c, t, R2, SignersAt(e))
      /\ QueueOk(c, t, switching, R2, Tail(queue))
      /\ DeliveriesOk(c, t, R2, deliveries)
      /\ ArriveOk(c, now, switching, rings, e) /\ R2[e.node] = RingAt(e)
      /\ (e.b.records = Carried(c) => news)
  BY <1>4 DEF Learnt
<1>6. /\ t \in Span /\ e.node \in Custodians /\ BundleOk(c, e.b) /\ ReceiptsOk(e.b, e.path)
      /\ Len(e.path) <= MaxPath + 1 /\ IsList(e.path)
  BY <1>1, <1>5 DEF ArriveOk, PathOk
<1>7. PICK d : /\ deliveries' = Append(deliveries, d)
               /\ d.b = b /\ d.dst = e.dst /\ d.path = Append(e.path, st) /\ d.deliveredAt = t
  <2>1. deliveries' = Append(deliveries,
              [b |-> b, dst |-> e.dst, path |-> Append(e.path, st), deliveredAt |-> e.t,
               atDest |-> Verify(b, RingAt(e), e.t, b.source, e.node, <<>>)])
    BY <1>6 DEF Deliver
  <2> HIDE DEF b, st
  <2>2. \A v : LET d == [b |-> b, dst |-> e.dst, path |-> Append(e.path, st), deliveredAt |-> e.t, atDest |-> v]
               IN  d.b = b /\ d.dst = e.dst /\ d.path = Append(e.path, st) /\ d.deliveredAt = t
    OBVIOUS
  <2> QED BY <2>1, <2>2
<1>8. opts.chain /\ opts.receivedAt = t /\ opts.forwardedAt = t
  BY DEF Opts
<1> HIDE DEF opts, news
<1>9. /\ PathOk(c, t, t, d.path, news) /\ NewsRode(c, R2, d.path, news) /\ Len(d.path) = Len(e.path) + 1
  <2>1. news \in BOOLEAN /\ t <= t /\ Compromised(c) /\ now \in Nat
    BY <1>5, InvariantParts DEF news, HeardBy
  <2>2. Learnt(c, now, e.t, e) /\ e.t <= t
    BY <1>4, <2>1
  <2>3. (e.b.records = Carried(c) => news) /\ (e.node \in Custodians /\ HeardBy(c, e.t, RingAt(e)) => news)
    BY <1>5 DEF news
  <2> HIDE DEF R2, st, c
  <2>4. /\ PathOk(c, e.t, t, Append(e.path, Step(e, t)), news)
        /\ NewsRode(c, RingsAt(e), Append(e.path, Step(e, t)), news)
        /\ Len(Append(e.path, Step(e, t))) = Len(e.path) + 1
    BY <1>5, <2>1, <2>2, <2>3, HopPath
  <2> QED BY <1>7, <2>4 DEF R2, st
<1>10. PICK r : /\ BundleOk(c, b) /\ b.version = 2 /\ b.receipts = Append(e.b.receipts, r)
                /\ Identity(b) = Identity(e.b) /\ b.payload = e.b.payload
                /\ r.this = e.node /\ r.key = SignerAt(e) /\ r.bundle = Identity(e.b) /\ r.payload = e.b.payload
                /\ r.receivedAt = t /\ r.forwardedAt = t /\ r.chain = <<ChainDigest(e.b.receipts)>>
  <2> DEFINE x == Receipt(e.b, SignerAt(e), e.node, opts)
  <2>1. /\ BundleOk(c, b) /\ b.version = 2 /\ b.receipts = Append(e.b.receipts, x)
        /\ Identity(b) = Identity(e.b) /\ b.payload = e.b.payload
        /\ x.this = e.node /\ x.key = SignerAt(e) /\ x.bundle = Identity(e.b) /\ x.payload = e.b.payload
        /\ x.receivedAt = opts.receivedAt /\ x.forwardedAt = opts.forwardedAt
        /\ x.chain = <<ChainDigest(e.b.receipts)>>
    BY <1>6, <1>8, StampFacts
  <2> HIDE DEF b, x
  <2> QED BY <1>8, <2>1
<1> HIDE DEF b
<1>11. OfStep(r, st)
  <2>1. st.node = e.node /\ st.arrive = t /\ st.depart = t /\ st.signed = (e.node \in Custodians) /\ st.key = SignerAt(e)
    BY DEF Step
  <2> HIDE DEF st
  <2> QED BY <1>6, <1>10, <2>1 DEF OfStep
<1>12. ReceiptsOk(b, d.path) /\ b.receipts # <<>>
  <2> HIDE DEF st
  <2>1. ReceiptsOk(b, Append(e.path, st)) /\ b.receipts # <<>>
    BY <1>6, <1>10, <1>11, ReceiptsGrow
  <2> QED BY <1>7, <2>1
<1> HIDE DEF st, R2
<1>13. DeliveryOk(c, t, R2, d)
  <2>1. HeardBy(c, d.deliveredAt, R2[d.dst]) = news
    BY <1>1, <1>5, <1>7 DEF news
  <2>2. Len(e.path) \in Nat /\ MaxPath \in Nat
    BY <1>6, ListFacts, NetworkAssumption
  <2>3. Len(d.path) <= MaxPath + 2 /\ t <= t
    BY <1>5, <1>6, <1>9, <2>2
  <2>4. d.dst = e.node /\ d.deliveredAt = t /\ d.b = b
    BY <1>1, <1>7
  <2> HIDE DEF c
  <2> QED BY <1>6, <1>9, <1>10, <1>12, <2>1, <2>3, <2>4 DEF DeliveryOk
<1>14. DeliveriesOk(c, t, R2, Append(deliveries, d))
  <2>1. IsList(deliveries) /\ \A i \in DOMAIN deliveries : DeliveryOk(c, t, R2, deliveries[i])
    BY <1>5 DEF DeliveriesOk
  <2> DEFINE ds == Append(deliveries, d) n == Len(deliveries)
  <2>2. /\ IsList(ds) /\ n \in Nat /\ DOMAIN ds = 1 .. n + 1 /\ DOMAIN deliveries = 1 .. n
        /\ (\A i \in 1 .. n : ds[i] = deliveries[i]) /\ ds[n + 1] = d
    BY <2>1, ListAppend, ListFacts
  <2> HIDE DEF ds, n
  <2>3. \A i \in 1 .. n + 1 : i \in 1 .. n \/ i = n + 1
    BY <2>2
  <2>4. \A i \in DOMAIN ds : DeliveryOk(c, t, R2, ds[i])
    BY <1>13, <2>1, <2>2, <2>3
  <2> QED BY <2>2, <2>4 DEF DeliveriesOk, ds
<1>15. NetInv(t)'
  BY <1>1, <1>2, <1>3, <1>5, <1>7, <1>14, InvariantParts DEF NetInv
<1> QED
  BY <1>5, <1>15 DEF IInv

\* Multiplication and rounded division over the naturals.
LEMMA Multiples ==
  /\ \A z, x, y \in Nat : x <= y => z * x <= z * y
  /\ \A z, x \in Nat : z * x \in Nat /\ z * (x + 1) = z * x + z
BY SMT

\* The quotient of numbers, between its bounds.
LEMMA Quotient ==
  ASSUME NEW n \in Nat, NEW r \in Nat, r # 0
  PROVE  /\ n \div r \in Nat /\ r * (n \div r) <= n /\ n < r * (n \div r) + r
         /\ \A q \in Nat : n < r * q + r => n \div r <= q
<1>1. n \div r \in Nat /\ r * (n \div r) <= n /\ n < r * (n \div r) + r
  OBVIOUS
<1>2. ASSUME NEW q \in Nat, n < r * q + r PROVE n \div r <= q
  <2> DEFINE m == n \div r
  <2>1. m \in Nat /\ r * m < r * q + r
    BY <1>1, <1>2, Multiples
  <2> HIDE DEF m
  <2>2. SUFFICES ASSUME q + 1 <= m PROVE FALSE
    BY <2>1 DEF m
  <2>3. r * (q + 1) <= r * m /\ r * (q + 1) = r * q + r /\ r * q \in Nat /\ r * m \in Nat
    <3>1. q + 1 \in Nat
      OBVIOUS
    <3> QED BY <2>1, <2>2, <3>1, Multiples
  <2> QED BY <2>1, <2>3
<1> QED
  BY <1>1, <1>2

\* A longer bundle takes longer, by no more than what it grew by would take.
LEMMA TxTimeGrows ==
  ASSUME NEW c \in ContactSet, NEW a \in Nat, NEW d \in Nat, NEW b \in Nat, b <= a + d
  PROVE  TxTime(c, b) <= TxTime(c, a) + TxTime(c, d)
<1> DEFINE r == c.rate x == (a + r - 1) \div r y == (d + r - 1) \div r
<1>1. r \in Nat /\ r # 0
  BY DEF ContactSet
<1> HIDE DEF r
<1>2. a + r - 1 \in Nat /\ d + r - 1 \in Nat /\ b + r - 1 \in Nat
  BY <1>1
<1>3. x \in Nat /\ a + r - 1 < r * x + r
  BY <1>1, <1>2, Quotient
<1>4. y \in Nat /\ d + r - 1 < r * y + r
  BY <1>1, <1>2, Quotient
<1> HIDE DEF x, y
<1>5. r * (x + y) = r * x + r * y /\ r * x \in Nat /\ r * y \in Nat /\ x + y \in Nat
  BY <1>1, <1>3, <1>4
<1>6. b + r - 1 < r * (x + y) + r
  BY <1>1, <1>3, <1>4, <1>5
<1>7. (b + r - 1) \div r <= x + y
  <2> DEFINE n == b + r - 1 q == x + y
  <2>1. n \in Nat /\ q \in Nat /\ n < r * q + r
    BY <1>2, <1>5, <1>6
  <2> HIDE DEF n, q
  <2>2. n \div r <= q
    BY <1>1, <2>1, Quotient
  <2> QED BY <2>2 DEF n, q
<1> QED
  BY <1>7 DEF TxTime, r, x, y

\* A bundle with other records, and with its hops counted.
LEMMA RecordsFacts ==
  ASSUME NEW c, NEW b, BundleOk(c, b), NEW x \in {<<>>, Carried(c)}
  PROVE  LET s == [b EXCEPT !.records = x]
         IN  /\ BundleOk(c, s) /\ s.records = x /\ s.receipts = b.receipts
             /\ Identity(s) = Identity(b) /\ s.payload = b.payload /\ s.bytes = b.bytes
<1> DEFINE s == [b EXCEPT !.records = x]
<1>1. PICK f1, f2, f3, f4, f5, f6, f7, f8 :
        b = [source |-> f1, created |-> f2, fragment |-> <<>>, payload |-> f3, bytes |-> f4,
             version |-> f5, receipts |-> f6, records |-> f7, hopCount |-> f8, previous |-> NoNode]
  BY Zenon DEF BundleOk, IsBundle
<1>2. s = [source |-> f1, created |-> f2, fragment |-> <<>>, payload |-> f3, bytes |-> f4,
           version |-> f5, receipts |-> f6, records |-> x, hopCount |-> f8, previous |-> NoNode]
  BY <1>1
<1> HIDE DEF s
<1>3. /\ s.source = b.source /\ s.created = b.created /\ s.fragment = b.fragment /\ s.payload = b.payload
      /\ s.bytes = b.bytes /\ s.receipts = b.receipts /\ s.records = x
  BY <1>1, <1>2
<1>4. IsBundle(s)
  BY <1>2 DEF IsBundle
<1>5. b.source \in Nodes /\ b.created # "never sent" /\ b.bytes \in Nat \ {0}
  BY DEF BundleOk
<1>6. s.source \in Nodes /\ s.created # "never sent" /\ s.bytes \in Nat \ {0} /\ s.records \in {<<>>, Carried(c)}
  BY <1>3, <1>5
<1>7. Identity(s) = Identity(b)
  BY <1>3 DEF Identity, Whole
<1> QED
  BY <1>3, <1>4, <1>6, <1>7 DEF BundleOk, s

\* A counted hop changes nothing of a bundle but its count.
LEMMA BumpFacts ==
  ASSUME NEW c, NEW b, BundleOk(c, b)
  PROVE  LET s == BumpHopCount(b)
         IN  /\ BundleOk(c, s) /\ s.records = b.records /\ s.receipts = b.receipts
             /\ Identity(s) = Identity(b) /\ s.payload = b.payload /\ s.bytes = b.bytes
<1> DEFINE s == BumpHopCount(b)
<1>1. PICK f1, f2, f3, f4, f5, f6, f7, f8 :
        b = [source |-> f1, created |-> f2, fragment |-> <<>>, payload |-> f3, bytes |-> f4,
             version |-> f5, receipts |-> f6, records |-> f7, hopCount |-> f8, previous |-> NoNode]
  BY Zenon DEF BundleOk, IsBundle
<1>2. s = [source |-> f1, created |-> f2, fragment |-> <<>>, payload |-> f3, bytes |-> f4,
           version |-> f5, receipts |-> f6, records |-> f7, hopCount |-> f8 + 1, previous |-> NoNode]
  BY <1>1 DEF BumpHopCount
<1> HIDE DEF s
<1>3. /\ s.source = b.source /\ s.created = b.created /\ s.fragment = b.fragment /\ s.payload = b.payload
      /\ s.bytes = b.bytes /\ s.receipts = b.receipts /\ s.records = b.records
  BY <1>1, <1>2
<1>4. IsBundle(s)
  BY <1>2 DEF IsBundle
<1>5. b.source \in Nodes /\ b.created # "never sent" /\ b.bytes \in Nat \ {0} /\ b.records \in {<<>>, Carried(c)}
  BY DEF BundleOk
<1>6. s.source \in Nodes /\ s.created # "never sent" /\ s.bytes \in Nat \ {0} /\ s.records \in {<<>>, Carried(c)}
  BY <1>3, <1>5
<1>7. Identity(s) = Identity(b)
  BY <1>3 DEF Identity, Whole
<1> QED
  BY <1>3, <1>4, <1>6, <1>7 DEF BundleOk, s

\* What is carried is more than nothing, and fits a block.
LEMMA CarriedLength ==
  ASSUME NEW c
  PROVE  Carried(c) # <<>> /\ Len(Carried(c)) \in Nat /\ Len(Carried(c)) <= MaxBlockRecords /\ Len(<<>>) = 0
<1>1. MaxBlockRecords \in Nat /\ MaxBlockRecords >= 2
  BY KeyringAssumption, NetworkAssumption
<1>2. Carried(c) = <<Revoked(c), Reissued(c)>> \/ (Carried(c) = <<Revoked(c), Reissued(c), IssuerRecord(Home)>> /\ MaxBlockRecords >= 3)
  BY CarriedCases DEF Known
<1> DEFINE a == Revoked(c) b == Reissued(c) d == IssuerRecord(Home)
<1> HIDE DEF a, b, d
<1>3. \A x, y, z : Len(<<x, y>>) = 2 /\ Len(<<x, y, z>>) = 3 /\ <<x, y>> # <<>> /\ <<x, y, z>> # <<>>
  OBVIOUS
<1>4. Carried(c) # <<>> /\ (Len(Carried(c)) = 2 \/ (Len(Carried(c)) = 3 /\ MaxBlockRecords >= 3))
  BY <1>2, <1>3
<1>5. Len(<<>>) = 0
  OBVIOUS
<1> DEFINE n == Len(Carried(c))
<1>6. n = 2 \/ (n = 3 /\ MaxBlockRecords >= 3)
  BY <1>4
<1> HIDE DEF n
<1>7. n \in Nat /\ n <= MaxBlockRecords
  BY <1>1, <1>6
<1> QED
  BY <1>4, <1>5, <1>7 DEF n

\* What a custodian that knows passes on, and one that does not.
LEMMA AddsNews ==
  ASSUME NEW c, Compromised(c), NEW t \in Nat, t < Never, NEW sw \in BOOLEAN, NEW ring, RingOk(c, t, sw, ring),
         NEW block \in {<<>>, Carried(c)}, block = Carried(c) => HeardBy(c, t, ring)
  PROVE  CarryRecords(block, ForCarriage(ring, NewsIds(ring))) =
           IF HeardBy(c, t, ring) THEN Carried(c) ELSE <<>>
<1>0. c.detectAt \in Nat /\ LaunchAt < c.detectAt /\ LaunchAt \in Nat /\ c.detectAt < Never /\ Never \in Nat
  BY Times DEF Compromised
<1>1. CASE HeardBy(c, t, ring)
  <2>1. PICK s \in Nat : c.detectAt <= s /\ s <= t /\ ring = Heard(c, s)
    BY <1>1 DEF HeardBy
  <2>2. LaunchAt < s /\ s < Never /\ RingOf(c, s, TRUE, ring)
    BY <1>0, <2>1 DEF RingOf
  <2>3. ForCarriage(ring, NewsIds(ring)) = Known(c)
    <3>1. TRUE \in BOOLEAN
      OBVIOUS
    <3>2. ForCarriage(ring, NewsIds(ring)) = IF TRUE THEN Known(c) ELSE <<>>
      BY <2>2, <3>1, PassedOn
    <3> QED BY <3>2
  <2> QED BY <1>1, <2>3, CarryFacts
<1>2. CASE ~HeardBy(c, t, ring)
  <2>1. ring = LaunchRing /\ block = <<>>
    BY <1>2 DEF RingOk
  <2>2. RingOf(c, c.detectAt, FALSE, ring)
    BY <2>1 DEF RingOf
  <2>3. ForCarriage(ring, NewsIds(ring)) = <<>>
    <3>1. FALSE \in BOOLEAN
      OBVIOUS
    <3>2. ForCarriage(ring, NewsIds(ring)) = IF FALSE THEN Known(c) ELSE <<>>
      BY <1>0, <2>2, <3>1, PassedOn
    <3> QED BY <3>2
  <2> QED BY <1>2, <2>1, <2>3, CarryFacts
<1> QED
  BY <1>1, <1>2

\* What a node sends on, besides the path.
SentOk(c, sw, e, depart, b) ==
  LET st == Step(e, depart)
  IN  /\ BundleOk(c, b) /\ (~sw => b.records = <<>>)
      /\ ReceiptsOk(b, Append(e.path, st))
      /\ e.b.records = Carried(c) => b.records = Carried(c)
      /\ e.node \in Custodians /\ HeardBy(c, e.t, RingAt(e)) => b.records = Carried(c)
      /\ b.bytes = e.b.bytes /\ Len(b.receipts) \in Nat /\ Len(e.b.receipts) \in Nat
      /\ Len(b.receipts) <= Len(e.b.receipts) + 1

\* A node's signature, the news it adds and the hop it counts.
LEMMA SentFacts ==
  ASSUME NEW c, Compromised(c), NEW now \in Nat, NEW e, Learnt(c, now, e.t, e), switching \in BOOLEAN,
         NEW depart \in Nat
  PROVE  SentOk(c, switching, e, depart, BumpHopCount(Signing(e, depart)))
<1> DEFINE t == e.t st == Step(e, depart) ring == RingAt(e) s == Signing(e, depart) b == BumpHopCount(s)
           knew == (e.node \in Custodians /\ HeardBy(c, t, ring))
<1>1. /\ t \in Nat /\ t < Never /\ ArriveOk(c, now, switching, rings, e)
      /\ RingOk(c, t, switching, ring) /\ (e.b.records = Carried(c) => HeardBy(c, t, ring))
  BY DEF Learnt
<1>2. /\ BundleOk(c, e.b) /\ ReceiptsOk(e.b, e.path) /\ IsList(e.path) /\ (~switching => e.b.records = <<>>)
  BY <1>1 DEF ArriveOk, PathOk
<1>3. IsList(e.b.receipts) /\ Len(e.b.receipts) \in Nat /\ e.b.records \in {<<>>, Carried(c)}
  BY <1>2, ListFacts DEF ReceiptsOk, BundleOk
<1>4. Carried(c) # <<>>
  BY CarriedLength
<1>5. ~switching => ~HeardBy(c, t, ring)
  BY <1>1, HeardApart DEF RingOk, HeardBy
<1>6. st.node = e.node /\ st.arrive = t /\ st.depart = depart /\ st.signed = (e.node \in Custodians) /\ st.key = SignerAt(e)
  BY DEF Step
<1> HIDE DEF t, ring, st, knew
<1>7. CASE e.node \in Custodians
  <2> DEFINE opts == Opts(e, depart)
             a == Stamp(e.b, SignerAt(e), e.node, opts)
             r == Receipt(e.b, SignerAt(e), e.node, opts)
             x == IF HeardBy(c, t, ring) THEN Carried(c) ELSE <<>>
  <2>1. opts.chain /\ opts.receivedAt = t /\ opts.forwardedAt = depart
    BY DEF Opts, t
  <2> HIDE DEF opts
  <2>2. /\ BundleOk(c, a) /\ a.receipts = Append(e.b.receipts, r) /\ a.records = e.b.records
        /\ Identity(a) = Identity(e.b) /\ a.payload = e.b.payload /\ a.bytes = e.b.bytes
        /\ r.this = e.node /\ r.key = SignerAt(e) /\ r.bundle = Identity(e.b) /\ r.payload = e.b.payload
        /\ r.receivedAt = opts.receivedAt /\ r.forwardedAt = opts.forwardedAt
        /\ r.chain = <<ChainDigest(e.b.receipts)>>
    BY <1>2, <2>1, StampFacts
  <2>3. s = [a EXCEPT !.records = CarryRecords(@, ForCarriage(ring, NewsIds(ring)))]
    BY <1>7 DEF Signing, ring, opts
  <2> HIDE DEF a, r, s
  <2>4. CarryRecords(a.records, ForCarriage(ring, NewsIds(ring))) = x
    BY <1>1, <1>3, <2>2, AddsNews DEF t, ring
  <2>5. s = [a EXCEPT !.records = x]
    BY <2>3, <2>4
  <2>6. x \in {<<>>, Carried(c)}
    OBVIOUS
  <2> HIDE DEF x
  <2>7. /\ BundleOk(c, s) /\ s.records = x /\ s.receipts = a.receipts
        /\ Identity(s) = Identity(a) /\ s.payload = a.payload /\ s.bytes = a.bytes
    <3> DEFINE z == [a EXCEPT !.records = x]
    <3>1. /\ BundleOk(c, z) /\ z.records = x /\ z.receipts = a.receipts
          /\ Identity(z) = Identity(a) /\ z.payload = a.payload /\ z.bytes = a.bytes
      BY <2>2, <2>6, RecordsFacts
    <3>2. s = z
      BY <2>5
    <3> HIDE DEF z
    <3> QED BY <3>1, <3>2
  <2>8. /\ BundleOk(c, b) /\ b.records = s.records /\ b.receipts = s.receipts
        /\ Identity(b) = Identity(s) /\ b.payload = s.payload /\ b.bytes = s.bytes
    BY <2>7, BumpFacts
  <2> HIDE DEF b
  <2>9. OfStep(r, st)
    BY <1>6, <1>7, <2>1, <2>2 DEF OfStep
  <2>10. ReceiptsOk(b, Append(e.path, st))
    <3>1. b.receipts = Append(e.b.receipts, r) /\ Identity(b) = Identity(e.b) /\ b.payload = e.b.payload
      BY <2>2, <2>7, <2>8
    <3> QED BY <1>2, <2>2, <2>9, <3>1, ReceiptsGrow
  <2>11. Len(b.receipts) = Len(e.b.receipts) + 1
    BY <1>3, <2>2, <2>7, <2>8, ListAppend
  <2>12. Len(b.receipts) \in Nat /\ Len(b.receipts) <= Len(e.b.receipts) + 1
    BY <1>3, <2>11
  <2>13. b.bytes = e.b.bytes
    BY <2>2, <2>7, <2>8
  <2>14. /\ ~switching => b.records = <<>>
         /\ e.b.records = Carried(c) => b.records = Carried(c)
         /\ e.node \in Custodians /\ HeardBy(c, t, ring) => b.records = Carried(c)
    <3>1. b.records = x
      BY <2>7, <2>8
    <3> QED BY <1>1, <1>5, <3>1 DEF x, t, ring
  <2> QED BY <1>3, <2>8, <2>10, <2>12, <2>13, <2>14, <2>7 DEF SentOk, t, ring, st, b, s
<1>8. CASE e.node \notin Custodians
  <2>1. s = e.b
    BY <1>8 DEF Signing
  <2>2. /\ BundleOk(c, b) /\ b.records = e.b.records /\ b.receipts = e.b.receipts
        /\ Identity(b) = Identity(e.b) /\ b.payload = e.b.payload /\ b.bytes = e.b.bytes
    BY <1>2, <2>1, BumpFacts
  <2> HIDE DEF b, s
  <2>3. ReceiptsOk(b, Append(e.path, st))
    <3>1. ~st.signed
      BY <1>6, <1>8
    <3> QED BY <1>2, <2>2, <3>1, ReceiptsStay
  <2>4. Len(b.receipts) \in Nat /\ Len(b.receipts) <= Len(e.b.receipts) + 1
    BY <1>3, <2>2
  <2> QED BY <1>2, <1>3, <1>8, <2>2, <2>3, <2>4 DEF SentOk, st, b, s
<1> QED
  BY <1>7, <1>8

\* What a hop may add to a bundle.
Growth == ReceiptBytes + RecordBytes * MaxBlockRecords

\* The length of a bundle, and how much longer a hop makes it.
LEMMA LengthFacts ==
  ASSUME NEW c, NEW b, BundleOk(c, b), Len(b.receipts) \in Nat
  PROVE  /\ Growth \in Nat /\ Length(b) \in Nat \ {0}
         /\ \A b2 : /\ BundleOk(c, b2) /\ Len(b2.receipts) \in Nat /\ Len(b2.receipts) <= Len(b.receipts) + 1
                    /\ b2.bytes = b.bytes
                    => Length(b2) \in Nat /\ Length(b2) <= Length(b) + Growth
<1>1. ReceiptBytes \in Nat /\ RecordBytes \in Nat /\ MaxBlockRecords \in Nat
  BY NetworkAssumption, KeyringAssumption
<1>2. ASSUME NEW x, BundleOk(c, x), Len(x.receipts) \in Nat
      PROVE  /\ x.bytes \in Nat \ {0} /\ Len(x.records) \in Nat /\ Len(x.records) <= MaxBlockRecords
             /\ ReceiptBytes * Len(x.receipts) \in Nat /\ RecordBytes * Len(x.records) \in Nat
             /\ RecordBytes * Len(x.records) <= RecordBytes * MaxBlockRecords
             /\ Length(x) = x.bytes + ReceiptBytes * Len(x.receipts) + RecordBytes * Len(x.records)
  <2>1. x.bytes \in Nat \ {0} /\ x.records \in {<<>>, Carried(c)}
    BY <1>2 DEF BundleOk
  <2>2. Len(x.records) \in Nat /\ Len(x.records) <= MaxBlockRecords
    BY <1>1, <2>1, CarriedLength
  <2>3. ReceiptBytes * Len(x.receipts) \in Nat /\ RecordBytes * Len(x.records) \in Nat
        /\ RecordBytes * Len(x.records) <= RecordBytes * MaxBlockRecords
    <3> DEFINE l == Len(x.receipts) m == Len(x.records)
    <3>1. l \in Nat /\ m \in Nat /\ m <= MaxBlockRecords
      BY <1>2, <2>2
    <3> HIDE DEF l, m
    <3>2. ReceiptBytes * l \in Nat /\ RecordBytes * m \in Nat /\ RecordBytes * m <= RecordBytes * MaxBlockRecords
      BY <1>1, <3>1, Multiples
    <3> QED BY <3>2 DEF l, m
  <2> QED BY <2>1, <2>2, <2>3 DEF Length
<1>3. Growth \in Nat /\ RecordBytes * MaxBlockRecords \in Nat
  BY <1>1, Multiples DEF Growth
<1>4. Length(b) \in Nat \ {0}
  BY <1>2
<1>5. ASSUME NEW b2, BundleOk(c, b2), Len(b2.receipts) \in Nat, Len(b2.receipts) <= Len(b.receipts) + 1,
             b2.bytes = b.bytes
      PROVE  Length(b2) \in Nat /\ Length(b2) <= Length(b) + Growth
  <2> DEFINE l == Len(b.receipts) l2 == Len(b2.receipts) lp == l + 1 m == Len(b.records) m2 == Len(b2.records)
             g == ReceiptBytes h == RecordBytes * MaxBlockRecords
  <2>1. /\ b.bytes \in Nat \ {0} /\ g * l \in Nat /\ RecordBytes * m \in Nat
        /\ Length(b) = b.bytes + g * l + RecordBytes * m
    BY <1>2
  <2>2. /\ g * l2 \in Nat /\ RecordBytes * m2 \in Nat /\ RecordBytes * m2 <= h
        /\ Length(b2) = b.bytes + g * l2 + RecordBytes * m2
    BY <1>2, <1>5
  <2>3. l \in Nat /\ l2 \in Nat /\ lp \in Nat /\ l2 <= lp /\ g \in Nat /\ h \in Nat
    BY <1>1, <1>3, <1>5
  <2>4. g * lp = g * l + g
    BY <2>3, Multiples
  <2> HIDE DEF l, l2, lp, m, m2, g, h
  <2>5. g * l2 <= g * lp
    BY <2>3, Multiples
  <2>6. Growth = g + h
    BY DEF Growth, g, h
  <2> DEFINE x == RecordBytes * m y == RecordBytes * m2 u == g * l v == g * l2
  <2>7. u \in Nat /\ v \in Nat /\ x \in Nat /\ y \in Nat /\ y <= h /\ v <= u + g
        /\ Length(b) = b.bytes + u + x /\ Length(b2) = b.bytes + v + y
    BY <2>1, <2>2, <2>4, <2>5
  <2>8. b.bytes \in Nat
    BY <2>1
  <2>9. g \in Nat /\ h \in Nat
    BY <2>3
  <2> HIDE DEF x, y, u, v
  <2> QED BY <2>6, <2>7, <2>8, <2>9, SMTT(60)
<1> QED
  BY <1>3, <1>4, <1>5

\* A bundle joins the events to come.
LEMMA QueuePush ==
  ASSUME NEW c, NEW now \in Nat, NEW sw \in BOOLEAN, NEW R, NEW q, QueueOk(c, now, sw, R, q),
         NEW e, e.t \in Nat, now <= e.t, e.t < Never, EventOk(c, now, sw, R, e), e.kind # "detected"
  PROVE  QueueOk(c, now, sw, R, Push(q, e))
<1> DEFINE p == Push(q, e)
<1>1. /\ IsList(q)
      /\ \A i \in DOMAIN q : q[i].t \in Nat /\ now <= q[i].t /\ q[i].t < Never /\ EventOk(c, now, sw, R, q[i])
      /\ \A i, j \in DOMAIN q : i <= j => q[i].t <= q[j].t
      /\ sw => \A i \in DOMAIN q : q[i].kind # "detected"
      /\ ~sw => \E i \in DOMAIN q : q[i].kind = "detected" /\ \A j \in DOMAIN q : q[j].kind = "detected" => j = i
  BY DEF QueueOk
<1>2. Sorted(q)
  BY <1>1 DEF Sorted
<1>3. /\ Sorted(p)
      /\ \A i \in DOMAIN p : p[i] = e \/ \E j \in DOMAIN q : p[i] = q[j]
      /\ \A j \in DOMAIN q : \E i \in DOMAIN p : p[i] = q[j]
      /\ (\A i, j \in DOMAIN q : q[i].kind = "detected" /\ q[j].kind = "detected" => i = j)
         /\ (e.kind = "detected" => \A i \in DOMAIN q : q[i].kind # "detected")
           => \A i, j \in DOMAIN p : p[i].kind = "detected" /\ p[j].kind = "detected" => i = j
  BY <1>2, Pushed
<1> HIDE DEF p
<1>4. \A i \in DOMAIN p : p[i].t \in Nat /\ now <= p[i].t /\ p[i].t < Never /\ EventOk(c, now, sw, R, p[i])
  <2>1. ASSUME NEW i \in DOMAIN p PROVE p[i].t \in Nat /\ now <= p[i].t /\ p[i].t < Never /\ EventOk(c, now, sw, R, p[i])
    <3>1. CASE p[i] = e
      BY <3>1
    <3>2. CASE \E j \in DOMAIN q : p[i] = q[j]
      BY <1>1, <3>2
    <3> QED BY <1>3, <3>1, <3>2
  <2> QED BY <2>1
<1>5. sw => \A i \in DOMAIN p : p[i].kind # "detected"
  BY <1>1, <1>3
<1>6. ~sw => \E i \in DOMAIN p : p[i].kind = "detected" /\ \A j \in DOMAIN p : p[j].kind = "detected" => j = i
  <2>1. SUFFICES ASSUME ~sw PROVE \E i \in DOMAIN p : p[i].kind = "detected" /\ \A j \in DOMAIN p : p[j].kind = "detected" => j = i
    OBVIOUS
  <2>2. PICK k \in DOMAIN q : q[k].kind = "detected" /\ \A j \in DOMAIN q : q[j].kind = "detected" => j = k
    BY <1>1, <2>1
  <2>3. PICK i \in DOMAIN p : p[i] = q[k]
    BY <1>3
  <2>4. \A i1, j \in DOMAIN p : p[i1].kind = "detected" /\ p[j].kind = "detected" => i1 = j
    BY <1>3, <2>2
  <2> QED BY <2>2, <2>3, <2>4
<1>7. IsList(p) /\ \A i, j \in DOMAIN p : i <= j => p[i].t <= p[j].t
  BY <1>3 DEF Sorted
<1> QED
  BY <1>4, <1>5, <1>6, <1>7 DEF QueueOk, p

\* The event of an arrival, by its fields.
LEMMA ArriveFields ==
  ASSUME NEW t, NEW node, NEW b, NEW dst, NEW prev, NEW path
  PROVE  LET a == Arrive(t, node, b, dst, prev, path)
         IN  /\ a = Arrive(a.t, a.node, a.b, a.dst, a.prev, a.path) /\ a.kind = "arrive"
             /\ a.t = t /\ a.node = node /\ a.b = b /\ a.dst = dst /\ a.prev = prev /\ a.path = path
BY DEF Arrive

\* The first hop of a route that was found: a contact of the node on which the
\* transmission fits.
LEMMA FirstHop ==
  ASSUME NEW now, NetInv(now), NEW e, Learnt(compromise, now, e.t, e), e.node # e.dst, RouteOn(e).found
  PROVE  LET i == Head(RouteOn(e).hops)
         IN  /\ i \in DOMAIN contacts /\ contacts[i].to \in Nodes /\ nextFree[i] \in Nat
             /\ Fits(contacts[i], e.t, nextFree[i], Length(e.b))
             /\ contacts[i] \in ContactSet
<1> DEFINE c == compromise
           exclude == {e.path[i].node : i \in DOMAIN e.path}
           s == Search(contacts, nextFree, e.node, e.dst, e.t, Length(e.b), exclude)
<1>1. contacts \in Plans /\ nextFree \in [DOMAIN contacts -> Nat] /\ contacts \in Seq(ContactSet)
  BY InvariantParts, InputFacts
<1>2. /\ e.t \in Nat /\ e.node \in Nodes /\ e.dst \in Nodes /\ BundleOk(c, e.b) /\ ReceiptsOk(e.b, e.path)
  BY NetworkAssumption DEF Learnt, ArriveOk
<1>3. Length(e.b) \in Nat /\ Length(e.b) # 0
  <2>1. Len(e.b.receipts) \in Nat
    BY <1>2, ListFacts DEF ReceiptsOk
  <2> QED BY <1>2, <2>1, LengthFacts
<1>4. /\ RouteOn(e) = [found |-> s.arr[e.dst] < Unreached, arrival |-> s.arr[e.dst],
                       hops |-> IF s.arr[e.dst] < Unreached THEN Hops(contacts, s.via, e.node, e.dst) ELSE <<>>]
  BY DEF RouteOn, Route
<1> HIDE DEF exclude
<1>5. SearchInv(contacts, nextFree, e.node, e.t, Length(e.b), exclude, s)
  <2>1. Standing(contacts, nextFree, e.node, e.t, Length(e.b), exclude, s)
    <3> HIDE DEF s
    <3> DEFINE n == Length(e.b)
    <3>1. n \in Nat
      BY <1>3
    <3> HIDE DEF n
    <3>2. s = Search(contacts, nextFree, e.node, e.dst, e.t, n, exclude)
      BY DEF s, n
    <3>3. Standing(contacts, nextFree, e.node, e.t, n, exclude, s)
      BY <1>1, <1>2, <3>1, <3>2, SearchFacts
    <3> QED BY <3>3 DEF n
  <2> QED BY <2>1 DEF Standing
<1> HIDE DEF s
<1>6. s.arr[e.dst] < Unreached /\ RouteOn(e).hops = Hops(contacts, s.via, e.node, e.dst)
  <2> DEFINE f == s.arr[e.dst] < Unreached h == Hops(contacts, s.via, e.node, e.dst) r == RouteOn(e)
  <2>1. r = [found |-> f, arrival |-> s.arr[e.dst], hops |-> IF f THEN h ELSE <<>>]
    BY <1>4
  <2> HIDE DEF f, h, r
  <2>2. (r.found <=> f) /\ (f => r.hops = h)
    BY <2>1
  <2> QED BY <2>2 DEF f, h, r
<1> DEFINE i == Head(Hops(contacts, s.via, e.node, e.dst)) n == Length(e.b)
<1>7. i \in DOMAIN contacts /\ Fits(contacts[i], e.t, nextFree[i], n)
  <2>1. n \in Nat /\ n # 0 /\ SearchInv(contacts, nextFree, e.node, e.t, n, exclude, s)
    BY <1>3, <1>5
  <2> HIDE DEF n
  <2> QED BY <1>1, <1>2, <1>6, <2>1, HopsFacts
<1>8. Head(RouteOn(e).hops) = i
  BY <1>6
<1> HIDE DEF i
<1>9. contacts[i].to \in Nodes /\ contacts[i] \in ContactSet /\ nextFree[i] \in Nat
  BY <1>1, <1>7, ContactFacts
<1> QED
  BY <1>7, <1>8, <1>9 DEF n

\* When a transmission that fits the contact ends, and arrives.
LEMMA SentInTime ==
  ASSUME NEW plan \in Plans, NEW i \in DOMAIN plan, NEW t \in Span, NEW free \in Nat, NEW a \in Nat, NEW b \in Nat,
         Growth \in Nat, b <= a + Growth, Fits(plan[i], t, free, a)
  PROVE  LET depart == Departure(plan[i], t, free)
             sent == depart + TxTime(plan[i], b)
         IN  /\ depart \in Nat /\ t <= depart /\ sent \in Nat /\ depart <= sent
             /\ sent + plan[i].owlt \in Span /\ sent <= sent + plan[i].owlt
<1> DEFINE c == plan[i] depart == Departure(c, t, free) tx == TxTime(c, b) txa == TxTime(c, a) txg == TxTime(c, Growth)
<1>1. plan \in Seq(ContactSet) /\ c.end + txg + c.owlt <= LaunchAt + KeyLife
  BY InputFacts DEF Growth
<1>2. c \in ContactSet /\ c.start \in Nat /\ c.end \in Nat /\ c.owlt \in Nat
  BY <1>1, ContactFacts
<1>3. t \in Nat /\ LaunchAt <= t /\ LaunchAt \in Nat /\ KeyLife \in Nat
  BY SpanFacts, Times
<1>4. depart \in Nat /\ t <= depart
  BY <1>2, <1>3 DEF Departure
<1>5. depart + txa <= c.end
  BY DEF Fits
<1> HIDE DEF c, depart
<1>6. tx \in Nat /\ txa \in Nat /\ txg \in Nat
  BY <1>2, TxTimeType
<1>7. tx <= txa + txg
  BY <1>2, TxTimeGrows
<1> HIDE DEF tx, txa, txg
<1>8. depart + tx + c.owlt \in Span
  BY <1>1, <1>2, <1>3, <1>4, <1>5, <1>6, <1>7, SMTT(60) DEF Span
<1> QED
  BY <1>2, <1>4, <1>6, <1>8 DEF c, depart, tx

\* Sending a bundle on keeps the invariant.
LEMMA ForwardStep == ASSUME NEW now, NetInv(now), Forward PROVE IInv'
<1> DEFINE c == compromise
<1> PICK e : e = Head(queue)
  OBVIOUS
<1> PICK t : t = e.t
  OBVIOUS
<1> DEFINE i == Head(RouteOn(e).hops)
           hop == contacts[i]
           depart == Departure(hop, e.t, nextFree[i])
           b == BumpHopCount(Signing(e, depart))
           sent == depart + TxTime(hop, Length(b))
           st == Step(e, depart)
           a == Arrive(sent + hop.owlt, hop.to, b, e.dst, e.node, Append(e.path, st))
           R2 == RingsAt(e)
           news == (b.records = Carried(c))
<1>1. queue # <<>> /\ e.kind = "arrive" /\ e.node # e.dst /\ ~Stuck(e)
  BY DEF Forward
<1>2. queue' = Push(Tail(queue), a) /\ nextFree' = [nextFree EXCEPT ![i] = sent]
  BY DEF Forward
<1>3. UNCHANGED <<contacts, compromise, switching, deliveries>>
  BY SMTT(60) DEF Forward, inputs
<1>4. rings' = R2 /\ signer' = SignersAt(e)
  BY DEF Forward, Learn, RingsAt, SignersAt
<1>5. Learnt(c, now, t, e)
  BY <1>1, LearnFacts
<1>6. /\ t \in Nat /\ t < Never /\ (switching => c.detectAt <= t) /\ now <= t
      /\ RingsOk(c, t, switching, R2) /\ SignersOk(c, t, R2, SignersAt(e))
      /\ QueueOk(c, t, switching, R2, Tail(queue))
      /\ DeliveriesOk(c, t, R2, deliveries)
      /\ ArriveOk(c, now, switching, rings, e)
  BY <1>5 DEF Learnt
<1>7. /\ t \in Span /\ e.node \in Nodes /\ e.dst \in Custodians /\ BundleOk(c, e.b) /\ IsList(e.path)
  BY <1>6 DEF ArriveOk, PathOk
<1>8. RouteOn(e).found /\ Len(e.path) <= MaxPath
  BY <1>1, <1>7, ListFacts, NetworkAssumption DEF Stuck
<1>9. /\ i \in DOMAIN contacts /\ hop.to \in Nodes /\ nextFree[i] \in Nat /\ hop \in ContactSet
      /\ Fits(hop, t, nextFree[i], Length(e.b))
  BY <1>1, <1>5, <1>8, FirstHop
<1>10. Compromised(c) /\ now \in Nat /\ contacts \in Plans /\ switching \in BOOLEAN /\ nextFree \in [DOMAIN contacts -> Nat]
  BY InvariantParts
<1> HIDE DEF i, R2
<1>11. depart \in Nat /\ t <= depart
  <2>1. hop.start \in Nat
    BY <1>9 DEF ContactSet
  <2> HIDE DEF hop
  <2> QED BY <1>6, <1>9, <2>1 DEF Departure
<1> HIDE DEF hop, depart
<1>12. SentOk(c, switching, e, depart, b)
  BY <1>5, <1>10, <1>11, SentFacts
<1> HIDE DEF b
<1>13. /\ Length(b) \in Nat /\ Length(e.b) \in Nat /\ Growth \in Nat /\ Length(b) <= Length(e.b) + Growth
  BY <1>7, <1>12, LengthFacts DEF SentOk
<1>14. /\ sent \in Nat /\ depart <= sent /\ sent + hop.owlt \in Span /\ sent <= sent + hop.owlt
  <2> DEFINE x == Length(e.b) y == Length(b)
  <2>1. x \in Nat /\ y \in Nat /\ y <= x + Growth /\ Fits(contacts[i], t, nextFree[i], x)
    BY <1>9, <1>13 DEF hop
  <2>2. depart = Departure(contacts[i], t, nextFree[i])
    BY DEF depart, hop
  <2> HIDE DEF x, y
  <2>3. /\ depart + TxTime(contacts[i], y) \in Nat /\ depart <= depart + TxTime(contacts[i], y)
        /\ depart + TxTime(contacts[i], y) + contacts[i].owlt \in Span
        /\ depart + TxTime(contacts[i], y) <= depart + TxTime(contacts[i], y) + contacts[i].owlt
    BY <1>7, <1>9, <1>10, <1>13, <2>1, <2>2, SentInTime
  <2> QED BY <2>3 DEF y, hop
<1> DEFINE until == sent + hop.owlt
<1>15. until \in Nat /\ depart <= until /\ t <= until /\ until < Never /\ until \in Span
  <2>1. until \in Span /\ sent <= until
    BY <1>14
  <2>2. until \in Nat /\ until < Never
    BY <2>1, SpanFacts
  <2> HIDE DEF until, sent
  <2> QED BY <1>6, <1>11, <1>14, <2>1, <2>2
<1> HIDE DEF until, st
<1>16. /\ PathOk(c, t, until, Append(e.path, st), news) /\ NewsRode(c, R2, Append(e.path, st), news)
       /\ Len(Append(e.path, st)) = Len(e.path) + 1
  <2>1. news \in BOOLEAN /\ (e.b.records = Carried(c) => news)
        /\ (e.node \in Custodians /\ HeardBy(c, e.t, RingAt(e)) => news)
    BY <1>12 DEF SentOk
  <2> HIDE DEF news, c
  <2>2. Learnt(c, now, e.t, e) /\ e.t <= depart
    BY <1>5, <1>11
  <2>3. /\ PathOk(c, e.t, until, Append(e.path, Step(e, depart)), news)
        /\ NewsRode(c, RingsAt(e), Append(e.path, Step(e, depart)), news)
        /\ Len(Append(e.path, Step(e, depart))) = Len(e.path) + 1
    BY <1>10, <1>11, <1>15, <2>1, <2>2, HopPath
  <2> QED BY <2>3 DEF R2, st
<1> DEFINE p2 == Append(e.path, st)
<1>17. /\ a = Arrive(a.t, a.node, a.b, a.dst, a.prev, a.path) /\ a.kind = "arrive"
       /\ a.t = until /\ a.node = hop.to /\ a.b = b /\ a.dst = e.dst /\ a.path = p2
  <2> HIDE DEF p2
  <2>1. a = Arrive(until, hop.to, b, e.dst, e.node, p2)
    BY DEF p2, until
  <2> HIDE DEF a
  <2> QED BY <2>1, ArriveFields
<1> HIDE DEF a, sent
<1>18. ArriveOk(c, t, switching, R2, a)
  <2>1. Len(p2) <= MaxPath + 1
    <3>1. Len(e.path) \in Nat /\ MaxPath \in Nat
      BY <1>7, ListFacts, NetworkAssumption
    <3> QED BY <1>8, <1>16, <3>1
  <2>2. BundleOk(c, b) /\ (~switching => b.records = <<>>) /\ ReceiptsOk(b, p2)
    BY <1>12 DEF SentOk, st
  <2> HIDE DEF p2, c
  <2>3. PathOk(c, t, until, p2, b.records = Carried(c)) /\ NewsRode(c, R2, p2, b.records = Carried(c))
    BY <1>16 DEF p2
  <2> QED BY <1>7, <1>9, <1>15, <1>17, <2>1, <2>2, <2>3 DEF ArriveOk
<1>19. QueueOk(c, t, switching, R2, Push(Tail(queue), a))
  <2>1. EventOk(c, t, switching, R2, a) /\ a.kind # "detected" /\ a.t \in Nat /\ t <= a.t /\ a.t < Never
    BY <1>15, <1>17, <1>18 DEF EventOk
  <2> HIDE DEF c
  <2> QED BY <1>6, <1>10, <2>1, QueuePush
<1>20. nextFree' \in [DOMAIN contacts -> Nat]
  <2> HIDE DEF a
  <2> QED BY <1>2, <1>9, <1>10, <1>14 DEF sent
<1>21. NetInv(t)'
  <2>1. queue' = Push(Tail(queue), a)
    BY <1>2
  <2> QED BY <1>3, <1>4, <1>6, <1>19, <1>20, <2>1, InvariantParts DEF NetInv
<1> QED
  BY <1>6, <1>21 DEF IInv

\* The invariant is kept by every step.
LEMMA StepInvariant == IInv /\ [Next]_vars => IInv'
<1>1. SUFFICES ASSUME IInv, [Next]_vars PROVE IInv'
  OBVIOUS
<1>2. PICK now \in Nat : NetInv(now)
  BY <1>1 DEF IInv
<1>3. CASE Compromise
  BY <1>2, <1>3, CompromiseStep
<1>4. CASE Detect
  BY <1>2, <1>4, DetectStep
<1>5. CASE Deliver
  BY <1>2, <1>5, DeliverStep
<1>6. CASE Strand
  BY <1>2, <1>6, StrandStep
<1>7. CASE Forward
  BY <1>2, <1>7, ForwardStep
<1>8. CASE ClearPeriod
  <2>1. NetInv(now)'
    BY <1>2, <1>8, ClearStep
  <2> QED BY <1>2, <2>1 DEF IInv
<1>9. CASE UNCHANGED vars
  <2>1. NetInv(now)'
    BY <1>2, <1>9, StutterStep
  <2> QED BY <1>2, <2>1 DEF IInv
<1> QED
  BY <1>1, <1>3, <1>4, <1>5, <1>6, <1>7, <1>8, <1>9 DEF Next

\* The network keeps its clock, its rings and its keys, its events and its
\* deliveries in order (ssi/network.mjs:60-170).
THEOREM NetworkInvariant == Spec => []IInv
<1>1. Init => IInv
  BY InitInvariant
<1>2. IInv /\ [Next]_vars => IInv'
  BY StepInvariant
<1> QED
  BY <1>1, <1>2, PTL DEF Spec

----------------------------------------------------------------------------
\* A ring of the network, and what it knows of the revocation.
LEMMA KnewIt ==
  ASSUME NEW c, Compromised(c), NEW now \in Nat, NEW sw \in BOOLEAN, NEW ring, RingOk(c, now, sw, ring), NEW t \in Int
  PROVE  (\E i \in DOMAIN ring : IsRevocation(ring[i].rec) /\ ring[i].seenAt < t) <=> HeardBy(c, t - 1, ring)
<1> DEFINE n == Len(LaunchRing) l == n + 1 m == n + 2
<1>1. n \in Nat
  BY LaunchEntries
<1>2. \A i \in 1 .. n : ~IsRevocation(LaunchRing[i].rec)
  <2>1. \A i \in 1 .. n : LaunchRing[i].rec \in Provision
    BY LaunchEntries
  <2>2. \A r \in Provision : ~IsRevocation(r)
    BY DEF Provision, IssueKey, IsRevocation
  <2> QED BY <2>1, <2>2
<1>3. CASE ring = LaunchRing
  <2>1. DOMAIN ring = 1 .. n
    BY <1>3, LaunchEntries
  <2>2. ~HeardBy(c, t - 1, ring)
    BY <1>3, HeardApart DEF HeardBy
  <2> QED BY <1>2, <1>3, <2>1, <2>2
<1>4. CASE ring # LaunchRing
  <2>1. PICK s \in Nat : c.detectAt <= s /\ s <= now /\ ring = Heard(c, s)
    BY <1>4 DEF RingOk, HeardBy
  <2>2. /\ DOMAIN ring = 1 .. n + 2 /\ \A i \in 1 .. n : ring[i] = LaunchRing[i]
        /\ ring[n + 1] = [rec |-> Revoked(c), seenAt |-> s]
        /\ ring[n + 2] = [rec |-> Reissued(c), seenAt |-> s]
    BY <2>1, HeardEntries
  <2>3. IsRevocation(Revoked(c)) /\ ~IsRevocation(Reissued(c))
    BY DEF Revoked, Reissued, RevokeKey, IssueKey, IsRevocation
  <2>4. /\ DOMAIN ring = 1 .. m /\ l \in 1 .. m /\ \A i \in 1 .. m : i \in 1 .. n \/ i = l \/ i = m
    BY <1>1, <2>2
  <2>5. /\ ring[l].rec = Revoked(c) /\ ring[l].seenAt = s /\ ring[m].rec = Reissued(c)
        /\ \A i \in 1 .. n : ring[i] = LaunchRing[i]
    BY <2>2
  <2> HIDE DEF l, m, n
  <2>6. (\E i \in DOMAIN ring : IsRevocation(ring[i].rec) /\ ring[i].seenAt < t) <=> s < t
    BY <1>2, <2>3, <2>4, <2>5 DEF n
  <2>7. HeardBy(c, t - 1, ring) <=> s <= t - 1
    <3>1. \A u \in Nat : ring = Heard(c, u) => u = s
      BY <2>1, HeardApart
    <3> QED BY <2>1, <3>1 DEF HeardBy
  <2> QED BY <2>6, <2>7
<1> QED
  BY <1>3, <1>4

\* What is known at a node of the network.
LEMMA Knew ==
  ASSUME NEW now, NetInv(now), NEW n \in Nodes, NEW t \in Int
  PROVE  KnewRevocation(n, t) <=> HeardBy(compromise, t - 1, rings[n])
<1>1. /\ now \in Nat /\ Compromised(compromise) /\ switching \in BOOLEAN /\ RingOk(compromise, now, switching, rings[n])
  BY InvariantParts DEF RingsOk
<1> QED
  BY <1>1, KnewIt DEF KnewRevocation

\* The news reaches a destination with any bundle that a custodian forwarded
\* who knew of it: NewsTravels holds of every plan, traffic and compromise.
LEMMA NewsHolds == IInv => NewsTravels
<1> SUFFICES ASSUME IInv, NEW i \in DOMAIN deliveries
             PROVE  LET d == deliveries[i]
                    IN  (\E k \in DOMAIN d.path :
                           d.path[k].signed /\ KnewRevocation(d.path[k].node, d.path[k].arrive))
                        => KnewRevocation(d.dst, d.deliveredAt + 1)
  BY DEF NewsTravels
<1>1. PICK now \in Nat : NetInv(now)
  BY DEF IInv
<1> DEFINE d == deliveries[i] c == compromise
<1>2. DeliveryOk(c, now, rings, d)
  BY <1>1, InvariantParts DEF DeliveriesOk
<1> HIDE DEF d
<1>3. /\ d.dst \in Nodes /\ d.deliveredAt \in Int
      /\ PathOk(c, now, d.deliveredAt, d.path, HeardBy(c, d.deliveredAt, rings[d.dst]))
      /\ NewsRode(c, rings, d.path, HeardBy(c, d.deliveredAt, rings[d.dst]))
  BY <1>2, NetworkAssumption, SpanFacts DEF DeliveryOk
<1>4. SUFFICES ASSUME NEW k \in DOMAIN d.path, d.path[k].signed, KnewRevocation(d.path[k].node, d.path[k].arrive)
               PROVE  KnewRevocation(d.dst, d.deliveredAt + 1)
  BY DEF d
<1>5. d.path[k].node \in Nodes /\ d.path[k].arrive \in Int
  BY <1>3, SpanFacts DEF PathOk, StepOk
<1>6. HeardBy(c, d.path[k].arrive - 1, rings[d.path[k].node])
  BY <1>1, <1>4, <1>5, Knew
<1>7. HeardBy(c, d.deliveredAt, rings[d.dst])
  BY <1>3, <1>4, <1>6 DEF NewsRode
<1> DEFINE u == d.deliveredAt + 1
<1>8. u \in Int /\ u - 1 = d.deliveredAt
  BY <1>3
<1> HIDE DEF u
<1>9. KnewRevocation(d.dst, u) <=> HeardBy(c, u - 1, rings[d.dst])
  BY <1>1, <1>3, <1>8, Knew
<1> QED
  BY <1>7, <1>8, <1>9 DEF u

\* Key news travels with the traffic (ssi/network.mjs:96-119): whatever nodes,
\* plan, traffic and compromise there are, a bundle that passed a custodian
\* that knew of the revocation brings it to its destination.
THEOREM NewsAlwaysTravels == Spec => []NewsTravels
  BY NetworkInvariant, NewsHolds, PTL

\* The route chosen is the earliest there is, and none is found only if there
\* is none.
LEMMA RouteHolds == IInv => RouteIsEarliest
<1> DEFINE e == Head(queue)
           exclude == {e.path[i].node : i \in DOMAIN e.path}
           s == Search(contacts, nextFree, e.node, e.dst, e.t, Length(e.b), exclude)
<1> SUFFICES ASSUME IInv, queue # <<>>, e.kind = "arrive"
             PROVE  RouteOn(e).arrival = Soonest(contacts, nextFree, e.node, e.t, Length(e.b), exclude)[e.dst]
  BY DEF RouteIsEarliest
<1>1. PICK now \in Nat : NetInv(now)
  BY DEF IInv
<1>2. Learnt(compromise, now, e.t, e)
  BY <1>1, LearnFacts
<1>3. /\ contacts \in Seq(ContactSet) /\ nextFree \in [DOMAIN contacts -> Nat]
  BY <1>1, InvariantParts, InputFacts
<1> HIDE DEF e
<1>4. /\ e.t \in Nat /\ e.node \in Nodes /\ e.dst \in Nodes /\ BundleOk(compromise, e.b) /\ ReceiptsOk(e.b, e.path)
  BY <1>2, NetworkAssumption DEF Learnt, ArriveOk
<1> DEFINE n == Length(e.b)
<1>5. n \in Nat
  <2>1. Len(e.b.receipts) \in Nat
    BY <1>4, ListFacts DEF ReceiptsOk
  <2> QED BY <1>4, <2>1, LengthFacts
<1>6. RouteOn(e) = [found |-> s.arr[e.dst] < Unreached, arrival |-> s.arr[e.dst],
                    hops |-> IF s.arr[e.dst] < Unreached THEN Hops(contacts, s.via, e.node, e.dst) ELSE <<>>]
  BY DEF RouteOn, Route
<1> HIDE DEF n, exclude
<1>7. s.arr[e.dst] = Soonest(contacts, nextFree, e.node, e.t, n, exclude)[e.dst]
  <2>1. Search(contacts, nextFree, e.node, e.dst, e.t, n, exclude).arr[e.dst]
          = Soonest(contacts, nextFree, e.node, e.t, n, exclude)[e.dst]
    BY <1>3, <1>4, <1>5, SearchIsEarliest
  <2> QED BY <2>1 DEF n
<1> HIDE DEF s
<1>8. RouteOn(e).arrival = s.arr[e.dst]
  BY <1>6
<1> QED
  BY <1>7, <1>8 DEF n, exclude

\* Contact graph routing finds the earliest arrival (ssi/cgr.mjs): in every
\* state that the network reaches, over every plan.
THEOREM RoutesAreEarliest == Spec => []RouteIsEarliest
  BY NetworkInvariant, RouteHolds, PTL

\* Between two states a ring stays as it was, or hears the news after all that
\* has been delivered.
LEMMA StepsGrow ==
  ASSUME NEW now, NetInv(now), [Next]_vars
  PROVE  compromise' = compromise /\ \E t \in Nat : now <= t /\ RingsGrow(compromise, t, rings, rings')
<1>1. compromise' = compromise
  BY DEF Next, Compromise, Detect, Deliver, Strand, Forward, ClearPeriod, vars, inputs
<1>2. now \in Nat /\ now <= now
  BY InvariantParts
<1>3. CASE Detect
  BY <1>1, <1>3, DetectStep
<1>4. CASE Deliver \/ Strand \/ Forward
  <2> PICK e : e = Head(queue)
    BY SMTT(60)
  <2>1. queue # <<>> /\ Head(queue).kind = "arrive" /\ rings' = RingsAt(e)
    BY <1>4 DEF Deliver, Strand, Forward, Learn, RingsAt
  <2>2. Learnt(compromise, now, e.t, e)
    BY <2>1, LearnFacts
  <2>3. e.t \in Nat /\ now <= e.t /\ RingsGrow(compromise, e.t, rings, RingsAt(e))
    BY <2>2 DEF Learnt
  <2> QED BY <1>1, <2>1, <2>3
<1>5. CASE rings' = rings
  BY <1>1, <1>2, <1>5 DEF RingsGrow
<1> QED
  BY <1>3, <1>4, <1>5, SMTT(60) DEF Next, Compromise, ClearPeriod, vars

----------------------------------------------------------------------------
\* What the destination's verdict on a delivery says, of which it knew at the
\* time: and what it would have to say had it known before.
Judged(c, d, ring) ==
  LET copied == {j \in DOMAIN d.b.receipts : d.b.receipts[j].key = StolenKey}
  IN  /\ ~d.atDest.ok => /\ copied # {}
                         /\ c.stolenAt <= d.deliveredAt
                         /\ HeardBy(c, d.deliveredAt, ring)
      /\ HeardBy(c, d.deliveredAt - 1, ring)
         /\ (\E j \in copied : d.b.receipts[j].forwardedAt >= c.stolenAt)
         => ~d.atDest.ok

AllJudged == \A i \in DOMAIN deliveries : Judged(compromise, deliveries[i], rings[deliveries[i].dst])

\* A verdict stands when rings grow.
LEMMA JudgedStays ==
  ASSUME NEW c, NEW t2 \in Nat, NEW R, NEW R2, RingsGrow(c, t2, R, R2), NEW d, d.dst \in Nodes,
         d.deliveredAt \in Nat, d.deliveredAt <= t2, Judged(c, d, R[d.dst])
  PROVE  Judged(c, d, R2[d.dst])
<1> DEFINE t == d.deliveredAt u == t - 1
<1>1. t \in Int /\ u \in Int /\ u < t2
  OBVIOUS
<1> HIDE DEF t, u
<1>2. /\ HeardBy(c, t, R[d.dst]) => HeardBy(c, t, R2[d.dst])
      /\ HeardBy(c, u, R2[d.dst]) => HeardBy(c, u, R[d.dst])
  BY <1>1, HeardStays
<1> QED
  BY <1>2 DEF Judged, t, u

\* A receipt on the bundle is of a key that may sign, for a node and a time
\* that were its own.
SoundReceipt(c, t, news, ring, f) ==
  /\ Signed(ring, f) /\ KeyState(ring, f).ok /\ f.forwardedAt \in Nat /\ f.forwardedAt <= t
  /\ KeyState(ring, f).revokedFrom = IF news /\ f.key = StolenKey THEN c.stolenAt ELSE Never

\* A receipt made on the way is signed by a key its reader's ring proves, unless
\* it is the copied key.
LEMMA ReceiptSound ==
  ASSUME NEW c, Compromised(c), NEW now \in Nat, NEW t \in Span, NEW r \in Nat, r < Never,
         NEW sw \in BOOLEAN, NEW ring, RingOk(c, r, sw, ring), NEW told, told => HeardBy(c, r, ring),
         NEW st, StepOk(c, now, t, st, told), NEW f, OfStep(f, st)
  PROVE  SoundReceipt(c, t, HeardBy(c, r, ring), ring, f)
<1> DEFINE news == HeardBy(c, r, ring) n == f.this u == f.forwardedAt
<1>1. t \in Nat /\ t < Never /\ LaunchAt <= t /\ t <= LaunchAt + KeyLife
  BY SpanFacts
<1>2. /\ n \in Nodes /\ u \in Span /\ u <= t /\ KeyOk(c, n, f.key, u, news)
  <2>1. /\ st.node \in Nodes /\ st.arrive \in Span /\ st.depart \in Nat
        /\ st.arrive <= st.depart /\ st.depart <= t /\ st.signed
        /\ KeyOk(c, st.node, st.key, st.depart, news)
    BY DEF StepOk, OfStep, KeyOk
  <2>2. f.this = st.node /\ f.key = st.key /\ f.forwardedAt = st.depart
    BY DEF OfStep
  <2> HIDE DEF news
  <2>3. st.depart \in Span
    BY <1>1, <2>1, SpanFacts, Times DEF Span
  <2> QED BY <2>1, <2>2, <2>3
<1>3. u \in Nat /\ u \in LaunchAt .. LaunchAt + KeyLife
  BY <1>2, SpanFacts DEF Span
<1>4. c.detectAt \in Nat /\ LaunchAt < c.detectAt /\ KeyLife \in Nat /\ LaunchAt \in Nat
  BY Times DEF Compromised
<1>5. news \in BOOLEAN
  BY DEF HeardBy
<1>6. PICK s \in Nat : s < Never /\ RingOf(c, s, news, ring)
  <2>1. CASE news
    <3>1. PICK s \in Nat : c.detectAt <= s /\ s <= r /\ ring = Heard(c, s)
      BY <2>1 DEF HeardBy
    <3>2. s < Never
      BY <1>1, <3>1, Times
    <3> QED BY <2>1, <3>1, <3>2 DEF RingOf
  <2>2. CASE ~news
    <3>1. ring = LaunchRing
      BY <2>2 DEF RingOk
    <3> HIDE DEF news
    <3> QED BY <2>2, <3>1 DEF RingOf
  <2> QED BY <2>1, <2>2
<1> HIDE DEF news, n, u
<1>7. /\ \A m \in Nodes : /\ NodeKey[m] \in PubsFor(ring, m)
                          /\ \A w \in LaunchAt .. LaunchAt + KeyLife : Status(ring, NodeKey[m], m, w, "custody").ok
      /\ \A m \in Nodes, w \in Nat : Status(ring, NodeKey[m], m, w, "custody").revokedFrom =
           IF news /\ m = Victim THEN c.stolenAt ELSE Never
      /\ news => \A w \in c.detectAt .. c.detectAt + KeyLife : Status(ring, NewKey, Victim, w, "custody").ok
      /\ news => \A w \in Nat : Status(ring, NewKey, Victim, w, "custody").revokedFrom = Never
      /\ NewKey \in PubsFor(ring, Victim) <=> news
  BY <1>5, <1>6, MaySign
<1>8. Victim \in Nodes /\ NewKey # StolenKey /\ \A m \in Nodes : NodeKey[m] = StolenKey <=> m = Victim
  BY NetworkAssumption DEF StolenKey
<1>9. KeyState(ring, f) = Status(ring, f.key, n, u, "custody") /\ (Signed(ring, f) <=> f.key \in PubsFor(ring, n))
  BY DEF KeyState, Signed, n, u
<1>10. CASE f.key = NodeKey[n]
  <2>1. Signed(ring, f) /\ KeyState(ring, f).ok
    BY <1>2, <1>3, <1>7, <1>9, <1>10
  <2>2. KeyState(ring, f).revokedFrom = IF news /\ n = Victim THEN c.stolenAt ELSE Never
    BY <1>2, <1>3, <1>7, <1>9, <1>10
  <2>3. f.key = StolenKey <=> n = Victim
    BY <1>2, <1>8, <1>10
  <2> QED BY <1>2, <1>3, <2>1, <2>2, <2>3 DEF SoundReceipt, news, n, u
<1>11. CASE n = Victim /\ f.key = NewKey /\ c.detectAt <= u /\ news
  <2>1. u \in c.detectAt .. c.detectAt + KeyLife
    BY <1>3, <1>4, <1>11
  <2>2. Signed(ring, f) /\ KeyState(ring, f).ok /\ KeyState(ring, f).revokedFrom = Never
    BY <1>3, <1>7, <1>9, <1>11, <2>1
  <2> QED BY <1>2, <1>3, <1>8, <1>11, <2>2 DEF SoundReceipt, news, n, u
<1> QED
  BY <1>2, <1>10, <1>11 DEF KeyOk

\* The receipts of a bundle that moved as it should are all sound.
LEMMA AllSound ==
  ASSUME NEW c, Compromised(c), NEW now \in Nat, NEW t \in Span, NEW r \in Nat, r < Never,
         NEW sw \in BOOLEAN, NEW ring, RingOk(c, r, sw, ring), NEW told, told => HeardBy(c, r, ring),
         NEW b, NEW path, ReceiptsOk(b, path), PathOk(c, now, t, path, told)
  PROVE  \A j \in DOMAIN b.receipts : SoundReceipt(c, t, HeardBy(c, r, ring), ring, b.receipts[j])
<1> SUFFICES ASSUME NEW j \in DOMAIN b.receipts PROVE SoundReceipt(c, t, HeardBy(c, r, ring), ring, b.receipts[j])
  OBVIOUS
<1>1. PICK k \in DOMAIN path : OfStep(b.receipts[j], path[k])
  BY DEF ReceiptsOk
<1>2. StepOk(c, now, t, path[k], told)
  BY DEF PathOk
<1> QED
  BY <1>1, <1>2, ReceiptSound

\* What the destination finds of a bundle that moved as it should: it turns
\* on the witnesses of the receipts alone.
LEMMA VerifyWitness ==
  ASSUME NEW c, Compromised(c), NEW now \in Nat, NEW t \in Span, NEW sw \in BOOLEAN, NEW ring, RingOk(c, t, sw, ring),
         NEW b, NEW path, ReceiptsOk(b, path), PathOk(c, now, t, path, HeardBy(c, t, ring)),
         b.version = 2, Len(path) <= MaxPath + 2, NEW origin, NEW node
  PROVE  Verify(b, ring, t, origin, node, <<>>).ok <=>
           \A i \in DOMAIN b.receipts :
             Witnessed(b.receipts, [j \in DOMAIN b.receipts |-> KeyState(ring, b.receipts[j])], i, t)
<1> DEFINE items == b.receipts
           keys == [i \in DOMAIN items |-> KeyState(ring, items[i])]
           last == IF node # NoNode THEN node ELSE b.previous
           gaps == Gaps(b, origin, last)
           ok == /\ b.version = 2 /\ Len(items) <= MaxReceipts
                 /\ <<>> # <<>> => /\ Len(<<>>) = Len(items)
                                   /\ \A i \in DOMAIN items :
                                        /\ items[i].this = <<>>[i]
                                        /\ PrevEid(items, i, origin) \in {NoNode, items[i].prev}
                 /\ \A i \in DOMAIN items :
                      /\ Committed(items, i)
                      /\ Signed(ring, items[i])
                      /\ keys[i].ok
                      /\ Covers(items[i], b)
                      /\ Witnessed(items, keys, i, t)
<1>1. Verify(b, ring, t, origin, node, <<>>) = [ok |-> ok, gaps |-> gaps]
  BY Zenon DEF Verify
<1>2. Verify(b, ring, t, origin, node, <<>>).ok <=> ok
  <2> HIDE DEF ok, gaps
  <2> QED BY <1>1
<1>3. /\ IsList(items) /\ Len(items) <= Len(path) /\ IsList(path)
      /\ \A j \in DOMAIN items : /\ items[j].bundle = Identity(b) /\ items[j].payload = b.payload
                                 /\ items[j].chain = <<ChainDigest(SubSeq(items, 1, j - 1))>>
  BY DEF ReceiptsOk, PathOk
<1>4. Len(items) <= MaxReceipts
  <2>1. Len(items) \in Nat /\ Len(path) \in Nat
    BY <1>3, ListFacts
  <2>2. MaxPath \in Nat /\ MaxReceipts \in Nat /\ MaxPath + 2 <= MaxReceipts
    BY NetworkAssumption
  <2> QED BY <1>3, <2>1, <2>2
<1>5. \A j \in DOMAIN items : SoundReceipt(c, t, HeardBy(c, t, ring), ring, items[j])
  BY SpanFacts, AllSound
<1> HIDE DEF items
<1>6. ASSUME NEW i \in DOMAIN items
      PROVE  Committed(items, i) /\ Signed(ring, items[i]) /\ keys[i].ok /\ Covers(items[i], b)
  <2>1. Committed(items, i)
    BY <1>3 DEF Committed
  <2>2. Covers(items[i], b)
    BY <1>3 DEF Covers
  <2>3. Signed(ring, items[i]) /\ KeyState(ring, items[i]).ok
    BY <1>5 DEF SoundReceipt
  <2> QED BY <2>1, <2>2, <2>3
<1> HIDE DEF keys
<1>7. ok <=> \A i \in DOMAIN items : Witnessed(items, keys, i, t)
  BY <1>4, <1>6
<1> QED
  BY <1>2, <1>7 DEF items, keys

\* So the verdict is one the destination can stand by.
LEMMA VerdictSound ==
  ASSUME NEW c, Compromised(c), NEW now \in Nat, NEW t \in Span, NEW sw \in BOOLEAN, NEW ring, RingOk(c, t, sw, ring),
         NEW d, ReceiptsOk(d.b, d.path), PathOk(c, now, t, d.path, HeardBy(c, t, ring)),
         d.b.version = 2, Len(d.path) <= MaxPath + 2, NEW origin, NEW node, d.deliveredAt = t,
         d.atDest = Verify(d.b, ring, t, origin, node, <<>>)
  PROVE  Judged(c, d, ring)
<1> DEFINE items == d.b.receipts
           keys == [i \in DOMAIN items |-> KeyState(ring, items[i])]
           news == HeardBy(c, t, ring)
<1>1. d.atDest.ok <=> \A i \in DOMAIN items : Witnessed(items, keys, i, t)
  BY VerifyWitness, ZenonT(60)
<1>2. \A j \in DOMAIN items : SoundReceipt(c, t, news, ring, items[j])
  BY SpanFacts, AllSound
<1>3. t \in Nat /\ t < Never /\ c.stolenAt \in Nat /\ c.stolenAt < Never
  BY SpanFacts, Times DEF Compromised
<1>4. ASSUME NEW i \in DOMAIN items
      PROVE  /\ keys[i].revokedFrom = IF news /\ items[i].key = StolenKey THEN c.stolenAt ELSE Never
             /\ items[i].forwardedAt \in Nat /\ items[i].forwardedAt <= t
  BY <1>2 DEF SoundReceipt
<1> HIDE DEF items, keys, news
<1>5. ASSUME NEW i \in DOMAIN items, ~Witnessed(items, keys, i, t)
      PROVE  news /\ items[i].key = StolenKey /\ c.stolenAt <= t
  <2>1. keys[i].revokedFrom # Never
    BY <1>5 DEF Witnessed
  <2>2. news /\ items[i].key = StolenKey /\ keys[i].revokedFrom = c.stolenAt
    BY <1>4, <2>1
  <2>3. ~(items[i].forwardedAt < c.stolenAt /\ t < c.stolenAt)
    BY <1>5, <2>2 DEF Witnessed
  <2> QED BY <1>3, <1>4, <2>2, <2>3
<1>6. ASSUME NEW i \in DOMAIN items, news, items[i].key = StolenKey, items[i].forwardedAt >= c.stolenAt
      PROVE  ~Witnessed(items, keys, i, t)
  <2>1. keys[i].revokedFrom = c.stolenAt /\ c.stolenAt # Never
    BY <1>3, <1>4, <1>6
  <2> QED BY <1>3, <1>4, <1>6, <2>1 DEF Witnessed
<1>7. HeardBy(c, t - 1, ring) => news
  BY <1>3, SMTT(60) DEF HeardBy, news
<1> QED
  BY <1>1, <1>5, <1>6, <1>7 DEF Judged, items, news

\* Every delivery is judged so.
LEMMA JudgedStep == ASSUME IInv, IInv', AllJudged, [Next]_vars PROVE AllJudged'
<1> DEFINE c == compromise
<1>1. PICK now \in Nat : NetInv(now)
  BY DEF IInv
<1>2. c' = c /\ \E t \in Nat : now <= t /\ RingsGrow(c, t, rings, rings')
  BY <1>1, StepsGrow
<1>3. PICK t2 \in Nat : now <= t2 /\ RingsGrow(c, t2, rings, rings')
  BY <1>2
<1>4. ASSUME NEW i \in DOMAIN deliveries PROVE Judged(c, deliveries[i], rings'[deliveries[i].dst])
  <2> DEFINE d == deliveries[i]
  <2>1. DeliveryOk(c, now, rings, d)
    BY <1>1, InvariantParts DEF DeliveriesOk
  <2>2. Judged(c, d, rings[d.dst])
    BY DEF AllJudged
  <2> HIDE DEF d
  <2>3. d.dst \in Nodes /\ d.deliveredAt \in Nat /\ d.deliveredAt <= t2
    <3>1. d.dst \in Nodes /\ d.deliveredAt \in Nat /\ d.deliveredAt <= now
      BY <2>1, NetworkAssumption, SpanFacts DEF DeliveryOk
    <3> QED BY <1>3, <3>1
  <2>4. Judged(c, d, rings'[d.dst])
    BY <1>3, <2>2, <2>3, JudgedStays
  <2> QED BY <2>4 DEF d
<1>5. CASE deliveries' = deliveries
  BY <1>2, <1>4, <1>5 DEF AllJudged
<1>6. CASE Deliver
  <2> PICK e : e = Head(queue)
    OBVIOUS
  <2> DEFINE opts == [Opts(e, e.t) EXCEPT !.hopsReleased = e.b.hopCount]
             b == IF e.node \in Custodians THEN Stamp(e.b, SignerAt(e), e.node, opts) ELSE e.b
             verdict == Verify(b, RingAt(e), e.t, b.source, e.node, <<>>)
             path == Append(e.path, Step(e, e.t))
             d == [b |-> b, dst |-> e.dst, path |-> path, deliveredAt |-> e.t, atDest |-> verdict]
  <2>1. queue # <<>> /\ Head(queue).kind = "arrive" /\ e.node = e.dst /\ rings' = RingsAt(e)
        /\ deliveries' = Append(deliveries, d)
    BY <1>6 DEF Deliver, Learn, RingsAt
  <2> HIDE DEF b, verdict, path
  <2>2. d.b = b /\ d.dst = e.dst /\ d.path = path /\ d.deliveredAt = e.t /\ d.atDest = verdict
    OBVIOUS
  <2> HIDE DEF d
  <2>3. Learnt(c, now, e.t, e)
    BY <1>1, <2>1, LearnFacts
  <2>4. /\ e.t \in Span /\ RingOk(c, e.t, switching, RingAt(e)) /\ rings'[e.node] = RingAt(e)
    BY <2>1, <2>3 DEF Learnt, ArriveOk
  <2> DEFINE n == Len(deliveries) ds == deliveries'
  <2>5. /\ n \in Nat /\ DOMAIN deliveries = 1 .. n /\ DOMAIN ds = 1 .. n + 1
        /\ (\A i \in 1 .. n : ds[i] = deliveries[i]) /\ ds[n + 1] = d
    <3>1. IsList(deliveries)
      BY <1>1, InvariantParts DEF DeliveriesOk
    <3> QED BY <2>1, <3>1, ListAppend, ListFacts
  <2>6. PICK t3 \in Nat : NetInv(t3)'
    BY DEF IInv
  <2>7. DeliveryOk(c, t3, rings', d)
    <3>1. DeliveriesOk(c, t3, rings', ds)
      BY <1>2, <2>6 DEF NetInv
    <3> HIDE DEF ds
    <3>2. n + 1 \in DOMAIN ds
      BY <2>5
    <3> QED BY <2>5, <3>1, <3>2 DEF DeliveriesOk
  <2>8. /\ d.b.version = 2 /\ Len(d.path) <= MaxPath + 2 /\ ReceiptsOk(d.b, d.path)
        /\ PathOk(c, t3, e.t, d.path, HeardBy(c, e.t, RingAt(e)))
    BY <2>1, <2>2, <2>4, <2>7 DEF DeliveryOk
  <2>9. Judged(c, d, RingAt(e))
    <3>1. Compromised(c) /\ switching \in BOOLEAN
      BY <1>1, InvariantParts
    <3>2. d.atDest = Verify(d.b, RingAt(e), e.t, d.b.source, e.node, <<>>)
      BY <2>2 DEF verdict
    <3> QED BY <2>2, <2>4, <2>8, <3>1, <3>2, VerdictSound
  <2>10. Judged(c, d, rings'[d.dst])
    BY <2>1, <2>2, <2>4, <2>9
  <2>11. \A i \in 1 .. n + 1 : i \in 1 .. n \/ i = n + 1
    BY <2>5
  <2>12. \A i \in DOMAIN ds : Judged(c, ds[i], rings'[ds[i].dst])
    <3> HIDE DEF ds, n
    <3> QED BY <1>4, <2>5, <2>10, <2>11
  <2> QED BY <1>2, <2>12 DEF AllJudged
<1> QED
  BY <1>5, <1>6 DEF Next, Compromise, Detect, Strand, Forward, ClearPeriod, vars

\* The verdicts of the destinations, against what they knew.
LEMMA VerdictsHold == IInv /\ AllJudged => DestinationJudges
<1> SUFFICES ASSUME IInv, AllJudged, NEW i \in DOMAIN deliveries
             PROVE  LET d == deliveries[i]
                        copied == {j \in DOMAIN d.b.receipts : d.b.receipts[j].key = StolenKey}
                    IN  /\ ~d.atDest.ok => /\ copied # {}
                                           /\ compromise.stolenAt <= d.deliveredAt
                                           /\ KnewRevocation(d.dst, d.deliveredAt + 1)
                        /\ KnewRevocation(d.dst, d.deliveredAt)
                           /\ (\E j \in copied : d.b.receipts[j].forwardedAt >= compromise.stolenAt)
                           => ~d.atDest.ok
  BY DEF DestinationJudges
<1>1. PICK now \in Nat : NetInv(now)
  BY DEF IInv
<1> DEFINE d == deliveries[i] c == compromise t == d.deliveredAt u == t + 1
<1>2. DeliveryOk(c, now, rings, d) /\ Judged(c, d, rings[d.dst])
  BY <1>1, InvariantParts DEF DeliveriesOk, AllJudged
<1> HIDE DEF d
<1>3. d.dst \in Nodes /\ t \in Int /\ u \in Int /\ u - 1 = t
  BY <1>2, NetworkAssumption, SpanFacts, SMTT(60) DEF DeliveryOk
<1> HIDE DEF t, u
<1>4. /\ KnewRevocation(d.dst, u) <=> HeardBy(c, u - 1, rings[d.dst])
      /\ KnewRevocation(d.dst, t) <=> HeardBy(c, t - 1, rings[d.dst])
  BY <1>1, <1>3, Knew
<1> QED
  BY <1>2, <1>3, <1>4 DEF Judged, d, t, u

\* A destination refuses a bundle only for the copied key, and refuses what
\* was signed with it after the copy once it has heard
\* (transport/bpv7/receipt-v2.mjs:130-188).
THEOREM DestinationsJudge == Spec => []DestinationJudges
<1>1. Init => IInv /\ AllJudged
  <2>1. Init => AllJudged
    BY DEF Init, AllJudged
  <2> QED BY <2>1, InitInvariant
<1>2. IInv /\ AllJudged /\ [Next]_vars => (IInv /\ AllJudged)'
  BY StepInvariant, JudgedStep
<1>3. IInv /\ AllJudged => DestinationJudges
  BY VerdictsHold
<1> QED
  BY <1>1, <1>2, <1>3, PTL DEF Spec

----------------------------------------------------------------------------
\* Receipt j of a claim earns its custodian's operator the line c.
Earns(ring, delivered, claim, j, c) ==
  /\ Admitted(claim, delivered) /\ Creditable(ring, claim, j)
  /\ c = Line(claim, j) /\ c.op # Owner

\* No two lines are of the same carriage.
PaidOnceEach(lines) == \A c, o \in lines : c.bundle = o.bundle /\ c.hop = o.hop => c = o

Booked(lines, c) == \E o \in lines : o.bundle = c.bundle /\ o.hop = c.hop

\* From lines v to lines w the receipts of a claim that "which" has are credited.
CreditedBy(ring, delivered, claim, which, v, w) ==
  /\ v \subseteq w /\ (PaidOnceEach(v) => PaidOnceEach(w))
  /\ \A c \in w : c \in v \/ \E j \in which : Earns(ring, delivered, claim, j, c)
  /\ \A j \in which : \A c : Earns(ring, delivered, claim, j, c) => Booked(w, c)

\* One receipt.
LEMMA ReceiptCredit ==
  ASSUME NEW ring, NEW delivered, NEW claim, Admitted(claim, delivered), NEW v, NEW j
  PROVE  CreditedBy(ring, delivered, claim, {j}, v, CreditReceipt(ring, claim, v, j))
<1> DEFINE line == Line(claim, j) w == CreditReceipt(ring, claim, v, j)
<1>1. CASE Creditable(ring, claim, j) /\ line.op # Owner /\ ~\E c \in v : c.bundle = line.bundle /\ c.hop = line.hop
  <2>1. w = v \cup {line}
    BY <1>1 DEF CreditReceipt
  <2>2. Earns(ring, delivered, claim, j, line)
    BY <1>1 DEF Earns
  <2>3. \A c : Earns(ring, delivered, claim, j, c) => c = line
    BY DEF Earns
  <2> HIDE DEF line, w
  <2>4. PaidOnceEach(v) => PaidOnceEach(w)
    BY <1>1, <2>1 DEF PaidOnceEach
  <2>5. Booked(w, line)
    BY <2>1 DEF Booked
  <2>6. CreditedBy(ring, delivered, claim, {j}, v, w)
    BY <2>1, <2>2, <2>3, <2>4, <2>5 DEF CreditedBy
  <2> QED BY <2>6 DEF w
<1>2. CASE ~(Creditable(ring, claim, j) /\ line.op # Owner /\ ~\E c \in v : c.bundle = line.bundle /\ c.hop = line.hop)
  <2>1. w = v
    BY <1>2 DEF CreditReceipt
  <2>2. \A c : Earns(ring, delivered, claim, j, c) => Booked(v, c)
    BY <1>2 DEF Earns, Booked
  <2> HIDE DEF line, w
  <2>3. CreditedBy(ring, delivered, claim, {j}, v, w)
    BY <2>1, <2>2 DEF CreditedBy
  <2> QED BY <2>3 DEF w
<1> QED
  BY <1>1, <1>2

\* One receipt after others.
LEMMA CreditTwice ==
  ASSUME NEW ring, NEW delivered, NEW claim, NEW S, NEW j, NEW u, NEW v, NEW w,
         CreditedBy(ring, delivered, claim, S, u, v), CreditedBy(ring, delivered, claim, {j}, v, w)
  PROVE  CreditedBy(ring, delivered, claim, S \cup {j}, u, w)
<1>1. u \subseteq w /\ (PaidOnceEach(u) => PaidOnceEach(w))
  BY DEF CreditedBy
<1>2. \A c \in w : c \in u \/ \E k \in S \cup {j} : Earns(ring, delivered, claim, k, c)
  BY DEF CreditedBy
<1>3. \A k \in S \cup {j} : \A c : Earns(ring, delivered, claim, k, c) => Booked(w, c)
  BY DEF CreditedBy, Booked
<1> QED
  BY <1>1, <1>2, <1>3 DEF CreditedBy

Receipts(claim) == DOMAIN claim.bundle.receipts

\* A claim.
LEMMA ClaimCredit ==
  ASSUME NEW ring, NEW delivered, NEW claim, IsList(claim.bundle.receipts), NEW v
  PROVE  CreditedBy(ring, delivered, claim, Receipts(claim), v, Credit(ring, delivered, v, claim))
<1> DEFINE n == Len(claim.bundle.receipts) w == Credit(ring, delivered, v, claim)
<1>1. CASE ~Admitted(claim, delivered)
  <2>1. w = v
    BY <1>1 DEF Credit
  <2>2. \A j : \A c : ~Earns(ring, delivered, claim, j, c)
    BY <1>1 DEF Earns
  <2> HIDE DEF w
  <2>3. CreditedBy(ring, delivered, claim, Receipts(claim), v, w)
    BY <2>1, <2>2 DEF CreditedBy
  <2> QED BY <2>3 DEF w
<1>2. CASE Admitted(claim, delivered)
  <2>1. PICK U : claim.bundle.receipts \in Seq(U)
    BY DEF IsList
  <2>2. n \in Nat /\ DOMAIN claim.bundle.receipts = 1 .. n
    BY <2>1
  <2> DEFINE all == v \cup {Line(claim, j) : j \in 1 .. n} V == SUBSET all
             id == [j \in DOMAIN claim.bundle.receipts |-> j]
  <2>3. v \in V /\ \A j \in 1 .. n : id[j] = j
    BY <2>2
  <2>4. \A x \in V : \A j \in 1 .. n : CreditReceipt(ring, claim, x, id[j]) \in V
    <3>1. ASSUME NEW x \in V, NEW j \in 1 .. n PROVE CreditReceipt(ring, claim, x, j) \in V
      <4>1. CreditReceipt(ring, claim, x, j) = x \/ CreditReceipt(ring, claim, x, j) = x \cup {Line(claim, j)}
        BY DEF CreditReceipt
      <4>2. Line(claim, j) \in all
        OBVIOUS
      <4> HIDE DEF all
      <4> QED BY <4>1, <4>2
    <3> HIDE DEF V, id
    <3> QED BY <2>3, <3>1
  <2>5. PICK h \in [0 .. n -> V] : CreditRun(ring, delivered, v, claim, h)
    <3> HIDE DEF V
    <3> QED BY <1>2, <2>1, <2>3, <2>4, CreditIterates
  <2>6. h[0] = v /\ h[n] = w /\ \A j \in 1 .. n : h[j] = CreditReceipt(ring, claim, h[j - 1], j)
    <3>1. h[0] = v /\ h[n] = w /\ \A j \in 1 .. n : h[j] = CreditReceipt(ring, claim, h[j - 1], id[j])
      BY <2>5 DEF CreditRun
    <3> HIDE DEF id
    <3> QED BY <2>3, <3>1
  <2> DEFINE P == {m \in Nat : m <= n => CreditedBy(ring, delivered, claim, 1 .. m, v, h[m])}
  <2> HIDE DEF V, w, n
  <2>7. 0 \in P
    <3>1. CreditedBy(ring, delivered, claim, {}, v, v)
      BY DEF CreditedBy
    <3> QED BY <2>6, <3>1
  <2>8. ASSUME NEW m \in Nat, m \in P PROVE m + 1 \in P
    <3>1. SUFFICES ASSUME m + 1 <= n PROVE CreditedBy(ring, delivered, claim, 1 .. m + 1, v, h[m + 1])
      OBVIOUS
    <3> DEFINE l == m + 1
    <3>2. l \in 1 .. n /\ l - 1 = m /\ m <= n /\ 1 .. l = (1 .. m) \cup {l}
      BY <2>2, <3>1
    <3>3. CreditedBy(ring, delivered, claim, 1 .. m, v, h[m])
      BY <2>8, <3>2
    <3> HIDE DEF l, P
    <3>4. h[l] = CreditReceipt(ring, claim, h[m], l)
      BY <2>6, <3>2
    <3>5. CreditedBy(ring, delivered, claim, {l}, h[m], h[l])
      BY <1>2, <3>4, ReceiptCredit
    <3>6. CreditedBy(ring, delivered, claim, (1 .. m) \cup {l}, v, h[l])
      BY <3>3, <3>5, CreditTwice
    <3>7. CreditedBy(ring, delivered, claim, 1 .. l, v, h[l])
      BY Zenon, <3>2, <3>6
    <3> QED BY <3>7 DEF l
  <2>9. n \in P
    <3> HIDE DEF P
    <3> QED BY <2>2, <2>7, <2>8, Induction
  <2>10. CreditedBy(ring, delivered, claim, 1 .. n, v, w)
    BY <2>2, <2>6, <2>9
  <2> QED BY <2>2, <2>10 DEF Receipts, n, w
<1> QED
  BY <1>1, <1>2

\* What the clearing of a list of claims comes to.
Cleared(ring, delivered, claims, which, w) ==
  /\ PaidOnceEach(w)
  /\ \A c \in w : \E m \in which : \E j \in Receipts(claims[m]) : Earns(ring, delivered, claims[m], j, c)
  /\ \A m \in which : \A j \in Receipts(claims[m]) : \A c :
       Earns(ring, delivered, claims[m], j, c) => Booked(w, c)

\* One claim after others.
LEMMA ClearOneMore ==
  ASSUME NEW ring, NEW delivered, NEW claims, NEW S, NEW m, NEW v, NEW w,
         Cleared(ring, delivered, claims, S, v),
         CreditedBy(ring, delivered, claims[m], Receipts(claims[m]), v, w)
  PROVE  Cleared(ring, delivered, claims, S \cup {m}, w)
<1>1. PaidOnceEach(w) /\ v \subseteq w
  BY DEF CreditedBy, Cleared
<1>2. \A c \in w : \E k \in S \cup {m} : \E j \in Receipts(claims[k]) : Earns(ring, delivered, claims[k], j, c)
  BY DEF CreditedBy, Cleared
<1>3. ASSUME NEW k \in S \cup {m}, NEW j \in Receipts(claims[k]), NEW c, Earns(ring, delivered, claims[k], j, c)
      PROVE  Booked(w, c)
  <2>1. CASE k = m
    BY <1>3, <2>1 DEF CreditedBy
  <2>2. CASE k \in S
    <3>1. Booked(v, c)
      BY <1>3, <2>2 DEF Cleared
    <3> QED BY <1>1, <3>1 DEF Booked
  <2> QED BY <2>1, <2>2
<1> QED
  BY <1>1, <1>2, <1>3 DEF Cleared

\* The clearing credits the receipts that earn something, each carriage once.
LEMMA ClearFacts ==
  ASSUME NEW ring, NEW delivered, NEW claims, IsList(claims),
         \A m \in DOMAIN claims : IsList(claims[m].bundle.receipts)
  PROVE  Cleared(ring, delivered, claims, DOMAIN claims, Clear(claims, ring, delivered))
<1> DEFINE n == Len(claims) w == Clear(claims, ring, delivered)
           all == UNION {{Line(claims[m], j) : j \in Receipts(claims[m])} : m \in DOMAIN claims} V == SUBSET all
<1>1. PICK U : claims \in Seq(U)
  BY DEF IsList
<1>2. n \in Nat /\ DOMAIN claims = 1 .. n
  BY <1>1
<1>3. NothingCredited \in V
  BY DEF NothingCredited
<1>4. ASSUME NEW v \in V, NEW m \in 1 .. n PROVE Credit(ring, delivered, v, claims[m]) \in V
  <2>1. CreditedBy(ring, delivered, claims[m], Receipts(claims[m]), v, Credit(ring, delivered, v, claims[m]))
    BY <1>2, ClaimCredit
  <2>2. ASSUME NEW c \in Credit(ring, delivered, v, claims[m]) PROVE c \in all
    <3>1. c \in v \/ \E j \in Receipts(claims[m]) : c = Line(claims[m], j)
      BY <2>1, <2>2 DEF CreditedBy, Earns
    <3>2. m \in DOMAIN claims /\ v \subseteq all
      BY <1>2
    <3>3. \A j \in Receipts(claims[m]) : Line(claims[m], j) \in all
      BY <3>2
    <3> HIDE DEF all
    <3> QED BY <3>1, <3>2, <3>3
  <2> QED BY <2>2
<1>5. PICK h \in [0 .. n -> V] : ClearRun(ring, delivered, claims, h)
  <2> HIDE DEF V
  <2> QED BY <1>1, <1>3, <1>4, ClearIterates
<1>6. h[0] = {} /\ h[n] = w /\ \A m \in 1 .. n : h[m] = Credit(ring, delivered, h[m - 1], claims[m])
  BY <1>5 DEF ClearRun, NothingCredited
<1> DEFINE P == {m \in Nat : m <= n => Cleared(ring, delivered, claims, 1 .. m, h[m])}
<1> HIDE DEF V, w, n
<1>7. 0 \in P
  <2>1. Cleared(ring, delivered, claims, {}, {})
    BY DEF Cleared, PaidOnceEach
  <2>2. 1 .. 0 = {}
    OBVIOUS
  <2>3. Cleared(ring, delivered, claims, 1 .. 0, h[0])
    BY <1>6, <2>1, <2>2
  <2> QED BY <2>3
<1>8. ASSUME NEW m \in Nat, m \in P PROVE m + 1 \in P
  <2>1. SUFFICES ASSUME m + 1 <= n PROVE Cleared(ring, delivered, claims, 1 .. m + 1, h[m + 1])
    OBVIOUS
  <2> DEFINE l == m + 1
  <2>2. l \in 1 .. n /\ l - 1 = m /\ m <= n /\ 1 .. l = (1 .. m) \cup {l}
    BY <1>2, <2>1
  <2>3. Cleared(ring, delivered, claims, 1 .. m, h[m])
    BY <1>8, <2>2
  <2> HIDE DEF l, P
  <2>4. h[l] = Credit(ring, delivered, h[m], claims[l]) /\ IsList(claims[l].bundle.receipts)
    BY <1>2, <1>6, <2>2
  <2>5. CreditedBy(ring, delivered, claims[l], Receipts(claims[l]), h[m], h[l])
    BY <2>4, ClaimCredit
  <2>6. Cleared(ring, delivered, claims, (1 .. m) \cup {l}, h[l])
    BY <2>3, <2>5, ClearOneMore
  <2>7. Cleared(ring, delivered, claims, 1 .. l, h[l])
    BY Zenon, <2>2, <2>6
  <2> QED BY <2>7 DEF l
<1>9. n \in P
  <2> HIDE DEF P
  <2> QED BY <1>2, <1>7, <1>8, Induction
<1>10. Cleared(ring, delivered, claims, 1 .. n, w)
  BY <1>2, <1>6, <1>9
<1> QED
  BY <1>2, <1>10 DEF w

----------------------------------------------------------------------------
\* What is kept of a list is in the list and in the set.
LEMMA AmongKeeps ==
  ASSUME NEW x, IsList(x), NEW S
  PROVE  Among(x, S) \in Seq({x[i] : i \in DOMAIN x} \cap S)
<1> DEFINE U == {x[i] : i \in DOMAIN x} W == U \cap S n == Len(x)
<1>1. x \in Seq(U) /\ n \in Nat /\ DOMAIN x = 1 .. n
  BY DEF IsList
<1> HIDE DEF U
<1>2. PICK h \in [0 .. Len(x) -> Seq(U)] : AmongRun(x, S, h)
  BY <1>1, AmongExists
<1> DEFINE P == {m \in Nat : m <= n => h[m] \in Seq(W)}
<1>3. h[0] = <<>> /\ h[n] = Among(x, S)
      /\ \A i \in 1 .. n : h[i] = IF x[i] \in S THEN Append(h[i - 1], x[i]) ELSE h[i - 1]
  BY <1>2 DEF AmongRun
<1>4. \A i \in 1 .. n : x[i] \in U
  BY <1>1 DEF U
<1> HIDE DEF n
<1>5. 0 \in P
  BY <1>3
<1>6. ASSUME NEW m \in Nat, m \in P PROVE m + 1 \in P
  <2>1. SUFFICES ASSUME m + 1 <= n PROVE h[m + 1] \in Seq(W)
    OBVIOUS
  <2> DEFINE l == m + 1
  <2>2. l \in 1 .. n /\ l - 1 = m /\ m <= n
    BY <1>1, <2>1
  <2>3. h[m] \in Seq(W)
    BY <1>6, <2>2
  <2> HIDE DEF l, P
  <2>4. x[l] \in S => x[l] \in W
    BY <1>4, <2>2
  <2>5. h[l] = IF x[l] \in S THEN Append(h[m], x[l]) ELSE h[m]
    BY <1>3, <2>2
  <2> HIDE DEF W
  <2>6. h[l] \in Seq(W)
    BY <2>3, <2>4, <2>5
  <2> QED BY <2>6 DEF l
<1>7. n \in P
  <2> HIDE DEF P
  <2> QED BY <1>1, <1>5, <1>6, Induction
<1>8. Among(x, S) \in Seq(W)
  BY <1>1, <1>3, <1>7
<1> QED
  BY <1>8 DEF U

HonestClaim(d) == [bundle |-> d.b, arrivedAt |-> d.deliveredAt]

LateClaim(b) == [bundle |-> b, arrivedAt |-> Horizon]

Unseen(d) == \A k \in DOMAIN d.path : d.path[k].node # Victim

\* What a thief makes of a delivery: three lists of receipts, a bundle never
\* sent, and the delivery itself.
ForgeryOf(d, b) ==
  b \in {Billed(d.b, Before), Billed(d.b, compromise.stolenAt + 1), Spliced(d.b, Before),
         Billed([d.b EXCEPT !.created = "never sent", !.receipts = <<>>], Before), d.b}

Forgeries == {LateClaim(b) : b \in UNION {{Forged(deliveries[i])[j] : j \in 1 .. 5} : i \in {i \in DOMAIN deliveries : Unseen(deliveries[i])}}}

\* The parts of a list of five.
LEMMA Five ==
  ASSUME NEW v1, NEW v2, NEW v3, NEW v4, NEW v5
  PROVE  /\ DOMAIN <<v1, v2, v3, v4, v5>> = 1 .. 5
         /\ \A j \in 1 .. 5 : <<v1, v2, v3, v4, v5>>[j] \in {v1, v2, v3, v4, v5}
OBVIOUS

\* Two lists, one after the other.
LEMMA Joined ==
  ASSUME NEW U, NEW x \in Seq(U), NEW W, NEW y \in Seq(W)
  PROVE  /\ IsList(x \o y)
         /\ \A i \in 1 .. Len(x) : i \in DOMAIN (x \o y) /\ (x \o y)[i] = x[i]
         /\ \A m \in DOMAIN (x \o y) : (x \o y)[m] \in U \cup W
<1> DEFINE T == U \cup W z == x \o y
<1>1. x \in Seq(T) /\ y \in Seq(T)
  OBVIOUS
<1> HIDE DEF T
<1>2. z \in Seq(T) /\ Len(z) = Len(x) + Len(y) /\ Len(x) \in Nat /\ Len(y) \in Nat
      /\ \A i \in 1 .. Len(x) : z[i] = x[i]
  BY <1>1, ConcatProperties
<1>3. DOMAIN z = 1 .. Len(z) /\ \A m \in DOMAIN z : z[m] \in T
  BY <1>2
<1> HIDE DEF z
<1>4. \A i \in 1 .. Len(x) : i \in DOMAIN z
  BY <1>2, <1>3
<1> QED
  BY <1>2, <1>3, <1>4 DEF T, z, IsList

\* The claims: the deliveries, and what is made of those that did not pass the
\* victim.
LEMMA ClaimsAre ==
  ASSUME NEW now, NetInv(now)
  PROVE  /\ IsList(Claims)
         /\ \A i \in DOMAIN deliveries : i \in DOMAIN Claims /\ Claims[i] = HonestClaim(deliveries[i])
         /\ \A m \in DOMAIN Claims :
              \/ \E i \in DOMAIN deliveries : Claims[m] = HonestClaim(deliveries[i])
              \/ \E i \in DOMAIN deliveries : \E b : Unseen(deliveries[i]) /\ ForgeryOf(deliveries[i], b) /\ Claims[m] = LateClaim(b)
<1> DEFINE n == Len(deliveries)
           honest == [i \in DOMAIN deliveries |-> HonestClaim(deliveries[i])]
           made(i) == LET f == Forged(NotVia[i]) IN [j \in DOMAIN f |-> LateClaim(f[j])]
           seqs == [i \in DOMAIN NotVia |-> made(i)]
           H == {HonestClaim(deliveries[i]) : i \in DOMAIN deliveries}
<1>1. IsList(deliveries) /\ n \in Nat /\ DOMAIN deliveries = 1 .. n
  BY InvariantParts, ListFacts DEF DeliveriesOk
<1>2. Claims = honest \o FlattenSeq(seqs)
  BY DEF Claims, HonestClaim, LateClaim
<1>3. honest \in Seq(H) /\ Len(honest) = n
  <2> HIDE DEF n
  <2> QED BY <1>1
<1>4. NotVia \in Seq({deliveries[i] : i \in {i \in DOMAIN deliveries : Unseen(deliveries[i])}})
  <2> DEFINE S == {d \in ToSet(deliveries) : d.dst \in GroundNodes /\ \A i \in DOMAIN d.path : d.path[i].node # Victim}
             D == {deliveries[i] : i \in DOMAIN deliveries}
             E == {deliveries[i] : i \in {i \in DOMAIN deliveries : Unseen(deliveries[i])}}
  <2>1. NotVia = Among(deliveries, S)
    BY DEF NotVia
  <2>2. NotVia \in Seq(D \cap S)
    <3> HIDE DEF S
    <3> QED BY <1>1, <2>1, AmongKeeps
  <2>3. D \cap S \subseteq E
    BY DEF Unseen
  <2> HIDE DEF D, S, E
  <2>4. NotVia \in Seq(E)
    BY <2>2, <2>3
  <2> QED BY <2>4 DEF E
<1>5. ASSUME NEW i \in DOMAIN NotVia PROVE made(i) \in Seq(Forgeries)
  <2>1. PICK k \in DOMAIN deliveries : Unseen(deliveries[k]) /\ NotVia[i] = deliveries[k]
    BY <1>4
  <2> DEFINE f == Forged(NotVia[i])
  <2>2. DOMAIN f = 1 .. 5
    BY Five DEF Forged
  <2>3. \A j \in 1 .. 5 : LateClaim(f[j]) \in Forgeries
    BY <2>1 DEF Forgeries
  <2> HIDE DEF f
  <2>4. made(i) = [j \in 1 .. 5 |-> LateClaim(f[j])]
    BY <2>2 DEF f
  <2> QED BY <2>3, <2>4
<1>6. seqs \in Seq(Seq(Forgeries))
  <2>1. Len(NotVia) \in Nat /\ DOMAIN NotVia = 1 .. Len(NotVia)
    BY <1>4
  <2> HIDE DEF made
  <2> QED BY <1>5, <2>1
<1>7. FlattenSeq(seqs) \in Seq(Forgeries)
  <2> HIDE DEF seqs
  <2>1. PICK h \in [0 .. Len(seqs) -> Seq(Forgeries)] : FlattenRun(seqs, h)
    BY <1>6, FlattenExists
  <2>2. Len(seqs) \in 0 .. Len(seqs)
    BY <1>6
  <2> QED BY <2>1, <2>2 DEF FlattenRun
<1>8. ASSUME NEW x \in Forgeries
      PROVE  \E i \in DOMAIN deliveries : \E b : Unseen(deliveries[i]) /\ ForgeryOf(deliveries[i], b) /\ x = LateClaim(b)
  <2>1. PICK i \in DOMAIN deliveries, j \in 1 .. 5 : Unseen(deliveries[i]) /\ x = LateClaim(Forged(deliveries[i])[j])
    BY DEF Forgeries
  <2>2. ForgeryOf(deliveries[i], Forged(deliveries[i])[j])
    BY Five DEF Forged, ForgeryOf
  <2> QED BY <2>1, <2>2
<1> DEFINE flat == FlattenSeq(seqs)
<1> HIDE DEF honest, flat, H, n
<1>9. /\ IsList(Claims) /\ (\A i \in 1 .. n : i \in DOMAIN Claims /\ Claims[i] = honest[i])
      /\ \A m \in DOMAIN Claims : Claims[m] \in H \cup Forgeries
  BY <1>2, <1>3, <1>7, Joined DEF flat
<1>10. \A i \in DOMAIN deliveries : honest[i] = HonestClaim(deliveries[i])
  BY DEF honest
<1>11. \A x \in H : \E i \in DOMAIN deliveries : x = HonestClaim(deliveries[i])
  BY DEF H
<1> QED
  BY <1>1, <1>8, <1>9, <1>10, <1>11

----------------------------------------------------------------------------
\* The clearing's view of the key of a receipt.
CreditKey(ring, f) == [KeyState(ring, f) EXCEPT !.ok = @ /\ Signed(ring, f)]

\* It is the verifier's, but for a key that is not the signer's own.
LEMMA CreditKeyIs ==
  ASSUME NEW ring, NEW f
  PROVE  /\ CreditKey(ring, f).revokedFrom = KeyState(ring, f).revokedFrom
         /\ Signed(ring, f) /\ KeyState(ring, f).ok => CreditKey(ring, f).ok
<1>1. PICK x, y : KeyState(ring, f) = [ok |-> x, revokedFrom |-> y]
  BY DEF KeyState, Status, Judge
<1> DEFINE k == KeyState(ring, f)
<1>2. k = [ok |-> x, revokedFrom |-> y] /\ k.ok = x /\ k.revokedFrom = y
  BY <1>1
<1>3. CreditKey(ring, f) = [k EXCEPT !.ok = k.ok /\ Signed(ring, f)]
  BY DEF CreditKey
<1> HIDE DEF k
<1>4. CreditKey(ring, f) = [ok |-> (x /\ Signed(ring, f)), revokedFrom |-> y]
  BY <1>2, <1>3
<1>5. CreditKey(ring, f).revokedFrom = y /\ CreditKey(ring, f).ok = (x /\ Signed(ring, f))
  BY <1>4
<1>6. ASSUME Signed(ring, f), k.ok PROVE CreditKey(ring, f).ok
  <2>1. x
    BY Zenon, <1>2, <1>6
  <2>2. x /\ Signed(ring, f)
    BY <1>6, <2>1
  <2> QED BY Zenon, <1>5, <2>2
<1> QED
  BY <1>2, <1>5, <1>6 DEF k

\* When nothing is left to happen, the ground has heard the news.
LEMMA HouseHeard ==
  ASSUME NEW now, NetInv(now), queue = <<>>, NEW house \in GroundNodes
  PROVE  RingOk(compromise, now, TRUE, rings[house]) /\ HeardBy(compromise, now, rings[house])
<1>1. switching
  <2>1. QueueOk(compromise, now, switching, rings, queue) /\ switching \in BOOLEAN
    BY InvariantParts
  <2>2. DOMAIN queue = {}
    OBVIOUS
  <2> QED BY <2>1, <2>2 DEF QueueOk
<1>2. RingsOk(compromise, now, switching, rings)
  BY InvariantParts
<1> QED
  BY <1>1, <1>2 DEF RingsOk, RingOk

\* To the house every receipt of a delivery is sound.
LEMMA HouseSound ==
  ASSUME NEW now, NetInv(now), queue = <<>>, NEW house \in GroundNodes, NEW i \in DOMAIN deliveries
  PROVE  \A j \in DOMAIN deliveries[i].b.receipts :
           SoundReceipt(compromise, deliveries[i].deliveredAt, TRUE, rings[house], deliveries[i].b.receipts[j])
<1> DEFINE c == compromise d == deliveries[i] t == d.deliveredAt ring == rings[house] told == HeardBy(c, t, rings[d.dst])
<1>1. now \in Nat /\ now < Never /\ Compromised(c) /\ DeliveryOk(c, now, rings, d)
  BY InvariantParts DEF DeliveriesOk
<1>2. RingOk(c, now, TRUE, ring) /\ HeardBy(c, now, ring)
  BY HouseHeard
<1> HIDE DEF ring, d
<1>3. t \in Span /\ ReceiptsOk(d.b, d.path) /\ PathOk(c, now, t, d.path, told)
  BY <1>1 DEF DeliveryOk
<1> HIDE DEF t, told
<1>4. told => HeardBy(c, now, ring)
  BY <1>2
<1>5. \A j \in DOMAIN d.b.receipts : SoundReceipt(c, t, HeardBy(c, now, ring), ring, d.b.receipts[j])
  BY <1>1, <1>2, <1>3, <1>4, AllSound
<1>6. HeardBy(c, now, ring) = TRUE
  BY <1>2 DEF HeardBy
<1> QED
  BY <1>5, <1>6 DEF d, t, ring

Delivered == {Identity(deliveries[i].b) : i \in DOMAIN deliveries}

\* A delivery is admitted, and a receipt on it that the copied key did not make, or
\* that came before the copy, is credited.
LEMMA DeliveryEarns ==
  ASSUME NEW now, NetInv(now), queue = <<>>, NEW house \in GroundNodes, NEW i \in DOMAIN deliveries,
         NEW j \in DOMAIN deliveries[i].b.receipts, NEW f, f = deliveries[i].b.receipts[j], OpOf[f.this] # Owner,
         f.key # StolenKey \/ deliveries[i].deliveredAt < compromise.stolenAt,
         NEW claim, claim = HonestClaim(deliveries[i])
  PROVE  Earns(rings[house], Delivered, claim, j, Line(claim, j))
<1> DEFINE d == deliveries[i] items == d.b.receipts ring == rings[house] t == d.deliveredAt
           keys == [m \in DOMAIN items |-> CreditKey(ring, items[m])]
<1>1. claim.bundle = d.b /\ claim.arrivedAt = t
  BY DEF HonestClaim
<1>2. ReceiptsOk(d.b, d.path) /\ t \in Nat /\ Compromised(compromise)
  BY InvariantParts, SpanFacts DEF DeliveriesOk, DeliveryOk
<1>3. Identity(d.b) \in Delivered
  BY DEF Delivered
<1>4. SoundReceipt(compromise, t, TRUE, ring, items[j])
  BY HouseSound
<1>5. keys[j] = CreditKey(ring, items[j]) /\ items[j] = f
  OBVIOUS
<1> HIDE DEF d, ring
<1>6. Admitted(claim, Delivered)
  <2>1. \A m \in DOMAIN items : Committed(items, m)
    BY <1>2 DEF ReceiptsOk, Committed
  <2> QED BY <1>1, <1>3, <2>1 DEF Admitted
<1> HIDE DEF t
<1>7. f.forwardedAt \in Nat /\ f.forwardedAt <= t /\ keys[j].ok
      /\ keys[j].revokedFrom = IF f.key = StolenKey THEN compromise.stolenAt ELSE Never
  BY <1>4, <1>5, CreditKeyIs DEF SoundReceipt
<1>8. Creditable(ring, claim, j)
  <2>1. Creditable(ring, claim, j) <=> keys[j].ok /\ Witnessed(items, keys, j, t)
    BY <1>1 DEF Creditable, CreditKey
  <2>2. compromise.stolenAt \in Nat
    BY <1>2 DEF Compromised
  <2>3. f.key # StolenKey \/ t < compromise.stolenAt
    BY DEF d, t
  <2> HIDE DEF keys, items
  <2>4. Witnessed(items, keys, j, t)
    BY <1>2, <1>5, <1>7, <2>2, <2>3 DEF Witnessed
  <2> QED BY <1>7, <2>1, <2>4
<1>9. Line(claim, j).op = OpOf[f.this]
  BY <1>1, <1>5 DEF Line
<1> QED
  BY <1>6, <1>8, <1>9 DEF Earns, ring

----------------------------------------------------------------------------
\* Bundle s is bundle b with other receipts.
Reworked(b, s, x) ==
  /\ IsBundle(s) /\ s.receipts = x /\ Identity(s) = Identity(b) /\ s.payload = b.payload /\ s.bytes = b.bytes

\* Other receipts change nothing else of a bundle.
LEMMA ReceiptsFacts ==
  ASSUME NEW b, IsBundle(b), NEW x
  PROVE  Reworked(b, [b EXCEPT !.receipts = x], x)
<1> DEFINE s == [b EXCEPT !.receipts = x]
<1>1. PICK f1, f2, f3, f4, f5, f6, f7, f8 :
        b = [source |-> f1, created |-> f2, fragment |-> <<>>, payload |-> f3, bytes |-> f4,
             version |-> f5, receipts |-> f6, records |-> f7, hopCount |-> f8, previous |-> NoNode]
  BY Zenon DEF IsBundle
<1>2. s = [source |-> f1, created |-> f2, fragment |-> <<>>, payload |-> f3, bytes |-> f4,
           version |-> f5, receipts |-> x, records |-> f7, hopCount |-> f8, previous |-> NoNode]
  BY <1>1
<1> HIDE DEF s
<1>3. /\ s.source = b.source /\ s.created = b.created /\ s.fragment = b.fragment /\ s.payload = b.payload
      /\ s.bytes = b.bytes /\ s.receipts = x
  BY <1>1, <1>2
<1>4. IsBundle(s)
  BY <1>2 DEF IsBundle
<1>5. Identity(s) = Identity(b)
  BY <1>3 DEF Identity, Whole
<1> QED
  BY <1>3, <1>4, <1>5 DEF Reworked, s

\* A bundle that was never sent.
LEMMA NeverSentFacts ==
  ASSUME NEW b, IsBundle(b)
  PROVE  LET s == [b EXCEPT !.created = "never sent", !.receipts = <<>>]
         IN  IsBundle(s) /\ s.receipts = <<>> /\ s.created = "never sent"
<1>0. PICK never, none : never = "never sent" /\ none = <<>>
  OBVIOUS
<1> DEFINE w == [b EXCEPT !.created = never] s == [w EXCEPT !.receipts = none]
<1>1. PICK f1, f2, f3, f4, f5, f6, f7, f8 :
        b = [source |-> f1, created |-> f2, fragment |-> <<>>, payload |-> f3, bytes |-> f4,
             version |-> f5, receipts |-> f6, records |-> f7, hopCount |-> f8, previous |-> NoNode]
  BY Zenon DEF IsBundle
<1>2. w = [source |-> f1, created |-> never, fragment |-> <<>>, payload |-> f3, bytes |-> f4,
           version |-> f5, receipts |-> f6, records |-> f7, hopCount |-> f8, previous |-> NoNode]
  BY <1>1
<1>3. [b EXCEPT !.created = "never sent", !.receipts = <<>>] = s
  BY Zenon, <1>0
<1> HIDE DEF w
<1>4. s = [source |-> f1, created |-> never, fragment |-> <<>>, payload |-> f3, bytes |-> f4,
           version |-> f5, receipts |-> none, records |-> f7, hopCount |-> f8, previous |-> NoNode]
  BY <1>2
<1> HIDE DEF s
<1>5. s.receipts = <<>> /\ s.created = "never sent"
  BY <1>0, <1>4
<1>6. IsBundle(s)
  BY <1>4 DEF IsBundle
<1> QED
  BY Zenon, <1>3, <1>5, <1>6

\* A receipt of the copied key.
StolenReceipt(r) == r.this = Victim /\ r.key = StolenKey

\* Bundle s is bundle b with a receipt of the copied key.
Overbilled(b, s, r) ==
  /\ IsBundle(s) /\ s.receipts = Append(b.receipts, r) /\ StolenReceipt(r)
  /\ Identity(s) = Identity(b) /\ s.created = b.created /\ s.bytes = b.bytes

\* That is what the thief bills for.
LEMMA BilledFacts ==
  ASSUME NEW b, IsBundle(b), NEW at
  PROVE  \E r : Overbilled(b, Billed(b, at), r)
<1> DEFINE opts == [prevHop |-> IF b.receipts = <<>> THEN b.source ELSE Last(b.receipts).this,
                    receivedAt |-> at, forwardedAt |-> at, chain |-> TRUE, hops |-> FALSE, hopsReleased |-> 0]
<1>1. Billed(b, at) = Stamp(b, StolenKey, Victim, opts) /\ opts.chain
  BY DEF Billed
<1> HIDE DEF opts
<1>2. Stamped(b, Billed(b, at), Receipt(b, StolenKey, Victim, opts), StolenKey, Victim, opts)
  BY <1>1, StampFields
<1>3. Overbilled(b, Billed(b, at), Receipt(b, StolenKey, Victim, opts))
  BY <1>2 DEF Stamped, Overbilled, StolenReceipt
<1> QED
  BY <1>3

\* The forgeries: a receipt added, a receipt put under the last one, a bundle
\* never sent, and the delivery itself.
ReceiptAdded(x, y) == \E r : StolenReceipt(r) /\ y = Append(x, r)

ReceiptUnder(x, y) == \E r : StolenReceipt(r) /\ y = Append(Append(Front(x), r), Last(x))

Kinds(d, b) ==
  \/ ReceiptAdded(d.b.receipts, b.receipts) /\ Identity(b) = Identity(d.b) /\ b.bytes = d.b.bytes
  \/ ReceiptUnder(d.b.receipts, b.receipts)
  \/ IsBundle(b) /\ b.created = "never sent"
  \/ b = d.b

\* Every forgery is of one of these kinds, and has a list of receipts.
LEMMA ForgeryKinds ==
  ASSUME NEW d, IsBundle(d.b), IsList(d.b.receipts), d.b.receipts # <<>>, NEW b, ForgeryOf(d, b)
  PROVE  Kinds(d, b) /\ IsList(b.receipts)
<1>1. ASSUME NEW at, b = Billed(d.b, at) PROVE Kinds(d, b) /\ IsList(b.receipts)
  <2>1. PICK r : Overbilled(d.b, b, r)
    BY <1>1, BilledFacts
  <2>2. IsList(Append(d.b.receipts, r))
    BY ListAppend
  <2> QED BY <2>1, <2>2 DEF Overbilled, Kinds, ReceiptAdded
<1>2. CASE b = Spliced(d.b, Before)
  <2> DEFINE x == d.b.receipts w == [d.b EXCEPT !.receipts = Front(x)]
             y == Append(Billed(w, Before).receipts, Last(x))
  <2>1. Reworked(d.b, w, Front(x))
    BY ReceiptsFacts
  <2>2. [d.b EXCEPT !.receipts = Front(@)] = w
    OBVIOUS
  <2>3. b = [d.b EXCEPT !.receipts = y]
    BY Zenon, <1>2, <2>2 DEF Spliced
  <2> HIDE DEF w
  <2>4. PICK r : Overbilled(w, Billed(w, Before), r)
    BY <2>1, BilledFacts DEF Reworked
  <2>5. y = Append(Append(Front(x), r), Last(x)) /\ StolenReceipt(r)
    BY <2>1, <2>4 DEF Overbilled, Reworked
  <2> HIDE DEF y
  <2>6. b.receipts = y
    <3>1. Reworked(d.b, b, y)
      BY <2>3, ReceiptsFacts
    <3> QED BY <3>1 DEF Reworked
  <2>7. IsList(Front(x))
    <3>1. PICK U : x \in Seq(U)
      BY DEF IsList
    <3>2. Front(x) \in Seq(U)
      BY <3>1 DEF Front
    <3> QED BY <3>2 DEF IsList
  <2>8. IsList(y)
    BY <2>5, <2>7, ListAppend
  <2>9. ReceiptUnder(x, b.receipts)
    BY <2>5, <2>6 DEF ReceiptUnder
  <2> QED BY <2>6, <2>8, <2>9 DEF Kinds
<1>3. CASE b = Billed([d.b EXCEPT !.created = "never sent", !.receipts = <<>>], Before)
  <2> DEFINE w == [d.b EXCEPT !.created = "never sent", !.receipts = <<>>]
  <2>1. IsBundle(w) /\ w.receipts = <<>> /\ w.created = "never sent"
    BY NeverSentFacts
  <2> HIDE DEF w
  <2>2. b = Billed(w, Before)
    BY Zenon, <1>3 DEF w
  <2>3. PICK r : Overbilled(w, b, r)
    BY <2>1, <2>2, BilledFacts
  <2>4. IsList(Append(<<>>, r))
    BY ListFacts, ListAppend
  <2>5. b.receipts = Append(<<>>, r) /\ b.created = "never sent" /\ IsBundle(b)
    BY <2>1, <2>3 DEF Overbilled
  <2> QED BY <2>4, <2>5 DEF Kinds
<1>4. CASE b = d.b
  BY <1>4 DEF Kinds
<1> QED
  BY <1>1, <1>2, <1>3, <1>4 DEF ForgeryOf

----------------------------------------------------------------------------
\* Each claim has a list of receipts.
LEMMA ClaimLists ==
  ASSUME NEW now, NetInv(now), NEW m \in DOMAIN Claims
  PROVE  IsList(Claims[m].bundle.receipts)
<1>1. ASSUME NEW i \in DOMAIN deliveries
      PROVE  IsBundle(deliveries[i].b) /\ IsList(deliveries[i].b.receipts) /\ deliveries[i].b.receipts # <<>>
  BY InvariantParts DEF DeliveriesOk, DeliveryOk, BundleOk, ReceiptsOk
<1>2. CASE \E i \in DOMAIN deliveries : Claims[m] = HonestClaim(deliveries[i])
  <2>1. PICK i \in DOMAIN deliveries : Claims[m] = HonestClaim(deliveries[i])
    BY <1>2
  <2>2. Claims[m].bundle = deliveries[i].b
    BY <2>1 DEF HonestClaim
  <2> QED BY <1>1, <2>2
<1>3. CASE \E i \in DOMAIN deliveries : \E b : Unseen(deliveries[i]) /\ ForgeryOf(deliveries[i], b) /\ Claims[m] = LateClaim(b)
  <2>1. PICK i \in DOMAIN deliveries : \E b : Unseen(deliveries[i]) /\ ForgeryOf(deliveries[i], b) /\ Claims[m] = LateClaim(b)
    BY <1>3
  <2>2. PICK b : ForgeryOf(deliveries[i], b) /\ Claims[m] = LateClaim(b)
    BY <2>1
  <2>3. Claims[m].bundle = b
    BY <2>2 DEF LateClaim
  <2> QED BY <1>1, <2>2, <2>3, ForgeryKinds
<1> QED
  BY <1>2, <1>3, ClaimsAre

\* What the clearing of the period comes to.
LEMMA PeriodCleared ==
  ASSUME NEW now, NetInv(now), NEW house
  PROVE  Cleared(rings[house], Delivered, Claims, DOMAIN Claims, Clear(Claims, rings[house], Delivered))
<1>1. IsList(Claims)
  BY ClaimsAre
<1>2. \A m \in DOMAIN Claims : IsList(Claims[m].bundle.receipts)
  BY ClaimLists
<1> QED
  BY <1>1, <1>2, ClearFacts

\* What the lines of a clearing owe to those that carried the deliveries.
EarnedBy(lines, ds, c) ==
  \A i \in DOMAIN ds : \A k \in DOMAIN ds[i].path :
    LET d == ds[i]
    IN  /\ d.path[k].signed /\ OpOf[d.path[k].node] # Owner
        /\ d.path[k].key # StolenKey \/ d.deliveredAt < c.stolenAt
        => \E l \in lines : l.bundle = Identity(d.b) /\ l.hop = d.path[k].node

\* The clearing pays it.
LEMMA CarriageIsPaid ==
  ASSUME NEW now, NetInv(now), queue = <<>>, NEW house \in GroundNodes
  PROVE  EarnedBy(Clear(Claims, rings[house], Delivered), deliveries, compromise)
<1> DEFINE w == Clear(Claims, rings[house], Delivered)
<1> SUFFICES ASSUME NEW i \in DOMAIN deliveries, NEW k \in DOMAIN deliveries[i].path,
                    deliveries[i].path[k].signed, OpOf[deliveries[i].path[k].node] # Owner,
                    deliveries[i].path[k].key # StolenKey \/ deliveries[i].deliveredAt < compromise.stolenAt
             PROVE  \E l \in w : l.bundle = Identity(deliveries[i].b) /\ l.hop = deliveries[i].path[k].node
  BY DEF EarnedBy
<1> DEFINE d == deliveries[i] st == d.path[k]
<1>1. Cleared(rings[house], Delivered, Claims, DOMAIN Claims, w)
  BY PeriodCleared
<1>2. i \in DOMAIN Claims /\ Claims[i] = HonestClaim(d)
  BY ClaimsAre
<1>3. PICK j \in DOMAIN d.b.receipts : OfStep(d.b.receipts[j], st)
  BY InvariantParts DEF DeliveriesOk, DeliveryOk, ReceiptsOk
<1>4. PICK f : f = d.b.receipts[j]
  OBVIOUS
<1>5. f.this = st.node /\ f.key = st.key
  BY <1>3, <1>4 DEF OfStep
<1>6. Earns(rings[house], Delivered, Claims[i], j, Line(Claims[i], j))
  BY <1>2, <1>4, <1>5, DeliveryEarns
<1>7. Claims[i].bundle = d.b
  BY <1>2 DEF HonestClaim
<1> HIDE DEF w
<1>8. j \in Receipts(Claims[i])
  BY <1>7 DEF Receipts
<1>9. Booked(w, Line(Claims[i], j))
  BY <1>1, <1>2, <1>6, <1>8 DEF Cleared
<1>10. Line(Claims[i], j).bundle = Identity(d.b) /\ Line(Claims[i], j).hop = st.node
  BY <1>4, <1>5, <1>7 DEF Line
<1> QED
  BY <1>9, <1>10 DEF Booked

\* The clearing comes last.
Done == credited # <<>> => queue = <<>>

\* A step from the state the clearing made leaves the deliveries and what was
\* credited; only the clearing credits anything.
LEMMA ClearingStep ==
  ASSUME Done, [Next]_vars
  PROVE  /\ Done'
         /\ \/ credited' = <<>>
            \/ credited' = credited /\ deliveries' = deliveries /\ compromise' = compromise
            \/ /\ queue = <<>> /\ deliveries' = deliveries /\ compromise' = compromise
               /\ \E house \in GroundNodes : credited' = <<Clear(Claims, rings[house], Delivered)>>
<1>1. CASE UNCHANGED vars
  BY <1>1 DEF Done, vars, inputs
<1>2. CASE Compromise \/ Detect \/ Deliver \/ Strand \/ Forward
  <2>1. queue # <<>> /\ credited' = credited
    BY <1>2 DEF Compromise, Detect, Deliver, Strand, Forward
  <2> QED BY <2>1, SMTT(60) DEF Done
<1>3. CASE ClearPeriod
  BY <1>3 DEF ClearPeriod, Done, Delivered, inputs
<1> QED
  BY <1>1, <1>2, <1>3 DEF Next

\* Nothing is left to happen when the clearing is done.
LEMMA DoneAtFirst == Init => Done
  BY DEF Init, Done

\* Who carried a delivered bundle and signed for it is credited beside the five
\* forgeries of run.mjs:51-61 (HonestEarns; ssi/settle.mjs:31-75).
THEOREM CarriageIsEarned == Spec => []HonestEarns
<1>1. Init => IInv /\ Done /\ HonestEarns
  <2>1. Init => HonestEarns
    BY DEF Init, HonestEarns
  <2> QED BY <2>1, InitInvariant, DoneAtFirst
<1>2. IInv /\ Done /\ HonestEarns /\ [Next]_vars => (IInv /\ Done /\ HonestEarns)'
  <2>1. SUFFICES ASSUME IInv, Done, HonestEarns, [Next]_vars PROVE (IInv /\ Done /\ HonestEarns)'
    OBVIOUS
  <2>2. IInv' /\ Done'
    BY <2>1, StepInvariant, ClearingStep
  <2>3. HonestEarns <=> (credited # <<>> => EarnedBy(credited[1], deliveries, compromise))
    BY DEF HonestEarns, EarnedBy
  <2>4. HonestEarns' <=> (credited' # <<>> => EarnedBy(credited'[1], deliveries', compromise'))
    BY DEF HonestEarns, EarnedBy
  <2>5. CASE credited' = <<>>
    BY <2>2, <2>4, <2>5
  <2>6. CASE credited' = credited /\ deliveries' = deliveries /\ compromise' = compromise
    BY <2>1, <2>2, <2>3, <2>4, <2>6
  <2>7. CASE /\ queue = <<>> /\ deliveries' = deliveries /\ compromise' = compromise
             /\ \E house \in GroundNodes : credited' = <<Clear(Claims, rings[house], Delivered)>>
    <3>1. PICK house \in GroundNodes : credited' = <<Clear(Claims, rings[house], Delivered)>>
      BY <2>7
    <3>2. EarnedBy(Clear(Claims, rings[house], Delivered), deliveries, compromise)
      BY <2>1, <2>7, CarriageIsPaid DEF IInv
    <3>3. credited'[1] = Clear(Claims, rings[house], Delivered)
      BY <3>1
    <3> QED BY <2>2, <2>4, <2>7, <3>2, <3>3
  <2> QED BY <2>1, <2>5, <2>6, <2>7, ClearingStep
<1>3. QED
  BY <1>1, <1>2, PTL DEF Spec

----------------------------------------------------------------------------
\* g gives the sum of a over each set of members of S: by the member the folds
\* take first, and by any member.
First(T) == CHOOSE x \in T : TRUE

AddsUp(S, a, g) ==
  g[{}] = 0 /\ \A T \in SUBSET S : T # {} => g[T] = a[First(T)] + g[T \ {First(T)}]

SumOf(T, a, g) == g[T] \in Nat /\ \A y \in T : g[T] = a[y] + g[T \ {y}]

Totals(S, a, g) == g[{}] = 0 /\ \A T \in SUBSET S : SumOf(T, a, g)

\* There is such a function.
LEMMA AddsUpExists ==
  ASSUME NEW S, IsFiniteSet(S), NEW a \in [S -> Nat]
  PROVE  \E g \in [SUBSET S -> Nat] : AddsUp(S, a, g)
<1> DEFINE pick == [T \in SUBSET S |-> First(T)] F == [p \in Nat \X S |-> a[p[2]] + p[1]]
<1>1. \A T \in SUBSET S : T # {} => pick[T] \in T /\ pick[T] = First(T)
  BY DEF First
<1>2. F \in [Nat \X S -> Nat]
  OBVIOUS
<1>3. PICK g \in [SUBSET S -> Nat] : FoldsBy(g, 0, S, pick, F)
  <2> HIDE DEF pick, F
  <2> QED BY <1>1, <1>2, FoldExists
<1>4. ASSUME NEW T \in SUBSET S, T # {} PROVE g[T] = a[First(T)] + g[T \ {First(T)}]
  <2>1. g[T] = F[<<g[T \ {pick[T]}], pick[T]>>] /\ pick[T] \in T /\ pick[T] = First(T)
    <3> HIDE DEF pick, F
    <3> QED BY <1>1, <1>3, <1>4 DEF FoldsBy
  <2> HIDE DEF pick
  <2>2. g[T \ {pick[T]}] \in Nat /\ pick[T] \in S
    BY <2>1
  <2> QED BY <2>1, <2>2
<1>5. g[{}] = 0
  BY <1>3 DEF FoldsBy
<1> QED
  BY <1>4, <1>5 DEF AddsUp

\* The order makes no difference.
LEMMA AnyOrder ==
  ASSUME NEW S, IsFiniteSet(S), NEW a \in [S -> Nat], NEW g, AddsUp(S, a, g)
  PROVE  Totals(S, a, g)
<1> DEFINE P == {m \in Nat : \A T \in SUBSET S : Cardinality(T) <= m => SumOf(T, a, g)}
<1>1. \A T \in SUBSET S : IsFiniteSet(T) /\ Cardinality(T) \in Nat /\ (Cardinality(T) = 0 <=> T = {})
  BY FS_Subset, FS_CardinalityType, FS_EmptySet
<1>2. \A T \in SUBSET S : \A y \in T : Cardinality(T \ {y}) = Cardinality(T) - 1
  BY <1>1, FS_RemoveElement
<1>3. g[{}] = 0 /\ \A T \in SUBSET S : T # {} => g[T] = a[First(T)] + g[T \ {First(T)}]
  BY DEF AddsUp
<1>4. SumOf({}, a, g)
  BY <1>3 DEF SumOf
<1>5. 0 \in P
  BY <1>1, <1>4
<1>6. ASSUME NEW m \in Nat, m \in P PROVE m + 1 \in P
  <2>1. SUFFICES ASSUME NEW T \in SUBSET S, Cardinality(T) <= m + 1 PROVE SumOf(T, a, g)
    OBVIOUS
  <2>2. SUFFICES ASSUME T # {} PROVE SumOf(T, a, g)
    BY <1>4
  <2> PICK x : x = First(T)
    OBVIOUS
  <2>3. x \in T /\ x \in S /\ a[x] \in Nat /\ g[T] = a[x] + g[T \ {x}]
    BY <1>3, <2>2 DEF First
  <2>4. ASSUME NEW y \in T PROVE SumOf(T \ {y}, a, g)
    <3>1. Cardinality(T \ {y}) <= m
      BY <1>1, <1>2, <2>1
    <3>2. T \ {y} \in SUBSET S
      OBVIOUS
    <3> QED BY <1>6, <3>1, <3>2
  <2>5. g[T] \in Nat
    <3>1. SumOf(T \ {x}, a, g)
      BY <2>3, <2>4
    <3>2. g[T \ {x}] \in Nat
      BY <3>1 DEF SumOf
    <3> QED BY <2>3, <3>2
  <2>6. ASSUME NEW y \in T PROVE g[T] = a[y] + g[T \ {y}]
    <3>1. CASE y = x
      BY <2>3, <3>1
    <3>2. CASE y # x
      <4>1. y \in T \ {x} /\ x \in T \ {y} /\ (T \ {x}) \ {y} = (T \ {y}) \ {x}
        BY <2>3, <3>2
      <4>2. g[T \ {x}] = a[y] + g[(T \ {x}) \ {y}] /\ g[T \ {y}] = a[x] + g[(T \ {y}) \ {x}]
        BY <2>3, <2>4, <4>1 DEF SumOf
      <4>3. SumOf((T \ {x}) \ {y}, a, g) \/ g[(T \ {x}) \ {y}] \in Nat
        <5>1. Cardinality((T \ {x}) \ {y}) <= m
          BY <1>1, <1>2, <2>1, <2>3, <4>1, SMTT(60)
        <5>2. (T \ {x}) \ {y} \in SUBSET S
          OBVIOUS
        <5> QED BY <1>6, <5>1, <5>2
      <4>4. a[y] \in Nat /\ g[(T \ {x}) \ {y}] \in Nat
        BY <4>3 DEF SumOf
      <4> QED BY <2>3, <4>1, <4>2, <4>4
    <3> QED BY <3>1, <3>2
  <2> QED BY <2>5, <2>6 DEF SumOf
<1>7. Cardinality(S) \in P /\ Cardinality(S) \in Nat
  <2> HIDE DEF P
  <2> QED BY <1>1, <1>5, <1>6, Induction
<1>8. \A T \in SUBSET S : Cardinality(T) <= Cardinality(S)
  BY FS_Subset
<1> QED
  BY <1>3, <1>7, <1>8 DEF Totals

----------------------------------------------------------------------------
\* The bytes of a set of lines, as a statement adds them up.
LineBytes(L) == FoldSet(LAMBDA c, sum : c.bytes + sum, 0, L)

\* They are a sum.
LEMMA LineBytesAdd ==
  ASSUME NEW L, IsFiniteSet(L), \A c \in L : c.bytes \in Nat
  PROVE  \E g : Totals(L, [c \in L |-> c.bytes], g) /\ LineBytes(L) = g[L]
<1> DEFINE a == [c \in L |-> c.bytes]
           Body(g) == [T \in SUBSET L |->
                         IF T = {} THEN 0
                         ELSE (CHOOSE x \in T : TRUE).bytes + g[T \ {CHOOSE x \in T : TRUE}]]
           it == CHOOSE g : g = Body(g)
<1>1. a \in [L -> Nat]
  OBVIOUS
<1>2. PICK g \in [SUBSET L -> Nat] : AddsUp(L, a, g)
  <2> HIDE DEF a
  <2> QED BY <1>1, AddsUpExists
<1>3. \A T \in SUBSET L : T # {} => First(T) \in L /\ a[First(T)] = (CHOOSE x \in T : TRUE).bytes /\ First(T) = CHOOSE x \in T : TRUE
  BY DEF First
<1>4. g[{}] = 0 /\ \A T \in SUBSET L : T # {} => g[T] = (CHOOSE x \in T : TRUE).bytes + g[T \ {CHOOSE x \in T : TRUE}]
  <2> HIDE DEF a
  <2> QED BY <1>2, <1>3 DEF AddsUp
<1>5. g = Body(g)
  BY <1>4
<1>6. it = Body(it)
  <2> HIDE DEF Body
  <2> QED BY <1>5
<1>7. LineBytes(L) = it[L]
  BY DEF LineBytes, FoldSet, MapThenFoldSet
<1>8. \A T \in SUBSET L : it[T] = IF T = {} THEN 0 ELSE (CHOOSE x \in T : TRUE).bytes + it[T \ {CHOOSE x \in T : TRUE}]
  <2>1. \A T \in SUBSET L : it[T] = Body(it)[T]
    <3> HIDE DEF it, Body
    <3> QED BY <1>6
  <2> HIDE DEF it
  <2> QED BY <2>1
<1> HIDE DEF it
<1>9. AddsUp(L, a, it)
  <2>1. it[{}] = 0
    BY <1>8
  <2>2. \A T \in SUBSET L : T # {} => it[T] = a[First(T)] + it[T \ {First(T)}]
    <3> HIDE DEF a
    <3> QED BY <1>3, <1>8, ZenonT(60)
  <2> QED BY <2>1, <2>2 DEF AddsUp
<1>10. Totals(L, a, it)
  <2> HIDE DEF a
  <2> QED BY <1>1, <1>9, AnyOrder
<1> QED
  BY <1>7, <1>10

\* The hops of an operator's custodians with a delivery.
HopsOf(d, op) == {k \in DOMAIN d.path : d.path[k].signed /\ OpOf[d.path[k].node] = op}

\* What an operator's custodians carried, of a list of deliveries.
Carriage(ds, op) == FoldSeq(LAMBDA d, n : d.b.bytes * Cardinality(HopsOf(d, op)) + n, 0, ds)

\* It is a sum.
LEMMA CarriageAdds ==
  ASSUME NEW ds, IsList(ds), NEW op,
         \A i \in DOMAIN ds : ds[i].b.bytes \in Nat /\ Cardinality(HopsOf(ds[i], op)) \in Nat
  PROVE  \E g : /\ Totals(DOMAIN ds, [i \in DOMAIN ds |-> ds[i].b.bytes * Cardinality(HopsOf(ds[i], op))], g)
                /\ Carriage(ds, op) = g[DOMAIN ds]
<1> DEFINE w(i) == ds[i].b.bytes * Cardinality(HopsOf(ds[i], op))
           a == [i \in DOMAIN ds |-> w(i)]
           Body(g) == [T \in SUBSET DOMAIN ds |->
                         IF T = {} THEN 0
                         ELSE w(CHOOSE x \in T : TRUE) + g[T \ {CHOOSE x \in T : TRUE}]]
           it == CHOOSE g : g = Body(g)
<1>1. a \in [DOMAIN ds -> Nat] /\ IsFiniteSet(DOMAIN ds)
  <2>1. \A i \in DOMAIN ds : w(i) \in Nat
    BY Multiples
  <2>2. IsFiniteSet(DOMAIN ds)
    <3>1. Len(ds) \in Nat /\ DOMAIN ds = 1 .. Len(ds)
      BY ListFacts
    <3>2. \A l \in Nat : IsFiniteSet(1 .. l)
      BY FS_Interval
    <3> HIDE DEF w
    <3> QED BY Zenon, <3>1, <3>2
  <2> HIDE DEF w
  <2> QED BY <2>1, <2>2
<1>2. PICK g \in [SUBSET DOMAIN ds -> Nat] : AddsUp(DOMAIN ds, a, g)
  <2> HIDE DEF a
  <2> QED BY <1>1, AddsUpExists
<1>3. \A T \in SUBSET DOMAIN ds : T # {} =>
        First(T) \in DOMAIN ds /\ a[First(T)] = w(CHOOSE x \in T : TRUE) /\ First(T) = CHOOSE x \in T : TRUE
  <2> HIDE DEF w
  <2> QED BY DEF First
<1>4. g[{}] = 0 /\ \A T \in SUBSET DOMAIN ds : T # {} =>
        g[T] = w(CHOOSE x \in T : TRUE) + g[T \ {CHOOSE x \in T : TRUE}]
  <2> HIDE DEF a, w
  <2> QED BY <1>2, <1>3 DEF AddsUp
<1>5. g = Body(g)
  <2> HIDE DEF w
  <2> QED BY <1>4
<1>6. it = Body(it)
  <2> HIDE DEF Body
  <2> QED BY <1>5
<1>7. Carriage(ds, op) = it[DOMAIN ds]
  BY DEF Carriage, FoldSeq, FoldFunction, FoldFunctionOnSet, MapThenFoldSet
<1>8. \A T \in SUBSET DOMAIN ds : it[T] = IF T = {} THEN 0 ELSE w(CHOOSE x \in T : TRUE) + it[T \ {CHOOSE x \in T : TRUE}]
  <2>1. \A T \in SUBSET DOMAIN ds : it[T] = Body(it)[T]
    <3> HIDE DEF it, Body
    <3> QED BY <1>6
  <2> HIDE DEF it, w
  <2> QED BY <2>1
<1> HIDE DEF it
<1>9. AddsUp(DOMAIN ds, a, it)
  <2>1. it[{}] = 0
    <3> HIDE DEF w
    <3> QED BY <1>8
  <2>2. \A T \in SUBSET DOMAIN ds : T # {} => it[T] = a[First(T)] + it[T \ {First(T)}]
    <3> HIDE DEF a, w
    <3> QED BY <1>3, <1>8
  <2> HIDE DEF a
  <2> QED BY <2>1, <2>2 DEF AddsUp
<1>10. Totals(DOMAIN ds, a, it)
  <2> HIDE DEF a
  <2> QED BY <1>1, <1>9, AnyOrder
<1> QED
  BY <1>7, <1>10

----------------------------------------------------------------------------
\* The members of X have the same weight.
Even(X, a, z) == \A x \in X : a[x] = z

\* X adds its members' weights to the sum over U.
Adds(g, U, X, z) ==
  g[U \cup X] = g[U] + z * Cardinality(X) /\ g[U] \in Nat /\ g[U \cup X] \in Nat /\ Cardinality(X) \in Nat

\* What members of equal weight add to a sum.
LEMMA EqualParts ==
  ASSUME NEW S, IsFiniteSet(S), NEW a \in [S -> Nat], NEW g, Totals(S, a, g),
         NEW U \in SUBSET S, NEW X \in SUBSET S, U \cap X = {}, NEW z \in Nat, Even(X, a, z)
  PROVE  Adds(g, U, X, z)
<1> DEFINE P == {m \in Nat : \A Y \in SUBSET X : Cardinality(Y) = m => g[U \cup Y] = g[U] + z * m}
<1>1. \A Y \in SUBSET X : IsFiniteSet(Y) /\ Cardinality(Y) \in Nat /\ (Cardinality(Y) = 0 <=> Y = {})
  <2>1. \A Y \in SUBSET X : IsFiniteSet(Y)
    BY FS_Subset
  <2> QED BY <2>1, FS_CardinalityType, FS_EmptySet
<1>2. \A T \in SUBSET S : g[T] \in Nat /\ \A y \in T : g[T] = a[y] + g[T \ {y}]
  BY DEF Totals, SumOf
<1>3. 0 \in P
  <2>1. z * 0 = 0
    OBVIOUS
  <2>2. ASSUME NEW Y \in SUBSET X, Cardinality(Y) = 0 PROVE g[U \cup Y] = g[U] + z * 0
    <3>1. U \cup Y = U
      BY <1>1, <2>2
    <3>2. g[U \cup Y] = g[U] /\ g[U] \in Nat
      BY <1>2, <3>1
    <3> QED BY <2>1, <3>2
  <2> QED BY <2>2
<1>4. ASSUME NEW m \in Nat, m \in P PROVE m + 1 \in P
  <2>1. SUFFICES ASSUME NEW Y \in SUBSET X, Cardinality(Y) = m + 1 PROVE g[U \cup Y] = g[U] + z * (m + 1)
    OBVIOUS
  <2>2. PICK y : y \in Y
    BY <1>1, <2>1
  <2> DEFINE W == Y \ {y}
  <2>3. Cardinality(W) = m /\ W \in SUBSET X
    <3>1. Cardinality(W) = Cardinality(Y) - 1
      BY <1>1, <2>2, FS_RemoveElement
    <3> QED BY <2>1, <3>1
  <2>4. (U \cup Y) \ {y} = U \cup W /\ y \in U \cup Y /\ U \cup Y \in SUBSET S /\ a[y] = z
    BY <2>2 DEF Even
  <2>5. g[U \cup W] = g[U] + z * m
    <3> HIDE DEF W
    <3> QED BY <1>4, <2>3
  <2> HIDE DEF W
  <2>6. g[U \cup Y] = z + g[U \cup W]
    BY <1>2, <2>4, ZenonT(60)
  <2>7. g[U] \in Nat /\ z * m \in Nat /\ z * (m + 1) = z * m + z
    BY <1>2, Multiples
  <2> QED BY <2>5, <2>6, <2>7
<1>5. Cardinality(X) \in P /\ Cardinality(X) \in Nat
  <2> HIDE DEF P
  <2> QED BY <1>1, <1>3, <1>4, Induction
<1>6. U \cup X \in SUBSET S
  OBVIOUS
<1> QED
  BY <1>2, <1>5, <1>6 DEF Adds

\* Line c is for a hop of an operator's custodian with delivery d.
LineOf(d, c, op) ==
  c.bundle = Identity(d.b) /\ c.bytes = d.b.bytes /\ \E k \in HopsOf(d, op) : d.path[k].node = c.hop

\* Of one delivery there are no more lines than hops.
LEMMA FewerThanHops ==
  ASSUME NEW d, NEW op, IsFiniteSet(HopsOf(d, op)), NEW X, PaidOnceEach(X), \A c \in X : LineOf(d, c, op)
  PROVE  IsFiniteSet(X) /\ Cardinality(X) <= Cardinality(HopsOf(d, op))
<1> DEFINE K == HopsOf(d, op)
           hop(c) == CHOOSE k \in K : d.path[k].node = c.hop
           f == [c \in X |-> hop(c)]
<1> HIDE DEF K
<1>1. \A c \in X : hop(c) \in K /\ d.path[hop(c)].node = c.hop /\ c.bundle = Identity(d.b)
  BY DEF LineOf, K
<1> HIDE DEF hop
<1>2. \A c, o \in X : hop(c) = hop(o) => c = o
  BY <1>1 DEF PaidOnceEach
<1>3. f \in Injection(X, K)
  BY <1>1, <1>2 DEF Injection, IsInjective
<1> QED
  BY <1>3, FS_Injection DEF K

\* The lines of an operator's custodians, each hop once, come to no more bytes
\* than they carried.
LEMMA LinesWithin ==
  ASSUME NEW ds, IsList(ds), NEW op, \A i \in DOMAIN ds : ds[i].b.bytes \in Nat /\ IsList(ds[i].path),
         NEW L, IsFiniteSet(L), PaidOnceEach(L), \A c \in L : \E i \in DOMAIN ds : LineOf(ds[i], c, op)
  PROVE  LineBytes(L) \in Nat /\ Carriage(ds, op) \in Nat /\ LineBytes(L) <= Carriage(ds, op)
<1> DEFINE n == Len(ds) D == DOMAIN ds
           a == [c \in L |-> c.bytes]
           w == [i \in DOMAIN ds |-> ds[i].b.bytes * Cardinality(HopsOf(ds[i], op))]
           Up(m) == {c \in L : \E i \in 1 .. m : LineOf(ds[i], c, op)}
<1>1. n \in Nat /\ D = 1 .. n /\ IsFiniteSet(D)
  <2>1. n \in Nat /\ D = 1 .. n
    BY ListFacts
  <2>2. \A l \in Nat : IsFiniteSet(1 .. l)
    BY FS_Interval
  <2> HIDE DEF n, D
  <2> QED BY Zenon, <2>1, <2>2
<1>2. \A c \in L : c.bytes \in Nat
  BY DEF LineOf
<1>3. ASSUME NEW i \in D PROVE IsFiniteSet(HopsOf(ds[i], op)) /\ Cardinality(HopsOf(ds[i], op)) \in Nat
  <2>1. IsFiniteSet(DOMAIN ds[i].path)
    <3>1. Len(ds[i].path) \in Nat /\ DOMAIN ds[i].path = 1 .. Len(ds[i].path)
      BY ListFacts
    <3>2. \A l \in Nat : IsFiniteSet(1 .. l)
      BY FS_Interval
    <3> QED BY Zenon, <3>1, <3>2
  <2>2. HopsOf(ds[i], op) \subseteq DOMAIN ds[i].path
    BY DEF HopsOf
  <2> QED BY <2>1, <2>2, FS_Subset, FS_CardinalityType
<1>4. PICK gl : Totals(L, a, gl) /\ LineBytes(L) = gl[L]
  BY <1>2, LineBytesAdd
<1>5. PICK gd : Totals(D, w, gd) /\ Carriage(ds, op) = gd[D]
  BY <1>3, CarriageAdds
<1>6. a \in [L -> Nat]
  BY <1>2
<1>7. \A i \in D : w[i] = ds[i].b.bytes * Cardinality(HopsOf(ds[i], op)) /\ \A c \in L : a[c] = c.bytes
  OBVIOUS
<1> DEFINE P == {m \in Nat : m <= n => gl[Up(m)] <= gd[1 .. m]}
<1> HIDE DEF a, w, n
<1>8. \A T \in SUBSET D : gd[T] \in Nat /\ \A y \in T : gd[T] = w[y] + gd[T \ {y}]
  BY <1>5 DEF Totals, SumOf
<1>9. 0 \in P
  <2>1. Up(0) = {} /\ 1 .. 0 = {}
    OBVIOUS
  <2>2. gl[{}] = 0 /\ gd[{}] = 0
    BY <1>4, <1>5 DEF Totals
  <2>3. gl[Up(0)] <= gd[1 .. 0]
    <3> HIDE DEF Up
    <3>1. gl[Up(0)] = 0 /\ gd[1 .. 0] = 0
      BY Zenon, <2>1, <2>2
    <3> QED BY <3>1
  <2> HIDE DEF Up
  <2> QED BY <2>3
<1>10. ASSUME NEW m \in Nat, m \in P PROVE m + 1 \in P
  <2>1. SUFFICES ASSUME m + 1 <= n PROVE gl[Up(m + 1)] <= gd[1 .. m + 1]
    OBVIOUS
  <2> DEFINE l == m + 1 X == Up(l) \ Up(m)
  <2>2. l \in D /\ l \in 1 .. l /\ 1 .. l \in SUBSET D /\ (1 .. l) \ {l} = 1 .. m /\ m <= n /\ 1 .. l = (1 .. m) \cup {l}
    BY <1>1, <2>1
  <2>3. gl[Up(m)] <= gd[1 .. m]
    BY <1>10, <2>2
  <2> HIDE DEF P, D
  <2>4. Up(m) \in SUBSET L /\ X \in SUBSET L /\ Up(m) \cap X = {}
    OBVIOUS
  <2>5. Up(l) = Up(m) \cup X /\ \A c \in X : LineOf(ds[l], c, op)
    <3> HIDE DEF l
    <3> QED BY <2>2
  <2> HIDE DEF l, X, Up
  <2>6. PaidOnceEach(X)
    BY <2>4 DEF PaidOnceEach
  <2> DEFINE z == ds[l].b.bytes h == Cardinality(HopsOf(ds[l], op))
  <2>7. z \in Nat /\ h \in Nat /\ w[l] = z * h /\ \A x \in X : a[x] = z
    BY <1>3, <1>7, <2>2, <2>4, <2>5 DEF LineOf, D
  <2>8. Cardinality(X) <= h
    BY <1>3, <2>2, <2>5, <2>6, FewerThanHops
  <2> HIDE DEF z, h
  <2>9. gl[Up(m) \cup X] = gl[Up(m)] + z * Cardinality(X) /\ gl[Up(m)] \in Nat /\ Cardinality(X) \in Nat
    <3> PICK U, Y : U = Up(m) /\ Y = X
      OBVIOUS
    <3>1. U \in SUBSET L /\ Y \in SUBSET L /\ U \cap Y = {} /\ Even(Y, a, z)
      BY <2>4, <2>7 DEF Even
    <3>2. Totals(L, a, gl) /\ z \in Nat
      BY <1>4, <2>7
    <3>3. Adds(gl, U, Y, z)
      BY <1>6, <3>1, <3>2, EqualParts
    <3> QED BY <3>3 DEF Adds
  <2>10. z * Cardinality(X) <= z * h /\ z * Cardinality(X) \in Nat /\ z * h \in Nat
    BY <2>7, <2>8, <2>9, Multiples
  <2>11. gd[1 .. l] = w[l] + gd[1 .. m] /\ gd[1 .. m] \in Nat
    <3>1. 1 .. m \in SUBSET D
      BY <2>2
    <3> QED BY Zenon, <1>8, <2>2, <3>1
  <2>12. gl[Up(l)] <= gd[1 .. l]
    <3>1. gl[Up(l)] = gl[Up(m)] + z * Cardinality(X)
      BY Zenon, <2>5, <2>9
    <3> QED BY <2>3, <2>7, <2>9, <2>10, <2>11, <3>1
  <2> QED BY <2>12 DEF l
<1>11. n \in P
  <2> HIDE DEF P
  <2> QED BY <1>1, <1>9, <1>10, Induction
<1>12. Up(n) = L
  BY <1>1
<1>13. gl[L] \in Nat /\ gd[D] \in Nat
  BY <1>4, <1>8 DEF Totals, SumOf
<1> HIDE DEF Up, D
<1>14. gl[L] <= gd[D]
  BY <1>1, <1>11, <1>12
<1> QED
  BY <1>4, <1>5, <1>13, <1>14

----------------------------------------------------------------------------
\* The period ends after the copy was found out.
LEMMA HorizonLate ==
  ASSUME NEW now, NetInv(now)
  PROVE  Horizon \in Nat /\ compromise.detectAt <= Horizon
<1> DEFINE ds == deliveries D == DOMAIN deliveries b == compromise.detectAt V == {x \in Nat : b <= x}
           later(i, v) == IF ds[i].deliveredAt > v THEN ds[i].deliveredAt ELSE v
           pick == [T \in SUBSET D |-> CHOOSE x \in T : TRUE]
           F == [p \in V \X D |-> later(p[2], p[1])]
           Body(g) == [T \in SUBSET D |->
                         IF T = {} THEN b
                         ELSE later(CHOOSE x \in T : TRUE, g[T \ {CHOOSE x \in T : TRUE}])]
           it == CHOOSE g : g = Body(g)
<1>1. b \in V /\ IsFiniteSet(D) /\ \A i \in D : ds[i].deliveredAt \in Nat
  <2>1. IsList(ds) /\ \A i \in D : ds[i].deliveredAt \in Nat
    BY InvariantParts, SpanFacts DEF DeliveriesOk, DeliveryOk
  <2>2. b \in Nat
    BY InvariantParts DEF Compromised
  <2>3. IsFiniteSet(D)
    <3>1. Len(ds) \in Nat /\ D = 1 .. Len(ds)
      BY <2>1, ListFacts
    <3>2. \A l \in Nat : IsFiniteSet(1 .. l)
      BY FS_Interval
    <3> HIDE DEF ds, D
    <3> QED BY <3>1, <3>2
  <2>4. b <= b
    BY <2>2
  <2> HIDE DEF ds, D, b
  <2> QED BY <2>1, <2>2, <2>3, <2>4
<1>2. \A T \in SUBSET D : T # {} => pick[T] \in T /\ pick[T] = CHOOSE x \in T : TRUE
  OBVIOUS
<1> HIDE DEF b, ds, D
<1>3. \A i \in D : \A v \in V : later(i, v) \in V
  BY <1>1
<1>4. F \in [V \X D -> V] /\ \A v \in V : \A i \in D : F[<<v, i>>] = later(i, v)
  <2> HIDE DEF V, later
  <2> QED BY <1>3
<1> HIDE DEF V, later, F, pick
<1>5. PICK g \in [SUBSET D -> V] : FoldsBy(g, b, D, pick, F)
  BY <1>1, <1>2, <1>4, FoldExists
<1>6. ASSUME NEW T \in SUBSET D, T # {} PROVE g[T] = later(CHOOSE x \in T : TRUE, g[T \ {CHOOSE x \in T : TRUE}])
  <2>1. g[T] = F[<<g[T \ {pick[T]}], pick[T]>>] /\ pick[T] \in D /\ g[T \ {pick[T]}] \in V
    BY <1>2, <1>5, <1>6 DEF FoldsBy
  <2> QED BY <1>2, <1>4, <1>6, <2>1
<1>7. g = Body(g)
  BY <1>5, <1>6 DEF FoldsBy
<1>8. it = Body(it)
  <2> HIDE DEF Body
  <2> QED BY <1>7
<1>9. Horizon = it[D]
  BY DEF Horizon, FoldSeq, FoldFunction, FoldFunctionOnSet, MapThenFoldSet, ds, D, b, later
<1>10. \A T \in SUBSET D : it[T] = IF T = {} THEN b ELSE later(CHOOSE x \in T : TRUE, it[T \ {CHOOSE x \in T : TRUE}])
  <2>1. \A T \in SUBSET D : it[T] = Body(it)[T]
    <3> HIDE DEF it, Body
    <3> QED BY <1>8
  <2> HIDE DEF it
  <2> QED BY <2>1
<1> HIDE DEF it
<1>0. it[{}] \in V /\ \A T \in SUBSET D : T # {} => it[T] = later(First(T), it[T \ {First(T)}]) /\ First(T) \in T
  BY <1>1, <1>10 DEF First
<1> DEFINE P == {m \in Nat : \A T \in SUBSET D : Cardinality(T) <= m => it[T] \in V}
<1>11. \A T \in SUBSET D : IsFiniteSet(T) /\ Cardinality(T) \in Nat /\ (Cardinality(T) = 0 <=> T = {})
  BY <1>1, FS_Subset, FS_CardinalityType, FS_EmptySet
<1>12. 0 \in P
  <2>1. ASSUME NEW T \in SUBSET D, Cardinality(T) <= 0 PROVE it[T] \in V
    <3>1. T = {}
      BY <1>11, <2>1
    <3> QED BY <1>0, <3>1
  <2> QED BY <2>1
<1>13. ASSUME NEW m \in Nat, m \in P PROVE m + 1 \in P
  <2>0. SUFFICES ASSUME NEW T \in SUBSET D, Cardinality(T) <= m + 1 PROVE it[T] \in V
    OBVIOUS
  <2>1. SUFFICES ASSUME T # {} PROVE it[T] \in V
    BY <1>0
  <2> PICK x : x = First(T)
    OBVIOUS
  <2>2. x \in T /\ x \in D /\ T \ {x} \in SUBSET D /\ it[T] = later(x, it[T \ {x}])
    BY <1>0, <2>1
  <2>3. Cardinality(T \ {x}) <= m
    <3>1. Cardinality(T \ {x}) = Cardinality(T) - 1
      BY <1>11, <2>2, FS_RemoveElement
    <3> QED BY <1>11, <2>0, <3>1
  <2> QED BY <1>3, <1>13, <2>2, <2>3
<1>14. Cardinality(D) \in P /\ Cardinality(D) \in Nat /\ D \in SUBSET D
  <2> HIDE DEF P
  <2> QED BY <1>11, <1>12, <1>13, Induction
<1>15. it[D] \in V
  BY <1>14
<1> QED
  BY <1>9, <1>15 DEF V, b

\* When the house knows of the revocation, the last receipt of a late claim earns
\* nothing if it was made with the copied key.
LEMMA StolenIsNotPaid ==
  ASSUME NEW now, NetInv(now), queue = <<>>, NEW house \in GroundNodes,
         NEW claim, claim.arrivedAt = Horizon, NEW y, claim.bundle.receipts = y,
         NEW j, j \in DOMAIN y, IsList(y), j = Len(y), StolenReceipt(y[j])
  PROVE  ~Creditable(rings[house], claim, j)
<1> DEFINE c == compromise ring == rings[house] f == y[j] keys == [m \in DOMAIN y |-> CreditKey(ring, y[m])]
<1>1. HeardBy(c, now, ring) /\ now < Never /\ now \in Nat /\ Compromised(c)
  BY HouseHeard, InvariantParts
<1>2. c.stolenAt \in Nat /\ c.detectAt \in Nat /\ c.stolenAt <= c.detectAt /\ c.detectAt < Never /\ Never \in Nat
  BY <1>1, Times DEF Compromised
<1> HIDE DEF ring
<1>3. PICK s \in Nat : s <= now /\ ring = Heard(c, s)
  BY <1>1 DEF HeardBy
<1>4. s < Never /\ RingOf(c, s, TRUE, ring)
  BY <1>1, <1>2, <1>3 DEF RingOf
<1>5. \A n \in Nodes, w \in Nat : Status(ring, NodeKey[n], n, w, "custody").revokedFrom = IF n = Victim THEN c.stolenAt ELSE Never
  <2>1. \A n \in Nodes, w \in Nat : Status(ring, NodeKey[n], n, w, "custody").revokedFrom =
          IF TRUE /\ n = Victim THEN c.stolenAt ELSE Never
    <3> HIDE DEF c
    <3> QED BY <1>1, <1>4, MaySign DEF c
  <2> QED BY <2>1
<1>6. Victim \in Nodes
  BY NetworkAssumption
<1>7. Status(ring, StolenKey, Victim, 0, "custody").revokedFrom = c.stolenAt
  BY <1>5, <1>6 DEF StolenKey
<1>8. CreditKey(ring, f).revokedFrom = c.stolenAt
  <2>1. KeyState(ring, f).revokedFrom = Status(ring, StolenKey, Victim, 0, "custody").revokedFrom
    BY DEF KeyState, Status, Judge, StolenReceipt
  <2> HIDE DEF f
  <2> QED BY <1>7, <2>1, CreditKeyIs
<1>9. keys[j].revokedFrom = c.stolenAt
  BY <1>8
<1>10. Len(y) \in Nat
  BY ListFacts
<1>11. Creditable(ring, claim, j) => Witnessed(y, keys, j, Horizon)
  BY DEF Creditable, CreditKey
<1> HIDE DEF keys, c
<1>12. ~Witnessed(y, keys, j, Horizon)
  <2>1. j + 1 .. Len(y) = {}
    BY <1>10
  <2>2. ~(Horizon < c.stolenAt)
    BY <1>2, HorizonLate DEF c
  <2>3. c.stolenAt # Never
    BY <1>2
  <2> QED BY <1>9, <2>1, <2>2, <2>3 DEF Witnessed
<1> QED
  BY <1>11, <1>12 DEF ring

----------------------------------------------------------------------------
\* Line c is what a receipt of a bundle earns.
LineFor(b, f, c) == c.bundle = Identity(b) /\ c.bytes = b.bytes /\ c.hop = f.this /\ c.op = OpOf[f.this]

\* Line c is for a hop of a delivery.
ForHop(d, c) == LineOf(d, c, c.op) /\ c.op = OpOf[c.hop]

\* What a delivery's own receipt earns is for a hop.
LEMMA LineIsForHop ==
  ASSUME NEW now, NetInv(now), NEW i \in DOMAIN deliveries, NEW j \in DOMAIN deliveries[i].b.receipts, NEW c,
         LineFor(deliveries[i].b, deliveries[i].b.receipts[j], c)
  PROVE  ForHop(deliveries[i], c)
<1> PICK d : d = deliveries[i]
  OBVIOUS
<1>1. PICK k \in DOMAIN d.path : OfStep(d.b.receipts[j], d.path[k])
  BY InvariantParts DEF DeliveriesOk, DeliveryOk, ReceiptsOk
<1>2. LineFor(d.b, d.b.receipts[j], c)
  OBVIOUS
<1> PICK st : st = d.path[k]
  OBVIOUS
<1>3. st.signed /\ c.hop = st.node /\ c.op = OpOf[st.node] /\ c.bundle = Identity(d.b) /\ c.bytes = d.b.bytes
  BY <1>1, <1>2 DEF OfStep, LineFor
<1>4. k \in HopsOf(d, c.op) /\ d.path[k].node = c.hop
  BY <1>3 DEF HopsOf
<1>5. ForHop(d, c)
  BY <1>3, <1>4 DEF ForHop, LineOf
<1> QED
  BY <1>5

\* The beginning of a list.
LEMMA Beginning ==
  ASSUME NEW W, NEW y, NEW l \in Nat, \A i \in 1 .. l : y[i] \in W
  PROVE  SubSeq(y, 1, l) \in Seq(W) /\ Len(SubSeq(y, 1, l)) = l
<1>1. 1 \in Int /\ l \in Int
  OBVIOUS
<1>2. /\ SubSeq(y, 1, l) \in Seq(W)
      /\ Len(SubSeq(y, 1, l)) = IF 1 <= l THEN l - 1 + 1 ELSE 0
      /\ \A i \in 1 .. l - 1 + 1 : SubSeq(y, 1, l)[i] = y[1 + i - 1]
  BY <1>1, SubSeqProperties
<1> QED
  BY <1>2

\* A chain with a receipt put under its last one is broken.
LEMMA UnderBreaks ==
  ASSUME NEW x, IsList(x), x # <<>>, \A j \in DOMAIN x : x[j].chain = <<ChainDigest(SubSeq(x, 1, j - 1))>>,
         NEW y, ReceiptUnder(x, y)
  PROVE  \E j \in DOMAIN y : ~Committed(y, j)
<1> DEFINE n == Len(x) z == Front(x)
<1> PICK r : y = Append(Append(z, r), Last(x))
  BY DEF ReceiptUnder
<1>1. PICK U : x \in Seq(U)
  BY DEF IsList
<1>2. n \in Nat \ {0} /\ DOMAIN x = 1 .. n /\ n \in DOMAIN x /\ \A j \in 1 .. n : x[j] \in U
  BY <1>1
<1>3. z \in Seq(U) /\ Len(z) = n - 1 /\ z = SubSeq(x, 1, n - 1)
  <2>1. n - 1 \in Nat /\ \A i \in 1 .. n - 1 : x[i] \in U
    BY <1>2
  <2>2. z = SubSeq(x, 1, n - 1)
    BY DEF Front
  <2> PICK l : l = n - 1
    OBVIOUS
  <2> HIDE DEF z, n
  <2>3. SubSeq(x, 1, l) \in Seq(U) /\ Len(SubSeq(x, 1, l)) = l
    BY <2>1, Beginning
  <2> QED BY <2>2, <2>3
<1>4. Last(x) = x[n]
  BY DEF Last
<1> HIDE DEF n, z
<1> DEFINE W == U \cup {r} w == Append(z, r)
<1>5. w \in Seq(W) /\ Len(w) = n
  BY <1>2, <1>3
<1>6. x[n] \in W
  BY <1>2
<1> HIDE DEF w, W
<1>7. y \in Seq(W) /\ Len(y) = n + 1 /\ y[n + 1] = x[n] /\ DOMAIN y = 1 .. n + 1
  BY <1>4, <1>5, <1>6 DEF w
<1>8. DOMAIN SubSeq(y, 1, n) = 1 .. n
  <2>1. \A i \in 1 .. n : y[i] \in W
    BY <1>2, <1>7
  <2>2. SubSeq(y, 1, n) \in Seq(W) /\ Len(SubSeq(y, 1, n)) = n
    BY <1>2, <2>1, Beginning, ZenonT(60)
  <2> QED BY <2>2
<1>9. DOMAIN z = 1 .. n - 1
  BY <1>3
<1>10. \A q : DOMAIN ChainDigest(q) = DOMAIN q
  BY DEF ChainDigest
<1>11. n \in 1 .. n /\ n \notin 1 .. n - 1 /\ (n + 1) - 1 = n
  BY <1>2
<1>12. ChainDigest(SubSeq(y, 1, n)) # ChainDigest(z)
  BY Zenon, <1>8, <1>9, <1>10, <1>11
<1>13. y[n + 1].chain = <<ChainDigest(z)>>
  BY <1>2, <1>3, <1>7
<1>14. y[n + 1].chain # <<>> /\ y[n + 1].chain[1] = ChainDigest(z)
  BY <1>13
<1> DEFINE l == n + 1
<1>15. l \in DOMAIN y /\ l - 1 = n
  BY <1>2, <1>7
<1> HIDE DEF l
<1>16. ~Committed(y, l)
  BY <1>12, <1>14, <1>15 DEF Committed, l
<1> QED
  BY <1>15, <1>16

\* The identity of a whole bundle.
LEMMA IdentityIs ==
  ASSUME NEW b, IsBundle(b)
  PROVE  Identity(b) = <<b.source, b.created>>
<1>1. PICK f1, f2, f3, f4, f5, f6, f7, f8 :
        b = [source |-> f1, created |-> f2, fragment |-> <<>>, payload |-> f3, bytes |-> f4,
             version |-> f5, receipts |-> f6, records |-> f7, hopCount |-> f8, previous |-> NoNode]
  BY Zenon DEF IsBundle
<1>2. b.fragment = <<>> /\ b.source = f1 /\ b.created = f2
  BY <1>1
<1>3. Identity(b) = <<b.source, b.created>> \o <<>>
  BY <1>2 DEF Identity, Whole
<1>4. \A u, v : <<u, v>> \o <<>> = <<u, v>>
  OBVIOUS
<1> QED
  BY Zenon, <1>3, <1>4

\* Whatever a claim earns is for a hop of a delivery.
LEMMA EarnsForHop ==
  ASSUME NEW now, NetInv(now), queue = <<>>, NEW house \in GroundNodes,
         NEW m \in DOMAIN Claims, NEW j \in Receipts(Claims[m]), NEW c, Earns(rings[house], Delivered, Claims[m], j, c)
  PROVE  \E i \in DOMAIN deliveries : ForHop(deliveries[i], c)
<1> PICK claim : claim = Claims[m]
  OBVIOUS
<1> DEFINE b == claim.bundle y == b.receipts ring == rings[house]
<1>1. j \in DOMAIN y /\ Admitted(claim, Delivered) /\ Creditable(ring, claim, j) /\ c = Line(claim, j)
  BY DEF Receipts, Earns
<1>2. LineFor(b, y[j], c)
  BY <1>1 DEF Line, LineFor
<1>3. Identity(b) \in Delivered /\ \A k \in DOMAIN y : Committed(y, k)
  BY <1>1 DEF Admitted
<1>4. ASSUME NEW i \in DOMAIN deliveries, b = deliveries[i].b PROVE ForHop(deliveries[i], c)
  <2>1. j \in DOMAIN deliveries[i].b.receipts /\ LineFor(deliveries[i].b, deliveries[i].b.receipts[j], c)
    BY <1>1, <1>2, <1>4
  <2> QED BY <2>1, LineIsForHop
<1>5. ASSUME NEW i \in DOMAIN deliveries, claim = HonestClaim(deliveries[i]) PROVE ForHop(deliveries[i], c)
  BY <1>4, <1>5 DEF HonestClaim
<1>6. ASSUME NEW i \in DOMAIN deliveries, NEW s, ForgeryOf(deliveries[i], s), claim = LateClaim(s)
      PROVE  ForHop(deliveries[i], c)
  <2> PICK d : d = deliveries[i]
    OBVIOUS
  <2> DEFINE x == d.b.receipts
  <2>1. s = b /\ claim.arrivedAt = Horizon
    BY <1>6 DEF LateClaim
  <2>2. IsBundle(d.b) /\ IsList(x) /\ x # <<>> /\ ReceiptsOk(d.b, d.path) /\ d.b.created # "never sent"
        /\ \A k \in DOMAIN x : x[k].chain = <<ChainDigest(SubSeq(x, 1, k - 1))>>
    BY InvariantParts DEF DeliveriesOk, DeliveryOk, BundleOk, ReceiptsOk
  <2>3. Kinds(d, b) /\ IsList(y)
    BY <1>6, <2>1, <2>2, ForgeryKinds
  <2> HIDE DEF y, b
  <2>4. CASE ReceiptAdded(x, y) /\ Identity(b) = Identity(d.b) /\ b.bytes = d.b.bytes
    <3>1. PICK r : StolenReceipt(r) /\ y = Append(x, r)
      BY <2>4 DEF ReceiptAdded
    <3>2. IsList(y) /\ Len(y) = Len(x) + 1 /\ (\A k \in 1 .. Len(x) : y[k] = x[k]) /\ y[Len(x) + 1] = r
      <4> HIDE DEF x
      <4>1. /\ IsList(Append(x, r)) /\ Len(Append(x, r)) = Len(x) + 1
            /\ (\A k \in 1 .. Len(x) : Append(x, r)[k] = x[k]) /\ Append(x, r)[Len(x) + 1] = r
        BY <2>2, ListAppend
      <4> QED BY Zenon, <3>1, <4>1
    <3>3. Len(x) \in Nat /\ DOMAIN x = 1 .. Len(x) /\ DOMAIN y = 1 .. Len(y)
      BY <2>2, <3>2, ListFacts
    <3> HIDE DEF x
    <3>4. j \in DOMAIN x \/ j = Len(y)
      BY <1>1, <3>2, <3>3
    <3>5. CASE j \in DOMAIN x
      <4>1. y[j] = x[j]
        BY <3>2, <3>3, <3>5
      <4>2. LineFor(d.b, x[j], c)
        BY <1>2, <2>4, <4>1 DEF LineFor
      <4>3. ForHop(deliveries[i], c)
        BY <3>5, <4>2, LineIsForHop DEF x
      <4> QED BY <4>3
    <3>6. CASE j = Len(y)
      <4>1. StolenReceipt(y[j])
        BY <3>1, <3>2, <3>6
      <4>2. claim.bundle.receipts = y
        BY DEF y, b
      <4>3. ~Creditable(ring, claim, j)
        BY <1>1, <2>1, <3>2, <3>6, <4>1, <4>2, StolenIsNotPaid
      <4> QED BY <1>1, <4>3
    <3> QED BY <3>4, <3>5, <3>6
  <2>5. CASE ReceiptUnder(x, y)
    BY <1>3, <2>2, <2>5, UnderBreaks
  <2>6. CASE IsBundle(b) /\ b.created = "never sent"
    <3>1. PICK k \in DOMAIN deliveries : Identity(b) = Identity(deliveries[k].b)
      BY <1>3 DEF Delivered
    <3> PICK o : o = deliveries[k].b
      OBVIOUS
    <3>2. IsBundle(o) /\ o.created # "never sent"
      BY InvariantParts DEF DeliveriesOk, DeliveryOk, BundleOk
    <3>3. <<b.source, b.created>> = <<o.source, o.created>>
      BY <2>6, <3>1, <3>2, IdentityIs
    <3> QED BY <2>6, <3>2, <3>3
  <2>7. CASE b = d.b
    BY <1>4, <2>7
  <2> QED BY <2>3, <2>4, <2>5, <2>6, <2>7 DEF Kinds, y
<1> QED
  BY <1>5, <1>6, ClaimsAre

----------------------------------------------------------------------------
\* Lines for hops of the deliveries, each hop once, are finitely many.
LEMMA LinesFinite ==
  ASSUME NEW now, NetInv(now), NEW L, PaidOnceEach(L),
         \A c \in L : \E i \in DOMAIN deliveries : ForHop(deliveries[i], c)
  PROVE  IsFiniteSet(L)
<1> DEFINE D == DOMAIN deliveries
           of(c) == CHOOSE i \in D : ForHop(deliveries[i], c)
           f == [c \in L |-> <<of(c), c.hop>>]
<1>1. IsFiniteSet(D)
  <2>1. Len(deliveries) \in Nat /\ D = 1 .. Len(deliveries)
    BY InvariantParts, ListFacts DEF DeliveriesOk
  <2>2. \A l \in Nat : IsFiniteSet(1 .. l)
    BY FS_Interval
  <2> HIDE DEF D
  <2> QED BY <2>1, <2>2
<1>2. \A c \in L : of(c) \in D /\ ForHop(deliveries[of(c)], c)
  OBVIOUS
<1> HIDE DEF of
<1>3. \A c \in L : c.bundle = Identity(deliveries[of(c)].b)
  BY <1>2 DEF ForHop, LineOf
<1>4. \A c \in L : c.hop \in Nodes
  <2>1. ASSUME NEW i \in D, NEW k \in DOMAIN deliveries[i].path PROVE deliveries[i].path[k].node \in Nodes
    BY InvariantParts DEF DeliveriesOk, DeliveryOk, PathOk, StepOk
  <2>2. ASSUME NEW c \in L PROVE c.hop \in Nodes
    <3>1. PICK k \in HopsOf(deliveries[of(c)], c.op) : deliveries[of(c)].path[k].node = c.hop
      BY <1>2 DEF ForHop, LineOf
    <3> QED BY <1>2, <2>1, <3>1 DEF HopsOf
  <2> QED BY <2>2
<1>5. f \in Injection(L, D \X Nodes)
  <2>1. f \in [L -> D \X Nodes]
    BY <1>2, <1>4
  <2>2. ASSUME NEW c \in L, NEW o \in L, f[c] = f[o] PROVE c = o
    <3>1. of(c) = of(o) /\ c.hop = o.hop
      BY <2>2
    <3> QED BY <1>3, <3>1 DEF PaidOnceEach
  <2> HIDE DEF f
  <2>3. DOMAIN f = L
    BY <2>1
  <2> QED BY <2>1, <2>2, <2>3 DEF Injection, IsInjective
<1>6. IsFiniteSet(D \X Nodes)
  BY <1>1, FS_Product, RoutingAssumption
<1> HIDE DEF f, D
<1> QED
  BY <1>5, <1>6, FS_Injection

\* Lines of a clearing that nobody forged.
ForgedNothing(lines, ds) ==
  \A c \in lines :
    /\ \E i \in DOMAIN ds : \E k \in DOMAIN ds[i].path :
         /\ Identity(ds[i].b) = c.bundle
         /\ ds[i].path[k].node = c.hop /\ ds[i].path[k].signed
    /\ \A other \in lines : other.bundle = c.bundle /\ other.hop = c.hop => other = c
    /\ \A s \in Payable(Statements(lines)) :
         s.amount <= RatePerByte[s.operator] * Carriage(ds, s.operator)

\* What an operator carried, of the deliveries.
LEMMA CarriedIs == \A op : CarriedBy(op) = Carriage(deliveries, op)
  BY DEF CarriedBy, Carriage, HopsOf

\* And after a step.
LEMMA CarriedIsThen == \A op : CarriedBy(op)' = Carriage(deliveries', op)
  BY DEF CarriedBy, Carriage, HopsOf, FoldSeq, FoldFunction, FoldFunctionOnSet, MapThenFoldSet

\* The clearing is such.
LEMMA PeriodForgesNothing ==
  ASSUME NEW now, NetInv(now), queue = <<>>, NEW house \in GroundNodes
  PROVE  ForgedNothing(Clear(Claims, rings[house], Delivered), deliveries)
<1> PICK w : w = Clear(Claims, rings[house], Delivered)
  OBVIOUS
<1>1. Cleared(rings[house], Delivered, Claims, DOMAIN Claims, w)
  BY PeriodCleared
<1>2. ASSUME NEW c \in w PROVE \E i \in DOMAIN deliveries : ForHop(deliveries[i], c)
  <2>1. PICK m \in DOMAIN Claims : \E j \in Receipts(Claims[m]) : Earns(rings[house], Delivered, Claims[m], j, c)
    BY <1>1 DEF Cleared
  <2> QED BY <2>1, EarnsForHop
<1>3. PaidOnceEach(w)
  BY <1>1 DEF Cleared
<1>4. ASSUME NEW c \in w
      PROVE  \E i \in DOMAIN deliveries : \E k \in DOMAIN deliveries[i].path :
               /\ Identity(deliveries[i].b) = c.bundle
               /\ deliveries[i].path[k].node = c.hop /\ deliveries[i].path[k].signed
  <2>1. PICK i \in DOMAIN deliveries : ForHop(deliveries[i], c)
    BY <1>2
  <2> QED BY <2>1 DEF ForHop, LineOf, HopsOf
<1>5. ASSUME NEW s \in Payable(Statements(w))
      PROVE  s.amount <= RatePerByte[s.operator] * Carriage(deliveries, s.operator)
  <2>1. PICK op \in Operators : s = Statement(op, w)
    BY DEF Payable, Statements
  <2> PICK L : L = {c \in w : c.op = op}
    OBVIOUS
  <2>2. s.operator = op /\ s.amount = LineBytes(L) * RatePerByte[op]
    BY <2>1 DEF Statement, LineBytes
  <2>3. L \subseteq w /\ PaidOnceEach(L)
    BY <1>3 DEF PaidOnceEach
  <2>4. \A c \in L : \E i \in DOMAIN deliveries : ForHop(deliveries[i], c)
    BY <1>2, <2>3
  <2>5. \A c \in L : \E i \in DOMAIN deliveries : LineOf(deliveries[i], c, op)
    BY <2>4 DEF ForHop
  <2>6. IsFiniteSet(L)
    BY <2>3, <2>4, LinesFinite
  <2>7. IsList(deliveries) /\ \A i \in DOMAIN deliveries : deliveries[i].b.bytes \in Nat /\ IsList(deliveries[i].path)
    BY InvariantParts DEF DeliveriesOk, DeliveryOk, BundleOk, PathOk
  <2>8. LineBytes(L) \in Nat /\ Carriage(deliveries, op) \in Nat /\ LineBytes(L) <= Carriage(deliveries, op)
    BY <2>3, <2>5, <2>6, <2>7, LinesWithin
  <2>9. RatePerByte[op] \in Nat
    BY NetworkAssumption
  <2> PICK x, z, r : x = LineBytes(L) /\ z = Carriage(deliveries, op) /\ r = RatePerByte[op]
    OBVIOUS
  <2>10. x \in Nat /\ z \in Nat /\ r \in Nat /\ x <= z
    BY <2>8, <2>9
  <2>11. r * x <= r * z /\ x * r = r * x
    BY <2>10, Multiples
  <2> QED BY <2>2, <2>11
<1>6. ForgedNothing(w, deliveries)
  BY <1>3, <1>4, <1>5 DEF ForgedNothing, PaidOnceEach
<1> QED
  BY <1>6

\* Of the deliveries and the five forgeries of run.mjs:51-61, the clearing credits
\* only what custodians carried and signed, once each, and nobody is paid for more
\* than its nodes carried (NothingForged; ssi/settle.mjs:31-75).
THEOREM NobodyForges == Spec => []NothingForged
<1>1. Init => IInv /\ Done /\ NothingForged
  <2>1. Init => NothingForged
    BY DEF Init, NothingForged
  <2> QED BY <2>1, InitInvariant, DoneAtFirst
<1>2. IInv /\ Done /\ NothingForged /\ [Next]_vars => (IInv /\ Done /\ NothingForged)'
  <2>1. SUFFICES ASSUME IInv, Done, NothingForged, [Next]_vars PROVE (IInv /\ Done /\ NothingForged)'
    OBVIOUS
  <2>2. IInv' /\ Done'
    BY <2>1, StepInvariant, ClearingStep
  <2>3. NothingForged <=> (credited # <<>> => ForgedNothing(credited[1], deliveries))
    BY CarriedIs DEF NothingForged, ForgedNothing
  <2>4. NothingForged' <=> (credited' # <<>> => ForgedNothing(credited'[1], deliveries'))
    BY CarriedIsThen DEF NothingForged, ForgedNothing
  <2>5. CASE credited' = <<>>
    BY <2>2, <2>4, <2>5
  <2>6. CASE credited' = credited /\ deliveries' = deliveries /\ compromise' = compromise
    BY <2>1, <2>2, <2>3, <2>4, <2>6
  <2>7. CASE /\ queue = <<>> /\ deliveries' = deliveries /\ compromise' = compromise
             /\ \E house \in GroundNodes : credited' = <<Clear(Claims, rings[house], Delivered)>>
    <3>1. PICK house \in GroundNodes : credited' = <<Clear(Claims, rings[house], Delivered)>>
      BY <2>7
    <3>2. ForgedNothing(Clear(Claims, rings[house], Delivered), deliveries)
      BY <2>1, <2>7, PeriodForgesNothing DEF IInv
    <3>3. credited'[1] = Clear(Claims, rings[house], Delivered)
      BY <3>1
    <3> QED BY <2>2, <2>4, <2>7, <3>2, <3>3
  <2> QED BY <2>1, <2>5, <2>6, <2>7, ClearingStep
<1>3. QED
  BY <1>1, <1>2, PTL DEF Spec
=============================================================================
