-------------------------- MODULE TrainingStepProofs --------------------------
(***************************************************************************)
(* What TrainingStep keeps, for every mesh of ranks, exchange size, list   *)
(* of tensors, batch and set of outcomes:                                  *)
(*   - every rollout is generated with the weights of the moment           *)
(*     (FreshInv);                                                         *)
(*   - every row that is asked for is generated once, its fields stay with *)
(*     it, and it is trained on once (RowsInv, by phase: GenerationInv,    *)
(*     AcceptedInv, BatchInv, TrainingInv, TrainedInv);                    *)
(*   - a row is compared with the rows of its prompt;                      *)
(*   - a dynamic micro-batch exceeds the token limit by less than a row.   *)
(* First what SeqlenBalancing computes (Karmarkar-Karp differencing keeps  *)
(* every row and balances the parts), then the ranks that generate, then   *)
(* the rows: how the driver asks for them, receives, balances and trains.  *)
(***************************************************************************)
EXTENDS TrainingStep, SequenceTheorems, FiniteSetTheorems, TLAPS

-------------------------------------
(* Orders, and induction over data                                          *)

\* R orders the elements of S one after another.
Orders(R, S) ==
    /\ R \in SUBSET (S \X S)
    /\ \A x \in S : <<x, x>> \notin R
    /\ \A x, y, z \in S : <<x, y>> \in R /\ <<y, z>> \in R => <<x, z>> \in R
    /\ \A x, y \in S : x # y => <<x, y>> \in R \/ <<y, x>> \in R

Below(R, S, x) == {y \in S : <<y, x>> \in R}

LEMMA BelowGrows ==
  ASSUME NEW S, NEW R, Orders(R, S), NEW x \in S, NEW y \in S, <<x, y>> \in R
  PROVE  Below(R, S, x) \subseteq Below(R, S, y) /\ Below(R, S, x) # Below(R, S, y)
<1>1. x \in Below(R, S, y) /\ x \notin Below(R, S, x)
  BY DEF Orders, Below
<1>2. Below(R, S, x) \subseteq Below(R, S, y)
  BY Zenon DEF Orders, Below
<1> QED
  BY <1>1, <1>2

LEMMA FirstExists ==
  ASSUME NEW S, IsFiniteSet(S), S # {}, NEW R, Orders(R, S)
  PROVE  \E x \in S : \A y \in S \ {x} : <<x, y>> \in R
<1> DEFINE W == StrictSubsetOrdering(S)
           F == FiniteSubsetsOf(S)
           U == {Below(R, S, x) : x \in S}
<1>1. IsWellFoundedOn(W, F)
  BY FS_StrictSubsetOrderingWellFounded
<1>2. \A x \in S : Below(R, S, x) \in SUBSET S /\ Below(R, S, x) \in F
  BY FS_Subset DEF Below, FiniteSubsetsOf
<1>3. U \subseteq F /\ U # {}
  BY <1>2
<1> HIDE DEF F, W
<1>4. PICK X \in U : \A Y \in U : ~ (<<Y, X>> \in W)
  BY <1>1, <1>3, WFMin, Zenon
<1>5. PICK x \in S : X = Below(R, S, x)
  BY <1>4
<1>6. ASSUME NEW y \in S, <<y, x>> \in R PROVE FALSE
  <2>1. <<Below(R, S, y), Below(R, S, x)>> \in W
    BY <1>2, <1>6, BelowGrows DEF W, StrictSubsetOrdering
  <2> QED
    BY <1>4, <1>5, <2>1
<1> QED
  BY <1>6 DEF Orders

\* A set of natural numbers has a least element.
LEMMA NatMin ==
  ASSUME NEW T \in SUBSET Nat, T # {}
  PROVE \E x \in T : \A y \in T : x <= y
<1>1. PICK b \in T : TRUE
  OBVIOUS
<1> DEFINE S == {x \in T : x <= b}
           R == {x \in S \X S : x[1] < x[2]}
<1>2. IsFiniteSet(S) /\ b \in S /\ S \subseteq Nat
  <2>a. b \in Nat /\ b <= b
    OBVIOUS
  <2>1. S \in SUBSET Nat /\ b \in Nat /\ (\A x \in S : x <= b) /\ b \in S
    BY <2>a
  <2> HIDE DEF S
  <2> QED
    BY <2>1, FS_BoundedSetOfNaturals
<1>3. \A x \in T : x \in S \/ b <= x
  OBVIOUS
<1> HIDE DEF S
<1>4. Orders(R, S)
  BY <1>2 DEF Orders
<1>5. PICK x \in S : \A y \in S \ {x} : <<x, y>> \in R
  <2> HIDE DEF R
  <2> QED
    BY <1>2, <1>4, FirstExists
<1>6. \A y \in S : x <= y
  <2>1. \A y \in S : y # x => x < y
    BY <1>5
  <2>2. \A y \in S : y \in Nat
    BY <1>2
  <2> QED
    BY <2>1, <2>2
<1>7. x \in T
  BY DEF S
<1>8. ASSUME NEW y \in T PROVE x <= y
  <2>1. x \in Nat /\ y \in Nat /\ b \in Nat /\ x <= b
    BY <1>2, <1>6
  <2> QED
    BY <1>3, <1>6, <2>1
<1> QED
  BY <1>7, <1>8

\* Induction over the naturals, for a set instead of a predicate.
LEMMA NatSetInduction ==
  ASSUME NEW T \in SUBSET Nat, 0 \in T, \A n \in T : n + 1 \in T
  PROVE T = Nat
<1>1. SUFFICES ASSUME Nat \ T # {} PROVE FALSE
  OBVIOUS
<1>2. PICK x \in Nat \ T : \A y \in Nat \ T : x <= y
  BY <1>1, NatMin
<1>3. x - 1 \in T
  BY <1>2
<1> QED
  BY <1>2, <1>3

LEMMA RanksAreDistinct ==
  ASSUME NEW n \in Nat, NEW R, Orders(R, 1..n)
  PROVE  \E p \in Bijection(1..n, 1..n) :
            /\ \A i \in 1..n : \A j \in 1..n : Cardinality(Below(R, 1..n, j)) = i - 1 <=> j = p[i]
            /\ \A i, j \in 1..n : i < j => <<p[i], p[j]>> \in R
<1> DEFINE S == 1..n
           rank(j) == Cardinality(Below(R, S, j))
           f == [j \in S |-> rank(j) + 1]
<1>1. IsFiniteSet(S) /\ Cardinality(S) = n
  BY FS_Interval
<1>2. \A j \in S : /\ IsFiniteSet(Below(R, S, j)) /\ rank(j) \in Nat
                   /\ rank(j) < n
  <2> SUFFICES ASSUME NEW j \in S
               PROVE  IsFiniteSet(Below(R, S, j)) /\ rank(j) \in Nat /\ rank(j) < n
    OBVIOUS
  <2>1. Below(R, S, j) \in SUBSET S /\ j \notin Below(R, S, j)
    BY DEF Below, Orders
  <2> HIDE DEF S
  <2>2. IsFiniteSet(Below(R, S, j)) /\ rank(j) <= n /\ (rank(j) = n => S = Below(R, S, j))
    BY <2>1, <1>1, FS_Subset
  <2>3. rank(j) \in Nat
    BY <2>2, FS_CardinalityType
  <2> HIDE DEF rank
  <2> QED
    BY <2>1, <2>2, <2>3
<1>3. \A i, j \in S : <<i, j>> \in R => rank(i) < rank(j)
  <2> SUFFICES ASSUME NEW i \in S, NEW j \in S, <<i, j>> \in R PROVE rank(i) < rank(j)
    OBVIOUS
  <2> HIDE DEF S
  <2>1. Below(R, S, i) \in SUBSET Below(R, S, j) /\ Below(R, S, i) # Below(R, S, j)
    BY BelowGrows DEF S
  <2>2. rank(i) <= rank(j) /\ rank(i) # rank(j)
    BY <1>2, <2>1, FS_Subset
  <2>3. rank(i) \in Nat /\ rank(j) \in Nat
    BY <1>2
  <2> HIDE DEF rank
  <2> QED
    BY <2>2, <2>3
<1>4. f \in Injection(S, S)
  <2> HIDE DEF rank
  <2>1. f \in [S -> S]
    BY <1>2
  <2>2. ASSUME NEW i \in S, NEW j \in S, i # j PROVE f[i] # f[j]
    <3>1. rank(i) \in Nat /\ rank(j) \in Nat /\ (rank(i) < rank(j) \/ rank(j) < rank(i))
      BY <1>2, <1>3, <2>2 DEF Orders
    <3> QED
      BY <3>1
  <2> HIDE DEF f
  <2> QED
    BY <2>1, <2>2 DEF Injection, IsInjective
<1> HIDE DEF f
<1>5. f \in Surjection(S, S)
  BY <1>1, <1>4, FS_Injection
<1> DEFINE p == [i \in S |-> CHOOSE j \in S : f[j] = i]
<1>6. \A i \in S : p[i] \in S /\ f[p[i]] = i
  BY <1>5 DEF Surjection
<1>7. \A i, j \in S : f[j] = i <=> j = p[i]
  BY <1>4, <1>6 DEF Injection, IsInjective
<1> HIDE DEF p
<1>8. p \in Bijection(S, S)
  <2>1. p \in [S -> S]
    BY <1>6 DEF p
  <2>2. \A i, j \in S : p[i] = p[j] => i = j
    BY <1>6
  <2>3. \A j \in S : p[f[j]] = j
    BY <1>4, <1>7 DEF Injection
  <2>4. \A j \in S : f[j] \in S
    BY <1>4 DEF Injection
  <2> HIDE DEF S
  <2> QED
    BY <2>1, <2>2, <2>3, <2>4 DEF Bijection, Injection, Surjection, IsInjective
<1>9. \A i, j \in S : rank(j) = i - 1 <=> j = p[i]
  <2>1. \A j \in S : f[j] = rank(j) + 1 /\ rank(j) \in Nat
    BY <1>2 DEF f
  <2> HIDE DEF rank
  <2>2. ASSUME NEW i \in S, NEW j \in S PROVE rank(j) = i - 1 <=> f[j] = i
    <3>1. f[j] = rank(j) + 1 /\ rank(j) \in Nat /\ i \in Nat
      BY <2>1
    <3> QED
      BY <3>1
  <2> QED
    BY <1>7, <2>2
<1>10. \A i, j \in S : i < j => <<p[i], p[j]>> \in R
  <2> SUFFICES ASSUME NEW i \in S, NEW j \in S, i < j PROVE <<p[i], p[j]>> \in R
    OBVIOUS
  <2>1. rank(p[i]) = i - 1 /\ rank(p[j]) = j - 1 /\ p[i] \in S /\ p[j] \in S
    BY <1>6, <1>9
  <2>2. p[i] # p[j]
    BY <1>6
  <2> HIDE DEF rank
  <2>3. ~(rank(p[j]) < rank(p[i]))
    BY <2>1
  <2> HIDE DEF S
  <2> QED
    BY <1>3, <2>1, <2>2, <2>3 DEF Orders, S
<1> QED
  BY <1>8, <1>9, <1>10

SortedBy(s, L) == Sorted(s, LAMBDA a, b : <<a, b>> \in L)

LEMMA PlacesAreOrdered ==
  ASSUME NEW S, NEW s \in Seq(S), NEW L, Orders(L, S)
  PROVE  Orders({x \in (1..Len(s)) \X (1..Len(s)) :
                    \/ <<s[x[1]], s[x[2]]>> \in L
                    \/ <<s[x[2]], s[x[1]]>> \notin L /\ x[1] < x[2]}, 1..Len(s))
<1> DEFINE I == 1..Len(s)
           B(i, j) == <<s[i], s[j]>> \in L \/ (<<s[j], s[i]>> \notin L /\ i < j)
           R == {x \in I \X I : B(x[1], x[2])}
<1>1. \A i, j \in I : <<i, j>> \in R <=> B(i, j)
  OBVIOUS
<1>2. \A i \in I : s[i] \in S /\ i \in Nat
  OBVIOUS
<1> HIDE DEF I
<1>3. \A a, b \in S : <<a, b>> \in L => <<b, a>> \notin L
  BY Zenon DEF Orders
<1>4. \A i \in I : ~B(i, i)
  <2>1. \A i \in I : ~(i < i)
    BY <1>2
  <2> QED
    BY <1>2, <2>1, Zenon DEF Orders
<1>5. \A i, j \in I : i # j => B(i, j) \/ B(j, i)
  <2>1. \A i, j \in I : i # j => i < j \/ j < i
    BY <1>2
  <2> QED
    BY <2>1, Zenon
<1>6. ASSUME NEW i \in I, NEW j \in I, NEW k \in I, B(i, j), B(j, k) PROVE B(i, k)
  <2>1. s[i] \in S /\ s[j] \in S /\ s[k] \in S
    BY <1>2
  <2>2. CASE <<s[i], s[j]>> \in L /\ <<s[j], s[k]>> \in L
    BY <2>1, <2>2, Zenon DEF Orders
  <2>3. CASE <<s[i], s[j]>> \in L /\ <<s[j], s[k]>> \notin L
    <3>1. s[j] = s[k]
      BY <1>6, <2>1, <2>3, Zenon DEF Orders
    <3> QED
      BY <2>3, <3>1
  <2>4. CASE <<s[i], s[j]>> \notin L /\ <<s[j], s[k]>> \in L
    <3>1. s[i] = s[j]
      BY <1>6, <2>1, <2>4, Zenon DEF Orders
    <3> QED
      BY <2>4, <3>1
  <2>5. CASE <<s[i], s[j]>> \notin L /\ <<s[j], s[k]>> \notin L
    <3>1. s[i] = s[j] /\ s[j] = s[k]
      BY <1>6, <2>1, <2>5, Zenon DEF Orders
    <3>2. i < j /\ j < k
      BY <1>6, <2>5
    <3>3. i < k
      BY <1>2, <3>2
    <3>4. <<s[i], s[i]>> \notin L
      BY <2>1, Zenon DEF Orders
    <3> QED
      BY <3>1, <3>3, <3>4
  <2> QED
    BY <2>2, <2>3, <2>4, <2>5, Zenon
<1> HIDE DEF B
<1>7. R \in SUBSET (I \X I)
  OBVIOUS
<1>a. Orders(R, I)
  <2> HIDE DEF R
  <2>1. \A i \in I : <<i, i>> \notin R
    BY <1>1, <1>4, Zenon
  <2>2. \A i, j \in I : i # j => <<i, j>> \in R \/ <<j, i>> \in R
    BY <1>1, <1>5, Zenon
  <2>3. ASSUME NEW i \in I, NEW j \in I, NEW k \in I, <<i, j>> \in R, <<j, k>> \in R
        PROVE  <<i, k>> \in R
    <3>1. B(i, j) /\ B(j, k)
      BY <1>1, <2>3, Zenon
    <3>2. B(i, k)
      BY <1>6, <3>1, Zenon
    <3> QED
      BY <1>1, <3>2, Zenon
  <2> QED
    BY <1>7, <2>1, <2>2, <2>3, Zenon DEF Orders
<1> QED
  BY <1>a DEF R, B, I

\* sorted() permutes its argument, and no element comes after a greater one.
LEMMA SortedPermutes ==
  ASSUME NEW S, NEW s \in Seq(S), NEW L, Orders(L, S)
  PROVE  \E p \in Bijection(1..Len(s), 1..Len(s)) :
            /\ SortedBy(s, L) = [i \in 1..Len(s) |-> s[p[i]]]
            /\ \A i, j \in 1..Len(s) : i < j => <<s[p[j]], s[p[i]]>> \notin L
<1> DEFINE n == Len(s)
           I == 1..n
           B(i, j) == <<s[i], s[j]>> \in L \/ (<<s[j], s[i]>> \notin L /\ i < j)
           R == {x \in I \X I : B(x[1], x[2])}
<1>n. n \in Nat /\ DOMAIN s = I
  OBVIOUS
<1>1. Orders(R, I)
  BY PlacesAreOrdered
<1>2. \A i, j \in I : <<i, j>> \in R <=> B(i, j)
  OBVIOUS
<1> DEFINE Placed(place) == CHOOSE i \in I : Cardinality({j \in I : B(j, i)}) = place - 1
<1>3. SortedBy(s, L) = SubSeq([place \in I |-> s[Placed(place)]], 1, n)
  BY <1>n DEF SortedBy, Sorted
<1> HIDE DEF n, R
<1>4. PICK p \in Bijection(I, I) :
            /\ \A i \in I : \A j \in I : Cardinality(Below(R, I, j)) = i - 1 <=> j = p[i]
            /\ \A i, j \in I : i < j => <<p[i], p[j]>> \in R
  BY <1>1, <1>n, RanksAreDistinct
<1>5. \A i \in I : Below(R, I, i) = {j \in I : B(j, i)}
  BY <1>2 DEF Below
<1>6. \A i \in I : p[i] \in I
  BY <1>4 DEF Bijection, Injection
<1>7. ASSUME NEW i \in I PROVE Placed(i) = p[i]
  <2> HIDE DEF B, I
  <2>1. \A j \in I : Cardinality({k \in I : B(k, j)}) = i - 1 <=> j = p[i]
    BY <1>4, <1>5
  <2> QED
    BY <1>6, <2>1
<1> HIDE DEF Placed
<1>8. SortedBy(s, L) = [i \in I |-> s[p[i]]]
  <2>1. [place \in I |-> s[Placed(place)]] = [i \in I |-> s[p[i]]]
    BY <1>7
  <2>2. [i \in I |-> s[p[i]]] \in Seq(S) /\ Len([i \in I |-> s[p[i]]]) = n
    BY <1>6, <1>n DEF n
  <2>3. \A t \in Seq(S) : SubSeq(t, 1, Len(t)) = t
    OBVIOUS
  <2> QED
    BY <1>3, <2>1, <2>2, <2>3
<1>9. ASSUME NEW i \in I, NEW j \in I, i < j PROVE <<s[p[j]], s[p[i]]>> \notin L
  <2>1. B(p[i], p[j]) /\ p[i] \in I /\ p[j] \in I
    BY <1>2, <1>4, <1>6, <1>9
  <2>2. s[p[i]] \in S /\ s[p[j]] \in S
    BY <2>1 DEF n
  <2> QED
    BY <2>1, <2>2, Zenon DEF Orders
<1> QED
  BY <1>4, <1>8, <1>9 DEF n

-------------------------------------
(* Sets of items                                                            *)

\* The items of a list of rows: the index of an item tells its length.
Keyed(P) == P \subseteq Item /\ \A a, b \in P : a[1] = b[1] => a = b

DiffersAt(a, b, i) == (\A k \in 1..Len(a) : k < i => a[k] = b[k]) /\ a[i][1] < b[i][1]

LEMMA KeysAreNat ==
  ASSUME NEW P, Keyed(P)
  PROVE  \A a \in P : a[1] \in Nat /\ a[2] \in Nat
BY DEF Keyed, Item

LEMMA ItemsLessAt ==
  ASSUME NEW P, Keyed(P), NEW a \in Seq(P), NEW b \in Seq(P), Len(a) = Len(b)
  PROVE  ItemsLess(a, b) <=> \E i \in 1..Len(a) : DiffersAt(a, b, i)
<1>1. ASSUME NEW i \in 1..Len(a)
      PROVE  SubSeq(a, 1, i - 1) = SubSeq(b, 1, i - 1)
             <=> \A k \in 1..Len(a) : k < i => a[k] = b[k]
  <2> DEFINE m == i - 1
  <2>1. m \in Nat /\ m <= Len(a)
    OBVIOUS
  <2>2. SubSeq(a, 1, m) = [k \in 1..m |-> a[k]] /\ SubSeq(b, 1, m) = [k \in 1..m |-> b[k]]
    <3> HIDE DEF m
    <3> QED
      BY <2>1
  <2>3. \A k : k \in 1..m <=> k \in 1..Len(a) /\ k < i
    BY <2>1
  <2> HIDE DEF m
  <2>4. SubSeq(a, 1, m) = SubSeq(b, 1, m) <=> \A k \in 1..m : a[k] = b[k]
    BY <2>2
  <2>5. SubSeq(a, 1, m) = SubSeq(b, 1, m) <=> \A k \in 1..Len(a) : k < i => a[k] = b[k]
    BY <2>3, <2>4, Zenon
  <2> QED
    BY <2>5 DEF m
<1> QED
  BY <1>1 DEF ItemsLess, DiffersAt

LEMMA ItemsLessTotal ==
  ASSUME NEW P, Keyed(P), NEW a \in Seq(P), NEW b \in Seq(P), Len(a) = Len(b), a # b
  PROVE  ItemsLess(a, b) \/ ItemsLess(b, a)
<1> DEFINE T == {i \in 1..Len(a) : a[i] # b[i]}
<1>1. T \in SUBSET Nat /\ T # {}
  OBVIOUS
<1>2. PICK i \in T : \A k \in T : i <= k
  <2> HIDE DEF T
  <2> QED
    BY <1>1, NatMin
<1>3. i \in 1..Len(a) /\ a[i] # b[i] /\ \A k \in 1..Len(a) : k < i => a[k] = b[k]
  BY <1>2
<1>4. a[i][1] \in Nat /\ b[i][1] \in Nat /\ a[i][1] # b[i][1]
  <2>1. a[i] \in P /\ b[i] \in P
    BY <1>3
  <2> QED
    BY <1>3, <2>1, KeysAreNat DEF Keyed
<1>5. DiffersAt(a, b, i) \/ DiffersAt(b, a, i)
  BY <1>3, <1>4 DEF DiffersAt
<1> QED
  BY <1>3, <1>5, ItemsLessAt

LEMMA ItemsLessTransitive ==
  ASSUME NEW P, Keyed(P), NEW a \in Seq(P), NEW b \in Seq(P), NEW c \in Seq(P),
         Len(a) = Len(b), Len(b) = Len(c), ItemsLess(a, b), ItemsLess(b, c)
  PROVE  ItemsLess(a, c)
<1>1. PICK i \in 1..Len(a) : DiffersAt(a, b, i)
  BY ItemsLessAt
<1>2. PICK j \in 1..Len(a) : DiffersAt(b, c, j)
  BY ItemsLessAt
<1>3. \A k \in 1..Len(a) : a[k][1] \in Nat /\ b[k][1] \in Nat /\ c[k][1] \in Nat
  <2>1. \A k \in 1..Len(a) : a[k] \in P /\ b[k] \in P /\ c[k] \in P
    OBVIOUS
  <2> QED
    BY <2>1, KeysAreNat
<1>4. CASE i < j
  <2>1. DiffersAt(a, c, i)
    <3>1. \A k \in 1..Len(a) : k < i => k < j
      BY <1>4
    <3> QED
      BY <1>1, <1>2, <1>4, <3>1 DEF DiffersAt
  <2> QED
    BY <2>1, ItemsLessAt
<1>5. CASE j < i
  <2>1. DiffersAt(a, c, j)
    <3>1. \A k \in 1..Len(a) : k < j => k < i
      BY <1>5
    <3> QED
      BY <1>1, <1>2, <1>5, <3>1 DEF DiffersAt
  <2> QED
    BY <2>1, ItemsLessAt
<1>6. CASE i = j
  <2>1. a[i][1] < c[i][1]
    BY <1>1, <1>2, <1>3, <1>6 DEF DiffersAt
  <2>2. DiffersAt(a, c, i)
    BY <1>1, <1>2, <1>6, <2>1 DEF DiffersAt
  <2> QED
    BY <2>2, ItemsLessAt
<1> QED
  BY <1>4, <1>5, <1>6

LEMMA ItemsLessIrreflexive ==
  ASSUME NEW P, Keyed(P), NEW a \in Seq(P)
  PROVE  ~ItemsLess(a, a)
<1>1. \A k \in 1..Len(a) : a[k][1] \in Nat
  BY DEF Keyed, Item
<1> QED
  BY <1>1 DEF ItemsLess

\* Sets of such items are ordered, from the smallest to the largest.
SetsOver(P) == [sum : Nat, items : Seq(P)]
Smaller(P) == {x \in SetsOver(P) \X SetsOver(P) : SetLess(x[1], x[2])}
Larger(P) == {x \in SetsOver(P) \X SetsOver(P) : SetLess(x[2], x[1])}

LEMMA SetsAreOrdered ==
  ASSUME NEW P, Keyed(P)
  PROVE  Orders(Larger(P), SetsOver(P)) /\ Orders(Smaller(P), SetsOver(P))
<1> DEFINE S == SetsOver(P)
<1>1. \A a, b \in S : /\ <<a, b>> \in Larger(P) <=> SetLess(b, a)
                      /\ <<a, b>> \in Smaller(P) <=> SetLess(a, b)
  BY DEF Larger, Smaller
<1>2. \A a \in S : a.sum \in Nat /\ a.items \in Seq(P) /\ Len(a.items) \in Nat
  BY DEF SetsOver
<1>3. \A a, b \in S : a.sum = b.sum /\ a.items = b.items => a = b
  BY DEF SetsOver
<1>4. ASSUME NEW a \in S PROVE ~SetLess(a, a)
  <2>1. a.sum \in Nat /\ Len(a.items) \in Nat /\ ~ItemsLess(a.items, a.items)
    BY <1>2, ItemsLessIrreflexive
  <2> QED
    BY <2>1 DEF SetLess
<1>5. ASSUME NEW a \in S, NEW b \in S, a # b PROVE SetLess(a, b) \/ SetLess(b, a)
  <2>1. /\ a.sum \in Nat /\ b.sum \in Nat /\ Len(a.items) \in Nat /\ Len(b.items) \in Nat
        /\ a.items \in Seq(P) /\ b.items \in Seq(P)
    BY <1>2
  <2>2. CASE a.sum = b.sum /\ Len(a.items) = Len(b.items)
    <3>1. a.items # b.items
      BY <1>3, <1>5, <2>2
    <3>2. ItemsLess(a.items, b.items) \/ ItemsLess(b.items, a.items)
      BY <2>1, <2>2, <3>1, ItemsLessTotal
    <3> QED
      BY <2>2, <3>2 DEF SetLess
  <2>3. CASE ~(a.sum = b.sum /\ Len(a.items) = Len(b.items))
    BY <2>1, <2>3 DEF SetLess
  <2> QED
    BY <2>2, <2>3
<1>6. ASSUME NEW a \in S, NEW b \in S, NEW c \in S, SetLess(a, b), SetLess(b, c)
      PROVE  SetLess(a, c)
  <2>1. /\ a.sum \in Nat /\ b.sum \in Nat /\ c.sum \in Nat
        /\ Len(a.items) \in Nat /\ Len(b.items) \in Nat /\ Len(c.items) \in Nat
        /\ a.items \in Seq(P) /\ b.items \in Seq(P) /\ c.items \in Seq(P)
    BY <1>2
  <2>2. CASE /\ a.sum = b.sum /\ b.sum = c.sum
             /\ Len(a.items) = Len(b.items) /\ Len(b.items) = Len(c.items)
    <3>1. ItemsLess(a.items, b.items) /\ ItemsLess(b.items, c.items)
      BY <1>6, <2>1, <2>2 DEF SetLess
    <3>2. ItemsLess(a.items, c.items)
      BY <2>1, <2>2, <3>1, ItemsLessTransitive
    <3> QED
      BY <2>2, <3>2 DEF SetLess
  <2>3. CASE ~(/\ a.sum = b.sum /\ b.sum = c.sum
               /\ Len(a.items) = Len(b.items) /\ Len(b.items) = Len(c.items))
    BY <1>6, <2>1, <2>3 DEF SetLess
  <2> QED
    BY <2>2, <2>3
<1>7. Larger(P) \in SUBSET (S \X S) /\ Smaller(P) \in SUBSET (S \X S)
  BY DEF Larger, Smaller
<1>a. \A x \in S : <<x, x>> \notin Larger(P) /\ <<x, x>> \notin Smaller(P)
  BY <1>1, <1>4
<1>b. \A x, y \in S : x # y => /\ <<x, y>> \in Larger(P) \/ <<y, x>> \in Larger(P)
                               /\ <<x, y>> \in Smaller(P) \/ <<y, x>> \in Smaller(P)
  BY <1>1, <1>5, Zenon
<1>c. \A x, y, z \in S : <<x, y>> \in Larger(P) /\ <<y, z>> \in Larger(P) => <<x, z>> \in Larger(P)
  BY <1>1, <1>6
<1>d. \A x, y, z \in S : <<x, y>> \in Smaller(P) /\ <<y, z>> \in Smaller(P) => <<x, z>> \in Smaller(P)
  BY <1>1, <1>6
<1>8. Orders(Larger(P), S)
  BY <1>a, <1>b, <1>c, <1>7 DEF Orders
<1>9. Orders(Smaller(P), S)
  BY <1>a, <1>b, <1>d, <1>7 DEF Orders
<1> QED
  BY <1>8, <1>9

-------------------------------------
(* Sums                                                                     *)

Additive(A, f, D) ==
    /\ A \in [SUBSET D -> Int]
    /\ A[{}] = 0
    /\ \A X \in SUBSET D : \A y \in D \ X : A[X \cup {y}] = A[X] + f[y]

LEMMA AdditiveGrows ==
  ASSUME NEW D, NEW y, y \notin D, NEW f, \A z \in D \cup {y} : f[z] \in Int, NEW A, Additive(A, f, D)
  PROVE  \E B : Additive(B, f, D \cup {y})
<1> DEFINE E == D \cup {y}
           B == [X \in SUBSET E |-> A[X \ {y}] + (IF y \in X THEN f[y] ELSE 0)]
<1>1. \A X \in SUBSET E : X \ {y} \in SUBSET D /\ A[X \ {y}] \in Int
  BY DEF Additive
<1>2. B \in [SUBSET E -> Int]
  <2>1. f[y] \in Int
    OBVIOUS
  <2>2. \A X \in SUBSET E : A[X \ {y}] + (IF y \in X THEN f[y] ELSE 0) \in Int
    <3> SUFFICES ASSUME NEW X \in SUBSET E
                 PROVE  A[X \ {y}] + (IF y \in X THEN f[y] ELSE 0) \in Int
      OBVIOUS
    <3>1. A[X \ {y}] \in Int
      BY <1>1, Zenon
    <3>2. CASE y \in X
      BY <2>1, <3>1, <3>2
    <3>3. CASE y \notin X
      BY <3>1, <3>3
    <3> QED
      BY <3>2, <3>3
  <2> HIDE DEF E
  <2> QED
    BY <2>2
<1>3. B[{}] = 0
  <2>1. {} \in SUBSET E /\ {} \ {y} = {}
    OBVIOUS
  <2> QED
    BY <2>1 DEF Additive
<1>4. ASSUME NEW X \in SUBSET E, NEW z \in E \ X PROVE B[X \cup {z}] = B[X] + f[z]
  <2> DEFINE X0 == X \ {y}
             X1 == (X \cup {z}) \ {y}
  <2>1. /\ B[X] = A[X0] + (IF y \in X THEN f[y] ELSE 0)
        /\ B[X \cup {z}] = A[X1] + (IF y \in X \cup {z} THEN f[y] ELSE 0)
    <3>1. X \cup {z} \in SUBSET E
      OBVIOUS
    <3> HIDE DEF E
    <3> QED
      BY <3>1
  <2>2. A[X0] \in Int /\ A[X1] \in Int
    <3>1. X0 \in SUBSET D /\ X1 \in SUBSET D
      OBVIOUS
    <3> QED
      BY <3>1 DEF Additive
  <2>3. CASE z = y
    <3>1. X1 = X0 /\ y \notin X
      BY <2>3
    <3> HIDE DEF B, X0, X1
    <3> QED
      BY <2>1, <2>2, <2>3, <3>1
  <2>4. CASE z # y
    <3>1. X1 = X0 \cup {z} /\ X0 \in SUBSET D /\ z \in D \ X0
      BY <2>4
    <3> HIDE DEF B, X0, X1
    <3>2. A[X1] = A[X0] + f[z]
      BY <3>1 DEF Additive
    <3>3. f[y] \in Int /\ f[z] \in Int /\ (y \in X \cup {z} <=> y \in X)
      BY <2>4 DEF E
    <3> QED
      BY <2>1, <2>2, <3>2, <3>3
  <2> QED
    BY <2>3, <2>4
<1> HIDE DEF B, E
<1>5. Additive(B, f, E)
  BY <1>2, <1>3, <1>4 DEF Additive
<1> QED
  BY <1>5 DEF E

LEMMA AdditiveExists ==
  ASSUME NEW D, IsFiniteSet(D), NEW f \in [D -> Int]
  PROVE  \E A : Additive(A, f, D)
<1> DEFINE T == {m \in Nat : \A X \in SUBSET D : Cardinality(X) = m => \E A : Additive(A, f, X)}
<1>1. \A X \in SUBSET D : IsFiniteSet(X) /\ Cardinality(X) \in Nat
  BY FS_Subset, FS_CardinalityType
<1>2. 0 \in T
  <2>1. \A X \in SUBSET D : Cardinality(X) = 0 => X = {}
    BY <1>1, FS_EmptySet
  <2>2. Additive([X \in SUBSET {} |-> 0], f, {})
    BY DEF Additive
  <2> QED
    BY <2>1, <2>2
<1>3. ASSUME NEW m \in T PROVE m + 1 \in T
  <2>1. ASSUME NEW X \in SUBSET D, Cardinality(X) = m + 1 PROVE \E A : Additive(A, f, X)
    <3>1. X # {}
      <4>1. m + 1 # 0
        OBVIOUS
      <4> QED
        BY <2>1, <4>1, FS_EmptySet
    <3>2. PICK y \in X : TRUE
      BY <3>1
    <3>3. X \ {y} \in SUBSET D /\ Cardinality(X \ {y}) = m
      <4>1. Cardinality(X \ {y}) = Cardinality(X) - 1
        BY <1>1, <3>2, FS_RemoveElement
      <4> QED
        BY <2>1, <4>1
    <3>4. PICK A : Additive(A, f, X \ {y})
      BY <3>3
    <3>5. \E B : Additive(B, f, (X \ {y}) \cup {y})
      <4>1. y \notin X \ {y} /\ \A z \in (X \ {y}) \cup {y} : f[z] \in Int
        BY <3>2
      <4> QED
        BY <3>4, <4>1, AdditiveGrows
    <3>6. (X \ {y}) \cup {y} = X
      BY <3>2
    <3> QED
      BY <3>5, <3>6
  <2> QED
    BY <2>1
<1>4. T = Nat
  <2>1. T \in SUBSET Nat
    OBVIOUS
  <2> HIDE DEF T
  <2> QED
    BY <1>2, <1>3, <2>1, NatSetInduction
<1>5. Cardinality(D) \in T /\ D \in SUBSET D
  BY <1>1, <1>4, Zenon
<1> QED
  BY <1>5

Total(f, X) == SumFunctionOnSet(f, X)

LEMMA TotalIsAdditive ==
  ASSUME NEW D, IsFiniteSet(D), NEW f \in [D -> Int]
  PROVE  \E A : Additive(A, f, D) /\ \A X \in SUBSET D : Total(f, X) = A[X]
<1>1. PICK A : Additive(A, f, D)
  BY AdditiveExists
<1>2. ASSUME NEW X \in SUBSET D PROVE Total(f, X) = A[X]
  <2> DEFINE Pick(s) == CHOOSE x \in s : TRUE
             Step(g, s) == IF s = {} THEN 0 ELSE f[Pick(s)] + g[s \ {Pick(s)}]
             Folds(g) == g = [s \in SUBSET X |-> Step(g, s)]
             iter == CHOOSE g : Folds(g)
  <2>1. Total(f, X) = iter[X]
    BY DEF Total, SumFunctionOnSet, FoldFunctionOnSet, MapThenFoldSet
  <2>2. ASSUME NEW s \in SUBSET X, s # {}
        PROVE  /\ Pick(s) \in s /\ s \ {Pick(s)} \in SUBSET X
               /\ f[Pick(s)] \in Int /\ A[s] \in Int /\ A[s \ {Pick(s)}] \in Int
               /\ A[s] = f[Pick(s)] + A[s \ {Pick(s)}]
    <3>1. Pick(s) \in s
      BY <2>2
    <3> DEFINE y == Pick(s)
               r == s \ {y}
    <3> HIDE DEF Pick, y
    <3>2. y \in D /\ r \in SUBSET D /\ y \in D \ r /\ r \cup {y} = s /\ f[y] \in Int /\ s \in SUBSET D
      BY <3>1 DEF y
    <3>3. A[r \cup {y}] = A[r] + f[y] /\ A[r] \in Int /\ A[s] \in Int
      BY <1>1, <3>2 DEF Additive
    <3>4. A[s] = f[y] + A[r]
      <4>1. A[s] = A[r] + f[y]
        BY <3>2, <3>3, Zenon
      <4>2. A[r] \in Int /\ f[y] \in Int
        BY <3>2, <3>3, Zenon
      <4>3. A[r] + f[y] = f[y] + A[r]
        BY <4>2
      <4> QED
        BY <4>1, <4>3, Zenon
    <3> QED
      BY <3>1, <3>2, <3>3, <3>4 DEF y
  <2>3. Folds([s \in SUBSET X |-> A[s]])
    <3> DEFINE g == [s \in SUBSET X |-> A[s]]
    <3>1. ASSUME NEW s \in SUBSET X PROVE A[s] = Step(g, s)
      <4>1. CASE s = {}
        BY <1>1, <4>1 DEF Additive
      <4>2. CASE s # {}
        <5>1. g[s \ {Pick(s)}] = A[s \ {Pick(s)}]
          BY <2>2, <4>2
        <5> HIDE DEF g, Pick
        <5> QED
          BY <2>2, <4>2, <5>1
      <4> QED
        BY <4>1, <4>2
    <3> HIDE DEF Step
    <3> QED
      BY <3>1
  <2>4. Folds(iter)
    <3> HIDE DEF Folds
    <3> QED
      BY <2>3
  <2> DEFINE T == {m \in Nat : \A s \in SUBSET X : Cardinality(s) = m => iter[s] = A[s]}
  <2> HIDE DEF iter, Pick
  <2>5. \A s \in SUBSET X : IsFiniteSet(s) /\ Cardinality(s) \in Nat
    BY FS_Subset, FS_CardinalityType
  <2>6. \A s \in SUBSET X : iter[s] = Step(iter, s)
    <3> HIDE DEF Step
    <3> QED
      BY <2>4
  <2>7. 0 \in T
    <3>1. \A s \in SUBSET X : Cardinality(s) = 0 => s = {}
      BY <2>5, FS_EmptySet
    <3>2. iter[{}] = 0 /\ A[{}] = 0
      BY <1>1, <2>6 DEF Additive
    <3> QED
      BY <3>1, <3>2
  <2>8. ASSUME NEW m \in T PROVE m + 1 \in T
    <3>1. ASSUME NEW s \in SUBSET X, Cardinality(s) = m + 1 PROVE iter[s] = A[s]
      <4>1. s # {}
        <5>1. m + 1 # 0
          OBVIOUS
        <5> QED
          BY <3>1, <5>1, FS_EmptySet
      <4>2. Pick(s) \in s /\ s \ {Pick(s)} \in SUBSET X
        BY <2>2, <4>1
      <4>3. Cardinality(s \ {Pick(s)}) = m
        <5>1. Cardinality(s \ {Pick(s)}) = Cardinality(s) - 1
          BY <2>5, <4>2, FS_RemoveElement
        <5> QED
          BY <3>1, <5>1
      <4>4. iter[s \ {Pick(s)}] = A[s \ {Pick(s)}]
        BY <4>2, <4>3
      <4> QED
        BY <2>2, <2>6, <4>1, <4>4
    <3> QED
      BY <3>1
  <2>9. T = Nat
    <3>1. T \in SUBSET Nat
      OBVIOUS
    <3> HIDE DEF T
    <3> QED
      BY <2>7, <2>8, <3>1, NatSetInduction
  <2>10. X \in SUBSET X /\ Cardinality(X) \in T
    BY <2>5, <2>9, Zenon
  <2>11. iter[X] = A[X]
    BY <2>10
  <2> QED
    BY <2>1, <2>11
<1> QED
  BY <1>1, <1>2

LEMMA TotalFacts ==
  ASSUME NEW D, IsFiniteSet(D), NEW f \in [D -> Int]
  PROVE  /\ \A X \in SUBSET D : Total(f, X) \in Int
         /\ Total(f, {}) = 0
         /\ \A X \in SUBSET D : \A y \in D \ X : Total(f, X \cup {y}) = Total(f, X) + f[y]
         /\ \A y \in D : Total(f, {y}) = f[y]
<1>1. PICK A : Additive(A, f, D) /\ \A X \in SUBSET D : Total(f, X) = A[X]
  BY TotalIsAdditive
<1>2. \A X \in SUBSET D : Total(f, X) \in Int
  BY <1>1 DEF Additive
<1>3. Total(f, {}) = 0
  BY <1>1 DEF Additive
<1>4. \A X \in SUBSET D : \A y \in D \ X : Total(f, X \cup {y}) = Total(f, X) + f[y]
  <2> SUFFICES ASSUME NEW X \in SUBSET D, NEW y \in D \ X
               PROVE  Total(f, X \cup {y}) = Total(f, X) + f[y]
    BY Zenon
  <2>1. X \cup {y} \in SUBSET D
    OBVIOUS
  <2> QED
    BY <1>1, <2>1 DEF Additive
<1>5. ASSUME NEW y \in D PROVE Total(f, {y}) = f[y]
  <2>1. {} \cup {y} = {y} /\ {} \in SUBSET D /\ y \in D \ {} /\ f[y] \in Int
    OBVIOUS
  <2>2. Total(f, {} \cup {y}) = Total(f, {}) + f[y]
    BY <1>4, <2>1
  <2> QED
    BY <1>3, <2>1, <2>2
<1> QED
  BY <1>2, <1>3, <1>4, <1>5

\* Two functions that grow alike are equal on every finite set.
LEMMA FiniteSetInduction ==
  ASSUME NEW D, IsFiniteSet(D), NEW G \in SUBSET (SUBSET D), {} \in G,
         \A X \in G : \A y \in D \ X : X \cup {y} \in G
  PROVE  \A X \in SUBSET D : X \in G
<1> DEFINE T == {m \in Nat : \A X \in SUBSET D : Cardinality(X) = m => X \in G}
<1>1. \A X \in SUBSET D : IsFiniteSet(X) /\ Cardinality(X) \in Nat
  BY FS_Subset, FS_CardinalityType
<1>2. 0 \in T
  <2>1. \A X \in SUBSET D : Cardinality(X) = 0 => X = {}
    BY <1>1, FS_EmptySet
  <2> QED
    BY <2>1
<1>3. ASSUME NEW m \in T PROVE m + 1 \in T
  <2>1. ASSUME NEW X \in SUBSET D, Cardinality(X) = m + 1 PROVE X \in G
    <3>1. X # {}
      <4>1. m + 1 # 0
        OBVIOUS
      <4> QED
        BY <2>1, <4>1, FS_EmptySet
    <3>2. PICK y \in X : TRUE
      BY <3>1
    <3>3. Cardinality(X \ {y}) = m
      <4>1. Cardinality(X \ {y}) = Cardinality(X) - 1
        BY <1>1, <3>2, FS_RemoveElement
      <4> QED
        BY <2>1, <4>1
    <3>4. X \ {y} \in G
      BY <3>3
    <3>5. y \in D \ (X \ {y}) /\ (X \ {y}) \cup {y} = X
      BY <3>2
    <3>6. (X \ {y}) \cup {y} \in G
      BY <3>4, <3>5
    <3> QED
      BY <3>5, <3>6
  <2> QED
    BY <2>1
<1>4. T = Nat
  <2>1. T \in SUBSET Nat
    OBVIOUS
  <2> HIDE DEF T
  <2> QED
    BY <1>2, <1>3, <2>1, NatSetInduction
<1>5. ASSUME NEW X \in SUBSET D PROVE X \in G
  <2>1. Cardinality(X) \in T
    BY <1>1, <1>4, Zenon
  <2> QED
    BY <2>1
<1> QED
  BY <1>5

LEMMA TotalOfUnion ==
  ASSUME NEW D, IsFiniteSet(D), NEW f \in [D -> Int],
         NEW X \in SUBSET D, NEW Y \in SUBSET D, X \cap Y = {}
  PROVE  Total(f, X \cup Y) = Total(f, X) + Total(f, Y)
<1> DEFINE G == {Z \in SUBSET D : X \cap Z = {} => Total(f, X \cup Z) = Total(f, X) + Total(f, Z)}
<1>0. \A Z \in SUBSET D : Total(f, Z) \in Int
  BY TotalFacts
<1>b. ASSUME NEW W \in SUBSET D, NEW z \in D \ W PROVE Total(f, W \cup {z}) = Total(f, W) + f[z]
  BY TotalFacts
<1>1. {} \in G
  <2>1. X \cup {} = X /\ Total(f, {}) = 0 /\ Total(f, X) \in Int
    BY TotalFacts
  <2> QED
    BY <2>1
<1>2. ASSUME NEW Z \in G, NEW y \in D \ Z PROVE Z \cup {y} \in G
  <2>1. ASSUME X \cap (Z \cup {y}) = {}
        PROVE  Total(f, X \cup (Z \cup {y})) = Total(f, X) + Total(f, Z \cup {y})
    <3>1. /\ Z \in SUBSET D /\ X \cup Z \in SUBSET D /\ y \in D \ (X \cup Z)
          /\ X \cup (Z \cup {y}) = (X \cup Z) \cup {y} /\ X \cap Z = {}
      BY <1>2, <2>1
    <3>2. Total(f, (X \cup Z) \cup {y}) = Total(f, X \cup Z) + f[y]
      BY <1>b, <3>1, Zenon
    <3>3. Total(f, Z \cup {y}) = Total(f, Z) + f[y]
      BY <1>2, <1>b, <3>1
    <3>4. Total(f, X \cup Z) = Total(f, X) + Total(f, Z)
      BY <1>2, <3>1
    <3>5. Total(f, X) \in Int /\ Total(f, Z) \in Int /\ f[y] \in Int
      BY <1>0, <1>2, <3>1
    <3>6. (Total(f, X) + Total(f, Z)) + f[y] = Total(f, X) + (Total(f, Z) + f[y])
      BY <3>5
    <3> QED
      BY <3>1, <3>2, <3>3, <3>4, <3>6, Zenon
  <2> QED
    BY <2>1
<1>3. G \in SUBSET (SUBSET D)
  OBVIOUS
<1>4. Y \in G
  <2> HIDE DEF G
  <2> QED
    BY <1>1, <1>2, <1>3, FiniteSetInduction
<1> QED
  BY <1>4

\* A sum over the places of a list is the sum over what is at the places.
LEMMA TotalReindexed ==
  ASSUME NEW D, IsFiniteSet(D), NEW f \in [D -> Int],
         NEW I, IsFiniteSet(I), NEW e \in Injection(I, D)
  PROVE  \A X \in SUBSET I : Total([i \in I |-> f[e[i]]], X) = Total(f, {e[i] : i \in X})
<1> DEFINE h == [i \in I |-> f[e[i]]]
           Im(X) == {e[i] : i \in X}
           G == {X \in SUBSET I : Total(h, X) = Total(f, Im(X))}
<1>1. e \in [I -> D] /\ \A i, j \in I : e[i] = e[j] => i = j
  BY DEF Injection, IsInjective
<1>2. h \in [I -> Int]
  BY <1>1
<1>3. {} \in G
  <2>1. Total(h, {}) = 0 /\ Total(f, {}) = 0
    <3> HIDE DEF h
    <3> QED
      BY <1>2, TotalFacts
  <2>2. Im({}) = {}
    OBVIOUS
  <2> HIDE DEF h, Im
  <2> QED
    BY <2>1, <2>2
<1>4. ASSUME NEW X \in G, NEW y \in I \ X PROVE X \cup {y} \in G
  <2>1. /\ X \cup {y} \in SUBSET I /\ X \in SUBSET I /\ Im(X) \in SUBSET D /\ e[y] \in D \ Im(X)
        /\ Im(X \cup {y}) = Im(X) \cup {e[y]} /\ h[y] = f[e[y]]
    BY <1>1
  <2>2. Total(h, X) = Total(f, Im(X))
    OBVIOUS
  <2> HIDE DEF h, Im
  <2>3. Total(h, X \cup {y}) = Total(h, X) + h[y]
    BY <1>2, <1>4, <2>1, TotalFacts
  <2>4. Total(f, Im(X) \cup {e[y]}) = Total(f, Im(X)) + f[e[y]]
    BY <2>1, TotalFacts
  <2>5. Total(h, X \cup {y}) = Total(f, Im(X \cup {y}))
    BY <2>1, <2>2, <2>3, <2>4
  <2> QED
    BY <2>1, <2>5
<1>5. G \in SUBSET (SUBSET I)
  OBVIOUS
<1>6. \A X \in SUBSET I : X \in G
  <2> HIDE DEF G
  <2> QED
    BY <1>3, <1>4, <1>5, FiniteSetInduction
<1> QED
  BY <1>6

-------------------------------------
(* States                                                                   *)

Rows(lens) == {<<i, lens[i]>> : i \in DOMAIN lens}
Indices(x) == {x.items[j][1] : j \in DOMAIN x.items}

\* A set has items of the rows, none of them twice, and their sum.
Filled(x, lens) ==
    /\ x \in SetsOver(Rows(lens))
    /\ \A i, j \in DOMAIN x.items : x.items[i][1] = x.items[j][1] => i = j
    /\ x.sum = Total(lens, Indices(x))

\* Before they are sorted: sets without a common item, one of them not empty, whose
\* sums differ by M at the most.
Divided(s, k, lens, M) ==
    /\ s \in [1..k -> SetsOver(Rows(lens))]
    /\ \A i \in 1..k : Filled(s[i], lens)
    /\ \A i, j \in 1..k : i # j => Indices(s[i]) \cap Indices(s[j]) = {}
    /\ \A i, j \in 1..k : s[i].sum <= s[j].sum + M
    /\ \E i \in 1..k : s[i].items # <<>>

Shaped(s, k, lens, M) ==
    /\ Divided(s, k, lens, M)
    /\ \A i, j \in 1..k : i < j => ~SetLess(s[i], s[j])

Held(s) == UNION {Indices(s[i]) : i \in DOMAIN s}

LEMMA RowsAreKeyed ==
  ASSUME NEW lens \in Seq(Nat)
  PROVE  /\ Keyed(Rows(lens))
         /\ \A x \in SetsOver(Rows(lens)) :
               /\ Indices(x) \in SUBSET (1..Len(lens))
               /\ \A j \in DOMAIN x.items : x.items[j] = <<x.items[j][1], lens[x.items[j][1]]>>
               /\ x.items # <<>> => Indices(x) # {}
<1>1. Keyed(Rows(lens))
  BY DEF Keyed, Rows, Item
<1>2. ASSUME NEW x \in SetsOver(Rows(lens)), NEW j \in DOMAIN x.items
      PROVE  x.items[j][1] \in 1..Len(lens) /\ x.items[j] = <<x.items[j][1], lens[x.items[j][1]]>>
  <2>1. x.items[j] \in Rows(lens)
    BY DEF SetsOver
  <2>2. PICK i \in DOMAIN lens : x.items[j] = <<i, lens[i]>>
    BY <2>1 DEF Rows
  <2> QED
    BY <2>2
<1>3. ASSUME NEW x \in SetsOver(Rows(lens)), x.items # <<>> PROVE Indices(x) # {}
  <2>1. x.items \in Seq(Rows(lens))
    BY DEF SetsOver
  <2>2. 1 \in DOMAIN x.items
    BY <1>3, <2>1
  <2> QED
    BY <2>2 DEF Indices
<1> QED
  BY <1>1, <1>2, <1>3 DEF Indices

LEMMA DecreasingSorts ==
  ASSUME NEW S, NEW s \in Seq(S), NEW L, \A a, b \in S : <<a, b>> \in L <=> SetLess(b, a)
  PROVE  Decreasing(s) = SortedBy(s, L)
<1> DEFINE B1(j, i) == SetLess(s[i], s[j]) \/ (~SetLess(s[j], s[i]) /\ j < i)
           B2(j, i) == <<s[j], s[i]>> \in L \/ (<<s[i], s[j]>> \notin L /\ j < i)
           C1(i) == Cardinality({j \in DOMAIN s : B1(j, i)})
           C2(i) == Cardinality({j \in DOMAIN s : B2(j, i)})
           At1(place) == CHOOSE i \in DOMAIN s : C1(i) = place - 1
           At2(place) == CHOOSE i \in DOMAIN s : C2(i) = place - 1
<1>1. Decreasing(s) = SubSeq([place \in DOMAIN s |-> s[At1(place)]], 1, Len(s))
  BY DEF Decreasing, Sorted
<1>2. SortedBy(s, L) = SubSeq([place \in DOMAIN s |-> s[At2(place)]], 1, Len(s))
  BY DEF SortedBy, Sorted
<1>3. \A i, j \in DOMAIN s : B1(j, i) <=> B2(j, i)
  OBVIOUS
<1> HIDE DEF B1, B2
<1>4. \A i \in DOMAIN s : C1(i) = C2(i)
  <2>1. \A i \in DOMAIN s : {j \in DOMAIN s : B1(j, i)} = {j \in DOMAIN s : B2(j, i)}
    BY <1>3
  <2> QED
    BY <2>1
<1> HIDE DEF C1, C2
<1>5. \A place : At1(place) = At2(place)
  BY <1>4
<1> HIDE DEF At1, At2
<1> QED
  BY <1>1, <1>2, <1>5

LEMMA DecreasingShapes ==
  ASSUME NEW lens \in Seq(Nat), NEW k \in Nat, NEW M \in Nat, NEW s, Divided(s, k, lens, M)
  PROVE  Shaped(Decreasing(s), k, lens, M) /\ Held(Decreasing(s)) = Held(s)
<1> DEFINE P == Rows(lens)
           S == SetsOver(P)
           L == Larger(P)
           d == Decreasing(s)
<1>1. Orders(L, S)
  BY RowsAreKeyed, SetsAreOrdered
<1>2. s \in Seq(S) /\ Len(s) = k /\ DOMAIN s = 1..k /\ \A i \in 1..k : s[i] \in S
  BY DEF Divided
<1>3. \A a, b \in S : <<a, b>> \in L <=> SetLess(b, a)
  BY DEF Larger
<1> HIDE DEF L, S
<1>4. d = SortedBy(s, L)
  BY <1>2, <1>3, DecreasingSorts
<1>5. PICK p \in Bijection(1..k, 1..k) :
            /\ SortedBy(s, L) = [i \in 1..k |-> s[p[i]]]
            /\ \A i, j \in 1..k : i < j => <<s[p[j]], s[p[i]]>> \notin L
  BY <1>1, <1>2, SortedPermutes
<1>6. /\ \A i \in 1..k : p[i] \in 1..k
      /\ \A i, j \in 1..k : p[i] = p[j] => i = j
      /\ \A j \in 1..k : \E i \in 1..k : p[i] = j
  BY <1>5 DEF Bijection, Injection, IsInjective, Surjection
<1>7. d = [i \in 1..k |-> s[p[i]]] /\ DOMAIN d = 1..k /\ \A i \in 1..k : d[i] = s[p[i]]
  BY <1>4, <1>5
<1> HIDE DEF d
<1>8. Divided(d, k, lens, M)
  <2>1. d \in [1..k -> SetsOver(Rows(lens))]
    BY <1>2, <1>6, <1>7 DEF S
  <2>2. \A i \in 1..k : Filled(d[i], lens)
    BY <1>6, <1>7 DEF Divided
  <2>3. ASSUME NEW i \in 1..k, NEW j \in 1..k, i # j
        PROVE  Indices(d[i]) \cap Indices(d[j]) = {}
    <3>1. \A a, b \in 1..k : a # b => Indices(s[a]) \cap Indices(s[b]) = {}
      BY Zenon DEF Divided
    <3>2. d[i] = s[p[i]] /\ d[j] = s[p[j]] /\ p[i] \in 1..k /\ p[j] \in 1..k /\ p[i] # p[j]
      BY <1>6, <1>7, <2>3
    <3>3. Indices(s[p[i]]) \cap Indices(s[p[j]]) = {}
      BY <3>1, <3>2, Zenon
    <3> QED
      BY <3>2, <3>3, Zenon
  <2>4. \A i, j \in 1..k : d[i].sum <= d[j].sum + M
    <3> SUFFICES ASSUME NEW i \in 1..k, NEW j \in 1..k PROVE d[i].sum <= d[j].sum + M
      OBVIOUS
    <3>1. \A a, b \in 1..k : s[a].sum <= s[b].sum + M
      BY DEF Divided
    <3>2. d[i] = s[p[i]] /\ d[j] = s[p[j]] /\ p[i] \in 1..k /\ p[j] \in 1..k
      BY <1>6, <1>7
    <3>3. s[p[i]].sum <= s[p[j]].sum + M
      BY <3>1, <3>2, Zenon
    <3> QED
      BY <3>2, <3>3, Zenon
  <2>5. \E i \in 1..k : d[i].items # <<>>
    <3>1. PICK j \in 1..k : s[j].items # <<>>
      BY DEF Divided
    <3>2. PICK i \in 1..k : p[i] = j
      BY <1>6
    <3>3. d[i] = s[j]
      BY <1>7, <3>2
    <3> QED
      BY <3>1, <3>3
  <2> QED
    BY <2>1, <2>2, <2>3, <2>4, <2>5 DEF Divided
<1>9. \A i, j \in 1..k : i < j => ~SetLess(d[i], d[j])
  <2> SUFFICES ASSUME NEW i \in 1..k, NEW j \in 1..k, i < j PROVE ~SetLess(d[i], d[j])
    OBVIOUS
  <2>1. <<s[p[j]], s[p[i]]>> \notin L
    BY <1>5
  <2> QED
    BY <1>2, <1>3, <1>6, <1>7, <2>1
<1>10. Held(d) = Held(s)
  <2>1. \A j \in 1..k : \E i \in 1..k : d[i] = s[j]
    BY <1>6, <1>7
  <2>2. \A i \in 1..k : \E j \in 1..k : d[i] = s[j]
    BY <1>6, <1>7
  <2>3. \A z : (\E i \in 1..k : z \in Indices(d[i])) <=> (\E i \in 1..k : z \in Indices(s[i]))
    BY <2>1, <2>2
  <2>4. DOMAIN d = 1..k /\ DOMAIN s = 1..k
    BY <1>2, <1>7
  <2>5. \A z : z \in Held(d) <=> \E i \in 1..k : z \in Indices(d[i])
    BY <2>4 DEF Held
  <2>6. \A z : z \in Held(s) <=> \E i \in 1..k : z \in Indices(s[i])
    BY <2>4 DEF Held
  <2> QED
    BY <2>3, <2>5, <2>6
<1> QED
  BY <1>8, <1>9, <1>10 DEF Shaped, d

\* The first set of a state is its largest one, and holds a row.
LEMMA FirstIsLargest ==
  ASSUME NEW lens \in Seq(Nat), NEW k \in Nat, NEW M \in Nat, NEW s, Shaped(s, k, lens, M)
  PROVE  /\ 1 \in 1..k /\ k \in 1..k
         /\ \A i, j \in 1..k : i < j => s[j].sum <= s[i].sum
         /\ s[1].items # <<>>
<1>1. PICK i \in 1..k : s[i].items # <<>>
  BY DEF Shaped, Divided
<1>2. 1 \in 1..k /\ k \in 1..k
  BY <1>1
<1>3. \A j \in 1..k : s[j].sum \in Nat /\ s[j].items \in Seq(Rows(lens))
  BY DEF Shaped, Divided, SetsOver
<1>4. ASSUME NEW j \in 1..k, NEW l \in 1..k, j < l PROVE s[l].sum <= s[j].sum
  <2>1. ~(s[j].sum < s[l].sum)
    BY <1>4 DEF Shaped, SetLess
  <2> QED
    BY <1>3, <2>1
<1>5. s[1].items # <<>>
  <2>1. CASE i = 1
    BY <1>1, <2>1
  <2>2. CASE i # 1
    <3>1. ~SetLess(s[1], s[i]) /\ 1 < i
      BY <1>2, <2>2 DEF Shaped
    <3>2. CASE s[1].sum = s[i].sum
      <4>1. Len(s[1].items) >= Len(s[i].items)
        <5>1. Len(s[1].items) \in Nat /\ Len(s[i].items) \in Nat
          BY <1>2, <1>3
        <5>2. ~(Len(s[1].items) < Len(s[i].items))
          BY <3>1, <3>2 DEF SetLess
        <5> QED
          BY <5>1, <5>2
      <4>2. Len(s[i].items) > 0
        BY <1>1, <1>3
      <4>3. Len(s[1].items) > 0
        BY <1>2, <1>3, <4>1, <4>2
      <4> QED
        BY <4>3
    <3>3. CASE s[1].sum # s[i].sum
      <4>1. s[1].sum > 0
        BY <1>2, <1>3, <1>4, <3>1, <3>3
      <4>2. s[1].sum = Total(lens, Indices(s[1]))
        BY <1>2 DEF Shaped, Divided, Filled
      <4>3. Total(lens, {}) = 0
        <5>1. lens \in [1..Len(lens) -> Int] /\ IsFiniteSet(1..Len(lens))
          BY FS_Interval
        <5> QED
          BY <5>1, TotalFacts, Zenon
      <4>4. s[1].items = <<>> => Indices(s[1]) = {}
        BY DEF Indices
      <4>5. s[1].sum \in Nat
        BY <1>2, <1>3
      <4>6. s[1].sum # 0
        BY <4>1, <4>5
      <4> QED
        BY <4>2, <4>3, <4>4, <4>6, Zenon
    <3> QED
      BY <3>2, <3>3
  <2> QED
    BY <2>1, <2>2
<1> QED
  BY <1>2, <1>4, <1>5

Join(x, y) == [sum |-> x.sum + y.sum, items |-> x.items \o y.items]

LEMMA Concatenates ==
  ASSUME NEW S, NEW a \in Seq(S), NEW b \in Seq(S)
  PROVE  /\ Len(a) \in Nat /\ Len(b) \in Nat /\ DOMAIN a = 1..Len(a) /\ DOMAIN b = 1..Len(b)
         /\ a \o b \in Seq(S) /\ Len(a \o b) = Len(a) + Len(b)
         /\ DOMAIN (a \o b) = 1..(Len(a) + Len(b))
         /\ \A i \in 1..Len(a) : (a \o b)[i] = a[i]
         /\ \A i \in 1..Len(b) : (a \o b)[Len(a) + i] = b[i]
OBVIOUS

\* A place in the concatenation of lists of m and n is a place in one of them.
LEMMA PlacesOfTwo ==
  ASSUME NEW m \in Nat, NEW n \in Nat
  PROVE  /\ \A i \in 1..(m + n) : i \in 1..m \/ \E j \in 1..n : i = m + j
         /\ \A i \in 1..m : i \in 1..(m + n)
         /\ \A i \in 1..n : m + i \in 1..(m + n)
<1>1. \A i \in 1..(m + n) : i \in 1..m \/ (i - m \in 1..n /\ i = m + (i - m))
  OBVIOUS
<1> QED
  BY <1>1

LEMMA LengthTotals ==
  ASSUME NEW lens \in Seq(Nat)
  PROVE  /\ Total(lens, {}) = 0
         /\ \A X \in SUBSET (1..Len(lens)) : Total(lens, X) \in Int
         /\ \A X \in SUBSET (1..Len(lens)) : \A y \in (1..Len(lens)) \ X :
               Total(lens, X \cup {y}) = Total(lens, X) + lens[y]
         /\ \A y \in 1..Len(lens) : Total(lens, {y}) = lens[y]
         /\ \A X, Y \in SUBSET (1..Len(lens)) :
               X \cap Y = {} => Total(lens, X \cup Y) = Total(lens, X) + Total(lens, Y)
<1> DEFINE D == 1..Len(lens)
<1>1. lens \in [D -> Int] /\ IsFiniteSet(D)
  BY FS_Interval
<1> HIDE DEF D
<1>2. /\ \A X \in SUBSET D : Total(lens, X) \in Int
      /\ Total(lens, {}) = 0
      /\ \A X \in SUBSET D : \A y \in D \ X : Total(lens, X \cup {y}) = Total(lens, X) + lens[y]
      /\ \A y \in D : Total(lens, {y}) = lens[y]
  BY <1>1, TotalFacts, Zenon
<1>3. \A X, Y \in SUBSET D : X \cap Y = {} => Total(lens, X \cup Y) = Total(lens, X) + Total(lens, Y)
  <2> SUFFICES ASSUME NEW X \in SUBSET D, NEW Y \in SUBSET D, X \cap Y = {}
               PROVE  Total(lens, X \cup Y) = Total(lens, X) + Total(lens, Y)
    OBVIOUS
  <2> QED
    BY <1>1, TotalOfUnion
<1> QED
  BY <1>2, <1>3 DEF D

\* c joins the items of a, m of them, whose indices are A, and those of b.
Joins(c, a, m, A, b, n, B) ==
    /\ \A i \in 1..m : c[i] = a[i]
    /\ \A i \in 1..n : c[m + i] = b[i]
    /\ \A i, j \in 1..m : a[i][1] = a[j][1] => i = j
    /\ \A i, j \in 1..n : b[i][1] = b[j][1] => i = j
    /\ \A z : z \in A <=> \E i \in 1..m : z = a[i][1]
    /\ \A z : z \in B <=> \E i \in 1..n : z = b[i][1]
    /\ A \cap B = {}

LEMMA JoinedKeys ==
  ASSUME NEW m \in Nat, NEW n \in Nat, NEW a, NEW b, NEW c, NEW A, NEW B,
         Joins(c, a, m, A, b, n, B)
  PROVE  /\ \A z : z \in A \cup B <=> \E i \in 1..(m + n) : z = c[i][1]
         /\ \A i, j \in 1..(m + n) : c[i][1] = c[j][1] => i = j
<1> DEFINE I == 1..m
           J == 1..n
           K == 1..(m + n)
<1>1. /\ \A i \in K : i \in I \/ \E j \in J : i = m + j
      /\ \A i \in I : i \in K
      /\ \A i \in J : m + i \in K
  BY PlacesOfTwo
<1>2. /\ \A i \in I : a[i][1] \in A /\ c[i][1] = a[i][1]
      /\ \A i \in J : b[i][1] \in B /\ c[m + i][1] = b[i][1]
  BY DEF Joins
<1>3. A \cap B = {}
  BY DEF Joins
<1>4. /\ \A i, j \in I : a[i][1] = a[j][1] => i = j
      /\ \A i, j \in J : b[i][1] = b[j][1] => i = j
  BY DEF Joins
<1>5. /\ \A z : z \in A <=> \E i \in I : z = a[i][1]
      /\ \A z : z \in B <=> \E i \in J : z = b[i][1]
  BY DEF Joins
<1> HIDE DEF I, J, K
<1>6. \A i \in K : c[i][1] \in A \cup B
  <2> SUFFICES ASSUME NEW i \in K PROVE c[i][1] \in A \cup B
    OBVIOUS
  <2>1. CASE i \in I
    BY <1>2, <2>1
  <2>2. CASE \E j \in J : i = m + j
    <3>1. PICK j \in J : i = m + j
      BY <2>2
    <3>2. c[m + j][1] = b[j][1] /\ b[j][1] \in B
      BY <1>2
    <3> QED
      BY <3>1, <3>2
  <2> QED
    BY <1>1, <2>1, <2>2
<1>7. \A z \in A \cup B : \E i \in K : z = c[i][1]
  <2>1. ASSUME NEW z \in A PROVE \E i \in K : z = c[i][1]
    <3>1. PICK i \in I : z = a[i][1]
      BY <1>5
    <3>2. i \in K /\ c[i][1] = a[i][1]
      BY <1>1, <1>2
    <3> QED
      BY <3>1, <3>2
  <2>2. ASSUME NEW z \in B PROVE \E i \in K : z = c[i][1]
    <3>1. PICK i \in J : z = b[i][1]
      BY <1>5
    <3>2. m + i \in K /\ c[m + i][1] = b[i][1]
      BY <1>1, <1>2
    <3> QED
      BY <3>1, <3>2
  <2> QED
    BY <2>1, <2>2
<1>8. \A z : z \in A \cup B <=> \E i \in K : z = c[i][1]
  BY <1>6, <1>7
<1>9. ASSUME NEW i \in K, NEW j \in K, c[i][1] = c[j][1] PROVE i = j
  <2>1. \A p \in I : \A q \in J : c[p][1] # c[m + q][1]
    <3> SUFFICES ASSUME NEW p \in I, NEW q \in J, c[p][1] = c[m + q][1] PROVE FALSE
      OBVIOUS
    <3>1. a[p][1] \in A /\ b[q][1] \in B /\ a[p][1] = b[q][1]
      BY <1>2
    <3> QED
      BY <1>3, <3>1
  <2>2. \A p, q \in I : c[p][1] = c[q][1] => p = q
    BY <1>2, <1>4
  <2>3. \A p, q \in J : c[m + p][1] = c[m + q][1] => m + p = m + q
    BY <1>2, <1>4
  <2>4. CASE i \in I /\ j \in I
    BY <1>9, <2>2, <2>4
  <2>5. CASE i \in I /\ j \notin I
    BY <1>1, <1>9, <2>1, <2>5
  <2>6. CASE i \notin I /\ j \in I
    BY <1>1, <1>9, <2>1, <2>6
  <2>7. CASE i \notin I /\ j \notin I
    BY <1>1, <1>9, <2>3, <2>7
  <2> QED
    BY <2>4, <2>5, <2>6, <2>7
<1> QED
  BY <1>8, <1>9 DEF K

LEMMA JoinFills ==
  ASSUME NEW lens \in Seq(Nat), NEW x, NEW y, Filled(x, lens), Filled(y, lens),
         Indices(x) \cap Indices(y) = {}
  PROVE  /\ Filled(Join(x, y), lens)
         /\ Indices(Join(x, y)) = Indices(x) \cup Indices(y)
         /\ Join(x, y).sum = x.sum + y.sum
         /\ x.items # <<>> => Join(x, y).items # <<>>
<1> DEFINE P == Rows(lens)
           a == x.items
           b == y.items
           c == a \o b
           m == Len(a)
           n == Len(b)
<1>1. a \in Seq(P) /\ b \in Seq(P) /\ x.sum \in Nat /\ y.sum \in Nat
  BY DEF Filled, SetsOver
<1> HIDE DEF a, b, P
<1>2. /\ m \in Nat /\ n \in Nat /\ DOMAIN a = 1..m /\ DOMAIN b = 1..n
      /\ c \in Seq(P) /\ Len(c) = m + n /\ DOMAIN c = 1..(m + n)
      /\ \A i \in 1..m : c[i] = a[i]
      /\ \A i \in 1..n : c[m + i] = b[i]
  BY <1>1, Concatenates
<1>3. Join(x, y).items = c /\ Join(x, y).sum = x.sum + y.sum
  BY DEF Join, a, b
<1>7. a # <<>> => m > 0
  BY <1>1
<1> HIDE DEF c, m, n
<1>4. /\ Indices(Join(x, y)) = {c[i][1] : i \in 1..(m + n)}
      /\ Indices(x) = {a[i][1] : i \in 1..m} /\ Indices(y) = {b[i][1] : i \in 1..n}
  <2>1. Indices(Join(x, y)) = {c[i][1] : i \in DOMAIN c}
    BY <1>3 DEF Indices
  <2>2. Indices(x) = {a[i][1] : i \in DOMAIN a} /\ Indices(y) = {b[i][1] : i \in DOMAIN b}
    BY DEF Indices, a, b
  <2> QED
    BY <1>2, <2>1, <2>2
<1>5. /\ \A p, q \in 1..m : a[p][1] = a[q][1] => p = q
      /\ \A p, q \in 1..n : b[p][1] = b[q][1] => p = q
  BY <1>2 DEF Filled, a, b
<1>6. m > 0 => c # <<>>
  <2>1. m > 0 => Len(c) > 0
    BY <1>2
  <2> QED
    BY <1>2, <2>1
<1>8. /\ \A z : z \in Indices(x) \cup Indices(y) <=> \E i \in 1..(m + n) : z = c[i][1]
      /\ \A i, j \in 1..(m + n) : c[i][1] = c[j][1] => i = j
  <2>1. /\ \A z : z \in Indices(x) <=> \E i \in 1..m : z = a[i][1]
        /\ \A z : z \in Indices(y) <=> \E i \in 1..n : z = b[i][1]
    BY <1>4
  <2>2. /\ m \in Nat /\ n \in Nat
        /\ \A i \in 1..m : c[i] = a[i]
        /\ \A i \in 1..n : c[m + i] = b[i]
    BY <1>2
  <2> QED
    <3> DEFINE A == Indices(x)
               B == Indices(y)
    <3>1. /\ \A z : z \in A <=> \E i \in 1..m : z = a[i][1]
          /\ \A z : z \in B <=> \E i \in 1..n : z = b[i][1]
          /\ A \cap B = {}
      BY <2>1
    <3> HIDE DEF A, B
    <3>2. /\ \A z : z \in A \cup B <=> \E i \in 1..(m + n) : z = c[i][1]
          /\ \A i, j \in 1..(m + n) : c[i][1] = c[j][1] => i = j
      <4>1. Joins(c, a, m, A, b, n, B)
        BY <1>5, <2>2, <3>1 DEF Joins
      <4> QED
        BY <2>2, <4>1, JoinedKeys
    <3> QED
      BY <3>2 DEF A, B
<1>9. Indices(Join(x, y)) = Indices(x) \cup Indices(y)
  <2>1. \A z : z \in Indices(Join(x, y)) <=> \E i \in 1..(m + n) : z = c[i][1]
    BY <1>4
  <2>2. \A z : z \in Indices(Join(x, y)) <=> z \in Indices(x) \cup Indices(y)
    BY <1>8, <2>1, Zenon
  <2> QED
    BY <2>2
<1>10. Join(x, y).sum = Total(lens, Indices(Join(x, y)))
  <2>1. \A X, Y \in SUBSET (1..Len(lens)) :
            X \cap Y = {} => Total(lens, X \cup Y) = Total(lens, X) + Total(lens, Y)
    BY LengthTotals
  <2>2. Indices(x) \in SUBSET (1..Len(lens)) /\ Indices(y) \in SUBSET (1..Len(lens))
    BY RowsAreKeyed DEF Filled
  <2>3. Total(lens, Indices(x) \cup Indices(y)) = Total(lens, Indices(x)) + Total(lens, Indices(y))
    BY <2>1, <2>2
  <2>4. x.sum = Total(lens, Indices(x)) /\ y.sum = Total(lens, Indices(y))
    BY DEF Filled
  <2> QED
    BY <1>3, <1>9, <2>3, <2>4, Zenon
<1>11. Join(x, y) \in SetsOver(P)
  <2>1. x.sum + y.sum \in Nat
    BY <1>1
  <2> QED
    BY <1>2, <2>1 DEF Join, SetsOver, a, b, c
<1>12. DOMAIN Join(x, y).items = 1..(m + n)
  BY <1>2, <1>3, Zenon
<1>13. Filled(Join(x, y), lens)
  BY <1>3, <1>8, <1>10, <1>11, <1>12 DEF Filled, P
<1>14. x.items # <<>> => Join(x, y).items # <<>>
  BY <1>3, <1>6, <1>7 DEF a
<1> QED
  BY <1>3, <1>9, <1>13, <1>14

\* Two states with different rows merge to a state of the rows of both, and the sums
\* of its sets differ by no more than those of the two states did.
LEMMA MergeShapes ==
  ASSUME NEW lens \in Seq(Nat), NEW k \in Nat, NEW M \in Nat, NEW s, NEW t,
         Shaped(s, k, lens, M), Shaped(t, k, lens, M), Held(s) \cap Held(t) = {}
  PROVE  Shaped(MergeStates(s, t), k, lens, M) /\ Held(MergeStates(s, t)) = Held(s) \cup Held(t)
<1> DEFINE opp(i) == k + 1 - i
           r == [i \in 1..k |-> Join(s[i], t[opp(i)])]
<1>1. /\ s \in [1..k -> SetsOver(Rows(lens))] /\ t \in [1..k -> SetsOver(Rows(lens))]
      /\ Len(s) = k /\ DOMAIN s = 1..k /\ DOMAIN t = 1..k
  <2>1. s \in [1..k -> SetsOver(Rows(lens))] /\ t \in [1..k -> SetsOver(Rows(lens))]
    BY DEF Shaped, Divided
  <2> QED
    BY <2>1
<1>2. MergeStates(s, t) = Decreasing(r)
  BY <1>1 DEF MergeStates, Join
<1>3. \A i \in 1..k : opp(i) \in 1..k /\ opp(opp(i)) = i
  OBVIOUS
<1>4. \A i, j \in 1..k : opp(i) = opp(j) => i = j
  OBVIOUS
<1>5. \A i, j \in 1..k : i < j => opp(j) < opp(i)
  OBVIOUS
<1> HIDE DEF opp
<1>6. /\ \A i \in 1..k : Filled(s[i], lens) /\ Filled(t[i], lens)
      /\ \A i \in 1..k : s[i].sum \in Nat /\ t[i].sum \in Nat
  BY DEF Shaped, Divided, Filled, SetsOver
<1>7. \A i, j \in 1..k : Indices(s[i]) \cap Indices(t[j]) = {}
  <2>1. \A i \in 1..k : Indices(s[i]) \subseteq Held(s) /\ Indices(t[i]) \subseteq Held(t)
    BY <1>1 DEF Held
  <2> QED
    BY <2>1
<1>8. ASSUME NEW i \in 1..k
      PROVE  /\ Filled(r[i], lens)
             /\ Indices(r[i]) = Indices(s[i]) \cup Indices(t[opp(i)])
             /\ r[i].sum = s[i].sum + t[opp(i)].sum
             /\ s[i].items # <<>> => r[i].items # <<>>
  <2>1. /\ opp(i) \in 1..k /\ Filled(s[i], lens) /\ Filled(t[opp(i)], lens)
        /\ Indices(s[i]) \cap Indices(t[opp(i)]) = {}
        /\ r[i] = Join(s[i], t[opp(i)])
    BY <1>3, <1>6, <1>7
  <2>2. \A x, y : Filled(x, lens) /\ Filled(y, lens) /\ Indices(x) \cap Indices(y) = {} =>
            /\ Filled(Join(x, y), lens)
            /\ Indices(Join(x, y)) = Indices(x) \cup Indices(y)
            /\ Join(x, y).sum = x.sum + y.sum
            /\ x.items # <<>> => Join(x, y).items # <<>>
    BY JoinFills
  <2> HIDE DEF r
  <2> DEFINE x == s[i]
             y == t[opp(i)]
  <2>3. Filled(x, lens) /\ Filled(y, lens) /\ Indices(x) \cap Indices(y) = {} /\ r[i] = Join(x, y)
    BY <2>1
  <2> HIDE DEF x, y
  <2>4. /\ Filled(r[i], lens)
        /\ Indices(r[i]) = Indices(x) \cup Indices(y)
        /\ r[i].sum = x.sum + y.sum
        /\ x.items # <<>> => r[i].items # <<>>
    BY <2>2, <2>3
  <2> QED
    BY <2>4 DEF x, y
<1> HIDE DEF r
<1>9. \A i \in 1..k : r[i] \in SetsOver(Rows(lens))
  BY <1>8 DEF Filled
<1>10. r \in [1..k -> SetsOver(Rows(lens))] /\ DOMAIN r = 1..k
  BY <1>9 DEF r
<1>11. ASSUME NEW i \in 1..k, NEW j \in 1..k, i # j
       PROVE  Indices(r[i]) \cap Indices(r[j]) = {}
  <2>1. opp(i) \in 1..k /\ opp(j) \in 1..k /\ opp(i) # opp(j)
    BY <1>3, <1>4, <1>11
  <2>2. /\ Indices(s[i]) \cap Indices(s[j]) = {}
        /\ Indices(t[opp(i)]) \cap Indices(t[opp(j)]) = {}
    <3>1. /\ \A a, b \in 1..k : a # b => Indices(s[a]) \cap Indices(s[b]) = {}
          /\ \A a, b \in 1..k : a # b => Indices(t[a]) \cap Indices(t[b]) = {}
      BY Zenon DEF Shaped, Divided
    <3> QED
      BY <1>11, <2>1, <3>1, Zenon
  <2>3. /\ Indices(s[i]) \cap Indices(t[opp(j)]) = {}
        /\ Indices(s[j]) \cap Indices(t[opp(i)]) = {}
    BY <1>7, <2>1
  <2>4. /\ Indices(r[i]) = Indices(s[i]) \cup Indices(t[opp(i)])
        /\ Indices(r[j]) = Indices(s[j]) \cup Indices(t[opp(j)])
    BY <1>8
  <2> QED
    BY <2>2, <2>3, <2>4
<1>a. ASSUME NEW a \in Nat, NEW b \in Nat, NEW c \in Nat, NEW d \in Nat
      PROVE  /\ (a + b) <= (a + b) + M
             /\ a <= c + M /\ b <= d => a + b <= (c + d) + M
             /\ b <= d + M /\ a <= c => a + b <= (c + d) + M
  OBVIOUS
<1>12. ASSUME NEW i \in 1..k, NEW j \in 1..k PROVE r[i].sum <= r[j].sum + M
  <2>1. opp(i) \in 1..k /\ opp(j) \in 1..k
    BY <1>3
  <2>2. /\ s[i].sum \in Nat /\ s[j].sum \in Nat /\ t[opp(i)].sum \in Nat /\ t[opp(j)].sum \in Nat
        /\ r[i].sum = s[i].sum + t[opp(i)].sum /\ r[j].sum = s[j].sum + t[opp(j)].sum
    BY <1>6, <1>8, <2>1
  <2>3. s[i].sum <= s[j].sum + M /\ t[opp(i)].sum <= t[opp(j)].sum + M
    BY <2>1 DEF Shaped, Divided
  <2>4. CASE i = j
    BY <1>a, <2>2, <2>4
  <2>5. CASE i < j
    <3>1. t[opp(i)].sum <= t[opp(j)].sum
      BY <1>5, <2>1, <2>5, FirstIsLargest
    <3> QED
      BY <1>a, <2>2, <2>3, <3>1, Zenon
  <2>6. CASE j < i
    <3>1. s[i].sum <= s[j].sum
      BY <2>6, FirstIsLargest
    <3> QED
      BY <1>a, <2>2, <2>3, <3>1, Zenon
  <2>7. i = j \/ i < j \/ j < i
    OBVIOUS
  <2> QED
    BY <2>4, <2>5, <2>6, <2>7
<1>13. \E i \in 1..k : r[i].items # <<>>
  BY <1>8 DEF Shaped, Divided
<1>14. Divided(r, k, lens, M)
  BY <1>8, <1>10, <1>11, <1>12, <1>13 DEF Divided
<1>15. Shaped(MergeStates(s, t), k, lens, M) /\ Held(MergeStates(s, t)) = Held(r)
  BY <1>2, <1>14, DecreasingShapes
<1>16. Held(r) = Held(s) \cup Held(t)
  <2>1. \A z : z \in Held(r) <=> \E i \in 1..k : z \in Indices(s[i]) \/ z \in Indices(t[opp(i)])
    BY <1>8, <1>10 DEF Held
  <2>2. \A z : /\ z \in Held(s) <=> \E i \in 1..k : z \in Indices(s[i])
               /\ z \in Held(t) <=> \E i \in 1..k : z \in Indices(t[i])
    BY <1>1 DEF Held
  <2>3. \A z : (\E i \in 1..k : z \in Indices(t[opp(i)])) <=> (\E i \in 1..k : z \in Indices(t[i]))
    BY <1>3, Zenon
  <2> QED
    BY <2>1, <2>2, <2>3
<1> QED
  BY <1>15, <1>16

\* The states that are left hold every row once.
Heap(h, k, lens, M) ==
    /\ h # {} /\ IsFiniteSet(h)
    /\ \A s \in h : Shaped(s, k, lens, M)
    /\ \A s, t \in h : s # t => Held(s) \cap Held(t) = {}
    /\ UNION {Held(s) : s \in h} = DOMAIN lens

PopOrder(h) == {x \in h \X h : PopsBefore(x[1], x[2])}

LEMMA HoldsRows ==
  ASSUME NEW lens \in Seq(Nat), NEW k \in Nat, NEW M \in Nat, NEW s, Shaped(s, k, lens, M)
  PROVE  /\ s \in State /\ Len(s) = k /\ s[1] \in SetsOver(Rows(lens))
         /\ Indices(s[1]) # {} /\ Indices(s[1]) \subseteq Held(s)
         /\ Spread(s) \in Int
<1>1. s \in [1..k -> SetsOver(Rows(lens))] /\ 1 \in 1..k /\ k \in 1..k /\ s[1].items # <<>>
  BY FirstIsLargest DEF Shaped, Divided
<1>2. Rows(lens) \subseteq Item
  BY RowsAreKeyed DEF Keyed
<1>3. SetsOver(Rows(lens)) \subseteq SetOfItems
  <2>1. Seq(Rows(lens)) \subseteq Seq(Item)
    BY <1>2
  <2> QED
    BY <2>1 DEF SetsOver, SetOfItems
<1>4. s \in [1..k -> SetOfItems]
  BY <1>1, <1>3
<1>5. s \in State /\ Len(s) = k /\ DOMAIN s = 1..k
  BY <1>4 DEF State
<1>6. s[1] \in SetsOver(Rows(lens)) /\ s[k] \in SetsOver(Rows(lens))
  BY <1>1
<1>7. s[1].sum \in Nat /\ s[k].sum \in Nat
  BY <1>6 DEF SetsOver
<1>8. Spread(s) \in Int
  BY <1>5, <1>7 DEF Spread
<1>9. Indices(s[1]) # {} /\ Indices(s[1]) \subseteq Held(s)
  BY <1>1, <1>5, <1>6, RowsAreKeyed DEF Held
<1> QED
  BY <1>5, <1>6, <1>8, <1>9

LEMMA PopsInOrder ==
  ASSUME NEW lens \in Seq(Nat), NEW k \in Nat, NEW M \in Nat, NEW h, Heap(h, k, lens, M)
  PROVE  Orders(PopOrder(h), h)
<1> DEFINE S == SetsOver(Rows(lens))
           L == Smaller(Rows(lens))
<1>1. Orders(L, S)
  BY RowsAreKeyed, SetsAreOrdered
<1>2. \A a, b \in S : <<a, b>> \in L <=> SetLess(a, b)
  BY DEF Smaller
<1>3. \A s \in h : s[1] \in S /\ Spread(s) \in Int
  BY HoldsRows DEF Heap
<1>4. ASSUME NEW s \in h, NEW t \in h, s # t PROVE s[1] # t[1]
  <2>1. /\ Indices(s[1]) # {} /\ Indices(s[1]) \subseteq Held(s)
        /\ Indices(t[1]) # {} /\ Indices(t[1]) \subseteq Held(t)
    BY HoldsRows DEF Heap
  <2>2. Held(s) \cap Held(t) = {}
    BY <1>4 DEF Heap
  <2>3. Indices(s[1]) # Indices(t[1])
    BY <2>1, <2>2
  <2> QED
    BY <2>3
<1> HIDE DEF L, S
<1>5. \A s, t \in h : <<s, t>> \in PopOrder(h)
                      <=> \/ Spread(s) > Spread(t)
                          \/ Spread(s) = Spread(t) /\ <<t[1], s[1]>> \in L
  <2> SUFFICES ASSUME NEW s \in h, NEW t \in h
               PROVE  <<s, t>> \in PopOrder(h)
                      <=> \/ Spread(s) > Spread(t)
                          \/ Spread(s) = Spread(t) /\ <<t[1], s[1]>> \in L
    BY Zenon
  <2>1. <<s, t>> \in PopOrder(h) <=> PopsBefore(s, t)
    BY DEF PopOrder
  <2>2. <<t[1], s[1]>> \in L <=> SetLess(t[1], s[1])
    BY <1>2, <1>3
  <2> QED
    BY <2>1, <2>2, Zenon DEF PopsBefore
<1>6. \A s \in h : <<s, s>> \notin PopOrder(h)
  <2>1. \A s \in h : ~(Spread(s) > Spread(s)) /\ <<s[1], s[1]>> \notin L
    BY <1>1, <1>3 DEF Orders
  <2> QED
    BY <1>5, <2>1
<1>7. ASSUME NEW s \in h, NEW t \in h, s # t
      PROVE  <<s, t>> \in PopOrder(h) \/ <<t, s>> \in PopOrder(h)
  <2>1. <<s[1], t[1]>> \in L \/ <<t[1], s[1]>> \in L
    BY <1>1, <1>3, <1>4, <1>7 DEF Orders
  <2>2. Spread(s) > Spread(t) \/ Spread(t) > Spread(s) \/ Spread(s) = Spread(t)
    BY <1>3
  <2> QED
    BY <1>5, <2>1, <2>2
<1>8. ASSUME NEW s \in h, NEW t \in h, NEW u \in h,
             <<s, t>> \in PopOrder(h), <<t, u>> \in PopOrder(h)
      PROVE  <<s, u>> \in PopOrder(h)
  <2>1. Spread(s) > Spread(t) \/ (Spread(s) = Spread(t) /\ <<t[1], s[1]>> \in L)
    BY <1>5, <1>8
  <2>2. Spread(t) > Spread(u) \/ (Spread(t) = Spread(u) /\ <<u[1], t[1]>> \in L)
    BY <1>5, <1>8
  <2>3. <<t[1], s[1]>> \in L /\ <<u[1], t[1]>> \in L => <<u[1], s[1]>> \in L
    BY <1>1, <1>3 DEF Orders
  <2>4. Spread(s) \in Int /\ Spread(t) \in Int /\ Spread(u) \in Int
    BY <1>3
  <2>5. Spread(s) > Spread(u) \/ (Spread(s) = Spread(u) /\ <<u[1], s[1]>> \in L)
    BY <2>1, <2>2, <2>3, <2>4
  <2> QED
    BY <1>5, <2>5
<1>9. PopOrder(h) \in SUBSET (h \X h)
  BY DEF PopOrder
<1> HIDE DEF L
<1> QED
  BY <1>6, <1>7, <1>8, <1>9 DEF Orders

\* One pair of states is popped from a heap of two states at least.
LEMMA PopsTwo ==
  ASSUME NEW h, IsFiniteSet(h), Cardinality(h) > 1, Orders(PopOrder(h), h)
  PROVE  \E s, t \in h : s # t /\ Popped(h) = {<<s, t>>}
<1>1. h # {} /\ \A s \in h : IsFiniteSet(h \ {s}) /\ h \ {s} # {}
  <2>1. h # {}
    BY FS_EmptySet
  <2>2. ASSUME NEW s \in h PROVE IsFiniteSet(h \ {s}) /\ h \ {s} # {}
    <3>1. IsFiniteSet(h \ {s}) /\ Cardinality(h \ {s}) = Cardinality(h) - 1
      BY FS_RemoveElement
    <3>2. Cardinality(h) \in Nat
      BY FS_CardinalityType
    <3>3. Cardinality(h \ {s}) # 0
      BY <3>1, <3>2
    <3> QED
      BY <3>1, <3>3, FS_EmptySet
  <2> QED
    BY <2>1, <2>2
<1> DEFINE R == PopOrder(h)
<1>2. \A s, t \in h : <<s, t>> \in R <=> PopsBefore(s, t)
  BY DEF PopOrder
<1> HIDE DEF R
<1>r. Orders(R, h)
  BY DEF R
<1>3. PICK s \in h : \A u \in h \ {s} : <<s, u>> \in R
  BY <1>1, <1>r, FirstExists, Zenon
<1>4. Orders(R \cap ((h \ {s}) \X (h \ {s})), h \ {s})
  <2> DEFINE g == h \ {s}
             Q == R \cap (g \X g)
  <2>1. \A x, y \in g : <<x, y>> \in Q <=> <<x, y>> \in R
    OBVIOUS
  <2>2. Q \in SUBSET (g \X g) /\ \A x \in g : x \in h
    OBVIOUS
  <2> HIDE DEF Q, g
  <2>3. Orders(Q, g)
    BY <1>r, <2>1, <2>2 DEF Orders
  <2> QED
    BY <2>3 DEF Q, g
<1>5. PICK t \in h \ {s} : \A u \in (h \ {s}) \ {t} : <<t, u>> \in R
  <2>1. PICK t \in h \ {s} : \A u \in (h \ {s}) \ {t} : <<t, u>> \in R \cap ((h \ {s}) \X (h \ {s}))
    <3> DEFINE g == h \ {s}
               Q == R \cap (g \X g)
    <3>1. IsFiniteSet(g) /\ g # {} /\ Orders(Q, g)
      BY <1>1, <1>4
    <3> HIDE DEF g, Q
    <3>2. \E t \in g : \A u \in g \ {t} : <<t, u>> \in Q
      BY <3>1, FirstExists
    <3> QED
      BY <3>2 DEF g, Q
  <2> QED
    BY <2>1
<1>6. \A u \in h : \A v \in h : <<u, v>> \in R => <<v, u>> \notin R
  BY <1>r, Zenon DEF Orders
<1>7. <<s, t>> \in Popped(h)
  BY <1>2, <1>3, <1>5 DEF Popped
<1>8. ASSUME NEW p \in Popped(h) PROVE p = <<s, t>>
  <2>1. /\ p \in h \X h /\ p[1] \in h /\ p[2] \in h /\ p[1] # p[2]
        /\ \A u \in h \ {p[1]} : <<p[1], u>> \in R
        /\ \A u \in h \ {p[1], p[2]} : <<p[2], u>> \in R
    BY <1>2 DEF Popped
  <2>2. p[1] = s
    <3> SUFFICES ASSUME p[1] # s PROVE FALSE
      OBVIOUS
    <3>1. <<p[1], s>> \in R /\ <<s, p[1]>> \in R
      BY <1>3, <2>1
    <3> QED
      BY <1>6, <2>1, <3>1
  <2>3. p[2] = t
    <3> SUFFICES ASSUME p[2] # t PROVE FALSE
      OBVIOUS
    <3>1. <<p[2], t>> \in R /\ <<t, p[2]>> \in R
      BY <1>5, <2>1, <2>2
    <3> QED
      BY <1>6, <2>1, <3>1
  <2> QED
    BY <2>1, <2>2, <2>3
<1> QED
  BY <1>5, <1>7, <1>8

LEMMA MergedHeap ==
  ASSUME NEW lens \in Seq(Nat), NEW k \in Nat, NEW M \in Nat, NEW h,
         Heap(h, k, lens, M), Cardinality(h) > 1
  PROVE  Heap(Merged[h], k, lens, M) /\ Cardinality(Merged[h]) = Cardinality(h) - 1
<1>1. IsFiniteSet(h) /\ Cardinality(h) \in Nat
  BY FS_CardinalityType DEF Heap
<1>2. PICK s \in h, t \in h : s # t /\ Popped(h) = {<<s, t>>}
  BY <1>1, PopsInOrder, PopsTwo
<1> DEFINE m == MergeStates(s, t)
           rest == h \ {s, t}
<1>3. h \in SUBSET State
  BY HoldsRows DEF Heap
<1>4. Merged[h] = rest \cup {m}
  <2>1. Merged[h] = UNION {(h \ {p[1], p[2]}) \cup {MergeStates(p[1], p[2])} : p \in Popped(h)}
    BY <1>3 DEF Merged
  <2> QED
    BY <1>2, <2>1
<1>5. /\ Shaped(s, k, lens, M) /\ Shaped(t, k, lens, M) /\ Held(s) \cap Held(t) = {}
  BY <1>2 DEF Heap
<1>6. Shaped(m, k, lens, M) /\ Held(m) = Held(s) \cup Held(t)
  BY <1>5, MergeShapes
<1> HIDE DEF m
<1>7. \A u \in rest : Shaped(u, k, lens, M) /\ Held(u) \cap Held(m) = {}
  <2> SUFFICES ASSUME NEW u \in rest PROVE Shaped(u, k, lens, M) /\ Held(u) \cap Held(m) = {}
    OBVIOUS
  <2>1. u \in h /\ u # s /\ u # t
    OBVIOUS
  <2>2. Held(u) \cap Held(s) = {} /\ Held(u) \cap Held(t) = {} /\ Shaped(u, k, lens, M)
    BY <1>2, <2>1 DEF Heap
  <2> QED
    BY <1>6, <2>2
<1>8. m \notin rest
  <2>1. Held(m) # {}
    BY <1>6, HoldsRows
  <2> QED
    BY <1>7, <2>1
<1>9. IsFiniteSet(rest) /\ Cardinality(rest) = Cardinality(h) - 2
  <2>1. IsFiniteSet(h \ {s}) /\ Cardinality(h \ {s}) = Cardinality(h) - 1
    BY <1>1, FS_RemoveElement
  <2>2. t \in h \ {s} /\ (h \ {s}) \ {t} = rest
    BY <1>2
  <2>3. IsFiniteSet((h \ {s}) \ {t}) /\ Cardinality((h \ {s}) \ {t}) = Cardinality(h \ {s}) - 1
    BY <2>1, <2>2, FS_RemoveElement
  <2>4. (Cardinality(h) - 1) - 1 = Cardinality(h) - 2
    BY <1>1
  <2> QED
    BY <2>1, <2>2, <2>3, <2>4, Zenon
<1>10. IsFiniteSet(rest \cup {m}) /\ Cardinality(rest \cup {m}) = Cardinality(h) - 1
  <2>1. IsFiniteSet(rest \cup {m}) /\ Cardinality(rest \cup {m}) = Cardinality(rest) + 1
    BY <1>8, <1>9, FS_AddElement
  <2>2. (Cardinality(h) - 2) + 1 = Cardinality(h) - 1
    BY <1>1
  <2> QED
    BY <1>9, <2>1, <2>2, Zenon
<1> HIDE DEF rest
<1>11. \A u, v \in rest \cup {m} : u # v => Held(u) \cap Held(v) = {}
  <2>1. \A u, v \in rest : u # v => Held(u) \cap Held(v) = {}
    BY DEF rest, Heap
  <2> QED
    BY <1>7, <2>1
<1>12. UNION {Held(u) : u \in rest \cup {m}} = DOMAIN lens
  <2>1. \A z : z \in DOMAIN lens <=> \E u \in h : z \in Held(u)
    BY DEF Heap
  <2>2. \A u \in h : u \in rest \/ u = s \/ u = t
    BY DEF rest
  <2>3. \A u \in rest : u \in h
    BY DEF rest
  <2>4. \A z : z \in Held(m) <=> z \in Held(s) \/ z \in Held(t)
    BY <1>6
  <2>5. \A z : (\E u \in h : z \in Held(u)) <=> (z \in Held(m) \/ \E u \in rest : z \in Held(u))
    BY <1>2, <2>2, <2>3, <2>4
  <2> QED
    BY <2>1, <2>5
<1>13. Heap(rest \cup {m}, k, lens, M)
  BY <1>6, <1>7, <1>10, <1>11, <1>12 DEF Heap
<1> QED
  BY <1>4, <1>10, <1>13 DEF rest

\* The heap after so many merges.
Heaps(g, states, last) == g = [merges \in 0..last |-> IF merges = 0 THEN states ELSE Merged[g[merges - 1]]]

LEMMA HeapsExist ==
  ASSUME NEW states, NEW last \in Nat
  PROVE  \E g : Heaps(g, states, last)
<1> DEFINE T == {n \in Nat : \E g : Heaps(g, states, n)}
<1>1. 0 \in T
  <2>1. Heaps([n \in 0..0 |-> states], states, 0)
    BY DEF Heaps
  <2> QED
    BY <2>1
<1>2. ASSUME NEW n \in T PROVE n + 1 \in T
  <2>1. PICK g : Heaps(g, states, n)
    OBVIOUS
  <2> DEFINE b == [i \in 0..(n + 1) |-> IF i <= n THEN g[i] ELSE Merged[g[n]]]
  <2>2. n \in Nat /\ n + 1 \in Nat
    OBVIOUS
  <2>3. ASSUME NEW i \in 0..(n + 1)
        PROVE  b[i] = IF i = 0 THEN states ELSE Merged[b[i - 1]]
    <3>1. \A j \in 0..n : g[j] = IF j = 0 THEN states ELSE Merged[g[j - 1]]
      BY <2>1 DEF Heaps
    <3>2. CASE i = 0
      <4>1. b[i] = g[0] /\ 0 \in 0..n
        BY <2>2, <3>2
      <4> QED
        BY <3>1, <3>2, <4>1
    <3>3. CASE i # 0 /\ i <= n
      <4>1. i \in 0..n /\ i - 1 \in 0..(n + 1) /\ i - 1 <= n
        BY <2>2, <3>3
      <4>2. b[i] = g[i] /\ b[i - 1] = g[i - 1]
        BY <2>2, <3>3, <4>1
      <4> QED
        BY <3>1, <3>3, <4>1, <4>2
    <3>4. CASE i = n + 1
      <4>1. n \in 0..(n + 1) /\ n <= n /\ i - 1 = n /\ i # 0 /\ ~(i <= n)
        BY <2>2, <3>4
      <4>2. b[i] = Merged[g[n]] /\ b[i - 1] = g[n]
        BY <4>1
      <4> QED
        BY <4>1, <4>2
    <3> QED
      BY <2>2, <3>2, <3>3, <3>4
  <2>4. b = [i \in 0..(n + 1) |-> IF i = 0 THEN states ELSE Merged[b[i - 1]]]
    <3>1. b = [i \in 0..(n + 1) |-> b[i]]
      OBVIOUS
    <3> HIDE DEF b
    <3>2. [i \in 0..(n + 1) |-> b[i]] = [i \in 0..(n + 1) |-> IF i = 0 THEN states ELSE Merged[b[i - 1]]]
      BY <2>3
    <3> QED
      BY <3>1, <3>2, Zenon
  <2> HIDE DEF b
  <2>5. Heaps(b, states, n + 1)
    BY <2>4 DEF Heaps
  <2> QED
    BY <2>2, <2>5
<1>3. T = Nat
  <2>1. T \in SUBSET Nat
    OBVIOUS
  <2> HIDE DEF T
  <2> QED
    BY <1>1, <1>2, <2>1, NatSetInduction
<1> QED
  BY <1>3

\* Differencing ends with one state, of all the rows.
LEMMA DifferencedShapes ==
  ASSUME NEW lens \in Seq(Nat), NEW k \in Nat, NEW M \in Nat, NEW states, Heap(states, k, lens, M)
  PROVE  /\ Shaped(Differenced[states], k, lens, M)
         /\ Held(Differenced[states]) = DOMAIN lens
         /\ Differenced[states] \in State
<1> DEFINE last == Cardinality(states) - 1
           heap == CHOOSE heap : Heaps(heap, states, last)
<1>1. IsFiniteSet(states) /\ states # {} /\ Cardinality(states) \in Nat /\ Cardinality(states) # 0
  BY FS_CardinalityType, FS_EmptySet DEF Heap
<1>2. last \in Nat /\ Cardinality(states) = last + 1
  BY <1>1
<1>3. states \in SUBSET State
  BY HoldsRows DEF Heap
<1>4. Differenced[states] = CHOOSE state \in heap[last] : heap[last] = {state}
  BY <1>3 DEF Differenced, Heaps
<1> HIDE DEF last, heap
<1>5. Heaps(heap, states, last)
  BY <1>2, HeapsExist DEF heap
<1>6. /\ heap[0] = states
      /\ \A n \in Nat : n + 1 <= last => heap[n + 1] = Merged[heap[n]]
  <2>1. \A n \in 0..last : heap[n] = IF n = 0 THEN states ELSE Merged[heap[n - 1]]
    BY <1>5 DEF Heaps
  <2>2. 0 \in 0..last
    BY <1>2
  <2>3. ASSUME NEW n \in Nat, n + 1 <= last PROVE heap[n + 1] = Merged[heap[n]]
    <3>1. n + 1 \in 0..last /\ n + 1 # 0 /\ (n + 1) - 1 = n
      BY <1>2, <2>3
    <3> QED
      BY <2>1, <3>1
  <2> QED
    BY <2>1, <2>2, <2>3
<1> DEFINE T == {n \in Nat : n <= last => /\ Heap(heap[n], k, lens, M)
                                          /\ Cardinality(heap[n]) = (last + 1) - n}
<1>7. 0 \in T
  <2>1. (last + 1) - 0 = last + 1
    BY <1>2
  <2> QED
    BY <1>2, <1>6, <2>1
<1>8. ASSUME NEW n \in T PROVE n + 1 \in T
  <2>1. n \in Nat /\ n + 1 \in Nat
    OBVIOUS
  <2>2. ASSUME n + 1 <= last
        PROVE  Heap(heap[n + 1], k, lens, M) /\ Cardinality(heap[n + 1]) = (last + 1) - (n + 1)
    <3>1. n <= last /\ (last + 1) - n > 1 /\ ((last + 1) - n) - 1 = (last + 1) - (n + 1)
      BY <1>2, <2>1, <2>2
    <3>2. Heap(heap[n], k, lens, M) /\ Cardinality(heap[n]) = (last + 1) - n
      BY <3>1
    <3>3. heap[n + 1] = Merged[heap[n]]
      BY <1>6, <2>1, <2>2
    <3>4. Cardinality(heap[n]) > 1
      BY <3>1, <3>2
    <3>5. Heap(Merged[heap[n]], k, lens, M) /\ Cardinality(Merged[heap[n]]) = Cardinality(heap[n]) - 1
      BY <3>2, <3>4, MergedHeap
    <3> QED
      BY <3>1, <3>2, <3>3, <3>5
  <2> QED
    BY <2>1, <2>2
<1>9. T = Nat
  <2>1. T \in SUBSET Nat
    OBVIOUS
  <2> HIDE DEF T
  <2> QED
    BY <1>7, <1>8, <2>1, NatSetInduction
<1>10. Heap(heap[last], k, lens, M) /\ Cardinality(heap[last]) = 1
  <2>1. last \in T /\ last <= last /\ (last + 1) - last = 1
    BY <1>2, <1>9
  <2> QED
    BY <2>1
<1>11. PICK s : heap[last] = {s}
  BY <1>10, FS_Singleton DEF Heap
<1>12. Differenced[states] = s
  BY <1>4, <1>11
<1>13. Shaped(s, k, lens, M) /\ Held(s) = DOMAIN lens
  <2>1. Heap({s}, k, lens, M)
    BY <1>10, <1>11
  <2>2. UNION {Held(x) : x \in {s}} = Held(s)
    OBVIOUS
  <2> QED
    BY <2>1, <2>2 DEF Heap
<1> QED
  BY <1>12, <1>13, HoldsRows

\* c blocks of w places each.
LEMMA Blocks ==
  ASSUME NEW c \in Nat, NEW w \in Nat \ {0}
  PROVE  /\ \A i \in 0..(c - 1) : \A j \in 1..w : i * w + j \in 1..(c * w)
         /\ \A q \in 1..(c * w) : \E i \in 0..(c - 1) : \E j \in 1..w : q = i * w + j
         /\ \A i, m \in Nat : \A j, n \in 1..w : i * w + j = m * w + n => i = m /\ j = n
<1>1. ASSUME NEW i \in 0..(c - 1), NEW j \in 1..w PROVE i * w + j \in 1..(c * w)
  <2>1. i \in Nat /\ i + 1 <= c /\ (i + 1) * w = i * w + w
    OBVIOUS
  <2>2. (i + 1) * w <= c * w
    BY <2>1
  <2>3. i * w \in Nat /\ c * w \in Nat
    BY <2>1
  <2> QED
    BY <2>1, <2>2, <2>3
<1>2. ASSUME NEW q \in 1..(c * w)
      PROVE  \E i \in 0..(c - 1) : \E j \in 1..w : q = i * w + j
  <2> DEFINE a == q - 1
  <2>1. a \in Nat /\ a < c * w
    <3>1. c * w \in Nat
      OBVIOUS
    <3> QED
      BY <3>1
  <2>2. q = a + 1
    BY <2>1
  <2> HIDE DEF a
  <2>3. a = (a \div w) * w + (a % w) /\ a % w \in 0..w - 1 /\ a \div w \in Nat
    BY <2>1
  <2>4. a \div w < c
    BY <2>1
  <2>5. a \div w \in 0..(c - 1) /\ (a % w) + 1 \in 1..w
    BY <2>3, <2>4
  <2>6. (a \div w) * w \in Nat
    BY <2>3
  <2>7. q = (a \div w) * w + ((a % w) + 1)
    BY <2>2, <2>3, <2>6
  <2> QED
    BY <2>5, <2>7
<1>3. ASSUME NEW i \in Nat, NEW m \in Nat, NEW j \in 1..w, NEW n \in 1..w, i * w + j = m * w + n
      PROVE  i = m /\ j = n
  BY <1>3
<1> QED
  BY <1>1, <1>2, <1>3

-------------------------------------
(* The initial states                                                       *)

LengthOrder(P) == {x \in P \X P : \/ x[1][2] < x[2][2]
                                  \/ x[1][2] = x[2][2] /\ x[1][1] < x[2][1]}

LEMMA ByLengthPermutes ==
  ASSUME NEW lens \in Seq(Nat)
  PROVE  \E p \in Bijection(1..Len(lens), 1..Len(lens)) :
            ByLength(lens) = [i \in 1..Len(lens) |-> <<p[i], lens[p[i]]>>]
<1> DEFINE P == Rows(lens)
           s == [i \in DOMAIN lens |-> <<i, lens[i]>>]
           L == LengthOrder(P)
           N == 1..Len(lens)
<1>1. \A x, y \in P : <<x, y>> \in L <=> x[2] < y[2] \/ (x[2] = y[2] /\ x[1] < y[1])
  BY DEF LengthOrder
<1>2. L \in SUBSET (P \X P)
  BY DEF LengthOrder
<1>3. \A x \in P : x[1] \in Nat /\ x[2] \in Nat
  BY RowsAreKeyed, KeysAreNat
<1>4. \A x, y \in P : x[1] = y[1] => x = y
  BY RowsAreKeyed DEF Keyed
<1>s. s \in Seq(P) /\ Len(s) = Len(lens) /\ DOMAIN s = N /\ \A i \in N : s[i] = <<i, lens[i]>>
  BY DEF Rows
<1> HIDE DEF P, L
<1>5. Orders(L, P)
  <2>1. \A x \in P : <<x, x>> \notin L
    BY <1>1, <1>3
  <2>2. \A x, y, z \in P : <<x, y>> \in L /\ <<y, z>> \in L => <<x, z>> \in L
    <3> SUFFICES ASSUME NEW x \in P, NEW y \in P, NEW z \in P, <<x, y>> \in L, <<y, z>> \in L
                 PROVE  <<x, z>> \in L
      OBVIOUS
    <3>1. /\ x[2] < y[2] \/ (x[2] = y[2] /\ x[1] < y[1])
          /\ y[2] < z[2] \/ (y[2] = z[2] /\ y[1] < z[1])
      BY <1>1
    <3>2. /\ x[1] \in Nat /\ x[2] \in Nat /\ y[1] \in Nat /\ y[2] \in Nat
          /\ z[1] \in Nat /\ z[2] \in Nat
      BY <1>3
    <3>3. x[2] < z[2] \/ (x[2] = z[2] /\ x[1] < z[1])
      BY <3>1, <3>2
    <3> QED
      BY <1>1, <3>3
  <2>3. \A x, y \in P : x # y => <<x, y>> \in L \/ <<y, x>> \in L
    <3> SUFFICES ASSUME NEW x \in P, NEW y \in P, x # y
                 PROVE  <<x, y>> \in L \/ <<y, x>> \in L
      OBVIOUS
    <3>1. x[1] # y[1] /\ x[1] \in Nat /\ x[2] \in Nat /\ y[1] \in Nat /\ y[2] \in Nat
      BY <1>3, <1>4
    <3>2. \/ x[2] < y[2] \/ (x[2] = y[2] /\ x[1] < y[1])
          \/ y[2] < x[2] \/ (y[2] = x[2] /\ y[1] < x[1])
      BY <3>1
    <3> QED
      BY <1>1, <3>2
  <2> QED
    BY <1>2, <2>1, <2>2, <2>3 DEF Orders
<1>6. ByLength(lens) = SortedBy(s, L)
  <2> DEFINE B1(j, i) == \/ s[j][2] < s[i][2] \/ (s[j][2] = s[i][2] /\ s[j][1] < s[i][1])
                         \/ ~(s[i][2] < s[j][2] \/ (s[i][2] = s[j][2] /\ s[i][1] < s[j][1])) /\ j < i
             B2(j, i) == <<s[j], s[i]>> \in L \/ (<<s[i], s[j]>> \notin L /\ j < i)
             C1(i) == Cardinality({j \in DOMAIN s : B1(j, i)})
             C2(i) == Cardinality({j \in DOMAIN s : B2(j, i)})
             At1(place) == CHOOSE i \in DOMAIN s : C1(i) = place - 1
             At2(place) == CHOOSE i \in DOMAIN s : C2(i) = place - 1
  <2>1. ByLength(lens) = SubSeq([place \in DOMAIN s |-> s[At1(place)]], 1, Len(s))
    <3> HIDE DEF s
    <3> QED
      BY DEF ByLength, Sorted, s
  <2> HIDE DEF s
  <2>2. SortedBy(s, L) = SubSeq([place \in DOMAIN s |-> s[At2(place)]], 1, Len(s))
    BY DEF SortedBy, Sorted
  <2>3. \A i, j \in DOMAIN s : B1(j, i) <=> B2(j, i)
    <3>1. \A i \in DOMAIN s : s[i] \in P
      BY <1>s
    <3> QED
      BY <1>1, <3>1
  <2> HIDE DEF B1, B2
  <2>4. \A i \in DOMAIN s : C1(i) = C2(i)
    <3>1. \A i \in DOMAIN s : {j \in DOMAIN s : B1(j, i)} = {j \in DOMAIN s : B2(j, i)}
      BY <2>3
    <3> QED
      BY <3>1
  <2> HIDE DEF C1, C2
  <2>5. \A place : At1(place) = At2(place)
    BY <2>4
  <2> HIDE DEF At1, At2
  <2> QED
    BY <2>1, <2>2, <2>5
<1> HIDE DEF s
<1>7. PICK p \in Bijection(N, N) : SortedBy(s, L) = [i \in N |-> s[p[i]]]
  <2>1. \E p \in Bijection(1..Len(s), 1..Len(s)) :
            /\ SortedBy(s, L) = [i \in 1..Len(s) |-> s[p[i]]]
            /\ \A i, j \in 1..Len(s) : i < j => <<s[p[j]], s[p[i]]>> \notin L
    BY <1>5, <1>s, SortedPermutes
  <2> QED
    BY <1>s, <2>1
<1>8. \A i \in N : p[i] \in N
  BY <1>7 DEF Bijection, Injection
<1>9. [i \in N |-> s[p[i]]] = [i \in N |-> <<p[i], lens[p[i]]>>]
  BY <1>s, <1>8
<1> QED
  BY <1>6, <1>7, <1>9

\* A state of some rows, one in each of its first sets.
LEMMA InitialShapes ==
  ASSUME NEW lens \in Seq(Nat), NEW k \in Nat, NEW M \in Nat, \A i \in DOMAIN lens : lens[i] <= M,
         NEW w \in 1..k, NEW q \in Injection(1..w, 1..Len(lens)),
         NEW items, items = [j \in 1..w |-> <<q[j], lens[q[j]]>>]
  PROVE  Shaped(StateOf(items, k), k, lens, M) /\ Held(StateOf(items, k)) = {q[j] : j \in 1..w}
<1> DEFINE r == [i \in 1..k |-> IF i <= Len(items)
                                THEN [sum |-> items[i][2], items |-> <<items[i]>>] ELSE EmptySet]
<1>1. StateOf(items, k) = Decreasing(r)
  BY DEF StateOf
<1>q. /\ \A j \in 1..w : q[j] \in 1..Len(lens)
      /\ \A i, j \in 1..w : q[i] = q[j] => i = j
  BY DEF Injection, IsInjective
<1>2. /\ Len(items) = w /\ \A j \in 1..w : items[j] = <<q[j], lens[q[j]]>>
      /\ w \in Nat /\ w >= 1 /\ w <= k
  OBVIOUS
<1>3. \A j \in 1..w : /\ items[j] \in Rows(lens) /\ items[j][1] = q[j]
                      /\ items[j][2] = lens[q[j]] /\ lens[q[j]] \in Nat /\ lens[q[j]] <= M
  BY <1>2, <1>q DEF Rows
<1>0. \A x : DOMAIN <<x>> = {1} /\ <<x>>[1] = x /\ <<x>> # <<>>
  OBVIOUS
<1>f. \A i \in 1..k : i <= w => r[i].sum = items[i][2] /\ r[i].items = <<items[i]>>
  BY <1>2
<1>4. /\ \A i \in 1..k : i <= w => r[i] = [sum |-> items[i][2], items |-> <<items[i]>>]
      /\ \A i \in 1..k : ~(i <= w) => r[i] = EmptySet
      /\ DOMAIN r = 1..k
      /\ \A i \in 1..k : i <= w => i \in 1..w
  BY <1>2
<1> HIDE DEF r
<1>5. ASSUME NEW i \in 1..k, i \in 1..w
      PROVE  /\ r[i] \in SetsOver(Rows(lens)) /\ Filled(r[i], lens)
             /\ Indices(r[i]) = {q[i]} /\ r[i].sum \in 0..M /\ r[i].items # <<>>
  <2>1. r[i] = [sum |-> lens[q[i]], items |-> <<items[i]>>]
    BY <1>3, <1>4, <1>5
  <2>2. items[i] \in Rows(lens) /\ items[i][1] = q[i] /\ lens[q[i]] \in Nat /\ lens[q[i]] <= M
    BY <1>3, <1>5
  <2>a. r[i].sum = lens[q[i]] /\ r[i].items = <<items[i]>>
    BY <1>3, <1>4, <1>5, <1>f
  <2>3. r[i].sum = lens[q[i]] /\ r[i].items = <<items[i]>> /\ DOMAIN r[i].items = {1} /\ r[i].items[1] = items[i]
    BY <1>0, <2>a, Zenon
  <2>4. r[i] \in SetsOver(Rows(lens))
    BY <2>1, <2>2 DEF SetsOver
  <2>5. Indices(r[i]) = {q[i]}
    BY <2>2, <2>3 DEF Indices
  <2>6. r[i].sum = Total(lens, Indices(r[i]))
    <3>1. q[i] \in 1..Len(lens)
      BY <1>q, <1>5
    <3>2. Total(lens, {q[i]}) = lens[q[i]]
      BY <3>1, LengthTotals
    <3> QED
      BY <2>3, <2>5, <3>2, Zenon
  <2>7. Filled(r[i], lens)
    BY <2>3, <2>4, <2>6 DEF Filled
  <2>8. r[i].items # <<>>
    BY <2>3
  <2>9. r[i].sum \in 0..M
    BY <2>2, <2>3
  <2> QED
    BY <2>4, <2>5, <2>7, <2>8, <2>9
<1>6. ASSUME NEW i \in 1..k, i \notin 1..w
      PROVE  /\ r[i] \in SetsOver(Rows(lens)) /\ Filled(r[i], lens)
             /\ Indices(r[i]) = {} /\ r[i].sum \in 0..M
  <2>1. r[i] = [sum |-> 0, items |-> <<>>]
    BY <1>4, <1>6 DEF EmptySet
  <2>2. r[i].sum = 0 /\ r[i].items = <<>> /\ DOMAIN r[i].items = {}
    BY <2>1
  <2>3. r[i] \in SetsOver(Rows(lens))
    BY <2>1 DEF SetsOver
  <2>4. Indices(r[i]) = {}
    BY <2>2 DEF Indices
  <2>5. r[i].sum = Total(lens, Indices(r[i]))
    BY <2>2, <2>4, LengthTotals
  <2>6. Filled(r[i], lens)
    BY <2>2, <2>3, <2>5 DEF Filled
  <2> QED
    BY <2>2, <2>3, <2>4, <2>6
<1>7. Divided(r, k, lens, M)
  <2>1. r \in [1..k -> SetsOver(Rows(lens))]
    <3>1. \A i \in 1..k : r[i] \in SetsOver(Rows(lens))
      BY <1>5, <1>6
    <3> QED
      BY <3>1 DEF r
  <2>2. \A i \in 1..k : Filled(r[i], lens)
    BY <1>5, <1>6
  <2>3. ASSUME NEW i \in 1..k, NEW j \in 1..k, i # j PROVE Indices(r[i]) \cap Indices(r[j]) = {}
    <3>1. CASE i \in 1..w /\ j \in 1..w
      <4>1. Indices(r[i]) = {q[i]} /\ Indices(r[j]) = {q[j]} /\ q[i] # q[j]
        BY <1>q, <1>5, <2>3, <3>1
      <4> QED
        BY <4>1
    <3>2. CASE i \notin 1..w \/ j \notin 1..w
      BY <1>6, <3>2
    <3> QED
      BY <3>1, <3>2
  <2>4. ASSUME NEW i \in 1..k, NEW j \in 1..k PROVE r[i].sum <= r[j].sum + M
    <3>1. r[i].sum \in 0..M /\ r[j].sum \in 0..M
      BY <1>5, <1>6
    <3> QED
      BY <3>1
  <2>5. r[1].items # <<>> /\ 1 \in 1..k
    <3>1. 1 \in 1..w /\ 1 \in 1..k
      BY <1>2
    <3> QED
      BY <1>5, <3>1
  <2> QED
    BY <2>1, <2>2, <2>3, <2>4, <2>5 DEF Divided
<1>8. Held(r) = {q[j] : j \in 1..w}
  <2>1. \A z : z \in Held(r) <=> \E i \in 1..k : z \in Indices(r[i])
    BY <1>4 DEF Held
  <2>2. \A i \in 1..w : i \in 1..k /\ Indices(r[i]) = {q[i]}
    <3> SUFFICES ASSUME NEW i \in 1..w PROVE i \in 1..k /\ Indices(r[i]) = {q[i]}
      OBVIOUS
    <3>1. i \in 1..k
      BY <1>2
    <3> QED
      BY <1>5, <3>1
  <2>3. \A i \in 1..k : i \notin 1..w => Indices(r[i]) = {}
    BY <1>6
  <2>4. ASSUME NEW z PROVE z \in Held(r) <=> \E i \in 1..w : z = q[i]
    <3>1. ASSUME NEW i \in 1..k, z \in Indices(r[i]) PROVE i \in 1..w /\ z = q[i]
      BY <2>2, <2>3, <3>1
    <3>2. ASSUME NEW i \in 1..w, z = q[i] PROVE i \in 1..k /\ z \in Indices(r[i])
      BY <2>2, <3>2
    <3> QED
      BY <2>1, <3>1, <3>2
  <2> QED
    BY <2>4
<1>9. k \in Nat
  OBVIOUS
<1>10. Shaped(Decreasing(r), k, lens, M) /\ Held(Decreasing(r)) = Held(r)
  BY <1>7, <1>9, DecreasingShapes
<1> QED
  BY <1>1, <1>8, <1>10, Zenon

LEMMA BlockOfRows ==
  ASSUME NEW n \in Nat, NEW S, NEW rows \in [1..n -> S],
         NEW c \in Nat, NEW w \in Nat \ {0}, n = c * w, NEW i \in 0..(c - 1)
  PROVE  SubSeq(rows, i * w + 1, (i + 1) * w) = [j \in 1..w |-> rows[i * w + j]]
<1> DEFINE a == i * w
           b == (i + 1) * w
           sub == SubSeq(rows, a + 1, b)
<1>1. a \in Nat /\ b \in Nat /\ b = a + w /\ w \in Nat
  <2>1. (i + 1) * w = i * w + w /\ i * w \in Nat
    OBVIOUS
  <2> QED
    BY <2>1
<1>2. \A j \in 1..w : a + j \in 1..n
  BY Blocks
<1>3. rows \in Seq(S) /\ Len(rows) = n
  OBVIOUS
<1> HIDE DEF a, b
<1>4. Len(sub) = w /\ sub \in Seq(S) /\ \A j \in 1..w : sub[j] = rows[a + j]
  <2>1. 1 \in 1..w /\ w \in 1..w
    BY <1>1
  <2>2. a + 1 \in 1..n /\ b \in 1..n
    BY <1>1, <1>2, <2>1
  <2>3. sub = [j \in 1..w |-> rows[a + j]]
    <3>1. b - (a + 1) + 1 = w /\ \A j \in 1..w : j + (a + 1) - 1 = a + j
      BY <1>1
    <3>2. sub = [j \in 1..(b - (a + 1) + 1) |-> rows[j + (a + 1) - 1]]
      BY <1>1, <1>3, <2>2
    <3> QED
      BY <3>1, <3>2
  <2>4. \A j \in 1..w : rows[a + j] \in S
    BY <1>2
  <2> HIDE DEF sub
  <2> QED
    BY <1>1, <2>3, <2>4
<1>5. sub = [j \in 1..w |-> sub[j]]
  BY <1>4
<1> HIDE DEF sub
<1>6. [j \in 1..w |-> sub[j]] = [j \in 1..w |-> rows[a + j]]
  BY <1>4
<1> QED
  BY <1>5, <1>6 DEF a, b, sub

LEMMA InitialStatesAre ==
  ASSUME NEW rows \in Seq(Item), NEW k \in Nat, NEW equalSize \in BOOLEAN,
         NEW d, d = [rows |-> rows, k |-> k, equalSize |-> equalSize],
         NEW w, w = IF equalSize THEN k ELSE 1
  PROVE  /\ d \in Sorting
         /\ InitialStates[d] = {StateOf(SubSeq(rows, i * w + 1, (i + 1) * w), k) :
                                   i \in 0..(Len(rows) \div w) - 1}
<1> DEFINE W == IF d.equalSize THEN d.k ELSE 1
           C == (Len(d.rows) \div W) - 1
           block(i) == SubSeq(d.rows, i * W + 1, (i + 1) * W)
<1>1. d \in Sorting
  BY DEF Sorting
<1>2. d.rows = rows /\ d.k = k /\ W = w
  OBVIOUS
<1>3. InitialStates[d] = {StateOf(items, d.k) : items \in {block(i) : i \in 0..C}}
  BY <1>1, Zenon DEF InitialStates
<1>4. {StateOf(items, d.k) : items \in {block(i) : i \in 0..C}} = {StateOf(block(i), d.k) : i \in 0..C}
  <2> HIDE DEF block, C
  <2> QED
    OBVIOUS
<1>5. C = (Len(rows) \div w) - 1 /\ \A i : block(i) = SubSeq(rows, i * w + 1, (i + 1) * w)
  BY <1>2, Zenon
<1> HIDE DEF block, C
<1>6. {StateOf(block(i), d.k) : i \in 0..C}
      = {StateOf(SubSeq(rows, i * w + 1, (i + 1) * w), k) : i \in 0..(Len(rows) \div w) - 1}
  BY <1>2, <1>5
<1> QED
  BY <1>1, <1>3, <1>4, <1>6

LEMMA InitialHeap ==
  ASSUME NEW lens \in Seq(Nat), lens # <<>>, NEW M \in Nat, \A i \in DOMAIN lens : lens[i] <= M,
         NEW k \in Nat \ {0}, NEW equalSize \in BOOLEAN, equalSize => Len(lens) % k = 0
  PROVE  LET d == [rows |-> ByLength(lens), k |-> k, equalSize |-> equalSize] IN
         /\ d \in Sorting
         /\ Heap(InitialStates[d], k, lens, M)
<1> DEFINE n == Len(lens)
           w == IF equalSize THEN k ELSE 1
           c == n \div w
           rows == ByLength(lens)
           d == [rows |-> rows, k |-> k, equalSize |-> equalSize]
           block(i) == SubSeq(rows, i * w + 1, (i + 1) * w)
           states == {StateOf(block(i), k) : i \in 0..(c - 1)}
<1>1. n \in Nat /\ n # 0 /\ w \in Nat \ {0} /\ w \in 1..k /\ n % w = 0 /\ DOMAIN lens = 1..n
  OBVIOUS
<1>2. PICK p \in Bijection(1..n, 1..n) : rows = [i \in 1..n |-> <<p[i], lens[p[i]]>>]
  BY ByLengthPermutes
<1>3. /\ \A i \in 1..n : p[i] \in 1..n
      /\ \A i, j \in 1..n : p[i] = p[j] => i = j
      /\ \A j \in 1..n : \E i \in 1..n : p[i] = j
  BY <1>2 DEF Bijection, Injection, IsInjective, Surjection
<1>4. rows \in [1..n -> Item] /\ rows \in Seq(Item) /\ Len(rows) = n
  <2>1. \A i \in 1..n : <<p[i], lens[p[i]]>> \in Item
    <3> SUFFICES ASSUME NEW i \in 1..n PROVE <<p[i], lens[p[i]]>> \in Item
      OBVIOUS
    <3>1. p[i] \in 1..n
      BY <1>3
    <3>2. p[i] \in Nat /\ lens[p[i]] \in Nat
      BY <3>1
    <3> QED
      BY <3>2 DEF Item
  <2> HIDE DEF rows
  <2>2. rows \in [1..n -> Item]
    BY <1>2, <2>1
  <2> HIDE DEF n
  <2> QED
    BY <1>1, <2>2
<1> HIDE DEF rows
<1>5. d \in Sorting /\ InitialStates[d] = states
  <2> HIDE DEF n, w, d
  <2>1. w = (IF equalSize THEN k ELSE 1) /\ d = [rows |-> rows, k |-> k, equalSize |-> equalSize]
    BY DEF w, d
  <2>2. k \in Nat
    BY <1>1
  <2> QED
    BY <1>4, <2>1, <2>2, InitialStatesAre
<1> HIDE DEF d
<1> HIDE DEF n, w
<1>6. c \in Nat /\ n = c * w /\ c # 0
  <2>1. n = (n \div w) * w /\ n \div w \in Nat
    BY <1>1
  <2>2. n \div w # 0
    BY <1>1, <2>1
  <2> QED
    BY <2>1, <2>2
<1> HIDE DEF c
<1>b. /\ \A i \in 0..(c - 1) : \A j \in 1..w : i * w + j \in 1..n
      /\ \A q \in 1..n : \E i \in 0..(c - 1) : \E j \in 1..w : q = i * w + j
      /\ \A i, m \in Nat : \A j, l \in 1..w : i * w + j = m * w + l => i = m /\ j = l
  <2>1. /\ \A i \in 0..(c - 1) : \A j \in 1..w : i * w + j \in 1..(c * w)
        /\ \A q \in 1..(c * w) : \E i \in 0..(c - 1) : \E j \in 1..w : q = i * w + j
        /\ \A i, m \in Nat : \A j, l \in 1..w : i * w + j = m * w + l => i = m /\ j = l
    <3>1. w \in Nat \ {0} /\ c \in Nat
      BY <1>1, <1>6
    <3> HIDE DEF block
    <3> QED
      BY <3>1, Blocks
  <2> QED
    BY <1>6, <2>1, Zenon
<1>7. ASSUME NEW i \in 0..(c - 1)
      PROVE  /\ Shaped(StateOf(block(i), k), k, lens, M)
             /\ Held(StateOf(block(i), k)) = {p[i * w + j] : j \in 1..w}
  <2> DEFINE q == [j \in 1..w |-> p[i * w + j]]
  <2>1. block(i) = [j \in 1..w |-> rows[i * w + j]]
    BY <1>1, <1>4, <1>6, BlockOfRows
  <2>2. [j \in 1..w |-> rows[i * w + j]] = [j \in 1..w |-> <<q[j], lens[q[j]]>>]
    BY <1>2, <1>b
  <2>3. q \in [1..w -> 1..n]
    BY <1>3, <1>b
  <2>4. \A j, l \in 1..w : q[j] = q[l] => j = l
    <3> SUFFICES ASSUME NEW j \in 1..w, NEW l \in 1..w, p[i * w + j] = p[i * w + l] PROVE j = l
      OBVIOUS
    <3>1. i * w + j \in 1..n /\ i * w + l \in 1..n
      BY <1>b
    <3>2. i * w + j = i * w + l
      BY <1>3, <3>1, Zenon
    <3>3. i \in Nat
      OBVIOUS
    <3> QED
      BY <1>b, <3>2, <3>3
  <2>5. q \in Injection(1..w, 1..Len(lens))
    <3> HIDE DEF q
    <3> QED
      BY <2>3, <2>4 DEF Injection, IsInjective, n
  <2>6. {q[j] : j \in 1..w} = {p[i * w + j] : j \in 1..w}
    OBVIOUS
  <2> HIDE DEF q, block
  <2>7. block(i) = [j \in 1..w |-> <<q[j], lens[q[j]]>>]
    BY <2>1, <2>2, Zenon
  <2>8. Shaped(StateOf(block(i), k), k, lens, M) /\ Held(StateOf(block(i), k)) = {q[j] : j \in 1..w}
    <3>1. k \in Nat /\ w \in 1..k
      BY <1>1
    <3> QED
      <4>0. \A v \in 1..k : \A f \in Injection(1..v, 1..Len(lens)) : \A b :
                b = [j \in 1..v |-> <<f[j], lens[f[j]]>>] =>
                    /\ Shaped(StateOf(b, k), k, lens, M)
                    /\ Held(StateOf(b, k)) = {f[j] : j \in 1..v}
        BY <3>1, InitialShapes
      <4> DEFINE items == block(i)
      <4>1. items = [j \in 1..w |-> <<q[j], lens[q[j]]>>]
        BY <2>7
      <4> HIDE DEF items
      <4>2. Shaped(StateOf(items, k), k, lens, M) /\ Held(StateOf(items, k)) = {q[j] : j \in 1..w}
        BY <2>5, <3>1, <4>0, <4>1, Zenon
      <4> QED
        BY <4>2 DEF items
  <2> QED
    BY <2>6, <2>8
<1> HIDE DEF block
<1>8. states # {} /\ IsFiniteSet(states)
  <2>1. IsFiniteSet(0..(c - 1)) /\ 0 \in 0..(c - 1)
    BY <1>6, FS_Interval
  <2> QED
    <3> DEFINE I == 0..(c - 1)
    <3>1. IsFiniteSet(I) /\ 0 \in I
      BY <2>1
    <3> HIDE DEF I
    <3>2. IsFiniteSet({StateOf(block(i), k) : i \in I})
      <4> DEFINE T == {StateOf(block(i), k) : i \in I}
                 f == [i \in I |-> StateOf(block(i), k)]
      <4>1. f \in Surjection(I, T)
        BY DEF Surjection
      <4> HIDE DEF f, T
      <4>2. IsFiniteSet(T)
        BY <3>1, <4>1, FS_Surjection
      <4> QED
        BY <4>2 DEF T
    <3> QED
      BY <3>1, <3>2 DEF I
<1>9. \A s \in states : Shaped(s, k, lens, M)
  BY <1>7
<1>10. ASSUME NEW s \in states, NEW t \in states, s # t PROVE Held(s) \cap Held(t) = {}
  <2>1. PICK i \in 0..(c - 1) : s = StateOf(block(i), k)
    OBVIOUS
  <2>2. PICK m \in 0..(c - 1) : t = StateOf(block(m), k)
    OBVIOUS
  <2>3. i # m /\ i \in Nat /\ m \in Nat
    BY <1>10, <2>1, <2>2
  <2>4. ASSUME NEW j \in 1..w, NEW l \in 1..w PROVE p[i * w + j] # p[m * w + l]
    <3>1. i * w + j # m * w + l
      BY <1>b, <2>3
    <3>2. i * w + j \in 1..n /\ m * w + l \in 1..n
      BY <1>b
    <3> QED
      BY <1>3, <3>1, <3>2, Zenon
  <2>5. Held(s) = {p[i * w + j] : j \in 1..w} /\ Held(t) = {p[m * w + j] : j \in 1..w}
    BY <1>7, <2>1, <2>2
  <2> QED
    BY <2>4, <2>5
<1>11. UNION {Held(s) : s \in states} = DOMAIN lens
  <2>1. ASSUME NEW s \in states, NEW z \in Held(s) PROVE z \in DOMAIN lens
    <3>1. PICK i \in 0..(c - 1) : s = StateOf(block(i), k)
      OBVIOUS
    <3>2. PICK j \in 1..w : z = p[i * w + j]
      BY <1>7, <3>1
    <3>3. i * w + j \in 1..n
      BY <1>b
    <3> QED
      BY <1>1, <1>3, <3>2, <3>3, Zenon
  <2>2. ASSUME NEW z \in DOMAIN lens PROVE \E s \in states : z \in Held(s)
    <3>1. PICK q \in 1..n : p[q] = z
      BY <1>1, <1>3
    <3>2. PICK i \in 0..(c - 1), j \in 1..w : q = i * w + j
      BY <1>b
    <3>3. z \in Held(StateOf(block(i), k))
      BY <1>7, <3>1, <3>2
    <3> QED
      BY <3>3
  <2> QED
    BY <2>1, <2>2
<1>12. Heap(states, k, lens, M)
  <2> HIDE DEF states
  <2> QED
    BY <1>8, <1>9, <1>10, <1>11 DEF Heap
<1> QED
  BY <1>5, <1>12 DEF rows, d

\* The parts of the rows: none has a row twice, no row is in two of them, every row is in
\* one, and their sums of lengths differ by M at the most.
Parts(parts, lens, k, M) ==
    /\ parts \in [1..k -> Seq(1..Len(lens))]
    /\ \A i \in 1..k : IsInjective(parts[i])
    /\ \A i, j \in 1..k : i # j => ToSet(parts[i]) \cap ToSet(parts[j]) = {}
    /\ UNION {ToSet(parts[i]) : i \in 1..k} = 1..Len(lens)
    /\ \A i, j \in 1..k : Total(lens, ToSet(parts[i])) <= Total(lens, ToSet(parts[j])) + M

NatOrder == {x \in Nat \X Nat : x[1] < x[2]}

LEMMA SeqOfSubset ==
  ASSUME NEW S, NEW T, NEW s \in Seq(S), \A j \in DOMAIN s : s[j] \in T
  PROVE  s \in Seq(T)
OBVIOUS

LEMMA NumbersSort ==
  ASSUME NEW s \in Seq(Nat), IsInjective(s)
  PROVE  /\ Sorted(s, <) \in Seq(Nat)
         /\ ToSet(Sorted(s, <)) = ToSet(s)
         /\ IsInjective(Sorted(s, <))
<1>1. Orders(NatOrder, Nat)
  <2>1. NatOrder \in SUBSET (Nat \X Nat)
    BY DEF NatOrder
  <2>2. \A x, y \in Nat : <<x, y>> \in NatOrder <=> x < y
    BY DEF NatOrder
  <2> QED
    BY <2>1, <2>2 DEF Orders
<1> DEFINE B1(j, i) == s[j] < s[i] \/ (~(s[i] < s[j]) /\ j < i)
           B2(j, i) == <<s[j], s[i]>> \in NatOrder \/ (<<s[i], s[j]>> \notin NatOrder /\ j < i)
           C1(i) == Cardinality({j \in DOMAIN s : B1(j, i)})
           C2(i) == Cardinality({j \in DOMAIN s : B2(j, i)})
           At1(place) == CHOOSE i \in DOMAIN s : C1(i) = place - 1
           At2(place) == CHOOSE i \in DOMAIN s : C2(i) = place - 1
<1>2. Sorted(s, <) = SubSeq([place \in DOMAIN s |-> s[At1(place)]], 1, Len(s))
  BY DEF Sorted
<1>3. SortedBy(s, NatOrder) = SubSeq([place \in DOMAIN s |-> s[At2(place)]], 1, Len(s))
  BY DEF SortedBy, Sorted
<1>4. \A i, j \in DOMAIN s : B1(j, i) <=> B2(j, i)
  BY DEF NatOrder
<1> HIDE DEF B1, B2
<1>5. \A i \in DOMAIN s : C1(i) = C2(i)
  <2>1. \A i \in DOMAIN s : {j \in DOMAIN s : B1(j, i)} = {j \in DOMAIN s : B2(j, i)}
    BY <1>4
  <2> QED
    BY <2>1
<1> HIDE DEF C1, C2
<1>6. \A place : At1(place) = At2(place)
  BY <1>5
<1> HIDE DEF At1, At2
<1> DEFINE t == Sorted(s, <)
           N == 1..Len(s)
<1>7. t = SortedBy(s, NatOrder)
  BY <1>2, <1>3, <1>6, Zenon
<1> HIDE DEF t
<1>8. PICK p \in Bijection(N, N) : SortedBy(s, NatOrder) = [i \in N |-> s[p[i]]]
  BY <1>1, SortedPermutes
<1>9. /\ \A i \in N : p[i] \in N
      /\ \A i, j \in N : p[i] = p[j] => i = j
      /\ \A j \in N : \E i \in N : p[i] = j
  BY <1>8 DEF Bijection, Injection, IsInjective, Surjection
<1>10. DOMAIN s = N /\ \A i \in N : s[i] \in Nat
  OBVIOUS
<1>11. t = [i \in N |-> s[p[i]]] /\ DOMAIN t = N /\ \A i \in N : t[i] = s[p[i]]
  BY <1>7, <1>8
<1>12. t \in Seq(Nat)
  <2>1. \A i \in N : s[p[i]] \in Nat
    BY <1>9, <1>10
  <2>2. [i \in N |-> s[p[i]]] \in Seq(Nat)
    BY <2>1
  <2> QED
    BY <1>11, <2>2
<1> HIDE DEF N
<1>13. ToSet(t) = ToSet(s)
  <2>1. \A z : (\E i \in N : z = t[i]) <=> (\E i \in N : z = s[i])
    BY <1>9, <1>11
  <2>2. ToSet(t) = {t[i] : i \in N} /\ ToSet(s) = {s[i] : i \in N}
    BY <1>10, <1>11 DEF ToSet
  <2> QED
    BY <2>1, <2>2
<1>14. IsInjective(t)
  <2>1. \A i, j \in N : t[i] = t[j] => i = j
    <3> SUFFICES ASSUME NEW i \in N, NEW j \in N, t[i] = t[j] PROVE i = j
      OBVIOUS
    <3>1. s[p[i]] = s[p[j]] /\ p[i] \in N /\ p[j] \in N
      BY <1>9, <1>11
    <3>2. p[i] = p[j]
      BY <1>10, <3>1 DEF IsInjective
    <3> QED
      BY <1>9, <3>2
  <2> QED
    BY <1>11, <2>1 DEF IsInjective
<1> QED
  BY <1>12, <1>13, <1>14, Zenon DEF t

\* get_seqlen_balanced_partitions divides the rows into k parts whose sums differ by the
\* longest row at the most.
THEOREM BalancedPartitionsDivide ==
  ASSUME NEW lens \in Seq(Nat), lens # <<>>, NEW M \in Nat, \A i \in DOMAIN lens : lens[i] <= M,
         NEW k \in Nat \ {0}, NEW equalSize \in BOOLEAN, equalSize => Len(lens) % k = 0
  PROVE  Parts(BalancedPartitions(lens, k, equalSize), lens, k, M)
<1> DEFINE d == [rows |-> ByLength(lens), k |-> k, equalSize |-> equalSize]
           b == [lens |-> lens, k |-> k, equalSize |-> equalSize]
           s == Differenced[InitialStates[d]]
           index(i) == [j \in DOMAIN s[i].items |-> s[i].items[j][1]]
           parts == BalancedPartitions(lens, k, equalSize)
<1>1. Heap(InitialStates[d], k, lens, M)
  BY InitialHeap
<1>2. Shaped(s, k, lens, M) /\ Held(s) = DOMAIN lens /\ s \in State
  <2> HIDE DEF d
  <2>1. k \in Nat
    OBVIOUS
  <2> QED
    BY <1>1, <2>1, DifferencedShapes
<1>3. parts = PartsOf[s]
  <2>1. b \in Division
    BY DEF Division
  <2>2. b.lens = lens /\ b.k = k /\ b.equalSize = equalSize
    OBVIOUS
  <2>3. parts = Partition[b]
    BY DEF BalancedPartitions
  <2> HIDE DEF b, parts
  <2>4. Partition[b] = PartsOf[Differenced[InitialStates[
                          [rows |-> ByLength(b.lens), k |-> b.k, equalSize |-> b.equalSize]]]]
    BY <2>1, Zenon DEF Partition
  <2> QED
    BY <2>2, <2>3, <2>4
<1> HIDE DEF s
<1>4. DOMAIN s = 1..k /\ \A i \in 1..k : Filled(s[i], lens)
  BY <1>2 DEF Shaped, Divided
<1>5. parts = [i \in 1..k |-> Sorted(index(i), <)]
  <2>1. PartsOf[s] = [i \in DOMAIN s |-> Sorted(index(i), <)]
    BY <1>2, Zenon DEF PartsOf
  <2> QED
    BY <1>3, <1>4, <2>1, Zenon
<1>6. ASSUME NEW i \in 1..k
      PROVE  /\ parts[i] \in Seq(1..Len(lens)) /\ IsInjective(parts[i])
             /\ ToSet(parts[i]) = Indices(s[i])
             /\ s[i].sum = Total(lens, Indices(s[i])) /\ s[i].sum \in Nat
  <2>1. /\ s[i] \in SetsOver(Rows(lens)) /\ s[i].sum = Total(lens, Indices(s[i])) /\ s[i].sum \in Nat
        /\ s[i].items \in Seq(Rows(lens))
    BY <1>4 DEF Filled, SetsOver
  <2>2. Indices(s[i]) \subseteq 1..Len(lens)
    BY <2>1, RowsAreKeyed
  <2>3. /\ index(i) \in Seq(Nat) /\ DOMAIN index(i) = DOMAIN s[i].items
        /\ ToSet(index(i)) = Indices(s[i])
    <3>1. \A j \in DOMAIN s[i].items : s[i].items[j][1] \in Indices(s[i])
      BY DEF Indices
    <3>2. \A j \in DOMAIN s[i].items : s[i].items[j][1] \in Nat
      BY <2>2, <3>1
    <3>3. DOMAIN s[i].items = 1..Len(s[i].items) /\ Len(s[i].items) \in Nat
      BY <2>1
    <3>4. index(i) \in Seq(Nat) /\ DOMAIN index(i) = DOMAIN s[i].items
      <4> DEFINE n == Len(s[i].items)
                 f(j) == s[i].items[j][1]
      <4>1. n \in Nat /\ \A j \in 1..n : f(j) \in Nat
        BY <3>2, <3>3
      <4>2. index(i) = [j \in 1..n |-> f(j)]
        BY <3>3
      <4> HIDE DEF n, f, index
      <4>3. [j \in 1..n |-> f(j)] \in Seq(Nat)
        BY <4>1
      <4> QED
        BY <3>3, <4>2, <4>3 DEF n
    <3>5. ToSet(index(i)) = Indices(s[i])
      <4>1. \A j \in DOMAIN s[i].items : index(i)[j] = s[i].items[j][1]
        OBVIOUS
      <4> HIDE DEF index
      <4> QED
        BY <3>4, <4>1 DEF ToSet, Indices
    <3> QED
      BY <3>4, <3>5
  <2>4. IsInjective(index(i))
    <3>1. \A j, l \in DOMAIN s[i].items : s[i].items[j][1] = s[i].items[l][1] => j = l
      BY <1>4 DEF Filled
    <3> QED
      BY <3>1 DEF IsInjective
  <2>5. parts[i] = Sorted(index(i), <)
    BY <1>5, Zenon
  <2> HIDE DEF index, parts
  <2>6. parts[i] \in Seq(Nat) /\ ToSet(parts[i]) = Indices(s[i]) /\ IsInjective(parts[i])
    BY <2>3, <2>4, <2>5, NumbersSort, Zenon
  <2>7. parts[i] \in Seq(1..Len(lens))
    <3>1. \A j \in DOMAIN parts[i] : parts[i][j] \in 1..Len(lens)
      BY <2>2, <2>6 DEF ToSet
    <3> QED
      BY <2>6, <3>1, SeqOfSubset
  <2> QED
    BY <2>1, <2>6, <2>7
<1>7. DOMAIN parts = 1..k /\ parts \in [1..k -> Seq(1..Len(lens))]
  <2>1. DOMAIN parts = 1..k /\ parts = [i \in 1..k |-> parts[i]]
    BY <1>5, Zenon
  <2> HIDE DEF parts
  <2> QED
    BY <1>6, <2>1
<1> HIDE DEF parts
<1>8. \A i, j \in 1..k : i # j => ToSet(parts[i]) \cap ToSet(parts[j]) = {}
  BY <1>2, <1>6 DEF Shaped, Divided
<1>9. UNION {ToSet(parts[i]) : i \in 1..k} = 1..Len(lens)
  <2>1. \A z : z \in DOMAIN lens <=> \E i \in 1..k : z \in Indices(s[i])
    BY <1>2, <1>4 DEF Held
  <2>2. DOMAIN lens = 1..Len(lens)
    OBVIOUS
  <2> QED
    BY <1>6, <2>1, <2>2
<1>10. \A i, j \in 1..k : Total(lens, ToSet(parts[i])) <= Total(lens, ToSet(parts[j])) + M
  <2> SUFFICES ASSUME NEW i \in 1..k, NEW j \in 1..k
               PROVE  Total(lens, ToSet(parts[i])) <= Total(lens, ToSet(parts[j])) + M
    OBVIOUS
  <2>1. s[i].sum <= s[j].sum + M
    BY <1>2 DEF Shaped, Divided
  <2>2. Total(lens, ToSet(parts[i])) = s[i].sum /\ Total(lens, ToSet(parts[j])) = s[j].sum
    BY <1>6
  <2> QED
    BY <2>1, <2>2, Zenon
<1> QED
  BY <1>6, <1>7, <1>8, <1>9, <1>10 DEF Parts, parts

-------------------------------------
(* Sequences of rows                                                        *)

\* f joins the elements of s one after another.
JoinsUp(f, s, len) == len \in Nat /\ \A i \in 1..len : f[i] = f[i - 1] \o s[i]

LEMMA Following ==
  ASSUME NEW f, NEW s, NEW len, JoinsUp(f, s, len)
  PROVE  \A n \in Nat : n + 1 \in 1..len => f[n + 1] = f[n] \o s[n + 1]
<1>0. len \in Nat /\ \A i \in 1..len : f[i] = f[i - 1] \o s[i]
  BY DEF JoinsUp
<1>1. ASSUME NEW n \in Nat, NEW i \in 1..len, i = n + 1 PROVE f[i] = f[n] \o s[i]
  <2>1. i - 1 = n
    BY <1>1
  <2>2. f[i] = f[i - 1] \o s[i]
    BY <1>0
  <2> QED
    BY <2>1, <2>2
<1> QED
  BY <1>0, <1>1

\* A sequence of sequences is flattened one after another.
LEMMA Flattens ==
  ASSUME NEW S, NEW seqs \in Seq(Seq(S))
  PROVE  \E f \in [0..Len(seqs) -> Seq(S)] :
            /\ f[0] = <<>>
            /\ \A i \in 1..Len(seqs) : f[i] = f[i - 1] \o seqs[i]
            /\ FlattenSeq(seqs) = f[Len(seqs)]
<1> DEFINE len == Len(seqs)
           Step(f, i) == IF i = 1 THEN seqs[i] ELSE f[i - 1] \o seqs[i]
           Builds(f, n) == f = [i \in 1..n |-> Step(f, i)]
           flat == CHOOSE f : Builds(f, len)
<1>1. FlattenSeq(seqs) = IF len = 0 THEN seqs ELSE flat[len]
  BY DEF FlattenSeq
<1>2. len \in Nat
  OBVIOUS
<1>s. \A i \in 1..len : seqs[i] \in Seq(S)
  OBVIOUS
<1>e. len = 0 => seqs = <<>>
  OBVIOUS
<1> HIDE DEF len
<1>3. \E f : Builds(f, len)
  <2> DEFINE T == {n \in Nat : \E f : Builds(f, n)}
  <2>1. 0 \in T
    <3>1. Builds(<<>>, 0)
      OBVIOUS
    <3> QED
      BY <3>1
  <2>2. ASSUME NEW n \in T PROVE n + 1 \in T
    <3>n. n \in Nat /\ n + 1 \in Nat
      OBVIOUS
    <3>1. PICK f : f = [i \in 1..n |-> Step(f, i)]
      OBVIOUS
    <3> DEFINE g == [i \in 1..(n + 1) |-> Step(f, i)]
    <3>2. \A i \in 1..n : g[i] = f[i]
      <4> HIDE DEF Step
      <4>1. \A i \in 1..n : f[i] = Step(f, i)
        BY <3>1
      <4> QED
        BY <3>n, <4>1
    <3>3. \A i \in 1..(n + 1) : Step(g, i) = Step(f, i)
      <4>1. ASSUME NEW i \in 1..(n + 1), i # 1 PROVE g[i - 1] = f[i - 1]
        <5>1. i - 1 \in 1..n
          BY <3>n, <4>1
        <5> HIDE DEF g
        <5> QED
          BY <3>2, <5>1
      <4> HIDE DEF g
      <4> QED
        BY <4>1
    <3>4. Builds(g, n + 1)
      BY <3>3, Zenon
    <3> HIDE DEF g, Builds
    <3> QED
      BY <3>4
  <2>3. T = Nat
    <3>1. T \in SUBSET Nat
      OBVIOUS
    <3> HIDE DEF T
    <3> QED
      BY <2>1, <2>2, <3>1, NatSetInduction
  <2> QED
    BY <2>3, <1>2, Zenon
<1>4. flat = [i \in 1..len |-> Step(flat, i)]
  <2> HIDE DEF Builds
  <2>1. Builds(flat, len)
    BY <1>3
  <2> HIDE DEF flat
  <2> QED
    BY <2>1 DEF Builds
<1> HIDE DEF flat
<1> DEFINE f == [i \in 0..len |-> IF i = 0 THEN <<>> ELSE flat[i]]
<1>5. /\ f[0] = <<>>
      /\ \A i \in 1..len : f[i] = flat[i]
      /\ DOMAIN f = 0..len
  BY <1>2
<1> HIDE DEF f
<1>6. ASSUME NEW i \in 1..len PROVE f[i] = f[i - 1] \o seqs[i]
  <2>1. f[i] = Step(flat, i)
    <3> HIDE DEF Step
    <3> QED
      BY <1>4, <1>5
  <2>2. CASE i = 1
    <3>1. f[1 - 1] = <<>> /\ f[1] = seqs[1]
      BY <1>5, <2>1, <2>2
    <3>2. \A x \in Seq(S) : <<>> \o x = x
      OBVIOUS
    <3> QED
      BY <2>2, <3>1, <3>2, <1>s
  <2>3. CASE i # 1
    <3>1. i - 1 \in 1..len
      BY <1>2, <2>3
    <3> QED
      BY <1>5, <2>1, <2>3, <3>1
  <2> QED
    BY <2>2, <2>3
<1>7. \A i \in 0..len : f[i] \in Seq(S)
  <2> DEFINE T == {n \in Nat : n \in 0..len => f[n] \in Seq(S)}
  <2>1. 0 \in T
    <3>1. <<>> \in Seq(S)
      OBVIOUS
    <3> QED
      BY <1>5, <3>1
  <2>2. ASSUME NEW n \in T PROVE n + 1 \in T
    <3> SUFFICES ASSUME n + 1 \in 0..len PROVE f[n + 1] \in Seq(S)
      OBVIOUS
    <3>0. n \in 0..len /\ n + 1 \in 1..len /\ n + 1 - 1 = n
      BY <1>2
    <3>1. f[n + 1] = f[n] \o seqs[n + 1]
      <4>1. JoinsUp(f, seqs, len)
        BY <1>2, <1>6 DEF JoinsUp
      <4> HIDE DEF f
      <4>2. \A m \in Nat : m + 1 \in 1..len => f[m + 1] = f[m] \o seqs[m + 1]
        BY <4>1, Following
      <4> QED
        BY <3>0, <4>2, Zenon
    <3>2. f[n] \in Seq(S) /\ seqs[n + 1] \in Seq(S)
      BY <3>0, <1>s
    <3> QED
      BY <3>1, <3>2
  <2>3. T = Nat
    <3>1. T \in SUBSET Nat
      OBVIOUS
    <3> HIDE DEF T
    <3> QED
      BY <2>1, <2>2, <3>1, NatSetInduction
  <2>4. \A i \in 0..len : i \in Nat
    BY <1>2
  <2> QED
    BY <2>3, <2>4, Zenon
<1>8. FlattenSeq(seqs) = f[len]
  BY <1>1, <1>2, <1>5, <1>e
<1>9. f \in [0..len -> Seq(S)]
  <2>1. f = [i \in 0..len |-> f[i]]
    BY <1>5 DEF f
  <2> QED
    BY <1>7, <2>1
<1> QED
  BY <1>5, <1>6, <1>8, <1>9 DEF len

LEMMA FlattenSeqType ==
  ASSUME NEW S, NEW seqs \in Seq(Seq(S))
  PROVE  FlattenSeq(seqs) \in Seq(S)
<1>1. PICK f \in [0..Len(seqs) -> Seq(S)] : FlattenSeq(seqs) = f[Len(seqs)]
  BY Flattens
<1>2. Len(seqs) \in 0..Len(seqs)
  OBVIOUS
<1> QED
  BY <1>1, <1>2

-------------------------------------
(* The inductive invariant                                                  *)

Syncing == {"sync", "load", "last", "barrier"}
Generating == {"gather", "generate", "post"}
Leaving == {"exit", "returned"}
Training == {"split", "forward", "returned"}

\* All ranks are in the same part of a call: barriers separate the parts.
AllIn(pcs) == \A r \in Rank : worker[r].pc \in pcs
Together ==
    \/ ~calling /\ AllIn({"idle"})
    \/ calling /\ phase \in {"log_prob", "update"} /\ AllIn(Training)
    \/ calling /\ phase \in {"generate", "validate", "failed"} /\ AllIn(Syncing)
    \/ calling /\ phase \in {"generate", "validate"} /\ (AllIn(Generating) \/ AllIn(Leaving))

\* A rank that has yet to generate holds prompts, and no rollouts.
Prompted(w) ==
    w.pc \in Syncing \cup {"gather", "generate"} =>
        w.rows \in Seq(Task) /\ w.n \in Nat /\ w.out = <<>>

\* The payload is counted while the ranks synchronize.  A rank at the barrier has
\* nothing to send, and the payload is exhausted.
Sending(w, g) ==
    /\ IF w.pc \in Syncing THEN w.chunk \in Seq(Nat) ELSE g = 0
    /\ w.pc \in {"last", "barrier"} => g = Len(TensorSize)
    /\ w.pc = "barrier" => w.chunk = <<>>

\* What waits to be divided over the replica is a sequence.
Divisible(w) == w.pc = "post" => w.out \in Seq(ToSet(w.out))

InShape(w, g) == DOMAIN w = DOMAIN Idle /\ Prompted(w) /\ Sending(w, g) /\ Divisible(w)

\* Engine e of first rank w: a tensor of the payload that it lacks is in the chunk to
\* be sent, and from the barrier to the end of the generation it lacks none.
Loading(w, e, g, v) ==
    /\ \A t \in 1..g : e[t] = v \/ t \in ToSet(w.chunk)
    /\ w.pc \in Generating => \A t \in Tensors : e[t] = v

\* What was generated is fresh, also after it was divided over the replica.
Fresh(w) == w.pc \in {"post", "exit"} => \A i \in DOMAIN w.out : w.out[i].fresh

\* An engine refused its weights, and this was not required to be an error.
Excused == refused /\ ~cfg.required

\* The sampler has its permutation of the tasks.
Sampling ==
    /\ DOMAIN sampler = DOMAIN NewSampler
    /\ sampler.order \in Seq(Task)
    /\ sampler.cursor \in Nat

FreshInv ==
    /\ cfg \in Configs /\ refused \in BOOLEAN
    /\ given \in 0..Len(TensorSize)
    /\ DOMAIN worker = Rank /\ \A r \in Rank : InShape(worker[r], given)
    /\ DOMAIN engine = Replica /\ \A d \in Replica : DOMAIN engine[d] = Tensors
    /\ Together
    /\ Excused \/ \A d \in Replica : Loading(worker[Source(d)], engine[d], given, version)
    /\ Excused \/ \A r \in Rank : Fresh(worker[r])

-------------------------------------
(* The mesh of the ranks                                                    *)

LEMMA DivFacts ==
  ASSUME NEW a \in Nat, NEW b \in Nat \ {0}
  PROVE  /\ a \div b \in Nat /\ b * (a \div b) <= a
         /\ a % b \in 0..b - 1
         /\ (a * b) \div b = a /\ (a * b) % b = 0
<1>1. a \div b \in Nat /\ b * (a \div b) <= a
  OBVIOUS
<1>2. a % b \in 0..b - 1
  OBVIOUS
<1>3. (a * b) \div b = a
  OBVIOUS
<1>4. (a * b) % b = 0
  OBVIOUS
<1> QED
  BY <1>1, <1>2, <1>3, <1>4

LEMMA DivBound == \A a, c \in Nat, b \in Nat \ {0} : a < c * b => a \div b < c
  OBVIOUS

LEMMA MulMono == \A a, b, c \in Nat : a <= b => a * c <= b * c
  OBVIOUS

LEMMA ConfigFacts ==
  ASSUME cfg \in Configs
  PROVE  /\ cfg.dp \in Nat \ {0} /\ cfg.tp \in Nat \ {0} /\ cfg.n \in Nat \ {0}
         /\ cfg.prompts \in Seq(Task) /\ cfg.validation \in Seq(Task)
         /\ cfg.stage1b \in BOOLEAN /\ cfg.required \in BOOLEAN
         /\ World \in Nat \ {0}
<1>1. cfg \in ConfigType
  BY StepAssumption
<1>2. cfg.dp \in Nat \ {0} /\ cfg.tp \in Nat \ {0} /\ cfg.n \in Nat \ {0}
  BY <1>1 DEF ConfigType
<1>3. cfg.prompts \in Seq(Task) /\ cfg.validation \in Seq(Task)
  BY <1>1 DEF ConfigType
<1>4. cfg.stage1b \in BOOLEAN /\ cfg.required \in BOOLEAN
  BY <1>1 DEF ConfigType
<1>5. \A a, b \in Nat \ {0} : a * b \in Nat \ {0}
  OBVIOUS
<1>6. World \in Nat \ {0}
  BY <1>2, <1>5, Zenon DEF World
<1> QED
  BY <1>2, <1>3, <1>4, <1>6

\* The first rank of a replica, and the replica of a rank.
LEMMA MeshFacts ==
  ASSUME cfg \in Configs
  PROVE  /\ \A d \in Replica : Source(d) \in Rank /\ ReplicaOf(Source(d)) = d /\ TpRank(Source(d)) = 0
         /\ \A r \in Rank : r \in Nat /\ ReplicaOf(r) \in Replica /\ TpRank(r) \in 0..cfg.tp - 1
<1> DEFINE dp == cfg.dp  tp == cfg.tp
<1>1. dp \in Nat \ {0} /\ tp \in Nat \ {0}
  BY ConfigFacts
<1>2. ASSUME NEW d \in Replica
      PROVE  Source(d) \in Rank /\ ReplicaOf(Source(d)) = d /\ TpRank(Source(d)) = 0
  <2>1. d \in Nat /\ d + 1 <= dp
    BY <1>1 DEF Replica
  <2>2. (d + 1) * tp <= dp * tp /\ (d + 1) * tp = d * tp + tp /\ d * tp \in Nat /\ dp * tp \in Nat
    <3>1. (d + 1) * tp <= dp * tp
      BY <1>1, <2>1, MulMono
    <3>2. (d + 1) * tp = d * tp + tp
      BY <1>1, <2>1
    <3> QED
      BY <1>1, <2>1, <3>1, <3>2
  <2>3. Source(d) \in 0..dp * tp - 1
    <3> DEFINE x == d * tp  y == dp * tp  z == (d + 1) * tp
    <3>1. x \in Nat /\ y \in Nat /\ z <= y /\ z = x + tp
      BY <2>2
    <3> HIDE DEF x, y, z
    <3>2. x \in 0..y - 1
      BY <1>1, <3>1
    <3> QED
      BY <3>2 DEF Source, x, y
  <2>4. (d * tp) \div tp = d /\ (d * tp) % tp = 0
    BY <1>1, <2>1, DivFacts
  <2> QED
    BY <2>3, <2>4 DEF Rank, World, ReplicaOf, TpRank, Source
<1>3. ASSUME NEW r \in Rank
      PROVE  r \in Nat /\ ReplicaOf(r) \in Replica /\ TpRank(r) \in 0..tp - 1
  <2>1. dp * tp \in Nat
    BY <1>1
  <2>2. r \in Nat /\ r < dp * tp
    <3>1. r \in 0..dp * tp - 1
      BY DEF Rank, World
    <3> QED
      BY <2>1, <3>1
  <2>3. r \div tp \in Nat /\ r % tp \in 0..tp - 1
    BY <1>1, <2>2, DivFacts
  <2>4. r \div tp < dp
    BY <1>1, <2>2, DivBound
  <2> QED
    BY <1>1, <2>2, <2>3, <2>4 DEF ReplicaOf, TpRank, Replica
<1> QED
  BY <1>2, <1>3

-------------------------------------
(* What the driver does with rows                                           *)

\* A chunk of rows consists of rows.
LEMMA ChunkType ==
  ASSUME NEW S, NEW rows \in Seq(S), NEW k \in Nat \ {0}, NEW i \in 1..k
  PROVE  Chunk(rows, k)[i] \in Seq(S)
<1> DEFINE size == Len(rows) \div k
           m == (i - 1) * size + 1
           n == i * size
<1>1. size \in Nat /\ k * size <= Len(rows)
  <2>1. Len(rows) \in Nat
    BY LenProperties
  <2> QED
    BY <2>1, DivFacts, Zenon
<1>2. n \in Nat /\ n <= k * size
  BY <1>1, MulMono
<1>3. m \in Nat /\ m >= 1
  <2>1. \A a, b \in Nat : a * b + 1 \in Nat /\ a * b + 1 >= 1
    OBVIOUS
  <2> QED
    BY <1>1, <2>1
<1>4. Chunk(rows, k)[i] = SubSeq(rows, m, n)
  BY DEF Chunk
<1>5. \A j \in m..n : rows[j] \in S
  <2> HIDE DEF m, n
  <2>1. \A j \in m..n : j \in 1..Len(rows)
    BY <1>1, <1>2, <1>3
  <2> QED
    BY <2>1, ElementOfSeq
<1>6. m \in Int /\ n \in Int
  BY <1>2, <1>3
<1> HIDE DEF m, n
<1>7. SubSeq(rows, m, n) \in Seq(S)
  BY <1>5, <1>6, SubSeqProperties, Zenon
<1> QED
  BY <1>4, <1>7, Zenon

LEMMA RepeatType ==
  ASSUME NEW S, NEW rows \in Seq(S), NEW k \in Nat \ {0}
  PROVE  Repeat(rows, k) \in Seq(S)
<1> DEFINE len == Len(rows) * k
<1>1. len \in Nat
  OBVIOUS
<1>2. ASSUME NEW i \in 1..len PROVE rows[((i - 1) \div k) + 1] \in S
  <2>1. i - 1 \in Nat /\ i - 1 < len
    BY <1>1
  <2>2. (i - 1) \div k \in Nat
    BY <2>1, DivFacts
  <2>3. (i - 1) \div k < Len(rows)
    BY <2>1, DivBound
  <2>4. (i - 1) \div k + 1 \in 1..Len(rows)
    BY <2>2, <2>3
  <2> QED
    BY <2>4, ElementOfSeq
<1> HIDE DEF len
<1>3. [i \in 1..len |-> rows[((i - 1) \div k) + 1]] \in Seq(S)
  BY <1>1, <1>2
<1> QED
  BY <1>3 DEF Repeat, len

LEMMA PadType ==
  ASSUME NEW S, NEW rows \in Seq(S), NEW k \in Nat \ {0}
  PROVE  /\ Pad(rows, k) \in Seq(S) /\ PadSize(rows, k) \in Nat
         /\ Len(Pad(rows, k)) = Len(rows) + PadSize(rows, k)
<1> DEFINE len == Len(rows) + PadSize(rows, k)
<1>1. PadSize(rows, k) \in Nat
  <2>1. \A a \in Int : a % k \in 0..k - 1
    OBVIOUS
  <2> QED
    BY <2>1 DEF PadSize
<1>2. len \in Nat
  BY <1>1
<1>3. ASSUME NEW i \in 1..len PROVE rows[((i - 1) % Len(rows)) + 1] \in S
  <2>1. Len(rows) # 0
    <3>1. (-0) % k = 0
      OBVIOUS
    <3> QED
      BY <3>1, <1>2 DEF PadSize
  <2>2. i - 1 \in Nat /\ Len(rows) \in Nat \ {0}
    BY <2>1, <1>2
  <2>3. (i - 1) % Len(rows) \in 0..Len(rows) - 1
    BY <2>2, DivFacts
  <2>4. ((i - 1) % Len(rows)) + 1 \in 1..Len(rows)
    BY <2>2, <2>3
  <2> QED
    BY <2>4, ElementOfSeq
<1> HIDE DEF len
<1>4. [i \in 1..len |-> rows[((i - 1) % Len(rows)) + 1]] \in Seq(S)
  BY <1>2, <1>3
<1>5. Len([i \in 1..len |-> rows[((i - 1) % Len(rows)) + 1]]) = len
  BY <1>2
<1> QED
  BY <1>1, <1>4, <1>5 DEF Pad, len

-------------------------------------
(* The sampler                                                              *)

LEMMA SamplingInit == Init => Sampling
<1> SUFFICES ASSUME Init PROVE Sampling
  OBVIOUS
<1>1. sampler = BeginUpdate(NewSampler, 1)
  BY DEF Init
<1>2. sampler.order = CandidateOrder[1]
  BY <1>1 DEF BeginUpdate, NewSampler
<1>3. sampler.cursor = 0 /\ DOMAIN sampler = DOMAIN NewSampler
  BY <1>1, Zenon DEF BeginUpdate, NewSampler
<1> QED
  BY <1>2, <1>3, StepAssumption DEF Sampling

LEMMA SamplingStep ==
  ASSUME Sampling, [Next]_vars
  PROVE  Sampling'
<1>1. CASE RequestGroup
  <2>1. sampler' = TakeCandidate(sampler)
    BY <1>1 DEF RequestGroup
  <2> QED
    BY <2>1 DEF TakeCandidate, Sampling, NewSampler
<1>2. CASE ReceiveGroup
  <2>1. PICK t, g : sampler' = RecordGroup(sampler, t, g, 1)
    BY <1>2 DEF ReceiveGroup
  <2> QED
    BY <2>1 DEF RecordGroup, Sampling, NewSampler
<1>3. CASE ~RequestGroup /\ ~ReceiveGroup
  <2>1. sampler' = sampler
    <3>1. CASE Driver
      BY <1>3, <3>1 DEF Driver, EndCollection, RequestBatch, ReceiveBatch, RequestLogProb,
          ReceiveLogProb, RequestUpdate, ReceiveUpdate, RequestValidation, ReceiveValidation
    <3>2. CASE Workers
      BY <3>2, Zenon DEF Workers, driver, Materialise, Entered, Postprocess, SplitMicroBatches, Forward,
          OptimizerStep, EndOfPayload, LoadChunk, RefuseChunk, Exit, RevertOrder, Gather, Generate
    <3>3. CASE UNCHANGED vars
      BY <3>3 DEF vars
    <3> QED
      BY <3>1, <3>2, <3>3 DEF Next
  <2> QED
    BY <2>1 DEF Sampling
<1> QED
  BY <1>1, <1>2, <1>3

\* A candidate of the sampler is a task.
LEMMA CandidateIsTask ==
  ASSUME Sampling, HasCandidate(sampler)
  PROVE  Candidate(sampler) \in Task
<1>1. sampler.cursor + 1 \in 1..Len(sampler.order)
  BY DEF Sampling, HasCandidate
<1> QED
  BY <1>1, ElementOfSeq DEF Sampling, Candidate

-------------------------------------
(* Steps                                                                    *)

\* The configuration is fixed, and the mesh with it.
LEMMA Still ==
  ASSUME cfg' = cfg
  PROVE  /\ World' = World /\ Rank' = Rank /\ Replica' = Replica
         /\ \A d \in Replica : Source(d)' = Source(d)
<1>1. World' = World
  BY DEF World
<1>2. Rank' = Rank
  BY <1>1 DEF Rank
<1>3. Replica' = Replica
  BY DEF Replica
<1>4. \A d \in Replica : Source(d)' = Source(d)
  BY DEF Source
<1> QED
  BY <1>1, <1>2, <1>3, <1>4

\* What a step has to show, in terms of the mesh before it.
LEMMA FreshStep ==
  ASSUME FreshInv, cfg' = cfg, refused' \in {refused, TRUE},
         given' \in 0..Len(TensorSize),
         DOMAIN worker' = Rank, \A r \in Rank : InShape(worker'[r], given'),
         DOMAIN engine' = Replica, \A d \in Replica : DOMAIN engine'[d] = Tensors,
         Together',
         Excused' \/ (~Excused => \A d \in Replica : Loading(worker'[Source(d)], engine'[d], given', version')),
         Excused' \/ (~Excused => \A r \in Rank : Fresh(worker'[r]))
  PROVE  FreshInv'
<1>1. Rank' = Rank /\ Replica' = Replica /\ \A d \in Replica : Source(d)' = Source(d)
  BY Still
<1>2. Excused => Excused'
  BY DEF Excused
<1>3. Excused' \/ \A d \in Replica' : Loading(worker[Source(d)], engine[d], given, version)'
  <2> SUFFICES ASSUME ~Excused', NEW d \in Replica
               PROVE  Loading(worker'[Source(d)'], engine'[d], given', version')
    BY <1>1 DEF Loading
  <2> QED
    BY <1>1, <1>2
<1>4. Excused' \/ \A r \in Rank' : Fresh(worker[r])'
  BY <1>1, <1>2 DEF Fresh
<1>5. \A r \in Rank' : InShape(worker[r], given)'
  BY <1>1 DEF InShape, Prompted, Sending, Divisible
<1>6. cfg' \in Configs /\ refused' \in BOOLEAN
  BY DEF FreshInv
<1> QED
  BY <1>1, <1>3, <1>4, <1>5, <1>6 DEF FreshInv

\* The part of a call that a rank is in tells where all are.
LEMMA WhereAll ==
  ASSUME FreshInv, NEW r \in Rank
  PROVE  /\ worker[r].pc = "idle" => ~calling /\ AllIn({"idle"})
         /\ calling /\ phase \in {"log_prob", "update"} => AllIn(Training)
         /\ worker[r].pc \in Syncing =>
                calling /\ phase \in {"generate", "validate", "failed"} /\ AllIn(Syncing)
         /\ worker[r].pc \in Generating =>
                calling /\ phase \in {"generate", "validate"} /\ AllIn(Generating)
         /\ worker[r].pc = "exit" =>
                calling /\ phase \in {"generate", "validate"} /\ AllIn(Leaving)
         /\ worker[r].pc \in {"split", "forward"} =>
                calling /\ phase \in {"log_prob", "update"} /\ AllIn(Training)
BY DEF FreshInv, Together, AllIn, Syncing, Generating, Leaving, Training

\* A step of the driver or of the training that lets the engines alone.
LEMMA QuietStep ==
  ASSUME FreshInv, cfg' = cfg, UNCHANGED <<given, engine, refused>>, given = 0,
         DOMAIN worker' = Rank, Together',
         \A r \in Rank : /\ DOMAIN worker'[r] = DOMAIN Idle
                         /\ worker'[r].pc \in {"idle", "returned"} \cup Training
  PROVE  FreshInv'
<1>1. \A r \in Rank : InShape(worker'[r], given')
  BY DEF InShape, Prompted, Sending, Divisible, Training, Syncing
<1>2. \A r \in Rank : Fresh(worker'[r])
  BY DEF Fresh, Training
<1>3. \A d \in Replica : Loading(worker'[Source(d)], engine'[d], given', version')
  <2> SUFFICES ASSUME NEW d \in Replica
               PROVE  Loading(worker'[Source(d)], engine'[d], given', version')
    OBVIOUS
  <2>1. Source(d) \in Rank
    BY MeshFacts DEF FreshInv
  <2>2. worker'[Source(d)].pc \notin Generating
    BY <2>1 DEF Generating, Training
  <2> QED
    BY <2>2 DEF Loading
<1> QED
  BY <1>1, <1>2, <1>3, FreshStep DEF FreshInv

LEMMA NotCalling ==
  ASSUME FreshInv, ~calling
  PROVE  AllIn({"idle"}) /\ given = 0
<1>1. AllIn({"idle"})
  BY DEF FreshInv, Together
<1>2. 0 \in Rank
  BY ConfigFacts DEF FreshInv, Rank
<1>3. worker[0].pc \notin Syncing /\ InShape(worker[0], given)
  BY <1>1, <1>2 DEF AllIn, Syncing, FreshInv
<1> QED
  BY <1>1, <1>3 DEF InShape, Sending

LEMMA FailStep ==
  ASSUME FreshInv, ~calling, Fails, UNCHANGED <<cfg, weights>>
  PROVE  FreshInv'
<1>1. AllIn({"idle"}) /\ given = 0
  BY NotCalling
<1>2. worker' = worker /\ calling' = calling /\ cfg' = cfg /\ UNCHANGED <<given, engine, refused>>
  BY DEF Fails, weights
<1>3. Rank' = Rank
  BY <1>2, Still
<1>4. Together'
  BY <1>1, <1>2, <1>3 DEF Together, AllIn
<1>5. \A r \in Rank : DOMAIN worker[r] = DOMAIN Idle /\ worker[r].pc = "idle"
  BY <1>1 DEF FreshInv, InShape, AllIn
<1>6. DOMAIN worker = Rank
  BY DEF FreshInv
<1> QED
  BY <1>1, <1>2, <1>4, <1>5, <1>6, QuietStep

\* The driver has sequences generated.
LEMMA StartSync ==
  ASSUME FreshInv, ~calling, phase \in {"generate", "validate"}, UNCHANGED <<cfg, weights>>,
         NEW rows \in Seq(Task), NEW n \in Nat, Dispatch("sync", rows, n)
  PROVE  FreshInv'
<1>1. AllIn({"idle"}) /\ given = 0
  BY NotCalling
<1>2. /\ calling' = TRUE /\ phase' = phase /\ cfg' = cfg /\ UNCHANGED <<given, engine, version, refused>>
      /\ worker' = [r \in Rank |-> [Idle EXCEPT !.pc = "sync", !.rows = Chunk(rows, World)[r + 1],
                                                !.n = n, !.trained = worker[r].trained]]
  BY Zenon DEF Dispatch, weights
<1>3. Rank' = Rank
  BY <1>2, Still, Zenon
<1>4. \A r \in Rank : /\ DOMAIN worker'[r] = DOMAIN Idle
                      /\ worker'[r].pc = "sync" /\ worker'[r].rows = Chunk(rows, World)[r + 1]
                      /\ worker'[r].n = n /\ worker'[r].out = <<>> /\ worker'[r].chunk = <<>>
  BY <1>2, Zenon DEF Idle
<1>5. DOMAIN worker' = Rank
  BY <1>2, Zenon
<1>6. Together'
  BY <1>2, <1>3, <1>4, Zenon DEF Together, AllIn, Syncing
<1>7. \A r \in Rank : worker'[r].rows \in Seq(Task)
  <2> SUFFICES ASSUME NEW r \in Rank PROVE Chunk(rows, World)[r + 1] \in Seq(Task)
    BY <1>4
  <2>1. World \in Nat \ {0}
    BY ConfigFacts DEF FreshInv
  <2>2. r + 1 \in 1..World
    BY <2>1 DEF Rank
  <2> QED
    BY <2>1, <2>2, ChunkType
<1>8. \A r \in Rank : InShape(worker'[r], given')
  BY <1>1, <1>2, <1>4, <1>7, EmptySeq, Zenon DEF InShape, Prompted, Sending, Divisible, Syncing
<1>9. \A r \in Rank : Fresh(worker'[r])
  BY <1>4 DEF Fresh
<1>10. \A d \in Replica : Loading(worker'[Source(d)], engine'[d], given', version')
  <2> SUFFICES ASSUME NEW d \in Replica
               PROVE  Loading(worker'[Source(d)], engine'[d], given', version')
    OBVIOUS
  <2>1. Source(d) \in Rank
    BY MeshFacts DEF FreshInv
  <2>2. worker'[Source(d)].pc \notin Generating
    BY <1>4, <2>1 DEF Generating
  <2>3. given' = 0
    BY <1>1, <1>2, Zenon
  <2> QED
    BY <2>2, <2>3 DEF Loading
<1>11. given' \in 0..Len(TensorSize) /\ refused' \in {refused, TRUE}
  BY <1>2, Zenon DEF FreshInv
<1>12. DOMAIN engine' = Replica /\ \A d \in Replica : DOMAIN engine'[d] = Tensors
  BY <1>2, Zenon DEF FreshInv
<1> QED
  BY <1>2, <1>5, <1>6, <1>8, <1>9, <1>10, <1>11, <1>12, FreshStep, Zenon

\* The driver has log probabilities computed, or the weights updated.
LEMMA StartSplit ==
  ASSUME FreshInv, ~calling, phase \in {"log_prob", "update"}, UNCHANGED <<cfg, weights>>,
         NEW rows, Dispatch("split", rows, 0)
  PROVE  FreshInv'
<1>1. given = 0
  BY NotCalling
<1>2. /\ calling' = TRUE /\ phase' = phase /\ cfg' = cfg /\ UNCHANGED <<given, engine, refused>>
      /\ worker' = [r \in Rank |-> [Idle EXCEPT !.pc = "split", !.rows = Chunk(rows, World)[r + 1],
                                                !.n = 0, !.trained = worker[r].trained]]
  BY Zenon DEF Dispatch, weights
<1>3. Rank' = Rank
  BY <1>2, Still, Zenon
<1>4. \A r \in Rank : DOMAIN worker'[r] = DOMAIN Idle /\ worker'[r].pc = "split"
  BY <1>2, Zenon DEF Idle
<1>5. DOMAIN worker' = Rank
  BY <1>2, Zenon
<1>6. Together'
  BY <1>2, <1>3, <1>4, Zenon DEF Together, AllIn, Training
<1> QED
  BY <1>1, <1>2, <1>4, <1>5, <1>6, QuietStep, Zenon DEF Training

\* The driver has all that the ranks return.
LEMMA CollectStep ==
  ASSUME FreshInv, Collect, UNCHANGED <<cfg, weights>>
  PROVE  FreshInv'
<1>1. /\ \A r \in Rank : worker[r].pc = "returned"
      /\ calling' = FALSE /\ cfg' = cfg /\ UNCHANGED <<given, engine, refused>>
      /\ worker' = [r \in Rank |-> [Idle EXCEPT !.trained = worker[r].trained]]
  BY DEF Collect, weights
<1>2. Rank' = Rank
  BY <1>1, Still
<1>3. \A r \in Rank : DOMAIN worker'[r] = DOMAIN Idle /\ worker'[r].pc = "idle"
  BY <1>1 DEF Idle
<1>4. DOMAIN worker' = Rank
  BY <1>1
<1>5. Together'
  BY <1>1, <1>2, <1>3 DEF Together, AllIn
<1>6. given = 0
  <2>1. 0 \in Rank
    BY ConfigFacts DEF FreshInv, Rank
  <2>2. worker[0].pc \notin Syncing /\ InShape(worker[0], given)
    BY <1>1, <2>1 DEF Syncing, FreshInv
  <2> QED
    BY <2>2 DEF InShape, Sending
<1> QED
  BY <1>1, <1>3, <1>4, <1>5, <1>6, QuietStep

LEMMA DriverStep ==
  ASSUME FreshInv, Sampling, Driver
  PROVE  FreshInv'
<1>0. cfg.n \in Nat \ {0} /\ World \in Nat \ {0} /\ cfg.prompts \in Seq(Task) /\ cfg.validation \in Seq(Task)
  BY ConfigFacts DEF FreshInv
<1>1. CASE RequestGroup
  <2> DEFINE prompts == Pad(<<Candidate(sampler)>>, World)
  <2>1. ~calling /\ phase = "generate" /\ HasCandidate(sampler) /\ UNCHANGED <<cfg, weights>>
    BY <1>1 DEF RequestGroup, At
  <2>2. Fails \/ Dispatch("sync", prompts, cfg.n \div Len(prompts))
    BY <1>1 DEF RequestGroup
  <2>3. <<Candidate(sampler)>> \in Seq(Task) /\ Len(<<Candidate(sampler)>>) = 1
    BY <2>1, CandidateIsTask
  <2>4. prompts \in Seq(Task) /\ PadSize(<<Candidate(sampler)>>, World) \in Nat
        /\ Len(prompts) = 1 + PadSize(<<Candidate(sampler)>>, World)
    BY <1>0, <2>3, PadType
  <2> HIDE DEF prompts
  <2>5. Len(prompts) \in Nat \ {0}
    BY <2>4
  <2>6. cfg.n \div Len(prompts) \in Nat
    BY <1>0, <2>5, DivFacts
  <2> QED
    BY <2>1, <2>2, <2>4, <2>6, FailStep, StartSync
<1>2. CASE RequestBatch
  <2>1. ~calling /\ phase = "generate" /\ UNCHANGED <<cfg, weights>>
    BY <1>2 DEF RequestBatch, At
  <2>2. Fails \/ Dispatch("sync", cfg.prompts, cfg.n)
    BY <1>2 DEF RequestBatch, DispatchOrFail
  <2> QED
    BY <1>0, <2>1, <2>2, FailStep, StartSync
<1>3. CASE RequestValidation
  <2>1. ~calling /\ phase = "validate" /\ UNCHANGED <<cfg, weights>>
    BY <1>3 DEF RequestValidation, At
  <2>2. Dispatch("sync", Pad(ValidationPrompts, World), cfg.n)
    BY <1>3 DEF RequestValidation
  <2>3. ValidationPrompts \in Seq(Task)
    BY <1>0, RepeatType DEF ValidationPrompts
  <2>4. Pad(ValidationPrompts, World) \in Seq(Task)
    BY <1>0, <2>3, PadType
  <2> QED
    BY <1>0, <2>1, <2>2, <2>4, StartSync
<1>4. CASE RequestLogProb \/ RequestUpdate
  <2>1. ~calling /\ phase \in {"log_prob", "update"} /\ UNCHANGED <<cfg, weights>>
    BY <1>4 DEF RequestLogProb, RequestUpdate, At
  <2>2. \E rows : Dispatch("split", rows, 0)
    BY <1>4 DEF RequestLogProb, RequestUpdate
  <2> QED
    BY <2>1, <2>2, StartSplit
<1>5. CASE ReceiveGroup \/ ReceiveBatch \/ ReceiveLogProb \/ ReceiveUpdate \/ ReceiveValidation
  <2>1. Collect /\ UNCHANGED <<cfg, weights>>
    BY <1>5 DEF ReceiveGroup, ReceiveBatch, ReceiveLogProb, ReceiveUpdate, ReceiveValidation
  <2> QED
    BY <2>1, CollectStep
<1>6. CASE EndCollection
  <2>1. /\ ~calling /\ UNCHANGED <<calling, worker>>
        /\ cfg' = cfg /\ UNCHANGED <<given, engine, refused>>
    BY <1>6 DEF EndCollection, At, weights
  <2>2. AllIn({"idle"}) /\ given = 0
    BY <2>1, NotCalling
  <2>3. Together'
    BY <2>1, <2>2, Still DEF Together, AllIn
  <2>4. DOMAIN worker = Rank /\ \A r \in Rank : DOMAIN worker[r] = DOMAIN Idle /\ worker[r].pc = "idle"
    BY <2>2 DEF FreshInv, InShape, AllIn
  <2> QED
    BY <2>1, <2>2, <2>3, <2>4, QuietStep
<1> QED
  BY <1>1, <1>2, <1>3, <1>4, <1>5, <1>6 DEF Driver

\* The training of a batch uses no engine.
LEMMA TrainingKeeps ==
  ASSUME FreshInv, SplitMicroBatches \/ Forward \/ OptimizerStep \/ \E r \in Rank : RevertOrder(r)
  PROVE  FreshInv'
<1>0. 0 \in Rank
  BY ConfigFacts DEF FreshInv, Rank
<1>1. /\ cfg' = cfg /\ phase' = phase /\ calling' = calling
      /\ UNCHANGED <<given, engine, refused>>
  BY Zenon DEF SplitMicroBatches, Forward, OptimizerStep, RevertOrder, driver, weights
<1>2. \E r \in Rank : worker[r].pc \in {"split", "forward"}
  BY <1>0, Zenon DEF SplitMicroBatches, Forward, OptimizerStep, RevertOrder, AllAt, PassesDone
<1>3. calling /\ phase \in {"log_prob", "update"} /\ AllIn(Training)
  BY <1>2, WhereAll
<1>4. given = 0
  <2>1. worker[0].pc \notin Syncing /\ InShape(worker[0], given)
    BY <1>0, <1>3 DEF AllIn, Training, Syncing, FreshInv
  <2> QED
    BY <2>1 DEF InShape, Sending
<1>5. DOMAIN worker = Rank /\ \A r \in Rank : DOMAIN worker[r] = DOMAIN Idle
  BY DEF FreshInv, InShape
<1>6. /\ DOMAIN worker' = Rank
      /\ \A r \in Rank : DOMAIN worker'[r] = DOMAIN Idle /\ worker'[r].pc \in Training
  <2>1. CASE SplitMicroBatches
    BY <1>5, <2>1, Zenon DEF SplitMicroBatches, Training, Idle
  <2>2. CASE Forward
    BY <1>5, <2>2, Zenon DEF Forward, Training, Idle, AllAt
  <2>3. CASE OptimizerStep
    BY <1>5, <2>3, Zenon DEF OptimizerStep, Training, Idle
  <2>4. ASSUME NEW r \in Rank, RevertOrder(r)
        PROVE  /\ DOMAIN worker' = Rank
               /\ \A q \in Rank : DOMAIN worker'[q] = DOMAIN Idle /\ worker'[q].pc \in Training
    BY <1>3, <1>5, <2>4 DEF RevertOrder, Training, Idle, AllIn
  <2> QED
    BY <2>1, <2>2, <2>3, <2>4
<1>7. Together'
  BY <1>1, <1>3, <1>6, Still DEF Together, AllIn
<1> QED
  BY <1>1, <1>4, <1>6, <1>7, QuietStep DEF Training

-------------------------------------
(* Steps of the ranks that generate                                         *)

LEMMA AppendSet ==
  ASSUME NEW S, NEW s \in Seq(S), NEW x \in S
  PROVE  ToSet(s) \subseteq ToSet(Append(s, x)) /\ x \in ToSet(Append(s, x))
<1>1. /\ Append(s, x) \in Seq(S) /\ Len(Append(s, x)) = Len(s) + 1
      /\ \A i \in 1..Len(s) : Append(s, x)[i] = s[i]
      /\ Append(s, x)[Len(s) + 1] = x
  BY AppendProperties
<1>2. Len(s) \in Nat /\ DOMAIN s = 1..Len(s) /\ DOMAIN Append(s, x) = 1..(Len(s) + 1)
  BY <1>1, LenProperties
<1> QED
  BY <1>1, <1>2 DEF ToSet

\* What holds before a step of a rank, by name.
LEMMA Before ==
  ASSUME FreshInv
  PROVE  /\ DOMAIN worker = Rank /\ DOMAIN engine = Replica
         /\ \A d \in Replica : DOMAIN engine[d] = Tensors
         /\ \A r \in Rank : /\ DOMAIN worker[r] = DOMAIN Idle /\ Prompted(worker[r])
                            /\ Sending(worker[r], given) /\ Divisible(worker[r])
         /\ \A d \in Replica : Source(d) \in Rank /\ ReplicaOf(Source(d)) = d /\ TpRank(Source(d)) = 0
         /\ given \in Nat /\ given <= Len(TensorSize) /\ Tensors = 1..Len(TensorSize)
         /\ refused \in BOOLEAN
<1>1. TensorSize \in Seq(Nat)
  BY StepAssumption
<1>2. Len(TensorSize) \in Nat /\ Tensors = 1..Len(TensorSize)
  BY <1>1, LenProperties DEF Tensors
<1>3. \A d \in Replica : Source(d) \in Rank /\ ReplicaOf(Source(d)) = d /\ TpRank(Source(d)) = 0
  BY MeshFacts DEF FreshInv
<1> QED
  BY <1>2, <1>3 DEF FreshInv, InShape

LEMMA MaterialiseStep ==
  ASSUME FreshInv, Materialise
  PROVE  FreshInv'
<1> USE Before
<1>0. 0 \in Rank
  BY ConfigFacts DEF FreshInv, Rank
<1>1. /\ \A r \in Rank : worker[r].pc = "sync"
      /\ given < Len(TensorSize) /\ given' = given + 1
      /\ cfg' = cfg /\ phase' = phase /\ calling' = calling /\ UNCHANGED <<engine, version, refused>>
  BY Zenon DEF Materialise, AllAt, driver
<1>2. \A r \in Rank :
          /\ DOMAIN worker'[r] = DOMAIN Idle /\ worker'[r].pc \in {"sync", "load"}
          /\ worker'[r].rows = worker[r].rows /\ worker'[r].n = worker[r].n
          /\ worker'[r].out = worker[r].out
          /\ worker'[r].chunk = IF TpRank(r) = 0 THEN Append(worker[r].chunk, given + 1)
                                ELSE worker[r].chunk
  BY <1>1, Zenon DEF Materialise, Idle
<1>3. DOMAIN worker' = Rank
  BY Zenon DEF Materialise
<1>4. \A r \in Rank : worker[r].chunk \in Seq(Nat)
  BY <1>1 DEF Sending, Syncing
<1>5. \A r \in Rank : InShape(worker'[r], given')
  <2>1. \A r \in Rank : worker'[r].chunk \in Seq(Nat)
    <3>1. given + 1 \in Nat
      OBVIOUS
    <3>2. \A s \in Seq(Nat) : Append(s, given + 1) \in Seq(Nat)
      BY <3>1, AppendProperties
    <3> QED
      BY <1>2, <1>4, <3>2
  <2>2. \A r \in Rank : worker[r].rows \in Seq(Task) /\ worker[r].n \in Nat /\ worker[r].out = <<>>
    BY <1>1 DEF Prompted, Syncing
  <2> QED
    BY <1>2, <2>1, <2>2 DEF InShape, Prompted, Sending, Divisible, Syncing
<1>6. Together'
  <2>1. calling /\ phase \in {"generate", "validate", "failed"}
    BY <1>0, <1>1, WhereAll DEF Syncing
  <2> QED
    BY <1>1, <1>2, <2>1, Still DEF Together, AllIn, Syncing
<1>7. \A r \in Rank : Fresh(worker'[r])
  BY <1>2 DEF Fresh
<1>8. ASSUME NEW d \in Replica, Loading(worker[Source(d)], engine[d], given, version)
      PROVE  Loading(worker'[Source(d)], engine'[d], given', version')
  <2> DEFINE chunk == worker[Source(d)].chunk
  <2>1. worker'[Source(d)].chunk = Append(chunk, given + 1) /\ worker'[Source(d)].pc \notin Generating
    BY <1>2 DEF Generating
  <2>2. ToSet(chunk) \subseteq ToSet(Append(chunk, given + 1)) /\ given + 1 \in ToSet(Append(chunk, given + 1))
    BY <1>4, AppendSet
  <2>3. \A t \in 1..given : engine[d][t] = version \/ t \in ToSet(chunk)
    BY <1>8 DEF Loading
  <2>4. \A t \in 1..(given + 1) : t \in 1..given \/ t = given + 1
    OBVIOUS
  <2> HIDE DEF chunk
  <2>5. \A t \in 1..(given + 1) : engine[d][t] = version \/ t \in ToSet(Append(chunk, given + 1))
    BY <2>2, <2>3, <2>4
  <2> QED
    BY <1>1, <2>1, <2>5 DEF Loading
<1>9. given' \in 0..Len(TensorSize)
  BY <1>1
<1>10. Excused \/ \A d \in Replica : Loading(worker[Source(d)], engine[d], given, version)
  BY DEF FreshInv
<1> QED
  BY <1>1, <1>3, <1>5, <1>6, <1>7, <1>8, <1>9, <1>10, FreshStep

\* A step of one rank r that stays among those that synchronize.
LEMMA SyncStep ==
  ASSUME FreshInv, NEW r \in Rank, worker[r].pc \in Syncing, NEW pc \in Syncing,
         cfg' = cfg, calling' = calling, phase' \in {phase, "failed"}, refused' \in {refused, TRUE},
         given' = given, pc \in {"last", "barrier"} => given = Len(TensorSize),
         DOMAIN engine' = Replica, \A d \in Replica : DOMAIN engine'[d] = Tensors,
         DOMAIN worker' = Rank, \A q \in Rank \ {r} : worker'[q] = worker[q],
         DOMAIN worker'[r] = DOMAIN Idle, worker'[r].pc = pc, worker'[r].rows = worker[r].rows,
         worker'[r].n = worker[r].n, worker'[r].out = worker[r].out,
         worker'[r].chunk \in Seq(Nat), pc = "barrier" => worker'[r].chunk = <<>>,
         Excused' \/ (~Excused => \A d \in Replica : Loading(worker'[Source(d)], engine'[d], given', version'))
  PROVE  FreshInv'
<1> USE Before
<1>1. calling /\ phase \in {"generate", "validate", "failed"} /\ AllIn(Syncing)
  BY WhereAll
<1>2. Together'
  BY <1>1, Still DEF Together, AllIn
<1>3. \A q \in Rank : InShape(worker'[q], given')
  <2>1. InShape(worker'[r], given')
    BY DEF InShape, Prompted, Sending, Divisible, Syncing
  <2>2. \A q \in Rank \ {r} : InShape(worker'[q], given')
    BY DEF InShape
  <2> QED
    BY <2>1, <2>2
<1>4. \A q \in Rank : Fresh(worker'[q])
  <2>1. \A q \in Rank : worker'[q].pc \in Syncing
    BY <1>1 DEF AllIn
  <2> QED
    BY <2>1 DEF Fresh, Syncing
<1>5. given' \in 0..Len(TensorSize)
  OBVIOUS
<1>6. FreshInv
  OBVIOUS
<1> QED
  BY <1>2, <1>3, <1>4, <1>5, <1>6, FreshStep, Zenon

LEMMA EndOfPayloadStep ==
  ASSUME FreshInv, NEW r \in Rank, EndOfPayload(r)
  PROVE  FreshInv'
<1> USE Before
<1> DEFINE pc == IF worker[r].chunk = <<>> THEN "barrier" ELSE "last"
<1>1. /\ worker[r].pc = "sync" /\ given = Len(TensorSize)
      /\ cfg' = cfg /\ phase' = phase /\ calling' = calling
      /\ UNCHANGED <<given, engine, version, refused>>
  BY DEF EndOfPayload, driver, weights
<1>2. /\ DOMAIN worker' = Rank /\ \A q \in Rank \ {r} : worker'[q] = worker[q]
      /\ worker'[r] = [worker[r] EXCEPT !.pc = pc]
  BY DEF EndOfPayload, Moved
<1>3. /\ DOMAIN worker'[r] = DOMAIN Idle /\ worker'[r].pc = pc /\ worker'[r].rows = worker[r].rows
      /\ worker'[r].n = worker[r].n /\ worker'[r].out = worker[r].out
      /\ worker'[r].chunk = worker[r].chunk
  BY <1>2 DEF Idle
<1>4. worker[r].chunk \in Seq(Nat)
  BY <1>1 DEF Sending, Syncing
<1>5. pc \in Syncing /\ (pc = "barrier" => worker[r].chunk = <<>>)
  BY DEF Syncing
<1> HIDE DEF pc
<1>6. ASSUME NEW d \in Replica, Loading(worker[Source(d)], engine[d], given, version)
      PROVE  Loading(worker'[Source(d)], engine'[d], given', version')
  <2>1. worker'[Source(d)].chunk = worker[Source(d)].chunk
    BY <1>2, <1>3
  <2>2. worker'[Source(d)].pc \in Generating => worker[Source(d)].pc \in Generating
    BY <1>2, <1>3, <1>5 DEF Generating, Syncing
  <2> QED
    BY <1>1, <1>6, <2>1, <2>2 DEF Loading
<1>7. Excused \/ \A d \in Replica : Loading(worker[Source(d)], engine[d], given, version)
  BY DEF FreshInv
<1> QED
  BY <1>1, <1>2, <1>3, <1>4, <1>5, <1>6, <1>7, SyncStep DEF Syncing

\* A rank has loaded its chunk, or was refused it.
LEMMA LoadedFacts ==
  ASSUME FreshInv, NEW r \in Rank, worker[r].pc \in {"load", "last"}, Loaded(r)
  PROVE  /\ DOMAIN worker' = Rank /\ \A q \in Rank \ {r} : worker'[q] = worker[q]
         /\ DOMAIN worker'[r] = DOMAIN Idle /\ worker'[r].rows = worker[r].rows
         /\ worker'[r].n = worker[r].n /\ worker'[r].out = worker[r].out
         /\ worker'[r].chunk = <<>>
         /\ worker'[r].pc = IF worker[r].pc = "last" THEN "barrier" ELSE "sync"
         /\ worker[r].pc = "last" => given = Len(TensorSize)
<1> USE Before
<1>1. worker[r].pc = "last" => given = Len(TensorSize)
  BY DEF Sending
<1>2. /\ DOMAIN worker' = Rank /\ \A q \in Rank \ {r} : worker'[q] = worker[q]
  BY DEF Loaded
<1>3. /\ DOMAIN worker'[r] = DOMAIN Idle /\ worker'[r].rows = worker[r].rows
      /\ worker'[r].n = worker[r].n /\ worker'[r].out = worker[r].out
      /\ worker'[r].chunk = <<>>
      /\ worker'[r].pc = IF worker[r].pc = "last" THEN "barrier" ELSE "sync"
  BY DEF Loaded, Idle
<1> QED
  BY <1>1, <1>2, <1>3

LEMMA LoadChunkStep ==
  ASSUME FreshInv, NEW r \in Rank, LoadChunk(r)
  PROVE  FreshInv'
<1> USE Before
<1> DEFINE pc == IF worker[r].pc = "last" THEN "barrier" ELSE "sync"
           sent == ToSet(worker[r].chunk)
           home == ReplicaOf(r)
<1>1. /\ worker[r].pc \in {"load", "last"} /\ Loaded(r)
      /\ engine' = [engine EXCEPT ![home] = [t \in Tensors |-> IF t \in sent THEN version ELSE @[t]]]
      /\ cfg' = cfg /\ phase' = phase /\ calling' = calling
      /\ UNCHANGED <<given, version, refused>>
  BY DEF LoadChunk, driver
<1>2. /\ DOMAIN worker' = Rank /\ \A q \in Rank \ {r} : worker'[q] = worker[q]
      /\ DOMAIN worker'[r] = DOMAIN Idle /\ worker'[r].rows = worker[r].rows
      /\ worker'[r].n = worker[r].n /\ worker'[r].out = worker[r].out
      /\ worker'[r].chunk = <<>> /\ worker'[r].pc = pc
      /\ worker[r].pc = "last" => given = Len(TensorSize)
  BY <1>1, LoadedFacts
<1>3. pc \in Syncing /\ (pc \in {"last", "barrier"} => given = Len(TensorSize)) /\ worker[r].pc \in Syncing
  BY <1>1, <1>2 DEF Syncing
<1>4. worker'[r].chunk \in Seq(Nat)
  BY <1>2, EmptySeq
<1>5. home \in Replica
  BY MeshFacts DEF FreshInv
<1> HIDE DEF pc, sent, home
<1>6. /\ DOMAIN engine' = Replica /\ \A d \in Replica : DOMAIN engine'[d] = Tensors
      /\ \A t \in Tensors : engine'[home][t] = IF t \in sent THEN version ELSE engine[home][t]
      /\ \A d \in Replica : d # home => engine'[d] = engine[d]
  BY <1>1, <1>5
<1>7. ASSUME NEW d \in Replica, Loading(worker[Source(d)], engine[d], given, version)
      PROVE  Loading(worker'[Source(d)], engine'[d], given', version')
  <2>1. \A t \in 1..given : t \in Tensors
    OBVIOUS
  <2>2. \A t \in 1..given : engine[d][t] = version \/ t \in ToSet(worker[Source(d)].chunk)
    BY <1>7 DEF Loading
  <2>3. \A t \in 1..given : engine'[d][t] = version \/ t \in ToSet(worker'[Source(d)].chunk)
    <3>1. CASE Source(d) = r
      <4>1. d = home
        BY <3>1 DEF home
      <4> QED
        BY <1>6, <2>1, <2>2, <3>1, <4>1 DEF sent
    <3>2. CASE Source(d) # r
      <4>1. worker'[Source(d)] = worker[Source(d)]
        BY <1>2, <3>2
      <4>2. \A t \in 1..given : engine[d][t] = version => engine'[d][t] = version
        BY <1>6, <2>1
      <4> QED
        BY <2>2, <4>1, <4>2
    <3> QED
      BY <3>1, <3>2
  <2>4. worker'[Source(d)].pc \notin Generating
    <3>1. AllIn(Syncing)
      BY <1>3, WhereAll
    <3>2. worker'[Source(d)].pc \in Syncing
      BY <1>2, <1>3, <3>1 DEF AllIn
    <3> QED
      BY <3>2 DEF Syncing, Generating
  <2> QED
    BY <1>1, <2>3, <2>4 DEF Loading
<1>8. Excused \/ \A d \in Replica : Loading(worker[Source(d)], engine[d], given, version)
  BY DEF FreshInv
<1>9. Excused' \/ (~Excused => \A d \in Replica : Loading(worker'[Source(d)], engine'[d], given', version'))
  BY <1>7, <1>8
<1>10. pc = "barrier" => worker'[r].chunk = <<>>
  BY <1>2
<1>11. given' = given /\ phase' \in {phase, "failed"} /\ refused' \in {refused, TRUE}
       /\ cfg' = cfg /\ calling' = calling
  BY <1>1
<1>12. FreshInv
  OBVIOUS
<1> QED
  BY <1>2, <1>3, <1>4, <1>6, <1>9, <1>10, <1>11, <1>12, SyncStep, Zenon

LEMMA RefuseChunkStep ==
  ASSUME FreshInv, NEW r \in Rank, RefuseChunk(r)
  PROVE  FreshInv'
<1> USE Before
<1>1. /\ worker[r].pc \in {"load", "last"} /\ ~refused /\ refused' = TRUE
      /\ cfg' = cfg /\ UNCHANGED <<given, engine, version>>
  BY DEF RefuseChunk
<1>2. worker[r].pc \in Syncing
  BY <1>1 DEF Syncing
<1>3. DOMAIN engine' = Replica /\ \A d \in Replica : DOMAIN engine'[d] = Tensors
  BY <1>1
<1>4. CASE cfg.required /\ Fails
  <2>1. phase' = "failed" /\ calling' = calling /\ worker' = worker
    BY <1>4 DEF Fails
  <2>2. \A d \in Replica : Loading(worker[Source(d)], engine[d], given, version)
    BY <1>1 DEF FreshInv, Excused
  <2>3. worker[r].chunk \in Seq(Nat) /\ (worker[r].pc \in {"last", "barrier"} => given = Len(TensorSize))
        /\ (worker[r].pc = "barrier" => worker[r].chunk = <<>>)
    BY <1>2 DEF Sending
  <2> QED
    BY <1>1, <1>2, <1>3, <2>1, <2>2, <2>3, SyncStep
<1>5. CASE ~cfg.required /\ Loaded(r) /\ UNCHANGED <<phase, calling>>
  <2> DEFINE pc == IF worker[r].pc = "last" THEN "barrier" ELSE "sync"
  <2>1. /\ DOMAIN worker' = Rank /\ \A q \in Rank \ {r} : worker'[q] = worker[q]
        /\ DOMAIN worker'[r] = DOMAIN Idle /\ worker'[r].rows = worker[r].rows
        /\ worker'[r].n = worker[r].n /\ worker'[r].out = worker[r].out
        /\ worker'[r].chunk = <<>> /\ worker'[r].pc = pc
        /\ worker[r].pc = "last" => given = Len(TensorSize)
    BY <1>1, <1>5, LoadedFacts
  <2>2. pc \in Syncing /\ (pc \in {"last", "barrier"} => given = Len(TensorSize))
    BY <2>1 DEF Syncing
  <2>3. worker'[r].chunk \in Seq(Nat)
    BY <2>1, EmptySeq
  <2>4. Excused'
    BY <1>1, <1>5 DEF Excused
  <2> HIDE DEF pc
  <2>5. given' = given /\ phase' \in {phase, "failed"} /\ refused' \in {refused, TRUE}
        /\ cfg' = cfg /\ calling' = calling
    BY <1>1, <1>5
  <2>6. pc = "barrier" => worker'[r].chunk = <<>>
    BY <2>1
  <2>7. FreshInv
    OBVIOUS
  <2> QED
    BY <1>2, <1>3, <2>1, <2>2, <2>3, <2>4, <2>5, <2>6, <2>7, SyncStep, Zenon
<1> QED
  BY <1>4, <1>5 DEF RefuseChunk

\* Behind the barrier no tensor is outstanding: all engines have the current weights.
LEMMA EnteredStep ==
  ASSUME FreshInv, Entered
  PROVE  FreshInv'
<1> USE Before
<1>0. 0 \in Rank
  BY ConfigFacts DEF FreshInv, Rank
<1>1. /\ \A r \in Rank : worker[r].pc = "barrier"
      /\ given' = 0 /\ cfg' = cfg /\ phase' = phase /\ calling' = calling /\ calling
      /\ phase # "failed" /\ UNCHANGED <<engine, version, refused>>
  BY DEF Entered, AllAt, Running, driver
<1>2. /\ DOMAIN worker' = Rank
      /\ \A r \in Rank : /\ DOMAIN worker'[r] = DOMAIN Idle /\ worker'[r].pc = "gather"
                         /\ worker'[r].rows = worker[r].rows /\ worker'[r].n = worker[r].n
                         /\ worker'[r].out = worker[r].out
  BY DEF Entered, Moved, Idle
<1>3. Together'
  <2>1. phase \in {"generate", "validate", "failed"}
    BY <1>0, <1>1, WhereAll DEF Syncing
  <2> QED
    BY <1>1, <1>2, <2>1, Still DEF Together, AllIn, Generating
<1>4. \A r \in Rank : InShape(worker'[r], given')
  <2>1. \A r \in Rank : worker[r].rows \in Seq(Task) /\ worker[r].n \in Nat /\ worker[r].out = <<>>
    BY <1>1 DEF Prompted, Syncing
  <2> QED
    BY <1>1, <1>2, <2>1 DEF InShape, Prompted, Sending, Divisible, Syncing
<1>5. \A r \in Rank : Fresh(worker'[r])
  BY <1>2 DEF Fresh
<1>6. ASSUME NEW d \in Replica, Loading(worker[Source(d)], engine[d], given, version)
      PROVE  Loading(worker'[Source(d)], engine'[d], given', version')
  <2>1. worker[Source(d)].chunk = <<>> /\ given = Len(TensorSize)
    BY <1>1 DEF Sending
  <2>2. ToSet(<<>>) = {}
    BY DEF ToSet
  <2>3. \A t \in Tensors : engine[d][t] = version
    BY <1>6, <2>1, <2>2 DEF Loading
  <2> QED
    BY <1>1, <2>3 DEF Loading
<1>7. Excused \/ \A d \in Replica : Loading(worker[Source(d)], engine[d], given, version)
  BY DEF FreshInv
<1>8. given' \in 0..Len(TensorSize)
  BY <1>1
<1> QED
  BY <1>1, <1>2, <1>3, <1>4, <1>5, <1>6, <1>7, <1>8, FreshStep

\* The ranks of a replica, counted from its first.
LEMMA RanksOf ==
  ASSUME cfg \in Configs, NEW d \in Replica, NEW i \in 1..cfg.tp
  PROVE  Source(d) + i - 1 \in Ranks(d)
<1> DEFINE dp == cfg.dp  tp == cfg.tp  r == Source(d) + i - 1
<1>1. dp \in Nat \ {0} /\ tp \in Nat \ {0}
  BY ConfigFacts
<1>2. d \in Nat /\ d + 1 <= dp /\ i - 1 \in 0..tp - 1
  BY <1>1 DEF Replica
<1>3. (d + 1) * tp <= dp * tp /\ (d + 1) * tp = d * tp + tp /\ d * tp \in Nat /\ dp * tp \in Nat
  <2>1. (d + 1) * tp <= dp * tp
    BY <1>1, <1>2, MulMono
  <2>2. (d + 1) * tp = d * tp + tp
    BY <1>1, <1>2
  <2> QED
    BY <1>1, <1>2, <2>1, <2>2
<1>4. r \in 0..dp * tp - 1
  <2> DEFINE x == d * tp  y == dp * tp  z == (d + 1) * tp
  <2>1. x \in Nat /\ y \in Nat /\ z <= y /\ z = x + tp
    BY <1>3
  <2> HIDE DEF x, y, z
  <2>2. x + i - 1 \in 0..y - 1
    BY <1>1, <1>2, <2>1
  <2> QED
    BY <2>2 DEF Source, x, y
<1>5. \A a \in Nat, b \in Nat \ {0} : \A c \in 0..b - 1 : (a * b + c) \div b = a
  OBVIOUS
<1>6. (d * tp + (i - 1)) \div tp = d
  <2> HIDE DEF tp
  <2> QED
    BY <1>1, <1>2, <1>5
<1>7. r = d * tp + (i - 1)
  BY <1>1, <1>2, <1>3 DEF Source
<1> QED
  BY <1>4, <1>6, <1>7 DEF Ranks, Rank, World, ReplicaOf

\* A step of ranks that generate, from one place of the generation to the next.
LEMMA GenerateSteps ==
  ASSUME FreshInv, NEW r \in Rank, worker[r].pc \in Generating,
         cfg' = cfg, calling' = calling, phase' = phase, UNCHANGED <<given, engine, version, refused>>,
         DOMAIN worker' = Rank,
         \A q \in Rank : /\ DOMAIN worker'[q] = DOMAIN Idle /\ worker'[q].pc \in Generating
                         /\ Prompted(worker'[q]) /\ Divisible(worker'[q])
                         /\ Excused \/ Fresh(worker'[q])
  PROVE  FreshInv'
<1> USE Before
<1>1. calling /\ phase \in {"generate", "validate"} /\ AllIn(Generating)
  BY WhereAll
<1>2. Together'
  BY <1>1, Still DEF Together, AllIn
<1>3. given = 0
  BY DEF Sending, Generating, Syncing
<1>4. \A q \in Rank : InShape(worker'[q], given')
  BY <1>3 DEF InShape, Sending, Generating, Syncing
<1>5. ASSUME NEW d \in Replica, Loading(worker[Source(d)], engine[d], given, version)
      PROVE  Loading(worker'[Source(d)], engine'[d], given', version')
  <2>1. \A t \in Tensors : engine[d][t] = version
    BY <1>1, <1>5 DEF Loading, AllIn
  <2> QED
    BY <1>3, <2>1 DEF Loading
<1>6. Excused \/ \A d \in Replica : Loading(worker[Source(d)], engine[d], given, version)
  BY DEF FreshInv
<1>7. given' \in 0..Len(TensorSize)
  BY <1>3
<1>8. Excused' = Excused
  BY DEF Excused
<1> QED
  BY <1>2, <1>4, <1>5, <1>6, <1>7, <1>8, FreshStep

LEMMA GatherStep ==
  ASSUME FreshInv, NEW d \in Replica, Gather(d)
  PROVE  FreshInv'
<1> USE Before
<1> DEFINE seqs == [i \in 1..cfg.tp |-> worker[Source(d) + i - 1].rows]
           prompts == FlattenSeq(seqs)
<1>1. /\ \A r \in Ranks(d) : worker[r].pc = "gather"
      /\ cfg' = cfg /\ phase' = phase /\ calling' = calling
      /\ UNCHANGED <<given, engine, version, refused>>
  BY Zenon DEF Gather, AllAt, driver, weights
<1>2. worker' = [r \in Rank |->
           IF r \notin Ranks(d) THEN worker[r]
           ELSE [worker[r] EXCEPT !.rows = prompts,
                                  !.pc = IF TpRank(r) = 0 THEN "generate" ELSE "post"]]
  BY Zenon DEF Gather
<1>3. Ranks(d) \subseteq Rank /\ Source(d) \in Ranks(d)
  BY DEF Ranks
<1>4. prompts \in Seq(Task)
  <2>1. ASSUME NEW i \in 1..cfg.tp PROVE worker[Source(d) + i - 1].rows \in Seq(Task)
    <3>1. Source(d) + i - 1 \in Ranks(d)
      BY RanksOf DEF FreshInv
    <3> QED
      BY <1>1, <1>3, <3>1 DEF Prompted
  <2>2. cfg.tp \in Nat
    BY ConfigFacts DEF FreshInv
  <2>3. seqs \in Seq(Seq(Task))
    BY <2>1, <2>2
  <2> HIDE DEF seqs
  <2> QED
    BY <2>3, FlattenSeqType
<1> HIDE DEF prompts
<1>5. AllIn(Generating)
  BY <1>1, <1>3, WhereAll DEF Generating
<1>6. ASSUME NEW q \in Rank
      PROVE  /\ DOMAIN worker'[q] = DOMAIN Idle /\ worker'[q].pc \in Generating
             /\ Prompted(worker'[q]) /\ Divisible(worker'[q])
             /\ Excused \/ Fresh(worker'[q])
  <2>1. CASE q \in Ranks(d)
    <3>1. /\ DOMAIN worker'[q] = DOMAIN Idle /\ worker'[q].pc \in {"generate", "post"}
          /\ worker'[q].rows = prompts /\ worker'[q].n = worker[q].n /\ worker'[q].out = worker[q].out
      BY <1>2, <2>1, Zenon DEF Idle
    <3>2. worker[q].n \in Nat /\ worker[q].out = <<>>
      BY <1>1, <2>1 DEF Prompted
    <3>3. <<>> \in Seq(ToSet(<<>>)) /\ DOMAIN <<>> = {}
      BY EmptySeq
    <3> QED
      BY <1>4, <3>1, <3>2, <3>3 DEF Prompted, Divisible, Fresh, Generating
  <2>2. CASE q \notin Ranks(d)
    <3>1. worker'[q] = worker[q]
      BY <1>2, <2>2, Zenon
    <3>2. Excused \/ Fresh(worker[q])
      BY DEF FreshInv
    <3> QED
      BY <1>5, <3>1, <3>2 DEF AllIn
  <2> QED
    BY <2>1, <2>2
<1>7. DOMAIN worker' = Rank
  BY <1>2, Zenon
<1>8. worker[Source(d)].pc \in Generating
  BY <1>5 DEF AllIn
<1> QED
  BY <1>1, <1>6, <1>7, <1>8, GenerateSteps

LEMMA GenerateStep ==
  ASSUME FreshInv, NEW d \in Replica, Generate(d)
  PROVE  FreshInv'
<1> USE Before
<1> DEFINE s == Source(d)
           prompts == worker[s].rows
           n == worker[s].n
           fresh == \A t \in Tensors : engine[d][t] = version
           Out(o) == [i \in 1..Len(prompts) * n |->
                   LET p == ((i - 1) \div n) + 1
                       x == o[((i - 1) % Len(o)) + 1] IN
                   [id |-> <<prompts[p], d, p, i>>, len |-> x.len, reward |-> x.reward,
                    valid |-> x.valid, fresh |-> fresh, uid |-> None, logp |-> None,
                    adv |-> 0, mask |-> TRUE]]
<1>1. /\ worker[s].pc = "generate"
      /\ cfg' = cfg /\ phase' = phase /\ calling' = calling
      /\ UNCHANGED <<given, engine, version, refused>>
  BY DEF Generate, driver, weights
<1>2. PICK o \in Outcomes : worker' = [worker EXCEPT ![s].pc = "post", ![s].out = Out(o)]
  BY DEF Generate
<1>3. Len(prompts) * n \in Nat
  <2>1. prompts \in Seq(Task) /\ n \in Nat
    BY <1>1 DEF Prompted
  <2>2. Len(prompts) \in Nat
    BY <2>1, LenProperties
  <2> HIDE DEF prompts, n
  <2> QED
    BY <2>1, <2>2
<1>4. Excused \/ fresh
  BY <1>1 DEF FreshInv, Loading, Generating
<1>5. /\ DOMAIN Out(o) = 1..Len(prompts) * n
      /\ \A i \in DOMAIN Out(o) : Out(o)[i].fresh = fresh
  BY Zenon
<1>6. Out(o) \in Seq(ToSet(Out(o)))
  <2>1. Out(o) = [i \in 1..Len(prompts) * n |-> Out(o)[i]]
    BY Zenon
  <2> HIDE DEF Out
  <2>2. \A i \in 1..Len(prompts) * n : Out(o)[i] \in ToSet(Out(o))
    BY <1>5 DEF ToSet
  <2> HIDE DEF prompts, n
  <2> QED
    BY <1>3, <2>1, <2>2
<1> HIDE DEF Out, fresh
<1>7. /\ DOMAIN worker' = Rank /\ \A q \in Rank \ {s} : worker'[q] = worker[q]
      /\ DOMAIN worker'[s] = DOMAIN Idle /\ worker'[s].pc = "post" /\ worker'[s].out = Out(o)
  BY <1>2 DEF Idle
<1>8. AllIn(Generating)
  BY <1>1, WhereAll DEF Generating
<1>9. ASSUME NEW q \in Rank
      PROVE  /\ DOMAIN worker'[q] = DOMAIN Idle /\ worker'[q].pc \in Generating
             /\ Prompted(worker'[q]) /\ Divisible(worker'[q])
             /\ Excused \/ Fresh(worker'[q])
  <2>1. CASE q = s
    BY <1>4, <1>5, <1>6, <1>7, <2>1 DEF Prompted, Divisible, Fresh, Generating, Syncing
  <2>2. CASE q # s
    <3>1. worker'[q] = worker[q]
      BY <1>7, <2>2
    <3>2. Excused \/ Fresh(worker[q])
      BY DEF FreshInv
    <3> QED
      BY <1>8, <3>1, <3>2 DEF AllIn
  <2> QED
    BY <2>1, <2>2
<1>10. worker[s].pc \in Generating
  BY <1>1 DEF Generating
<1> QED
  BY <1>1, <1>7, <1>9, <1>10, GenerateSteps

\* Each rank keeps its chunk of what its replica generated.
LEMMA PostprocessStep ==
  ASSUME FreshInv, Postprocess
  PROVE  FreshInv'
<1> USE Before
<1> DEFINE Whole(r) == worker[Source(ReplicaOf(r))].out
<1>0. 0 \in Rank
  BY ConfigFacts DEF FreshInv, Rank
<1>1. /\ \A r \in Rank : worker[r].pc = "post"
      /\ cfg' = cfg /\ phase' = phase /\ calling' = calling
      /\ UNCHANGED <<given, engine, version, refused>>
  BY Zenon DEF Postprocess, AllAt, driver, weights
<1>2. /\ DOMAIN worker' = Rank
      /\ \A r \in Rank : /\ DOMAIN worker'[r] = DOMAIN Idle /\ worker'[r].pc = "exit"
                         /\ worker'[r].out = Chunk(Whole(r), cfg.tp)[TpRank(r) + 1]
  BY Zenon DEF Postprocess, Idle
<1>3. Together'
  <2>1. calling /\ phase \in {"generate", "validate"}
    BY <1>0, <1>1, WhereAll DEF Generating
  <2> QED
    BY <1>1, <1>2, <2>1, Still DEF Together, AllIn, Leaving
<1>4. given = 0
  BY <1>0, <1>1 DEF Sending, Syncing
<1>5. \A r \in Rank : InShape(worker'[r], given')
  BY <1>1, <1>2, <1>4 DEF InShape, Prompted, Sending, Divisible, Syncing
<1>6. ASSUME NEW r \in Rank, \A q \in Rank : Fresh(worker[q])
      PROVE  Fresh(worker'[r])
  <2>1. Source(ReplicaOf(r)) \in Rank /\ TpRank(r) \in 0..cfg.tp - 1
    BY MeshFacts DEF FreshInv
  <2>2. Whole(r) \in Seq(ToSet(Whole(r)))
    BY <1>1, <2>1 DEF Divisible
  <2>3. \A x \in ToSet(Whole(r)) : x.fresh
    BY <1>1, <1>6, <2>1 DEF Fresh, ToSet
  <2>4. cfg.tp \in Nat \ {0} /\ TpRank(r) + 1 \in 1..cfg.tp
    <3>1. cfg.tp \in Nat \ {0}
      BY ConfigFacts DEF FreshInv
    <3> QED
      BY <2>1, <3>1
  <2>5. worker'[r].out \in Seq(ToSet(Whole(r)))
    <3> HIDE DEF Whole
    <3> QED
      BY <1>2, <2>2, <2>4, ChunkType
  <2>6. \A i \in DOMAIN worker'[r].out : worker'[r].out[i] \in ToSet(Whole(r))
    BY <2>5, LenProperties, ElementOfSeq
  <2> QED
    BY <2>3, <2>6 DEF Fresh
<1>7. \A d \in Replica : Loading(worker'[Source(d)], engine'[d], given', version')
  BY <1>1, <1>2, <1>4 DEF Loading, Generating
<1>8. Excused \/ \A r \in Rank : Fresh(worker[r])
  BY DEF FreshInv
<1>9. Excused' = Excused
  BY <1>1 DEF Excused
<1>10. given' \in 0..Len(TensorSize)
  BY <1>1
<1> QED
  BY <1>1, <1>2, <1>3, <1>5, <1>6, <1>7, <1>8, <1>9, <1>10, FreshStep

LEMMA ExitStep ==
  ASSUME FreshInv, NEW r \in Rank, Exit(r)
  PROVE  FreshInv'
<1> USE Before
<1>1. /\ worker[r].pc = "exit"
      /\ cfg' = cfg /\ phase' = phase /\ calling' = calling
      /\ UNCHANGED <<given, version, refused>>
  BY DEF Exit, driver
<1>2. calling /\ phase \in {"generate", "validate"} /\ AllIn(Leaving)
  BY <1>1, WhereAll
<1>3. /\ DOMAIN worker' = Rank /\ \A q \in Rank \ {r} : worker'[q] = worker[q]
      /\ DOMAIN worker'[r] = DOMAIN Idle /\ worker'[r].pc = "returned"
  BY DEF Exit, Moved, Idle
<1>4. \A q \in Rank : worker'[q].pc \in Leaving
  BY <1>2, <1>3 DEF AllIn, Leaving
<1>5. Together'
  BY <1>1, <1>2, <1>4, Still DEF Together, AllIn
<1>6. given = 0
  BY <1>1 DEF Sending, Syncing
<1>7. \A q \in Rank : InShape(worker'[q], given')
  BY <1>1, <1>3, <1>4, <1>6 DEF InShape, Prompted, Sending, Divisible, Syncing, Leaving
<1>8. DOMAIN engine' = Replica /\ \A d \in Replica : DOMAIN engine'[d] = Tensors
  BY DEF Exit
<1>9. \A d \in Replica : Loading(worker'[Source(d)], engine'[d], given', version')
  BY <1>1, <1>4, <1>6 DEF Loading, Generating, Leaving
<1>10. \A q \in Rank : Fresh(worker[q]) => Fresh(worker'[q])
  BY <1>3 DEF Fresh
<1>11. Excused \/ \A q \in Rank : Fresh(worker[q])
  BY DEF FreshInv
<1>12. Excused' = Excused
  BY <1>1 DEF Excused
<1>13. given' \in 0..Len(TensorSize)
  BY <1>1
<1> QED
  BY <1>1, <1>3, <1>5, <1>7, <1>8, <1>9, <1>10, <1>11, <1>12, <1>13, FreshStep

-------------------------------------
(* From the start, and through every step                                   *)

LEMMA FreshInit == Init => FreshInv
<1> SUFFICES ASSUME Init PROVE FreshInv
  OBVIOUS
<1>1. cfg \in Configs /\ refused \in BOOLEAN /\ given = 0 /\ calling = FALSE
  BY DEF Init
<1>2. Len(TensorSize) \in Nat
  BY StepAssumption, LenProperties
<1>3. DOMAIN worker = Rank /\ \A r \in Rank : worker[r] = Idle
  BY DEF Init
<1>4. \A r \in Rank : InShape(worker[r], given)
  BY <1>1, <1>3 DEF InShape, Prompted, Sending, Divisible, Syncing, Idle
<1>5. DOMAIN engine = Replica /\ \A d \in Replica : DOMAIN engine[d] = Tensors
  BY DEF Init
<1>6. Together
  BY <1>1, <1>3 DEF Together, AllIn, Idle
<1>7. \A d \in Replica : Loading(worker[Source(d)], engine[d], given, version)
  BY <1>1, <1>3, MeshFacts DEF Loading, Generating, Idle
<1>8. \A r \in Rank : Fresh(worker[r])
  BY <1>3 DEF Fresh, Idle
<1> QED
  BY <1>1, <1>2, <1>3, <1>4, <1>5, <1>6, <1>7, <1>8 DEF FreshInv

LEMMA FreshNext ==
  ASSUME FreshInv, Sampling, [Next]_vars
  PROVE  FreshInv'
<1>1. CASE Driver
  BY <1>1, DriverStep
<1>2. CASE Workers
  BY <1>2, MaterialiseStep, EnteredStep, PostprocessStep, TrainingKeeps, EndOfPayloadStep,
     LoadChunkStep, RefuseChunkStep, ExitStep, GatherStep, GenerateStep DEF Workers
<1>3. CASE UNCHANGED vars
  <2>1. cfg' = cfg
    BY <1>3 DEF vars
  <2> QED
    BY <1>3, <2>1, Still
       DEF vars, FreshInv, Together, AllIn, InShape, Prompted, Sending, Divisible, Loading, Fresh, Excused
<1> QED
  BY <1>1, <1>2, <1>3 DEF Next

-------------------------------------
(* Rows that are joined, divided and reordered                              *)

\* Whatever is built up this way is the flattened sequence.
LEMMA FlattenIs ==
  ASSUME NEW S, NEW seqs \in Seq(Seq(S)), NEW h \in [0..Len(seqs) -> Seq(S)], h[0] = <<>>,
         \A i \in 1..Len(seqs) : h[i] = h[i - 1] \o seqs[i]
  PROVE  FlattenSeq(seqs) = h[Len(seqs)]
<1> DEFINE len == Len(seqs)
<1>1. PICK f \in [0..len -> Seq(S)] : /\ f[0] = <<>>
                                      /\ \A i \in 1..len : f[i] = f[i - 1] \o seqs[i]
                                      /\ FlattenSeq(seqs) = f[len]
  BY Flattens
<1>2. len \in Nat
  OBVIOUS
<1>3. \A i \in 1..len : h[i] = h[i - 1] \o seqs[i]
  OBVIOUS
<1> HIDE DEF len
<1> DEFINE T == {n \in Nat : n \in 0..len => f[n] = h[n]}
<1>4. 0 \in T
  BY <1>1
<1>5. ASSUME NEW n \in T PROVE n + 1 \in T
  <2> SUFFICES ASSUME n + 1 \in 0..len PROVE f[n + 1] = h[n + 1]
    OBVIOUS
  <2>0. n \in 0..len /\ n + 1 \in 1..len /\ n + 1 - 1 = n
    BY <1>2
  <2>1. /\ \A m \in Nat : m + 1 \in 1..len => f[m + 1] = f[m] \o seqs[m + 1]
        /\ \A m \in Nat : m + 1 \in 1..len => h[m + 1] = h[m] \o seqs[m + 1]
    <3>1. \A m \in Nat : m + 1 \in 1..len => f[m + 1] = f[m] \o seqs[m + 1]
      <4>1. JoinsUp(f, seqs, len)
        BY <1>1, <1>2 DEF JoinsUp
      <4> QED
        BY <4>1, Following
    <3>2. \A m \in Nat : m + 1 \in 1..len => h[m + 1] = h[m] \o seqs[m + 1]
      <4>1. JoinsUp(h, seqs, len)
        BY <1>2, <1>3 DEF JoinsUp
      <4> QED
        BY <4>1, Following
    <3> QED
      BY <3>1, <3>2
  <2>2. f[n] = h[n]
    BY <2>0
  <2> QED
    BY <2>0, <2>1, <2>2
<1>6. T = Nat
  <2>1. T \in SUBSET Nat
    OBVIOUS
  <2> HIDE DEF T
  <2> QED
    BY <1>4, <1>5, <2>1, NatSetInduction
<1>7. f[len] = h[len]
  <2>1. len \in 0..len
    BY <1>2
  <2>2. len \in T
    <3> HIDE DEF T
    <3> QED
      BY <1>2, <1>6
  <2> QED
    BY <2>1, <2>2
<1> QED
  BY <1>1, <1>7 DEF len

\* What the first k sequences flatten to.
Joined(seqs, k) == FlattenSeq(SubSeq(seqs, 1, k))

LEMMA FirstOnes ==
  ASSUME NEW S, NEW s \in Seq(S), NEW k \in 0..Len(s)
  PROVE  /\ SubSeq(s, 1, k) \in Seq(S) /\ Len(SubSeq(s, 1, k)) = k
         /\ \A i \in 1..k : SubSeq(s, 1, k)[i] = s[i]
         /\ k = Len(s) => SubSeq(s, 1, k) = s
OBVIOUS

LEMMA Joining ==
  ASSUME NEW S, NEW seqs \in Seq(Seq(S))
  PROVE  /\ Joined(seqs, 0) = <<>>
         /\ \A k \in 0..Len(seqs) : Joined(seqs, k) \in Seq(S)
         /\ \A k \in 0..Len(seqs) : k + 1 \in 1..Len(seqs) =>
                Joined(seqs, k + 1) = Joined(seqs, k) \o seqs[k + 1]
         /\ Joined(seqs, Len(seqs)) = FlattenSeq(seqs)
<1> DEFINE len == Len(seqs)
<1>0. len \in Nat /\ 0 \in 0..len /\ len \in 0..len
  OBVIOUS
<1>1. PICK f \in [0..len -> Seq(S)] : /\ f[0] = <<>>
                                      /\ \A i \in 1..len : f[i] = f[i - 1] \o seqs[i]
                                      /\ FlattenSeq(seqs) = f[len]
  BY Flattens
<1>2. ASSUME NEW k \in 0..len PROVE Joined(seqs, k) = f[k]
  <2> DEFINE sub == SubSeq(seqs, 1, k)
             h == [i \in 0..k |-> f[i]]
  <2>1. sub \in Seq(Seq(S)) /\ Len(sub) = k /\ \A i \in 1..k : sub[i] = seqs[i]
    BY FirstOnes
  <2>2. k \in Nat /\ k \in 0..k /\ \A i \in 0..k : i \in 0..len
    BY <1>0
  <2>3. h \in [0..k -> Seq(S)] /\ h[0] = <<>> /\ h[k] = f[k]
    <3>1. \A i \in 0..k : f[i] \in Seq(S)
      BY <2>2
    <3>2. f[0] = <<>> /\ 0 \in 0..k
      BY <1>1, <2>2
    <3> QED
      BY <2>2, <3>1, <3>2
  <2>4. ASSUME NEW i \in 1..k PROVE h[i] = h[i - 1] \o sub[i]
    <3>1. i \in 0..k /\ i - 1 \in 0..k /\ i \in 1..len
      BY <1>0, <2>2
    <3>2. h[i] = f[i] /\ h[i - 1] = f[i - 1] /\ sub[i] = seqs[i]
      BY <2>1, <3>1
    <3>3. f[i] = f[i - 1] \o seqs[i]
      BY <1>1, <3>1
    <3> QED
      BY <3>2, <3>3
  <2> HIDE DEF sub, h
  <2>5. FlattenSeq(sub) = h[Len(sub)]
    BY <2>1, <2>3, <2>4, FlattenIs
  <2> QED
    BY <2>1, <2>3, <2>5 DEF Joined, sub
<1>3. \A k \in 0..len : k + 1 \in 1..len => Joined(seqs, k + 1) = Joined(seqs, k) \o seqs[k + 1]
  <2>1. \A n \in Nat : n + 1 \in 1..len => f[n + 1] = f[n] \o seqs[n + 1]
    <3>1. JoinsUp(f, seqs, len)
      BY <1>0, <1>1 DEF JoinsUp
    <3> QED
      BY <3>1, Following
  <2> SUFFICES ASSUME NEW k \in 0..len, k + 1 \in 1..len
               PROVE  Joined(seqs, k + 1) = Joined(seqs, k) \o seqs[k + 1]
    OBVIOUS
  <2>2. k \in Nat /\ k + 1 \in 0..len
    BY <1>0
  <2>3. Joined(seqs, k + 1) = f[k + 1] /\ Joined(seqs, k) = f[k]
    BY <1>2, <2>2
  <2> QED
    BY <2>1, <2>2, <2>3
<1>4. \A k \in 0..len : Joined(seqs, k) \in Seq(S)
  BY <1>1, <1>2
<1>5. Joined(seqs, len) = FlattenSeq(seqs) /\ Joined(seqs, 0) = <<>>
  BY <1>0, <1>1, <1>2
<1> QED
  BY <1>3, <1>4, <1>5 DEF len

\* x is n blocks of length w, and seqs are its blocks.
Blocked(x, S, n, w) == x \in Seq(S) /\ n \in Nat /\ w \in Nat \ {0} /\ Len(x) = n * w
BlocksOf(seqs, x, S, n, w) ==
    /\ n \in Nat /\ w \in Nat \ {0} /\ seqs \in [1..n -> Seq(S)]
    /\ \A i \in 1..n : Len(seqs[i]) = w
    /\ \A i \in 1..n : \A j \in 1..w : x[(i - 1) * w + j] = seqs[i][j]

\* Sequences of one length w: each has a block of the flattened sequence.
LEMMA FlattenBlocks ==
  ASSUME NEW S, NEW n \in Nat, NEW w \in Nat \ {0}, NEW seqs \in [1..n -> Seq(S)],
         \A i \in 1..n : Len(seqs[i]) = w
  PROVE  Blocked(FlattenSeq(seqs), S, n, w) /\ BlocksOf(seqs, FlattenSeq(seqs), S, n, w)
<1>0. seqs \in Seq(Seq(S)) /\ Len(seqs) = n
  OBVIOUS
<1> DEFINE Good(k) == /\ Len(Joined(seqs, k)) = k * w
                      /\ \A i \in 1..k : \A j \in 1..w : Joined(seqs, k)[(i - 1) * w + j] = seqs[i][j]
           T == {k \in Nat : k \in 0..n => Good(k)}
<1>1. 0 \in T
  <2>1. Joined(seqs, 0) = <<>>
    BY <1>0, Joining
  <2>2. Len(<<>>) = 0 * w /\ 1..0 = {}
    OBVIOUS
  <2>3. Good(0)
    BY <2>1, <2>2
  <2> HIDE DEF Good
  <2> QED
    BY <2>3
<1>2. ASSUME NEW k \in T PROVE k + 1 \in T
  <2> SUFFICES ASSUME k + 1 \in 0..n PROVE Good(k + 1)
    OBVIOUS
  <2>0. k \in Nat /\ k \in 0..n /\ k + 1 \in 1..n
    OBVIOUS
  <2>1. Good(k)
    BY <2>0
  <2> DEFINE a == Joined(seqs, k)
             b == seqs[k + 1]
  <2>2. /\ \A m \in 0..n : Joined(seqs, m) \in Seq(S)
        /\ \A m \in 0..n : m + 1 \in 1..n => Joined(seqs, m + 1) = Joined(seqs, m) \o seqs[m + 1]
    BY <1>0, Joining
  <2>3. Joined(seqs, k + 1) = a \o b /\ a \in Seq(S) /\ b \in Seq(S) /\ Len(b) = w /\ Len(a) = k * w
    BY <2>0, <2>1, <2>2
  <2>4. k * w \in Nat /\ (k + 1) * w = k * w + w
    BY <2>0
  <2>5. \A i \in 1..k : \A j \in 1..w : (i - 1) * w + j \in 1..(k * w)
    <3>1. \A i \in 1..k : i - 1 \in 0..(k - 1)
      OBVIOUS
    <3>2. \A i \in 0..(k - 1) : \A j \in 1..w : i * w + j \in 1..(k * w)
      BY <2>0, Blocks
    <3> QED
      BY <3>1, <3>2
  <2> HIDE DEF a, b
  <2>6. /\ Len(a \o b) = Len(a) + Len(b)
        /\ \A x \in 1..Len(a) : (a \o b)[x] = a[x]
        /\ \A x \in 1..Len(b) : (a \o b)[Len(a) + x] = b[x]
    <3>1. a \in Seq(S) /\ b \in Seq(S)
      BY <2>3
    <3> QED
      BY <3>1, Concatenates
  <2>7. Len(Joined(seqs, k + 1)) = (k + 1) * w
    BY <2>3, <2>4, <2>6
  <2>8. ASSUME NEW i \in 1..(k + 1), NEW j \in 1..w
        PROVE  Joined(seqs, k + 1)[(i - 1) * w + j] = seqs[i][j]
    <3>1. CASE i \in 1..k
      <4>1. (i - 1) * w + j \in 1..Len(a)
        BY <2>3, <2>5, <3>1
      <4>2. a[(i - 1) * w + j] = seqs[i][j]
        BY <2>1, <3>1 DEF a
      <4> QED
        BY <2>3, <2>6, <4>1, <4>2
    <3>2. CASE i = k + 1
      <4>1. (i - 1) * w + j = Len(a) + j
        <5>1. i - 1 = k
          BY <2>0, <3>2
        <5> QED
          BY <2>3, <5>1
      <4>2. (a \o b)[Len(a) + j] = b[j]
        BY <2>3, <2>6
      <4>3. b[j] = seqs[i][j]
        BY <3>2 DEF b
      <4> QED
        BY <2>3, <4>1, <4>2, <4>3
    <3> QED
      BY <2>0, <3>1, <3>2
  <2> QED
    BY <2>7, <2>8
<1>3. T = Nat
  <2>1. T \in SUBSET Nat
    OBVIOUS
  <2> HIDE DEF T
  <2> QED
    BY <1>1, <1>2, <2>1, NatSetInduction
<1>4. Good(n)
  <2>1. n \in 0..n
    OBVIOUS
  <2>2. \A k \in T : k \in 0..n => Good(k)
    OBVIOUS
  <2> HIDE DEF T, Good
  <2> QED
    BY <1>3, <2>1, <2>2
<1>5. Joined(seqs, n) = FlattenSeq(seqs) /\ Joined(seqs, n) \in Seq(S)
  <2>1. n \in 0..n
    OBVIOUS
  <2> QED
    BY <1>0, <2>1, Joining
<1>6. \A i \in 1..n : \A j \in 1..w : FlattenSeq(seqs)[(i - 1) * w + j] = seqs[i][j]
  BY <1>4, <1>5, Zenon
<1>7. Len(FlattenSeq(seqs)) = n * w /\ FlattenSeq(seqs) \in Seq(S)
  BY <1>4, <1>5, Zenon
<1> QED
  BY <1>6, <1>7 DEF Blocked, BlocksOf

LEMMA JoinedSets ==
  ASSUME NEW D, NEW a \in Seq(D), NEW b \in Seq(D), IsInjective(a), IsInjective(b),
         ToSet(a) \cap ToSet(b) = {}
  PROVE  IsInjective(a \o b) /\ ToSet(a \o b) = ToSet(a) \cup ToSet(b)
<1> DEFINE c == a \o b
           m == Len(a)
           n == Len(b)
<1>1. /\ m \in Nat /\ n \in Nat /\ DOMAIN a = 1..m /\ DOMAIN b = 1..n /\ DOMAIN c = 1..(m + n)
      /\ \A i \in 1..m : c[i] = a[i]
      /\ \A i \in 1..n : c[m + i] = b[i]
  BY Concatenates
<1> HIDE DEF c, m, n
<1>2. /\ \A i \in 1..(m + n) : i \in 1..m \/ \E j \in 1..n : i = m + j
      /\ \A i \in 1..m : i \in 1..(m + n)
      /\ \A i \in 1..n : m + i \in 1..(m + n)
  BY <1>1, PlacesOfTwo
<1>3. \A i \in 1..(m + n) : \/ i \in 1..m /\ c[i] = a[i] /\ c[i] \in ToSet(a)
                            \/ \E j \in 1..n : i = m + j /\ c[i] = b[j] /\ c[i] \in ToSet(b)
  BY <1>1, <1>2 DEF ToSet
<1>4. ASSUME NEW i \in 1..(m + n), NEW j \in 1..(m + n), c[i] = c[j] PROVE i = j
  <2>1. CASE i \in 1..m /\ c[i] = a[i] /\ c[i] \in ToSet(a)
    <3>1. ~ \E k \in 1..n : j = m + k /\ c[j] = b[k] /\ c[j] \in ToSet(b)
      BY <1>4, <2>1
    <3>2. j \in 1..m /\ c[j] = a[j]
      BY <1>3, <3>1
    <3> QED
      BY <1>1, <1>4, <2>1, <3>2 DEF IsInjective
  <2>2. CASE \E k \in 1..n : i = m + k /\ c[i] = b[k] /\ c[i] \in ToSet(b)
    <3>1. PICK k \in 1..n : i = m + k /\ c[i] = b[k] /\ c[i] \in ToSet(b)
      BY <2>2
    <3>2. ~(c[j] \in ToSet(a))
      BY <1>4, <3>1
    <3>3. PICK l \in 1..n : j = m + l /\ c[j] = b[l]
      BY <1>3, <3>2
    <3>4. k = l
      BY <1>1, <1>4, <3>1, <3>3 DEF IsInjective
    <3> QED
      BY <3>1, <3>3, <3>4
  <2> QED
    BY <1>3, <2>1, <2>2
<1>5. IsInjective(c)
  BY <1>1, <1>4 DEF IsInjective
<1>6. ToSet(c) \subseteq ToSet(a) \cup ToSet(b)
  BY <1>1, <1>3 DEF ToSet
<1>7. ToSet(a) \subseteq ToSet(c) /\ ToSet(b) \subseteq ToSet(c)
  BY <1>1, <1>2 DEF ToSet
<1> QED
  BY <1>5, <1>6, <1>7 DEF c

\* Disjoint parts, one after another: none has an element twice, nor have they together.
LEMMA JoinedParts ==
  ASSUME NEW D, NEW parts \in Seq(Seq(D)), \A i \in 1..Len(parts) : IsInjective(parts[i]),
         \A i, j \in 1..Len(parts) : i # j => ToSet(parts[i]) \cap ToSet(parts[j]) = {}
  PROVE  \A k \in 0..Len(parts) :
            IsInjective(Joined(parts, k)) /\ ToSet(Joined(parts, k)) = UNION {ToSet(parts[i]) : i \in 1..k}
<1> DEFINE n == Len(parts)
           Good(k) == IsInjective(Joined(parts, k)) /\ ToSet(Joined(parts, k)) = UNION {ToSet(parts[i]) : i \in 1..k}
           T == {k \in Nat : k \in 0..n => Good(k)}
<1>0. /\ n \in Nat /\ \A i \in 1..n : parts[i] \in Seq(D) /\ IsInjective(parts[i])
      /\ \A i, j \in 1..n : i # j => ToSet(parts[i]) \cap ToSet(parts[j]) = {}
  <2>1. n \in Nat /\ \A i \in 1..n : parts[i] \in Seq(D)
    OBVIOUS
  <2> QED
    BY <2>1, Zenon
<1>j. /\ Joined(parts, 0) = <<>>
      /\ \A k \in 0..n : Joined(parts, k) \in Seq(D)
      /\ \A k \in 0..n : k + 1 \in 1..n => Joined(parts, k + 1) = Joined(parts, k) \o parts[k + 1]
  BY Joining
<1> HIDE DEF n
<1>1. 0 \in T
  <2>1. IsInjective(<<>>) /\ ToSet(<<>>) = {} /\ 1..0 = {}
    BY DEF IsInjective, ToSet
  <2>2. Good(0)
    BY <1>j, <2>1
  <2> HIDE DEF Good
  <2> QED
    BY <2>2
<1>2. ASSUME NEW k \in T PROVE k + 1 \in T
  <2> SUFFICES ASSUME k + 1 \in 0..n PROVE Good(k + 1)
    OBVIOUS
  <2>0. k \in Nat /\ k \in 0..n /\ k + 1 \in 1..n
    BY <1>0
  <2>1. Good(k)
    BY <2>0
  <2> DEFINE a == Joined(parts, k)
             b == parts[k + 1]
  <2>2. Joined(parts, k + 1) = a \o b /\ a \in Seq(D) /\ b \in Seq(D)
    BY <1>0, <1>j, <2>0
  <2>3. ToSet(a) = UNION {ToSet(parts[i]) : i \in 1..k} /\ IsInjective(a) /\ IsInjective(b)
    BY <1>0, <2>0, <2>1
  <2>4. \A i \in 1..k : i \in 1..n /\ i # k + 1
    BY <1>0, <2>0
  <2>5. ToSet(a) \cap ToSet(b) = {}
    <3> SUFFICES ASSUME NEW x \in ToSet(a), x \in ToSet(b) PROVE FALSE
      OBVIOUS
    <3>1. PICK i \in 1..k : x \in ToSet(parts[i])
      BY <2>3
    <3>2. ToSet(parts[i]) \cap ToSet(parts[k + 1]) = {}
      BY <1>0, <2>0, <2>4
    <3> QED
      BY <3>1, <3>2
  <2>6. IsInjective(a \o b) /\ ToSet(a \o b) = ToSet(a) \cup ToSet(b)
    <3> HIDE DEF a, b
    <3> QED
      BY <2>2, <2>3, <2>5, JoinedSets
  <2>7. 1..(k + 1) = 1..k \cup {k + 1}
    BY <2>0
  <2>8. UNION {ToSet(parts[i]) : i \in 1..(k + 1)} = ToSet(a) \cup ToSet(b)
    BY <2>3, <2>7
  <2> HIDE DEF a, b
  <2> QED
    BY <2>2, <2>6, <2>8
<1>3. T = Nat
  <2>1. T \in SUBSET Nat
    OBVIOUS
  <2> HIDE DEF T
  <2> QED
    BY <1>1, <1>2, <2>1, NatSetInduction
<1>4. ASSUME NEW k \in 0..n PROVE Good(k)
  <2>1. k \in Nat
    BY <1>0
  <2>2. \A x \in T : x \in 0..n => Good(x)
    OBVIOUS
  <2> HIDE DEF T, Good
  <2> QED
    BY <1>3, <2>1, <2>2
<1> QED
  BY <1>4 DEF n

LEMMA ReorderIs ==
  ASSUME NEW R, NEW rows \in Seq(R), NEW c \in Seq(DOMAIN rows)
  PROVE  /\ Reorder(rows, c) \in Seq(R) /\ Len(Reorder(rows, c)) = Len(c)
         /\ \A i \in 1..Len(c) : Reorder(rows, c)[i] = rows[c[i]]
<1>1. /\ Len(c) \in Nat /\ DOMAIN c = 1..Len(c)
      /\ \A i \in 1..Len(c) : c[i] \in DOMAIN rows
  OBVIOUS
<1>2. \A j \in DOMAIN rows : rows[j] \in R
  OBVIOUS
<1>3. Reorder(rows, c) = [i \in 1..Len(c) |-> rows[c[i]]]
  BY <1>1 DEF Reorder
<1>4. \A i \in 1..Len(c) : rows[c[i]] \in R
  BY <1>1, <1>2
<1> QED
  BY <1>1, <1>3, <1>4

LEMMA ReorderJoins ==
  ASSUME NEW R, NEW rows \in Seq(R), NEW a \in Seq(DOMAIN rows), NEW b \in Seq(DOMAIN rows)
  PROVE  /\ Reorder(rows, a) \in Seq(R) /\ Len(Reorder(rows, a)) = Len(a)
         /\ Reorder(rows, a \o b) = Reorder(rows, a) \o Reorder(rows, b)
<1>1. \A c \in Seq(DOMAIN rows) : /\ Reorder(rows, c) \in Seq(R) /\ Len(Reorder(rows, c)) = Len(c)
                                  /\ \A i \in 1..Len(c) : Reorder(rows, c)[i] = rows[c[i]]
  BY ReorderIs
<1> DEFINE x == Reorder(rows, a)
           y == Reorder(rows, b)
           z == Reorder(rows, a \o b)
           m == Len(a)
           n == Len(b)
<1>2. /\ a \o b \in Seq(DOMAIN rows) /\ Len(a \o b) = m + n /\ m \in Nat /\ n \in Nat
      /\ \A i \in 1..m : (a \o b)[i] = a[i]
      /\ \A i \in 1..n : (a \o b)[m + i] = b[i]
  <2>1. a \in Seq(DOMAIN rows) /\ b \in Seq(DOMAIN rows)
    OBVIOUS
  <2> QED
    BY <2>1, Concatenates
<1>3. /\ x \in Seq(R) /\ Len(x) = m /\ y \in Seq(R) /\ Len(y) = n
      /\ \A i \in 1..m : x[i] = rows[a[i]]
      /\ \A i \in 1..n : y[i] = rows[b[i]]
  BY <1>1
<1>4. /\ z \in Seq(R) /\ Len(z) = m + n
      /\ \A i \in 1..(m + n) : z[i] = rows[(a \o b)[i]]
  BY <1>1, <1>2
<1> HIDE DEF x, y, z, m, n
<1>5. /\ x \o y \in Seq(R) /\ Len(x \o y) = m + n
      /\ \A i \in 1..m : (x \o y)[i] = x[i]
      /\ \A i \in 1..n : (x \o y)[m + i] = y[i]
  <2>1. /\ x \o y \in Seq(R) /\ Len(x \o y) = Len(x) + Len(y)
        /\ \A i \in 1..Len(x) : (x \o y)[i] = x[i]
        /\ \A i \in 1..Len(y) : (x \o y)[Len(x) + i] = y[i]
    <3>1. x \in Seq(R) /\ y \in Seq(R)
      BY <1>3
    <3> QED
      BY <3>1, Concatenates
  <2> QED
    BY <1>3, <2>1
<1>6. /\ \A i \in 1..(m + n) : i \in 1..m \/ \E j \in 1..n : i = m + j
      /\ \A i \in 1..m : i \in 1..(m + n)
      /\ \A i \in 1..n : m + i \in 1..(m + n)
  BY <1>2, PlacesOfTwo
<1>7. \A i \in 1..(m + n) : z[i] = (x \o y)[i]
  <2> SUFFICES ASSUME NEW i \in 1..(m + n) PROVE z[i] = (x \o y)[i]
    OBVIOUS
  <2>0. z[i] = rows[(a \o b)[i]]
    BY <1>4
  <2>1. CASE i \in 1..m
    <3>1. (a \o b)[i] = a[i] /\ x[i] = rows[a[i]] /\ (x \o y)[i] = x[i]
      BY <1>2, <1>3, <1>5, <2>1
    <3> QED
      BY <2>0, <3>1
  <2>2. CASE \E j \in 1..n : i = m + j
    <3>0. PICK j \in 1..n : i = m + j
      BY <2>2
    <3>1. (a \o b)[m + j] = b[j] /\ y[j] = rows[b[j]] /\ (x \o y)[m + j] = y[j]
      BY <1>2, <1>3, <1>5
    <3> QED
      BY <2>0, <3>0, <3>1
  <2> QED
    BY <1>6, <2>1, <2>2
<1>8. z = x \o y
  <2>1. \A s, t \in Seq(R) : Len(s) = m + n /\ Len(t) = m + n /\ (\A i \in 1..(m + n) : s[i] = t[i]) => s = t
    BY <1>2
  <2> QED
    BY <1>4, <1>5, <1>7, <2>1
<1> QED
  BY <1>3, <1>8 DEF x, y, z, m

\* All rows, each once.
Permutes(p, n) == p \in Seq(1..n) /\ IsInjective(p) /\ ToSet(p) = 1..n

LEMMA Permuting ==
  ASSUME NEW n \in Nat, NEW p, Permutes(p, n)
  PROVE  Len(p) = n /\ p \in Bijection(1..n, 1..n)
<1>1. p \in Seq(1..n) /\ Len(p) \in Nat /\ DOMAIN p = 1..Len(p)
  BY DEF Permutes
<1>2. p \in [1..Len(p) -> 1..n]
  BY <1>1
<1>3. p \in Bijection(1..Len(p), 1..n)
  <2>1. IsInjective(p)
    BY DEF Permutes
  <2>2. \A y \in 1..n : \E x \in 1..Len(p) : p[x] = y
    BY <1>1 DEF Permutes, ToSet
  <2> QED
    BY <1>2, <2>1, <2>2 DEF Bijection, Injection, Surjection, IsInjective
<1>4. IsFiniteSet(1..n) /\ IsFiniteSet(1..Len(p)) /\ Cardinality(1..n) = n /\ Cardinality(1..Len(p)) = Len(p)
  <2>1. \A k \in Nat : IsFiniteSet(1..k) /\ Cardinality(1..k) = k
    <3>1. \A a, b \in Int : /\ IsFiniteSet(a..b)
                            /\ Cardinality(a..b) = IF a > b THEN 0 ELSE b - a + 1
      BY FS_Interval
    <3> SUFFICES ASSUME NEW k \in Nat PROVE IsFiniteSet(1..k) /\ Cardinality(1..k) = k
      OBVIOUS
    <3>2. IsFiniteSet(1..k) /\ Cardinality(1..k) = IF 1 > k THEN 0 ELSE k - 1 + 1
      BY <3>1
    <3> QED
      BY <3>2
  <2> QED
    BY <1>1, <2>1
<1>5. Cardinality(1..Len(p)) = Cardinality(1..n)
  BY <1>3, <1>4, FS_Bijection DEF ExistsBijection
<1> QED
  BY <1>3, <1>4, <1>5

\* What was rearranged is put back.
LEMMA Reverses ==
  ASSUME NEW n \in Nat, NEW p, Permutes(p, n), NEW S, NEW x \in Seq(S), Len(x) = n
  PROVE  Reorder(Reorder(x, p), ReverseIndex(p)) = x
<1>1. Len(p) = n /\ DOMAIN p = 1..n /\ ToSet(p) = 1..n /\ \A i \in 1..n : p[i] \in 1..n
  BY Permuting DEF Permutes
<1> DEFINE q == ReverseIndex(p)
           y == Reorder(x, p)
<1>2. DOMAIN q = 1..n /\ \A i \in 1..n : q[i] \in 1..n /\ p[q[i]] = i
  <2>1. q = [i \in 1..n |-> CHOOSE j \in 1..n : p[j] = i]
    BY <1>1 DEF ReverseIndex
  <2>2. \A i \in 1..n : \E j \in 1..n : p[j] = i
    BY <1>1 DEF ToSet
  <2> HIDE DEF q
  <2> QED
    BY <2>1, <2>2
<1>3. \A i \in 1..n : y[i] = x[p[i]]
  BY <1>1 DEF Reorder
<1> HIDE DEF q, y
<1>4. Reorder(y, q) = [i \in 1..n |-> y[q[i]]]
  BY <1>2 DEF Reorder
<1>5. \A i \in 1..n : y[q[i]] = x[i]
  BY <1>2, <1>3
<1>6. x = [i \in 1..n |-> x[i]]
  OBVIOUS
<1> QED
  BY <1>4, <1>5, <1>6 DEF q, y

\* When a number of rows divides, the chunks are blocks of it.
LEMMA ChunkIs ==
  ASSUME NEW R, NEW rows, NEW k, NEW w, Blocked(rows, R, k, w), k # 0
  PROVE  BlocksOf(Chunk(rows, k), rows, R, k, w)
<1>0. rows \in Seq(R) /\ k \in Nat \ {0} /\ w \in Nat \ {0} /\ Len(rows) = k * w
  BY DEF Blocked
<1>1. Len(rows) \div k = w
  <2>1. k * w = w * k
    BY <1>0
  <2>2. (w * k) \div k = w
    BY <1>0, DivFacts
  <2> QED
    BY <1>0, <2>1, <2>2
<1>2. Chunk(rows, k) = [i \in 1..k |-> SubSeq(rows, (i - 1) * w + 1, i * w)]
  BY <1>1 DEF Chunk
<1>3. ASSUME NEW i \in 1..k
      PROVE  /\ Chunk(rows, k)[i] \in Seq(R) /\ Len(Chunk(rows, k)[i]) = w
             /\ \A j \in 1..w : rows[(i - 1) * w + j] = Chunk(rows, k)[i][j]
  <2>1. i - 1 \in 0..(k - 1) /\ (i - 1) + 1 = i
    BY <1>0
  <2>2. \A j \in 1..w : (i - 1) * w + j \in 1..(k * w)
    <3>1. \A m \in 0..(k - 1) : \A j \in 1..w : m * w + j \in 1..(k * w)
      BY <1>0, Blocks
    <3> QED
      BY <2>1, <3>1, Zenon
  <2>3. SubSeq(rows, (i - 1) * w + 1, ((i - 1) + 1) * w) = [j \in 1..w |-> rows[(i - 1) * w + j]]
    <3>1. rows \in [1..Len(rows) -> R] /\ Len(rows) \in Nat
      BY <1>0
    <3> QED
      BY <1>0, <2>1, <3>1, BlockOfRows
  <2>4. Chunk(rows, k)[i] = [j \in 1..w |-> rows[(i - 1) * w + j]]
    BY <1>2, <2>1, <2>3
  <2>5. \A j \in 1..w : rows[(i - 1) * w + j] \in R
    <3>1. \A j \in 1..Len(rows) : rows[j] \in R
      BY <1>0
    <3> QED
      BY <1>0, <2>2, <3>1
  <2> DEFINE at(j) == (i - 1) * w + j
  <2>6. (\A j \in 1..w : rows[at(j)] \in R) /\ Chunk(rows, k)[i] = [j \in 1..w |-> rows[at(j)]]
    BY <2>4, <2>5
  <2> HIDE DEF at
  <2>7. /\ Chunk(rows, k)[i] \in Seq(R) /\ Len(Chunk(rows, k)[i]) = w
        /\ \A j \in 1..w : Chunk(rows, k)[i][j] = rows[at(j)]
    BY <1>0, <2>6
  <2> QED
    BY <2>7 DEF at
<1>4. Chunk(rows, k) \in [1..k -> Seq(R)]
  <2>1. \A i \in 1..k : Chunk(rows, k)[i] \in Seq(R)
    BY <1>3
  <2>2. Chunk(rows, k) = [i \in 1..k |-> Chunk(rows, k)[i]]
    BY <1>2
  <2> QED
    BY <2>1, <2>2
<1> QED
  BY <1>0, <1>3, <1>4 DEF BlocksOf

\* Places are those of the blocks.
LEMMA PlaceOfBlock ==
  ASSUME NEW n \in Nat, NEW w \in Nat \ {0}
  PROVE  /\ \A q \in 1..(n * w) : \E i \in 1..n : \E j \in 1..w : q = (i - 1) * w + j
         /\ \A i \in 1..n : \A j \in 1..w : (i - 1) * w + j \in 1..(n * w)
         /\ \A i, m \in 1..n : \A j, l \in 1..w : (i - 1) * w + j = (m - 1) * w + l => i = m /\ j = l
<1>1. /\ \A i \in 0..(n - 1) : \A j \in 1..w : i * w + j \in 1..(n * w)
      /\ \A q \in 1..(n * w) : \E i \in 0..(n - 1) : \E j \in 1..w : q = i * w + j
      /\ \A i, m \in Nat : \A j, l \in 1..w : i * w + j = m * w + l => i = m /\ j = l
  BY Blocks
<1>2. \A i \in 0..(n - 1) : i + 1 \in 1..n /\ i = (i + 1) - 1
  OBVIOUS
<1>3. \A i \in 1..n : i - 1 \in 0..(n - 1) /\ i - 1 \in Nat
  OBVIOUS
<1>4. ASSUME NEW q \in 1..(n * w) PROVE \E i \in 1..n : \E j \in 1..w : q = (i - 1) * w + j
  <2>1. PICK m \in 0..(n - 1) : \E j \in 1..w : q = m * w + j
    BY <1>1, Zenon
  <2> QED
    BY <1>2, <2>1, Zenon
<1>5. ASSUME NEW i \in 1..n, NEW m \in 1..n, NEW j \in 1..w, NEW l \in 1..w,
             (i - 1) * w + j = (m - 1) * w + l
      PROVE  i = m /\ j = l
  <2>1. i - 1 = m - 1 /\ j = l
    <3> DEFINE a == i - 1
               b == m - 1
    <3>1. a \in Nat /\ b \in Nat
      BY <1>3
    <3>2. a * w + j = b * w + l
      BY <1>5
    <3> HIDE DEF a, b
    <3>3. a = b /\ j = l
      BY <3>1, <3>2, Blocks
    <3> QED
      BY <3>3 DEF a, b
  <2> QED
    BY <2>1
<1>6. \A i \in 1..n : \A j \in 1..w : (i - 1) * w + j \in 1..(n * w)
  BY <1>1, <1>3, Zenon
<1> QED
  BY <1>4, <1>5, <1>6, Zenon

\* Sequences of one length are equal when their blocks are.
LEMMA SameBlocks ==
  ASSUME NEW S, NEW x, NEW y, NEW n, NEW w, Blocked(x, S, n, w), Blocked(y, S, n, w),
         \A i \in 1..n : \A j \in 1..w : x[(i - 1) * w + j] = y[(i - 1) * w + j]
  PROVE  x = y
<1>0. n \in Nat /\ w \in Nat \ {0}
  BY DEF Blocked
<1>1. \A q \in 1..(n * w) : \E i \in 1..n : \E j \in 1..w : q = (i - 1) * w + j
  BY <1>0, PlaceOfBlock
<1>2. \A q \in 1..(n * w) : x[q] = y[q]
  <2> SUFFICES ASSUME NEW q \in 1..(n * w) PROVE x[q] = y[q]
    OBVIOUS
  <2>1. PICK i \in 1..n : \E j \in 1..w : q = (i - 1) * w + j
    BY <1>1, Zenon
  <2> QED
    BY <2>1, Zenon
<1>3. \A m \in Nat : \A s, t \in Seq(S) : Len(s) = m /\ Len(t) = m /\ (\A q \in 1..m : s[q] = t[q]) => s = t
  OBVIOUS
<1>4. n * w \in Nat
  BY <1>0
<1>5. x \in Seq(S) /\ y \in Seq(S) /\ Len(x) = n * w /\ Len(y) = n * w
  BY DEF Blocked
<1> QED
  BY <1>2, <1>3, <1>4, <1>5, Zenon

\* Equal blocks of a sequence, one after another, are the sequence.
LEMMA BlocksFlatten ==
  ASSUME NEW S, NEW n, NEW w, NEW x, NEW seqs, Blocked(x, S, n, w), BlocksOf(seqs, x, S, n, w)
  PROVE  FlattenSeq(seqs) = x
<1>0. n \in Nat /\ w \in Nat \ {0} /\ seqs \in [1..n -> Seq(S)] /\ \A i \in 1..n : Len(seqs[i]) = w
  BY DEF BlocksOf
<1>1. Blocked(FlattenSeq(seqs), S, n, w) /\ BlocksOf(seqs, FlattenSeq(seqs), S, n, w)
  BY <1>0, FlattenBlocks
<1>2. \A i \in 1..n : \A j \in 1..w : FlattenSeq(seqs)[(i - 1) * w + j] = x[(i - 1) * w + j]
  BY <1>1, Zenon DEF BlocksOf
<1> QED
  BY <1>1, <1>2, SameBlocks, Zenon

\* An element of a sequence repeated, by its block.
LEMMA RepeatIs ==
  ASSUME NEW S, NEW rows \in Seq(S), NEW k \in Nat \ {0}
  PROVE  /\ Repeat(rows, k) \in Seq(S) /\ Len(Repeat(rows, k)) = Len(rows) * k
         /\ DOMAIN Repeat(rows, k) = 1..(Len(rows) * k)
         /\ \A i \in 1..(Len(rows) * k) : /\ ((i - 1) \div k) + 1 \in 1..Len(rows)
                                          /\ Repeat(rows, k)[i] = rows[((i - 1) \div k) + 1]
<1> DEFINE len == Len(rows) * k
           at(i) == ((i - 1) \div k) + 1
<1>1. len \in Nat
  OBVIOUS
<1>2. ASSUME NEW i \in 1..len PROVE at(i) \in 1..Len(rows)
  <2>1. i - 1 \in Nat /\ i - 1 < len
    BY <1>1
  <2>2. (i - 1) \div k \in Nat
    BY <2>1, DivFacts
  <2>3. (i - 1) \div k < Len(rows)
    BY <2>1, DivBound
  <2> QED
    BY <2>2, <2>3
<1>3. Repeat(rows, k) = [i \in 1..len |-> rows[at(i)]]
  BY DEF Repeat
<1>4. Repeat(rows, k) \in Seq(S)
  BY RepeatType
<1> HIDE DEF len, at
<1>5. /\ Len([i \in 1..len |-> rows[at(i)]]) = len
      /\ DOMAIN [i \in 1..len |-> rows[at(i)]] = 1..len
      /\ \A i \in 1..len : [l \in 1..len |-> rows[at(l)]][i] = rows[at(i)]
  BY <1>1
<1> QED
  BY <1>2, <1>3, <1>4, <1>5 DEF len, at

LEMMA MinOfTwo ==
  ASSUME NEW a \in Int, NEW b \in Int
  PROVE  Min({a, b}) = IF a <= b THEN a ELSE b
<1>1. CASE a <= b
  <2>1. a \in {a, b} /\ \A y \in {a, b} : a <= y
    BY <1>1
  <2>2. \A x \in {a, b} : (\A y \in {a, b} : x <= y) => x = a
    BY <1>1
  <2> QED
    BY <1>1, <2>1, <2>2 DEF Min
<1>2. CASE ~(a <= b)
  <2>1. b \in {a, b} /\ \A y \in {a, b} : b <= y
    BY <1>2
  <2>2. \A x \in {a, b} : (\A y \in {a, b} : x <= y) => x = b
    BY <1>2
  <2> QED
    BY <1>2, <2>1, <2>2 DEF Min
<1> QED
  BY <1>1, <1>2

LEMMA CeilFacts ==
  ASSUME NEW a \in Nat \ {0}, NEW b \in Nat \ {0}
  PROVE  /\ CeilDiv(a, b) \in Nat \ {0}
         /\ (CeilDiv(a, b) - 1) * b < a
         /\ a <= CeilDiv(a, b) * b
<1> DEFINE x == a + b - 1
           c == x \div b
<1>1. x \in Nat /\ x >= b
  OBVIOUS
<1> HIDE DEF x
<1>2. c \in Nat /\ b * c <= x /\ x < b * c + b
  BY <1>1
<1> HIDE DEF c
<1>3. b * c = c * b /\ c * b \in Nat
  BY <1>2
<1>4. (c - 1) * b = c * b - b
  BY <1>2
<1>5. c # 0
  <2>1. c = 0 => c * b = 0
    OBVIOUS
  <2> QED
    BY <1>1, <1>2, <1>3, <2>1
<1>6. c * b <= a + b - 1 /\ a + b - 1 < c * b + b
  BY <1>2, <1>3 DEF x
<1>7. c * b - b < a /\ a <= c * b
  BY <1>3, <1>6
<1>8. CeilDiv(a, b) = c
  BY DEF CeilDiv, c, x
<1> QED
  BY <1>2, <1>4, <1>5, <1>7, <1>8

LEMMA SubSeqIs ==
  ASSUME NEW R, NEW rows \in Seq(R), NEW a \in Nat, NEW b \in Nat, a <= b, b <= Len(rows)
  PROVE  /\ SubSeq(rows, a + 1, b) \in Seq(R) /\ Len(SubSeq(rows, a + 1, b)) = b - a
         /\ \A j \in 1..(b - a) : SubSeq(rows, a + 1, b)[j] = rows[a + j]
<1> DEFINE s == SubSeq(rows, a + 1, b)
<1>1. s \in Seq(R)
  OBVIOUS
<1>2. Len(s) = b - a
  OBVIOUS
<1>3. \A j \in 1..(b - a) : s[j] = rows[a + j]
  <2> SUFFICES ASSUME NEW j \in 1..(b - a) PROVE s[j] = rows[a + j]
    OBVIOUS
  <2>1. s[j] = rows[a + 1 + j - 1]
    OBVIOUS
  <2>2. a + 1 + j - 1 = a + j
    OBVIOUS
  <2> QED
    BY <2>1, <2>2
<1> QED
  BY <1>1, <1>2, <1>3

\* Where the i-th of the parts of a number of rows ends.
EndOfPart(n, size, i) == IF i * size <= n THEN i * size ELSE n

\* The parts of rows, of which the last may be smaller.
IsSplit(parts, rows, R, size) ==
    /\ parts \in Seq(Seq(R)) /\ Len(parts) \in Nat \ {0}
    /\ EndOfPart(Len(rows), size, Len(parts)) = Len(rows)
    /\ \A i \in 1..Len(parts) :
          /\ (i - 1) * size \in Nat /\ (i - 1) * size < EndOfPart(Len(rows), size, i)
          /\ EndOfPart(Len(rows), size, i) <= Len(rows)
          /\ i # Len(parts) => EndOfPart(Len(rows), size, i) = i * size
          /\ parts[i] \in Seq(R)
          /\ (i - 1) * size + Len(parts[i]) = EndOfPart(Len(rows), size, i)
          /\ \A j \in 1..Len(parts[i]) :
                (i - 1) * size + j \in 1..Len(rows) /\ parts[i][j] = rows[(i - 1) * size + j]

LEMMA SplitIs ==
  ASSUME NEW R, NEW rows \in Seq(R), rows # <<>>, NEW size \in Nat \ {0}
  PROVE  IsSplit(Split(rows, size), rows, R, size)
<1> DEFINE n == Len(rows)
           c == CeilDiv(n, size)
           end(i) == EndOfPart(n, size, i)
           part(i) == SubSeq(rows, (i - 1) * size + 1, end(i))
<1>1. n \in Nat \ {0}
  OBVIOUS
<1>2. c \in Nat \ {0} /\ (c - 1) * size < n /\ n <= c * size
  <2> HIDE DEF n
  <2> QED
    BY <1>1, CeilFacts
<1>3. Split(rows, size) = [i \in 1..c |-> part(i)]
  <2>1. \A i \in 1..c : Min({i * size, n}) = end(i)
    <3> SUFFICES ASSUME NEW i \in 1..c PROVE Min({i * size, n}) = end(i)
      OBVIOUS
    <3>1. i * size \in Int /\ n \in Int
      BY <1>1
    <3> HIDE DEF n
    <3> QED
      BY <3>1, MinOfTwo DEF EndOfPart
  <2>2. Split(rows, size) = [i \in 1..c |-> SubSeq(rows, (i - 1) * size + 1, Min({i * size, n}))]
    BY DEF Split
  <2> QED
    BY <2>1, <2>2
<1> HIDE DEF n, c
<1>4. ASSUME NEW i \in 1..c
      PROVE  /\ (i - 1) * size \in Nat /\ (i - 1) * size < end(i) /\ end(i) <= n /\ end(i) \in Nat
             /\ i # c => end(i) = i * size
  <2>1. i \in Nat /\ i - 1 \in Nat /\ i - 1 <= c - 1 /\ c - 1 \in Nat
    BY <1>2
  <2>2. (i - 1) * size \in Nat /\ i * size \in Nat /\ (i - 1) * size < i * size
    <3>1. (i - 1) * size = i * size - size
      BY <2>1
    <3>2. (i - 1) * size \in Nat /\ i * size \in Nat
      BY <2>1
    <3> QED
      BY <3>1, <3>2
  <2>3. (i - 1) * size <= (c - 1) * size
    BY <2>1, MulMono
  <2>4. (c - 1) * size \in Nat
    BY <2>1
  <2>5. (i - 1) * size < n
    BY <1>1, <1>2, <2>2, <2>3, <2>4
  <2>6. i # c => i * size <= n
    <3> SUFFICES ASSUME i # c PROVE i * size <= n
      OBVIOUS
    <3>1. i <= c - 1
      BY <1>2, <2>1
    <3>2. i * size <= (c - 1) * size
      BY <2>1, <3>1, MulMono
    <3> QED
      BY <1>1, <1>2, <2>2, <2>4, <3>2
  <2> QED
    BY <1>1, <2>2, <2>5, <2>6 DEF EndOfPart
<1>5. ASSUME NEW i \in 1..c
      PROVE  /\ part(i) \in Seq(R) /\ (i - 1) * size + Len(part(i)) = end(i)
             /\ \A j \in 1..Len(part(i)) : /\ (i - 1) * size + j \in 1..n
                                           /\ part(i)[j] = rows[(i - 1) * size + j]
  <2> DEFINE a == (i - 1) * size
             b == end(i)
  <2>1. a \in Nat /\ b \in Nat /\ a < b /\ b <= n
    BY <1>4
  <2> HIDE DEF a, b
  <2>2. a <= b /\ b <= Len(rows)
    BY <2>1 DEF n
  <2>3. /\ SubSeq(rows, a + 1, b) \in Seq(R) /\ Len(SubSeq(rows, a + 1, b)) = b - a
        /\ \A j \in 1..(b - a) : SubSeq(rows, a + 1, b)[j] = rows[a + j]
    BY <2>1, <2>2, SubSeqIs
  <2>4. \A j \in 1..(b - a) : a + j \in 1..n
    BY <1>1, <2>1
  <2>5. a + (b - a) = b
    BY <2>1
  <2> QED
    BY <2>3, <2>4, <2>5 DEF a, b
<1> HIDE DEF part
<1>6. Split(rows, size) \in Seq(Seq(R)) /\ Len(Split(rows, size)) = c /\ \A i \in 1..c : Split(rows, size)[i] = part(i)
  BY <1>2, <1>3, <1>5
<1>7. end(c) = n
  <2>1. c * size \in Nat
    BY <1>2
  <2> QED
    BY <1>1, <1>2, <2>1 DEF EndOfPart
<1> QED
  BY <1>2, <1>4, <1>5, <1>6, <1>7 DEF n, IsSplit

LEMMA FirstExtends ==
  ASSUME NEW R, NEW rows \in Seq(R), NEW a \in Nat, NEW s \in Seq(R), a + Len(s) <= Len(rows),
         \A j \in 1..Len(s) : s[j] = rows[a + j]
  PROVE  SubSeq(rows, 1, a + Len(s)) = SubSeq(rows, 1, a) \o s
<1> DEFINE n == Len(s)
           x == SubSeq(rows, 1, a)
           y == SubSeq(rows, 1, a + n)
<1>0. n \in Nat /\ Len(rows) \in Nat
  OBVIOUS
<1>n. a + n <= Len(rows) /\ \A j \in 1..n : s[j] = rows[a + j]
  OBVIOUS
<1>m. n = Len(s)
  OBVIOUS
<1> HIDE DEF n
<1>1. a \in 0..Len(rows) /\ a + n \in 0..Len(rows) /\ a + n \in Nat
  BY <1>0, <1>n
<1>2. x \in Seq(R) /\ Len(x) = a /\ \A i \in 1..a : x[i] = rows[i]
  BY <1>1, FirstOnes
<1>3. y \in Seq(R) /\ Len(y) = a + n /\ \A i \in 1..(a + n) : y[i] = rows[i]
  BY <1>1, FirstOnes
<1> HIDE DEF x, y
<1>4. /\ x \o s \in Seq(R) /\ Len(x \o s) = a + n
      /\ \A i \in 1..a : (x \o s)[i] = x[i]
      /\ \A i \in 1..n : (x \o s)[a + i] = s[i]
  <2>1. /\ x \o s \in Seq(R) /\ Len(x \o s) = Len(x) + Len(s)
        /\ \A i \in 1..Len(x) : (x \o s)[i] = x[i]
        /\ \A i \in 1..Len(s) : (x \o s)[Len(x) + i] = s[i]
    <3>1. x \in Seq(R) /\ s \in Seq(R)
      BY <1>2
    <3> QED
      BY <3>1, Concatenates
  <2> QED
    BY <1>2, <1>m, <2>1
<1>5. \A i \in 1..(a + n) : i \in 1..a \/ \E j \in 1..n : i = a + j
  BY <1>0, PlacesOfTwo
<1>6. \A i \in 1..(a + n) : y[i] = (x \o s)[i]
  <2> SUFFICES ASSUME NEW i \in 1..(a + n) PROVE y[i] = (x \o s)[i]
    OBVIOUS
  <2>0. y[i] = rows[i]
    BY <1>3
  <2>1. CASE i \in 1..a
    BY <1>2, <1>4, <2>0, <2>1
  <2>2. CASE \E j \in 1..n : i = a + j
    <3>1. PICK j \in 1..n : i = a + j
      BY <2>2
    <3>2. (x \o s)[a + j] = s[j] /\ s[j] = rows[a + j]
      BY <1>4, <1>n
    <3> QED
      BY <2>0, <3>1, <3>2
  <2> QED
    BY <1>5, <2>1, <2>2
<1>7. \A m \in Nat : \A u, v \in Seq(R) : Len(u) = m /\ Len(v) = m /\ (\A q \in 1..m : u[q] = v[q]) => u = v
  OBVIOUS
<1>8. y = x \o s
  BY <1>1, <1>3, <1>4, <1>6, <1>7, Zenon
<1> QED
  BY <1>8 DEF x, y, n

\* The parts of a split number of rows, one after another, are the rows.
LEMMA SplitFlattens ==
  ASSUME NEW R, NEW rows \in Seq(R), rows # <<>>, NEW size \in Nat \ {0}
  PROVE  FlattenSeq(Split(rows, size)) = rows
<1> DEFINE parts == Split(rows, size)
           n == Len(rows)
           c == Len(parts)
           end(i) == EndOfPart(n, size, i)
           h == [i \in 0..c |-> SubSeq(rows, 1, end(i))]
<1>0. n \in Nat /\ n # 0
  OBVIOUS
<1>1. parts \in Seq(Seq(R)) /\ c \in Nat \ {0} /\ end(c) = n
  BY SplitIs DEF IsSplit
<1>2. \A i \in 1..c : /\ (i - 1) * size \in Nat /\ (i - 1) * size < end(i)
                      /\ end(i) <= n
                      /\ parts[i] \in Seq(R)
                      /\ (i - 1) * size + Len(parts[i]) = end(i)
                      /\ \A j \in 1..Len(parts[i]) : parts[i][j] = rows[(i - 1) * size + j]
  <2>1. IsSplit(parts, rows, R, size)
    BY SplitIs
  <2> HIDE DEF parts
  <2> QED
    BY <2>1 DEF IsSplit
<1> HIDE DEF parts, c
<1>3. end(0) = 0
  <2>1. 0 * size = 0
    OBVIOUS
  <2> QED
    BY <1>0, <2>1 DEF EndOfPart
<1>4. \A i \in 1..c : end(i - 1) = (i - 1) * size
  <2> SUFFICES ASSUME NEW i \in 1..c PROVE end(i - 1) = (i - 1) * size
    OBVIOUS
  <2>1. (i - 1) * size \in Nat /\ (i - 1) * size < end(i) /\ end(i) <= n
    BY <1>2
  <2>2. end(i) \in Int
    BY <1>0 DEF EndOfPart
  <2>3. (i - 1) * size <= n
    BY <1>0, <2>1, <2>2
  <2> QED
    BY <2>3 DEF EndOfPart
<1>5. \A i \in 0..c : end(i) \in 0..n
  <2> SUFFICES ASSUME NEW i \in 0..c PROVE end(i) \in 0..n
    OBVIOUS
  <2>1. i \in Nat /\ i * size \in Nat
    BY <1>1
  <2> QED
    BY <1>0, <2>1 DEF EndOfPart
<1>6. h \in [0..c -> Seq(R)]
  <2>1. \A m \in 0..n : SubSeq(rows, 1, m) \in Seq(R)
    BY FirstOnes
  <2> QED
    BY <1>5, <2>1
<1>7. h[0] = <<>> /\ h[c] = rows
  <2>1. 0 \in 0..c /\ c \in 0..c
    BY <1>1
  <2>2. h[0] = SubSeq(rows, 1, 0) /\ h[c] = SubSeq(rows, 1, n)
    BY <1>1, <1>3, <2>1
  <2>3. SubSeq(rows, 1, 0) = <<>> /\ SubSeq(rows, 1, n) = rows
    OBVIOUS
  <2> QED
    BY <2>2, <2>3
<1>8. ASSUME NEW i \in 1..c PROVE h[i] = h[i - 1] \o parts[i]
  <2>1. i \in 0..c /\ i - 1 \in 0..c
    BY <1>1
  <2>2. h[i] = SubSeq(rows, 1, end(i)) /\ h[i - 1] = SubSeq(rows, 1, (i - 1) * size)
    BY <1>4, <2>1
  <2> DEFINE a == (i - 1) * size
             s == parts[i]
  <2>3. a \in Nat /\ s \in Seq(R) /\ a + Len(s) = end(i) /\ \A j \in 1..Len(s) : s[j] = rows[a + j]
    BY <1>2
  <2>4. a + Len(s) <= Len(rows)
    BY <1>2, <2>3
  <2> HIDE DEF a, s
  <2>5. SubSeq(rows, 1, a + Len(s)) = SubSeq(rows, 1, a) \o s
    BY <2>3, <2>4, FirstExtends
  <2> HIDE DEF h
  <2> QED
    BY <2>2, <2>3, <2>5 DEF a, s
<1> HIDE DEF h
<1>9. FlattenSeq(parts) = h[Len(parts)]
  BY <1>1, <1>6, <1>7, <1>8, FlattenIs DEF c
<1> QED
  BY <1>7, <1>9 DEF c, parts

Ranked(S, R) == IsFiniteSet(S) /\ S # {} /\ Orders(R, S)

LEMMA FirstOf ==
  ASSUME NEW S, NEW R, Ranked(S, R)
  PROVE  \E x \in S : \A y \in S \ {x} : <<x, y>> \in R
<1>1. IsFiniteSet(S) /\ S # {} /\ Orders(R, S)
  BY DEF Ranked
<1> QED
  BY <1>1, FirstExists

\* A finite set of numbers that is not empty has a greatest element.
LEMMA MaxIs ==
  ASSUME NEW S, S \subseteq Nat, IsFiniteSet(S), S # {}
  PROVE  Max(S) \in S /\ \A y \in S : y <= Max(S)
<1> DEFINE R == {x \in S \X S : x[1] > x[2]}
<1>1. Ranked(S, R)
  BY DEF Orders, Ranked
<1>r. \A x, y : <<x, y>> \in R => x > y
  OBVIOUS
<1> HIDE DEF R
<1>2. \E x \in S : \A y \in S \ {x} : <<x, y>> \in R
  BY <1>1, FirstOf
<1>p. PICK x \in S : \A y \in S \ {x} : <<x, y>> \in R
  BY <1>2, Zenon
<1>3. \A y \in S : x >= y
  <2> SUFFICES ASSUME NEW y \in S PROVE x >= y
    OBVIOUS
  <2>1. x \in Nat /\ y \in Nat
    OBVIOUS
  <2>2. y # x => x > y
    BY <1>p, <1>r
  <2> QED
    BY <2>1, <2>2
<1>4. Max(S) \in S /\ \A y \in S : Max(S) >= y
  BY <1>3 DEF Max
<1>5. \A y \in S : y <= Max(S)
  BY <1>4
<1> QED
  BY <1>4, <1>5

LEMMA OneMore == \A m \in Nat : 1..(m + 1) = 1..m \cup {m + 1}
OBVIOUS

LEMMA FiniteRange ==
  ASSUME NEW n \in Nat, NEW f, NEW S, S = {f[i] : i \in 1..n}
  PROVE  IsFiniteSet(S)
<1> DEFINE g == [i \in 1..n |-> f[i]]
<1>1. IsFiniteSet(1..n)
  BY FS_Interval
<1>2. g \in Surjection(1..n, S)
  BY DEF Surjection
<1> QED
  BY <1>1, <1>2, FS_Surjection

LEMMA MaxOfSeq ==
  ASSUME NEW lens \in Seq(Nat), lens # <<>>
  PROVE  /\ Max(ToSet(lens)) \in Nat /\ \E i \in DOMAIN lens : Max(ToSet(lens)) = lens[i]
         /\ \A i \in DOMAIN lens : lens[i] <= Max(ToSet(lens))
<1> DEFINE S == ToSet(lens)
<1>0. 1 \in DOMAIN lens /\ \A i \in DOMAIN lens : lens[i] \in Nat
  OBVIOUS
<1>1. S \in SUBSET Nat /\ S # {} /\ \A i \in DOMAIN lens : lens[i] \in S
  BY <1>0, Zenon DEF ToSet
<1>2. Len(lens) \in Nat /\ S = {lens[i] : i \in 1..Len(lens)}
  BY DEF ToSet
<1>3. IsFiniteSet(S)
  <2> HIDE DEF S
  <2> QED
    BY <1>2, FiniteRange
<1>4. Max(S) \in S /\ \A y \in S : y <= Max(S)
  <2> HIDE DEF S
  <2> QED
    BY <1>1, <1>3, MaxIs
<1>5. \E i \in DOMAIN lens : Max(S) = lens[i]
  BY <1>4 DEF ToSet
<1> QED
  BY <1>1, <1>4, <1>5

LEMMA SumIsTotal ==
  ASSUME NEW f
  PROVE  Sum(f) = Total(f, DOMAIN f)
BY Zenon DEF Sum, FoldSeq, FoldFunction, Total, SumFunctionOnSet

Reindexes(I, D, f, e) == IsFiniteSet(D) /\ f \in [D -> Int] /\ IsFiniteSet(I) /\ e \in Injection(I, D)

LEMMA TotalOfSome ==
  ASSUME NEW I, NEW D, NEW f, NEW e, Reindexes(I, D, f, e)
  PROVE  \A X \in SUBSET I : Total([i \in I |-> f[e[i]]], X) = Total(f, {e[i] : i \in X})
<1>1. IsFiniteSet(D) /\ f \in [D -> Int] /\ IsFiniteSet(I) /\ e \in Injection(I, D)
  BY DEF Reindexes
<1> QED
  BY <1>1, TotalReindexed

\* The lengths of some of the rows add up to the total of their indices.
LEMMA SumOfPart ==
  ASSUME NEW lens \in Seq(Nat), NEW part \in Seq(1..Len(lens)), IsInjective(part)
  PROVE  Sum(Reorder(lens, part)) = Total(lens, ToSet(part))
<1> DEFINE D == 1..Len(lens)
           I == 1..Len(part)
<1>0. Len(lens) \in Nat /\ Len(part) \in Nat
  OBVIOUS
<1>1. IsFiniteSet(D) /\ IsFiniteSet(I)
  BY <1>0, FS_Interval
<1>2. lens \in [D -> Int] /\ part \in Injection(I, D) /\ DOMAIN part = I
  <2>1. lens \in [D -> Nat] /\ part \in [I -> D]
    OBVIOUS
  <2>2. lens \in [D -> Int]
    BY <2>1
  <2> QED
    BY <2>1, <2>2 DEF Injection
<1>3. Reorder(lens, part) = [i \in I |-> lens[part[i]]]
  BY <1>2 DEF Reorder
<1>4. Total([i \in I |-> lens[part[i]]], I) = Total(lens, {part[i] : i \in I})
  <2> HIDE DEF D, I
  <2>1. \A X \in SUBSET I : Total([i \in I |-> lens[part[i]]], X) = Total(lens, {part[i] : i \in X})
    <3>1. IsFiniteSet(D) /\ lens \in [D -> Int] /\ IsFiniteSet(I) /\ part \in Injection(I, D)
      BY <1>1, <1>2
    <3>2. Reindexes(I, D, lens, part)
      BY <3>1 DEF Reindexes
    <3> QED
      BY <3>2, TotalOfSome
  <2>2. I \in SUBSET I
    OBVIOUS
  <2> QED
    BY <2>1, <2>2, Zenon
<1>5. ToSet(part) = {part[i] : i \in I}
  BY <1>2 DEF ToSet
<1>6. DOMAIN Reorder(lens, part) = I
  BY <1>3
<1> HIDE DEF I
<1> QED
  BY <1>3, <1>4, <1>5, <1>6, SumIsTotal

\* A part of a division is below the average by M at the most, and so above it.
LEMMA PartIsBounded ==
  ASSUME NEW lens \in Seq(Nat), NEW k \in Nat \ {0}, NEW M \in Nat \ {0}, NEW T \in Nat,
         NEW parts, Parts(parts, lens, k, M), Total(lens, 1..Len(lens)) <= k * T, NEW i \in 1..k
  PROVE  Total(lens, ToSet(parts[i])) < T + M
<1> DEFINE N == 1..Len(lens)
           t(j) == Total(lens, ToSet(parts[j]))
           U(m) == UNION {ToSet(parts[j]) : j \in 1..m}
           low(m) == m * T + (IF i <= m THEN M ELSE 0)
<1>1. \A X \in SUBSET N : Total(lens, X) \in Int
  BY LengthTotals
<1>2. \A X, Y \in SUBSET N : X \cap Y = {} => Total(lens, X \cup Y) = Total(lens, X) + Total(lens, Y)
  BY LengthTotals
<1>3. \A j \in 1..k : ToSet(parts[j]) \in SUBSET N
  <2>1. \A j \in 1..k : parts[j] \in Seq(N)
    BY DEF Parts
  <2>2. \A s \in Seq(N) : \A j \in DOMAIN s : s[j] \in N
    OBVIOUS
  <2> HIDE DEF N
  <2> QED
    BY <2>1, <2>2 DEF ToSet
<1>4. /\ \A j, l \in 1..k : j # l => ToSet(parts[j]) \cap ToSet(parts[l]) = {}
      /\ U(k) = N
      /\ \A j, l \in 1..k : t(j) <= t(l) + M
  BY DEF Parts
<1>5. \A j \in 1..k : t(j) \in Int
  BY <1>1, <1>3
<1> SUFFICES ASSUME t(i) >= T + M PROVE FALSE
  BY <1>5
<1>6. \A j \in 1..k : t(j) >= T + (IF j = i THEN M ELSE 0)
  BY <1>4, <1>5
<1>7. Total(lens, {}) = 0
  BY LengthTotals
<1> HIDE DEF N, t
<1> DEFINE G == {m \in Nat : m <= k => Total(lens, U(m)) >= low(m)}
<1>8. 0 \in G
  <2>1. U(0) = {} /\ ~(i <= 0) /\ 0 * T = 0
    OBVIOUS
  <2>2. low(0) = 0
    BY <2>1
  <2> HIDE DEF U, low
  <2>3. Total(lens, U(0)) = 0
    BY <1>7, <2>1, Zenon
  <2>4. Total(lens, U(0)) >= low(0)
    BY <2>2, <2>3
  <2>5. 0 \in Nat
    OBVIOUS
  <2> HIDE DEF low
  <2> QED
    BY <2>4, <2>5
<1>9. ASSUME NEW m \in G PROVE m + 1 \in G
  <2> SUFFICES ASSUME m + 1 <= k PROVE Total(lens, U(m + 1)) >= low(m + 1)
    OBVIOUS
  <2>0. m \in Nat /\ m <= k /\ m + 1 \in 1..k
    OBVIOUS
  <2>1. Total(lens, U(m)) >= low(m)
    BY <2>0
  <2>2. 1..(m + 1) = 1..m \cup {m + 1}
    BY <2>0, OneMore
  <2>3. U(m + 1) = U(m) \cup ToSet(parts[m + 1])
    BY <2>2
  <2>4. \A j \in 1..m : j \in 1..k /\ j # m + 1
    BY <2>0
  <2>5. U(m) \in SUBSET N /\ U(m) \cap ToSet(parts[m + 1]) = {}
    <3>1. U(m) \in SUBSET N
      BY <1>3, <2>4
    <3>2. \A j \in 1..m : ToSet(parts[j]) \cap ToSet(parts[m + 1]) = {}
      BY <1>4, <2>0, <2>4
    <3>3. U(m) \cap ToSet(parts[m + 1]) = {}
      BY <3>2, Zenon
    <3> QED
      BY <3>1, <3>3
  <2> HIDE DEF U
  <2>6. Total(lens, U(m + 1)) = Total(lens, U(m)) + t(m + 1)
    BY <1>2, <1>3, <2>0, <2>3, <2>5 DEF t
  <2>7. Total(lens, U(m)) \in Int /\ t(m + 1) \in Int
    BY <1>1, <1>5, <2>0, <2>5
  <2>8. t(m + 1) >= T + (IF m + 1 = i THEN M ELSE 0)
    BY <1>6, <2>0
  <2>9. (m + 1) * T = m * T + T /\ m * T \in Nat
    BY <2>0
  <2>10. (i <= m + 1) <=> (i <= m \/ m + 1 = i)
    BY <2>0
  <2>11. ~(i <= m /\ m + 1 = i)
    BY <2>0
  <2> QED
    BY <2>1, <2>6, <2>7, <2>8, <2>9, <2>10, <2>11
<1>10. G = Nat
  <2>1. G \in SUBSET Nat
    OBVIOUS
  <2> HIDE DEF G
  <2> QED
    BY <1>8, <1>9, <2>1, NatSetInduction
<1>11. Total(lens, U(k)) >= low(k)
  <2>1. k \in Nat /\ k <= k
    OBVIOUS
  <2>2. \A m \in G : m <= k => Total(lens, U(m)) >= low(m)
    OBVIOUS
  <2> HIDE DEF G, U, low
  <2> QED
    BY <1>10, <2>1, <2>2
<1>12. low(k) = k * T + M /\ k * T \in Nat
  OBVIOUS
<1>13. Total(lens, N) \in Int /\ Total(lens, N) <= k * T
  BY <1>1 DEF N
<1> HIDE DEF U, low
<1> QED
  BY <1>4, <1>11, <1>12, <1>13

\* The parts of a division, one after the other, hold every row once.
LEMMA PartsPermute ==
  ASSUME NEW lens \in Seq(Nat), NEW k \in Nat \ {0}, NEW M, NEW parts, Parts(parts, lens, k, M)
  PROVE  /\ parts \in Seq(Seq(1..Len(lens))) /\ Len(parts) = k
         /\ Permutes(FlattenSeq(parts), Len(lens))
<1> DEFINE D == 1..Len(lens)
<1>1. /\ parts \in [1..k -> Seq(D)]
      /\ \A i \in 1..k : IsInjective(parts[i])
      /\ \A i, j \in 1..k : i # j => ToSet(parts[i]) \cap ToSet(parts[j]) = {}
      /\ UNION {ToSet(parts[i]) : i \in 1..k} = D
  BY DEF Parts
<1> HIDE DEF D
<1>2. parts \in Seq(Seq(D)) /\ Len(parts) = k
  BY <1>1
<1>3. k \in 0..Len(parts)
  BY <1>2
<1>4. IsInjective(Joined(parts, k)) /\ ToSet(Joined(parts, k)) = D
  <2>1. /\ \A i \in 1..Len(parts) : IsInjective(parts[i])
        /\ \A i, j \in 1..Len(parts) : i # j => ToSet(parts[i]) \cap ToSet(parts[j]) = {}
    BY <1>1, <1>2
  <2>2. parts \in Seq(Seq(D))
    BY <1>2
  <2>3. \A j \in 0..Len(parts) : /\ IsInjective(Joined(parts, j))
                                 /\ ToSet(Joined(parts, j)) = UNION {ToSet(parts[i]) : i \in 1..j}
    BY <2>1, <2>2, JoinedParts
  <2> QED
    BY <1>1, <1>3, <2>3
<1>5. Joined(parts, k) \in Seq(D) /\ Joined(parts, k) = FlattenSeq(parts)
  BY <1>2, <1>3, Joining
<1> QED
  BY <1>2, <1>4, <1>5 DEF Permutes, D

LEMMA TotalIsNat ==
  ASSUME NEW lens \in Seq(Nat)
  PROVE  \A X \in SUBSET (1..Len(lens)) : Total(lens, X) \in Nat
<1> DEFINE D == 1..Len(lens)
           G == {X \in SUBSET D : Total(lens, X) \in Nat}
<1>0. Len(lens) \in Nat
  OBVIOUS
<1>1. IsFiniteSet(D) /\ \A y \in D : lens[y] \in Nat
  <2>1. IsFiniteSet(D)
    BY <1>0, FS_Interval
  <2> QED
    BY <2>1
<1>2. {} \in G
  BY LengthTotals
<1>3. \A X \in G : \A y \in D \ X : X \cup {y} \in G
  <2> SUFFICES ASSUME NEW X \in G, NEW y \in D \ X PROVE X \cup {y} \in G
    BY Zenon
  <2>1. Total(lens, X \cup {y}) = Total(lens, X) + lens[y]
    BY LengthTotals
  <2>2. Total(lens, X) \in Nat /\ lens[y] \in Nat /\ X \cup {y} \in SUBSET D
    BY <1>1
  <2> QED
    BY <2>1, <2>2
<1>4. G \in SUBSET (SUBSET D)
  OBVIOUS
<1>5. \A X \in SUBSET D : X \in G
  <2> HIDE DEF G, D
  <2> QED
    BY <1>1, <1>2, <1>3, <1>4, FiniteSetInduction
<1> QED
  BY <1>5

\* The micro-batches of rows, when there are at least as many as are counted for them.
LEMMA MicroCount ==
  ASSUME NEW lens \in Seq(Nat), lens # <<>>, \A i \in DOMAIN lens : lens[i] \in 1..MaxTokenLen
  PROVE  /\ Total(lens, 1..Len(lens)) \in Nat \ {0}
         /\ MicroBatchCount(lens, MaxTokenLen) \in Nat \ {0}
         /\ Total(lens, 1..Len(lens)) <= MicroBatchCount(lens, MaxTokenLen) * MaxTokenLen
<1> DEFINE total == Total(lens, 1..Len(lens))
<1>1. MaxTokenLen \in Nat \ {0} /\ Len(lens) \in Nat /\ 1 \in 1..Len(lens) /\ DOMAIN lens = 1..Len(lens)
  BY StepAssumption
<1>2. Sum(lens) = total
  BY <1>1, SumIsTotal
<1>3. total \in Nat \ {0}
  <2> DEFINE rest == (1..Len(lens)) \ {1}
  <2>1. rest \in SUBSET (1..Len(lens)) /\ 1 \in (1..Len(lens)) \ rest /\ rest \cup {1} = 1..Len(lens)
    BY <1>1
  <2> HIDE DEF rest
  <2>2. Total(lens, rest \cup {1}) = Total(lens, rest) + lens[1]
    BY <2>1, LengthTotals
  <2>3. Total(lens, rest) \in Nat
    BY <2>1, TotalIsNat
  <2>4. lens[1] \in Nat \ {0}
    <3>1. lens[1] \in 1..MaxTokenLen
      BY <1>1
    <3> QED
      BY <1>1, <3>1
  <2>5. total = Total(lens, rest) + lens[1]
    BY <2>1, <2>2
  <2> HIDE DEF total
  <2> QED
    BY <2>3, <2>4, <2>5
<1> HIDE DEF total
<1>4. MicroBatchCount(lens, MaxTokenLen) \in Nat \ {0} /\ total <= MicroBatchCount(lens, MaxTokenLen) * MaxTokenLen
  BY <1>1, <1>2, <1>3, CeilFacts DEF MicroBatchCount
<1> QED
  BY <1>3, <1>4 DEF total

LEMMA MicroFacts ==
  ASSUME NEW lens \in Seq(Nat), lens # <<>>, \A i \in DOMAIN lens : lens[i] \in 1..MaxTokenLen,
         NEW count \in Nat \ {0}, MicroBatchCount(lens, MaxTokenLen) <= count,
         NEW parts, parts = BalancedPartitions(lens, count, FALSE)
  PROVE  /\ parts \in Seq(Seq(1..Len(lens)))
         /\ Permutes(FlattenSeq(parts), Len(lens))
         /\ \A i \in DOMAIN parts : Sum(Reorder(lens, parts[i])) < MaxTokenLen + Max(ToSet(lens))
<1> DEFINE M == Max(ToSet(lens))
           total == Total(lens, 1..Len(lens))
<1>0. MaxTokenLen \in Nat \ {0} /\ Len(lens) \in Nat /\ 1 \in 1..Len(lens) /\ DOMAIN lens = 1..Len(lens)
  BY StepAssumption
<1>1. M \in Nat /\ \A i \in DOMAIN lens : lens[i] <= M
  BY MaxOfSeq
<1>2. M # 0 /\ M \in Nat \ {0}
  <2>1. lens[1] <= M /\ lens[1] \in 1..MaxTokenLen
    BY <1>0, <1>1
  <2> HIDE DEF M
  <2> QED
    BY <1>0, <1>1, <2>1
<1> HIDE DEF M
<1>3. Parts(parts, lens, count, M)
  <2>1. FALSE \in BOOLEAN /\ (FALSE => Len(lens) % count = 0)
    OBVIOUS
  <2>2. \A e \in BOOLEAN : (e => Len(lens) % count = 0) => Parts(BalancedPartitions(lens, count, e), lens, count, M)
    BY <1>1, BalancedPartitionsDivide
  <2>3. Parts(BalancedPartitions(lens, count, FALSE), lens, count, M)
    BY <2>1, <2>2
  <2> QED
    BY <2>3
<1>4. /\ parts \in Seq(Seq(1..Len(lens))) /\ Len(parts) = count
      /\ Permutes(FlattenSeq(parts), Len(lens))
  BY <1>3, PartsPermute
<1>6. total \in Nat \ {0} /\ total <= MicroBatchCount(lens, MaxTokenLen) * MaxTokenLen
      /\ MicroBatchCount(lens, MaxTokenLen) \in Nat \ {0}
  BY MicroCount
<1>7. total <= count * MaxTokenLen
  <2> DEFINE c == MicroBatchCount(lens, MaxTokenLen)
  <2> HIDE DEF total
  <2>1. c \in Nat \ {0} /\ total <= c * MaxTokenLen
    BY <1>6
  <2>2. c <= count
    OBVIOUS
  <2> HIDE DEF c
  <2>3. c * MaxTokenLen <= count * MaxTokenLen /\ c * MaxTokenLen \in Nat /\ count * MaxTokenLen \in Nat
    BY <1>0, <2>1, <2>2, MulMono
  <2> QED
    BY <1>6, <2>1, <2>3
<1>8. \A i \in 1..count : Total(lens, ToSet(parts[i])) < MaxTokenLen + M
  <2>1. MaxTokenLen \in Nat /\ Total(lens, 1..Len(lens)) <= count * MaxTokenLen
    BY <1>0, <1>7
  <2> QED
    BY <1>2, <1>3, <2>1, PartIsBounded
<1>9. ASSUME NEW i \in 1..count
      PROVE  Sum(Reorder(lens, parts[i])) = Total(lens, ToSet(parts[i]))
  <2>1. parts[i] \in Seq(1..Len(lens)) /\ IsInjective(parts[i])
    BY <1>3 DEF Parts
  <2> QED
    BY <2>1, SumOfPart
<1>10. DOMAIN parts = 1..count
  BY <1>3 DEF Parts
<1> QED
  BY <1>4, <1>8, <1>9, <1>10 DEF M

-------------------------------------
(* Invariants of the rows                                                   *)

\* What a row may be.
RowId == Task \X Nat \X Nat \X Nat
Rollout == [id : RowId, len : 1..MaxTokenLen, reward : {0, 1}, valid : BOOLEAN, fresh : BOOLEAN,
            uid : Task \cup {None}, logp : RowId \cup {None}, adv : Int, mask : BOOLEAN]

\* The candidates of the update are the first ones of the permutation, each one once.
Attempting ==
    /\ DOMAIN sampler = DOMAIN NewSampler
    /\ sampler.order \in Seq(Task) /\ IsInjective(sampler.order)
    /\ sampler.cursor \in 0..Len(sampler.order)
    /\ sampler.attempted = SubSeq(sampler.order, 1, sampler.cursor)
    /\ sampler.informative \in Nat

\* What the driver asks of the engines: the prompts, and the rollouts of each.
Sent == IF phase = "validate" THEN Pad(ValidationPrompts, World)
        ELSE IF cfg.stage1b THEN Pad(<<Last(sampler.attempted)>>, World)
        ELSE cfg.prompts
SentN == IF phase # "validate" /\ cfg.stage1b THEN cfg.n \div World ELSE cfg.n
Ask == [sent |-> Sent, n |-> SentN, share |-> Len(Sent) \div World, dp |-> cfg.dp, tp |-> cfg.tp]

\* The rows of a rank, and those of a replica.
Part(a) == a.share * a.n
Width(a) == a.tp * Part(a)

\* Row number j of all that are asked for.
RowAt(x, j, a) ==
    /\ x \in Rollout /\ x.logp = None
    /\ x.id[1] = a.sent[((j - 1) \div a.n) + 1]
    /\ x.id[2] * Width(a) + x.id[4] = j

\* The m rows after the first k.
RowsAt(rows, k, m, a) ==
    rows \in Seq(Rollout) /\ Len(rows) = m /\ \A i \in 1..m : RowAt(rows[i], k + i, a)

Generates(w, r, a) ==
    /\ w.pc \in Syncing \cup {"gather"} => w.rows = Chunk(a.sent, a.dp * a.tp)[r + 1] /\ w.n = a.n
    /\ w.pc \in {"generate", "post"} => w.rows = Chunk(a.sent, a.dp)[(r \div a.tp) + 1] /\ w.n = a.n
    /\ w.pc = "post" /\ r % a.tp = 0 => RowsAt(w.out, (r \div a.tp) * Width(a), Width(a), a)
    /\ w.pc \in {"exit", "returned"} => RowsAt(w.out, r * Part(a), Part(a), a)

Asking == calling /\ phase \in {"generate", "validate"}

\* Every rank gets equally many prompts.
Even(a) ==
    /\ a.dp \in Nat \ {0} /\ a.tp \in Nat \ {0} /\ a.n \in Nat \ {0}
    /\ Blocked(a.sent, Task, a.dp * a.tp, a.share)

GenerationInv == Asking => Even(Ask) /\ \A r \in Rank : Generates(worker[r], r, Ask)

\* Rows of complete groups, in any order.
GroupIn(rows, i) == {j \in DOMAIN rows : TaskOf(rows[j]) = TaskOf(rows[i])}
HasSignal(rows, group) ==
    \E j, k \in group : /\ rows[j].valid /\ rows[j].reward = 1
                        /\ rows[k].valid /\ rows[k].reward = 0

Complete(rows, c) ==
    /\ rows \in Seq(Rollout)
    /\ \A i, j \in DOMAIN rows : rows[i].id = rows[j].id => i = j
    /\ \A i \in DOMAIN rows :
          /\ rows[i].uid = TaskOf(rows[i])
          /\ Cardinality(GroupIn(rows, i)) = c.n
          /\ c.stage1b => HasSignal(rows, GroupIn(rows, i))

\* The tasks whose groups were received.
Received(s, count) == ToSet(SubSeq(s.order, 1, count))

AcceptedInv ==
    cfg.stage1b /\ phase = "generate" =>
        /\ calling => sampler.cursor # 0
        /\ calling \/ sampler.informative # 0 => cfg.n % World = 0
        /\ Complete(accepted, cfg)
        /\ Len(accepted) = sampler.informative * cfg.n
        /\ \A i \in DOMAIN accepted :
              /\ accepted[i].logp = None
              /\ TaskOf(accepted[i]) \in
                     Received(sampler, IF calling THEN sampler.cursor - 1 ELSE sampler.cursor)

\* Rows that divide over the ranks.
Shared(rows, world) == Blocked(rows, Rollout, world, Len(rows) \div world)

\* The masks of the rows that Stage1B trains on.
MasksFit(rows, c) == c.stage1b => \A i \in DOMAIN rows : rows[i].mask = rows[i].valid

\* What the advantages of complete groups are.
Compared(rows, c) ==
    \A i \in DOMAIN rows :
        /\ c.n > 1 => MapThenSumSet(LAMBDA j : rows[j].adv, GroupIn(rows, i)) = 0
        /\ c.stage1b =>
              /\ ~rows[i].valid => rows[i].adv = 0
              /\ \E j, k \in GroupIn(rows, i) : /\ rows[j].valid /\ rows[j].adv > 0
                                                /\ rows[k].valid /\ rows[k].adv < 0

Ready(rows, c, world) ==
    /\ Complete(rows, c) /\ MasksFit(rows, c) /\ Shared(rows, world) /\ Compared(rows, c)
    /\ \A i \in DOMAIN rows : rows[i].logp = rows[i].id

BatchInv ==
    /\ phase \in {"generate", "log_prob", "update", "validate", "done", "failed"}
    /\ phase = "generate" => batch = <<>>
    /\ phase = "validate" => cfg.validation # <<>>
    /\ phase = "log_prob" =>
          /\ Complete(batch, cfg) /\ MasksFit(batch, cfg) /\ Shared(batch, World)
          /\ \A i \in DOMAIN batch : batch[i].logp = None
    /\ phase = "update" => Ready(batch, cfg, World)
    /\ phase \in {"validate", "done", "failed"} => batch = <<>> \/ Ready(batch, cfg, World)
    /\ \A i \in DOMAIN validated : validated[i].uid = TaskOf(validated[i])

\* The chunk of the batch that a rank trains on.
Mine(r) == Chunk(batch, World)[r + 1]
Ids(rows) == [i \in DOMAIN rows |-> rows[i].id]

\* The rows under way, in an update (up) or with the log probabilities.
Minis(w, up) == IF up THEN Split(w.rows, MiniBatch) ELSE <<w.rows>>
Now(w, up) == Minis(w, up)[w.mini]

\* Micro-batches of rows: each row is in one of them, and none is too long.
Bounded(micro, lens) ==
    \A i \in DOMAIN micro : Sum(Reorder(lens, micro[i])) < MaxTokenLen + Max(ToSet(lens))
Divides(micro, rows, dynamic) ==
    /\ micro \in Seq(Seq(1..Len(rows)))
    /\ Permutes(FlattenSeq(micro), Len(rows))
    /\ IF dynamic THEN Bounded(micro, Lens(rows)) ELSE FlattenSeq(micro) = [i \in 1..Len(rows) |-> i]

Trains(w, up, dynamic) ==
    /\ w.pc \in {"split", "forward"} => w.mini \in 1..Len(Minis(w, up))
    /\ w.pc = "forward" => Divides(w.micro, Now(w, up), dynamic) /\ w.forwards \in 0..Len(w.micro)

\* The rows of the passes that are done.
Passed(w, up) == Reorder(Now(w, up), Joined(w.micro, w.forwards))

\* A rank that recomputes log probabilities.
Recomputes(w) ==
    /\ w.pc = "split" => w.out = <<>>
    /\ w.pc = "forward" => w.out = Ids(Passed(w, FALSE))
    /\ w.pc = "returned" => w.out = Ids(w.rows)

\* The rows that were trained on are the first m of all.
TrainedFirst(trained, rows, m) ==
    /\ trained \in Seq(Rollout) /\ Len(trained) = m
    /\ ToSet(trained) = ToSet(SubSeq(rows, 1, m))

\* A rank that updates: the mini-batches it is through with, then the passes.
Propagates(w) ==
    /\ w.pc = "split" => TrainedFirst(w.trained, w.rows, (w.mini - 1) * MiniBatch)
    /\ w.pc = "forward" =>
          \E earlier \in Seq(Rollout) :
              /\ TrainedFirst(earlier, w.rows, (w.mini - 1) * MiniBatch)
              /\ w.trained = earlier \o Passed(w, TRUE)
    /\ w.pc = "returned" => TrainedFirst(w.trained, w.rows, Len(w.rows))

TrainingInv ==
    calling =>
        /\ phase = "log_prob" =>
               \A r \in Rank : /\ worker[r].rows = Mine(r)
                               /\ Trains(worker[r], FALSE, cfg.dynamic) /\ Recomputes(worker[r])
        /\ phase = "update" =>
               \A r \in Rank : /\ worker[r].rows = Mine(r)
                               /\ Trains(worker[r], TRUE, cfg.dynamic) /\ Propagates(worker[r])

TrainedInv ==
    /\ (phase \in {"generate", "log_prob"} \/ (phase = "update" /\ ~calling)) =>
           \A r \in Rank : worker[r].trained = <<>>
    /\ phase \in {"validate", "done"} =>
           \/ batch = <<>> /\ \A r \in Rank : worker[r].trained = <<>>
           \/ batch # <<>> /\ \A r \in Rank : TrainedFirst(worker[r].trained, Mine(r), Len(Mine(r)))

-------------------------------------
(* How a generation divides and joins rows                                  *)

LEMMA PlaceInside ==
  ASSUME NEW n \in Nat, NEW w \in Nat, NEW i \in 1..n, NEW j \in 1..w
  PROVE  (i - 1) * w + j \in 1..(n * w)
<1>1. (i - 1) * w \in Nat /\ n * w \in Nat /\ i * w \in Nat
  OBVIOUS
<1>2. i * w <= n * w
  BY MulMono
<1>3. i * w = (i - 1) * w + w
  OBVIOUS
<1> QED
  BY <1>1, <1>2, <1>3

LEMMA DivShift == \A a, b \in Nat : \A n \in Nat \ {0} : (a * n + b) \div n = a + b \div n
OBVIOUS

LEMMA ProductsAgree == \A a, b, c \in Nat : a * (b * c) = (a * b) * c
OBVIOUS

\* The numbers of a generation.
LEMMA EvenFacts ==
  ASSUME NEW a, Even(a)
  PROVE  /\ a.dp \in Nat \ {0} /\ a.tp \in Nat \ {0} /\ a.n \in Nat \ {0} /\ a.share \in Nat \ {0}
         /\ a.dp * a.tp \in Nat \ {0} /\ a.tp * a.share \in Nat \ {0}
         /\ Part(a) \in Nat \ {0} /\ Width(a) \in Nat \ {0}
         /\ Width(a) = (a.tp * a.share) * a.n
         /\ Blocked(a.sent, Task, a.dp * a.tp, a.share)
         /\ Blocked(a.sent, Task, a.dp, a.tp * a.share)
<1> DEFINE dp == a.dp  tp == a.tp  n == a.n  share == a.share
<1>1. dp \in Nat \ {0} /\ tp \in Nat \ {0} /\ n \in Nat \ {0}
      /\ Blocked(a.sent, Task, dp * tp, share)
  BY DEF Even
<1>2. share \in Nat \ {0} /\ a.sent \in Seq(Task) /\ Len(a.sent) = (dp * tp) * share
  BY <1>1 DEF Blocked
<1>3. Part(a) = share * n /\ Width(a) = tp * (share * n)
  BY DEF Part, Width
<1> HIDE DEF dp, tp, n, share
<1>4. \A x, y \in Nat \ {0} : x * y \in Nat \ {0}
  OBVIOUS
<1>5. dp * tp \in Nat \ {0} /\ tp * share \in Nat \ {0} /\ share * n \in Nat \ {0} /\ tp * (share * n) \in Nat \ {0}
  BY <1>1, <1>2, <1>4
<1>6. tp * (share * n) = (tp * share) * n /\ (dp * tp) * share = dp * (tp * share)
  BY <1>1, <1>2, ProductsAgree
<1>7. Blocked(a.sent, Task, dp, tp * share)
  BY <1>1, <1>2, <1>5, <1>6 DEF Blocked
<1> QED
  BY <1>1, <1>2, <1>3, <1>5, <1>6, <1>7 DEF dp, tp, n, share

\* The chunks of the ranks of a replica make up its prompts.
LEMMA JoinReplica ==
  ASSUME NEW a, Even(a), NEW d \in 0..a.dp - 1
  PROVE  FlattenSeq([i \in 1..a.tp |-> Chunk(a.sent, a.dp * a.tp)[d * a.tp + i]]) = Chunk(a.sent, a.dp)[d + 1]
<1> DEFINE S == Task
           x == a.sent
           dp == a.dp
           tp == a.tp
           w == a.share
           seqs == [i \in 1..tp |-> Chunk(x, dp * tp)[d * tp + i]]
           y == Chunk(x, dp)[d + 1]
<1>0. dp \in Nat \ {0} /\ tp \in Nat \ {0} /\ Blocked(x, S, dp * tp, w) /\ d \in 0..dp - 1
  BY EvenFacts
<1> HIDE DEF S, x, dp, tp, w
<1>1. w \in Nat \ {0} /\ dp * tp \in Nat \ {0} /\ x \in Seq(S) /\ Len(x) = (dp * tp) * w
  <2>1. w \in Nat \ {0} /\ x \in Seq(S) /\ Len(x) = (dp * tp) * w
    BY <1>0 DEF Blocked
  <2>2. dp * tp \in Nat \ {0}
    BY <1>0
  <2> QED
    BY <2>1, <2>2
<1>2. tp * w \in Nat \ {0} /\ (dp * tp) * w = dp * (tp * w)
  BY <1>0, <1>1
<1>3. Blocked(x, S, dp, tp * w)
  BY <1>0, <1>1, <1>2 DEF Blocked
<1>4. BlocksOf(Chunk(x, dp * tp), x, S, dp * tp, w)
  BY <1>0, <1>1, ChunkIs
<1>5. BlocksOf(Chunk(x, dp), x, S, dp, tp * w)
  BY <1>0, <1>3, ChunkIs
<1>6. d + 1 \in 1..dp /\ \A i \in 1..tp : d * tp + i \in 1..(dp * tp)
  <2>1. d + 1 \in 1..dp /\ d + 1 - 1 = d
    BY <1>0
  <2>2. \A i \in 1..tp : (d + 1 - 1) * tp + i \in 1..(dp * tp)
    BY <1>0, <2>1, PlaceInside
  <2> QED
    BY <2>1, <2>2
<1>7. Blocked(y, S, tp, w)
  BY <1>0, <1>1, <1>5, <1>6 DEF Blocked, BlocksOf
<1>8. ASSUME NEW i \in 1..tp, NEW j \in 1..w
      PROVE  y[(i - 1) * w + j] = seqs[i][j]
  <2>1. seqs[i][j] = x[(d * tp + i - 1) * w + j]
    <3> DEFINE c == Chunk(x, dp * tp)
    <3>1. \A l \in 1..(dp * tp) : \A m \in 1..w : x[(l - 1) * w + m] = c[l][m]
      BY <1>4 DEF BlocksOf
    <3>2. seqs[i] = c[d * tp + i]
      OBVIOUS
    <3> HIDE DEF c, seqs
    <3> QED
      BY <1>0, <1>6, <3>1, <3>2
  <2>2. (i - 1) * w + j \in 1..(tp * w)
    BY <1>0, <1>1, PlaceInside
  <2>3. y[(i - 1) * w + j] = x[(d + 1 - 1) * (tp * w) + ((i - 1) * w + j)]
    BY <1>5, <1>6, <2>2 DEF BlocksOf
  <2>4. (d * tp + i - 1) * w + j = (d + 1 - 1) * (tp * w) + ((i - 1) * w + j)
    <3>1. \A q, b, c, e \in Int : (q * b + c) * e = q * (b * e) + c * e
      OBVIOUS
    <3>2. (d * tp + (i - 1)) * w = d * (tp * w) + (i - 1) * w
      BY <1>0, <1>1, <3>1
    <3>3. d * tp + i - 1 = d * tp + (i - 1) /\ d + 1 - 1 = d
      OBVIOUS
    <3>4. d * (tp * w) \in Int /\ (i - 1) * w \in Int
      BY <1>0, <1>1
    <3> QED
      BY <3>2, <3>3, <3>4
  <2> QED
    BY <2>1, <2>3, <2>4
<1>9. BlocksOf(seqs, y, S, tp, w)
  <2>1. \A i \in 1..tp : seqs[i] \in Seq(S) /\ Len(seqs[i]) = w
    BY <1>4, <1>6 DEF BlocksOf
  <2> QED
    BY <1>0, <1>1, <1>8, <2>1 DEF BlocksOf
<1> HIDE DEF seqs, y
<1>10. FlattenSeq(seqs) = y
  BY <1>7, <1>9, BlocksFlatten
<1> QED
  BY <1>10 DEF seqs, y, S, x, dp, tp, w

\* The prompts of a replica.
LEMMA ReplicaPrompts ==
  ASSUME NEW a, Even(a), NEW d \in 0..a.dp - 1
  PROVE  /\ Chunk(a.sent, a.dp)[d + 1] \in Seq(Task)
         /\ Len(Chunk(a.sent, a.dp)[d + 1]) = a.tp * a.share
         /\ \A p \in 1..(a.tp * a.share) :
               Chunk(a.sent, a.dp)[d + 1][p] = a.sent[d * (a.tp * a.share) + p]
<1> DEFINE dp == a.dp  L == a.tp * a.share  c == Chunk(a.sent, dp)
<1>1. dp \in Nat \ {0} /\ L \in Nat \ {0} /\ Blocked(a.sent, Task, dp, L)
  BY EvenFacts
<1>2. BlocksOf(c, a.sent, Task, dp, L)
  <2> HIDE DEF dp, L
  <2> QED
    BY <1>1, ChunkIs
<1>3. /\ c \in [1..dp -> Seq(Task)] /\ \A i \in 1..dp : Len(c[i]) = L
      /\ \A i \in 1..dp : \A j \in 1..L : a.sent[(i - 1) * L + j] = c[i][j]
  BY <1>2 DEF BlocksOf
<1> HIDE DEF dp, L, c
<1>4. d + 1 \in 1..dp /\ d + 1 - 1 = d
  BY <1>1 DEF dp
<1>5. c[d + 1] \in Seq(Task) /\ Len(c[d + 1]) = L
  BY <1>3, <1>4
<1>6. \A p \in 1..L : c[d + 1][p] = a.sent[d * L + p]
  BY <1>3, <1>4
<1> QED
  BY <1>5, <1>6 DEF dp, L, c

\* The rows that the engine of replica d gives for its prompts.
Rolled(prompts, d, n, o, f) ==
    [i \in 1..Len(prompts) * n |->
        LET p == ((i - 1) \div n) + 1
            x == o[((i - 1) % Len(o)) + 1] IN
        [id |-> <<prompts[p], d, p, i>>, len |-> x.len, reward |-> x.reward,
         valid |-> x.valid, fresh |-> f, uid |-> None, logp |-> None,
         adv |-> 0, mask |-> TRUE]]

LEMMA RolledRows ==
  ASSUME NEW a, Even(a), NEW d \in 0..a.dp - 1, NEW o \in Outcomes, NEW f \in BOOLEAN,
         NEW prompts, prompts = Chunk(a.sent, a.dp)[d + 1]
  PROVE  RowsAt(Rolled(prompts, d, a.n, o, f), d * Width(a), Width(a), a)
<1> DEFINE n == a.n
           L == a.tp * a.share
           W == Width(a)
           sent == a.sent
           out == Rolled(prompts, d, n, o, f)
<1>1. n \in Nat \ {0} /\ L \in Nat \ {0} /\ W = L * n /\ W \in Nat
  BY EvenFacts
<1>2. prompts \in Seq(Task) /\ Len(prompts) = L /\ \A p \in 1..L : prompts[p] = sent[d * L + p]
  BY ReplicaPrompts
<1>3. o \in Seq(Outcome) /\ Len(o) \in Nat \ {0}
  BY StepAssumption
<1>4. d \in Nat
  BY EvenFacts
<1> HIDE DEF n, L, W, sent
<1>5. ASSUME NEW i \in 1..L * n
      PROVE  RowAt(out[i], d * W + i, a)
  <2> DEFINE p == ((i - 1) \div n) + 1
             x == o[((i - 1) % Len(o)) + 1]
  <2>1. i - 1 \in Nat /\ L * n \in Nat /\ i - 1 < L * n /\ i \in Nat
    BY <1>1
  <2>2. (i - 1) \div n \in Nat /\ (i - 1) \div n < L
    BY <1>1, <2>1, DivFacts, DivBound
  <2>3. p \in 1..L /\ p \in Nat
    BY <1>1, <2>2
  <2>4. x \in Outcome
    <3>1. (i - 1) % Len(o) \in 0..Len(o) - 1
      BY <1>3, <2>1, DivFacts
    <3>2. ((i - 1) % Len(o)) + 1 \in 1..Len(o)
      BY <1>3, <3>1
    <3> QED
      BY <1>3, <3>2, ElementOfSeq
  <2>5. x.len \in 1..MaxTokenLen /\ x.reward \in {0, 1} /\ x.valid \in BOOLEAN
    BY <2>4 DEF Outcome
  <2>6. out[i] = [id |-> <<prompts[p], d, p, i>>, len |-> x.len, reward |-> x.reward,
                  valid |-> x.valid, fresh |-> f, uid |-> None, logp |-> None,
                  adv |-> 0, mask |-> TRUE]
    BY <1>2 DEF Rolled
  <2>7. prompts[p] \in Task /\ prompts[p] = sent[d * L + p]
    BY <1>2, <2>3, ElementOfSeq
  <2>8. d * L + p = (((d * W + i) - 1) \div n) + 1
    <3>1. d * L \in Nat /\ (d * L) * n = d * W
      BY <1>1, <1>4, ProductsAgree
    <3>2. ((d * L) * n + (i - 1)) \div n = d * L + (i - 1) \div n
      BY <1>1, <2>1, <3>1, DivShift
    <3>3. (d * L) * n + (i - 1) = (d * W + i) - 1
      BY <3>1, <2>1, <1>1, <1>4
    <3> QED
      BY <2>2, <3>1, <3>2, <3>3
  <2> HIDE DEF p, x, out
  <2>9. out[i] \in Rollout
    BY <1>4, <2>1, <2>3, <2>5, <2>6, <2>7 DEF Rollout, RowId
  <2>10. out[i].id[1] = sent[(((d * W + i) - 1) \div n) + 1]
    BY <2>6, <2>7, <2>8
  <2>11. out[i].logp = None /\ out[i].id[2] = d /\ out[i].id[4] = i
    BY <2>6
  <2>12. out[i].id[2] * W + out[i].id[4] = d * W + i
    BY <2>11
  <2>13. /\ out[i].id[1] = a.sent[(((d * W + i) - 1) \div a.n) + 1]
         /\ out[i].id[2] * Width(a) + out[i].id[4] = d * W + i
    BY <2>10, <2>12 DEF n, sent, W
  <2> QED
    BY <2>9, <2>11, <2>13, Zenon DEF RowAt
<1>6. DOMAIN out = 1..L * n /\ out = [i \in 1..L * n |-> out[i]]
  BY <1>2, Zenon DEF Rolled
<1> HIDE DEF out
<1>7. out \in Seq(Rollout) /\ Len(out) = W
  <2>1. \A i \in 1..L * n : out[i] \in Rollout
    BY <1>5 DEF RowAt
  <2>2. L * n \in Nat
    BY <1>1
  <2> QED
    BY <1>1, <1>6, <2>1, <2>2
<1>8. \A i \in 1..W : RowAt(out[i], d * W + i, a)
  BY <1>1, <1>5
<1> QED
  BY <1>7, <1>8 DEF RowsAt, W, out, n

\* The rows of a replica, divided over its ranks.
LEMMA DividedRows ==
  ASSUME NEW a, Even(a), NEW d \in 0..a.dp - 1, NEW t \in 0..a.tp - 1,
         NEW x, RowsAt(x, d * Width(a), Width(a), a)
  PROVE  RowsAt(Chunk(x, a.tp)[t + 1], (d * a.tp + t) * Part(a), Part(a), a)
<1> DEFINE tp == a.tp  P == Part(a)  W == Width(a)  c == Chunk(x, tp)
<1>1. tp \in Nat \ {0} /\ P \in Nat \ {0} /\ W = tp * P /\ d \in Nat /\ t \in Nat /\ t + 1 \in 1..tp
  BY EvenFacts DEF Width
<1>2. x \in Seq(Rollout) /\ Len(x) = W /\ \A i \in 1..W : RowAt(x[i], d * W + i, a)
  BY DEF RowsAt
<1> HIDE DEF tp, P, W
<1>3. Blocked(x, Rollout, tp, P)
  BY <1>1, <1>2 DEF Blocked
<1>4. BlocksOf(c, x, Rollout, tp, P)
  BY <1>1, <1>3, ChunkIs
<1> HIDE DEF c
<1>5. c[t + 1] \in Seq(Rollout) /\ Len(c[t + 1]) = P
  BY <1>1, <1>4 DEF BlocksOf
<1>6. ASSUME NEW j \in 1..P PROVE RowAt(c[t + 1][j], (d * tp + t) * P + j, a)
  <2>1. \A l \in 1..tp : \A m \in 1..P : x[(l - 1) * P + m] = c[l][m]
    BY <1>4 DEF BlocksOf
  <2>2. x[t * P + j] = c[t + 1][j]
    <3>1. (t + 1) - 1 = t
      BY <1>1
    <3>2. x[((t + 1) - 1) * P + j] = c[t + 1][j]
      BY <1>1, <2>1
    <3> QED
      BY <3>1, <3>2
  <2>3. t * P + j \in 1..W
    <3>1. ((t + 1) - 1) * P + j \in 1..(tp * P)
      BY <1>1, PlaceInside
    <3>2. (t + 1) - 1 = t
      BY <1>1
    <3> QED
      BY <1>1, <3>1, <3>2
  <2>4. d * W + (t * P + j) = (d * tp + t) * P + j
    <3>1. \A u, v, y, z \in Int : (u * v + y) * z = u * (v * z) + y * z
      OBVIOUS
    <3>2. (d * tp + t) * P = d * (tp * P) + t * P
      BY <1>1, <3>1
    <3>3. d * W \in Int /\ t * P \in Int
      BY <1>1
    <3> QED
      BY <1>1, <3>2, <3>3
  <2>5. RowAt(x[t * P + j], d * W + (t * P + j), a)
    BY <1>2, <2>3
  <2> QED
    BY <2>2, <2>4, <2>5
<1> QED
  BY <1>5, <1>6 DEF RowsAt, tp, P, c

\* What the driver collects.
LEMMA CollectedRows ==
  ASSUME NEW a, Even(a), NEW outs, outs = [i \in 1..a.dp * a.tp |-> outs[i]],
         \A i \in 1..a.dp * a.tp : RowsAt(outs[i], (i - 1) * Part(a), Part(a), a)
  PROVE  RowsAt(FlattenSeq(outs), 0, (a.dp * a.tp) * Part(a), a)
<1> DEFINE n == a.dp * a.tp  P == Part(a)  flat == FlattenSeq(outs)
<1>1. n \in Nat \ {0} /\ P \in Nat \ {0}
  BY EvenFacts
<1> HIDE DEF n, P
<1>2. \A i \in 1..n : RowsAt(outs[i], (i - 1) * P, P, a)
  BY DEF n, P
<1>3. \A i \in 1..n : outs[i] \in Seq(Rollout) /\ Len(outs[i]) = P
  BY <1>2 DEF RowsAt
<1>4. outs \in [1..n -> Seq(Rollout)]
  <2>1. outs = [i \in 1..n |-> outs[i]]
    BY DEF n
  <2> QED
    BY <1>3, <2>1
<1>5. Blocked(flat, Rollout, n, P) /\ BlocksOf(outs, flat, Rollout, n, P)
  BY <1>1, <1>3, <1>4, FlattenBlocks
<1> HIDE DEF flat
<1>6. flat \in Seq(Rollout) /\ Len(flat) = n * P
  BY <1>5 DEF Blocked
<1>7. ASSUME NEW q \in 1..(n * P) PROVE RowAt(flat[q], 0 + q, a)
  <2>1. PICK i \in 1..n, j \in 1..P : q = (i - 1) * P + j
    BY <1>1, PlaceOfBlock
  <2>2. flat[q] = outs[i][j]
    BY <1>5, <2>1 DEF BlocksOf
  <2>3. RowAt(outs[i][j], (i - 1) * P + j, a)
    BY <1>2, <2>1 DEF RowsAt
  <2>4. 0 + q = q
    BY <1>1
  <2> QED
    BY <2>1, <2>2, <2>3, <2>4, Zenon
<1> QED
  BY <1>6, <1>7, Zenon DEF RowsAt, n, P, flat

-------------------------------------
(* The rows of a generation                                                 *)

LEMMA AskStays ==
  ASSUME UNCHANGED <<cfg, phase, sampler>>
  PROVE  Ask' = Ask
<1>1. World' = World
  BY Still
<1>2. ValidationPrompts' = ValidationPrompts
  BY DEF ValidationPrompts
<1>3. Sent' = Sent /\ SentN' = SentN
  BY <1>1, <1>2 DEF Sent, SentN
<1> QED
  BY <1>1, <1>3 DEF Ask

LEMMA AskIs ==
  /\ Ask.dp = cfg.dp /\ Ask.tp = cfg.tp /\ Ask.sent = Sent /\ Ask.n = SentN
  /\ World = Ask.dp * Ask.tp
BY DEF Ask, World

\* What a step of the ranks has to show.
LEMMA GenerationStays ==
  ASSUME GenerationInv, UNCHANGED <<cfg, phase, calling, sampler>>,
         Asking /\ Even(Ask) /\ (\A r \in Rank : Generates(worker[r], r, Ask)) =>
             \A r \in Rank : Generates(worker'[r], r, Ask)
  PROVE  GenerationInv'
<1>1. Ask' = Ask /\ Rank' = Rank
  BY AskStays, Still
<1>2. Asking' = Asking
  BY DEF Asking
<1> QED
  BY <1>1, <1>2 DEF GenerationInv

\* The rollouts so far are those that are asked for.
LEMMA NotAsking == ~Asking' => GenerationInv'
BY DEF GenerationInv

\* The ranks synchronize the weights: none touches its prompts.
LEMMA SyncKeepsRows ==
  ASSUME FreshInv, Materialise \/ Entered \/ \E r \in Rank : EndOfPayload(r) \/ LoadChunk(r) \/ RefuseChunk(r)
  PROVE  /\ UNCHANGED <<cfg, sampler, accepted, batch, validated>>
         /\ \/ UNCHANGED <<phase, calling>>
            \/ phase' = "failed" /\ UNCHANGED <<worker, calling>>
         /\ \A r \in Rank :
               \/ worker'[r] = worker[r]
               \/ /\ worker[r].pc \in Syncing /\ worker'[r].pc \in Syncing \cup {"gather"}
                  /\ worker'[r].rows = worker[r].rows /\ worker'[r].n = worker[r].n
                  /\ worker'[r].trained = worker[r].trained
<1> USE Before
<1> DEFINE Kept(r) == \/ worker'[r] = worker[r]
                      \/ /\ worker[r].pc \in Syncing /\ worker'[r].pc \in Syncing \cup {"gather"}
                         /\ worker'[r].rows = worker[r].rows /\ worker'[r].n = worker[r].n
                         /\ worker'[r].trained = worker[r].trained
<1>1. CASE Materialise
  BY <1>1, Zenon DEF Materialise, AllAt, Syncing, Idle, driver
<1>2. CASE Entered
  BY <1>2 DEF Entered, AllAt, Moved, Syncing, Idle, driver
<1>3. ASSUME NEW r \in Rank, EndOfPayload(r)
      PROVE  UNCHANGED driver /\ \A q \in Rank : Kept(q)
  BY <1>3 DEF EndOfPayload, Moved, Syncing, Idle, driver
<1>4. ASSUME NEW r \in Rank, Loaded(r), worker[r].pc \in {"load", "last"}
      PROVE  \A q \in Rank : Kept(q)
  BY <1>4 DEF Loaded, Syncing, Idle
<1>5. ASSUME NEW r \in Rank, LoadChunk(r)
      PROVE  UNCHANGED driver /\ \A q \in Rank : Kept(q)
  BY <1>4, <1>5 DEF LoadChunk, driver
<1>6. ASSUME NEW r \in Rank, RefuseChunk(r)
      PROVE  /\ UNCHANGED <<cfg, sampler, accepted, batch, validated>>
             /\ \/ UNCHANGED <<phase, calling>>
                \/ phase' = "failed" /\ UNCHANGED <<worker, calling>>
             /\ \A q \in Rank : Kept(q)
  BY <1>4, <1>6 DEF RefuseChunk, Fails
<1> QED
  BY <1>1, <1>2, <1>3, <1>5, <1>6 DEF driver

LEMMA SyncKeepsGeneration ==
  ASSUME FreshInv, GenerationInv,
         Materialise \/ Entered \/ \E r \in Rank : EndOfPayload(r) \/ LoadChunk(r) \/ RefuseChunk(r)
  PROVE  GenerationInv'
<1>1. CASE phase' = "failed"
  BY <1>1, NotAsking DEF Asking
<1>2. CASE phase' # "failed"
  <2>1. UNCHANGED <<cfg, phase, calling, sampler>>
    BY <1>2, SyncKeepsRows
  <2>2. ASSUME NEW r \in Rank, Generates(worker[r], r, Ask)
        PROVE  Generates(worker'[r], r, Ask)
    <3>1. CASE worker'[r] = worker[r]
      BY <2>2, <3>1
    <3>2. CASE /\ worker[r].pc \in Syncing /\ worker'[r].pc \in Syncing \cup {"gather"}
               /\ worker'[r].rows = worker[r].rows /\ worker'[r].n = worker[r].n
      BY <2>2, <3>2 DEF Generates, Syncing
    <3> QED
      BY <3>1, <3>2, SyncKeepsRows
  <2> QED
    BY <2>1, <2>2, GenerationStays
<1> QED
  BY <1>1, <1>2

LEMMA GatherKeepsGeneration ==
  ASSUME FreshInv, GenerationInv, NEW d \in Replica, Gather(d)
  PROVE  GenerationInv'
<1> USE Before
<1> DEFINE seqs == [i \in 1..cfg.tp |-> worker[Source(d) + i - 1].rows]
           prompts == FlattenSeq(seqs)
           a == Ask
<1>1. /\ \A r \in Ranks(d) : worker[r].pc = "gather"
      /\ UNCHANGED <<cfg, phase, calling, sampler>>
  BY Zenon DEF Gather, AllAt, driver
<1>2. worker' = [r \in Rank |->
           IF r \notin Ranks(d) THEN worker[r]
           ELSE [worker[r] EXCEPT !.rows = prompts,
                                  !.pc = IF TpRank(r) = 0 THEN "generate" ELSE "post"]]
  BY Zenon DEF Gather
<1>3. ASSUME Asking, Even(Ask), \A r \in Rank : Generates(worker[r], r, Ask), NEW r \in Rank
      PROVE  Generates(worker'[r], r, Ask)
  <2>1. a.dp \in Nat \ {0} /\ a.tp \in Nat \ {0} /\ Blocked(a.sent, Task, a.dp * a.tp, a.share) /\ d \in 0..a.dp - 1
    <3>1. d \in 0..a.dp - 1
      BY AskIs DEF Replica
    <3> QED
      BY <1>3, <3>1, EvenFacts
  <2>2. ASSUME NEW i \in 1..a.tp
        PROVE  /\ Source(d) + i - 1 \in Ranks(d) /\ worker[Source(d) + i - 1].n = a.n
               /\ worker[Source(d) + i - 1].rows = Chunk(a.sent, a.dp * a.tp)[d * a.tp + i]
    <3>1. Source(d) + i - 1 \in Ranks(d)
      BY AskIs, RanksOf DEF FreshInv
    <3>2. Generates(worker[Source(d) + i - 1], Source(d) + i - 1, a) /\ worker[Source(d) + i - 1].pc = "gather"
      BY <1>1, <1>3, <3>1 DEF Ranks
    <3>3. /\ worker[Source(d) + i - 1].rows = Chunk(a.sent, a.dp * a.tp)[Source(d) + i - 1 + 1]
          /\ worker[Source(d) + i - 1].n = a.n
      BY <3>2 DEF Generates
    <3>4. Source(d) + i - 1 + 1 = d * a.tp + i
      <4>1. Source(d) = d * a.tp
        BY AskIs DEF Source
      <4>2. d * a.tp \in Int
        BY <2>1
      <4> QED
        BY <4>1, <4>2
    <3> QED
      BY <3>1, <3>3, <3>4
  <2>3. prompts = Chunk(a.sent, a.dp)[d + 1]
    <3>1. seqs = [i \in 1..a.tp |-> Chunk(a.sent, a.dp * a.tp)[d * a.tp + i]]
      BY <2>2, AskIs
    <3> HIDE DEF a, seqs
    <3>2. FlattenSeq([i \in 1..a.tp |-> Chunk(a.sent, a.dp * a.tp)[d * a.tp + i]]) = Chunk(a.sent, a.dp)[d + 1]
      BY <1>3, <2>1, JoinReplica DEF a
    <3> QED
      BY <3>1, <3>2, Zenon
  <2> HIDE DEF prompts
  <2>4. CASE r \notin Ranks(d)
    BY <1>2, <1>3, <2>4, Zenon
  <2>5. CASE r \in Ranks(d)
    <3>1. /\ worker'[r].pc = IF TpRank(r) = 0 THEN "generate" ELSE "post"
          /\ worker'[r].rows = prompts /\ worker'[r].n = worker[r].n
      BY <1>2, <2>5, Zenon DEF Idle
    <3>2. worker[r].n = a.n
      BY <1>1, <1>3, <2>5 DEF Generates
    <3>3. r \div a.tp = d /\ TpRank(r) = r % a.tp
      BY <2>5, AskIs DEF Ranks, ReplicaOf, TpRank
    <3>4. worker'[r].rows = Chunk(a.sent, a.dp)[(r \div a.tp) + 1] /\ worker'[r].n = a.n
      BY <2>3, <3>1, <3>2, <3>3
    <3>5. worker'[r].pc \in {"generate", "post"} /\ (worker'[r].pc = "post" => r % a.tp # 0)
      BY <3>1, <3>3
    <3> HIDE DEF a
    <3> QED
      BY <3>4, <3>5 DEF Generates, Syncing, a
  <2> QED
    BY <2>4, <2>5
<1> HIDE DEF a
<1> QED
  BY <1>1, <1>3, GenerationStays

LEMMA GenerateKeepsGeneration ==
  ASSUME FreshInv, GenerationInv, NEW d \in Replica, Generate(d)
  PROVE  GenerationInv'
<1> USE Before
<1> DEFINE s == Source(d)
           prompts == worker[s].rows
           n == worker[s].n
           fresh == \A t \in Tensors : engine[d][t] = version
<1>1. /\ worker[s].pc = "generate" /\ UNCHANGED <<cfg, phase, calling, sampler>>
  BY DEF Generate, driver
<1>2. PICK o \in Outcomes :
          worker' = [worker EXCEPT ![s].pc = "post", ![s].out = Rolled(prompts, d, n, o, fresh)]
  BY DEF Generate, Rolled
<1>3. ASSUME Asking, Even(Ask), \A r \in Rank : Generates(worker[r], r, Ask), NEW r \in Rank
      PROVE  Generates(worker'[r], r, Ask)
  <2>1. CASE r # s
    BY <1>2, <1>3, <2>1
  <2>2. CASE r = s
    <3>1. r \div Ask.tp = d /\ r % Ask.tp = 0
      BY <2>2, AskIs DEF ReplicaOf, TpRank
    <3>2. prompts = Chunk(Ask.sent, Ask.dp)[d + 1] /\ n = Ask.n
      BY <1>1, <1>3, <2>2, <3>1 DEF Generates
    <3>3. d \in 0..Ask.dp - 1
      BY AskIs DEF Replica
    <3>4. fresh \in BOOLEAN
      OBVIOUS
    <3>5. worker'[r].pc = "post" /\ worker'[r].rows = prompts /\ worker'[r].n = n
          /\ worker'[r].out = Rolled(prompts, d, n, o, fresh)
      BY <1>2, <2>2 DEF Idle
    <3> HIDE DEF prompts, fresh, n
    <3>6. RowsAt(Rolled(prompts, d, Ask.n, o, fresh), d * Width(Ask), Width(Ask), Ask)
      <4> DEFINE a == Ask
      <4>1. Even(a) /\ d \in 0..a.dp - 1 /\ fresh \in BOOLEAN /\ prompts = Chunk(a.sent, a.dp)[d + 1]
        BY <1>3, <3>2, <3>3, <3>4
      <4> HIDE DEF a
      <4>2. RowsAt(Rolled(prompts, d, a.n, o, fresh), d * Width(a), Width(a), a)
        BY <4>1, RolledRows
      <4> QED
        BY <4>2 DEF a
    <3>7. RowsAt(worker'[r].out, (r \div Ask.tp) * Width(Ask), Width(Ask), Ask)
      BY <3>1, <3>2, <3>5, <3>6
    <3>8. worker'[r].rows = Chunk(Ask.sent, Ask.dp)[(r \div Ask.tp) + 1] /\ worker'[r].n = Ask.n
      BY <3>1, <3>2, <3>5
    <3> QED
      BY <3>5, <3>7, <3>8 DEF Generates, Syncing
  <2> QED
    BY <2>1, <2>2
<1> QED
  BY <1>1, <1>3, GenerationStays

LEMMA PostprocessKeepsGeneration ==
  ASSUME FreshInv, GenerationInv, Postprocess
  PROVE  GenerationInv'
<1> USE Before
<1>1. /\ \A r \in Rank : worker[r].pc = "post"
      /\ UNCHANGED <<cfg, phase, calling, sampler>>
  BY Zenon DEF Postprocess, AllAt, driver
<1>2. \A r \in Rank : /\ worker'[r].pc = "exit"
                      /\ worker'[r].out = Chunk(worker[Source(ReplicaOf(r))].out, cfg.tp)[TpRank(r) + 1]
  BY Zenon DEF Postprocess, Idle
<1>3. ASSUME Asking, Even(Ask), \A r \in Rank : Generates(worker[r], r, Ask), NEW r \in Rank
      PROVE  Generates(worker'[r], r, Ask)
  <2> DEFINE a == Ask
             d == ReplicaOf(r)
             t == TpRank(r)
             x == worker[Source(d)].out
  <2>1. Source(d) \in Rank /\ d \in Replica /\ t \in 0..a.tp - 1 /\ r \in Nat
        /\ Source(d) \div a.tp = d /\ Source(d) % a.tp = 0
    <3>1. d \in Replica /\ t \in 0..cfg.tp - 1 /\ r \in Nat
      BY MeshFacts DEF FreshInv
    <3>2. Source(d) \in Rank /\ ReplicaOf(Source(d)) = d /\ TpRank(Source(d)) = 0
      BY <3>1
    <3> QED
      BY <3>1, <3>2, AskIs DEF ReplicaOf, TpRank
  <2>2. RowsAt(x, d * Width(a), Width(a), a)
    BY <1>1, <1>3, <2>1 DEF Generates
  <2>3. d \in 0..a.dp - 1
    BY <2>1, AskIs DEF Replica
  <2>4. a.tp \in Nat \ {0} /\ d * a.tp + t = r
    <3>1. a.tp \in Nat \ {0}
      BY <1>3, EvenFacts
    <3>2. d = r \div a.tp /\ t = r % a.tp
      BY AskIs DEF ReplicaOf, TpRank
    <3>3. \A u \in Nat : \A v \in Nat \ {0} : (u \div v) * v + (u % v) = u
      <4>1. \A u \in Nat : \A v \in Nat \ {0} : v * (u \div v) + (u % v) = u
        OBVIOUS
      <4>2. \A u \in Nat : \A v \in Nat \ {0} : v * (u \div v) = (u \div v) * v
        OBVIOUS
      <4> QED
        BY <4>1, <4>2
    <3> HIDE DEF d, t, a
    <3> QED
      BY <2>1, <3>1, <3>2, <3>3
  <2>5. worker'[r].pc = "exit" /\ worker'[r].out = Chunk(x, a.tp)[t + 1]
    BY <1>2, AskIs
  <2>6. Even(a)
    BY <1>3
  <2> HIDE DEF a, d, t, x
  <2>7. RowsAt(Chunk(x, a.tp)[t + 1], (d * a.tp + t) * Part(a), Part(a), a)
    BY <2>1, <2>2, <2>3, <2>6, DividedRows
  <2>8. RowsAt(worker'[r].out, r * Part(a), Part(a), a)
    BY <2>4, <2>5, <2>7
  <2> QED
    BY <2>5, <2>8 DEF Generates, Syncing, a
<1> QED
  BY <1>1, <1>3, GenerationStays

LEMMA ExitKeepsGeneration ==
  ASSUME FreshInv, GenerationInv, NEW r \in Rank, Exit(r)
  PROVE  GenerationInv'
<1> USE Before
<1>1. /\ worker[r].pc = "exit" /\ UNCHANGED <<cfg, phase, calling, sampler>>
  BY DEF Exit, driver
<1>2. \A q \in Rank : \/ worker'[q] = worker[q]
                      \/ /\ worker[q].pc = "exit" /\ worker'[q].pc = "returned"
                         /\ worker'[q].out = worker[q].out
  BY <1>1 DEF Exit, Moved, Idle
<1>3. ASSUME NEW q \in Rank, Generates(worker[q], q, Ask) PROVE Generates(worker'[q], q, Ask)
  BY <1>2, <1>3 DEF Generates, Syncing
<1> QED
  BY <1>1, <1>3, GenerationStays

\* The generation of rows leaves what was trained, and what the driver has.
LEMMA GenerationOnly ==
  ASSUME FreshInv, Postprocess \/ (\E d \in Replica : Gather(d) \/ Generate(d)) \/ \E r \in Rank : Exit(r)
  PROVE  /\ UNCHANGED <<cfg, phase, calling, sampler, accepted, batch, validated>>
         /\ \A r \in Rank : worker'[r].trained = worker[r].trained
         /\ calling /\ phase \in {"generate", "validate"}
<1> USE Before
<1>0. 0 \in Rank
  BY ConfigFacts DEF FreshInv, Rank
<1>1. CASE Postprocess
  <2>1. worker[0].pc = "post"
    BY <1>0, <1>1, Zenon DEF Postprocess, AllAt
  <2>2. calling /\ phase \in {"generate", "validate"}
    BY <1>0, <2>1, WhereAll DEF Generating
  <2>3. \A r \in Rank : worker'[r].trained = worker[r].trained
    BY <1>1, Zenon DEF Postprocess, Idle
  <2>4. UNCHANGED <<cfg, phase, calling, sampler, accepted, batch, validated>>
    BY <1>1, Zenon DEF Postprocess, driver
  <2> QED
    BY <2>2, <2>3, <2>4
<1>2. ASSUME NEW d \in Replica, Gather(d) \/ Generate(d)
      PROVE  /\ UNCHANGED <<cfg, phase, calling, sampler, accepted, batch, validated>>
             /\ \A r \in Rank : worker'[r].trained = worker[r].trained
             /\ calling /\ phase \in {"generate", "validate"}
  <2>1. worker[Source(d)].pc \in {"gather", "generate"}
    <3>1. Source(d) \in Ranks(d)
      BY DEF Ranks
    <3> QED
      BY <1>2, <3>1, Zenon DEF Gather, Generate, AllAt
  <2>2. calling /\ phase \in {"generate", "validate"}
    BY <2>1, WhereAll DEF Generating
  <2>3. \A r \in Rank : worker'[r].trained = worker[r].trained
    <3>1. CASE Gather(d)
      BY <3>1, Zenon DEF Gather, Idle
    <3>2. CASE Generate(d)
      <4> DEFINE Keeps == \A r \in Rank : worker'[r].trained = worker[r].trained
      <4>1. \A x : worker' = [worker EXCEPT ![Source(d)].pc = "post", ![Source(d)].out = x] => Keeps
        BY DEF Idle
      <4> HIDE DEF Keeps
      <4>2. \E x : worker' = [worker EXCEPT ![Source(d)].pc = "post", ![Source(d)].out = x]
        BY <3>2, Zenon DEF Generate
      <4>3. Keeps
        BY <4>1, <4>2, Zenon
      <4> QED
        BY <4>3 DEF Keeps
    <3> QED
      BY <1>2, <3>1, <3>2
  <2>4. UNCHANGED <<cfg, phase, calling, sampler, accepted, batch, validated>>
    BY <1>2, Zenon DEF Gather, Generate, driver
  <2> QED
    BY <2>2, <2>3, <2>4
<1>3. ASSUME NEW r \in Rank, Exit(r)
      PROVE  /\ UNCHANGED <<cfg, phase, calling, sampler, accepted, batch, validated>>
             /\ \A q \in Rank : worker'[q].trained = worker[q].trained
             /\ calling /\ phase \in {"generate", "validate"}
  <2>1. worker[r].pc = "exit"
    BY <1>3 DEF Exit
  <2>2. calling /\ phase \in {"generate", "validate"}
    BY <2>1, WhereAll
  <2>3. \A q \in Rank : worker'[q].trained = worker[q].trained
    BY <1>3 DEF Exit, Moved, Idle
  <2>4. UNCHANGED <<cfg, phase, calling, sampler, accepted, batch, validated>>
    BY <1>3 DEF Exit, driver
  <2> QED
    BY <2>2, <2>3, <2>4
<1> QED
  BY <1>1, <1>2, <1>3, Zenon

-------------------------------------
(* The candidates                                                           *)

LEMMA AttemptingInit == Init => Attempting
<1> SUFFICES ASSUME Init PROVE Attempting
  OBVIOUS
<1>1. sampler = BeginUpdate(NewSampler, 1)
  BY DEF Init
<1>2. /\ DOMAIN sampler = DOMAIN NewSampler /\ sampler.order = CandidateOrder[1] /\ sampler.cursor = 0
      /\ sampler.attempted = <<>> /\ sampler.informative = 0
  <2>1. sampler.order = CandidateOrder[1]
    BY <1>1 DEF BeginUpdate, NewSampler
  <2>2. sampler.cursor = 0 /\ DOMAIN sampler = DOMAIN NewSampler
    BY <1>1, Zenon DEF BeginUpdate, NewSampler
  <2>3. sampler.attempted = <<>> /\ sampler.informative = 0
    BY <1>1 DEF BeginUpdate, NewSampler
  <2> QED
    BY <2>1, <2>2, <2>3
<1>3. sampler.order \in Seq(Task) /\ IsInjective(sampler.order)
  BY <1>2, StepAssumption
<1>4. Len(sampler.order) \in Nat /\ SubSeq(sampler.order, 1, 0) = <<>>
  BY <1>3
<1> QED
  BY <1>2, <1>3, <1>4 DEF Attempting

\* Taking the next candidate.
LEMMA Taking ==
  ASSUME Attempting, HasCandidate(sampler), sampler' = TakeCandidate(sampler)
  PROVE  /\ Attempting' /\ Candidate(sampler) \in Task
         /\ sampler'.cursor = sampler.cursor + 1 /\ sampler'.order = sampler.order
         /\ sampler'.informative = sampler.informative
         /\ Last(sampler'.attempted) = Candidate(sampler)
<1> DEFINE order == sampler.order  c == sampler.cursor
<1>1. /\ order \in Seq(Task) /\ IsInjective(order) /\ c \in Nat /\ c < Len(order)
      /\ sampler.attempted = SubSeq(order, 1, c) /\ sampler.informative \in Nat
      /\ DOMAIN sampler = DOMAIN NewSampler
  BY DEF Attempting, HasCandidate
<1>2. /\ DOMAIN sampler' = DOMAIN sampler /\ sampler'.cursor = c + 1 /\ sampler'.order = order
      /\ sampler'.informative = sampler.informative
      /\ sampler'.attempted = Append(sampler.attempted, order[c + 1])
  BY <1>1 DEF TakeCandidate, Candidate, NewSampler
<1>3. Candidate(sampler) = order[c + 1]
  BY DEF Candidate
<1> HIDE DEF order, c
<1>4. /\ Append(SubSeq(order, 1, c), order[c + 1]) = SubSeq(order, 1, c + 1)
      /\ order[c + 1] \in Task /\ Len(order) \in Nat /\ c + 1 \in 0..Len(order)
      /\ Len(SubSeq(order, 1, c + 1)) = c + 1 /\ SubSeq(order, 1, c + 1)[c + 1] = order[c + 1]
  <2>1. order[c + 1] \in Task /\ Len(order) \in Nat /\ c + 1 \in 0..Len(order) /\ c \in 0..Len(order)
    BY <1>1, ElementOfSeq
  <2>2. /\ SubSeq(order, 1, c) \in Seq(Task) /\ Len(SubSeq(order, 1, c)) = c
        /\ \A i \in 1..c : SubSeq(order, 1, c)[i] = order[i]
    BY <1>1, <2>1, FirstOnes
  <2>3. /\ SubSeq(order, 1, c + 1) \in Seq(Task) /\ Len(SubSeq(order, 1, c + 1)) = c + 1
        /\ \A i \in 1..c + 1 : SubSeq(order, 1, c + 1)[i] = order[i]
    BY <1>1, <2>1, FirstOnes
  <2> QED
    BY <1>1, <2>1, <2>2, <2>3
<1>5. sampler'.attempted = SubSeq(order, 1, c + 1)
  BY <1>1, <1>2, <1>4
<1>6. Last(sampler'.attempted) = order[c + 1]
  BY <1>4, <1>5 DEF Last
<1>7. Attempting'
  BY <1>1, <1>2, <1>4, <1>5 DEF Attempting
<1> QED
  BY <1>2, <1>3, <1>4, <1>6, <1>7 DEF order, c

\* A group is recorded for the candidate that was taken.
LEMMA Recording ==
  ASSUME Attempting, NEW t, NEW g, sampler' = RecordGroup(sampler, t, g, 1)
  PROVE  /\ Attempting' /\ sampler'.cursor = sampler.cursor /\ sampler'.order = sampler.order
         /\ sampler'.attempted = sampler.attempted
         /\ sampler'.informative = sampler.informative + (IF ClassifyGroup(g) = "informative" THEN 1 ELSE 0)
<1>1. /\ sampler'.cursor = sampler.cursor /\ sampler'.order = sampler.order
      /\ sampler'.attempted = sampler.attempted
      /\ sampler'.informative = sampler.informative + (IF ClassifyGroup(g) = "informative" THEN 1 ELSE 0)
      /\ DOMAIN sampler' = DOMAIN sampler
  BY DEF RecordGroup, Attempting, NewSampler
<1> QED
  BY <1>1 DEF Attempting

\* Most steps leave the sampler alone.
LEMMA SamplerStays ==
  ASSUME [Next]_vars, ~RequestGroup, ~ReceiveGroup
  PROVE  sampler' = sampler
<1>1. CASE Driver
  BY <1>1 DEF Driver, EndCollection, RequestBatch, ReceiveBatch, RequestLogProb,
      ReceiveLogProb, RequestUpdate, ReceiveUpdate, RequestValidation, ReceiveValidation
<1>2. CASE Workers
  BY <1>2, Zenon DEF Workers, driver, Materialise, Entered, Postprocess, SplitMicroBatches, Forward,
      OptimizerStep, EndOfPayload, LoadChunk, RefuseChunk, Exit, RevertOrder, Gather, Generate
<1>3. CASE UNCHANGED vars
  BY <1>3 DEF vars
<1> QED
  BY <1>1, <1>2, <1>3 DEF Next

LEMMA AttemptingStep ==
  ASSUME Attempting, [Next]_vars
  PROVE  Attempting'
<1>1. CASE RequestGroup
  BY <1>1, Taking DEF RequestGroup
<1>2. CASE ReceiveGroup
  <2>1. PICK t, g : sampler' = RecordGroup(sampler, t, g, 1)
    BY <1>2 DEF ReceiveGroup
  <2> QED
    BY <2>1, Recording
<1>3. CASE ~RequestGroup /\ ~ReceiveGroup
  BY <1>3, SamplerStays DEF Attempting
<1> QED
  BY <1>1, <1>2, <1>3

LEMMA AttemptingSamples == Attempting => Sampling
BY DEF Attempting, Sampling

-------------------------------------
(* The driver asks for rows                                                 *)

LEMMA EvenBlocks ==
  ASSUME NEW S, NEW rows \in Seq(S), rows # <<>>, NEW n \in Nat \ {0}, Len(rows) % n = 0
  PROVE  Blocked(rows, S, n, Len(rows) \div n)
<1> DEFINE len == Len(rows)
           w == len \div n
<1>1. len \in Nat \ {0}
  OBVIOUS
<1>2. len % n = 0
  OBVIOUS
<1> HIDE DEF len
<1>3. w \in Nat /\ len = n * w
  <2>1. \A u \in Nat : \A v \in Nat \ {0} : u \div v \in Nat /\ u = v * (u \div v) + (u % v)
    OBVIOUS
  <2>2. w \in Nat /\ len = n * w + (len % n)
    BY <1>1, <2>1
  <2> HIDE DEF w
  <2>3. n * w \in Nat
    BY <2>2
  <2> QED
    BY <1>2, <2>2, <2>3
<1>4. w # 0
  <2>1. n * 0 = 0
    OBVIOUS
  <2> HIDE DEF w
  <2> QED
    BY <1>1, <1>3, <2>1
<1> HIDE DEF w
<1>5. w \in Nat \ {0} /\ Len(rows) = n * w
  BY <1>3, <1>4 DEF len
<1>6. Len(rows) \div n = w
  BY DEF w, len
<1> QED
  BY <1>5, <1>6, Zenon DEF Blocked

\* One row is padded to a copy for every rank.
LEMMA PadOne ==
  ASSUME NEW S, NEW x \in S, NEW n \in Nat \ {0}
  PROVE  /\ Pad(<<x>>, n) \in Seq(S) /\ Len(Pad(<<x>>, n)) = n
         /\ \A i \in 1..n : Pad(<<x>>, n)[i] = x
<1>1. Len(<<x>>) = 1 /\ <<x>> \in Seq(S)
  OBVIOUS
<1>2. (-1) % n = n - 1
  OBVIOUS
<1>3. Len(<<x>>) + PadSize(<<x>>, n) = n
  BY <1>1, <1>2 DEF PadSize
<1>4. \A i \in 1..n : ((i - 1) % 1) + 1 = 1
  OBVIOUS
<1>5. Pad(<<x>>, n) = [i \in 1..n |-> <<x>>[((i - 1) % Len(<<x>>)) + 1]]
  BY <1>3 DEF Pad
<1>6. \A i \in 1..n : Pad(<<x>>, n)[i] = x
  BY <1>1, <1>4, <1>5
<1>7. Pad(<<x>>, n) \in Seq(S)
  BY <1>1, PadType
<1> QED
  BY <1>3, <1>5, <1>6, <1>7

\* A call that has rows generated is under way: every rank has its prompts.
LEMMA Requested ==
  ASSUME FreshInv, cfg' = cfg, phase \in {"generate", "validate"}, Dispatch("sync", Ask'.sent, Ask'.n),
         Ask'.sent \in Seq(Task), Ask'.sent # <<>>, Ask'.n \in Nat \ {0},
         Ask'.share = Len(Ask'.sent) \div World, Ask'.dp = cfg.dp, Ask'.tp = cfg.tp
  PROVE  GenerationInv' /\ \A r \in Rank : worker'[r].trained = worker[r].trained
<1> DEFINE a == Ask'
<1>1. /\ Len(a.sent) % World = 0 /\ calling' = TRUE /\ phase' = phase
      /\ worker' = [r \in Rank |-> [Idle EXCEPT !.pc = "sync", !.rows = Chunk(a.sent, World)[r + 1],
                                                !.n = a.n, !.trained = worker[r].trained]]
  BY Zenon DEF Dispatch
<1>2. cfg.dp \in Nat \ {0} /\ cfg.tp \in Nat \ {0} /\ World \in Nat \ {0} /\ World = a.dp * a.tp
  <2>1. cfg \in Configs
    BY DEF FreshInv
  <2>2. cfg.dp \in Nat \ {0} /\ cfg.tp \in Nat \ {0} /\ World \in Nat \ {0}
    BY <2>1, ConfigFacts
  <2> QED
    BY <2>2 DEF World
<1>3. Blocked(a.sent, Task, World, a.share)
  <2>1. Blocked(a.sent, Task, World, Len(a.sent) \div World)
    <3> HIDE DEF a
    <3>1. a.sent \in Seq(Task) /\ a.sent # <<>> /\ Len(a.sent) % World = 0
      BY <1>1, Zenon DEF a
    <3> QED
      BY <1>2, <3>1, EvenBlocks
  <2> QED
    BY <2>1
<1>4. Even(a)
  BY <1>2, <1>3 DEF Even
<1>5. \A r \in Rank : /\ worker'[r].pc = "sync" /\ worker'[r].rows = Chunk(a.sent, World)[r + 1]
                      /\ worker'[r].n = a.n /\ worker'[r].trained = worker[r].trained
  BY <1>1, Zenon DEF Idle
<1> HIDE DEF a
<1>6. \A r \in Rank : Generates(worker'[r], r, a)
  BY <1>2, <1>5 DEF Generates, Syncing
<1>7. Rank' = Rank
  BY Still
<1>8. (\A r \in Rank : Generates(worker[r], r, Ask))'
  BY <1>6, <1>7 DEF a
<1>9. Even(Ask)'
  BY <1>4 DEF a
<1> QED
  BY <1>5, <1>8, <1>9 DEF GenerationInv

LEMMA RequestGroupAsks ==
  ASSUME FreshInv, Attempting, RequestGroup
  PROVE  /\ phase' = "failed" \/ GenerationInv'
         /\ \A r \in Rank : worker'[r].trained = worker[r].trained
<1> DEFINE x == Candidate(sampler)
           prompts == Pad(<<x>>, World)
<1>1. /\ ~calling /\ phase = "generate" /\ cfg.stage1b /\ HasCandidate(sampler)
      /\ sampler' = TakeCandidate(sampler) /\ cfg' = cfg
      /\ \/ cfg.n % Len(prompts) = 0 /\ Dispatch("sync", prompts, cfg.n \div Len(prompts))
         \/ Fails
  BY DEF RequestGroup, At
<1>2. x \in Task /\ Last(sampler'.attempted) = x
  BY <1>1, Taking
<1>3. World \in Nat \ {0} /\ cfg.n \in Nat \ {0} /\ World' = World
  BY <1>1, ConfigFacts, Still DEF FreshInv
<1>4. prompts \in Seq(Task) /\ Len(prompts) = World
  BY <1>2, <1>3, PadOne
<1>5. CASE Fails
  BY <1>5 DEF Fails
<1>6. CASE cfg.n % Len(prompts) = 0 /\ Dispatch("sync", prompts, cfg.n \div Len(prompts))
  <2>1. phase' = phase
    BY <1>6, Zenon DEF Dispatch
  <2>2. Sent' = prompts /\ SentN' = cfg.n \div World
    BY <1>1, <1>2, <1>3, <2>1 DEF Sent, SentN
  <2>3. /\ Ask'.sent = prompts /\ Ask'.n = cfg.n \div World
        /\ Ask'.share = Len(Ask'.sent) \div World /\ Ask'.dp = cfg.dp /\ Ask'.tp = cfg.tp
    BY <1>1, <1>3, <2>2 DEF Ask
  <2> HIDE DEF prompts
  <2>4. cfg.n \div World \in Nat \ {0}
    <3>1. cfg.n % World = 0
      BY <1>4, <1>6
    <3>2. \A u, v \in Nat \ {0} : u % v = 0 => u \div v \in Nat \ {0}
      OBVIOUS
    <3> QED
      BY <1>3, <3>1, <3>2
  <2>5. prompts # <<>>
    BY <1>3, <1>4
  <2>6. Dispatch("sync", Ask'.sent, Ask'.n)
    BY <1>4, <1>6, <2>3
  <2>7. Ask'.sent \in Seq(Task) /\ Ask'.sent # <<>> /\ Ask'.n \in Nat \ {0}
    BY <1>4, <2>3, <2>4, <2>5
  <2> QED
    BY <1>1, <2>3, <2>6, <2>7, Requested
<1> QED
  BY <1>1, <1>5, <1>6

LEMMA RequestBatchAsks ==
  ASSUME FreshInv, RequestBatch
  PROVE  /\ phase' = "failed" \/ GenerationInv'
         /\ \A r \in Rank : worker'[r].trained = worker[r].trained
<1>1. /\ ~calling /\ phase = "generate" /\ ~cfg.stage1b /\ cfg' = cfg /\ cfg \in Configs
      /\ Dispatch("sync", cfg.prompts, cfg.n) \/ Fails
  BY DEF RequestBatch, At, DispatchOrFail, FreshInv
<1>2. cfg.prompts \in Seq(Task) /\ cfg.prompts # <<>> /\ cfg.n \in Nat \ {0} /\ World' = World
  BY <1>1, ConfigFacts, StepAssumption, Still
<1>3. CASE Fails
  BY <1>3 DEF Fails
<1>4. CASE Dispatch("sync", cfg.prompts, cfg.n)
  <2>1. phase' = phase
    BY <1>4, Zenon DEF Dispatch
  <2>2. Sent' = cfg.prompts /\ SentN' = cfg.n
    BY <1>1, <1>2, <2>1 DEF Sent, SentN
  <2>3. /\ Ask'.sent = cfg.prompts /\ Ask'.n = cfg.n
        /\ Ask'.share = Len(Ask'.sent) \div World /\ Ask'.dp = cfg.dp /\ Ask'.tp = cfg.tp
    BY <1>1, <1>2, <2>2 DEF Ask
  <2>4. Dispatch("sync", Ask'.sent, Ask'.n)
    BY <1>4, <2>3
  <2>5. Ask'.sent \in Seq(Task) /\ Ask'.sent # <<>> /\ Ask'.n \in Nat \ {0}
    BY <1>2, <2>3
  <2> QED
    BY <1>1, <2>3, <2>4, <2>5, Requested
<1> QED
  BY <1>1, <1>3, <1>4

LEMMA RequestValidationAsks ==
  ASSUME FreshInv, RequestValidation, cfg.validation # <<>>
  PROVE  /\ GenerationInv'
         /\ \A r \in Rank : worker'[r].trained = worker[r].trained
<1> DEFINE rows == ValidationPrompts
           prompts == Pad(rows, World)
<1>1. /\ ~calling /\ phase = "validate" /\ cfg' = cfg /\ cfg \in Configs
      /\ Dispatch("sync", prompts, cfg.n)
  BY DEF RequestValidation, At, FreshInv
<1>2. /\ cfg.validation \in Seq(Task) /\ cfg.n \in Nat \ {0} /\ World \in Nat \ {0} /\ World' = World
  BY <1>1, ConfigFacts, Still
<1>3. rows \in Seq(Task) /\ Len(rows) \in Nat \ {0}
  <2>1. rows \in Seq(Task) /\ Len(rows) = Len(cfg.validation) * cfg.n
    BY <1>2, RepeatIs DEF ValidationPrompts
  <2>2. Len(cfg.validation) \in Nat \ {0}
    BY <1>2
  <2>3. \A u, v \in Nat \ {0} : u * v \in Nat \ {0}
    OBVIOUS
  <2> HIDE DEF rows
  <2> QED
    BY <1>2, <2>1, <2>2, <2>3
<1>4. prompts \in Seq(Task) /\ prompts # <<>>
  <2> HIDE DEF rows
  <2>1. /\ prompts \in Seq(Task) /\ PadSize(rows, World) \in Nat
        /\ Len(prompts) = Len(rows) + PadSize(rows, World)
    BY <1>2, <1>3, PadType
  <2> HIDE DEF prompts
  <2> QED
    BY <1>3, <2>1
<1>5. phase' = phase
  BY <1>1, Zenon DEF Dispatch
<1>6. ValidationPrompts' = rows
  BY <1>1 DEF ValidationPrompts
<1>7. Sent' = prompts /\ SentN' = cfg.n
  BY <1>1, <1>2, <1>5, <1>6 DEF Sent, SentN
<1>8. /\ Ask'.sent = prompts /\ Ask'.n = cfg.n
      /\ Ask'.share = Len(Ask'.sent) \div World /\ Ask'.dp = cfg.dp /\ Ask'.tp = cfg.tp
  BY <1>1, <1>2, <1>7 DEF Ask
<1> HIDE DEF prompts, rows
<1>9. Dispatch("sync", Ask'.sent, Ask'.n)
  BY <1>1, <1>8
<1>10. Ask'.sent \in Seq(Task) /\ Ask'.sent # <<>> /\ Ask'.n \in Nat \ {0}
  BY <1>2, <1>4, <1>8
<1> QED
  BY <1>1, <1>8, <1>9, <1>10, Requested

-------------------------------------
(* The driver has rows of all ranks                                         *)

LEMMA CollectRows ==
  ASSUME FreshInv, GenerationInv, phase \in {"generate", "validate"}, Collect
  PROVE  /\ Even(Ask) /\ RowsAt(Collected, 0, (Ask.dp * Ask.tp) * Part(Ask), Ask)
         /\ \A r \in Rank : worker'[r].trained = worker[r].trained
         /\ calling /\ calling' = FALSE
<1> DEFINE a == Ask  outs == [i \in 1..World |-> worker[i - 1].out]
<1>1. calling /\ calling' = FALSE /\ \A r \in Rank : worker[r].pc = "returned"
  BY DEF Collect
<1>2. \A r \in Rank : worker'[r].trained = worker[r].trained
  BY DEF Collect, Idle
<1>3. Even(a) /\ \A r \in Rank : Generates(worker[r], r, a)
  BY <1>1 DEF GenerationInv, Asking
<1>4. World = a.dp * a.tp /\ World \in Nat \ {0}
  BY AskIs, ConfigFacts DEF FreshInv
<1>5. ASSUME NEW i \in 1..World PROVE RowsAt(outs[i], (i - 1) * Part(a), Part(a), a)
  <2>1. i - 1 \in Rank
    BY <1>4 DEF Rank
  <2>2. RowsAt(worker[i - 1].out, (i - 1) * Part(a), Part(a), a)
    BY <1>1, <1>3, <2>1 DEF Generates
  <2> QED
    BY <2>2
<1>6. outs = [i \in 1..a.dp * a.tp |-> outs[i]]
  BY <1>4
<1> HIDE DEF a, outs
<1>7. RowsAt(FlattenSeq(outs), 0, (a.dp * a.tp) * Part(a), a)
  BY <1>3, <1>4, <1>5, <1>6, CollectedRows
<1>8. Collected = FlattenSeq(outs)
  BY DEF Collected, outs
<1> QED
  BY <1>1, <1>2, <1>3, <1>7, <1>8 DEF a

\* The fields of a row that its group is made of.
Carries(new, old) == new.id = old.id /\ new.valid = old.valid /\ new.reward = old.reward

LEMMA LabelledIs ==
  ASSUME NEW rows \in Seq(Rollout), NEW tasks, \A i \in 1..Len(rows) : tasks[i] \in Task
  PROVE  /\ Labelled(rows, tasks) \in Seq(Rollout) /\ Len(Labelled(rows, tasks)) = Len(rows)
         /\ \A i \in 1..Len(rows) : /\ Carries(Labelled(rows, tasks)[i], rows[i])
                                    /\ Labelled(rows, tasks)[i].uid = tasks[i]
                                    /\ Labelled(rows, tasks)[i].logp = rows[i].logp
<1> DEFINE new == Labelled(rows, tasks)
<1>1. new = [i \in 1..Len(rows) |-> [rows[i] EXCEPT !.uid = tasks[i]]]
  BY DEF Labelled
<1>2. ASSUME NEW i \in 1..Len(rows)
      PROVE  /\ [rows[i] EXCEPT !.uid = tasks[i]] \in Rollout
             /\ Carries([rows[i] EXCEPT !.uid = tasks[i]], rows[i])
             /\ [rows[i] EXCEPT !.uid = tasks[i]].uid = tasks[i]
             /\ [rows[i] EXCEPT !.uid = tasks[i]].logp = rows[i].logp
  <2>1. rows[i] \in Rollout /\ tasks[i] \in Task
    BY ElementOfSeq
  <2> QED
    BY <2>1 DEF Rollout, Carries
<1> HIDE DEF new
<1>3. \A i \in 1..Len(rows) : new[i] = [rows[i] EXCEPT !.uid = tasks[i]]
  BY <1>1
<1>4. new \in Seq(Rollout) /\ Len(new) = Len(rows)
  <2>1. \A i \in 1..Len(rows) : new[i] \in Rollout
    BY <1>2, <1>3
  <2>2. new = [i \in 1..Len(rows) |-> new[i]] /\ Len(rows) \in Nat
    BY <1>1
  <2> QED
    BY <2>1, <2>2
<1>5. \A i \in 1..Len(rows) : Carries(new[i], rows[i]) /\ new[i].uid = tasks[i] /\ new[i].logp = rows[i].logp
  BY <1>2, <1>3
<1> QED
  BY <1>4, <1>5 DEF new

\* Groups that follow each other, one for each prompt.
LEMMA GroupsOfPrompts ==
  ASSUME NEW sent \in Seq(Task), IsInjective(sent), NEW n \in Nat \ {0},
         NEW rows \in Seq(Rollout), Len(rows) = Len(sent) * n,
         \A j \in 1..Len(rows) : TaskOf(rows[j]) = sent[((j - 1) \div n) + 1]
  PROVE  \A i \in 1..Len(rows) : Cardinality(GroupIn(rows, i)) = n
<1> SUFFICES ASSUME NEW i \in 1..Len(rows) PROVE Cardinality(GroupIn(rows, i)) = n
  OBVIOUS
<1> DEFINE q(j) == (j - 1) \div n
           lo == q(i) * n
<1>1. Len(sent) \in Nat /\ Len(rows) \in Nat /\ DOMAIN rows = 1..Len(rows) /\ DOMAIN sent = 1..Len(sent)
  OBVIOUS
<1>2. ASSUME NEW j \in 1..Len(rows) PROVE q(j) \in Nat /\ q(j) < Len(sent)
  <2>1. j - 1 \in Nat /\ j - 1 < Len(sent) * n
    BY <1>1
  <2> QED
    BY <2>1, <1>1, DivFacts, DivBound
<1>3. \A u \in Nat : u = n * (u \div n) + (u % n) /\ u % n \in 0..n - 1
  OBVIOUS
<1>4. ASSUME NEW j \in 1..Len(rows)
      PROVE  q(j) = q(i) <=> j \in (lo + 1)..(lo + n)
  <2>1. j - 1 \in Nat /\ q(j) \in Nat /\ q(i) \in Nat /\ lo \in Nat
    BY <1>1, <1>2
  <2>2. j - 1 = n * q(j) + ((j - 1) % n) /\ (j - 1) % n \in 0..n - 1
    BY <1>3, <2>1
  <2>3. n * q(j) = q(j) * n
    BY <2>1
  <2>4. q(j) * n \in Nat
    BY <2>1
  <2>5. q(j) = q(i) => j \in (lo + 1)..(lo + n)
    <3> SUFFICES ASSUME q(j) = q(i) PROVE j \in (lo + 1)..(lo + n)
      OBVIOUS
    <3>1. n * q(j) = lo
      BY <2>3
    <3> HIDE DEF lo
    <3>2. j - 1 = lo + ((j - 1) % n)
      BY <2>2, <3>1
    <3> QED
      BY <2>1, <2>2, <3>2
  <2>6. ASSUME j \in (lo + 1)..(lo + n) PROVE q(j) = q(i)
    <3>1. j - 1 = q(i) * n + (j - 1 - lo) /\ j - 1 - lo \in Nat /\ j - 1 - lo < n
      BY <2>1, <2>6
    <3>2. \A a, b \in Nat : b < n => (a * n + b) \div n = a
      <4> SUFFICES ASSUME NEW a \in Nat, NEW b \in Nat, b < n PROVE (a * n + b) \div n = a
        OBVIOUS
      <4>1. b \div n \in Nat /\ b \div n < 1
        <5>1. b < 1 * n
          OBVIOUS
        <5> QED
          BY <5>1, DivFacts, DivBound
      <4>2. (a * n + b) \div n = a + b \div n
        BY DivShift
      <4> QED
        BY <4>1, <4>2
    <3>3. (q(i) * n + (j - 1 - lo)) \div n = q(i)
      BY <2>1, <3>1, <3>2
    <3> QED
      BY <3>1, <3>3
  <2> QED
    BY <2>5, <2>6
<1>5. ASSUME NEW j \in 1..Len(rows)
      PROVE  TaskOf(rows[j]) = TaskOf(rows[i]) <=> q(j) = q(i)
  <2>1. q(j) + 1 \in 1..Len(sent) /\ q(i) + 1 \in 1..Len(sent) /\ q(j) \in Nat /\ q(i) \in Nat
    BY <1>1, <1>2
  <2>2. TaskOf(rows[j]) = sent[q(j) + 1] /\ TaskOf(rows[i]) = sent[q(i) + 1]
    OBVIOUS
  <2> HIDE DEF q
  <2>3. sent[q(j) + 1] = sent[q(i) + 1] => q(j) + 1 = q(i) + 1
    BY <1>1, <2>1 DEF IsInjective
  <2> QED
    BY <2>1, <2>2, <2>3
<1>6. (lo + 1)..(lo + n) \subseteq 1..Len(rows)
  <2>1. (q(i) + 1) * n <= Len(sent) * n /\ (q(i) + 1) * n = lo + n /\ lo \in Nat
    <3>1. q(i) \in Nat /\ q(i) + 1 <= Len(sent)
      BY <1>1, <1>2
    <3> HIDE DEF q
    <3>0. q(i) + 1 \in Nat
      BY <3>1
    <3>2. (q(i) + 1) * n <= Len(sent) * n
      BY <1>1, <3>0, <3>1, MulMono
    <3> QED
      BY <3>1, <3>2
  <2> HIDE DEF lo
  <2> QED
    BY <1>1, <2>1
<1>7. GroupIn(rows, i) = (lo + 1)..(lo + n)
  <2> HIDE DEF q, lo
  <2> QED
    BY <1>1, <1>4, <1>5, <1>6 DEF GroupIn
<1>8. lo \in Nat
  BY <1>2
<1> HIDE DEF lo
<1>9. Cardinality((lo + 1)..(lo + n)) = n
  <2>1. lo + 1 \in Int /\ lo + n \in Int /\ lo + 1 <= lo + n /\ (lo + n) - (lo + 1) + 1 = n
    BY <1>8
  <2>2. Cardinality((lo + 1)..(lo + n)) = (lo + n) - (lo + 1) + 1
    BY <2>1, FS_Interval
  <2> QED
    BY <2>1, <2>2
<1> QED
  BY <1>7, <1>9

LEMMA RowsDistinct ==
  ASSUME NEW a, NEW m, NEW rows, RowsAt(rows, 0, m, a), m \in Nat
  PROVE  /\ rows \in Seq(Rollout) /\ Len(rows) = m
         /\ \A i, j \in 1..m : rows[i].id = rows[j].id => i = j
         /\ \A i \in 1..m : rows[i].logp = None /\ TaskOf(rows[i]) = a.sent[((i - 1) \div a.n) + 1]
<1>1. /\ rows \in Seq(Rollout) /\ Len(rows) = m
      /\ \A i \in 1..m : RowAt(rows[i], 0 + i, a)
  BY DEF RowsAt
<1>2. \A i \in 1..m : 0 + i = i
  OBVIOUS
<1>3. \A i \in 1..m : RowAt(rows[i], i, a)
  BY <1>1, <1>2
<1>4. \A i \in 1..m : rows[i].id[2] * Width(a) + rows[i].id[4] = i
  BY <1>3 DEF RowAt
<1>5. \A i \in 1..m : rows[i].logp = None /\ TaskOf(rows[i]) = a.sent[((i - 1) \div a.n) + 1]
  BY <1>3 DEF RowAt, TaskOf
<1>6. ASSUME NEW i \in 1..m, NEW j \in 1..m, rows[i].id = rows[j].id PROVE i = j
  <2>1. rows[i].id[2] * Width(a) + rows[i].id[4] = rows[j].id[2] * Width(a) + rows[j].id[4]
    BY <1>6
  <2> QED
    BY <1>4, <2>1, Zenon
<1> QED
  BY <1>1, <1>5, <1>6

\* Complete rows, with other fields changed.
LEMMA CompleteCarries ==
  ASSUME NEW old, NEW c, Complete(old, c), NEW new \in Seq(Rollout), Len(new) = Len(old),
         \A i \in 1..Len(old) : Carries(new[i], old[i]) /\ new[i].uid = old[i].uid
  PROVE  /\ Complete(new, c)
         /\ \A i \in 1..Len(old) : GroupIn(new, i) = GroupIn(old, i)
<1>1. DOMAIN new = 1..Len(old) /\ DOMAIN old = 1..Len(old) /\ old \in Seq(Rollout)
  BY DEF Complete
<1>2. \A i \in 1..Len(old) : /\ new[i].id = old[i].id /\ new[i].uid = old[i].uid
                             /\ new[i].valid = old[i].valid /\ new[i].reward = old[i].reward
  BY DEF Carries
<1>3. \A i \in 1..Len(old) : TaskOf(new[i]) = TaskOf(old[i])
  BY <1>2 DEF TaskOf
<1>4. \A i \in 1..Len(old) : GroupIn(new, i) = GroupIn(old, i)
  BY <1>1, <1>3 DEF GroupIn
<1>5. ASSUME NEW i \in 1..Len(old), HasSignal(old, GroupIn(old, i)) PROVE HasSignal(new, GroupIn(new, i))
  <2>1. GroupIn(old, i) \subseteq 1..Len(old)
    BY <1>1 DEF GroupIn
  <2> QED
    BY <1>2, <1>4, <1>5, <2>1 DEF HasSignal
<1>6. /\ \A i, j \in 1..Len(old) : old[i].id = old[j].id => i = j
      /\ \A i \in 1..Len(old) :
            /\ old[i].uid = TaskOf(old[i])
            /\ Cardinality(GroupIn(old, i)) = c.n
            /\ c.stage1b => HasSignal(old, GroupIn(old, i))
  BY <1>1 DEF Complete
<1>7. \A i, j \in 1..Len(old) : new[i].id = new[j].id => i = j
  BY <1>2, <1>6
<1>8. \A i \in 1..Len(old) :
            /\ new[i].uid = TaskOf(new[i])
            /\ Cardinality(GroupIn(new, i)) = c.n
            /\ c.stage1b => HasSignal(new, GroupIn(new, i))
  BY <1>2, <1>3, <1>4, <1>5, <1>6
<1> QED
  BY <1>1, <1>4, <1>7, <1>8 DEF Complete

\* The rows of a batch, one group for each of its prompts.
LEMMA ReceiveBatchCompletes ==
  ASSUME FreshInv, GenerationInv, ReceiveBatch
  PROVE  /\ Complete(batch', cfg) /\ Shared(batch', World) /\ MasksFit(batch', cfg)
         /\ \A i \in DOMAIN batch' : batch'[i].logp = None
         /\ \A r \in Rank : worker'[r].trained = worker[r].trained
         /\ calling' = FALSE
<1> DEFINE a == Ask
           sent == cfg.prompts
           n == cfg.n
           rows == Collected
           tasks == Repeat(sent, n)
           m == (a.dp * a.tp) * Part(a)
<1>1. phase = "generate" /\ ~cfg.stage1b /\ Collect /\ batch' = Labelled(rows, tasks)
  BY DEF ReceiveBatch
<1>2. /\ Even(a) /\ RowsAt(rows, 0, m, a) /\ calling' = FALSE
      /\ \A r \in Rank : worker'[r].trained = worker[r].trained
  BY <1>1, CollectRows
<1>3. /\ sent \in Seq(Task) /\ IsInjective(sent) /\ n \in Nat \ {0}
  BY <1>1, ConfigFacts, StepAssumption DEF FreshInv
<1>4. a.sent = sent /\ a.n = n /\ World = a.dp * a.tp
  BY <1>1, AskIs DEF Sent, SentN
<1>5. /\ a.dp * a.tp \in Nat \ {0} /\ Part(a) \in Nat \ {0} /\ Part(a) = a.share * n
      /\ Len(sent) = (a.dp * a.tp) * a.share /\ a.share \in Nat
  <2>1. Blocked(a.sent, Task, a.dp * a.tp, a.share)
    BY <1>2, EvenFacts
  <2> QED
    BY <1>2, <1>4, <2>1, EvenFacts DEF Blocked, Part
<1> HIDE DEF a
<1>6. m = Len(sent) * n /\ m \in Nat /\ m \div (a.dp * a.tp) = Part(a)
  <2> DEFINE w == a.dp * a.tp  s == a.share
  <2>1. w \in Nat \ {0} /\ s \in Nat /\ Part(a) = s * n /\ Len(sent) = w * s /\ Part(a) \in Nat \ {0}
    BY <1>5
  <2>2. m = w * Part(a)
    OBVIOUS
  <2> HIDE DEF w, s, m
  <2>3. w * (s * n) = (w * s) * n
    BY <1>3, <2>1, ProductsAgree
  <2>4. w * Part(a) = Part(a) * w /\ w * Part(a) \in Nat
    BY <2>1
  <2>5. (Part(a) * w) \div w = Part(a)
    BY <2>1, DivFacts
  <2> QED
    BY <2>1, <2>2, <2>3, <2>4, <2>5 DEF w
<1>7. /\ rows \in Seq(Rollout) /\ Len(rows) = m
      /\ \A i, j \in 1..m : rows[i].id = rows[j].id => i = j
      /\ \A i \in 1..m : rows[i].logp = None /\ TaskOf(rows[i]) = sent[((i - 1) \div n) + 1]
  <2> HIDE DEF rows, m
  <2>1. /\ rows \in Seq(Rollout) /\ Len(rows) = m
        /\ \A i, j \in 1..m : rows[i].id = rows[j].id => i = j
        /\ \A i \in 1..m : rows[i].logp = None /\ TaskOf(rows[i]) = a.sent[((i - 1) \div a.n) + 1]
    BY <1>2, <1>6, RowsDistinct
  <2> QED
    BY <1>4, <2>1
<1> HIDE DEF rows
<1>8. \A i \in 1..m : tasks[i] \in Task /\ tasks[i] = sent[((i - 1) \div n) + 1]
  <2>1. \A i \in 1..(Len(sent) * n) : /\ ((i - 1) \div n) + 1 \in 1..Len(sent)
                                      /\ tasks[i] = sent[((i - 1) \div n) + 1]
    BY <1>3, RepeatIs
  <2>2. \A j \in 1..Len(sent) : sent[j] \in Task
    BY <1>3, ElementOfSeq
  <2> HIDE DEF sent, n, m, tasks
  <2> QED
    BY <1>6, <2>1, <2>2
<1> DEFINE new == Labelled(rows, tasks)
<1> HIDE DEF tasks, m, sent, n
<1>9. /\ new \in Seq(Rollout) /\ Len(new) = m
      /\ \A i \in 1..m : Carries(new[i], rows[i]) /\ new[i].uid = tasks[i] /\ new[i].logp = rows[i].logp
  BY <1>7, <1>8, LabelledIs
<1> HIDE DEF new
<1>10. DOMAIN new = 1..m
  BY <1>9
<1>11. \A i \in 1..m : new[i].id = rows[i].id
  BY <1>9 DEF Carries
<1>12. \A i \in 1..m : TaskOf(new[i]) = sent[((i - 1) \div n) + 1] /\ new[i].uid = TaskOf(new[i])
  BY <1>7, <1>8, <1>9, <1>11 DEF TaskOf
<1>13. \A i \in 1..m : Cardinality(GroupIn(new, i)) = n
  <2>1. Len(new) = Len(sent) * n /\ \A j \in 1..Len(new) : TaskOf(new[j]) = sent[((j - 1) \div n) + 1]
    BY <1>6, <1>9, <1>12
  <2> QED
    BY <1>3, <1>9, <2>1, GroupsOfPrompts
<1>14. Complete(new, cfg)
  <2>1. \A i, j \in 1..m : new[i].id = new[j].id => i = j
    BY <1>7, <1>11
  <2> QED
    BY <1>1, <1>9, <1>10, <1>12, <1>13, <2>1 DEF Complete, n
<1>15. Shared(new, World)
  BY <1>4, <1>5, <1>6, <1>9 DEF Shared, Blocked, m
<1>16. MasksFit(new, cfg)
  BY <1>1 DEF MasksFit
<1>17. batch' = new
  BY <1>1 DEF new, tasks, sent, n
<1> QED
  BY <1>2, <1>7, <1>9, <1>10, <1>14, <1>15, <1>16, <1>17

\* A group of a new task joins complete groups.
LEMMA CompleteJoin ==
  ASSUME NEW c, NEW old, Complete(old, c), NEW t, NEW rows \in Seq(Rollout), c.n \in Nat, Len(rows) = c.n,
         \A i \in 1..Len(rows) : TaskOf(rows[i]) = t /\ rows[i].uid = t,
         \A i, j \in 1..Len(rows) : rows[i].id = rows[j].id => i = j,
         \A i \in DOMAIN old : TaskOf(old[i]) # t,
         c.stage1b => HasSignal(rows, 1..Len(rows))
  PROVE  Complete(old \o rows, c)
<1> DEFINE new == old \o rows
           k == Len(old)
           n == Len(rows)
           N == k + n
<1>1. /\ old \in Seq(Rollout) /\ k \in Nat /\ n \in Nat /\ DOMAIN old = 1..k /\ n = c.n
      /\ \A i, j \in 1..k : old[i].id = old[j].id => i = j
      /\ \A i \in 1..k : /\ old[i].uid = TaskOf(old[i]) /\ Cardinality(GroupIn(old, i)) = c.n
                         /\ c.stage1b => HasSignal(old, GroupIn(old, i))
  BY DEF Complete
<1>2. /\ new \in Seq(Rollout) /\ Len(new) = N /\ DOMAIN new = 1..N
      /\ \A i \in 1..k : new[i] = old[i]
      /\ \A i \in 1..n : new[k + i] = rows[i]
  BY <1>1, ConcatProperties
<1> HIDE DEF new, k, n
<1>3. N \in Nat /\ \A i \in 1..N : i \in 1..k \/ \E j \in 1..n : i = k + j
  <2>1. ASSUME NEW i \in 1..N, i \notin 1..k PROVE \E j \in 1..n : i = k + j
    <3>1. i - k \in 1..n /\ i = k + (i - k)
      BY <1>1, <2>1
    <3> QED
      BY <3>1
  <2> QED
    BY <1>1, <2>1
<1>4. /\ \A i \in 1..k : i \in 1..N /\ TaskOf(new[i]) = TaskOf(old[i]) /\ TaskOf(new[i]) # t
      /\ \A i \in 1..n : k + i \in 1..N /\ TaskOf(new[k + i]) = t
  <2>1. \A i \in 1..k : i \in 1..N
    BY <1>1
  <2>2. \A i \in 1..n : k + i \in 1..N
    BY <1>1
  <2>3. \A i \in 1..k : TaskOf(new[i]) = TaskOf(old[i]) /\ TaskOf(new[i]) # t
    BY <1>1, <1>2
  <2>4. \A i \in 1..n : TaskOf(new[k + i]) = t
    BY <1>2 DEF n
  <2> QED
    BY <2>1, <2>2, <2>3, <2>4
<1> HIDE DEF N
<1>5. ASSUME NEW i \in 1..k PROVE GroupIn(new, i) = GroupIn(old, i)
  <2>1. \A j \in 1..N : TaskOf(new[j]) = TaskOf(new[i]) <=> j \in 1..k /\ TaskOf(old[j]) = TaskOf(old[i])
    BY <1>3, <1>4
  <2>2. 1..k \subseteq 1..N
    BY <1>4
  <2> QED
    BY <1>1, <1>2, <2>1, <2>2 DEF GroupIn
<1>6. ASSUME NEW i \in 1..n PROVE GroupIn(new, k + i) = (k + 1)..(k + n)
  <2>1. \A j \in 1..N : TaskOf(new[j]) = TaskOf(new[k + i]) <=> \E l \in 1..n : j = k + l
    BY <1>3, <1>4
  <2>2. \A j : j \in (k + 1)..(k + n) <=> \E l \in 1..n : j = k + l
    <3>1. ASSUME NEW j \in (k + 1)..(k + n) PROVE \E l \in 1..n : j = k + l
      <4>1. j - k \in 1..n /\ j = k + (j - k)
        BY <1>1
      <4> QED
        BY <4>1
    <3>2. \A l \in 1..n : k + l \in (k + 1)..(k + n)
      BY <1>1
    <3> QED
      BY <3>1, <3>2
  <2>3. (k + 1)..(k + n) \subseteq 1..N
    BY <1>4, <2>2
  <2> QED
    BY <1>2, <2>1, <2>2, <2>3 DEF GroupIn
<1>7. Cardinality((k + 1)..(k + n)) = n
  <2>1. k + 1 \in Int /\ k + n \in Int
    BY <1>1
  <2>2. Cardinality((k + 1)..(k + n)) = IF k + 1 > k + n THEN 0 ELSE (k + n) - (k + 1) + 1
    BY <2>1, FS_Interval
  <2> QED
    BY <1>1, <2>2
<1>8. ASSUME NEW i \in 1..N, NEW j \in 1..N, new[i].id = new[j].id PROVE i = j
  <2>1. TaskOf(new[i]) = TaskOf(new[j])
    BY <1>8 DEF TaskOf
  <2>2. CASE i \in 1..k /\ j \in 1..k
    BY <1>1, <1>2, <1>8, <2>2
  <2>3. CASE \E l \in 1..n : i = k + l
    <3>1. PICK l \in 1..n : i = k + l
      BY <2>3
    <3>2. PICK p \in 1..n : j = k + p
      BY <1>3, <1>4, <2>1, <3>1
    <3>3. rows[l].id = rows[p].id
      BY <1>2, <1>8, <3>1, <3>2
    <3> QED
      BY <3>1, <3>2, <3>3 DEF n
  <2>4. CASE i \in 1..k /\ \E l \in 1..n : j = k + l
    BY <1>4, <2>1, <2>4
  <2> QED
    BY <1>3, <2>2, <2>3, <2>4
<1>9. ASSUME NEW i \in 1..N
      PROVE  /\ new[i].uid = TaskOf(new[i]) /\ Cardinality(GroupIn(new, i)) = c.n
             /\ c.stage1b => HasSignal(new, GroupIn(new, i))
  <2>1. CASE i \in 1..k
    <3>1. new[i].uid = TaskOf(new[i]) /\ Cardinality(GroupIn(new, i)) = c.n
      BY <1>1, <1>2, <1>5, <2>1
    <3>2. HasSignal(old, GroupIn(old, i)) => HasSignal(new, GroupIn(new, i))
      <4>1. GroupIn(old, i) \subseteq 1..k
        BY <1>1 DEF GroupIn
      <4>2. \A j \in 1..k : new[j] = old[j]
        BY <1>2
      <4> QED
        BY <1>5, <2>1, <4>1, <4>2 DEF HasSignal
    <3> QED
      BY <1>1, <2>1, <3>1, <3>2
  <2>2. CASE \E l \in 1..n : i = k + l
    <3>1. PICK l \in 1..n : i = k + l
      BY <2>2
    <3>2. new[i].uid = t /\ TaskOf(new[i]) = t
      BY <1>2, <1>4, <3>1 DEF n
    <3>3. Cardinality(GroupIn(new, i)) = c.n
      BY <1>1, <1>6, <1>7, <3>1
    <3>4. ASSUME HasSignal(rows, 1..n) PROVE HasSignal(new, GroupIn(new, i))
      <4>1. PICK p, q \in 1..n : /\ rows[p].valid /\ rows[p].reward = 1
                                 /\ rows[q].valid /\ rows[q].reward = 0
        BY <3>4 DEF HasSignal
      <4>2. k + p \in GroupIn(new, i) /\ k + q \in GroupIn(new, i)
        <5>1. k + p \in (k + 1)..(k + n) /\ k + q \in (k + 1)..(k + n)
          BY <1>1
        <5> QED
          BY <1>6, <3>1, <5>1
      <4>3. new[k + p] = rows[p] /\ new[k + q] = rows[q]
        BY <1>2
      <4> QED
        BY <4>1, <4>2, <4>3 DEF HasSignal
    <3> QED
      BY <3>2, <3>3, <3>4 DEF n
  <2> QED
    BY <1>3, <2>1, <2>2
<1>10. Complete(new, c)
  BY <1>2, <1>8, <1>9 DEF Complete
<1> QED
  BY <1>10 DEF new

\* The rows of a candidate.
CandidateRows == Labelled(SubSeq(Collected, 1, cfg.n), [i \in 1..cfg.n |-> Last(sampler.attempted)])

LEMMA GroupRows ==
  ASSUME FreshInv, GenerationInv, Attempting, ReceiveGroup, cfg.n % World = 0, sampler.cursor # 0,
         NEW t, t = Last(sampler.attempted)
  PROVE  /\ CandidateRows \in Seq(Rollout) /\ Len(CandidateRows) = cfg.n
         /\ \A i \in 1..Len(CandidateRows) : /\ TaskOf(CandidateRows[i]) = t /\ CandidateRows[i].uid = t
                                             /\ CandidateRows[i].logp = None
         /\ \A i, j \in 1..Len(CandidateRows) : CandidateRows[i].id = CandidateRows[j].id => i = j
         /\ \A r \in Rank : worker'[r].trained = worker[r].trained
         /\ calling' = FALSE /\ calling
<1> DEFINE a == Ask
           n == cfg.n
           all == Collected
           rows == CandidateRows
           tasks == [i \in 1..n |-> t]
           m == (a.dp * a.tp) * Part(a)
<1>1. phase = "generate" /\ cfg.stage1b /\ Collect
  BY DEF ReceiveGroup
<1>2. /\ Even(a) /\ RowsAt(all, 0, m, a) /\ calling' = FALSE /\ calling
      /\ \A r \in Rank : worker'[r].trained = worker[r].trained
  BY <1>1, CollectRows
<1>3. n \in Nat \ {0} /\ World \in Nat \ {0}
  BY ConfigFacts DEF FreshInv
<1>4. t \in Task
  <2> DEFINE order == sampler.order  c == sampler.cursor
  <2>1. order \in Seq(Task) /\ c \in 1..Len(order) /\ sampler.attempted = SubSeq(order, 1, c)
    BY DEF Attempting
  <2> HIDE DEF order, c
  <2>2. SubSeq(order, 1, c) \in Seq(Task) /\ Len(SubSeq(order, 1, c)) = c /\ c \in Nat \ {0}
    BY <2>1, FirstOnes
  <2>3. SubSeq(order, 1, c)[c] \in Task
    BY <2>2, ElementOfSeq
  <2> QED
    BY <2>1, <2>2, <2>3 DEF Last
<1>5. a.sent = Pad(<<t>>, World) /\ a.n = n \div World /\ World = a.dp * a.tp
      /\ a.share = Len(a.sent) \div World
  BY <1>1, AskIs DEF Sent, SentN, Ask
<1>6. Len(a.sent) = World /\ \A i \in 1..World : a.sent[i] = t
  BY <1>3, <1>4, <1>5, PadOne
<1>7. a.share = 1
  <2>1. \A u \in Nat \ {0} : u \div u = 1
    OBVIOUS
  <2> HIDE DEF a
  <2> QED
    BY <1>3, <1>5, <1>6, <2>1
<1>8. m = n /\ a.n \in Nat \ {0}
  <2>1. a.n \in Nat \ {0} /\ Part(a) = 1 * a.n
    BY <1>2, <1>7, EvenFacts DEF Part
  <2>2. \A u \in Nat : \A v \in Nat \ {0} : u % v = 0 => v * (u \div v) = u
    <3>1. \A u \in Nat : \A v \in Nat \ {0} : u = v * (u \div v) + (u % v) /\ u \div v \in Nat
      OBVIOUS
    <3>2. \A u, v \in Nat : v * u \in Nat
      OBVIOUS
    <3> QED
      BY <3>1, <3>2
  <2> HIDE DEF a
  <2>3. Part(a) = n \div World
    BY <1>5, <2>1
  <2>4. World * (n \div World) = n
    BY <1>3, <2>2
  <2> QED
    BY <1>5, <2>1, <2>3, <2>4
<1> HIDE DEF a, m, n, all, rows
<1>9. /\ all \in Seq(Rollout) /\ Len(all) = n
      /\ \A i, j \in 1..n : all[i].id = all[j].id => i = j
      /\ \A i \in 1..n : all[i].logp = None /\ TaskOf(all[i]) = a.sent[((i - 1) \div a.n) + 1]
  <2>1. RowsAt(all, 0, n, a) /\ n \in Nat
    BY <1>2, <1>3, <1>8
  <2> QED
    BY <2>1, RowsDistinct
<1>10. ASSUME NEW i \in 1..n PROVE TaskOf(all[i]) = t
  <2>1. i - 1 \in Nat /\ i - 1 < World * a.n
    <3>1. World * a.n = n
      <4>1. Part(a) = a.n
        BY <1>7, <1>8 DEF Part
      <4> QED
        BY <1>5, <1>8, <4>1 DEF m
    <3> QED
      BY <1>3, <3>1
  <2>2. (i - 1) \div a.n \in Nat /\ (i - 1) \div a.n < World
    BY <1>3, <1>8, <2>1, DivFacts, DivBound
  <2>3. ((i - 1) \div a.n) + 1 \in 1..World
    BY <1>3, <2>2
  <2> QED
    BY <1>6, <1>9, <2>3
<1>11. SubSeq(all, 1, n) = all
  <2>1. n \in 0..Len(all) /\ n = Len(all)
    BY <1>3, <1>9
  <2> QED
    BY <1>9, <2>1, FirstOnes
<1>12. rows = Labelled(all, tasks)
  BY <1>11 DEF n, all, rows, CandidateRows
<1>13. \A i \in 1..n : tasks[i] = t
  OBVIOUS
<1> HIDE DEF tasks
<1>14. /\ rows \in Seq(Rollout) /\ Len(rows) = n
       /\ \A i \in 1..n : Carries(rows[i], all[i]) /\ rows[i].uid = tasks[i] /\ rows[i].logp = all[i].logp
  BY <1>4, <1>9, <1>12, <1>13, LabelledIs
<1>15. \A i \in 1..n : rows[i].id = all[i].id
  BY <1>14 DEF Carries
<1>16. \A i \in 1..n : TaskOf(rows[i]) = t /\ rows[i].uid = t /\ rows[i].logp = None
  BY <1>9, <1>10, <1>13, <1>14, <1>15 DEF TaskOf
<1>17. \A i, j \in 1..n : rows[i].id = rows[j].id => i = j
  BY <1>9, <1>15
<1> QED
  BY <1>2, <1>14, <1>16, <1>17 DEF n, rows

LEMMA ReceivedGrows ==
  ASSUME NEW s, s.order \in Seq(Task), IsInjective(s.order), NEW c \in 1..Len(s.order)
  PROVE  /\ Received(s, c - 1) \subseteq Received(s, c)
         /\ s.order[c] \in Received(s, c) /\ s.order[c] \notin Received(s, c - 1)
<1> DEFINE order == s.order
<1>1. order \in Seq(Task) /\ c \in Nat \ {0} /\ c - 1 \in 0..Len(order) /\ c \in 0..Len(order)
      /\ DOMAIN order = 1..Len(order) /\ Len(order) \in Nat
  OBVIOUS
<1> HIDE DEF order
<1>2. /\ SubSeq(order, 1, c) \in Seq(Task) /\ Len(SubSeq(order, 1, c)) = c
      /\ \A i \in 1..c : SubSeq(order, 1, c)[i] = order[i]
  BY <1>1, FirstOnes
<1>3. /\ SubSeq(order, 1, c - 1) \in Seq(Task) /\ Len(SubSeq(order, 1, c - 1)) = c - 1
      /\ \A i \in 1..c - 1 : SubSeq(order, 1, c - 1)[i] = order[i]
  BY <1>1, FirstOnes
<1>4. ToSet(SubSeq(order, 1, c)) = {order[i] : i \in 1..c}
  <2>1. DOMAIN SubSeq(order, 1, c) = 1..c
    BY <1>1, <1>2
  <2> QED
    BY <1>2, <2>1 DEF ToSet
<1>5. ToSet(SubSeq(order, 1, c - 1)) = {order[i] : i \in 1..c - 1}
  <2>1. DOMAIN SubSeq(order, 1, c - 1) = 1..c - 1
    BY <1>1, <1>3
  <2> QED
    BY <1>3, <2>1 DEF ToSet
<1>6. c \in 1..c /\ 1..c - 1 \subseteq 1..c /\ c \notin 1..c - 1 /\ 1..c \subseteq 1..Len(order)
  BY <1>1
<1>7. order[c] \notin {order[i] : i \in 1..c - 1}
  <2>1. \A i \in 1..c - 1 : order[i] = order[c] => i = c
    BY <1>1, <1>6 DEF IsInjective, order
  <2> QED
    BY <1>6, <2>1
<1> QED
  BY <1>4, <1>5, <1>6, <1>7 DEF Received, order

\* A group with a signal has a solved and a failed rollout.
LEMMA GroupSignals ==
  ASSUME NEW rows \in Seq(Rollout), ClassifyGroup(GroupOf(rows)) = "informative"
  PROVE  HasSignal(rows, 1..Len(rows))
<1> DEFINE having(v, x) == {i \in DOMAIN rows : rows[i].valid = v /\ rows[i].reward = x}
           g == GroupOf(rows)
<1>1. g.solved = Cardinality(having(TRUE, 1)) /\ g.failed = Cardinality(having(TRUE, 0))
  BY DEF GroupOf
<1>2. g.solved > 0 /\ g.failed > 0
  <2> HIDE DEF g
  <2>1. ClassifyGroup(g) = "informative"
    BY DEF g
  <2> QED
    BY <2>1 DEF ClassifyGroup
<1>3. having(TRUE, 1) # {} /\ having(TRUE, 0) # {}
  <2>1. Cardinality({}) = 0 /\ ~(0 > 0)
    BY FS_EmptySet
  <2> HIDE DEF having, g
  <2> QED
    BY <1>1, <1>2, <2>1
<1>4. PICK j \in DOMAIN rows : rows[j].valid /\ rows[j].reward = 1
  BY <1>3
<1>5. PICK k \in DOMAIN rows : rows[k].valid /\ rows[k].reward = 0
  BY <1>3
<1> QED
  BY <1>4, <1>5 DEF HasSignal

LEMMA LastCandidate ==
  ASSUME Attempting, sampler.cursor # 0
  PROVE  /\ sampler.cursor \in 1..Len(sampler.order)
         /\ Last(sampler.attempted) = sampler.order[sampler.cursor]
<1> DEFINE order == sampler.order  c == sampler.cursor
<1>1. order \in Seq(Task) /\ c \in 1..Len(order) /\ c \in 0..Len(order) /\ sampler.attempted = SubSeq(order, 1, c)
  BY DEF Attempting
<1> HIDE DEF order, c
<1>2. Len(SubSeq(order, 1, c)) = c /\ c \in 1..c /\ \A i \in 1..c : SubSeq(order, 1, c)[i] = order[i]
  BY <1>1, FirstOnes
<1>3. SubSeq(order, 1, c)[c] = order[c]
  BY <1>2
<1> QED
  BY <1>1, <1>2, <1>3 DEF Last, order, c

LEMMA ReceiveGroupAccepts ==
  ASSUME FreshInv, GenerationInv, Attempting, AcceptedInv, ReceiveGroup
  PROVE  /\ AcceptedInv'
         /\ \A r \in Rank : worker'[r].trained = worker[r].trained
         /\ calling' = FALSE
<1> DEFINE t == Last(sampler.attempted)
           rows == CandidateRows
           n == cfg.n
           c == sampler.cursor
<1>1. /\ phase = "generate" /\ phase' = phase /\ cfg' = cfg /\ cfg.stage1b /\ calling
      /\ sampler' = RecordGroup(sampler, t, GroupOf(rows), 1)
      /\ accepted' = IF ClassifyGroup(GroupOf(rows)) = "informative" THEN accepted \o rows ELSE accepted
  BY DEF ReceiveGroup, Collect, CandidateRows
<1>2. /\ c # 0 /\ n % World = 0 /\ Complete(accepted, cfg)
      /\ Len(accepted) = sampler.informative * n
      /\ \A i \in DOMAIN accepted :
            accepted[i].logp = None /\ TaskOf(accepted[i]) \in Received(sampler, c - 1)
  BY <1>1 DEF AcceptedInv
<1>3. /\ rows \in Seq(Rollout) /\ Len(rows) = n
      /\ \A i \in 1..Len(rows) : TaskOf(rows[i]) = t /\ rows[i].uid = t /\ rows[i].logp = None
      /\ \A i, j \in 1..Len(rows) : rows[i].id = rows[j].id => i = j
      /\ \A r \in Rank : worker'[r].trained = worker[r].trained
      /\ calling' = FALSE
  BY <1>2, GroupRows
<1> HIDE DEF rows
<1>4. /\ sampler'.cursor = c /\ sampler'.order = sampler.order
      /\ sampler'.informative = sampler.informative +
             (IF ClassifyGroup(GroupOf(rows)) = "informative" THEN 1 ELSE 0)
  BY <1>1, Recording
<1>5. /\ sampler.order \in Seq(Task) /\ IsInjective(sampler.order) /\ sampler.informative \in Nat
      /\ c \in 1..Len(sampler.order) /\ t = sampler.order[c]
  BY <1>2, LastCandidate DEF Attempting
<1> HIDE DEF t
<1>6. Received(sampler, c - 1) \subseteq Received(sampler, c) /\ t \in Received(sampler, c) /\ t \notin Received(sampler, c - 1)
  BY <1>5, ReceivedGrows
<1>7. Received(sampler', c) = Received(sampler, c)
  BY <1>4 DEF Received
<1>8. n \in Nat /\ World' = World /\ accepted \in Seq(Rollout)
  BY <1>1, <1>2, ConfigFacts, Still DEF FreshInv, Complete
<1> HIDE DEF n, c
<1>9. CASE ClassifyGroup(GroupOf(rows)) = "informative"
  <2>1. accepted' = accepted \o rows
    BY <1>1, <1>9
  <2>2. HasSignal(rows, 1..Len(rows))
    BY <1>3, <1>9, GroupSignals
  <2>3. \A i \in DOMAIN accepted : TaskOf(accepted[i]) # t
    BY <1>2, <1>6
  <2>4. Complete(accepted \o rows, cfg)
    <3>1. cfg.n \in Nat /\ Len(rows) = cfg.n
      BY <1>3, <1>8 DEF n
    <3> QED
      BY <1>2, <1>3, <2>2, <2>3, <3>1, CompleteJoin
  <2>5. /\ DOMAIN accepted = 1..Len(accepted) /\ Len(accepted) \in Nat
        /\ Len(accepted \o rows) = Len(accepted) + n
        /\ DOMAIN (accepted \o rows) = 1..(Len(accepted) + n)
        /\ \A i \in 1..Len(accepted) : (accepted \o rows)[i] = accepted[i]
        /\ \A i \in 1..n : (accepted \o rows)[Len(accepted) + i] = rows[i]
    <3>1. /\ Len(accepted \o rows) = Len(accepted) + Len(rows)
          /\ \A i \in 1..Len(accepted) : (accepted \o rows)[i] = accepted[i]
          /\ \A i \in 1..Len(rows) : (accepted \o rows)[Len(accepted) + i] = rows[i]
      <4>1. accepted \in Seq(Rollout) /\ rows \in Seq(Rollout)
        BY <1>3, <1>8
      <4> QED
        BY <4>1, ConcatProperties
    <3>2. accepted \o rows \in Seq(Rollout) /\ DOMAIN accepted = 1..Len(accepted) /\ Len(accepted) \in Nat
      BY <1>3, <1>8
    <3>3. DOMAIN (accepted \o rows) = 1..Len(accepted \o rows)
      BY <3>2
    <3> QED
      BY <1>3, <3>1, <3>2, <3>3
  <2>6. ASSUME NEW i \in DOMAIN (accepted \o rows)
        PROVE  (accepted \o rows)[i].logp = None /\ TaskOf((accepted \o rows)[i]) \in Received(sampler, c)
    <3>1. CASE i \in 1..Len(accepted)
      BY <1>2, <1>6, <2>5, <3>1
    <3>2. CASE i \notin 1..Len(accepted)
      <4>1. i - Len(accepted) \in 1..n /\ i = Len(accepted) + (i - Len(accepted))
        <5>1. i \in 1..(Len(accepted) + n)
          BY <2>5
        <5> QED
          BY <1>8, <2>5, <3>2, <5>1
      <4>2. (accepted \o rows)[i] = rows[i - Len(accepted)]
        BY <2>5, <4>1
      <4> QED
        BY <1>3, <1>6, <4>1, <4>2
    <3> QED
      BY <3>1, <3>2
  <2>7. Len(accepted \o rows) = sampler'.informative * n
    <3>1. sampler'.informative = sampler.informative + 1
      BY <1>4, <1>9
    <3>2. \A u \in Nat : (u + 1) * n = u * n + n
      BY <1>8
    <3> QED
      BY <1>2, <1>5, <2>5, <3>1, <3>2
  <2> QED
    BY <1>1, <1>2, <1>3, <1>4, <1>7, <1>8, <2>1, <2>4, <2>6, <2>7 DEF AcceptedInv, n
<1>10. CASE ClassifyGroup(GroupOf(rows)) # "informative"
  <2>1. accepted' = accepted
    BY <1>1, <1>10
  <2>2. sampler'.informative = sampler.informative
    BY <1>4, <1>5, <1>10
  <2>3. \A i \in DOMAIN accepted :
            accepted[i].logp = None /\ TaskOf(accepted[i]) \in Received(sampler', c)
    BY <1>2, <1>6, <1>7
  <2> QED
    BY <1>1, <1>2, <1>3, <1>4, <1>8, <2>1, <2>2, <2>3 DEF AcceptedInv, n
<1> QED
  BY <1>3, <1>9, <1>10

LEMMA MaskedIs ==
  ASSUME NEW rows \in Seq(Rollout)
  PROVE  /\ Masked(rows) \in Seq(Rollout) /\ Len(Masked(rows)) = Len(rows)
         /\ \A i \in 1..Len(rows) : /\ Carries(Masked(rows)[i], rows[i])
                                    /\ Masked(rows)[i].uid = rows[i].uid
                                    /\ Masked(rows)[i].logp = rows[i].logp
                                    /\ Masked(rows)[i].mask = Masked(rows)[i].valid
<1> DEFINE new == Masked(rows)
<1>1. new = [i \in 1..Len(rows) |-> [rows[i] EXCEPT !.mask = rows[i].valid]]
  BY DEF Masked
<1>2. ASSUME NEW i \in 1..Len(rows), NEW x, x = [rows[i] EXCEPT !.mask = rows[i].valid]
      PROVE  /\ x \in Rollout /\ Carries(x, rows[i]) /\ x.uid = rows[i].uid
             /\ x.logp = rows[i].logp /\ x.mask = x.valid
  <2>1. rows[i] \in Rollout
    BY ElementOfSeq
  <2> QED
    BY <1>2, <2>1 DEF Rollout, Carries
<1> HIDE DEF new
<1>3. \A i \in 1..Len(rows) : new[i] = [rows[i] EXCEPT !.mask = rows[i].valid]
  BY <1>1
<1>4. \A i \in 1..Len(rows) :
          /\ new[i] \in Rollout /\ Carries(new[i], rows[i]) /\ new[i].uid = rows[i].uid
          /\ new[i].logp = rows[i].logp /\ new[i].mask = new[i].valid
  BY <1>2, <1>3
<1>5. new \in Seq(Rollout) /\ Len(new) = Len(rows)
  <2>1. new = [i \in 1..Len(rows) |-> new[i]] /\ Len(rows) \in Nat
    BY <1>1
  <2> QED
    BY <1>4, <2>1
<1> QED
  BY <1>4, <1>5 DEF new

\* The collected groups make up a batch.
LEMMA EndCollectionMasks ==
  ASSUME FreshInv, Attempting, AcceptedInv, EndCollection
  PROVE  \/ phase' = AfterUpdate /\ batch' = batch
         \/ /\ phase' = "log_prob"
            /\ Complete(batch', cfg) /\ Shared(batch', World) /\ MasksFit(batch', cfg)
            /\ \A i \in DOMAIN batch' : batch'[i].logp = None
<1> SUFFICES ASSUME ~(phase' = AfterUpdate /\ batch' = batch)
             PROVE  /\ phase' = "log_prob"
                    /\ Complete(batch', cfg) /\ Shared(batch', World) /\ MasksFit(batch', cfg)
                    /\ \A i \in DOMAIN batch' : batch'[i].logp = None
  OBVIOUS
<1> DEFINE n == cfg.n  k == sampler.informative
<1>1. /\ phase = "generate" /\ ~calling /\ cfg.stage1b /\ ~Underfilled(sampler)
      /\ phase' = "log_prob" /\ batch' = Masked(accepted)
  BY DEF EndCollection, At
<1>2. k \in Nat \ {0}
  <2>1. k \in Nat /\ ~(k < TargetGroups) /\ TargetGroups \in Nat \ {0}
    BY <1>1, LimitsAssumption DEF Attempting, Underfilled
  <2> HIDE DEF k
  <2> QED
    BY <2>1
<1>3. /\ Complete(accepted, cfg) /\ n % World = 0 /\ Len(accepted) = k * n
      /\ \A i \in DOMAIN accepted : accepted[i].logp = None
  BY <1>1, <1>2 DEF AcceptedInv
<1>4. accepted \in Seq(Rollout) /\ n \in Nat \ {0} /\ World \in Nat \ {0}
  BY <1>3, ConfigFacts DEF FreshInv, Complete
<1>5. /\ batch' \in Seq(Rollout) /\ Len(batch') = Len(accepted)
      /\ \A i \in 1..Len(accepted) : /\ Carries(batch'[i], accepted[i])
                                     /\ batch'[i].uid = accepted[i].uid
                                     /\ batch'[i].logp = accepted[i].logp
                                     /\ batch'[i].mask = batch'[i].valid
  BY <1>1, <1>4, MaskedIs
<1>6. DOMAIN batch' = 1..Len(accepted) /\ DOMAIN accepted = 1..Len(accepted)
  BY <1>4, <1>5
<1>7. Complete(batch', cfg)
  BY <1>3, <1>5, CompleteCarries
<1>8. MasksFit(batch', cfg) /\ \A i \in DOMAIN batch' : batch'[i].logp = None
  BY <1>3, <1>5, <1>6 DEF MasksFit
<1>9. Shared(batch', World)
  <2> HIDE DEF n, k
  <2>1. PICK q \in Nat \ {0} : n = World * q
    <3>1. \A u, v \in Nat \ {0} : u % v = 0 => u \div v \in Nat \ {0}
      OBVIOUS
    <3>2. \A u, v \in Nat \ {0} : u = v * (u \div v) + (u % v)
      OBVIOUS
    <3>3. n \div World \in Nat \ {0} /\ n = World * (n \div World) + 0
      BY <1>3, <1>4, <3>1, <3>2
    <3>4. World * (n \div World) \in Nat
      BY <1>4, <3>3
    <3>5. n = World * (n \div World)
      BY <3>3, <3>4
    <3> QED
      BY <3>3, <3>5
  <2>2. k * q \in Nat \ {0} /\ k * (World * q) = World * (k * q) /\ World * (k * q) = (k * q) * World
    BY <1>2, <1>4, <2>1
  <2>3. Len(batch') = World * (k * q)
    BY <1>3, <1>5, <2>1, <2>2
  <2>4. Len(batch') \div World = k * q
    BY <1>4, <2>2, <2>3, DivFacts
  <2> QED
    BY <1>4, <1>5, <2>2, <2>3, <2>4 DEF Shared, Blocked
<1> QED
  BY <1>1, <1>7, <1>8, <1>9

\* The rows of the validation, without those of the padding.
LEMMA ReceiveValidationLabels ==
  ASSUME FreshInv, GenerationInv, ReceiveValidation
  PROVE  /\ validated' = validated \/ \A i \in DOMAIN validated' : validated'[i].uid = TaskOf(validated'[i])
         /\ phase' \in {"done", "failed"} /\ calling' = FALSE
         /\ \A r \in Rank : worker'[r].trained = worker[r].trained
<1> DEFINE a == Ask
           n == cfg.n
           all == Collected
           asked == ValidationPrompts
           pad == PadSize(asked, World)
           rows == Unpad(all, pad)
           tasks == Repeat(asked, n)
           m == (a.dp * a.tp) * Part(a)
           len == Len(asked)
<1>1. /\ phase = "validate" /\ Collect
      /\ \/ Len(rows) = Len(tasks) /\ validated' = Labelled(rows, tasks) /\ phase' = "done"
         \/ phase' = "failed" /\ validated' = validated
  BY DEF ReceiveValidation
<1>2. /\ Even(a) /\ RowsAt(all, 0, m, a) /\ calling' = FALSE
      /\ \A r \in Rank : worker'[r].trained = worker[r].trained
  BY <1>1, CollectRows
<1>3. n \in Nat \ {0} /\ World \in Nat \ {0} /\ asked \in Seq(Task)
  <2>1. n \in Nat \ {0} /\ World \in Nat \ {0} /\ cfg.validation \in Seq(Task)
    BY ConfigFacts DEF FreshInv
  <2> QED
    BY <2>1, RepeatType DEF ValidationPrompts
<1>4. a.sent = Pad(asked, World) /\ a.n = n /\ World = a.dp * a.tp
  BY <1>1, AskIs DEF Sent, SentN
<1>5. /\ pad \in Nat /\ Len(a.sent) = len + pad /\ len \in Nat
      /\ a.sent = [i \in 1..len + pad |-> asked[((i - 1) % len) + 1]]
  BY <1>3, <1>4, PadType DEF Pad
<1>6. m = (len + pad) * n /\ m \in Nat
  <2>1. Blocked(a.sent, Task, a.dp * a.tp, a.share) /\ Part(a) = a.share * n
    BY <1>2, <1>4, EvenFacts DEF Part
  <2> DEFINE w == a.dp * a.tp  s == a.share
  <2>2. w \in Nat /\ s \in Nat /\ Len(a.sent) = w * s /\ m = w * (s * n)
    BY <2>1 DEF Blocked
  <2> HIDE DEF w, s, m, a, pad, len
  <2>3. w * (s * n) = (w * s) * n /\ (len + pad) * n \in Nat
    BY <1>3, <1>5, <2>2, ProductsAgree
  <2> QED
    BY <1>5, <2>2, <2>3
<1> HIDE DEF m, all, asked, pad, len
<1>7. /\ all \in Seq(Rollout) /\ Len(all) = m
      /\ \A i \in 1..m : TaskOf(all[i]) = a.sent[((i - 1) \div a.n) + 1]
  BY <1>2, <1>6, RowsDistinct
<1> HIDE DEF a
<1>8. /\ Len(tasks) = len * n
      /\ \A i \in 1..(len * n) : /\ ((i - 1) \div n) + 1 \in 1..len
                                 /\ tasks[i] = asked[((i - 1) \div n) + 1]
  BY <1>3, RepeatIs, Zenon DEF len
<1>9. \A i \in 1..(len * n) : tasks[i] \in Task
  <2>1. \A j \in 1..len : asked[j] \in Task
    BY <1>3, ElementOfSeq DEF len
  <2> QED
    BY <1>8, <2>1
<1>10. /\ rows \in Seq(Rollout) /\ Len(rows) = m - pad
       /\ \A i \in 1..(m - pad) : rows[i] = all[i] /\ i \in 1..m
  <2>1. m - pad \in 0..m
    <3>1. pad <= (len + pad) * n
      <4>1. \A u \in Nat : u <= u * n
        <5>1. \A u \in Nat : u * n = u * (n - 1) + u /\ u * (n - 1) \in Nat
          BY <1>3
        <5> QED
          BY <5>1
      <4>2. len + pad <= (len + pad) * n
        BY <1>5, <4>1
      <4> QED
        BY <1>3, <1>5, <4>2
    <3> QED
      BY <1>5, <1>6, <3>1
  <2>2. rows = SubSeq(all, 1, m - pad)
    BY <1>7 DEF Unpad
  <2> QED
    BY <1>6, <1>7, <2>1, <2>2, FirstOnes
<1> HIDE DEF rows, tasks
<1>11. ASSUME Len(rows) = Len(tasks), validated' = Labelled(rows, tasks)
       PROVE  \A i \in DOMAIN validated' : validated'[i].uid = TaskOf(validated'[i])
  <2>1. Len(rows) = len * n
    BY <1>8, <1>11
  <2>2. /\ validated' \in Seq(Rollout) /\ Len(validated') = Len(rows)
        /\ \A i \in 1..Len(rows) : Carries(validated'[i], rows[i]) /\ validated'[i].uid = tasks[i]
    BY <1>9, <1>10, <1>11, <2>1, LabelledIs
  <2>3. \A i \in 1..Len(rows) : TaskOf(validated'[i]) = TaskOf(rows[i])
    BY <2>2 DEF Carries, TaskOf
  <2>4. ASSUME NEW i \in 1..Len(rows) PROVE TaskOf(rows[i]) = tasks[i]
    <3> DEFINE p == ((i - 1) \div n) + 1
    <3>1. p \in 1..len /\ tasks[i] = asked[p]
      BY <1>8, <2>1
    <3>2. TaskOf(rows[i]) = a.sent[p]
      BY <1>4, <1>7, <1>10, <2>4
    <3> HIDE DEF p
    <3>3. (p - 1) % len = p - 1
      <4>1. \A u, v \in Nat : u < v => u % v = u
        OBVIOUS
      <4>2. p - 1 \in Nat /\ p - 1 < len
        BY <1>5, <3>1
      <4> QED
        BY <1>5, <4>1, <4>2
    <3>4. a.sent[p] = asked[p]
      BY <1>5, <3>1, <3>3
    <3> QED
      BY <3>1, <3>2, <3>4
  <2>5. DOMAIN validated' = 1..Len(rows)
    BY <2>2
  <2> QED
    BY <2>2, <2>3, <2>4, <2>5
<1> QED
  BY <1>1, <1>2, <1>11

-------------------------------------
(* The batch is balanced                                                    *)

\* Complete groups stay complete in any order.
LEMMA CompleteReorders ==
  ASSUME NEW rows, NEW c, Complete(rows, c), NEW p, Permutes(p, Len(rows))
  PROVE  /\ Complete(Reorder(rows, p), c) /\ Len(Reorder(rows, p)) = Len(rows)
         /\ \A i \in 1..Len(rows) : p[i] \in 1..Len(rows) /\ Reorder(rows, p)[i] = rows[p[i]]
<1> DEFINE n == Len(rows)
           new == Reorder(rows, p)
<1>1. /\ rows \in Seq(Rollout) /\ n \in Nat /\ DOMAIN rows = 1..n
      /\ \A i, j \in 1..n : rows[i].id = rows[j].id => i = j
      /\ \A i \in 1..n : /\ rows[i].uid = TaskOf(rows[i])
                         /\ Cardinality(GroupIn(rows, i)) = c.n
                         /\ c.stage1b => HasSignal(rows, GroupIn(rows, i))
  BY DEF Complete
<1>2. /\ Len(p) = n /\ p \in Seq(1..n) /\ p \in [1..n -> 1..n]
      /\ \A i, j \in 1..n : p[i] = p[j] => i = j
      /\ \A y \in 1..n : \E i \in 1..n : p[i] = y
  <2>1. Len(p) = n /\ p \in Bijection(1..n, 1..n) /\ p \in Seq(1..n)
    BY <1>1, Permuting DEF Permutes
  <2> HIDE DEF n
  <2> QED
    BY <2>1 DEF Bijection, Injection, Surjection, IsInjective
<1>3. new \in Seq(Rollout) /\ Len(new) = n /\ DOMAIN new = 1..n /\ \A i \in 1..n : new[i] = rows[p[i]]
  <2>1. p \in Seq(DOMAIN rows)
    BY <1>1, <1>2
  <2>2. new \in Seq(Rollout) /\ Len(new) = Len(p) /\ \A i \in 1..Len(p) : new[i] = rows[p[i]]
    BY <1>1, <2>1, ReorderIs
  <2> QED
    BY <1>2, <2>2
<1> HIDE DEF new, n
<1>4. ASSUME NEW i \in 1..n, NEW j \in 1..n, new[i].id = new[j].id PROVE i = j
  <2>1. p[i] \in 1..n /\ p[j] \in 1..n
    BY <1>2
  <2>2. rows[p[i]].id = rows[p[j]].id
    BY <1>3, <1>4
  <2>3. p[i] = p[j]
    BY <1>1, <2>1, <2>2
  <2> QED
    BY <1>2, <2>3
<1>5. ASSUME NEW i \in 1..n PROVE GroupIn(new, i) = {j \in 1..n : p[j] \in GroupIn(rows, p[i])}
  <2>1. \A j \in 1..n : p[j] \in 1..n /\ new[j] = rows[p[j]]
    BY <1>2, <1>3
  <2> QED
    BY <1>1, <1>3, <2>1 DEF GroupIn
<1>6. ASSUME NEW i \in 1..n PROVE Cardinality(GroupIn(new, i)) = Cardinality(GroupIn(rows, p[i]))
  <2> DEFINE S == GroupIn(new, i)
             T == GroupIn(rows, p[i])
             f == [j \in S |-> p[j]]
  <2>1. S = {j \in 1..n : p[j] \in T} /\ T \subseteq 1..n
    BY <1>1, <1>5 DEF GroupIn
  <2> HIDE DEF S, T
  <2>2. f \in Bijection(S, T)
    <3>1. f \in [S -> T]
      BY <2>1
    <3>2. \A a, b \in S : f[a] = f[b] => a = b
      BY <1>2, <2>1
    <3>3. \A y \in T : \E a \in S : f[a] = y
      BY <1>2, <2>1
    <3> HIDE DEF f
    <3> QED
      BY <3>1, <3>2, <3>3 DEF Bijection, Injection, Surjection, IsInjective
  <2>3. IsFiniteSet(S)
    <3>1. IsFiniteSet(1..n)
      BY <1>1, FS_Interval
    <3> QED
      BY <2>1, <3>1, FS_Subset
  <2>4. Cardinality(T) = Cardinality(S)
    BY <2>2, <2>3, FS_Bijection DEF ExistsBijection
  <2> QED
    BY <2>4 DEF S, T
<1>7. ASSUME NEW i \in 1..n, HasSignal(rows, GroupIn(rows, p[i])) PROVE HasSignal(new, GroupIn(new, i))
  <2>1. PICK j, k \in GroupIn(rows, p[i]) : /\ rows[j].valid /\ rows[j].reward = 1
                                            /\ rows[k].valid /\ rows[k].reward = 0
    BY <1>7 DEF HasSignal
  <2>2. j \in 1..n /\ k \in 1..n
    BY <1>1 DEF GroupIn
  <2>3. PICK a \in 1..n : p[a] = j
    BY <1>2, <2>2
  <2>4. PICK b \in 1..n : p[b] = k
    BY <1>2, <2>2
  <2>5. a \in GroupIn(new, i) /\ b \in GroupIn(new, i) /\ new[a] = rows[j] /\ new[b] = rows[k]
    BY <1>3, <1>5, <2>3, <2>4
  <2> QED
    BY <2>1, <2>5 DEF HasSignal
<1>8. \A i \in 1..n : /\ new[i].uid = TaskOf(new[i])
                      /\ Cardinality(GroupIn(new, i)) = c.n
                      /\ c.stage1b => HasSignal(new, GroupIn(new, i))
  <2> SUFFICES ASSUME NEW i \in 1..n
               PROVE  /\ new[i].uid = TaskOf(new[i])
                      /\ Cardinality(GroupIn(new, i)) = c.n
                      /\ c.stage1b => HasSignal(new, GroupIn(new, i))
    OBVIOUS
  <2>1. p[i] \in 1..n /\ new[i] = rows[p[i]]
    BY <1>2, <1>3
  <2>2. /\ rows[p[i]].uid = TaskOf(rows[p[i]])
        /\ Cardinality(GroupIn(rows, p[i])) = c.n
        /\ c.stage1b => HasSignal(rows, GroupIn(rows, p[i]))
    BY <1>1, <2>1
  <2> QED
    BY <1>6, <1>7, <2>1, <2>2
<1>9. Complete(new, c)
  BY <1>3, <1>4, <1>8 DEF Complete
<1> QED
  BY <1>2, <1>3, <1>9 DEF new, n

LEMMA LensAre ==
  ASSUME NEW rows \in Seq(Rollout)
  PROVE  /\ Lens(rows) \in Seq(Nat) /\ Len(Lens(rows)) = Len(rows) /\ DOMAIN Lens(rows) = 1..Len(rows)
         /\ \A i \in DOMAIN Lens(rows) : Lens(rows)[i] \in 1..MaxTokenLen /\ Lens(rows)[i] <= MaxTokenLen
<1>0. MaxTokenLen \in Nat \ {0}
  BY StepAssumption
<1>1. \A i \in 1..Len(rows) : rows[i].len \in 1..MaxTokenLen
  <2>1. \A i \in 1..Len(rows) : rows[i] \in Rollout
    BY ElementOfSeq
  <2>2. \A x \in Rollout : x.len \in 1..MaxTokenLen
    BY DEF Rollout
  <2> QED
    BY <2>1, <2>2
<1>2. Lens(rows) = [i \in 1..Len(rows) |-> rows[i].len]
  BY DEF Lens
<1>3. Len(rows) \in Nat /\ \A i \in 1..Len(rows) : rows[i].len \in Nat /\ rows[i].len <= MaxTokenLen
  BY <1>0, <1>1
<1> QED
  BY <1>1, <1>2, <1>3

LEMMA BalanceIs ==
  ASSUME NEW rows \in Seq(Rollout), rows # <<>>, World \in Nat \ {0}, Len(rows) % World = 0
  PROVE  BalanceBatch(rows) = rows
         \/ \E p : Permutes(p, Len(rows)) /\ BalanceBatch(rows) = Reorder(rows, p)
<1> SUFFICES ASSUME cfg.balance
             PROVE  \E p : Permutes(p, Len(rows)) /\ BalanceBatch(rows) = Reorder(rows, p)
  BY DEF BalanceBatch
<1> DEFINE lens == Lens(rows)
           parts == BalancedPartitions(lens, World, TRUE)
           p == FlattenSeq(parts)
<1>1. /\ lens \in Seq(Nat) /\ Len(lens) = Len(rows) /\ lens # <<>>
      /\ \A i \in DOMAIN lens : lens[i] <= MaxTokenLen
      /\ MaxTokenLen \in Nat
  <2>1. lens \in Seq(Nat) /\ Len(lens) = Len(rows) /\ \A i \in DOMAIN lens : lens[i] <= MaxTokenLen
    BY LensAre
  <2> HIDE DEF lens
  <2> QED
    BY <2>1, StepAssumption
<1> HIDE DEF lens
<1>2. Parts(parts, lens, World, MaxTokenLen)
  <2>1. TRUE \in BOOLEAN /\ (TRUE => Len(lens) % World = 0)
    BY <1>1
  <2> QED
    BY <1>1, <2>1, BalancedPartitionsDivide
<1> HIDE DEF parts
<1>3. parts \in Seq(Seq(1..Len(lens))) /\ Permutes(FlattenSeq(parts), Len(lens))
  BY <1>1, <1>2, PartsPermute
<1>4. parts \in Seq(Seq(Nat))
  <2>1. Seq(1..Len(lens)) \subseteq Seq(Nat)
    OBVIOUS
  <2> HIDE DEF lens
  <2>2. \A s \in Seq(Seq(1..Len(lens))) : s \in Seq(Seq(Nat))
    BY <2>1
  <2> QED
    BY <1>3, <2>2
<1>5. BalanceBatch(rows) = Reorder(rows, p)
  <2>1. BalanceBatch(rows) = [q \in Seq(Seq(Nat)) |-> Reorder(rows, FlattenSeq(q))][parts]
    BY DEF BalanceBatch, parts, lens
  <2> QED
    BY <1>4, <2>1
<1>6. Permutes(p, Len(rows))
  BY <1>1, <1>3
<1> HIDE DEF p
<1> QED
  BY <1>5, <1>6

LEMMA SharedIs ==
  ASSUME NEW rows, NEW world, Shared(rows, world), world \in Nat \ {0}
  PROVE  /\ rows \in Seq(Rollout) /\ rows # <<>> /\ Len(rows) % world = 0
         /\ BlocksOf(Chunk(rows, world), rows, Rollout, world, Len(rows) \div world)
<1> DEFINE w == Len(rows) \div world
<1>1. Blocked(rows, Rollout, world, w)
  BY DEF Shared
<1> HIDE DEF w
<1>2. rows \in Seq(Rollout) /\ w \in Nat \ {0} /\ Len(rows) = world * w
  BY <1>1 DEF Blocked
<1>3. Len(rows) % world = 0
  <2>1. world * w = w * world
    BY <1>2
  <2>2. \A a \in Nat : (a * world) % world = 0
    BY DivFacts
  <2> QED
    BY <1>2, <2>1, <2>2
<1>4. rows # <<>>
  <2>1. world * w # 0
    BY <1>2
  <2> QED
    BY <1>2, <2>1
<1>5. BlocksOf(Chunk(rows, world), rows, Rollout, world, w)
  BY <1>1, ChunkIs
<1> QED
  BY <1>2, <1>3, <1>4, <1>5 DEF w

\* The batch in another order.
LEMMA BalanceKeeps ==
  ASSUME FreshInv, NEW rows, Complete(rows, cfg), MasksFit(rows, cfg), Shared(rows, World),
         \A i \in DOMAIN rows : rows[i].logp = None
  PROVE  /\ Complete(BalanceBatch(rows), cfg) /\ MasksFit(BalanceBatch(rows), cfg)
         /\ Shared(BalanceBatch(rows), World)
         /\ \A i \in DOMAIN BalanceBatch(rows) : BalanceBatch(rows)[i].logp = None
<1> DEFINE new == BalanceBatch(rows)
<1>1. World \in Nat \ {0}
  BY ConfigFacts DEF FreshInv
<1>2. rows \in Seq(Rollout) /\ rows # <<>> /\ Len(rows) % World = 0
  BY <1>1, SharedIs
<1>3. new = rows \/ \E p : Permutes(p, Len(rows)) /\ new = Reorder(rows, p)
  BY <1>1, <1>2, BalanceIs
<1> HIDE DEF new
<1>4. ASSUME NEW p, Permutes(p, Len(rows)), new = Reorder(rows, p)
      PROVE  /\ Complete(new, cfg) /\ MasksFit(new, cfg) /\ Shared(new, World)
             /\ \A i \in DOMAIN new : new[i].logp = None
  <2>1. /\ Complete(new, cfg) /\ Len(new) = Len(rows)
        /\ \A i \in 1..Len(rows) : p[i] \in 1..Len(rows) /\ new[i] = rows[p[i]]
    BY <1>4, CompleteReorders
  <2>2. new \in Seq(Rollout)
    BY <2>1 DEF Complete
  <2>3. DOMAIN new = 1..Len(rows) /\ DOMAIN rows = 1..Len(rows)
    BY <1>2, <2>1, <2>2
  <2>4. MasksFit(new, cfg) /\ \A i \in DOMAIN new : new[i].logp = None
    BY <2>1, <2>3 DEF MasksFit
  <2>5. Shared(new, World)
    BY <2>1, <2>2 DEF Shared, Blocked
  <2> QED
    BY <2>1, <2>4, <2>5
<1> QED
  BY <1>3, <1>4 DEF new

-------------------------------------
(* A batch is handed to the ranks                                           *)

LEMMA MineIs ==
  ASSUME FreshInv, NEW rows, Shared(rows, World), NEW r \in Rank
  PROVE  Chunk(rows, World)[r + 1] \in Seq(Rollout) /\ Chunk(rows, World)[r + 1] # <<>>
<1>1. World \in Nat \ {0} /\ r + 1 \in 1..World
  <2>1. World \in Nat \ {0}
    BY ConfigFacts DEF FreshInv
  <2> QED
    BY <2>1 DEF Rank
<1>2. BlocksOf(Chunk(rows, World), rows, Rollout, World, Len(rows) \div World)
  BY <1>1, SharedIs
<1> DEFINE x == Chunk(rows, World)[r + 1]
<1>3. x \in Seq(Rollout) /\ Len(x) \in Nat \ {0}
  BY <1>1, <1>2 DEF BlocksOf
<1> HIDE DEF x
<1>4. x # <<>>
  BY <1>3
<1> QED
  BY <1>3, <1>4 DEF x

\* The mini-batches of a rank.
LEMMA MinisAre ==
  ASSUME NEW w, w.rows \in Seq(Rollout), w.rows # <<>>, NEW up \in BOOLEAN
  PROVE  /\ Len(Minis(w, up)) \in Nat \ {0}
         /\ \A i \in 1..Len(Minis(w, up)) : Minis(w, up)[i] \in Seq(Rollout) /\ Minis(w, up)[i] # <<>>
         /\ ~up => Len(Minis(w, up)) = 1 /\ Minis(w, up)[1] = w.rows
         /\ up => IsSplit(Minis(w, up), w.rows, Rollout, MiniBatch)
<1>1. CASE ~up
  <2>1. Minis(w, up) = <<w.rows>>
    BY <1>1 DEF Minis
  <2> QED
    BY <1>1, <2>1
<1>2. CASE up
  <2> DEFINE parts == Minis(w, up)
  <2>1. parts = Split(w.rows, MiniBatch) /\ MiniBatch \in Nat \ {0}
    BY <1>2, StepAssumption DEF Minis
  <2>2. IsSplit(parts, w.rows, Rollout, MiniBatch)
    BY <2>1, SplitIs
  <2> HIDE DEF parts
  <2>3. /\ parts \in Seq(Seq(Rollout)) /\ Len(parts) \in Nat \ {0}
        /\ \A i \in 1..Len(parts) :
              /\ (i - 1) * MiniBatch \in Nat
              /\ (i - 1) * MiniBatch < EndOfPart(Len(w.rows), MiniBatch, i)
              /\ parts[i] \in Seq(Rollout)
              /\ (i - 1) * MiniBatch + Len(parts[i]) = EndOfPart(Len(w.rows), MiniBatch, i)
    BY <2>2 DEF IsSplit
  <2>4. ASSUME NEW i \in 1..Len(parts) PROVE parts[i] # <<>>
    <3> DEFINE a == (i - 1) * MiniBatch  e == EndOfPart(Len(w.rows), MiniBatch, i)
    <3>1. a \in Nat /\ a < e /\ a + Len(parts[i]) = e
      BY <2>3
    <3> HIDE DEF a, e
    <3>2. Len(parts[i]) # 0
      BY <3>1
    <3>3. Len(<<>>) = 0
      OBVIOUS
    <3> QED
      BY <3>2, <3>3
  <2> QED
    BY <1>2, <2>2, <2>3, <2>4 DEF parts
<1> QED
  BY <1>1, <1>2

LEMMA NowIs ==
  ASSUME NEW w, w.rows \in Seq(Rollout), w.rows # <<>>, NEW up \in BOOLEAN, w.mini \in 1..Len(Minis(w, up))
  PROVE  Now(w, up) \in Seq(Rollout) /\ Now(w, up) # <<>>
BY MinisAre DEF Now

\* The driver starts a call on the batch: no rank has trained on a row.
LEMMA RequestTraining ==
  ASSUME FreshInv, UNCHANGED cfg, phase \in {"log_prob", "update"}, Shared(batch', World),
         Dispatch("split", batch', 0), \A r \in Rank : worker[r].trained = <<>>
  PROVE  TrainingInv' /\ calling' = TRUE /\ phase' = phase
<1>1. /\ calling' = TRUE /\ phase' = phase
      /\ worker' = [r \in Rank |-> [Idle EXCEPT !.pc = "split", !.rows = Chunk(batch', World)[r + 1],
                                                !.n = 0, !.trained = worker[r].trained]]
  BY Zenon DEF Dispatch
<1>2. Rank' = Rank /\ World' = World
  BY Still
<1>3. ASSUME NEW r \in Rank
      PROVE  /\ worker'[r].pc = "split" /\ worker'[r].rows = Chunk(batch', World)[r + 1]
             /\ worker'[r].out = <<>> /\ worker'[r].mini = 1 /\ worker'[r].trained = <<>>
  BY <1>1, <1>3, Zenon DEF Idle
<1>4. \A r \in Rank : Mine(r)' = Chunk(batch', World)[r + 1]
  BY <1>2 DEF Mine
<1>5. ASSUME NEW r \in Rank, NEW up \in BOOLEAN
      PROVE  /\ Trains(worker'[r], up, cfg.dynamic)
             /\ Recomputes(worker'[r]) /\ Propagates(worker'[r])
  <2> DEFINE w == worker'[r]
  <2>1. /\ w.pc = "split" /\ w.out = <<>> /\ w.mini = 1 /\ w.trained = <<>>
        /\ w.rows \in Seq(Rollout) /\ w.rows # <<>>
    BY <1>3, MineIs
  <2> HIDE DEF w
  <2>2. Len(Minis(w, up)) \in Nat \ {0}
    BY <2>1, MinisAre
  <2>3. Trains(w, up, cfg.dynamic)
    BY <2>1, <2>2 DEF Trains
  <2>4. Recomputes(w)
    BY <2>1 DEF Recomputes
  <2>5. Propagates(w)
    <3>1. MiniBatch \in Nat /\ (1 - 1) * MiniBatch = 0
      BY StepAssumption
    <3>2. SubSeq(w.rows, 1, 0) = <<>>
      BY <2>1
    <3>3. <<>> \in Seq(Rollout) /\ Len(<<>>) = 0
      OBVIOUS
    <3>4. TrainedFirst(w.trained, w.rows, (w.mini - 1) * MiniBatch)
      BY <2>1, <3>1, <3>2, <3>3 DEF TrainedFirst
    <3> QED
      BY <2>1, <3>4 DEF Propagates
  <2> QED
    BY <2>3, <2>4, <2>5 DEF w
<1>6. TRUE \in BOOLEAN /\ FALSE \in BOOLEAN
  OBVIOUS
<1>7. \A r \in Rank : /\ worker'[r].rows = Mine(r)'
                      /\ Trains(worker'[r], TRUE, cfg.dynamic) /\ Trains(worker'[r], FALSE, cfg.dynamic)
                      /\ Recomputes(worker'[r]) /\ Propagates(worker'[r])
  BY <1>3, <1>4, <1>5, <1>6
<1> QED
  BY <1>1, <1>2, <1>7, Zenon DEF TrainingInv

-------------------------------------
(* Mini-batches are divided into micro-batches                              *)

\* The two ways to divide rows into micro-batches.
LEMMA DynamicDivides ==
  ASSUME NEW rows \in Seq(Rollout), rows # <<>>, NEW count \in Nat \ {0},
         MicroBatchCount(Lens(rows), MaxTokenLen) <= count
  PROVE  Divides(BalancedPartitions(Lens(rows), count, FALSE), rows, TRUE)
<1> DEFINE lens == Lens(rows)
           parts == BalancedPartitions(lens, count, FALSE)
<1>1. /\ lens \in Seq(Nat) /\ Len(lens) = Len(rows) /\ lens # <<>>
      /\ \A i \in DOMAIN lens : lens[i] \in 1..MaxTokenLen
  <2>1. lens \in Seq(Nat) /\ Len(lens) = Len(rows) /\ \A i \in DOMAIN lens : lens[i] \in 1..MaxTokenLen
    BY LensAre
  <2> HIDE DEF lens
  <2> QED
    BY <2>1
<1>2. MicroBatchCount(lens, MaxTokenLen) <= count
  OBVIOUS
<1> HIDE DEF lens
<1>3. /\ parts \in Seq(Seq(1..Len(lens)))
      /\ Permutes(FlattenSeq(parts), Len(lens))
      /\ \A i \in DOMAIN parts : Sum(Reorder(lens, parts[i])) < MaxTokenLen + Max(ToSet(lens))
  BY <1>1, <1>2, MicroFacts
<1> HIDE DEF parts
<1>4. Bounded(parts, lens)
  BY <1>3 DEF Bounded
<1> QED
  BY <1>1, <1>3, <1>4 DEF Divides, parts, lens

LEMMA StaticDivides ==
  ASSUME NEW rows \in Seq(Rollout), rows # <<>>
  PROVE  Divides(Split([i \in DOMAIN rows |-> i], MicroBatch), rows, FALSE)
<1> DEFINE D == 1..Len(rows)
           x == [i \in DOMAIN rows |-> i]
           parts == Split(x, MicroBatch)
<1>1. x = [i \in D |-> i] /\ x \in Seq(D) /\ Len(x) = Len(rows) /\ x # <<>> /\ DOMAIN x = D
  <2>1. x = [i \in D |-> i] /\ Len(rows) \in Nat \ {0}
    OBVIOUS
  <2>2. x \in Seq(D) /\ Len(x) = Len(rows)
    BY <2>1
  <2> HIDE DEF x
  <2> QED
    BY <2>1, <2>2
<1>2. MicroBatch \in Nat \ {0}
  BY StepAssumption
<1>3. IsInjective(x) /\ ToSet(x) = D
  BY <1>1 DEF IsInjective, ToSet
<1> HIDE DEF x, D
<1>4. FlattenSeq(parts) = x
  BY <1>1, <1>2, SplitFlattens
<1>5. IsSplit(parts, x, D, MicroBatch)
  BY <1>1, <1>2, SplitIs
<1>6. parts \in Seq(Seq(D))
  BY <1>5 DEF IsSplit
<1>7. Permutes(FlattenSeq(parts), Len(rows))
  BY <1>1, <1>3, <1>4 DEF Permutes, D
<1>8. FlattenSeq(parts) = [i \in 1..Len(rows) |-> i]
  BY <1>1, <1>4 DEF D
<1> HIDE DEF parts
<1> QED
  BY <1>6, <1>7, <1>8 DEF Divides, D, parts, x

\* All ranks train.
LEMMA WhereTraining ==
  ASSUME FreshInv, BatchInv, TrainingInv, NEW r \in Rank, worker[r].pc \in {"split", "forward"}
  PROVE  /\ calling /\ phase \in {"log_prob", "update"} /\ cfg.dynamic \in BOOLEAN
         /\ Shared(batch, World)
         /\ \A q \in Rank :
               /\ worker[q].rows = Mine(q) /\ Mine(q) \in Seq(Rollout) /\ Mine(q) # <<>>
               /\ Trains(worker[q], phase = "update", cfg.dynamic)
               /\ MiniBatches(q) = Minis(worker[q], phase = "update")
               /\ Current(q) = Now(worker[q], phase = "update")
               /\ phase = "log_prob" => Recomputes(worker[q])
               /\ phase = "update" => Propagates(worker[q])
<1>1. calling /\ phase \in {"log_prob", "update"}
  BY WhereAll
<1>2. Shared(batch, World)
  BY <1>1 DEF BatchInv, Ready
<1>3. \A q \in Rank : Mine(q) \in Seq(Rollout) /\ Mine(q) # <<>>
  BY <1>2, MineIs DEF Mine
<1>4. ASSUME NEW q \in Rank
      PROVE  /\ worker[q].rows = Mine(q) /\ Trains(worker[q], phase = "update", cfg.dynamic)
             /\ phase = "log_prob" => Recomputes(worker[q])
             /\ phase = "update" => Propagates(worker[q])
  <2>1. CASE phase = "log_prob"
    <3>1. (phase = "update") = FALSE
      BY <2>1
    <3> QED
      BY <1>1, <2>1, <3>1 DEF TrainingInv
  <2>2. CASE phase = "update"
    <3>1. (phase = "update") = TRUE
      BY <2>2
    <3> QED
      BY <1>1, <2>2, <3>1 DEF TrainingInv
  <2> QED
    BY <1>1, <2>1, <2>2
<1>5. \A q \in Rank : MiniBatches(q) = Minis(worker[q], phase = "update")
  BY DEF MiniBatches, Minis
<1>6. \A q \in Rank : Current(q) = Now(worker[q], phase = "update")
  BY <1>5 DEF Current, Now
<1>7. cfg.dynamic \in BOOLEAN
  BY StepAssumption DEF FreshInv, ConfigType
<1> QED
  BY <1>1, <1>2, <1>3, <1>4, <1>5, <1>6, <1>7

\* What a step of the training has to show.
LEMMA TrainingStays ==
  ASSUME UNCHANGED <<cfg, phase, calling, batch>>, phase \in {"log_prob", "update"},
         \A r \in Rank : /\ worker'[r].rows = Mine(r)
                         /\ Trains(worker'[r], phase = "update", cfg.dynamic)
                         /\ phase = "log_prob" => Recomputes(worker'[r])
                         /\ phase = "update" => Propagates(worker'[r])
  PROVE  TrainingInv'
<1>1. Rank' = Rank /\ World' = World
  BY Still
<1>2. \A r \in Rank : Mine(r)' = Mine(r)
  BY <1>1 DEF Mine
<1>3. (phase = "update") \in BOOLEAN
  OBVIOUS
<1>4. CASE phase = "log_prob"
  <2>1. (phase = "update") = FALSE
    BY <1>4
  <2>2. \A r \in Rank : /\ worker'[r].rows = Mine(r)'
                        /\ Trains(worker'[r], FALSE, cfg.dynamic) /\ Recomputes(worker'[r])
    BY <1>2, <1>4, <2>1
  <2> QED
    BY <1>1, <1>4, <2>2 DEF TrainingInv
<1>5. CASE phase = "update"
  <2>1. (phase = "update") = TRUE
    BY <1>5
  <2>2. \A r \in Rank : /\ worker'[r].rows = Mine(r)'
                        /\ Trains(worker'[r], TRUE, cfg.dynamic) /\ Propagates(worker'[r])
    BY <1>2, <1>5, <2>1
  <2> QED
    BY <1>1, <1>5, <2>2 DEF TrainingInv
<1> QED
  BY <1>4, <1>5

\* The count that the ranks agree on.
LEMMA AgreedCount ==
  ASSUME FreshInv, \A r \in Rank : Current(r) \in Seq(Rollout) /\ Current(r) # <<>>,
         NEW count, count = Max({MicroBatchCount(Lens(Current(r)), MaxTokenLen) : r \in Rank})
  PROVE  /\ count \in Nat \ {0}
         /\ \A r \in Rank : MicroBatchCount(Lens(Current(r)), MaxTokenLen) <= count
<1> DEFINE own == [i \in 1..World |-> MicroBatchCount(Lens(Current(i - 1)), MaxTokenLen)]
           S == {MicroBatchCount(Lens(Current(r)), MaxTokenLen) : r \in Rank}
<1>1. World \in Nat \ {0} /\ 0 \in Rank /\ \A r \in Rank : r + 1 \in 1..World /\ r + 1 - 1 = r
      /\ \A i \in 1..World : i - 1 \in Rank
  <2>1. World \in Nat \ {0}
    BY ConfigFacts DEF FreshInv
  <2> QED
    BY <2>1 DEF Rank
<1>2. \A r \in Rank : MicroBatchCount(Lens(Current(r)), MaxTokenLen) \in Nat \ {0}
  <2> SUFFICES ASSUME NEW r \in Rank PROVE MicroBatchCount(Lens(Current(r)), MaxTokenLen) \in Nat \ {0}
    OBVIOUS
  <2> DEFINE lens == Lens(Current(r))
  <2>1. /\ lens \in Seq(Nat) /\ Len(lens) = Len(Current(r))
        /\ \A i \in DOMAIN lens : lens[i] \in 1..MaxTokenLen
    BY LensAre
  <2> HIDE DEF lens
  <2>2. lens # <<>>
    BY <2>1
  <2>3. MicroBatchCount(lens, MaxTokenLen) \in Nat \ {0}
    BY <2>1, <2>2, MicroCount
  <2> QED
    BY <2>3 DEF lens
<1>3. S = {own[i] : i \in 1..World}
  <2> DEFINE Own(r) == MicroBatchCount(Lens(Current(r)), MaxTokenLen)
  <2>1. S = {Own(r) : r \in Rank} /\ own = [i \in 1..World |-> Own(i - 1)]
    OBVIOUS
  <2> HIDE DEF Own, own, S
  <2>2. \A i \in 1..World : own[i] = Own(i - 1)
    BY <2>1
  <2>3. ASSUME NEW r \in Rank PROVE Own(r) \in {own[i] : i \in 1..World}
    <3>0. r + 1 \in 1..World /\ r \in Nat
      BY <1>1 DEF Rank
    <3>1. r + 1 \in 1..World /\ (r + 1) - 1 = r
      BY <3>0
    <3>2. own[r + 1] = Own(r)
      BY <2>2, <3>1
    <3> QED
      BY <3>1, <3>2
  <2>4. \A i \in 1..World : own[i] \in S
    BY <1>1, <2>1, <2>2
  <2> QED
    BY <2>1, <2>3, <2>4
<1>4. S \subseteq Nat /\ S # {}
  BY <1>1, <1>2
<1> HIDE DEF S, own
<1>5. IsFiniteSet(S)
  BY <1>1, <1>3, FiniteRange
<1>6. Max(S) \in S /\ \A y \in S : y <= Max(S)
  BY <1>4, <1>5, MaxIs
<1>7. count = Max(S)
  BY DEF S
<1> QED
  BY <1>2, <1>6, <1>7 DEF S

LEMMA SplitKeepsTraining ==
  ASSUME FreshInv, BatchInv, TrainingInv, SplitMicroBatches
  PROVE  /\ TrainingInv' /\ UNCHANGED driver
         /\ calling /\ phase \in {"log_prob", "update"}
<1> USE Before
<1> DEFINE up == phase = "update"
           count == Max({MicroBatchCount(Lens(Current(r)), MaxTokenLen) : r \in Rank})
           micro(r) == IF cfg.dynamic THEN BalancedPartitions(Lens(Current(r)), count, FALSE)
                       ELSE Split([i \in DOMAIN Current(r) |-> i], MicroBatch)
<1>1. /\ UNCHANGED driver /\ \A r \in Rank : worker[r].pc = "split"
      /\ worker' = [r \in Rank |-> [worker[r] EXCEPT !.pc = "forward", !.forwards = 0, !.micro = micro(r)]]
  BY Zenon DEF SplitMicroBatches, AllAt
<1>2. 0 \in Rank
  BY ConfigFacts DEF FreshInv, Rank
<1>3. /\ calling /\ phase \in {"log_prob", "update"} /\ cfg.dynamic \in BOOLEAN
      /\ \A q \in Rank :
            /\ worker[q].rows = Mine(q) /\ Mine(q) \in Seq(Rollout) /\ Mine(q) # <<>>
            /\ Trains(worker[q], up, cfg.dynamic)
            /\ Current(q) = Now(worker[q], up)
            /\ phase = "log_prob" => Recomputes(worker[q])
            /\ phase = "update" => Propagates(worker[q])
  BY <1>1, <1>2, WhereTraining, Zenon
<1>4. up \in BOOLEAN
  OBVIOUS
<1>5. ASSUME NEW r \in Rank PROVE Current(r) \in Seq(Rollout) /\ Current(r) # <<>>
  <2>1. worker[r].mini \in 1..Len(Minis(worker[r], up))
    BY <1>1, <1>3, Zenon DEF Trains
  <2> HIDE DEF up
  <2> QED
    BY <1>3, <1>4, <2>1, NowIs
<1>6. /\ count \in Nat \ {0}
      /\ \A r \in Rank : MicroBatchCount(Lens(Current(r)), MaxTokenLen) <= count
  BY <1>5, AgreedCount
<1> HIDE DEF count, up
<1>7. ASSUME NEW r \in Rank PROVE Divides(micro(r), Current(r), cfg.dynamic)
  <2>1. CASE cfg.dynamic
    <3>1. cfg.dynamic = TRUE
      BY <1>3, <2>1
    <3>2. Divides(BalancedPartitions(Lens(Current(r)), count, FALSE), Current(r), TRUE)
      BY <1>5, <1>6, DynamicDivides
    <3> QED
      BY <3>1, <3>2
  <2>2. CASE ~cfg.dynamic
    <3>1. cfg.dynamic = FALSE
      BY <1>3, <2>2
    <3>2. Divides(Split([i \in DOMAIN Current(r) |-> i], MicroBatch), Current(r), FALSE)
      BY <1>5, StaticDivides
    <3> QED
      BY <3>1, <3>2
  <2> QED
    BY <2>1, <2>2
<1> HIDE DEF micro
<1>8. ASSUME NEW r \in Rank
      PROVE  /\ worker'[r].rows = Mine(r)
             /\ Trains(worker'[r], up, cfg.dynamic)
             /\ phase = "log_prob" => Recomputes(worker'[r])
             /\ phase = "update" => Propagates(worker'[r])
  <2> DEFINE v == worker[r]
             w == worker'[r]
  <2>1. /\ w.pc = "forward" /\ w.forwards = 0 /\ w.micro = micro(r) /\ w.rows = v.rows
        /\ w.mini = v.mini /\ w.out = v.out /\ w.trained = v.trained /\ v.pc = "split"
    BY <1>1, Zenon DEF Idle
  <2>2. /\ v.rows = Mine(r) /\ v.rows \in Seq(Rollout) /\ Trains(v, up, cfg.dynamic)
        /\ v.mini \in 1..Len(Minis(v, up)) /\ Current(r) = Now(v, up)
        /\ phase = "log_prob" => Recomputes(v)
        /\ phase = "update" => Propagates(v)
    BY <1>3, <2>1 DEF Trains
  <2> HIDE DEF v, w
  <2>3. Minis(w, up) = Minis(v, up) /\ Now(w, up) = Now(v, up)
    BY <2>1 DEF Minis, Now
  <2>4. Divides(w.micro, Now(w, up), cfg.dynamic)
    BY <1>7, <2>1, <2>2, <2>3
  <2>5. Trains(w, up, cfg.dynamic)
    <3>1. Len(w.micro) \in Nat
      BY <2>4 DEF Divides
    <3>2. w.forwards \in 0..Len(w.micro)
      BY <2>1, <3>1
    <3> QED
      BY <2>1, <2>2, <2>3, <2>4, <3>2 DEF Trains
  <2>6. Joined(w.micro, 0) = <<>>
    <3>1. w.micro \in Seq(Seq(1..Len(Now(w, up))))
      BY <2>4 DEF Divides
    <3> QED
      BY <3>1, Joining
  <2>7. \A u \in BOOLEAN : Passed(w, u) = <<>>
    BY <2>1, <2>6 DEF Passed, Reorder
  <2>8. ASSUME phase = "log_prob" PROVE Recomputes(w)
    <3>1. v.out = <<>>
      BY <2>1, <2>2, <2>8 DEF Recomputes
    <3>2. Passed(w, FALSE) = <<>>
      BY <2>7
    <3>3. Ids(<<>>) = <<>>
      BY DEF Ids
    <3>4. Ids(Passed(w, FALSE)) = <<>>
      BY <3>2, <3>3
    <3> QED
      BY <2>1, <3>1, <3>4 DEF Recomputes
  <2>9. ASSUME phase = "update" PROVE Propagates(w)
    <3>1. TrainedFirst(v.trained, v.rows, (v.mini - 1) * MiniBatch)
      BY <2>1, <2>2, <2>9 DEF Propagates
    <3>2. v.trained \in Seq(Rollout)
      BY <3>1 DEF TrainedFirst
    <3>5. Passed(w, TRUE) = <<>>
      BY <2>7
    <3>6. v.trained \o <<>> = v.trained
      BY <3>2
    <3>3. w.trained = v.trained \o Passed(w, TRUE)
      BY <2>1, <3>5, <3>6
    <3>4. TrainedFirst(v.trained, w.rows, (w.mini - 1) * MiniBatch)
      BY <2>1, <3>1
    <3> QED
      BY <2>1, <3>2, <3>3, <3>4 DEF Propagates
  <2>10. w.rows = Mine(r)
    BY <2>1, <2>2
  <2> QED
    BY <2>5, <2>8, <2>9, <2>10 DEF w
<1>9. UNCHANGED <<cfg, phase, calling, batch>>
  BY <1>1, Zenon DEF driver
<1> QED
  BY <1>1, <1>3, <1>8, <1>9, TrainingStays, Zenon DEF up

-------------------------------------
(* Passes, one micro-batch after another                                    *)

LEMMA IdsAre ==
  ASSUME NEW rows \in Seq(Rollout)
  PROVE  /\ Ids(rows) \in Seq(RowId) /\ Len(Ids(rows)) = Len(rows)
         /\ \A i \in 1..Len(rows) : Ids(rows)[i] = rows[i].id
<1>1. \A i \in 1..Len(rows) : rows[i] \in Rollout
  OBVIOUS
<1>2. \A x \in Rollout : x.id \in RowId
  BY DEF Rollout
<1>3. Ids(rows) = [i \in 1..Len(rows) |-> rows[i].id] /\ Len(rows) \in Nat
  BY DEF Ids
<1> QED
  BY <1>1, <1>2, <1>3

LEMMA ConcatIs ==
  ASSUME NEW S, NEW p \in Seq(S), NEW q \in Seq(S)
  PROVE  /\ p \o q \in Seq(S) /\ Len(p \o q) = Len(p) + Len(q)
         /\ \A i \in 1..(Len(p) + Len(q)) : (p \o q)[i] = IF i <= Len(p) THEN p[i] ELSE q[i - Len(p)]
OBVIOUS

LEMMA RolloutsConcat == \A a, b, c \in Seq(Rollout) : (a \o b) \o c = a \o (b \o c)
BY ConcatAssociative

LEMMA IdsJoin ==
  ASSUME NEW a \in Seq(Rollout), NEW b \in Seq(Rollout)
  PROVE  Ids(a \o b) = Ids(a) \o Ids(b)
<1>1. a \o b \in Seq(Rollout) /\ Len(a \o b) = Len(a) + Len(b) /\ Len(a) \in Nat /\ Len(b) \in Nat
  OBVIOUS
<1>2. /\ Ids(a) \in Seq(RowId) /\ Len(Ids(a)) = Len(a)
      /\ \A i \in 1..Len(a) : Ids(a)[i] = a[i].id
  BY IdsAre
<1>3. /\ Ids(b) \in Seq(RowId) /\ Len(Ids(b)) = Len(b)
      /\ \A i \in 1..Len(b) : Ids(b)[i] = b[i].id
  BY IdsAre
<1>4. /\ Ids(a \o b) \in Seq(RowId) /\ Len(Ids(a \o b)) = Len(a) + Len(b)
      /\ \A i \in 1..(Len(a) + Len(b)) : Ids(a \o b)[i] = (a \o b)[i].id
  BY <1>1, IdsAre
<1>5. \A i \in 1..(Len(a) + Len(b)) : (a \o b)[i] = IF i <= Len(a) THEN a[i] ELSE b[i - Len(a)]
  OBVIOUS
<1>6. /\ Ids(a) \o Ids(b) \in Seq(RowId) /\ Len(Ids(a) \o Ids(b)) = Len(a) + Len(b)
      /\ \A i \in 1..(Len(a) + Len(b)) :
            (Ids(a) \o Ids(b))[i] = IF i <= Len(a) THEN Ids(a)[i] ELSE Ids(b)[i - Len(a)]
  <2> HIDE DEF Ids
  <2>1. Ids(a) \in Seq(RowId) /\ Ids(b) \in Seq(RowId)
    BY <1>2, <1>3
  <2>2. /\ Ids(a) \o Ids(b) \in Seq(RowId) /\ Len(Ids(a) \o Ids(b)) = Len(Ids(a)) + Len(Ids(b))
        /\ \A i \in 1..(Len(Ids(a)) + Len(Ids(b))) :
              (Ids(a) \o Ids(b))[i] = IF i <= Len(Ids(a)) THEN Ids(a)[i] ELSE Ids(b)[i - Len(Ids(a))]
    BY <2>1, ConcatIs
  <2> QED
    BY <1>2, <1>3, <2>2
<1>7. ASSUME NEW i \in 1..(Len(a) + Len(b)) PROVE Ids(a \o b)[i] = (Ids(a) \o Ids(b))[i]
  <2>1. CASE i <= Len(a)
    <3>1. i \in 1..Len(a)
      BY <2>1, <1>1
    <3> QED
      BY <1>2, <1>4, <1>5, <1>6, <2>1, <3>1
  <2>2. CASE ~(i <= Len(a))
    <3>1. i - Len(a) \in 1..Len(b)
      BY <2>2, <1>1
    <3> QED
      BY <1>3, <1>4, <1>5, <1>6, <2>2, <3>1
  <2> QED
    BY <2>1, <2>2
<1> HIDE DEF Ids
<1> QED
  BY <1>4, <1>6, <1>7

LEMMA JoinedToSet ==
  ASSUME NEW S, NEW a \in Seq(S), NEW b \in Seq(S)
  PROVE  ToSet(a \o b) = ToSet(a) \cup ToSet(b)
<1>1. DOMAIN a = 1..Len(a) /\ DOMAIN b = 1..Len(b) /\ DOMAIN (a \o b) = 1..(Len(a) + Len(b))
      /\ Len(a) \in Nat /\ Len(b) \in Nat
  OBVIOUS
<1>2. ASSUME NEW x \in ToSet(a \o b) PROVE x \in ToSet(a) \cup ToSet(b)
  <2>1. PICK i \in 1..(Len(a) + Len(b)) : x = (a \o b)[i]
    BY <1>1 DEF ToSet
  <2>2. CASE i <= Len(a)
    BY <1>1, <2>1, <2>2 DEF ToSet
  <2>3. CASE i > Len(a)
    <3>1. x = b[i - Len(a)] /\ i - Len(a) \in 1..Len(b)
      BY <1>1, <2>1, <2>3
    <3> QED
      BY <1>1, <3>1 DEF ToSet
  <2> QED
    BY <1>1, <2>2, <2>3
<1>3. ASSUME NEW i \in 1..Len(a) PROVE a[i] \in ToSet(a \o b)
  <2>1. i \in 1..(Len(a) + Len(b)) /\ (a \o b)[i] = a[i]
    BY <1>1
  <2> QED
    BY <1>1, <2>1 DEF ToSet
<1>4. ASSUME NEW i \in 1..Len(b) PROVE b[i] \in ToSet(a \o b)
  <2>1. Len(a) + i \in 1..(Len(a) + Len(b)) /\ (a \o b)[Len(a) + i] = b[i]
    BY <1>1
  <2> QED
    BY <1>1, <2>1 DEF ToSet
<1>5. ToSet(a) = {a[i] : i \in 1..Len(a)} /\ ToSet(b) = {b[i] : i \in 1..Len(b)}
  BY <1>1 DEF ToSet
<1> QED
  BY <1>2, <1>3, <1>4, <1>5

\* One more pass is done.
LEMMA PassesGrow ==
  ASSUME NEW v, NEW w, NEW up, NEW dynamic, Now(v, up) \in Seq(Rollout),
         Divides(v.micro, Now(v, up), dynamic), v.forwards \in 0..Len(v.micro), v.forwards < Len(v.micro),
         w.rows = v.rows, w.mini = v.mini, w.micro = v.micro, w.forwards = v.forwards + 1
  PROVE  /\ w.forwards \in 0..Len(w.micro) /\ Now(w, up) = Now(v, up)
         /\ Passed(v, up) \in Seq(Rollout)
         /\ Reorder(Now(v, up), v.micro[v.forwards + 1]) \in Seq(Rollout)
         /\ Passed(w, up) = Passed(v, up) \o Reorder(Now(v, up), v.micro[v.forwards + 1])
<1> DEFINE now == Now(v, up)
           k == v.forwards
           D == DOMAIN now
<1>1. Now(w, up) = now
  BY DEF Now, Minis
<1>2. now \in Seq(Rollout) /\ D = 1..Len(now)
  OBVIOUS
<1>3. v.micro \in Seq(Seq(D))
  BY <1>2 DEF Divides
<1> HIDE DEF now, D
<1>4. k \in 0..Len(v.micro) /\ k + 1 \in 1..Len(v.micro) /\ k + 1 \in 0..Len(v.micro)
  BY <1>3
<1> HIDE DEF k
<1>5. /\ Joined(v.micro, k) \in Seq(D)
      /\ Joined(v.micro, k + 1) = Joined(v.micro, k) \o v.micro[k + 1]
  BY <1>3, <1>4, Joining
<1>6. v.micro[k + 1] \in Seq(D)
  BY <1>3, <1>4
<1>7. /\ Reorder(now, Joined(v.micro, k)) \in Seq(Rollout)
      /\ Reorder(now, Joined(v.micro, k) \o v.micro[k + 1])
             = Reorder(now, Joined(v.micro, k)) \o Reorder(now, v.micro[k + 1])
  BY <1>2, <1>5, <1>6, ReorderJoins DEF D
<1>8. Reorder(now, v.micro[k + 1]) \in Seq(Rollout)
  BY <1>2, <1>6, ReorderIs DEF D
<1>9. Passed(v, up) = Reorder(now, Joined(v.micro, k))
  BY DEF Passed, now, k
<1>10. Passed(w, up) = Reorder(now, Joined(v.micro, k + 1))
  BY <1>1 DEF Passed, k
<1> QED
  BY <1>1, <1>4, <1>5, <1>7, <1>8, <1>9, <1>10 DEF now, k

LEMMA ForwardKeepsTraining ==
  ASSUME FreshInv, BatchInv, TrainingInv, Forward
  PROVE  /\ TrainingInv' /\ UNCHANGED driver
         /\ calling /\ phase \in {"log_prob", "update"}
<1> USE Before
<1> DEFINE up == phase = "update"
           rows(r) == Reorder(Current(r), worker[r].micro[worker[r].forwards + 1])
<1>1. /\ UNCHANGED driver /\ \A r \in Rank : worker[r].pc = "forward"
      /\ \A r \in Rank : worker[r].forwards < Len(worker[r].micro)
      /\ worker' = [r \in Rank |->
             IF phase = "log_prob"
             THEN [worker[r] EXCEPT !.forwards = worker[r].forwards + 1,
                                    !.out = worker[r].out \o [i \in DOMAIN rows(r) |-> rows(r)[i].id]]
             ELSE [worker[r] EXCEPT !.forwards = worker[r].forwards + 1,
                                    !.trained = worker[r].trained \o rows(r)]]
  BY Zenon DEF Forward, AllAt
<1>2. 0 \in Rank
  BY ConfigFacts DEF FreshInv, Rank
<1>3. /\ calling /\ phase \in {"log_prob", "update"} /\ cfg.dynamic \in BOOLEAN
      /\ \A q \in Rank :
            /\ worker[q].rows = Mine(q) /\ Mine(q) \in Seq(Rollout) /\ Mine(q) # <<>>
            /\ Trains(worker[q], up, cfg.dynamic)
            /\ Current(q) = Now(worker[q], up)
            /\ phase = "log_prob" => Recomputes(worker[q])
            /\ phase = "update" => Propagates(worker[q])
  BY <1>1, <1>2, WhereTraining, Zenon
<1>4. up \in BOOLEAN /\ (phase = "log_prob" => up = FALSE) /\ (phase = "update" => up = TRUE)
  OBVIOUS
<1>5. \A r \in Rank : Ids(rows(r)) = [i \in DOMAIN rows(r) |-> rows(r)[i].id]
  BY DEF Ids
<1> HIDE DEF up, rows
<1>8. ASSUME NEW r \in Rank
      PROVE  /\ worker'[r].rows = Mine(r)
             /\ Trains(worker'[r], up, cfg.dynamic)
             /\ phase = "log_prob" => Recomputes(worker'[r])
             /\ phase = "update" => Propagates(worker'[r])
  <2> DEFINE v == worker[r]
             w == worker'[r]
  <2>1. /\ w.pc = "forward" /\ w.forwards = v.forwards + 1 /\ w.micro = v.micro /\ w.rows = v.rows
        /\ w.mini = v.mini /\ v.pc = "forward" /\ v.forwards < Len(v.micro)
        /\ phase = "log_prob" => w.out = v.out \o Ids(rows(r))
        /\ phase # "log_prob" => w.trained = v.trained \o rows(r)
    BY <1>1, <1>5, Zenon DEF Idle
  <2>2. /\ v.rows = Mine(r) /\ v.rows \in Seq(Rollout) /\ v.rows # <<>> /\ Trains(v, up, cfg.dynamic)
        /\ v.mini \in 1..Len(Minis(v, up)) /\ Current(r) = Now(v, up)
        /\ Divides(v.micro, Now(v, up), cfg.dynamic) /\ v.forwards \in 0..Len(v.micro)
        /\ phase = "log_prob" => Recomputes(v)
        /\ phase = "update" => Propagates(v)
    BY <1>3, <2>1 DEF Trains
  <2>3. rows(r) = Reorder(Now(v, up), v.micro[v.forwards + 1])
    BY <2>2 DEF rows
  <2> HIDE DEF v, w
  <2>4. Now(v, up) \in Seq(Rollout)
    BY <1>4, <2>2, NowIs
  <2>5. /\ w.forwards \in 0..Len(w.micro) /\ Now(w, up) = Now(v, up)
        /\ Passed(v, up) \in Seq(Rollout) /\ rows(r) \in Seq(Rollout)
        /\ Passed(w, up) = Passed(v, up) \o rows(r)
    BY <2>1, <2>2, <2>3, <2>4, PassesGrow
  <2>6. Minis(w, up) = Minis(v, up)
    BY <2>1 DEF Minis
  <2>7. Trains(w, up, cfg.dynamic)
    BY <2>1, <2>2, <2>5, <2>6 DEF Trains
  <2>8. ASSUME phase = "log_prob" PROVE Recomputes(w)
    <3>1. v.out = Ids(Passed(v, FALSE)) /\ up = FALSE
      BY <1>4, <2>1, <2>2, <2>8 DEF Recomputes
    <3>2. Ids(Passed(v, up) \o rows(r)) = Ids(Passed(v, up)) \o Ids(rows(r))
      BY <2>5, IdsJoin
    <3>3. w.out = Ids(Passed(w, FALSE))
      BY <2>1, <2>5, <2>8, <3>1, <3>2
    <3> QED
      BY <2>1, <3>3 DEF Recomputes
  <2>9. ASSUME phase = "update" PROVE Propagates(w)
    <3>1. up = TRUE /\ w.trained = v.trained \o rows(r)
      BY <1>4, <2>1, <2>9
    <3>2. PICK earlier \in Seq(Rollout) :
                 /\ TrainedFirst(earlier, v.rows, (v.mini - 1) * MiniBatch)
                 /\ v.trained = earlier \o Passed(v, TRUE)
      BY <2>1, <2>2, <2>9 DEF Propagates
    <3>4. (earlier \o Passed(v, up)) \o rows(r) = earlier \o (Passed(v, up) \o rows(r))
      BY <2>5, RolloutsConcat
    <3>5. w.trained = earlier \o Passed(w, TRUE)
      BY <2>5, <3>1, <3>2, <3>4
    <3>6. TrainedFirst(earlier, w.rows, (w.mini - 1) * MiniBatch)
      BY <2>1, <3>2
    <3> QED
      BY <2>1, <3>5, <3>6 DEF Propagates
  <2>10. w.rows = Mine(r)
    BY <2>1, <2>2
  <2> QED
    BY <2>7, <2>8, <2>9, <2>10 DEF w
<1>9. UNCHANGED <<cfg, phase, calling, batch>>
  BY <1>1, Zenon DEF driver
<1> QED
  BY <1>1, <1>3, <1>8, <1>9, TrainingStays, Zenon DEF up

\* What the rows of all passes are.
LEMMA PassesAreDone ==
  ASSUME NEW v, NEW up, NEW dynamic, Now(v, up) \in Seq(Rollout),
         Divides(v.micro, Now(v, up), dynamic), v.forwards = Len(v.micro)
  PROVE  /\ Permutes(FlattenSeq(v.micro), Len(Now(v, up)))
         /\ Passed(v, up) = Reorder(Now(v, up), FlattenSeq(v.micro))
<1>1. v.micro \in Seq(Seq(1..Len(Now(v, up)))) /\ Permutes(FlattenSeq(v.micro), Len(Now(v, up)))
  BY DEF Divides
<1>2. Joined(v.micro, Len(v.micro)) = FlattenSeq(v.micro)
  BY <1>1, Joining
<1> QED
  BY <1>1, <1>2 DEF Passed

LEMMA IdsReorder ==
  ASSUME NEW rows \in Seq(Rollout), NEW p \in Seq(1..Len(rows))
  PROVE  Ids(Reorder(rows, p)) = Reorder(Ids(rows), p)
<1>1. DOMAIN rows = 1..Len(rows)
  OBVIOUS
<1>2. /\ Ids(rows) \in Seq(RowId) /\ Len(Ids(rows)) = Len(rows)
      /\ \A i \in 1..Len(rows) : Ids(rows)[i] = rows[i].id
  BY IdsAre
<1>3. DOMAIN Ids(rows) = 1..Len(rows)
  BY <1>1 DEF Ids
<1>4. /\ Reorder(rows, p) \in Seq(Rollout) /\ Len(Reorder(rows, p)) = Len(p)
      /\ \A i \in 1..Len(p) : Reorder(rows, p)[i] = rows[p[i]]
  BY <1>1, ReorderIs
<1>5. /\ Ids(Reorder(rows, p)) \in Seq(RowId) /\ Len(Ids(Reorder(rows, p))) = Len(p)
      /\ \A i \in 1..Len(p) : Ids(Reorder(rows, p))[i] = Reorder(rows, p)[i].id
  BY <1>4, IdsAre
<1> HIDE DEF Ids
<1>6. /\ Reorder(Ids(rows), p) \in Seq(RowId) /\ Len(Reorder(Ids(rows), p)) = Len(p)
      /\ \A i \in 1..Len(p) : Reorder(Ids(rows), p)[i] = Ids(rows)[p[i]]
  BY <1>2, <1>3, ReorderIs
<1>7. \A i \in 1..Len(p) : p[i] \in 1..Len(rows)
  OBVIOUS
<1>8. \A i \in 1..Len(p) : Ids(Reorder(rows, p))[i] = Reorder(Ids(rows), p)[i]
  BY <1>2, <1>4, <1>5, <1>6, <1>7
<1> HIDE DEF Reorder
<1> QED
  BY <1>5, <1>6, <1>8

\* The order of the rows of a rank is restored.
LEMMA RevertOrderKeepsTraining ==
  ASSUME FreshInv, BatchInv, TrainingInv, NEW r \in Rank, RevertOrder(r)
  PROVE  /\ TrainingInv' /\ UNCHANGED driver
         /\ calling /\ phase = "log_prob"
<1> USE Before
<1>1. /\ UNCHANGED driver /\ phase = "log_prob" /\ worker[r].pc = "forward"
      /\ worker[r].forwards = Len(worker[r].micro)
      /\ worker' = [worker EXCEPT ![r].pc = "returned",
             ![r].out = IF cfg.dynamic THEN Reorder(worker[r].out, ReverseIndex(FlattenSeq(worker[r].micro)))
                        ELSE worker[r].out]
  BY DEF RevertOrder, PassesDone
<1>2. DOMAIN worker = Rank /\ \A q \in Rank : DOMAIN worker[q] = DOMAIN Idle
  BY DEF FreshInv, InShape
<1>3. /\ calling /\ cfg.dynamic \in BOOLEAN
      /\ \A q \in Rank :
            /\ worker[q].rows = Mine(q) /\ Mine(q) \in Seq(Rollout) /\ Mine(q) # <<>>
            /\ Trains(worker[q], FALSE, cfg.dynamic)
            /\ Recomputes(worker[q])
  <2>1. (phase = "update") = FALSE
    BY <1>1
  <2> QED
    BY <1>1, <2>1, WhereTraining
<1>4. \A q \in Rank \ {r} : worker'[q] = worker[q]
  BY <1>1, <1>2
<1>5. /\ worker'[r].rows = Mine(r)
      /\ Trains(worker'[r], FALSE, cfg.dynamic) /\ Recomputes(worker'[r])
  <2> DEFINE v == worker[r]
             w == worker'[r]
             flat == FlattenSeq(v.micro)
             rows == v.rows
  <2>1. /\ w.pc = "returned" /\ w.rows = v.rows
        /\ v.pc = "forward" /\ v.forwards = Len(v.micro)
        /\ w.out = IF cfg.dynamic THEN Reorder(v.out, ReverseIndex(flat)) ELSE v.out
    BY <1>1, <1>2 DEF Idle
  <2>2. /\ rows = Mine(r) /\ rows \in Seq(Rollout) /\ rows # <<>>
        /\ v.mini \in 1..Len(Minis(v, FALSE)) /\ Divides(v.micro, Now(v, FALSE), cfg.dynamic)
        /\ v.out = Ids(Passed(v, FALSE))
    BY <1>3, <2>1 DEF Trains, Recomputes
  <2> HIDE DEF w
  <2>3. Now(v, FALSE) = rows
    <3> HIDE DEF v
    <3>1. Len(Minis(v, FALSE)) = 1 /\ Minis(v, FALSE)[1] = rows
      BY <2>2, MinisAre
    <3>2. v.mini = 1
      <4>1. v.mini \in 1..Len(Minis(v, FALSE))
        BY <2>2
      <4>2. v.mini \in 1..1
        BY <3>1, <4>1
      <4> QED
        BY <4>2
    <3> QED
      BY <3>1, <3>2 DEF Now
  <2>4. Permutes(flat, Len(rows)) /\ Passed(v, FALSE) = Reorder(rows, flat)
    <3> HIDE DEF v
    <3> QED
      BY <2>1, <2>2, <2>3, PassesAreDone
  <2> HIDE DEF v
  <2>5. w.out = Ids(rows)
    <3>0. flat \in Seq(1..Len(rows)) /\ Len(rows) \in Nat
      BY <2>2, <2>4 DEF Permutes
    <3>1. CASE cfg.dynamic
      <4>1. v.out = Reorder(Ids(rows), flat)
        BY <2>2, <2>4, <3>0, IdsReorder
      <4>2. Ids(rows) \in Seq(RowId) /\ Len(Ids(rows)) = Len(rows)
        BY <2>2, IdsAre
      <4>3. Reorder(Reorder(Ids(rows), flat), ReverseIndex(flat)) = Ids(rows)
        BY <2>4, <3>0, <4>2, Reverses
      <4> QED
        BY <2>1, <3>1, <4>1, <4>3
    <3>2. CASE ~cfg.dynamic
      <4>1. flat = [i \in 1..Len(rows) |-> i]
        BY <1>3, <2>2, <2>3, <3>2 DEF Divides
      <4>2. Reorder(rows, [i \in 1..Len(rows) |-> i]) = rows
        BY <2>2 DEF Reorder
      <4> QED
        BY <2>1, <2>2, <2>4, <3>2, <4>1, <4>2
    <3> QED
      BY <3>1, <3>2
  <2>6. w.rows = Mine(r)
    BY <2>1, <2>2
  <2>7. Trains(w, FALSE, cfg.dynamic)
    BY <2>1 DEF Trains
  <2>8. Recomputes(w)
    BY <2>1, <2>5 DEF Recomputes
  <2> QED
    BY <2>6, <2>7, <2>8 DEF w
<1>6. \A q \in Rank : /\ worker'[q].rows = Mine(q)
                      /\ Trains(worker'[q], FALSE, cfg.dynamic) /\ Recomputes(worker'[q])
  BY <1>3, <1>4, <1>5
<1>7. UNCHANGED <<cfg, phase, calling, batch>>
  BY <1>1 DEF driver
<1>8. (phase = "update") = FALSE
  BY <1>1
<1>9. TrainingInv'
  BY <1>1, <1>6, <1>7, <1>8, TrainingStays
<1> QED
  BY <1>1, <1>3, <1>9

LEMMA ReorderedSet ==
  ASSUME NEW R, NEW rows \in Seq(R), NEW p, Permutes(p, Len(rows))
  PROVE  /\ Reorder(rows, p) \in Seq(R) /\ Len(Reorder(rows, p)) = Len(rows)
         /\ ToSet(Reorder(rows, p)) = ToSet(rows)
<1>1. DOMAIN rows = 1..Len(rows) /\ Len(rows) \in Nat
  OBVIOUS
<1>2. p \in Seq(1..Len(rows)) /\ Len(p) = Len(rows) /\ ToSet(p) = 1..Len(rows)
  BY <1>1, Permuting DEF Permutes
<1>3. /\ Reorder(rows, p) \in Seq(R) /\ Len(Reorder(rows, p)) = Len(rows)
      /\ \A i \in 1..Len(rows) : Reorder(rows, p)[i] = rows[p[i]]
  <2>1. p \in Seq(DOMAIN rows)
    BY <1>1, <1>2
  <2>2. /\ Reorder(rows, p) \in Seq(R) /\ Len(Reorder(rows, p)) = Len(p)
        /\ \A i \in 1..Len(p) : Reorder(rows, p)[i] = rows[p[i]]
    BY <2>1, ReorderIs
  <2> QED
    BY <1>2, <2>2
<1>4. DOMAIN Reorder(rows, p) = 1..Len(rows) /\ DOMAIN p = 1..Len(rows)
  BY <1>2 DEF Reorder
<1>5. \A i \in 1..Len(rows) : \E j \in 1..Len(rows) : p[j] = i
  BY <1>2, <1>4 DEF ToSet
<1>6. \A i \in 1..Len(rows) : p[i] \in 1..Len(rows)
  BY <1>2
<1> HIDE DEF Reorder
<1> QED
  BY <1>1, <1>3, <1>4, <1>5, <1>6 DEF ToSet

LEMMA RolloutsJoin ==
  \A a, b \in Seq(Rollout) : /\ a \o b \in Seq(Rollout) /\ Len(a \o b) = Len(a) + Len(b)
                             /\ ToSet(a \o b) = ToSet(a) \cup ToSet(b)
BY JoinedToSet, ConcatIs

\* The rows of the mini-batches so far, when the passes over one are done.
LEMMA MiniBatchTrained ==
  ASSUME NEW v, v.rows \in Seq(Rollout), v.rows # <<>>, NEW dynamic, Trains(v, TRUE, dynamic), v.pc = "forward",
         v.forwards = Len(v.micro), Propagates(v)
  PROVE  LET m == EndOfPart(Len(v.rows), MiniBatch, v.mini) IN
         /\ TrainedFirst(v.trained, v.rows, m)
         /\ v.mini \in 1..Len(Minis(v, TRUE))
         /\ m = IF v.mini = Len(Minis(v, TRUE)) THEN Len(v.rows) ELSE v.mini * MiniBatch
<1> DEFINE rows == v.rows
           i == v.mini
           now == Now(v, TRUE)
           a == (i - 1) * MiniBatch
           m == EndOfPart(Len(rows), MiniBatch, i)
<1>1. /\ IsSplit(Minis(v, TRUE), rows, Rollout, MiniBatch) /\ i \in 1..Len(Minis(v, TRUE))
      /\ now = Minis(v, TRUE)[i] /\ Divides(v.micro, now, dynamic)
  <2>1. IsSplit(Minis(v, TRUE), v.rows, Rollout, MiniBatch)
    BY MinisAre
  <2> QED
    BY <2>1 DEF Trains, Now
<1>2. PICK earlier \in Seq(Rollout) : /\ TrainedFirst(earlier, rows, a)
                                      /\ v.trained = earlier \o Passed(v, TRUE)
  BY DEF Propagates
<1> HIDE DEF now
<1>3. /\ a \in Nat /\ m <= Len(rows) /\ a + Len(now) = m /\ now \in Seq(Rollout)
      /\ \A j \in 1..Len(now) : now[j] = rows[a + j]
      /\ i # Len(Minis(v, TRUE)) => m = i * MiniBatch
      /\ i = Len(Minis(v, TRUE)) => m = Len(rows)
  BY <1>1 DEF IsSplit
<1> HIDE DEF a, m
<1>4. SubSeq(rows, 1, m) = SubSeq(rows, 1, a) \o now
  <2>1. a + Len(now) <= Len(rows)
    BY <1>3
  <2>2. SubSeq(rows, 1, a + Len(now)) = SubSeq(rows, 1, a) \o now
    BY <1>3, <2>1, FirstExtends
  <2> QED
    BY <1>3, <2>2
<1>5. /\ Passed(v, TRUE) \in Seq(Rollout) /\ Len(Passed(v, TRUE)) = Len(now)
      /\ ToSet(Passed(v, TRUE)) = ToSet(now)
  <2>1. Permutes(FlattenSeq(v.micro), Len(now)) /\ Passed(v, TRUE) = Reorder(now, FlattenSeq(v.micro))
    <3>1. Now(v, TRUE) \in Seq(Rollout) /\ Divides(v.micro, Now(v, TRUE), dynamic)
      BY <1>1, <1>3 DEF now
    <3> QED
      BY <3>1, PassesAreDone DEF now
  <2> DEFINE p == FlattenSeq(v.micro)
  <2> HIDE DEF p
  <2>2. Permutes(p, Len(now)) /\ Passed(v, TRUE) = Reorder(now, p)
    BY <2>1 DEF p
  <2>3. /\ Reorder(now, p) \in Seq(Rollout) /\ Len(Reorder(now, p)) = Len(now)
        /\ ToSet(Reorder(now, p)) = ToSet(now)
    BY <1>3, <2>2, ReorderedSet
  <2> QED
    BY <2>2, <2>3
<1>6. earlier \in Seq(Rollout) /\ Len(earlier) = a /\ ToSet(earlier) = ToSet(SubSeq(rows, 1, a))
  BY <1>2 DEF TrainedFirst
<1>7. SubSeq(rows, 1, a) \in Seq(Rollout)
  <2>1. a \in 0..Len(rows) /\ rows \in Seq(Rollout)
    BY <1>3
  <2> QED
    BY <2>1, FirstOnes
<1>8. v.trained \in Seq(Rollout) /\ Len(v.trained) = m
  <2>1. Len(earlier \o Passed(v, TRUE)) = Len(earlier) + Len(Passed(v, TRUE))
        /\ earlier \o Passed(v, TRUE) \in Seq(Rollout)
    BY <1>5, <1>6, RolloutsJoin
  <2> QED
    BY <1>2, <1>3, <1>5, <1>6, <2>1
<1>9. ToSet(v.trained) = ToSet(SubSeq(rows, 1, m))
  <2>1. ToSet(earlier \o Passed(v, TRUE)) = ToSet(earlier) \cup ToSet(Passed(v, TRUE))
    BY <1>5, <1>6, RolloutsJoin
  <2>2. ToSet(SubSeq(rows, 1, a) \o now) = ToSet(SubSeq(rows, 1, a)) \cup ToSet(now)
    BY <1>3, <1>7, RolloutsJoin
  <2> QED
    BY <1>2, <1>4, <1>5, <1>6, <2>1, <2>2
<1>10. TrainedFirst(v.trained, rows, m)
  BY <1>8, <1>9 DEF TrainedFirst
<1>11. m = IF i = Len(Minis(v, TRUE)) THEN Len(rows) ELSE i * MiniBatch
  BY <1>3
<1> QED
  BY <1>1, <1>10, <1>11 DEF m

\* The optimizer's step ends the mini-batch of every rank.
LEMMA OptimizerStepKeepsTraining ==
  ASSUME FreshInv, BatchInv, TrainingInv, OptimizerStep
  PROVE  /\ TrainingInv' /\ UNCHANGED driver
         /\ calling /\ phase = "update"
<1> USE Before
<1>1. /\ UNCHANGED driver /\ phase = "update"
      /\ \A r \in Rank : worker[r].pc = "forward" /\ worker[r].forwards = Len(worker[r].micro)
      /\ worker' = [r \in Rank |->
             [worker[r] EXCEPT !.mini = worker[r].mini + 1,
                               !.pc = IF worker[r].mini = Len(MiniBatches(r)) THEN "returned" ELSE "split"]]
  BY Zenon DEF OptimizerStep, PassesDone
<1>2. DOMAIN worker = Rank /\ \A q \in Rank : DOMAIN worker[q] = DOMAIN Idle
  BY DEF FreshInv, InShape
<1>3. 0 \in Rank
  BY ConfigFacts DEF FreshInv, Rank
<1>4. /\ calling /\ cfg.dynamic \in BOOLEAN
      /\ \A q \in Rank :
            /\ worker[q].rows = Mine(q) /\ Mine(q) \in Seq(Rollout) /\ Mine(q) # <<>>
            /\ Trains(worker[q], TRUE, cfg.dynamic) /\ Propagates(worker[q])
            /\ MiniBatches(q) = Minis(worker[q], TRUE)
  <2>1. (phase = "update") = TRUE
    BY <1>1, Zenon
  <2> QED
    BY <1>1, <1>3, <2>1, WhereTraining, Zenon
<1>5. ASSUME NEW r \in Rank
      PROVE  /\ worker'[r].rows = Mine(r)
             /\ Trains(worker'[r], TRUE, cfg.dynamic) /\ Propagates(worker'[r])
  <2> DEFINE v == worker[r]
             w == worker'[r]
             m == EndOfPart(Len(v.rows), MiniBatch, v.mini)
  <2>1. /\ w.rows = v.rows /\ w.trained = v.trained /\ w.mini = v.mini + 1
        /\ w.pc = IF v.mini = Len(Minis(v, TRUE)) THEN "returned" ELSE "split"
        /\ v.pc = "forward" /\ v.forwards = Len(v.micro)
    BY <1>1, <1>2, <1>4, Zenon DEF Idle
  <2>2. /\ v.rows = Mine(r) /\ v.rows \in Seq(Rollout) /\ v.rows # <<>>
        /\ Trains(v, TRUE, cfg.dynamic) /\ Propagates(v)
    BY <1>4
  <2> HIDE DEF v, w
  <2>3. /\ TrainedFirst(v.trained, v.rows, m)
        /\ v.mini \in 1..Len(Minis(v, TRUE))
        /\ m = IF v.mini = Len(Minis(v, TRUE)) THEN Len(v.rows) ELSE v.mini * MiniBatch
    BY <2>1, <2>2, MiniBatchTrained
  <2> HIDE DEF m
  <2>4. Minis(w, TRUE) = Minis(v, TRUE)
    BY <2>1 DEF Minis
  <2>5. Len(Minis(v, TRUE)) \in Nat
    BY <2>2, MinisAre
  <2>6. CASE v.mini = Len(Minis(v, TRUE))
    <3>1. w.pc = "returned" /\ TrainedFirst(w.trained, w.rows, Len(w.rows))
      BY <2>1, <2>3, <2>6
    <3> QED
      BY <2>1, <2>2, <3>1 DEF Trains, Propagates, w
  <2>7. CASE v.mini # Len(Minis(v, TRUE))
    <3>1. w.pc = "split" /\ TrainedFirst(w.trained, w.rows, v.mini * MiniBatch)
      BY <2>1, <2>3, <2>7
    <3>2. w.mini \in 1..Len(Minis(w, TRUE)) /\ w.mini - 1 = v.mini
      <4>1. v.mini \in 1..Len(Minis(v, TRUE)) /\ v.mini # Len(Minis(v, TRUE))
        BY <2>3, <2>7
      <4>2. v.mini + 1 \in 1..Len(Minis(v, TRUE)) /\ (v.mini + 1) - 1 = v.mini
        <5>1. \A len \in Nat : \A x \in 1..len : x # len => x + 1 \in 1..len /\ (x + 1) - 1 = x
          OBVIOUS
        <5>2. \A x \in 1..Len(Minis(v, TRUE)) :
                 x # Len(Minis(v, TRUE)) => x + 1 \in 1..Len(Minis(v, TRUE)) /\ (x + 1) - 1 = x
          BY <2>5, <5>1
        <5> QED
          BY <4>1, <5>2
      <4> QED
        BY <2>1, <2>4, <4>2
    <3>3. Trains(w, TRUE, cfg.dynamic)
      BY <3>1, <3>2 DEF Trains
    <3>4. TrainedFirst(w.trained, w.rows, (w.mini - 1) * MiniBatch)
      BY <3>1, <3>2
    <3>5. Propagates(w)
      BY <3>1, <3>4 DEF Propagates
    <3> QED
      BY <2>1, <2>2, <3>3, <3>5 DEF w
  <2> QED
    BY <2>6, <2>7
<1>6. UNCHANGED <<cfg, phase, calling, batch>>
  BY <1>1, Zenon DEF driver
<1>7. (phase = "update") = TRUE
  BY <1>1, Zenon
<1>8. TrainingInv'
  BY <1>1, <1>5, <1>6, <1>7, TrainingStays, Zenon
<1> QED
  BY <1>1, <1>4, <1>8, Zenon

\* A backward pass adds rows to what was trained on only in an update.
LEMMA TrainedOnlyInUpdate ==
  ASSUME FreshInv, SplitMicroBatches \/ Forward \/ OptimizerStep \/ (\E r \in Rank : RevertOrder(r)),
         phase = "log_prob"
  PROVE  \A r \in Rank : worker'[r].trained = worker[r].trained
<1> USE Before
<1>1. DOMAIN worker = Rank /\ \A q \in Rank : DOMAIN worker[q] = DOMAIN Idle
  BY DEF FreshInv, InShape
<1> SUFFICES ASSUME NEW r \in Rank PROVE worker'[r].trained = worker[r].trained
  OBVIOUS
<1>2. CASE SplitMicroBatches
  BY <1>1, <1>2, Zenon DEF SplitMicroBatches, Idle
<1>3. CASE Forward
  BY <1>1, <1>3, Zenon DEF Forward, Idle
<1>4. CASE OptimizerStep
  BY <1>4, Zenon DEF OptimizerStep
<1>5. ASSUME NEW q \in Rank, RevertOrder(q) PROVE worker'[r].trained = worker[r].trained
  BY <1>1, <1>5 DEF RevertOrder, Idle
<1> QED
  BY <1>2, <1>3, <1>4, <1>5

-------------------------------------
(* Rewards and advantages of a group                                        *)

Linear(D, V, f, h, k, t) ==
    /\ IsFiniteSet(D) /\ f \in [D -> Int] /\ h \in [D -> Int] /\ V \in SUBSET D
    /\ k \in Int /\ t \in Int
    /\ \A x \in V : h[x] = k * f[x] - t

LEMMA TotalLinear ==
  ASSUME NEW D, NEW V, NEW f, NEW h, NEW k, NEW t, Linear(D, V, f, h, k, t)
  PROVE  \A X \in SUBSET V : Total(h, X) = k * Total(f, X) - Cardinality(X) * t
<1> DEFINE Good(X) == Total(h, X) = k * Total(f, X) - Cardinality(X) * t
           G == {X \in SUBSET V : Good(X)}
<1> USE DEF Linear
<1>1. IsFiniteSet(V) /\ \A X \in SUBSET V : IsFiniteSet(X) /\ Cardinality(X) \in Nat
  BY FS_Subset, FS_CardinalityType
<1>2. /\ \A X \in SUBSET D : Total(f, X) \in Int
      /\ Total(f, {}) = 0
      /\ \A X \in SUBSET D : \A y \in D \ X : Total(f, X \cup {y}) = Total(f, X) + f[y]
  BY TotalFacts
<1>3. /\ \A X \in SUBSET D : Total(h, X) \in Int
      /\ Total(h, {}) = 0
      /\ \A X \in SUBSET D : \A y \in D \ X : Total(h, X \cup {y}) = Total(h, X) + h[y]
  BY TotalFacts
<1>4. {} \in G
  <2>1. Cardinality({}) = 0
    BY FS_EmptySet
  <2>2. k * 0 - 0 * t = 0
    OBVIOUS
  <2>3. Good({})
    BY <1>2, <1>3, <2>1, <2>2
  <2> QED
    BY <2>3
<1>5. ASSUME NEW X \in G, NEW y \in V \ X PROVE X \cup {y} \in G
  <2>1. X \in SUBSET D /\ y \in D \ X /\ X \in SUBSET V /\ y \in V /\ X \cup {y} \in SUBSET V
    OBVIOUS
  <2>2. Total(h, X) = k * Total(f, X) - Cardinality(X) * t
    OBVIOUS
  <2>3. Total(f, X \cup {y}) = Total(f, X) + f[y] /\ Total(h, X \cup {y}) = Total(h, X) + h[y]
    BY <1>2, <1>3, <2>1
  <2>4. Cardinality(X \cup {y}) = Cardinality(X) + 1
    BY <1>1, <2>1, FS_AddElement
  <2>5. Total(f, X) \in Int /\ f[y] \in Int /\ Cardinality(X) \in Int /\ h[y] = k * f[y] - t
    BY <1>1, <1>2, <2>1
  <2>6. \A a, b, c \in Int : (k * a - c * t) + (k * b - t) = k * (a + b) - (c + 1) * t
    OBVIOUS
  <2>7. (k * Total(f, X) - Cardinality(X) * t) + (k * f[y] - t)
            = k * (Total(f, X) + f[y]) - (Cardinality(X) + 1) * t
    BY <2>5, <2>6
  <2>8. Good(X \cup {y})
    BY <2>2, <2>3, <2>4, <2>5, <2>7
  <2> QED
    BY <2>1, <2>8
<1>6. G \in SUBSET (SUBSET V)
  OBVIOUS
<1>7. \A X \in SUBSET V : X \in G
  <2> HIDE DEF G
  <2> QED
    BY <1>1, <1>4, <1>5, <1>6, FiniteSetInduction
<1> QED
  BY <1>7

LEMMA TotalZero ==
  ASSUME NEW D, IsFiniteSet(D), NEW h \in [D -> Int], NEW V \in SUBSET D, \A x \in V : h[x] = 0
  PROVE  Total(h, V) = 0
<1>1. \A x \in V : h[x] = 0 * h[x] - 0
  OBVIOUS
<1>2. V \in SUBSET V /\ 0 \in Int
  OBVIOUS
<1>a. Linear(D, V, h, h, 0, 0)
  BY <1>1 DEF Linear
<1>3. Total(h, V) = 0 * Total(h, V) - Cardinality(V) * 0
  <2>1. \A X \in SUBSET V : Total(h, X) = 0 * Total(h, X) - Cardinality(X) * 0
    BY <1>a, TotalLinear
  <2> QED
    BY <1>2, <2>1
<1>4. Total(h, V) \in Int /\ Cardinality(V) \in Nat
  BY TotalFacts, FS_Subset, FS_CardinalityType
<1> QED
  BY <1>3, <1>4

LEMMA TotalBinary ==
  ASSUME NEW D, IsFiniteSet(D), NEW f \in [D -> Int], NEW V \in SUBSET D, \A x \in V : f[x] \in {0, 1}
  PROVE  \A X \in SUBSET V : Total(f, X) \in Nat /\ Total(f, X) <= Cardinality(X)
<1> DEFINE Good(X) == Total(f, X) \in Nat /\ Total(f, X) <= Cardinality(X)
           G == {X \in SUBSET V : Good(X)}
<1>1. IsFiniteSet(V) /\ \A X \in SUBSET V : IsFiniteSet(X) /\ Cardinality(X) \in Nat
  BY FS_Subset, FS_CardinalityType
<1>2. /\ Total(f, {}) = 0
      /\ \A X \in SUBSET D : \A y \in D \ X : Total(f, X \cup {y}) = Total(f, X) + f[y]
  BY TotalFacts
<1>4. {} \in G
  <2>1. Cardinality({}) = 0
    BY FS_EmptySet
  <2> QED
    BY <1>2, <2>1
<1>5. ASSUME NEW X \in G, NEW y \in V \ X PROVE X \cup {y} \in G
  <2>1. X \in SUBSET D /\ y \in D \ X /\ X \in SUBSET V /\ y \in V /\ X \cup {y} \in SUBSET V
    OBVIOUS
  <2>2. Total(f, X) \in Nat /\ Total(f, X) <= Cardinality(X)
    OBVIOUS
  <2>3. Total(f, X \cup {y}) = Total(f, X) + f[y]
    BY <1>2, <2>1
  <2>4. Cardinality(X \cup {y}) = Cardinality(X) + 1 /\ Cardinality(X) \in Nat
    BY <1>1, <2>1, FS_AddElement
  <2>5. f[y] \in {0, 1}
    BY <2>1
  <2>8. Good(X \cup {y})
    BY <2>2, <2>3, <2>4, <2>5
  <2> QED
    BY <2>1, <2>8
<1>6. G \in SUBSET (SUBSET V)
  OBVIOUS
<1>7. \A X \in SUBSET V : X \in G
  <2> HIDE DEF G
  <2> QED
    BY <1>1, <1>4, <1>5, <1>6, FiniteSetInduction
<1> QED
  BY <1>7

\* h compares f with its mean over V, times the number of V, and is 0 elsewhere in G.
Compares(h, f, V, G, D) ==
    /\ IsFiniteSet(D) /\ f \in [D -> Int] /\ h \in [D -> Int]
    /\ G \in SUBSET D /\ V \in SUBSET G
    /\ \A x \in V : f[x] \in {0, 1}
    /\ \A x \in V : h[x] = Cardinality(V) * f[x] - Total(f, V)
    /\ \A x \in G \ V : h[x] = 0

\* What the rows of a group gain, the others lose.
LEMMA GroupTotals ==
  ASSUME NEW D, NEW f, NEW h, NEW G, NEW V, Compares(h, f, V, G, D)
  PROVE  /\ Total(h, G) = 0
         /\ \A j, k \in V : f[j] = 1 /\ f[k] = 0 => h[j] > 0 /\ h[k] < 0
<1> USE DEF Compares
<1>0. /\ \A X \in SUBSET D : Total(f, X) \in Int
      /\ Total(f, {}) = 0
      /\ \A X \in SUBSET D : \A y \in D \ X : Total(f, X \cup {y}) = Total(f, X) + f[y]
  BY TotalFacts
<1>1. V \in SUBSET D /\ G \ V \in SUBSET D /\ V \cap (G \ V) = {} /\ V \cup (G \ V) = G
      /\ V \in SUBSET V
  OBVIOUS
<1>2. /\ IsFiniteSet(V) /\ Cardinality(V) \in Nat /\ Cardinality(V) \in Int
      /\ Total(f, V) \in Int
  BY <1>1, FS_Subset, FS_CardinalityType, TotalFacts
<1>3. Total(h, V) = Cardinality(V) * Total(f, V) - Cardinality(V) * Total(f, V)
  <2> DEFINE c == Cardinality(V)
             t == Total(f, V)
  <2>1. c \in Int /\ t \in Int /\ \A x \in V : h[x] = c * f[x] - t
    BY <1>2
  <2> HIDE DEF c, t
  <2>a. Linear(D, V, f, h, c, t)
    BY <1>1, <2>1 DEF Linear
  <2>2. \A X \in SUBSET V : Total(h, X) = c * Total(f, X) - Cardinality(X) * t
    BY <2>a, TotalLinear
  <2>3. Total(h, V) = c * Total(f, V) - Cardinality(V) * t
    BY <1>1, <2>2
  <2> QED
    BY <2>3 DEF c, t
<1>4. Total(h, V) = 0
  BY <1>2, <1>3
<1>5. Total(h, G \ V) = 0
  BY <1>1, TotalZero
<1>6. Total(h, V \cup (G \ V)) = Total(h, V) + Total(h, G \ V)
  BY <1>1, TotalOfUnion
<1>7. Total(h, G) = 0
  BY <1>1, <1>4, <1>5, <1>6
<1>8. ASSUME NEW j \in V, NEW k \in V, f[j] = 1, f[k] = 0 PROVE h[j] > 0 /\ h[k] < 0
  <2>1. \A X \in SUBSET V : Total(f, X) \in Nat /\ Total(f, X) <= Cardinality(X)
    BY <1>1, TotalBinary
  <2>2. \A y \in V : /\ Total(f, V \ {y}) \in Nat /\ Total(f, V \ {y}) <= Cardinality(V \ {y})
                     /\ Cardinality(V \ {y}) = Cardinality(V) - 1
    BY <1>2, <2>1, FS_RemoveElement
  <2>3. \A y \in V : Total(f, V) = Total(f, V \ {y}) + f[y]
    <3> SUFFICES ASSUME NEW y \in V PROVE Total(f, V) = Total(f, V \ {y}) + f[y]
      OBVIOUS
    <3> DEFINE W == V \ {y}
    <3>2. W \in SUBSET D /\ y \in D \ W /\ W \cup {y} = V
      BY <1>1
    <3> HIDE DEF W
    <3>3. Total(f, W \cup {y}) = Total(f, W) + f[y]
      BY <1>0, <3>2
    <3>4. Total(f, V) = Total(f, W) + f[y]
      BY <3>2, <3>3
    <3> QED
      BY <3>4 DEF W
  <2>4. Total(f, V) = Total(f, V \ {j}) + 1 /\ Total(f, V) = Total(f, V \ {k}) + 0
    BY <1>8, <2>3
  <2>5. Total(f, V) >= 1
    <3>1. Total(f, V \ {j}) \in Nat
      BY <2>2
    <3> QED
      BY <1>2, <2>4, <3>1
  <2>6. Total(f, V) <= Cardinality(V) - 1
    <3>1. Total(f, V \ {k}) \in Nat /\ Total(f, V \ {k}) <= Cardinality(V) - 1
      BY <2>2
    <3> QED
      BY <1>2, <2>4, <3>1
  <2>7. h[j] = Cardinality(V) * 1 - Total(f, V) /\ h[k] = Cardinality(V) * 0 - Total(f, V)
    BY <1>8
  <2> QED
    BY <1>2, <2>5, <2>6, <2>7
<1> QED
  BY <1>7, <1>8

\* The sums of the rewards and of the advantages of some rows.
\* Two ways to add up a field of rows.
LEMMA SumOfField ==
  ASSUME NEW rows, NEW X \in SUBSET DOMAIN rows, NEW field
  PROVE  MapThenSumSet(LAMBDA i : rows[i][field], X) = Total([i \in DOMAIN rows |-> rows[i][field]], X)
<1> DEFINE f == [i \in DOMAIN rows |-> rows[i][field]]
           Pick(s) == CHOOSE x \in s : TRUE
           Step(g, s) == IF s = {} THEN 0 ELSE f[Pick(s)] + g[s \ {Pick(s)}]
           Folds(g) == g = [s \in SUBSET X |-> Step(g, s)]
           OwnStep(g, s) == IF s = {} THEN 0 ELSE rows[Pick(s)][field] + g[s \ {Pick(s)}]
           OwnFolds(g) == g = [s \in SUBSET X |-> OwnStep(g, s)]
<1>1. Total(f, X) = (CHOOSE g : Folds(g))[X]
  BY DEF Total, SumFunctionOnSet, FoldFunctionOnSet, MapThenFoldSet
<1>2. MapThenSumSet(LAMBDA i : rows[i][field], X) = (CHOOSE g : OwnFolds(g))[X]
  BY DEF MapThenSumSet, MapThenFoldSet
<1>3. ASSUME NEW g, NEW s \in SUBSET X PROVE Step(g, s) = OwnStep(g, s)
  <2>1. CASE s # {}
    <3>1. Pick(s) \in DOMAIN rows
      BY <2>1
    <3> HIDE DEF Pick
    <3> QED
      BY <3>1, <2>1
  <2> QED
    BY <2>1
<1> HIDE DEF Step, OwnStep
<1>4. \A g : Folds(g) <=> OwnFolds(g)
  BY <1>3
<1>5. (CHOOSE g : Folds(g)) = (CHOOSE g : OwnFolds(g))
  <2> HIDE DEF Folds, OwnFolds
  <2> QED
    BY <1>4
<1> QED
  BY <1>1, <1>2, <1>5

LEMMA SumOfRewards ==
  ASSUME NEW rows, NEW X \in SUBSET DOMAIN rows
  PROVE  MapThenSumSet(LAMBDA i : rows[i].reward, X) = Total([i \in DOMAIN rows |-> rows[i].reward], X)
<1>1. MapThenSumSet(LAMBDA i : rows[i]["reward"], X) = Total([i \in DOMAIN rows |-> rows[i]["reward"]], X)
  BY SumOfField, Zenon
<1> QED
  BY <1>1, Zenon

LEMMA SumOfAdvantages ==
  ASSUME NEW rows, NEW X \in SUBSET DOMAIN rows
  PROVE  MapThenSumSet(LAMBDA i : rows[i].adv, X) = Total([i \in DOMAIN rows |-> rows[i].adv], X)
<1>1. MapThenSumSet(LAMBDA i : rows[i]["adv"], X) = Total([i \in DOMAIN rows |-> rows[i]["adv"]], X)
  BY SumOfField, Zenon
<1> QED
  BY <1>1, Zenon

\* The rows that a row is compared with.
ComparedWith(row, rows) == {i \in DOMAIN rows : rows[i].uid = row.uid /\ Counts(rows[i])}
RewardsOf(rows) == [i \in DOMAIN rows |-> rows[i].reward]

LEMMA AdvantageIs ==
  ASSUME NEW rows \in Seq(Rollout), NEW row
  PROVE  LET V == ComparedWith(row, rows) IN
         /\ IsFiniteSet(DOMAIN rows) /\ RewardsOf(rows) \in [DOMAIN rows -> Int]
         /\ V \in SUBSET DOMAIN rows
         /\ Advantage(row, rows) = IF ~Counts(row) THEN 0
                                   ELSE IF Cardinality(V) = 1 THEN row.reward
                                   ELSE Cardinality(V) * row.reward - Total(RewardsOf(rows), V)
<1> DEFINE V == ComparedWith(row, rows)
<1>1. V \in SUBSET DOMAIN rows
  BY DEF ComparedWith
<1>2. IsFiniteSet(DOMAIN rows)
  <2>1. DOMAIN rows = 1..Len(rows) /\ Len(rows) \in Nat
    OBVIOUS
  <2> QED
    BY <2>1, FS_Interval
<1>3. RewardsOf(rows) \in [DOMAIN rows -> Int]
  <2>1. \A i \in DOMAIN rows : rows[i] \in Rollout
    OBVIOUS
  <2>2. \A i \in DOMAIN rows : rows[i].reward \in Int
    BY <2>1 DEF Rollout
  <2> QED
    BY <2>2 DEF RewardsOf
<1>4. MapThenSumSet(LAMBDA i : rows[i].reward, V) = Total(RewardsOf(rows), V)
  BY <1>1, SumOfRewards DEF RewardsOf
<1>5. Advantage(row, rows) = IF ~Counts(row) THEN 0
                             ELSE IF Cardinality(V) = 1 THEN row.reward
                             ELSE Cardinality(V) * row.reward - MapThenSumSet(LAMBDA i : rows[i].reward, V)
  BY DEF Advantage, ComparedWith
<1> QED
  BY <1>1, <1>2, <1>3, <1>4, <1>5

LEMMA WithAdvantagesIs ==
  ASSUME NEW rows \in Seq(Rollout)
  PROVE  /\ WithAdvantages(rows) \in Seq(Rollout) /\ Len(WithAdvantages(rows)) = Len(rows)
         /\ \A i \in 1..Len(rows) : /\ Carries(WithAdvantages(rows)[i], rows[i])
                                    /\ WithAdvantages(rows)[i].uid = rows[i].uid
                                    /\ WithAdvantages(rows)[i].logp = rows[i].logp
                                    /\ WithAdvantages(rows)[i].mask = rows[i].mask
                                    /\ WithAdvantages(rows)[i].adv = Advantage(rows[i], rows)
<1>1. DOMAIN rows = 1..Len(rows) /\ Len(rows) \in Nat /\ \A i \in 1..Len(rows) : rows[i] \in Rollout
  OBVIOUS
<1>2. ASSUME NEW i \in 1..Len(rows) PROVE Advantage(rows[i], rows) \in Int
  <2> DEFINE row == rows[i]
             V == ComparedWith(row, rows)
  <2>1. row.reward \in Int
    BY <1>1 DEF Rollout
  <2> HIDE DEF row
  <2>2. /\ IsFiniteSet(DOMAIN rows) /\ RewardsOf(rows) \in [DOMAIN rows -> Int]
        /\ V \in SUBSET DOMAIN rows
        /\ Advantage(row, rows) = IF ~Counts(row) THEN 0
                                  ELSE IF Cardinality(V) = 1 THEN row.reward
                                  ELSE Cardinality(V) * row.reward - Total(RewardsOf(rows), V)
    BY AdvantageIs
  <2> HIDE DEF V
  <2>3. Total(RewardsOf(rows), V) \in Int
    BY <2>2, TotalFacts
  <2>4. Cardinality(V) \in Int
    BY <2>2, FS_Subset, FS_CardinalityType
  <2>5. Advantage(row, rows) \in Int
    BY <2>1, <2>2, <2>3, <2>4
  <2> QED
    BY <2>5 DEF row
<1> DEFINE X(i) == [rows[i] EXCEPT !.adv = Advantage(rows[i], rows)]
<1>3. WithAdvantages(rows) = [i \in 1..Len(rows) |-> X(i)]
  BY <1>1 DEF WithAdvantages
<1>4. ASSUME NEW i \in 1..Len(rows)
      PROVE  /\ X(i) \in Rollout /\ Carries(X(i), rows[i]) /\ X(i).uid = rows[i].uid
             /\ X(i).logp = rows[i].logp
             /\ X(i).mask = rows[i].mask /\ X(i).adv = Advantage(rows[i], rows)
  <2> DEFINE row == rows[i]
             a == Advantage(rows[i], rows)
  <2>1. row \in Rollout /\ a \in Int
    BY <1>1, <1>2
  <2> HIDE DEF row, a
  <2>2. LET x == [row EXCEPT !.adv = a] IN
        /\ x \in Rollout /\ Carries(x, row) /\ x.uid = row.uid /\ x.logp = row.logp
        /\ x.mask = row.mask /\ x.adv = a
    BY <2>1 DEF Rollout, Carries
  <2> QED
    BY <2>2 DEF row, a
<1> HIDE DEF X
<1>5. WithAdvantages(rows) \in Seq(Rollout) /\ Len(WithAdvantages(rows)) = Len(rows)
      /\ \A i \in 1..Len(rows) : WithAdvantages(rows)[i] = X(i)
  BY <1>1, <1>3, <1>4
<1> HIDE DEF WithAdvantages, Advantage
<1> QED
  BY <1>4, <1>5

\* The rows of a group that count, and at least two of them where there is a choice.
LEMMA CountedGroup ==
  ASSUME NEW rows, Complete(rows, cfg), NEW i \in DOMAIN rows, cfg.n \in Nat \ {0}
  PROVE  LET G == GroupIn(rows, i)
             V == {j \in G : Counts(rows[j])} IN
         /\ \A j \in G : ComparedWith(rows[j], rows) = V
         /\ cfg.stage1b \/ cfg.n > 1 => Cardinality(V) # 1
<1> DEFINE G == GroupIn(rows, i)
           V == {j \in G : Counts(rows[j])}
<1>1. ASSUME NEW j \in G PROVE ComparedWith(rows[j], rows) = V
  <2>1. j \in DOMAIN rows /\ TaskOf(rows[j]) = TaskOf(rows[i])
    BY DEF GroupIn
  <2>2. \A k \in DOMAIN rows : rows[k].uid = TaskOf(rows[k])
    BY DEF Complete
  <2>3. \A k \in DOMAIN rows : rows[k].uid = rows[j].uid <=> TaskOf(rows[k]) = TaskOf(rows[i])
    BY <2>1, <2>2
  <2> QED
    BY <2>3 DEF ComparedWith, GroupIn
<1>2. ASSUME cfg.stage1b \/ cfg.n > 1 PROVE Cardinality(V) # 1
  <2>1. CASE cfg.stage1b
    <3>1. HasSignal(rows, G)
      BY <2>1 DEF Complete
    <3>2. PICK j, k \in G : /\ rows[j].valid /\ rows[j].reward = 1
                            /\ rows[k].valid /\ rows[k].reward = 0
      BY <3>1 DEF HasSignal
    <3>3. j \in V /\ k \in V /\ j # k
      BY <3>2 DEF Counts
    <3> HIDE DEF V
    <3>4. IsFiniteSet(V)
      <4>1. DOMAIN rows = 1..Len(rows) /\ Len(rows) \in Nat
        BY DEF Complete
      <4>2. IsFiniteSet(DOMAIN rows)
        BY <4>1, FS_Interval
      <4> QED
        BY <4>2, FS_Subset DEF V, GroupIn
    <3>5. Cardinality(V) = 1 => \E x : V = {x}
      BY <3>4, FS_Singleton
    <3> QED
      BY <3>3, <3>5
  <2>2. CASE ~cfg.stage1b
    <3>1. V = G
      BY <2>2 DEF Counts
    <3>2. Cardinality(G) = cfg.n
      BY DEF Complete
    <3> QED
      BY <1>2, <2>2, <3>1, <3>2
  <2> QED
    BY <2>1, <2>2
<1> QED
  BY <1>1, <1>2

\* The advantages of complete groups.
LEMMA AdvantagesCompare ==
  ASSUME NEW old, Complete(old, cfg), cfg.n \in Nat \ {0}, cfg.stage1b \in BOOLEAN
  PROVE  Complete(WithAdvantages(old), cfg) /\ Compared(WithAdvantages(old), cfg)
<1> DEFINE new == WithAdvantages(old)
           D == DOMAIN old
           f == RewardsOf(old)
           h == [i \in DOMAIN new |-> new[i].adv]
<1>1. old \in Seq(Rollout) /\ D = 1..Len(old) /\ \A i \in D : old[i] \in Rollout
  BY DEF Complete
<1>2. /\ new \in Seq(Rollout) /\ Len(new) = Len(old)
      /\ \A i \in 1..Len(old) : /\ Carries(new[i], old[i]) /\ new[i].uid = old[i].uid
                                /\ new[i].adv = Advantage(old[i], old)
  BY <1>1, WithAdvantagesIs
<1> HIDE DEF new, D
<1>3. DOMAIN new = D
  BY <1>1, <1>2
<1>4. Complete(new, cfg) /\ \A i \in D : GroupIn(new, i) = GroupIn(old, i)
  BY <1>1, <1>2, CompleteCarries
<1>5. /\ IsFiniteSet(D) /\ f \in [D -> Int]
      /\ \A i \in D : f[i] = old[i].reward /\ f[i] \in {0, 1}
  <2>1. IsFiniteSet(D) /\ f \in [D -> Int]
    BY <1>1, AdvantageIs DEF D
  <2>2. \A i \in D : f[i] = old[i].reward
    BY DEF RewardsOf, D
  <2>3. \A i \in D : old[i].reward \in {0, 1}
    BY <1>1 DEF Rollout
  <2> QED
    BY <2>1, <2>2, <2>3
<1>6. h \in [D -> Int] /\ \A i \in D : h[i] = new[i].adv
  <2>1. \A i \in D : new[i].adv \in Int
    <3>1. \A i \in D : new[i] \in Rollout
      BY <1>1, <1>2, <1>3
    <3>2. \A x \in Rollout : x.adv \in Int
      BY DEF Rollout
    <3> QED
      BY <3>1, <3>2
  <2> QED
    BY <1>3, <2>1
<1> HIDE DEF f
<1>7. ASSUME NEW i \in D
      PROVE  /\ cfg.n > 1 => MapThenSumSet(LAMBDA j : new[j].adv, GroupIn(new, i)) = 0
             /\ cfg.stage1b =>
                   /\ ~new[i].valid => new[i].adv = 0
                   /\ \E j, k \in GroupIn(new, i) : /\ new[j].valid /\ new[j].adv > 0
                                                    /\ new[k].valid /\ new[k].adv < 0
  <2> DEFINE G == GroupIn(old, i)
             V == {j \in G : Counts(old[j])}
  <2>1. /\ \A j \in G : ComparedWith(old[j], old) = V
        /\ cfg.stage1b \/ cfg.n > 1 => Cardinality(V) # 1
    BY CountedGroup DEF D
  <2>2. G \in SUBSET D /\ V \in SUBSET G /\ i \in G
    BY DEF GroupIn, D
  <2>3. \A j \in G : /\ j \in V <=> Counts(old[j])
                     /\ new[j].adv = IF ~Counts(old[j]) THEN 0
                                     ELSE IF Cardinality(V) = 1 THEN old[j].reward
                                     ELSE Cardinality(V) * old[j].reward - Total(f, V)
    <3> SUFFICES ASSUME NEW j \in G
                 PROVE  new[j].adv = IF ~Counts(old[j]) THEN 0
                                     ELSE IF Cardinality(V) = 1 THEN old[j].reward
                                     ELSE Cardinality(V) * old[j].reward - Total(f, V)
      BY Zenon
    <3>1. LET W == ComparedWith(old[j], old) IN
          Advantage(old[j], old) = IF ~Counts(old[j]) THEN 0
                                   ELSE IF Cardinality(W) = 1 THEN old[j].reward
                                   ELSE Cardinality(W) * old[j].reward - Total(f, W)
      BY <1>1, AdvantageIs DEF f
    <3>2. new[j].adv = Advantage(old[j], old)
      BY <1>1, <1>2, <2>2
    <3>3. ComparedWith(old[j], old) = V
      BY <2>1
    <3> HIDE DEF V
    <3> QED
      BY <3>1, <3>2, <3>3
  <2> HIDE DEF V
  <2>4. ASSUME cfg.stage1b \/ cfg.n > 1
        PROVE  /\ Total(h, G) = 0
               /\ \A j, k \in V : f[j] = 1 /\ f[k] = 0 => h[j] > 0 /\ h[k] < 0
    <3>1. Cardinality(V) # 1
      BY <2>1, <2>4
    <3>2. \A x \in V : f[x] \in {0, 1}
      BY <1>5, <2>2
    <3>3. \A x \in V : h[x] = Cardinality(V) * f[x] - Total(f, V)
      BY <1>5, <1>6, <2>2, <2>3, <3>1
    <3>4. \A x \in G \ V : h[x] = 0
      BY <1>6, <2>2, <2>3
    <3> HIDE DEF h, G
    <3>5. Compares(h, f, V, G, D)
      BY <1>5, <1>6, <2>2, <3>2, <3>3, <3>4 DEF Compares
    <3> QED
      BY <3>5, GroupTotals
  <2>5. GroupIn(new, i) = G
    BY <1>4
  <2>6. ASSUME cfg.n > 1 PROVE MapThenSumSet(LAMBDA j : new[j].adv, G) = 0
    <3>1. G \in SUBSET DOMAIN new
      BY <1>3, <2>2
    <3>2. MapThenSumSet(LAMBDA j : new[j].adv, G) = Total(h, G)
      BY <3>1, SumOfAdvantages
    <3> QED
      BY <2>4, <2>6, <3>2
  <2>7. ASSUME cfg.stage1b
        PROVE  /\ ~new[i].valid => new[i].adv = 0
               /\ \E j, k \in G : /\ new[j].valid /\ new[j].adv > 0
                                  /\ new[k].valid /\ new[k].adv < 0
    <3>1. \A j \in G : new[j].valid = old[j].valid
      BY <1>1, <1>2, <2>2 DEF Carries
    <3>2. \A j \in G : Counts(old[j]) <=> old[j].valid
      BY <2>7 DEF Counts
    <3>3. ~new[i].valid => new[i].adv = 0
      BY <2>2, <2>3, <3>1, <3>2
    <3>4. HasSignal(old, G)
      BY <2>7 DEF Complete, D
    <3>5. PICK j, k \in G : /\ old[j].valid /\ old[j].reward = 1
                            /\ old[k].valid /\ old[k].reward = 0
      BY <3>4 DEF HasSignal
    <3>6. j \in V /\ k \in V /\ f[j] = 1 /\ f[k] = 0
      BY <1>5, <2>2, <2>3, <3>2, <3>5
    <3>7. h[j] > 0 /\ h[k] < 0
      BY <2>4, <2>7, <3>6
    <3>8. new[j].adv > 0 /\ new[k].adv < 0
      BY <1>6, <2>2, <3>7
    <3> QED
      BY <3>1, <3>3, <3>5, <3>8
  <2> QED
    BY <2>5, <2>6, <2>7
<1>8. Compared(new, cfg)
  BY <1>3, <1>7 DEF Compared
<1> QED
  BY <1>4, <1>8 DEF new

\* The log probabilities that the driver collects are those of its rows, in order.
LEMMA CollectedIds ==
  ASSUME FreshInv, BatchInv, TrainingInv, phase = "log_prob", Collect
  PROVE  Collected = Ids(batch)
<1> DEFINE outs == [i \in 1..World |-> worker[i - 1].out]
           k == Len(batch) \div World
<1>1. World \in Nat \ {0} /\ World # 0 /\ \A i \in 1..World : i - 1 \in Rank /\ (i - 1) + 1 = i
  <2>1. World \in Nat \ {0}
    BY ConfigFacts DEF FreshInv
  <2> QED
    BY <2>1 DEF Rank
<1>2. Shared(batch, World) /\ calling /\ \A r \in Rank : worker[r].pc = "returned"
  BY DEF BatchInv, Collect
<1>3. /\ Blocked(batch, Rollout, World, k)
      /\ batch \in Seq(Rollout) /\ BlocksOf(Chunk(batch, World), batch, Rollout, World, k)
  BY <1>1, <1>2, SharedIs DEF Shared
<1> HIDE DEF k
<1>4. \A r \in Rank : worker[r].out = Ids(Mine(r))
  BY <1>2 DEF TrainingInv, Recomputes
<1>5. /\ Ids(batch) \in Seq(RowId) /\ Len(Ids(batch)) = Len(batch)
      /\ \A i \in 1..Len(batch) : Ids(batch)[i] = batch[i].id
  BY <1>3, IdsAre
<1>6. Blocked(Ids(batch), RowId, World, k)
  BY <1>3, <1>5 DEF Blocked
<1>7. ASSUME NEW i \in 1..World
      PROVE  /\ outs[i] \in Seq(RowId) /\ Len(outs[i]) = k
             /\ \A j \in 1..k : Ids(batch)[(i - 1) * k + j] = outs[i][j]
  <2> DEFINE c == Chunk(batch, World)[i]
  <2>1. c \in Seq(Rollout) /\ Len(c) = k /\ k \in Nat /\ \A j \in 1..k : batch[(i - 1) * k + j] = c[j]
    BY <1>3 DEF BlocksOf
  <2>2. outs[i] = Ids(c)
    <3>1. outs[i] = worker[i - 1].out
      OBVIOUS
    <3>2. worker[i - 1].out = Ids(Mine(i - 1))
      BY <1>1, <1>4
    <3>3. Mine(i - 1) = c
      BY <1>1 DEF Mine
    <3> QED
      BY <3>1, <3>2, <3>3
  <2> HIDE DEF c, outs
  <2>3. Ids(c) \in Seq(RowId) /\ Len(Ids(c)) = k /\ \A j \in 1..k : Ids(c)[j] = c[j].id
    BY <2>1, IdsAre
  <2>4. ASSUME NEW j \in 1..k PROVE Ids(batch)[(i - 1) * k + j] = outs[i][j]
    <3>1. (i - 1) * k + j \in 1..(World * k)
      BY <1>1, <2>1, PlaceInside
    <3>2. Len(batch) = World * k
      BY <1>3 DEF Blocked
    <3>3. Ids(batch)[(i - 1) * k + j] = batch[(i - 1) * k + j].id
      BY <1>5, <3>1, <3>2
    <3>4. batch[(i - 1) * k + j] = c[j]
      BY <2>1
    <3> QED
      BY <2>2, <2>3, <3>3, <3>4
  <2> QED
    BY <2>2, <2>3, <2>4
<1>8. outs \in [1..World -> Seq(RowId)]
  BY <1>7
<1> HIDE DEF outs
<1>9. BlocksOf(outs, Ids(batch), RowId, World, k)
  <2>1. World \in Nat /\ k \in Nat \ {0}
    BY <1>3 DEF Blocked
  <2> QED
    BY <1>7, <1>8, <2>1 DEF BlocksOf
<1>10. FlattenSeq(outs) = Ids(batch)
  BY <1>6, <1>9, BlocksFlatten
<1> QED
  BY <1>10 DEF Collected, outs

WithLogProbs(rows, logps) == [i \in DOMAIN rows |-> [rows[i] EXCEPT !.logp = logps[i]]]

LEMMA WithLogProbsIs ==
  ASSUME NEW rows \in Seq(Rollout)
  PROVE  /\ WithLogProbs(rows, Ids(rows)) \in Seq(Rollout)
         /\ Len(WithLogProbs(rows, Ids(rows))) = Len(rows)
         /\ \A i \in 1..Len(rows) : /\ Carries(WithLogProbs(rows, Ids(rows))[i], rows[i])
                                    /\ WithLogProbs(rows, Ids(rows))[i].uid = rows[i].uid
                                    /\ WithLogProbs(rows, Ids(rows))[i].logp = rows[i].id
                                    /\ WithLogProbs(rows, Ids(rows))[i].mask = rows[i].mask
<1>1. DOMAIN rows = 1..Len(rows) /\ Len(rows) \in Nat /\ \A i \in 1..Len(rows) : rows[i] \in Rollout
  OBVIOUS
<1> DEFINE X(i) == [rows[i] EXCEPT !.logp = Ids(rows)[i]]
<1>2. \A i \in 1..Len(rows) : Ids(rows)[i] = rows[i].id
  BY IdsAre
<1>3. WithLogProbs(rows, Ids(rows)) = [i \in 1..Len(rows) |-> X(i)]
  BY <1>1 DEF WithLogProbs
<1>4. ASSUME NEW i \in 1..Len(rows)
      PROVE  /\ X(i) \in Rollout /\ Carries(X(i), rows[i]) /\ X(i).uid = rows[i].uid
             /\ X(i).logp = rows[i].id /\ X(i).mask = rows[i].mask
  <2> DEFINE row == rows[i]
  <2>1. row \in Rollout /\ Ids(rows)[i] = row.id
    BY <1>1, <1>2
  <2> HIDE DEF row
  <2>2. LET x == [row EXCEPT !.logp = row.id] IN
        /\ x \in Rollout /\ Carries(x, row) /\ x.uid = row.uid /\ x.logp = row.id
        /\ x.mask = row.mask
    BY <2>1 DEF Rollout, Carries
  <2>3. X(i) = [row EXCEPT !.logp = row.id]
    BY <2>1 DEF row
  <2> QED
    BY <2>2, <2>3 DEF row
<1> HIDE DEF X
<1>5. WithLogProbs(rows, Ids(rows)) \in Seq(Rollout) /\ Len(WithLogProbs(rows, Ids(rows))) = Len(rows)
      /\ \A i \in 1..Len(rows) : WithLogProbs(rows, Ids(rows))[i] = X(i)
  BY <1>1, <1>3, <1>4
<1> HIDE DEF WithLogProbs
<1> QED
  BY <1>4, <1>5

\* The batch is ready for the update.
LEMMA ReceiveLogProbReadies ==
  ASSUME FreshInv, BatchInv, TrainingInv, ReceiveLogProb
  PROVE  /\ Ready(batch', cfg, World)
         /\ \A r \in Rank : worker'[r].trained = worker[r].trained
         /\ calling' = FALSE
<1>1. /\ phase = "log_prob" /\ Collect /\ cfg' = cfg
      /\ batch' = WithAdvantages(WithLogProbs(batch, Collected))
  BY DEF ReceiveLogProb, WithLogProbs
<1>2. calling' = FALSE /\ \A r \in Rank : worker'[r].trained = worker[r].trained
  BY <1>1 DEF Collect, Idle
<1>3. /\ Complete(batch, cfg) /\ MasksFit(batch, cfg) /\ Shared(batch, World)
  BY <1>1 DEF BatchInv
<1>4. batch \in Seq(Rollout) /\ DOMAIN batch = 1..Len(batch)
  BY <1>3 DEF Complete
<1> DEFINE mid == WithLogProbs(batch, Ids(batch))
           new == WithAdvantages(mid)
<1>5. batch' = new
  BY <1>1, CollectedIds
<1>6. /\ mid \in Seq(Rollout) /\ Len(mid) = Len(batch)
      /\ \A i \in 1..Len(batch) : /\ Carries(mid[i], batch[i]) /\ mid[i].uid = batch[i].uid
                                  /\ mid[i].logp = batch[i].id /\ mid[i].mask = batch[i].mask
  BY <1>4, WithLogProbsIs
<1> HIDE DEF mid
<1>7. Complete(mid, cfg)
  BY <1>3, <1>6, CompleteCarries
<1>8. /\ new \in Seq(Rollout) /\ Len(new) = Len(mid)
      /\ \A i \in 1..Len(mid) : /\ Carries(new[i], mid[i]) /\ new[i].logp = mid[i].logp
                                /\ new[i].mask = mid[i].mask
  BY <1>6, WithAdvantagesIs
<1>9. Complete(new, cfg) /\ Compared(new, cfg)
  <2>1. cfg.n \in Nat \ {0} /\ cfg.stage1b \in BOOLEAN
    BY StepAssumption DEF FreshInv, ConfigType
  <2> QED
    BY <1>7, <2>1, AdvantagesCompare
<1> HIDE DEF new
<1>10. DOMAIN new = 1..Len(batch) /\ Len(new) = Len(batch)
  BY <1>6, <1>8
<1>11. \A i \in 1..Len(batch) : /\ new[i].logp = new[i].id /\ new[i].mask = batch[i].mask
                                /\ new[i].valid = batch[i].valid
  BY <1>6, <1>8 DEF Carries
<1>12. MasksFit(new, cfg)
  BY <1>3, <1>4, <1>10, <1>11 DEF MasksFit
<1>13. Shared(new, World)
  BY <1>3, <1>8, <1>10, Zenon DEF Shared, Blocked
<1>14. Ready(new, cfg, World)
  BY <1>9, <1>10, <1>11, <1>12, <1>13 DEF Ready
<1> QED
  BY <1>2, <1>5, <1>14

\* What was trained on when the update is over.
LEMMA ReceiveUpdateTrained ==
  ASSUME FreshInv, TrainingInv, ReceiveUpdate
  PROVE  /\ \A r \in Rank : TrainedFirst(worker'[r].trained, Mine(r), Len(Mine(r)))
         /\ calling' = FALSE /\ phase' = AfterUpdate
<1>1. /\ phase = "update" /\ Collect /\ phase' = AfterUpdate
  BY DEF ReceiveUpdate
<1>2. calling /\ calling' = FALSE /\ \A r \in Rank : worker[r].pc = "returned" /\ worker'[r].trained = worker[r].trained
  BY <1>1 DEF Collect, Idle
<1>3. \A r \in Rank : worker[r].rows = Mine(r) /\ Propagates(worker[r])
  BY <1>1, <1>2 DEF TrainingInv
<1>4. \A r \in Rank : TrainedFirst(worker[r].trained, Mine(r), Len(Mine(r)))
  BY <1>2, <1>3 DEF Propagates
<1> QED
  BY <1>1, <1>2, <1>4

-------------------------------------
(* The invariants together                                                  *)

\* What the rows are in every phase; and all that a step of the training keeps.
RowsInv == GenerationInv /\ AcceptedInv /\ BatchInv /\ TrainingInv /\ TrainedInv
StepInv == FreshInv /\ Attempting /\ RowsInv

\* The training that is over, or has not begun, stays as it is.
LEMMA TrainedStays ==
  ASSUME cfg' = cfg, \A r \in Rank : worker'[r].trained = worker[r].trained
  PROVE  /\ (\A r \in Rank : worker[r].trained = <<>>) => \A r \in Rank' : worker'[r].trained = <<>>
         /\ TrainedInv /\ batch' = batch /\ phase' \in {phase, "done", "failed"}
                /\ phase \in {"validate", "done"} => TrainedInv'
<1>1. Rank' = Rank /\ World' = World
  BY Still
<1>2. batch' = batch => \A r \in Rank : Mine(r)' = Mine(r)
  BY <1>1 DEF Mine
<1>3. ASSUME TrainedInv, batch' = batch, phase' \in {phase, "done", "failed"}, phase \in {"validate", "done"}
      PROVE  TrainedInv'
  <2>1. \A r \in Rank : Mine(r)' = Mine(r)
    BY <1>2, <1>3
  <2>2. \/ batch = <<>> /\ \A r \in Rank : worker[r].trained = <<>>
        \/ batch # <<>> /\ \A r \in Rank : TrainedFirst(worker[r].trained, Mine(r), Len(Mine(r)))
    BY <1>3 DEF TrainedInv
  <2>3. \/ batch' = <<>> /\ \A r \in Rank : worker'[r].trained = <<>>
        \/ batch' # <<>> /\ \A r \in Rank : TrainedFirst(worker'[r].trained, Mine(r)', Len(Mine(r)'))
    BY <1>3, <2>1, <2>2
  <2> QED
    BY <1>1, <1>3, <2>3 DEF TrainedInv
<1> QED
  BY <1>1, <1>3

LEMMA NoneTrained ==
  ASSUME cfg' = cfg, \A r \in Rank : worker'[r].trained = worker[r].trained, TrainedInv,
         phase \in {"generate", "log_prob"}, phase' \in {"generate", "log_prob", "update", "failed"}
  PROVE  TrainedInv'
<1>1. \A r \in Rank' : worker'[r].trained = <<>>
  BY TrainedStays DEF TrainedInv
<1> QED
  BY <1>1 DEF TrainedInv

\* A step that ends with an error.
LEMMA FailingKeeps ==
  ASSUME BatchInv, cfg' = cfg, phase \in {"generate", "validate"}, phase' = "failed", batch' = batch,
         validated' = validated
  PROVE  RowsInv'
<1>1. World' = World
  BY Still
<1>2. BatchInv'
  BY <1>1 DEF BatchInv
<1>3. GenerationInv' /\ AcceptedInv' /\ TrainingInv' /\ TrainedInv'
  BY DEF GenerationInv, Asking, AcceptedInv, TrainingInv, TrainedInv
<1> QED
  BY <1>2, <1>3 DEF RowsInv

\* A step of the ranks in a generation.
LEMMA GeneratingKeeps ==
  ASSUME RowsInv, UNCHANGED <<cfg, phase, calling, sampler, accepted, batch, validated>>,
         phase \in {"generate", "validate"}, \A r \in Rank : worker'[r].trained = worker[r].trained,
         GenerationInv'
  PROVE  RowsInv'
<1>1. World' = World
  BY Still
<1>2. BatchInv'
  BY <1>1 DEF RowsInv, BatchInv
<1>3. AcceptedInv'
  BY <1>1 DEF RowsInv, AcceptedInv
<1>4. TrainingInv'
  BY DEF TrainingInv
<1>5. TrainedInv'
  BY TrainedStays, NoneTrained DEF RowsInv
<1> QED
  BY <1>2, <1>3, <1>4, <1>5 DEF RowsInv

\* Only in a generation do the ranks synchronize.
LEMMA WhereSyncing ==
  ASSUME FreshInv, Materialise \/ Entered \/ \E r \in Rank : EndOfPayload(r) \/ LoadChunk(r) \/ RefuseChunk(r)
  PROVE  phase \in {"generate", "validate"}
<1>1. Running /\ \E r \in Rank : worker[r].pc \in Syncing
  <2>1. 0 \in Rank
    BY ConfigFacts DEF FreshInv, Rank
  <2>2. CASE Materialise
    BY <2>1, <2>2, Zenon DEF Materialise, AllAt, Syncing
  <2>3. CASE Entered
    BY <2>1, <2>3 DEF Entered, AllAt, Syncing
  <2>4. ASSUME NEW r \in Rank, EndOfPayload(r) \/ LoadChunk(r) \/ RefuseChunk(r)
        PROVE  Running /\ worker[r].pc \in Syncing
    BY <2>4 DEF EndOfPayload, LoadChunk, RefuseChunk, Syncing
  <2> QED
    BY <2>2, <2>3, <2>4
<1> QED
  BY <1>1, WhereAll DEF Running

LEMMA SyncKeeps ==
  ASSUME StepInv, Materialise \/ Entered \/ \E r \in Rank : EndOfPayload(r) \/ LoadChunk(r) \/ RefuseChunk(r)
  PROVE  RowsInv'
<1>1. FreshInv /\ RowsInv /\ GenerationInv /\ BatchInv
  BY DEF StepInv, RowsInv
<1>2. phase \in {"generate", "validate"}
  BY <1>1, WhereSyncing
<1>3. /\ UNCHANGED <<cfg, sampler, accepted, batch, validated>>
      /\ \/ UNCHANGED <<phase, calling>>
         \/ phase' = "failed"
      /\ \A r \in Rank : worker'[r].trained = worker[r].trained
  BY <1>1, SyncKeepsRows
<1>4. GenerationInv'
  BY <1>1, SyncKeepsGeneration
<1>5. CASE phase' = "failed"
  BY <1>1, <1>2, <1>3, <1>5, FailingKeeps
<1>6. CASE UNCHANGED <<phase, calling>>
  BY <1>1, <1>2, <1>3, <1>4, <1>6, GeneratingKeeps
<1> QED
  BY <1>3, <1>5, <1>6

LEMMA GenerationKeeps ==
  ASSUME StepInv, Postprocess \/ (\E d \in Replica : Gather(d) \/ Generate(d)) \/ \E r \in Rank : Exit(r)
  PROVE  RowsInv'
<1>1. FreshInv /\ RowsInv /\ GenerationInv
  BY DEF StepInv, RowsInv
<1>2. /\ UNCHANGED <<cfg, phase, calling, sampler, accepted, batch, validated>>
      /\ \A r \in Rank : worker'[r].trained = worker[r].trained
      /\ phase \in {"generate", "validate"}
  BY <1>1, GenerationOnly
<1>3. GenerationInv'
  BY <1>1, PostprocessKeepsGeneration, GatherKeepsGeneration, GenerateKeepsGeneration, ExitKeepsGeneration
<1> QED
  BY <1>1, <1>2, <1>3, GeneratingKeeps

LEMMA TrainingStepKeeps ==
  ASSUME StepInv, SplitMicroBatches \/ Forward \/ OptimizerStep \/ \E r \in Rank : RevertOrder(r)
  PROVE  RowsInv'
<1>1. FreshInv /\ GenerationInv /\ AcceptedInv /\ BatchInv /\ TrainingInv /\ TrainedInv
  BY DEF StepInv, RowsInv
<1>2. TrainingInv' /\ UNCHANGED driver /\ calling /\ phase \in {"log_prob", "update"}
  BY <1>1, SplitKeepsTraining, ForwardKeepsTraining, OptimizerStepKeepsTraining, RevertOrderKeepsTraining
<1>3. UNCHANGED <<cfg, phase, calling, sampler, accepted, batch, validated>>
  BY <1>2 DEF driver
<1>4. World' = World
  BY <1>3, Still
<1>5. BatchInv'
  BY <1>1, <1>3, <1>4 DEF BatchInv
<1>6. GenerationInv' /\ AcceptedInv'
  BY <1>2, <1>3 DEF GenerationInv, Asking, AcceptedInv
<1>7. TrainedInv'
  <2>1. CASE phase = "log_prob"
    <3>1. \A r \in Rank : worker'[r].trained = worker[r].trained
      BY <1>1, <2>1, TrainedOnlyInUpdate
    <3> QED
      BY <1>1, <1>3, <2>1, <3>1, NoneTrained
  <2>2. CASE phase = "update"
    BY <1>2, <1>3, <2>2 DEF TrainedInv
  <2> QED
    BY <1>2, <2>1, <2>2
<1> QED
  BY <1>2, <1>5, <1>6, <1>7 DEF RowsInv

LEMMA RequestGroupKeeps ==
  ASSUME StepInv, RequestGroup
  PROVE  RowsInv'
<1>1. FreshInv /\ Attempting /\ GenerationInv /\ AcceptedInv /\ BatchInv /\ TrainingInv /\ TrainedInv
  BY DEF StepInv, RowsInv
<1>2. /\ phase = "generate" /\ cfg.stage1b /\ HasCandidate(sampler) /\ sampler' = TakeCandidate(sampler)
      /\ UNCHANGED <<cfg, accepted, batch, validated>>
  BY DEF RequestGroup, At
<1>3. (phase' = "failed" \/ GenerationInv') /\ \A r \in Rank : worker'[r].trained = worker[r].trained
  BY <1>1, RequestGroupAsks
<1>4. CASE phase' = "failed"
  BY <1>1, <1>2, <1>4, FailingKeeps
<1>5. CASE phase' # "failed"
  <2> DEFINE prompts == Pad(<<Candidate(sampler)>>, World)
  <2>1. /\ sampler'.cursor = sampler.cursor + 1 /\ sampler'.order = sampler.order
        /\ sampler'.informative = sampler.informative /\ Candidate(sampler) \in Task
    BY <1>1, <1>2, Taking
  <2>2. cfg.n % Len(prompts) = 0 /\ Dispatch("sync", prompts, cfg.n \div Len(prompts))
    BY <1>5 DEF RequestGroup, Fails
  <2>3. phase' = phase /\ calling' = TRUE
    BY <2>2, Zenon DEF Dispatch
  <2>4. Len(prompts) = World
    <3>1. World \in Nat \ {0}
      BY <1>1, ConfigFacts DEF FreshInv
    <3> QED
      BY <2>1, <3>1, PadOne
  <2>5. cfg.n % World = 0
    BY <2>2, <2>4
  <2>6. World' = World /\ cfg' = cfg
    BY <1>2, Still
  <2>7. ~calling
    BY DEF RequestGroup, At
  <2>8. sampler.cursor \in Nat
    BY <1>1 DEF Attempting
  <2>9. AcceptedInv'
    <3>1. /\ Complete(accepted, cfg) /\ Len(accepted) = sampler.informative * cfg.n
          /\ \A i \in DOMAIN accepted : /\ accepted[i].logp = None
                                        /\ TaskOf(accepted[i]) \in Received(sampler, sampler.cursor)
      BY <1>1, <1>2, <2>7 DEF AcceptedInv
    <3>2. sampler'.cursor - 1 = sampler.cursor /\ sampler'.cursor # 0
      BY <2>1, <2>8
    <3>3. Received(sampler', sampler'.cursor - 1) = Received(sampler, sampler.cursor)
      BY <2>1, <3>2 DEF Received
    <3> QED
      BY <1>2, <2>1, <2>3, <2>5, <2>6, <3>1, <3>2, <3>3 DEF AcceptedInv
  <2>10. BatchInv'
    BY <1>1, <1>2, <2>3, <2>6 DEF BatchInv
  <2>11. TrainingInv'
    BY <1>2, <2>3 DEF TrainingInv
  <2>12. TrainedInv'
    BY <1>1, <1>2, <1>3, <2>3, NoneTrained
  <2> QED
    BY <1>3, <1>5, <2>9, <2>10, <2>11, <2>12 DEF RowsInv
<1> QED
  BY <1>4, <1>5

LEMMA ReceiveGroupKeeps ==
  ASSUME StepInv, ReceiveGroup
  PROVE  RowsInv'
<1>1. FreshInv /\ Attempting /\ GenerationInv /\ AcceptedInv /\ BatchInv /\ TrainingInv /\ TrainedInv
  BY DEF StepInv, RowsInv
<1>2. phase = "generate" /\ UNCHANGED <<cfg, phase, batch, validated>>
  BY DEF ReceiveGroup
<1>3. AcceptedInv' /\ calling' = FALSE /\ \A r \in Rank : worker'[r].trained = worker[r].trained
  BY <1>1, ReceiveGroupAccepts
<1>4. World' = World
  BY <1>2, Still
<1>5. BatchInv'
  BY <1>1, <1>2, <1>4 DEF BatchInv
<1>6. GenerationInv' /\ TrainingInv'
  BY <1>3 DEF GenerationInv, Asking, TrainingInv
<1>7. TrainedInv'
  BY <1>1, <1>2, <1>3, NoneTrained
<1> QED
  BY <1>3, <1>5, <1>6, <1>7 DEF RowsInv

LEMMA EndCollectionKeeps ==
  ASSUME StepInv, EndCollection
  PROVE  RowsInv'
<1>1. FreshInv /\ Attempting /\ GenerationInv /\ AcceptedInv /\ BatchInv /\ TrainingInv /\ TrainedInv
  BY DEF StepInv, RowsInv
<1>2. phase = "generate" /\ ~calling /\ UNCHANGED <<cfg, calling, worker, validated>>
  BY DEF EndCollection, At
<1>3. \/ phase' = AfterUpdate /\ batch' = batch
      \/ /\ phase' = "log_prob"
         /\ Complete(batch', cfg) /\ Shared(batch', World) /\ MasksFit(batch', cfg)
         /\ \A i \in DOMAIN batch' : batch'[i].logp = None
  BY <1>1, EndCollectionMasks
<1>4. World' = World /\ Rank' = Rank /\ cfg' = cfg
  BY <1>2, Still
<1>5. GenerationInv' /\ TrainingInv'
  BY <1>2 DEF GenerationInv, Asking, TrainingInv
<1>6. \A r \in Rank' : worker'[r].trained = <<>>
  BY <1>1, <1>2, <1>4 DEF TrainedInv
<1>7. CASE phase' = AfterUpdate /\ batch' = batch
  <2>1. phase' \in {"validate", "done"} /\ (phase' = "validate" => cfg.validation # <<>>) /\ batch' = <<>>
    BY <1>1, <1>2, <1>7 DEF AfterUpdate, BatchInv
  <2>2. BatchInv'
    BY <1>1, <1>2, <1>4, <2>1 DEF BatchInv
  <2>3. AcceptedInv'
    BY <2>1 DEF AcceptedInv
  <2>4. TrainedInv'
    BY <1>6, <2>1 DEF TrainedInv
  <2> QED
    BY <1>5, <2>2, <2>3, <2>4 DEF RowsInv
<1>8. CASE phase' = "log_prob" /\ Complete(batch', cfg) /\ Shared(batch', World) /\ MasksFit(batch', cfg)
           /\ \A i \in DOMAIN batch' : batch'[i].logp = None
  <2>1. BatchInv'
    BY <1>1, <1>2, <1>4, <1>8 DEF BatchInv
  <2>2. AcceptedInv' /\ TrainedInv'
    BY <1>6, <1>8 DEF AcceptedInv, TrainedInv
  <2> QED
    BY <1>5, <2>1, <2>2 DEF RowsInv
<1> QED
  BY <1>3, <1>7, <1>8

LEMMA RequestBatchKeeps ==
  ASSUME StepInv, RequestBatch
  PROVE  RowsInv'
<1>1. FreshInv /\ GenerationInv /\ AcceptedInv /\ BatchInv /\ TrainingInv /\ TrainedInv
  BY DEF StepInv, RowsInv
<1>2. /\ phase = "generate" /\ ~cfg.stage1b /\ UNCHANGED <<cfg, sampler, accepted, batch, validated>>
  BY DEF RequestBatch, At
<1>3. (phase' = "failed" \/ GenerationInv') /\ \A r \in Rank : worker'[r].trained = worker[r].trained
  BY <1>1, RequestBatchAsks
<1>4. CASE phase' = "failed"
  BY <1>1, <1>2, <1>4, FailingKeeps
<1>5. CASE phase' # "failed"
  <2>1. phase' = phase
    BY <1>5, Zenon DEF RequestBatch, DispatchOrFail, Dispatch, Fails
  <2>2. World' = World
    BY <1>2, Still
  <2>3. BatchInv'
    BY <1>1, <1>2, <2>1, <2>2 DEF BatchInv
  <2>4. AcceptedInv' /\ TrainingInv'
    BY <1>2, <2>1 DEF AcceptedInv, TrainingInv
  <2>5. TrainedInv'
    BY <1>1, <1>2, <1>3, <2>1, NoneTrained
  <2> QED
    BY <1>3, <1>5, <2>3, <2>4, <2>5 DEF RowsInv
<1> QED
  BY <1>4, <1>5

LEMMA ReceiveBatchKeeps ==
  ASSUME StepInv, ReceiveBatch
  PROVE  RowsInv'
<1>1. FreshInv /\ GenerationInv /\ AcceptedInv /\ BatchInv /\ TrainingInv /\ TrainedInv
  BY DEF StepInv, RowsInv
<1>2. phase = "generate" /\ phase' = "log_prob" /\ UNCHANGED <<cfg, validated>>
  BY DEF ReceiveBatch
<1>3. /\ Complete(batch', cfg) /\ Shared(batch', World) /\ MasksFit(batch', cfg)
      /\ \A i \in DOMAIN batch' : batch'[i].logp = None
      /\ \A r \in Rank : worker'[r].trained = worker[r].trained
      /\ calling' = FALSE
  BY <1>1, ReceiveBatchCompletes
<1>4. World' = World
  BY <1>2, Still
<1>5. BatchInv'
  BY <1>1, <1>2, <1>3, <1>4 DEF BatchInv
<1>6. GenerationInv' /\ TrainingInv' /\ AcceptedInv'
  BY <1>2, <1>3 DEF GenerationInv, Asking, TrainingInv, AcceptedInv
<1>7. TrainedInv'
  BY <1>1, <1>2, <1>3, NoneTrained
<1> QED
  BY <1>5, <1>6, <1>7 DEF RowsInv

LEMMA DispatchKeepsTrained ==
  ASSUME NEW pc, NEW rows, NEW n, Dispatch(pc, rows, n)
  PROVE  /\ \A r \in Rank : worker'[r].trained = worker[r].trained
         /\ phase' = phase /\ calling' = TRUE
BY Zenon DEF Dispatch, Idle

LEMMA RequestLogProbKeeps ==
  ASSUME StepInv, RequestLogProb
  PROVE  RowsInv'
<1>1. FreshInv /\ GenerationInv /\ AcceptedInv /\ BatchInv /\ TrainingInv /\ TrainedInv
  BY DEF StepInv, RowsInv
<1>2. /\ phase = "log_prob" /\ batch' = BalanceBatch(batch) /\ Dispatch("split", batch', 0)
      /\ UNCHANGED <<cfg, validated>>
  BY DEF RequestLogProb, At
<1>3. /\ Complete(batch, cfg) /\ MasksFit(batch, cfg) /\ Shared(batch, World)
      /\ \A i \in DOMAIN batch : batch[i].logp = None
  BY <1>1, <1>2 DEF BatchInv
<1>4. /\ Complete(batch', cfg) /\ MasksFit(batch', cfg) /\ Shared(batch', World)
      /\ \A i \in DOMAIN batch' : batch'[i].logp = None
  <2>1. /\ Complete(BalanceBatch(batch), cfg) /\ MasksFit(BalanceBatch(batch), cfg)
        /\ Shared(BalanceBatch(batch), World)
        /\ \A i \in DOMAIN BalanceBatch(batch) : BalanceBatch(batch)[i].logp = None
    BY <1>1, <1>3, BalanceKeeps
  <2> QED
    BY <1>2, <2>1
<1>5. \A r \in Rank : worker[r].trained = <<>>
  BY <1>1, <1>2 DEF TrainedInv
<1>6. TrainingInv' /\ calling' = TRUE /\ phase' = phase
  BY <1>1, <1>2, <1>4, <1>5, RequestTraining
<1>7. World' = World
  BY <1>2, Still
<1>8. BatchInv'
  BY <1>1, <1>2, <1>4, <1>6, <1>7 DEF BatchInv
<1>9. GenerationInv' /\ AcceptedInv'
  BY <1>2, <1>6 DEF GenerationInv, Asking, AcceptedInv
<1>10. \A r \in Rank : worker'[r].trained = worker[r].trained
  BY <1>2, DispatchKeepsTrained
<1>11. TrainedInv'
  BY <1>1, <1>2, <1>6, <1>10, NoneTrained
<1> QED
  BY <1>6, <1>8, <1>9, <1>11 DEF RowsInv

LEMMA ReceiveLogProbKeeps ==
  ASSUME StepInv, ReceiveLogProb
  PROVE  RowsInv'
<1>1. FreshInv /\ GenerationInv /\ AcceptedInv /\ BatchInv /\ TrainingInv /\ TrainedInv
  BY DEF StepInv, RowsInv
<1>2. phase = "log_prob" /\ phase' = "update" /\ UNCHANGED <<cfg, validated>>
  BY DEF ReceiveLogProb
<1>3. /\ Ready(batch', cfg, World) /\ calling' = FALSE
      /\ \A r \in Rank : worker'[r].trained = worker[r].trained
  BY <1>1, ReceiveLogProbReadies
<1>4. World' = World
  BY <1>2, Still
<1>5. BatchInv'
  BY <1>1, <1>2, <1>3, <1>4 DEF BatchInv
<1>6. GenerationInv' /\ TrainingInv' /\ AcceptedInv'
  BY <1>2, <1>3 DEF GenerationInv, Asking, TrainingInv, AcceptedInv
<1>7. TrainedInv'
  BY <1>1, <1>2, <1>3, NoneTrained
<1> QED
  BY <1>5, <1>6, <1>7 DEF RowsInv

LEMMA RequestUpdateKeeps ==
  ASSUME StepInv, RequestUpdate
  PROVE  RowsInv'
<1>1. FreshInv /\ GenerationInv /\ AcceptedInv /\ BatchInv /\ TrainingInv /\ TrainedInv
  BY DEF StepInv, RowsInv
<1>2. /\ phase = "update" /\ ~calling /\ Dispatch("split", batch, 0) /\ UNCHANGED <<cfg, batch, validated>>
  BY DEF RequestUpdate, At
<1>3. Dispatch("split", batch', 0) /\ Shared(batch', World)
  BY <1>1, <1>2 DEF BatchInv, Ready
<1>4. \A r \in Rank : worker[r].trained = <<>>
  BY <1>1, <1>2 DEF TrainedInv
<1>5. TrainingInv' /\ calling' = TRUE /\ phase' = phase
  BY <1>1, <1>2, <1>3, <1>4, RequestTraining
<1>6. World' = World
  BY <1>2, Still
<1>7. BatchInv'
  BY <1>1, <1>2, <1>5, <1>6 DEF BatchInv
<1>8. GenerationInv' /\ AcceptedInv' /\ TrainedInv'
  BY <1>2, <1>5 DEF GenerationInv, Asking, AcceptedInv, TrainedInv
<1> QED
  BY <1>5, <1>7, <1>8 DEF RowsInv

LEMMA ReceiveUpdateKeeps ==
  ASSUME StepInv, ReceiveUpdate
  PROVE  RowsInv'
<1>1. FreshInv /\ GenerationInv /\ AcceptedInv /\ BatchInv /\ TrainingInv /\ TrainedInv
  BY DEF StepInv, RowsInv
<1>2. phase = "update" /\ UNCHANGED <<cfg, batch, validated>>
  BY DEF ReceiveUpdate
<1>3. /\ \A r \in Rank : TrainedFirst(worker'[r].trained, Mine(r), Len(Mine(r)))
      /\ calling' = FALSE /\ phase' = AfterUpdate
  BY <1>1, ReceiveUpdateTrained
<1>4. phase' \in {"validate", "done"} /\ (phase' = "validate" => cfg.validation # <<>>)
  BY <1>3 DEF AfterUpdate
<1>5. World' = World /\ Rank' = Rank
  BY <1>2, Still
<1>6. Ready(batch, cfg, World)
  BY <1>1, <1>2 DEF BatchInv
<1>7. BatchInv'
  BY <1>1, <1>2, <1>4, <1>5, <1>6 DEF BatchInv
<1>8. GenerationInv' /\ TrainingInv' /\ AcceptedInv'
  BY <1>3, <1>4 DEF GenerationInv, Asking, TrainingInv, AcceptedInv
<1>9. TrainedInv'
  <2>1. \A r \in Rank : Mine(r)' = Mine(r)
    BY <1>2, <1>5 DEF Mine
  <2>2. batch' # <<>>
    <3>1. World \in Nat \ {0}
      BY <1>1, ConfigFacts DEF FreshInv
    <3>2. Shared(batch, World)
      BY <1>6 DEF Ready
    <3> QED
      BY <1>2, <3>1, <3>2, SharedIs
  <2>3. \A r \in Rank' : TrainedFirst(worker'[r].trained, Mine(r)', Len(Mine(r)'))
    BY <1>3, <1>5, <2>1
  <2> QED
    BY <1>4, <2>2, <2>3 DEF TrainedInv
<1> QED
  BY <1>7, <1>8, <1>9 DEF RowsInv

LEMMA RequestValidationKeeps ==
  ASSUME StepInv, RequestValidation
  PROVE  RowsInv'
<1>1. FreshInv /\ GenerationInv /\ AcceptedInv /\ BatchInv /\ TrainingInv /\ TrainedInv
  BY DEF StepInv, RowsInv
<1>2. phase = "validate" /\ UNCHANGED <<cfg, batch, validated>>
  BY DEF RequestValidation, At
<1>3. cfg.validation # <<>>
  BY <1>1, <1>2 DEF BatchInv
<1>4. GenerationInv' /\ \A r \in Rank : worker'[r].trained = worker[r].trained
  BY <1>1, <1>3, RequestValidationAsks
<1>5. phase' = phase
  BY DispatchKeepsTrained DEF RequestValidation
<1>6. World' = World
  BY <1>2, Still
<1>7. BatchInv'
  BY <1>1, <1>2, <1>5, <1>6 DEF BatchInv
<1>8. TrainingInv' /\ AcceptedInv'
  BY <1>2, <1>5 DEF TrainingInv, AcceptedInv
<1>9. TrainedInv'
  BY <1>1, <1>2, <1>4, <1>5, TrainedStays
<1> QED
  BY <1>4, <1>7, <1>8, <1>9 DEF RowsInv

LEMMA ReceiveValidationKeeps ==
  ASSUME StepInv, ReceiveValidation
  PROVE  RowsInv'
<1>1. FreshInv /\ GenerationInv /\ AcceptedInv /\ BatchInv /\ TrainingInv /\ TrainedInv
  BY DEF StepInv, RowsInv
<1>2. phase = "validate" /\ UNCHANGED <<cfg, batch>>
  BY DEF ReceiveValidation
<1>3. /\ validated' = validated \/ \A i \in DOMAIN validated' : validated'[i].uid = TaskOf(validated'[i])
      /\ phase' \in {"done", "failed"} /\ calling' = FALSE
      /\ \A r \in Rank : worker'[r].trained = worker[r].trained
  BY <1>1, ReceiveValidationLabels
<1>4. World' = World
  BY <1>2, Still
<1>5. \A i \in DOMAIN validated' : validated'[i].uid = TaskOf(validated'[i])
  BY <1>1, <1>3 DEF BatchInv
<1>6. BatchInv'
  BY <1>1, <1>2, <1>3, <1>4, <1>5 DEF BatchInv
<1>7. GenerationInv' /\ TrainingInv' /\ AcceptedInv'
  BY <1>3 DEF GenerationInv, Asking, TrainingInv, AcceptedInv
<1>8. TrainedInv'
  BY <1>1, <1>2, <1>3, TrainedStays
<1> QED
  BY <1>6, <1>7, <1>8 DEF RowsInv

-------------------------------------
LEMMA StepInit == Init => StepInv
<1> SUFFICES ASSUME Init PROVE StepInv
  OBVIOUS
<1>1. FreshInv /\ Attempting
  BY FreshInit, AttemptingInit
<1>2. /\ phase = "generate" /\ calling = FALSE /\ accepted = <<>> /\ batch = <<>> /\ validated = <<>>
      /\ worker = [r \in Rank |-> Idle]
  BY DEF Init
<1>3. GenerationInv /\ TrainingInv
  BY <1>2 DEF GenerationInv, Asking, TrainingInv
<1>4. BatchInv
  BY <1>2 DEF BatchInv
<1>5. TrainedInv
  BY <1>2 DEF TrainedInv, Idle
<1>6. AcceptedInv
  <2>1. sampler.informative = 0
    BY DEF Init, BeginUpdate, NewSampler
  <2>2. Complete(<<>>, cfg)
    BY DEF Complete
  <2>3. cfg.n \in Nat
    BY <1>1, ConfigFacts DEF FreshInv
  <2> QED
    BY <1>2, <2>1, <2>2, <2>3 DEF AcceptedInv
<1> QED
  BY <1>1, <1>3, <1>4, <1>5, <1>6 DEF StepInv, RowsInv

LEMMA StepNext ==
  ASSUME StepInv, [Next]_vars
  PROVE  StepInv'
<1>1. FreshInv' /\ Attempting'
  BY FreshNext, AttemptingStep, AttemptingSamples DEF StepInv
<1>2. CASE Driver
  BY <1>2, RequestGroupKeeps, ReceiveGroupKeeps, EndCollectionKeeps, RequestBatchKeeps, ReceiveBatchKeeps,
     RequestLogProbKeeps, ReceiveLogProbKeeps, RequestUpdateKeeps, ReceiveUpdateKeeps,
     RequestValidationKeeps, ReceiveValidationKeeps, <1>1 DEF Driver, StepInv
<1>3. CASE Workers
  BY <1>1, <1>3, SyncKeeps, GenerationKeeps, TrainingStepKeeps DEF Workers, StepInv
<1>4. CASE UNCHANGED vars
  <2>1. cfg' = cfg /\ UNCHANGED <<phase, calling, sampler, accepted, batch, validated, worker>>
    BY <1>4 DEF vars
  <2>2. World' = World /\ Rank' = Rank /\ Ask' = Ask /\ \A r \in Rank : Mine(r)' = Mine(r)
    BY <2>1, Still, AskStays DEF Mine
  <2>3. GenerationInv' /\ AcceptedInv' /\ BatchInv' /\ TrainingInv' /\ TrainedInv'
    BY <2>1, <2>2 DEF StepInv, RowsInv, GenerationInv, Asking, AcceptedInv, BatchInv, TrainingInv, TrainedInv
  <2> QED
    BY <1>1, <2>3 DEF StepInv, RowsInv
<1> QED
  BY <1>2, <1>3, <1>4 DEF Next

-------------------------------------
(* What follows                                                             *)

LEMMA BlockSets ==
  ASSUME NEW S, NEW n, NEW w, NEW x, NEW seqs, Blocked(x, S, n, w), BlocksOf(seqs, x, S, n, w)
  PROVE  ToSet(x) = UNION {ToSet(seqs[i]) : i \in 1..n}
<1>1. /\ n \in Nat /\ w \in Nat \ {0} /\ x \in Seq(S) /\ Len(x) = n * w
      /\ \A i \in 1..n : seqs[i] \in Seq(S) /\ Len(seqs[i]) = w
      /\ \A i \in 1..n : \A j \in 1..w : x[(i - 1) * w + j] = seqs[i][j]
  BY DEF Blocked, BlocksOf
<1>2. DOMAIN x = 1..(n * w) /\ \A i \in 1..n : DOMAIN seqs[i] = 1..w
  BY <1>1
<1>3. /\ \A q \in 1..(n * w) : \E i \in 1..n : \E j \in 1..w : q = (i - 1) * w + j
      /\ \A i \in 1..n : \A j \in 1..w : (i - 1) * w + j \in 1..(n * w)
  BY <1>1, PlaceOfBlock
<1>4. ASSUME NEW y \in ToSet(x) PROVE y \in UNION {ToSet(seqs[i]) : i \in 1..n}
  <2>1. PICK q \in 1..(n * w) : y = x[q]
    BY <1>2 DEF ToSet
  <2>2. PICK i \in 1..n, j \in 1..w : q = (i - 1) * w + j
    BY <1>3
  <2>3. y = seqs[i][j]
    BY <1>1, <2>1, <2>2
  <2>4. y \in ToSet(seqs[i])
    BY <1>2, <2>3 DEF ToSet
  <2> QED
    BY <2>4
<1>5. ASSUME NEW i \in 1..n, NEW y \in ToSet(seqs[i]) PROVE y \in ToSet(x)
  <2>1. PICK j \in 1..w : y = seqs[i][j]
    BY <1>2 DEF ToSet
  <2>2. y = x[(i - 1) * w + j] /\ (i - 1) * w + j \in DOMAIN x
    BY <1>1, <1>2, <1>3, <2>1
  <2> QED
    BY <2>2 DEF ToSet
<1> QED
  BY <1>4, <1>5

LEMMA EmptiesFlatten ==
  ASSUME NEW n \in Nat, NEW seqs, seqs = [i \in 1..n |-> <<>>]
  PROVE  FlattenSeq(seqs) = <<>>
<1> DEFINE h == [i \in 0..n |-> <<>>]
<1>1. seqs \in Seq(Seq({})) /\ Len(seqs) = n /\ \A i \in 1..n : seqs[i] = <<>>
  OBVIOUS
<1>2. h \in [0..n -> Seq({})] /\ \A i \in 0..n : h[i] = <<>>
  OBVIOUS
<1> HIDE DEF h
<1>3. \A i \in 1..n : i - 1 \in 0..n /\ i \in 0..n
  OBVIOUS
<1>4. h[0] = <<>> /\ \A i \in 1..n : h[i] = h[i - 1] \o seqs[i]
  <2>1. <<>> \o <<>> = <<>> /\ 0 \in 0..n
    OBVIOUS
  <2> QED
    BY <1>1, <1>2, <1>3, <2>1
<1>5. FlattenSeq(seqs) = h[n]
  BY <1>1, <1>2, <1>4, FlattenIs
<1> QED
  BY <1>2, <1>5

LEMMA StepBounds == StepInv => MicroBatchBound
<1> SUFFICES ASSUME StepInv, cfg.dynamic, NEW r \in Rank, worker[r].pc = "forward"
             PROVE  LET lens == Lens(Current(r)) IN
                    \A i \in DOMAIN worker[r].micro :
                        Sum(Reorder(lens, worker[r].micro[i])) < MaxTokenLen + Max(ToSet(lens))
  BY DEF MicroBatchBound
<1>1. FreshInv /\ BatchInv /\ TrainingInv
  BY DEF StepInv, RowsInv
<1>2. Trains(worker[r], phase = "update", cfg.dynamic) /\ Current(r) = Now(worker[r], phase = "update")
  BY <1>1, WhereTraining
<1>3. Divides(worker[r].micro, Current(r), cfg.dynamic)
  BY <1>2 DEF Trains
<1>4. Bounded(worker[r].micro, Lens(Current(r)))
  BY <1>3 DEF Divides
<1> QED
  BY <1>4 DEF Bounded

LEMMA StepKeepsFields == StepInv => RowsKeepTheirFields
<1> SUFFICES ASSUME StepInv PROVE RowsKeepTheirFields
  OBVIOUS
<1>1. BatchInv
  BY DEF StepInv, RowsInv
<1>2. ASSUME NEW i \in DOMAIN batch
      PROVE  batch[i].uid = TaskOf(batch[i]) /\ batch[i].logp \in {None, batch[i].id}
  <2>1. batch # <<>>
    OBVIOUS
  <2>2. Complete(batch, cfg) /\ batch[i].logp \in {None, batch[i].id}
    BY <1>1, <2>1 DEF BatchInv, Ready
  <2> QED
    BY <2>2 DEF Complete
<1>3. \A i \in DOMAIN validated : validated[i].uid = TaskOf(validated[i])
  BY <1>1 DEF BatchInv
<1> QED
  BY <1>2, <1>3 DEF RowsKeepTheirFields

LEMMA StepCompares == StepInv => GroupBaseline
<1> SUFFICES ASSUME StepInv, phase \in {"update", "validate", "done"}, NEW i \in DOMAIN batch
             PROVE  LET group == {j \in DOMAIN batch : TaskOf(batch[j]) = TaskOf(batch[i])} IN
                    /\ Cardinality(group) = cfg.n
                    /\ cfg.n > 1 => MapThenSumSet(LAMBDA j : batch[j].adv, group) = 0
                    /\ cfg.stage1b =>
                          /\ ~batch[i].valid => batch[i].adv = 0 /\ ~batch[i].mask
                          /\ \E j, k \in group : /\ batch[j].mask /\ batch[j].adv > 0
                                                 /\ batch[k].mask /\ batch[k].adv < 0
  BY DEF GroupBaseline
<1> DEFINE group == {j \in DOMAIN batch : TaskOf(batch[j]) = TaskOf(batch[i])}
<1>1. Ready(batch, cfg, World)
  <2>1. BatchInv /\ batch # <<>>
    BY DEF StepInv, RowsInv
  <2> QED
    BY <2>1 DEF BatchInv
<1>2. Complete(batch, cfg) /\ MasksFit(batch, cfg) /\ Compared(batch, cfg)
  BY <1>1 DEF Ready
<1>3. group = GroupIn(batch, i)
  BY DEF GroupIn
<1>4. Cardinality(group) = cfg.n
  BY <1>2, <1>3 DEF Complete
<1>5. cfg.n > 1 => MapThenSumSet(LAMBDA j : batch[j].adv, group) = 0
  BY <1>2, <1>3 DEF Compared
<1>6. ASSUME cfg.stage1b
      PROVE  /\ ~batch[i].valid => batch[i].adv = 0 /\ ~batch[i].mask
             /\ \E j, k \in group : /\ batch[j].mask /\ batch[j].adv > 0
                                    /\ batch[k].mask /\ batch[k].adv < 0
  <2>1. \A j \in DOMAIN batch : batch[j].mask = batch[j].valid
    BY <1>2, <1>6 DEF MasksFit
  <2>2. ~batch[i].valid => batch[i].adv = 0
    BY <1>2, <1>6 DEF Compared
  <2>3. PICK j, k \in group : /\ batch[j].valid /\ batch[j].adv > 0
                              /\ batch[k].valid /\ batch[k].adv < 0
    BY <1>2, <1>3, <1>6 DEF Compared
  <2> QED
    BY <2>1, <2>2, <2>3
<1> QED
  BY <1>4, <1>5, <1>6

LEMMA StepTrainsOnce == StepInv => EveryRowTrainedOnce
<1> DEFINE rows == FlattenSeq([i \in 1..World |-> worker[i - 1].trained])
<1> SUFFICES ASSUME StepInv, phase \in {"validate", "done"}
             PROVE  /\ Len(rows) = Len(batch)
                    /\ ToSet(rows) = ToSet(batch)
                    /\ IsInjective(batch)
  BY DEF EveryRowTrainedOnce
<1> DEFINE seqs == [i \in 1..World |-> worker[i - 1].trained]
<1>1. FreshInv /\ BatchInv /\ TrainedInv
  BY DEF StepInv, RowsInv
<1>2. World \in Nat \ {0} /\ World # 0 /\ World \in Nat /\ \A i \in 1..World : i - 1 \in Rank /\ (i - 1) + 1 = i
  <2>1. World \in Nat \ {0}
    BY <1>1, ConfigFacts DEF FreshInv
  <2> QED
    BY <2>1 DEF Rank
<1>3. \/ batch = <<>> /\ \A r \in Rank : worker[r].trained = <<>>
      \/ batch # <<>> /\ \A r \in Rank : TrainedFirst(worker[r].trained, Mine(r), Len(Mine(r)))
  BY <1>1 DEF TrainedInv
<1>4. CASE batch = <<>> /\ \A r \in Rank : worker[r].trained = <<>>
  <2>1. seqs = [i \in 1..World |-> <<>>]
    BY <1>2, <1>4
  <2>2. rows = <<>>
    BY <1>2, <2>1, EmptiesFlatten
  <2>3. IsInjective(<<>>)
    BY DEF IsInjective
  <2> HIDE DEF rows
  <2> QED
    BY <1>4, <2>2, <2>3
<1>5. CASE batch # <<>> /\ \A r \in Rank : TrainedFirst(worker[r].trained, Mine(r), Len(Mine(r)))
  <2> DEFINE k == Len(batch) \div World
             parts == Chunk(batch, World)
  <2>1. Complete(batch, cfg) /\ Shared(batch, World)
    BY <1>1, <1>5 DEF BatchInv, Ready
  <2>2. IsInjective(batch)
    <3>1. \A i, j \in DOMAIN batch : batch[i].id = batch[j].id => i = j
      BY <2>1 DEF Complete
    <3> QED
      BY <3>1 DEF IsInjective
  <2>3. Blocked(batch, Rollout, World, k) /\ BlocksOf(parts, batch, Rollout, World, k)
    BY <1>2, <2>1, SharedIs DEF Shared
  <2> HIDE DEF k, parts
  <2>4. /\ k \in Nat \ {0} /\ Len(batch) = World * k
        /\ \A i \in 1..World : parts[i] \in Seq(Rollout) /\ Len(parts[i]) = k
    BY <2>3 DEF Blocked, BlocksOf
  <2>5. ASSUME NEW i \in 1..World
        PROVE  seqs[i] \in Seq(Rollout) /\ Len(seqs[i]) = k /\ ToSet(seqs[i]) = ToSet(parts[i])
    <3>1. Mine(i - 1) = parts[i]
      BY <1>2 DEF Mine, parts
    <3>2. seqs[i] = worker[i - 1].trained
      OBVIOUS
    <3> HIDE DEF seqs
    <3>3. TrainedFirst(seqs[i], parts[i], k)
      BY <1>2, <1>5, <2>4, <3>1, <3>2
    <3>4. SubSeq(parts[i], 1, k) = parts[i]
      BY <2>4, FirstOnes
    <3> QED
      BY <3>3, <3>4 DEF TrainedFirst
  <2>6. seqs \in [1..World -> Seq(Rollout)]
    BY <2>5
  <2>7. rows = FlattenSeq(seqs)
    OBVIOUS
  <2> HIDE DEF seqs, rows
  <2>8. Blocked(rows, Rollout, World, k) /\ BlocksOf(seqs, rows, Rollout, World, k)
    BY <1>2, <2>4, <2>5, <2>6, <2>7, FlattenBlocks
  <2>9. Len(rows) = Len(batch)
    BY <2>4, <2>8 DEF Blocked
  <2>10. ToSet(rows) = UNION {ToSet(seqs[i]) : i \in 1..World}
    BY <2>8, BlockSets
  <2>11. ToSet(batch) = UNION {ToSet(parts[i]) : i \in 1..World}
    BY <2>3, BlockSets
  <2>12. ToSet(rows) = ToSet(batch)
    BY <2>5, <2>10, <2>11
  <2> QED
    BY <2>2, <2>9, <2>12
<1> QED
  BY <1>3, <1>4, <1>5

\* In every phase of a step the ranks hold the rows they should.
THEOREM TrainingStepInvariant == Spec => []StepInv
BY StepInit, StepNext, PTL DEF Spec

\* A dynamic micro-batch exceeds the token limit by less than the longest of its rows.
THEOREM MicroBatchesAreBounded == Spec => []MicroBatchBound
BY TrainingStepInvariant, StepBounds, PTL

\* However rows are repeated, chunked, gathered, balanced and micro-batched, a row has the uid
\* of its own task and the log-probabilities that were recomputed for it.
THEOREM FieldsStayWithTheirRows == Spec => []RowsKeepTheirFields
BY TrainingStepInvariant, StepKeepsFields, PTL

\* A trained row is compared with all n rollouts of its task, whose advantages add up to 0;
\* with Stage1B an invalid row weighs nothing, and every group has a signal.
THEOREM GroupsAreCompared == Spec => []GroupBaseline
BY TrainingStepInvariant, StepCompares, PTL

\* An update trains on every row of the batch exactly once, over all ranks, mini-batches and
\* micro-batches.
THEOREM RowsAreTrainedOnce == Spec => []EveryRowTrainedOnce
BY TrainingStepInvariant, StepTrainsOnce, PTL

\* Every rollout is generated with all tensors of the current weights, for every mesh
\* of ranks, exchange size and list of tensors, and whatever engines refuse.
THEOREM RolloutsAreFresh == Spec => []FreshWeights
<1>1. FreshInv => FreshWeights
  BY DEF FreshInv, FreshWeights, Fresh, Excused
<1>2. Init => FreshInv /\ Sampling
  BY FreshInit, SamplingInit
<1>3. FreshInv /\ Sampling /\ [Next]_vars => (FreshInv /\ Sampling)'
  BY FreshNext, SamplingStep
<1> QED
  BY <1>1, <1>2, <1>3, PTL DEF Spec
=============================================================================
