----------------------------- MODULE DataLemmas -----------------------------
(***************************************************************************)
(* Facts about finite sums, running sums and ranks that hold of no         *)
(* component in particular.                                                *)
(*                                                                         *)
(* Induction is stated for sets: a set of numbers that holds 0 and with    *)
(* every number the next holds them all (NatInductive, from the least      *)
(* counterexample), and a set of sets likewise (SubsetInductive).  A       *)
(* predicate is used through the set of what satisfies it.  Total(g, S) is *)
(* what MapThenSumSet of the community modules makes of g over S, with the *)
(* recursive function of its fold written out.                             *)
(***************************************************************************)
EXTENDS Integers, FiniteSets, FiniteSetTheorems, WellFoundedInduction, TLAPS

\* Every nonempty set of natural numbers has a least element.
LEMMA LeastNat ==
    ASSUME NEW T \in SUBSET Nat, T # {}
    PROVE  \E n \in T : \A k \in T : n <= k
<1> DEFINE R == OpToRel(<, Nat)
<1>1. IsWellFoundedOn(R, Nat)
  BY NatLessThanWellFounded
<1>2. \A x, y \in Nat : y < x => <<y, x>> \in R
  BY DEF OpToRel
<1> HIDE DEF R
<1>3. \E x \in T : \A y \in T : ~(<<y, x>> \in R)
  BY <1>1, WFMin
<1>4. \A x, y \in T : ~(y < x) => x <= y
  OBVIOUS
<1>5. QED
  BY <1>2, <1>3, <1>4

\* Induction over the natural numbers, for a set: what holds of 0 and carries over
\* to the next number is in it.
LEMMA NatInductive ==
    ASSUME NEW S, 0 \in S, \A n \in Nat : n \in S => n + 1 \in S
    PROVE  \A n \in Nat : n \in S
<1> DEFINE T == {n \in Nat : n \notin S}
<1> SUFFICES ASSUME T # {} PROVE FALSE
  OBVIOUS
<1>1. PICK n \in T : \A k \in T : n <= k
  <2>1. T \in SUBSET Nat
    OBVIOUS
  <2> HIDE DEF T
  <2>2. QED
    BY <2>1, LeastNat
<1>2. n - 1 \in Nat /\ n - 1 \in S
  BY <1>1
<1>3. QED
  BY <1>1, <1>2

\* Induction over the subsets of a finite set, for a set of sets.
LEMMA SubsetInductive ==
    ASSUME NEW S, IsFiniteSet(S), NEW P, {} \in P,
           \A T \in SUBSET S, x \in S : T \in P /\ x \notin T => T \cup {x} \in P
    PROVE  \A T \in SUBSET S : T \in P
<1> DEFINE N == {n \in Nat : \A T \in SUBSET S : Cardinality(T) = n => T \in P}
<1>1. \A T \in SUBSET S : IsFiniteSet(T) /\ Cardinality(T) \in Nat
  BY FS_Subset, FS_CardinalityType
<1>2. 0 \in N
  BY <1>1, FS_EmptySet
<1>3. ASSUME NEW n \in Nat, n \in N
      PROVE  n + 1 \in N
  <2> SUFFICES ASSUME NEW T \in SUBSET S, Cardinality(T) = n + 1
               PROVE  T \in P
    OBVIOUS
  <2>1. T # {}
    BY <1>1, FS_EmptySet
  <2>2. PICK x \in T : TRUE
    BY <2>1
  <2>3. T \ {x} \in SUBSET S /\ Cardinality(T \ {x}) = n
    <3>1. IsFiniteSet(T)
      BY <1>1
    <3>2. Cardinality(T \ {x}) = Cardinality(T) - 1
      BY <2>2, <3>1, FS_RemoveElement
    <3>3. QED
      BY <3>2
  <2>4. T \ {x} \in P
    BY <1>3, <2>3
  <2>5. (T \ {x}) \cup {x} \in P
    BY <2>2, <2>3, <2>4
  <2>6. (T \ {x}) \cup {x} = T
    BY <2>2
  <2>7. QED
    BY <2>5, <2>6
<1> HIDE DEF N
<1>4. \A n \in Nat : n \in N
  BY <1>2, <1>3, NatInductive
<1>5. QED
  BY <1>1, <1>4 DEF N

-----------------------------------------------------------------------------
\* What the folds of the community modules make of addition: the sum of g over a
\* finite set, an element at a time.
Pick(s) == CHOOSE x \in s : TRUE

IsSum(h, g, S) ==
    h = [s \in SUBSET S |-> IF s = {} THEN 0 ELSE g[Pick(s)] + h[s \ {Pick(s)}]]

Total(g, S) == (CHOOSE h : IsSum(h, g, S))[S]

LEMMA PickIn == \A s : s # {} => Pick(s) \in s
  BY DEF Pick

\* The recursive function of a sum exists.
LEMMA SumExists ==
    ASSUME NEW S, IsFiniteSet(S), NEW g
    PROVE  \E h : IsSum(h, g, S)
<1> DEFINE U(n) == {s \in SUBSET S : Cardinality(s) <= n}
           Body(h, s) == IF s = {} THEN 0 ELSE g[Pick(s)] + h[s \ {Pick(s)}]
           N == {n \in Nat : \E h : h = [s \in U(n) |-> Body(h, s)]}
<1>1. \A T \in SUBSET S : IsFiniteSet(T) /\ Cardinality(T) \in Nat
  BY FS_Subset, FS_CardinalityType
<1>2. \A s \in SUBSET S : s # {} => /\ s \ {Pick(s)} \in SUBSET S
                                   /\ Cardinality(s \ {Pick(s)}) = Cardinality(s) - 1
  BY <1>1, FS_RemoveElement, PickIn
<1>3. 0 \in N
  <2> DEFINE h == [s \in U(0) |-> 0]
  <2>1. \A s \in U(0) : s = {}
    BY <1>1, FS_EmptySet
  <2>2. h = [s \in U(0) |-> Body(h, s)]
    BY <2>1
  <2>3. QED
    BY <2>2
<1>4. ASSUME NEW n \in Nat, n \in N
      PROVE  n + 1 \in N
  <2>1. PICK h : h = [s \in U(n) |-> Body(h, s)]
    BY <1>4
  <2> DEFINE k == [s \in U(n + 1) |-> Body(h, s)]
  <2>2. \A s \in U(n) : s \in U(n + 1)
    BY <1>1
  <2>3. \A s \in U(n) : k[s] = h[s]
    BY <2>1, <2>2
  <2>4. \A s \in U(n + 1) : s # {} => s \ {Pick(s)} \in U(n)
    BY <1>1, <1>2
  <2>5. \A s \in U(n + 1) : Body(k, s) = Body(h, s)
    <3> HIDE DEF k
    <3>1. QED
      BY <2>3, <2>4
  <2>6. k = [s \in U(n + 1) |-> Body(k, s)]
    <3>1. k = [s \in U(n + 1) |-> Body(h, s)]
      OBVIOUS
    <3> HIDE DEF k, Body, U
    <3>2. QED
      BY <2>5, <3>1
  <2> HIDE DEF k, Body, U
  <2>7. QED
    BY <2>6
<1>5. \A n \in Nat : n \in N
  <2> HIDE DEF N
  <2>1. QED
    BY <1>3, <1>4, NatInductive
<1>6. PICK h : h = [s \in U(Cardinality(S)) |-> Body(h, s)]
  BY <1>1, <1>5
<1>7. U(Cardinality(S)) = SUBSET S
  BY FS_Subset, <1>1
<1>8. QED
  BY <1>6, <1>7 DEF IsSum

\* Two of them agree where both are defined.
LEMMA SumUnique ==
    ASSUME NEW S, IsFiniteSet(S), NEW T \in SUBSET S, NEW g, NEW f,
           \A x \in T : f[x] = g[x],
           NEW h, IsSum(h, g, S), NEW k, IsSum(k, f, T)
    PROVE  h[T] = k[T]
<1> DEFINE N == {n \in Nat : \A s \in SUBSET T : Cardinality(s) = n => h[s] = k[s]}
<1>1. \A s \in SUBSET T : s \in SUBSET S /\ IsFiniteSet(s) /\ Cardinality(s) \in Nat
  BY FS_Subset, FS_CardinalityType
<1>2. \A s \in SUBSET T : s # {} => /\ Pick(s) \in T /\ s \ {Pick(s)} \in SUBSET T
                                   /\ Cardinality(s \ {Pick(s)}) = Cardinality(s) - 1
  BY <1>1, FS_RemoveElement, PickIn
<1>3. \A s \in SUBSET T :
         /\ h[s] = IF s = {} THEN 0 ELSE g[Pick(s)] + h[s \ {Pick(s)}]
         /\ k[s] = IF s = {} THEN 0 ELSE f[Pick(s)] + k[s \ {Pick(s)}]
  BY <1>1 DEF IsSum
<1>4. 0 \in N
  BY <1>1, <1>3, FS_EmptySet
<1>5. ASSUME NEW n \in Nat, n \in N
      PROVE  n + 1 \in N
  <2> SUFFICES ASSUME NEW s \in SUBSET T, Cardinality(s) = n + 1
               PROVE  h[s] = k[s]
    OBVIOUS
  <2>1. s # {}
    BY FS_EmptySet
  <2>2. h[s \ {Pick(s)}] = k[s \ {Pick(s)}]
    BY <1>2, <1>5, <2>1
  <2>3. f[Pick(s)] = g[Pick(s)]
    BY <1>2, <2>1
  <2>4. QED
    BY <1>3, <2>1, <2>2, <2>3
<1> HIDE DEF N
<1>6. \A n \in Nat : n \in N
  BY <1>4, <1>5, NatInductive
<1>7. QED
  BY <1>1, <1>6 DEF N

\* The empty sum, and a sum as the element picked and the rest.
LEMMA TotalUnfolds ==
    ASSUME NEW S, IsFiniteSet(S), NEW g
    PROVE  /\ Total(g, {}) = 0
           /\ S # {} => Total(g, S) = g[Pick(S)] + Total(g, S \ {Pick(S)})
<1>1. ASSUME NEW T, IsFiniteSet(T)
      PROVE  IsSum(CHOOSE h : IsSum(h, g, T), g, T)
  BY <1>1, SumExists
<1>2. Total(g, {}) = 0
  BY <1>1, FS_EmptySet DEF Total, IsSum
<1>3. ASSUME S # {}
      PROVE  Total(g, S) = g[Pick(S)] + Total(g, S \ {Pick(S)})
  <2> DEFINE h == CHOOSE h : IsSum(h, g, S)
             T == S \ {Pick(S)}
             k == CHOOSE k : IsSum(k, g, T)
  <2>1. IsSum(h, g, S)
    BY <1>1
  <2>2. IsFiniteSet(T) /\ T \in SUBSET S
    BY FS_Subset
  <2>3. IsSum(k, g, T)
    BY <1>1, <2>2
  <2>4. Total(g, S) = h[S] /\ Total(g, T) = k[T]
    BY DEF Total
  <2>5. h[S] = g[Pick(S)] + h[T]
    <3> HIDE DEF h
    <3>1. QED
      BY <1>3, <2>1 DEF IsSum
  <2> HIDE DEF h, k, T
  <2>6. h[T] = k[T]
    BY <2>1, <2>2, <2>3, SumUnique
  <2>7. QED
    BY <2>4, <2>5, <2>6 DEF T
<1>4. QED
  BY <1>2, <1>3

\* A sum depends on the values at its elements only.
LEMMA TotalSame ==
    ASSUME NEW S, IsFiniteSet(S), NEW f, NEW g, \A x \in S : f[x] = g[x]
    PROVE  Total(f, S) = Total(g, S)
<1> DEFINE h == CHOOSE h : IsSum(h, g, S)
           k == CHOOSE k : IsSum(k, f, S)
<1>1. IsSum(h, g, S) /\ IsSum(k, f, S)
  BY SumExists
<1>2. Total(g, S) = h[S] /\ Total(f, S) = k[S]
  BY DEF Total
<1> HIDE DEF h, k
<1>3. QED
  BY <1>1, <1>2, SumUnique

\* A sum of integers does not depend on the order in which they are added.
LEMMA TotalRemove ==
    ASSUME NEW S, IsFiniteSet(S), NEW g, \A x \in S : g[x] \in Int
    PROVE  /\ Total(g, S) \in Int
           /\ \A x \in S : Total(g, S) = g[x] + Total(g, S \ {x})
<1> DEFINE Holds(T) == /\ Total(g, T) \in Int
                       /\ \A x \in T : Total(g, T) = g[x] + Total(g, T \ {x})
           N == {n \in Nat : \A T \in SUBSET S : Cardinality(T) <= n => Holds(T)}
<1>1. \A T \in SUBSET S : IsFiniteSet(T) /\ Cardinality(T) \in Nat
  BY FS_Subset, FS_CardinalityType
<1>2. \A T \in SUBSET S : \A x \in T :
         /\ T \ {x} \in SUBSET S
         /\ Cardinality(T \ {x}) = Cardinality(T) - 1
  BY <1>1, FS_RemoveElement
<1>e. Holds({})
  <2>1. Total(g, {}) = 0
    BY TotalUnfolds
  <2>2. QED
    BY <2>1
<1>3. 0 \in N
  <2>1. \A T \in SUBSET S : Cardinality(T) <= 0 => T = {}
    BY <1>1, FS_EmptySet
  <2>2. QED
    BY <1>e, <2>1
<1>4. ASSUME NEW n \in Nat, n \in N
      PROVE  n + 1 \in N
  <2> SUFFICES ASSUME NEW T \in SUBSET S, Cardinality(T) <= n + 1, T # {}
               PROVE  Holds(T)
    BY <1>e
  <2> DEFINE p == Pick(T)
  <2>1. p \in T
    BY PickIn
  <2>2. \A x \in T : Holds(T \ {x})
    <3> SUFFICES ASSUME NEW x \in T PROVE Holds(T \ {x})
      OBVIOUS
    <3>1. T \ {x} \in SUBSET S /\ Cardinality(T \ {x}) <= n
      BY <1>1, <1>2
    <3>2. QED
      BY <1>4, <3>1
  <2>3. Total(g, T) = g[p] + Total(g, T \ {p})
    BY <1>1, <2>1, TotalUnfolds
  <2> HIDE DEF p
  <2>4. Total(g, T) \in Int
    BY <2>1, <2>2, <2>3
  <2>5. ASSUME NEW x \in T, x # p
        PROVE  Total(g, T) = g[x] + Total(g, T \ {x})
    <3>1. Total(g, T \ {p}) = g[x] + Total(g, (T \ {p}) \ {x})
      BY <2>1, <2>2, <2>5
    <3>2. Total(g, T \ {x}) = g[p] + Total(g, (T \ {x}) \ {p})
      BY <2>1, <2>2, <2>5
    <3>3. (T \ {p}) \ {x} = (T \ {x}) \ {p}
      OBVIOUS
    <3>4. Total(g, (T \ {x}) \ {p}) \in Int
      <4>1. p \in T \ {x} /\ T \ {x} \in SUBSET S /\ (T \ {x}) \ {p} \in SUBSET S
        BY <2>1, <2>5
      <4>2. Cardinality((T \ {x}) \ {p}) <= n
        <5>1. /\ Cardinality(T \ {x}) = Cardinality(T) - 1
              /\ Cardinality((T \ {x}) \ {p}) = Cardinality(T \ {x}) - 1
          BY <1>2, <4>1
        <5>2. QED
          BY <1>1, <5>1
      <4>3. QED
        BY <1>4, <4>1, <4>2
    <3>5. g[p] \in Int /\ g[x] \in Int
      BY <2>1
    <3>6. PICK rest \in Int : rest = Total(g, (T \ {x}) \ {p})
      BY <3>4
    <3>7. Total(g, T \ {p}) = g[x] + rest /\ Total(g, T \ {x}) = g[p] + rest
      BY <3>1, <3>2, <3>3, <3>6
    <3>8. QED
      BY <2>3, <3>5, <3>7
  <2>6. QED
    BY <2>3, <2>4, <2>5
<1> HIDE DEF N
<1>5. \A n \in Nat : n \in N
  BY <1>3, <1>4, NatInductive
<1>6. QED
  BY <1>1, <1>5 DEF N

\* One element more.
LEMMA TotalAdd ==
    ASSUME NEW S, IsFiniteSet(S), NEW x, x \notin S, NEW g,
           \A y \in S \cup {x} : g[y] \in Int
    PROVE  Total(g, S) \in Int /\ Total(g, S \cup {x}) = g[x] + Total(g, S)
<1>1. IsFiniteSet(S \cup {x}) /\ (S \cup {x}) \ {x} = S
  BY FS_AddElement
<1>2. QED
  BY <1>1, TotalRemove

\* A sum grows with its terms; that of natural numbers is one.
LEMMA TotalMonotone ==
    ASSUME NEW S, IsFiniteSet(S), NEW f, NEW g,
           \A x \in S : f[x] \in Int /\ g[x] \in Int /\ f[x] <= g[x]
    PROVE  Total(f, S) <= Total(g, S)
<1> DEFINE P == {T \in SUBSET S : Total(f, T) <= Total(g, T)}
<1>1. {} \in P
  <2>1. Total(f, {}) = 0 /\ Total(g, {}) = 0
    BY TotalUnfolds
  <2>2. QED
    BY <2>1
<1>2. ASSUME NEW T \in SUBSET S, NEW x \in S, T \in P, x \notin T
      PROVE  T \cup {x} \in P
  <2>1. IsFiniteSet(T)
    BY FS_Subset
  <2>2. /\ Total(f, T) \in Int /\ Total(f, T \cup {x}) = f[x] + Total(f, T)
        /\ Total(g, T) \in Int /\ Total(g, T \cup {x}) = g[x] + Total(g, T)
    BY <1>2, <2>1, TotalAdd
  <2>3. QED
    BY <1>2, <2>2
<1> HIDE DEF P
<1>3. \A T \in SUBSET S : T \in P
  BY <1>1, <1>2, SubsetInductive
<1>4. QED
  BY <1>3 DEF P

LEMMA TotalConstant ==
    ASSUME NEW S, IsFiniteSet(S), NEW c \in Int, NEW g, \A x \in S : g[x] = c
    PROVE  Total(g, S) = Cardinality(S) * c
<1> DEFINE P == {T \in SUBSET S : Total(g, T) = Cardinality(T) * c}
<1>1. {} \in P
  BY TotalUnfolds, FS_EmptySet
<1>2. ASSUME NEW T \in SUBSET S, NEW x \in S, T \in P, x \notin T
      PROVE  T \cup {x} \in P
  <2>1. IsFiniteSet(T) /\ Cardinality(T) \in Nat
    BY FS_Subset, FS_CardinalityType
  <2>2. Total(g, T \cup {x}) = c + Total(g, T)
    <3>1. \A y \in T \cup {x} : g[y] \in Int
      OBVIOUS
    <3>2. QED
      BY <1>2, <2>1, <3>1, TotalAdd
  <2>3. Cardinality(T \cup {x}) = Cardinality(T) + 1
    BY <1>2, <2>1, FS_AddElement
  <2>4. \A n \in Nat : c + n * c = (n + 1) * c
    OBVIOUS
  <2>5. QED
    BY <1>2, <2>1, <2>2, <2>3, <2>4
<1> HIDE DEF P
<1>3. \A T \in SUBSET S : T \in P
  BY <1>1, <1>2, SubsetInductive
<1>4. QED
  BY <1>3 DEF P

LEMMA TotalNat ==
    ASSUME NEW S, IsFiniteSet(S), NEW g, \A x \in S : g[x] \in Nat
    PROVE  Total(g, S) \in Nat
<1> DEFINE zero == [x \in S |-> 0]
<1>1. Total(zero, S) = 0
  BY TotalConstant, FS_CardinalityType
<1>2. \A x \in S : zero[x] \in Int /\ g[x] \in Int /\ zero[x] <= g[x]
  OBVIOUS
<1> HIDE DEF zero
<1>3. Total(zero, S) <= Total(g, S) /\ Total(g, S) \in Int
  BY <1>2, TotalMonotone, TotalRemove
<1>4. QED
  BY <1>1, <1>3

\* The sum over two disjoint sets.
LEMMA TotalUnion ==
    ASSUME NEW S, IsFiniteSet(S), NEW R, IsFiniteSet(R), R \cap S = {}, NEW g,
           \A x \in R \cup S : g[x] \in Int
    PROVE  Total(g, R \cup S) = Total(g, R) + Total(g, S)
<1> DEFINE P == {T \in SUBSET S : Total(g, R \cup T) = Total(g, R) + Total(g, T)}
<1>0. Total(g, R) \in Int
  BY TotalRemove
<1>1. {} \in P
  <2>1. Total(g, {}) = 0 /\ R \cup {} = R
    BY TotalUnfolds
  <2>2. QED
    BY <1>0, <2>1
<1>2. ASSUME NEW T \in SUBSET S, NEW x \in S, T \in P, x \notin T
      PROVE  T \cup {x} \in P
  <2>1. IsFiniteSet(T) /\ IsFiniteSet(R \cup T)
    BY FS_Subset, FS_Union
  <2>2. Total(g, T) \in Int /\ Total(g, T \cup {x}) = g[x] + Total(g, T)
    BY <1>2, <2>1, TotalAdd
  <2>3. Total(g, (R \cup T) \cup {x}) = g[x] + Total(g, R \cup T)
    BY <1>2, <2>1, TotalAdd
  <2>4. (R \cup T) \cup {x} = R \cup (T \cup {x})
    OBVIOUS
  <2>5. g[x] \in Int
    OBVIOUS
  <2>6. Total(g, R \cup T) = Total(g, R) + Total(g, T)
    BY <1>2
  <2>7. Total(g, R \cup (T \cup {x})) = g[x] + (Total(g, R) + Total(g, T))
    BY <2>3, <2>4, <2>6
  <2>8. Total(g, R \cup (T \cup {x})) = Total(g, R) + Total(g, T \cup {x})
    BY <1>0, <2>2, <2>5, <2>7
  <2>9. QED
    BY <2>8
<1> HIDE DEF P
<1>3. \A T \in SUBSET S : T \in P
  BY <1>1, <1>2, SubsetInductive
<1>4. QED
  BY <1>3 DEF P

\* One term changes.
LEMMA TotalUpdate ==
    ASSUME NEW S, IsFiniteSet(S), NEW x \in S, NEW f, NEW g,
           \A y \in S : f[y] \in Int /\ g[y] \in Int,
           \A y \in S \ {x} : f[y] = g[y]
    PROVE  Total(f, S) = Total(g, S) + f[x] - g[x]
<1>1. IsFiniteSet(S \ {x})
  BY FS_Subset
<1>2. Total(f, S \ {x}) = Total(g, S \ {x})
  BY <1>1, TotalSame
<1>3. Total(f, S) = f[x] + Total(f, S \ {x}) /\ Total(g, S) = g[x] + Total(g, S \ {x})
  BY TotalRemove
<1>4. Total(g, S \ {x}) \in Int
  BY <1>1, TotalRemove
<1>5. QED
  BY <1>2, <1>3, <1>4

\* The terms are permuted.
LEMMA TotalPermuted ==
    ASSUME NEW S, IsFiniteSet(S), NEW R, NEW g, \A x \in R : g[x] \in Int,
           NEW p \in [S -> R], \A x, y \in S : p[x] = p[y] => x = y,
           \A y \in R : \E x \in S : p[x] = y,
           NEW f, \A x \in S : f[x] = g[p[x]]
    PROVE  Total(f, S) = Total(g, R)
<1> DEFINE image(T) == {p[x] : x \in T}
           P == {T \in SUBSET S : IsFiniteSet(image(T)) /\ Total(f, T) = Total(g, image(T))}
<1>1. {} \in P
  <2>1. image({}) = {}
    OBVIOUS
  <2>2. QED
    BY <2>1, TotalUnfolds, FS_EmptySet
<1>2. ASSUME NEW T \in SUBSET S, NEW x \in S, T \in P, x \notin T
      PROVE  T \cup {x} \in P
  <2>1. IsFiniteSet(T)
    BY FS_Subset
  <2>2. Total(f, T \cup {x}) = f[x] + Total(f, T)
    <3>1. \A y \in T \cup {x} : f[y] \in Int
      OBVIOUS
    <3>2. QED
      BY <1>2, <2>1, <3>1, TotalAdd
  <2>3. image(T \cup {x}) = image(T) \cup {p[x]} /\ p[x] \notin image(T)
    BY <1>2
  <2>4. \A y \in image(T) \cup {p[x]} : g[y] \in Int
    OBVIOUS
  <2>5. IsFiniteSet(image(T))
    BY <1>2
  <2> HIDE DEF image
  <2>6. /\ Total(g, image(T) \cup {p[x]}) = g[p[x]] + Total(g, image(T))
        /\ IsFiniteSet(image(T) \cup {p[x]})
    BY <2>3, <2>4, <2>5, TotalAdd, FS_AddElement
  <2>7. Total(f, T) = Total(g, image(T))
    BY <1>2
  <2>8. QED
    BY <2>2, <2>3, <2>6, <2>7
<1> HIDE DEF P
<1>3. \A T \in SUBSET S : T \in P
  BY <1>1, <1>2, SubsetInductive
<1>4. image(S) = R
  OBVIOUS
<1>5. QED
  BY <1>3, <1>4 DEF P

-----------------------------------------------------------------------------
\* The running sums of the first terms of g, as a recursive function computes them.
IsRunningSum(h, g, n) == h = [k \in 0..n |-> IF k = 0 THEN 0 ELSE h[k - 1] + g[k]]

LEMMA RunningSumExists ==
    ASSUME NEW n \in Nat, NEW g
    PROVE  \E h : IsRunningSum(h, g, n)
<1> DEFINE N == {m \in Nat : \E h : IsRunningSum(h, g, m)}
<1>1. 0 \in N
  <2> DEFINE h == [k \in 0..0 |-> 0]
  <2>1. h = [k \in 0..0 |-> IF k = 0 THEN 0 ELSE h[k - 1] + g[k]]
    OBVIOUS
  <2> HIDE DEF h
  <2>2. QED
    BY <2>1 DEF IsRunningSum
<1>2. ASSUME NEW m \in Nat, m \in N
      PROVE  m + 1 \in N
  <2>1. PICK h : h = [k \in 0..m |-> IF k = 0 THEN 0 ELSE h[k - 1] + g[k]]
    BY <1>2 DEF IsRunningSum
  <2> DEFINE l == [k \in 0..m + 1 |-> IF k = 0 THEN 0 ELSE h[k - 1] + g[k]]
  <2>2. \A k \in 0..m : l[k] = h[k]
    BY <2>1
  <2>3. \A k \in 1..m + 1 : k - 1 \in 0..m
    OBVIOUS
  <2>4. l = [k \in 0..m + 1 |-> IF k = 0 THEN 0 ELSE h[k - 1] + g[k]]
    OBVIOUS
  <2> HIDE DEF l
  <2>5. \A k \in 0..m + 1 : k # 0 => h[k - 1] = l[k - 1]
    BY <2>2, <2>3
  <2>6. l = [k \in 0..m + 1 |-> IF k = 0 THEN 0 ELSE l[k - 1] + g[k]]
    BY <2>4, <2>5
  <2>7. QED
    BY <2>6 DEF IsRunningSum
<1> HIDE DEF N
<1>3. \A m \in Nat : m \in N
  BY <1>1, <1>2, NatInductive
<1>4. QED
  BY <1>3 DEF N

-----------------------------------------------------------------------------
\* A strict total order of the elements of a set, as a set of pairs.
Orders(R, S) ==
    /\ \A x \in S : <<x, x>> \notin R
    /\ \A x, y \in S : x # y => <<x, y>> \in R \/ <<y, x>> \in R
    /\ \A x, y, z \in S : <<x, y>> \in R /\ <<y, z>> \in R => <<x, z>> \in R

\* How many elements come before one.
Rank(R, S, x) == Cardinality({y \in S : <<y, x>> \in R})

LEMMA RankGrows ==
    ASSUME NEW S, IsFiniteSet(S), NEW R, Orders(R, S), NEW x \in S
    PROVE  /\ Rank(R, S, x) \in 0..Cardinality(S) - 1
           /\ \A y \in S : <<x, y>> \in R <=> Rank(R, S, x) < Rank(R, S, y)
           /\ \A y \in S : Rank(R, S, x) = Rank(R, S, y) => x = y
<1> DEFINE below(y) == {z \in S : <<z, y>> \in R}
<1>1. \A y \in S : IsFiniteSet(below(y)) /\ Cardinality(below(y)) \in Nat
  BY FS_Subset, FS_CardinalityType
<1>2. ASSUME NEW y \in S, NEW z \in S, <<y, z>> \in R
      PROVE  Rank(R, S, y) < Rank(R, S, z)
  <2>1. below(y) \cup {y} \in SUBSET below(z) /\ y \notin below(y)
    BY <1>2 DEF Orders
  <2>2. Cardinality(below(y) \cup {y}) = Cardinality(below(y)) + 1
    BY <1>1, <2>1, FS_AddElement
  <2>3. Cardinality(below(y) \cup {y}) <= Cardinality(below(z))
    BY <1>1, <2>1, FS_Subset
  <2>4. QED
    BY <1>1, <2>2, <2>3 DEF Rank
<1>3. Cardinality(below(x)) < Cardinality(S) /\ Cardinality(S) \in Nat
  <2>1. below(x) \cup {x} \in SUBSET S /\ x \notin below(x)
    BY DEF Orders
  <2>2. Cardinality(below(x) \cup {x}) = Cardinality(below(x)) + 1
    BY <1>1, <2>1, FS_AddElement
  <2>3. Cardinality(below(x) \cup {x}) <= Cardinality(S)
    BY <2>1, FS_Subset
  <2>4. QED
    BY <1>1, <2>2, <2>3, FS_CardinalityType
<1>4. \A y \in S : Rank(R, S, y) \in Nat
  BY <1>1 DEF Rank
<1>5. \A y \in S : x = y \/ <<x, y>> \in R \/ <<y, x>> \in R
  BY DEF Orders
<1>6. Rank(R, S, x) \in 0..Cardinality(S) - 1
  BY <1>1, <1>3 DEF Rank
<1> HIDE DEF below
<1>7. ASSUME NEW y \in S
      PROVE  /\ <<x, y>> \in R <=> Rank(R, S, x) < Rank(R, S, y)
             /\ Rank(R, S, x) = Rank(R, S, y) => x = y
  <2>1. Rank(R, S, x) \in Nat /\ Rank(R, S, y) \in Nat
    BY <1>4
  <2>2. CASE x = y
    BY <2>1, <2>2 DEF Orders
  <2>3. CASE <<x, y>> \in R
    BY <1>2, <2>1, <2>3
  <2>4. CASE <<y, x>> \in R
    <3>1. Rank(R, S, y) < Rank(R, S, x)
      BY <1>2, <2>4
    <3>2. QED
      BY <1>2, <2>1, <3>1
  <2>5. QED
    BY <1>5, <2>2, <2>3, <2>4
<1>8. QED
  BY <1>6, <1>7

\* Every place of the order is taken.
LEMMA RankOnto ==
    ASSUME NEW S, IsFiniteSet(S), NEW R, Orders(R, S),
           NEW i \in 0..Cardinality(S) - 1
    PROVE  \E x \in S : Rank(R, S, x) = i
<1> DEFINE D == 0..Cardinality(S) - 1
           f == [x \in S |-> Rank(R, S, x)]
<1>1. f \in Injection(S, D)
  BY RankGrows DEF Injection, IsInjective
<1>2. Cardinality(S) \in Nat
  BY FS_CardinalityType
<1>3. IsFiniteSet(D) /\ Cardinality(D) = Cardinality(S)
  BY <1>2, FS_Interval
<1>4. f \in Surjection(S, D)
  <2> HIDE DEF f, D
  <2>1. QED
    BY <1>1, <1>3, FS_Injection
<1>5. QED
  BY <1>4 DEF Surjection

\* A list of all elements in their order.
Ascends(s, n, R, S) ==
    /\ s \in [1..n -> S]
    /\ \A x \in S : \E i \in 1..n : s[i] = x
    /\ \A i, j \in 1..n : i < j => <<s[i], s[j]>> \in R

\* It has each at the place of its rank.
LEMMA RankInList ==
    ASSUME NEW S, NEW R, Orders(R, S), NEW n \in Nat, NEW s, Ascends(s, n, R, S)
    PROVE  \A i \in 1..n : Rank(R, S, s[i]) = i - 1
<1> SUFFICES ASSUME NEW i \in 1..n PROVE Rank(R, S, s[i]) = i - 1
  OBVIOUS
<1>0. /\ s \in [1..n -> S]
      /\ \A x \in S : \E j \in 1..n : s[j] = x
      /\ \A j, k \in 1..n : j < k => <<s[j], s[k]>> \in R
  BY DEF Ascends
<1>1. \A j, k \in 1..n : s[j] = s[k] => j = k
  <2>1. \A j, k \in 1..n : s[j] = s[k] => ~(j < k)
    BY <1>0 DEF Orders
  <2>2. QED
    BY <2>1
<1>2. \A j \in 1..n : <<s[j], s[i]>> \in R <=> j < i
  <2> SUFFICES ASSUME NEW j \in 1..n PROVE <<s[j], s[i]>> \in R <=> j < i
    OBVIOUS
  <2>1. j = i \/ j < i \/ i < j
    OBVIOUS
  <2>2. s[i] \in S /\ s[j] \in S
    BY <1>0
  <2>3. <<s[i], s[j]>> \in R => ~(<<s[j], s[i]>> \in R)
    BY <2>2 DEF Orders
  <2>4. QED
    BY <1>0, <2>1, <2>2, <2>3 DEF Orders
<1> DEFINE B == {y \in S : <<y, s[i]>> \in R}
           f == [j \in 1..i - 1 |-> s[j]]
<1>3. f \in Bijection(1..i - 1, B)
  <2>1. \A j \in 1..i - 1 : j \in 1..n /\ s[j] \in B
    BY <1>0, <1>2
  <2>2. \A y \in B : \E j \in 1..i - 1 : s[j] = y
    BY <1>0, <1>2
  <2>3. QED
    BY <1>0, <1>1, <2>1, <2>2 DEF Bijection, Injection, Surjection, IsInjective
<1>4. IsFiniteSet(1..i - 1) /\ Cardinality(1..i - 1) = i - 1
  BY FS_Interval
<1>5. Cardinality(B) = i - 1
  <2> HIDE DEF f, B
  <2>1. QED
    BY <1>3, <1>4, FS_Bijection DEF ExistsBijection
<1>6. QED
  BY <1>5 DEF Rank

\* The elements of a finite set of numbers can be counted in their order.
LEMMA NthExists ==
    ASSUME NEW S \in SUBSET Nat, IsFiniteSet(S), NEW i \in 1..Cardinality(S)
    PROVE  \E k \in S : Cardinality({j \in S : j <= k}) = i
<1> DEFINE R == {p \in Nat \X Nat : p[1] < p[2]}
<1>1. Cardinality(S) \in Nat
  BY FS_CardinalityType
<1>2. \A x, y \in Nat : <<x, y>> \in R <=> x < y
  OBVIOUS
<1>3. Orders(R, S)
  <2> HIDE DEF R
  <2>1. QED
    BY <1>2 DEF Orders
<1> HIDE DEF R
<1>4. PICK k \in S : Rank(R, S, k) = i - 1
  <2>1. PICK n \in 0..Cardinality(S) - 1 : n = i - 1
    BY <1>1
  <2>2. \E x \in S : Rank(R, S, x) = n
    BY <1>3, RankOnto
  <2>3. QED
    BY <2>1, <2>2
<1>5. Cardinality({j \in S : j <= k}) = i
  <2> DEFINE T == {j \in S : <<j, k>> \in R}
  <2>1. \A j \in S : j <= k <=> j \in T \/ j = k
    BY <1>2
  <2>2. k \notin T
    BY <1>2
  <2>3. IsFiniteSet(T) /\ Cardinality(T) = i - 1
    <3>1. T \in SUBSET S
      OBVIOUS
    <3>2. QED
      BY <1>4, <3>1, FS_Subset DEF Rank
  <2>4. {j \in S : j <= k} = T \cup {k}
    BY <2>1
  <2> HIDE DEF T
  <2>5. Cardinality(T \cup {k}) = Cardinality(T) + 1
    BY <2>2, <2>3, FS_AddElement
  <2>6. QED
    BY <1>1, <2>3, <2>4, <2>5
<1>6. QED
  BY <1>5
=============================================================================
