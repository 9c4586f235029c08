-------------------------- MODULE CoordinatorProofs --------------------------
(***************************************************************************)
(* What ShardCoordinator promises, for any set of nodes, any requests and  *)
(* any interleaving of them with changes of the registry.                  *)
(*                                                                         *)
(* The first half is about the candidates of one request: both orders of   *)
(* the nodes are total, so that a sorted list names every node once, at    *)
(* the place of its rank; a rotation reorders it; so the candidates have   *)
(* different controllers and are, where nodes are able, the able ones, the *)
(* one at the counter first.                                               *)
(*                                                                         *)
(* The second half is the inductive invariant Inv.  AbleNodesOnce needs    *)
(* where the handler of a request is (Course): what is still to be tried   *)
(* and what has refused are apart, and together are what was able.         *)
(* EvenRotation needs the walk round the ranks (Rotation): the counts of   *)
(* first tries are some whole rounds and a part of one that ends at the    *)
(* counter.                                                                *)
(***************************************************************************)
EXTENDS Coordinator, DataLemmas

LEMMA NodesAre ==
    /\ NodeList \in Seq(Node) /\ Len(NodeList) \in Nat /\ IsFiniteSet(Node)
    /\ \A n \in Node : Position(n) \in 1..Len(NodeList) /\ NodeList[Position(n)] = n
    /\ \A n, k \in Node : Position(n) = Position(k) => n = k
<1>1. NodeList \in Seq(Node) /\ Len(NodeList) \in Nat /\ DOMAIN NodeList = 1..Len(NodeList)
  BY NodeListAssumption
<1>2. \A n \in Node : \E i \in 1..Len(NodeList) : NodeList[i] = n
  BY <1>1 DEF Node, Range
<1>3. \A n \in Node : Position(n) \in 1..Len(NodeList) /\ NodeList[Position(n)] = n
  BY <1>1, <1>2 DEF Position
<1>4. IsFiniteSet(Node)
  <2>1. IsFiniteSet(1..Len(NodeList))
    BY <1>1, FS_Interval
  <2>2. NodeList \in Surjection(1..Len(NodeList), Node)
    BY <1>1, <1>2 DEF Surjection
  <2>3. QED
    BY <2>1, <2>2, FS_Surjection
<1>5. QED
  BY <1>1, <1>3, <1>4

-----------------------------------------------------------------------------
\* s lists the elements of S, each at the place of its rank in R.
Lists(s, R, S) ==
    /\ s \in [1..Cardinality(S) -> S]
    /\ \A i \in 1..Cardinality(S) : Rank(R, S, s[i]) = i - 1

\* Such a list names every element once.
LEMMA ListsOnce ==
    ASSUME NEW S, IsFiniteSet(S), NEW R, Orders(R, S), NEW s, Lists(s, R, S)
    PROVE  /\ s \in Seq(S) /\ Len(s) = Cardinality(S) /\ Cardinality(S) \in Nat
           /\ \A i, j \in 1..Cardinality(S) : s[i] = s[j] => i = j
           /\ \A n \in S : Rank(R, S, n) + 1 \in 1..Cardinality(S) /\ s[Rank(R, S, n) + 1] = n
<1>1. Cardinality(S) \in Nat
  BY FS_CardinalityType
<1>2. s \in Seq(S) /\ Len(s) = Cardinality(S)
  BY <1>1 DEF Lists
<1>3. \A i, j \in 1..Cardinality(S) : s[i] = s[j] => i = j
  BY <1>1 DEF Lists
<1>4. ASSUME NEW n \in S
      PROVE  Rank(R, S, n) + 1 \in 1..Cardinality(S) /\ s[Rank(R, S, n) + 1] = n
  <2>1. PICK i \in 1..Cardinality(S) : i = Rank(R, S, n) + 1
    BY <1>1, RankGrows
  <2>2. s[i] \in S /\ Rank(R, S, s[i]) = Rank(R, S, n)
    <3>1. Rank(R, S, n) \in 0..Cardinality(S) - 1
      BY RankGrows
    <3>2. QED
      BY <1>1, <2>1, <3>1 DEF Lists
  <2>3. QED
    BY <2>1, <2>2, RankGrows
<1>5. QED
  BY <1>1, <1>2, <1>3, <1>4

\* The two orders of the nodes.
FasterPairs == {p \in Node \X Node : Faster(p[1], p[2])}
LargerPairs == {p \in Node \X Node : Larger(p[1], p[2])}

LEMMA BothOrder ==
    ASSUME p50 \in [Node -> P50 \cup {NoStats}], NEW S \in SUBSET Node
    PROVE  Orders(FasterPairs, S) /\ Orders(LargerPairs, S)
<1>1. \A n \in Node : p50[n] \in Nat /\ Vram[n] \in Nat /\ Position(n) \in Nat
  <2>1. \A n \in Node : Position(n) \in Nat
    BY NodesAre
  <2>2. P50 \cup {NoStats} \subseteq Nat
    BY LatencyAssumption
  <2>3. QED
    BY <2>1, <2>2, VramAssumption
<1>2. \A n, k \in Node : Position(n) = Position(k) => n = k
  BY NodesAre
<1>3. \A a, b \in Node : <<a, b>> \in FasterPairs <=> Faster(a, b)
  BY DEF FasterPairs
<1>4. \A a, b \in Node : <<a, b>> \in LargerPairs <=> Larger(a, b)
  BY DEF LargerPairs
<1> HIDE DEF FasterPairs, LargerPairs
<1>5. /\ \A a \in Node : ~Faster(a, a) /\ ~Larger(a, a)
      /\ \A a, b \in Node : a # b => Faster(a, b) \/ Faster(b, a)
      /\ \A a, b \in Node : a # b => Larger(a, b) \/ Larger(b, a)
  BY <1>1, <1>2 DEF Faster, Larger
<1>6. \A a, b, c \in Node : Faster(a, b) /\ Faster(b, c) => Faster(a, c)
  BY <1>1 DEF Faster
<1>7. \A a, b, c \in Node : Larger(a, b) /\ Larger(b, c) => Larger(a, c)
  BY <1>1 DEF Larger
<1>8. QED
  BY <1>3, <1>4, <1>5, <1>6, <1>7 DEF Orders

LEMMA SortedLists ==
    ASSUME p50 \in [Node -> P50 \cup {NoStats}], NEW S \in SUBSET Node
    PROVE  /\ IsFiniteSet(S) /\ Orders(FasterPairs, S)
           /\ Lists(Sorted(S, Faster), FasterPairs, S)
           /\ Lists(Sorted(S, Larger), LargerPairs, S)
<1>1. IsFiniteSet(S) /\ Cardinality(S) \in Nat
  BY NodesAre, FS_Subset, FS_CardinalityType
<1>2. Orders(FasterPairs, S) /\ Orders(LargerPairs, S)
  BY BothOrder
<1>3. ASSUME NEW n \in S
      PROVE  /\ Cardinality({k \in S : Faster(k, n)}) = Rank(FasterPairs, S, n)
             /\ Cardinality({k \in S : Larger(k, n)}) = Rank(LargerPairs, S, n)
  <2>1. /\ {k \in S : Faster(k, n)} = {k \in S : <<k, n>> \in FasterPairs}
        /\ {k \in S : Larger(k, n)} = {k \in S : <<k, n>> \in LargerPairs}
    BY DEF FasterPairs, LargerPairs
  <2>2. QED
    BY <2>1 DEF Rank
<1>4. ASSUME NEW i \in 1..Cardinality(S)
      PROVE  /\ \E n \in S : Cardinality({k \in S : Faster(k, n)}) = i - 1
             /\ \E n \in S : Cardinality({k \in S : Larger(k, n)}) = i - 1
  <2>1. i - 1 \in 0..Cardinality(S) - 1
    BY <1>1
  <2>2. /\ \E n \in S : Rank(FasterPairs, S, n) = i - 1
        /\ \E n \in S : Rank(LargerPairs, S, n) = i - 1
    BY <1>1, <1>2, <2>1, RankOnto
  <2>3. QED
    BY <1>3, <2>2
<1>5. Lists(Sorted(S, Faster), FasterPairs, S)
  <2>1. \A i \in 1..Cardinality(S) :
            LET n == CHOOSE n \in S : Cardinality({k \in S : Faster(k, n)}) = i - 1
            IN  n \in S /\ Cardinality({k \in S : Faster(k, n)}) = i - 1
    BY <1>4
  <2>2. QED
    BY <1>3, <2>1 DEF Lists, Sorted
<1>6. Lists(Sorted(S, Larger), LargerPairs, S)
  <2>1. \A i \in 1..Cardinality(S) :
            LET n == CHOOSE n \in S : Cardinality({k \in S : Larger(k, n)}) = i - 1
            IN  n \in S /\ Cardinality({k \in S : Larger(k, n)}) = i - 1
    BY <1>4
  <2>2. QED
    BY <1>3, <2>1 DEF Lists, Sorted
<1>7. QED
  BY <1>1, <1>2, <1>5, <1>6

-----------------------------------------------------------------------------
\* The remainder, of a number below twice the divisor and of the next number.
LEMMA ModIs ==
    ASSUME NEW k \in Nat \ {0}, NEW a \in Nat
    PROVE  /\ a % k \in 0..k - 1
           /\ a < k => a % k = a
           /\ k <= a /\ a < 2 * k => a % k = a - k
           /\ (a + 1) % k = IF (a % k) + 1 = k THEN 0 ELSE (a % k) + 1
<1>1. a % k \in 0..k - 1
  OBVIOUS
<1>2. PICK q \in Int, r \in 0..k - 1 : a = k * q + r /\ r = a % k
  <2>1. a = k * (a \div k) + (a % k) /\ a \div k \in Int
    OBVIOUS
  <2>2. QED
    BY <1>1, <2>1
<1>3. a < k => a % k = a
  OBVIOUS
<1>4. k <= a /\ a < 2 * k => a % k = a - k
  OBVIOUS
<1>5. (a + 1) % k = IF (a % k) + 1 = k THEN 0 ELSE (a % k) + 1
  <2>1. PICK p \in Int, x \in 0..k - 1 : a + 1 = k * p + x /\ x = (a + 1) % k
    <3>1. a + 1 = k * ((a + 1) \div k) + ((a + 1) % k) /\ (a + 1) \div k \in Int
      OBVIOUS
    <3>2. (a + 1) % k \in 0..k - 1
      OBVIOUS
    <3>3. QED
      BY <3>1, <3>2
  <2>2. k * p + x = k * q + r + 1
    BY <1>2, <2>1
  <2>3. PICK z \in Int : z = p - q
    OBVIOUS
  <2>4. k * z = r + 1 - x
    BY <2>2, <2>3
  <2>5. z = 0 \/ z = 1
    <3>1. z >= 2 => k * z >= 2 * k
      OBVIOUS
    <3>2. z <= -1 => k * z <= -k
      OBVIOUS
    <3>3. QED
      BY <2>4, <3>1, <3>2
  <2>6. (z = 0 => k * z = 0) /\ (z = 1 => k * z = k)
    OBVIOUS
  <2>7. x = IF r + 1 = k THEN 0 ELSE r + 1
    BY <2>4, <2>5, <2>6
  <2>8. QED
    BY <1>2, <2>1, <2>7
<1>6. QED
  BY <1>1, <1>3, <1>4, <1>5

\* A rotation reorders.
LEMMA RotateReorders ==
    ASSUME NEW S, NEW k \in Nat \ {0}, NEW s \in [1..k -> S], NEW d \in 0..k - 1
    PROVE  LET t == RotateLeft(s, d)
               to(i) == IF i + d <= k THEN i + d ELSE i + d - k
               from(j) == IF j > d THEN j - d ELSE j - d + k
           IN  /\ t \in [1..k -> S]
               /\ \A i \in 1..k : to(i) \in 1..k /\ t[i] = s[to(i)]
               /\ \A j \in 1..k : from(j) \in 1..k /\ to(from(j)) = j
               /\ \A i, j \in 1..k : to(i) = to(j) => i = j
<1> DEFINE t == RotateLeft(s, d)
           to(i) == IF i + d <= k THEN i + d ELSE i + d - k
<1>1. Len(s) = k /\ DOMAIN s = 1..k
  OBVIOUS
<1>2. ASSUME NEW i \in 1..k
      PROVE  ((i - 1 + d) % k) + 1 = to(i) /\ to(i) \in 1..k
  <2>1. PICK a \in Nat : a = i - 1 + d /\ a < 2 * k
    OBVIOUS
  <2>2. /\ a < k => a % k = a
        /\ k <= a => a % k = a - k
    BY <2>1, ModIs
  <2>3. QED
    BY <2>1, <2>2
<1>3. t = [i \in 1..k |-> s[((i - 1 + d) % k) + 1]]
  BY <1>1 DEF RotateLeft
<1>4. \A i \in 1..k : to(i) \in 1..k /\ t[i] = s[to(i)]
  BY <1>2, <1>3
<1>5. t \in [1..k -> S]
  BY <1>2, <1>3
<1>6. QED
  BY <1>4, <1>5

-----------------------------------------------------------------------------
LEMMA GreedyNodesType ==
    ASSUME NEW order \in Seq(Node), NEW v, NEW m
    PROVE  GreedyNodes(order, v, m) \in Seq(Node)
<1> DEFINE stages == Stages(order, v, m)
           nth(i) == CHOOSE k \in stages : Cardinality({j \in stages : j <= k}) = i
<1>1. PICK n \in Nat : n = Len(order) /\ order \in [1..n -> Node]
  OBVIOUS
<1>2. stages \in SUBSET Nat /\ IsFiniteSet(stages) /\ Cardinality(stages) \in Nat
  <2>1. stages \in SUBSET (1..n)
    BY <1>1 DEF Stages
  <2>2. IsFiniteSet(1..n) /\ 1..n \subseteq Nat
    BY FS_Interval
  <2> HIDE DEF stages
  <2>3. IsFiniteSet(stages)
    BY <2>1, <2>2, FS_Subset
  <2>4. QED
    BY <2>1, <2>2, <2>3, FS_CardinalityType
<1>3. \A i \in 1..Cardinality(stages) : nth(i) \in stages
  <2> HIDE DEF stages
  <2>1. \A i \in 1..Cardinality(stages) :
           \E k \in stages : Cardinality({j \in stages : j <= k}) = i
    BY <1>2, NthExists
  <2>2. QED
    BY <2>1
<1>4. \A i \in 1..Cardinality(stages) : order[nth(i)] \in Node
  <2>1. stages \subseteq 1..n
    BY <1>1 DEF Stages
  <2>2. QED
    BY <1>1, <1>3, <2>1
<1>5. [i \in 1..Cardinality(stages) |-> order[nth(i)]] \in Seq(Node)
  <2>1. PICK z \in Nat : z = Cardinality(stages)
    BY <1>2
  <2> HIDE DEF nth, stages
  <2>2. [i \in 1..z |-> order[nth(i)]] \in [1..z -> Node]
    BY <1>4, <2>1
  <2>3. QED
    BY <2>1, <2>2
<1>6. QED
  BY <1>5 DEF GreedyNodes

\* The candidates are plans of at least one node, with different controllers.  If
\* nodes are able they are the able ones, each alone, the one at the counter first.
LEMMA CandidatesAre ==
    ASSUME p50 \in [Node -> P50 \cup {NoStats}], online \subseteq Node, counter \in Nat, NEW m
    PROVE  LET c == BuildCandidates(m)
           IN  /\ c \in Seq(Seq(Node)) /\ Len(c) \in Nat
               /\ \A i \in 1..Len(c) : c[i] # <<>>
               /\ \A i, j \in 1..Len(c) : c[i][1] = c[j][1] => i = j
               /\ Solo(m) # {} =>
                     /\ \A i \in 1..Len(c) : Len(c[i]) = 1
                     /\ Solo(m) = {c[i][1] : i \in 1..Len(c)}
                     /\ Len(c) > 0 /\ Cardinality(Solo(m)) \in Nat \ {0}
                     /\ Rank(FasterPairs, Solo(m), c[1][1]) = counter % Cardinality(Solo(m))
<1> DEFINE c == BuildCandidates(m)
<1>1. CASE Solo(m) = {}
  <2>1. Sorted(online, Larger) \in Seq(Node)
    <3>1. /\ Lists(Sorted(online, Larger), LargerPairs, online)
          /\ IsFiniteSet(online) /\ Orders(LargerPairs, online)
      BY SortedLists, BothOrder
    <3>2. Sorted(online, Larger) \in Seq(online)
      BY <3>1, ListsOnce
    <3>3. QED
      BY <3>2
  <2>2. PICK plan \in Seq(Node) : plan = GreedyNodes(Sorted(online, Larger), Vram, m)
    BY <2>1, GreedyNodesType
  <2>3. c = IF plan = <<>> THEN <<>> ELSE <<plan>>
    BY <1>1, <2>2 DEF BuildCandidates, MultiNodePlan
  <2>4. QED
    BY <1>1, <2>3
<1>2. CASE Solo(m) # {}
  <2> DEFINE S == Solo(m)
             k == Cardinality(S)
             s == Sorted(S, Faster)
             d == counter % k
             t == RotateLeft(s, d)
             to(i) == IF i + d <= k THEN i + d ELSE i + d - k
             from(j) == IF j > d THEN j - d ELSE j - d + k
  <2>1. S \in SUBSET Node
    BY DEF Solo
  <2>2. /\ IsFiniteSet(S) /\ Orders(FasterPairs, S) /\ Lists(s, FasterPairs, S)
        /\ k \in Nat \ {0}
    BY <1>2, <2>1, SortedLists, FS_CardinalityType, FS_EmptySet
  <2>3. d \in 0..k - 1
    BY <2>2, ModIs
  <2>4. s \in [1..k -> S] /\ \A i \in 1..k : Rank(FasterPairs, S, s[i]) = i - 1
    BY <2>2 DEF Lists
  <2>5. /\ \A i, j \in 1..k : s[i] = s[j] => i = j
        /\ \A n \in S : \E j \in 1..k : s[j] = n
    BY <2>2, ListsOnce
  <2>6. c = [i \in DOMAIN t |-> <<t[i]>>]
    BY <1>2 DEF BuildCandidates, SoloPlans
  <2> HIDE DEF S, k, s, d
  <2>7. /\ t \in [1..k -> S]
        /\ \A i \in 1..k : to(i) \in 1..k /\ t[i] = s[to(i)]
        /\ \A j \in 1..k : from(j) \in 1..k /\ to(from(j)) = j
        /\ \A i, j \in 1..k : to(i) = to(j) => i = j
    BY <2>2, <2>3, <2>4, RotateReorders
  <2> HIDE DEF t, c
  <2>8. c = [i \in 1..k |-> <<t[i]>>]
    BY <2>6, <2>7
  <2>9. c \in Seq(Seq(Node)) /\ Len(c) = k
    <3>1. \A i \in 1..k : <<t[i]>> \in Seq(Node)
      BY <2>1, <2>7 DEF S
    <3>2. QED
      BY <2>2, <2>8, <3>1
  <2>10. \A i \in 1..k : c[i] # <<>> /\ Len(c[i]) = 1 /\ c[i][1] = t[i]
    BY <2>8
  <2>11. \A i, j \in 1..k : t[i] = t[j] => i = j
    BY <2>5, <2>7
  <2>12. S = {t[i] : i \in 1..k}
    <3>1. ASSUME NEW n \in S PROVE \E i \in 1..k : t[i] = n
      <4>1. PICK j \in 1..k : s[j] = n
        BY <2>5
      <4>2. from(j) \in 1..k /\ t[from(j)] = s[to(from(j))] /\ to(from(j)) = j
        BY <2>7
      <4>3. QED
        BY <4>1, <4>2
    <3>2. QED
      BY <2>7, <3>1
  <2>13. Rank(FasterPairs, S, t[1]) = d
    <3>1. to(1) = d + 1 /\ 1 \in 1..k
      BY <2>2, <2>3
    <3>2. QED
      BY <2>3, <2>4, <2>7, <3>1
  <2>14. /\ \A i, j \in 1..k : c[i][1] = c[j][1] => i = j
         /\ S = {c[i][1] : i \in 1..k} /\ Rank(FasterPairs, S, c[1][1]) = d
    BY <2>2, <2>10, <2>11, <2>12, <2>13
  <2>15. QED
    BY <2>2, <2>9, <2>10, <2>14 DEF S, k, d, c
<1>3. QED
  BY <1>1, <1>2

-----------------------------------------------------------------------------
\* The controllers of the candidates that are left.
Controllers(r) == {plans[r][i][1] : i \in DOMAIN plans[r]}

\* What is known of a request by where its handler is.
Course(r) ==
    /\ \A i \in DOMAIN plans[r] : plans[r][i] # <<>>
    /\ \A i, j \in DOMAIN plans[r] : plans[r][i][1] = plans[r][j][1] => i = j
    /\ phase[r] = "idle" => plans[r] = <<>> /\ r \notin stream /\ able[r] = {}
    /\ phase[r] \in {"idle", "trying", "fallback", "opening"} => answered[r] = {}
    /\ phase[r] \in {"idle", "fallback"} \/ r \in stream => refused[r] = <<>>
    /\ phase[r] = "opening" => Len(plans[r]) <= 1
    /\ phase[r] \in {"opening", "streaming"} => r \in stream
    /\ phase[r] \in {"trying", "fallback"} => r \notin stream
    /\ phase[r] = "fallback" => able[r] = {}
    /\ phase[r] = "trying" =>
          /\ plans[r] # <<>>
          /\ Controllers(r) \cap Range(refused[r]) = {}
          /\ able[r] # {} => able[r] = Controllers(r) \cup Range(refused[r])

\* A record of usage is the last that is written of a request, and a request that
\* passed through its writing is done only with one.
PaidSoFar ==
    \A r \in Request : /\ usage[r] <= 1
                       /\ phase[r] \notin {"done", "unlogged"} => usage[r] = 0
                       /\ Database /\ phase[r] = "done" => usage[r] = 1

Counted == counter <= Earlier + Cardinality({r \in Request : phase[r] # "idle"})

\* The places that a walk round passes from one place to another.
Passed(from, to, j) == IF from <= to THEN from <= j /\ j < to ELSE from <= j \/ j < to

\* The first tries went round: some whole rounds, and a part of one up to the place
\* where the counter is.
GoneRound(m) ==
    LET k == Cardinality(Solo(m))
    IN  Solo(m) = {} \/
        \E rounds \in Nat, from \in 0..k - 1 :
            \A n \in Solo(m) :
                firsts[n] = rounds + IF Passed(from, counter % k, Rank(FasterPairs, Solo(m), n))
                                     THEN 1 ELSE 0

Rotation ==
    LET solo == {r \in Request : able[r] # {}}
    IN  \/ \A n \in Node : firsts[n] = 0
        \/ solo # {} /\ \A m : (\A r \in solo : asked[r] = {m}) => GoneRound(m)

Types ==
    /\ online \subseteq Node
    /\ p50 \in [Node -> P50 \cup {NoStats}]
    /\ counter \in Nat
    /\ phase \in [Request -> Phases]
    /\ stream \subseteq Request
    /\ plans \in [Request -> Seq(Seq(Node))] /\ refused \in [Request -> Seq(Node)]
    /\ answered \in [Request -> {{}} \cup {{n} : n \in Node}]
    /\ usage \in [Request -> Nat]
    /\ changes \in 0..MaxChanges
    /\ asked \in [Request -> {{}} \cup {{SpecOf(name)} : name \in Model}]
    /\ able \in [Request -> SUBSET Node]
    /\ firsts \in [Node -> Nat]

\* AbleNodesOnce, of one request.
AbleOnce(r) ==
    /\ IsInjective(refused[r]) /\ answered[r] \cap Range(refused[r]) = {}
    /\ able[r] # {} =>
          /\ answered[r] \cup Range(refused[r]) \subseteq able[r]
          /\ \A i \in DOMAIN plans[r] : Len(plans[r][i]) = 1 /\ plans[r][i][1] \in able[r]
    /\ phase[r] = "failed" /\ r \notin stream => able[r] \subseteq Range(refused[r])

Journey(r) == Course(r) /\ AbleOnce(r)

Inv ==
    /\ Types
    /\ \A r \in Request : Journey(r)
    /\ PaidSoFar /\ Counted /\ Rotation

LEMMA Initially == Init => Inv
<1> SUFFICES ASSUME Init PROVE Inv
  OBVIOUS
<1> USE DEF Init
<1>1. Types
  <2>1. P50 \cup {NoStats} \subseteq Nat /\ p50 \in [Node -> P50 \cup {NoStats}]
    BY LatencyAssumption
  <2>2. <<>> \in Seq(Node) /\ <<>> \in Seq(Seq(Node))
    OBVIOUS
  <2>3. counter \in Nat /\ changes \in 0..MaxChanges
    BY BoundAssumption
  <2>4. QED
    BY <2>1, <2>2, <2>3 DEF Types, Phases, Over
<1>2. ASSUME NEW r \in Request PROVE Journey(r)
  BY DEF Journey, Course, AbleOnce, Controllers, Range, IsInjective
<1>3. PaidSoFar
  BY DEF PaidSoFar
<1>4. Counted
  <2>1. {r \in Request : phase[r] # "idle"} = {}
    OBVIOUS
  <2>2. Cardinality({}) = 0
    BY FS_EmptySet
  <2>3. counter <= Earlier + 0
    BY BoundAssumption
  <2>4. QED
    BY <2>1, <2>2, <2>3 DEF Counted
<1>5. Rotation
  BY DEF Rotation
<1>6. QED
  BY <1>1, <1>2, <1>3, <1>4, <1>5 DEF Inv

-----------------------------------------------------------------------------
\* A step that leaves what is known of a request alone leaves its journey alone.
LEMMA Others ==
    ASSUME NEW q \in Request, Journey(q),
           plans'[q] = plans[q], phase'[q] = phase[q], answered'[q] = answered[q],
           able'[q] = able[q], refused'[q] = refused[q], q \in stream' <=> q \in stream
    PROVE  Journey(q)'
<1>1. Course(q)'
  BY DEF Journey, Course, Controllers
<1>2. AbleOnce(q)'
  BY DEF Journey, AbleOnce
<1>3. QED
  BY <1>1, <1>2 DEF Journey

LEMMA ArriveKeeps ==
    ASSUME Inv, NEW r \in Request, NEW name \in Model, NEW streaming \in BOOLEAN,
           Arrive(r, name, streaming)
    PROVE  Types' /\ \A q \in Request : Journey(q)'
<1> DEFINE m == SpecOf(name)
           c == BuildCandidates(m)
           kept == IF streaming /\ c # <<>> THEN <<Head(c)>> ELSE c
           where == IF streaming THEN "opening" ELSE IF c = <<>> THEN "fallback" ELSE "trying"
<1>1. /\ phase[r] = "idle"
      /\ asked' = [asked EXCEPT ![r] = {m}]
      /\ plans' = [plans EXCEPT ![r] = kept]
      /\ phase' = [phase EXCEPT ![r] = where]
      /\ able' = [able EXCEPT ![r] = Solo(m)]
      /\ Solo(m) = {} => UNCHANGED <<counter, firsts>>
      /\ Solo(m) # {} => /\ counter' = counter + 1
                         /\ firsts' = [firsts EXCEPT ![c[1][1]] = @ + 1]
      /\ stream' = IF streaming THEN stream \cup {r} ELSE stream
      /\ UNCHANGED <<registry, answered, usage, refused>>
  BY DEF Arrive, Solo
<1>2. /\ c \in Seq(Seq(Node)) /\ Len(c) \in Nat
      /\ \A i \in 1..Len(c) : c[i] # <<>>
      /\ \A i, j \in 1..Len(c) : c[i][1] = c[j][1] => i = j
      /\ Solo(m) # {} =>
            /\ \A i \in 1..Len(c) : Len(c[i]) = 1
            /\ Solo(m) = {c[i][1] : i \in 1..Len(c)}
            /\ Len(c) > 0
  BY CandidatesAre DEF Inv, Types, Phases, Over
<1> HIDE DEF c
<1>3. Types
  BY DEF Inv
<1>4. Solo(m) \subseteq Node
  BY <1>3 DEF Solo, Types
<1>5. /\ kept \in Seq(Seq(Node)) /\ DOMAIN kept \subseteq 1..Len(c)
      /\ \A i \in DOMAIN kept : kept[i] = c[i]
      /\ streaming => Len(kept) <= 1
      /\ ~streaming => kept = c
      /\ DOMAIN c = 1..Len(c)
  BY <1>2
<1>6. Types'
  <2>1. firsts' \in [Node -> Nat] /\ counter' \in Nat
    <3>1. Solo(m) # {} => c[1][1] \in Node
      BY <1>2, <1>4
    <3>2. QED
      BY <1>1, <1>3, <3>1 DEF Types, Phases, Over
  <2>2. plans' \in [Request -> Seq(Seq(Node))]
    BY <1>1, <1>3, <1>5 DEF Types
  <2>3. able' \in [Request -> SUBSET Node] /\ asked' \in [Request -> {{}} \cup {{SpecOf(x)} : x \in Model}]
    BY <1>1, <1>3, <1>4 DEF Types
  <2>4. QED
    BY <1>1, <1>3, <2>1, <2>2, <2>3 DEF Types, Phases, Over, registry
<1>7. Journey(r)'
  <2>1. /\ plans'[r] = kept /\ phase'[r] = where /\ able'[r] = Solo(m)
        /\ answered'[r] = {} /\ refused'[r] = <<>>
        /\ r \in stream' <=> streaming
    BY <1>1, <1>3 DEF Inv, Journey, Course, Types
  <2>2. Controllers(r)' = {kept[i][1] : i \in DOMAIN kept}
    BY <2>1 DEF Controllers
  <2>3. Range(<<>>) = {} /\ IsInjective(<<>>)
    BY DEF Range, IsInjective
  <2>4. Course(r)'
    <3>1. where = "trying" => kept = c /\ kept # <<>> /\ ~streaming
      BY <1>5
    <3>2. where = "trying" /\ Solo(m) # {} => Solo(m) = Controllers(r)'
      BY <1>2, <1>5, <2>2, <3>1
    <3>3. where = "fallback" => Solo(m) = {}
      BY <1>2, <1>5
    <3> HIDE DEF kept
    <3>4. QED
      BY <1>2, <1>5, <2>1, <2>2, <2>3, <3>1, <3>2, <3>3 DEF Course
  <2>5. AbleOnce(r)'
    <3>1. Solo(m) # {} => \A i \in DOMAIN kept : Len(kept[i]) = 1 /\ kept[i][1] \in Solo(m)
      BY <1>2, <1>5
    <3> HIDE DEF kept
    <3>2. QED
      BY <2>1, <2>3, <3>1 DEF AbleOnce
  <2>6. QED
    BY <2>4, <2>5 DEF Journey
<1>8. ASSUME NEW q \in Request, q # r PROVE Journey(q)'
  BY <1>1, <1>3, <1>8, Others DEF Inv, Types
<1>9. QED
  BY <1>6, <1>7, <1>8

\* A step of one request that leaves the candidates and the counter alone.
LEMMA OthersKept ==
    ASSUME Inv, NEW r \in Request, UNCHANGED <<registry, counter, stream, asked, able, firsts>>,
           phase' \in [Request -> Phases],
           plans' \in [Request -> Seq(Seq(Node))], refused' \in [Request -> Seq(Node)],
           answered' \in [Request -> {{}} \cup {{n} : n \in Node}], usage' \in [Request -> Nat],
           \A q \in Request \ {r} : /\ plans'[q] = plans[q] /\ phase'[q] = phase[q]
                                    /\ answered'[q] = answered[q] /\ refused'[q] = refused[q],
           Journey(r)'
    PROVE  Types' /\ \A q \in Request : Journey(q)'
<1>1. Types'
  BY DEF Inv, Types, registry
<1>2. ASSUME NEW q \in Request, q # r PROVE Journey(q)'
  BY <1>2, Others DEF Inv
<1>3. QED
  BY <1>1, <1>2

LEMMA SucceedKeeps ==
    ASSUME Inv, NEW r \in Request, Succeed(r)
    PROVE  Types' /\ \A q \in Request : Journey(q)'
<1>1. Types /\ Journey(r) /\ phase[r] = "trying"
  BY DEF Inv, Succeed
<1> DEFINE n == Head(plans[r])[1]
<1>2. plans[r] \in Seq(Seq(Node)) /\ plans[r] # <<>> /\ plans[r][1] # <<>>
  BY <1>1 DEF Types, Journey, Course
<1>3. 1 \in DOMAIN plans[r] /\ n = plans[r][1][1] /\ n \in Node
  <2>1. Head(plans[r]) = plans[r][1] /\ plans[r][1] \in Seq(Node) /\ 1 \in DOMAIN plans[r]
    BY <1>2
  <2>2. QED
    BY <1>2, <2>1
<1>4. /\ answered'[r] = {n} /\ phase'[r] \in {"recording", "done"}
      /\ UNCHANGED <<registry, counter, plans, stream, asked, usage, able, refused, firsts>>
  BY <1>1 DEF Succeed, Types, ghosts
<1>5. n \in Controllers(r)
  BY <1>3 DEF Controllers
<1> HIDE DEF n
<1>6. Journey(r)'
  <2>1. Course(r)'
    BY <1>1, <1>4 DEF Journey, Course
  <2>2. AbleOnce(r)'
    <3>1. n \notin Range(refused[r]) /\ (able[r] # {} => n \in able[r])
      BY <1>1, <1>5 DEF Journey, Course
    <3>2. QED
      BY <1>1, <1>4, <3>1 DEF Journey, AbleOnce
  <2>3. QED
    BY <2>1, <2>2 DEF Journey
<1>7. /\ phase' \in [Request -> Phases]
      /\ answered' \in [Request -> {{}} \cup {{k} : k \in Node}]
  BY <1>1, <1>3 DEF Types, Phases, Over, Succeed, n
<1>8. \A q \in Request \ {r} : phase'[q] = phase[q] /\ answered'[q] = answered[q]
  BY <1>1 DEF Types, Succeed
<1>9. QED
  BY <1>1, <1>4, <1>6, <1>7, <1>8, OthersKept DEF Types

LEMMA AppendOnce ==
    ASSUME NEW S, NEW s \in Seq(S), NEW x \in S, IsInjective(s), x \notin Range(s)
    PROVE  Range(Append(s, x)) = Range(s) \cup {x} /\ IsInjective(Append(s, x))
<1>1. PICK z \in Nat : z = Len(s) /\ DOMAIN s = 1..z
  OBVIOUS
<1>2. /\ DOMAIN Append(s, x) = 1..z + 1
      /\ \A i \in 1..z : Append(s, x)[i] = s[i]
      /\ Append(s, x)[z + 1] = x
  BY <1>1
<1>3. PICK t : t = Append(s, x)
  OBVIOUS
<1>4. \A i \in 1..z + 1 : i \in 1..z \/ i = z + 1
  OBVIOUS
<1>5. 1..z \subseteq 1..z + 1 /\ z + 1 \in 1..z + 1
  OBVIOUS
<1>6. Range(t) = Range(s) \cup {x}
  BY <1>1, <1>2, <1>3, <1>4, <1>5 DEF Range
<1>7. IsInjective(t)
  BY <1>1, <1>2, <1>3, <1>4 DEF Range, IsInjective
<1>8. QED
  BY <1>3, <1>6, <1>7

LEMMA FailKeeps ==
    ASSUME Inv, NEW r \in Request, Fail(r)
    PROVE  Types' /\ \A q \in Request : Journey(q)'
<1>1. Types /\ Journey(r) /\ phase[r] = "trying"
  BY DEF Inv, Fail
<1> DEFINE n == Head(plans[r])[1]
           where == IF Len(plans[r]) = 1 THEN "failed" ELSE "trying"
<1>2. /\ refused' = [refused EXCEPT ![r] = Append(@, n)]
      /\ plans' = [plans EXCEPT ![r] = Tail(@)]
      /\ phase' = [phase EXCEPT ![r] = where]
      /\ UNCHANGED <<registry, counter, stream, answered, asked, usage, able, firsts>>
  BY DEF Fail
<1>3. /\ plans[r] \in Seq(Seq(Node)) /\ plans[r] # <<>> /\ plans[r][1] # <<>>
      /\ refused[r] \in Seq(Node)
  BY <1>1 DEF Types, Journey, Course
<1>4. PICK len \in Nat \ {0} : len = Len(plans[r]) /\ DOMAIN plans[r] = 1..len
  BY <1>3
<1>5. n = plans[r][1][1] /\ n \in Node
  <2>1. Head(plans[r]) = plans[r][1] /\ plans[r][1] \in Seq(Node)
    BY <1>3
  <2>2. QED
    BY <1>3, <2>1
<1> HIDE DEF n
<1>6. PICK t \in Seq(Seq(Node)) :
         /\ t = Tail(plans[r]) /\ DOMAIN t = 1..len - 1
         /\ \A i \in 1..len - 1 : i + 1 \in 1..len /\ t[i] = plans[r][i + 1]
         /\ len > 1 => t # <<>>
  <2>1. PICK p \in Seq(Seq(Node)) : p = plans[r] /\ p # <<>> /\ Len(p) = len
    BY <1>3, <1>4
  <2>2. Tail(p) \in Seq(Seq(Node)) /\ Len(Tail(p)) = len - 1
    BY <2>1
  <2>3. DOMAIN Tail(p) = 1..len - 1
    BY <2>2
  <2>4. \A i \in 1..len - 1 : i + 1 \in 1..len /\ Tail(p)[i] = p[i + 1]
    BY <2>1
  <2>5. PICK u \in Seq(Seq(Node)) : u = Tail(p) /\ DOMAIN u = 1..len - 1
    BY <2>2, <2>3
  <2>6. len > 1 => u # <<>>
    <3>1. len > 1 => 1 \in DOMAIN u
      BY <2>5
    <3>2. QED
      BY <3>1
  <2>7. QED
    BY <2>1, <2>4, <2>5, <2>6
<1>7. /\ plans'[r] = t /\ refused'[r] = Append(refused[r], n)
      /\ phase'[r] = where /\ answered'[r] = {} /\ able'[r] = able[r]
      /\ Append(refused[r], n) \in Seq(Node)
  BY <1>1, <1>2, <1>3, <1>5, <1>6 DEF Types, Phases, Over, Journey, Course
<1>8. Controllers(r)' = Controllers(r) \ {n}
  <2>1. Controllers(r)' = {t[i][1] : i \in 1..len - 1}
    BY <1>6, <1>7 DEF Controllers
  <2>2. Controllers(r) = {plans[r][i][1] : i \in 1..len}
    BY <1>4 DEF Controllers
  <2>3. \A i \in 1..len : i = 1 <=> plans[r][i][1] = n
    BY <1>1, <1>4, <1>5 DEF Journey, Course
  <2>4. \A i \in 1..len : i # 1 => i - 1 \in 1..len - 1 /\ t[i - 1] = plans[r][i]
    <3>1. ASSUME NEW i \in 1..len, i # 1 PROVE i - 1 \in 1..len - 1 /\ t[i - 1] = plans[r][i]
      <4>1. PICK j \in 1..len - 1 : j = i - 1 /\ j + 1 = i
        BY <3>1
      <4>2. QED
        BY <1>6, <4>1
    <3>2. QED
      BY <3>1
  <2>5. \A i \in 1..len - 1 : t[i] = plans[r][i + 1] /\ i + 1 \in 1..len /\ i + 1 # 1
    BY <1>6
  <2>6. ASSUME NEW x \in Controllers(r)' PROVE x \in Controllers(r) /\ x # n
    <3>1. PICK i \in 1..len - 1 : x = t[i][1]
      BY <2>1
    <3>2. PICK j \in 1..len : j # 1 /\ x = plans[r][j][1]
      BY <2>5, <3>1
    <3>3. QED
      BY <2>2, <2>3, <3>2
  <2>7. ASSUME NEW x \in Controllers(r), x # n PROVE x \in Controllers(r)'
    <3>1. PICK i \in 1..len : x = plans[r][i][1]
      BY <2>2
    <3>2. i # 1
      BY <2>3, <2>7, <3>1
    <3>3. QED
      BY <2>1, <2>4, <3>1, <3>2
  <2>8. QED
    BY <2>6, <2>7
<1>9. n \in Controllers(r) /\ n \notin Range(refused[r])
  BY <1>1, <1>4, <1>5 DEF Controllers, Journey, Course
<1>10. Range(refused[r])' = Range(refused[r]) \cup {n} /\ IsInjective(refused'[r])
  <2>1. IsInjective(refused[r])
    BY <1>1 DEF Journey, AbleOnce
  <2>2. /\ Range(Append(refused[r], n)) = Range(refused[r]) \cup {n}
        /\ IsInjective(Append(refused[r], n))
    BY <1>3, <1>5, <1>9, <2>1, AppendOnce
  <2>3. QED
    BY <1>7, <2>2
<1>11. Journey(r)'
  <2>1. Course(r)'
    <3>1. \A i, j \in 1..len - 1 : t[i][1] = t[j][1] => i = j
      <4>1. \A i, j \in 1..len : plans[r][i][1] = plans[r][j][1] => i = j
        BY <1>1, <1>4 DEF Journey, Course
      <4>2. \A i, j \in 1..len - 1 : i + 1 = j + 1 => i = j
        OBVIOUS
      <4>3. QED
        BY <1>6, <4>1, <4>2
    <3>2. \A i \in 1..len - 1 : t[i] # <<>>
      BY <1>1, <1>4, <1>6 DEF Journey, Course
    <3>3. where = "trying" => t # <<>>
      <4>1. len # 1 => len > 1
        OBVIOUS
      <4>2. QED
        BY <1>4, <1>6, <4>1
    <3>4. Controllers(r)' \cap Range(refused[r])' = {}
      BY <1>1, <1>8, <1>10 DEF Journey, Course
    <3>5. able[r] # {} => able[r] = Controllers(r)' \cup Range(refused[r])'
      BY <1>1, <1>8, <1>9, <1>10 DEF Journey, Course
    <3>6. r \notin stream'
      BY <1>1, <1>2 DEF Journey, Course
    <3>7. /\ \A i \in DOMAIN plans'[r] : plans'[r][i] # <<>>
          /\ \A i, j \in DOMAIN plans'[r] : plans'[r][i][1] = plans'[r][j][1] => i = j
      BY <1>6, <1>7, <3>1, <3>2
    <3>8. QED
      BY <1>7, <3>3, <3>4, <3>5, <3>6, <3>7 DEF Course
  <2>2. AbleOnce(r)'
    <3>1. able[r] # {} =>
             /\ Range(refused[r])' \subseteq able[r]
             /\ \A i \in 1..len - 1 : Len(t[i]) = 1 /\ t[i][1] \in able[r]
      <4>1. ASSUME able[r] # {}
            PROVE  /\ Range(refused[r]) \subseteq able[r] /\ n \in able[r]
                   /\ \A i \in 1..len : Len(plans[r][i]) = 1 /\ plans[r][i][1] \in able[r]
        BY <1>1, <1>4, <1>9, <4>1 DEF Journey, Course, AbleOnce
      <4>2. QED
        BY <1>6, <1>10, <4>1
    <3>2. \A i \in DOMAIN plans'[r] : i \in 1..len - 1 /\ plans'[r][i] = t[i]
      BY <1>6, <1>7
    <3>3. where = "failed" => able[r] \subseteq Range(refused[r])'
      <4>1. ASSUME where = "failed", able[r] # {} PROVE able[r] \subseteq Range(refused[r])'
        <5>1. len = 1
          BY <1>4, <4>1
        <5>2. Controllers(r) = {n}
          BY <1>4, <1>5, <5>1 DEF Controllers
        <5>3. QED
          BY <1>1, <1>10, <4>1, <5>2 DEF Journey, Course
      <4>2. QED
        BY <4>1
    <3>4. QED
      BY <1>7, <1>10, <3>1, <3>2, <3>3 DEF AbleOnce
  <2>3. QED
    BY <2>1, <2>2 DEF Journey
<1>12. /\ phase' \in [Request -> Phases]
       /\ plans' \in [Request -> Seq(Seq(Node))] /\ refused' \in [Request -> Seq(Node)]
  <2>1. plans' = [plans EXCEPT ![r] = t] /\ t \in Seq(Seq(Node))
    BY <1>2, <1>6
  <2>2. refused' = [refused EXCEPT ![r] = Append(refused[r], n)]
    BY <1>2
  <2>3. plans' \in [Request -> Seq(Seq(Node))] /\ refused' \in [Request -> Seq(Node)]
    BY <1>1, <1>7, <2>1, <2>2 DEF Types
  <2>4. QED
    BY <1>1, <1>2, <2>3 DEF Types, Phases, Over
<1>13. \A q \in Request \ {r} :
          plans'[q] = plans[q] /\ phase'[q] = phase[q] /\ refused'[q] = refused[q]
  BY <1>1, <1>2 DEF Types
<1>14. QED
  BY <1>1, <1>2, <1>11, <1>12, <1>13, OthersKept DEF Types

\* The steps that end a request, or bring it to its record, without a candidate.
LEMMA PhaseKeeps ==
    ASSUME Inv, NEW r \in Request, NEW where,
           phase' = [phase EXCEPT ![r] = where],
           UNCHANGED <<registry, counter, plans, stream, answered, asked, able, refused, firsts>>,
           usage' \in [Request -> Nat],
           where \in {"recording", "done", "unlogged", "failed", "dropped", "cut"},
           where = "failed" => phase[r] \in {"fallback", "opening"}
    PROVE  Types' /\ \A q \in Request : Journey(q)'
<1>1. Types /\ Journey(r)
  BY DEF Inv
<1>2. phase'[r] = where /\ \A q \in Request \ {r} : phase'[q] = phase[q]
  BY <1>1 DEF Types
<1>3. Journey(r)'
  <2>1. Course(r)'
    BY <1>1, <1>2 DEF Journey, Course
  <2>2. AbleOnce(r)'
    BY <1>1, <1>2 DEF Journey, Course, AbleOnce
  <2>3. QED
    BY <2>1, <2>2 DEF Journey
<1>4. phase' \in [Request -> Phases]
  BY <1>1 DEF Types, Phases, Over
<1>5. QED
  BY <1>1, <1>2, <1>3, <1>4, OthersKept DEF Types

LEMMA OpenKeeps ==
    ASSUME Inv, NEW r \in Request, Open(r)
    PROVE  Types' /\ \A q \in Request : Journey(q)'
<1>1. Types /\ Journey(r) /\ phase[r] = "opening"
  BY DEF Inv, Open
<1> DEFINE A == {p[1] : p \in Range(plans[r])}
<1>2. /\ phase' = [phase EXCEPT ![r] = "streaming"]
      /\ answered' = [answered EXCEPT ![r] = A]
      /\ UNCHANGED <<registry, counter, plans, stream, asked, usage, able, refused, firsts>>
  BY DEF Open, ghosts
<1>3. A = Controllers(r)
  BY DEF Range, Controllers
<1>4. A \in {{}} \cup {{n} : n \in Node}
  <2>1. PICK p \in Seq(Seq(Node)) : p = plans[r] /\ \A i \in DOMAIN p : p[i] # <<>>
    BY <1>1 DEF Types, Journey, Course
  <2>2. PICK len \in Nat : len = Len(p) /\ DOMAIN p = 1..len /\ len <= 1
    BY <1>1, <2>1 DEF Journey, Course
  <2>3. A = {p[i][1] : i \in 1..len}
    BY <1>3, <2>1, <2>2 DEF Controllers
  <2> HIDE DEF A
  <2>4. CASE len = 0
    <3>1. 1..len = {}
      BY <2>4
    <3>2. QED
      BY <2>3, <3>1
  <2>5. CASE len = 1
    <3>1. 1..len = {1} /\ 1 \in DOMAIN p
      BY <2>2, <2>5
    <3>2. p[1] \in Seq(Node) /\ p[1] # <<>>
      BY <2>1, <3>1
    <3>3. p[1][1] \in Node
      BY <3>2
    <3>4. A = {p[1][1]}
      BY <2>3, <3>1
    <3>5. QED
      BY <3>3, <3>4
  <2>6. QED
    BY <2>2, <2>4, <2>5
<1>5. phase'[r] = "streaming" /\ answered'[r] = A /\ refused'[r] = <<>>
  BY <1>1, <1>2 DEF Types, Journey, Course
<1> HIDE DEF A
<1>6. Journey(r)'
  <2>1. Course(r)'
    BY <1>1, <1>2, <1>5 DEF Journey, Course
  <2>2. Range(<<>>) = {}
    BY DEF Range
  <2>3. able[r] # {} => A \subseteq able[r]
    BY <1>1, <1>3 DEF Journey, AbleOnce, Controllers
  <2>4. AbleOnce(r)'
    BY <1>1, <1>2, <1>5, <2>2, <2>3 DEF Journey, AbleOnce
  <2>5. QED
    BY <2>1, <2>4 DEF Journey
<1>7. /\ phase' \in [Request -> Phases]
      /\ answered' \in [Request -> {{}} \cup {{n} : n \in Node}]
  BY <1>1, <1>2, <1>4 DEF Types, Phases, Over
<1>8. \A q \in Request \ {r} : phase'[q] = phase[q] /\ answered'[q] = answered[q]
  BY <1>1, <1>2 DEF Types
<1>9. QED
  BY <1>1, <1>2, <1>6, <1>7, <1>8, OthersKept DEF Types

LEMMA RegistryChangeKeeps ==
    ASSUME Inv, NEW n \in Node, RegistryChange(n)
    PROVE  Types' /\ \A q \in Request : Journey(q)'
<1>1. Types
  BY DEF Inv
<1>2. online' \subseteq Node /\ p50' \in [Node -> P50 \cup {NoStats}]
  BY <1>1 DEF RegistryChange, Types
<1>3. changes' \in 0..MaxChanges
  BY <1>1, BoundAssumption DEF RegistryChange, Types
<1>4. firsts' \in [Node -> Nat] /\ UNCHANGED <<counter, handler, usage, able, refused>>
  BY DEF RegistryChange
<1>5. Types'
  BY <1>1, <1>2, <1>3, <1>4 DEF Types, handler
<1>6. \A q \in Request : Journey(q)'
  BY <1>4, Others DEF Inv, handler
<1>7. QED
  BY <1>5, <1>6

LEMMA JourneysKept ==
    ASSUME Inv, [Next]_vars
    PROVE  Types' /\ \A q \in Request : Journey(q)'
<1>1. ASSUME NEW r \in Request, NEW success \in BOOLEAN, Fallback(r, success)
      PROVE  Types' /\ \A q \in Request : Journey(q)'
  <2>1. PICK where \in {"recording", "done", "failed"} : phase' = [phase EXCEPT ![r] = where]
    BY <1>1 DEF Fallback
  <2>2. QED
    BY <1>1, <2>1, PhaseKeeps DEF Fallback, ghosts, Inv, Types
<1>2. ASSUME NEW r \in Request, OpenFails(r) PROVE Types' /\ \A q \in Request : Journey(q)'
  BY <1>2, PhaseKeeps DEF OpenFails, ghosts, Inv, Types
<1>3. ASSUME NEW r \in Request, NEW complete \in BOOLEAN, StreamEnds(r, complete)
      PROVE  Types' /\ \A q \in Request : Journey(q)'
  <2>1. PICK where \in {"recording", "done", "cut"} : phase' = [phase EXCEPT ![r] = where]
    BY <1>3 DEF StreamEnds
  <2>2. QED
    BY <1>3, <2>1, PhaseKeeps DEF StreamEnds, ghosts, Inv, Types
<1>4. ASSUME NEW r \in Request, Disconnect(r) PROVE Types' /\ \A q \in Request : Journey(q)'
  BY <1>4, PhaseKeeps DEF Disconnect, ghosts, Inv, Types
<1>5. ASSUME NEW r \in Request, NEW success \in BOOLEAN, RecordUsage(r, success)
      PROVE  Types' /\ \A q \in Request : Journey(q)'
  <2>1. usage' \in [Request -> Nat]
    <3>1. usage \in [Request -> Nat]
      BY DEF Inv, Types
    <3>2. usage' = [usage EXCEPT ![r] = @ + 1] \/ usage' = usage
      BY <1>5 DEF RecordUsage
    <3>3. QED
      BY <3>1, <3>2
  <2>2. QED
    BY <1>5, <2>1, PhaseKeeps DEF RecordUsage, ghosts
<1>6. CASE UNCHANGED vars
  <2>1. Types'
    BY <1>6 DEF vars, registry, handler, ghosts, Inv, Types
  <2>2. \A q \in Request : Journey(q)'
    BY <1>6, Others DEF vars, registry, handler, ghosts, Inv
  <2>3. QED
    BY <2>1, <2>2
<1>7. QED
  BY <1>1, <1>2, <1>3, <1>4, <1>5, <1>6, ArriveKeeps, SucceedKeeps, FailKeeps, OpenKeeps,
     RegistryChangeKeeps DEF Next, Idle

-----------------------------------------------------------------------------
LEMMA PaidSoFarKept ==
    ASSUME Inv, [Next]_vars
    PROVE  PaidSoFar'
<1>1. Types /\ PaidSoFar
  BY DEF Inv
<1>2. ASSUME NEW r \in Request, NEW success \in BOOLEAN, RecordUsage(r, success) PROVE PaidSoFar'
  BY <1>1, <1>2 DEF RecordUsage, Types, PaidSoFar
\* Without a record being written nobody comes to the end of its writing.
<1> DEFINE Holds(q) == /\ phase[q] \in {"done", "unlogged"} => phase'[q] = phase[q]
                       /\ Database /\ phase'[q] = "done" => phase[q] = "done"
<1>3. ASSUME UNCHANGED usage, \A q \in Request : Holds(q)
      PROVE  PaidSoFar'
  BY <1>1, <1>3 DEF PaidSoFar
<1>4. CASE UNCHANGED usage
  <2>1. \A q \in Request : Holds(q)
    <3>1. ASSUME NEW r \in Request, NEW name \in Model, NEW streaming \in BOOLEAN,
                 Arrive(r, name, streaming)
          PROVE  \A q \in Request : Holds(q)
      <4>1. PICK where \in {"opening", "fallback", "trying"} :
                phase' = [phase EXCEPT ![r] = where] /\ phase[r] = "idle"
        BY <3>1 DEF Arrive
      <4>2. QED
        BY <1>1, <4>1 DEF Types
    <3>2. ASSUME NEW r \in Request, Succeed(r) \/ Fail(r) \/ Disconnect(r) \/ Open(r) \/ OpenFails(r)
          PROVE  \A q \in Request : Holds(q)
      BY <1>1, <3>2 DEF Succeed, Fail, Disconnect, Open, OpenFails, Types
    <3>3. ASSUME NEW r \in Request, NEW s \in BOOLEAN, Fallback(r, s) \/ StreamEnds(r, s)
          PROVE  \A q \in Request : Holds(q)
      BY <1>1, <3>3 DEF Fallback, StreamEnds, Types
    <3>4. ASSUME NEW r \in Request, NEW s \in BOOLEAN, RecordUsage(r, s)
          PROVE  \A q \in Request : Holds(q)
      <4>1. usage[r] \in Nat /\ usage \in [Request -> Nat]
        BY <1>1 DEF Types
      <4>2. ~s
        BY <1>4, <3>4, <4>1 DEF RecordUsage
      <4>3. QED
        BY <1>1, <3>4, <4>2 DEF RecordUsage, Types
    <3>5. ASSUME UNCHANGED phase PROVE \A q \in Request : Holds(q)
      BY <3>5
    <3>6. QED
      BY <3>1, <3>2, <3>3, <3>4, <3>5 DEF Next, RegistryChange, Idle, vars, handler
  <2>2. QED
    BY <1>3, <1>4, <2>1
<1>5. UNCHANGED usage \/ \E r \in Request, success \in BOOLEAN : RecordUsage(r, success)
  BY DEF Next, Arrive, Succeed, Fail, Disconnect, Open, OpenFails, Fallback, StreamEnds,
         RegistryChange, Idle, vars
<1>6. QED
  BY <1>2, <1>4, <1>5

LEMMA CountedKept ==
    ASSUME Inv, [Next]_vars
    PROVE  Counted'
<1>1. Types /\ Counted /\ IsFiniteSet(Request) /\ Earlier \in Nat
  BY RequestAssumption, BoundAssumption DEF Inv
<1> DEFINE begun == {r \in Request : phase[r] # "idle"}
<1>2. IsFiniteSet(begun) /\ Cardinality(begun) \in Nat
  BY <1>1, FS_Subset, FS_CardinalityType
<1>3. ASSUME NEW r \in Request, NEW name \in Model, NEW streaming \in BOOLEAN,
             Arrive(r, name, streaming)
      PROVE  Counted'
  <2>1. begun' = begun \cup {r} /\ r \notin begun
    BY <1>1, <1>3 DEF Arrive, Types
  <2>2. Cardinality(begun') = Cardinality(begun) + 1
    BY <1>2, <2>1, FS_AddElement
  <2>3. counter' <= counter + 1 /\ counter \in Nat /\ counter' \in Nat
    BY <1>1, <1>3 DEF Arrive, Types
  <2>4. QED
    BY <1>1, <1>2, <2>2, <2>3 DEF Counted
<1>4. ASSUME UNCHANGED counter, \A r \in Request : phase[r] = "idle" <=> phase'[r] = "idle"
      PROVE  Counted'
  <2>1. begun' = begun
    BY <1>4
  <2>2. QED
    BY <1>1, <1>4, <2>1 DEF Counted
<1>5. ASSUME NEW r \in Request, Succeed(r) \/ Fail(r) \/ Disconnect(r) \/ Open(r) \/ OpenFails(r)
      PROVE  Counted'
  BY <1>1, <1>4, <1>5 DEF Succeed, Fail, Disconnect, Open, OpenFails, Types
<1>6. ASSUME NEW r \in Request, NEW s \in BOOLEAN,
             Fallback(r, s) \/ StreamEnds(r, s) \/ RecordUsage(r, s)
      PROVE  Counted'
  BY <1>1, <1>4, <1>6 DEF Fallback, StreamEnds, RecordUsage, Types
<1>7. CASE UNCHANGED <<counter, phase>>
  BY <1>4, <1>7
<1>8. QED
  BY <1>3, <1>5, <1>6, <1>7 DEF Next, RegistryChange, Idle, vars, handler

-----------------------------------------------------------------------------
\* One more place is passed, the last of a round or not.
LEMMA PassedOne ==
    ASSUME NEW k \in Nat \ {0}, NEW from \in 0..k - 1, NEW to \in 0..k - 1, NEW j \in 0..k - 1
    PROVE  LET next == IF to + 1 = k THEN 0 ELSE to + 1
           IN  /\ ~Passed(from, from, j) /\ ~Passed(from, to, to)
               /\ next # from => (Passed(from, next, j) <=> Passed(from, to, j) \/ j = to)
               /\ next = from => Passed(from, to, j) \/ j = to
BY DEF Passed

LEMMA SoloRanks ==
    ASSUME Types, NEW m, Solo(m) # {}
    PROVE  /\ Cardinality(Solo(m)) \in Nat \ {0} /\ Solo(m) \subseteq Node
           /\ counter % Cardinality(Solo(m)) \in 0..Cardinality(Solo(m)) - 1
           /\ \A n \in Solo(m) : Rank(FasterPairs, Solo(m), n) \in 0..Cardinality(Solo(m)) - 1
           /\ \A n, k \in Solo(m) :
                 Rank(FasterPairs, Solo(m), n) = Rank(FasterPairs, Solo(m), k) => n = k
<1>1. PICK S \in SUBSET Node : S = Solo(m)
  BY DEF Solo, Types
<1>2. IsFiniteSet(S) /\ Orders(FasterPairs, S)
  BY SortedLists DEF Types
<1>3. Cardinality(S) \in Nat /\ Cardinality(S) # 0
  BY <1>1, <1>2, FS_CardinalityType, FS_EmptySet
<1>4. counter % Cardinality(S) \in 0..Cardinality(S) - 1
  BY <1>3, ModIs DEF Types
<1>5. QED
  BY <1>1, <1>2, <1>3, <1>4, RankGrows

\* Where nobody was tried first the round begins at the counter.
LEMMA NoneGone ==
    ASSUME Types, NEW m, \A n \in Node : firsts[n] = 0
    PROVE  GoneRound(m)
<1> DEFINE k == Cardinality(Solo(m))
<1> SUFFICES ASSUME Solo(m) # {} PROVE GoneRound(m)
  BY DEF GoneRound
<1>1. k \in Nat \ {0} /\ counter % k \in 0..k - 1
  BY SoloRanks
<1>2. \A n \in Solo(m) : Rank(FasterPairs, Solo(m), n) \in 0..k - 1 /\ firsts[n] = 0
  BY SoloRanks
<1>3. ASSUME NEW n \in Solo(m)
      PROVE  firsts[n] = 0 + IF Passed(counter % k, counter % k, Rank(FasterPairs, Solo(m), n))
                             THEN 1 ELSE 0
  <2> HIDE DEF k
  <2>1. ~Passed(counter % k, counter % k, Rank(FasterPairs, Solo(m), n))
    BY <1>1, <1>2, PassedOne
  <2>2. QED
    BY <1>2, <2>1
<1>4. QED
  BY <1>1, <1>3 DEF GoneRound

\* A first try of the node at the counter goes on with the round.
LEMMA RoundGoesOn ==
    ASSUME Types, Types', NEW m, GoneRound(m), UNCHANGED registry, Solo(m) # {},
           counter' = counter + 1,
           NEW n \in Solo(m), Rank(FasterPairs, Solo(m), n) = counter % Cardinality(Solo(m)),
           firsts' = [firsts EXCEPT ![n] = @ + 1]
    PROVE  GoneRound(m)'
<1> DEFINE rank(x) == Rank(FasterPairs, Solo(m), x)
<1>1. Solo(m)' = Solo(m) /\ FasterPairs' = FasterPairs
  BY DEF registry, Solo, FasterPairs, Faster
<1>2. PICK k \in Nat \ {0} : k = Cardinality(Solo(m))
  BY SoloRanks
<1>3. PICK at \in 0..k - 1 : at = counter % k
  BY <1>2, SoloRanks
<1>4. PICK next \in 0..k - 1 : next = counter' % k /\ next = IF at + 1 = k THEN 0 ELSE at + 1
  <2>1. counter \in Nat
    BY DEF Types
  <2>2. (counter + 1) % k = IF (counter % k) + 1 = k THEN 0 ELSE (counter % k) + 1
    BY <2>1, ModIs
  <2>3. QED
    BY <1>3, <2>2
<1>5. \A x \in Solo(m) : rank(x) \in 0..k - 1 /\ (rank(x) = at <=> x = n)
  BY <1>2, <1>3, SoloRanks
<1>6. PICK rounds \in Nat, from \in 0..k - 1 :
         \A x \in Solo(m) : firsts[x] = rounds + IF Passed(from, at, rank(x)) THEN 1 ELSE 0
  BY <1>2, <1>3 DEF GoneRound
<1> HIDE DEF rank
<1>7. \A x \in Solo(m) : firsts'[x] = IF x = n THEN firsts[x] + 1 ELSE firsts[x]
  BY SoloRanks DEF Types
<1>8. ASSUME NEW more \in Nat, NEW start \in 0..k - 1,
             \A x \in Solo(m) : firsts'[x] = more + IF Passed(start, next, rank(x)) THEN 1 ELSE 0
      PROVE  GoneRound(m)'
  <2>1. \A x \in Solo(m)' :
           firsts'[x] = more + IF Passed(start, counter' % Cardinality(Solo(m)'),
                                         Rank(FasterPairs', Solo(m)', x)) THEN 1 ELSE 0
    BY <1>1, <1>2, <1>4, <1>8 DEF rank
  <2>2. start \in 0..Cardinality(Solo(m)') - 1
    BY <1>1, <1>2
  <2>3. QED
    BY <2>1, <2>2 DEF GoneRound
<1>9. CASE next # from
  <2>1. \A x \in Solo(m) : firsts'[x] = rounds + IF Passed(from, next, rank(x)) THEN 1 ELSE 0
    <3> SUFFICES ASSUME NEW x \in Solo(m)
                 PROVE  firsts'[x] = rounds + IF Passed(from, next, rank(x)) THEN 1 ELSE 0
      OBVIOUS
    <3>1. /\ Passed(from, next, rank(x)) <=> Passed(from, at, rank(x)) \/ rank(x) = at
          /\ ~Passed(from, at, at)
      BY <1>4, <1>5, <1>9, PassedOne
    <3>2. QED
      BY <1>5, <1>6, <1>7, <3>1
  <2>2. QED
    BY <1>8, <2>1
<1>10. CASE next = from
  <2> PICK more \in Nat : more = rounds + 1
    OBVIOUS
  <2>1. \A x \in Solo(m) : firsts'[x] = more + IF Passed(from, next, rank(x)) THEN 1 ELSE 0
    <3> SUFFICES ASSUME NEW x \in Solo(m)
                 PROVE  firsts'[x] = more + IF Passed(from, next, rank(x)) THEN 1 ELSE 0
      OBVIOUS
    <3>1. /\ Passed(from, at, rank(x)) \/ rank(x) = at
          /\ ~Passed(from, at, at) /\ ~Passed(from, next, rank(x))
      BY <1>4, <1>5, <1>10, PassedOne
    <3>2. QED
      BY <1>5, <1>6, <1>7, <3>1
  <2>2. QED
    BY <1>8, <2>1
<1>11. QED
  BY <1>9, <1>10

LEMMA RotationKept ==
    ASSUME Inv, [Next]_vars
    PROVE  Rotation'
<1> DEFINE solo == {r \in Request : able[r] # {}}
<1>1. Types /\ Types' /\ Rotation
  BY JourneysKept DEF Inv
<1>2. ASSUME NEW r \in Request, NEW name \in Model, NEW streaming \in BOOLEAN,
             Arrive(r, name, streaming)
      PROVE  Rotation'
  <2> DEFINE m == SpecOf(name)
  <2>1. /\ able' = [able EXCEPT ![r] = Solo(m)] /\ asked' = [asked EXCEPT ![r] = {m}]
        /\ UNCHANGED registry
    BY <1>2 DEF Arrive, Solo
  <2>2. r \notin solo /\ asked'[r] = {m} /\ able'[r] = Solo(m)
    BY <1>1, <1>2, <2>1 DEF Arrive, Inv, Journey, Course, Types
  <2>3. \A q \in Request \ {r} : able'[q] = able[q] /\ asked'[q] = asked[q]
    BY <1>1, <2>1 DEF Types
  <2>4. CASE Solo(m) = {}
    <3>1. UNCHANGED <<counter, firsts>>
      BY <1>2, <2>4 DEF Arrive
    <3>2. solo' = solo
      BY <2>2, <2>3, <2>4
    <3>3. \A x : GoneRound(x)' <=> GoneRound(x)
      BY <2>1, <3>1 DEF registry, GoneRound, Solo, FasterPairs, Faster
    <3>4. \A q \in solo : asked'[q] = asked[q]
      BY <2>2, <2>3
    <3>5. QED
      BY <1>1, <3>1, <3>2, <3>3, <3>4 DEF Rotation
  <2>5. CASE Solo(m) # {}
    <3>1. solo' = solo \cup {r}
      BY <2>2, <2>3, <2>5
    <3>2. PICK n : n = BuildCandidates(m)[1][1]
      OBVIOUS
    <3>3. counter' = counter + 1 /\ firsts' = [firsts EXCEPT ![n] = @ + 1]
      BY <1>2, <2>5, <3>2 DEF Arrive
    <3>4. n \in Solo(m) /\ Rank(FasterPairs, Solo(m), n) = counter % Cardinality(Solo(m))
      <4> DEFINE c == BuildCandidates(m)
      <4>1. c \in Seq(Seq(Node)) /\ Len(c) \in Nat
        BY <1>1, CandidatesAre DEF Types
      <4>2. /\ Solo(m) = {c[i][1] : i \in 1..Len(c)} /\ Len(c) > 0 /\ Len(c) \in Nat
            /\ Rank(FasterPairs, Solo(m), c[1][1]) = counter % Cardinality(Solo(m))
        BY <1>1, <2>5, CandidatesAre DEF Types
      <4> HIDE DEF c, m
      <4>3. 1 \in 1..Len(c)
        BY <4>2
      <4>4. QED
        BY <3>2, <4>2, <4>3 DEF c
    <3>5. ASSUME NEW x, \A q \in solo' : asked'[q] = {x} PROVE GoneRound(x)'
      <4>1. x = m
        BY <2>2, <3>1, <3>5
      <4>2. GoneRound(m)
        <5>1. \A q \in solo : asked[q] = {m}
          BY <2>2, <2>3, <3>1, <3>5, <4>1
        <5>2. QED
          BY <1>1, <5>1, NoneGone DEF Rotation
      <4>3. QED
        BY <1>1, <2>1, <2>5, <3>3, <3>4, <4>1, <4>2, RoundGoesOn
    <3>6. solo' # {}
      BY <3>1
    <3>7. QED
      BY <3>5, <3>6 DEF Rotation
  <2>6. QED
    BY <2>4, <2>5
<1>3. ASSUME NEW n \in Node, RegistryChange(n) PROVE Rotation'
  <2>1. \A k \in Node : firsts'[k] = 0
    BY <1>3 DEF RegistryChange
  <2>2. QED
    BY <2>1 DEF Rotation
<1>4. CASE UNCHANGED <<registry, counter, asked, able, firsts>>
  <2>1. solo' = solo
    BY <1>4
  <2>2. \A x : GoneRound(x)' <=> GoneRound(x)
    BY <1>4 DEF registry, GoneRound, Solo, FasterPairs, Faster
  <2>3. QED
    BY <1>1, <1>4, <2>1, <2>2 DEF Rotation
<1>5. ASSUME NEW r \in Request,
             \/ Succeed(r) \/ Fail(r) \/ Disconnect(r) \/ Open(r) \/ OpenFails(r)
             \/ \E s \in BOOLEAN : Fallback(r, s) \/ StreamEnds(r, s) \/ RecordUsage(r, s)
      PROVE  Rotation'
  BY <1>4, <1>5 DEF Succeed, Fail, Disconnect, Open, OpenFails, Fallback, StreamEnds, RecordUsage, ghosts
<1>6. CASE UNCHANGED vars
  BY <1>4, <1>6 DEF vars, handler, ghosts
<1>7. QED
  BY <1>2, <1>3, <1>5, <1>6 DEF Next, Idle

-----------------------------------------------------------------------------
LEMMA Invariance == Spec => []Inv
<1>1. Inv /\ [Next]_vars => Inv'
  BY JourneysKept, PaidSoFarKept, CountedKept, RotationKept DEF Inv
<1>2. QED
  BY Initially, <1>1, PTL DEF Spec

\* The state has its type: the counter is bounded by the requests that have arrived
\* (shard_coordinator.rs:40-51).
THEOREM TypeCorrect == Spec => []TypeOK
<1>1. Inv => TypeOK
  <2> SUFFICES ASSUME Inv PROVE TypeOK
    OBVIOUS
  <2> DEFINE begun == {r \in Request : phase[r] # "idle"}
  <2>1. Cardinality(begun) <= Cardinality(Request) /\ Cardinality(begun) \in Nat
    BY RequestAssumption, FS_Subset, FS_CardinalityType
  <2>2. Cardinality(Request) \in Nat /\ Earlier \in Nat
    BY RequestAssumption, BoundAssumption, FS_CardinalityType
  <2>3. counter \in 0..Earlier + Cardinality(Request)
    BY <2>1, <2>2 DEF Inv, Types, Counted
  <2>4. QED
    BY <2>3 DEF Inv, Types, TypeOK
<1>2. QED
  BY <1>1, Invariance, PTL

\* However requests and changes of the registry interleave, failover tries each able
\* node once and no other, and gives up only when all refused
\* (shard_coordinator.rs:57-64, 136-137, 150-170).
THEOREM AbleNodesTriedOnce == Spec => []AbleNodesOnce
<1>1. Inv => AbleNodesOnce
  BY DEF Inv, Journey, AbleOnce, AbleNodesOnce
<1>2. QED
  BY <1>1, Invariance, PTL

\* At most one usage record is written of a request, none of a failure, and exactly one
\* of an answer where there is a database, unless its INSERT is reported to have failed
\* (routes/chat.rs:185-200, 208-224, 304-315).
THEOREM PaidOnce == Spec => []PaidOncePerAnswer
<1>1. Inv => PaidOncePerAnswer
  BY DEF Inv, PaidSoFar, PaidOncePerAnswer
<1>2. QED
  BY <1>1, Invariance, PTL

\* The rotation of first tries is even, for any number of nodes and requests, and
\* from any value of the counter (shard_coordinator.rs:60-61, 96-100).
THEOREM RotationIsEven == Spec => []EvenRotation
<1>1. Inv => EvenRotation
  <2> SUFFICES ASSUME Inv PROVE EvenRotation
    OBVIOUS
  <2> DEFINE solo == {r \in Request : able[r] # {}}
  <2>1. SUFFICES ASSUME NEW m \in UNION {asked[r] : r \in solo},
                        \A r \in solo : asked[r] = {m},
                        NEW a \in Solo(m), NEW b \in Solo(m)
                 PROVE  firsts[a] <= firsts[b] + 1
    BY DEF EvenRotation
  <2>2. CASE \A n \in Node : firsts[n] = 0
    BY <2>2, SoloRanks DEF Inv
  <2>3. CASE GoneRound(m)
    <3>1. PICK rounds \in Nat :
             \A n \in Solo(m) : firsts[n] = rounds \/ firsts[n] = rounds + 1
      BY <2>3 DEF GoneRound
    <3>2. firsts[a] \in rounds..rounds + 1 /\ firsts[b] \in rounds..rounds + 1
      BY <3>1
    <3>3. QED
      BY <3>2
  <2>4. QED
    BY <2>1, <2>2, <2>3 DEF Inv, Rotation
<1>2. QED
  BY <1>1, Invariance, PTL
=============================================================================
