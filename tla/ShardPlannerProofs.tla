------------------------- MODULE ShardPlannerProofs -------------------------
(***************************************************************************)
(* Safety of the planner for every model, every list of nodes and every    *)
(* amount of VRAM.  Inv is the inductive invariant: beside the properties  *)
(* it says where the nodes of the plan come from (the part of the sorted   *)
(* list the loop has passed), that the context is held back from the first *)
(* visit and from no other, and that this visit makes a controller if any  *)
(* could: the list is sorted, so no node has more room than its first.     *)
(*                                                                         *)
(* GreedySoFar, inductive beside Inv, says that the loop follows the       *)
(* closed form of GreedyPlan.  It gives PlanIsGreedy, since the sort has   *)
(* one result, and GiveUpJustified: a split of the layers would add up to  *)
(* less than the VRAM there is, and to no more layers than the loop has    *)
(* found room for.                                                         *)
(***************************************************************************)
EXTENDS ShardPlanner, DataLemmas

\* The sorted list names no node twice.
OrderInjective == IsInjective(order)

\* The nodes of the plan have been passed by the loop.
PlacedBefore ==
    \A i \in DOMAIN assignments :
        \E k \in 1..next - 1 : k \in DOMAIN order /\ assignments[i].node = order[k]

\* The context is still to be charged exactly until the first iteration ends.
ReserveOnce == reserve = IF next = 1 THEN spec.context_vram ELSE 0

\* The loop runs through the result of the sort.
OrderSorted == order # <<>> => order \in StableDescending(offered, vram)

\* A node with room for the context and a layer makes the first visit a stage.
FirstTaken == ContextFits /\ next > 1 => assignments # <<>>

\* Before the sort nothing has been placed.
NothingYet == pc \in {"start", "no_nodes", "insufficient"} =>
                 assignments = <<>> /\ cursor = 0 /\ next = 1 /\ order = <<>>

Inv == /\ TypeOK /\ OrderInjective /\ PlacedBefore /\ ReserveOnce /\ NothingYet
       /\ OrderSorted /\ FirstTaken
       /\ EveryLayerOnce /\ StagesFit /\ NoNodeTwice

-----------------------------------------------------------------------------
\* Division by the VRAM of a layer: what fits is at least a layer if there is
\* room for one, and never more than there is room for.
LEMMA DivisionFits ==
    ASSUME NEW u \in Nat, NEW p \in Nat \ {0}
    PROVE  u \div p \in Nat /\ (u \div p) * p <= u /\ u < (u \div p) * p + p
  OBVIOUS

\* A product grows with its first factor.
LEMMA ProductMonotone ==
    ASSUME NEW a \in Nat, NEW b \in Nat, NEW p \in Nat, a <= b
    PROVE  a * p <= b * p /\ a * p \in Nat
  OBVIOUS

\* Reduction modulo m does not grow a natural number.
LEMMA ModuloShrinks ==
    ASSUME NEW a \in Nat, NEW m \in Nat \ {0}
    PROVE  a % m \in Nat /\ a % m <= a
  OBVIOUS

\* The types of what one iteration reads.
LEMMA InLoopTypes ==
    ASSUME TypeOK, InLoop
    PROVE  /\ spec \in ModelSpecs /\ spec.total_layers \in Nat /\ spec.context_vram \in Nat
           /\ spec.vram_per_layer \in Nat \ {0}
           /\ order \in Seq(Node) /\ next \in 1..Len(order) /\ order[next] \in Node
           /\ vram[order[next]] \in Nat /\ reserve \in Nat
           /\ cursor \in 0..spec.total_layers
<1>1. spec \in ModelSpecs
  BY ModelAssumption DEF TypeOK
<1>2. /\ spec.total_layers \in Nat /\ spec.context_vram \in Nat
      /\ spec.vram_per_layer \in Nat \ {0}
  BY <1>1 DEF ModelSpecs
<1>3. order \in Seq(Node) /\ next \in 1..Len(order)
  BY DEF TypeOK, InLoop
<1>4. order[next] \in Node
  BY <1>3
<1>5. vram[order[next]] \in Nat
  BY <1>4, VramAssumption DEF TypeOK
<1>6. reserve \in Nat /\ cursor \in 0..spec.total_layers
  BY DEF TypeOK
<1>7. QED
  BY <1>1, <1>2, <1>3, <1>4, <1>5, <1>6

\* What one iteration may hand to a node: no more layers than remain, and no
\* more VRAM than is usable.
LEMMA AssignedFits ==
    ASSUME TypeOK, InLoop
    PROVE  /\ Usable \in Nat
           /\ Assigned \in 0..spec.total_layers - cursor
           /\ Assigned * spec.vram_per_layer \in Nat
           /\ Assigned * spec.vram_per_layer <= Usable
<1>1. /\ spec \in ModelSpecs
      /\ order[next] \in Node /\ vram[order[next]] \in Nat
      /\ reserve \in Nat /\ cursor \in 0..spec.total_layers
  BY InLoopTypes
<1>2. /\ spec.total_layers \in Nat /\ spec.vram_per_layer \in Nat \ {0}
      /\ spec.total_layers - cursor \in Nat
  BY <1>1 DEF ModelSpecs
<1>3. Usable \in Nat
  BY <1>1 DEF Usable, SaturatingSub
<1> DEFINE q == Usable \div spec.vram_per_layer
<1>4. q \in Nat /\ q * spec.vram_per_layer <= Usable
  BY <1>2, <1>3, DivisionFits
<1>5. MaxLayers \in Nat /\ MaxLayers <= q
  BY <1>4, ModulusAssumption, ModuloShrinks DEF MaxLayers
<1> HIDE DEF q
<1>6. /\ Assigned \in Nat /\ Assigned <= MaxLayers
      /\ Assigned <= spec.total_layers - cursor
  BY <1>2, <1>5 DEF Assigned
<1>7. Assigned <= q
  BY <1>4, <1>5, <1>6
<1>8. /\ Assigned * spec.vram_per_layer <= q * spec.vram_per_layer
      /\ Assigned * spec.vram_per_layer \in Nat
  BY <1>2, <1>4, <1>6, <1>7, ProductMonotone
<1>9. q * spec.vram_per_layer \in Nat
  BY <1>2, <1>4, ProductMonotone
<1>10. QED
  BY <1>2, <1>3, <1>4, <1>6, <1>8, <1>9

\* The sort returns the nodes it was given, each at one place.
LEMMA SortKeeps ==
    ASSUME NEW nodes \in Seq(Node), IsInjective(nodes), NEW v,
           NEW s \in StableDescending(nodes, v)
    PROVE  s \in Seq(Node) /\ IsInjective(s) /\ Len(s) = Len(nodes)
<1>1. PICK p \in Bijection(DOMAIN nodes, DOMAIN nodes) :
          s = [i \in DOMAIN nodes |-> nodes[p[i]]]
  BY DEF StableDescending
<1>2. p \in [DOMAIN nodes -> DOMAIN nodes] /\ IsInjective(p)
  BY <1>1 DEF Bijection, Injection
<1>3. s \in [1..Len(nodes) -> Node]
  BY <1>1, <1>2
<1>4. s \in Seq(Node) /\ Len(s) = Len(nodes)
  BY <1>3
<1>5. IsInjective(s)
  BY <1>1, <1>2 DEF IsInjective
<1>6. QED
  BY <1>4, <1>5

\* The sort puts a node in front that has as much VRAM as any.
LEMMA MostRoomFirst ==
    ASSUME NEW nodes \in Seq(Node), NEW v \in [Node -> Nat],
           NEW s \in StableDescending(nodes, v)
    PROVE  \A n \in Range(nodes) : v[n] <= v[s[1]]
<1>1. PICK p \in Bijection(DOMAIN nodes, DOMAIN nodes) :
          /\ s = [i \in DOMAIN nodes |-> nodes[p[i]]]
          /\ \A i, j \in DOMAIN nodes :
                i < j => \/ v[nodes[p[i]]] > v[nodes[p[j]]]
                         \/ v[nodes[p[i]]] = v[nodes[p[j]]] /\ p[i] < p[j]
  BY DEF StableDescending
<1>2. /\ p \in [DOMAIN nodes -> DOMAIN nodes]
      /\ \A j \in DOMAIN nodes : \E i \in DOMAIN nodes : p[i] = j
  BY <1>1 DEF Bijection, Injection, Surjection
<1>3. SUFFICES ASSUME NEW k \in DOMAIN nodes PROVE v[nodes[k]] <= v[s[1]]
  BY DEF Range
<1>4. PICK i \in DOMAIN nodes : p[i] = k
  BY <1>2
<1>5. DOMAIN nodes = 1..Len(nodes) /\ Len(nodes) \in Nat
  OBVIOUS
<1>n. 1 \in DOMAIN nodes /\ i \in Nat /\ 1 <= i
  BY <1>5
<1>6. v[nodes[p[1]]] \in Nat /\ v[nodes[k]] \in Nat /\ s[1] = nodes[p[1]]
  <2>1. p[1] \in DOMAIN nodes /\ s[1] = nodes[p[1]]
    BY <1>1, <1>2, <1>n
  <2>2. \A j \in DOMAIN nodes : nodes[j] \in Node
    OBVIOUS
  <2>3. QED
    BY <2>1, <2>2
<1>7. CASE i = 1
  BY <1>4, <1>6, <1>7
<1>8. CASE 1 < i
  <2>1. \/ v[nodes[p[1]]] > v[nodes[p[i]]]
        \/ v[nodes[p[1]]] = v[nodes[p[i]]]
    BY <1>1, <1>n, <1>8
  <2>2. QED
    BY <1>4, <1>6, <2>1
<1>9. QED
  BY <1>n, <1>7, <1>8

\* If the context fits anywhere beside a layer, it does on the first node visited.
LEMMA FirstHasRoom ==
    ASSUME TypeOK, OrderSorted, ReserveOnce, InLoop, ContextFits, next = 1
    PROVE  Usable >= spec.vram_per_layer
<1>1. /\ spec.vram_per_layer \in Nat /\ spec.context_vram \in Nat
      /\ order[1] \in Node /\ vram[order[1]] \in Nat
  BY InLoopTypes
<1>2. offered \in Seq(Node) /\ vram \in [Node -> Nat] /\ order # <<>>
  <2>1. offered \in Seq(Node) /\ vram \in [Node -> Nat]
    BY VramAssumption DEF TypeOK
  <2>2. order # <<>>
    BY DEF InLoop
  <2>3. QED
    BY <2>1, <2>2
<1>3. PICK n \in Range(offered) : vram[n] >= spec.context_vram + spec.vram_per_layer
  BY DEF ContextFits
<1>4. vram[n] <= vram[order[1]] /\ vram[n] \in Nat
  <2>1. n \in Node
    BY <1>2 DEF Range
  <2>2. QED
    BY <1>2, <2>1, MostRoomFirst DEF OrderSorted
<1>5. vram[order[1]] >= spec.context_vram + spec.vram_per_layer
  BY <1>1, <1>3, <1>4
<1>6. QED
  BY <1>1, <1>5 DEF Usable, SaturatingSub, ReserveOnce

-----------------------------------------------------------------------------
\* A list of distinct nodes is what the caller may pass.
LEMMA OfferedIsList ==
    ASSUME NEW s \in UNION {Injection(1..n, Node) : n \in 0..Cardinality(Node)}
    PROVE  s \in Seq(Node) /\ IsInjective(s)
<1>1. Cardinality(Node) \in Nat
  BY NodeAssumption, FS_CardinalityType
<1>2. PICK n \in 0..Cardinality(Node) : s \in Injection(1..n, Node)
  OBVIOUS
<1>3. n \in Nat
  BY <1>1, <1>2
<1>4. QED
  BY <1>2, <1>3 DEF Injection

LEMMA InitInv == Init => Inv
<1> SUFFICES ASSUME Init PROVE Inv
  OBVIOUS
<1>1. spec.context_vram \in Nat /\ spec.total_layers \in Nat
  BY ModelAssumption DEF Init, ModelSpecs
<1>2. TypeOK
  BY <1>1, OfferedIsList DEF Init, TypeOK
<1>3. OrderInjective /\ PlacedBefore /\ ReserveOnce /\ NothingYet /\ OrderSorted /\ FirstTaken
  BY DEF Init, OrderInjective, IsInjective, PlacedBefore, ReserveOnce, NothingYet,
         OrderSorted, FirstTaken
<1>4. EveryLayerOnce /\ StagesFit /\ NoNodeTwice
  BY DEF Init, EveryLayerOnce, StagesFit, NoNodeTwice
<1>5. QED
  BY <1>2, <1>3, <1>4 DEF Inv

\* The iteration that places layers: the only step that changes the plan.
LEMMA PlaceInv == Inv /\ PlaceLayers => Inv'
<1> SUFFICES ASSUME Inv, PlaceLayers PROVE Inv'
  OBVIOUS
<1> DEFINE new == [node |-> order[next],
                   layer_start |-> cursor,
                   layer_end |-> cursor + Assigned,
                   vram_required |-> Assigned * spec.vram_per_layer]
<1>1. TypeOK /\ InLoop
  BY DEF Inv, PlaceLayers
<1>2. /\ Usable \in Nat
      /\ Assigned \in 0..spec.total_layers - cursor
  BY <1>1, AssignedFits
<1>p. /\ Assigned * spec.vram_per_layer \in Nat
      /\ Assigned * spec.vram_per_layer <= Usable
  BY <1>1, AssignedFits
<1>3. /\ spec \in ModelSpecs /\ spec.total_layers \in Nat /\ spec.context_vram \in Nat
      /\ spec.vram_per_layer \in Nat \ {0}
      /\ order \in Seq(Node) /\ next \in 1..Len(order) /\ order[next] \in Node
      /\ vram[order[next]] \in Nat /\ reserve \in Nat
      /\ cursor \in 0..spec.total_layers
  BY <1>1, InLoopTypes
<1>4. new \in ShardAssignment
  BY <1>2, <1>p, <1>3 DEF ShardAssignment
<1> PICK n \in Nat : n = Len(assignments)
  BY <1>1 DEF TypeOK
<1>5. /\ assignments \in Seq(ShardAssignment) /\ DOMAIN assignments = 1..n
      /\ assignments' \in Seq(ShardAssignment) /\ DOMAIN assignments' = 1..n + 1
      /\ assignments'[n + 1] = new
      /\ \A i \in 1..n : assignments'[i] = assignments[i]
  BY <1>1, <1>4 DEF PlaceLayers, TypeOK
<1>6. UNCHANGED <<spec, offered, vram, pc, order>> /\ cursor' = cursor + Assigned
      /\ reserve' = 0 /\ next' = next + 1
  BY DEF PlaceLayers, input
<1> HIDE DEF new
<1>7. new.node = order[next] /\ new.layer_start = cursor
      /\ new.layer_end = cursor + Assigned /\ new.vram_required = Assigned * spec.vram_per_layer
  BY DEF new
<1>v. new.vram_required \in Nat /\ new.vram_required <= Usable
  BY <1>p, <1>7
<1>e. /\ new.node = order[next] /\ new.layer_start = cursor
      /\ new.layer_end = cursor + Assigned
  BY <1>7
<1>8. TypeOK'
  BY <1>1, <1>2, <1>3, <1>5, <1>6 DEF TypeOK
<1>9. OrderInjective' /\ ReserveOnce' /\ NothingYet'
  BY <1>1, <1>3, <1>6 DEF Inv, OrderInjective, ReserveOnce, NothingYet, InLoop
<1>10. PlacedBefore'
  <2>1. ASSUME NEW i \in 1..n + 1
        PROVE  \E k \in 1..next : k \in DOMAIN order /\ assignments'[i].node = order[k]
    <3>1. CASE i = n + 1
      BY <1>3, <1>5, <1>e, <3>1
    <3>2. CASE i # n + 1
      <4>1. i \in 1..n
        BY <3>2
      <4>2. PICK k \in 1..next - 1 : k \in DOMAIN order /\ assignments[i].node = order[k]
        BY <1>5, <4>1 DEF Inv, PlacedBefore
      <4>3. QED
        BY <1>3, <1>5, <4>1, <4>2
    <3>3. QED
      BY <3>1, <3>2
  <2>2. next' - 1 = next
    BY <1>3, <1>6
  <2>3. QED
    BY <1>5, <1>6, <2>1, <2>2 DEF PlacedBefore
<1>11. EveryLayerOnce'
  <2>1. ASSUME NEW l \in 0..cursor' - 1
        PROVE  \E i \in DOMAIN assignments' : l \in Stage(i)'
    <3>1. CASE l <= cursor - 1
      <4>1. l \in 0..cursor - 1
        BY <1>2, <1>3, <1>6, <3>1, <2>1
      <4>2. PICK i \in DOMAIN assignments : l \in Stage(i)
        BY <4>1 DEF Inv, EveryLayerOnce
      <4>3. QED
        BY <1>5, <4>2 DEF Stage
    <3>2. CASE l > cursor - 1
      <4>1. l \in cursor .. cursor + Assigned - 1
        BY <1>2, <1>3, <1>6, <3>2, <2>1
      <4>2. /\ assignments'[n + 1].layer_start = cursor
            /\ assignments'[n + 1].layer_end = cursor + Assigned
        BY <1>5, <1>e
      <4>3. n + 1 \in DOMAIN assignments'
        BY <1>5
      <4>4. l \in assignments'[n + 1].layer_start .. assignments'[n + 1].layer_end - 1
        BY <1>2, <1>3, <4>1, <4>2
      <4>5. QED
        BY <4>3, <4>4 DEF Stage
    <3>3. QED
      BY <1>2, <1>3, <1>6, <3>1, <3>2
  <2>2. \A i \in DOMAIN assignments' : assignments'[i].layer_end <= cursor'
    <3>1. ASSUME NEW i \in 1..n
          PROVE  assignments[i].layer_end <= cursor /\ assignments[i].layer_end \in Nat
      <4>1. i \in DOMAIN assignments /\ assignments[i] \in ShardAssignment
        BY <1>5
      <4>2. QED
        BY <4>1 DEF Inv, EveryLayerOnce, ShardAssignment
    <3>2. ASSUME NEW i \in 1..n
          PROVE  assignments'[i].layer_end <= cursor'
      BY <1>2, <1>3, <1>5, <1>6, <3>1
    <3>3. assignments'[n + 1].layer_end <= cursor'
      BY <1>2, <1>3, <1>5, <1>6, <1>e
    <3>4. QED
      BY <1>5, <3>2, <3>3
  <2>3. ASSUME NEW i \in DOMAIN assignments', NEW j \in DOMAIN assignments', i < j
        PROVE  assignments'[i].layer_end <= assignments'[j].layer_start
    <3>1. i \in 1..n
      BY <1>5, <2>3
    <3>2. CASE j = n + 1
      BY <1>5, <1>e, <3>1, <3>2 DEF Inv, EveryLayerOnce
    <3>3. CASE j # n + 1
      BY <1>5, <2>3, <3>1, <3>3 DEF Inv, EveryLayerOnce
    <3>4. QED
      BY <3>2, <3>3
  <2>4. pc' # "planned"
    BY <1>1, <1>6 DEF InLoop
  <2>5. QED
    BY <2>1, <2>2, <2>3, <2>4 DEF EveryLayerOnce
<1>f. ContextFits' = ContextFits
  BY <1>6 DEF ContextFits
<1>9f. OrderSorted' /\ FirstTaken'
  <2>1. assignments' # <<>>
    BY <1>5
  <2>2. QED
    BY <1>6, <2>1 DEF Inv, OrderSorted, FirstTaken
<1>12. StagesFit'
  <2>1. reserve <= vram[order[next]] /\ Usable = vram[order[next]] - reserve
    BY <1>2, <1>3 DEF PlaceLayers, Usable, SaturatingSub
  <2>2. new.vram_required <= vram[new.node] /\ vram[new.node] \in Nat
    BY <1>3, <1>e, <1>v, <2>1
  <2>3. ASSUME n = 0, ContextFits
        PROVE  new.vram_required + spec.context_vram <= vram[new.node]
    <3>1. next = 1
      <4>1. assignments = <<>>
        BY <1>5, <2>3
      <4>2. QED
        BY <1>3, <2>3, <4>1 DEF Inv, FirstTaken
    <3>2. reserve = spec.context_vram
      BY <3>1 DEF Inv, ReserveOnce
    <3>3. new.vram_required <= vram[order[next]] - spec.context_vram
      BY <1>v, <2>1, <3>2
    <3>4. QED
      BY <1>3, <1>e, <1>v, <3>3
  <2>4. new.vram_required + (IF n + 1 = 1 /\ ContextFits THEN spec.context_vram ELSE 0)
           <= vram[new.node]
    BY <1>v, <2>2, <2>3
  <2>5. ASSUME NEW i \in 1..n
        PROVE  assignments[i].vram_required
                  + (IF i = 1 /\ ContextFits THEN spec.context_vram ELSE 0)
               <= vram[assignments[i].node]
    BY <1>5 DEF Inv, StagesFit
  <2>6. ASSUME NEW i \in 1..n + 1
        PROVE  assignments'[i].vram_required
                  + (IF i = 1 /\ ContextFits THEN spec.context_vram ELSE 0)
               <= vram[assignments'[i].node]
    <3>1. CASE i = n + 1
      BY <1>5, <2>4, <3>1
    <3>2. CASE i # n + 1
      BY <1>5, <2>5, <3>2
    <3>3. QED
      BY <3>1, <3>2
  <2>7. QED
    BY <1>5, <1>6, <1>f, <2>6 DEF StagesFit
<1>13. NoNodeTwice'
  <2>1. \A i \in 1..n : assignments[i].node # new.node
    <3>1. ASSUME NEW i \in 1..n PROVE assignments[i].node # new.node
      <4>1. PICK k \in 1..next - 1 : k \in DOMAIN order /\ assignments[i].node = order[k]
        BY <1>5 DEF Inv, PlacedBefore
      <4>2. QED
        BY <1>3, <1>e, <4>1 DEF Inv, OrderInjective, IsInjective
    <3>2. QED
      BY <3>1
  <2>2. QED
    BY <1>5, <2>1 DEF Inv, NoNodeTwice
<1>14. QED
  BY <1>8, <1>9, <1>9f, <1>10, <1>11, <1>12, <1>13 DEF Inv

LEMMA NextInv == Inv /\ [Next]_vars => Inv'
<1> SUFFICES ASSUME Inv, [Next]_vars PROVE Inv'
  OBVIOUS
<1> USE DEF input
<1>0. spec \in ModelSpecs /\ spec.total_layers \in Nat
  BY ModelAssumption DEF Inv, TypeOK, ModelSpecs
<1>1. CASE RejectEmpty
  BY <1>1 DEF RejectEmpty, Inv, TypeOK, OrderInjective, PlacedBefore, ReserveOnce,
              NothingYet, OrderSorted, FirstTaken, ContextFits, EveryLayerOnce, Stage,
              StagesFit, NoNodeTwice
<1>2. CASE RejectSmall
  BY <1>2 DEF RejectSmall, Inv, TypeOK, OrderInjective, PlacedBefore, ReserveOnce,
              NothingYet, OrderSorted, FirstTaken, ContextFits, EveryLayerOnce, Stage,
              StagesFit, NoNodeTwice
<1>3. CASE Sort
  <2>1. order' \in Seq(Node) /\ IsInjective(order')
    BY <1>3, SortKeeps DEF Sort, Inv, TypeOK
  <2>2. assignments = <<>> /\ cursor = 0 /\ next = 1
    BY <1>3 DEF Sort, Inv, NothingYet
  <2>3. TypeOK'
    BY <1>3, <2>1, <2>2 DEF Sort, Inv, TypeOK
  <2>4. OrderInjective' /\ PlacedBefore' /\ ReserveOnce' /\ NothingYet'
    BY <1>3, <2>1, <2>2 DEF Sort, Inv, OrderInjective, PlacedBefore, ReserveOnce, NothingYet
  <2>5. EveryLayerOnce' /\ StagesFit' /\ NoNodeTwice'
    BY <1>3, <2>2 DEF Sort, EveryLayerOnce, StagesFit, NoNodeTwice
  <2>6. OrderSorted' /\ FirstTaken'
    BY <1>3, <2>2 DEF Sort, OrderSorted, FirstTaken
  <2>7. QED
    BY <2>3, <2>4, <2>5, <2>6 DEF Inv
<1>4. CASE SkipNode
  <2>1. TypeOK'
    BY <1>4 DEF SkipNode, InLoop, Inv, TypeOK
  <2>2. PlacedBefore'
    BY <1>4 DEF SkipNode, InLoop, Inv, TypeOK, PlacedBefore
  <2>3. OrderInjective' /\ ReserveOnce' /\ NothingYet'
    BY <1>4 DEF SkipNode, InLoop, Inv, TypeOK, OrderInjective, ReserveOnce, NothingYet
  <2>4. EveryLayerOnce' /\ StagesFit' /\ NoNodeTwice'
    BY <1>4 DEF SkipNode, Inv, EveryLayerOnce, Stage, StagesFit, ContextFits, NoNodeTwice
  <2>5. OrderSorted'
    BY <1>4 DEF SkipNode, Inv, OrderSorted
  <2>6. FirstTaken'
    <3>1. CASE ContextFits /\ next = 1
      <4>1. Usable >= spec.vram_per_layer
        BY <1>4, <3>1, FirstHasRoom DEF SkipNode, Inv
      <4>2. Usable \in Nat /\ spec.vram_per_layer \in Nat
        BY <1>4, AssignedFits, InLoopTypes DEF SkipNode, Inv
      <4>3. QED
        BY <1>4, <4>1, <4>2 DEF SkipNode
    <3>2. CASE ~(ContextFits /\ next = 1)
      BY <1>4, <3>2 DEF SkipNode, Inv, TypeOK, FirstTaken, ContextFits
    <3>3. QED
      BY <3>1, <3>2
  <2>7. QED
    BY <2>1, <2>2, <2>3, <2>4, <2>5, <2>6 DEF Inv
<1>5. CASE PlaceLayers
  BY <1>5, PlaceInv
<1>6. CASE Finish
  <2>1. TypeOK'
    BY <1>6 DEF Finish, Inv, TypeOK
  <2>2. EveryLayerOnce'
    BY <1>0, <1>6 DEF Finish, Inv, TypeOK, EveryLayerOnce, Stage
  <2>3. NothingYet'
    BY <1>6 DEF Finish, NothingYet
  <2>4. /\ OrderInjective' /\ PlacedBefore' /\ ReserveOnce'
        /\ OrderSorted' /\ FirstTaken' /\ StagesFit' /\ NoNodeTwice'
    BY <1>6 DEF Finish, Inv, OrderInjective, PlacedBefore, ReserveOnce, OrderSorted,
                FirstTaken, ContextFits, StagesFit, NoNodeTwice
  <2>5. QED
    BY <2>1, <2>2, <2>3, <2>4 DEF Inv
<1>7. CASE Done \/ UNCHANGED vars
  BY <1>7 DEF Done, vars, Inv, TypeOK, OrderInjective, PlacedBefore, ReserveOnce,
              NothingYet, OrderSorted, FirstTaken, ContextFits, EveryLayerOnce, Stage,
              StagesFit, NoNodeTwice
<1>8. QED
  BY <1>1, <1>2, <1>3, <1>4, <1>5, <1>6, <1>7 DEF Next

-----------------------------------------------------------------------------
\* A plan that is returned has a first stage.
LEMMA PlanHasController ==
    ASSUME Inv, pc = "planned"
    PROVE  1 \in DOMAIN assignments
<1>1. cursor = spec.total_layers /\ spec.total_layers \in Nat \ {0}
  BY ModelAssumption DEF Inv, TypeOK, EveryLayerOnce, ModelSpecs
<1>2. 0 \in 0..cursor - 1
  BY <1>1
<1>3. PICK i \in DOMAIN assignments : 0 \in Stage(i)
  BY <1>2 DEF Inv, EveryLayerOnce
<1>4. QED
  BY <1>3 DEF Inv, TypeOK

\* The inductive invariant holds in every reachable state.
THEOREM Invariance == Spec => []Inv
  BY InitInv, NextInv, PTL DEF Spec

\* Every variable of the call keeps its type.
THEOREM TypeCorrect == Spec => []TypeOK
<1>1. Inv => TypeOK
  BY DEF Inv
<1>2. QED
  BY <1>1, Invariance, PTL

\* The stages of a plan hold every layer once (planner.rs:103-145).
THEOREM LayersPlacedOnce == Spec => []EveryLayerOnce
<1>1. Inv => EveryLayerOnce
  BY DEF Inv
<1>2. QED
  BY <1>1, Invariance, PTL

\* If some node on offer can hold the context beside a layer, the controller of a
\* plan holds it, whatever is truncated (registry.rs:11, planner.rs:71-77, 97-130).
THEOREM ControllerHasRoom == Spec => [](pc = "planned" /\ ContextFits => ContextOnController)
<1>1. Inv => (pc = "planned" /\ ContextFits => ContextOnController)
  <2> SUFFICES ASSUME Inv, ContextFits, pc = "planned"
               PROVE  assignments[1].vram_required + spec.context_vram
                         <= vram[assignments[1].node]
    BY DEF ContextOnController
  <2>1. 1 \in DOMAIN assignments
    BY PlanHasController
  <2>2. QED
    BY <2>1 DEF Inv, StagesFit
<1>2. QED
  BY <1>1, Invariance, PTL

\* A node is one stage of the pipeline at most (planner.rs:103-131).
THEOREM OneStagePerNode == Spec => []NoNodeTwice
<1>1. Inv => NoNodeTwice
  BY DEF Inv
<1>2. QED
  BY <1>1, Invariance, PTL

-----------------------------------------------------------------------------
\* A first node with room for the whole model is visited once and takes it all.
FirstTakesAll ==
    order # <<>> /\ vram[order[1]] >= TotalVram(spec) =>
        \/ next = 1 /\ cursor = 0 /\ assignments = <<>>
        \/ next = 2 /\ cursor = spec.total_layers /\ Len(assignments) = 1

\* Room for k layers of p MB is at least k layers after the division.
LEMMA DivisionReaches ==
    ASSUME NEW u \in Nat, NEW p \in Nat \ {0}, NEW k \in Nat, k * p <= u
    PROVE  k <= u \div p
<1>1. u \div p \in Nat /\ u < (u \div p) * p + p
  BY DivisionFits
<1> DEFINE q == u \div p
<1>2. q \in Nat /\ u < q * p + p
  BY <1>1
<1> HIDE DEF q
<1>3. SUFFICES ASSUME q + 1 <= k PROVE FALSE
  BY <1>2 DEF q
<1>4. (q + 1) * p <= k * p
  BY <1>2, <1>3, ProductMonotone
<1>5. (q + 1) * p = q * p + p
  BY <1>2
<1>6. q * p \in Nat /\ k * p \in Nat
  BY <1>2, ProductMonotone
<1>7. QED
  BY <1>2, <1>4, <1>5, <1>6

\* The quotient is never more than the dividend.
LEMMA DivisionShrinks ==
    ASSUME NEW u \in Nat, NEW p \in Nat \ {0}
    PROVE  u \div p <= u
<1> DEFINE q == u \div p
<1>1. q \in Nat /\ q * p <= u
  BY DivisionFits
<1> HIDE DEF q
<1>2. q <= q * p /\ q * p \in Nat
  BY <1>1
<1>3. q <= u
  BY <1>1, <1>2
<1>4. QED
  BY <1>3 DEF q

\* A layer count below the width of the cast survives it.
LEMMA ModuloKeeps ==
    ASSUME NEW a \in Nat, NEW m \in Nat \ {0}, a < m
    PROVE  a % m = a
  OBVIOUS

\* What the first visit hands to a node with room for the whole model.
LEMMA FirstVisit ==
    ASSUME TypeOK, InLoop, ReserveOnce, next = 1, cursor = 0,
           vram[order[1]] >= TotalVram(spec),
           \A v \in Vram : v < LayerModulus
    PROVE  Usable >= spec.vram_per_layer /\ Assigned = spec.total_layers
<1>1. /\ spec.total_layers \in Nat \ {0} /\ spec.context_vram \in Nat
      /\ spec.vram_per_layer \in Nat \ {0}
      /\ vram[order[1]] \in Nat /\ vram[order[1]] < LayerModulus
  <2>1. spec \in ModelSpecs /\ order[1] \in Node
    BY ModelAssumption, InLoopTypes DEF TypeOK
  <2>2. vram[order[1]] \in Vram
    BY <2>1 DEF TypeOK
  <2>3. QED
    BY <2>1, <2>2, VramAssumption DEF ModelSpecs
<1> DEFINE need == spec.total_layers * spec.vram_per_layer
<1>2. need \in Nat /\ spec.vram_per_layer <= need
  <2>1. 1 * spec.vram_per_layer <= need /\ need \in Nat
    BY <1>1, ProductMonotone
  <2>2. 1 * spec.vram_per_layer = spec.vram_per_layer
    BY <1>1
  <2>3. QED
    BY <2>1, <2>2
<1>3. vram[order[1]] >= need + spec.context_vram
  BY DEF TotalVram
<1> HIDE DEF need
<1>4. Usable = vram[order[1]] - spec.context_vram
  BY <1>1, <1>2, <1>3 DEF Usable, SaturatingSub, ReserveOnce
<1>5. Usable \in Nat /\ need <= Usable /\ Usable < LayerModulus
  BY <1>1, <1>2, <1>3, <1>4, ModulusAssumption
<1>6. Usable >= spec.vram_per_layer
  BY <1>1, <1>2, <1>5
<1>7. spec.total_layers * spec.vram_per_layer <= Usable
  BY <1>5 DEF need
<1>8. spec.total_layers <= Usable \div spec.vram_per_layer
  BY <1>1, <1>5, <1>7, DivisionReaches
<1>9. Usable \div spec.vram_per_layer \in Nat /\ Usable \div spec.vram_per_layer <= Usable
  BY <1>1, <1>5, DivisionFits, DivisionShrinks
<1>10. Usable \div spec.vram_per_layer < LayerModulus
  BY <1>5, <1>9, ModulusAssumption
<1>11. MaxLayers = Usable \div spec.vram_per_layer
  BY <1>9, <1>10, ModulusAssumption, ModuloKeeps DEF MaxLayers
<1>12. MaxLayers \in Nat /\ spec.total_layers <= MaxLayers
  BY <1>8, <1>9, <1>11
<1>13. Assigned = spec.total_layers
  BY <1>1, <1>12 DEF Assigned
<1>14. QED
  BY <1>6, <1>13

LEMMA SoloNext ==
    ASSUME \A v \in Vram : v < LayerModulus
    PROVE  Inv /\ FirstTakesAll /\ WholeModelOnOne /\ [Next]_vars
              => FirstTakesAll' /\ WholeModelOnOne'
<1> SUFFICES ASSUME Inv, FirstTakesAll, WholeModelOnOne, [Next]_vars,
                    order' # <<>> /\ (vram[order[1]] >= TotalVram(spec))'
             PROVE  FirstTakesAll' /\ WholeModelOnOne'
  BY DEF FirstTakesAll, WholeModelOnOne
<1> USE DEF input
<1>0. /\ spec \in ModelSpecs /\ spec.total_layers \in Nat \ {0}
      /\ assignments \in Seq(ShardAssignment)
  BY ModelAssumption DEF Inv, TypeOK, ModelSpecs
<1>1. CASE RejectEmpty \/ RejectSmall
  BY <1>1 DEF RejectEmpty, RejectSmall, Inv, NothingYet
<1>2. CASE Sort
  BY <1>2 DEF Sort, Inv, NothingYet, FirstTakesAll, WholeModelOnOne
<1>3. CASE SkipNode
  <2>1. next = 1 /\ cursor = 0
    BY <1>0, <1>3 DEF SkipNode, InLoop, FirstTakesAll
  <2>2. TypeOK /\ InLoop /\ ReserveOnce /\ vram[order[1]] >= TotalVram(spec)
    BY <1>3 DEF SkipNode, Inv
  <2>3. Usable >= spec.vram_per_layer
    BY <2>1, <2>2, FirstVisit
  <2>4. Usable \in Nat /\ spec.vram_per_layer \in Nat
    BY <2>2, AssignedFits, InLoopTypes
  <2>5. QED
    BY <1>3, <2>3, <2>4 DEF SkipNode
<1>4. CASE PlaceLayers
  <2>1. next = 1 /\ cursor = 0 /\ assignments = <<>>
    BY <1>0, <1>4 DEF PlaceLayers, InLoop, FirstTakesAll
  <2>2. TypeOK /\ InLoop /\ ReserveOnce /\ vram[order[1]] >= TotalVram(spec)
    BY <1>4 DEF PlaceLayers, Inv
  <2>3. Assigned = spec.total_layers
    BY <2>1, <2>2, FirstVisit
  <2>4. next' = 2 /\ cursor' = spec.total_layers /\ Len(assignments') = 1
    BY <1>0, <1>4, <2>1, <2>3 DEF PlaceLayers
  <2>5. pc' \notin {"planned", "uncovered"} /\ spec' = spec
    BY <1>4 DEF PlaceLayers, InLoop
  <2>6. QED
    BY <2>4, <2>5 DEF FirstTakesAll, WholeModelOnOne
<1>5. CASE Finish
  <2>1. next = 2 /\ cursor = spec.total_layers /\ Len(assignments) = 1
    <3>1. order \in Seq(Node) /\ order # <<>>
      BY <1>5 DEF Finish, Inv, TypeOK
    <3>2. Len(order) >= 1
      BY <3>1
    <3>3. QED
      BY <1>0, <1>5, <3>1, <3>2 DEF Finish, FirstTakesAll
  <2>2. QED
    BY <1>0, <1>5, <2>1 DEF Finish, FirstTakesAll, WholeModelOnOne
<1>6. CASE Done \/ UNCHANGED vars
  BY <1>6 DEF Done, vars, FirstTakesAll, WholeModelOnOne
<1>7. QED
  BY <1>1, <1>2, <1>3, <1>4, <1>5, <1>6 DEF Next

\* A node with room for the whole model is planned alone, whatever else was
\* offered (shard_coordinator.rs:81-114 builds its candidates on it), as long
\* as no amount of VRAM outgrows the u32 of the layer count.
THEOREM SoloNodesSuffice ==
    ASSUME \A v \in Vram : v < LayerModulus
    PROVE  Spec => []WholeModelOnOne
<1>1. Init => FirstTakesAll /\ WholeModelOnOne
  BY DEF Init, FirstTakesAll, WholeModelOnOne
<1>2. Inv /\ FirstTakesAll /\ WholeModelOnOne /\ [Next]_vars
         => FirstTakesAll' /\ WholeModelOnOne'
  BY SoloNext
<1>3. QED
  BY <1>1, <1>2, Invariance, PTL DEF Spec

-----------------------------------------------------------------------------
\* The VRAM of a list of nodes, as the planner and the closed form add it up.
LEMMA ListTotal ==
    ASSUME NEW nodes \in Seq(Node), NEW v,
           NEW g, \A i \in DOMAIN nodes : g[i] = v[nodes[i]]
    PROVE  /\ Available(nodes, v) = Total(g, DOMAIN nodes)
           /\ TotalVramOf(nodes, v) = Total(g, DOMAIN nodes)
<1> DEFINE D == DOMAIN nodes
           Sums(h) == h = [s \in SUBSET D |->
                             IF s = {} THEN 0 ELSE v[nodes[Pick(s)]] + h[s \ {Pick(s)}]]
           sum == CHOOSE h : Sums(h)
<1>1. IsFiniteSet(D)
  <2>1. D = 1..Len(nodes) /\ Len(nodes) \in Nat
    OBVIOUS
  <2>2. QED
    BY <2>1, FS_Interval
<1>2. Available(nodes, v) = sum[D] /\ TotalVramOf(nodes, v) = sum[D]
  BY DEF Available, TotalVramOf, FoldFunction, FoldFunctionOnSet, MapThenFoldSet, Pick
<1>3. ASSUME NEW h
      PROVE  Sums(h) <=> IsSum(h, g, D)
  <2>1. \A s \in SUBSET D : s # {} => g[Pick(s)] = v[nodes[Pick(s)]]
    BY PickIn
  <2>2. [s \in SUBSET D |-> IF s = {} THEN 0 ELSE v[nodes[Pick(s)]] + h[s \ {Pick(s)}]]
        = [s \in SUBSET D |-> IF s = {} THEN 0 ELSE g[Pick(s)] + h[s \ {Pick(s)}]]
    BY <2>1
  <2>3. QED
    BY <2>2 DEF IsSum
<1>4. \E h : Sums(h)
  <2> HIDE DEF Sums
  <2>1. QED
    BY <1>1, <1>3, SumExists
<1>5. Sums(sum)
  <2> HIDE DEF Sums
  <2>1. QED
    BY <1>4
<1>6. IsSum(sum, g, D)
  BY <1>3, <1>5
<1>7. IsSum(CHOOSE h : IsSum(h, g, D), g, D)
  BY <1>1, SumExists
<1>8. sum[D] = Total(g, D)
  <2> HIDE DEF sum, D
  <2>1. QED
    BY <1>1, <1>6, <1>7, SumUnique DEF Total
<1>9. QED
  BY <1>2, <1>8

LEMMA AvailableIsNat ==
    ASSUME NEW nodes \in Seq(Node), NEW v \in [Node -> Nat]
    PROVE  Available(nodes, v) \in Nat
<1> DEFINE D == DOMAIN nodes
           g == [i \in D |-> v[nodes[i]]]
<1>1. IsFiniteSet(D)
  <2>1. D = 1..Len(nodes) /\ Len(nodes) \in Nat
    OBVIOUS
  <2>2. QED
    BY <2>1, FS_Interval
<1>2. \A i \in D : g[i] \in Nat
  OBVIOUS
<1>3. Available(nodes, v) = Total(g, D)
  BY ListTotal
<1> HIDE DEF g, D
<1>4. QED
  BY <1>1, <1>2, <1>3, TotalNat

\* The order of the sort, between positions of the caller's list.
SortPairs(nodes, v) ==
    {p \in (DOMAIN nodes) \X (DOMAIN nodes) :
        \/ v[nodes[p[1]]] > v[nodes[p[2]]]
        \/ v[nodes[p[1]]] = v[nodes[p[2]]] /\ p[1] < p[2]}

LEMMA SortOrders ==
    ASSUME NEW nodes \in Seq(Node), NEW v \in [Node -> Nat]
    PROVE  Orders(SortPairs(nodes, v), DOMAIN nodes)
<1> DEFINE D == DOMAIN nodes
           w == [i \in D |-> v[nodes[i]]]
           larger(i, j) == w[i] > w[j]
           same(i, j) == w[i] = w[j]
<1>1. D \subseteq Nat /\ w \in [D -> Nat]
  OBVIOUS
<1>2. ASSUME NEW i \in D, NEW j \in D
      PROVE  <<i, j>> \in SortPairs(nodes, v) <=> larger(i, j) \/ (same(i, j) /\ i < j)
  <2>1. <<i, j>> \in SortPairs(nodes, v) <=>
            \/ v[nodes[i]] > v[nodes[j]]
            \/ v[nodes[i]] = v[nodes[j]] /\ i < j
    BY DEF SortPairs
  <2>2. v[nodes[i]] = w[i] /\ v[nodes[j]] = w[j]
    OBVIOUS
  <2> HIDE DEF w
  <2>3. QED
    BY <2>1, <2>2
<1> HIDE DEF D, w
<1>3. /\ \A i, j \in D : larger(i, j) => ~larger(j, i) /\ ~same(i, j) /\ ~same(j, i)
      /\ \A i, j \in D : larger(i, j) \/ larger(j, i) \/ same(i, j)
      /\ \A i, j \in D : same(i, j) => same(j, i)
  BY <1>1
<1>4. \A i, j, k \in D :
         /\ larger(i, j) /\ (larger(j, k) \/ same(j, k)) => larger(i, k)
         /\ same(i, j) /\ larger(j, k) => larger(i, k)
         /\ same(i, j) /\ same(j, k) => same(i, k)
  BY <1>1
<1> HIDE DEF larger, same
<1>5. \A i, j, k \in D : /\ ~(i < i)
                         /\ i # j => i < j \/ j < i
                         /\ i < j /\ j < k => i < k
  BY <1>1
<1>6. \A i \in D : <<i, i>> \notin SortPairs(nodes, v)
  BY <1>2, <1>3, <1>5
<1>7. \A i, j \in D : i # j => <<i, j>> \in SortPairs(nodes, v) \/ <<j, i>> \in SortPairs(nodes, v)
  BY <1>2, <1>3, <1>5
<1>8. ASSUME NEW i \in D, NEW j \in D, NEW k \in D,
             <<i, j>> \in SortPairs(nodes, v), <<j, k>> \in SortPairs(nodes, v)
      PROVE  <<i, k>> \in SortPairs(nodes, v)
  <2>1. (larger(i, j) \/ (same(i, j) /\ i < j)) /\ (larger(j, k) \/ (same(j, k) /\ j < k))
    BY <1>2, <1>8
  <2>2. larger(i, k) \/ (same(i, k) /\ i < k)
    BY <1>4, <1>5, <2>1
  <2>3. QED
    BY <1>2, <2>2
<1>9. QED
  BY <1>6, <1>7, <1>8 DEF Orders, D

\* s is nodes with its positions permuted by p, each to its rank.
Permutes(p, nodes, v, s) ==
    /\ p \in [DOMAIN nodes -> DOMAIN nodes]
    /\ s = [i \in DOMAIN nodes |-> nodes[p[i]]]
    /\ \A i, j \in DOMAIN nodes : p[i] = p[j] => i = j
    /\ \A j \in DOMAIN nodes : \E i \in DOMAIN nodes : p[i] = j
    /\ \A i \in DOMAIN nodes : Rank(SortPairs(nodes, v), DOMAIN nodes, p[i]) = i - 1

LEMMA SortPermutes ==
    ASSUME NEW nodes \in Seq(Node), NEW v \in [Node -> Nat],
           NEW s \in StableDescending(nodes, v)
    PROVE  \E p : Permutes(p, nodes, v, s)
<1> DEFINE D == DOMAIN nodes
           R == SortPairs(nodes, v)
<1>1. PICK p \in Bijection(D, D) :
          /\ s = [i \in D |-> nodes[p[i]]]
          /\ \A i, j \in D : i < j => \/ v[nodes[p[i]]] > v[nodes[p[j]]]
                                      \/ v[nodes[p[i]]] = v[nodes[p[j]]] /\ p[i] < p[j]
  BY DEF StableDescending
<1>2. /\ p \in [D -> D]
      /\ \A i, j \in D : p[i] = p[j] => i = j
      /\ \A j \in D : \E i \in D : p[i] = j
  BY <1>1 DEF Bijection, Injection, Surjection, IsInjective
<1>3. PICK n \in Nat : D = 1..n
  OBVIOUS
<1>4. \A i, j \in D : i < j => <<p[i], p[j]>> \in R
  BY <1>1, <1>2 DEF SortPairs
<1>5. Orders(R, D)
  BY SortOrders
<1>6. \A i \in D : Rank(R, D, p[i]) = i - 1
  <2> HIDE DEF D, R
  <2>1. Ascends(p, n, R, D)
    BY <1>2, <1>3, <1>4 DEF Ascends
  <2>2. \A i \in 1..n : Rank(R, D, p[i]) = i - 1
    BY <1>5, <2>1, RankInList
  <2>3. QED
    BY <1>3, <2>2
<1>7. Permutes(p, nodes, v, s)
  BY <1>1, <1>2, <1>6 DEF Permutes
<1>8. QED
  BY <1>7

\* A stable sort has one result.
LEMMA SortIsUnique ==
    ASSUME NEW nodes \in Seq(Node), NEW v \in [Node -> Nat],
           NEW s \in StableDescending(nodes, v), NEW t \in StableDescending(nodes, v)
    PROVE  s = t
<1> DEFINE D == DOMAIN nodes
           R == SortPairs(nodes, v)
<1>1. PICK p : Permutes(p, nodes, v, s)
  BY SortPermutes
<1>2. PICK q : Permutes(q, nodes, v, t)
  BY SortPermutes
<1>3. IsFiniteSet(D)
  <2>1. D = 1..Len(nodes) /\ Len(nodes) \in Nat
    OBVIOUS
  <2>2. QED
    BY <2>1, FS_Interval
<1>4. ASSUME NEW i \in D
      PROVE  p[i] = q[i]
  <2>1. Orders(R, D)
    BY SortOrders
  <2>2. p[i] \in D /\ q[i] \in D /\ Rank(R, D, p[i]) = Rank(R, D, q[i])
    BY <1>1, <1>2 DEF Permutes
  <2> HIDE DEF D, R
  <2>3. QED
    BY <1>3, <2>1, <2>2, RankGrows
<1>5. QED
  BY <1>1, <1>2, <1>4 DEF Permutes

\* The sorted list has the VRAM of the caller's.
LEMMA SortKeepsTotal ==
    ASSUME NEW nodes \in Seq(Node), NEW v \in [Node -> Nat],
           NEW s \in StableDescending(nodes, v), IsInjective(nodes)
    PROVE  TotalVramOf(s, v) = Available(nodes, v)
<1> DEFINE D == DOMAIN nodes
           g == [i \in D |-> v[nodes[i]]]
           f == [i \in D |-> v[s[i]]]
<1>1. PICK p : Permutes(p, nodes, v, s)
  BY SortPermutes
<1>2. IsFiniteSet(D) /\ D = DOMAIN s
  <2>1. D = 1..Len(nodes) /\ Len(nodes) \in Nat
    OBVIOUS
  <2>2. QED
    BY <1>1, <2>1, FS_Interval DEF Permutes
<1>4. \A i \in D : g[i] \in Int /\ f[i] = g[p[i]]
  BY <1>1 DEF Permutes
<1>5. TotalVramOf(s, v) = Total(f, D)
  <2>1. s \in Seq(Node)
    BY SortKeeps
  <2>2. QED
    BY <1>2, <2>1, ListTotal
<1>6. Available(nodes, v) = Total(g, D)
  BY ListTotal
<1> HIDE DEF g, f, D
<1>7. Total(f, D) = Total(g, D)
  <2>0. /\ \A x \in D : g[x] \in Int
        /\ \A x \in D : f[x] = g[p[x]]
    BY <1>4
  <2>1. /\ p \in [D -> D] /\ \A i, j \in D : p[i] = p[j] => i = j
        /\ \A j \in D : \E i \in D : p[i] = j
    BY <1>1 DEF D, Permutes
  <2>2. QED
    BY <1>2, <2>0, <2>1, TotalPermuted
<1>8. QED
  BY <1>5, <1>6, <1>7

\* The layers that the first nodes have room for.
LEMMA CoveredAdds ==
    ASSUME NEW list \in Seq(Node), NEW v \in [Node -> Nat], NEW m \in ModelSpecs
    PROVE  /\ \A k \in 1..Len(list) : Layers(list, v, m, k) \in Nat
           /\ Covered(list, v, m)[0] = 0
           /\ \A k \in 1..Len(list) :
                 Covered(list, v, m)[k] = Covered(list, v, m)[k - 1] + Layers(list, v, m, k)
<1> DEFINE n == Len(list)
           g == [k \in 1..n |-> Layers(list, v, m, k)]
           Adds(h) == h = [k \in 0..n |-> IF k = 0 THEN 0
                                          ELSE h[k - 1] + Layers(list, v, m, k)]
           sum == CHOOSE h : Adds(h)
<1>1. ASSUME NEW k \in 1..n
      PROVE  Layers(list, v, m, k) \in Nat
  <2>1. v[list[k]] \in Nat /\ v[list[1]] \in Nat
    OBVIOUS
  <2>2. m.vram_per_layer \in Nat \ {0} /\ m.context_vram \in Nat
    BY DEF ModelSpecs
  <2>3. \A u \in Int : u >= m.vram_per_layer => u \div m.vram_per_layer \in Nat
    <3>1. SUFFICES ASSUME NEW u \in Int, u >= m.vram_per_layer
                   PROVE  u \div m.vram_per_layer \in Nat
      OBVIOUS
    <3>2. u \in Nat
      BY <2>2, <3>1
    <3>3. QED
      BY <2>2, <3>2, DivisionFits
  <2>4. QED
    BY <2>1, <2>2, <2>3 DEF Layers
<1>2. Covered(list, v, m) = sum
  BY DEF Covered
<1>3. ASSUME NEW h
      PROVE  IsRunningSum(h, g, n) => Adds(h)
  <2>1. \A k \in 0..n : k # 0 => k \in 1..n /\ g[k] = Layers(list, v, m, k)
    OBVIOUS
  <2> HIDE DEF g
  <2>2. [k \in 0..n |-> IF k = 0 THEN 0 ELSE h[k - 1] + Layers(list, v, m, k)]
        = [k \in 0..n |-> IF k = 0 THEN 0 ELSE h[k - 1] + g[k]]
    BY <2>1
  <2>3. QED
    BY <2>2 DEF IsRunningSum
<1>4. \E h : Adds(h)
  <2> HIDE DEF Adds, g
  <2>1. n \in Nat
    OBVIOUS
  <2>2. QED
    BY <1>3, <2>1, RunningSumExists
<1>5. Adds(sum)
  <2> HIDE DEF Adds
  <2>1. QED
    BY <1>4
<1>6. sum = [k \in 0..n |-> IF k = 0 THEN 0 ELSE sum[k - 1] + Layers(list, v, m, k)]
  BY <1>5
<1> HIDE DEF sum, Adds, g
<1>7. sum[0] = 0 /\ \A k \in 1..n : sum[k] = sum[k - 1] + Layers(list, v, m, k)
  BY <1>6
<1>8. QED
  BY <1>1, <1>2, <1>7

LEMMA CoveredGrows ==
    ASSUME NEW list \in Seq(Node), NEW v \in [Node -> Nat], NEW m \in ModelSpecs
    PROVE  /\ \A k \in 0..Len(list) : Covered(list, v, m)[k] \in Nat
           /\ \A i, j \in 0..Len(list) :
                 i <= j => Covered(list, v, m)[i] <= Covered(list, v, m)[j]
<1> PICK n \in Nat : n = Len(list)
  OBVIOUS
<1> PICK c : c = Covered(list, v, m)
  OBVIOUS
<1> DEFINE N == {j \in Nat : j <= n => /\ c[j] \in Nat
                                       /\ \A i \in 0..j : c[i] \in Nat /\ c[i] <= c[j]}
<1>1. c[0] = 0 /\ \A j \in 0..n - 1 : \E l \in Nat : c[j + 1] = c[j] + l
  <2>1. /\ c[0] = 0
        /\ \A k \in 1..n : c[k] = c[k - 1] + Layers(list, v, m, k)
        /\ \A k \in 1..n : Layers(list, v, m, k) \in Nat
    BY CoveredAdds
  <2>2. \A k \in 1..n : \E l \in Nat : c[k] = c[k - 1] + l
    BY <2>1
  <2>3. \A j \in 0..n - 1 : j + 1 \in 1..n /\ (j + 1) - 1 = j
    OBVIOUS
  <2>4. QED
    BY <2>1, <2>2, <2>3
<1>2. 0 \in N
  BY <1>1
<1>3. ASSUME NEW j \in Nat, j \in N
      PROVE  j + 1 \in N
  <2> SUFFICES ASSUME j + 1 <= n PROVE /\ c[j + 1] \in Nat
                                    /\ \A i \in 0..j + 1 : c[i] \in Nat /\ c[i] <= c[j + 1]
    OBVIOUS
  <2>1. c[j] \in Nat /\ \A i \in 0..j : c[i] \in Nat /\ c[i] <= c[j]
    BY <1>3
  <2>2. PICK l \in Nat : c[j + 1] = c[j] + l
    BY <1>1
  <2>3. QED
    BY <2>1, <2>2
<1> HIDE DEF N
<1>4. \A j \in Nat : j \in N
  BY <1>2, <1>3, NatInductive
<1>5. QED
  BY <1>4 DEF N

-----------------------------------------------------------------------------
\* The positions that the loop has passed and that became stages.
Passed == {k \in 1..next - 1 : /\ Layers(order, vram, spec, k) > 0
                               /\ Covered(order, vram, spec)[k - 1] < spec.total_layers}

\* What the loop has done is what the closed form says of the part of the list it
\* has passed.
GreedySoFar ==
    /\ pc = "insufficient" => Available(offered, vram) < TotalVram(spec)
    /\ pc = "no_nodes" => offered = <<>>
    /\ pc = "uncovered" => cursor < spec.total_layers /\ next = Len(order) + 1
    /\ pc \in {"loop", "planned", "uncovered"} =>
          /\ offered # <<>> /\ Available(offered, vram) >= TotalVram(spec)
          /\ order \in StableDescending(offered, vram)
          /\ LET covered == Covered(order, vram, spec)[next - 1]
             IN  cursor = IF covered <= spec.total_layers THEN covered ELSE spec.total_layers
          /\ Len(assignments) = Cardinality(Passed)
          /\ \A k \in Passed :
                assignments[Cardinality({j \in Passed : j <= k})].node = order[k]

\* Counting the elements of a set up to one of them, when a larger one is added.
LEMMA CountAppend ==
    ASSUME NEW S \in SUBSET Nat, IsFiniteSet(S), NEW n \in Nat, \A j \in S : j < n
    PROVE  /\ Cardinality(S) \in Nat /\ Cardinality(S \cup {n}) = Cardinality(S) + 1
           /\ \A k \in S : Cardinality({j \in S \cup {n} : j <= k}) = Cardinality({j \in S : j <= k})
           /\ Cardinality({j \in S \cup {n} : j <= n}) = Cardinality(S) + 1
           /\ \A k \in S : Cardinality({j \in S : j <= k}) \in 1..Cardinality(S)
<1>1. Cardinality(S) \in Nat /\ Cardinality(S \cup {n}) = Cardinality(S) + 1
  <2>1. n \notin S
    OBVIOUS
  <2>2. QED
    BY <2>1, FS_AddElement, FS_CardinalityType
<1>2. \A k \in S : {j \in S \cup {n} : j <= k} = {j \in S : j <= k}
  OBVIOUS
<1>3. {j \in S \cup {n} : j <= n} = S \cup {n}
  <2>1. \A j \in S \cup {n} : j <= n
    OBVIOUS
  <2>2. QED
    BY <2>1
<1>4. ASSUME NEW k \in S
      PROVE  Cardinality({j \in S : j <= k}) \in 1..Cardinality(S)
  <2> DEFINE T == {j \in S : j <= k}
  <2>1. T \in SUBSET S /\ k \in T
    OBVIOUS
  <2> HIDE DEF T
  <2>2. IsFiniteSet(T) /\ Cardinality(T) \in Nat /\ Cardinality(T) <= Cardinality(S)
    BY <2>1, FS_Subset, FS_CardinalityType
  <2>3. Cardinality(T) # 0
    BY <2>1, <2>2, FS_EmptySet
  <2>4. Cardinality(T) \in 1..Cardinality(S)
    BY <1>1, <2>2, <2>3
  <2>5. QED
    BY <2>4 DEF T
<1>5. QED
  BY <1>1, <1>2, <1>3, <1>4

LEMMA PassedIs ==
    ASSUME TypeOK
    PROVE  /\ Passed \in SUBSET Nat /\ IsFiniteSet(Passed) /\ Cardinality(Passed) \in Nat
           /\ \A k \in Passed : k < next
<1> PICK n \in Nat : n = next - 1
  BY DEF TypeOK
<1>1. Passed \in SUBSET (1..n)
  BY DEF Passed
<1>2. IsFiniteSet(1..n)
  BY FS_Interval
<1>3. IsFiniteSet(Passed) /\ Cardinality(Passed) \in Nat
  BY <1>1, <1>2, FS_Subset, FS_CardinalityType
<1>4. \A k \in 1..n : k \in Nat /\ k < next
  BY DEF TypeOK
<1>5. QED
  BY <1>1, <1>3, <1>4

\* The room of the node that the loop visits is that of the closed form.
LEMMA RoomIs ==
    ASSUME Inv, InLoop
    PROVE  /\ Usable < spec.vram_per_layer => Layers(order, vram, spec, next) = 0
           /\ Usable >= spec.vram_per_layer =>
                 /\ Layers(order, vram, spec, next) = Usable \div spec.vram_per_layer
                 /\ Layers(order, vram, spec, next) > 0
                 /\ (\A v \in Vram : v < LayerModulus) =>
                       MaxLayers = Layers(order, vram, spec, next)
<1>1. /\ spec.vram_per_layer \in Nat \ {0} /\ spec.context_vram \in Nat
      /\ order[next] \in Node /\ vram[order[next]] \in Nat
  BY InLoopTypes DEF Inv
<1> DEFINE room == IF next = 1 THEN vram[order[1]] - spec.context_vram ELSE vram[order[next]]
<1>2. room \in Int /\ Usable = IF room >= 0 THEN room ELSE 0
  BY <1>1 DEF Inv, ReserveOnce, Usable, SaturatingSub
<1>3. Layers(order, vram, spec, next) =
         IF room < spec.vram_per_layer THEN 0 ELSE room \div spec.vram_per_layer
  BY DEF Layers
<1> HIDE DEF room
<1>4. ASSUME Usable < spec.vram_per_layer
      PROVE  Layers(order, vram, spec, next) = 0
  BY <1>1, <1>2, <1>3, <1>4
<1>5. ASSUME Usable >= spec.vram_per_layer
      PROVE  /\ Layers(order, vram, spec, next) = Usable \div spec.vram_per_layer
             /\ Layers(order, vram, spec, next) > 0
             /\ (\A v \in Vram : v < LayerModulus) =>
                   MaxLayers = Layers(order, vram, spec, next)
  <2>1. room = Usable /\ room \in Nat /\ ~(room < spec.vram_per_layer)
    BY <1>1, <1>2, <1>5
  <2>2. Layers(order, vram, spec, next) = Usable \div spec.vram_per_layer
    BY <1>3, <2>1
  <2>3. 1 * spec.vram_per_layer <= Usable /\ Usable \in Nat
    BY <1>1, <1>5, <2>1
  <2>4. 1 <= Usable \div spec.vram_per_layer /\ Usable \div spec.vram_per_layer \in Nat
    BY <1>1, <2>3, DivisionReaches, DivisionFits
  <2>5. ASSUME \A v \in Vram : v < LayerModulus
        PROVE  MaxLayers = Usable \div spec.vram_per_layer
    <3>1. vram[order[next]] \in Vram
      BY <1>1 DEF Inv, TypeOK
    <3>2. vram[order[next]] < LayerModulus
      BY <2>5, <3>1
    <3>3. Usable <= vram[order[next]]
      BY <1>1, <1>2, <2>1 DEF room
    <3>4. Usable \div spec.vram_per_layer < LayerModulus
      BY <1>1, <2>3, <2>4, <3>2, <3>3, DivisionShrinks, ModulusAssumption
    <3>5. QED
      BY <2>4, <3>4, ModulusAssumption, ModuloKeeps DEF MaxLayers
  <2>6. QED
    BY <2>2, <2>4, <2>5
<1>6. QED
  BY <1>4, <1>5

\* Each stage of the plan has a layer at least, where no number of them is truncated.
StagesHaveLayers ==
    \A i \in DOMAIN assignments : assignments[i].vram_required >= spec.vram_per_layer

LEMMA StagesHaveLayersKept ==
    ASSUME \A v \in Vram : v < LayerModulus, Inv, StagesHaveLayers, [Next]_vars
    PROVE  StagesHaveLayers'
<1>1. ASSUME PlaceLayers
      PROVE  StagesHaveLayers'
  <2>1. /\ InLoop /\ TypeOK /\ Usable >= spec.vram_per_layer /\ spec' = spec
        /\ cursor < spec.total_layers
    BY <1>1 DEF PlaceLayers, InLoop, Inv, input
  <2>2. /\ spec \in ModelSpecs /\ spec.total_layers \in Nat /\ spec.vram_per_layer \in Nat
        /\ cursor \in 0..spec.total_layers /\ order \in Seq(Node) /\ next \in 1..Len(order)
        /\ vram \in [Node -> Nat]
    BY <2>1, InLoopTypes, VramAssumption DEF TypeOK
  <2>3. MaxLayers \in Nat /\ MaxLayers >= 1
    <3>1. MaxLayers = Layers(order, vram, spec, next) /\ MaxLayers > 0
      BY <1>1, <2>1, RoomIs
    <3>2. MaxLayers \in Nat
      BY <2>2, <3>1, CoveredAdds
    <3>3. QED
      BY <3>1, <3>2
  <2>4. Assigned \in Nat /\ Assigned >= 1
    BY <2>1, <2>2, <2>3 DEF Assigned
  <2>5. Assigned * spec.vram_per_layer >= spec.vram_per_layer
    <3>1. 1 * spec.vram_per_layer <= Assigned * spec.vram_per_layer
      BY <2>2, <2>4, ProductMonotone
    <3>2. QED
      BY <2>2, <2>4, <3>1
  <2>6. PICK new \in ShardAssignment :
            /\ new.vram_required = Assigned * spec.vram_per_layer
            /\ assignments' = Append(assignments, new)
    <3>1. Assigned * spec.vram_per_layer \in Nat /\ order[next] \in Node
      BY <2>1, AssignedFits, InLoopTypes
    <3>2. cursor \in Nat /\ cursor + Assigned \in Nat
      BY <2>2, <2>4
    <3>3. QED
      BY <1>1, <3>1, <3>2 DEF PlaceLayers, ShardAssignment
  <2>7. assignments \in Seq(ShardAssignment)
    BY <2>1 DEF TypeOK
  <2>8. \A i \in DOMAIN assignments' :
            \/ i \in DOMAIN assignments /\ assignments'[i] = assignments[i]
            \/ assignments'[i] = new
    BY <2>6, <2>7
  <2>9. QED
    BY <2>1, <2>5, <2>6, <2>8 DEF StagesHaveLayers
<1>2. ASSUME UNCHANGED <<spec, assignments>>
      PROVE  StagesHaveLayers'
  BY <1>2 DEF StagesHaveLayers
<1>3. PlaceLayers \/ UNCHANGED <<spec, assignments>>
  BY DEF Next, RejectEmpty, RejectSmall, Sort, SkipNode, Finish, Done, vars, input
<1>4. QED
  BY <1>1, <1>2, <1>3

\* A controller that has room for the context is a node that can hold it beside a layer.
LEMMA RoomIsOnOffer ==
    ASSUME Inv, StagesHaveLayers, pc = "planned", ContextOnController
    PROVE  ContextFits
<1>1. /\ 1 \in DOMAIN assignments /\ assignments \in Seq(ShardAssignment)
      /\ spec \in ModelSpecs /\ offered \in Seq(Node) /\ vram \in [Node -> Nat]
  BY PlanHasController, ModelAssumption, VramAssumption DEF Inv, TypeOK
<1> DEFINE a == assignments[1]
<1>2. /\ a.vram_required \in Nat /\ a.node \in Node /\ vram[a.node] \in Nat
      /\ spec.context_vram \in Nat /\ spec.vram_per_layer \in Nat
  <2>1. a \in ShardAssignment
    BY <1>1
  <2>2. QED
    BY <1>1, <2>1 DEF ShardAssignment, ModelSpecs
<1>3. a.vram_required >= spec.vram_per_layer /\ a.vram_required + spec.context_vram <= vram[a.node]
  BY <1>1 DEF StagesHaveLayers, ContextOnController
<1>4. a.node \in Range(offered)
  <2>1. PICK k \in DOMAIN order : a.node = order[k]
    BY <1>1 DEF Inv, PlacedBefore
  <2>2. order \in StableDescending(offered, vram)
    BY <2>1 DEF Inv, OrderSorted
  <2>3. PICK p : Permutes(p, offered, vram, order)
    BY <1>1, <2>2, SortPermutes
  <2>4. k \in DOMAIN offered /\ order[k] = offered[p[k]] /\ p[k] \in DOMAIN offered
    BY <2>3 DEF Permutes
  <2>5. QED
    BY <2>1, <2>4 DEF Range
<1> HIDE DEF a
<1>5. vram[a.node] >= spec.context_vram + spec.vram_per_layer
  BY <1>2, <1>3
<1>6. QED
  BY <1>4, <1>5 DEF ContextFits

\* No node is given more layers than it has room for, nor two stages, and the
\* controller can hold the context beside its own exactly if some node on offer could
\* (planner.rs:71-77, 97-131; registry.rs:11).
THEOREM NoOvercommit ==
    ASSUME \A v \in Vram : v < LayerModulus
    PROVE  Spec => []WithinVram
<1>1. Init => StagesHaveLayers
  BY DEF Init, StagesHaveLayers
<1>2. Inv /\ StagesHaveLayers /\ [Next]_vars => StagesHaveLayers'
  BY StagesHaveLayersKept
<1>3. Inv /\ StagesHaveLayers => WithinVram
  <2> SUFFICES ASSUME Inv, StagesHaveLayers PROVE WithinVram
    OBVIOUS
  <2>1. ASSUME pc = "planned", ContextFits PROVE ContextOnController
    <3>1. 1 \in DOMAIN assignments
      BY <2>1, PlanHasController
    <3>2. QED
      BY <2>1, <3>1 DEF Inv, StagesFit, ContextOnController
  <2>2. ASSUME pc = "planned", ContextOnController PROVE ContextFits
    BY <2>2, RoomIsOnOffer
  <2>3. ContextPlaced
    BY <2>1, <2>2 DEF ContextPlaced
  <2>4. QED
    BY <2>3 DEF Inv, WithinVram
<1>4. QED
  BY <1>1, <1>2, <1>3, Invariance, PTL DEF Spec

\* One iteration: the layers it places are those of the closed form, or as many as
\* remain, and its node becomes a stage if it gets any.
LEMMA GreedyVisit ==
    ASSUME Inv, GreedySoFar, SkipNode \/ PlaceLayers, \A v \in Vram : v < LayerModulus
    PROVE  GreedySoFar'
<1> DEFINE total == spec.total_layers
<1>1. /\ InLoop /\ TypeOK /\ pc = "loop" /\ UNCHANGED <<spec, offered, vram, pc, order>>
      /\ next' = next + 1
  BY DEF Inv, SkipNode, PlaceLayers, InLoop, input
<1>2. /\ spec \in ModelSpecs /\ total \in Nat /\ vram \in [Node -> Nat]
      /\ order \in Seq(Node) /\ next \in 1..Len(order) /\ cursor \in 0..total
      /\ assignments \in Seq(ShardAssignment) /\ cursor < total
  <2>1. spec \in ModelSpecs /\ order \in Seq(Node) /\ next \in 1..Len(order) /\ cursor \in 0..total
    BY <1>1, InLoopTypes
  <2>2. vram \in [Node -> Nat] /\ assignments \in Seq(ShardAssignment) /\ cursor < total
    BY <1>1, VramAssumption DEF TypeOK, InLoop
  <2>3. QED
    BY <2>1, <2>2 DEF ModelSpecs
<1> PICK c : c = Covered(order, vram, spec)
  OBVIOUS
<1> PICK l \in Nat : l = Layers(order, vram, spec, next)
  BY <1>2, CoveredAdds
<1>3. c[next] = c[next - 1] + l /\ c[next - 1] \in Nat
  <2>1. next - 1 \in 0..Len(order)
    BY <1>2
  <2>2. QED
    BY <1>2, <2>1, CoveredAdds, CoveredGrows
<1>4. /\ cursor = IF c[next - 1] <= total THEN c[next - 1] ELSE total
      /\ Len(assignments) = Cardinality(Passed)
      /\ \A k \in Passed : assignments[Cardinality({j \in Passed : j <= k})].node = order[k]
      /\ offered # <<>> /\ Available(offered, vram) >= TotalVram(spec)
      /\ order \in StableDescending(offered, vram)
  BY <1>1 DEF GreedySoFar
<1>5. cursor = c[next - 1] /\ c[next - 1] < total
  BY <1>2, <1>3, <1>4
<1> DEFINE S == Passed
<1>6. /\ S \in SUBSET Nat /\ IsFiniteSet(S) /\ Cardinality(S) \in Nat
      /\ \A k \in S : k < next
  BY <1>1, PassedIs
<1>7. Passed' = IF l > 0 THEN S \cup {next} ELSE S
  <2>1. \A k : k \in 1..next' - 1 <=> k \in 1..next - 1 \/ k = next
    BY <1>1, <1>2
  <2>2. \A k : k \in Passed' <=> /\ k \in 1..next' - 1
                                /\ Layers(order, vram, spec, k) > 0
                                /\ c[k - 1] < total
    BY <1>1 DEF Passed
  <2>3. \A k : k \in S <=> /\ k \in 1..next - 1
                          /\ Layers(order, vram, spec, k) > 0
                          /\ c[k - 1] < total
    BY DEF Passed
  <2>4. ASSUME NEW k PROVE k \in Passed' <=> k \in S \/ (k = next /\ l > 0)
    BY <1>5, <2>1, <2>2, <2>3
  <2> HIDE DEF S
  <2>5. QED
    BY <2>4
<1>8. (Covered(order, vram, spec)[next - 1])' = c[next]
  <2>1. next' - 1 = next
    BY <1>1, <1>2
  <2>2. QED
    BY <1>1, <2>1
<1>9. SUFFICES
        /\ cursor' = IF c[next] <= total THEN c[next] ELSE total
        /\ Len(assignments') = Cardinality(Passed')
        /\ \A k \in Passed' : assignments'[Cardinality({j \in Passed' : j <= k})].node = order[k]
  BY <1>1, <1>4, <1>8 DEF GreedySoFar
<1>10. CASE SkipNode
  <2>1. Usable < spec.vram_per_layer /\ cursor' = cursor /\ assignments' = assignments
    BY <1>10 DEF SkipNode
  <2>2. l = 0
    BY <1>1, <2>1, RoomIs
  <2>3. Passed' = Passed
    BY <1>7, <2>2
  <2>4. cursor' = IF c[next] <= total THEN c[next] ELSE total
    <3>1. c[next] = c[next - 1]
      BY <1>3, <2>2
    <3>2. c[next] <= total
      BY <1>2, <1>3, <1>5, <3>1
    <3>3. QED
      BY <1>5, <2>1, <3>1, <3>2
  <2>5. QED
    BY <1>4, <2>1, <2>3, <2>4
<1>11. CASE PlaceLayers
  <2>1. /\ Usable >= spec.vram_per_layer /\ cursor' = cursor + Assigned
        /\ \E a : assignments' = Append(assignments, a) /\ a.node = order[next]
    BY <1>11 DEF PlaceLayers
  <2>2. l > 0 /\ MaxLayers = l
    BY <1>1, <2>1, RoomIs
  <2>3. Assigned = IF l <= total - cursor THEN l ELSE total - cursor
    BY <2>2 DEF Assigned
  <2>4. cursor' = IF c[next] <= total THEN c[next] ELSE total
    <3>1. PICK x \in Nat : x = c[next - 1]
      BY <1>3
    <3>2. /\ c[next] = x + l /\ x < total /\ cursor = x
          /\ cursor' = x + IF l <= total - x THEN l ELSE total - x
      BY <1>3, <1>5, <2>1, <2>3, <3>1
    <3>3. cursor' = IF x + l <= total THEN x + l ELSE total
      BY <1>2, <3>2
    <3>4. QED
      BY <3>2, <3>3
  <2>5. Passed' = S \cup {next}
    BY <1>7, <2>2
  <2>6. PICK a : assignments' = Append(assignments, a) /\ a.node = order[next]
    BY <2>1
  <2>7. PICK n \in Nat : n = Len(assignments)
    BY <1>2
  <2>8. /\ Len(assignments') = n + 1 /\ assignments'[n + 1] = a
        /\ \A i \in 1..n : assignments'[i] = assignments[i]
    BY <1>2, <2>6, <2>7
  <2>9. Cardinality(S) = n
    BY <1>4, <2>7
  <2>10. \A k \in S : assignments[Cardinality({j \in S : j <= k})].node = order[k]
    BY <1>4
  <2> HIDE DEF S
  <2>11. /\ Cardinality(S \cup {next}) = n + 1
         /\ \A k \in S : Cardinality({j \in S \cup {next} : j <= k}) = Cardinality({j \in S : j <= k})
         /\ Cardinality({j \in S \cup {next} : j <= next}) = n + 1
         /\ \A k \in S : Cardinality({j \in S : j <= k}) \in 1..n
    <3>1. PICK x \in Nat : x = next
      BY <1>2
    <3>2. QED
      BY <1>6, <2>9, <3>1, CountAppend
  <2>12. ASSUME NEW k \in S \cup {next}
         PROVE  assignments'[Cardinality({j \in S \cup {next} : j <= k})].node = order[k]
    <3>1. CASE k \in S
      BY <2>8, <2>10, <2>11, <3>1
    <3>2. CASE k = next
      BY <2>6, <2>8, <2>11, <3>2
    <3>3. QED
      BY <3>1, <3>2
  <2>13. QED
    BY <2>4, <2>5, <2>8, <2>11, <2>12
<1>12. QED
  BY <1>10, <1>11

LEMMA GreedyNext ==
    ASSUME Inv, GreedySoFar, [Next]_vars, \A v \in Vram : v < LayerModulus
    PROVE  GreedySoFar'
<1> USE DEF input
<1>1. CASE RejectEmpty
  BY <1>1 DEF RejectEmpty, GreedySoFar
<1>2. CASE RejectSmall
  BY <1>2 DEF RejectSmall, GreedySoFar
<1>3. CASE Sort
  <2>1. /\ next' = 1 /\ cursor' = 0 /\ assignments' = <<>> /\ pc' = "loop"
        /\ offered' # <<>> /\ Available(offered, vram)' >= TotalVram(spec)'
        /\ order' \in StableDescending(offered, vram)'
        /\ UNCHANGED <<vram, spec>>
    BY <1>3 DEF Sort, Inv, NothingYet
  <2>2. order' \in Seq(Node) /\ vram \in [Node -> Nat] /\ spec \in ModelSpecs
    <3>1. order' \in Seq(Node)
      BY <1>3, SortKeeps DEF Sort, Inv, TypeOK
    <3>2. QED
      BY <3>1, VramAssumption, ModelAssumption DEF Inv, TypeOK
  <2>3. Covered(order', vram, spec)[0] = 0 /\ spec.total_layers \in Nat
    <3>1. PICK o \in Seq(Node) : o = order'
      BY <2>2
    <3>2. QED
      BY <2>2, <3>1, CoveredAdds DEF ModelSpecs
  <2>4. (Covered(order, vram, spec)[next - 1])' = 0 /\ spec'.total_layers \in Nat
    BY <2>1, <2>3
  <2>5. Passed' = {}
    BY <2>1 DEF Passed
  <2>6. Cardinality({}) = 0
    BY FS_EmptySet
  <2>7. QED
    BY <2>1, <2>4, <2>5, <2>6 DEF GreedySoFar
<1>4. CASE SkipNode \/ PlaceLayers
  BY <1>4, GreedyVisit
<1>5. CASE Finish
  <2>1. UNCHANGED <<spec, offered, vram, order, next, cursor, assignments>> /\ pc = "loop"
    BY <1>5 DEF Finish
  <2>2. Passed' = Passed
    BY <2>1 DEF Passed
  <2>3. next \in 1..Len(order) + 1 /\ Len(order) \in Nat
    BY DEF Inv, TypeOK
  <2>4. pc' \in {"planned", "uncovered"}
        /\ (pc' = "uncovered" => cursor < spec.total_layers /\ next = Len(order) + 1)
    <3>1. cursor \in Nat /\ spec.total_layers \in Nat
      BY ModelAssumption DEF Inv, TypeOK, ModelSpecs
    <3>2. QED
      BY <1>5, <2>3, <3>1 DEF Finish
  <2>5. QED
    BY <2>1, <2>2, <2>4 DEF GreedySoFar
<1>6. CASE Done \/ UNCHANGED vars
  <2>1. UNCHANGED <<spec, offered, vram, pc, order, next, cursor, assignments>>
    BY <1>6 DEF Done, vars
  <2>2. Passed' = Passed
    BY <2>1 DEF Passed
  <2>3. QED
    BY <2>1, <2>2 DEF GreedySoFar
<1>7. QED
  BY <1>1, <1>2, <1>3, <1>4, <1>5, <1>6 DEF Next

\* Once the cursor has reached the last layer the stages passed are all stages.
LEMMA PlanIs ==
    ASSUME Inv, GreedySoFar, pc = "planned"
    PROVE  GreedyNodes(order, vram, spec) = [i \in DOMAIN assignments |-> assignments[i].node]
<1> DEFINE total == spec.total_layers
<1>1. /\ spec \in ModelSpecs /\ vram \in [Node -> Nat] /\ order \in Seq(Node)
      /\ offered \in Seq(Node) /\ IsInjective(offered)
      /\ next \in 1..Len(order) + 1 /\ cursor = total /\ total \in Nat
      /\ assignments \in Seq(ShardAssignment) /\ TypeOK
  BY VramAssumption, ModelAssumption DEF Inv, TypeOK, EveryLayerOnce, ModelSpecs
<1> PICK c : c = Covered(order, vram, spec)
  OBVIOUS
<1> PICK n \in Nat : n = Len(order) /\ DOMAIN order = 1..n
  BY <1>1
<1>2. /\ cursor = IF c[next - 1] <= total THEN c[next - 1] ELSE total
      /\ Len(assignments) = Cardinality(Passed)
      /\ \A k \in Passed : assignments[Cardinality({j \in Passed : j <= k})].node = order[k]
      /\ offered # <<>> /\ Available(offered, vram) >= TotalVram(spec)
      /\ order \in StableDescending(offered, vram)
  BY DEF GreedySoFar
<1>3. /\ \A i \in 0..n : c[i] \in Nat
      /\ \A i, j \in 0..n : i <= j => c[i] <= c[j]
  BY <1>1, CoveredGrows
<1>4. c[next - 1] >= total
  BY <1>1, <1>2, <1>3
<1>5. Places(order, vram, spec)
  <2>1. order # <<>>
    <3>1. Len(order) = Len(offered)
      BY <1>1, <1>2, SortKeeps
    <3>2. QED
      BY <1>1, <1>2, <3>1
  <2>2. TotalVramOf(order, vram) >= TotalVram(spec)
    BY <1>1, <1>2, SortKeepsTotal
  <2>3. c[n] >= total
    <3>1. n \in 0..n /\ next - 1 \in 0..n /\ next - 1 <= n
      BY <1>1
    <3>2. c[next - 1] <= c[n] /\ c[next - 1] \in Nat /\ c[n] \in Nat
      BY <1>3, <3>1
    <3>3. QED
      BY <1>1, <1>4, <3>2
  <2>4. QED
    BY <2>1, <2>2, <2>3 DEF Places, TotalVram
<1>6. Stages(order, vram, spec) = Passed
  <2>1. ASSUME NEW k \in 1..n, c[k - 1] < total
        PROVE  k \in 1..next - 1
    <3>1. SUFFICES ASSUME next <= k PROVE FALSE
      BY <1>1
    <3>2. next - 1 \in 0..n /\ k - 1 \in 0..n /\ next - 1 <= k - 1
      BY <1>1, <3>1
    <3>3. c[next - 1] <= c[k - 1] /\ c[next - 1] \in Nat /\ c[k - 1] \in Nat
      BY <1>3, <3>2
    <3>4. QED
      BY <1>1, <1>4, <2>1, <3>3
  <2>2. \A k : k \in 1..next - 1 => k \in 1..n
    BY <1>1
  <2>3. \A k : k \in Stages(order, vram, spec) <=>
              k \in 1..n /\ Layers(order, vram, spec, k) > 0 /\ c[k - 1] < total
    BY DEF Stages
  <2>4. \A k : k \in Passed <=>
              k \in 1..next - 1 /\ Layers(order, vram, spec, k) > 0 /\ c[k - 1] < total
    BY DEF Passed
  <2>5. QED
    BY <2>1, <2>2, <2>3, <2>4
<1> DEFINE S == Passed
           count(k) == Cardinality({j \in S : j <= k})
           nth(i) == CHOOSE k \in S : count(k) = i
<1>7. S \in SUBSET Nat /\ IsFiniteSet(S) /\ Cardinality(S) \in Nat
  BY <1>1, PassedIs
<1>8. GreedyNodes(order, vram, spec) = [i \in 1..Cardinality(S) |-> order[nth(i)]]
  BY <1>5, <1>6 DEF GreedyNodes
<1>9. DOMAIN assignments = 1..Cardinality(S)
  BY <1>1, <1>2
<1>10. ASSUME NEW i \in 1..Cardinality(S)
       PROVE  assignments[i].node = order[nth(i)]
  <2>1. \A k \in S : assignments[count(k)].node = order[k]
    BY <1>2
  <2>2. \E k \in S : count(k) = i
    <3> HIDE DEF S
    <3>1. QED
      BY <1>7, NthExists
  <2> HIDE DEF S, count
  <2>3. nth(i) \in S /\ count(nth(i)) = i
    BY <2>2
  <2>4. QED
    BY <2>1, <2>3
<1> HIDE DEF S, nth
<1>11. QED
  BY <1>8, <1>9, <1>10

LEMMA GreedyIsKept ==
    ASSUME Inv, GreedySoFar
    PROVE  PlanIsGreedy
<1> SUFFICES ASSUME Returned, offered # <<>>, NEW s \in StableDescending(offered, vram)
             PROVE  GreedyNodes(s, vram, spec) =
                       IF pc = "planned" THEN [i \in DOMAIN assignments |-> assignments[i].node]
                       ELSE <<>>
  BY DEF PlanIsGreedy
<1>1. /\ spec \in ModelSpecs /\ vram \in [Node -> Nat] /\ offered \in Seq(Node)
      /\ IsInjective(offered) /\ order \in Seq(Node) /\ spec.total_layers \in Nat
  BY VramAssumption, ModelAssumption DEF Inv, TypeOK, ModelSpecs
<1>2. pc \in {"insufficient", "uncovered", "planned"}
  BY DEF Returned, GreedySoFar
<1>3. CASE pc = "planned"
  <2>1. s = order
    BY <1>1, <1>3, SortIsUnique DEF GreedySoFar
  <2>2. QED
    BY <1>3, <2>1, PlanIs
<1>4. CASE pc = "insufficient"
  <2>1. TotalVramOf(s, vram) = Available(offered, vram)
    BY <1>1, SortKeepsTotal
  <2>2. Available(offered, vram) < TotalVram(spec)
    BY <1>4 DEF GreedySoFar
  <2>3. Available(offered, vram) \in Int /\ TotalVram(spec) \in Int
    <3>1. Available(offered, vram) \in Int
      BY <1>1, AvailableIsNat
    <3>2. QED
      BY <1>1, <3>1 DEF ModelSpecs, TotalVram
  <2>4. ~Places(s, vram, spec)
    BY <2>1, <2>2, <2>3 DEF Places, TotalVram
  <2>5. QED
    BY <1>4, <2>4 DEF GreedyNodes
<1>5. CASE pc = "uncovered"
  <2>1. s = order
    BY <1>1, <1>5, SortIsUnique DEF GreedySoFar
  <2>2. PICK c : c = Covered(order, vram, spec)
    OBVIOUS
  <2>3. /\ cursor < spec.total_layers /\ next = Len(order) + 1
        /\ cursor = IF c[next - 1] <= spec.total_layers THEN c[next - 1]
                    ELSE spec.total_layers
    BY <1>5, <2>2 DEF GreedySoFar
  <2>4. next - 1 = Len(order) /\ Len(order) \in 0..Len(order)
    BY <1>1, <2>3
  <2>5. c[Len(order)] \in Nat
    BY <1>1, <2>2, <2>4, CoveredGrows
  <2>6. c[Len(order)] < spec.total_layers
    BY <1>1, <2>3, <2>4, <2>5
  <2>7. ~Places(order, vram, spec)
    BY <1>1, <2>2, <2>5, <2>6 DEF Places
  <2>8. QED
    BY <1>5, <2>1, <2>7 DEF GreedyNodes
<1>6. QED
  BY <1>2, <1>3, <1>4, <1>5

\* The loop does what the closed form says, whatever is offered, as long as no
\* amount of VRAM outgrows the u32 of the layer count (planner.rs:78-147); so
\* Coordinator may take the one for the other (shard_coordinator.rs:222-231).
THEOREM LoopIsGreedy ==
    ASSUME \A v \in Vram : v < LayerModulus
    PROVE  Spec => []PlanIsGreedy
<1>1. Init => GreedySoFar
  BY DEF Init, GreedySoFar
<1>2. Inv /\ GreedySoFar /\ [Next]_vars => GreedySoFar'
  BY GreedyNext
<1>3. Inv /\ GreedySoFar => PlanIsGreedy
  BY GreedyIsKept
<1>4. QED
  BY <1>1, <1>2, <1>3, Invariance, PTL DEF Spec

-----------------------------------------------------------------------------
\* What a split of the layers adds up to.
LEMMA SplitTotal ==
    \A d : FoldFunction(LAMBDA a, b : a + b, 0, d) = Total(d, DOMAIN d)
  BY DEF FoldFunction, FoldFunctionOnSet, MapThenFoldSet, Total, IsSum, Pick

\* A split needs the VRAM of the whole model.
LEMMA SplitNeeds ==
    ASSUME TypeOK, NEW c \in DOMAIN offered, NEW d \in Splits(c)
    PROVE  Available(offered, vram) >= TotalVram(spec)
<1> PICK p \in Nat, x \in Nat : p = spec.vram_per_layer /\ x = spec.context_vram
  BY ModelAssumption DEF TypeOK, ModelSpecs
<1> DEFINE D == DOMAIN offered
           g == [i \in D |-> vram[offered[i]]]
           P == {T \in SUBSET D : Total(d, T) * p + (IF c \in T THEN x ELSE 0) <= Total(g, T)}
<1>1. IsFiniteSet(D)
  <2>1. D = 1..Len(offered) /\ Len(offered) \in Nat
    BY DEF TypeOK
  <2>2. QED
    BY <2>1, FS_Interval
<1>2. \A i \in D : g[i] \in Nat
  <2>1. offered \in Seq(Node) /\ vram \in [Node -> Nat]
    BY VramAssumption DEF TypeOK
  <2>2. \A i \in D : offered[i] \in Node
    BY <2>1
  <2>3. QED
    BY <2>1, <2>2
<1>3. /\ \A i \in D : d[i] \in Nat /\ d[i] * p + (IF i = c THEN x ELSE 0) <= g[i]
      /\ Total(d, D) = spec.total_layers
  <2>1. d \in [D -> 0..spec.total_layers] /\ spec.total_layers \in Nat
    BY ModelAssumption DEF Splits, TypeOK, ModelSpecs
  <2>2. Total(d, D) = spec.total_layers
    BY <2>1, SplitTotal DEF Splits
  <2>3. \A i \in D : d[i] * spec.vram_per_layer + (IF i = c THEN spec.context_vram ELSE 0)
                        <= vram[offered[i]]
    BY DEF Splits
  <2>4. \A i \in D : d[i] \in Nat /\ g[i] = vram[offered[i]]
    BY <2>1
  <2> HIDE DEF g
  <2>5. QED
    BY <2>2, <2>3, <2>4
<1>4. Available(offered, vram) = Total(g, D)
  BY ListTotal DEF TypeOK
<1> HIDE DEF g, D
<1>5. {} \in P
  <2>1. Total(d, {}) = 0 /\ Total(g, {}) = 0
    BY TotalUnfolds, FS_EmptySet
  <2>2. QED
    BY <2>1
<1>6. ASSUME NEW T \in SUBSET D, NEW i \in D, T \in P, i \notin T
      PROVE  T \cup {i} \in P
  <2>1. IsFiniteSet(T) /\ \A j \in T \cup {i} : d[j] \in Int /\ g[j] \in Int
    BY <1>1, <1>2, <1>3, FS_Subset
  <2>2. /\ Total(d, T) \in Int /\ Total(d, T \cup {i}) = d[i] + Total(d, T)
        /\ Total(g, T) \in Int /\ Total(g, T \cup {i}) = g[i] + Total(g, T)
    BY <1>6, <2>1, TotalAdd
  <2>3. PICK a \in Int, b \in Nat : a = Total(d, T) /\ b = d[i]
    BY <1>3, <2>2
  <2>4. /\ Total(d, T \cup {i}) * p = b * p + a * p
        /\ a * p \in Int /\ b * p \in Int
    <3>1. (b + a) * p = b * p + a * p /\ a * p \in Int /\ b * p \in Int
      OBVIOUS
    <3>2. QED
      BY <2>2, <2>3, <3>1
  <2>5. /\ a * p + (IF c \in T THEN x ELSE 0) <= Total(g, T)
        /\ b * p + (IF i = c THEN x ELSE 0) <= g[i]
    BY <1>3, <1>6, <2>3
  <2>6. g[i] \in Int
    BY <2>1
  <2>7. Total(d, T \cup {i}) * p + (IF c \in T \cup {i} THEN x ELSE 0) <= Total(g, T \cup {i})
    BY <1>6, <2>2, <2>4, <2>5, <2>6
  <2>8. QED
    BY <2>7
<1> HIDE DEF P
<1>7. \A T \in SUBSET D : T \in P
  BY <1>1, <1>5, <1>6, SubsetInductive
<1>8. Total(d, D) * p + (IF c \in D THEN x ELSE 0) <= Total(g, D)
  BY <1>7 DEF P
<1>9. spec.total_layers * p + x <= Total(g, D)
  BY <1>3, <1>8 DEF D
<1>10. Total(g, D) \in Nat /\ spec.total_layers * p + x \in Int
  <2>1. spec.total_layers \in Nat
    BY ModelAssumption DEF TypeOK, ModelSpecs
  <2>2. QED
    BY <1>1, <1>2, <2>1, TotalNat
<1>11. QED
  BY <1>4, <1>9, <1>10 DEF TotalVram

\* A sum of terms is no more than the running sum of larger ones.
LEMMA TotalBelow ==
    ASSUME NEW n \in Nat, NEW e, NEW c, NEW l, c[0] = 0,
           \A k \in 1..n : /\ e[k] \in Nat /\ l[k] \in Nat /\ e[k] <= l[k]
                           /\ c[k] = c[k - 1] + l[k],
           \A k \in 0..n : c[k] \in Nat
    PROVE  Total(e, 1..n) <= c[n]
<1> DEFINE N == {k \in Nat : k <= n => Total(e, 1..k) <= c[k]}
<1>1. 0 \in N
  <2>1. 1..0 = {} /\ Total(e, {}) = 0
    BY TotalUnfolds, FS_EmptySet
  <2>2. QED
    BY <2>1
<1>2. ASSUME NEW k \in Nat, k \in N
      PROVE  k + 1 \in N
  <2> SUFFICES ASSUME k + 1 <= n PROVE Total(e, 1..k + 1) <= c[k + 1]
    OBVIOUS
  <2>1. /\ 1..k + 1 = (1..k) \cup {k + 1} /\ k + 1 \notin 1..k
        /\ k + 1 \in 1..n /\ k \in 0..n /\ (k + 1) - 1 = k
    OBVIOUS
  <2>2. IsFiniteSet(1..k) /\ \A y \in (1..k) \cup {k + 1} : e[y] \in Int
    <3>1. \A y \in (1..k) \cup {k + 1} : y \in 1..n
      BY <2>1
    <3>2. \A y \in 1..n : e[y] \in Nat
      OBVIOUS
    <3>3. IsFiniteSet(1..k)
      BY FS_Interval
    <3>4. QED
      BY <3>1, <3>2, <3>3
  <2>3. PICK i \in Nat : i = k + 1
    OBVIOUS
  <2>4. Total(e, 1..k) \in Int /\ Total(e, (1..k) \cup {i}) = e[i] + Total(e, 1..k)
    BY <2>1, <2>2, <2>3, TotalAdd
  <2>5. Total(e, 1..k) <= c[k] /\ c[k] \in Nat
    BY <1>2, <2>1
  <2>6. e[i] \in Nat /\ l[i] \in Nat /\ e[i] <= l[i] /\ c[i] = c[k] + l[i]
    BY <2>1, <2>3
  <2>7. Total(e, (1..k) \cup {i}) <= c[i]
    BY <2>4, <2>5, <2>6
  <2>8. QED
    BY <2>1, <2>3, <2>7
<1> HIDE DEF N
<1>3. \A k \in Nat : k \in N
  BY <1>1, <1>2, NatInductive
<1>4. QED
  BY <1>3 DEF N

\* The largest node is the first of the sorted list.
LEMMA LargestFirst ==
    ASSUME TypeOK, NEW c \in DOMAIN offered, Largest(c), NEW s,
           NEW p, Permutes(p, offered, vram, s)
    PROVE  p[1] = c
<1> DEFINE D == DOMAIN offered
           R == SortPairs(offered, vram)
<1>1. offered \in Seq(Node) /\ vram \in [Node -> Nat]
  BY VramAssumption DEF TypeOK
<1>2. PICK n \in Nat : D = 1..n
  BY <1>1
<1>3. PICK i \in D : p[i] = c
  BY DEF Permutes
<1>4. 1 \in D /\ p[1] \in D
  BY <1>2, <1>3 DEF Permutes
<1>5. Orders(R, D)
  BY <1>1, SortOrders
<1>6. Rank(R, D, p[1]) = 0 /\ Rank(R, D, c) = i - 1
  BY <1>3, <1>4 DEF Permutes
<1>7. ASSUME <<p[1], c>> \in R
      PROVE  FALSE
  <2>1. \/ vram[offered[p[1]]] > vram[offered[c]]
        \/ vram[offered[p[1]]] = vram[offered[c]] /\ p[1] < c
    BY <1>7 DEF SortPairs
  <2>2. \/ vram[offered[p[1]]] < vram[offered[c]]
        \/ vram[offered[p[1]]] = vram[offered[c]] /\ c <= p[1]
    BY <1>4 DEF Largest
  <2>3. /\ vram[offered[p[1]]] \in Nat /\ vram[offered[c]] \in Nat
        /\ p[1] \in Nat /\ c \in Nat
    BY <1>1, <1>2, <1>4
  <2>4. QED
    BY <2>1, <2>2, <2>3
<1>8. i = 1
  <2>1. SUFFICES ASSUME i > 1 PROVE FALSE
    BY <1>2
  <2>2. Rank(R, D, p[1]) < Rank(R, D, c)
    BY <1>2, <1>6, <2>1
  <2>3. IsFiniteSet(D)
    BY <1>2, FS_Interval
  <2>4. <<p[1], c>> \in R
    <3> HIDE DEF D, R
    <3>1. c \in D
      BY <1>3, <1>4 DEF D
    <3>2. QED
      BY <1>4, <1>5, <2>2, <2>3, <3>1, RankGrows
  <2>5. QED
    BY <1>7, <2>4
<1>9. QED
  BY <1>3, <1>8

\* No split fits that the layers the loop has found room for do not reach.
LEMMA SplitCovered ==
    ASSUME TypeOK, NEW c \in DOMAIN offered, Largest(c), NEW d \in Splits(c),
           order \in StableDescending(offered, vram)
    PROVE  spec.total_layers <= Covered(order, vram, spec)[Len(order)]
<1>1. /\ offered \in Seq(Node) /\ vram \in [Node -> Nat] /\ order \in Seq(Node)
      /\ spec \in ModelSpecs /\ spec.vram_per_layer \in Nat \ {0}
      /\ spec.context_vram \in Nat /\ spec.total_layers \in Nat
  BY VramAssumption, ModelAssumption DEF TypeOK, ModelSpecs
<1> PICK p : Permutes(p, offered, vram, order)
  BY <1>1, SortPermutes
<1> PICK n \in Nat : DOMAIN offered = 1..n /\ n = Len(offered)
  BY <1>1
<1>2. /\ p \in [1..n -> 1..n] /\ order = [i \in 1..n |-> offered[p[i]]] /\ Len(order) = n
      /\ \A i, j \in 1..n : p[i] = p[j] => i = j
      /\ \A j \in 1..n : \E i \in 1..n : p[i] = j
  <2>1. /\ p \in [1..n -> 1..n] /\ order = [i \in 1..n |-> offered[p[i]]]
        /\ \A i, j \in 1..n : p[i] = p[j] => i = j
        /\ \A j \in 1..n : \E i \in 1..n : p[i] = j
    BY DEF Permutes
  <2>2. Len(order) = n
    BY <1>1, SortKeeps DEF TypeOK
  <2>3. QED
    BY <2>1, <2>2
<1>3. p[1] = c
  BY LargestFirst
<1>4. /\ \A i \in 1..n : /\ d[i] \in Nat
                         /\ d[i] * spec.vram_per_layer
                               + (IF i = c THEN spec.context_vram ELSE 0) <= vram[offered[i]]
      /\ Total(d, 1..n) = spec.total_layers
  <2>1. d \in [1..n -> 0..spec.total_layers]
    BY DEF Splits
  <2>2. Total(d, 1..n) = spec.total_layers
    BY <2>1, SplitTotal DEF Splits
  <2>3. \A i \in 1..n : d[i] * spec.vram_per_layer + (IF i = c THEN spec.context_vram ELSE 0)
                           <= vram[offered[i]]
    BY DEF Splits
  <2>4. \A i \in 1..n : d[i] \in Nat
    BY <1>1, <2>1
  <2>5. QED
    BY <2>2, <2>3, <2>4
<1> DEFINE e == [k \in 1..n |-> d[p[k]]]
           l == [k \in 1..n |-> Layers(order, vram, spec, k)]
<1>5. ASSUME NEW k \in 1..n
      PROVE  e[k] \in Nat /\ e[k] <= Layers(order, vram, spec, k)
  <2>1. k = 1 <=> p[k] = c
    <3>1. 1 \in 1..n /\ \A i, j \in 1..n : p[i] = p[j] => i = j
      BY <1>2
    <3>2. QED
      BY <1>3, <3>1
  <2>2. PICK b \in Nat, r \in Nat : b = d[p[k]] /\ r = vram[order[k]]
    <3>1. p[k] \in 1..n
      BY <1>2
    <3>2. k \in 1..Len(order)
      BY <1>2
    <3>3. order[k] \in Node
      BY <1>1, <3>2
    <3>4. d[p[k]] \in Nat /\ vram[order[k]] \in Nat
      BY <1>1, <1>4, <3>1, <3>3
    <3>5. QED
      BY <3>4
  <2>3. b * spec.vram_per_layer + (IF k = 1 THEN spec.context_vram ELSE 0) <= r
    <3>1. p[k] \in 1..n /\ order[k] = offered[p[k]]
      BY <1>2
    <3>2. QED
      BY <1>4, <2>1, <2>2, <3>1
  <2> DEFINE room == IF k = 1 THEN vram[order[1]] - spec.context_vram ELSE vram[order[k]]
  <2>4. b * spec.vram_per_layer \in Nat
    BY <1>1, ProductMonotone
  <2>5. room \in Nat /\ b * spec.vram_per_layer <= room
    <3>1. PICK y \in Nat : y = b * spec.vram_per_layer
      BY <2>4
    <3>2. k = 1 => vram[order[1]] = r
      BY <2>2
    <3>3. room = IF k = 1 THEN r - spec.context_vram ELSE r
      BY <2>2, <3>2
    <3> HIDE DEF room
    <3>4. PICK x \in Nat : x = spec.context_vram
      BY <1>1
    <3>5. room \in Nat /\ y <= room
      <4>1. CASE k = 1
        <5>1. y + x <= r /\ room = r - x
          BY <2>3, <3>1, <3>3, <3>4, <4>1
        <5>2. QED
          BY <5>1
      <4>2. CASE k # 1
        <5>1. y + 0 <= r /\ room = r
          BY <2>3, <3>1, <3>3, <4>2
        <5>2. QED
          BY <5>1
      <4>3. QED
        BY <4>1, <4>2
    <3>6. QED
      BY <3>1, <3>5
  <2>6. Layers(order, vram, spec, k) =
           IF room < spec.vram_per_layer THEN 0 ELSE room \div spec.vram_per_layer
    BY DEF Layers
  <2> HIDE DEF room
  <2>7. CASE room < spec.vram_per_layer
    <3>1. ~(1 <= b)
      <4>1. SUFFICES ASSUME 1 <= b PROVE FALSE
        OBVIOUS
      <4>2. 1 * spec.vram_per_layer <= b * spec.vram_per_layer
        BY <1>1, <4>1, ProductMonotone
      <4>3. QED
        BY <1>1, <2>4, <2>5, <2>7, <4>2
    <3>2. QED
      BY <2>2, <2>6, <2>7, <3>1
  <2>8. CASE ~(room < spec.vram_per_layer)
    <3>1. b <= room \div spec.vram_per_layer
      BY <1>1, <2>5, DivisionReaches
    <3>2. QED
      BY <2>2, <2>6, <2>8, <3>1
  <2>9. QED
    BY <2>7, <2>8
<1>6. Total(e, 1..n) = Total(d, 1..n)
  <2>1. \A i \in 1..n : e[i] = d[p[i]] /\ d[i] \in Int
    BY <1>4
  <2>2. IsFiniteSet(1..n)
    BY FS_Interval
  <2>3. /\ p \in [1..n -> 1..n] /\ \A i, j \in 1..n : p[i] = p[j] => i = j
        /\ \A j \in 1..n : \E i \in 1..n : p[i] = j
    BY <1>2
  <2>4. PICK D : D = 1..n
    OBVIOUS
  <2> HIDE DEF e
  <2>5. Total(e, D) = Total(d, D)
    <3>1. /\ IsFiniteSet(D) /\ \A i \in D : d[i] \in Int
          /\ p \in [D -> D] /\ \A i, j \in D : p[i] = p[j] => i = j
          /\ \A j \in D : \E i \in D : p[i] = j
          /\ \A i \in D : e[i] = d[p[i]]
      BY <2>1, <2>2, <2>3, <2>4
    <3>2. QED
      BY <3>1, TotalPermuted
  <2>6. QED
    BY <2>4, <2>5
<1>7. Total(e, 1..n) <= Covered(order, vram, spec)[n]
  <2>1. PICK s : s = Covered(order, vram, spec)
    OBVIOUS
  <2>2. /\ s[0] = 0
        /\ \A k \in 1..n : l[k] \in Nat /\ s[k] = s[k - 1] + l[k]
        /\ \A k \in 0..n : s[k] \in Nat
    <3>1. Len(order) = n
      BY <1>2
    <3>2. /\ s[0] = 0
          /\ \A k \in 1..n : Layers(order, vram, spec, k) \in Nat
          /\ \A k \in 1..n : s[k] = s[k - 1] + Layers(order, vram, spec, k)
      BY <1>1, <2>1, <3>1, CoveredAdds
    <3>3. \A k \in 0..n : s[k] \in Nat
      BY <1>1, <2>1, <3>1, CoveredGrows
    <3>4. QED
      BY <3>2, <3>3
  <2>3. \A k \in 1..n : e[k] \in Nat /\ e[k] <= l[k]
    BY <1>5
  <2> HIDE DEF e, l
  <2>4. Total(e, 1..n) <= s[n]
    BY <2>2, <2>3, TotalBelow
  <2>5. QED
    BY <2>1, <2>4
<1>8. QED
  BY <1>2, <1>4, <1>6, <1>7

LEMMA GivesUpRightly ==
    ASSUME Inv, GreedySoFar
    PROVE  GiveUpJustified
<1> SUFFICES ASSUME pc \in {"insufficient", "uncovered"}, NEW c \in DOMAIN offered, Largest(c),
                    NEW d \in Splits(c)
             PROVE  FALSE
  BY DEF GiveUpJustified
<1>1. /\ TypeOK /\ offered \in Seq(Node) /\ vram \in [Node -> Nat] /\ order \in Seq(Node)
      /\ spec \in ModelSpecs /\ spec.total_layers \in Nat
  BY VramAssumption, ModelAssumption DEF Inv, TypeOK, ModelSpecs
<1>2. CASE pc = "insufficient"
  <2>1. Available(offered, vram) < TotalVram(spec)
    BY <1>2 DEF GreedySoFar
  <2>2. Available(offered, vram) >= TotalVram(spec)
    BY <1>1, SplitNeeds
  <2>3. Available(offered, vram) \in Nat /\ TotalVram(spec) \in Int
    BY <1>1, AvailableIsNat DEF ModelSpecs, TotalVram
  <2>4. QED
    BY <2>1, <2>2, <2>3
<1>3. CASE pc = "uncovered"
  <2>1. PICK s : s = Covered(order, vram, spec)
    OBVIOUS
  <2>2. /\ cursor < spec.total_layers /\ next = Len(order) + 1
        /\ cursor = IF s[next - 1] <= spec.total_layers THEN s[next - 1]
                    ELSE spec.total_layers
        /\ order \in StableDescending(offered, vram)
    BY <1>3, <2>1 DEF GreedySoFar
  <2>3. next - 1 = Len(order) /\ Len(order) \in 0..Len(order)
    BY <1>1, <2>2
  <2>4. s[Len(order)] \in Nat
    BY <1>1, <2>1, <2>3, CoveredGrows
  <2>5. spec.total_layers <= s[Len(order)]
    BY <1>1, <2>1, <2>2, SplitCovered
  <2>6. QED
    BY <1>1, <2>2, <2>3, <2>4, <2>5
<1>4. QED
  BY <1>2, <1>3

\* When the planner gives up no way of cutting the layers would have fitted with the
\* context on the largest node, whatever is offered, as long as no amount of VRAM
\* outgrows the u32 of the layer count (planner.rs:78-147).
THEOREM GivesUpOnlyIfItMust ==
    ASSUME \A v \in Vram : v < LayerModulus
    PROVE  Spec => []GiveUpJustified
<1>1. Init => GreedySoFar
  BY DEF Init, GreedySoFar
<1>2. Inv /\ GreedySoFar /\ [Next]_vars => GreedySoFar'
  BY GreedyNext
<1>3. Inv /\ GreedySoFar => GiveUpJustified
  BY GivesUpRightly
<1>4. QED
  BY <1>1, <1>2, <1>3, Invariance, PTL DEF Spec
=============================================================================
