---------------------------- MODULE ShardPlanner ----------------------------
(***************************************************************************)
(* plan_shards of crates/shard-planner/src/planner.rs: the greedy planner  *)
(* that cuts the layers of a model over the nodes offered to it.           *)
(*                                                                         *)
(* One run of the machine is one call.  The calls RejectEmpty, RejectSmall *)
(* and Sort are what precedes the loop; each PlaceLayers or SkipNode is    *)
(* one iteration; Finish is the check after it.  Memory is counted in MB,  *)
(* as in the source.  A node is only its identity: host and ports are      *)
(* copied into the plan and never read.  The u64 sums are unbounded here.  *)
(***************************************************************************)
EXTENDS GreedyPlan

CONSTANTS
    Node,          \* the nodes that may be offered
    Vram,          \* the amounts of VRAM a node may have
    Model,         \* the model specs that may be asked for
    LayerModulus   \* 2^32: the range of the u32 a layer count is cast to

ModelSpecs == [total_layers : Nat \ {0}, vram_per_layer : Nat \ {0}, context_vram : Nat]

\* Every entry of KNOWN_MODELS, and the estimate made of 4096 MB, has layers
\* and needs VRAM for each; the division of planner.rs:116 relies on it.
ASSUME ModelAssumption == Model \subseteq ModelSpecs
ASSUME NodeAssumption == IsFiniteSet(Node)
ASSUME VramAssumption == Vram \subseteq Nat
ASSUME ModulusAssumption == LayerModulus \in Nat \ {0}

VARIABLES
    spec,         \* the model to place
    offered,      \* the caller's list of nodes
    vram,         \* available_vram_mb of every node
    pc,           \* where the call is, or how it returned
    order,        \* the offered nodes, largest first
    next,         \* the position in order the loop has reached
    cursor,       \* layer_cursor
    reserve,      \* context_reserve
    assignments   \* the plan built so far

input == <<spec, offered, vram>>
vars == <<spec, offered, vram, pc, order, next, cursor, reserve, assignments>>

-----------------------------------------------------------------------------
TotalVram(m) == m.total_layers * m.vram_per_layer + m.context_vram

Available(nodes, v) == FoldFunction(LAMBDA n, sum : v[n] + sum, 0, nodes)

\* Mutant of StableDescending: the Reverse is forgotten.
Ascending(nodes, v) ==
    {[i \in DOMAIN nodes |-> nodes[p[i]]] :
        p \in {q \in Bijection(DOMAIN nodes, DOMAIN nodes) :
                 \A i, j \in DOMAIN nodes :
                    i < j => \/ v[nodes[q[i]]] < v[nodes[q[j]]]
                             \/ v[nodes[q[i]]] = v[nodes[q[j]]] /\ q[i] < q[j]}}

\* What the stable sort_by_key(Reverse(available_vram_mb)) returns: VRAM never
\* grows along it, and equals keep the caller's order.  There is exactly one.
StableDescending(nodes, v) ==
    {[i \in DOMAIN nodes |-> nodes[p[i]]] :
        p \in {q \in Bijection(DOMAIN nodes, DOMAIN nodes) :
                 \A i, j \in DOMAIN nodes :
                    i < j => \/ v[nodes[q[i]]] > v[nodes[q[j]]]
                             \/ v[nodes[q[i]]] = v[nodes[q[j]]] /\ q[i] < q[j]}}

\* u64::saturating_sub
SaturatingSub(a, b) == IF a >= b THEN a - b ELSE 0

\* Mutant of Usable: nothing is kept back for the context.
UsableNoReserve == vram[order[next]]

Usable == SaturatingSub(vram[order[next]], reserve)

\* Mutant of MaxLayers: a node filled to the last MB is not used to the full.
MaxLayersStrict == ((Usable - 1) \div spec.vram_per_layer) % LayerModulus

MaxLayers == (Usable \div spec.vram_per_layer) % LayerModulus

\* Mutant of Assigned: the cap by the layers that remain is lost.
AssignedUncapped == MaxLayers

Assigned == LET remaining == spec.total_layers - cursor
            IN  IF MaxLayers <= remaining THEN MaxLayers ELSE remaining

-----------------------------------------------------------------------------
\* A call: any model, any list of distinct nodes, any VRAM.
Init ==
    /\ spec \in Model
    /\ offered \in UNION {Injection(1..n, Node) : n \in 0..Cardinality(Node)}
    /\ vram \in [Node -> Vram]
    /\ pc = "start"
    /\ order = <<>>
    /\ next = 1
    /\ cursor = 0
    /\ reserve = spec.context_vram
    /\ assignments = <<>>

RejectEmpty ==
    /\ pc = "start"
    /\ offered = <<>>
    /\ pc' = "no_nodes"
    /\ UNCHANGED <<input, order, next, cursor, reserve, assignments>>

RejectSmall ==
    /\ pc = "start"
    /\ offered # <<>>
    /\ Available(offered, vram) < TotalVram(spec)
    /\ pc' = "insufficient"
    /\ UNCHANGED <<input, order, next, cursor, reserve, assignments>>

Sort ==
    /\ pc = "start"
    /\ offered # <<>>
    /\ Available(offered, vram) >= TotalVram(spec)
    /\ pc' = "loop"
    /\ order' \in StableDescending(offered, vram)
    /\ UNCHANGED <<input, next, cursor, reserve, assignments>>

InLoop == pc = "loop" /\ next <= Len(order) /\ cursor < spec.total_layers

\* Mutant of SkipNode: the context is carried over to the next node.
SkipNodeCarries ==
    /\ InLoop
    /\ Usable < spec.vram_per_layer
    /\ next' = next + 1
    /\ UNCHANGED <<input, pc, order, cursor, reserve, assignments>>

SkipNode ==
    /\ InLoop
    /\ Usable < spec.vram_per_layer
    /\ reserve' = 0
    /\ next' = next + 1
    /\ UNCHANGED <<input, pc, order, cursor, assignments>>

PlaceLayers ==
    /\ InLoop
    /\ Usable >= spec.vram_per_layer
    /\ assignments' = Append(assignments,
                        [node |-> order[next],
                         layer_start |-> cursor,
                         layer_end |-> cursor + Assigned,
                         vram_required |-> Assigned * spec.vram_per_layer])
    /\ cursor' = cursor + Assigned
    /\ reserve' = 0
    /\ next' = next + 1
    /\ UNCHANGED <<input, pc, order>>

\* Mutant of Finish: the plan is returned without the check on the cursor.
FinishUnchecked ==
    /\ pc = "loop"
    /\ next > Len(order) \/ cursor >= spec.total_layers
    /\ pc' = "planned"
    /\ UNCHANGED <<input, order, next, cursor, reserve, assignments>>

\* "uncovered" is the InsufficientVram of planner.rs:134-140; "insufficient"
\* is the one of planner.rs:86-92.
Finish ==
    /\ pc = "loop"
    /\ next > Len(order) \/ cursor >= spec.total_layers
    /\ pc' = IF cursor < spec.total_layers THEN "uncovered" ELSE "planned"
    /\ UNCHANGED <<input, order, next, cursor, reserve, assignments>>

Returned == pc \in {"no_nodes", "insufficient", "uncovered", "planned"}

\* The caller holds the result; nothing moves any more.
Done == Returned /\ UNCHANGED vars

Next == RejectEmpty \/ RejectSmall \/ Sort \/ SkipNode \/ PlaceLayers \/ Finish \/ Done

Spec == Init /\ [][Next]_vars

-----------------------------------------------------------------------------
ShardAssignment == [node : Node, layer_start : Nat, layer_end : Nat, vram_required : Nat]

\* Types of the call's input and of the loop's variables.
TypeOK ==
    /\ spec \in Model
    /\ offered \in Seq(Node) /\ IsInjective(offered)
    /\ vram \in [Node -> Vram]
    /\ pc \in {"start", "loop", "no_nodes", "insufficient", "uncovered", "planned"}
    /\ order \in Seq(Node)
    /\ next \in 1..Len(order) + 1
    /\ cursor \in 0..spec.total_layers
    /\ reserve \in Nat
    /\ assignments \in Seq(ShardAssignment)

Stage(i) == assignments[i].layer_start .. assignments[i].layer_end - 1

\* The pipeline runs every layer exactly once: the stages built so far hold
\* every layer below the cursor, follow one another without overlap, and a
\* plan that is returned reaches the last layer (planner.rs:120-130, 133-145).
EveryLayerOnce ==
    /\ \A l \in 0..cursor - 1 : \E i \in DOMAIN assignments : l \in Stage(i)
    /\ \A i, j \in DOMAIN assignments :
          i < j => assignments[i].layer_end <= assignments[j].layer_start
    /\ \A i \in DOMAIN assignments : assignments[i].layer_end <= cursor
    /\ pc = "planned" => cursor = spec.total_layers

\* Some node on offer has room for the context beside a layer.
ContextFits == \E n \in Range(offered) : vram[n] >= spec.context_vram + spec.vram_per_layer

\* Each stage fits into its node, and the first, the controller, has room for the
\* context as well if any node on offer had it (planner.rs:50-52, 71-77; registry.rs:11).
StagesFit ==
    \A i \in DOMAIN assignments :
        LET a == assignments[i]
            context == IF i = 1 /\ ContextFits THEN spec.context_vram ELSE 0
        IN  a.vram_required + context <= vram[a.node]

\* A node is a stage of the pipeline at most once: the agent that looks itself
\* up in the plan (node-agent/src/shard.rs:64-77) takes the first match.
NoNodeTwice ==
    \A i, j \in DOMAIN assignments :
        i # j => assignments[i].node # assignments[j].node

\* What the code says of every plan: the context is on the controller, which has
\* room for it (registry.rs:11, planner.rs:71-77, 100).
ContextOnController ==
    LET controller == assignments[1]
    IN  controller.vram_required + spec.context_vram <= vram[controller.node]

\* When that is so: exactly if some node on offer could hold the context beside a
\* layer.  If none could, the reserve went with the node that was skipped, and the
\* plan is returned with a controller that has no room for the context.
ContextPlaced == pc = "planned" => (ContextOnController <=> ContextFits)

\* No node is given more layers than it has room for, by one stage or by several,
\* and the controller can hold the context as well whenever any node could, but not
\* when none could, which the planner does not refuse (planner.rs:71-77, 97-130).
WithinVram == StagesFit /\ NoNodeTwice /\ ContextPlaced

\* How many layers each offered node could hold beside the context, were the
\* context on the node at position c.
Splits(c) ==
    {d \in [DOMAIN offered -> 0..spec.total_layers] :
        /\ \A i \in DOMAIN offered :
              d[i] * spec.vram_per_layer + (IF i = c THEN spec.context_vram ELSE 0)
                 <= vram[offered[i]]
        /\ FoldFunction(LAMBDA a, b : a + b, 0, d) = spec.total_layers}

\* The first of the caller's nodes with the most VRAM.
Largest(c) ==
    \A i \in DOMAIN offered : \/ vram[offered[i]] < vram[offered[c]]
                              \/ vram[offered[i]] = vram[offered[c]] /\ c <= i

\* Greedy loses nothing: when the planner gives up, no way of cutting the
\* layers would have fitted with the context on the largest node.
GiveUpJustified ==
    pc \in {"insufficient", "uncovered"} =>
        \A c \in DOMAIN offered : Largest(c) => Splits(c) = {}

\* The loop places layers on the very nodes the closed form names, in their order,
\* and gives up when it has none, as long as no number of layers is truncated: what
\* Coordinator takes for build_plan's result is what the planner returns
\* (planner.rs:78-147, shard_coordinator.rs:222-231).
PlanIsGreedy ==
    Returned /\ offered # <<>> =>
        \A sorted \in StableDescending(offered, vram) :
            GreedyNodes(sorted, vram, spec) =
                IF pc = "planned" THEN [i \in DOMAIN assignments |-> assignments[i].node]
                ELSE <<>>

\* A first node that has room for the whole model gets all of it: build_candidates
\* (shard_coordinator.rs:81-114) plans such nodes alone and sends each request to one.
WholeModelOnOne ==
    /\ order # <<>> /\ vram[order[1]] >= TotalVram(spec)
    /\ pc \in {"planned", "uncovered"}
    => pc = "planned" /\ Len(assignments) = 1
=============================================================================
