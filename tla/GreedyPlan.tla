----------------------------- MODULE GreedyPlan -----------------------------
(***************************************************************************)
(* The result of plan_shards (crates/shard-planner/src/planner.rs) in      *)
(* closed form: which nodes of a list sorted by VRAM become the stages.    *)
(* ShardPlanner takes it step by step and is checked against this;         *)
(* Coordinator, which only needs the result, uses this.                    *)
(*                                                                         *)
(* order is the sorted list, v the VRAM of its nodes, m the model.  No     *)
(* number of layers is truncated here.                                     *)
(***************************************************************************)
EXTENDS Integers, Sequences, FiniteSets, Functions, Folds

\* The layers the k-th node has room for; the first has the context to hold too.
Layers(order, v, m, k) ==
    LET room == IF k = 1 THEN v[order[1]] - m.context_vram ELSE v[order[k]]
    IN  IF room < m.vram_per_layer THEN 0 ELSE room \div m.vram_per_layer

\* The layers the first k nodes have room for.
Covered(order, v, m) ==
    LET covered[k \in 0..Len(order)] ==
            IF k = 0 THEN 0 ELSE covered[k - 1] + Layers(order, v, m, k)
    IN  covered

TotalVramOf(order, v) == FoldFunction(LAMBDA n, sum : v[n] + sum, 0, order)

\* Whether the planner returns a plan.
Places(order, v, m) ==
    /\ order # <<>>
    /\ TotalVramOf(order, v) >= m.total_layers * m.vram_per_layer + m.context_vram
    /\ Covered(order, v, m)[Len(order)] >= m.total_layers

\* The nodes that get layers: those with room that are reached with layers left.
Stages(order, v, m) ==
    {k \in DOMAIN order : /\ Layers(order, v, m, k) > 0
                          /\ Covered(order, v, m)[k - 1] < m.total_layers}

\* The plan, as the sequence of its nodes; empty when there is none.
GreedyNodes(order, v, m) ==
    LET stages == Stages(order, v, m)
        nth(i) == CHOOSE k \in stages : Cardinality({j \in stages : j <= k}) = i
    IN  IF Places(order, v, m) THEN [i \in 1..Cardinality(stages) |-> order[nth(i)]]
        ELSE <<>>
=============================================================================
