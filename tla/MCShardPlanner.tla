--------------------------- MODULE MCShardPlanner ---------------------------
(***************************************************************************)
(* Instance of ShardPlanner for TLC.                                       *)
(***************************************************************************)
EXTENDS ShardPlanner, TLC

\* One model whose context is less than a layer, one whose context is more,
\* one without context.
MCModel == {[total_layers |-> 3, vram_per_layer |-> 2, context_vram |-> 1],
            [total_layers |-> 2, vram_per_layer |-> 2, context_vram |-> 3],
            [total_layers |-> 4, vram_per_layer |-> 1, context_vram |-> 0]}

Symmetry == Permutations(Node)
=============================================================================
