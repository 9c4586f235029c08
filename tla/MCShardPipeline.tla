--------------------------- MODULE MCShardPipeline ---------------------------
(***************************************************************************)
(* Instances of ShardPipeline for TLC: nodes that share neither host nor   *)
(* port, and nodes on hosts of their own that all keep the default port.   *)
(***************************************************************************)
EXTENDS ShardPipeline, FiniteSets

CONSTANTS n1, n2, n3

Numbers == {f \in [Node -> 1..3] : \A n, m \in Node : f[n] = f[m] => n = m}

DistinctAddress ==
    {[n \in Node |-> [host |-> h[n], agent_port |-> p[n]]] : h \in Numbers, p \in Numbers}

DefaultPort ==
    {[n \in Node |-> [host |-> h[n], agent_port |-> 8181]] : h \in Numbers}
=============================================================================
