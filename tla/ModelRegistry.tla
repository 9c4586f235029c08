---------------------------- MODULE ModelRegistry ----------------------------
(***************************************************************************)
(* The table of known models of crates/shard-planner/src/registry.rs, the  *)
(* lookup by prefix and the estimate made for every other name.            *)
(*                                                                         *)
(* A name is the sequence of its parts: family, size, and the suffix of a  *)
(* variant ("llama3.1:8b-instruct" is <<"llama3.1", "8b", "-instruct">>).  *)
(* In the table a size is never the beginning of another size of the same  *)
(* family ("7b", "72b"), and the one entry without a size, mistral-nemo,   *)
(* begins no other family; so str::starts_with on the text is IsPrefix on  *)
(* the parts.  Names are in lower case, as registry.rs:162 makes them.     *)
(***************************************************************************)
EXTENDS Integers, Sequences, SequencesExt

-----------------------------------------------------------------------------
Entry(name, layers, perLayer, context) ==
    [name |-> name,
     total_layers |-> layers, vram_per_layer |-> perLayer, context_vram |-> context]

KNOWN_MODELS == <<
    Entry(<<"llama3.2", "1b">>,       16,   80,  150),
    Entry(<<"llama3.2", "3b">>,       28,   70,  200),
    Entry(<<"llama3.1", "8b">>,       32,  145,  512),
    Entry(<<"llama3.1", "70b">>,      80,  480, 2048),
    Entry(<<"llama3.1", "405b">>,    126, 1820, 4096),
    Entry(<<"llama3.3", "70b">>,      80,  480, 2048),
    Entry(<<"mistral", "7b">>,        32,  120,  400),
    Entry(<<"mistral-nemo">>,         40,  175,  600),
    Entry(<<"qwen2.5", "7b">>,        28,  150,  400),
    Entry(<<"qwen2.5", "14b">>,       48,  175,  600),
    Entry(<<"qwen2.5", "32b">>,       64,  300, 1024),
    Entry(<<"qwen2.5", "72b">>,       80,  540, 2048),
    Entry(<<"phi4", "14b">>,          40,  200,  600),
    Entry(<<"deepseek-r1", "7b">>,    28,  145,  400),
    Entry(<<"deepseek-r1", "14b">>,   48,  175,  600),
    Entry(<<"deepseek-r1", "32b">>,   64,  300, 1024),
    Entry(<<"deepseek-r1", "70b">>,   80,  480, 2048),
    Entry(<<"gemma3", "9b">>,         46,  120,  400),
    Entry(<<"gemma3", "27b">>,        62,  260, 1024) >>

\* What the planner divides by is never zero for a known model, and a name
\* matches one entry at most: the order of the table does not matter.
ASSUME TableAssumption ==
    /\ \A i \in DOMAIN KNOWN_MODELS :
          KNOWN_MODELS[i].total_layers > 0 /\ KNOWN_MODELS[i].vram_per_layer > 0
    /\ \A i, j \in DOMAIN KNOWN_MODELS :
          i # j => ~IsPrefix(KNOWN_MODELS[i].name, KNOWN_MODELS[j].name)

TotalVram(m) == m.total_layers * m.vram_per_layer + m.context_vram

\* ModelRegistry::get, an Option: the set of at most one spec.
Get(name) ==
    {KNOWN_MODELS[i] : i \in {j \in DOMAIN KNOWN_MODELS : IsPrefix(KNOWN_MODELS[j].name, name)}}

SaturatingSub(a, b) == IF a >= b THEN a - b ELSE 0

\* ModelRegistry::estimate, from a caller's guess at the size in MB.
Estimate(name, total) ==
    LET context == total \div 8
    IN  Entry(name, 32, SaturatingSub(total, context) \div 32, context)

\* What every caller asks for: the entry, or the estimate for 4096 MB.
SpecOf(name) ==
    IF Get(name) # {} THEN CHOOSE m \in Get(name) : TRUE ELSE Estimate(name, 4096)
=============================================================================
