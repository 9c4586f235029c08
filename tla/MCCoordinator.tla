---------------------------- MODULE MCCoordinator ----------------------------
(***************************************************************************)
(* Instance of Coordinator for TLC.  Three nodes: each holds the small     *)
(* model (1430 MB) alone, none the large one (40448 MB), which takes a     *)
(* pipeline of the two large nodes.                                        *)
(***************************************************************************)
EXTENDS Coordinator, TLC

CONSTANTS n1, n2, n3

MCNodeList == <<n1, n2, n3>>
MCVram == n1 :> 24576 @@ n2 :> 20480 @@ n3 :> 2048

\* Only the smallest node has been probed, and is the fastest.
MCLatency == {n1 :> NoStats @@ n2 :> NoStats @@ n3 :> 0}

Small == <<"llama3.2", "1b", "-instruct">>
Large == <<"llama3.3", "70b">>
MCModel == {Small, Large}
=============================================================================
