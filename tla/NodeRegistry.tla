---------------------------- MODULE NodeRegistry ----------------------------
(***************************************************************************)
(* The node registry of the gateway: registration, which is also the       *)
(* heartbeat (routes/nodes.rs), the stale sweeper (stale_nodes.rs) and the *)
(* health prober (health_monitor.rs), all writing the status of nodes.     *)
(*                                                                         *)
(* With a database every running instance works on its table of nodes, and *)
(* a node goes into an instance's own list, in memory, only when its       *)
(* registration cannot be written.  Without one an instance works on its   *)
(* list and shares nothing with others, so that one instance runs.         *)
(*                                                                         *)
(* Time.  Agents, sweepers and probers each act once every 30 seconds, in  *)
(* no fixed order: a round is one such period.  last_seen is kept as age,  *)
(* the number of an instance's sweeps since the last heartbeat: a sweep    *)
(* finds a node older than 90 seconds when three sweeps passed it before.  *)
(*                                                                         *)
(* Identity.  In a list every registration makes a new id.  The prober     *)
(* works on the ids it collected and counts failures by id: current says   *)
(* whether the id it collected still is the node's, fails is the count of  *)
(* the present id.  In the table a node keeps its id, and its failures in  *)
(* a row are counted from the newest rows of node_health, of which only    *)
(* their number matters: streak.                                           *)
(***************************************************************************)
EXTENDS Integers, FiniteSets

CONSTANTS
    Node,           \* names under which nodes register
    Instance,       \* gateway processes
    StaleAfter,     \* 90 s / 30 s
    DegradedAfter,  \* 3 failed probes
    OfflineAfter,   \* 10 failed probes, which is also the LIMIT of the query
    MaxErrors,      \* bound: failed statements
    None

ASSUME NodeAssumption == IsFiniteSet(Node) /\ IsFiniteSet(Instance) /\ None \notin Node
ASSUME Thresholds ==
    /\ StaleAfter \in Nat \ {0} /\ DegradedAfter \in Nat \ {0} /\ OfflineAfter \in Nat
    /\ DegradedAfter < OfflineAfter
ASSUME ErrorAssumption == MaxErrors \in Nat

VARIABLES
    database,   \* whether there is one; it does not change
    running,    \* the instances that run; they do not change
    table,      \* nodes.status; "absent" without a row
    streak,     \* node_health: failures since the last success, up to OfflineAfter
    list,       \* per instance and node: the status in its list, or "absent"
    fails,      \* failure_counts of the node's present id, up to OfflineAfter
    current,    \* whether the id the prober collected is still the node's
    age,        \* last_seen: the sweeps of an instance since, up to StaleAfter + 1
    beating,    \* nodes whose heartbeat of this round has not come
    sweeping,   \* instances whose sweeper has not run in this round
    probing,    \* instances whose prober has not begun in this round
    targets,    \* per instance: the nodes collected and not yet pinged
    prober,     \* per instance: what its prober does next, to which node
    errors,     \* failed statements so far
    silent,     \* ghost: rounds begun since the last sign of life, a heartbeat
                \* or an answer to a ping, up to DegradedAfter + 1
    flawed      \* ghost: nodes that this round missed a heartbeat or a ping, or
                \* met an error

mode == <<database, running>>
shared == <<table, streak>>
memory == <<list, fails, current>>
clock == <<beating, sweeping, probing>>
ghosts == <<silent, flawed>>
vars == <<mode, shared, memory, age, clock, targets, prober, errors, ghosts>>

-----------------------------------------------------------------------------
Idle == [step |-> "idle", node |-> None]
UpTo(bound, n) == IF n <= bound THEN n ELSE bound
Each(value) == [i \in Instance |-> [n \in Node |-> value]]

\* What an instance takes for the status of a node (list() in routes/nodes.rs).
Seen(i, n) == IF database THEN table[n] ELSE list[i][n]

Registered(i) == {n \in Node : Seen(i, n) # "absent"}

RoundOver ==
    /\ beating = {} /\ sweeping = {} /\ probing = {}
    /\ \A i \in Instance : targets[i] = {} /\ prober[i] = Idle

Error(nodes) ==
    database /\ errors < MaxErrors /\ errors' = errors + 1 /\ flawed' = flawed \cup nodes

\* interval() ticks at once: sweepers and probers are due from the start.
Init ==
    /\ database \in BOOLEAN
    /\ running \in (SUBSET Instance) \ {{}}
    /\ ~database => Cardinality(running) = 1
    /\ table = [n \in Node |-> "absent"]
    /\ streak = [n \in Node |-> 0]
    /\ list = Each("absent") /\ fails = Each(0) /\ current = Each(FALSE)
    /\ age = Each(0)
    /\ beating = Node /\ sweeping = running /\ probing = running
    /\ targets = [i \in Instance |-> {}]
    /\ prober = [i \in Instance |-> Idle]
    /\ errors = 0
    /\ silent = [n \in Node |-> 0]
    /\ flawed = {}

-----------------------------------------------------------------------------
\* Mutant of Register: the status is left alone when the row exists.
RegisterSeen(n) ==
    /\ database /\ n \in beating
    /\ beating' = beating \ {n}
    /\ table' = [table EXCEPT ![n] = IF @ = "absent" THEN "online" ELSE @]
    /\ age' = [i \in Instance |-> [age[i] EXCEPT ![n] = 0]]
    /\ silent' = [silent EXCEPT ![n] = 0]
    /\ UNCHANGED <<mode, streak, memory, sweeping, probing, targets, prober, errors, flawed>>

\* register(), with upsert_node.
Register(n) ==
    /\ database /\ n \in beating
    /\ beating' = beating \ {n}
    /\ table' = [table EXCEPT ![n] = "online"]
    /\ age' = [i \in Instance |-> [age[i] EXCEPT ![n] = 0]]
    /\ silent' = [silent EXCEPT ![n] = 0]
    /\ UNCHANGED <<mode, streak, memory, sweeping, probing, targets, prober, errors, flawed>>

\* register() without a database, or when the upsert fails: the node's entry in
\* the list is replaced by one with a new id.  With a database nothing but
\* planning reads the list.
RegisterInMemory(n, i) ==
    /\ n \in beating /\ i \in running
    /\ beating' = beating \ {n}
    /\ list' = [list EXCEPT ![i][n] = "online"]
    /\ silent' = [silent EXCEPT ![n] = 0]
    /\ IF database
       THEN Error({n}) /\ UNCHANGED <<fails, current, age>>
       ELSE /\ fails' = [fails EXCEPT ![i][n] = 0]
            /\ current' = [current EXCEPT ![i][n] = FALSE]
            /\ age' = [age EXCEPT ![i][n] = 0]
            /\ UNCHANGED <<errors, flawed>>
    /\ UNCHANGED <<mode, shared, sweeping, probing, targets, prober>>

\* The node is down, the call is lost, or a model's license is refused: nothing
\* reaches the registry in this round.
NoHeartbeat(n) ==
    /\ n \in beating
    /\ beating' = beating \ {n}
    /\ flawed' = flawed \cup {n}
    /\ UNCHANGED <<mode, shared, memory, age, sweeping, probing, targets, prober, errors, silent>>

\* A sweep of i has come to its end, well or not.
Older(i) == age' = [age EXCEPT ![i] = [n \in Node |-> UpTo(StaleAfter + 1, @[n] + 1)]]

Swept(i) == [n \in Node |->
    IF n \in Registered(i) /\ age[i][n] >= StaleAfter THEN "offline" ELSE Seen(i, n)]

\* sweep(), one statement, or under one lock.
Sweep(i) ==
    /\ i \in sweeping
    /\ sweeping' = sweeping \ {i}
    /\ IF database THEN table' = Swept(i) /\ UNCHANGED list
                   ELSE list' = [list EXCEPT ![i] = Swept(i)] /\ UNCHANGED table
    /\ Older(i)
    /\ UNCHANGED <<mode, streak, fails, current, beating, probing, targets, prober, errors, ghosts>>

SweepFails(i) ==
    /\ i \in sweeping /\ Error(Node)
    /\ sweeping' = sweeping \ {i}
    /\ Older(i)
    /\ UNCHANGED <<mode, shared, memory, beating, probing, targets, prober, silent>>

-----------------------------------------------------------------------------
\* Mutant of CollectTargets: a node is probed whether it is registered or not.
CollectEverything(i) ==
    /\ i \in probing
    /\ probing' = probing \ {i}
    /\ targets' = [targets EXCEPT ![i] = Node]
    /\ current' = IF database THEN current ELSE [current EXCEPT ![i] = [n \in Node |-> TRUE]]
    /\ UNCHANGED <<mode, shared, list, fails, age, beating, sweeping, prober, errors, ghosts>>

\* probe_all(): the targets are collected once, then pinged one by one.
CollectTargets(i) ==
    /\ i \in probing
    /\ probing' = probing \ {i}
    /\ targets' = [targets EXCEPT ![i] = Registered(i)]
    /\ current' = IF database THEN current ELSE [current EXCEPT ![i] = [n \in Node |-> TRUE]]
    /\ UNCHANGED <<mode, shared, list, fails, age, beating, sweeping, prober, errors, ghosts>>

CollectFails(i) ==
    /\ i \in probing /\ Error(Node)
    /\ probing' = probing \ {i}
    /\ UNCHANGED <<mode, shared, memory, age, beating, sweeping, targets, prober, silent>>

\* The answer to one ping, or its failure, arrives; nothing is written yet.
Ping(i, n, success) ==
    /\ prober[i] = Idle /\ n \in targets[i]
    /\ targets' = [targets EXCEPT ![i] = @ \ {n}]
    /\ prober' = [prober EXCEPT ![i] = [step |-> IF database THEN "insert" ELSE "apply",
                                        node |-> n, success |-> success]]
    /\ silent' = [silent EXCEPT ![n] = IF success THEN 0 ELSE @]
    /\ flawed' = IF success THEN flawed ELSE flawed \cup {n}
    /\ UNCHANGED <<mode, shared, memory, age, clock, errors>>

\* Mutant of StatusFor: two failures in a row are enough.
StatusForHasty(consec) ==
    IF consec >= OfflineAfter THEN "offline"
    ELSE IF consec >= DegradedAfter - 1 THEN "degraded" ELSE "online"

\* Mutant of StatusFor: the thresholds have to be passed, not reached.
StatusForLate(consec) ==
    IF consec > OfflineAfter THEN "offline"
    ELSE IF consec > DegradedAfter THEN "degraded" ELSE "online"

StatusFor(consec) ==
    IF consec >= OfflineAfter THEN "offline"
    ELSE IF consec >= DegradedAfter THEN "degraded" ELSE "online"

\* probe_memory(): count under the collected id, then write the status of the
\* node that still has that id, whatever the sweeper made of it.
ApplyProbe(i) ==
    /\ prober[i].step = "apply"
    /\ LET n == prober[i].node
           consec == IF prober[i].success THEN 0 ELSE UpTo(OfflineAfter, fails[i][n] + 1)
       IN  IF current[i][n]
           THEN /\ fails' = [fails EXCEPT ![i][n] = consec]
                /\ list' = [list EXCEPT ![i][n] = StatusFor(consec)]
           ELSE UNCHANGED <<fails, list>>
    /\ prober' = [prober EXCEPT ![i] = Idle]
    /\ UNCHANGED <<mode, shared, current, age, clock, targets, errors, ghosts>>

\* probe_db(), the INSERT.
Record(i) ==
    /\ prober[i].step = "insert"
    /\ LET n == prober[i].node
       IN  /\ streak' = [streak EXCEPT ![n] = IF prober[i].success THEN 0
                                              ELSE UpTo(OfflineAfter, @ + 1)]
           /\ prober' = [prober EXCEPT ![i] = [step |-> "count", node |-> n]]
    /\ UNCHANGED <<mode, table, memory, age, clock, targets, errors, ghosts>>

RecordFails(i) ==
    /\ prober[i].step = "insert" /\ Error({prober[i].node})
    /\ prober' = [prober EXCEPT ![i] = Idle]
    /\ UNCHANGED <<mode, shared, memory, age, clock, targets, silent>>

\* count_consecutive_failures().
Count(i) ==
    /\ prober[i].step = "count"
    /\ prober' = [prober EXCEPT ![i] = [step |-> "update", node |-> prober[i].node,
                                        to |-> StatusFor(streak[prober[i].node])]]
    /\ UNCHANGED <<mode, shared, memory, age, clock, targets, errors, ghosts>>

\* An error of the query counts as no failures at all.
CountFails(i) ==
    /\ prober[i].step = "count" /\ Error({prober[i].node})
    /\ prober' = [prober EXCEPT ![i] = [step |-> "update", node |-> prober[i].node,
                                        to |-> StatusFor(0)]]
    /\ UNCHANGED <<mode, shared, memory, age, clock, targets, silent>>

\* The UPDATE of the status.  The latencies computed after it are left out.
Update(i) ==
    /\ prober[i].step = "update"
    /\ table' = [table EXCEPT ![prober[i].node] = prober[i].to]
    /\ prober' = [prober EXCEPT ![i] = Idle]
    /\ UNCHANGED <<mode, streak, memory, age, clock, targets, errors, ghosts>>

UpdateFails(i) ==
    /\ prober[i].step = "update" /\ Error({prober[i].node})
    /\ prober' = [prober EXCEPT ![i] = Idle]
    /\ UNCHANGED <<mode, shared, memory, age, clock, targets, silent>>

\* Thirty seconds have passed, and everyone has acted.
NewRound ==
    /\ RoundOver
    /\ beating' = Node /\ sweeping' = running /\ probing' = running
    /\ silent' = [n \in Node |-> UpTo(DegradedAfter + 1, silent[n] + 1)]
    /\ flawed' = {}
    /\ UNCHANGED <<mode, shared, memory, age, targets, prober, errors>>

Next ==
    \/ \E n \in Node :
          \/ Register(n) \/ NoHeartbeat(n)
          \/ \E i \in Instance : RegisterInMemory(n, i)
    \/ \E i \in Instance :
          \/ Sweep(i) \/ SweepFails(i) \/ CollectTargets(i) \/ CollectFails(i)
          \/ \E n \in Node, success \in BOOLEAN : Ping(i, n, success)
          \/ ApplyProbe(i)
          \/ Record(i) \/ RecordFails(i) \/ Count(i) \/ CountFails(i)
          \/ Update(i) \/ UpdateFails(i)
    \/ NewRound

Spec == Init /\ [][Next]_vars

-----------------------------------------------------------------------------
Status == {"online", "degraded", "offline"}

\* Types, and what a prober holds names registered nodes only.
TypeOK ==
    /\ database \in BOOLEAN /\ running \subseteq Instance
    /\ table \in [Node -> Status \cup {"absent"}]
    /\ streak \in [Node -> 0..OfflineAfter]
    /\ list \in [Instance -> [Node -> Status \cup {"absent"}]]
    /\ fails \in [Instance -> [Node -> 0..OfflineAfter]]
    /\ current \in [Instance -> [Node -> BOOLEAN]]
    /\ age \in [Instance -> [Node -> 0..StaleAfter + 1]]
    /\ beating \subseteq Node /\ sweeping \subseteq running /\ probing \subseteq running
    /\ targets \in [Instance -> SUBSET Node]
    /\ \A i \in Instance :
          /\ targets[i] \subseteq Registered(i)
          /\ prober[i] \in
                {Idle} \cup [step : {"insert", "apply"}, node : Registered(i), success : BOOLEAN]
                       \cup [step : {"count"}, node : Registered(i)]
                       \cup [step : {"update"}, node : Registered(i), to : Status]
    /\ errors \in 0..MaxErrors
    /\ silent \in [Node -> 0..DegradedAfter + 1] /\ flawed \subseteq Node

\* Without a database a node is out of routing only on evidence: a sweep found it
\* older than 90 seconds and no heartbeat came since, or its present id failed as
\* many probes in a row as its status asks for (stale_nodes.rs:40-41,
\* health_monitor.rs:146-152).
NoFalseAlarm ==
    \A i \in Instance, n \in Node : ~database =>
        /\ list[i][n] = "degraded" => fails[i][n] \in DegradedAfter..OfflineAfter - 1
        /\ list[i][n] = "offline" => age[i][n] > StaleAfter \/ fails[i][n] = OfflineAfter

\* A round in which a node's heartbeat came and every instance's ping was answered
\* leaves it online, whatever the rounds before and the order of the instances'
\* statements (routes/nodes.rs:69-70, 117-124; health_monitor.rs:83-95).
HealthyIsOnline ==
    RoundOver => \A i \in running : \A n \in Registered(i) \ flawed : Seen(i, n) = "online"

\* A node that has given no sign of life for DegradedAfter whole rounds is not
\* online, in whatever order sweeps and probes overwrite one another, as long as no
\* statement fails (stale_nodes.rs:23-26, 40-41; health_monitor.rs:83-95, 146-163).
SilentNotOnline ==
    \A i \in Instance, n \in Node :
        errors = 0 /\ silent[n] > DegradedAfter => Seen(i, n) # "online"

\* README.md:59, "Shard planner allocates model layers across available nodes": a
\* node that is online in the registry is among those the planner is given, which
\* are those of the instance's list (routes/chat.rs:138-142).
OnlineIsPlannedFor ==
    \A n \in Node, i \in running : Seen(i, n) = "online" => list[i][n] = "online"
=============================================================================
