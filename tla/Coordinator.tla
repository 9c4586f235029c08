----------------------------- MODULE Coordinator -----------------------------
(***************************************************************************)
(* The choice of nodes for a chat completion and its execution with        *)
(* failover: ShardCoordinator of shard_coordinator.rs, called from         *)
(* completions of routes/chat.rs.  Requests run concurrently; the registry *)
(* changes under them.                                                     *)
(*                                                                         *)
(* A streaming request goes to the first candidate's controller and has no *)
(* failover; a task of its own passes the answer on and records the usage, *)
(* whether the client is still there or not.                               *)
(*                                                                         *)
(* A plan is the sequence of its nodes: one node that holds the whole      *)
(* model, or the stages of a pipeline, whose first node is the controller. *)
(* How a node comes by its status and its latency is NodeRegistry's        *)
(* subject: here they change freely.  A gateway with a database plans from *)
(* the same list, which then holds only nodes whose registration failed    *)
(* (NodeRegistry): fewer behaviours, not more.                             *)
(***************************************************************************)
EXTENDS ModelRegistry, GreedyPlan

CONSTANTS
    Request,    \* the requests that may arrive
    Model,      \* the names of the models they may ask for
    NodeList,   \* the registry's list of nodes, as a sequence
    Vram,       \* vram_mb of every node
    P50,        \* the latencies node_stats may come to hold; 0 for a node that
                \* never answered a probe (health_monitor.rs:209)
    Latency,    \* what node_stats holds at first, per node
    NoStats,    \* no entry in node_stats; f64::MAX in the comparison
    Earlier,    \* bound: single-node requests before those of Request
    MaxChanges, \* bound: changes of the registry while requests run
    Database    \* whether the gateway has a database for its usage records

Node == Range(NodeList)

ASSUME NodeListAssumption == NodeList \in Seq(Node) /\ IsInjective(NodeList)
ASSUME RequestAssumption == IsFiniteSet(Request)
ASSUME VramAssumption == Vram \in [Node -> Nat]
ASSUME LatencyAssumption == /\ P50 \subseteq Nat /\ NoStats \in Nat /\ \A p \in P50 : p < NoStats
                            /\ Latency \subseteq [Node -> P50 \cup {NoStats}]
ASSUME BoundAssumption == Earlier \in Nat /\ MaxChanges \in Nat /\ Database \in BOOLEAN

VARIABLES
    online,    \* the nodes whose status is Online
    p50,       \* node_stats
    changes,   \* how often either has changed
    counter,   \* rr_counter
    phase,     \* per request: where its handler is, or how it ended
    plans,     \* per request: the candidates not tried yet, in order
    stream,    \* the requests that ask for a stream
    answered,  \* per request: the node that answered, if one did
    usage,     \* per request: its rows in usage_logs
    asked,     \* the spec of the model a request asks for; {} before it arrives
    able,      \* ghost: the nodes online and large enough on its arrival
    refused,   \* ghost: the controllers that failed it, in order
    firsts     \* ghost: per node, the requests that tried it first of several
               \* single nodes, since the registry last changed

registry == <<online, p50, changes>>
handler == <<phase, plans, stream, answered, asked>>
ghosts == <<able, refused, firsts>>
vars == <<registry, counter, handler, usage, ghosts>>

-----------------------------------------------------------------------------
Position(n) == CHOOSE i \in DOMAIN NodeList : NodeList[i] = n

\* Fastest first, larger first among equals, registry order last: sort_by is
\* stable.
Faster(a, b) ==
    \/ p50[a] < p50[b]
    \/ p50[a] = p50[b] /\ Vram[a] > Vram[b]
    \/ p50[a] = p50[b] /\ Vram[a] = Vram[b] /\ Position(a) < Position(b)

Larger(a, b) ==
    \/ Vram[a] > Vram[b]
    \/ Vram[a] = Vram[b] /\ p50[a] < p50[b]
    \/ Vram[a] = Vram[b] /\ p50[a] = p50[b] /\ Position(a) < Position(b)

\* sort_by: the i-th element of S has i - 1 others before it.
Sorted(S, Before(_, _)) ==
    [i \in 1..Cardinality(S) |-> CHOOSE n \in S : Cardinality({k \in S : Before(k, n)}) = i - 1]

RotateLeft(s, k) == [i \in DOMAIN s |-> s[((i - 1 + k) % Len(s)) + 1]]

\* Mutant of Solo: nodes are not asked whether they are online.
SoloAnyStatus(m) == {n \in Node : Vram[n] >= TotalVram(m)}

Solo(m) == {n \in online : Vram[n] >= TotalVram(m)}

\* Mutant of SoloPlans: the rotation is dropped.
SoloPlansUnrotated(m) ==
    LET solo == Sorted(Solo(m), Faster)
    IN  [i \in DOMAIN solo |-> <<solo[i]>>]

SoloPlans(m) ==
    LET solo == RotateLeft(Sorted(Solo(m), Faster), counter % Cardinality(Solo(m)))
    IN  [i \in DOMAIN solo |-> <<solo[i]>>]

\* build_plan: plan_shards over every online node; GreedyNodes is its result.
MultiNodePlan(m) ==
    LET plan == GreedyNodes(Sorted(online, Larger), Vram, m)
    IN  IF plan = <<>> THEN <<>> ELSE <<plan>>

BuildCandidates(m) == IF Solo(m) # {} THEN SoloPlans(m) ELSE MultiNodePlan(m)

-----------------------------------------------------------------------------
Init ==
    /\ online \in SUBSET Node
    /\ p50 \in Latency
    /\ changes = 0
    /\ counter \in 0..Earlier
    /\ phase = [r \in Request |-> "idle"]
    /\ plans = [r \in Request |-> <<>>]
    /\ stream = {}
    /\ answered = [r \in Request |-> {}]
    /\ usage = [r \in Request |-> 0]
    /\ asked = [r \in Request |-> {}]
    /\ able = [r \in Request |-> {}]
    /\ refused = [r \in Request |-> <<>>]
    /\ firsts = [n \in Node |-> 0]

\* completions up to the dispatch: the candidates are built in one step, under
\* the read locks, and the counter advances only for single-node candidates.  A
\* stream keeps the first of them.  What sanitize_request refuses never arrives.
Arrive(r, name, streaming) ==
    /\ phase[r] = "idle"
    /\ LET m == SpecOf(name)
           candidates == BuildCandidates(m)
       IN  /\ asked' = [asked EXCEPT ![r] = {m}]
           /\ plans' = [plans EXCEPT ![r] = IF streaming /\ candidates # <<>> THEN <<Head(candidates)>>
                                            ELSE candidates]
           /\ phase' = [phase EXCEPT ![r] = IF streaming THEN "opening"
                                            ELSE IF candidates = <<>> THEN "fallback" ELSE "trying"]
           /\ able' = [able EXCEPT ![r] = {n \in online : Vram[n] >= TotalVram(m)}]
           /\ IF Solo(m) = {} THEN UNCHANGED <<counter, firsts>>
              ELSE /\ counter' = counter + 1
                   /\ firsts' = [firsts EXCEPT ![candidates[1][1]] = @ + 1]
    /\ stream' = IF streaming THEN stream \cup {r} ELSE stream
    /\ UNCHANGED <<registry, answered, usage, refused>>

\* Mutant of Succeed: every stage of a pipeline is credited with the answer.
SucceedAll(r) ==
    /\ phase[r] = "trying"
    /\ answered' = [answered EXCEPT ![r] = Range(Head(plans[r]))]
    /\ phase' = [phase EXCEPT ![r] = IF Database THEN "recording" ELSE "done"]
    /\ UNCHANGED <<registry, counter, plans, stream, asked, usage, ghosts>>

\* A candidate answers; the usage record is handed to a task of its own.
Succeed(r) ==
    /\ phase[r] = "trying"
    /\ answered' = [answered EXCEPT ![r] = {Head(plans[r])[1]}]
    /\ phase' = [phase EXCEPT ![r] = IF Database THEN "recording" ELSE "done"]
    /\ UNCHANGED <<registry, counter, plans, stream, asked, usage, ghosts>>

\* Mutant of Fail: the same node is tried again.
FailRetry(r) ==
    /\ phase[r] = "trying"
    /\ refused' = [refused EXCEPT ![r] = Append(@, Head(plans[r])[1])]
    /\ UNCHANGED <<registry, counter, handler, usage, able, firsts>>

\* Mutant of Fail: a node that failed goes to the end of the line.
FailCycles(r) ==
    /\ phase[r] = "trying"
    /\ plans' = [plans EXCEPT ![r] = Append(Tail(@), Head(@))]
    /\ UNCHANGED <<registry, counter, phase, stream, answered, asked, usage, ghosts>>

\* A candidate cannot be reached, answers with an error, or is still at work
\* when the client of 120 seconds gives up: the next one is tried.
Fail(r) ==
    /\ phase[r] = "trying"
    /\ refused' = [refused EXCEPT ![r] = Append(@, Head(plans[r])[1])]
    /\ plans' = [plans EXCEPT ![r] = Tail(@)]
    /\ phase' = [phase EXCEPT ![r] = IF Len(plans[r]) = 1 THEN "failed" ELSE "trying"]
    /\ UNCHANGED <<registry, counter, stream, answered, asked, usage, able, firsts>>

\* No candidate: the local Ollama is asked instead.
Fallback(r, success) ==
    /\ phase[r] = "fallback"
    /\ phase' = [phase EXCEPT ![r] = IF ~success THEN "failed"
                                     ELSE IF Database THEN "recording" ELSE "done"]
    /\ UNCHANGED <<registry, counter, plans, stream, answered, asked, usage, ghosts>>

\* A stream's backend accepts the request, or it fails; there is no second try.
Open(r) ==
    /\ phase[r] = "opening"
    /\ phase' = [phase EXCEPT ![r] = "streaming"]
    /\ answered' = [answered EXCEPT ![r] = {p[1] : p \in Range(plans[r])}]
    /\ UNCHANGED <<registry, counter, plans, stream, asked, usage, ghosts>>

OpenFails(r) ==
    /\ phase[r] = "opening"
    /\ phase' = [phase EXCEPT ![r] = "failed"]
    /\ UNCHANGED <<registry, counter, plans, stream, answered, asked, usage, ghosts>>

\* Mutant of StreamEnds: the task returns at the line that says done.
StreamEndsUncharged(r, complete) ==
    /\ phase[r] = "streaming"
    /\ phase' = [phase EXCEPT ![r] = IF complete THEN "done" ELSE "cut"]
    /\ UNCHANGED <<registry, counter, plans, stream, answered, asked, usage, ghosts>>

\* The task reads the line that says done, and hands the usage record on; or the
\* stream breaks off, or ends without that line or its newline, and nobody pays.
StreamEnds(r, complete) ==
    /\ phase[r] = "streaming"
    /\ phase' = [phase EXCEPT ![r] = IF ~complete THEN "cut"
                                     ELSE IF Database THEN "recording" ELSE "done"]
    /\ UNCHANGED <<registry, counter, plans, stream, answered, asked, usage, ghosts>>

\* The client goes away: the handler is dropped where it waits.  The task of a
\* stream reads on.
Disconnect(r) ==
    /\ phase[r] \in {"trying", "fallback", "opening"}
    /\ phase' = [phase EXCEPT ![r] = "dropped"]
    /\ UNCHANGED <<registry, counter, plans, stream, answered, asked, usage, ghosts>>

\* record_usage: the INSERT succeeds, or is reported to have failed, which is only
\* logged; it may have been carried out all the same.
RecordUsage(r, success) ==
    /\ phase[r] = "recording"
    /\ phase' = [phase EXCEPT ![r] = IF success THEN "done" ELSE "unlogged"]
    /\ \/ usage' = [usage EXCEPT ![r] = @ + 1]
       \/ ~success /\ UNCHANGED usage
    /\ UNCHANGED <<registry, counter, plans, stream, answered, asked, ghosts>>

\* Sweeper, prober and registration at work on the registry: a node's status
\* or its latency changes.
RegistryChange(n) ==
    /\ changes < MaxChanges
    /\ changes' = changes + 1
    /\ \/ /\ online' \in {online \cup {n}, online \ {n}} \ {online}
          /\ UNCHANGED p50
       \/ /\ p50' \in {[p50 EXCEPT ![n] = p] : p \in P50} \ {p50}
          /\ UNCHANGED online
    /\ firsts' = [k \in Node |-> 0]
    /\ UNCHANGED <<counter, handler, usage, able, refused>>

\* How a request may end; unlogged is one whose answer is out but whose INSERT failed.
Over == {"done", "unlogged", "failed", "dropped", "cut"}

Phases == {"idle", "trying", "fallback", "opening", "streaming", "recording"} \cup Over

Idle == (\A r \in Request : phase[r] \in Over) /\ UNCHANGED vars

Next ==
    \/ \E r \in Request :
          \/ \E name \in Model, streaming \in BOOLEAN : Arrive(r, name, streaming)
          \/ Succeed(r) \/ Fail(r) \/ Disconnect(r)
          \/ Open(r) \/ OpenFails(r)
          \/ \E success \in BOOLEAN :
                Fallback(r, success) \/ StreamEnds(r, success) \/ RecordUsage(r, success)
    \/ \E n \in Node : RegistryChange(n)
    \/ Idle

\* A handler that waits for a candidate gets an answer or gives up: the HTTP
\* client of the coordinator has a timeout (shard_coordinator.rs:49-50).
Fairness == \A r \in Request : WF_vars(Succeed(r) \/ Fail(r) \/ Disconnect(r))

Spec == Init /\ [][Next]_vars /\ Fairness

-----------------------------------------------------------------------------
TypeOK ==
    /\ online \subseteq Node
    /\ p50 \in [Node -> P50 \cup {NoStats}]
    /\ counter \in 0..Earlier + Cardinality(Request)
    /\ phase \in [Request -> Phases]
    /\ stream \subseteq Request
    /\ plans \in [Request -> Seq(Seq(Node))] /\ refused \in [Request -> Seq(Node)]
    /\ answered \in [Request -> {{}} \cup {{n} : n \in Node}]
    /\ usage \in [Request -> Nat]
    /\ changes \in 0..MaxChanges
    /\ asked \in [Request -> {{}} \cup {{SpecOf(name)} : name \in Model}]
    /\ able \in [Request -> SUBSET Node]
    /\ firsts \in [Node -> Nat]

\* Failover tries each able node once and no other: a node that refused is not
\* returned to, nodes that cannot hold the model alone, and pipelines, are tried
\* only when no node was able on the request's arrival, and a request without
\* streaming that fails has been refused by every able one
\* (shard_coordinator.rs:57-64, 136-137, 150-170).
AbleNodesOnce ==
    \A r \in Request :
        /\ IsInjective(refused[r]) /\ answered[r] \cap Range(refused[r]) = {}
        /\ able[r] # {} =>
              /\ answered[r] \cup Range(refused[r]) \subseteq able[r]
              /\ \A i \in DOMAIN plans[r] : Len(plans[r][i]) = 1 /\ plans[r][i][1] \in able[r]
        /\ phase[r] = "failed" /\ r \notin stream => able[r] \subseteq Range(refused[r])

\* A consumer pays once for a complete answer and never for a failure: a request has
\* at most one usage record, none if it failed, was given up by its client or broke
\* off in the stream, and, where there is a database, one if it ended with its
\* answer, whether its client waited or not, unless the INSERT was reported to have
\* failed (routes/chat.rs:185-200, 208-224, 304-315).
PaidOncePerAnswer ==
    \A r \in Request : /\ usage[r] <= 1
                       /\ phase[r] \in {"failed", "dropped", "cut"} => usage[r] = 0
                       /\ Database /\ phase[r] = "done" => usage[r] = 1

\* First tries go round the nodes that can hold a model alone: while neither the
\* registry changes nor another such model is asked for, no peer gets more than one
\* request ahead of another (shard_coordinator.rs:60-61, 96-100).
EvenRotation ==
    LET solo == {r \in Request : able[r] # {}}
    IN  \A m \in UNION {asked[r] : r \in solo} :
            (\A r \in solo : asked[r] = {m}) =>
                \A a, b \in Solo(m) : firsts[a] <= firsts[b] + 1

\* Failover comes to an end, whichever nodes hang or fail: a request does not
\* stay with its candidates for ever (shard_coordinator.rs:150-172).
FailoverEnds ==
    \A r \in Request : phase[r] = "trying" ~> phase[r] # "trying"
=============================================================================
