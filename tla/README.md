# Infer Platform in TLA+

This directory holds a TLA+ model of the Infer Platform (the Rust workspace
under `crates/`): the modules, the TLC configurations that check them on small
instances, and proofs that TLAPS checks for every instance. Line numbers refer
to the sources at the commit beside which this directory is kept.

## 1. Inventory

The gateway (`crates/api-gateway`) takes OpenAI-style requests, picks GPU nodes
for them, meters and bills usage. Agents (`crates/node-agent`) run on the GPU
machines. The planner (`crates/shard-planner`) is a pure library of the gateway.
PostgreSQL, Redis and Stripe are outside; several gateway processes may share
them, and each can run without the first two.

| Component | State | Operations | Interacts with | What is hard | What makes it correct |
|---|---|---|---|---|---|
| Shard planner, `planner.rs` | none between calls | `plan_shards` | called by the coordinator | greedy placement, rounding, one reserve | every layer in one stage, no node overcommitted or used twice, giving up only when it must |
| Model registry, `registry.rs` | a constant table | `get`, `estimate` | coordinator | lookup by prefix | one entry per name |
| Node registry, `routes/nodes.rs`, `stale_nodes.rs`, `health_monitor.rs` | list of nodes in memory or the tables `nodes`, `node_health`; failure counts | register (= heartbeat), sweep, probe | agents, coordinator, database | three writers of one status on different evidence; several instances; failing statements | out of routing only on evidence, silent nodes out of routing |
| Shard coordinator, `shard_coordinator.rs` | `rr_counter` | `build_candidates`, `build_plan`, `execute_with_failover` | node list, planner, agents | concurrent requests over a changing registry, failover, timeouts | every able node tried once, an end, even rotation |
| Chat completions, `routes/chat.rs` | `usage_logs` | `completions`, streaming, `record_usage` | coordinator, database | answer and record part ways | one charge per answer, none for a failure |
| Agents' pipeline, `node-agent/src/shard.rs` | none | `forward` | gateway, next agent | nested waits, finding one's own place | the chain follows the plan, an answer is of the whole chain |
| Meter reporter, `billing_cron.rs` | `billing_meter_reports` | `report_meter_usage` | `usage_logs`, Stripe | crash between call and note, several instances | never billed twice, nothing lost |
| Payouts, `billing_cron.rs` | `last_payout_day` | `process_payouts` | `usage_logs`, Stripe | restart, several instances, failing transfers | one share a day, not more than was earned |
| Billing setup, `routes/billing.rs` | `billing_customers` | `setup` | Stripe, database | six awaits, no transaction | all replies name the customer on record, who can be charged |
| Provider onboarding, webhooks, `routes/billing.rs` | `provider_stripe_accounts` | `connect`, `stripe_webhook` | Stripe, database | the same, and events out of order | one account per node, its latest state |
| Keys and rate limits, `routes/keys.rs`, `auth.rs`, `cache.rs` | `api_keys`, counters in Redis | create, revoke, validate, count | every request | two calls of Redis, several instances, late calls | no more than the limit, no refusal below it |
| Provider CLI, `infer_cli.rs` | `~/.infer/state.json`, a `bore` child process | connect with its heartbeats, disconnect | gateway | processes and a file without coordination, one node for all connects of a machine | nothing left behind, the address of the tunnel that is kept |
| Agent registration, `registration.rs` | backoff, `registration_ok` | the loop | gateway's node entry and sweeper | backoff against the gateway's timeouts, lost answers, outages, restarts | the flag tells the truth, a node is off only after failures, a live node comes back |

The hazards of this code, each at its line, are listed in `PROJECT.json`.

## 2. Modules

Each module `X` has an `MCX` that gives it values for TLC; a run `X_Y` is `MCX`
with `X_Y.cfg`. Mutants, named after the definition they change, stand before it:
every checked property is violated when its mutant takes the definition's place.
`PROJECT.json` maps every definition to the lines it models. The modules that end in
`Proofs` extend them with theorems (section 6): `NodeAgentProofs` holds those of
AgentRegistration, ShardPipeline and ProviderCli, `BillingCronProofs` those of
MeterReporter and Payouts, every other one those of the module it is named for.
**DataLemmas** has the facts about sums, running sums and ranks that they share.
Modules that are extended together name their variables and definitions apart:
`PipeInit`, `CliSpec`, `payoutVars`.

**ShardPlanner** is one call of `plan_shards`. `RejectEmpty`, `RejectSmall` and
`Sort` are what comes before the loop, `PlaceLayers` and `SkipNode` its
iterations, `Finish` the check after it. `cursor` is `layer_cursor`, `reserve`
is `context_reserve`. The stable sort is defined by what it returns; the cast to
`u32` is a remainder. **GreedyPlan** is the planner's result in closed form, as operators: which positions of the sorted
list become stages. `PlanIsGreedy` checks the loop against it.

**ModelRegistry** has the table as it stands in the source, the lookup and the
estimate, as operators: the component keeps no state. A name is the sequence of
its parts; the head comment says why prefix of parts and prefix of text agree.
`TableAssumption` states that no entry's name begins another's.

**NodeRegistry** is the registry in both of its modes; `database` tells which.
With a database, `table` and `streak` (the failures at the end of `node_health`)
are shared by all `running` instances, and `list` is what registration falls
back to when its statement fails. Without one, a single instance works on its
`list`; instances without a database share nothing, so one stands for all.
Agents, sweepers and probers all act every 30 seconds, so time is counted in
rounds: in each, every actor acts once, in any order. Ninety seconds without
heartbeat are three sweeps. The prober's steps are apart (collect, ping, and
then insert, count and update, or apply), since each awaits; all but `ApplyProbe`
and `Ping`, which cannot, have an action for their failure. In a list a
heartbeat changes a node's id; `current` says whether a collected id is still
valid.

**Coordinator** is `completions`: `Arrive` builds the candidates under the read
locks, `Succeed` and `Fail` are the iterations of `execute_with_failover`,
`Fallback` is the local Ollama, `RecordUsage` the spawned task: a request whose
INSERT is reported to have failed ends `unlogged`, with or without its row. A stream is opened
at the first candidate (`Open`, `OpenFails`), and a task of its own reads it to the
line that says done or to where it breaks off (`StreamEnds`), whether the client is
still there or not. A plan is the sequence of its nodes; `MultiNodePlan` takes it from
GreedyPlan. How nodes change status and latency is left open
(`RegistryChange`), which covers both registries. `rr_counter` starts at what earlier
requests left; its overflow at 2^64 is left out. It extends ModelRegistry: a
request asks for a model by name.

**ShardPipeline** is one request through a plan of several nodes. `stack` holds
the agents whose handlers wait for one another. `Matches` is the comparison by
which an agent finds itself.

**MeterReporter** and **Payouts** are the two tasks of `billing_cron.rs`. A run
is a process of its own, with `pc` in the one and `stage` in the other; a restart is
possible between any two of its steps. Stripe is a set of events, deduplicated by identifier, and a log of
transfers, which carry none. **BillingLedger** is what metering promises, without
runs, instances or crashes: an hour is billed once or not at all, and noted only
when it is billed. MeterReporter is shown to implement it (section 3).

**BillingRoutes** has the handlers of `setup` and `connect` with a step for each
await, `attach_payment_method` with its two calls included. What a call does at
Stripe or in the database stands apart from what the handler does next (`Effect`),
so that it can also happen in `BreakOff`. A request's subject, a key or a node, says which of them it is for. `BreakOff`
is a call that may or may not have taken effect and whose reply is lost.
`AccountChanges` is Stripe, `AccountUpdated` the webhook, which may get any event
of an account, and get it again.

**KeyAccess** is a request's way through `require_api_key`. Time is counted in
half-minutes; `Lock` reads the clock, `Incr` and `Expire` are the calls of Redis.
**FixedWindow** is the limiter that is meant: a request gets a turn in a minute of
its key, and its verdict by the turn; a request whose count did not come back may
be let through. KeyAccess is shown to implement it, and it is proved to keep the
limit.

**ProviderCli** is `infer connect` and `infer disconnect`, processes that share
a file and a child process, and the heartbeats of all connects of a machine, which
write one address at the coordinator.

**AgentRegistration** is the loop of `registration.rs` with the gateway's entry of
the node and the sweep that takes it off. Time is counted in units of two seconds,
the greatest common measure of the intervals (10, 30, 2 to 120 and 90 seconds), and
does not pass by what is due. A call may be handled at any time until its timeout,
and what is not touched by an outage is answered; `sound` says which call that is.
NodeRegistry, in which everybody acts once in 30 seconds, has the same sweeper next
to the prober; the two modules look at it from the two sides.

A component is composed with its neighbours through what the neighbour's module
establishes: `Coordinator` and `ShardPipeline` take plans as `ShardPlanner`
shows them to be (`WithinVram`, `WholeModelOnOne`, `PlanIsGreedy`), `Coordinator` takes any
status `NodeRegistry` may produce, and `MeterReporter` the usage records
`Coordinator` writes.

Names are the source's where TLA+ allows it; the comment before an action names
the function it is.

## 3. Runs

Ten runs pass, one for each component with state. Their numbers of distinct
states are rounded.

| Run | Instance | States | Shows |
|---|---|---|---|
| ShardPlanner | lists of up to 4 of 4 nodes, VRAM of 0..5 and 7, 3 models | 80 k | `EveryLayerOnce`, `WholeModelOnOne`, `PlanIsGreedy`; `WithinVram`: no node gets more layers than it has room for, and the controller has room for the context exactly if some node could hold it beside a layer; `GiveUpJustified`: the planner gives up only if no split of the layers, with the context on the largest node, exists |
| NodeRegistry | 1 node; 1 or 2 instances with a database and 2 failing statements, or 1 without; thresholds 3, 3, 10 | 840 k | `NoFalseAlarm`, `HealthyIsOnline`, `SilentNotOnline` |
| Coordinator | 3 nodes, 2 requests, streaming or not, after 0..2 earlier ones, 2 models of the table, 1 change of status or latency | 440 k | `AbleNodesOnce`, `EvenRotation`, `FailoverEnds`; `PaidOncePerAnswer`: one usage record of an answer, unless its INSERT failed, and none of a failure |
| ShardPipeline | 3 nodes, plans of 2 or 3 of them, every assignment of distinct hosts and ports | 10 k | `ChainFollowsPlan`, `AnswerFromWholePlan`, `PipelineEnds` |
| MeterReporter | 2 instances, 2 customers, 2 hours, 1 failure, late records | 760 k | `ImplementsLedger`, `CleanRunBillsAll` |
| Payouts | 1 instance, 2 providers, 3 days of 3 ticks, 1 failed query, transfer and restart each | 510 k | `PaidOncePerLife`, `NeverOverpaid`, `WindowsTile` |
| BillingRoutes | 3 requests, 2 keys, 2 nodes, any call lost at any step, 3 events | 150 k | `RepliesAgree`, `RecordStays`, `RecordInStep` |
| KeyAccess | 3 requests, 1 key (limit 2), 2 instances, 3 minutes of half-minute steps, INCR late by up to 1 minute | 480 k | `ImplementsLimiter`, `WithinLimit` |
| ProviderCli | 3 connects, 1 disconnect | 120 k | `InterruptCleans`, `AddressSettles` |
| AgentRegistration | 1 node; the program's own intervals | 160 k | `RegisteredIsNotStale`, `StaleAfterFailures`, `RejoinsInTime` |

`ImplementsLedger` and `ImplementsLimiter` are refinements: the abstract
specification, instantiated with what the variables of the detailed one stand for,
is a property of it. Every step of several reporters, with crashes and lost calls,
is one line on the bill, one note or nothing; every step of a request at Redis is a
turn, an answer or nothing. In KeyAccess the ghost `turn` numbers the INCRs of a
key's minute in the order in which they take effect, so that what Redis returned can
be held against it.

Every run also checks its type invariant (`TypeOK`; `PipeTypeOK`, `CliTypeOK` and
`PayoutTypeOK` where one module of proofs is about two), in which the relations between variables that
later steps rely on stand beside the types (a prober holds registered nodes
only; a request at Redis holds the mutex of its instance).

Why the bounds are enough to be of interest:

- *NodeRegistry.* The thresholds are the program's, so a node passes through every
  status. Nodes do not share state: another node only delays a prober between two
  of its steps, and any delay within a round is already there. Two instances are
  the fewest that can overtake one another between insert, count and update; two
  failures let an error meet the consequence of another. A prober that needs more
  than 30 seconds for a pass, which many unreachable nodes can bring about
  (5 seconds each), is outside the model.
- *Coordinator.* With all three nodes able to hold the small model, failover
  passes through three candidates, and counters 0 to 2 give every rotation. Two
  consecutive requests, from every counter, are the step
  from which even rotation follows for any number. The large model needs two nodes,
  so that the third, and any change, decides between pipeline, failure and the
  local fallback.
- *ShardPipeline.* Plans of up to `MaxStages` = 3 stages have a first, a middle and
  a last agent, which is all that `Matches` can confuse; the proofs have no bound.
- *MeterReporter.* Two hours are the fewest in which a report can be missed, and
  two instances and customers the fewest that can be confused.
- *Payouts.* Days of three ticks, two of them in the hour of payouts, let a run
  fail and be repeated in the same night; three days give a window two
  neighbours. Windows are cut at whole ticks. The code reads the clock twice, for
  the hour of the night and for the window (`billing_cron.rs:29, 166`), so that its
  windows join as `WindowsTile` says only up to the delays of these readings. An
  instance keeps its own `last_payout_day`, so instances do not affect one another,
  and one is checked.
- *BillingRoutes.* A key or a node needs two requests to interleave and a third to
  come after them. Three events are an account that is enabled, restricted and
  enabled again, or two accounts' events side by side. Requests are
  interchangeable, so are keys and nodes: the run uses symmetry (`RecordStays`
  concerns single steps, for which that is sound).
- *ProviderCli.* Three connects are the fewest of which one can take over from
  another while a third one's last heartbeat is still under way. No symmetry is
  used, since `AddressSettles` is a liveness property.
- *AgentRegistration.* The intervals are the program's. `StaleAfterFailures` is
  stated with the largest number for which it holds, three failed calls, and `RejoinsInTime` with the
  sum of the longest backoff and two calls; one failure more, or one unit less, is
  violated. A registration that reaches the gateway after the agent has given it up
  would only make the entry younger, and is left out.
- *KeyAccess.* The life of a counter, 120 seconds, is four half-minutes; the clock
  passes it, and an INCR may be delayed for MaxDelay of them after the
  clock was read.

`CHECK_DEADLOCK` is on everywhere; where a system comes to rest (all requests
answered, the last tick of the bound), a stuttering action says so.

## 4. Fairness

Safety holds without any. Three runs check liveness.

- *Coordinator*, `FailoverEnds`: weak fairness of a request's handler, which either
  gets an answer, an error or the timeout of the HTTP client (120 seconds,
  `shard_coordinator.rs:49-50`), or is dropped by the server.
- *ShardPipeline*, `PipelineEnds`: weak fairness of `Work`, the steps of the
  agents' handlers. Every POST and every inference has a timeout of its own, and
  tokio runs what is ready. `Timeout`, the gateway's, is left out of the fairness on
  purpose: the chain has to end because it gets to the last node.
- *ProviderCli*, `AddressSettles`: weak fairness of `Beat`, a timer of tokio's that
  runs while its process does and whose calls end after 15 seconds, and strong
  fairness of `Arrive`: of infinitely many heartbeats not all are lost. Nothing is
  assumed of users, of `bore` or of the progress of another connect.

## 5. Where the code and its text part

Two runs are expected to end in a violation. Each states what a comment or a
document says, and TLC shows the behaviour of the code that contradicts it.

- `NodeRegistry_OnlineIsPlannedFor`: with a database a registered node never
  reaches the list from which completions plan.
- `ShardPipeline_DefaultPort`: agents that share the default port mistake their
  place in the plan.

Others were met while modelling; the models show them, but no run is spent on them.

- `planner.rs:133` takes the second check of `plan_shards` for granted after the
  first. Rounding on each node, and nodes smaller than the context, make it
  fire (`pc = "uncovered"` in ShardPlanner). And a context that does not fit beside
  a layer on the largest node is charged to that node though it is skipped. The plan
  that is returned then starts on a controller without room for it, where
  `registry.rs:11` says "always on the controller node" and `planner.rs:76` that it is
  deducted there. `ContextPlaced`, a part of `WithinVram`, says exactly when this
  happens: when no node on offer can hold the context beside a layer. With the
  table's `llama3.1:70b` (480 MB a layer, 2048 MB context), 17 nodes of 2500 MB are
  planned so, and the controller is left with 100 MB.
- `README.md:339` lists `llama3.2` and `phi4` as built in; the table has them with a
  size only, and the lookup misses the bare names.
- The prober sets a node online that answers pings although its heartbeats
  stopped, over the sweeper's `offline` (`stale_nodes.rs:7`), and the sweeper back.
  It takes a node of `infer connect` off although its heartbeats arrive, since
  the tunnel to Ollama answers no `/ping` (`infer_cli.rs:228`, `362`). No node is
  ever removed (`ARCHITECTURE.md:82`).
- A node that came into an instance's list by a failed upsert stays online in it for
  ever: with a database nothing sweeps or probes that list.
- One rotation counter serves all models, so models asked for in turn may each
  stay with one peer (`shard_coordinator.rs:60-61`). `EvenRotation` is stated for
  requests that ask for one such model.
- An hour whose report failed is not reported later (`billing_cron.rs:57`), though
  the log message says "will retry next hour" (`billing_cron.rs:151`).
- After a long outage a call may be handled while its answer is lost; the agent then
  sleeps for up to 120 seconds and its node goes stale with the gateway within reach
  (`registration.rs:51`, `stale_nodes.rs:20`). `RejoinsInTime` bounds that.
- `routes/models.rs` computes a model's uptime over rows of `node_health` that it
  has filtered for success, so that it is always 1; its count of available nodes
  looks at the list in memory only. `routes/provider.rs` credits a model's tokens to
  every node that hosts it. Both only read.
- Every stage of a pipeline runs the whole model, where `shard.rs:11-13` says all
  but the controller return an empty message.
- A restart in the hour of payouts, or a second instance, pays a night again
  (`billing_cron.rs:26`; `PaidOncePerLife` counts them), and a transfer that failed
  is not made up for (`billing_cron.rs:254`). A payout that is delayed by a failed
  query makes the windows of two nights gap or overlap: `WindowsTile` and
  `NeverOverpaid` are stated for nights without one.
- Two setups of a key at once, or one after a failure, leave two customers at
  Stripe (`routes/billing.rs:42`); the record names one of them. Two connects of a
  node leave two accounts, both on record, since `node_id` is not unique there;
  the payout run then pays the node twice a night.
- An event that Stripe delivers late overwrites a later one, and one whose UPDATE
  failed is answered with OK, so it does not come again (`routes/billing.rs:342-350`,
  `379`): `RecordInStep` is stated for events handled in order and with success.
- A stream for a model that needs a pipeline goes to the controller's Ollama alone
  (`routes/chat.rs:150-153`). One that ends without a complete `done` line is
  passed on and not charged. Its HTTP client has no timeout (`246`).
- A counter whose EXPIRE fails stays in Redis, though its minute passes
  (`ARCHITECTURE.md:258`).
- SIGTERM leaves the tunnel of `infer connect` open (`infer_cli.rs:390`), and after
  `infer disconnect` the heartbeats of the connect it shut down go on, so the node
  does not go offline (`infer_cli.rs:411-414`): nothing in ProviderCli ends `Beat`
  but the end of the process.

## 6. Proofs

Every safety invariant, every action property and both refinements that the runs
check are proved for every value of the constants. Each proof states an invariant,
usually called `Inv`, shows that it holds initially and that every action keeps it,
one step of the proof for each action, and concludes with a step of PTL. Assumptions
are those that the modules declare, and those named here.

| Module | Theorem | States |
|---|---|---|
| ShardPlannerProofs | `TypeCorrect` | `Spec => []TypeOK` |
| | `LayersPlacedOnce` | `Spec => []EveryLayerOnce` |
| | `NoOvercommit` | `Spec => []WithinVram`, for VRAM whose number of layers fits 32 bits |
| | `ControllerHasRoom` | `Spec => [](pc = "planned" /\ ContextFits => ContextOnController)` |
| | `OneStagePerNode` | `Spec => []NoNodeTwice`, a conjunct of `WithinVram` |
| | `SoloNodesSuffice` | `Spec => []WholeModelOnOne`, for the same |
| | `LoopIsGreedy` | `Spec => []PlanIsGreedy`, for the same |
| | `GivesUpOnlyIfItMust` | `Spec => []GiveUpJustified`, for the same |
| CoordinatorProofs | `TypeCorrect` | `Spec => []TypeOK` |
| | `AbleNodesTriedOnce` | `Spec => []AbleNodesOnce` |
| | `PaidOnce` | `Spec => []PaidOncePerAnswer` |
| | `RotationIsEven` | `Spec => []EvenRotation` |
| NodeRegistryProofs | `TypeCorrect` | `Spec => []TypeOK` |
| | `AlarmsAreFounded` | `Spec => []NoFalseAlarm` |
| | `HealthyStaysOnline` | `Spec => []HealthyIsOnline` |
| | `SilentIsNoticed` | `Spec => []SilentNotOnline` |
| NodeAgentProofs | `PipeTypeCorrect` | `PipeSpec => []PipeTypeOK`, for nodes with addresses of their own |
| | `ChainIsThePlan` | `PipeSpec => []ChainFollowsPlan`, for the same |
| | `AnswerIsWhole` | `PipeSpec => []AnswerFromWholePlan`, for the same |
| | `TypeCorrect` | `Spec => []TypeOK`, of AgentRegistration |
| | `NoFalseFlag` | `Spec => []RegisteredIsNotStale` |
| | `Rejoins` | `Spec => []RejoinsInTime` |
| | `StaleOnlyAfterFailures` | `Spec => []StaleAfterFailures`, if two failures in a row fit into the time to staleness |
| | `CliTypeCorrect` | `CliSpec => []CliTypeOK` |
| | `InterruptLeavesNothing` | `CliSpec => []InterruptCleans` |
| BillingCronProofs | `TypeCorrect` | `Spec => []TypeOK`, of MeterReporter |
| | `CleanRunsBillAll` | `Spec => []CleanRunBillsAll` |
| | `LedgerImplemented` | `Spec => ImplementsLedger` |
| | `PayoutTypeCorrect` | `PayoutSpec => []PayoutTypeOK` |
| | `EachPaidOncePerLife` | `PayoutSpec => []PaidOncePerLife` |
| | `HealthyNeverOverpays` | `PayoutSpec => []NeverOverpaid` |
| | `HealthyWindowsTile` | `PayoutSpec => []WindowsTile` |
| BillingRoutesProofs | `TypeCorrect` | `Spec => []TypeOK` |
| | `AllRepliesAgree` | `Spec => []RepliesAgree` |
| | `RecordFollows` | `Spec => []RecordInStep` |
| | `RecordIsKept` | `Spec => RecordStays` |
| KeyAccessProofs | `TypeCorrect` | `Spec => []TypeOK` |
| | `LimiterImplemented` | `Spec => ImplementsLimiter` |
| | `GatewaysKeepLimit` | `Spec => []WithinLimit` |

**Induction.** The induction theorems of the library take an operator as a
parameter, which the provers cannot instantiate. DataLemmas states induction for
sets instead: a set that holds 0, and with every number the next, holds all numbers
(`NatInductive`, from the least counterexample), and likewise a set of subsets of a
finite set (`SubsetInductive`). A predicate is used through the set of what satisfies
it. From the two follow what the proofs need to know of folds and recursive functions:
a sum does not depend on the order of its terms (`TotalRemove`, `TotalPermuted`), a
recursive function of running sums exists (`RunningSumExists`), and a strict order
gives every element a rank of its own (`RankGrows`, `RankOnto`, `RankInList`).

**ShardPlanner.** For every set of nodes, every assignment of VRAM to them and
every set of models with positive layers and layer sizes (`ModelAssumption`
excludes the division by zero). None of the properties is inductive alone; the
invariant is their conjunction with what they need:

- `EveryLayerOnce` says itself that the stages follow one another up to the cursor
  and that the cursor does not pass the last layer, which is what appending a stage
  needs.
- `WithinVram` is stated over the plan's controller, its first stage. That it has room
  for the context whenever a node on offer could hold it beside a layer needs
  `ReserveOnce` (the context is held back from the first visit and from no other),
  `OrderSorted` (so the first node has as much room as any, `MostRoomFirst`) and
  `FirstTaken` (that visit then makes a stage, so no later node becomes the
  controller). Conversely a controller with room for the context is itself such a
  node, since each stage has a layer at least (`StagesHaveLayers`).
- `NoNodeTwice` needs `OrderInjective` (the sorted list names no node twice) and
  `PlacedBefore` (the nodes of the plan come from the part of the list already
  passed).
- `SoloNodesSuffice` needs `FirstTakesAll`: a first node with room for the whole
  model has taken it all after the first iteration.
- `PlanIsGreedy` needs `GreedySoFar`: the cursor is what the nodes passed have room
  for, or the last layer, and the stages built so far are the stages passed, counted
  in their order. That the closed form may take any sorted list is `SortIsUnique`: a
  stable sort puts every node at its rank. A node passed after the last layer is
  placed would be no stage of the closed form either, since the running sum only
  grows.
- `GiveUpJustified` follows from the same invariant by two sums. If there were a
  split, its VRAM would add up to that of the whole model (`SplitNeeds`), so the
  first check would not have refused; and none of its parts has more layers than the
  closed form gives its node, the context being on the first of the sorted list in
  both (`LargestFirst`), so that all layers would have been covered
  (`SplitCovered`).

The last three hold as long as no number of layers is truncated by the cast to `u32`:
every amount of VRAM in MB below 2^32.

**Coordinator.** For any table of nodes, any requests and any changes of status and
latency. The candidates of one request come first. Both orders are total, so a
sorted list has every node once, at the place of its rank, and the rotation turns it:
the candidates have different controllers and are, where nodes are able, the able
ones, the one at the counter first (`CandidatesAre`). `Course` then says of a request
in failover that what is left to try and what has refused are apart and together what
was able, which is `AbleNodesOnce` when nothing is left. `EvenRotation` is the hard
one: the counts of first tries are some whole rounds and the part of a round that
ends where the counter is (`GoneRound`). A first try at the counter's place lengthens
the part by one or closes the round. Since the property supposes that the
registry stands still and one model is asked for, `Rotation` holds the walk only for
the model that all requests with able nodes ask for, and starts again with no first
tries after a change. `PaidOncePerAnswer` is part of `PaidSoFar`: only the step out of
`recording` writes a record, and there is no step after it.

**NodeRegistry.** For every number of nodes, instances and failing statements, and
every choice of the thresholds. `Basic` is `TypeOK` with the facts that tell the two
modes apart; `ProberMoved` and `ProbersKept` reduce each action to what it changes.

- `NoFalseAlarm` is inductive beside `Basic`.
- `HealthyIsOnline` speaks of the end of a round. `Healthy` says what leads there: a
  node whose heartbeat came is online and fresh for every sweep still to come, and
  whatever a prober holds of a node that is not flawed, an answer, a count or a
  status, is good news. So a late UPDATE of one instance cannot undo another's.
- `SilentNotOnline` needs the number of failures that stand behind a status.
  `Noticed` says of a silent node that each round past has left a failure
  (`Strikes`), that a prober which is done with the node in this round has counted
  this one too, and that a status on its way to the table (`Holding`) is for at
  least as many. A status that two instances overwrite in any order is then never
  `online` once the silence has reached the threshold. When a round is over every
  prober is done, which carries the count into the next round.

**ShardPipeline.** For plans of any length. The handlers that wait are the
beginning of the plan (`Follows`), and so are the agents visited. The step to the
next agent uses that the agent finds itself at the place it was asked at, which
needs `Distinct`: no two nodes share a host or a port. With the default port that
fails, as the run `ShardPipeline_DefaultPort` shows.

**MeterReporter.** For any number of instances, customers, hours and failures. Once
an hour has been read, its records less the late ones do not change any more. Every
sum in flight and every event lies between that and what is logged (`Sum`), so two
reports of an hour may differ but neither bills what was not used. The refinement
maps an event to a line of the bill: a report of an hour that is on the bill already
is a stutter, since Stripe ignores its identifier. `RunSettles` says that a run
without failure leaves every customer it has passed billed; its end makes the hour
`clean`.

**Payouts.** For any number of gateways, providers, days and failures.

- `PaidOncePerLife` follows from `TransfersDone`: behind every transfer of a day to a
  provider stands a gateway that is done with that provider in its present life
  (`Done`), but for one for each restart, which forgets.
- A healthy gateway starts a run at the first tick of a day and at no other
  (`InStep`). So its windows are the days before, `CountedOnce` counts the gateways
  that have passed a tick, and `WindowsTile` is that count when no run is under way.
- `NeverOverpaid` needs `EqualShares`: every transfer of a day is that day's pool
  divided by the providers, so a day's transfers come to the pool at most, for each
  gateway. The pools are sums over windows that do not overlap; that they add up to
  no more than all that was earned is an induction over the days
  (`ReceivedIs`, `DayOverpaysNot`, `SumsBounded` and the lemmas on `Total`).

**BillingRoutes.** For any number of requests, keys, nodes and events. `ProgressOf`
says what is done when a handler has come to a call. Nothing that was done is undone
(`Effective`), so it stays true while other handlers move and calls break off. A
reply is given only for what is on record, and what is on record was completed by
the handler that wrote it. For events, the last one to be delivered tells what
Stripe holds, and the record tells the same once there are none
(`LastTells`).

**KeyAccess.** For any number of requests, keys and instances. `Truthful`: while a
counter is in Redis its value is the number of requests counted in its minute, and
one that is gone was dropped when nobody could ask for it any more. The second half
is what `DelayAssumption` is for: an INCR takes effect within a minute of the
reading of the clock, and a counter lives for two. A call later than that would
start a second count for a minute, and the limit would not hold. The refinement maps
an INCR to a turn of FixedWindow and the end of a request to its verdict. In
**FixedWindow**, the turns of a key's minute are distinct and at most as many as
were counted, so the admitted requests map one-to-one into the numbers up to the
limit (`LimiterInv`). `GatewaysKeepLimit` puts the two together: no more requests of a
key than its limit are admitted in a minute, but for those whose count did not come
back.

**AgentRegistration.** For all intervals within `MarginAssumption`. The argument is
one of budgets. `Fresh`: as long as the agent holds itself registered, the age of
its entry and the time left to the end of its next call stay below the age at which
the sweeper takes it off. `Returning`: as long as the node is away, the time since
the outage and the time left stay within what one failing call, one backoff and one
more call may take. `Failing`: before the third failure in a row the age of the entry
stays within what two failing calls and their backoffs take.

**ProviderCli.** For any number of connects and disconnects. `CliInv`: a
connect that was interrupted has neither tunnel nor file, and a disconnect is never at
a place of a connect. The second part is why no other process brings the tunnel or the
file back in its name: what a step starts or writes is its own connect's.

Only model-checked are the liveness properties `FailoverEnds`, `PipelineEnds` and
`AddressSettles`: fairness and ENABLED are beyond the proof system. The proofs of
NodeRegistry go beyond its run in one more way: the run has one node.

## 7. Not modelled

- The chunks of a stream and the channel of 64 events between its task and its
  client; parsing the lines of a stream. Coordinator leaves open when a stream ends
  and whether it is complete, which is all its properties tell apart.
- Hardware detection, license check, sanitizer: pure functions of text or of the
  machine. The reporting endpoints read and format. `main.rs`, `state.rs`, `db.rs`
  wire the parts together. The web dashboard is a client.
- Latency statistics: their value only orders candidates, and Coordinator lets it
  be anything.
- PostgreSQL, Redis and Stripe, except for what the code relies on: single
  statements are atomic, `INCR` returns the new value, an identifier is metered
  once.
- A gateway that stops between an answer and its record: the spawned task is lost with
  the process, and the answer is free.
- Money in floating point: Payouts counts cents after the commission, rounded down
  as the code does.

## 8. Plan

What would come next, in this order.

1. What the accounts of BillingRoutes make of the payouts of Payouts: a node with two
   accounts on record is paid twice a night (section 5).
2. An abstract ledger of answers and charges, which Coordinator and MeterReporter
   implement together: a charge belongs to an answer, and there is one.
3. An abstract registry that only says who is routable, implemented by NodeRegistry
   under the assumptions of `HealthyIsOnline` and `SilentNotOnline`.
4. A prober whose pass takes longer than a round.
