---------------------------- MODULE ShardPipeline ----------------------------
(***************************************************************************)
(* One request through a multi-node plan: pipeline_execute of the gateway  *)
(* (shard_coordinator.rs) posts it to the first node, and each agent's     *)
(* forward handler (node-agent/src/shard.rs) runs it locally and posts it  *)
(* to the next, waiting for that node's answer before it gives its own.    *)
(* The waiting handlers form a stack.                                      *)
(*                                                                         *)
(* A plan carries the address every node registered with: its NODE_HOST    *)
(* and its AGENT_PORT.  An agent finds itself in the plan by comparing     *)
(* its own with those.                                                     *)
(***************************************************************************)
EXTENDS Integers, Sequences, SequencesExt

CONSTANTS
    Node,        \* the nodes a plan may use
    Address,     \* ways in which the nodes may be addressed: sets of functions
                 \* from Node to [host, agent_port]
    MaxStages    \* bound: the stages of a plan

ASSUME AddressAssumption ==
    \A a \in Address : /\ DOMAIN a = Node
                       /\ \A n \in Node : DOMAIN a[n] = {"host", "agent_port"}
                       /\ \A n, m \in Node : a[n] = a[m] => n = m

ASSUME StageAssumption == MaxStages \in Nat

VARIABLES
    address,   \* where each node's agent listens
    plan,      \* the nodes of the plan, in pipeline order
    stack,     \* the agents whose handlers are running, the last one innermost
    step,      \* what the innermost handler does: infer, route, or return
    ok,        \* whether what it returns is a success
    result,    \* what the gateway has got: none, ok or error
    visited    \* ghost: the agents that have run the request, in order

pipeVars == <<address, plan, stack, step, ok, result, visited>>

-----------------------------------------------------------------------------
\* A plan handed to the pipeline has two stages or more
\* (shard_coordinator.rs:241-245) and no node twice (ShardPlanner's NoNodeTwice).
Plans == {p \in SeqOf(Node, MaxStages) : Len(p) >= 2 /\ IsInjective(p)}

Top == stack[Len(stack)]

\* Mutant of Matches: the first stage of the plan is taken for one's own.
MatchesFirst(i, n) == i = 1

\* The comparison of shard.rs:68: either half of the address will do.
Matches(i, n) == \/ address[plan[i]].host = address[n].host
                 \/ address[plan[i]].agent_port = address[n].agent_port

\* shard_index, counted from 1; an agent that finds itself nowhere is the first.
ShardIndex(n) ==
    LET found == {i \in DOMAIN plan : Matches(i, n)}
    IN  IF found = {} THEN 1 ELSE CHOOSE i \in found : \A j \in found : i <= j

PipeInit ==
    /\ address \in Address
    /\ plan \in Plans
    /\ stack = <<>>
    /\ step = "dispatch"
    /\ ok = FALSE
    /\ result = "none"
    /\ visited = <<>>

\* A POST to the address of node n reaches n's agent, or nobody.
Deliver(n) == stack' = Append(stack, n) /\ step' = "infer" /\ UNCHANGED ok

\* pipeline_execute: the request goes to the controller.
Dispatch ==
    /\ result = "none" /\ step = "dispatch"
    /\ Deliver(plan[1])
    /\ UNCHANGED <<address, plan, result, visited>>

DispatchFails ==
    /\ result = "none" /\ step = "dispatch"
    /\ result' = "error"
    /\ UNCHANGED <<address, plan, stack, step, ok, visited>>

\* run_ollama_inference: every stage runs the whole model.
Infer ==
    /\ result = "none" /\ step = "infer"
    /\ visited' = Append(visited, Top)
    /\ step' = "route"
    /\ UNCHANGED <<address, plan, stack, ok, result>>

InferFails ==
    /\ result = "none" /\ step = "infer"
    /\ step' = "return" /\ ok' = FALSE
    /\ UNCHANGED <<address, plan, stack, result, visited>>

\* Not the last shard: on to the next one.
Forward ==
    /\ result = "none" /\ step = "route"
    /\ ShardIndex(Top) < Len(plan)
    /\ Deliver(plan[ShardIndex(Top) + 1])
    /\ UNCHANGED <<address, plan, result, visited>>

ForwardFails ==
    /\ result = "none" /\ step = "route"
    /\ ShardIndex(Top) < Len(plan)
    /\ step' = "return" /\ ok' = FALSE
    /\ UNCHANGED <<address, plan, stack, result, visited>>

\* The last shard answers with its own output.
AnswerLast ==
    /\ result = "none" /\ step = "route"
    /\ ShardIndex(Top) = Len(plan)
    /\ step' = "return" /\ ok' = TRUE
    /\ UNCHANGED <<address, plan, stack, result, visited>>

\* Mutant of Return: an agent whose successor failed answers with its own output.
ReturnOwn ==
    /\ result = "none" /\ step = "return"
    /\ stack' = Front(stack)
    /\ ok' = (ok \/ Len(stack) > 1)
    /\ result' = IF Len(stack) > 1 THEN "none" ELSE IF ok THEN "ok" ELSE "error"
    /\ UNCHANGED <<address, plan, step, visited>>

\* Mutant of Return: an agent whose successor failed tries it again.
ReturnRetry ==
    /\ result = "none" /\ step = "return"
    /\ stack' = Front(stack)
    /\ result' = IF Len(stack) > 1 THEN "none" ELSE IF ok THEN "ok" ELSE "error"
    /\ step' = IF ~ok /\ Len(stack) > 1 THEN "route" ELSE "return"
    /\ UNCHANGED <<address, plan, ok, visited>>

\* The innermost handler returns to the one that waits for it, which passes a
\* success on unchanged and turns a failure into one of its own.
Return ==
    /\ result = "none" /\ step = "return"
    /\ stack' = Front(stack)
    /\ result' = IF Len(stack) > 1 THEN "none" ELSE IF ok THEN "ok" ELSE "error"
    /\ UNCHANGED <<address, plan, step, ok, visited>>

\* Mutant of GiveUp: the handlers go, and nobody tells the gateway.
GiveUpUnanswered ==
    /\ result = "none" /\ step # "dispatch"
    /\ stack' = <<>>
    /\ UNCHANGED <<address, plan, step, ok, result, visited>>

\* The gateway's client gives up after 120 seconds, before any agent's does: it
\* was first to start.  Its connection closes, and with it every handler.
GiveUp ==
    /\ result = "none" /\ step # "dispatch"
    /\ result' = "error"
    /\ stack' = <<>>
    /\ UNCHANGED <<address, plan, step, ok, visited>>

Done == result # "none" /\ UNCHANGED pipeVars

Work == \/ Dispatch \/ DispatchFails \/ Infer \/ InferFails
        \/ Forward \/ ForwardFails \/ AnswerLast \/ Return

PipeNext == Work \/ GiveUp \/ Done

\* Each POST and each inference ends, by its own client's timeout at the latest.
\* The gateway's timeout is left out: the pipeline has to end without it.
PipeSpec == PipeInit /\ [][PipeNext]_pipeVars /\ WF_pipeVars(Work)

-----------------------------------------------------------------------------
PipeTypeOK ==
    /\ address \in Address
    /\ plan \in Plans
    /\ stack \in Seq(Node)
    /\ step \in {"dispatch", "infer", "route", "return"}
    /\ step \in {"infer", "route", "return"} /\ result = "none" => stack # <<>>
    /\ ok \in BOOLEAN
    /\ result \in {"none", "ok", "error"}
    /\ visited \in Seq(Node)

\* README.md:61, "each node chains to the next": the agents that have run the
\* request are the first nodes of the plan, in the plan's order, each once.
ChainFollowsPlan == IsPrefix(visited, plan)

\* The gateway gets an answer only from a pipeline that ran through, and the
\* answer is the last stage's (shard.rs:96-178).
AnswerFromWholePlan == result = "ok" => visited = plan

\* The pipeline comes to an end of its own: the chain of agents that wait for
\* one another does not grow for ever (shard.rs:96-172).
PipelineEnds == <>(result # "none")
=============================================================================
