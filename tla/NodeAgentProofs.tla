--------------------------- MODULE NodeAgentProofs ---------------------------
(***************************************************************************)
(* Proofs about the program of a provider, node-agent: its registration    *)
(* loop, its part in a pipeline, and its command line.                     *)
(*                                                                         *)
(* Registration, for all intervals that meet the assumptions: the argument *)
(* is one of budgets.  Fresh: as long as the agent holds itself            *)
(* registered, the age of its registration and the time left to the end of *)
(* its next call stay within a bound below StaleAfter.  Returning: as long *)
(* as the node is away, the time since the outage and the time left stay   *)
(* within what one failing call, one backoff and one call may take.        *)
(* Failing: before a third failure in a row the age stays within what two  *)
(* failing calls and their backoffs take.                                  *)
(*                                                                         *)
(* The pipeline, for plans of any length over nodes that share neither     *)
(* host nor agent port (where nodes keep the default port the properties   *)
(* fail: ShardPipeline_DefaultPort.cfg shows it): the handlers that wait   *)
(* are the first nodes of the plan, in its order, so that every agent      *)
(* finds itself at the position it was asked at.                           *)
(*                                                                         *)
(* The command line, for any number of runs: a connect that has been       *)
(* interrupted does nothing any more, and nobody else opens a tunnel or    *)
(* writes a file in its name.                                              *)
(***************************************************************************)
EXTENDS AgentRegistration, ShardPipeline, ProviderCli, TLAPS

USE DEF UpTo, FailureCap, Recovery

Registered == status = "online" /\ registration_ok

Fresh ==
    registration_ok /\ status # "absent" =>
        /\ status = "online"
        /\ phase = "sleeping" => age + left <= Timeout + Heartbeat
        /\ phase = "calling" => age + left <= Timeout + Heartbeat + Timeout

\* What the gateway has handled in the call under way is recent.
Recent ==
    phase = "calling" /\ handled /\ status # "absent" =>
        status = "online" /\ age + left <= Timeout

Returning ==
    /\ ~reachable => up = 0 /\ (phase = "calling" => ~sound)
    /\ phase = "calling" /\ handled /\ status = "absent" => ~sound
    /\ phase = "calling" /\ ~sound => up + left <= Timeout
    /\ phase = "calling" /\ ~Registered => up + left <= Recovery
    /\ phase = "sleeping" /\ ~Registered => up + left <= Timeout + MaxBackoff

Flags ==
    /\ durable \in BOOLEAN /\ registration_ok \in BOOLEAN /\ reachable \in BOOLEAN
    /\ handled \in BOOLEAN /\ sound \in BOOLEAN

Types ==
    /\ phase \in {"calling", "sleeping"}
    /\ left \in Nat
    /\ phase = "calling" => left <= Timeout
    /\ phase = "sleeping" /\ registration_ok => left <= Heartbeat
    /\ phase = "sleeping" /\ ~registration_ok => left <= MaxBackoff
    /\ backoff \in Nat /\ FirstBackoff <= backoff /\ backoff <= MaxBackoff
    /\ status \in {"absent", "online", "offline"}
    /\ age \in Nat /\ age <= StaleAfter + 1
    /\ failures \in 0..FailureCap
    /\ up \in Nat /\ up <= Recovery + 1

Inv == Flags /\ Types /\ Fresh /\ Recent /\ Returning

LEMMA Initially == Init => Inv
<1> SUFFICES ASSUME Init PROVE Inv
  OBVIOUS
<1> USE IntervalAssumption, MarginAssumption DEF Init
<1>1. Types
  BY DEF Types
<1>2. Fresh
  BY DEF Fresh
<1>3. Recent
  BY DEF Recent
<1>4. Returning
  BY DEF Returning, Registered
<1>5. Flags
  BY Zenon DEF Flags
<1>6. QED
  BY <1>1, <1>2, <1>3, <1>4, <1>5 DEF Inv

LEMMA Preserved == Inv /\ [Next]_vars => Inv'
<1> SUFFICES ASSUME Inv, [Next]_vars PROVE Inv'
  OBVIOUS
<1> USE IntervalAssumption, MarginAssumption DEF Inv
<1>1. CASE Handle
  <2> USE <1>1 DEF Handle, agent
  <2>1. Types'
    BY DEF Types
  <2>2. Fresh'
    BY DEF Types, Fresh, Recent
  <2>3. Recent'
    BY DEF Types, Recent
  <2>4. Returning'
    BY DEF Types, Fresh, Recent, Returning, Registered
  <2>5. Flags'
    BY Zenon DEF Flags
  <2>6. QED
    BY <2>1, <2>2, <2>3, <2>4, <2>5
<1>2. CASE Succeed
  <2> USE <1>2 DEF Succeed, Sleep, gateway, call
  <2>1. Types'
    BY DEF Types
  <2>2. Fresh'
    BY DEF Types, Fresh, Recent
  <2>3. Recent'
    BY DEF Types, Recent
  <2>4. Returning'
    BY DEF Types, Fresh, Recent, Returning, Registered
  <2>5. Flags'
    BY Zenon DEF Flags
  <2>6. QED
    BY <2>1, <2>2, <2>3, <2>4, <2>5
<1>3. CASE Fail
  <2> USE <1>3 DEF Fail, Sleep, gateway, call
  <2>1. Types'
    BY DEF Types
  <2>2. Fresh'
    BY DEF Types, Fresh, Recent
  <2>3. Recent'
    BY DEF Types, Recent
  <2>4. Returning'
    BY DEF Types, Fresh, Recent, Returning, Registered
  <2>5. Flags'
    BY Zenon DEF Flags
  <2>6. QED
    BY <2>1, <2>2, <2>3, <2>4, <2>5
<1>4. CASE Call
  <2> USE <1>4 DEF Call, gateway
  <2>1. Types'
    BY DEF Types
  <2>2. Fresh'
    BY DEF Types, Fresh, Recent
  <2>3. Recent'
    BY DEF Types, Recent
  <2>4. Returning'
    BY DEF Types, Fresh, Recent, Returning, Registered
  <2>5. Flags'
    BY Zenon DEF Flags
  <2>6. QED
    BY <2>1, <2>2, <2>3, <2>4, <2>5
<1>5. CASE Sweep
  <2> USE <1>5 DEF Sweep, agent, call
  <2>1. Types'
    BY DEF Types
  <2>2. Fresh'
    BY DEF Types, Fresh, Recent
  <2>3. Recent'
    BY DEF Types, Recent
  <2>4. Returning'
    BY DEF Types, Fresh, Recent, Returning, Registered
  <2>5. Flags'
    BY Zenon DEF Flags
  <2>6. QED
    BY <2>1, <2>2, <2>3, <2>4, <2>5
<1>6. CASE Outage
  <2> USE <1>6 DEF Outage, agent, gateway
  <2>1. Types'
    BY DEF Types
  <2>2. Fresh'
    BY DEF Types, Fresh, Recent
  <2>3. Recent'
    BY DEF Types, Recent
  <2>4. Returning'
    BY DEF Types, Fresh, Recent, Returning, Registered
  <2>5. Flags'
    BY Zenon DEF Flags
  <2>6. QED
    BY <2>1, <2>2, <2>3, <2>4, <2>5
<1>7. CASE Recover
  <2> USE <1>7 DEF Recover, agent, gateway, call
  <2>1. Types'
    BY DEF Types
  <2>2. Fresh'
    BY DEF Types, Fresh, Recent
  <2>3. Recent'
    BY DEF Types, Recent
  <2>4. Returning'
    BY DEF Types, Fresh, Recent, Returning, Registered
  <2>5. Flags'
    BY Zenon DEF Flags
  <2>6. QED
    BY <2>1, <2>2, <2>3, <2>4, <2>5
<1>8. CASE Restart
  <2> USE <1>8 DEF Restart, agent, call
  <2>1. Types'
    BY DEF Types
  <2>2. Fresh'
    BY DEF Types, Fresh, Recent
  <2>3. Recent'
    BY DEF Types, Recent
  <2>4. Returning'
    BY DEF Types, Fresh, Recent, Returning, Registered
  <2>5. Flags'
    BY Zenon DEF Flags
  <2>6. QED
    BY <2>1, <2>2, <2>3, <2>4, <2>5
<1>9. CASE Tick
  <2> USE <1>9 DEF Tick, call
  <2>1. Types'
    BY DEF Types
  <2>2. Fresh'
    BY DEF Types, Fresh, Recent
  <2>3. Recent'
    BY DEF Types, Recent
  <2>4. Returning'
    BY DEF Types, Fresh, Recent, Returning, Registered
  <2>5. Flags'
    BY Zenon DEF Flags
  <2>6. QED
    BY <2>1, <2>2, <2>3, <2>4, <2>5
<1>10. CASE UNCHANGED vars
  <2> USE <1>10 DEF vars, agent, gateway, call
  <2>1. Types'
    BY DEF Types
  <2>2. Fresh'
    BY DEF Types, Fresh, Recent
  <2>3. Recent'
    BY DEF Types, Recent
  <2>4. Returning'
    BY DEF Types, Fresh, Recent, Returning, Registered
  <2>5. Flags'
    BY Zenon DEF Flags
  <2>6. QED
    BY <2>1, <2>2, <2>3, <2>4, <2>5
<1>11. QED
  BY <1>1, <1>2, <1>3, <1>4, <1>5, <1>6, <1>7, <1>8, <1>9, <1>10 DEF Next

LEMMA Invariance == Spec => []Inv
<1>1. QED
  BY Initially, Preserved, PTL DEF Spec

\* The variables keep their types for all intervals (registration.rs:26-52).
THEOREM TypeCorrect == Spec => []TypeOK
<1>1. Types => left \in 0..(IF phase = "calling" THEN Timeout
                           ELSE IF registration_ok THEN Heartbeat ELSE MaxBackoff)
  BY IntervalAssumption DEF Types
<1>2. Types => /\ backoff \in FirstBackoff..MaxBackoff
               /\ age \in 0..StaleAfter + 1 /\ up \in 0..Recovery + 1
  BY IntervalAssumption DEF Types
<1>3. Inv => TypeOK
  BY <1>1, <1>2, Zenon DEF Inv, Types, Flags, TypeOK
<1>4. QED
  BY Invariance, <1>3, PTL

\* An agent that holds itself registered is not stale at the gateway, whenever a
\* call, a heartbeat and another call fit into the time after which it would be
\* (registration.rs:36-40, stale_nodes.rs:20).
THEOREM NoFalseFlag == Spec => []RegisteredIsNotStale
<1>1. Inv => RegisteredIsNotStale
  BY DEF Inv, Fresh, RegisteredIsNotStale, Types
<1>2. QED
  BY Invariance, <1>1, PTL

\* A gateway within reach has the node back after a failing call, the longest
\* backoff and a call, whatever the intervals (registration.rs:44-46).
THEOREM Rejoins == Spec => []RejoinsInTime
<1>1. Inv => RejoinsInTime
  BY IntervalAssumption DEF Inv, Types, Returning, Registered, RejoinsInTime
<1>2. QED
  BY Invariance, <1>1, PTL

-----------------------------------------------------------------------------
\* Two failed calls with their timeouts and backoffs, and a third one, fit into the
\* time after which a registration is stale (registration.rs:26-46,
\* stale_nodes.rs:20: 76 of 90 seconds).
RetryMargin ==
    (Timeout + Heartbeat) + (Timeout + FirstBackoff) + (Timeout + 2 * FirstBackoff) + Timeout
        <= StaleAfter

\* How old a registration may be when the agent has slept after so many failures.
Slept(n) == Timeout + Heartbeat + (IF n >= 1 THEN Timeout + FirstBackoff ELSE 0)
                                + (IF n >= 2 THEN Timeout + 2 * FirstBackoff ELSE 0)

\* While fewer than three calls have failed since the last success, backoff and age
\* are those of so many failures; who is off has met three.
Failing ==
    /\ failures = 0 => backoff = FirstBackoff
    /\ failures = 1 => backoff <= 2 * FirstBackoff
    /\ status = "online" /\ failures < 3 =>
          age + left <= Slept(failures) + (IF phase = "calling" THEN Timeout ELSE 0)
    /\ StaleAfterFailures

LEMMA FailingKept ==
    ASSUME RetryMargin, Inv, Failing, [Next]_vars
    PROVE  Failing'
<1> USE IntervalAssumption DEF Types, Failing, Slept, StaleAfterFailures, RetryMargin
<1>0. Types /\ Recent
  BY DEF Inv
<1>1. CASE Handle
  BY <1>0, <1>1 DEF Handle, agent
<1>2. CASE Succeed
  BY <1>0, <1>2 DEF Succeed, Sleep, gateway, call, Recent
<1>3. CASE Fail
  BY <1>0, <1>3 DEF Fail, Sleep, gateway, call
<1>4. CASE Call
  BY <1>0, <1>4 DEF Call, gateway
<1>5. CASE Sweep
  BY <1>0, <1>5 DEF Sweep, agent, call
<1>6. CASE Outage \/ Recover
  BY <1>0, <1>6 DEF Outage, Recover, agent, gateway, call
<1>7. CASE Restart
  BY <1>0, <1>7 DEF Restart, agent, call
<1>8. CASE Tick
  BY <1>0, <1>8 DEF Tick, call
<1>9. CASE UNCHANGED vars
  BY <1>9 DEF vars, agent, gateway, call
<1>10. QED
  BY <1>1, <1>2, <1>3, <1>4, <1>5, <1>6, <1>7, <1>8, <1>9 DEF Next

\* A node goes stale only after three failed calls in a row, whenever two of them
\* and a third fit into the time it takes (registration.rs:37, 45-46).
THEOREM StaleOnlyAfterFailures ==
    ASSUME RetryMargin
    PROVE  Spec => []StaleAfterFailures
<1>1. Init => Failing
  BY IntervalAssumption DEF Init, Failing, Slept, StaleAfterFailures
<1>2. Inv /\ Failing /\ [Next]_vars => Failing'
  BY FailingKept
<1>3. Failing => StaleAfterFailures
  BY DEF Failing
<1>4. QED
  BY <1>1, <1>2, <1>3, Invariance, PTL DEF Spec

-----------------------------------------------------------------------------
\* No two nodes share a host or an agent port.
Distinct ==
    \A a \in Address : \A n, m \in Node :
        n # m => a[n].host # a[m].host /\ a[n].agent_port # a[m].agent_port

\* The first k nodes of the plan are those of s.
Follows(s, k) == k \in 0..Len(plan) /\ s = SubSeq(plan, 1, k)

PipeInv ==
    /\ PipeTypeOK
    /\ Follows(stack, Len(stack)) /\ Follows(visited, Len(visited))
    /\ result = "none" =>
          /\ step = "dispatch" => stack = <<>> /\ visited = <<>>
          /\ step = "infer" => Len(stack) = Len(visited) + 1
          /\ step = "route" => stack # <<>> /\ Len(stack) = Len(visited)
          /\ step = "return" => stack # <<>> /\ (ok => visited = plan)
    /\ result = "ok" => visited = plan

-----------------------------------------------------------------------------
LEMMA NotEmpty ==
    ASSUME NEW s \in Seq(Node), s # <<>>
    PROVE  Len(s) \in Nat /\ Len(s) >= 1
<1>1. Len(s) \in Nat /\ Len(s) # 0
  OBVIOUS
<1>2. QED
  BY <1>1

LEMMA PlanIs ==
    ASSUME plan \in Plans
    PROVE  /\ plan \in Seq(Node) /\ Len(plan) \in Nat /\ Len(plan) >= 2
           /\ \A i, j \in 1..Len(plan) : plan[i] = plan[j] => i = j
<1>1. PICK m \in 0..MaxStages : plan \in [1..m -> Node]
  BY DEF Plans, SeqOf
<1>2. plan \in Seq(Node) /\ Len(plan) = m /\ DOMAIN plan = 1..m
  BY <1>1, StageAssumption
<1>3. QED
  BY <1>2, StageAssumption DEF Plans, IsInjective

\* One node more of the plan.
LEMMA OneMore ==
    ASSUME plan \in Plans, NEW s \in Seq(Node), Follows(s, Len(s)), Len(s) < Len(plan)
    PROVE  LET t == Append(s, plan[Len(s) + 1])
           IN  t \in Seq(Node) /\ Len(t) = Len(s) + 1 /\ Follows(t, Len(t))
<1>1. PICK k \in Nat : k = Len(s) /\ k + 1 \in 1..Len(plan)
  BY PlanIs
<1>2. s = SubSeq(plan, 1, k) /\ plan \in Seq(Node) /\ Len(plan) \in Nat
  BY <1>1, PlanIs DEF Follows
<1>3. plan[k + 1] \in Node
  BY <1>1, <1>2
<1>4. SubSeq(plan, 1, k + 1) = Append(SubSeq(plan, 1, k), plan[k + 1])
  BY <1>1, <1>2
<1>5. QED
  BY <1>1, <1>2, <1>3, <1>4 DEF Follows

\* One node less.
LEMMA OneLess ==
    ASSUME plan \in Plans, NEW s \in Seq(Node), Follows(s, Len(s)), s # <<>>
    PROVE  Front(s) \in Seq(Node) /\ Len(Front(s)) = Len(s) - 1 /\ Follows(Front(s), Len(Front(s)))
<1>0. PICK k \in Nat : k = Len(s)
  BY NotEmpty
<1>1. k = Len(s) /\ k >= 1 /\ k <= Len(plan)
  BY <1>0, PlanIs, NotEmpty DEF Follows
<1>2. s = SubSeq(plan, 1, k) /\ plan \in Seq(Node) /\ Len(plan) \in Nat
  BY <1>1, PlanIs DEF Follows
<1>3. SubSeq(s, 1, k - 1) = SubSeq(plan, 1, k - 1)
  BY <1>1, <1>2
<1>4. QED
  BY <1>1, <1>2, <1>3 DEF Front, Follows

LEMMA FollowsMeans ==
    ASSUME plan \in Plans, NEW s \in Seq(Node), Follows(s, Len(s))
    PROVE  IsPrefix(s, plan) /\ (Len(s) = Len(plan) => s = plan)
  BY PlanIs DEF Follows, IsPrefix

\* An agent finds itself where it was asked.
LEMMA AtItsPlace ==
    ASSUME Distinct, PipeTypeOK, Follows(stack, Len(stack)), stack # <<>>
    PROVE  /\ Top = plan[Len(stack)] /\ Len(stack) \in 1..Len(plan)
           /\ ShardIndex(Top) = Len(stack)
<1>1. plan \in Plans /\ stack \in Seq(Node) /\ address \in Address
  BY DEF PipeTypeOK
<1>0. PICK k \in Nat : k = Len(stack)
  BY <1>1, NotEmpty
<1>2. k = Len(stack) /\ k \in 1..Len(plan)
  <2>1. k >= 1
    BY <1>0, <1>1, NotEmpty
  <2>2. k <= Len(plan) /\ Len(plan) \in Nat
    BY <1>0, <1>1, PlanIs DEF Follows
  <2>3. QED
    BY <1>0, <2>1, <2>2
<1>3. Top = plan[k] /\ Top \in Node
  BY <1>1, <1>2, PlanIs DEF Top, Follows
<1>4. DOMAIN plan = 1..Len(plan) /\ \A i \in 1..Len(plan) : plan[i] \in Node
  BY <1>1, PlanIs
<1>5. \A i \in DOMAIN plan : Matches(i, Top) <=> i = k
  BY <1>1, <1>2, <1>3, <1>4, PlanIs DEF Matches, Distinct
<1>6. {i \in DOMAIN plan : Matches(i, Top)} = {k}
  BY <1>2, <1>4, <1>5
<1>7. (CHOOSE i \in {k} : \A j \in {k} : i <= j) = k
  BY <1>2
<1>8. QED
  BY <1>2, <1>3, <1>6, <1>7 DEF ShardIndex

-----------------------------------------------------------------------------
LEMMA PipeInitially == PipeInit => PipeInv
<1> SUFFICES ASSUME PipeInit PROVE PipeInv
  OBVIOUS
<1>0. <<>> \in Seq(Node)
  OBVIOUS
<1>1. PipeTypeOK
  BY <1>0 DEF PipeInit, PipeTypeOK
<1>2. Len(plan) \in Nat /\ plan \in Seq(Node)
  BY PlanIs DEF PipeInit
<1>3. Follows(<<>>, 0)
  BY <1>2 DEF Follows
<1>4. QED
  BY <1>1, <1>3 DEF PipeInit, PipeInv

LEMMA PipeInvariance == Distinct /\ PipeInv /\ [PipeNext]_pipeVars => PipeInv'
<1> SUFFICES ASSUME Distinct, PipeInv, [PipeNext]_pipeVars PROVE PipeInv'
  OBVIOUS
<1>1. /\ PipeTypeOK /\ plan \in Plans /\ stack \in Seq(Node) /\ visited \in Seq(Node)
      /\ Follows(stack, Len(stack)) /\ Follows(visited, Len(visited))
      /\ Len(stack) \in Nat /\ Len(visited) \in Nat
      /\ plan \in Seq(Node) /\ Len(plan) \in Nat /\ Len(plan) >= 2
  BY PlanIs DEF PipeInv, PipeTypeOK
<1>2. stack # <<>> =>
         /\ Top = plan[Len(stack)] /\ Len(stack) \in 1..Len(plan) /\ ShardIndex(Top) = Len(stack)
  BY <1>1, AtItsPlace
<1>3. CASE Dispatch
  <2>1. stack' = Append(stack, plan[Len(stack) + 1]) /\ stack = <<>> /\ visited = <<>>
    BY <1>3 DEF Dispatch, Deliver, PipeInv
  <2>2. Len(stack) = 0 /\ Len(stack) < Len(plan)
    <3>1. Len(stack) = 0
      BY <2>1
    <3>2. QED
      BY <1>1, <3>1
  <2>3. stack' \in Seq(Node) /\ Len(stack') = Len(stack) + 1 /\ Follows(stack', Len(stack'))
    BY <1>1, <2>1, <2>2, OneMore
  <2>4. stack' # <<>> /\ Len(stack') = Len(visited) + 1
    BY <2>1
  <2>5. QED
    BY <1>1, <1>3, <2>1, <2>3, <2>4 DEF Dispatch, Deliver, PipeInv, PipeTypeOK, Follows
<1>4. CASE DispatchFails
  BY <1>4 DEF DispatchFails, PipeInv, PipeTypeOK, Follows
<1>5. CASE Infer
  <2>1. stack # <<>> /\ Len(stack) = Len(visited) + 1
    BY <1>5 DEF Infer, PipeInv, PipeTypeOK
  <2>2. visited' = Append(visited, plan[Len(visited) + 1]) /\ Len(visited) < Len(plan)
    BY <1>1, <1>2, <1>5, <2>1 DEF Infer
  <2>3. visited' \in Seq(Node) /\ Len(visited') = Len(visited) + 1 /\ Follows(visited', Len(visited'))
    BY <1>1, <2>2, OneMore
  <2>4. QED
    BY <1>5, <2>1, <2>3 DEF Infer, PipeInv, PipeTypeOK, Follows
<1>6. CASE InferFails
  BY <1>6 DEF InferFails, PipeInv, PipeTypeOK, Follows
<1>7. CASE Forward
  <2>1. /\ stack # <<>> /\ Len(stack) = Len(visited)
        /\ ShardIndex(Top) = Len(stack) /\ Len(stack) < Len(plan)
        /\ stack' = Append(stack, plan[Len(stack) + 1])
    BY <1>2, <1>7 DEF Forward, Deliver, PipeInv
  <2>2. stack' \in Seq(Node) /\ Len(stack') = Len(stack) + 1 /\ Follows(stack', Len(stack'))
    BY <1>1, <2>1, OneMore
  <2>3. stack' # <<>>
    BY <1>1, <2>2
  <2>4. QED
    BY <1>1, <1>7, <2>1, <2>2, <2>3 DEF Forward, Deliver, PipeInv, PipeTypeOK, Follows
<1>8. CASE ForwardFails
  BY <1>8 DEF ForwardFails, PipeInv, PipeTypeOK, Follows
<1>9. CASE AnswerLast
  <2>1. Len(visited) = Len(plan) /\ stack # <<>>
    BY <1>2, <1>9 DEF AnswerLast, PipeInv
  <2>2. visited = plan
    BY <1>1, <2>1, FollowsMeans
  <2>3. QED
    BY <1>9, <2>1, <2>2 DEF AnswerLast, PipeInv, PipeTypeOK, Follows
<1>10. CASE Return
  <2>1. /\ stack # <<>> /\ stack' = Front(stack) /\ (ok => visited = plan)
        /\ UNCHANGED <<address, plan, step, ok, visited>> /\ step = "return"
        /\ result' = IF Len(stack) > 1 THEN "none" ELSE IF ok THEN "ok" ELSE "error"
    BY <1>10 DEF Return, PipeInv
  <2>2. /\ stack' \in Seq(Node) /\ Len(stack') = Len(stack) - 1
        /\ Follows(stack', Len(stack'))
    BY <1>1, <2>1, OneLess
  <2>3. result' = "none" => stack' # <<>>
    <3>1. CASE Len(stack) > 1
      <4>1. PICK k \in Nat : k = Len(stack)
        BY <1>1
      <4>2. k > 1 /\ Len(stack') = k - 1
        BY <2>2, <3>1, <4>1
      <4>3. Len(stack') # 0
        BY <4>2
      <4>4. QED
        BY <4>3
    <3>2. CASE ~(Len(stack) > 1)
      BY <2>1, <3>2
    <3>3. QED
      BY <3>1, <3>2
  <2>4. PipeTypeOK'
    BY <1>1, <2>1, <2>2, <2>3 DEF PipeTypeOK
  <2>5. Follows(stack, Len(stack))' /\ Follows(visited, Len(visited))'
    BY <1>1, <2>1, <2>2 DEF Follows
  <2>6. QED
    BY <2>1, <2>3, <2>4, <2>5 DEF PipeInv
<1>11. CASE GiveUp
  <2>1. Follows(<<>>, 0) /\ <<>> \in Seq(Node) /\ Len(<<>>) = 0
    BY <1>1 DEF Follows
  <2>2. /\ result' = "error" /\ stack' = <<>> /\ UNCHANGED <<address, plan, step, ok, visited>>
    BY <1>11 DEF GiveUp
  <2>3. PipeTypeOK'
    BY <1>1, <2>1, <2>2 DEF PipeTypeOK
  <2>4. Follows(stack, Len(stack))' /\ Follows(visited, Len(visited))'
    BY <1>1, <2>1, <2>2 DEF Follows
  <2>5. QED
    BY <2>2, <2>3, <2>4 DEF PipeInv
<1>12. CASE UNCHANGED pipeVars
  BY <1>12 DEF pipeVars, PipeInv, PipeTypeOK, Follows
<1>13. QED
  BY <1>3, <1>4, <1>5, <1>6, <1>7, <1>8, <1>9, <1>10, <1>11, <1>12 DEF PipeNext, Work, Done

LEMMA PipeInvariant == ASSUME Distinct PROVE PipeSpec => []PipeInv
<1>1. PipeInit => PipeInv
  BY PipeInitially
<1>2. PipeInv /\ [PipeNext]_pipeVars => PipeInv'
  BY PipeInvariance
<1>3. QED
  BY <1>1, <1>2, PTL DEF PipeSpec

\* Every state is well typed, and a handler at work has an agent it runs on.
THEOREM PipeTypeCorrect == ASSUME Distinct PROVE PipeSpec => []PipeTypeOK
<1>1. PipeInv => PipeTypeOK
  BY DEF PipeInv
<1>2. QED
  BY <1>1, PipeInvariant, PTL

\* Over nodes that share neither host nor port the chain follows the plan, however
\* long it is: each agent finds itself where it is (shard.rs:68, 96-101).
THEOREM ChainIsThePlan == ASSUME Distinct PROVE PipeSpec => []ChainFollowsPlan
<1>1. PipeInv => ChainFollowsPlan
  BY FollowsMeans DEF PipeInv, PipeTypeOK, ChainFollowsPlan
<1>2. QED
  BY <1>1, PipeInvariant, PTL

\* An answer is that of a chain that ran through (shard.rs:96-178).
THEOREM AnswerIsWhole == ASSUME Distinct PROVE PipeSpec => []AnswerFromWholePlan
<1>1. PipeInv => AnswerFromWholePlan
  BY DEF PipeInv, AnswerFromWholePlan
<1>2. QED
  BY <1>1, PipeInvariant, PTL

-----------------------------------------------------------------------------
\* Where a run of infer connect may be; the places of infer disconnect are fewer.
DisconnectPlaces == {"start", "stopping", "failed", "done"}

CliInv ==
    /\ CliTypeOK /\ InterruptCleans
    /\ \A d \in Disconnect : at[d] \in DisconnectPlaces

LEMMA CliInitially == CliInit => CliInv
  BY DEF CliInit, CliInv, CliTypeOK, InterruptCleans, DisconnectPlaces, Running, Ended

LEMMA CliPreserved == CliInv /\ [CliNext]_cliVars => CliInv'
<1> SUFFICES ASSUME CliInv, [CliNext]_cliVars PROVE CliInv'
  OBVIOUS
<1> USE FileAssumption DEF CliInv, CliTypeOK, InterruptCleans, DisconnectPlaces, Running, Ended, GoTo
<1>1. ASSUME NEW c \in Connect, SpawnBore(c) PROVE CliInv'
  BY <1>1 DEF SpawnBore
<1>2. ASSUME NEW c \in Connect, TunnelOpens(c) PROVE CliInv'
  BY <1>2 DEF TunnelOpens
<1>3. ASSUME NEW c \in Connect, Register(c) PROVE CliInv'
  BY <1>3 DEF Register
<1>4. ASSUME NEW c \in Connect, Save(c) PROVE CliInv'
  BY <1>4 DEF Save
<1>5. ASSUME NEW c \in Connect, Interrupt(c) PROVE CliInv'
  BY <1>5 DEF Interrupt
<1>6. ASSUME NEW c \in Connect, Beat(c) \/ Arrive(c) \/ Lose(c) PROVE CliInv'
  BY <1>6 DEF Beat, Arrive, Lose
<1>7. ASSUME NEW c \in Connect, Terminate(c) PROVE CliInv'
  BY <1>7 DEF Terminate
<1>8. ASSUME NEW c \in Connect, BoreEnds(c) PROVE CliInv'
  BY <1>8 DEF BoreEnds
<1>9. ASSUME NEW c \in Connect, NEW reached \in BOOLEAN, Bail(c, reached) PROVE CliInv'
  BY <1>9 DEF Bail
<1>10. ASSUME NEW d \in Disconnect, KillTunnel(d) PROVE CliInv'
  BY <1>10 DEF KillTunnel
<1>11. ASSUME NEW d \in Disconnect, NoConnection(d) PROVE CliInv'
  BY <1>11 DEF NoConnection
<1>12. ASSUME NEW d \in Disconnect, RemoveFile(d) PROVE CliInv'
  BY <1>12 DEF RemoveFile
<1>13. CASE UNCHANGED cliVars
  BY <1>13 DEF cliVars
<1>14. QED
  BY <1>1, <1>2, <1>3, <1>4, <1>5, <1>6, <1>7, <1>8, <1>9, <1>10, <1>11, <1>12, <1>13 DEF CliNext, Halt

LEMMA CliInvariance == CliSpec => []CliInv
<1>1. CliInv /\ [CliNext]_cliVars => CliInv'
  BY CliPreserved
<1>2. QED
  BY CliInitially, <1>1, PTL DEF CliSpec

\* The variables of the command line keep their types, and infer disconnect knows
\* whose tunnel it is about (infer_cli.rs:401-450).
THEOREM CliTypeCorrect == CliSpec => []CliTypeOK
<1>1. CliInv => CliTypeOK
  BY DEF CliInv
<1>2. QED
  BY CliInvariance, <1>1, PTL

\* However many connects and disconnects run on a machine, Ctrl-C in the heartbeat
\* loop leaves neither tunnel nor file of its connect behind, then or ever after
\* (infer_cli.rs:390-397).
THEOREM InterruptLeavesNothing == CliSpec => []InterruptCleans
<1>1. CliInv => InterruptCleans
  BY DEF CliInv
<1>2. QED
  BY CliInvariance, <1>1, PTL
=============================================================================
