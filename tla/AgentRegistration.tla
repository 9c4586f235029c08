-------------------------- MODULE AgentRegistration --------------------------
(***************************************************************************)
(* The registration loop of an agent (registration.rs), which is also its  *)
(* heartbeat, against what the gateway keeps of it: the entry of the node  *)
(* (routes/nodes.rs) and the sweeper that takes it off when the last       *)
(* registration is too old (stale_nodes.rs).                               *)
(*                                                                         *)
(* Agent and gateway measure the same time, in units of 2 seconds, and see *)
(* each other through calls only: one may be lost, be handled while its    *)
(* answer is lost, or take as long as the agent waits.  Outages of network *)
(* or gateway come and go at any time; a restart of the gateway loses the  *)
(* list in memory, but not the table of the database.                      *)
(*                                                                         *)
(* The prober of the gateway, which also writes the status, is in          *)
(* NodeRegistry: here only registrations and sweeps count.                 *)
(***************************************************************************)
EXTENDS Integers

CONSTANTS
    Timeout,        \* 10 s, of a call
    Heartbeat,      \* 30 s, between calls that succeed
    FirstBackoff,   \* 2 s
    MaxBackoff,     \* 120 s
    StaleAfter      \* 90 s

ASSUME IntervalAssumption ==
    /\ Timeout \in Nat /\ Heartbeat \in Nat \ {0} /\ StaleAfter \in Nat
    /\ FirstBackoff \in Nat \ {0} /\ MaxBackoff \in Nat /\ FirstBackoff <= MaxBackoff

\* What the choice of the intervals rests on: a heartbeat has time to come before
\* the one before it is stale, and is not rarer than the slowest retry.
ASSUME MarginAssumption ==
    /\ Timeout + Heartbeat + Timeout <= StaleAfter
    /\ Heartbeat <= MaxBackoff

VARIABLES
    durable,    \* whether the gateway has a database; it does not change
    \* The agent.
    phase,      \* "calling" or "sleeping"
    left,       \* time until the call times out, or the sleep ends
    backoff,    \* backoff_secs
    registration_ok,
    \* The gateway.
    reachable,
    status,     \* of the node's entry; "absent" without one
    age,        \* time since last_seen, up to StaleAfter + 1
    \* The call under way.
    handled,    \* the gateway has registered the node
    sound,      \* it is not touched by an outage
    \* Ghosts.
    failures,   \* failed calls since the last success, up to FailureCap
    up          \* time since the last outage or restart, up to Recovery + 1

agent == <<phase, left, backoff, registration_ok>>
gateway == <<status, age>>
call == <<handled, sound>>
vars == <<durable, agent, reachable, gateway, call, failures, up>>

UpTo(bound, n) == IF n <= bound THEN n ELSE bound

\* Bounds of the ghosts: what the properties need to tell apart.
FailureCap == 4
Recovery == Timeout + MaxBackoff + Timeout

-----------------------------------------------------------------------------
Init ==
    /\ durable \in BOOLEAN
    /\ phase = "calling" /\ left = Timeout
    /\ backoff = FirstBackoff /\ registration_ok = FALSE
    /\ reachable \in BOOLEAN
    /\ status = "absent" /\ age = 0
    /\ handled = FALSE /\ sound = reachable
    /\ failures = 0 /\ up = 0

\* The POST reaches the gateway, and register() writes the node's entry.
Handle ==
    /\ phase = "calling" /\ reachable /\ ~handled
    /\ handled' = TRUE
    /\ status' = "online" /\ age' = 0
    /\ UNCHANGED <<durable, agent, reachable, sound, failures, up>>

Sleep(time) == phase' = "sleeping" /\ left' = time

\* Mutant of Succeed: the backoff is not reset.
SucceedBackedOff ==
    /\ phase = "calling" /\ reachable /\ handled
    /\ registration_ok' = TRUE
    /\ failures' = 0
    /\ Sleep(Heartbeat)
    /\ UNCHANGED <<durable, backoff, reachable, gateway, call, up>>

Succeed ==
    /\ phase = "calling" /\ reachable /\ handled
    /\ registration_ok' = TRUE
    /\ backoff' = FirstBackoff
    /\ failures' = 0
    /\ Sleep(Heartbeat)
    /\ UNCHANGED <<durable, reachable, gateway, call, up>>

\* Mutant of Fail: the flag is left as it is.
FailUnflagged ==
    /\ phase = "calling" /\ ~sound
    /\ Sleep(backoff)
    /\ backoff' = UpTo(MaxBackoff, backoff * 2)
    /\ failures' = UpTo(FailureCap, failures + 1)
    /\ UNCHANGED <<durable, registration_ok, reachable, gateway, call, up>>

\* Mutant of Fail: the backoff has no cap.
FailUncapped ==
    /\ phase = "calling" /\ ~sound
    /\ registration_ok' = FALSE
    /\ Sleep(backoff)
    /\ backoff' = backoff * 2
    /\ failures' = UpTo(FailureCap, failures + 1)
    /\ UNCHANGED <<durable, reachable, gateway, call, up>>

\* A refusal, an error or the timeout: with an outage in the way of the call, at
\* any moment, whether the gateway had handled it or not.
Fail ==
    /\ phase = "calling" /\ ~sound
    /\ registration_ok' = FALSE
    /\ Sleep(backoff)
    /\ backoff' = UpTo(MaxBackoff, backoff * 2)
    /\ failures' = UpTo(FailureCap, failures + 1)
    /\ UNCHANGED <<durable, reachable, gateway, call, up>>

\* The sleep is over, and the loop begins again.
Call ==
    /\ phase = "sleeping" /\ left = 0
    /\ phase' = "calling" /\ left' = Timeout
    /\ handled' = FALSE /\ sound' = reachable
    /\ UNCHANGED <<durable, backoff, registration_ok, reachable, gateway, failures, up>>

\* sweep() on some instance of the gateway.
Sweep ==
    /\ status = "online" /\ age > StaleAfter
    /\ status' = "offline"
    /\ UNCHANGED <<durable, agent, reachable, age, call, failures, up>>

-----------------------------------------------------------------------------
\* What lies between agent and gateway fails and recovers.
Outage ==
    /\ reachable
    /\ reachable' = FALSE
    /\ sound' = FALSE /\ up' = 0
    /\ UNCHANGED <<durable, agent, gateway, handled, failures>>

Recover ==
    /\ ~reachable
    /\ reachable' = TRUE
    /\ UNCHANGED <<durable, agent, gateway, call, failures, up>>

\* The gateway ends while it is out of reach, and begins with an empty list.
Restart ==
    /\ ~reachable /\ ~durable
    /\ status' = "absent" /\ age' = 0
    /\ UNCHANGED <<durable, agent, reachable, call, failures, up>>

\* Time does not pass by what is due: the end of a sleep, the timeout of a call,
\* and before it, the answer to a call that nothing is in the way of.
Tick ==
    /\ left > 0
    /\ left' = left - 1
    /\ age' = IF status = "absent" THEN age ELSE UpTo(StaleAfter + 1, age + 1)
    /\ up' = IF reachable THEN UpTo(Recovery + 1, up + 1) ELSE up
    /\ UNCHANGED <<durable, phase, backoff, registration_ok, reachable, status, call, failures>>

Next ==
    \/ Handle \/ Succeed \/ Fail \/ Call
    \/ Sweep
    \/ Outage \/ Recover \/ Restart
    \/ Tick

Spec == Init /\ [][Next]_vars

-----------------------------------------------------------------------------
TypeOK ==
    /\ durable \in BOOLEAN
    /\ phase \in {"calling", "sleeping"}
    /\ left \in 0..(IF phase = "calling" THEN Timeout
                    ELSE IF registration_ok THEN Heartbeat ELSE MaxBackoff)
    /\ backoff \in FirstBackoff..MaxBackoff
    /\ registration_ok \in BOOLEAN
    /\ reachable \in BOOLEAN
    /\ status \in {"absent", "online", "offline"}
    /\ age \in 0..StaleAfter + 1
    /\ handled \in BOOLEAN /\ sound \in BOOLEAN
    /\ failures \in 0..FailureCap
    /\ up \in 0..Recovery + 1

\* While the agent reports itself registered (/health, main.rs:101), the gateway
\* that has not lost its list has it online: no sweep finds a heartbeat late that
\* was not preceded by a failed call (registration.rs:36-40, stale_nodes.rs:20).
RegisteredIsNotStale == registration_ok => status # "offline"

\* A node is taken off only after at least three calls failed in a row, however
\* long each took: a long outage before the last success leaves no long backoff
\* behind (registration.rs:37, 45-46).
StaleAfterFailures == status = "offline" => failures >= 3

\* Once the gateway has been within reach for as long as a failing call, the
\* longest backoff and a call may take, the node is registered and not stale,
\* even if a restart had lost it; so, though the backoff exceeds the 90 seconds,
\* no node stays away for ever (registration.rs:44-46).
RejoinsInTime == up > Recovery => status = "online" /\ registration_ok
=============================================================================
