----------------------------- MODULE FixedWindow -----------------------------
(***************************************************************************)
(* What the rate limiter promises (auth.rs, RateLimiter of cache.rs),      *)
(* without Redis, clocks, instances or mutexes: a request gets a turn in   *)
(* one minute of its key, is admitted if its turn is within the limit and  *)
(* refused if it is not.  A request that could not be counted, or whose    *)
(* count did not come back, may be let through ("failing open") or be gone *)
(* with its client; nothing else ends one.                                 *)
(***************************************************************************)
EXTENDS Integers, FiniteSets

CONSTANTS
    Key,
    Request,
    Minutes,
    Limit,      \* turns of a key in a minute
    None        \* no minute yet

\* What the promise asks of the constants, wherever this module is instantiated.
WindowAssumption ==
    IsFiniteSet(Request) /\ Limit \in [Key -> Nat] /\ None \notin Minutes

VARIABLES
    key,        \* per request: the key it bears
    minute,     \* per request: the minute it was counted in, or None
    turn,       \* per request: the how-manieth of its key and minute, or 0
    answer      \* per request

vars == <<key, minute, turn, answer>>

Counted(k, m) == {r \in Request : key[r] = k /\ minute[r] = m}

Verdict(r, n) == IF n <= Limit[key[r]] THEN "admitted" ELSE "429"

Init ==
    /\ key \in [Request -> Key]
    /\ minute = [r \in Request |-> None]
    /\ turn = [r \in Request |-> 0]
    /\ answer = [r \in Request |-> "none"]

Answers == {"admitted", "429", "open", "gone"}

Say(r, a) == answer' = [answer EXCEPT ![r] = a]

\* A request is counted; it may get its verdict at once or later, or go
\* without.
Count(r, m) ==
    LET n == Cardinality(Counted(key[r], m)) + 1
    IN  /\ answer[r] = "none" /\ minute[r] = None
        /\ minute' = [minute EXCEPT ![r] = m]
        /\ turn' = [turn EXCEPT ![r] = n]
        /\ \E a \in {"none", Verdict(r, n), "open", "gone"} : Say(r, a)
        /\ UNCHANGED key

Answer(r) ==
    /\ answer[r] = "none"
    /\ \/ \E a \in {"open", "gone"} : Say(r, a)
       \/ minute[r] # None /\ Say(r, Verdict(r, turn[r]))
    /\ UNCHANGED <<key, minute, turn>>

Next == \E r \in Request : Answer(r) \/ \E m \in Minutes : Count(r, m)

Spec == Init /\ [][Next]_vars

-----------------------------------------------------------------------------
TypeOK ==
    /\ key \in [Request -> Key]
    /\ minute \in [Request -> Minutes \cup {None}]
    /\ turn \in [Request -> Nat]
    /\ answer \in [Request -> Answers \cup {"none"}]

\* In no minute are more requests of a key admitted than its limit allows
\* (auth.rs:70-82).
WithinLimit ==
    \A k \in Key, m \in Minutes :
        Cardinality({r \in Counted(k, m) : answer[r] = "admitted"}) <= Limit[k]
=============================================================================
