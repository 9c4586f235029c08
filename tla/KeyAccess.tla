------------------------------ MODULE KeyAccess ------------------------------
(***************************************************************************)
(* Who gets through to the API: the life of a key (routes/keys.rs), its    *)
(* validation by require_api_key (auth.rs), and the fixed-window counters  *)
(* in Redis (RateLimiter of cache.rs), with a database and Redis present.  *)
(* The gateway instances share both; in each of them one mutex lets one    *)
(* request at a time talk to Redis.                                        *)
(*                                                                         *)
(* Time is counted in half-minutes.                                        *)
(***************************************************************************)
EXTENDS Integers, FiniteSets

CONSTANTS
    Key,         \* API keys
    Request,     \* requests that may arrive
    Instance,    \* gateway processes
    Rpm,         \* rate_limit_rpm of every key
    LastTime,    \* bound: the last half-minute modelled
    MaxDelay,    \* half-minutes from the reading of the clock to the INCR, at most
    None         \* nobody holds the mutex; no counter

ASSUME LimitAssumption == Rpm \in [Key -> Nat] /\ LastTime \in Nat /\ MaxDelay \in Nat
ASSUME NoneAssumption == None \notin Request /\ None \notin [value : Nat, expires : Nat]

\* A call of Redis takes effect within a minute of the reading of the clock.
ASSUME DelayAssumption == MaxDelay <= 2

\* Mutant of Ttl: the counter lives as long as its minute.
TtlMinute == 2

Ttl == 4        \* EXPIRE 120
Minute(t) == t \div 2
Minutes == 0..Minute(LastTime)

VARIABLES
    now,
    keys,       \* api_keys: per key absent, live or revoked
    key,        \* per request: the key it bears
    instance,   \* per request: the gateway it comes to
    pc,         \* per request: what its handler does next, or how it ended
    window,     \* per request: the reading of the clock
    mutex,      \* per instance: the request that holds rate_limiter, or None
    counter,    \* per key and minute: the counter in Redis, or None
    turn        \* ghost: per request, the how-manieth INCR of its key and minute to
                \* take effect its own was, or 0

redis == <<counter, turn>>
vars == <<now, keys, key, instance, pc, window, mutex, redis>>

\* A counter has a value, and a time at which it expires, or NoTtl.
NoTtl == LastTime + 100

Ended == {"401", "429", "500", "admitted", "open", "dropped"}

-----------------------------------------------------------------------------
Init ==
    /\ now = 0
    /\ keys = [k \in Key |-> "absent"]
    /\ key \in [Request -> Key]
    /\ instance \in [Request -> Instance]
    /\ pc = [r \in Request |-> "validate"]
    /\ window = [r \in Request |-> 0]
    /\ mutex = [i \in Instance |-> None]
    /\ counter = [k \in Key |-> [m \in Minutes |-> None]]
    /\ turn = [r \in Request |-> 0]

\* routes/keys.rs: a key is created, and revoked for good.
CreateKey(k) ==
    /\ keys[k] = "absent"
    /\ keys' = [keys EXCEPT ![k] = "live"]
    /\ UNCHANGED <<now, key, instance, pc, window, mutex, redis>>

RevokeKey(k) ==
    /\ keys[k] = "live"
    /\ keys' = [keys EXCEPT ![k] = "revoked"]
    /\ UNCHANGED <<now, key, instance, pc, window, mutex, redis>>

GoTo(r, where) == pc' = [pc EXCEPT ![r] = where]

\* The end of a request frees the mutex, if it held it.
End(r, how) ==
    /\ GoTo(r, how)
    /\ mutex' = [i \in Instance |-> IF mutex[i] = r THEN None ELSE mutex[i]]

\* validate_from_db.
Validate(r) ==
    /\ pc[r] = "validate"
    /\ GoTo(r, IF keys[key[r]] = "live" THEN "lock" ELSE "401")
    /\ UNCHANGED <<now, keys, key, instance, window, mutex, redis>>

ValidateFails(r) ==
    /\ pc[r] = "validate"
    /\ GoTo(r, "500")
    /\ UNCHANGED <<now, keys, key, instance, window, mutex, redis>>

\* lock().await, and the first line of check_and_increment.
Lock(r) ==
    /\ pc[r] = "lock" /\ mutex[instance[r]] = None
    /\ mutex' = [mutex EXCEPT ![instance[r]] = r]
    /\ window' = [window EXCEPT ![r] = now]
    /\ GoTo(r, "incr")
    /\ UNCHANGED <<now, keys, key, instance, redis>>

\* Redis: what INCR and EXPIRE do.
Counter(r) == counter[key[r]][Minute(window[r])]

\* The requests of r's key that were counted in its minute.
Counted(r) ==
    {q \in Request : turn[q] > 0 /\ key[q] = key[r] /\ Minute(window[q]) = Minute(window[r])}

Value(r) == IF Counter(r) = None THEN 1 ELSE Counter(r).value + 1

\* When the counter expires, or NoTtl if it has no time to live yet.
Expiry(r) == IF Counter(r) = None THEN NoTtl ELSE Counter(r).expires

Increment(r) ==
    /\ counter' = [counter EXCEPT ![key[r]][Minute(window[r])] =
                      [value |-> Value(r), expires |-> Expiry(r)]]
    /\ turn' = [turn EXCEPT ![r] = Cardinality(Counted(r)) + 1]

SetTtl(r) ==
    counter' = [counter EXCEPT ![key[r]][Minute(window[r])] =
                   IF Counter(r) = None THEN None
                   ELSE [value |-> Counter(r).value, expires |-> now + Ttl]]

\* Mutant of Incr: the limit is taken one short.
IncrStrict(r) ==
    /\ pc[r] = "incr"
    /\ Increment(r)
    /\ IF Value(r) = 1 THEN GoTo(r, "expire") /\ UNCHANGED mutex
       ELSE End(r, IF Value(r) < Rpm[key[r]] THEN "admitted" ELSE "429")
    /\ UNCHANGED <<now, keys, key, instance, window>>

\* Mutant of Incr: the mutex is not held over the EXPIRE.
IncrUnlock(r) ==
    /\ pc[r] = "incr"
    /\ Increment(r)
    /\ IF Value(r) = 1 THEN End(r, "expire")
       ELSE End(r, IF Value(r) <= Rpm[key[r]] THEN "admitted" ELSE "429")
    /\ UNCHANGED <<now, keys, key, instance, window>>

Incr(r) ==
    /\ pc[r] = "incr"
    /\ Increment(r)
    /\ IF Value(r) = 1 THEN GoTo(r, "expire") /\ UNCHANGED mutex
       ELSE End(r, IF Value(r) <= Rpm[key[r]] THEN "admitted" ELSE "429")
    /\ UNCHANGED <<now, keys, key, instance, window>>

Expire(r) ==
    /\ pc[r] = "expire"
    /\ SetTtl(r)
    /\ End(r, IF 1 <= Rpm[key[r]] THEN "admitted" ELSE "429")
    /\ UNCHANGED <<now, keys, key, instance, window, turn>>

\* A call of Redis takes effect or not, and the handler does not learn of it: on
\* an error the request is let through, "failing open"; it is dropped when its
\* client goes away or the process dies.
BreakOff(r, effective, how) ==
    /\ pc[r] \in {"incr", "expire"}
    /\ CASE effective /\ pc[r] = "incr" -> Increment(r)
         [] effective /\ pc[r] = "expire" -> SetTtl(r) /\ UNCHANGED turn
         [] ~effective -> UNCHANGED redis
    /\ End(r, how)
    /\ UNCHANGED <<now, keys, key, instance, window>>

\* Half a minute passes, and Redis drops what has expired.
Elapse ==
    /\ now < LastTime
    /\ \A r \in Request : pc[r] = "incr" => now - window[r] < MaxDelay
    /\ now' = now + 1
    /\ counter' = [k \in Key |-> [m \in Minutes |->
                      IF counter[k][m] # None /\ counter[k][m].expires <= now + 1
                      THEN None ELSE counter[k][m]]]
    /\ UNCHANGED <<keys, key, instance, pc, window, mutex, turn>>

\* The bound: all requests are answered and the time is over.
Halt == now = LastTime /\ (\A r \in Request : pc[r] \in Ended) /\ UNCHANGED vars

Next ==
    \/ \E k \in Key : CreateKey(k) \/ RevokeKey(k)
    \/ \E r \in Request :
          \/ Validate(r) \/ ValidateFails(r) \/ Lock(r) \/ Incr(r) \/ Expire(r)
          \/ \E effective \in BOOLEAN, how \in {"open", "dropped"} : BreakOff(r, effective, how)
    \/ Elapse
    \/ Halt

Spec == Init /\ [][Next]_vars

-----------------------------------------------------------------------------
TypeOK ==
    /\ now \in 0..LastTime
    /\ keys \in [Key -> {"absent", "live", "revoked"}]
    /\ key \in [Request -> Key] /\ instance \in [Request -> Instance]
    /\ pc \in [Request -> {"validate", "lock", "incr", "expire"} \cup Ended]
    /\ window \in [Request -> 0..LastTime]
    /\ mutex \in [Instance -> Request \cup {None}]
    /\ \A i \in Instance : mutex[i] # None =>
          instance[mutex[i]] = i /\ pc[mutex[i]] \in {"incr", "expire"}
    /\ \A r \in Request : pc[r] \in {"incr", "expire"} => mutex[instance[r]] = r
    /\ counter \in [Key -> [Minutes -> {None} \cup [value : Nat, expires : Nat]]]
    /\ turn \in [Request -> 0..Cardinality(Request)]

-----------------------------------------------------------------------------
\* The refinement mapping: a request is counted in the minute of the clock reading
\* it bears, and its answer is how its handler ended.
AnswerOf(r) ==
    IF pc[r] \in {"401", "500", "dropped"} THEN "gone"
    ELSE IF pc[r] \in Ended THEN pc[r] ELSE "none"

Limiter == INSTANCE FixedWindow WITH
    Limit <- Rpm,
    minute <- [r \in Request |-> IF turn[r] > 0 THEN Minute(window[r]) ELSE None],
    answer <- [r \in Request |-> AnswerOf(r)]

ASSUME WindowAssumption == Limiter!WindowAssumption

\* INCR and EXPIRE of several instances, with their delays and failures, and the
\* counter that Redis drops, give every request the verdict of its turn in its
\* minute: none is admitted beyond the limit, none refused within it, and a
\* counter is not begun anew while it may still be asked (auth.rs:63-92,
\* cache.rs:50-60).
ImplementsLimiter == Limiter!Spec

\* What it is for: however many gateways count, no more requests of a key are admitted
\* in a minute than its limit, but for those whose count did not come back
\* (auth.rs:70-92, cache.rs:50-60).
WithinLimit == Limiter!WithinLimit
=============================================================================
