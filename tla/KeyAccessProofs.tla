--------------------------- MODULE KeyAccessProofs ---------------------------
(***************************************************************************)
(* Proofs that the rate limiter of the gateway implements FixedWindow, and *)
(* so keeps the limit, for every number of requests, keys and instances.   *)
(*                                                                         *)
(* While a counter is in Redis its value is the number of requests counted *)
(* in its minute, and a counter that is gone was dropped no earlier than a *)
(* minute after its own, when no request can ask for it any more.          *)
(*                                                                         *)
(* FixedWindow keeps the limit because the turns of a key and minute are   *)
(* the numbers from 1 to that of the requests counted in it, each given    *)
(* once, and an admitted request has one within the limit.                 *)
(***************************************************************************)
EXTENDS KeyAccess, FiniteSetTheorems, TLAPS

\* The requests counted for a key in a minute.
In(k, m) == {q \in Request : turn[q] > 0 /\ key[q] = k /\ Minute(window[q]) = m}

\* A request that has not been to Redis has no turn; one that is there has read the
\* clock, and asks in time.
OnTime ==
    \A r \in Request :
        /\ pc[r] \in {"validate", "lock", "incr"} => turn[r] = 0
        /\ pc[r] = "incr" => window[r] <= now /\ now <= window[r] + MaxDelay
        /\ pc[r] = "expire" => window[r] <= now /\ turn[r] = 1

\* A counter tells the truth, and is gone only when its minute is past asking.
Truthful ==
    \A k \in Key, m \in Minutes :
        /\ counter[k][m] # None =>
              /\ counter[k][m].value = Cardinality(In(k, m))
              /\ counter[k][m].expires >= 2 * m + Ttl
        /\ counter[k][m] = None => In(k, m) = {} \/ now >= 2 * m + Ttl

Inv == TypeOK /\ OnTime /\ Truthful

-----------------------------------------------------------------------------
\* The limiter counts with the operators of its own copy of FiniteSets, which are
\* the same.
LEMMA SameCount ==
    ASSUME NEW S
    PROVE  Limiter!Cardinality(S) = Cardinality(S) /\ (Limiter!IsFiniteSet(S) <=> IsFiniteSet(S))
  BY DEF Limiter!Cardinality, Limiter!IsFiniteSet, Cardinality, IsFiniteSet

LEMMA Finite == IsFiniteSet(Request) /\ Cardinality(Request) \in Nat
<1>1. IsFiniteSet(Request)
  BY WindowAssumption, SameCount DEF Limiter!WindowAssumption
<1>2. QED
  BY <1>1, FS_CardinalityType

LEMMA Clock ==
    ASSUME NEW t \in 0..LastTime
    PROVE  /\ Minute(t) \in Minutes
           /\ 2 * Minute(t) <= t /\ t <= 2 * Minute(t) + 1
  BY LimitAssumption DEF Minute, Minutes

LEMMA InFinite ==
    ASSUME NEW k, NEW m
    PROVE  /\ IsFiniteSet(In(k, m)) /\ Cardinality(In(k, m)) \in Nat
           /\ In(k, m) \subseteq Request
<1>1. In(k, m) \in SUBSET Request
  BY DEF In
<1>2. QED
  BY <1>1, Finite, FS_Subset, FS_CardinalityType

\* The request to be counted is not among those that were.
LEMMA RoomForTurn ==
    ASSUME NEW k, NEW m, NEW r \in Request, r \notin In(k, m)
    PROVE  /\ Cardinality(In(k, m)) + 1 \in 1..Cardinality(Request)
           /\ Cardinality(In(k, m) \cup {r}) = Cardinality(In(k, m)) + 1
<1>1. /\ Cardinality(In(k, m) \cup {r}) = Cardinality(In(k, m)) + 1
      /\ IsFiniteSet(In(k, m) \cup {r})
  BY InFinite, FS_AddElement
<1>2. In(k, m) \cup {r} \in SUBSET Request
  BY InFinite
<1>3. Cardinality(In(k, m) \cup {r}) <= Cardinality(Request) /\ Cardinality(Request) \in Nat
  BY <1>2, Finite, FS_Subset, FS_CardinalityType
<1>4. QED
  BY <1>1, <1>3, InFinite

LEMMA Initially == Init => Inv
<1> SUFFICES ASSUME Init PROVE Inv
  OBVIOUS
<1> USE DEF Init
<1>2. TypeOK
  BY Finite, LimitAssumption, NoneAssumption DEF TypeOK
<1>3. OnTime
  BY DEF OnTime
<1>4. Truthful
  BY DEF Truthful, In
<1>5. QED
  BY <1>2, <1>3, <1>4 DEF Inv

-----------------------------------------------------------------------------
\* What INCR does: the value is how many have been counted, this one among them.
LEMMA Incremented ==
    ASSUME Inv, NEW r \in Request, pc[r] = "incr", Increment(r)
    PROVE  LET k == key[r]
               m == Minute(window[r])
           IN  /\ k \in Key /\ m \in Minutes
               /\ r \notin In(k, m)
               /\ Value(r) = Cardinality(In(k, m)) + 1
               /\ turn' = [turn EXCEPT ![r] = Value(r)]
               /\ Value(r) \in 1..Cardinality(Request)
               /\ counter'[k][m] # None
               /\ counter'[k][m].value = Value(r)
               /\ counter'[k][m].expires >= 2 * m + Ttl
               /\ counter' \in [Key -> [Minutes -> {None} \cup [value : Nat, expires : Nat]]]
               /\ \A x \in Key, y \in Minutes :
                     x # k \/ y # m => counter'[x][y] = counter[x][y]
<1> DEFINE k == key[r]
           m == Minute(window[r])
<1>1. k \in Key /\ window[r] \in 0..LastTime /\ m \in Minutes /\ 2 * m <= window[r] /\ window[r] <= 2 * m + 1
  BY Clock DEF Inv, TypeOK
<1>2. r \notin In(k, m)
  BY DEF Inv, OnTime, In
<1>3. Counted(r) = In(k, m)
  BY DEF Counted, In
<1>4. now \in Nat /\ now < 2 * m + Ttl /\ m \in Nat
  BY <1>1, LimitAssumption, DelayAssumption DEF Inv, TypeOK, OnTime, Ttl, Minutes
<1> HIDE DEF k, m
<1>5. counter[k][m] \in {None} \cup [value : Nat, expires : Nat]
  BY <1>1 DEF Inv, TypeOK
<1>6. Value(r) = Cardinality(In(k, m)) + 1
  <2>1. Value(r) = IF counter[k][m] = None THEN 1 ELSE counter[k][m].value + 1
    BY DEF Value, Counter, k, m
  <2>2. CASE counter[k][m] = None
    <3>1. In(k, m) = {}
      BY <1>1, <1>4, <2>2, LimitAssumption DEF Inv, Truthful, TypeOK, Ttl, Minutes
    <3>2. QED
      BY <2>1, <2>2, <3>1, FS_EmptySet
  <2>3. CASE counter[k][m] # None
    BY <1>1, <2>1, <2>3 DEF Inv, Truthful
  <2>4. QED
    BY <2>2, <2>3
<1>7. turn' = [turn EXCEPT ![r] = Value(r)]
  BY <1>3, <1>6 DEF Increment
<1>8. Value(r) \in 1..Cardinality(Request)
  BY <1>2, <1>6, RoomForTurn
<1>9. /\ counter'[k][m] \in [value : Nat, expires : Nat]
      /\ counter'[k][m].value = Value(r)
      /\ counter'[k][m].expires >= 2 * m + Ttl
      /\ \A x \in Key, y \in Minutes : x # k \/ y # m => counter'[x][y] = counter[x][y]
      /\ counter' \in [Key -> [Minutes -> {None} \cup [value : Nat, expires : Nat]]]
  <2> DEFINE new == [value |-> Value(r), expires |-> Expiry(r)]
  <2>1. counter' = [counter EXCEPT ![k][m] = new]
    BY DEF Increment, k, m
  <2>2. counter \in [Key -> [Minutes -> {None} \cup [value : Nat, expires : Nat]]]
    BY DEF Inv, TypeOK
  <2>3. Expiry(r) \in Nat /\ Expiry(r) >= 2 * m + Ttl
    <3>1. Expiry(r) = IF counter[k][m] = None THEN NoTtl ELSE counter[k][m].expires
      BY DEF Expiry, Counter, k, m
    <3>2. NoTtl \in Nat /\ NoTtl >= 2 * m + Ttl
      BY <1>1, <1>4, LimitAssumption DEF NoTtl, Ttl
    <3>3. CASE counter[k][m] = None
      BY <3>1, <3>2, <3>3
    <3>4. CASE counter[k][m] # None
      BY <1>1, <1>5, <3>1, <3>4 DEF Inv, Truthful
    <3>5. QED
      BY <3>3, <3>4
  <2>4. new \in [value : Nat, expires : Nat] /\ new.value = Value(r) /\ new.expires >= 2 * m + Ttl
    BY <1>8, <2>3
  <2> HIDE DEF new
  <2>5. QED
    BY <1>1, <2>1, <2>2, <2>4
<1>10. QED
  BY <1>1, <1>2, <1>6, <1>7, <1>8, <1>9, NoneAssumption DEF k, m
-----------------------------------------------------------------------------
LEMMA Counting ==
    ASSUME Inv, NEW r \in Request, pc[r] = "incr", Increment(r), UNCHANGED <<now, key, window>>
    PROVE  /\ Truthful'
           /\ turn' \in [Request -> 0..Cardinality(Request)]
           /\ counter' \in [Key -> [Minutes -> {None} \cup [value : Nat, expires : Nat]]]
<1> DEFINE k == key[r]
           m == Minute(window[r])
<1>1. /\ k \in Key /\ m \in Minutes
      /\ r \notin In(k, m)
      /\ Value(r) = Cardinality(In(k, m)) + 1
      /\ turn' = [turn EXCEPT ![r] = Value(r)]
      /\ Value(r) \in 1..Cardinality(Request)
      /\ counter'[k][m] # None
      /\ counter'[k][m].value = Value(r)
      /\ counter'[k][m].expires >= 2 * m + Ttl
      /\ counter' \in [Key -> [Minutes -> {None} \cup [value : Nat, expires : Nat]]]
      /\ \A x \in Key, y \in Minutes :
            x # k \/ y # m => counter'[x][y] = counter[x][y]
  BY Incremented
<1>2. turn \in [Request -> 0..Cardinality(Request)] /\ Cardinality(Request) \in Nat
  BY Finite DEF Inv, TypeOK
<1>3. turn' \in [Request -> 0..Cardinality(Request)]
  BY <1>1, <1>2
<1>4. /\ \A q \in Request : q # r => turn'[q] = turn[q]
      /\ turn'[r] > 0 /\ turn[r] = 0
  BY <1>1, <1>2 DEF Inv, OnTime
<1>5. ASSUME NEW x \in Key, NEW y \in Minutes
      PROVE  In(x, y)' = IF x = k /\ y = m THEN In(k, m) \cup {r} ELSE In(x, y)
  BY <1>4 DEF In
<1>6. Cardinality(In(k, m) \cup {r}) = Cardinality(In(k, m)) + 1
  BY <1>1, RoomForTurn
<1> HIDE DEF k, m
<1>7. SUFFICES ASSUME NEW x \in Key, NEW y \in Minutes
               PROVE  /\ counter'[x][y] # None =>
                            /\ counter'[x][y].value = Cardinality(In(x, y)')
                            /\ counter'[x][y].expires >= 2 * y + Ttl
                      /\ counter'[x][y] = None => In(x, y)' = {} \/ now >= 2 * y + Ttl
  BY <1>1, <1>3 DEF Truthful
<1>8. CASE x = k /\ y = m
  BY <1>1, <1>5, <1>6, <1>8
<1>9. CASE ~(x = k /\ y = m)
  <2>1. In(x, y)' = In(x, y) /\ counter'[x][y] = counter[x][y]
    BY <1>1, <1>5, <1>9
  <2>2. QED
    BY <2>1 DEF Inv, Truthful
<1>10. QED
  BY <1>8, <1>9

\* What EXPIRE does: the counter lives on beyond the minute after its own.
LEMMA Living ==
    ASSUME Inv, NEW r \in Request, pc[r] = "expire", SetTtl(r),
           UNCHANGED <<now, key, window, turn>>
    PROVE  /\ Truthful'
           /\ counter' \in [Key -> [Minutes -> {None} \cup [value : Nat, expires : Nat]]]
<1> DEFINE k == key[r]
           m == Minute(window[r])
           Counters == {None} \cup [value : Nat, expires : Nat]
           new == IF Counter(r) = None THEN None
                  ELSE [value |-> Counter(r).value, expires |-> now + Ttl]
<1>1. k \in Key /\ window[r] \in 0..LastTime /\ m \in Minutes /\ 2 * m <= window[r]
  BY Clock DEF Inv, TypeOK
<1>2. now \in Nat /\ m \in Nat /\ now + Ttl \in Nat /\ now + Ttl >= 2 * m + Ttl
  BY <1>1, LimitAssumption DEF Inv, TypeOK, OnTime, Ttl, Minutes
<1>3. counter \in [Key -> [Minutes -> Counters]]
  BY DEF Inv, TypeOK
<1>4. Counter(r) = counter[k][m]
  BY DEF Counter
<1>5. counter' = [counter EXCEPT ![k][m] = new]
  BY DEF SetTtl
<1> HIDE DEF k, m
<1>6. counter[k][m] \in Counters
  BY <1>1, <1>3
<1>7. /\ new \in Counters
      /\ new = None <=> counter[k][m] = None
      /\ new # None => new.value = counter[k][m].value /\ new.expires >= 2 * m + Ttl
  <2>1. CASE counter[k][m] = None
    BY <1>4, <2>1
  <2>2. CASE counter[k][m] # None
    <3>1. new = [value |-> counter[k][m].value, expires |-> now + Ttl]
      BY <1>4, <2>2
    <3>2. counter[k][m].value \in Nat
      BY <1>6, <2>2
    <3>3. QED
      BY <1>2, <2>2, <3>1, <3>2, NoneAssumption
  <2>3. QED
    BY <2>1, <2>2
<1> HIDE DEF new, Counters
<1>8. /\ counter' \in [Key -> [Minutes -> Counters]]
      /\ counter'[k][m] = new
      /\ \A x \in Key, y \in Minutes : x # k \/ y # m => counter'[x][y] = counter[x][y]
  BY <1>1, <1>3, <1>5, <1>7
<1>9. \A x, y : In(x, y)' = In(x, y)
  BY DEF In
<1>10. ASSUME NEW x \in Key, NEW y \in Minutes
       PROVE  /\ counter'[x][y] # None =>
                    /\ counter'[x][y].value = Cardinality(In(x, y))
                    /\ counter'[x][y].expires >= 2 * y + Ttl
              /\ counter'[x][y] = None => In(x, y) = {} \/ now >= 2 * y + Ttl
  <2>1. /\ counter[x][y] # None =>
              /\ counter[x][y].value = Cardinality(In(x, y))
              /\ counter[x][y].expires >= 2 * y + Ttl
        /\ counter[x][y] = None => In(x, y) = {} \/ now >= 2 * y + Ttl
    BY DEF Inv, Truthful
  <2>2. CASE x = k /\ y = m
    BY <1>7, <1>8, <2>1, <2>2
  <2>3. CASE ~(x = k /\ y = m)
    BY <1>8, <2>1, <2>3
  <2>4. QED
    BY <2>2, <2>3
<1>11. Truthful'
  BY <1>9, <1>10 DEF Truthful
<1>12. QED
  BY <1>8, <1>11 DEF Counters

\* Where neither Redis nor what was counted changes, and time does not run back,
\* the counters stay truthful.
LEMMA StillTruthful ==
    ASSUME Inv, UNCHANGED <<redis, key>>, now' \in Nat, now' >= now,
           \A q \in Request : turn[q] > 0 => window'[q] = window[q]
    PROVE  Truthful'
<1>1. \A x, y : In(x, y)' = In(x, y)
  BY DEF In, redis
<1>2. now \in Nat /\ Minutes \subseteq Nat
  BY LimitAssumption DEF Inv, TypeOK, Minutes
<1>3. QED
  BY <1>1, <1>2 DEF Inv, Truthful, redis, Ttl

-----------------------------------------------------------------------------
\* The request that holds the mutex of its instance is the one that talks to Redis.
Exclusive ==
    /\ mutex \in [Instance -> Request \cup {None}]
    /\ \A i \in Instance : mutex[i] # None =>
          instance[mutex[i]] = i /\ pc[mutex[i]] \in {"incr", "expire"}
    /\ \A r \in Request : pc[r] \in {"incr", "expire"} => mutex[instance[r]] = r

LEMMA Ends ==
    ASSUME TypeOK, NEW r \in Request, NEW how \in Ended, End(r, how), UNCHANGED instance
    PROVE  Exclusive' /\ pc' \in [Request -> {"validate", "lock", "incr", "expire"} \cup Ended]
<1>1. /\ pc' = [pc EXCEPT ![r] = how]
      /\ mutex' = [i \in Instance |-> IF mutex[i] = r THEN None ELSE mutex[i]]
      /\ how \notin {"incr", "expire"}
  BY DEF End, GoTo, Ended
<1>2. QED
  BY <1>1 DEF TypeOK, Exclusive

\* The steps that count nothing keep the types of Redis.
LEMMA TypesKept ==
    ASSUME TypeOK, UNCHANGED <<key, instance>>, now' \in 0..LastTime,
           keys' \in [Key -> {"absent", "live", "revoked"}],
           pc' \in [Request -> {"validate", "lock", "incr", "expire"} \cup Ended],
           window' \in [Request -> 0..LastTime],
           turn' \in [Request -> 0..Cardinality(Request)],
           counter' \in [Key -> [Minutes -> {None} \cup [value : Nat, expires : Nat]]],
           Exclusive'
    PROVE  TypeOK'
  BY DEF TypeOK, Exclusive

\* A step of a request towards Redis, or to an answer without it.
LEMMA BeforeRedis ==
    ASSUME Inv, NEW r \in Request,
           Validate(r) \/ ValidateFails(r) \/ Lock(r)
    PROVE  Inv'
<1>1. TypeOK /\ OnTime /\ now \in 0..LastTime
  BY DEF Inv, TypeOK
<1>2. CASE Validate(r) \/ ValidateFails(r)
  <2>1. PICK w \in {"lock", "401", "500"} : pc[r] = "validate" /\ pc' = [pc EXCEPT ![r] = w]
    BY <1>2 DEF Validate, ValidateFails, GoTo
  <2>2. UNCHANGED <<now, keys, key, instance, window, mutex, counter, turn>>
    BY <1>2 DEF Validate, ValidateFails, redis
  <2>3. /\ pc' \in [Request -> {"validate", "lock", "incr", "expire"} \cup Ended]
        /\ pc'[r] = w /\ \A q \in Request : q # r => pc'[q] = pc[q]
    BY <1>1, <2>1 DEF TypeOK, Ended
  <2>4. Exclusive'
    <3>1. \A q \in Request : pc'[q] \in {"incr", "expire"} <=> pc[q] \in {"incr", "expire"}
      BY <2>1, <2>3
    <3>2. QED
      BY <1>1, <2>2, <3>1 DEF TypeOK, Exclusive
  <2>5. TypeOK'
    BY <1>1, <2>2, <2>3, <2>4, TypesKept DEF TypeOK
  <2>6. OnTime'
    BY <1>1, <2>1, <2>2, <2>3 DEF OnTime
  <2>7. Truthful'
    BY <1>1, <2>2, StillTruthful DEF redis
  <2>8. QED
    BY <2>5, <2>6, <2>7 DEF Inv
<1>3. CASE Lock(r)
  <2>1. /\ pc[r] = "lock" /\ pc' = [pc EXCEPT ![r] = "incr"]
        /\ mutex[instance[r]] = None /\ mutex' = [mutex EXCEPT ![instance[r]] = r]
        /\ window' = [window EXCEPT ![r] = now]
        /\ UNCHANGED <<now, keys, key, instance, counter, turn>>
    BY <1>3 DEF Lock, GoTo, redis
  <2>2. /\ pc' \in [Request -> {"validate", "lock", "incr", "expire"} \cup Ended]
        /\ window' \in [Request -> 0..LastTime]
        /\ window'[r] = now /\ \A q \in Request : q # r => window'[q] = window[q]
        /\ pc'[r] = "incr" /\ \A q \in Request : q # r => pc'[q] = pc[q]
    BY <1>1, <2>1 DEF TypeOK
  <2>3. Exclusive'
    BY <1>1, <2>1, <2>2, NoneAssumption DEF TypeOK, Exclusive
  <2>4. TypeOK'
    BY <1>1, <2>1, <2>2, <2>3, TypesKept DEF TypeOK
  <2>5. OnTime'
    BY <1>1, <2>1, <2>2, LimitAssumption DEF OnTime
  <2>6. turn[r] = 0
    BY <1>1, <2>1 DEF OnTime
  <2>7. Truthful'
    BY <1>1, <2>1, <2>2, <2>6, StillTruthful DEF redis
  <2>8. QED
    BY <2>4, <2>5, <2>7 DEF Inv
<1>4. QED
  BY <1>2, <1>3

\* INCR takes effect, and the handler goes on to EXPIRE or ends.
LEMMA AfterIncr ==
    ASSUME Inv, NEW r \in Request, pc[r] = "incr", Increment(r),
           UNCHANGED <<now, keys, key, instance, window>>,
           \/ Value(r) = 1 /\ GoTo(r, "expire") /\ UNCHANGED mutex
           \/ \E how \in Ended : End(r, how)
    PROVE  Inv'
<1>1. TypeOK /\ OnTime /\ now \in 0..LastTime
  BY DEF Inv, TypeOK
<1>2. /\ Truthful'
      /\ turn' \in [Request -> 0..Cardinality(Request)]
      /\ counter' \in [Key -> [Minutes -> {None} \cup [value : Nat, expires : Nat]]]
  BY Counting
<1>3. turn' = [turn EXCEPT ![r] = Value(r)]
  BY Incremented
<1>4. PICK w \in {"expire"} \cup Ended :
         pc' = [pc EXCEPT ![r] = w] /\ (w = "expire" => Value(r) = 1)
  BY DEF GoTo, End, Ended
<1>5. /\ pc' \in [Request -> {"validate", "lock", "incr", "expire"} \cup Ended]
      /\ pc'[r] = w /\ \A q \in Request : q # r => pc'[q] = pc[q]
  BY <1>1, <1>4 DEF TypeOK
<1>6. Exclusive'
  <2>1. CASE Value(r) = 1 /\ GoTo(r, "expire") /\ UNCHANGED mutex
    <3>1. pc' = [pc EXCEPT ![r] = "expire"]
      BY <2>1 DEF GoTo
    <3>2. \A q \in Request : pc'[q] \in {"incr", "expire"} <=> pc[q] \in {"incr", "expire"}
      BY <1>1, <3>1 DEF TypeOK
    <3>3. QED
      BY <1>1, <2>1, <3>2 DEF TypeOK, Exclusive
  <2>2. CASE \E how \in Ended : End(r, how)
    BY <1>1, <2>2, Ends
  <2>3. QED
    BY <2>1, <2>2
<1>7. TypeOK'
  BY <1>1, <1>2, <1>5, <1>6, TypesKept DEF TypeOK
<1>8. turn \in [Request -> 0..Cardinality(Request)]
  BY <1>1 DEF TypeOK
<1>9. OnTime'
  <2>1. SUFFICES ASSUME NEW q \in Request
                 PROVE  /\ pc'[q] \in {"validate", "lock", "incr"} => turn'[q] = 0
                        /\ pc'[q] = "incr" => window[q] <= now /\ now <= window[q] + MaxDelay
                        /\ pc'[q] = "expire" => window[q] <= now /\ turn'[q] = 1
    BY DEF OnTime
  <2>2. CASE q = r
    BY <1>1, <1>3, <1>4, <1>5, <1>8, <2>2 DEF OnTime, Ended
  <2>3. CASE q # r
    BY <1>1, <1>3, <1>5, <1>8, <2>3 DEF OnTime
  <2>4. QED
    BY <2>2, <2>3
<1>10. QED
  BY <1>2, <1>7, <1>9 DEF Inv

\* EXPIRE takes effect or the call of Redis has none, and the handler ends.
LEMMA AfterRedis ==
    ASSUME Inv, NEW r \in Request, pc[r] \in {"incr", "expire"},
           \/ pc[r] = "expire" /\ SetTtl(r) /\ UNCHANGED turn
           \/ UNCHANGED redis,
           UNCHANGED <<now, keys, key, instance, window>>,
           NEW how \in Ended, End(r, how)
    PROVE  Inv'
<1>1. TypeOK /\ OnTime /\ now \in 0..LastTime
  BY DEF Inv, TypeOK
<1>2. Exclusive' /\ pc' \in [Request -> {"validate", "lock", "incr", "expire"} \cup Ended]
  BY <1>1, Ends
<1>3. /\ pc'[r] \notin {"validate", "lock", "incr", "expire"}
      /\ \A q \in Request : q # r => pc'[q] = pc[q]
  BY <1>1 DEF End, GoTo, TypeOK, Ended
<1>4. /\ Truthful' /\ UNCHANGED turn
      /\ counter' \in [Key -> [Minutes -> {None} \cup [value : Nat, expires : Nat]]]
  <2>1. CASE pc[r] = "expire" /\ SetTtl(r) /\ UNCHANGED turn
    BY <2>1, Living
  <2>2. CASE UNCHANGED redis
    BY <1>1, <2>2, StillTruthful DEF redis, TypeOK
  <2>3. QED
    BY <2>1, <2>2
<1>5. TypeOK'
  BY <1>1, <1>2, <1>4, TypesKept DEF TypeOK
<1>6. OnTime'
  BY <1>1, <1>3, <1>4 DEF OnTime
<1>7. QED
  BY <1>4, <1>5, <1>6 DEF Inv

\* Redis drops a counter no earlier than two minutes from the start of its own.
LEMMA AfterElapse ==
    ASSUME Inv, Elapse
    PROVE  Inv'
<1>1. /\ now \in 0..LastTime /\ now < LastTime /\ now' = now + 1 /\ now' \in 0..LastTime
      /\ UNCHANGED <<keys, key, instance, pc, window, mutex, turn>>
      /\ \A q \in Request : pc[q] = "incr" => now - window[q] < MaxDelay
      /\ window \in [Request -> 0..LastTime]
  BY LimitAssumption DEF Elapse, Inv, TypeOK
<1>2. ASSUME NEW x \in Key, NEW y \in Minutes
      PROVE  counter'[x][y] = IF counter[x][y] # None /\ counter[x][y].expires <= now + 1
                              THEN None ELSE counter[x][y]
  BY DEF Elapse
<1>3. counter' \in [Key -> [Minutes -> {None} \cup [value : Nat, expires : Nat]]]
  BY DEF Elapse, Inv, TypeOK
<1>4. Exclusive'
  BY <1>1 DEF Inv, TypeOK, Exclusive
<1>5. TypeOK'
  BY <1>1, <1>3, <1>4, TypesKept DEF Inv, TypeOK
<1>6. OnTime'
  BY <1>1, LimitAssumption DEF Inv, OnTime
<1>7. \A x, y : In(x, y)' = In(x, y)
  BY <1>1 DEF In
<1>8. ASSUME NEW x \in Key, NEW y \in Minutes
      PROVE  /\ counter'[x][y] # None =>
                   /\ counter'[x][y].value = Cardinality(In(x, y))
                   /\ counter'[x][y].expires >= 2 * y + Ttl
             /\ counter'[x][y] = None => In(x, y) = {} \/ now' >= 2 * y + Ttl
  <2>1. /\ counter[x][y] # None =>
              /\ counter[x][y].value = Cardinality(In(x, y))
              /\ counter[x][y].expires >= 2 * y + Ttl
        /\ counter[x][y] = None => In(x, y) = {} \/ now >= 2 * y + Ttl
    BY DEF Inv, Truthful
  <2>2. y \in Nat /\ 2 * y + Ttl \in Nat
    BY LimitAssumption DEF Minutes, Ttl
  <2>3. counter[x][y] # None => counter[x][y].expires \in Nat
    BY DEF Inv, TypeOK
  <2>4. QED
    BY <1>1, <1>2, <2>1, <2>2, <2>3
<1>9. Truthful'
  BY <1>7, <1>8 DEF Truthful
<1>10. QED
  BY <1>5, <1>6, <1>9 DEF Inv

LEMMA Invariance == Inv /\ [Next]_vars => Inv'
<1> SUFFICES ASSUME Inv, [Next]_vars PROVE Inv'
  OBVIOUS
<1>1. ASSUME NEW k \in Key, CreateKey(k) \/ RevokeKey(k) PROVE Inv'
  <2>1. /\ keys' \in [Key -> {"absent", "live", "revoked"}]
        /\ UNCHANGED <<now, key, instance, pc, window, mutex, counter, turn>>
    BY <1>1 DEF CreateKey, RevokeKey, redis, Inv, TypeOK
  <2>2. TypeOK' /\ OnTime'
    BY <2>1 DEF Inv, TypeOK, OnTime
  <2>3. now \in Nat
    BY LimitAssumption DEF Inv, TypeOK
  <2>4. Truthful'
    BY <2>1, <2>3, StillTruthful DEF redis
  <2>5. QED
    BY <2>2, <2>4 DEF Inv
<1>2. ASSUME NEW r \in Request, Validate(r) \/ ValidateFails(r) \/ Lock(r) PROVE Inv'
  BY <1>2, BeforeRedis
<1>3. ASSUME NEW r \in Request, Incr(r) PROVE Inv'
  <2>1. \A how \in {"admitted", "429"} : how \in Ended
    BY DEF Ended
  <2>2. QED
    BY <1>3, <2>1, AfterIncr DEF Incr
<1>4. ASSUME NEW r \in Request, Expire(r) PROVE Inv'
  <2>1. \A how \in {"admitted", "429"} : how \in Ended
    BY DEF Ended
  <2>2. QED
    BY <1>4, <2>1, AfterRedis DEF Expire
<1>5. ASSUME NEW r \in Request, NEW effective \in BOOLEAN, NEW how \in {"open", "dropped"},
             BreakOff(r, effective, how)
      PROVE  Inv'
  <2>1. how \in Ended
    BY DEF Ended
  <2>2. pc[r] = "incr" => pc[r] # "expire"
    OBVIOUS
  <2>3. CASE effective /\ pc[r] = "incr"
    BY <1>5, <2>1, <2>3, AfterIncr DEF BreakOff
  <2>4. CASE effective /\ pc[r] = "expire"
    BY <1>5, <2>1, <2>4, AfterRedis DEF BreakOff
  <2>5. CASE ~effective
    BY <1>5, <2>1, <2>5, AfterRedis DEF BreakOff
  <2>6. QED
    BY <1>5, <2>3, <2>4, <2>5 DEF BreakOff
<1>6. ASSUME Elapse PROVE Inv'
  BY <1>6, AfterElapse
<1>7. ASSUME UNCHANGED vars PROVE Inv'
  <2>1. UNCHANGED <<now, keys, key, instance, pc, window, mutex, counter, turn>>
    BY <1>7 DEF vars, redis
  <2>2. TypeOK' /\ OnTime'
    BY <2>1 DEF Inv, TypeOK, OnTime
  <2>3. now \in Nat
    BY LimitAssumption DEF Inv, TypeOK
  <2>4. Truthful'
    BY <2>1, <2>3, StillTruthful DEF redis
  <2>5. QED
    BY <2>2, <2>4 DEF Inv
<1>8. QED
  BY <1>1, <1>2, <1>3, <1>4, <1>5, <1>6, <1>7 DEF Next, Halt

LEMMA Invariant == Spec => []Inv
<1>1. Init => Inv
  BY Initially
<1>2. Inv /\ [Next]_vars => Inv'
  BY Invariance
<1>3. QED
  BY <1>1, <1>2, PTL DEF Spec

\* Every state is well typed; the request that holds the mutex of a gateway is the
\* one of its requests, the only one, that talks to Redis (auth.rs:63-72).
THEOREM TypeCorrect == Spec => []TypeOK
<1>1. Inv => TypeOK
  BY DEF Inv
<1>2. QED
  BY <1>1, Invariant, PTL

-----------------------------------------------------------------------------
\* The refinement, seen from a request's answer and its minute.
AnswerTo(w) ==
    IF w \in {"401", "500", "dropped"} THEN "gone" ELSE IF w \in Ended THEN w ELSE "none"

LEMMA Said ==
    ASSUME TypeOK, NEW r \in Request, NEW w, pc' = [pc EXCEPT ![r] = w]
    PROVE  [q \in Request |-> AnswerOf(q)]'
              = [[q \in Request |-> AnswerOf(q)] EXCEPT ![r] = AnswerTo(w)]
<1>1. \A q \in Request : pc'[q] = IF q = r THEN w ELSE pc[q]
  BY DEF TypeOK
<1>2. QED
  BY <1>1 DEF AnswerOf, AnswerTo

LEMMA MinutesKept ==
    ASSUME UNCHANGED turn, \A q \in Request : turn[q] > 0 => window'[q] = window[q]
    PROVE  UNCHANGED [q \in Request |-> IF turn[q] > 0 THEN Minute(window[q]) ELSE None]
  OBVIOUS

\* Where a step is a turn of the limiter.
LEMMA IncrIsCount ==
    ASSUME Inv, NEW r \in Request, pc[r] = "incr", Increment(r),
           UNCHANGED <<now, key, window>>,
           NEW w, pc' = [pc EXCEPT ![r] = w],
           AnswerTo(w) \in {"none", IF Value(r) <= Rpm[key[r]] THEN "admitted" ELSE "429",
                            "open", "gone"}
    PROVE  Limiter!Next
<1> DEFINE k == key[r]
           m == Minute(window[r])
           minute == [q \in Request |-> IF turn[q] > 0 THEN Minute(window[q]) ELSE None]
           answer == [q \in Request |-> AnswerOf(q)]
<1>1. /\ k \in Key /\ m \in Minutes
      /\ Value(r) = Cardinality(In(k, m)) + 1
      /\ turn' = [turn EXCEPT ![r] = Value(r)]
      /\ Value(r) \in 1..Cardinality(Request)
  BY Incremented
<1>2. None \notin Minutes
  BY WindowAssumption DEF Limiter!WindowAssumption
<1>3. turn[r] = 0 /\ turn \in [Request -> 0..Cardinality(Request)] /\ Cardinality(Request) \in Nat
  BY Finite DEF Inv, OnTime, TypeOK
<1>4. Limiter!Counted(k, m) = In(k, m)
  BY <1>1, <1>2 DEF Limiter!Counted, In
<1>5. Limiter!Cardinality(Limiter!Counted(k, m)) + 1 = Value(r)
  BY <1>1, <1>4, SameCount
<1>6. minute[r] = None /\ answer[r] = "none"
  BY <1>3 DEF AnswerOf, Ended
<1>7. /\ turn'[r] > 0
      /\ \A q \in Request : q # r => turn'[q] = turn[q]
  BY <1>1, <1>3
<1>8. minute' = [minute EXCEPT ![r] = m]
  BY <1>7
<1>9. answer' = [answer EXCEPT ![r] = AnswerTo(w)]
  BY Said DEF Inv
<1>10. PICK c \in Minutes : c = m
  BY <1>1
<1>11. Limiter!Cardinality(Limiter!Counted(k, c)) + 1 = Value(r)
  BY <1>5, <1>10
<1>12. minute' = [minute EXCEPT ![r] = c]
  BY <1>8, <1>10
<1>13. Limiter!Count(r, c)
  BY <1>6, <1>1, <1>9, <1>11, <1>12 DEF Limiter!Count, Limiter!Say, Limiter!Verdict
<1>14. QED
  BY <1>13 DEF Limiter!Next

\* Where a step is the answer of the limiter, or goes without.
LEMMA EndIsAnswer ==
    ASSUME Inv, NEW r \in Request, pc[r] \notin Ended,
           UNCHANGED <<key, turn, window>>,
           NEW w, pc' = [pc EXCEPT ![r] = w],
           \/ AnswerTo(w) \in {"open", "gone"}
           \/ /\ pc[r] = "expire"
              /\ AnswerTo(w) = IF 1 <= Rpm[key[r]] THEN "admitted" ELSE "429"
    PROVE  Limiter!Next
<1> DEFINE minute == [q \in Request |-> IF turn[q] > 0 THEN Minute(window[q]) ELSE None]
           answer == [q \in Request |-> AnswerOf(q)]
<1>1. answer[r] = "none"
  BY DEF AnswerOf, Ended
<1>2. answer' = [answer EXCEPT ![r] = AnswerTo(w)]
  BY Said DEF Inv
<1>3. UNCHANGED minute
  BY MinutesKept
<1>4. pc[r] = "expire" => minute[r] # None /\ turn[r] = 1
  <2>1. pc[r] = "expire" => turn[r] = 1
    BY DEF Inv, OnTime
  <2>2. Minute(window[r]) # None
    BY Clock, WindowAssumption DEF Inv, TypeOK, Limiter!WindowAssumption
  <2>3. QED
    BY <2>1, <2>2
<1>5. Limiter!Answer(r)
  BY <1>1, <1>2, <1>3, <1>4 DEF Limiter!Answer, Limiter!Say, Limiter!Verdict
<1>6. QED
  BY <1>5 DEF Limiter!Next

LEMMA StepRefines == Inv /\ [Next]_vars => [Limiter!Next]_(Limiter!vars)
<1> SUFFICES ASSUME Inv, [Next]_vars PROVE [Limiter!Next]_(Limiter!vars)
  OBVIOUS
<1>1. ASSUME UNCHANGED <<key, pc, turn, window>> PROVE UNCHANGED Limiter!vars
  BY <1>1 DEF Limiter!vars, AnswerOf
<1>2. ASSUME NEW r \in Request, Validate(r) \/ ValidateFails(r)
      PROVE  [Limiter!Next]_(Limiter!vars)
  <2>1. PICK w \in {"lock", "401", "500"} : pc[r] = "validate" /\ pc' = [pc EXCEPT ![r] = w]
    BY <1>2 DEF Validate, ValidateFails, GoTo
  <2>2. UNCHANGED <<key, turn, window>>
    BY <1>2 DEF Validate, ValidateFails, redis
  <2>3. CASE w = "lock"
    <3>1. UNCHANGED [q \in Request |-> AnswerOf(q)]
      <4>1. pc'[r] = "lock" /\ \A q \in Request : q # r => pc'[q] = pc[q]
        BY <2>1, <2>3 DEF Inv, TypeOK
      <4>2. \A q \in Request : AnswerOf(q)' = AnswerOf(q)
        BY <2>1, <4>1 DEF AnswerOf, Ended
      <4>3. QED
        BY <4>2
    <3>2. UNCHANGED Limiter!vars
      BY <2>2, <3>1, MinutesKept DEF Limiter!vars
    <3>3. QED
      BY <3>2
  <2>4. CASE w \in {"401", "500"}
    <3>1. AnswerTo(w) = "gone" /\ pc[r] \notin Ended
      BY <2>1, <2>4 DEF AnswerTo, Ended
    <3>2. QED
      BY <2>1, <2>2, <3>1, EndIsAnswer
  <2>5. QED
    BY <2>3, <2>4
<1>3. ASSUME NEW r \in Request, Lock(r) PROVE UNCHANGED Limiter!vars
  <2>1. /\ pc[r] = "lock" /\ pc' = [pc EXCEPT ![r] = "incr"]
        /\ window' = [window EXCEPT ![r] = now] /\ UNCHANGED <<key, turn>>
    BY <1>3 DEF Lock, GoTo, redis
  <2>2. /\ pc'[r] = "incr" /\ \A q \in Request : q # r => pc'[q] = pc[q]
        /\ \A q \in Request : q # r => window'[q] = window[q]
    BY <2>1 DEF Inv, TypeOK
  <2>3. \A q \in Request : AnswerOf(q)' = AnswerOf(q)
    BY <2>1, <2>2 DEF AnswerOf, Ended
  <2>4. UNCHANGED [q \in Request |-> AnswerOf(q)]
    BY <2>3
  <2>5. turn[r] = 0
    BY <2>1 DEF Inv, OnTime
  <2>6. UNCHANGED [q \in Request |-> IF turn[q] > 0 THEN Minute(window[q]) ELSE None]
    BY <2>1, <2>2, <2>5, MinutesKept
  <2>7. QED
    BY <2>1, <2>4, <2>6 DEF Limiter!vars
<1>4. ASSUME NEW r \in Request, Incr(r) PROVE Limiter!Next
  <2>1. pc[r] = "incr" /\ Increment(r) /\ UNCHANGED <<now, key, window>>
    BY <1>4 DEF Incr
  <2>2. PICK w : /\ pc' = [pc EXCEPT ![r] = w]
                 /\ w = IF Value(r) = 1 THEN "expire"
                        ELSE IF Value(r) <= Rpm[key[r]] THEN "admitted" ELSE "429"
    BY <1>4 DEF Incr, End, GoTo
  <2>3. AnswerTo(w) \in {"none", IF Value(r) <= Rpm[key[r]] THEN "admitted" ELSE "429"}
    BY <2>2 DEF AnswerTo, Ended
  <2>4. QED
    BY <2>1, <2>2, <2>3, IncrIsCount
<1>5. ASSUME NEW r \in Request, Expire(r) PROVE Limiter!Next
  <2>1. pc[r] = "expire" /\ pc[r] \notin Ended /\ UNCHANGED <<key, turn, window>>
    BY <1>5 DEF Expire, Ended
  <2>2. PICK w : /\ pc' = [pc EXCEPT ![r] = w]
                 /\ w = IF 1 <= Rpm[key[r]] THEN "admitted" ELSE "429"
    BY <1>5 DEF Expire, End, GoTo
  <2>3. AnswerTo(w) = IF 1 <= Rpm[key[r]] THEN "admitted" ELSE "429"
    BY <2>2 DEF AnswerTo, Ended
  <2>4. QED
    BY <2>1, <2>2, <2>3, EndIsAnswer
<1>6. ASSUME NEW r \in Request, NEW effective \in BOOLEAN, NEW how \in {"open", "dropped"},
             BreakOff(r, effective, how)
      PROVE  Limiter!Next
  <2>1. /\ pc[r] \in {"incr", "expire"} /\ pc[r] \notin Ended
        /\ pc' = [pc EXCEPT ![r] = how] /\ UNCHANGED <<now, key, window>>
    BY <1>6 DEF BreakOff, End, GoTo, Ended
  <2>2. AnswerTo(how) \in {"open", "gone"}
    BY DEF AnswerTo, Ended
  <2>3. CASE effective /\ pc[r] = "incr"
    <3>1. Increment(r)
      BY <1>6, <2>3 DEF BreakOff
    <3>2. QED
      BY <2>1, <2>2, <2>3, <3>1, IncrIsCount
  <2>4. CASE ~(effective /\ pc[r] = "incr")
    <3>1. UNCHANGED turn
      BY <1>6, <2>1, <2>4 DEF BreakOff, redis
    <3>2. QED
      BY <2>1, <2>2, <3>1, EndIsAnswer
  <2>5. QED
    BY <2>3, <2>4
<1>7. ASSUME NEW k \in Key, CreateKey(k) \/ RevokeKey(k) PROVE UNCHANGED Limiter!vars
  BY <1>1, <1>7 DEF CreateKey, RevokeKey, redis
<1>8. ASSUME Elapse \/ UNCHANGED vars PROVE UNCHANGED Limiter!vars
  BY <1>1, <1>8 DEF Elapse, vars, redis
<1>9. QED
  BY <1>2, <1>3, <1>4, <1>5, <1>6, <1>7, <1>8 DEF Next, Halt

\* The limiter of the gateways keeps the promise of FixedWindow: every request has
\* the verdict of its turn in its minute, or goes without (auth.rs:63-92,
\* cache.rs:50-60).
THEOREM LimiterImplemented == Spec => ImplementsLimiter
<1>1. Init => Limiter!Init
  BY DEF Init, Limiter!Init, AnswerOf, Ended
<1>2. Inv /\ [Next]_vars => [Limiter!Next]_(Limiter!vars)
  BY StepRefines
<1>3. QED
  BY <1>1, <1>2, Invariant, PTL DEF Spec, ImplementsLimiter, Limiter!Spec

-----------------------------------------------------------------------------
\* What Limiter knows of a request: the minute it was counted in, and its answer.
CountedAt == [r \in Request |-> IF turn[r] > 0 THEN Minute(window[r]) ELSE None]
Answered == [r \in Request |-> AnswerOf(r)]
OfMinute(k, m) == {r \in Request : key[r] = k /\ CountedAt[r] = m}

LimiterTypes ==
    /\ key \in [Request -> Key]
    /\ CountedAt \in [Request -> Minutes \cup {None}]
    /\ turn \in [Request -> Nat]
    /\ Answered \in [Request -> Limiter!Answers \cup {"none"}]

\* The turns of a key and minute are numbers up to how many were counted, none
\* given twice.
Turns ==
    \A k \in Key, m \in Minutes :
        /\ \A r \in OfMinute(k, m) : turn[r] \in 1..Cardinality(OfMinute(k, m))
        /\ \A r, q \in OfMinute(k, m) : turn[r] = turn[q] => r = q

\* Who is admitted has a turn within the limit.
AdmittedInTurn ==
    \A r \in Request : Answered[r] = "admitted" =>
        CountedAt[r] \in Minutes /\ turn[r] <= Rpm[key[r]]

LimiterInv == LimiterTypes /\ Turns /\ AdmittedInTurn

LEMMA WindowOk == IsFiniteSet(Request) /\ Rpm \in [Key -> Nat] /\ None \notin Minutes
  BY WindowAssumption, SameCount DEF Limiter!WindowAssumption

\* The steps of Limiter, over what it knows.
LEMMA LimiterCounts ==
    ASSUME NEW r \in Request, NEW m \in Minutes, Limiter!Count(r, m)
    PROVE  LET n == Cardinality(OfMinute(key[r], m)) + 1
           IN  /\ CountedAt[r] = None
               /\ turn' = [turn EXCEPT ![r] = n]
               /\ CountedAt' = [CountedAt EXCEPT ![r] = m]
               /\ key' = key
               /\ \E a \in {"none", Limiter!Verdict(r, n), "open", "gone"} :
                     Answered' = [Answered EXCEPT ![r] = a]
  BY SameCount DEF Limiter!Count, Limiter!Say, Limiter!Counted, OfMinute, CountedAt, Answered

LEMMA LimiterAnswers ==
    ASSUME NEW r \in Request, Limiter!Answer(r)
    PROVE  /\ key' = key /\ CountedAt' = CountedAt /\ turn' = turn
           /\ \E a : /\ Answered' = [Answered EXCEPT ![r] = a]
                     /\ \/ a \in {"open", "gone"}
                        \/ CountedAt[r] # None /\ a = Limiter!Verdict(r, turn[r])
  BY DEF Limiter!Answer, Limiter!Say, CountedAt, Answered

\* What is counted is finite, its number natural.
LEMMA OfMinuteFinite ==
    ASSUME NEW k, NEW m
    PROVE  IsFiniteSet(OfMinute(k, m)) /\ Cardinality(OfMinute(k, m)) \in Nat
<1>1. OfMinute(k, m) \in SUBSET Request
  BY DEF OfMinute
<1>2. QED
  BY <1>1, WindowOk, FS_Subset, FS_CardinalityType

LEMMA LimiterInitially ==
    ASSUME Limiter!Init
    PROVE  LimiterInv
<1>0. /\ key \in [Request -> Key] /\ turn = [r \in Request |-> 0]
      /\ CountedAt = [r \in Request |-> None] /\ Answered = [r \in Request |-> "none"]
  BY DEF Limiter!Init, CountedAt, Answered
<1>1. LimiterTypes
  BY <1>0 DEF LimiterTypes
<1>2. \A k \in Key, m \in Minutes : OfMinute(k, m) = {}
  BY <1>0, WindowOk DEF OfMinute
<1>3. Turns
  BY <1>2 DEF Turns
<1>4. AdmittedInTurn
  BY <1>0 DEF AdmittedInTurn
<1>5. QED
  BY <1>1, <1>3, <1>4 DEF LimiterInv

\* Counting a request adds it to its key and minute and to no other.
LEMMA CountAdds ==
    ASSUME LimiterTypes, NEW r \in Request, NEW m \in Minutes, Limiter!Count(r, m),
           NEW k \in Key, NEW x \in Minutes
    PROVE  /\ r \notin OfMinute(k, x)
           /\ OfMinute(k, x)' = IF k = key[r] /\ x = m THEN OfMinute(k, x) \cup {r}
                                ELSE OfMinute(k, x)
<1>1. CountedAt[r] = None /\ key' = key /\ CountedAt' = [CountedAt EXCEPT ![r] = m]
  BY LimiterCounts
<1>2. \A q \in Request : CountedAt'[q] = IF q = r THEN m ELSE CountedAt[q]
  BY <1>1 DEF LimiterTypes
<1>3. QED
  BY <1>1, <1>2, WindowOk DEF OfMinute

LEMMA CountPreserves ==
    ASSUME LimiterInv, NEW r \in Request, NEW m \in Minutes, Limiter!Count(r, m)
    PROVE  LimiterInv'
<1> DEFINE n == Cardinality(OfMinute(key[r], m)) + 1
<1>1. n \in Nat
  BY OfMinuteFinite
<1>2. /\ turn' = [turn EXCEPT ![r] = n]
      /\ CountedAt' = [CountedAt EXCEPT ![r] = m] /\ CountedAt[r] = None
      /\ key' = key
  BY LimiterCounts
<1>3. PICK a \in {"none", Limiter!Verdict(r, n), "open", "gone"} : Answered' = [Answered EXCEPT ![r] = a]
  BY LimiterCounts
<1>4. a \in Limiter!Answers \cup {"none"} /\ (a = "admitted" => n <= Rpm[key[r]])
  BY <1>3 DEF Limiter!Verdict, Limiter!Answers
<1> HIDE DEF n
<1>5. LimiterTypes'
  BY <1>1, <1>2, <1>3, <1>4 DEF LimiterInv, LimiterTypes
<1>6. Turns'
  <2> SUFFICES ASSUME NEW k \in Key, NEW x \in Minutes
               PROVE  /\ \A q \in OfMinute(k, x)' : turn'[q] \in 1..Cardinality(OfMinute(k, x)')
                      /\ \A p, q \in OfMinute(k, x)' : turn'[p] = turn'[q] => p = q
    BY DEF Turns
  <2>1. /\ \A q \in OfMinute(k, x) : q \in Request /\ turn[q] \in 1..Cardinality(OfMinute(k, x))
        /\ \A p, q \in OfMinute(k, x) : turn[p] = turn[q] => p = q
    BY DEF LimiterInv, Turns, OfMinute
  <2>2. Cardinality(OfMinute(k, x)) \in Nat /\ IsFiniteSet(OfMinute(k, x))
    BY OfMinuteFinite
  <2>3. r \in DOMAIN turn /\ \A q \in Request : q # r => turn'[q] = turn[q]
    BY <1>2 DEF LimiterInv, LimiterTypes
  <2>4. CASE k = key[r] /\ x = m
    <3>1. OfMinute(k, x)' = OfMinute(k, x) \cup {r} /\ r \notin OfMinute(k, x)
      BY <2>4, CountAdds DEF LimiterInv
    <3>2. Cardinality(OfMinute(k, x)') = n /\ n = Cardinality(OfMinute(k, x)) + 1
      BY <2>2, <2>4, <3>1, FS_AddElement DEF n
    <3>3. turn'[r] = n
      BY <1>2, <2>3
    <3>4. \A q \in OfMinute(k, x) : turn'[q] = turn[q] /\ turn'[q] \in 1..n - 1
      BY <2>1, <2>2, <2>3, <3>1, <3>2
    <3>5. QED
      <4> DEFINE C == OfMinute(k, x)
      <4>1. \A q \in C \cup {r} : turn'[q] \in 1..n
        BY <1>1, <2>2, <3>2, <3>3, <3>4
      <4>2. \A q \in C : turn'[q] # turn'[r]
        BY <1>1, <3>3, <3>4
      <4>3. \A p, q \in C : turn'[p] = turn'[q] => p = q
        BY <2>1, <3>4
      <4> HIDE DEF C
      <4>4. \A p, q \in C \cup {r} : turn'[p] = turn'[q] => p = q
        BY <4>2, <4>3
      <4>5. OfMinute(k, x)' = C \cup {r}
        BY <3>1 DEF C
      <4>6. QED
        BY <3>2, <4>1, <4>4, <4>5
  <2>5. CASE k # key[r] \/ x # m
    <3>1. OfMinute(k, x)' = OfMinute(k, x)
      BY <2>5, CountAdds DEF LimiterInv
    <3>2. r \notin OfMinute(k, x)
      BY <1>2, WindowOk DEF OfMinute
    <3>3. QED
      BY <2>1, <2>3, <3>1, <3>2
  <2>6. QED
    BY <2>4, <2>5
<1>7. AdmittedInTurn'
  BY <1>1, <1>2, <1>3, <1>4 DEF LimiterInv, LimiterTypes, AdmittedInTurn
<1>8. QED
  BY <1>5, <1>6, <1>7 DEF LimiterInv

LEMMA AnswerPreserves ==
    ASSUME LimiterInv, NEW r \in Request, Limiter!Answer(r)
    PROVE  LimiterInv'
<1>1. key' = key /\ CountedAt' = CountedAt /\ turn' = turn
  BY LimiterAnswers
<1>2. PICK a : /\ Answered' = [Answered EXCEPT ![r] = a]
               /\ a \in Limiter!Answers
               /\ a = "admitted" => CountedAt[r] # None /\ turn[r] <= Rpm[key[r]]
  BY LimiterAnswers DEF Limiter!Verdict, Limiter!Answers
<1>3. LimiterTypes'
  BY <1>1, <1>2 DEF LimiterInv, LimiterTypes
<1>4. Turns'
  BY <1>1 DEF LimiterInv, Turns, OfMinute
<1>5. AdmittedInTurn'
  BY <1>1, <1>2 DEF LimiterInv, LimiterTypes, AdmittedInTurn
<1>6. QED
  BY <1>3, <1>4, <1>5 DEF LimiterInv

LEMMA LimiterInvariance == Limiter!Spec => []LimiterInv
<1>1. Limiter!Init => LimiterInv
  BY LimiterInitially
<1>2. LimiterInv /\ [Limiter!Next]_(Limiter!vars) => LimiterInv'
  <2> SUFFICES ASSUME LimiterInv, [Limiter!Next]_(Limiter!vars) PROVE LimiterInv'
    OBVIOUS
  <2>1. CASE Limiter!Next
    BY <2>1, CountPreserves, AnswerPreserves DEF Limiter!Next
  <2>2. CASE UNCHANGED Limiter!vars
    <3>1. key' = key /\ turn' = turn /\ CountedAt' = CountedAt /\ Answered' = Answered
      BY <2>2 DEF Limiter!vars, CountedAt, Answered
    <3>2. QED
      BY <3>1 DEF LimiterInv, LimiterTypes, Turns, OfMinute, AdmittedInTurn
  <2>3. QED
    BY <2>1, <2>2
<1>3. QED
  BY <1>1, <1>2, PTL DEF Limiter!Spec

\* However many gateways count, they admit no more requests of a key in a minute than
\* its limit allows, but for those whose count did not come back
\* (auth.rs:70-92, cache.rs:50-60).
THEOREM GatewaysKeepLimit == Spec => []WithinLimit
<1>1. LimiterInv => WithinLimit
  <2> SUFFICES ASSUME LimiterInv, NEW k \in Key, NEW m \in Minutes
               PROVE  Cardinality({r \in OfMinute(k, m) : Answered[r] = "admitted"}) <= Rpm[k]
    BY SameCount DEF WithinLimit, Limiter!WithinLimit, Limiter!Counted, OfMinute, CountedAt, Answered
  <2> DEFINE A == {r \in OfMinute(k, m) : Answered[r] = "admitted"}
             f == [r \in A |-> turn[r]]
  <2>1. \A r \in A : turn[r] \in 1..Rpm[k]
    <3>1. \A r \in A : turn[r] \in 1..Cardinality(OfMinute(k, m))
      BY DEF LimiterInv, Turns
    <3>2. \A r \in A : r \in Request /\ turn[r] <= Rpm[k]
      BY DEF LimiterInv, AdmittedInTurn, OfMinute
    <3>3. Rpm[k] \in Nat /\ Cardinality(OfMinute(k, m)) \in Nat
      BY WindowOk, OfMinuteFinite
    <3>4. QED
      BY <3>1, <3>2, <3>3
  <2>2. \A r, q \in A : turn[r] = turn[q] => r = q
    BY DEF LimiterInv, Turns
  <2>3. f \in Injection(A, 1..Rpm[k])
    BY <2>1, <2>2 DEF Injection, IsInjective
  <2>4. Rpm[k] \in Nat
    BY WindowOk
  <2>5. IsFiniteSet(1..Rpm[k]) /\ Cardinality(1..Rpm[k]) = Rpm[k]
    BY <2>4, FS_Interval
  <2>6. QED
    BY <2>3, <2>5, FS_Injection
<1>2. QED
  BY LimiterImplemented, LimiterInvariance, <1>1, PTL DEF ImplementsLimiter
=============================================================================
