------------------------- MODULE NodeRegistryProofs -------------------------
(***************************************************************************)
(* Proofs of the safety properties of NodeRegistry, for any number of      *)
(* nodes and gateway instances, any thresholds and any number of errors.   *)
(***************************************************************************)
EXTENDS NodeRegistry, FiniteSetTheorems, TLAPS

\* What a prober may hold: nothing, or a node that is registered and what is known
\* of it.
Held(i) ==
    {Idle} \cup [step : {"insert", "apply"}, node : Registered(i), success : BOOLEAN]
           \cup [step : {"count"}, node : Registered(i)]
           \cup [step : {"update"}, node : Registered(i), to : Status]

\* f has a value for each instance.
Total(f) == f = [i \in Instance |-> f[i]]

\* Without a database one instance runs, and only it has a list.  A prober that has
\* not begun holds nothing.
Basic ==
    /\ TypeOK
    /\ running # {} /\ Total(prober)
    /\ ~database => /\ \A i, j \in running : i = j
                    /\ \A i \in Instance \ running, n \in Node : list[i][n] = "absent"
    /\ \A i \in Instance :
          /\ prober[i].step \in {"insert", "count", "update"} => database
          /\ prober[i].step = "apply" => ~database
          /\ i \in probing => targets[i] = {} /\ prober[i] = Idle

-----------------------------------------------------------------------------
LEMMA Numbers ==
    /\ DegradedAfter \in Nat /\ OfflineAfter \in Nat /\ StaleAfter \in Nat /\ MaxErrors \in Nat
    /\ 1 <= DegradedAfter /\ DegradedAfter + 1 <= OfflineAfter /\ 1 <= StaleAfter
  BY Thresholds, ErrorAssumption

LEMMA Capped ==
    ASSUME NEW bound \in Nat, NEW n \in Nat
    PROVE  UpTo(bound, n) \in 0..bound /\ UpTo(bound, n) <= n
  BY DEF UpTo

LEMMA TypesAre ==
    ASSUME Basic
    PROVE  /\ running \subseteq Instance /\ probing \subseteq running
           /\ table \in [Node -> Status \cup {"absent"}]
           /\ list \in [Instance -> [Node -> Status \cup {"absent"}]]
           /\ streak \in [Node -> 0..OfflineAfter]
           /\ fails \in [Instance -> [Node -> 0..OfflineAfter]]
           /\ current \in [Instance -> [Node -> BOOLEAN]]
           /\ age \in [Instance -> [Node -> 0..StaleAfter + 1]]
           /\ silent \in [Node -> 0..DegradedAfter + 1]
           /\ flawed \subseteq Node /\ errors \in 0..MaxErrors
           /\ targets \in [Instance -> SUBSET Node]
           /\ Total(targets)
           /\ \A i \in Instance : targets[i] \subseteq Registered(i) /\ prober[i] \in Held(i)
           /\ ~database => /\ \A i, j \in running : i = j
                           /\ \A i \in Instance \ running, n \in Node : list[i][n] = "absent"
           /\ Total(prober)
  BY DEF Basic, TypeOK, Held, Total

LEMMA Replaced ==
    ASSUME NEW f, Total(f), NEW i \in Instance, NEW v, NEW g, g = [f EXCEPT ![i] = v]
    PROVE  Total(g) /\ g[i] = v /\ \A j \in Instance : j # i => g[j] = f[j]
  BY DEF Total

LEMMA ProberIs ==
    ASSUME TypeOK, NEW i \in Instance
    PROVE  /\ prober[i].step \in {"idle", "insert", "apply", "count", "update"}
           /\ prober[i].step = "idle" <=> prober[i] = Idle
           /\ prober[i].step # "idle" => prober[i].node \in Registered(i)
           /\ prober[i].step \in {"insert", "apply"} => prober[i].success \in BOOLEAN
           /\ prober[i].step = "update" => prober[i].to \in Status
  BY DEF TypeOK, Idle

\* A node that is registered stays so, and what a prober holds stays in order.
LEMMA Grows ==
    ASSUME UNCHANGED database, NEW i \in Instance,
           \A n \in Node : Seen(i, n) # "absent" => Seen(i, n)' # "absent"
    PROVE  Registered(i) \subseteq Registered(i)' /\ Held(i) \subseteq Held(i)'
<1>1. Registered(i) \subseteq Registered(i)'
  BY DEF Registered
<1>2. QED
  BY <1>1 DEF Held

LEMMA StatusIs == \A c \in Nat : StatusFor(c) \in Status
  BY DEF StatusFor, Status

LEMMA SweptIs ==
    ASSUME TypeOK, NEW i \in Instance
    PROVE  /\ Swept(i) \in [Node -> Status \cup {"absent"}]
           /\ \A n \in Node : Swept(i)[n] = "absent" <=> Seen(i, n) = "absent"
  BY DEF TypeOK, Swept, Seen, Status, Registered

\* What a step that leaves the probers alone must show for Basic.
LEMMA ProbersKept ==
    ASSUME Basic, UNCHANGED <<mode, targets, prober>>,
           probing' \subseteq running,
           \A i \in Instance : i \in probing' => targets[i] = {} /\ prober[i] = Idle,
           table' \in [Node -> Status \cup {"absent"}],
           list' \in [Instance -> [Node -> Status \cup {"absent"}]],
           \A n \in Node : table[n] # "absent" => table'[n] # "absent",
           \A i \in Instance, n \in Node : list[i][n] # "absent" => list'[i][n] # "absent",
           ~database => \A i \in Instance \ running, n \in Node : list'[i][n] = "absent",
           streak' \in [Node -> 0..OfflineAfter],
           fails' \in [Instance -> [Node -> 0..OfflineAfter]],
           current' \in [Instance -> [Node -> BOOLEAN]],
           age' \in [Instance -> [Node -> 0..StaleAfter + 1]],
           beating' \subseteq Node, sweeping' \subseteq running,
           errors' \in 0..MaxErrors, silent' \in [Node -> 0..DegradedAfter + 1],
           flawed' \subseteq Node
    PROVE  Basic'
<1>1. UNCHANGED <<database, running>>
  BY DEF mode
<1>2. \A i \in Instance : targets[i] \subseteq Registered(i) /\ prober[i] \in Held(i)
  BY DEF Basic, TypeOK, Held
<1>3. \A i \in Instance : targets[i] \subseteq Registered(i)' /\ prober[i] \in Held(i)'
  BY <1>1, <1>2, Grows DEF Seen
<1>4. TypeOK'
  BY <1>1, <1>3 DEF Basic, TypeOK, Held
<1>5. QED
  BY <1>1, <1>4 DEF Basic

LEMMA Initially == Init => Basic
<1> SUFFICES ASSUME Init PROVE Basic
  OBVIOUS
<1>1. TypeOK
  BY Numbers DEF Init, TypeOK, Each, Registered, Seen, Idle
<1>2. ~database => \A i, j \in running : i = j
  <2>1. IsFiniteSet(running)
    BY NodeAssumption, FS_Subset DEF Init
  <2>2. QED
    BY <2>1, FS_Singleton DEF Init
<1>3. QED
  BY <1>1, <1>2 DEF Init, Basic, Each, Idle, Total

\* The steps that are not a prober's.
LEMMA OthersKeepBasic ==
    ASSUME Basic,
           \/ \E n \in Node : Register(n) \/ NoHeartbeat(n) \/ \E i \in Instance : RegisterInMemory(n, i)
           \/ \E i \in Instance : Sweep(i) \/ SweepFails(i) \/ CollectFails(i)
           \/ NewRound
           \/ UNCHANGED vars
    PROVE  Basic'
<1> USE DEF mode, shared, memory, clock, ghosts
<1>1. ASSUME NEW n \in Node, Register(n) PROVE Basic'
  BY <1>1, Numbers, ProbersKept DEF Register, Basic, TypeOK, Status
<1>2. ASSUME NEW n \in Node, NoHeartbeat(n) PROVE Basic'
  BY <1>2, ProbersKept DEF NoHeartbeat, Basic, TypeOK
<1>3. ASSUME NEW n \in Node, NEW i \in Instance, RegisterInMemory(n, i) PROVE Basic'
  <2>1. /\ i \in running /\ beating' = beating \ {n}
        /\ list' = [list EXCEPT ![i][n] = "online"] /\ silent' = [silent EXCEPT ![n] = 0]
        /\ UNCHANGED <<mode, shared, sweeping, probing, targets, prober>>
    BY <1>3 DEF RegisterInMemory
  <2>2. /\ fails' \in [Instance -> [Node -> 0..OfflineAfter]]
        /\ current' \in [Instance -> [Node -> BOOLEAN]]
        /\ age' \in [Instance -> [Node -> 0..StaleAfter + 1]]
        /\ errors' \in 0..MaxErrors /\ flawed' \subseteq Node
    <3>0. 0 \in 0..OfflineAfter /\ 0 \in 0..StaleAfter + 1
      BY Numbers
    <3>1. CASE database
      BY <1>3, <3>1, Numbers DEF RegisterInMemory, Error, Basic, TypeOK
    <3>2. CASE ~database
      <4>1. /\ fails' = [fails EXCEPT ![i][n] = 0] /\ current' = [current EXCEPT ![i][n] = FALSE]
            /\ age' = [age EXCEPT ![i][n] = 0] /\ UNCHANGED <<errors, flawed>>
        BY <1>3, <3>2 DEF RegisterInMemory
      <4>2. fails' \in [Instance -> [Node -> 0..OfflineAfter]]
        BY <3>0, <4>1 DEF Basic, TypeOK
      <4>3. current' \in [Instance -> [Node -> BOOLEAN]]
        BY <4>1 DEF Basic, TypeOK
      <4>4. age' \in [Instance -> [Node -> 0..StaleAfter + 1]]
        BY <3>0, <4>1 DEF Basic, TypeOK
      <4>5. QED
        BY <4>1, <4>2, <4>3, <4>4 DEF Basic, TypeOK
    <3>3. QED
      BY <3>1, <3>2
  <2>3. /\ list' \in [Instance -> [Node -> Status \cup {"absent"}]]
        /\ \A j \in Instance, m \in Node : list[j][m] # "absent" => list'[j][m] # "absent"
        /\ \A j \in Instance, m \in Node : j # i => list'[j][m] = list[j][m]
    BY <2>1 DEF Basic, TypeOK, Status
  <2>4. silent' \in [Node -> 0..DegradedAfter + 1]
    BY <2>1, Numbers DEF Basic, TypeOK
  <2>5. QED
    BY <2>1, <2>2, <2>3, <2>4, ProbersKept DEF Basic, TypeOK
<1>4. ASSUME NEW i \in Instance, Sweep(i) \/ SweepFails(i) PROVE Basic'
  <2>1. age' \in [Instance -> [Node -> 0..StaleAfter + 1]]
    <3>1. ASSUME NEW n \in Node PROVE UpTo(StaleAfter + 1, age[i][n] + 1) \in 0..StaleAfter + 1
      <4>1. StaleAfter + 1 \in Nat /\ age[i][n] + 1 \in Nat
        BY Numbers DEF Basic, TypeOK
      <4>2. QED
        BY <4>1, Capped
    <3>2. age' = [age EXCEPT ![i] = [n \in Node |-> UpTo(StaleAfter + 1, age[i][n] + 1)]]
      BY <1>4 DEF Sweep, SweepFails, Older, Basic, TypeOK
    <3>3. QED
      BY <3>1, <3>2 DEF Basic, TypeOK
  <2>2. /\ Swept(i) \in [Node -> Status \cup {"absent"}]
        /\ \A n \in Node : Swept(i)[n] = "absent" <=> Seen(i, n) = "absent"
    BY SweptIs DEF Basic
  <2>3. CASE Sweep(i) /\ database
    BY <2>1, <2>2, <2>3, ProbersKept DEF Sweep, Basic, TypeOK, Seen
  <2>4. CASE Sweep(i) /\ ~database
    <3>1. /\ list' = [list EXCEPT ![i] = Swept(i)] /\ sweeping' = sweeping \ {i} /\ i \in running
          /\ UNCHANGED <<mode, table, streak, fails, current, beating, probing, targets, prober,
                         errors, silent, flawed>>
      BY <2>4 DEF Sweep, Basic, TypeOK
    <3>2. /\ list' \in [Instance -> [Node -> Status \cup {"absent"}]]
          /\ \A j \in Instance, m \in Node : list[j][m] # "absent" => list'[j][m] # "absent"
          /\ \A j \in Instance, m \in Node : j # i => list'[j][m] = list[j][m]
      BY <2>2, <2>4, <3>1 DEF Basic, TypeOK, Seen
    <3>3. QED
      BY <2>1, <3>1, <3>2, ProbersKept DEF Basic, TypeOK
  <2>5. CASE SweepFails(i)
    BY <2>1, <2>5, Numbers, ProbersKept DEF SweepFails, Error, Basic, TypeOK
  <2>6. QED
    BY <1>4, <2>3, <2>4, <2>5
<1>5. ASSUME NEW i \in Instance, CollectFails(i) PROVE Basic'
  BY <1>5, Numbers, ProbersKept DEF CollectFails, Error, Basic, TypeOK
<1>6. ASSUME NewRound PROVE Basic'
  <2>1. ASSUME NEW n \in Node PROVE UpTo(DegradedAfter + 1, silent[n] + 1) \in 0..DegradedAfter + 1
    <3>1. DegradedAfter + 1 \in Nat /\ silent[n] + 1 \in Nat
      BY Numbers DEF Basic, TypeOK
    <3>2. QED
      BY <3>1, Capped
  <2>2. silent' \in [Node -> 0..DegradedAfter + 1]
    BY <1>6, <2>1 DEF NewRound
  <2>3. QED
    BY <1>6, <2>2, ProbersKept DEF NewRound, RoundOver, Basic, TypeOK
<1>7. ASSUME UNCHANGED vars PROVE Basic'
  BY <1>7, ProbersKept DEF vars, Basic, TypeOK
<1>8. QED
  BY <1>1, <1>2, <1>3, <1>4, <1>5, <1>6, <1>7

-----------------------------------------------------------------------------
\* What a step of the prober of i changes, as far as Basic goes.
Moved(i) ==
    /\ UNCHANGED <<database, running, age, beating, sweeping>>
    /\ current' \in [Instance -> [Node -> BOOLEAN]]
    /\ i \notin probing' /\ probing' \subseteq running
    /\ \A j \in Instance : j # i => (j \in probing' <=> j \in probing)
    /\ Total(targets') /\ Total(prober')
    /\ \A j \in Instance : j # i => targets'[j] = targets[j] /\ prober'[j] = prober[j]
    /\ targets'[i] \subseteq Registered(i) /\ prober'[i] \in Held(i)
    /\ prober'[i].step \in {"insert", "count", "update"} => database
    /\ prober'[i].step = "apply" => ~database
    /\ table' \in [Node -> Status \cup {"absent"}]
    /\ list' \in [Instance -> [Node -> Status \cup {"absent"}]]
    /\ \A n \in Node : table[n] # "absent" => table'[n] # "absent"
    /\ \A j \in Instance, n \in Node : list[j][n] # "absent" => list'[j][n] # "absent"
    /\ ~database => \A j \in Instance \ running, n \in Node : list'[j][n] = "absent"
    /\ streak' \in [Node -> 0..OfflineAfter]
    /\ fails' \in [Instance -> [Node -> 0..OfflineAfter]]
    /\ errors' \in 0..MaxErrors /\ silent' \in [Node -> 0..DegradedAfter + 1]
    /\ flawed' \subseteq Node

LEMMA ProberMoved ==
    ASSUME Basic, NEW i \in Instance, Moved(i)
    PROVE  Basic'
<1> USE DEF Moved
<1>1. UNCHANGED <<database, running>>
  OBVIOUS
<1>2. \A j \in Instance : targets[j] \subseteq Registered(j) /\ prober[j] \in Held(j)
  BY DEF Basic, TypeOK, Held
<1>3. targets' \in [Instance -> SUBSET Node]
  <2>1. targets'[i] \in SUBSET Node
    BY DEF Registered
  <2>2. \A j \in Instance : targets'[j] \in SUBSET Node
    BY <2>1 DEF Basic, TypeOK
  <2>3. QED
    BY <2>2 DEF Total
<1>4. \A j \in Instance : targets'[j] \subseteq Registered(j)' /\ prober'[j] \in Held(j)'
  <2>1. \A j \in Instance : Registered(j) \subseteq Registered(j)' /\ Held(j) \subseteq Held(j)'
    BY <1>1, Grows DEF Seen
  <2>2. QED
    BY <1>2, <1>3, <2>1
<1>5. TypeOK'
  BY <1>1, <1>3, <1>4 DEF Basic, TypeOK, Held
<1>6. ASSUME NEW j \in Instance
      PROVE  /\ prober'[j].step \in {"insert", "count", "update"} => database'
             /\ prober'[j].step = "apply" => ~database'
             /\ j \in probing' => targets'[j] = {} /\ prober'[j] = Idle
  <2>1. CASE j = i
    BY <1>1, <2>1
  <2>2. CASE j # i
    BY <1>1, <2>2 DEF Basic
  <2>3. QED
    BY <2>1, <2>2
<1>7. ~database' => /\ \A j, k \in running' : j = k
                    /\ \A j \in Instance \ running', n \in Node : list'[j][n] = "absent"
  BY <1>1 DEF Basic
<1>8. running' # {} /\ Total(prober)'
  BY <1>1 DEF Basic, Total
<1>9. QED
  BY <1>5, <1>6, <1>7, <1>8 DEF Basic

LEMMA CollectKeepsBasic ==
    ASSUME Basic, NEW i \in Instance, CollectTargets(i)
    PROVE  Basic'
<1> USE DEF mode, shared, ghosts
<1>1. /\ i \in probing /\ probing' = probing \ {i}
      /\ targets' = [targets EXCEPT ![i] = Registered(i)]
      /\ UNCHANGED <<database, running, table, streak, list, fails, age, beating, sweeping, prober,
                     errors, silent, flawed>>
  BY DEF CollectTargets
<1>2. prober[i] = Idle /\ Idle \in Held(i)
  BY <1>1 DEF Basic, Held
<1>3. /\ Total(targets') /\ Total(prober')
      /\ \A j \in Instance : j # i => targets'[j] = targets[j] /\ prober'[j] = prober[j]
      /\ targets'[i] = Registered(i) /\ prober'[i] = Idle
  BY <1>1, <1>2, TypesAre, Replaced
<1>4. current' \in [Instance -> [Node -> BOOLEAN]]
  BY DEF CollectTargets, Basic, TypeOK
<1>5. prober'[i] \in Held(i) /\ prober'[i].step = "idle"
  BY <1>2, <1>3 DEF Idle
<1>6. Moved(i)
  BY <1>1, <1>3, <1>4, <1>5, TypesAre DEF Moved
<1>7. QED
  BY <1>6, ProberMoved

LEMMA PingKeepsBasic ==
    ASSUME Basic, NEW i \in Instance, NEW n \in Node, NEW success \in BOOLEAN, Ping(i, n, success)
    PROVE  Basic'
<1> USE DEF mode, shared, memory, clock
<1> DEFINE p == [step |-> IF database THEN "insert" ELSE "apply", node |-> n, success |-> success]
<1>1. /\ n \in targets[i] /\ targets' = [targets EXCEPT ![i] = targets[i] \ {n}]
      /\ prober' = [prober EXCEPT ![i] = p]
      /\ UNCHANGED <<database, running, table, streak, list, fails, current, age, beating, sweeping,
                     probing, errors>>
  BY DEF Ping, Basic, TypeOK
<1>2. p \in Held(i) /\ p.step = IF database THEN "insert" ELSE "apply"
  BY <1>1 DEF Basic, TypeOK, Held
<1>3. i \notin probing /\ targets[i] \ {n} \subseteq Registered(i)
  BY <1>1 DEF Basic, TypeOK
<1>4. silent' \in [Node -> 0..DegradedAfter + 1] /\ flawed' \subseteq Node
  BY Numbers DEF Ping, Basic, TypeOK
<1> HIDE DEF p
<1>5. /\ Total(targets') /\ Total(prober')
      /\ \A j \in Instance : j # i => targets'[j] = targets[j] /\ prober'[j] = prober[j]
      /\ targets'[i] = targets[i] \ {n} /\ prober'[i] = p
  BY <1>1, TypesAre DEF Total
<1>6. Moved(i)
  BY <1>1, <1>2, <1>3, <1>4, <1>5, TypesAre DEF Moved
<1>7. QED
  BY <1>6, ProberMoved

\* The steps that write a result.
LEMMA ResultsKeepBasic ==
    ASSUME Basic, NEW i \in Instance,
           \/ ApplyProbe(i) \/ Record(i) \/ RecordFails(i)
           \/ Count(i) \/ CountFails(i) \/ Update(i) \/ UpdateFails(i)
    PROVE  Basic'
<1> USE DEF mode, shared, memory, clock, ghosts
<1> DEFINE n == prober[i].node
<1>1. /\ prober[i].step # "idle" /\ UNCHANGED <<database, running, age, beating, sweeping, probing, targets, silent, current>>
  BY DEF ApplyProbe, Record, RecordFails, Count, CountFails, Update, UpdateFails
<1>2. /\ i \notin probing /\ Total(targets')
      /\ targets[i] \subseteq Registered(i)
      /\ n \in Registered(i) /\ n \in Node
  <2>1. Total(targets) /\ targets[i] \subseteq Registered(i)
    BY TypesAre
  <2>2. i \notin probing /\ n \in Registered(i)
    BY <1>1, ProberIs DEF Basic, Idle
  <2>3. QED
    BY <1>1, <2>1, <2>2 DEF Registered, Total
<1>3. /\ Idle \in Held(i) /\ Idle.step = "idle"
  BY DEF Held, Idle
<1>b. Total(prober)
  BY TypesAre
<1>a. ASSUME NEW p, prober' = [prober EXCEPT ![i] = p]
      PROVE  /\ Total(prober') /\ prober'[i] = p
             /\ \A j \in Instance : j # i => prober'[j] = prober[j]
  BY <1>a, <1>b DEF Total
<1>4. CASE ApplyProbe(i)
  <2>1. /\ ~database /\ i \in running
    BY <1>2, <1>4 DEF ApplyProbe, Basic, Registered, Seen
  <2> DEFINE consec == IF prober[i].success THEN 0 ELSE UpTo(OfflineAfter, fails[i][n] + 1)
  <2>2. consec \in 0..OfflineAfter
    <3>1. fails[i][n] + 1 \in Nat
      BY <1>2, Numbers DEF Basic, TypeOK
    <3>2. UpTo(OfflineAfter, fails[i][n] + 1) \in 0..OfflineAfter
      BY <3>1, Capped, Numbers
    <3>3. QED
      BY <3>2, Numbers
  <2>3. StatusFor(consec) \in Status
    BY <2>2, StatusIs, Numbers
  <2>4. /\ prober' = [prober EXCEPT ![i] = Idle]
        /\ \/ /\ fails' = [fails EXCEPT ![i][n] = consec]
              /\ list' = [list EXCEPT ![i][n] = StatusFor(consec)]
           \/ UNCHANGED <<fails, list>>
        /\ UNCHANGED <<table, streak, errors, flawed>>
    BY <1>4 DEF ApplyProbe
  <2> HIDE DEF consec, n
  <2>5. /\ fails' \in [Instance -> [Node -> 0..OfflineAfter]]
        /\ list' \in [Instance -> [Node -> Status \cup {"absent"}]]
        /\ \A j \in Instance, m \in Node : list[j][m] # "absent" => list'[j][m] # "absent"
        /\ \A j \in Instance, m \in Node : j # i => list'[j][m] = list[j][m]
    <3>0. /\ list \in [Instance -> [Node -> Status \cup {"absent"}]] /\ n \in Node
          /\ fails \in [Instance -> [Node -> 0..OfflineAfter]]
          /\ StatusFor(consec) \in Status /\ "absent" \notin Status
      BY <1>2, <2>3, TypesAre DEF Status
    <3> HIDE DEF Status
    <3>1. CASE UNCHANGED <<fails, list>>
      BY <3>0, <3>1
    <3>2. CASE /\ fails' = [fails EXCEPT ![i][n] = consec]
               /\ list' = [list EXCEPT ![i][n] = StatusFor(consec)]
      <4>1. fails' \in [Instance -> [Node -> 0..OfflineAfter]]
        BY <2>2, <3>0, <3>2
      <4>2. QED
        BY <3>0, <3>2, <4>1
    <3>3. QED
      BY <2>4, <3>1, <3>2
  <2>6. Moved(i)
    <3>1. ~database => \A j \in Instance \ running, m \in Node : list'[j][m] = "absent"
      BY <2>1, <2>5, TypesAre
    <3>2. \A m \in Node : table[m] # "absent" => table'[m] # "absent"
      BY <2>4
    <3>3. QED
      BY <1>1, <1>2, <1>3, <1>a, <2>4, <2>5, <3>1, <3>2, TypesAre DEF Moved
  <2>7. QED
    BY <2>6, ProberMoved
<1>5. CASE Record(i)
  <2>1. /\ database /\ prober' = [prober EXCEPT ![i] = [step |-> "count", node |-> n]]
        /\ streak' = [streak EXCEPT ![n] = IF prober[i].success THEN 0 ELSE UpTo(OfflineAfter, streak[n] + 1)]
        /\ UNCHANGED <<table, list, fails, errors, flawed>>
    BY <1>2, <1>5 DEF Record, Basic, TypeOK
  <2>2. UpTo(OfflineAfter, streak[n] + 1) \in 0..OfflineAfter
    <3>1. streak[n] + 1 \in Nat
      BY <1>2, Numbers DEF Basic, TypeOK
    <3>2. QED
      BY <3>1, Capped, Numbers
  <2>3. streak' \in [Node -> 0..OfflineAfter]
    BY <1>2, <2>1, <2>2, Numbers, TypesAre
  <2>4. [step |-> "count", node |-> n] \in Held(i) /\ [step |-> "count", node |-> n].step = "count"
    BY <1>2 DEF Held
  <2>5. Moved(i)
    BY <1>1, <1>2, <1>a, <2>1, <2>3, <2>4, TypesAre DEF Moved
  <2>6. QED
    BY <2>5, ProberMoved
<1>6. CASE RecordFails(i) \/ UpdateFails(i)
  <2>1. /\ database /\ prober' = [prober EXCEPT ![i] = Idle]
        /\ errors' \in 0..MaxErrors /\ flawed' \subseteq Node
        /\ UNCHANGED <<table, streak, list, fails>>
    BY <1>2, <1>6, Numbers DEF RecordFails, UpdateFails, Error, Basic, TypeOK
  <2>2. Moved(i)
    BY <1>1, <1>2, <1>3, <1>a, <2>1, TypesAre DEF Moved
  <2>3. QED
    BY <2>2, ProberMoved
<1>7. CASE Count(i) \/ CountFails(i)
  <2>1. /\ database /\ errors' \in 0..MaxErrors /\ flawed' \subseteq Node
        /\ UNCHANGED <<table, streak, list, fails>>
    BY <1>2, <1>7, Numbers DEF Count, CountFails, Error, Basic, TypeOK
  <2>2. StatusFor(0) \in Status /\ StatusFor(streak[n]) \in Status
    <3>1. streak[n] \in Nat
      BY <1>2, Numbers DEF Basic, TypeOK
    <3>2. QED
      BY <3>1, StatusIs
  <2>3. PICK s \in Status : prober' = [prober EXCEPT ![i] = [step |-> "update", node |-> n, to |-> s]]
    BY <1>7, <2>2 DEF Count, CountFails
  <2>4. /\ [step |-> "update", node |-> n, to |-> s] \in Held(i)
        /\ [step |-> "update", node |-> n, to |-> s].step = "update"
    BY <1>2 DEF Held
  <2>5. Moved(i)
    BY <1>1, <1>2, <1>a, <2>1, <2>3, <2>4, TypesAre DEF Moved
  <2>6. QED
    BY <2>5, ProberMoved
<1>8. CASE Update(i)
  <2>1. /\ table' = [table EXCEPT ![n] = prober[i].to] /\ prober[i].to \in Status
        /\ prober' = [prober EXCEPT ![i] = Idle]
        /\ UNCHANGED <<streak, list, fails, errors, flawed>>
    BY <1>8, ProberIs DEF Update, Basic
  <2>2. /\ table' \in [Node -> Status \cup {"absent"}]
        /\ \A m \in Node : table[m] # "absent" => table'[m] # "absent"
    BY <1>2, <2>1 DEF Basic, TypeOK, Status
  <2>3. Moved(i)
    BY <1>1, <1>2, <1>3, <1>a, <2>1, <2>2, TypesAre DEF Moved
  <2>4. QED
    BY <2>3, ProberMoved
<1>9. QED
  BY <1>4, <1>5, <1>6, <1>7, <1>8

LEMMA BasicAlways == Spec => []Basic
<1>1. Basic /\ [Next]_vars => Basic'
  BY OthersKeepBasic, CollectKeepsBasic, PingKeepsBasic, ResultsKeepBasic DEF Next
<1>2. QED
  BY <1>1, Initially, PTL DEF Spec

\* Every status is one of the four, every count within its bound, and what a prober
\* holds or has still to ping is registered (health_monitor.rs:35-95).
THEOREM TypeCorrect == Spec => []TypeOK
<1>1. Basic => TypeOK
  BY DEF Basic
<1>2. QED
  BY <1>1, BasicAlways, PTL

-----------------------------------------------------------------------------
LEMMA AlarmsCheck ==
    ASSUME Basic, NoFalseAlarm, [Next]_vars
    PROVE  NoFalseAlarm'
<1> USE DEF mode, shared, memory, clock, ghosts
<1>0. UNCHANGED database
  BY DEF Next, vars, Register, NoHeartbeat, RegisterInMemory, Sweep, SweepFails, CollectTargets,
         CollectFails, Ping, ApplyProbe, Record, RecordFails, Count, CountFails, Update, UpdateFails,
         NewRound
<1> SUFFICES ASSUME ~database, NEW i \in Instance, NEW n \in Node
             PROVE  /\ list'[i][n] = "degraded" => fails'[i][n] \in DegradedAfter..OfflineAfter - 1
                    /\ list'[i][n] = "offline" => age'[i][n] > StaleAfter \/ fails'[i][n] = OfflineAfter
  BY <1>0 DEF NoFalseAlarm
<1>1. /\ list[i][n] = "degraded" => fails[i][n] \in DegradedAfter..OfflineAfter - 1
      /\ list[i][n] = "offline" => age[i][n] > StaleAfter \/ fails[i][n] = OfflineAfter
  BY DEF NoFalseAlarm
<1>2. CASE UNCHANGED <<list, fails, age>>
  BY <1>1, <1>2
<1>3. ASSUME NEW m \in Node, NEW j \in Instance, RegisterInMemory(m, j)
      PROVE  \/ list'[i][n] = "online"
             \/ list'[i][n] = list[i][n] /\ fails'[i][n] = fails[i][n] /\ age'[i][n] = age[i][n]
  BY <1>3, TypesAre DEF RegisterInMemory
<1>4. ASSUME NEW j \in Instance, Sweep(j)
      PROVE  /\ list'[i][n] = "degraded" => fails'[i][n] \in DegradedAfter..OfflineAfter - 1
             /\ list'[i][n] = "offline" => age'[i][n] > StaleAfter \/ fails'[i][n] = OfflineAfter
  <2>1. /\ list' = [list EXCEPT ![j] = Swept(j)] /\ UNCHANGED fails
        /\ age' = [age EXCEPT ![j] = [m \in Node |-> UpTo(StaleAfter + 1, age[j][m] + 1)]]
    BY <1>4, TypesAre DEF Sweep, Older
  <2>2. CASE j # i
    BY <1>1, <2>1, <2>2, TypesAre
  <2>3. CASE j = i
    <3>1. list'[i][n] = list[i][n] \/ (age[i][n] >= StaleAfter /\ list'[i][n] = "offline")
      BY <2>1, <2>3, TypesAre DEF Swept, Seen
    <3>2. age'[i][n] = UpTo(StaleAfter + 1, age[i][n] + 1)
      BY <2>1, <2>3, TypesAre
    <3>3. age[i][n] \in Nat /\ age[i][n] <= StaleAfter + 1
      BY Numbers, TypesAre
    <3>4. age[i][n] >= StaleAfter => age'[i][n] > StaleAfter
      BY <3>2, <3>3, Numbers DEF UpTo
    <3>5. age[i][n] > StaleAfter => age'[i][n] > StaleAfter
      BY <3>3, <3>4, Numbers
    <3>6. QED
      BY <1>1, <2>1, <3>1, <3>4, <3>5
  <2>4. QED
    BY <2>2, <2>3
<1>5. ASSUME NEW j \in Instance, ApplyProbe(j)
      PROVE  /\ list'[i][n] = "degraded" => fails'[i][n] \in DegradedAfter..OfflineAfter - 1
             /\ list'[i][n] = "offline" => age'[i][n] > StaleAfter \/ fails'[i][n] = OfflineAfter
  <2> DEFINE m == prober[j].node
             consec == IF prober[j].success THEN 0 ELSE UpTo(OfflineAfter, fails[j][m] + 1)
  <2>1. m \in Node
    BY <1>5, ProberIs DEF ApplyProbe, Basic, Registered
  <2>2. consec \in 0..OfflineAfter
    <3>1. fails[j][m] + 1 \in Nat
      BY <2>1, Numbers, TypesAre
    <3>2. UpTo(OfflineAfter, fails[j][m] + 1) \in 0..OfflineAfter
      BY <3>1, Capped, Numbers
    <3>3. QED
      BY <3>2, Numbers
  <2>3. /\ UNCHANGED age
        /\ \/ fails' = [fails EXCEPT ![j][m] = consec] /\ list' = [list EXCEPT ![j][m] = StatusFor(consec)]
           \/ UNCHANGED <<fails, list>>
    BY <1>5 DEF ApplyProbe
  <2> HIDE DEF m, consec
  <2>4. CASE i = j /\ n = m /\ fails' = [fails EXCEPT ![j][m] = consec]
                   /\ list' = [list EXCEPT ![j][m] = StatusFor(consec)]
    <3>1. list'[i][n] = StatusFor(consec) /\ fails'[i][n] = consec
      BY <2>4, TypesAre
    <3>2. QED
      BY <2>2, <3>1, Numbers DEF StatusFor
  <2>5. CASE (i # j \/ n # m) /\ fails' = [fails EXCEPT ![j][m] = consec]
                   /\ list' = [list EXCEPT ![j][m] = StatusFor(consec)]
    <3>1. list'[i][n] = list[i][n] /\ fails'[i][n] = fails[i][n]
      BY <2>1, <2>5, TypesAre
    <3>2. QED
      BY <1>1, <2>3, <3>1
  <2>6. QED
    BY <1>1, <2>3, <2>4, <2>5
<1>6. QED
  BY <1>1, <1>2, <1>3, <1>4, <1>5
     DEF Next, vars, Register, NoHeartbeat, SweepFails, CollectTargets, Error,
         CollectFails, Ping, Record, RecordFails, Count, CountFails, Update, UpdateFails, NewRound

\* Without a database no node is taken out of routing without the evidence the code
\* asks for (stale_nodes.rs:40-41, health_monitor.rs:146-152).
THEOREM AlarmsAreFounded == Spec => []NoFalseAlarm
<1>1. Init => NoFalseAlarm
  BY DEF Init, NoFalseAlarm, Each
<1>2. Basic /\ NoFalseAlarm /\ [Next]_vars => NoFalseAlarm'
  BY AlarmsCheck
<1>3. QED
  BY <1>1, <1>2, BasicAlways, PTL DEF Spec

-----------------------------------------------------------------------------
\* A node whose heartbeat of this round has come is online, and a sweep still to come
\* finds it fresh.
Beaten(n) == \A i \in running : Seen(i, n) = "online" /\ (i \in sweeping => age[i][n] = 0)

\* The prober of i holds an answer, or what follows from one.
Answered(i) ==
    /\ prober[i].step \in {"insert", "apply"} => prober[i].success
    /\ prober[i].step = "count" => streak[prober[i].node] = 0
    /\ prober[i].step = "update" => prober[i].to = "online"

Healthy ==
    /\ \A n \in Node \ (beating \cup flawed) : Beaten(n)
    /\ \A i \in Instance : prober[i].step # "idle" /\ prober[i].node \notin flawed => Answered(i)

LEMMA NothingIsOnline == StatusFor(0) = "online"
  BY Numbers DEF StatusFor

\* A step that leaves probers and node_health alone keeps the second part.
LEMMA AnswersStay ==
    ASSUME Healthy, UNCHANGED <<prober, streak>>, flawed \subseteq flawed', NEW i \in Instance,
           prober'[i].step # "idle", prober'[i].node \notin flawed'
    PROVE  Answered(i)'
  BY DEF Healthy, Answered

\* A step that changes no status, age or round keeps the first part.
LEMMA BeatenStay ==
    ASSUME Healthy, UNCHANGED <<database, running, table, list, age>>, sweeping' \subseteq sweeping,
           flawed \subseteq flawed',
           NEW n \in Node, n \notin beating', n \notin flawed', n \notin beating
    PROVE  Beaten(n)'
  BY DEF Healthy, Beaten, Seen

LEMMA BeatersKeep ==
    ASSUME Basic, Healthy,
           \E m \in Node : Register(m) \/ NoHeartbeat(m) \/ \E i \in Instance : RegisterInMemory(m, i)
    PROVE  Healthy'
<1> USE DEF mode, shared, memory, clock, ghosts
<1>1. PICK m \in Node : Register(m) \/ NoHeartbeat(m) \/ \E i \in Instance : RegisterInMemory(m, i)
  OBVIOUS
<1>2. /\ beating' = beating \ {m} /\ flawed \subseteq flawed'
      /\ UNCHANGED <<database, running, prober, streak, sweeping>>
  BY <1>1 DEF Register, NoHeartbeat, RegisterInMemory, Error
<1>3. ASSUME NEW n \in Node, n \notin beating', n \notin flawed' PROVE Beaten(n)'
  <2>1. CASE Register(m)
    <3>1. /\ database /\ table' = [table EXCEPT ![m] = "online"]
          /\ age' = [i \in Instance |-> [age[i] EXCEPT ![m] = 0]]
      BY <2>1 DEF Register
    <3>2. n # m => Beaten(n)
      BY <1>2, <1>3 DEF Healthy
    <3>3. /\ table'[n] = (IF n = m THEN "online" ELSE table[n])
          /\ \A i \in Instance : age'[i][n] = (IF n = m THEN 0 ELSE age[i][n])
      BY <3>1, TypesAre
    <3>4. running \subseteq Instance
      BY TypesAre
    <3>5. QED
      BY <1>2, <3>1, <3>2, <3>3, <3>4 DEF Beaten, Seen
  <2>2. CASE NoHeartbeat(m)
    BY <1>2, <1>3, <2>2, BeatenStay DEF NoHeartbeat
  <2>3. ASSUME NEW i \in Instance, RegisterInMemory(m, i) PROVE Beaten(n)'
    <3>1. CASE database
      <4>1. n # m /\ n \notin flawed /\ n \notin beating /\ UNCHANGED <<table, age>>
        BY <1>2, <1>3, <2>3, <3>1 DEF RegisterInMemory, Error
      <4>2. Beaten(n)
        BY <4>1 DEF Healthy
      <4>3. QED
        BY <1>2, <3>1, <4>1, <4>2 DEF Beaten, Seen
    <3>2. CASE ~database
      <4>1. /\ i \in running /\ list' = [list EXCEPT ![i][m] = "online"]
            /\ age' = [age EXCEPT ![i][m] = 0]
        BY <2>3, <3>2 DEF RegisterInMemory
      <4>2. running = {i}
        BY <3>2, <4>1, TypesAre
      <4>3. n # m => Beaten(n)
        BY <1>2, <1>3 DEF Healthy
      <4>4. /\ list'[i][n] = (IF n = m THEN "online" ELSE list[i][n])
            /\ age'[i][n] = (IF n = m THEN 0 ELSE age[i][n])
        BY <4>1, TypesAre
      <4>5. QED
        BY <1>2, <3>2, <4>2, <4>3, <4>4 DEF Beaten, Seen
    <3>3. QED
      BY <3>1, <3>2
  <2>4. QED
    BY <1>1, <2>1, <2>2, <2>3
<1>4. QED
  BY <1>2, <1>3, AnswersStay DEF Healthy

LEMMA SweepsKeep ==
    ASSUME Basic, Healthy, NEW i \in Instance, Sweep(i) \/ SweepFails(i)
    PROVE  Healthy'
<1> USE DEF mode, shared, memory, clock, ghosts
<1>1. /\ i \in sweeping /\ sweeping' = sweeping \ {i} /\ flawed \subseteq flawed'
      /\ UNCHANGED <<database, running, beating, prober, streak>>
      /\ age' = [age EXCEPT ![i] = [m \in Node |-> UpTo(StaleAfter + 1, age[i][m] + 1)]]
  BY TypesAre DEF Sweep, SweepFails, Older, Error
<1>2. ASSUME NEW n \in Node, n \notin beating', n \notin flawed' PROVE Beaten(n)'
  <2>1. Beaten(n) /\ i \in running
    BY <1>1, <1>2 DEF Healthy, Basic, TypeOK
  <2>2. CASE SweepFails(i)
    <3>1. FALSE
      BY <1>2, <2>2 DEF SweepFails, Error
    <3>2. QED
      BY <3>1
  <2>3. CASE Sweep(i)
    <3>1. Swept(i)[n] = "online"
      BY <1>1, <2>1, Numbers DEF Swept, Beaten
    <3>2. /\ \A j \in Instance : j # i => age'[j] = age[j]
          /\ IF database THEN table'[n] = "online"
                         ELSE list'[i][n] = "online" /\ \A j \in Instance : j # i => list'[j] = list[j]
      BY <1>1, <2>3, <3>1, TypesAre DEF Sweep
    <3>3. running \subseteq Instance
      BY TypesAre
    <3>4. QED
      BY <1>1, <2>1, <3>2, <3>3 DEF Beaten, Seen
  <2>4. QED
    BY <2>2, <2>3
<1>3. QED
  BY <1>1, <1>2, AnswersStay DEF Healthy

\* The steps that only read the registry.
LEMMA ReadersKeep ==
    ASSUME Basic, Healthy,
           \/ \E i \in Instance :
                 \/ CollectTargets(i) \/ CollectFails(i)
                 \/ \E n \in Node, success \in BOOLEAN : Ping(i, n, success)
           \/ NewRound \/ UNCHANGED vars
    PROVE  Healthy'
<1> USE DEF mode, shared, memory, clock, ghosts
<1>1. ASSUME NEW i \in Instance, CollectTargets(i) \/ CollectFails(i) PROVE Healthy'
  <2>1. /\ flawed \subseteq flawed'
        /\ UNCHANGED <<database, running, table, list, age, beating, sweeping, prober, streak>>
    BY <1>1 DEF CollectTargets, CollectFails, Error
  <2>2. QED
    BY <2>1, BeatenStay, AnswersStay DEF Healthy
<1>2. ASSUME NEW i \in Instance, NEW n \in Node, NEW success \in BOOLEAN, Ping(i, n, success)
      PROVE  Healthy'
  <2>1. /\ flawed \subseteq flawed' /\ (success \/ n \in flawed')
        /\ prober' = [prober EXCEPT ![i] = [step |-> IF database THEN "insert" ELSE "apply",
                                            node |-> n, success |-> success]]
        /\ UNCHANGED <<database, running, table, list, age, beating, sweeping, streak>>
    BY <1>2 DEF Ping
  <2>2. ASSUME NEW j \in Instance, prober'[j].step # "idle", prober'[j].node \notin flawed'
        PROVE  Answered(j)'
    <3>1. Total(prober)
      BY TypesAre
    <3>2. CASE j = i
      <4>1. prober'[j] = [step |-> IF database THEN "insert" ELSE "apply", node |-> n, success |-> success]
        BY <2>1, <3>1, <3>2 DEF Total
      <4>2. QED
        BY <2>1, <2>2, <4>1 DEF Answered
    <3>3. CASE j # i
      <4>1. prober'[j] = prober[j]
        BY <2>1, <3>1, <3>3 DEF Total
      <4>2. QED
        BY <2>1, <2>2, <4>1 DEF Healthy, Answered
    <3>4. QED
      BY <3>2, <3>3
  <2>3. QED
    BY <2>1, <2>2, BeatenStay DEF Healthy
<1>3. ASSUME NewRound PROVE Healthy'
  <2>1. /\ beating' = Node /\ UNCHANGED prober /\ \A i \in Instance : prober[i].step = "idle"
    BY <1>3 DEF NewRound, RoundOver, Idle
  <2>2. QED
    BY <2>1 DEF Healthy
<1>4. ASSUME UNCHANGED vars PROVE Healthy'
  BY <1>4, BeatenStay, AnswersStay DEF Healthy, vars
<1>5. QED
  BY <1>1, <1>2, <1>3, <1>4

\* The steps that write a result.  Whatever a prober writes about a node that is not
\* flawed is the good news it holds.
LEMMA WritersKeep ==
    ASSUME Basic, Healthy, NEW i \in Instance,
           \/ ApplyProbe(i) \/ Record(i) \/ RecordFails(i)
           \/ Count(i) \/ CountFails(i) \/ Update(i) \/ UpdateFails(i)
    PROVE  Healthy'
<1> USE DEF mode, shared, memory, clock, ghosts
<1> DEFINE m == prober[i].node
<1>1. /\ prober[i].step # "idle" /\ flawed \subseteq flawed'
      /\ UNCHANGED <<database, running, age, beating, sweeping>>
  BY DEF ApplyProbe, Record, RecordFails, Count, CountFails, Update, UpdateFails, Error
<1>2. m \in Node /\ Total(prober) /\ (m \notin flawed => Answered(i))
  BY <1>1, ProberIs, TypesAre DEF Basic, Registered, Healthy
<1>3. ASSUME NEW p, prober' = [prober EXCEPT ![i] = p]
      PROVE  prober'[i] = p /\ \A j \in Instance : j # i => prober'[j] = prober[j]
  BY <1>2, <1>3 DEF Total
\* What the other probers hold is kept when node_health is.
<1>4. ASSUME NEW j \in Instance, j # i, prober'[j] = prober[j], prober'[j].step # "idle",
             prober'[j].node \notin flawed', streak'[prober[j].node] = streak[prober[j].node]
      PROVE  Answered(j)'
  BY <1>1, <1>4 DEF Healthy, Answered
<1>5. CASE ApplyProbe(i)
  <2>1. /\ UNCHANGED <<streak, flawed, table>> /\ prober' = [prober EXCEPT ![i] = Idle]
        /\ prober[i].step = "apply"
    BY <1>5 DEF ApplyProbe
  <2>2. ASSUME NEW n \in Node, n \notin beating', n \notin flawed' PROVE Beaten(n)'
    <3>1. Beaten(n)
      BY <1>1, <1>2, <2>2 DEF Healthy
    <3>2. list' = [list EXCEPT ![i][m] = "online"] \/ UNCHANGED list \/ m # n
      BY <1>2, <1>5, <2>1, <2>2, NothingIsOnline DEF ApplyProbe, Answered
    <3>3. \A j \in Instance : list'[j][n] = list[j][n] \/ list'[j][n] = "online"
      <4>1. CASE m = n
        BY <1>2, <3>2, <4>1, TypesAre
      <4>2. CASE m # n
        <5>1. PICK st : UNCHANGED list \/ list' = [list EXCEPT ![i][m] = st]
          BY <1>5 DEF ApplyProbe
        <5>2. list \in [Instance -> [Node -> Status \cup {"absent"}]] /\ m \in Node
          BY <1>2, TypesAre
        <5> HIDE DEF m
        <5>3. ASSUME NEW j \in Instance PROVE list'[j][n] = list[j][n]
          <6>1. CASE UNCHANGED list
            BY <6>1
          <6>2. CASE list' = [list EXCEPT ![i][m] = st] /\ j # i
            BY <5>2, <6>2
          <6>3. CASE list' = [list EXCEPT ![i][m] = st] /\ j = i
            BY <4>2, <5>2, <6>3
          <6>4. QED
            BY <5>1, <6>1, <6>2, <6>3
        <5>4. QED
          BY <5>3
      <4>3. QED
        BY <4>1, <4>2
    <3>4. QED
      BY <1>1, <2>1, <3>1, <3>3, TypesAre DEF Beaten, Seen
  <2>3. ASSUME NEW j \in Instance, prober'[j].step # "idle", prober'[j].node \notin flawed'
        PROVE  Answered(j)'
    <3>1. prober'[i] = Idle /\ Idle.step = "idle"
      BY <1>3, <2>1 DEF Idle
    <3>2. j # i
      BY <2>3, <3>1
    <3>3. QED
      BY <1>3, <1>4, <2>1, <2>3, <3>2
  <2>4. QED
    BY <2>2, <2>3 DEF Healthy
<1>6. CASE Record(i)
  <2>1. /\ UNCHANGED <<flawed, table, list>> /\ prober[i].step = "insert"
        /\ prober' = [prober EXCEPT ![i] = [step |-> "count", node |-> m]]
        /\ streak' = [streak EXCEPT ![m] = IF prober[i].success THEN 0 ELSE UpTo(OfflineAfter, streak[m] + 1)]
    BY <1>2, <1>6, TypesAre DEF Record
  <2>2. /\ m \notin flawed => streak'[m] = 0
        /\ \A n \in Node : n # m => streak'[n] = streak[n]
    BY <1>2, <2>1, TypesAre DEF Answered
  <2>3. ASSUME NEW j \in Instance, prober'[j].step # "idle", prober'[j].node \notin flawed'
        PROVE  Answered(j)'
    <3>1. CASE j = i
      <4>1. prober'[j] = [step |-> "count", node |-> m]
        BY <1>3, <2>1, <3>1
      <4>2. QED
        BY <2>1, <2>2, <2>3, <4>1 DEF Answered
    <3>2. CASE j # i
      <4>1. prober'[j] = prober[j]
        BY <1>3, <2>1, <3>2
      <4>2. prober[j].node \in Node
        BY <2>3, <4>1, ProberIs DEF Basic, Registered
      <4>3. CASE prober[j].node # m
        BY <1>4, <2>2, <2>3, <3>2, <4>1, <4>2, <4>3
      <4>4. CASE prober[j].node = m
        <5>1. Answered(j) /\ streak'[m] = 0
          BY <2>1, <2>2, <2>3, <4>1, <4>4 DEF Healthy
        <5>2. QED
          BY <4>1, <4>4, <5>1 DEF Answered
      <4>5. QED
        BY <4>3, <4>4
    <3>3. QED
      BY <3>1, <3>2
  <2>4. QED
    BY <1>1, <2>1, <2>3, BeatenStay DEF Healthy
<1>7. CASE RecordFails(i) \/ UpdateFails(i)
  <2>1. UNCHANGED <<streak, table, list>> /\ prober' = [prober EXCEPT ![i] = Idle]
    BY <1>7 DEF RecordFails, UpdateFails
  <2>2. ASSUME NEW j \in Instance, prober'[j].step # "idle", prober'[j].node \notin flawed'
        PROVE  Answered(j)'
    <3>1. prober'[i] = Idle /\ Idle.step = "idle"
      BY <1>3, <2>1 DEF Idle
    <3>2. j # i
      BY <2>2, <3>1
    <3>3. QED
      BY <1>3, <1>4, <2>1, <2>2, <3>2
  <2>3. QED
    BY <1>1, <2>1, <2>2, BeatenStay DEF Healthy
<1>8. CASE Count(i) \/ CountFails(i)
  <2>1. /\ UNCHANGED <<streak, table, list>> /\ prober[i].step = "count"
        /\ \/ prober' = [prober EXCEPT ![i] = [step |-> "update", node |-> m, to |-> StatusFor(streak[m])]]
           \/ prober' = [prober EXCEPT ![i] = [step |-> "update", node |-> m, to |-> StatusFor(0)]]
    BY <1>8 DEF Count, CountFails
  <2>2. PICK to : /\ prober' = [prober EXCEPT ![i] = [step |-> "update", node |-> m, to |-> to]]
                  /\ m \notin flawed => to = "online"
    BY <1>2, <2>1, NothingIsOnline DEF Answered
  <2>3. ASSUME NEW j \in Instance, prober'[j].step # "idle", prober'[j].node \notin flawed'
        PROVE  Answered(j)'
    <3>1. CASE j = i
      <4>1. prober'[j] = [step |-> "update", node |-> m, to |-> to]
        BY <1>3, <2>2, <3>1
      <4>2. QED
        BY <1>1, <2>2, <2>3, <4>1 DEF Answered
    <3>2. CASE j # i
      BY <1>3, <1>4, <2>1, <2>2, <2>3, <3>2
    <3>3. QED
      BY <3>1, <3>2
  <2>4. QED
    BY <1>1, <2>1, <2>3, BeatenStay DEF Healthy
<1>9. CASE Update(i)
  <2>1. /\ UNCHANGED <<streak, flawed, list>> /\ prober' = [prober EXCEPT ![i] = Idle]
        /\ table' = [table EXCEPT ![m] = prober[i].to] /\ prober[i].step = "update"
    BY <1>9 DEF Update
  <2>2. ASSUME NEW n \in Node, n \notin beating', n \notin flawed' PROVE Beaten(n)'
    <3>1. Beaten(n)
      BY <1>1, <2>2 DEF Healthy
    <3>2. table'[n] = table[n] \/ table'[n] = "online"
      BY <1>2, <2>1, <2>2, TypesAre DEF Answered
    <3>3. QED
      BY <1>1, <2>1, <3>1, <3>2 DEF Beaten, Seen
  <2>3. ASSUME NEW j \in Instance, prober'[j].step # "idle", prober'[j].node \notin flawed'
        PROVE  Answered(j)'
    <3>1. prober'[i] = Idle /\ Idle.step = "idle"
      BY <1>3, <2>1 DEF Idle
    <3>2. j # i
      BY <2>3, <3>1
    <3>3. QED
      BY <1>3, <1>4, <2>1, <2>3, <3>2
  <2>4. QED
    BY <2>2, <2>3 DEF Healthy
<1>10. QED
  BY <1>5, <1>6, <1>7, <1>8, <1>9

LEMMA HealthyAlways == Spec => []Healthy
<1>1. Init => Healthy
  BY DEF Init, Healthy, Idle
<1>2. Basic /\ Healthy /\ [Next]_vars => Healthy'
  BY BeatersKeep, SweepsKeep, ReadersKeep, WritersKeep DEF Next
<1>3. QED
  BY <1>1, <1>2, BasicAlways, PTL DEF Spec

\* A node whose heartbeat came and whose pings were answered is online when the round
\* is over, in whatever order registrations, sweeps and the statements of the probers
\* came (routes/nodes.rs:69-70, 117-124; health_monitor.rs:83-95).
THEOREM HealthyStaysOnline == Spec => []HealthyIsOnline
<1>1. Basic /\ Healthy => HealthyIsOnline
  BY DEF Healthy, Beaten, HealthyIsOnline, RoundOver, Registered
<1>2. QED
  BY <1>1, BasicAlways, HealthyAlways, PTL

-----------------------------------------------------------------------------
\* The failures in a row that the prober of i would count for n.
Strikes(i, n) == IF database THEN streak[n] ELSE fails[i][n]

\* The prober of i holds of n no answer, and in the end a status for so many failures.
Holding(i, n) ==
    prober[i].node = n =>
       /\ prober[i].step \in {"insert", "apply"} => ~prober[i].success
       /\ prober[i].step \in {"count", "update"} => Strikes(i, n) >= silent[n]
       /\ prober[i].step = "update" /\ silent[n] >= DegradedAfter => prober[i].to # "online"

\* The prober of i is done with n in this round.
Done(i, n) == i \in running /\ i \notin probing /\ n \notin targets[i] /\ prober[i].node # n

\* What a registered node meets while it gives no sign of life: each round past left a
\* failure, this round will, and the failure that reaches the threshold takes it down.
Noticed(i, n) ==
    /\ Strikes(i, n) >= silent[n] - 1
    /\ ~database /\ i \notin probing => current[i][n]
    /\ Holding(i, n)
    /\ Done(i, n) => /\ Strikes(i, n) >= silent[n]
                     /\ silent[n] >= DegradedAfter => Seen(i, n) # "online"
    /\ silent[n] > DegradedAfter => Seen(i, n) # "online"

Watched ==
    errors = 0 => \A i \in Instance : \A n \in Registered(i) : silent[n] >= 1 => Noticed(i, n)

LEMMA StrikesAre ==
    ASSUME Basic, NEW i \in Instance, NEW n \in Node
    PROVE  /\ Strikes(i, n) \in Nat /\ Strikes(i, n) <= OfflineAfter
           /\ silent[n] \in Nat /\ silent[n] <= DegradedAfter + 1
  BY TypesAre, Numbers DEF Strikes

\* Steps that do not concern the prober of i and n.
LEMMA NoticeStays ==
    ASSUME NEW i \in Instance, NEW n \in Node, Basic, Basic', Noticed(i, n),
           UNCHANGED <<database, running>>, silent'[n] = silent[n],
           prober'[i] = prober[i] \/ (prober'[i].node # n /\ prober[i].node # n),
           i \in probing' <=> i \in probing, n \in targets'[i] <=> n \in targets[i],
           current'[i][n] = current[i][n],
           Strikes(i, n)' >= Strikes(i, n),
           Seen(i, n)' = Seen(i, n) \/ Seen(i, n)' # "online" \/ silent[n] < DegradedAfter
    PROVE  Noticed(i, n)'
<1>1. /\ Strikes(i, n) \in Nat /\ Strikes(i, n)' \in Nat /\ silent[n] \in Nat
  <2>1. Strikes(i, n)' \in Nat
    <3>1. streak' \in [Node -> 0..OfflineAfter] /\ fails' \in [Instance -> [Node -> 0..OfflineAfter]]
      BY DEF Basic, TypeOK
    <3>2. QED
      BY <3>1, Numbers DEF Strikes
  <2>2. QED
    BY <2>1, StrikesAre
<1>2. Holding(i, n)'
  BY <1>1 DEF Noticed, Holding
<1>3. Done(i, n)' => Done(i, n)
  BY DEF Done
<1>4. /\ Strikes(i, n)' >= silent'[n] - 1 /\ (~database' /\ i \notin probing' => current'[i][n])
      /\ silent'[n] > DegradedAfter => Seen(i, n)' # "online"
  BY <1>1, Numbers DEF Noticed
<1>5. Done(i, n) => /\ Strikes(i, n)' >= silent'[n]
                    /\ silent'[n] >= DegradedAfter => Seen(i, n)' # "online"
  BY <1>1, Numbers DEF Noticed
<1>6. QED
  BY <1>2, <1>3, <1>4, <1>5 DEF Noticed

\* A node that begins to be watched has been registered all along.
LEMMA Before ==
    ASSUME Basic, Watched, Next, ~NewRound, errors' = 0,
           NEW i \in Instance, NEW n \in Registered(i)', silent'[n] >= 1
    PROVE  n \in Registered(i) /\ Noticed(i, n) /\ silent'[n] = silent[n] /\ errors = 0
<1> USE DEF mode, shared, memory, clock, ghosts
<1>1. errors = 0
  BY TypesAre, Numbers DEF Next, Register, NoHeartbeat, RegisterInMemory, Sweep, SweepFails,
     CollectTargets, CollectFails, Ping, ApplyProbe, Record, RecordFails, Count, CountFails, Update,
     UpdateFails, Error
<1>2. n \in Node
  BY DEF Registered
<1>3. silent'[n] = silent[n]
  <2>1. UNCHANGED silent \/ \E m \in Node : silent' = [silent EXCEPT ![m] = 0]
    <3>1. ASSUME NEW m \in Node, NEW j \in Instance, NEW success \in BOOLEAN, Ping(j, m, success)
          PROVE  UNCHANGED silent \/ silent' = [silent EXCEPT ![m] = 0]
      BY <3>1, TypesAre DEF Ping
    <3>2. QED
      BY <3>1 DEF Next, Register, NoHeartbeat, RegisterInMemory, Sweep, SweepFails, CollectTargets,
         CollectFails, ApplyProbe, Record, RecordFails, Count, CountFails, Update, UpdateFails, Error
  <2>2. CASE UNCHANGED silent
    BY <2>2
  <2>3. ASSUME NEW m \in Node, silent' = [silent EXCEPT ![m] = 0] PROVE silent'[n] = silent[n]
    BY <1>2, <2>3, TypesAre
  <2>4. QED
    BY <2>1, <2>2, <2>3
<1>4. Seen(i, n) # "absent"
  <2>1. Seen(i, n)' # "absent" /\ UNCHANGED database
    BY DEF Registered, Next, Register, NoHeartbeat, RegisterInMemory, Sweep, SweepFails,
       CollectTargets, CollectFails, Ping, ApplyProbe, Record, RecordFails, Count, CountFails, Update,
       UpdateFails
  <2>2. CASE UNCHANGED <<table, list>>
    BY <2>1, <2>2 DEF Seen
  <2>3. ASSUME NEW m \in Node, Register(m) PROVE Seen(i, n) # "absent"
    BY <1>2, <2>1, <2>3, TypesAre DEF Register, Seen
  <2>4. ASSUME NEW m \in Node, NEW j \in Instance, RegisterInMemory(m, j) PROVE Seen(i, n) # "absent"
    BY <1>2, <2>1, <2>4, TypesAre DEF RegisterInMemory, Seen
  <2>5. ASSUME NEW j \in Instance, Sweep(j) PROVE Seen(i, n) # "absent"
    <3>1. Swept(j)[n] = "absent" <=> Seen(j, n) = "absent"
      BY <1>2, SweptIs DEF Basic
    <3>2. CASE database
      BY <1>2, <2>1, <2>5, <3>1, <3>2 DEF Sweep, Seen
    <3>3. CASE ~database
      <4>1. list' = [list EXCEPT ![j] = Swept(j)]
        BY <2>5, <3>3 DEF Sweep
      <4>2. CASE j = i
        BY <2>1, <3>1, <3>3, <4>1, <4>2, TypesAre DEF Seen
      <4>3. CASE j # i
        BY <2>1, <3>3, <4>1, <4>3, TypesAre DEF Seen
      <4>4. QED
        BY <4>2, <4>3
    <3>4. QED
      BY <3>2, <3>3
  <2>6. ASSUME NEW j \in Instance, ApplyProbe(j) \/ Update(j) PROVE Seen(i, n) # "absent"
    <3>1. PICK m \in Registered(j) : m = prober[j].node
      BY <2>6, ProberIs DEF ApplyProbe, Update, Basic
    <3>2. m \in Node /\ Seen(j, m) # "absent"
      BY DEF Registered
    <3>3. CASE Update(j)
      <4>1. database /\ table' = [table EXCEPT ![m] = prober[j].to]
        BY <3>1, <3>3 DEF Update, Basic
      <4>2. QED
        BY <1>2, <2>1, <3>2, <4>1, TypesAre DEF Seen
    <3>4. CASE ApplyProbe(j)
      <4>1. PICK st : ~database /\ (UNCHANGED list \/ list' = [list EXCEPT ![j][m] = st])
        BY <3>1, <3>4 DEF ApplyProbe, Basic
      <4>2. list \in [Instance -> [Node -> Status \cup {"absent"}]]
        BY TypesAre
      <4>3. CASE j = i /\ m = n
        BY <3>2, <4>3
      <4>4. CASE j # i \/ m # n
        <5>1. list'[i][n] = list[i][n]
          BY <1>2, <3>2, <4>1, <4>2, <4>4
        <5>2. QED
          BY <2>1, <4>1, <5>1 DEF Seen
      <4>5. QED
        BY <4>3, <4>4
    <3>5. QED
      BY <2>6, <3>3, <3>4
  <2>7. QED
    BY <2>2, <2>3, <2>4, <2>5, <2>6
       DEF Next, NoHeartbeat, SweepFails, CollectTargets, CollectFails, Ping, Record, RecordFails,
           Count, CountFails, UpdateFails
<1>5. QED
  BY <1>1, <1>2, <1>3, <1>4 DEF Registered, Watched

\* The steps of nodes, of sweepers, and of probers before an answer.
LEMMA OthersKeepWatch ==
    ASSUME Basic, Basic', Watched, errors' = 0,
           NEW i \in Instance, NEW n \in Registered(i)', silent'[n] >= 1,
           n \in Registered(i) /\ Noticed(i, n) /\ silent'[n] = silent[n] /\ errors = 0,
           \/ \E m \in Node : Register(m) \/ NoHeartbeat(m) \/ \E j \in Instance : RegisterInMemory(m, j)
           \/ \E j \in Instance :
                 \/ Sweep(j) \/ CollectTargets(j)
                 \/ \E m \in Node, success \in BOOLEAN : Ping(j, m, success)
    PROVE  Noticed(i, n)'
<1> USE DEF mode, shared, memory, clock, ghosts
<1>1. n \in Node /\ Strikes(i, n) \in Nat
  BY StrikesAre DEF Registered
<1>2. ASSUME NEW m \in Node, Register(m) PROVE Noticed(i, n)'
  <2>1. m # n
    BY <1>1, <1>2, TypesAre DEF Register
  <2>2. table'[n] = table[n]
    BY <1>1, <1>2, <2>1, TypesAre DEF Register
  <2>3. Seen(i, n)' = Seen(i, n) /\ Strikes(i, n)' = Strikes(i, n)
    BY <1>2, <2>2 DEF Register, Seen, Strikes
  <2>4. QED
    BY <1>1, <1>2, <2>3, NoticeStays DEF Register
<1>3. ASSUME NEW m \in Node, NoHeartbeat(m) PROVE Noticed(i, n)'
  <2>1. Seen(i, n)' = Seen(i, n) /\ Strikes(i, n)' = Strikes(i, n)
    BY <1>3 DEF NoHeartbeat, Seen, Strikes
  <2>2. QED
    BY <1>1, <1>3, <2>1, NoticeStays DEF NoHeartbeat
<1>4. ASSUME NEW m \in Node, NEW j \in Instance, RegisterInMemory(m, j) PROVE Noticed(i, n)'
  <2>1. ~database
    BY <1>4, TypesAre, Numbers DEF RegisterInMemory, Error
  <2>2. m # n
    BY <1>1, <1>4, TypesAre DEF RegisterInMemory
  <2>3. list'[i][n] = list[i][n] /\ fails'[i][n] = fails[i][n] /\ current'[i][n] = current[i][n]
    BY <1>1, <1>4, <2>1, <2>2, TypesAre DEF RegisterInMemory
  <2>4. Seen(i, n)' = Seen(i, n) /\ Strikes(i, n)' = Strikes(i, n)
    BY <1>4, <2>1, <2>3 DEF RegisterInMemory, Seen, Strikes
  <2>5. QED
    BY <1>1, <1>4, <2>3, <2>4, NoticeStays DEF RegisterInMemory
<1>5. ASSUME NEW j \in Instance, Sweep(j) PROVE Noticed(i, n)'
  <2>1. Seen(i, n)' = Seen(i, n) \/ Seen(i, n)' # "online"
    <3>1. Swept(j)[n] = Seen(j, n) \/ Swept(j)[n] # "online"
      BY <1>1 DEF Swept
    <3>2. CASE database
      BY <1>5, <3>1, <3>2 DEF Sweep, Seen
    <3>3. CASE ~database
      <4>1. list' = [list EXCEPT ![j] = Swept(j)] /\ UNCHANGED database
        BY <1>5, <3>3 DEF Sweep
      <4>2. CASE j = i
        BY <3>1, <3>3, <4>1, <4>2, TypesAre DEF Seen
      <4>3. CASE j # i
        BY <3>3, <4>1, <4>3, TypesAre DEF Seen
      <4>4. QED
        BY <4>2, <4>3
    <3>4. QED
      BY <3>2, <3>3
  <2>2. Strikes(i, n)' = Strikes(i, n)
    BY <1>5 DEF Sweep, Strikes
  <2>3. QED
    BY <1>1, <1>5, <2>1, <2>2, NoticeStays DEF Sweep
<1>6. ASSUME NEW j \in Instance, CollectTargets(j) PROVE Noticed(i, n)'
  <2>1. Seen(i, n)' = Seen(i, n) /\ Strikes(i, n)' = Strikes(i, n) /\ UNCHANGED <<database, running, prober, silent>>
    BY <1>6 DEF CollectTargets, Seen, Strikes
  <2>2. CASE j # i
    <3>1. targets'[i] = targets[i] /\ current'[i][n] = current[i][n] /\ (i \in probing' <=> i \in probing)
      BY <1>6, <2>2, TypesAre DEF CollectTargets
    <3>2. QED
      BY <1>1, <2>1, <3>1, NoticeStays
  <2>3. CASE j = i
    <3>1. n \in targets'[i] /\ (~database => current'[i][n])
      BY <1>1, <1>6, <2>3, TypesAre DEF CollectTargets
    <3>2. Holding(i, n)'
      BY <2>1 DEF Noticed, Holding
    <3>3. QED
      BY <2>1, <3>1, <3>2 DEF Noticed, Done
  <2>4. QED
    BY <2>2, <2>3
<1>7. ASSUME NEW j \in Instance, NEW m \in Node, NEW success \in BOOLEAN, Ping(j, m, success)
      PROVE  Noticed(i, n)'
  <2> DEFINE p == [step |-> IF database THEN "insert" ELSE "apply", node |-> m, success |-> success]
  <2>1. /\ UNCHANGED <<database, running, probing, current>>
        /\ prober[j] = Idle /\ prober' = [prober EXCEPT ![j] = p]
        /\ targets' = [targets EXCEPT ![j] = targets[j] \ {m}]
        /\ Seen(i, n)' = Seen(i, n) /\ Strikes(i, n)' = Strikes(i, n)
    BY <1>7, TypesAre DEF Ping, Seen, Strikes
  <2>2. Idle.node # n
    BY <1>1, NodeAssumption DEF Idle
  <2>3. CASE j # i
    <3>1. prober'[i] = prober[i] /\ targets'[i] = targets[i]
      BY <2>1, <2>3, TypesAre DEF Total
    <3>2. QED
      BY <1>1, <2>1, <3>1, NoticeStays
  <2>4. CASE j = i /\ m # n
    <3>1. prober'[i] = p /\ (n \in targets'[i] <=> n \in targets[i])
      BY <2>1, <2>4, TypesAre DEF Total
    <3>2. QED
      BY <1>1, <2>1, <2>2, <2>4, <3>1, NoticeStays
  <2>5. CASE j = i /\ m = n
    <3>1. prober'[i] = p
      BY <2>1, <2>5, TypesAre DEF Total
    <3>2. ~success
      BY <1>1, <1>7, <2>5, TypesAre DEF Ping
    <3>3. Holding(i, n)' /\ ~Done(i, n)'
      BY <2>5, <3>1, <3>2 DEF Holding, Done
    <3>4. QED
      <4>1. i \notin probing => (~database => current[i][n])
        BY DEF Noticed
      <4>2. QED
        BY <2>1, <3>3, <4>1 DEF Noticed
  <2>6. QED
    BY <2>3, <2>4, <2>5
<1>8. QED
  BY <1>2, <1>3, <1>4, <1>5, <1>6, <1>7

LEMMA FailureIsDown ==
    ASSUME NEW c \in Nat, c >= DegradedAfter
    PROVE  StatusFor(c) # "online"
  BY Numbers DEF StatusFor

\* The steps that write a result.
LEMMA WritersKeepWatch ==
    ASSUME Basic, Basic', Watched, errors' = 0,
           NEW i \in Instance, NEW n \in Registered(i)', silent'[n] >= 1,
           n \in Registered(i) /\ Noticed(i, n) /\ silent'[n] = silent[n] /\ errors = 0,
           NEW j \in Instance, ApplyProbe(j) \/ Record(j) \/ Count(j) \/ Update(j)
    PROVE  Noticed(i, n)'
<1> USE DEF mode, shared, memory, clock, ghosts
<1>1. n \in Node /\ Strikes(i, n) \in Nat /\ Strikes(i, n) <= OfflineAfter
      /\ silent[n] \in Nat /\ silent[n] <= DegradedAfter + 1
  BY StrikesAre DEF Registered
<1>2. UNCHANGED <<database, running, current, probing, targets, silent>>
  BY DEF ApplyProbe, Record, Count, Update
<1>3. PICK m : m = prober[j].node /\ m \in Registered(j) /\ m \in Node
  BY ProberIs DEF ApplyProbe, Record, Count, Update, Basic, Registered
<1>4. Idle.node # n /\ j \notin probing /\ Total(prober)
  BY <1>1, NodeAssumption, TypesAre DEF Idle, ApplyProbe, Record, Count, Update, Basic
<1>5. ASSUME NEW p, prober' = [prober EXCEPT ![j] = p]
      PROVE  prober'[j] = p /\ \A k \in Instance : k # j => prober'[k] = prober[k]
  BY <1>4, <1>5 DEF Total
<1>6. ASSUME database PROVE m = n => Noticed(j, n)
  BY <1>1, <1>3, <1>6 DEF Watched, Registered, Seen
<1>7. CASE ApplyProbe(j)
  <2>1. ~database /\ prober' = [prober EXCEPT ![j] = Idle] /\ prober[j].step = "apply"
    BY <1>7 DEF ApplyProbe, Basic
  <2>2. CASE j = i /\ m = n
    <3> DEFINE consec == UpTo(OfflineAfter, fails[i][n] + 1)
    <3>1. current[i][n] /\ ~prober[i].success
      BY <1>2, <1>3, <1>4, <2>1, <2>2 DEF Noticed, Holding
    <3>2. fails' = [fails EXCEPT ![i][n] = consec] /\ list' = [list EXCEPT ![i][n] = StatusFor(consec)]
      BY <1>3, <1>7, <2>2, <3>1 DEF ApplyProbe
    <3>3. fails'[i][n] = consec /\ list'[i][n] = StatusFor(consec)
      <4> HIDE DEF consec
      <4>1. QED
        BY <1>1, <3>2, TypesAre
    <3>4. fails[i][n] \in Nat /\ fails[i][n] <= OfflineAfter /\ fails[i][n] >= silent[n] - 1
      BY <1>1, <2>1 DEF Noticed, Strikes
    <3>5. consec \in Nat /\ consec >= silent[n]
      BY <1>1, <3>4, Numbers DEF UpTo
    <3> HIDE DEF consec
    <3>6. silent[n] >= DegradedAfter => StatusFor(consec) # "online"
      BY <1>1, <3>5, FailureIsDown, Numbers
    <3>7. Strikes(i, n)' = consec /\ Seen(i, n)' = StatusFor(consec)
      BY <1>2, <2>1, <3>3 DEF Strikes, Seen
    <3>8. prober'[i] = Idle
      BY <1>5, <2>1, <2>2
    <3>9. Holding(i, n)'
      BY <1>4, <3>8 DEF Holding
    <3>10. QED
      BY <1>1, <1>2, <3>1, <3>5, <3>6, <3>7, <3>9, Numbers DEF Noticed
  <2>3. CASE j # i \/ m # n
    <3>1. PICK c, st : \/ UNCHANGED <<fails, list>>
                       \/ fails' = [fails EXCEPT ![j][m] = c] /\ list' = [list EXCEPT ![j][m] = st]
      BY <1>3, <1>7 DEF ApplyProbe
    <3>2. list \in [Instance -> [Node -> Status \cup {"absent"}]]
          /\ fails \in [Instance -> [Node -> 0..OfflineAfter]]
      BY TypesAre
    <3>3. fails'[i][n] = fails[i][n] /\ list'[i][n] = list[i][n]
      BY <1>1, <1>3, <2>3, <3>1, <3>2
    <3>4. Strikes(i, n)' = Strikes(i, n) /\ Seen(i, n)' = Seen(i, n)
      BY <1>2, <2>1, <3>3 DEF Strikes, Seen
    <3>5. prober'[i] = prober[i] \/ (prober'[i].node # n /\ prober[i].node # n)
      BY <1>3, <1>4, <1>5, <2>1, <2>3
    <3>6. QED
      BY <1>1, <1>2, <3>4, <3>5, NoticeStays
  <2>4. QED
    BY <2>2, <2>3
<1>8. CASE Record(j)
  <2>1. /\ database /\ prober' = [prober EXCEPT ![j] = [step |-> "count", node |-> m]]
        /\ prober[j].step = "insert" /\ UNCHANGED table
        /\ streak' = [streak EXCEPT ![m] = IF prober[j].success THEN 0 ELSE UpTo(OfflineAfter, streak[m] + 1)]
    BY <1>3, <1>8, TypesAre DEF Record, Basic
  <2>2. Strikes(i, n)' = streak'[n] /\ Strikes(i, n) = streak[n] /\ Seen(i, n)' = Seen(i, n)
    BY <1>2, <2>1 DEF Strikes, Seen
  <2>3. CASE m # n
    <3>1. streak'[n] = streak[n]
      BY <1>1, <1>3, <2>1, <2>3, TypesAre
    <3>2. prober'[i] = prober[i] \/ (prober'[i].node # n /\ prober[i].node # n)
      <4>1. CASE j = i
        BY <1>3, <1>5, <2>1, <2>3, <4>1
      <4>2. CASE j # i
        BY <1>5, <2>1, <4>2
      <4>3. QED
        BY <4>1, <4>2
    <3>3. QED
      BY <1>1, <1>2, <2>2, <3>1, <3>2, NoticeStays
  <2>4. CASE m = n
    <3>1. ~prober[j].success
      BY <1>3, <1>6, <2>1, <2>4 DEF Noticed, Holding
    <3>2. streak'[n] = UpTo(OfflineAfter, streak[n] + 1)
      BY <1>1, <2>1, <2>4, <3>1, TypesAre
    <3>3. streak[n] \in Nat /\ streak[n] <= OfflineAfter /\ streak[n] >= silent[n] - 1
      BY <1>1, <2>2 DEF Noticed
    <3>4. streak'[n] \in Nat /\ streak'[n] >= streak[n] /\ streak'[n] >= silent[n]
      BY <1>1, <3>2, <3>3, Numbers DEF UpTo
    <3>5. CASE j # i
      <4>1. prober'[i] = prober[i]
        BY <1>5, <2>1, <3>5
      <4>2. QED
        BY <1>1, <1>2, <2>2, <3>4, <4>1, NoticeStays
    <3>6. CASE j = i
      <4>1. prober'[i] = [step |-> "count", node |-> n]
        BY <1>5, <2>1, <2>4, <3>6
      <4>2. Holding(i, n)' /\ ~Done(i, n)'
        BY <1>2, <2>2, <3>4, <4>1 DEF Holding, Done
      <4>3. QED
        BY <1>1, <1>2, <2>1, <2>2, <3>4, <4>2 DEF Noticed
    <3>7. QED
      BY <3>5, <3>6
  <2>5. QED
    BY <2>3, <2>4
<1>9. CASE Count(j)
  <2>1. /\ database /\ prober[j].step = "count" /\ UNCHANGED <<table, streak>>
        /\ prober' = [prober EXCEPT ![j] = [step |-> "update", node |-> m, to |-> StatusFor(streak[m])]]
    BY <1>3, <1>9 DEF Count, Basic
  <2>2. Strikes(i, n)' = Strikes(i, n) /\ Strikes(i, n) = streak[n] /\ Seen(i, n)' = Seen(i, n)
    BY <1>2, <2>1 DEF Strikes, Seen
  <2>3. CASE j # i
    <3>1. prober'[i] = prober[i]
      BY <1>5, <2>1, <2>3
    <3>2. QED
      BY <1>1, <1>2, <2>2, <3>1, NoticeStays
  <2>4. CASE j = i
    <3>1. prober'[i] = [step |-> "update", node |-> m, to |-> StatusFor(streak[m])]
      BY <1>5, <2>1, <2>4
    <3>2. CASE m # n
      BY <1>1, <1>2, <1>3, <2>2, <2>4, <3>1, <3>2, NoticeStays
    <3>3. CASE m = n
      <4>1. streak[n] >= silent[n]
        BY <1>3, <2>1, <2>2, <2>4, <3>3 DEF Noticed, Holding
      <4>2. silent[n] >= DegradedAfter => StatusFor(streak[n]) # "online"
        BY <1>1, <2>2, <4>1, FailureIsDown, Numbers
      <4>3. Holding(i, n)' /\ ~Done(i, n)'
        BY <1>2, <2>2, <3>1, <3>3, <4>1, <4>2 DEF Holding, Done
      <4>4. QED
        BY <1>1, <1>2, <2>1, <2>2, <4>3 DEF Noticed
    <3>4. QED
      BY <3>2, <3>3
  <2>5. QED
    BY <2>3, <2>4
<1>10. CASE Update(j)
  <2>1. /\ database /\ prober[j].step = "update" /\ UNCHANGED streak
        /\ prober' = [prober EXCEPT ![j] = Idle] /\ table' = [table EXCEPT ![m] = prober[j].to]
    BY <1>3, <1>10 DEF Update, Basic
  <2>2. Strikes(i, n)' = Strikes(i, n)
    BY <1>2, <2>1 DEF Strikes
  <2>3. CASE m # n
    <3>1. table'[n] = table[n]
      BY <1>1, <1>3, <2>1, <2>3, TypesAre
    <3>2. Seen(i, n)' = Seen(i, n)
      BY <1>2, <2>1, <3>1 DEF Seen
    <3>3. prober'[i] = prober[i] \/ (prober'[i].node # n /\ prober[i].node # n)
      BY <1>3, <1>4, <1>5, <2>1, <2>3
    <3>4. QED
      BY <1>1, <1>2, <2>2, <3>2, <3>3, NoticeStays
  <2>4. CASE m = n
    <3>1. Seen(i, n)' = prober[j].to
      BY <1>1, <1>2, <2>1, <2>4, TypesAre DEF Seen
    <3>2. /\ Strikes(j, n) >= silent[n]
          /\ silent[n] >= DegradedAfter => prober[j].to # "online"
      BY <1>3, <1>6, <2>1, <2>4 DEF Noticed, Holding
    <3>3. CASE j # i
      <4>1. prober'[i] = prober[i]
        BY <1>5, <2>1, <3>3
      <4>2. Seen(i, n)' # "online" \/ silent[n] < DegradedAfter
        BY <1>1, <3>1, <3>2, Numbers
      <4>3. QED
        BY <1>1, <1>2, <2>2, <4>1, <4>2, NoticeStays
    <3>4. CASE j = i
      <4>1. prober'[i] = Idle
        BY <1>5, <2>1, <3>4
      <4>2. Holding(i, n)'
        BY <1>4, <4>1 DEF Holding
      <4>3. QED
        BY <1>1, <1>2, <2>1, <2>2, <3>1, <3>2, <3>4, <4>2, Numbers DEF Noticed
    <3>5. QED
      BY <3>3, <3>4
  <2>5. QED
    BY <2>3, <2>4
<1>11. QED
  BY <1>7, <1>8, <1>9, <1>10

\* When the round is over every running prober is done with every node.
LEMMA RoundsKeepWatch ==
    ASSUME Basic, Watched, NewRound
    PROVE  Watched'
<1> USE DEF mode, shared, memory
<1>1. /\ probing = {} /\ probing' = running /\ running # {} /\ running \subseteq Instance
      /\ \A i \in Instance : targets[i] = {} /\ prober[i] = Idle
      /\ silent' = [n \in Node |-> UpTo(DegradedAfter + 1, silent[n] + 1)]
      /\ UNCHANGED <<database, running, table, streak, list, fails, current, targets, prober, errors>>
  BY TypesAre DEF NewRound, RoundOver, Basic
<1> SUFFICES ASSUME errors = 0, NEW i \in Instance, NEW n \in Registered(i), silent'[n] >= 1
             PROVE  Noticed(i, n)'
  BY <1>1 DEF Watched, Registered, Seen
<1>2. n \in Node /\ Strikes(i, n) \in Nat /\ silent[n] \in Nat /\ silent[n] <= DegradedAfter + 1
      /\ silent'[n] = UpTo(DegradedAfter + 1, silent[n] + 1) /\ Idle.node # n
  BY <1>1, StrikesAre, NodeAssumption DEF Registered, Idle
<1>3. /\ silent'[n] \in Nat /\ silent'[n] <= silent[n] + 1
      /\ silent'[n] > DegradedAfter => silent[n] >= DegradedAfter
  BY <1>2, Numbers DEF UpTo
<1>4. Strikes(i, n)' = Strikes(i, n) /\ Seen(i, n)' = Seen(i, n)
  BY <1>1 DEF Strikes, Seen
<1>5. PICK r \in running : Strikes(r, n) = Strikes(i, n) /\ Seen(r, n) = Seen(i, n)
  <2>1. CASE database
    BY <1>1, <2>1 DEF Strikes, Seen
  <2>2. CASE ~database
    BY <1>2, <2>2, TypesAre DEF Registered, Seen
  <2>3. QED
    BY <2>1, <2>2
<1>6. silent[n] >= 1 => /\ Strikes(i, n) >= silent[n]
                        /\ silent[n] >= DegradedAfter => Seen(i, n) # "online"
  <2>1. silent[n] >= 1 => Noticed(r, n)
    BY <1>1, <1>2, <1>5 DEF Watched, Registered
  <2>2. Done(r, n)
    BY <1>1, <1>2, <1>5 DEF Done
  <2>3. QED
    BY <1>5, <2>1, <2>2 DEF Noticed
<1>7. /\ Strikes(i, n)' >= silent'[n] - 1
      /\ silent'[n] > DegradedAfter => Seen(i, n)' # "online"
  BY <1>2, <1>3, <1>4, <1>6, Numbers
<1>8. Holding(i, n)' /\ ~Done(i, n)'
  BY <1>1, <1>2 DEF Holding, Done
<1>9. ~database => i \in probing'
  BY <1>1, <1>2, TypesAre DEF Registered, Seen
<1>10. QED
  BY <1>1, <1>7, <1>8, <1>9 DEF Noticed

LEMMA WatchedAlways == Spec => []Watched
<1>1. Init => Watched
  BY DEF Init, Watched, Registered
<1>2. ASSUME Basic, Basic', Watched, Next PROVE Watched'
  <2>1. CASE NewRound
    BY <1>2, <2>1, RoundsKeepWatch
  <2>2. CASE ~NewRound
    <3> SUFFICES ASSUME errors' = 0, NEW i \in Instance, NEW n \in Registered(i)', silent'[n] >= 1
                 PROVE  Noticed(i, n)'
      BY DEF Watched
    <3>1. n \in Registered(i) /\ Noticed(i, n) /\ silent'[n] = silent[n] /\ errors = 0
      BY <1>2, <2>2, Before
    <3>2. ~\E nodes : Error(nodes)
      BY <1>2, <3>1 DEF Error
    <3>3. \/ \E m \in Node : Register(m) \/ NoHeartbeat(m) \/ \E j \in Instance : RegisterInMemory(m, j)
          \/ \E j \in Instance :
                \/ Sweep(j) \/ CollectTargets(j)
                \/ \E m \in Node, success \in BOOLEAN : Ping(j, m, success)
          \/ \E j \in Instance : ApplyProbe(j) \/ Record(j) \/ Count(j) \/ Update(j)
      BY <1>2, <2>2, <3>2 DEF Next, SweepFails, CollectFails, RecordFails, CountFails, UpdateFails
    <3>4. QED
      BY <1>2, <3>1, <3>3, OthersKeepWatch, WritersKeepWatch
  <2>3. QED
    BY <2>1, <2>2
<1>3. ASSUME Watched, UNCHANGED vars PROVE Watched'
  BY <1>3 DEF vars, mode, shared, memory, clock, ghosts, Watched, Noticed, Holding, Done, Strikes,
              Seen, Registered
<1>4. QED
  BY <1>1, <1>2, <1>3, BasicAlways, PTL DEF Spec

\* A node silent for longer than the prober waits is not online, in whatever order
\* sweeps, pings and the statements of several instances overwrite one another, as long
\* as no statement fails (stale_nodes.rs:23-26, 40-41; health_monitor.rs:83-95, 146-163).
THEOREM SilentIsNoticed == Spec => []SilentNotOnline
<1>1. ASSUME Basic, Watched, NEW i \in Instance, NEW n \in Node, errors = 0, silent[n] > DegradedAfter
      PROVE  Seen(i, n) # "online"
  <2>1. silent[n] >= 1
    BY <1>1, StrikesAre, Numbers
  <2>2. CASE n \in Registered(i)
    BY <1>1, <2>1, <2>2 DEF Watched, Noticed
  <2>3. CASE n \notin Registered(i)
    BY <1>1, <2>3 DEF Registered
  <2>4. QED
    BY <2>2, <2>3
<1>2. Basic /\ Watched => SilentNotOnline
  BY <1>1 DEF SilentNotOnline
<1>3. QED
  BY <1>2, BasicAlways, WatchedAlways, PTL
=============================================================================
