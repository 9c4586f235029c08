-------------------------- MODULE BillingCronProofs --------------------------
(***************************************************************************)
(* What the two tasks of billing_cron.rs promise, for every number of      *)
(* instances, customers or accounts, hours or days, and failures.          *)
(*                                                                         *)
(* The meter reporter implements the ledger, and a run without failure     *)
(* loses nothing but late records.  What a run still has to bill of an     *)
(* hour that some run has read, its records less the late ones, does not   *)
(* change any more; every sum in flight and every event is at least that   *)
(* and no more than was logged.                                            *)
(*                                                                         *)
(* Payouts: every transfer of a day to an account has an instance that is, *)
(* in its present life, done with that account, but for one a restart      *)
(* (TransfersDone).  A healthy instance begins a run at the first tick of  *)
(* a day and at no other (InStep), so that the windows are the days before *)
(* (CountedOnce) and every transfer of a day is that day's share           *)
(* (EqualShares), from which the sums follow by induction over the days.   *)
(***************************************************************************)
EXTENDS MeterReporter, Payouts, DataLemmas

OnBill(c, h) == \E e \in events : e.customer = c /\ e.hour = h

\* The hour has been read, and is on the bill unless there was nothing to bill.
Settled(c, h) == <<c, h>> \in read /\ (logged[c][h] > late[c][h] => OnBill(c, h))

TypeInv == TypeOK /\ hour >= 1 /\ late \in [Customer -> [Hour -> Nat]] /\ clean \subseteq Hour

\* v is a sum of the hour that was read at some time.
Sum(c, h, v) ==
    /\ <<c, h>> \in read
    /\ v <= logged[c][h] /\ logged[c][h] <= v + late[c][h]

EventsTrue ==
    \A e \in events : /\ e = Ledger!Line(e.customer, e.hour, e.value)
                      /\ Sum(e.customer, e.hour, e.value)

AtWork ==
    \A i \in Instance :
        /\ pc[i] \in {"send", "insert"} => Sum(customer[i], period[i], amount[i])
        /\ pc[i] = "insert" => OnBill(customer[i], period[i])

NotedOnBill == \A c \in Customer, h \in Hour : <<c, h>> \in reports => OnBill(c, h)

\* A run without failure has settled whatever it has passed.
RunSettles ==
    \A i \in Instance : pc[i] # "idle" /\ i \notin flawed =>
        \A c \in Customer \ todo[i] :
            Settled(c, period[i]) \/ (pc[i] \in {"send", "insert"} /\ c = customer[i])

CleanSettled == \A h \in clean, c \in Customer : Settled(c, h)

Inv ==
    /\ TypeInv
    /\ EventsTrue /\ AtWork /\ NotedOnBill
    /\ RunSettles /\ CleanSettled

-----------------------------------------------------------------------------
LEMMA Initially == Init => Inv
<1> SUFFICES ASSUME Init PROVE Inv
  OBVIOUS
<1> USE DEF Init
<1>1. TypeInv
  BY HourAssumption DEF TypeInv, TypeOK, Hour
<1>2. EventsTrue /\ AtWork /\ NotedOnBill /\ RunSettles /\ CleanSettled
  BY DEF EventsTrue, AtWork, NotedOnBill, RunSettles, CleanSettled
<1>3. QED
  BY <1>1, <1>2 DEF Inv

\* The types, action by action.
LEMMA Types ==
    ASSUME TypeInv, Next
    PROVE  TypeInv'
<1> USE HourAssumption, LateAssumption DEF TypeInv, TypeOK, run, ghosts
<1>1. ASSUME NEW c \in Customer, NEW h \in Hour, LogUsage(c, h) PROVE TypeInv'
  <2>1. /\ logged' \in [Customer -> [Hour -> 0..MaxUsage]]
        /\ late' \in [Customer -> [Hour -> Nat]]
    BY <1>1 DEF LogUsage
  <2>2. QED
    BY <1>1, <2>1 DEF LogUsage
<1>2. CASE NewHour
  <2>1. hour' \in Hour /\ hour' >= 1
    BY <1>2 DEF NewHour, Hour
  <2>2. owed' \in [Instance -> 0..2]
    BY <1>2 DEF NewHour
  <2>3. QED
    BY <1>2, <2>1, <2>2 DEF NewHour
<1>3. CASE Halt
  BY <1>3 DEF Halt, vars
<1>4. ASSUME NEW i \in Instance, Tick(i) PROVE TypeInv'
  <2>1. hour - 1 \in Hour
    BY DEF Hour
  <2>2. QED
    BY <1>4, <2>1 DEF Tick
<1>5. ASSUME NEW i \in Instance, SendOk(i) PROVE TypeInv'
  BY <1>5 DEF SendOk, Meter
<1>6. ASSUME NEW i \in Instance, Note(i) PROVE TypeInv'
  BY <1>6 DEF Note
<1>7. ASSUME NEW i \in Instance, Finish(i) PROVE TypeInv'
  BY <1>7 DEF Finish
<1>8. ASSUME NEW i \in Instance, DatabaseFails(i) PROVE TypeInv'
  BY <1>8 DEF DatabaseFails
<1>9. ASSUME NEW i \in Instance, Restart(i) PROVE TypeInv'
  BY <1>9 DEF Restart
<1>10. ASSUME NEW i \in Instance, NEW c \in Customer, Check(i, c) PROVE TypeInv'
  <2>1. i \in Instance /\ period[i] \in Hour /\ logged[c][period[i]] \in 0..MaxUsage
    OBVIOUS
  <2>2. amount' \in [Instance -> 0..MaxUsage] /\ customer' \in [Instance -> Customer \cup {NoOne}]
    BY <1>10, <2>1 DEF Check
  <2>3. todo' \in [Instance -> SUBSET Customer]
    BY <1>10 DEF Check
  <2>4. pc' \in [Instance -> {"idle", "next", "send", "insert"}]
    BY <1>10 DEF Check
  <2>5. ASSUME NEW j \in Instance, pc'[j] \in {"send", "insert"}
        PROVE  customer'[j] \in Customer \ todo'[j] /\ amount'[j] \in 1..MaxUsage
    <3>1. CASE j = i
      BY <1>10, <2>1, <2>5, <3>1 DEF Check
    <3>2. CASE j # i
      <4>1. /\ pc'[j] = pc[j] /\ todo'[j] = todo[j]
            /\ customer'[j] = customer[j] /\ amount'[j] = amount[j]
        BY <1>10, <3>2 DEF Check
      <4>2. QED
        BY <2>5, <4>1
    <3>3. QED
      BY <3>1, <3>2
  <2>6. QED
    BY <1>10, <2>2, <2>3, <2>4, <2>5 DEF Check
<1>11. ASSUME NEW i \in Instance, NEW received \in BOOLEAN, SendFails(i, received) PROVE TypeInv'
  BY <1>11 DEF SendFails, Meter
<1>12. QED
  BY <1>1, <1>2, <1>3, <1>4, <1>5, <1>6, <1>7, <1>8, <1>9, <1>10, <1>11 DEF Next

-----------------------------------------------------------------------------
\* Sums, once read, and hours, once settled, stay so in every step.
LEMMA Kept ==
    ASSUME TypeInv, Next
    PROVE  /\ events \subseteq events'
           /\ \A c, h : OnBill(c, h) => OnBill(c, h)'
           /\ \A c \in Customer, h \in Hour, v \in Nat : Sum(c, h, v) => Sum(c, h, v)'
           /\ \A c \in Customer, h \in Hour : Settled(c, h) => Settled(c, h)'
<1>1. events \subseteq events' /\ read \subseteq read'
  <2> USE DEF ghosts
  <2>1. ASSUME NEW c \in Customer, NEW h \in Hour, LogUsage(c, h)
        PROVE  events \subseteq events' /\ read \subseteq read'
    BY <2>1 DEF LogUsage
  <2>2. CASE NewHour
    BY <2>2 DEF NewHour
  <2>3. CASE Halt
    BY <2>3 DEF Halt, vars
  <2>4. ASSUME NEW i \in Instance,
               \/ Tick(i) \/ SendOk(i) \/ Note(i) \/ Finish(i) \/ DatabaseFails(i) \/ Restart(i)
        PROVE  events \subseteq events' /\ read \subseteq read'
    BY <2>4 DEF Tick, SendOk, Note, Finish, DatabaseFails, Restart, Meter
  <2>5. ASSUME NEW i \in Instance, NEW c \in Customer, Check(i, c)
        PROVE  events \subseteq events' /\ read \subseteq read'
    BY <2>5 DEF Check
  <2>6. ASSUME NEW i \in Instance, NEW received \in BOOLEAN, SendFails(i, received)
        PROVE  events \subseteq events' /\ read \subseteq read'
    BY <2>6 DEF SendFails, Meter
  <2>7. QED
    BY <2>1, <2>2, <2>3, <2>4, <2>5, <2>6 DEF Next
<1>2. \A c, h : OnBill(c, h) => OnBill(c, h)'
  BY <1>1 DEF OnBill
<1>3. \A c \in Customer, h \in Hour :
        \/ logged'[c][h] = logged[c][h] /\ late'[c][h] = late[c][h]
        \/ logged'[c][h] = logged[c][h] + 1 /\ late'[c][h] = late[c][h] + 1
        \/ <<c, h>> \notin read
  <2>1. ASSUME NEW c \in Customer, NEW h \in Hour, LogUsage(c, h),
               NEW d \in Customer, NEW k \in Hour
        PROVE  \/ logged'[d][k] = logged[d][k] /\ late'[d][k] = late[d][k]
               \/ logged'[d][k] = logged[d][k] + 1 /\ late'[d][k] = late[d][k] + 1
               \/ <<d, k>> \notin read
    <3> USE DEF TypeInv, TypeOK
    <3>1. CASE d = c /\ k = h
      BY <2>1, <3>1 DEF LogUsage
    <3>2. CASE d # c \/ k # h
      BY <2>1, <3>2 DEF LogUsage
    <3>3. QED
      BY <3>1, <3>2
  <2>2. CASE UNCHANGED <<logged, late>>
    BY <2>2
  <2>3. (\E c \in Customer, h \in Hour : LogUsage(c, h)) \/ UNCHANGED <<logged, late>>
    BY DEF Next, ghosts, vars, NewHour, Halt, Tick, SendOk, Note, Finish, DatabaseFails, Restart,
           Check, SendFails
  <2>4. QED
    BY <2>1, <2>2, <2>3
<1>4. ASSUME NEW c \in Customer, NEW h \in Hour
      PROVE  logged[c][h] \in Nat /\ late[c][h] \in Nat
  BY HourAssumption DEF TypeInv, TypeOK
<1>5. \A c \in Customer, h \in Hour, v \in Nat : Sum(c, h, v) => Sum(c, h, v)'
  BY <1>1, <1>3, <1>4 DEF Sum
<1>6. \A c \in Customer, h \in Hour : Settled(c, h) => Settled(c, h)'
  BY <1>1, <1>2, <1>3, <1>4 DEF Settled
<1>7. QED
  BY <1>1, <1>2, <1>5, <1>6

\* What a call of Stripe does: the hour was not on the bill and is now, or it was.
LEMMA Metered ==
    ASSUME Inv, NEW i \in Instance, pc[i] = "send", events' = Meter(i)
    PROVE  /\ \E e \in events' : e.customer = customer[i] /\ e.hour = period[i]
           /\ \/ events' = events
              \/ /\ ~OnBill(customer[i], period[i])
                 /\ events' = events \cup {Ledger!Line(customer[i], period[i], amount[i])}
<1>1. CASE \E e \in events : e.id = Identifier(i)
  <2>1. PICK e \in events : e.id = <<customer[i], period[i]>>
    BY <1>1 DEF Identifier
  <2>2. e = [id |-> <<e.customer, e.hour>>, customer |-> e.customer, hour |-> e.hour, value |-> e.value]
    BY DEF Inv, EventsTrue, Ledger!Line
  <2>3. e.customer = customer[i] /\ e.hour = period[i]
    BY <2>1, <2>2
  <2>4. events' = events
    BY <1>1 DEF Meter
  <2>5. QED
    BY <2>3, <2>4 DEF OnBill
<1>2. CASE ~\E e \in events : e.id = Identifier(i)
  <2> DEFINE new == [id |-> <<customer[i], period[i]>>, customer |-> customer[i],
                     hour |-> period[i], value |-> amount[i]]
  <2>1. events' = events \cup {new}
    BY <1>2 DEF Meter, Identifier
  <2>2. new = Ledger!Line(customer[i], period[i], amount[i])
    BY DEF Ledger!Line
  <2>3. \A e \in events : e.id = <<e.customer, e.hour>>
    <3>1. \A e \in events : e = [id |-> <<e.customer, e.hour>>, customer |-> e.customer,
                                  hour |-> e.hour, value |-> e.value]
      BY DEF Inv, EventsTrue, Ledger!Line
    <3>2. QED
      BY <3>1
  <2>4. ~OnBill(customer[i], period[i])
    BY <1>2, <2>3 DEF OnBill, Identifier
  <2>5. new \in events' /\ new.customer = customer[i] /\ new.hour = period[i]
    BY <2>1
  <2>6. QED
    BY <2>1, <2>2, <2>4, <2>5
<1>3. QED
  BY <1>1, <1>2

LEMMA EventsTrueKept ==
    ASSUME Inv, Next
    PROVE  EventsTrue'
<1> USE DEF Inv
<1>1. ASSUME NEW e \in events
      PROVE  e = Ledger!Line(e.customer, e.hour, e.value) /\ Sum(e.customer, e.hour, e.value)'
  <2>1. e.customer \in Customer /\ e.hour \in Hour /\ e.value \in Nat
    BY HourAssumption DEF TypeInv, TypeOK
  <2>2. QED
    BY <2>1, Kept DEF EventsTrue
<1>2. CASE events' = events
  BY <1>1, <1>2 DEF EventsTrue
<1>3. ASSUME NEW i \in Instance, pc[i] = "send", events' = Meter(i)
      PROVE  EventsTrue'
  <2>1. customer[i] \in Customer /\ period[i] \in Hour /\ amount[i] \in Nat
    BY <1>3, HourAssumption DEF TypeInv, TypeOK
  <2>2. PICK c \in Customer, h \in Hour, v \in Nat :
           c = customer[i] /\ h = period[i] /\ v = amount[i]
    BY <2>1
  <2> DEFINE new == Ledger!Line(c, h, v)
  <2>3. Sum(c, h, v)
    BY <1>3, <2>2 DEF AtWork, Sum
  <2>4. Sum(c, h, v)'
    BY <2>3, Kept
  <2>5. new.customer = c /\ new.hour = h /\ new.value = v
    BY DEF Ledger!Line
  <2>6. new = Ledger!Line(new.customer, new.hour, new.value) /\ Sum(new.customer, new.hour, new.value)'
    BY <2>4, <2>5
  <2>7. events' = events \/ events' = events \cup {new}
    <3>1. new = Ledger!Line(customer[i], period[i], amount[i])
      BY <2>2
    <3>2. QED
      BY <1>3, <3>1, Metered
  <2> HIDE DEF new
  <2>8. \A e \in events' : e = Ledger!Line(e.customer, e.hour, e.value)
                           /\ Sum(e.customer, e.hour, e.value)'
    BY <1>1, <2>6, <2>7
  <2>9. QED
    BY <2>8 DEF EventsTrue
<1>4. events' = events \/ \E i \in Instance : pc[i] = "send" /\ events' = Meter(i)
  BY DEF Next, LogUsage, NewHour, Halt, vars, Tick, SendOk, Note, Finish, DatabaseFails, Restart,
         Check, SendFails
<1>5. QED
  BY <1>2, <1>3, <1>4

\* A sum in flight is one; after the call of Stripe its hour is on the bill.
LEMMA AtWorkKept ==
    ASSUME Inv, Next
    PROVE  AtWork'
<1> USE HourAssumption DEF Inv, TypeInv, TypeOK
<1>1. SUFFICES ASSUME NEW j \in Instance, pc'[j] \in {"send", "insert"}
               PROVE  /\ Sum(customer[j], period[j], amount[j])'
                      /\ pc'[j] = "insert" => OnBill(customer[j], period[j])'
  BY DEF AtWork
<1>2. CASE /\ pc[j] \in {"send", "insert"} /\ pc'[j] = pc[j] /\ customer'[j] = customer[j]
           /\ period'[j] = period[j] /\ amount'[j] = amount[j]
  <2>1. customer[j] \in Customer /\ period[j] \in Hour /\ amount[j] \in Nat
    BY <1>2
  <2>2. PICK c \in Customer, h \in Hour, v \in Nat :
           c = customer[j] /\ h = period[j] /\ v = amount[j]
    BY <2>1
  <2>3. Sum(c, h, v) /\ (pc[j] = "insert" => OnBill(c, h))
    BY <1>2, <2>2 DEF AtWork, Sum, OnBill
  <2>4. Sum(c, h, v)' /\ (pc[j] = "insert" => OnBill(c, h)')
    BY <2>3, Kept
  <2>5. QED
    BY <1>2, <2>2, <2>4 DEF Sum, OnBill
<1>3. CASE SendOk(j)
  <2>1. customer[j] \in Customer /\ period[j] \in Hour /\ amount[j] \in Nat
    BY <1>3 DEF SendOk
  <2>2. PICK c \in Customer, h \in Hour, v \in Nat :
           c = customer[j] /\ h = period[j] /\ v = amount[j]
    BY <2>1
  <2>3. Sum(c, h, v)
    BY <1>3, <2>2 DEF AtWork, Sum, SendOk
  <2>4. Sum(c, h, v)'
    BY <2>3, Kept
  <2>5. \E e \in events' : e.customer = c /\ e.hour = h
    BY <1>3, <2>2, Metered DEF SendOk
  <2>6. customer' = customer /\ period' = period /\ amount' = amount
    BY <1>3 DEF SendOk
  <2>7. QED
    BY <2>2, <2>4, <2>5, <2>6 DEF Sum, OnBill
<1>4. ASSUME NEW c \in Customer, Check(j, c)
      PROVE  /\ Sum(customer[j], period[j], amount[j])'
             /\ pc'[j] = "insert" => OnBill(customer[j], period[j])'
  <2>1. /\ pc'[j] = "send" /\ customer'[j] = c /\ amount'[j] = logged[c][period[j]]
        /\ read' = read \cup {<<c, period[j]>>}
        /\ period' = period /\ logged' = logged /\ late' = late
    BY <1>1, <1>4 DEF Check
  <2>2. period[j] \in Hour /\ logged[c][period[j]] \in Nat /\ late[c][period[j]] \in Nat
    OBVIOUS
  <2>3. QED
    BY <2>1, <2>2 DEF Sum
<1>5. ASSUME NEW i \in Instance,
             \/ Tick(i) \/ SendOk(i) \/ Note(i) \/ Finish(i) \/ DatabaseFails(i) \/ Restart(i)
             \/ \E c \in Customer : Check(i, c)
             \/ \E received \in BOOLEAN : SendFails(i, received)
      PROVE  \/ <1>2!1
             \/ i = j /\ (SendOk(j) \/ \E c \in Customer : Check(j, c))
  <2>1. CASE i = j
    BY <1>1, <1>5, <2>1 DEF Tick, Note, Finish, DatabaseFails, Restart, SendFails
  <2>2. CASE i # j
    <3>1. ASSUME Tick(i) PROVE <1>2!1
      BY <1>1, <2>2, <3>1 DEF Tick
    <3>2. ASSUME SendOk(i) PROVE <1>2!1
      BY <1>1, <2>2, <3>2 DEF SendOk
    <3>3. ASSUME Note(i) PROVE <1>2!1
      BY <1>1, <2>2, <3>3 DEF Note
    <3>4. ASSUME Finish(i) PROVE <1>2!1
      BY <1>1, <2>2, <3>4 DEF Finish
    <3>5. ASSUME DatabaseFails(i) PROVE <1>2!1
      BY <1>1, <2>2, <3>5 DEF DatabaseFails
    <3>6. ASSUME Restart(i) PROVE <1>2!1
      BY <1>1, <2>2, <3>6 DEF Restart
    <3>7. ASSUME NEW c \in Customer, Check(i, c) PROVE <1>2!1
      BY <1>1, <2>2, <3>7 DEF Check
    <3>8. ASSUME NEW received \in BOOLEAN, SendFails(i, received) PROVE <1>2!1
      BY <1>1, <2>2, <3>8 DEF SendFails
    <3>9. QED
      BY <1>5, <3>1, <3>2, <3>3, <3>4, <3>5, <3>6, <3>7, <3>8
  <2>3. QED
    BY <2>1, <2>2
<1>6. CASE (\E c \in Customer, h \in Hour : LogUsage(c, h)) \/ NewHour \/ Halt
  <2>1. UNCHANGED <<pc, customer, period, amount>>
    BY <1>6 DEF LogUsage, NewHour, Halt, vars, run
  <2>2. QED
    BY <1>1, <1>2, <2>1
<1>7. QED
  BY <1>2, <1>3, <1>4, <1>5, <1>6 DEF Next

LEMMA NotedKept ==
    ASSUME Inv, Next
    PROVE  NotedOnBill'
<1>1. \A c \in Customer, h \in Hour : <<c, h>> \in reports => OnBill(c, h)'
  BY Kept DEF Inv, NotedOnBill
<1>2. CASE reports' = reports
  BY <1>1, <1>2 DEF NotedOnBill
<1>3. ASSUME NEW i \in Instance, Note(i)
      PROVE  NotedOnBill'
  <2>1. reports' = reports \cup {<<customer[i], period[i]>>} /\ events' = events
    BY <1>3 DEF Note
  <2>2. \E e \in events : e.customer = customer[i] /\ e.hour = period[i]
    BY <1>3 DEF Inv, AtWork, OnBill, Note
  <2>3. QED
    BY <1>1, <2>1, <2>2 DEF NotedOnBill, OnBill
<1>4. reports' = reports \/ \E i \in Instance : Note(i)
  BY DEF Next, LogUsage, NewHour, Halt, vars, Tick, SendOk, Finish, DatabaseFails, Restart,
         Check, SendFails
<1>5. QED
  BY <1>2, <1>3, <1>4

\* What is on the bill has been read: it is settled.
LEMMA BilledIsSettled ==
    ASSUME Inv, NEW c \in Customer, NEW h \in Hour, OnBill(c, h)
    PROVE  Settled(c, h)
<1>1. PICK e \in events : e.customer = c /\ e.hour = h
  BY DEF OnBill
<1>2. <<c, h>> \in read
  BY <1>1 DEF Inv, EventsTrue, Sum
<1>3. QED
  BY <1>2 DEF Settled

LEMMA RunSettlesKept ==
    ASSUME Inv, Next
    PROVE  RunSettles'
<1> USE HourAssumption DEF Inv, TypeInv, TypeOK
<1> DEFINE Undone(j, c) == pc[j] \in {"send", "insert"} /\ c = customer[j]
<1>1. SUFFICES ASSUME NEW j \in Instance, pc'[j] # "idle", j \notin flawed',
                      NEW c \in Customer \ todo'[j]
               PROVE  Settled(c, period[j])' \/ Undone(j, c)'
  BY DEF RunSettles
<1>2. ASSUME NEW h \in Hour, Settled(c, h) PROVE Settled(c, h)'
  BY <1>2, Kept
<1>3. PICK p \in Hour : p = period[j]
  OBVIOUS
<1>4. ASSUME pc[j] # "idle", j \notin flawed, c \notin todo[j]
      PROVE  Settled(c, p) \/ Undone(j, c)
  BY <1>3, <1>4 DEF RunSettles, Settled
<1>5. ASSUME Settled(c, p)', period'[j] = period[j]
      PROVE  Settled(c, period[j])'
  BY <1>3, <1>5 DEF Settled, OnBill
<1>6. CASE /\ pc'[j] = pc[j] /\ customer'[j] = customer[j] /\ period'[j] = period[j]
           /\ todo'[j] = todo[j] /\ (j \in flawed <=> j \in flawed')
  BY <1>1, <1>2, <1>4, <1>5, <1>6
<1>7. CASE Tick(j)
  BY <1>1, <1>7 DEF Tick
<1>8. CASE SendOk(j)
  <2>1. /\ pc[j] = "send" /\ pc'[j] = "insert" /\ customer' = customer /\ period' = period
        /\ todo' = todo /\ flawed' = flawed
    BY <1>8 DEF SendOk, ghosts
  <2>2. QED
    BY <1>1, <1>2, <1>4, <1>5, <2>1
<1>9. CASE Note(j)
  <2>1. /\ pc[j] = "insert" /\ period' = period /\ todo' = todo /\ flawed' = flawed
    BY <1>9 DEF Note, ghosts
  <2>2. CASE c = customer[j]
    <3>1. OnBill(c, p)
      BY <1>3, <2>1, <2>2 DEF AtWork, OnBill
    <3>2. QED
      BY <1>2, <1>5, <2>1, <3>1, BilledIsSettled
  <2>3. CASE c # customer[j]
    BY <1>1, <1>2, <1>4, <1>5, <2>1, <2>3
  <2>4. QED
    BY <2>2, <2>3
<1>10. ASSUME NEW d \in Customer, Check(j, d)
       PROVE  Settled(c, period[j])' \/ Undone(j, c)'
  <2>1. /\ pc[j] = "next" /\ d \in todo[j] /\ todo'[j] = todo[j] \ {d}
        /\ period' = period /\ flawed' = flawed
        /\ UNCHANGED <<logged, late, events>>
    BY <1>10 DEF Check
  <2>2. CASE c # d
    BY <1>1, <1>2, <1>4, <1>5, <2>1, <2>2
  <2>3. CASE c = d /\ <<d, p>> \in reports
    <3>1. OnBill(c, p)
      BY <2>3 DEF NotedOnBill
    <3>2. QED
      BY <1>2, <1>5, <2>1, <3>1, BilledIsSettled
  <2>4. CASE c = d /\ <<d, p>> \notin reports
    <3>1. /\ customer'[j] = c /\ read' = read \cup {<<c, p>>}
          /\ pc'[j] = IF logged[c][p] = 0 THEN "next" ELSE "send"
      BY <1>3, <1>10, <2>4 DEF Check
    <3>2. CASE logged[c][p] = 0
      <4>1. late[c][p] \in Nat
        OBVIOUS
      <4>2. Settled(c, p)'
        BY <2>1, <3>1, <3>2, <4>1 DEF Settled
      <4>3. QED
        BY <1>5, <2>1, <4>2
    <3>3. QED
      BY <3>1, <3>2
  <2>5. QED
    BY <2>2, <2>3, <2>4
<1>11. ASSUME NEW i \in Instance, i # j,
              \/ Tick(i) \/ SendOk(i) \/ Note(i) \/ Finish(i) \/ DatabaseFails(i) \/ Restart(i)
              \/ \E d \in Customer : Check(i, d)
              \/ \E received \in BOOLEAN : SendFails(i, received)
       PROVE  <1>6!1
  <2> USE <1>11 DEF ghosts
  <2>1. ASSUME Tick(i) PROVE <1>6!1
    BY <2>1 DEF Tick
  <2>2. ASSUME SendOk(i) PROVE <1>6!1
    BY <2>2 DEF SendOk
  <2>3. ASSUME Note(i) PROVE <1>6!1
    BY <2>3 DEF Note
  <2>4. ASSUME Finish(i) PROVE <1>6!1
    BY <2>4 DEF Finish
  <2>5. ASSUME DatabaseFails(i) PROVE <1>6!1
    BY <2>5 DEF DatabaseFails
  <2>6. ASSUME Restart(i) PROVE <1>6!1
    BY <2>6 DEF Restart
  <2>7. ASSUME NEW d \in Customer, Check(i, d) PROVE <1>6!1
    BY <2>7 DEF Check
  <2>8. ASSUME NEW received \in BOOLEAN, SendFails(i, received) PROVE <1>6!1
    BY <2>8 DEF SendFails
  <2>9. QED
    BY <2>1, <2>2, <2>3, <2>4, <2>5, <2>6, <2>7, <2>8
<1>12. CASE Finish(j) \/ DatabaseFails(j) \/ Restart(j)
            \/ \E received \in BOOLEAN : SendFails(j, received)
  BY <1>1, <1>12 DEF Finish, DatabaseFails, Restart, SendFails
<1>13. CASE (\E d \in Customer, h \in Hour : LogUsage(d, h)) \/ NewHour \/ Halt
  <2>1. UNCHANGED <<pc, customer, period, todo, flawed>>
    BY <1>13 DEF LogUsage, NewHour, Halt, vars, run, ghosts
  <2>2. QED
    BY <1>6, <2>1
<1>14. QED
  BY <1>6, <1>7, <1>8, <1>9, <1>10, <1>11, <1>12, <1>13 DEF Next

LEMMA CleanKept ==
    ASSUME Inv, Next
    PROVE  CleanSettled'
<1> USE DEF Inv, TypeInv, TypeOK
<1>1. ASSUME NEW h \in clean, NEW c \in Customer PROVE Settled(c, h)'
  BY <1>1, Kept DEF CleanSettled
<1>2. CASE clean' = clean
  BY <1>1, <1>2 DEF CleanSettled
<1>3. ASSUME NEW i \in Instance, Finish(i), i \notin flawed
      PROVE  CleanSettled'
  <2>1. PICK p \in Hour : p = period[i]
    OBVIOUS
  <2>2. clean' = clean \cup {p} /\ todo[i] = {} /\ pc[i] = "next"
    BY <1>3, <2>1 DEF Finish
  <2>3. ASSUME NEW c \in Customer PROVE Settled(c, p)'
    <3>1. Settled(c, p)
      BY <1>3, <2>1, <2>2 DEF RunSettles, Settled
    <3>2. QED
      BY <3>1, Kept
  <2>4. QED
    BY <1>1, <2>2, <2>3 DEF CleanSettled
<1>4. clean' = clean \/ \E i \in Instance : Finish(i) /\ i \notin flawed
  BY DEF Next, LogUsage, NewHour, Halt, vars, ghosts, Tick, SendOk, Note, Finish, DatabaseFails,
         Restart, Check, SendFails
<1>5. QED
  BY <1>2, <1>3, <1>4

-----------------------------------------------------------------------------
LEMMA Invariance == Spec => []Inv
<1>1. Inv /\ [Next]_vars => Inv'
  <2> SUFFICES ASSUME Inv, [Next]_vars PROVE Inv'
    OBVIOUS
  <2>1. CASE Next
    BY <2>1, Types, EventsTrueKept, AtWorkKept, NotedKept, RunSettlesKept, CleanKept DEF Inv
  <2>2. CASE UNCHANGED vars
    BY <2>2 DEF vars, run, ghosts, Inv, TypeInv, TypeOK, EventsTrue, AtWork, NotedOnBill,
                RunSettles, CleanSettled, Settled, Sum, OnBill
  <2>3. QED
    BY <2>1, <2>2
<1>2. QED
  BY Initially, <1>1, PTL DEF Spec

\* Variables keep their types, and sums in flight are those of customers with usage
\* (billing_cron.rs:44-158).
THEOREM TypeCorrect == Spec => []TypeOK
<1>1. Inv => TypeOK
  BY DEF Inv, TypeInv
<1>2. QED
  BY Invariance, <1>1, PTL

\* A run that met no failure has metered all that was used in its hour, but for the
\* records that appeared after the sum was read (billing_cron.rs:71-155).
THEOREM CleanRunsBillAll == Spec => []CleanRunBillsAll
<1>1. Inv => CleanRunBillsAll
  <2> SUFFICES ASSUME Inv, NEW h \in clean, NEW c \in Customer, logged[c][h] > late[c][h]
               PROVE  \E e \in events : /\ e.customer = c /\ e.hour = h
                                       /\ e.value + late[c][h] >= logged[c][h]
    BY DEF CleanRunBillsAll
  <2>1. PICK e \in events : e.customer = c /\ e.hour = h
    BY DEF Inv, CleanSettled, Settled, OnBill
  <2>2. logged[c][h] <= e.value + late[c][h]
    BY <2>1 DEF Inv, EventsTrue, Sum
  <2>3. e.value \in Nat /\ logged[c][h] \in Nat /\ late[c][h] \in Nat
    BY HourAssumption DEF Inv, TypeInv, TypeOK
  <2>4. QED
    BY <2>1, <2>2, <2>3
<1>2. QED
  BY Invariance, <1>1, PTL

-----------------------------------------------------------------------------
\* The reporters implement the ledger: an hour of a customer is billed once, never
\* beyond what was used, and noted only when it is billed, whatever the instances,
\* crashes and lost calls (billing_cron.rs:42-158; billing.rs:86-106).
THEOREM LedgerImplemented == Spec => ImplementsLedger
<1>1. Init => Ledger!Init
  BY DEF Init, Ledger!Init
<1>2. ASSUME Inv, [Next]_vars
      PROVE  [Ledger!Next]_(Ledger!vars)
  <2> USE <1>2 DEF Ledger!vars
  <2>1. ASSUME NEW c \in Customer, NEW h \in Hour, LogUsage(c, h)
        PROVE  Ledger!Next
    <3>1. Ledger!Use(c, h)
      BY <2>1 DEF LogUsage, Ledger!Use
    <3>2. QED
      BY <3>1 DEF Ledger!Next
  <2>2. ASSUME NEW i \in Instance, pc[i] = "send", events' = Meter(i),
               UNCHANGED <<logged, reports>>
        PROVE  [Ledger!Next]_(Ledger!vars)
    <3>1. CASE events' = events
      BY <2>2, <3>1
    <3>2. CASE /\ ~OnBill(customer[i], period[i])
               /\ events' = events \cup {Ledger!Line(customer[i], period[i], amount[i])}
      <4>1. PICK c \in Customer, h \in Hour : c = customer[i] /\ h = period[i]
        BY <2>2 DEF Inv, TypeInv, TypeOK
      <4>2. amount[i] \in 1..logged[c][h]
        <5>1. amount[i] <= logged[c][h]
          BY <2>2, <4>1 DEF Inv, AtWork, Sum
        <5>2. amount[i] \in 1..MaxUsage /\ logged[c][h] \in 0..MaxUsage
          BY <2>2 DEF Inv, TypeInv, TypeOK
        <5>3. QED
          BY <5>1, <5>2, HourAssumption
      <4>3. Ledger!Bill(c, h)
        BY <2>2, <3>2, <4>1, <4>2 DEF Ledger!Bill, Ledger!OnBill, OnBill
      <4>4. QED
        BY <4>3 DEF Ledger!Next
    <3>3. QED
      BY <2>2, <3>1, <3>2, Metered
  <2>3. ASSUME NEW i \in Instance, Note(i)
        PROVE  Ledger!Next
    <3>1. PICK c \in Customer, h \in Hour : c = customer[i] /\ h = period[i]
      BY <2>3 DEF Note, Inv, TypeInv, TypeOK
    <3>2. \E e \in events : e.customer = c /\ e.hour = h
      BY <2>3, <3>1 DEF Note, Inv, AtWork, OnBill
    <3>3. Ledger!Note(c, h)
      BY <2>3, <3>1, <3>2 DEF Note, Ledger!Note, Ledger!OnBill
    <3>4. QED
      BY <3>3 DEF Ledger!Next
  <2>4. \/ UNCHANGED <<logged, events, reports>>
        \/ \E c \in Customer, h \in Hour : LogUsage(c, h)
        \/ \E i \in Instance : Note(i)
        \/ \E i \in Instance : pc[i] = "send" /\ events' = Meter(i) /\ UNCHANGED <<logged, reports>>
    BY DEF Next, vars, LogUsage, NewHour, Halt, Tick, SendOk, Finish, DatabaseFails,
                Restart, Check, SendFails
  <2>5. QED
    BY <2>1, <2>2, <2>3, <2>4
<1>3. QED
  BY Invariance, <1>1, <1>2, PTL DEF Spec, ImplementsLedger, Ledger!Spec

-----------------------------------------------------------------------------
\* Division with remainder.
LEMMA DivIs ==
    ASSUME NEW D \in Nat \ {0}, NEW t \in Nat
    PROVE  \E d \in Nat, r \in Nat :
              d = t \div D /\ r = t % D /\ r < D /\ t = D * d + r
<1>1. t = D * (t \div D) + (t % D) /\ t \div D \in Nat /\ t % D \in 0..D - 1
  OBVIOUS
<1>2. t % D \in Nat /\ t % D < D
  BY <1>1
<1>3. QED
  BY <1>1, <1>2

LEMMA DivNext ==
    ASSUME NEW D \in Nat \ {0}, NEW t \in Nat
    PROVE  (t + 1) \div D = IF (t + 1) % D = 0 THEN (t \div D) + 1 ELSE t \div D
<1>1. PICK d \in Nat, r \in Nat : d = t \div D /\ r < D /\ t = D * d + r
  BY DivIs
<1>2. PICK u \in Nat : u = t + 1
  OBVIOUS
<1>3. PICK e \in Nat, s \in Nat : e = u \div D /\ s = u % D /\ s < D /\ u = D * e + s
  BY DivIs
<1>4. PICK z \in Int : z = e - d
  OBVIOUS
<1>5. D * z = r + 1 - s
  <2>1. D * z = D * e - D * d
    BY <1>4
  <2>2. QED
    BY <1>1, <1>2, <1>3, <2>1
<1>6. /\ z >= 2 => D * z >= 2 * D
      /\ z <= -1 => D * z <= -D
      /\ z = 0 => D * z = 0
      /\ z = 1 => D * z = D
  OBVIOUS
<1>7. PICK y \in Int : y = D * z
  OBVIOUS
<1>8. z = IF s = 0 THEN 1 ELSE 0
  BY <1>1, <1>3, <1>5, <1>6, <1>7
<1>9. e = IF s = 0 THEN d + 1 ELSE d
  BY <1>4, <1>8
<1>10. QED
  BY <1>1, <1>2, <1>3, <1>9

LEMMA DivWindow ==
    ASSUME NEW D \in Nat \ {0}, NEW d \in Nat, NEW t \in Nat
    PROVE  d * D - D <= t /\ t < d * D <=> t \div D = d - 1
<1>1. PICK e \in Nat, r \in Nat : e = t \div D /\ r < D /\ t = D * e + r
  BY DivIs
<1>2. PICK z \in Int : z = d - 1 - e
  OBVIOUS
<1>3. d * D = D * z + D + D * e
  <2>1. d = z + 1 + e
    BY <1>2
  <2>2. QED
    BY <2>1
<1>4. /\ z >= 1 => D * z >= D
      /\ z <= -1 => D * z <= -D
      /\ z = 0 => D * z = 0
  OBVIOUS
<1>5. PICK x \in Int, y \in Int, w \in Int : x = d * D /\ y = D * z /\ w = D * e
  OBVIOUS
<1>6. x - D <= t /\ t < x <=> z = 0
  BY <1>1, <1>3, <1>4, <1>5
<1>7. d * D - D <= t /\ t < d * D <=> z = 0
  BY <1>5, <1>6
<1>8. z = 0 <=> e = d - 1
  BY <1>2
<1>9. QED
  BY <1>1, <1>7, <1>8

LEMMA DivGrows ==
    ASSUME NEW D \in Nat \ {0}, NEW t \in Nat, NEW u \in Nat, t <= u
    PROVE  t \div D <= u \div D
<1>1. PICK d \in Nat, r \in Nat : d = t \div D /\ r < D /\ t = D * d + r
  BY DivIs
<1>2. PICK e \in Nat, s \in Nat : e = u \div D /\ s < D /\ u = D * e + s
  BY DivIs
<1>3. PICK z \in Int : z = d - e
  OBVIOUS
<1>4. D * z <= s - r
  <2>1. D * z = D * d - D * e
    BY <1>3
  <2>2. QED
    BY <1>1, <1>2, <2>1
<1>5. z >= 1 => D * z >= D
  OBVIOUS
<1>6. PICK y \in Int : y = D * z
  OBVIOUS
<1>7. z <= 0
  BY <1>1, <1>2, <1>4, <1>5, <1>6
<1>8. QED
  BY <1>1, <1>2, <1>3, <1>7

\* Days go by a tick at a time; the window of a run at the first tick of a day is
\* the day before.
LEMMA DaysGoBy ==
    /\ \A t \in Nat : Day(t) \in Nat /\ Day(0) = 0
    /\ \A t, u \in Nat : t <= u => Day(t) <= Day(u)
    /\ \A t \in Nat : Day(t + 1) = IF (t + 1) % DayLength = 0 THEN Day(t) + 1 ELSE Day(t)
    /\ \A t \in Nat : t % DayLength = 0 => t = Day(t) * DayLength
    /\ \A d \in Nat, t \in Time : t \in Window(d * DayLength) <=> Day(t) = d - 1
<1>1. PICK D \in Nat \ {0} : D = DayLength
  BY DayAssumption
<1>2. \A t \in Nat : t \div D \in Nat /\ 0 \div D = 0
  OBVIOUS
<1>3. \A t, u \in Nat : t <= u => t \div D <= u \div D
  BY DivGrows
<1>4. \A t \in Nat : (t + 1) \div D = IF (t + 1) % D = 0 THEN (t \div D) + 1 ELSE t \div D
  BY DivNext
<1>5. ASSUME NEW t \in Nat, t % D = 0 PROVE t = (t \div D) * D
  <2>1. PICK d \in Nat, r \in Nat : d = t \div D /\ r = t % D /\ t = D * d + r
    BY DivIs
  <2>2. t = D * d /\ D * d = d * D
    BY <1>5, <2>1
  <2>3. QED
    BY <2>1, <2>2
<1>6. ASSUME NEW d \in Nat, NEW t \in Time
      PROVE  t \in Window(d * D) <=> t \div D = d - 1
  <2>1. t \in Nat
    BY DayAssumption DEF Time
  <2>2. d * D - D <= t /\ t < d * D <=> t \div D = d - 1
    BY <2>1, DivWindow
  <2>3. PICK x \in Int : x = d * D
    OBVIOUS
  <2>4. t \in Window(x) <=> x - D <= t /\ t < x
    BY <1>1, <2>1 DEF Window
  <2>5. QED
    BY <2>2, <2>3, <2>4
<1>7. QED
  BY <1>1, <1>2, <1>3, <1>4, <1>5, <1>6 DEF Day

LEMMA TimeAndDays ==
    /\ IsFiniteSet(Time) /\ Time \subseteq Nat
    /\ IsFiniteSet(Days) /\ Days \subseteq Nat
    /\ \A t \in Time : Day(t) \in Days
<1>1. IsFiniteSet(Time) /\ Time \subseteq Nat
  BY DayAssumption, FS_Interval DEF Time
<1>2. Days \subseteq Nat
  BY <1>1, DaysGoBy DEF Days
<1>3. IsFiniteSet(Days)
  <2> DEFINE f == [t \in Time |-> Day(t)]
  <2>1. f \in Surjection(Time, Days)
    BY DEF Surjection, Days
  <2> HIDE DEF f
  <2>2. QED
    BY <1>1, <2>1, FS_Surjection
<1>4. QED
  BY <1>1, <1>2, <1>3 DEF Days

\* The sums of the community modules are totals.
LEMMA SumsAreTotals ==
    /\ \A g, S : SumFunctionOnSet(g, S) = Total(g, S)
    /\ \A g : SumFunction(g) = Total(g, DOMAIN g)
BY DEF SumFunction, SumFunctionOnSet, FoldFunctionOnSet, MapThenFoldSet, Total, IsSum, Pick

LEMMA PoolIs ==
    ASSUME earned \in [Time -> Cents \cup {0}], NEW t \in Nat
    PROVE  Pool(t) \in Nat /\ Pool(t) \div Cardinality(Account) \in Nat
<1>1. Window(t) \subseteq Time /\ IsFiniteSet(Window(t))
  BY TimeAndDays, FS_Subset DEF Window
<1>2. \A u \in Window(t) : earned[u] \in Nat
  <2>1. Cents \cup {0} \subseteq Nat
    BY DayAssumption
  <2>2. QED
    BY <1>1, <2>1
<1>3. Pool(t) \in Nat
  BY <1>1, <1>2, TotalNat, SumsAreTotals DEF Pool
<1>4. Cardinality(Account) \in Nat \ {0}
  BY AccountAssumption, FS_CardinalityType, FS_EmptySet
<1>5. QED
  BY <1>3, <1>4

-----------------------------------------------------------------------------
PayoutTypes ==
    /\ PayoutTypeOK
    /\ restarts \in Nat /\ queryErrors \in Nat

\* The day whose payout an instance has begun in its present life.
Begun(i) == IF stage[i] = "paying" THEN Day(now) ELSE lastPaid[i]

\* The instances that are, in their present life, done with an account for a day.
Done(d, a) == {i \in Gateway : \/ lastPaid[i] >= d
                               \/ stage[i] = "paying" /\ d = Day(now) /\ a \notin unpaid[i]}

\* What a healthy run pays everyone on a day.
Share(d) == Pool(d * DayLength) \div Cardinality(Account)

DaysPast ==
    \A i \in Gateway : /\ lastPaid[i] <= Day(now)
                       /\ stage[i] = "paying" => lastPaid[i] < Day(now)

TransfersDone ==
    \A d \in Days, a \in Account :
        Len(transfers[d][a]) <= Cardinality(Done(d, a)) + restarts

\* A healthy instance pays at the first tick of every day.
InStep ==
    Healthy => \A i \in Gateway :
        /\ stage[i] # "down"
        /\ lastPaid[i] = IF now % DayLength = 0 /\ stage[i] \in {"waiting", "paying"}
                         THEN Day(now) - 1 ELSE Day(now)

CountedOnce ==
    Healthy => \A t \in Time : counted[t] = Cardinality({i \in Gateway : Begun(i) > Day(t)})

EqualShares ==
    Healthy => /\ \A i \in Gateway : stage[i] = "paying" => share[i] = Share(Day(now))
               /\ \A d \in Days, a \in Account :
                     \A k \in 1..Len(transfers[d][a]) : transfers[d][a][k] = Share(d)

PayoutInv ==
    /\ PayoutTypes /\ DaysPast /\ TransfersDone
    /\ InStep /\ CountedOnce /\ EqualShares

LEMMA DoneFinite ==
    \A d, a : /\ IsFiniteSet(Done(d, a)) /\ Cardinality(Done(d, a)) \in Nat
              /\ Cardinality(Done(d, a)) <= Cardinality(Gateway)
              /\ IsFiniteSet(Done(d, a)') /\ Cardinality(Done(d, a)') \in Nat
<1>1. \A d, a : Done(d, a) \subseteq Gateway /\ Done(d, a)' \subseteq Gateway
  BY DEF Done
<1>2. QED
  BY <1>1, GatewayAssumption, FS_Subset, FS_CardinalityType

LEMMA PayoutInitially == PayoutInit => PayoutInv
<1> SUFFICES ASSUME PayoutInit PROVE PayoutInv
  OBVIOUS
<1>1. Day(0) = 0 /\ 0 % DayLength = 0
  BY DaysGoBy, DayAssumption
<1>2. PayoutTypes
  BY DayAssumption DEF PayoutInit, PayoutTypes, PayoutTypeOK, Time
<1>3. DaysPast /\ InStep
  BY <1>1 DEF PayoutInit, DaysPast, InStep, NoDay
<1>4. TransfersDone
  BY DoneFinite DEF PayoutInit, TransfersDone
<1>5. CountedOnce
  <2>1. ASSUME NEW t \in Time PROVE {i \in Gateway : Begun(i) > Day(t)} = {}
    <3>1. PICK d \in Nat : d = Day(t)
      BY TimeAndDays
    <3>2. \A i \in Gateway : Begun(i) = -1
      BY DEF PayoutInit, Begun, NoDay
    <3>3. QED
      BY <3>1, <3>2
  <2>2. Cardinality({}) = 0
    BY FS_EmptySet
  <2>3. QED
    BY <2>1, <2>2 DEF PayoutInit, CountedOnce
<1>6. EqualShares
  BY DEF PayoutInit, EqualShares
<1>7. QED
  BY <1>2, <1>3, <1>4, <1>5, <1>6 DEF PayoutInv

-----------------------------------------------------------------------------
LEMMA PayoutTypesKept ==
    ASSUME PayoutTypes, [PayoutNext]_payoutVars
    PROVE  PayoutTypes'
<1>1. now \in Nat /\ Day(now) \in Days /\ Pool(now) \div Cardinality(Account) \in Nat
  BY TimeAndDays, PoolIs DEF PayoutTypes, PayoutTypeOK
<1> USE DEF PayoutTypes, PayoutTypeOK
<1>2. ASSUME NEW cents \in Cents, Advance(cents) PROVE PayoutTypes'
  BY <1>2, DayAssumption DEF Advance, Time, bounds
<1>3. ASSUME NEW i \in Gateway, Wait(i) \/ QueryFails(i) \/ EndRun(i) \/ Stop(i) \/ Start(i)
      PROVE  PayoutTypes'
  <2>1. lastPaid' \in [Gateway -> Days \cup {NoDay}]
    BY <1>1, <1>3 DEF Wait, QueryFails, EndRun, Stop, Start
  <2>2. stage' \in [Gateway -> {"waiting", "ticked", "paying", "down"}]
    BY <1>3 DEF Wait, QueryFails, EndRun, Stop, Start
  <2>3. unpaid' \in [Gateway -> SUBSET Account]
    BY <1>3 DEF Wait, QueryFails, EndRun, Stop, Start
  <2>4. restarts' \in Nat /\ queryErrors' \in Nat
    BY <1>3 DEF Wait, QueryFails, EndRun, Stop, Start, bounds
  <2>5. UNCHANGED <<now, earned, share, transfers, counted, failed>>
    BY <1>3 DEF Wait, QueryFails, EndRun, Stop, Start
  <2>6. QED
    BY <2>1, <2>2, <2>3, <2>4, <2>5
<1>4. ASSUME NEW i \in Gateway, PayNothing(i) \/ StartRun(i) PROVE PayoutTypes'
  <2>1. lastPaid' \in [Gateway -> Days \cup {NoDay}] /\ share' \in [Gateway -> Nat]
    BY <1>1, <1>4 DEF PayNothing, StartRun
  <2>2. /\ stage' \in [Gateway -> {"waiting", "ticked", "paying", "down"}]
        /\ unpaid' \in [Gateway -> SUBSET Account]
    BY <1>4 DEF PayNothing, StartRun
  <2>3. counted' \in [Time -> Nat]
    BY <1>4 DEF PayNothing, StartRun
  <2>4. UNCHANGED <<now, earned, transfers, bounds, failed>>
    BY <1>4 DEF PayNothing, StartRun
  <2>5. QED
    BY <2>1, <2>2, <2>3, <2>4 DEF bounds
<1>5. ASSUME NEW i \in Gateway, NEW a \in Account,
             Transfer(i, a) \/ \E made \in BOOLEAN : TransferFails(i, a, made)
      PROVE  PayoutTypes'
  <2>1. Transferred(i, a) \in [Days -> [Account -> Seq(Nat)]]
    BY <1>1 DEF Transferred
  <2>2. transfers' \in [Days -> [Account -> Seq(Nat)]] /\ failed' \subseteq Days \X Account
    BY <1>1, <1>5, <2>1 DEF Transfer, TransferFails
  <2>3. unpaid' \in [Gateway -> SUBSET Account]
    BY <1>5 DEF Transfer, TransferFails
  <2>4. QED
    BY <1>5, <2>2, <2>3 DEF Transfer, TransferFails, bounds
<1>6. CASE UNCHANGED payoutVars
  BY <1>6 DEF payoutVars, task, bounds
<1>7. QED
  BY <1>2, <1>3, <1>4, <1>5, <1>6 DEF PayoutNext, LastTickOver

LEMMA PayoutRanges ==
    ASSUME PayoutTypes
    PROVE  /\ now \in Nat /\ now \in Time /\ Day(now) \in Days /\ Day(now) \in Nat /\ Days \subseteq Nat
           /\ lastPaid \in [Gateway -> Days \cup {NoDay}]
           /\ stage \in [Gateway -> {"waiting", "ticked", "paying", "down"}]
           /\ unpaid \in [Gateway -> SUBSET Account]
           /\ \A i \in Gateway : lastPaid[i] \in Int
           /\ transfers \in [Days -> [Account -> Seq(Nat)]] /\ restarts \in Nat
<1>1. Days \cup {NoDay} \subseteq Int
  BY TimeAndDays DEF NoDay
<1>2. QED
  BY <1>1, TimeAndDays DEF PayoutTypes, PayoutTypeOK

LEMMA DaysPastKept ==
    ASSUME PayoutTypes, DaysPast, [PayoutNext]_payoutVars
    PROVE  DaysPast'
<1>1. /\ now \in Nat /\ Day(now) \in Nat
      /\ lastPaid \in [Gateway -> Days \cup {NoDay}]
      /\ stage \in [Gateway -> {"waiting", "ticked", "paying", "down"}]
      /\ \A i \in Gateway : lastPaid[i] \in Int
  BY PayoutRanges
<1>2. ASSUME NEW cents \in Cents, Advance(cents) PROVE DaysPast'
  <2>1. now' = now + 1 /\ Day(now) <= Day(now') /\ Day(now') \in Nat
    BY <1>1, <1>2, DaysGoBy DEF Advance
  <2>2. \A i \in Gateway : stage'[i] # "paying" /\ lastPaid'[i] = lastPaid[i]
    BY <1>1, <1>2 DEF Advance
  <2>3. Day(now)' = Day(now')
    BY DEF Day
  <2>4. QED
    BY <1>1, <2>1, <2>2, <2>3 DEF DaysPast
<1>3. ASSUME UNCHANGED now, NEW i \in Gateway,
             \A k \in Gateway \ {i} : lastPaid'[k] = lastPaid[k] /\ stage'[k] = stage[k],
             lastPaid'[i] \in {lastPaid[i], Day(now), NoDay},
             stage'[i] = "paying" => lastPaid'[i] = lastPaid[i] /\ lastPaid[i] # Day(now)
      PROVE  DaysPast'
  <2>1. Day(now)' = Day(now)
    BY <1>3 DEF Day
  <2>2. QED
    BY <1>1, <1>3, <2>1 DEF DaysPast, NoDay
<1>4. ASSUME NEW i \in Gateway,
             \/ Wait(i) \/ QueryFails(i) \/ EndRun(i) \/ Stop(i) \/ Start(i)
             \/ PayNothing(i) \/ StartRun(i)
      PROVE  DaysPast'
  <2>1. /\ UNCHANGED now
        /\ \A k \in Gateway \ {i} : lastPaid'[k] = lastPaid[k] /\ stage'[k] = stage[k]
        /\ lastPaid'[i] \in {lastPaid[i], Day(now), NoDay}
        /\ stage'[i] = "paying" => lastPaid'[i] = lastPaid[i] /\ lastPaid[i] # Day(now)
    BY <1>1, <1>4 DEF Wait, QueryFails, EndRun, Stop, Start, PayNothing, StartRun, PayNow
  <2>2. QED
    BY <1>3, <2>1
<1>5. ASSUME UNCHANGED <<now, lastPaid, stage>> PROVE DaysPast'
  BY <1>5 DEF DaysPast, Day
<1>6. QED
  BY <1>2, <1>4, <1>5 DEF PayoutNext, LastTickOver, Transfer, TransferFails, payoutVars, task

LEMMA TransfersDoneKept ==
    ASSUME PayoutTypes, DaysPast, TransfersDone, [PayoutNext]_payoutVars
    PROVE  TransfersDone'
<1>1. /\ now \in Nat /\ Day(now) \in Days /\ Day(now) \in Nat /\ Days \subseteq Nat
      /\ lastPaid \in [Gateway -> Days \cup {NoDay}]
      /\ stage \in [Gateway -> {"waiting", "ticked", "paying", "down"}]
      /\ unpaid \in [Gateway -> SUBSET Account]
      /\ \A i \in Gateway : lastPaid[i] \in Int
      /\ transfers \in [Days -> [Account -> Seq(Nat)]] /\ restarts \in Nat
  BY PayoutRanges
<1>2. ASSUME UNCHANGED <<transfers, restarts>>,
             \A d \in Days, a \in Account : Done(d, a) \subseteq Done(d, a)'
      PROVE  TransfersDone'
  <2> SUFFICES ASSUME NEW d \in Days, NEW a \in Account
               PROVE  Len(transfers[d][a]) <= Cardinality(Done(d, a)') + restarts
    BY <1>2 DEF TransfersDone
  <2>1. Cardinality(Done(d, a)) <= Cardinality(Done(d, a)')
    BY <1>2, DoneFinite, FS_Subset
  <2>2. Len(transfers[d][a]) <= Cardinality(Done(d, a)) + restarts /\ Len(transfers[d][a]) \in Nat
    BY <1>1 DEF TransfersDone
  <2>3. QED
    BY <1>1, <2>1, <2>2, DoneFinite
<1>3. ASSUME NEW cents \in Cents, Advance(cents) PROVE TransfersDone'
  <2>1. \A d \in Days, a \in Account : Done(d, a) \subseteq Done(d, a)'
    BY <1>1, <1>3 DEF Advance, Done
  <2>2. QED
    BY <1>2, <1>3, <2>1 DEF Advance, bounds
<1>4. ASSUME NEW i \in Gateway, Wait(i) \/ QueryFails(i) \/ Start(i) \/ StartRun(i) PROVE TransfersDone'
  <2>1. UNCHANGED <<now, transfers, restarts, lastPaid>>
    BY <1>4 DEF Wait, QueryFails, Start, StartRun, bounds
  <2>2. \A k \in Gateway : stage[k] = "paying" => stage'[k] = "paying" /\ unpaid'[k] = unpaid[k]
    BY <1>1, <1>4 DEF Wait, QueryFails, Start, StartRun
  <2>3. \A d \in Days, a \in Account : Done(d, a) \subseteq Done(d, a)'
    BY <2>1, <2>2 DEF Done, Day
  <2>4. QED
    BY <1>2, <2>1, <2>3
<1>5. ASSUME NEW i \in Gateway, PayNothing(i) \/ EndRun(i) PROVE TransfersDone'
  <2>1. UNCHANGED <<now, transfers, restarts, unpaid>>
    BY <1>5 DEF PayNothing, EndRun, bounds
  <2>2. /\ \A k \in Gateway \ {i} : lastPaid'[k] = lastPaid[k] /\ stage'[k] = stage[k]
        /\ lastPaid'[i] = Day(now)
    BY <1>1, <1>5 DEF PayNothing, EndRun
  <2>3. ASSUME NEW d \in Days, NEW a \in Account, i \in Done(d, a) PROVE lastPaid'[i] >= d
    <3>1. lastPaid[i] <= Day(now) /\ (lastPaid[i] >= d \/ d = Day(now)) /\ d \in Nat
      BY <1>1, <2>3 DEF Done, DaysPast
    <3>2. PICK x \in Int, y \in Nat : x = lastPaid[i] /\ y = Day(now)
      BY <1>1
    <3>3. y >= d
      BY <3>1, <3>2
    <3>4. QED
      BY <2>2, <3>2, <3>3
  <2>4. \A d \in Days, a \in Account : Done(d, a) \subseteq Done(d, a)'
    BY <2>1, <2>2, <2>3 DEF Done, Day
  <2>5. QED
    BY <1>2, <2>1, <2>4
<1>6. ASSUME NEW i \in Gateway, Stop(i) PROVE TransfersDone'
  <2> SUFFICES ASSUME NEW d \in Days, NEW a \in Account
               PROVE  Len(transfers'[d][a]) <= Cardinality(Done(d, a)') + restarts'
    BY DEF TransfersDone
  <2>1. Done(d, a) \ {i} \subseteq Done(d, a)'
    BY <1>1, <1>6 DEF Stop, Done, Day
  <2>2. Cardinality(Done(d, a)) <= Cardinality(Done(d, a)') + 1
    <3>1. /\ IsFiniteSet(Done(d, a) \ {i}) /\ Cardinality(Done(d, a) \ {i}) \in Nat
          /\ Cardinality(Done(d, a)) <= Cardinality(Done(d, a) \ {i}) + 1
      <4>1. CASE i \in Done(d, a)
        <5>1. PICK S : S = Done(d, a) /\ IsFiniteSet(S) /\ i \in S /\ Cardinality(S) \in Nat
          BY <4>1, DoneFinite
        <5>2. IsFiniteSet(S \ {i}) /\ Cardinality(S \ {i}) = Cardinality(S) - 1
          BY <5>1, FS_RemoveElement
        <5>3. Cardinality(S \ {i}) \in Nat
          BY <5>2, FS_CardinalityType
        <5>4. QED
          BY <5>1, <5>2, <5>3
      <4>2. CASE i \notin Done(d, a)
        <5>1. Done(d, a) \ {i} = Done(d, a)
          BY <4>2
        <5>2. QED
          BY <5>1, DoneFinite
      <4>3. QED
        BY <4>1, <4>2
    <3>2. Cardinality(Done(d, a) \ {i}) <= Cardinality(Done(d, a)')
      BY <2>1, DoneFinite, FS_Subset
    <3>3. QED
      BY <3>1, <3>2, DoneFinite
  <2>3. Len(transfers[d][a]) <= Cardinality(Done(d, a)) + restarts /\ Len(transfers[d][a]) \in Nat
    BY <1>1 DEF TransfersDone
  <2>4. transfers' = transfers /\ restarts' = restarts + 1
    BY <1>6 DEF Stop
  <2>5. QED
    BY <1>1, <2>2, <2>3, <2>4, DoneFinite
<1>7. ASSUME NEW i \in Gateway, NEW b \in Account,
             Transfer(i, b) \/ \E made \in BOOLEAN : TransferFails(i, b, made)
      PROVE  TransfersDone'
  <2>1. /\ UNCHANGED <<now, restarts, lastPaid, stage>> /\ stage[i] = "paying" /\ b \in unpaid[i]
        /\ unpaid' = [unpaid EXCEPT ![i] = @ \ {b}]
        /\ transfers' = transfers \/ transfers' = Transferred(i, b)
    BY <1>7 DEF Transfer, TransferFails, bounds
  <2> SUFFICES ASSUME NEW d \in Days, NEW a \in Account
               PROVE  Len(transfers'[d][a]) <= Cardinality(Done(d, a)') + restarts
    BY <2>1 DEF TransfersDone
  <2>2. Done(d, a) \subseteq Done(d, a)'
    BY <1>1, <2>1 DEF Done, Day
  <2>3. Cardinality(Done(d, a)) <= Cardinality(Done(d, a)')
    BY <2>2, DoneFinite, FS_Subset
  <2>4. Len(transfers[d][a]) <= Cardinality(Done(d, a)) + restarts /\ Len(transfers[d][a]) \in Nat
    BY <1>1 DEF TransfersDone
  <2>5. CASE transfers'[d][a] = transfers[d][a]
    BY <1>1, <2>3, <2>4, <2>5, DoneFinite
  <2>6. CASE transfers'[d][a] # transfers[d][a]
    <3>1. transfers' = Transferred(i, b) /\ d = Day(now) /\ a = b
      BY <1>1, <2>1, <2>6 DEF Transferred
    <3>2. transfers'[d][a] = Append(transfers[d][a], share[i])
      BY <1>1, <3>1 DEF Transferred
    <3>3. Len(transfers'[d][a]) = Len(transfers[d][a]) + 1
      BY <1>1, <3>2
    <3>4. i \notin Done(d, a) /\ i \in Done(d, a)'
      BY <1>1, <2>1, <3>1 DEF Done, Day, DaysPast
    <3>5. Cardinality(Done(d, a) \cup {i}) = Cardinality(Done(d, a)) + 1
      BY <3>4, DoneFinite, FS_AddElement
    <3>6. Cardinality(Done(d, a) \cup {i}) <= Cardinality(Done(d, a)')
      BY <2>2, <3>4, DoneFinite, FS_Subset
    <3>7. QED
      BY <1>1, <2>4, <3>3, <3>5, <3>6, DoneFinite
  <2>7. QED
    BY <2>5, <2>6
<1>8. CASE UNCHANGED payoutVars
  <2>1. \A d \in Days, a \in Account : Done(d, a)' = Done(d, a)
    BY <1>8 DEF payoutVars, task, Done, Day
  <2>2. QED
    BY <1>2, <1>8, <2>1 DEF payoutVars, bounds
<1>9. QED
  BY <1>3, <1>4, <1>5, <1>6, <1>7, <1>8 DEF PayoutNext, LastTickOver

-----------------------------------------------------------------------------
\* A healthy instance begins a run at the first tick of a day and at no other.
LEMMA FirstTickOnly ==
    ASSUME PayoutTypes, InStep, DaysPast, Healthy, NEW i \in Gateway
    PROVE  /\ stage[i] = "waiting" => (PayNow(i) <=> now % DayLength = 0)
           /\ stage[i] = "paying" => now % DayLength = 0
           /\ now % DayLength = 0 /\ stage[i] \in {"waiting", "paying"} => lastPaid[i] = Day(now) - 1
<1>1. Day(now) \in Nat /\ lastPaid[i] \in Int
  BY PayoutRanges
<1>2. 0 < PayTicks
  BY DayAssumption
<1>3. PICK d \in Nat : d = Day(now)
  BY <1>1
<1>4. d - 1 # d
  OBVIOUS
<1>5. stage[i] = "paying" => lastPaid[i] < d
  BY <1>3 DEF DaysPast
<1>6. ~(d < d)
  OBVIOUS
<1>7. stage[i] = "paying" => now % DayLength = 0
  BY <1>3, <1>5, <1>6 DEF InStep
<1>8. QED
  BY <1>2, <1>3, <1>4, <1>7 DEF InStep, PayNow

LEMMA HealthyBefore ==
    ASSUME PayoutTypes, [PayoutNext]_payoutVars, Healthy'
    PROVE  Healthy /\ \A i \in Gateway : ~Stop(i) /\ ~QueryFails(i)
<1>1. restarts \in Nat /\ queryErrors \in Nat
  BY DEF PayoutTypes
<1>2. restarts' = restarts \/ restarts' = restarts + 1
  BY DEF PayoutNext, Advance, Wait, PayNothing, StartRun, QueryFails, EndRun, Transfer,
         TransferFails, Stop, Start, LastTickOver, payoutVars, bounds
<1>3. queryErrors' = queryErrors \/ queryErrors' = queryErrors + 1
  BY DEF PayoutNext, Advance, Wait, PayNothing, StartRun, QueryFails, EndRun, Transfer,
         TransferFails, Stop, Start, LastTickOver, payoutVars, bounds
<1>4. QED
  BY <1>1, <1>2, <1>3 DEF Healthy, Stop, QueryFails

LEMMA InStepKept ==
    ASSUME PayoutTypes, DaysPast, InStep, [PayoutNext]_payoutVars
    PROVE  InStep'
<1> SUFFICES ASSUME Healthy' PROVE InStep'
  BY DEF InStep
<1>1. Healthy /\ \A i \in Gateway : ~Stop(i) /\ ~QueryFails(i)
  BY HealthyBefore
<1>2. /\ now \in Nat /\ Day(now) \in Nat
      /\ lastPaid \in [Gateway -> Days \cup {NoDay}]
      /\ stage \in [Gateway -> {"waiting", "ticked", "paying", "down"}]
      /\ \A i \in Gateway : lastPaid[i] \in Int
  BY PayoutRanges
<1>3. ASSUME NEW cents \in Cents, Advance(cents) PROVE InStep'
  <2>1. \A i \in Gateway : lastPaid'[i] = Day(now) /\ stage'[i] = "waiting"
    BY <1>1, <1>2, <1>3 DEF InStep, Advance
  <2>2. PICK d \in Nat, e \in Nat :
           /\ d = Day(now) /\ e = Day(now)' /\ now' = now + 1
           /\ e = IF now' % DayLength = 0 THEN d + 1 ELSE d
    <3>1. PICK u \in Nat : u = now + 1 /\ u = now'
      BY <1>2, <1>3 DEF Advance
    <3>2. Day(u) \in Nat /\ Day(u) = IF u % DayLength = 0 THEN Day(now) + 1 ELSE Day(now)
      BY <1>2, <3>1, DaysGoBy
    <3>3. Day(now)' = Day(u)
      BY <3>1 DEF Day
    <3>4. QED
      BY <1>2, <3>1, <3>2, <3>3
  <2>3. d = IF now' % DayLength = 0 THEN e - 1 ELSE e
    BY <2>2
  <2>4. QED
    BY <2>1, <2>2, <2>3 DEF InStep
<1>4. ASSUME UNCHANGED now, NEW i \in Gateway,
             \A k \in Gateway \ {i} : lastPaid'[k] = lastPaid[k] /\ stage'[k] = stage[k],
             stage'[i] # "down",
             lastPaid'[i] = IF now % DayLength = 0 /\ stage'[i] \in {"waiting", "paying"}
                            THEN Day(now) - 1 ELSE Day(now)
      PROVE  InStep'
  <2>1. Day(now)' = Day(now) /\ now' = now
    BY <1>4 DEF Day
  <2>2. QED
    BY <1>1, <1>4, <2>1 DEF InStep
<1>5. ASSUME NEW i \in Gateway, Wait(i) \/ PayNothing(i) \/ StartRun(i) \/ EndRun(i)
      PROVE  InStep'
  <2>1. /\ UNCHANGED now /\ stage'[i] # "down"
        /\ \A k \in Gateway \ {i} : lastPaid'[k] = lastPaid[k] /\ stage'[k] = stage[k]
    BY <1>2, <1>5 DEF Wait, PayNothing, StartRun, EndRun
  <2>2. lastPaid'[i] = IF now % DayLength = 0 /\ stage'[i] \in {"waiting", "paying"}
                       THEN Day(now) - 1 ELSE Day(now)
    BY <1>1, <1>2, <1>5, FirstTickOnly DEF Wait, PayNothing, StartRun, EndRun, InStep
  <2>3. QED
    BY <1>4, <2>1, <2>2
<1>6. ASSUME NEW i \in Gateway, Start(i) PROVE InStep'
  BY <1>1, <1>6 DEF Start, InStep
<1>7. ASSUME UNCHANGED <<now, lastPaid, stage>> PROVE InStep'
  BY <1>1, <1>7 DEF InStep, Day
<1>8. QED
  BY <1>1, <1>3, <1>5, <1>6, <1>7 DEF PayoutNext, LastTickOver, Transfer, TransferFails, payoutVars, task

LEMMA CountedOnceKept ==
    ASSUME PayoutTypes, DaysPast, InStep, CountedOnce, [PayoutNext]_payoutVars
    PROVE  CountedOnce'
<1> SUFFICES ASSUME Healthy' PROVE CountedOnce'
  BY DEF CountedOnce
<1>1. Healthy /\ \A i \in Gateway : ~Stop(i) /\ ~QueryFails(i)
  BY HealthyBefore
<1>2. /\ now \in Nat /\ now \in Time /\ Day(now) \in Nat
      /\ lastPaid \in [Gateway -> Days \cup {NoDay}]
      /\ stage \in [Gateway -> {"waiting", "ticked", "paying", "down"}]
      /\ \A i \in Gateway : lastPaid[i] \in Int
  BY PayoutRanges
<1>3. ASSUME UNCHANGED counted, \A i \in Gateway : Begun(i)' = Begun(i) PROVE CountedOnce'
  <2>1. \A t \in Time : {i \in Gateway : Begun(i)' > Day(t)} = {i \in Gateway : Begun(i) > Day(t)}
    BY <1>3
  <2>2. \A t \in Time : counted[t] = Cardinality({i \in Gateway : Begun(i) > Day(t)})
    BY <1>1 DEF CountedOnce
  <2>3. QED
    BY <1>3, <2>1, <2>2 DEF CountedOnce, Day
<1>4. ASSUME NEW cents \in Cents, Advance(cents) PROVE CountedOnce'
  <2>1. \A i \in Gateway : Begun(i)' = Begun(i)
    BY <1>2, <1>4 DEF Advance, Begun
  <2>2. QED
    BY <1>3, <1>4, <2>1 DEF Advance
<1>5. ASSUME NEW i \in Gateway, Wait(i) \/ EndRun(i) \/ Start(i) PROVE CountedOnce'
  <2>1. \A k \in Gateway : Begun(k)' = Begun(k)
    BY <1>2, <1>5 DEF Wait, EndRun, Start, Begun, Day
  <2>2. QED
    BY <1>3, <1>5, <2>1 DEF Wait, EndRun, Start
<1>6. ASSUME NEW i \in Gateway, PayNothing(i) \/ StartRun(i) PROVE CountedOnce'
  <2>1. stage[i] = "waiting" /\ PayNow(i) /\ UNCHANGED now
        /\ counted' = [t \in Time |-> IF t \in Window(now) THEN counted[t] + 1 ELSE counted[t]]
    BY <1>6 DEF PayNothing, StartRun
  <2>2. PICK d \in Nat : /\ d = Day(now) /\ now = d * DayLength
                         /\ Begun(i) = d - 1 /\ Begun(i)' = d
    <3>1. now % DayLength = 0 /\ lastPaid[i] = Day(now) - 1
      BY <1>1, <2>1, FirstTickOnly
    <3>2. now = Day(now) * DayLength
      BY <1>2, <3>1, DaysGoBy
    <3>3. Begun(i) = Day(now) - 1
      BY <2>1, <3>1 DEF Begun
    <3>4. Begun(i)' = Day(now)
      BY <1>2, <1>6, <2>1 DEF PayNothing, StartRun, Begun, Day
    <3>5. QED
      BY <1>2, <3>2, <3>3, <3>4
  <2>3. \A k \in Gateway \ {i} : Begun(k)' = Begun(k)
    BY <1>2, <1>6 DEF PayNothing, StartRun, Begun, Day
  <2>4. SUFFICES ASSUME NEW t \in Time
                 PROVE  counted'[t] = Cardinality({k \in Gateway : Begun(k)' > Day(t)})
    BY DEF CountedOnce, Day
  <2> DEFINE before == {k \in Gateway : Begun(k) > Day(t)}
             after == {k \in Gateway : Begun(k)' > Day(t)}
  <2>5. Day(t) \in Nat /\ (t \in Window(now) <=> Day(t) = d - 1)
    BY <2>2, DaysGoBy, TimeAndDays
  <2>6. counted[t] = Cardinality(before) /\ IsFiniteSet(before)
    BY <1>1, GatewayAssumption, FS_Subset DEF CountedOnce
  <2>7. CASE Day(t) = d - 1
    <3>1. i \notin before /\ after = before \cup {i}
      <4>1. i \notin before /\ i \in after
        <5>1. ~(d - 1 > d - 1) /\ d > d - 1
          OBVIOUS
        <5>2. ~(Begun(i) > Day(t)) /\ Begun(i)' > Day(t)
          BY <2>2, <2>7, <5>1
        <5>3. QED
          BY <5>2
      <4>2. \A k \in Gateway \ {i} : k \in before <=> k \in after
        BY <2>3
      <4>3. QED
        BY <4>1, <4>2
    <3>2. Cardinality(after) = Cardinality(before) + 1
      BY <2>6, <3>1, FS_AddElement
    <3>3. QED
      BY <2>1, <2>5, <2>6, <2>7, <3>2
  <2>8. CASE Day(t) # d - 1
    <3>1. i \in before <=> i \in after
      BY <2>2, <2>5, <2>8
    <3>2. after = before
      BY <2>3, <3>1
    <3>3. QED
      BY <2>1, <2>5, <2>6, <2>8, <3>2
  <2>9. QED
    BY <2>7, <2>8
<1>7. ASSUME UNCHANGED <<now, lastPaid, stage, counted>> PROVE CountedOnce'
  BY <1>3, <1>7 DEF Begun, Day
<1>8. QED
  BY <1>1, <1>4, <1>5, <1>6, <1>7 DEF PayoutNext, LastTickOver, Transfer, TransferFails, payoutVars, task

\* Earning after the first tick of a day does not change that day's share.
LEMMA ShareStays ==
    ASSUME PayoutTypes, PayoutTypes', NEW d \in Days, d <= Day(now),
           \A t \in Time : t < now => earned'[t] = earned[t]
    PROVE  Share(d)' = Share(d)
<1>1. now \in Nat /\ Day(now) \in Nat /\ d \in Nat
  BY PayoutRanges
<1>2. IsFiniteSet(Window(d * DayLength)) /\ Window(d * DayLength) \subseteq Time
  BY TimeAndDays, FS_Subset DEF Window
<1>3. ASSUME NEW t \in Window(d * DayLength) PROVE earned'[t] = earned[t]
  <2>1. t \in Nat /\ Day(t) = d - 1
    BY <1>1, <1>2, TimeAndDays, DaysGoBy
  <2>2. now <= t => Day(now) <= Day(t)
    BY <1>1, <2>1, DaysGoBy
  <2>3. t < now
    BY <1>1, <2>1, <2>2
  <2>4. QED
    BY <1>2, <2>3
<1>4. Total(earned', Window(d * DayLength)) = Total(earned, Window(d * DayLength))
  BY <1>2, <1>3, TotalSame
<1>5. Pool(d * DayLength) = Total(earned, Window(d * DayLength))
  BY SumsAreTotals DEF Pool
<1>6. Pool(d * DayLength)' = Total(earned', Window(d * DayLength))
  <2>1. Pool(d * DayLength)' = SumFunctionOnSet(earned', Window(d * DayLength))
    BY DEF Pool, Window
  <2>2. QED
    BY <2>1, SumsAreTotals
<1>7. QED
  BY <1>4, <1>5, <1>6 DEF Share

LEMMA EqualSharesKept ==
    ASSUME PayoutInv, [PayoutNext]_payoutVars
    PROVE  EqualShares'
<1> SUFFICES ASSUME Healthy' PROVE EqualShares'
  BY DEF EqualShares
<1>1. Healthy /\ \A i \in Gateway : ~Stop(i) /\ ~QueryFails(i)
  BY HealthyBefore DEF PayoutInv
<1>2. PayoutTypes /\ PayoutTypes'
  BY PayoutTypesKept DEF PayoutInv
<1>3. /\ now \in Nat /\ Day(now) \in Nat /\ Days \subseteq Nat /\ Day(now) \in Days
      /\ stage \in [Gateway -> {"waiting", "ticked", "paying", "down"}]
      /\ transfers \in [Days -> [Account -> Seq(Nat)]] /\ restarts = 0
      /\ \A i \in Gateway : lastPaid[i] \in Int
  BY <1>1, <1>2, PayoutRanges DEF Healthy
<1>4. /\ \A i \in Gateway : stage[i] = "paying" => share[i] = Share(Day(now))
      /\ \A d \in Days, a \in Account :
            \A k \in 1..Len(transfers[d][a]) : transfers[d][a][k] = Share(d)
  BY <1>1 DEF PayoutInv, EqualShares
<1>5. ASSUME NEW d \in Days, NEW a \in Account, ~(d <= Day(now)) PROVE Len(transfers[d][a]) = 0
  <2>1. Done(d, a) = {}
    <3>1. PICK x \in Nat : x = Day(now) /\ ~(d <= x) /\ d \in Nat
      BY <1>3, <1>5
    <3>2. \A i \in Gateway : lastPaid[i] <= x
      BY <3>1 DEF PayoutInv, DaysPast
    <3>3. QED
      BY <1>3, <3>1, <3>2 DEF Done
  <2>2. Cardinality({}) = 0
    BY FS_EmptySet
  <2>3. QED
    <3>1. Len(transfers[d][a]) \in Nat
      BY <1>3
    <3>2. Len(transfers[d][a]) <= Cardinality(Done(d, a)) + restarts
      BY DEF PayoutInv, TransfersDone
    <3>3. Len(transfers[d][a]) <= 0 + 0
      BY <1>3, <2>1, <2>2, <3>2
    <3>4. QED
      BY <3>1, <3>3
<1>6. ASSUME UNCHANGED <<now, earned>> PROVE \A d : Share(d)' = Share(d) /\ Day(now)' = Day(now)
  BY <1>6 DEF Share, Pool, Window, Day
<1>7. ASSUME NEW cents \in Cents, Advance(cents) PROVE EqualShares'
  <2>1. /\ \A t \in Time : t < now => earned'[t] = earned[t]
        /\ transfers' = transfers /\ \A i \in Gateway : stage'[i] # "paying"
    BY <1>2, <1>3, <1>7 DEF Advance, PayoutTypes, PayoutTypeOK
  <2>2. ASSUME NEW d \in Days, NEW a \in Account, NEW k \in 1..Len(transfers[d][a])
        PROVE  transfers[d][a][k] = Share(d)'
    <3>1. d <= Day(now)
      BY <1>5
    <3>2. Share(d)' = Share(d)
      BY <1>2, <2>1, <3>1, ShareStays
    <3>3. QED
      BY <1>4, <3>2
  <2>3. QED
    BY <2>1, <2>2 DEF EqualShares
<1>8. ASSUME UNCHANGED <<now, earned, transfers>>,
             \A i \in Gateway : stage'[i] = "paying" => share'[i] = Share(Day(now))
      PROVE  EqualShares'
  BY <1>4, <1>6, <1>8 DEF EqualShares
<1>9. ASSUME NEW i \in Gateway, Wait(i) \/ PayNothing(i) \/ EndRun(i) \/ Start(i) PROVE EqualShares'
  <2>1. /\ UNCHANGED <<now, earned, transfers, share>>
        /\ \A k \in Gateway : stage'[k] = "paying" => stage[k] = "paying"
    BY <1>3, <1>9 DEF Wait, PayNothing, EndRun, Start
  <2>2. QED
    BY <1>4, <1>8, <2>1
<1>10. ASSUME NEW i \in Gateway, StartRun(i) PROVE EqualShares'
  <2>1. Day(now) * DayLength = now
    <3>1. now % DayLength = 0
      BY <1>1, <1>2, <1>10, FirstTickOnly DEF PayoutInv, StartRun
    <3>2. QED
      BY <1>3, <3>1, DaysGoBy
  <2>2. share'[i] = Share(Day(now))
    BY <1>2, <1>10, <2>1 DEF StartRun, Share, PayoutTypes, PayoutTypeOK
  <2>3. \A k \in Gateway \ {i} : stage'[k] = stage[k] /\ share'[k] = share[k]
    BY <1>2, <1>10 DEF StartRun, PayoutTypes, PayoutTypeOK
  <2>4. UNCHANGED <<now, earned, transfers>>
    BY <1>10 DEF StartRun
  <2>5. QED
    BY <1>4, <1>8, <2>2, <2>3, <2>4
<1>11. ASSUME NEW i \in Gateway, NEW b \in Account,
              Transfer(i, b) \/ \E made \in BOOLEAN : TransferFails(i, b, made)
       PROVE  EqualShares'
  <2>1. /\ UNCHANGED <<now, earned, stage, share>> /\ stage[i] = "paying"
        /\ transfers' = transfers \/ transfers' = Transferred(i, b)
    BY <1>11 DEF Transfer, TransferFails
  <2>2. ASSUME NEW d \in Days, NEW a \in Account
        PROVE  \A k \in 1..Len(transfers'[d][a]) : transfers'[d][a][k] = Share(d)
    <3>1. CASE transfers'[d][a] = transfers[d][a]
      BY <1>4, <3>1
    <3>2. CASE transfers'[d][a] # transfers[d][a]
      <4>1. /\ d = Day(now) /\ transfers[d][a] \in Seq(Nat)
            /\ transfers'[d][a] = Append(transfers[d][a], Share(d))
        BY <1>3, <1>4, <2>1, <3>2 DEF Transferred
      <4> PICK c : c = Share(d)
        OBVIOUS
      <4>2. PICK s \in Seq(Nat) : s = transfers[d][a]
        BY <4>1
      <4>3. \A k \in 1..Len(s) : s[k] = c
        BY <1>4, <4>2
      <4>4. \A k \in 1..Len(Append(s, c)) : Append(s, c)[k] = c
        BY <4>3
      <4>5. QED
        BY <4>1, <4>2, <4>4
    <3>3. QED
      BY <3>1, <3>2
  <2>3. QED
    BY <1>4, <1>6, <2>1, <2>2 DEF EqualShares
<1>12. CASE UNCHANGED payoutVars
  BY <1>4, <1>8, <1>12 DEF payoutVars, task
<1>13. QED
  BY <1>1, <1>7, <1>9, <1>10, <1>11, <1>12 DEF PayoutNext, LastTickOver

LEMMA PayoutInvariance == PayoutSpec => []PayoutInv
<1>1. PayoutInv /\ [PayoutNext]_payoutVars => PayoutInv'
  BY PayoutTypesKept, DaysPastKept, TransfersDoneKept, InStepKept, CountedOnceKept,
     EqualSharesKept DEF PayoutInv
<1>2. QED
  BY PayoutInitially, <1>1, PTL DEF PayoutSpec

-----------------------------------------------------------------------------
LEMMA ProductGrows ==
    ASSUME NEW x \in Nat, NEW y \in Nat, NEW q \in Nat, x <= y
    PROVE  x * q <= y * q
<1>1. PICK z \in Nat : y = x + z
  <2>1. y - x \in Nat /\ y = x + (y - x)
    OBVIOUS
  <2>2. QED
    BY <2>1
<1>2. y * q = x * q + z * q /\ z * q \in Nat /\ x * q \in Nat
  BY <1>1
<1>3. QED
  BY <1>2

LEMMA ReceivedIs ==
    ASSUME PayoutInv, Healthy, NEW d \in Days, NEW a \in Account
    PROVE  /\ Received(d, a) \in Nat /\ Share(d) \in Nat /\ Cardinality(Gateway) \in Nat
           /\ Received(d, a) <= Cardinality(Gateway) * Share(d)
<1>1. PayoutTypes /\ transfers \in [Days -> [Account -> Seq(Nat)]] /\ d \in Nat
  BY PayoutRanges DEF PayoutInv
<1>2. PICK s \in Seq(Nat), n \in Nat : s = transfers[d][a] /\ n = Len(s) /\ DOMAIN s = 1..n
  BY <1>1
<1>3. PICK q \in Nat : q = Share(d)
  <2>1. d * DayLength \in Nat
    BY <1>1, DayAssumption
  <2>2. QED
    BY <1>1, <2>1, PoolIs DEF Share, PayoutTypes, PayoutTypeOK
<1>4. \A k \in 1..n : s[k] = q
  BY <1>2, <1>3 DEF PayoutInv, EqualShares
<1>5. Received(d, a) = n * q
  <2>1. IsFiniteSet(1..n) /\ Cardinality(1..n) = n
    BY FS_Interval
  <2>2. Total(s, 1..n) = n * q
    BY <1>3, <1>4, <2>1, TotalConstant
  <2>3. QED
    BY <1>2, <2>2, SumsAreTotals DEF Received
<1>6. PICK c \in Nat : c = Cardinality(Gateway) /\ n <= c
  <2>1. n <= Cardinality(Done(d, a)) + restarts /\ restarts = 0
    BY <1>2 DEF PayoutInv, TransfersDone, Healthy
  <2>2. QED
    BY <2>1, DoneFinite, GatewayAssumption, FS_CardinalityType
<1>7. n * q <= c * q /\ n * q \in Nat
  <2>1. n <= c
    BY <1>6
  <2>2. n * q <= c * q
    BY <2>1, ProductGrows
  <2>3. n * q \in Nat
    OBVIOUS
  <2>4. QED
    BY <2>2, <2>3
<1>8. QED
  BY <1>3, <1>5, <1>6, <1>7

\* What all providers receive on a day is no more than was earned on the day before,
\* times the instances.
LEMMA DayOverpaysNot ==
    ASSUME PayoutInv, Healthy, NEW d \in Days,
           NEW rec, rec = [p \in Days \X Account |-> Received(p[1], p[2])]
    PROVE  /\ Total(rec, {d} \X Account) \in Int
           /\ Total(rec, {d} \X Account) <= Cardinality(Gateway) * Pool(d * DayLength)
<1> DEFINE P == {d} \X Account
<1>1. PICK n \in Nat \ {0} : n = Cardinality(Account)
  BY AccountAssumption, FS_CardinalityType, FS_EmptySet
<1>2. IsFiniteSet(P) /\ Cardinality(P) = n
  <2>1. IsFiniteSet({d}) /\ Cardinality({d}) = 1
    BY FS_Singleton
  <2>2. IsFiniteSet(P) /\ Cardinality(P) = 1 * n
    BY <1>1, <2>1, AccountAssumption, FS_Product
  <2>3. QED
    BY <1>1, <2>2
<1>3. PICK c \in Nat, q \in Nat : c = Cardinality(Gateway) /\ q = Share(d)
  BY AccountAssumption, ReceivedIs
<1>4. \A p \in P : rec[p] \in Int /\ rec[p] <= c * q
  <2>1. \A p \in P : rec[p] = Received(d, p[2]) /\ p[2] \in Account
    OBVIOUS
  <2>2. QED
    BY <1>3, <2>1, ReceivedIs
<1>5. PICK v \in Nat : v = c * q
  OBVIOUS
<1> DEFINE most == [p \in P |-> v]
<1>6. Total(most, P) = n * v
  <2>1. \A p \in P : most[p] = v
    OBVIOUS
  <2> HIDE DEF most, P
  <2>2. QED
    BY <1>2, <2>1, TotalConstant
<1>7. Total(rec, P) <= n * v /\ Total(rec, P) \in Int
  <2>1. \A p \in P : most[p] \in Int /\ rec[p] <= most[p] /\ rec[p] \in Int
    BY <1>4, <1>5
  <2> HIDE DEF most, P
  <2>2. QED
    BY <1>2, <1>6, <2>1, TotalMonotone, TotalRemove
<1>8. PICK pool \in Nat : pool = Pool(d * DayLength) /\ q = pool \div n
  <2>1. d * DayLength \in Nat
    BY DayAssumption, TimeAndDays
  <2>2. QED
    BY <1>1, <1>3, <2>1, PoolIs DEF Share, PayoutInv, PayoutTypes, PayoutTypeOK
<1>9. n * v <= c * pool
  <2>1. PICK r \in Nat : pool = n * q + r
    <3>1. PICK e \in Nat, r \in Nat : e = pool \div n /\ pool = n * e + r
      BY DivIs
    <3>2. e = q
      BY <1>8, <3>1
    <3>3. QED
      BY <3>1, <3>2
  <2>2. PICK x \in Nat : x = n * q /\ x <= pool
    BY <2>1
  <2>3. x * c <= pool * c
    BY <2>2, ProductGrows
  <2>4. n * v = x * c /\ pool * c = c * pool
    BY <1>5, <2>2
  <2>5. QED
    BY <2>3, <2>4
<1>10. n * v \in Int /\ c * pool \in Int
  OBVIOUS
<1>11. QED
  BY <1>3, <1>7, <1>8, <1>9, <1>10

LEMMA SumsBounded ==
    ASSUME PayoutInv, Healthy
    PROVE  SumFunction([p \in Days \X Account |-> Received(p[1], p[2])])
               <= Cardinality(Gateway) * SumFunction(earned)
<1> DEFINE rec == [p \in Days \X Account |-> Received(p[1], p[2])]
           W(T) == {t \in Time : Day(t) + 1 \in T}
           P == {T \in SUBSET Days : /\ Total(rec, T \X Account) \in Int
                                     /\ Total(rec, T \X Account) <= Cardinality(Gateway) * Total(earned, W(T))}
<1>1. PICK c \in Nat : c = Cardinality(Gateway)
  BY GatewayAssumption, FS_CardinalityType
<1>2. earned \in [Time -> Cents \cup {0}] /\ \A t \in Time : earned[t] \in Nat
  <2>1. Cents \cup {0} \subseteq Nat
    BY DayAssumption
  <2>2. QED
    BY <2>1 DEF PayoutInv, PayoutTypes, PayoutTypeOK
<1>3. ASSUME NEW T \in SUBSET Days
      PROVE  /\ IsFiniteSet(T \X Account) /\ \A p \in T \X Account : rec[p] \in Int
             /\ IsFiniteSet(W(T)) /\ W(T) \subseteq Time /\ Total(earned, W(T)) \in Nat
  <2>1. IsFiniteSet(T) /\ IsFiniteSet(W(T)) /\ W(T) \subseteq Time
    BY TimeAndDays, FS_Subset
  <2>2. IsFiniteSet(T \X Account)
    BY <2>1, AccountAssumption, FS_Product
  <2>3. ASSUME NEW p \in T \X Account PROVE rec[p] \in Int
    <3>1. p[1] \in Days /\ p[2] \in Account /\ rec[p] = Received(p[1], p[2])
      OBVIOUS
    <3>2. QED
      BY <3>1, ReceivedIs
  <2> HIDE DEF W
  <2>4. Total(earned, W(T)) \in Nat
    BY <1>2, <2>1, TotalNat
  <2>5. QED
    BY <2>1, <2>2, <2>3, <2>4
<1>4. {} \in P
  <2>1. {} \X Account = {} /\ W({}) = {}
    OBVIOUS
  <2>2. Total(rec, {}) = 0 /\ Total(earned, {}) = 0
    BY TotalUnfolds, FS_EmptySet
  <2> HIDE DEF rec, W
  <2>3. Total(rec, {} \X Account) = 0 /\ Total(earned, W({})) = 0
    BY <2>1, <2>2
  <2>4. Total(rec, {} \X Account) <= c * Total(earned, W({}))
    BY <2>3
  <2>5. QED
    BY <1>1, <2>3, <2>4
<1>5. ASSUME NEW T \in SUBSET Days, NEW d \in Days, T \in P, d \notin T
      PROVE  T \cup {d} \in P
  <2> DEFINE V == Window(d * DayLength)
  <2>1. /\ V \subseteq Time /\ IsFiniteSet(V) /\ V \cap W(T) = {}
        /\ W(T \cup {d}) = W(T) \cup V
    <3>1. V \subseteq Time /\ IsFiniteSet(V)
      BY TimeAndDays, FS_Subset DEF Window
    <3>2. \A t \in Time : t \in V <=> Day(t) + 1 = d
      <4>1. \A t \in Time : Day(t) \in Nat /\ d \in Nat /\ (t \in V <=> Day(t) = d - 1)
        BY TimeAndDays, DaysGoBy
      <4> HIDE DEF V
      <4>2. QED
        BY <4>1
    <3> HIDE DEF V
    <3>3. QED
      BY <1>5, <3>1, <3>2
  <2>2. Total(earned, W(T \cup {d})) = Total(earned, W(T)) + Total(earned, V)
    <3>1. IsFiniteSet(W(T)) /\ W(T) \subseteq Time
      BY <1>3
    <3>2. \A t \in W(T) \cup V : earned[t] \in Int
      BY <1>2, <2>1, <3>1
    <3>3. W(T) \cap V = {}
      BY <2>1
    <3> HIDE DEF W, V
    <3>4. Total(earned, W(T) \cup V) = Total(earned, W(T)) + Total(earned, V)
      BY <2>1, <3>1, <3>2, <3>3, TotalUnion
    <3>5. QED
      BY <2>1, <3>4
  <2>3. Total(rec, (T \cup {d}) \X Account) = Total(rec, T \X Account) + Total(rec, {d} \X Account)
    <3>1. /\ (T \cup {d}) \X Account = (T \X Account) \cup ({d} \X Account)
          /\ (T \X Account) \cap ({d} \X Account) = {}
      BY <1>5
    <3>2. /\ IsFiniteSet(T \X Account) /\ IsFiniteSet({d} \X Account)
          /\ \A p \in (T \X Account) \cup ({d} \X Account) : rec[p] \in Int
      BY <1>3, FS_Subset
    <3> HIDE DEF rec
    <3>3. QED
      BY <3>1, <3>2, TotalUnion
  <2>4. /\ Total(rec, {d} \X Account) \in Int
        /\ Total(rec, {d} \X Account) <= Cardinality(Gateway) * Pool(d * DayLength)
    <3>1. PICK g : g = rec
      OBVIOUS
    <3>2. /\ Total(g, {d} \X Account) \in Int
          /\ Total(g, {d} \X Account) <= Cardinality(Gateway) * Pool(d * DayLength)
      BY <3>1, DayOverpaysNot
    <3>3. QED
      BY <3>1, <3>2
  <2>5. Pool(d * DayLength) = Total(earned, V)
    BY SumsAreTotals DEF Pool
  <2>6. PICK x \in Nat, y \in Nat : x = Total(earned, W(T)) /\ y = Total(earned, V)
    <3>1. Total(earned, W(T)) \in Nat
      BY <1>3
    <3>2. d * DayLength \in Nat
      BY DayAssumption, TimeAndDays
    <3>3. Pool(d * DayLength) \in Nat
      BY <1>2, <3>2, PoolIs
    <3>4. QED
      BY <2>5, <3>1, <3>3
  <2>7. PICK u \in Int, v \in Int :
           /\ u = Total(rec, T \X Account) /\ v = Total(rec, {d} \X Account)
           /\ u <= c * x /\ v <= c * y
    BY <1>1, <1>5, <2>4, <2>5, <2>6
  <2>8. u + v <= c * (x + y) /\ u + v \in Int
    <3>1. c * (x + y) = c * x + c * y
      OBVIOUS
    <3>2. PICK a \in Int, b \in Int : a = c * x /\ b = c * y
      OBVIOUS
    <3>3. u + v <= a + b
      BY <2>7, <3>2
    <3>4. QED
      BY <3>1, <3>2, <3>3
  <2> HIDE DEF W, V, rec
  <2>9. QED
    BY <1>1, <2>2, <2>3, <2>6, <2>7, <2>8
<1> HIDE DEF P
<1>6. Days \in P
  <2>1. \A T \in SUBSET Days, d \in Days : T \in P /\ d \notin T => T \cup {d} \in P
    BY <1>5
  <2>2. \A T \in SUBSET Days : T \in P
    BY <1>4, <2>1, TimeAndDays, SubsetInductive
  <2>3. Days \in SUBSET Days
    OBVIOUS
  <2>4. QED
    BY <2>2, <2>3
<1> USE DEF P
<1>7. Total(earned, W(Days)) <= Total(earned, Time) /\ Total(earned, Time) \in Nat
  <2>1. /\ IsFiniteSet(W(Days)) /\ W(Days) \subseteq Time /\ Total(earned, W(Days)) \in Nat
    BY <1>3
  <2> HIDE DEF W
  <2>2. IsFiniteSet(Time \ W(Days)) /\ W(Days) \cup (Time \ W(Days)) = Time
    BY <2>1, TimeAndDays, FS_Subset
  <2>3. Total(earned, Time \ W(Days)) \in Nat
    BY <1>2, <2>2, TotalNat
  <2>4. \A t \in W(Days) \cup (Time \ W(Days)) : earned[t] \in Int
    BY <1>2, <2>2
  <2>5. W(Days) \cap (Time \ W(Days)) = {}
    OBVIOUS
  <2>6. Total(earned, W(Days) \cup (Time \ W(Days)))
            = Total(earned, W(Days)) + Total(earned, Time \ W(Days))
    BY <2>1, <2>2, <2>4, <2>5, TotalUnion
  <2>7. Total(earned, Time) = Total(earned, W(Days)) + Total(earned, Time \ W(Days))
    BY <2>2, <2>6
  <2>8. QED
    BY <2>1, <2>3, <2>7
<1>8. /\ SumFunction(rec) = Total(rec, Days \X Account)
      /\ SumFunction(earned) = Total(earned, Time)
  <2>1. DOMAIN rec = Days \X Account /\ DOMAIN earned = Time
    BY <1>2
  <2> HIDE DEF rec
  <2>2. QED
    BY <2>1, SumsAreTotals
<1>9. PICK x \in Nat, y \in Nat : x = Total(earned, W(Days)) /\ y = Total(earned, Time) /\ x <= y
  <2>1. Total(earned, W(Days)) \in Nat
    BY <1>3
  <2>2. QED
    BY <1>7, <2>1
<1>10. x * c <= y * c /\ x * c = c * x /\ y * c = c * y
  BY <1>9, ProductGrows
<1>11. PICK r \in Int : r = Total(rec, Days \X Account) /\ r <= c * x
  BY <1>1, <1>6, <1>9
<1>12. r <= c * y
  <2>1. PICK a \in Int, b \in Int : a = c * x /\ b = c * y
    OBVIOUS
  <2>2. QED
    BY <1>10, <1>11, <2>1
<1> HIDE DEF rec
<1>13. SumFunction(rec) <= c * SumFunction(earned)
  BY <1>8, <1>9, <1>11, <1>12
<1>14. QED
  BY <1>1, <1>13 DEF rec

-----------------------------------------------------------------------------
\* The state of the payouts has its type (billing_cron.rs:22-40, 166-257).
THEOREM PayoutTypeCorrect == PayoutSpec => []PayoutTypeOK
<1>1. PayoutInv => PayoutTypeOK
  BY DEF PayoutInv, PayoutTypes
<1>2. QED
  BY <1>1, PayoutInvariance, PTL

\* In one life of a process no provider is paid twice in a day, for any number of
\* instances, failures and restarts (billing_cron.rs:26-37).
THEOREM EachPaidOncePerLife == PayoutSpec => []PaidOncePerLife
<1>1. PayoutInv => PaidOncePerLife
  <2> SUFFICES ASSUME PayoutInv, NEW d \in Days, NEW a \in Account
               PROVE  Len(transfers[d][a]) <= Cardinality(Gateway) + restarts
    BY DEF PaidOncePerLife
  <2>1. /\ transfers \in [Days -> [Account -> Seq(Nat)]] /\ restarts \in Nat
    BY PayoutRanges DEF PayoutInv
  <2>2. Len(transfers[d][a]) <= Cardinality(Done(d, a)) + restarts /\ Len(transfers[d][a]) \in Nat
    BY <2>1 DEF PayoutInv, TransfersDone
  <2>3. Cardinality(Gateway) \in Nat
    BY GatewayAssumption, FS_CardinalityType
  <2>4. QED
    BY <2>1, <2>2, <2>3, DoneFinite
<1>2. QED
  BY <1>1, PayoutInvariance, PTL

\* The providers of healthy nights together never get more than was earned, times
\* the instances that each pay it out (billing_cron.rs:166-167, 212-215).
THEOREM HealthyNeverOverpays == PayoutSpec => []NeverOverpaid
<1>1. PayoutInv => NeverOverpaid
  BY SumsBounded DEF NeverOverpaid
<1>2. QED
  BY <1>1, PayoutInvariance, PTL

\* The windows of healthy nights lie side by side, whatever the length of a day and
\* of its hour of payouts (billing_cron.rs:29-32, 166-167).
THEOREM HealthyWindowsTile == PayoutSpec => []WindowsTile
<1>1. PayoutInv => WindowsTile
  <2> SUFFICES ASSUME PayoutInv, Healthy, \A i \in Gateway : stage[i] = "ticked", NEW t \in Time
               PROVE  counted[t] = IF \E u \in {u \in Time : counted[u] > 0} : t <= u
                                   THEN Cardinality(Gateway) ELSE 0
    BY DEF WindowsTile
  <2>1. PICK today \in Nat : today = Day(now) /\ \A i \in Gateway : Begun(i) = today
    BY PayoutRanges DEF PayoutInv, InStep, Begun
  <2>2. PICK n \in Nat : n = Cardinality(Gateway)
    BY GatewayAssumption, FS_CardinalityType
  <2>3. ASSUME NEW u \in Time PROVE counted[u] = IF Day(u) < today THEN n ELSE 0
    <3>1. Day(u) \in Nat
      BY TimeAndDays
    <3>2. counted[u] = Cardinality({i \in Gateway : Begun(i) > Day(u)})
      BY DEF PayoutInv, CountedOnce
    <3>3. CASE Day(u) < today
      <4>1. {i \in Gateway : Begun(i) > Day(u)} = Gateway
        BY <2>1, <3>1, <3>3
      <4>2. QED
        BY <2>2, <3>2, <3>3, <4>1
    <3>4. CASE ~(Day(u) < today)
      <4>1. {i \in Gateway : Begun(i) > Day(u)} = {}
        BY <2>1, <3>1, <3>4
      <4>2. QED
        BY <3>2, <3>4, <4>1, FS_EmptySet
    <3>5. QED
      BY <3>3, <3>4
  <2>4. CASE \E u \in {u \in Time : counted[u] > 0} : t <= u
    <3>1. PICK u \in Time : counted[u] > 0 /\ t <= u
      BY <2>4
    <3>2. Day(u) < today
      BY <2>3, <3>1
    <3>3. Day(t) <= Day(u) /\ Day(t) \in Nat /\ Day(u) \in Nat
      BY <3>1, TimeAndDays, DaysGoBy
    <3>4. Day(t) < today
      BY <3>2, <3>3
    <3>5. QED
      BY <2>2, <2>3, <2>4, <3>4
  <2>5. CASE ~\E u \in {u \in Time : counted[u] > 0} : t <= u
    <3>1. t <= t
      BY TimeAndDays
    <3>2. ~(counted[t] > 0)
      BY <2>5, <3>1
    <3>3. counted[t] = 0
      BY <2>3, <3>2
    <3>4. QED
      BY <2>5, <3>3
  <2>6. QED
    BY <2>4, <2>5
<1>2. QED
  BY <1>1, PayoutInvariance, PTL
=============================================================================
