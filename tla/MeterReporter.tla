---------------------------- MODULE MeterReporter ----------------------------
(***************************************************************************)
(* The hourly meter reporter of billing_cron.rs: it sums what every        *)
(* customer used in the last whole hour, sends the sum to Stripe, and      *)
(* notes in billing_meter_reports that it did.  Every gateway instance     *)
(* runs one; they share the database and Stripe, and may crash anywhere.   *)
(*                                                                         *)
(* A customer is its key.  What was used is counted in usage records, each *)
(* of weight one.  Hours are numbered; the reporter's interval ticks when  *)
(* the process starts and once an hour from then on, and a tick missed by  *)
(* a slow run is made up for at once (tokio's Burst).                      *)
(***************************************************************************)
EXTENDS Integers

CONSTANTS
    Instance,    \* the gateway processes
    Customer,    \* the rows of billing_customers
    LastHour,    \* bound: the last hour modelled
    MaxUsage,    \* bound: usage records of a customer in an hour
    MaxFailures, \* bound: crashes and failed calls to Stripe or the database
    LateRecords  \* whether a usage record may bear the hour before the one in
                 \* which it becomes visible: NOW() is the database's clock, at
                 \* the start of the INSERT; the period is the gateway's clock

ASSUME HourAssumption == LastHour \in Nat \ {0} /\ MaxUsage \in Nat /\ MaxFailures \in Nat
ASSUME LateAssumption == LateRecords \in BOOLEAN

Hour == 0..LastHour

VARIABLES
    hour,      \* the present hour
    logged,    \* per customer and hour: the usage records
    reports,   \* billing_meter_reports: pairs of customer and hour
    events,    \* what Stripe has metered, by identifier
    owed,      \* per instance: ticks of the interval that are due
    pc,        \* per instance: where its run is
    period,    \* per instance: the hour the run reports
    todo,      \* per instance: the customers it has not come to
    customer,  \* per instance: the one it is at, or NoOne
    amount,    \* per instance: the sum it has read
    failures,  \* failures so far
    flawed,    \* ghost: instances whose present run met a failure
    clean,     \* ghost: hours reported by a run that met none
    late,      \* ghost: per customer and hour, records made after the sum was read
    read       \* ghost: pairs of customer and hour of which a sum was read

run == <<owed, pc, period, todo, customer, amount>>
ghosts == <<flawed, clean, late, read>>
vars == <<hour, logged, reports, events, run, failures, ghosts>>

NoOne == "no one"

-----------------------------------------------------------------------------
Init ==
    /\ hour = 1
    /\ logged = [c \in Customer |-> [h \in Hour |-> 0]]
    /\ reports = {}
    /\ events = {}
    /\ owed = [i \in Instance |-> 1]
    /\ pc = [i \in Instance |-> "idle"]
    /\ period = [i \in Instance |-> 0]
    /\ todo = [i \in Instance |-> {}]
    /\ customer = [i \in Instance |-> NoOne]
    /\ amount = [i \in Instance |-> 0]
    /\ failures = 0
    /\ flawed = {} /\ clean = {} /\ read = {}
    /\ late = [c \in Customer |-> [h \in Hour |-> 0]]

\* The INSERT of record_usage, routes/chat.rs.
LogUsage(c, h) ==
    /\ h = hour \/ (LateRecords /\ h = hour - 1)
    /\ logged[c][h] < MaxUsage
    /\ logged' = [logged EXCEPT ![c][h] = @ + 1]
    /\ late' = IF <<c, h>> \in read THEN [late EXCEPT ![c][h] = @ + 1] ELSE late
    /\ UNCHANGED <<hour, reports, events, run, failures, flawed, clean, read>>

\* An hour passes.  Whoever is not at work has taken all its ticks.
NewHour ==
    /\ hour < LastHour
    /\ \A i \in Instance : owed[i] = 0 \/ (pc[i] # "idle" /\ owed[i] = 1)
    /\ hour' = hour + 1
    /\ owed' = [i \in Instance |-> owed[i] + 1]
    /\ UNCHANGED <<logged, reports, events, pc, period, todo, customer, amount,
                   failures, ghosts>>

\* The tick: the period is the last whole hour, and the customers are read.
Tick(i) ==
    /\ pc[i] = "idle" /\ owed[i] > 0
    /\ owed' = [owed EXCEPT ![i] = @ - 1]
    /\ period' = [period EXCEPT ![i] = hour - 1]
    /\ todo' = [todo EXCEPT ![i] = Customer]
    /\ pc' = [pc EXCEPT ![i] = "next"]
    /\ flawed' = flawed \ {i}
    /\ UNCHANGED <<hour, logged, reports, events, customer, amount, failures,
                   clean, late, read>>

\* Mutant of Check: a report of any hour is taken for one of this hour.
CheckAnyHour(i, c) ==
    /\ pc[i] = "next" /\ c \in todo[i]
    /\ todo' = [todo EXCEPT ![i] = @ \ {c}]
    /\ IF \E h \in Hour : <<c, h>> \in reports
       THEN UNCHANGED <<customer, amount, pc, read>>
       ELSE /\ customer' = [customer EXCEPT ![i] = c]
            /\ amount' = [amount EXCEPT ![i] = logged[c][period[i]]]
            /\ pc' = [pc EXCEPT ![i] = IF logged[c][period[i]] = 0 THEN "next" ELSE "send"]
            /\ read' = read \cup {<<c, period[i]>>}
    /\ UNCHANGED <<hour, logged, reports, events, owed, period, failures,
                   flawed, clean, late>>

\* Mutant of Check: a customer that used nothing is reported too.
CheckZero(i, c) ==
    /\ pc[i] = "next" /\ c \in todo[i]
    /\ todo' = [todo EXCEPT ![i] = @ \ {c}]
    /\ IF <<c, period[i]>> \in reports
       THEN UNCHANGED <<customer, amount, pc, read>>
       ELSE /\ customer' = [customer EXCEPT ![i] = c]
            /\ amount' = [amount EXCEPT ![i] = logged[c][period[i]]]
            /\ pc' = [pc EXCEPT ![i] = "send"]
            /\ read' = read \cup {<<c, period[i]>>}
    /\ UNCHANGED <<hour, logged, reports, events, owed, period, failures,
                   flawed, clean, late>>

\* The next customer: skipped when its hour is already reported or when it used
\* nothing; or else its sum is read.
Check(i, c) ==
    /\ pc[i] = "next" /\ c \in todo[i]
    /\ todo' = [todo EXCEPT ![i] = @ \ {c}]
    /\ IF <<c, period[i]>> \in reports
       THEN UNCHANGED <<customer, amount, pc, read>>
       ELSE /\ customer' = [customer EXCEPT ![i] = c]
            /\ amount' = [amount EXCEPT ![i] = logged[c][period[i]]]
            /\ pc' = [pc EXCEPT ![i] = IF logged[c][period[i]] = 0 THEN "next" ELSE "send"]
            /\ read' = read \cup {<<c, period[i]>>}
    /\ UNCHANGED <<hour, logged, reports, events, owed, period, failures,
                   flawed, clean, late>>

\* Mutant of Identifier: it does not survive from one run to the next.
IdentifierOfRun(i) == <<customer[i], period[i], i, hour>>

Identifier(i) == <<customer[i], period[i]>>

\* Stripe drops an event whose identifier it knows.
Meter(i) ==
    IF \E e \in events : e.id = Identifier(i) THEN events
    ELSE events \cup {[id |-> Identifier(i), customer |-> customer[i],
                       hour |-> period[i], value |-> amount[i]]}

SendOk(i) ==
    /\ pc[i] = "send"
    /\ events' = Meter(i)
    /\ pc' = [pc EXCEPT ![i] = "insert"]
    /\ UNCHANGED <<hour, logged, reports, owed, period, todo, customer, amount,
                   failures, ghosts>>

\* Mutant of SendFails: the hour is noted as reported nevertheless.
SendFailsNoted(i, received) ==
    /\ pc[i] = "send" /\ failures < MaxFailures
    /\ failures' = failures + 1
    /\ events' = IF received THEN Meter(i) ELSE events
    /\ pc' = [pc EXCEPT ![i] = "insert"]
    /\ UNCHANGED <<hour, logged, reports, owed, period, todo, customer, amount, ghosts>>

\* The call fails, before Stripe has the event or after: the error is logged.
SendFails(i, received) ==
    /\ pc[i] = "send" /\ failures < MaxFailures
    /\ failures' = failures + 1
    /\ events' = IF received THEN Meter(i) ELSE events
    /\ pc' = [pc EXCEPT ![i] = "next"]
    /\ flawed' = flawed \cup {i}
    /\ UNCHANGED <<hour, logged, reports, owed, period, todo, customer, amount,
                   clean, late, read>>

\* INSERT ... ON CONFLICT DO NOTHING.
Note(i) ==
    /\ pc[i] = "insert"
    /\ reports' = reports \cup {<<customer[i], period[i]>>}
    /\ pc' = [pc EXCEPT ![i] = "next"]
    /\ UNCHANGED <<hour, logged, events, owed, period, todo, customer, amount,
                   failures, ghosts>>

\* A query fails: the run is given up, for the customers not yet seen as well.
DatabaseFails(i) ==
    /\ pc[i] \in {"next", "insert"} /\ failures < MaxFailures
    /\ pc[i] = "next" => todo[i] # {}
    /\ failures' = failures + 1
    /\ pc' = [pc EXCEPT ![i] = "idle"]
    /\ flawed' = flawed \cup {i}
    /\ UNCHANGED <<hour, logged, reports, events, owed, period, todo, customer,
                   amount, clean, late, read>>

Finish(i) ==
    /\ pc[i] = "next" /\ todo[i] = {}
    /\ pc' = [pc EXCEPT ![i] = "idle"]
    /\ clean' = IF i \in flawed THEN clean ELSE clean \cup {period[i]}
    /\ UNCHANGED <<hour, logged, reports, events, owed, period, todo, customer,
                   amount, failures, flawed, late, read>>

\* The process dies, with its interval, and is started again.
Restart(i) ==
    /\ failures < MaxFailures
    /\ failures' = failures + 1
    /\ pc' = [pc EXCEPT ![i] = "idle"]
    /\ owed' = [owed EXCEPT ![i] = 1]
    /\ UNCHANGED <<hour, logged, reports, events, period, todo, customer, amount, ghosts>>

\* The bound: the last hour is over.
Halt ==
    /\ hour = LastHour /\ \A i \in Instance : pc[i] = "idle" /\ owed[i] = 0
    /\ UNCHANGED vars

Next ==
    \/ \E c \in Customer, h \in Hour : LogUsage(c, h)
    \/ NewHour
    \/ Halt
    \/ \E i \in Instance :
          \/ Tick(i) \/ SendOk(i) \/ Note(i) \/ Finish(i) \/ DatabaseFails(i) \/ Restart(i)
          \/ \E c \in Customer : Check(i, c)
          \/ \E received \in BOOLEAN : SendFails(i, received)

Spec == Init /\ [][Next]_vars

-----------------------------------------------------------------------------
TypeOK ==
    /\ hour \in Hour
    /\ logged \in [Customer -> [Hour -> 0..MaxUsage]]
    /\ reports \subseteq Customer \X Hour
    /\ \A e \in events : /\ e.customer \in Customer /\ e.hour \in Hour
                         /\ e.value \in 1..MaxUsage
    /\ owed \in [Instance -> 0..2]
    /\ pc \in [Instance -> {"idle", "next", "send", "insert"}]
    /\ period \in [Instance -> Hour]
    /\ todo \in [Instance -> SUBSET Customer]
    /\ customer \in [Instance -> Customer \cup {NoOne}]
    /\ amount \in [Instance -> 0..MaxUsage]
    /\ \A i \in Instance : pc[i] \in {"send", "insert"} =>
          customer[i] \in Customer \ todo[i] /\ amount[i] \in 1..MaxUsage

-----------------------------------------------------------------------------
Ledger == INSTANCE BillingLedger WITH used <- logged, bill <- events, noted <- reports

\* Whoever reports an hour, however often, and wherever a run breaks off, what
\* Stripe has metered is one line of a customer's hour, of no more than was used,
\* and what is noted as reported, and so never looked at again, has been metered
\* (billing_cron.rs:72-84, 112, 125-139; billing.rs:86 "idempotent via identifier").
ImplementsLedger == Ledger!Spec

\* Nothing is lost by an hour's run that met no failure, whatever other
\* instances or earlier runs went through: all that was used is metered, but for
\* the records that appeared after the sum was read (billing_cron.rs:71-155).
CleanRunBillsAll ==
    \A h \in clean, c \in Customer : logged[c][h] > late[c][h] =>
        \E e \in events : e.customer = c /\ e.hour = h /\ e.value + late[c][h] >= logged[c][h]
=============================================================================
