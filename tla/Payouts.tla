------------------------------- MODULE Payouts -------------------------------
(***************************************************************************)
(* The nightly payouts of billing_cron.rs.  Every gateway instance has a   *)
(* task that ticks every five minutes and, in the hour from 02:00 UTC,     *)
(* pays what was earned in the last 24 hours out to the onboarded          *)
(* providers, in equal shares.  That a day was paid is kept in the task's  *)
(* memory.                                                                 *)
(*                                                                         *)
(* Time is counted in ticks.  A day has DayLength of them, the first       *)
(* PayTicks of which fall into the hour of payouts.  A run ends before     *)
(* the next tick.  Usage is counted in the cents that are owed to the      *)
(* providers for it, after the commission.                                 *)
(***************************************************************************)
EXTENDS Integers, Sequences, FiniteSets, Functions

CONSTANTS
    Gateway,            \* the gateway processes
    Account,            \* the rows of provider_stripe_accounts that are onboarded
    DayLength,          \* bound: ticks in a day (288 in the program)
    PayTicks,           \* bound: ticks in the hour of payouts (12 in the program)
    LastTick,           \* bound: the last tick modelled
    Cents,              \* what may be earned in one tick
    MaxRestarts,        \* bound: restarts
    MaxQueryErrors,     \* bound: failed queries
    MaxTransferErrors   \* bound: failed transfers

ASSUME DayAssumption == /\ DayLength \in Nat \ {0} /\ PayTicks \in 1..DayLength
                        /\ LastTick \in Nat /\ Cents \subseteq Nat
ASSUME GatewayAssumption == IsFiniteSet(Gateway)
ASSUME AccountAssumption == IsFiniteSet(Account) /\ Account # {}
ASSUME FailureAssumption == MaxRestarts \in Nat /\ MaxQueryErrors \in Nat
                            /\ MaxTransferErrors \in Nat

VARIABLES
    now,          \* the present tick
    earned,       \* per tick: the cents earned in it
    lastPaid,     \* per instance: last_payout_day, or NoDay
    stage,        \* per instance: waiting for its tick, ticked, paying, or down
    unpaid,       \* per instance: accounts to which no transfer was tried yet
    share,        \* per instance: per_provider_cents
    transfers,    \* per day and account: the cents of every transfer
    restarts, queryErrors, transferErrors,
    counted,      \* ghost: per tick, the runs in whose window it was
    failed        \* ghost: pairs of day and account whose transfer failed

task == <<lastPaid, stage, unpaid, share>>
bounds == <<restarts, queryErrors, transferErrors>>
payoutVars == <<now, earned, task, transfers, bounds, counted, failed>>

Time == 0..LastTick
NoDay == -1
Day(t) == t \div DayLength
Days == {Day(t) : t \in Time}

\* Mutant of Window: it includes the present moment as well.
WindowInclusive(t) == {u \in Time : u >= t - DayLength /\ u <= t}

\* From now - 24 hours, inclusive, to now, exclusive.
Window(t) == {u \in Time : u >= t - DayLength /\ u < t}

Pool(t) == SumFunctionOnSet(earned, Window(t))

\* What was transferred to an account on a day.
Received(d, a) == SumFunction(transfers[d][a])

-----------------------------------------------------------------------------
PayoutInit ==
    /\ now = 0
    /\ earned = [t \in Time |-> 0]
    /\ lastPaid = [i \in Gateway |-> NoDay]
    /\ stage = [i \in Gateway |-> "waiting"]
    /\ unpaid = [i \in Gateway |-> {}]
    /\ share = [i \in Gateway |-> 0]
    /\ transfers = [d \in Days |-> [a \in Account |-> <<>>]]
    /\ restarts = 0 /\ queryErrors = 0 /\ transferErrors = 0
    /\ counted = [t \in Time |-> 0]
    /\ failed = {}

\* Usage is earned in the course of a tick, and the next one begins.
Advance(cents) ==
    /\ now < LastTick
    /\ \A i \in Gateway : stage[i] \in {"ticked", "down"}
    /\ now' = now + 1
    /\ earned' = [earned EXCEPT ![now] = cents]
    /\ stage' = [i \in Gateway |-> IF stage[i] = "down" THEN "down" ELSE "waiting"]
    /\ UNCHANGED <<lastPaid, unpaid, share, transfers, bounds, counted, failed>>

\* spawn's loop: whether this is the hour, and the day is not yet paid.
PayNow(i) == now % DayLength < PayTicks /\ lastPaid[i] # Day(now)

Wait(i) ==
    /\ stage[i] = "waiting" /\ ~PayNow(i)
    /\ stage' = [stage EXCEPT ![i] = "ticked"]
    /\ UNCHANGED <<now, earned, lastPaid, unpaid, share, transfers, bounds, counted, failed>>

\* Mutant of PayNothing: the moment is remembered instead of the day.
PayNothingMoment(i) ==
    /\ stage[i] = "waiting" /\ PayNow(i)
    /\ Pool(now) \div Cardinality(Account) = 0
    /\ stage' = [stage EXCEPT ![i] = "ticked"]
    /\ lastPaid' = [lastPaid EXCEPT ![i] = now]
    /\ counted' = [t \in Time |-> IF t \in Window(now) THEN counted[t] + 1 ELSE counted[t]]
    /\ UNCHANGED <<now, earned, unpaid, share, transfers, bounds, failed>>

\* Nothing to pay, or less than a cent for each: the day counts as paid.
PayNothing(i) ==
    /\ stage[i] = "waiting" /\ PayNow(i)
    /\ Pool(now) \div Cardinality(Account) = 0
    /\ stage' = [stage EXCEPT ![i] = "ticked"]
    /\ lastPaid' = [lastPaid EXCEPT ![i] = Day(now)]
    /\ counted' = [t \in Time |-> IF t \in Window(now) THEN counted[t] + 1 ELSE counted[t]]
    /\ UNCHANGED <<now, earned, unpaid, share, transfers, bounds, failed>>

\* Mutant of StartRun: the shares are rounded up.
StartRunUp(i) ==
    /\ stage[i] = "waiting" /\ PayNow(i)
    /\ Pool(now) \div Cardinality(Account) > 0
    /\ stage' = [stage EXCEPT ![i] = "paying"]
    /\ share' = [share EXCEPT ![i] =
                    (Pool(now) + Cardinality(Account) - 1) \div Cardinality(Account)]
    /\ unpaid' = [unpaid EXCEPT ![i] = Account]
    /\ counted' = [t \in Time |-> IF t \in Window(now) THEN counted[t] + 1 ELSE counted[t]]
    /\ UNCHANGED <<now, earned, lastPaid, transfers, bounds, failed>>

\* The providers and the sum are read, and the shares are made of it.
StartRun(i) ==
    /\ stage[i] = "waiting" /\ PayNow(i)
    /\ Pool(now) \div Cardinality(Account) > 0
    /\ stage' = [stage EXCEPT ![i] = "paying"]
    /\ share' = [share EXCEPT ![i] = Pool(now) \div Cardinality(Account)]
    /\ unpaid' = [unpaid EXCEPT ![i] = Account]
    /\ counted' = [t \in Time |-> IF t \in Window(now) THEN counted[t] + 1 ELSE counted[t]]
    /\ UNCHANGED <<now, earned, lastPaid, transfers, bounds, failed>>

\* One of the two queries fails: the run is over, and the next tick tries again.
QueryFails(i) ==
    /\ stage[i] = "waiting" /\ PayNow(i) /\ queryErrors < MaxQueryErrors
    /\ queryErrors' = queryErrors + 1
    /\ stage' = [stage EXCEPT ![i] = "ticked"]
    /\ UNCHANGED <<now, earned, lastPaid, unpaid, share, transfers,
                   restarts, transferErrors, counted, failed>>

\* Stripe makes every transfer it is asked for: the call bears no identifier.
Transferred(i, a) == [transfers EXCEPT ![Day(now)][a] = Append(@, share[i])]

Transfer(i, a) ==
    /\ stage[i] = "paying" /\ a \in unpaid[i]
    /\ transfers' = Transferred(i, a)
    /\ unpaid' = [unpaid EXCEPT ![i] = @ \ {a}]
    /\ UNCHANGED <<now, earned, lastPaid, stage, share, bounds, counted, failed>>

\* The transfer fails at Stripe, or its answer is lost after it was made: in
\* either case that is logged, and the next provider follows.
TransferFails(i, a, made) ==
    /\ stage[i] = "paying" /\ a \in unpaid[i] /\ transferErrors < MaxTransferErrors
    /\ transferErrors' = transferErrors + 1
    /\ transfers' = IF made THEN Transferred(i, a) ELSE transfers
    /\ failed' = IF made THEN failed ELSE failed \cup {<<Day(now), a>>}
    /\ unpaid' = [unpaid EXCEPT ![i] = @ \ {a}]
    /\ UNCHANGED <<now, earned, lastPaid, stage, share, restarts, queryErrors, counted>>

\* Mutant of EndRun: a run in which a transfer failed is repeated at the next tick.
EndRunIfAllPaid(i) ==
    /\ stage[i] = "paying" /\ unpaid[i] = {}
    /\ stage' = [stage EXCEPT ![i] = "ticked"]
    /\ lastPaid' = IF \E a \in Account : <<Day(now), a>> \in failed THEN lastPaid
                   ELSE [lastPaid EXCEPT ![i] = Day(now)]
    /\ UNCHANGED <<now, earned, unpaid, share, transfers, bounds, counted, failed>>

EndRun(i) ==
    /\ stage[i] = "paying" /\ unpaid[i] = {}
    /\ stage' = [stage EXCEPT ![i] = "ticked"]
    /\ lastPaid' = [lastPaid EXCEPT ![i] = Day(now)]
    /\ UNCHANGED <<now, earned, unpaid, share, transfers, bounds, counted, failed>>

\* The process stops, wherever it is, and with it goes last_payout_day.
Stop(i) ==
    /\ stage[i] # "down" /\ restarts < MaxRestarts
    /\ restarts' = restarts + 1
    /\ stage' = [stage EXCEPT ![i] = "down"]
    /\ lastPaid' = [lastPaid EXCEPT ![i] = NoDay]
    /\ unpaid' = [unpaid EXCEPT ![i] = {}]
    /\ UNCHANGED <<now, earned, share, transfers, queryErrors, transferErrors, counted, failed>>

\* Its interval ticks as soon as it is up again.
Start(i) ==
    /\ stage[i] = "down"
    /\ stage' = [stage EXCEPT ![i] = "waiting"]
    /\ UNCHANGED <<now, earned, lastPaid, unpaid, share, transfers, bounds, counted, failed>>

\* The bound: the last tick is over.
LastTickOver ==
    /\ now = LastTick /\ \A i \in Gateway : stage[i] = "ticked"
    /\ UNCHANGED payoutVars

PayoutNext ==
    \/ \E cents \in Cents : Advance(cents)
    \/ \E i \in Gateway :
          \/ Wait(i) \/ PayNothing(i) \/ StartRun(i) \/ QueryFails(i) \/ EndRun(i)
          \/ \E a \in Account :
                Transfer(i, a) \/ \E made \in BOOLEAN : TransferFails(i, a, made)
          \/ Stop(i) \/ Start(i)
    \/ LastTickOver

PayoutSpec == PayoutInit /\ [][PayoutNext]_payoutVars

-----------------------------------------------------------------------------
PayoutTypeOK ==
    /\ now \in Time
    /\ earned \in [Time -> Cents \cup {0}]
    /\ lastPaid \in [Gateway -> Days \cup {NoDay}]
    /\ stage \in [Gateway -> {"waiting", "ticked", "paying", "down"}]
    /\ unpaid \in [Gateway -> SUBSET Account]
    /\ share \in [Gateway -> Nat]
    /\ transfers \in [Days -> [Account -> Seq(Nat)]]
    /\ counted \in [Time -> Nat]
    /\ failed \subseteq Days \X Account

\* In one life of a process no provider is paid twice in a day, whatever fails
\* and is tried again: instances and restarts are all that multiplies a payout
\* (billing_cron.rs:26-37).
PaidOncePerLife ==
    \A d \in Days, a \in Account :
        Len(transfers[d][a]) <= Cardinality(Gateway) + restarts

\* A night of one instance is Healthy as long as no query failed and it never
\* restarted; transfers may fail.
Healthy == restarts = 0 /\ queryErrors = 0

\* In healthy nights the providers together never get more than was earned,
\* nights before included (billing_cron.rs:166-167, 212-215).
NeverOverpaid ==
    Healthy => SumFunction([p \in Days \X Account |-> Received(p[1], p[2])])
                   <= Cardinality(Gateway) * SumFunction(earned)

\* The windows of healthy nights follow one another without gap or overlap: every
\* tick before the last payout lies in exactly one of each instance
\* (billing_cron.rs:29-32, 166-167).
WindowsTile ==
    LET last == {t \in Time : counted[t] > 0}
    IN  Healthy /\ (\A i \in Gateway : stage[i] = "ticked") =>
            \A t \in Time : counted[t] = IF \E u \in last : t <= u
                                         THEN Cardinality(Gateway) ELSE 0
=============================================================================
