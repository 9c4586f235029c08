---------------------------- MODULE BillingLedger ----------------------------
(***************************************************************************)
(* What metering promises (billing_cron.rs:42-44 and the schema of         *)
(* billing_meter_reports), without runs, instances, crashes or lost calls: *)
(* of a customer's hour there is one line on the bill or none, it is       *)
(* written once, never changed and never more than what was used when it   *)
(* was written, and only a line on the bill is noted as reported.          *)
(***************************************************************************)
EXTENDS Integers

CONSTANTS Customer, Hour

VARIABLES
    used,       \* per customer and hour: the usage recorded
    bill,       \* the lines at Stripe
    noted       \* pairs of customer and hour taken for reported

vars == <<used, bill, noted>>

Line(c, h, v) == [id |-> <<c, h>>, customer |-> c, hour |-> h, value |-> v]

OnBill(c, h) == \E line \in bill : line.customer = c /\ line.hour = h

Init ==
    /\ used = [c \in Customer |-> [h \in Hour |-> 0]]
    /\ bill = {} /\ noted = {}

Use(c, h) ==
    /\ used' = [used EXCEPT ![c][h] = @ + 1]
    /\ UNCHANGED <<bill, noted>>

Bill(c, h) ==
    /\ ~OnBill(c, h)
    /\ \E v \in 1..used[c][h] : bill' = bill \cup {Line(c, h, v)}
    /\ UNCHANGED <<used, noted>>

Note(c, h) ==
    /\ OnBill(c, h)
    /\ noted' = noted \cup {<<c, h>>}
    /\ UNCHANGED <<used, bill>>

Next == \E c \in Customer, h \in Hour : Use(c, h) \/ Bill(c, h) \/ Note(c, h)

Spec == Init /\ [][Next]_vars
=============================================================================
