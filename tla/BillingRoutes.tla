--------------------------- MODULE BillingRoutes ---------------------------
(***************************************************************************)
(* routes/billing.rs.  POST /v1/billing/setup gives a consumer's key a     *)
(* Stripe customer with a payment method and, if a price is configured, a  *)
(* subscription.  POST /v1/billing/connect gives a provider's node a       *)
(* Stripe account and a link at which its owner completes it; Stripe tells *)
(* of the account's state by events to the webhook, in any order and       *)
(* perhaps more than once.                                                 *)
(*                                                                         *)
(* The handlers await up to six calls of two remote systems, with nothing *)
(* that holds them together: requests interleave, calls fail after they    *)
(* have taken effect, and a handler is dropped when its client goes away   *)
(* or the process dies.                                                    *)
(*                                                                         *)
(* A request makes at most one Stripe customer or account, which is named  *)
(* after it.  invoice.payment_failed changes nothing but a time stamp.     *)
(***************************************************************************)
EXTENDS Integers, FiniteSets, SequencesExt

CONSTANTS
    Key,         \* API keys, the subjects of setup requests
    Node,        \* nodes, the subjects of connect requests
    Request,     \* requests that may arrive
    None,        \* no record, no reply
    MaxEvents    \* bound: account.updated events

ASSUME NoneAssumption == None \notin Request /\ "error" \notin Request
ASSUME SubjectAssumption == Key \cap Node = {}
ASSUME EventAssumption == MaxEvents \in Nat

VARIABLES
    price,       \* whether STRIPE_PRICE_ID is configured
    subject,     \* per request: the key or node it is about
    pc,          \* per request: the call its handler makes next, or done
    reply,       \* per request: the customer or account it was told, "error", or None
    offer,       \* per request: the account its link is for
    record,      \* billing_customers: per key the Stripe customer on record
    rows,        \* provider_stripe_accounts: the accounts on record
    complete,    \* those of them with onboarding_complete
    customers,   \* Stripe: the customers that exist
    attached,    \* Stripe: those that have a payment method
    chargeable,  \* Stripe: those whose invoices have a default payment method
    subscribed,  \* Stripe: those that have a subscription
    accounts,    \* Stripe: the accounts that exist
    enabled,     \* Stripe: those that can be charged for and paid
    events,      \* Stripe: per account the events to be delivered, oldest first
    emitted,     \* how many events there have been
    disturbed    \* ghost: accounts with an event handled out of order or in vain

request == <<price, subject>>
setup == <<customers, attached, chargeable, subscribed, record>>
connect == <<accounts, rows>>
webhook == <<complete, enabled, events, emitted, disturbed>>
vars == <<request, pc, reply, offer, setup, connect, webhook>>

-----------------------------------------------------------------------------
Init ==
    /\ price \in BOOLEAN
    /\ subject \in [Request -> Key \cup Node]
    /\ pc = [r \in Request |-> IF subject[r] \in Key THEN "lookup" ELSE "find"]
    /\ reply = [r \in Request |-> None]
    /\ offer = [r \in Request |-> r]
    /\ record = [k \in Key |-> None]
    /\ customers = {} /\ attached = {} /\ chargeable = {} /\ subscribed = {}
    /\ rows = {} /\ complete = {} /\ accounts = {} /\ enabled = {} /\ disturbed = {}
    /\ events = [a \in Request |-> <<>>]
    /\ emitted = 0

Answer(r, what) ==
    /\ reply' = [reply EXCEPT ![r] = what]
    /\ pc' = [pc EXCEPT ![r] = "done"]

GoTo(r, call) == pc' = [pc EXCEPT ![r] = call] /\ UNCHANGED reply

-----------------------------------------------------------------------------
(* What the calls of Stripe and the INSERTs do when they take effect.        *)

CreateCustomer(r) ==
    /\ pc[r] = "create"
    /\ customers' = customers \cup {r}
    /\ UNCHANGED <<attached, chargeable, subscribed, record, connect>>

\* attach_payment_method is two calls: the method is attached, and then made the
\* default of the customer's invoices.
AttachMethod(r) ==
    /\ pc[r] = "attach"
    /\ attached' = attached \cup {r}
    /\ UNCHANGED <<customers, chargeable, subscribed, record, connect>>

SetDefaultMethod(r) ==
    /\ pc[r] = "default"
    /\ chargeable' = chargeable \cup {r}
    /\ UNCHANGED <<customers, attached, subscribed, record, connect>>

CreateSubscription(r) ==
    /\ pc[r] = "subscribe"
    /\ subscribed' = subscribed \cup {r}
    /\ UNCHANGED <<customers, attached, chargeable, record, connect>>

CreateConnectAccount(r) ==
    /\ pc[r] = "open"
    /\ accounts' = accounts \cup {r}
    /\ UNCHANGED <<setup, rows>>

\* The unique index on key_id refuses a second record of a key.
InsertCustomer(r) ==
    /\ pc[r] = "insert" /\ record[subject[r]] = None
    /\ record' = [record EXCEPT ![subject[r]] = r]
    /\ UNCHANGED <<customers, attached, chargeable, subscribed, connect>>

\* stripe_account_id is unique, node_id is not.
InsertAccount(r) ==
    /\ pc[r] = "save"
    /\ rows' = rows \cup {r}
    /\ UNCHANGED <<setup, accounts>>

Effect(r) ==
    \/ CreateCustomer(r) \/ AttachMethod(r) \/ SetDefaultMethod(r) \/ CreateSubscription(r)
    \/ CreateConnectAccount(r) \/ InsertCustomer(r) \/ InsertAccount(r)

-----------------------------------------------------------------------------
(* The handlers.                                                             *)

\* The key's record is the answer, if it has one.  The read of the owner's
\* label that follows changes nothing.
Lookup(r) ==
    /\ pc[r] = "lookup"
    /\ IF record[subject[r]] # None THEN Answer(r, record[subject[r]]) ELSE GoTo(r, "create")
    /\ UNCHANGED <<request, offer, setup, connect, webhook>>

Create(r) ==
    /\ CreateCustomer(r) /\ GoTo(r, "attach")
    /\ UNCHANGED <<request, offer, webhook>>

\* Mutant of Attach: a refused payment method is let pass.
AttachAnyway(r) ==
    /\ pc[r] \in {"attach", "default"}
    /\ GoTo(r, IF price THEN "subscribe" ELSE "insert")
    /\ UNCHANGED <<request, offer, setup, connect, webhook>>

Attach(r) ==
    /\ \/ AttachMethod(r) /\ GoTo(r, "default")
       \/ SetDefaultMethod(r) /\ GoTo(r, IF price THEN "subscribe" ELSE "insert")
    /\ UNCHANGED <<request, offer, webhook>>

Subscribe(r) ==
    /\ CreateSubscription(r) /\ GoTo(r, "insert")
    /\ UNCHANGED <<request, offer, webhook>>

\* Mutant of Insert: ON CONFLICT DO NOTHING, and the reply goes out as before.
InsertOrIgnore(r) ==
    /\ pc[r] = "insert"
    /\ record' = [record EXCEPT ![subject[r]] = IF @ = None THEN r ELSE @]
    /\ Answer(r, r)
    /\ UNCHANGED <<request, offer, customers, attached, chargeable, subscribed, connect, webhook>>

\* Mutant of Insert: ON CONFLICT DO UPDATE.
InsertOrReplace(r) ==
    /\ pc[r] = "insert"
    /\ record' = [record EXCEPT ![subject[r]] = r]
    /\ Answer(r, r)
    /\ UNCHANGED <<request, offer, customers, attached, chargeable, subscribed, connect, webhook>>

Insert(r) ==
    /\ pc[r] = "insert"
    /\ IF record[subject[r]] = None
       THEN InsertCustomer(r) /\ Answer(r, r)
       ELSE UNCHANGED <<setup, connect>> /\ Answer(r, "error")
    /\ UNCHANGED <<request, offer, webhook>>

\* connect: some row of the node, if it has one, is complete, or its link is
\* issued again; else an account is made.
Find(r) ==
    /\ pc[r] = "find"
    /\ LET known == {a \in rows : subject[a] = subject[r]}
       IN  \/ known = {} /\ GoTo(r, "open") /\ UNCHANGED offer
          \/ \E a \in known : /\ offer' = [offer EXCEPT ![r] = a]
                              /\ IF a \in complete THEN Answer(r, "error") ELSE GoTo(r, "link")
    /\ UNCHANGED <<request, setup, connect, webhook>>

OpenAccount(r) ==
    /\ CreateConnectAccount(r) /\ GoTo(r, "link")
    /\ UNCHANGED <<request, offer, webhook>>

\* Mutant of Link: the link goes out before its account is on record.
LinkFirst(r) ==
    /\ pc[r] = "link"
    /\ reply' = [reply EXCEPT ![r] = offer[r]]
    /\ pc' = [pc EXCEPT ![r] = IF offer[r] = r THEN "save" ELSE "done"]
    /\ UNCHANGED <<request, offer, setup, connect, webhook>>

\* An account link is a URL; making one changes nothing that is modelled.
Link(r) ==
    /\ pc[r] = "link"
    /\ IF offer[r] = r THEN GoTo(r, "save") ELSE Answer(r, offer[r])
    /\ UNCHANGED <<request, offer, setup, connect, webhook>>

Save(r) ==
    /\ InsertAccount(r) /\ Answer(r, r)
    /\ UNCHANGED <<request, offer, webhook>>

\* The call of Stripe or the database the handler is at takes effect or not, and
\* the handler does not learn of it: the call fails and the request is answered
\* with an error, or the handler is dropped and nothing is answered.
BreakOff(r, answer) ==
    /\ pc[r] # "done"
    /\ Effect(r) \/ UNCHANGED <<setup, connect>>
    /\ Answer(r, answer)
    /\ UNCHANGED <<request, offer, webhook>>

\* Stripe enables an account whose link its owner was given, or restricts it
\* again, and means to tell the webhook.
AccountChanges(a) ==
    /\ emitted < MaxEvents
    /\ a \in accounts /\ a \in Range(reply)
    /\ emitted' = emitted + 1
    /\ enabled' = IF a \in enabled THEN enabled \ {a} ELSE enabled \cup {a}
    /\ events' = [events EXCEPT ![a] = Append(@, a \notin enabled)]
    /\ UNCHANGED <<request, pc, reply, offer, setup, connect, complete, disturbed>>

\* The webhook handles an event.  It says OK even if its UPDATE fails or finds no
\* row; an OK that is lost brings the event again.
AccountUpdated(a, i, success, again) ==
    /\ i \in DOMAIN events[a]
    /\ complete' = IF ~success \/ a \notin rows THEN complete
                   ELSE IF events[a][i] THEN complete \cup {a} ELSE complete \ {a}
    /\ events' = IF again THEN events ELSE [events EXCEPT ![a] = RemoveAt(@, i)]
    /\ disturbed' = IF success /\ i = 1 THEN disturbed ELSE disturbed \cup {a}
    /\ UNCHANGED <<request, pc, reply, offer, setup, connect, enabled, emitted>>

Idle == (\A r \in Request : pc[r] = "done") /\ UNCHANGED vars

Next ==
    \/ \E r \in Request :
          \/ Lookup(r) \/ Create(r) \/ Attach(r) \/ Subscribe(r) \/ Insert(r)
          \/ Find(r) \/ OpenAccount(r) \/ Link(r) \/ Save(r)
          \/ \E answer \in {"error", None} : BreakOff(r, answer)
          \/ AccountChanges(r)
          \/ \E i \in 1..MaxEvents, success, again \in BOOLEAN : AccountUpdated(r, i, success, again)
    \/ Idle

Spec == Init /\ [][Next]_vars

-----------------------------------------------------------------------------
TypeOK ==
    /\ price \in BOOLEAN
    /\ subject \in [Request -> Key \cup Node]
    /\ pc \in [Request -> {"lookup", "create", "attach", "default", "subscribe",
                           "insert", "find", "open", "link", "save", "done"}]
    /\ reply \in [Request -> Request \cup {"error", None}]
    /\ record \in [Key -> Request \cup {None}]
    /\ customers \subseteq Request
    /\ attached \subseteq customers /\ chargeable \subseteq attached
    /\ subscribed \subseteq chargeable
    /\ ~price => subscribed = {}
    /\ offer \in [Request -> Request]
    /\ rows \subseteq accounts /\ accounts \subseteq {r \in Request : subject[r] \in Node}
    /\ complete \subseteq rows /\ enabled \subseteq accounts /\ disturbed \subseteq accounts
    /\ events \in [Request -> Seq(BOOLEAN)]
    /\ emitted \in 0..MaxEvents

\* Every consumer that was told of a customer was told the one on record, which
\* is the one that will be metered, so that all that were told of a key agree; it
\* was made for the key and can be charged: its invoices have a payment method
\* and, where one is sold, it has a subscription.  Every provider was told of an
\* account on record for its node
\* (routes/billing.rs:49-66, 84-152, 217-223, 276-282; billing_cron.rs:65-69).
RepliesAgree ==
    \A r \in Request : LET told == reply[r] IN told \in Request =>
        /\ subject[told] = subject[r]
        /\ IF subject[r] \in Key
           THEN /\ told = record[subject[r]]
                /\ told \in chargeable /\ (price => told \in subscribed)
           ELSE told \in rows

\* The record follows Stripe: when every event of an account has been handled, in
\* the order of the events and without a failed UPDATE, onboarding_complete tells
\* what Stripe holds; no event comes too early for its row
\* (routes/billing.rs:353-379).
RecordInStep ==
    \A a \in accounts \ disturbed : events[a] = <<>> => (a \in complete <=> a \in enabled)

\* The customer on record stays: what was metered to it and what will be are on
\* one bill (routes/billing.rs:119-138).
RecordStays == [][\A k \in Key : record[k] # None => record'[k] = record[k]]_vars
=============================================================================
