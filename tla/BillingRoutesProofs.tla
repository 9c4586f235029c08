------------------------- MODULE BillingRoutesProofs -------------------------
(***************************************************************************)
(* Proofs of the safety properties of BillingRoutes, for any number of     *)
(* keys, nodes, requests and events.                                       *)
(*                                                                         *)
(* A handler that has come to a call has done what the calls before it do, *)
(* nothing that was done is undone, and a record is written only by a      *)
(* handler that has come to its last call.                                 *)
(***************************************************************************)
EXTENDS BillingRoutes, TLAPS

\* A customer that can be charged for what is sold.
Payer(a) == a \in chargeable /\ (price => a \in subscribed)

\* What is done when a handler has come to its next call.
ProgressOf(r) ==
    /\ subject[r] \in Key
          => pc[r] \in {"lookup", "create", "attach", "default", "subscribe", "insert", "done"}
    /\ subject[r] \notin Key => pc[r] \in {"find", "open", "link", "save", "done"}
    /\ pc[r] = "attach" => r \in customers
    /\ pc[r] = "default" => r \in attached
    /\ pc[r] = "subscribe" => r \in chargeable /\ price
    /\ pc[r] = "insert" => Payer(r)
    /\ pc[r] \in {"find", "open", "save"} => offer[r] = r
    /\ pc[r] = "save" => r \in accounts
    /\ pc[r] = "link" =>
          IF offer[r] = r THEN r \in accounts
          ELSE offer[r] \in rows /\ subject[offer[r]] = subject[r]

AgreesFor(r) ==
    LET told == reply[r] IN told \in Request =>
        /\ subject[told] = subject[r]
        /\ IF subject[r] \in Key THEN told = record[subject[r]] /\ Payer(told)
           ELSE told \in rows

Records ==
    \A k \in Key, a \in Request : record[k] = a => subject[a] = k /\ Payer(a)

\* Stripe tells of an account only when its owner has been given a link, which is
\* after it was put on record; the last event to be delivered tells what Stripe
\* holds.
EventsOfRows == \A a \in Request : events[a] # <<>> => a \in rows

TellsOf(a) ==
    /\ events[a] = <<>> => (a \in complete <=> a \in enabled)
    /\ events[a] # <<>> => (events[a][Len(events[a])] <=> a \in enabled)

LastTells == \A a \in accounts : a \notin disturbed => TellsOf(a)

Inv ==
    /\ TypeOK /\ Records /\ EventsOfRows /\ LastTells
    /\ \A r \in Request : ProgressOf(r) /\ AgreesFor(r)

LEMMA AgreeMeans == (\A r \in Request : AgreesFor(r)) <=> RepliesAgree
  BY DEF AgreesFor, RepliesAgree, Payer

LEMMA Initially == Init => Inv
<1> SUFFICES ASSUME Init PROVE Inv
  OBVIOUS
<1> USE DEF Init
<1>1. TypeOK
  BY EventAssumption DEF TypeOK
<1>2. \A r \in Request : ProgressOf(r)
  BY DEF ProgressOf
<1>3. \A r \in Request : AgreesFor(r)
  BY NoneAssumption DEF AgreesFor
<1>4. Records /\ EventsOfRows /\ LastTells
  BY NoneAssumption DEF Records, EventsOfRows, LastTells, TellsOf
<1>5. QED
  BY <1>1, <1>2, <1>3, <1>4 DEF Inv

-----------------------------------------------------------------------------
\* What a call that takes effect does: nothing that was done is undone, and what it
\* does is what is in order for its request.
LEMMA Effective ==
    ASSUME Inv, NEW r \in Request, Effect(r)
    PROVE  /\ customers \subseteq customers' /\ attached \subseteq attached'
           /\ chargeable \subseteq chargeable' /\ subscribed \subseteq subscribed'
           /\ accounts \subseteq accounts' /\ rows \subseteq rows'
           /\ customers' \subseteq Request
           /\ attached' \subseteq customers' /\ chargeable' \subseteq attached'
           /\ subscribed' \subseteq chargeable' /\ (~price => subscribed' = {})
           /\ rows' \subseteq accounts' /\ accounts' \subseteq {q \in Request : subject[q] \in Node}
           /\ accounts' \ {r} \subseteq accounts
           /\ \/ record' = record
              \/ /\ pc[r] = "insert" /\ subject[r] \in Key /\ record[subject[r]] = None
                 /\ record' = [record EXCEPT ![subject[r]] = r]
<1> USE DEF Inv, TypeOK, ProgressOf
<1>1. CASE CreateCustomer(r)
  BY <1>1 DEF CreateCustomer, connect
<1>2. CASE AttachMethod(r)
  BY <1>2 DEF AttachMethod, connect
<1>3. CASE SetDefaultMethod(r)
  BY <1>3 DEF SetDefaultMethod, connect
<1>4. CASE CreateSubscription(r)
  BY <1>4 DEF CreateSubscription, connect
<1>5. CASE CreateConnectAccount(r)
  BY <1>5 DEF CreateConnectAccount, setup
<1>6. CASE InsertCustomer(r)
  BY <1>6 DEF InsertCustomer, connect
<1>7. CASE InsertAccount(r)
  BY <1>7 DEF InsertAccount, setup
<1>8. QED
  BY <1>1, <1>2, <1>3, <1>4, <1>5, <1>6, <1>7 DEF Effect

\* A step of one handler: it is enough to look at its own request.
LEMMA Handled ==
    ASSUME Inv, NEW r \in Request, Effect(r) \/ UNCHANGED <<setup, connect>>,
           UNCHANGED <<request, webhook>>,
           NEW w \in {"lookup", "create", "attach", "default", "subscribe",
                      "insert", "find", "open", "link", "save", "done"},
           pc' = [pc EXCEPT ![r] = w],
           NEW t \in Request \cup {"error", None}, reply' = [reply EXCEPT ![r] = t],
           NEW o \in Request, offer' = [offer EXCEPT ![r] = o],
           ProgressOf(r)', t = reply[r] \/ t \in {"error", None} \/ AgreesFor(r)'
    PROVE  Inv'
<1>1. /\ UNCHANGED <<price, subject, complete, enabled, events, emitted, disturbed>>
      /\ \A q \in Request : q # r => pc'[q] = pc[q] /\ reply'[q] = reply[q] /\ offer'[q] = offer[q]
      /\ pc' \in [Request -> {"lookup", "create", "attach", "default", "subscribe",
                              "insert", "find", "open", "link", "save", "done"}]
      /\ reply' \in [Request -> Request \cup {"error", None}]
      /\ offer' \in [Request -> Request]
  BY DEF Inv, TypeOK, request, webhook
<1>2. /\ customers \subseteq customers' /\ attached \subseteq attached'
      /\ chargeable \subseteq chargeable' /\ subscribed \subseteq subscribed'
      /\ accounts \subseteq accounts' /\ rows \subseteq rows'
      /\ customers' \subseteq Request
      /\ attached' \subseteq customers' /\ chargeable' \subseteq attached'
      /\ subscribed' \subseteq chargeable' /\ (~price => subscribed' = {})
      /\ rows' \subseteq accounts' /\ accounts' \subseteq {q \in Request : subject[q] \in Node}
      /\ accounts' \ {r} \subseteq accounts
      /\ \/ record' = record
         \/ /\ pc[r] = "insert" /\ subject[r] \in Key /\ record[subject[r]] = None
            /\ record' = [record EXCEPT ![subject[r]] = r]
  <2>1. CASE Effect(r)
    BY <2>1, Effective
  <2>2. CASE UNCHANGED <<setup, connect>>
    BY <2>2 DEF setup, connect, Inv, TypeOK
  <2>3. QED
    BY <2>1, <2>2
<1>3. /\ record' \in [Key -> Request \cup {None}]
      /\ \A k \in Key : record[k] # None => record'[k] = record[k]
      /\ \A k \in Key : record'[k] # record[k] => record'[k] = r /\ pc[r] = "insert" /\ subject[r] = k
  BY <1>2 DEF Inv, TypeOK
<1>4. \A a : Payer(a) => Payer(a)'
  BY <1>1, <1>2 DEF Payer
<1>5. TypeOK'
  BY <1>1, <1>2, <1>3 DEF Inv, TypeOK
<1>6. \A q \in Request : ProgressOf(q)'
  <2>1. SUFFICES ASSUME NEW q \in Request, q # r PROVE ProgressOf(q)'
    OBVIOUS
  <2>2. ProgressOf(q)
    BY DEF Inv
  <2>3. QED
    BY <1>1, <1>2, <1>4, <2>1, <2>2 DEF ProgressOf
<1>7. \A q \in Request : AgreesFor(q)'
  <2>1. ASSUME NEW q \in Request, reply'[q] = reply[q] PROVE AgreesFor(q)'
    <3>1. SUFFICES ASSUME reply[q] \in Request PROVE AgreesFor(q)'
      BY <2>1 DEF AgreesFor
    <3>2. AgreesFor(q) /\ reply[q] # None
      BY <3>1, NoneAssumption DEF Inv
    <3>3. QED
      BY <1>1, <1>2, <1>3, <1>4, <2>1, <3>1, <3>2 DEF AgreesFor
  <2>2. reply'[r] = t
    BY DEF Inv, TypeOK
  <2>3. CASE t \in {"error", None}
    <3>1. AgreesFor(r)'
      BY <2>2, <2>3, NoneAssumption DEF AgreesFor
    <3>2. QED
      BY <1>1, <2>1, <3>1
  <2>4. CASE t = reply[r]
    BY <1>1, <2>1, <2>2, <2>4
  <2>5. CASE AgreesFor(r)'
    BY <1>1, <2>1, <2>5
  <2>6. QED
    BY <2>3, <2>4, <2>5
<1>8. Records'
  <2>1. SUFFICES ASSUME NEW k \in Key, NEW a \in Request, record'[k] = a
                 PROVE  subject[a] = k /\ Payer(a)'
    BY <1>1 DEF Records
  <2>2. CASE record[k] = a
    BY <1>4, <2>2 DEF Inv, Records
  <2>3. CASE record[k] # a
    <3>1. a = r /\ subject[r] = k /\ Payer(r)
      BY <1>3, <2>1, <2>3 DEF Inv, ProgressOf
    <3>2. QED
      BY <1>4, <3>1
  <2>4. QED
    BY <2>2, <2>3
<1>9. EventsOfRows'
  BY <1>1, <1>2 DEF Inv, EventsOfRows
<1>10. LastTells'
  <2>1. \A a : TellsOf(a)' <=> TellsOf(a)
    BY <1>1 DEF TellsOf
  <2>2. ASSUME NEW a \in accounts', a \notin accounts PROVE TellsOf(a)
    <3>1. a \in Request /\ rows \subseteq accounts /\ complete \subseteq rows /\ enabled \subseteq accounts
      BY <1>2 DEF Inv, TypeOK
    <3>2. events[a] = <<>> /\ a \notin complete /\ a \notin enabled
      BY <2>2, <3>1 DEF Inv, EventsOfRows
    <3>3. QED
      BY <3>2 DEF TellsOf
  <2>3. \A a \in accounts : a \notin disturbed => TellsOf(a)
    BY DEF Inv, LastTells
  <2>4. \A a \in accounts' : a \notin disturbed => TellsOf(a)
    BY <2>2, <2>3
  <2>5. QED
    BY <1>1, <2>1, <2>4 DEF LastTells
<1>11. QED
  BY <1>5, <1>6, <1>7, <1>8, <1>9, <1>10 DEF Inv

\* The two ways in which a step of a handler ends.
LEMMA Goes ==
    ASSUME Inv, NEW r \in Request, Effect(r) \/ UNCHANGED <<setup, connect>>,
           UNCHANGED <<request, webhook>>,
           NEW w \in {"lookup", "create", "attach", "default", "subscribe",
                      "insert", "find", "open", "link", "save", "done"},
           GoTo(r, w), NEW o \in Request, offer' = [offer EXCEPT ![r] = o], ProgressOf(r)'
    PROVE  Inv'
<1>1. reply' = [reply EXCEPT ![r] = reply[r]] /\ reply[r] \in Request \cup {"error", None}
  BY DEF GoTo, Inv, TypeOK
<1>2. QED
  BY <1>1, Handled DEF GoTo

LEMMA Answers ==
    ASSUME Inv, NEW r \in Request, Effect(r) \/ UNCHANGED <<setup, connect>>,
           UNCHANGED <<request, webhook>>,
           NEW t \in Request \cup {"error", None}, Answer(r, t),
           NEW o \in Request, offer' = [offer EXCEPT ![r] = o],
           t \in {"error", None} \/ AgreesFor(r)'
    PROVE  Inv'
<1>1. pc' = [pc EXCEPT ![r] = "done"] /\ reply' = [reply EXCEPT ![r] = t]
  BY DEF Answer
<1>2. pc'[r] = "done"
  BY <1>1 DEF Inv, TypeOK
<1>3. ProgressOf(r)'
  BY <1>2 DEF ProgressOf
<1>4. QED
  BY <1>1, <1>3, Handled

\* What AgreesFor asks, of a request about to be told.
LEMMA ToldOfKey ==
    ASSUME Inv, NEW r \in Request, UNCHANGED request, NEW t \in Request, Answer(r, t),
           subject[r] \in Key, record'[subject[r]] = t, subject[t] = subject[r], Payer(t)'
    PROVE  AgreesFor(r)'
<1>1. reply'[r] = t
  BY DEF Answer, Inv, TypeOK
<1>2. QED
  BY <1>1 DEF AgreesFor, request

LEMMA ToldOfNode ==
    ASSUME Inv, NEW r \in Request, UNCHANGED request, NEW t \in Request, Answer(r, t),
           subject[r] \notin Key, t \in rows', subject[t] = subject[r]
    PROVE  AgreesFor(r)'
<1>1. reply'[r] = t
  BY DEF Answer, Inv, TypeOK
<1>2. QED
  BY <1>1 DEF AgreesFor, request

-----------------------------------------------------------------------------
\* A consumer's key: the calls of POST /v1/billing/setup.
LEMMA SetupKeeps ==
    ASSUME Inv, NEW r \in Request,
           Lookup(r) \/ Create(r) \/ Attach(r) \/ Subscribe(r) \/ Insert(r)
    PROVE  Inv'
<1>1. /\ ProgressOf(r) /\ AgreesFor(r) /\ TypeOK
      /\ offer[r] \in Request /\ offer = [offer EXCEPT ![r] = offer[r]]
      /\ \A w : pc' = [pc EXCEPT ![r] = w] => pc'[r] = w
  BY DEF Inv, TypeOK
<1>2. UNCHANGED <<request, offer, webhook>> /\ UNCHANGED <<price, subject>>
  BY DEF Lookup, Create, Attach, Subscribe, Insert, request
<1>3. offer' = [offer EXCEPT ![r] = offer[r]]
  BY <1>1, <1>2
<1>4. subject[r] \in Key
  BY <1>1 DEF ProgressOf, Lookup, Create, Attach, Subscribe, Insert,
     CreateCustomer, AttachMethod, SetDefaultMethod, CreateSubscription
<1>5. CASE Lookup(r)
  <2>1. UNCHANGED <<setup, connect>> /\ UNCHANGED <<record, chargeable, subscribed>>
    BY <1>5 DEF Lookup, setup, connect
  <2>2. CASE record[subject[r]] = None
    <3>1. GoTo(r, "create")
      BY <1>5, <2>2 DEF Lookup
    <3>2. ProgressOf(r)'
      BY <1>1, <1>2, <1>4, <3>1 DEF GoTo, ProgressOf
    <3>3. QED
      BY <1>1, <1>2, <1>3, <2>1, <3>1, <3>2, Goes
  <2>3. CASE record[subject[r]] # None
    <3>1. PICK t \in Request : t = record[subject[r]]
      BY <1>1, <1>4, <2>3 DEF TypeOK
    <3>2. Answer(r, t)
      BY <1>5, <2>3, <3>1 DEF Lookup
    <3>3. subject[t] = subject[r] /\ Payer(t)
      BY <1>4, <3>1 DEF Inv, Records
    <3>4. Payer(t)' /\ record'[subject[r]] = t
      BY <1>2, <2>1, <3>1, <3>3 DEF Payer
    <3>5. AgreesFor(r)'
      BY <1>2, <1>4, <3>2, <3>3, <3>4, ToldOfKey
    <3>6. QED
      BY <1>1, <1>2, <1>3, <2>1, <3>2, <3>5, Answers
  <2>4. QED
    BY <2>2, <2>3
<1>6. CASE Create(r)
  <2>1. Effect(r) /\ GoTo(r, "attach") /\ r \in customers'
    BY <1>6 DEF Create, Effect, CreateCustomer
  <2>2. ProgressOf(r)'
    BY <1>1, <1>2, <1>4, <2>1 DEF GoTo, ProgressOf
  <2>3. QED
    BY <1>1, <1>2, <1>3, <2>1, <2>2, Goes
<1>7. CASE Attach(r) /\ AttachMethod(r) /\ GoTo(r, "default")
  <2>1. Effect(r) /\ r \in attached'
    BY <1>7 DEF Effect, AttachMethod
  <2>2. ProgressOf(r)'
    BY <1>1, <1>2, <1>4, <1>7, <2>1 DEF GoTo, ProgressOf
  <2>3. QED
    BY <1>1, <1>2, <1>3, <1>7, <2>1, <2>2, Goes
<1>8. CASE Attach(r) /\ SetDefaultMethod(r) /\ GoTo(r, IF price THEN "subscribe" ELSE "insert")
  <2>1. Effect(r) /\ r \in chargeable'
    BY <1>8 DEF Effect, SetDefaultMethod
  <2>2. PICK w \in {"subscribe", "insert"} : w = IF price THEN "subscribe" ELSE "insert"
    OBVIOUS
  <2>3. GoTo(r, w)
    BY <1>8, <2>2
  <2>4. ProgressOf(r)'
    BY <1>1, <1>2, <1>4, <2>1, <2>2, <2>3 DEF GoTo, ProgressOf, Payer
  <2>5. QED
    BY <1>1, <1>2, <1>3, <2>1, <2>3, <2>4, Goes
<1>9. CASE Subscribe(r)
  <2>1. Effect(r) /\ GoTo(r, "insert") /\ r \in subscribed' /\ pc[r] = "subscribe"
    BY <1>9 DEF Subscribe, Effect, CreateSubscription
  <2>2. r \in chargeable'
    BY <1>1, <1>9, <2>1 DEF ProgressOf, Subscribe, CreateSubscription
  <2>3. ProgressOf(r)'
    BY <1>1, <1>2, <1>4, <2>1, <2>2 DEF GoTo, ProgressOf, Payer
  <2>4. QED
    BY <1>1, <1>2, <1>3, <2>1, <2>3, Goes
<1>10. CASE Insert(r)
  <2>1. pc[r] = "insert" /\ Payer(r)
    BY <1>1, <1>10 DEF Insert, ProgressOf
  <2>2. CASE record[subject[r]] = None
    <3>1. InsertCustomer(r) /\ Answer(r, r)
      BY <1>10, <2>2 DEF Insert
    <3>2. Payer(r)' /\ record'[subject[r]] = r
      BY <1>1, <1>2, <1>4, <2>1, <3>1 DEF InsertCustomer, Payer, TypeOK
    <3>3. AgreesFor(r)'
      BY <1>2, <1>4, <3>1, <3>2, ToldOfKey
    <3>4. Effect(r)
      BY <3>1 DEF Effect
    <3>5. QED
      BY <1>1, <1>2, <1>3, <3>1, <3>3, <3>4, Answers
  <2>3. CASE record[subject[r]] # None
    <3>1. UNCHANGED <<setup, connect>> /\ Answer(r, "error")
      BY <1>10, <2>3 DEF Insert
    <3>2. QED
      BY <1>1, <1>2, <1>3, <3>1, Answers
  <2>4. QED
    BY <2>2, <2>3
<1>11. QED
  BY <1>5, <1>6, <1>7, <1>8, <1>9, <1>10 DEF Attach

\* A provider's node: the calls of POST /v1/billing/connect.
LEMMA ConnectKeeps ==
    ASSUME Inv, NEW r \in Request,
           Find(r) \/ OpenAccount(r) \/ Link(r) \/ Save(r)
    PROVE  Inv'
<1>1. /\ ProgressOf(r) /\ AgreesFor(r) /\ TypeOK
      /\ offer[r] \in Request /\ offer = [offer EXCEPT ![r] = offer[r]]
      /\ \A w : pc' = [pc EXCEPT ![r] = w] => pc'[r] = w
      /\ \A o : offer' = [offer EXCEPT ![r] = o] => offer'[r] = o
  BY DEF Inv, TypeOK
<1>2. UNCHANGED <<request, webhook>> /\ UNCHANGED <<price, subject>>
  BY DEF Find, OpenAccount, Link, Save, request
<1>3. subject[r] \notin Key
  BY <1>1 DEF ProgressOf, Find, OpenAccount, Link, Save, CreateConnectAccount, InsertAccount
<1>4. CASE Find(r)
  <2>1. UNCHANGED <<setup, connect>> /\ UNCHANGED <<rows, accounts>> /\ pc[r] = "find"
    BY <1>4 DEF Find, setup, connect
  <2>2. CASE GoTo(r, "open") /\ UNCHANGED offer
    <3>1. ProgressOf(r)'
      BY <1>1, <1>2, <1>3, <2>1, <2>2 DEF GoTo, ProgressOf
    <3>2. offer' = [offer EXCEPT ![r] = offer[r]]
      BY <1>1, <2>2
    <3>3. QED
      BY <1>1, <1>2, <2>1, <2>2, <3>1, <3>2, Goes
  <2>3. ASSUME NEW a \in rows, subject[a] = subject[r], offer' = [offer EXCEPT ![r] = a],
               IF a \in complete THEN Answer(r, "error") ELSE GoTo(r, "link")
        PROVE  Inv'
    <3>1. a \in Request /\ a \in accounts
      BY <1>1 DEF TypeOK
    <3>2. CASE a \in complete
      BY <1>2, <2>1, <2>3, <3>1, <3>2, Answers
    <3>3. CASE a \notin complete
      <4>1. GoTo(r, "link") /\ offer'[r] = a
        BY <1>1, <2>3, <3>3
      <4>2. pc'[r] = "link"
        BY <1>1, <4>1 DEF GoTo
      <4>3. IF offer'[r] = r THEN r \in accounts' ELSE offer'[r] \in rows' /\ subject'[offer'[r]] = subject'[r]
        BY <1>2, <2>1, <2>3, <3>1, <4>1
      <4>4. ProgressOf(r)'
        BY <1>2, <1>3, <4>2, <4>3 DEF ProgressOf
      <4>5. QED
        BY <1>2, <2>1, <2>3, <3>1, <4>1, <4>4, Goes
    <3>4. QED
      BY <3>2, <3>3
  <2>4. QED
    BY <1>4, <2>2, <2>3 DEF Find
<1>5. CASE OpenAccount(r)
  <2>1. /\ Effect(r) /\ GoTo(r, "link") /\ r \in accounts' /\ pc[r] = "open" /\ UNCHANGED offer
    BY <1>5 DEF OpenAccount, Effect, CreateConnectAccount
  <2>2. offer[r] = r
    BY <1>1, <2>1 DEF ProgressOf
  <2>3. ProgressOf(r)'
    BY <1>1, <1>2, <1>3, <2>1, <2>2 DEF GoTo, ProgressOf
  <2>4. QED
    BY <1>1, <1>2, <2>1, <2>3, Goes
<1>6. CASE Link(r)
  <2>1. UNCHANGED <<setup, connect>> /\ UNCHANGED <<rows, accounts, offer>> /\ pc[r] = "link"
    BY <1>6 DEF Link, setup, connect
  <2>2. CASE offer[r] = r
    <3>1. GoTo(r, "save")
      BY <1>6, <2>2 DEF Link
    <3>2. ProgressOf(r)'
      BY <1>1, <1>2, <1>3, <2>1, <2>2, <3>1 DEF GoTo, ProgressOf
    <3>3. QED
      BY <1>1, <1>2, <2>1, <3>1, <3>2, Goes
  <2>3. CASE offer[r] # r
    <3>1. PICK t \in Request : t = offer[r]
      BY <1>1
    <3>2. Answer(r, t)
      BY <1>6, <2>3, <3>1 DEF Link
    <3>3. t \in rows /\ subject[t] = subject[r]
      BY <1>1, <2>1, <2>3, <3>1 DEF ProgressOf
    <3>4. AgreesFor(r)'
      BY <1>2, <1>3, <2>1, <3>2, <3>3, ToldOfNode
    <3>5. QED
      BY <1>1, <1>2, <2>1, <3>2, <3>4, Answers
  <2>4. QED
    BY <2>2, <2>3
<1>7. CASE Save(r)
  <2>1. Effect(r) /\ Answer(r, r) /\ r \in rows' /\ UNCHANGED offer
    BY <1>7 DEF Save, Effect, InsertAccount
  <2>2. AgreesFor(r)'
    BY <1>2, <1>3, <2>1, ToldOfNode
  <2>3. QED
    BY <1>1, <1>2, <2>1, <2>2, Answers
<1>8. QED
  BY <1>4, <1>5, <1>6, <1>7

LEMMA BreakOffKeeps ==
    ASSUME Inv, NEW r \in Request, NEW answer \in {"error", None}, BreakOff(r, answer)
    PROVE  Inv'
<1>1. offer[r] \in Request /\ offer' = [offer EXCEPT ![r] = offer[r]]
  BY DEF BreakOff, Inv, TypeOK
<1>2. QED
  BY <1>1, Answers DEF BreakOff

-----------------------------------------------------------------------------
\* Stripe and the webhook leave requests and records alone.
LEMMA EventKeeps ==
    ASSUME Inv, UNCHANGED <<request, pc, reply, offer, setup, connect>>,
           complete' \subseteq rows, enabled' \subseteq accounts, disturbed' \subseteq accounts,
           events' \in [Request -> Seq(BOOLEAN)], emitted' \in 0..MaxEvents,
           \A b \in Request : events'[b] # <<>> => b \in rows,
           \A b \in accounts : b \notin disturbed' => TellsOf(b)'
    PROVE  Inv'
<1>1. UNCHANGED <<price, subject, customers, attached, chargeable, subscribed, record, accounts, rows>>
  BY DEF request, setup, connect
<1>2. TypeOK'
  BY <1>1 DEF Inv, TypeOK
<1>3. \A a : Payer(a)' <=> Payer(a)
  BY <1>1 DEF Payer
<1>4. \A r \in Request : ProgressOf(r)'
  BY <1>1, <1>3 DEF Inv, ProgressOf
<1>5. \A r \in Request : AgreesFor(r)'
  BY <1>1, <1>3 DEF Inv, AgreesFor
<1>6. Records' /\ EventsOfRows' /\ LastTells'
  BY <1>1, <1>3 DEF Inv, Records, EventsOfRows, LastTells
<1>7. QED
  BY <1>2, <1>4, <1>5, <1>6 DEF Inv

LEMMA AccountChangesKeeps ==
    ASSUME Inv, NEW a \in Request, AccountChanges(a)
    PROVE  Inv'
<1>1. /\ a \in accounts /\ emitted < MaxEvents /\ emitted' = emitted + 1
      /\ enabled' = IF a \in enabled THEN enabled \ {a} ELSE enabled \cup {a}
      /\ events' = [events EXCEPT ![a] = Append(events[a], a \notin enabled)]
      /\ UNCHANGED <<request, pc, reply, offer, setup, connect, complete, disturbed>>
      /\ \E r \in Request : reply[r] = a
  BY DEF AccountChanges, Range, Inv, TypeOK
<1>2. a \in rows
  <2>1. PICK r \in Request : reply[r] = a
    BY <1>1
  <2>2. AgreesFor(r) /\ subject[a] \in Node
    BY <1>1 DEF Inv, TypeOK
  <2>3. QED
    BY <2>1, <2>2, SubjectAssumption DEF AgreesFor
<1>3. events \in [Request -> Seq(BOOLEAN)] /\ events[a] \in Seq(BOOLEAN)
  BY DEF Inv, TypeOK
<1>4. /\ events' \in [Request -> Seq(BOOLEAN)]
      /\ events'[a] = Append(events[a], a \notin enabled)
      /\ \A b \in Request : b # a => events'[b] = events[b]
  BY <1>1, <1>3
<1>5. TellsOf(a)'
  <2>1. events'[a] # <<>> /\ Len(events'[a]) = Len(events[a]) + 1
    BY <1>3, <1>4
  <2>2. events'[a][Len(events'[a])] = (a \notin enabled)
    BY <1>3, <1>4, <2>1
  <2>3. a \in enabled' <=> a \notin enabled
    BY <1>1
  <2>4. QED
    BY <2>1, <2>2, <2>3 DEF TellsOf
<1>6. ASSUME NEW b \in accounts, b # a, b \notin disturbed PROVE TellsOf(b)'
  <2>1. b \in Request /\ TellsOf(b)
    BY <1>6 DEF Inv, TypeOK, LastTells
  <2>2. events'[b] = events[b] /\ (b \in enabled' <=> b \in enabled)
    BY <1>1, <1>4, <1>6, <2>1
  <2>3. UNCHANGED complete
    BY <1>1
  <2>4. QED
    BY <2>1, <2>2, <2>3 DEF TellsOf
<1>7. /\ complete' \subseteq rows /\ enabled' \subseteq accounts /\ disturbed' \subseteq accounts
      /\ emitted' \in 0..MaxEvents
  BY <1>1, EventAssumption DEF Inv, TypeOK
<1>8. \A b \in Request : events'[b] # <<>> => b \in rows
  BY <1>2, <1>4 DEF Inv, EventsOfRows
<1>9. \A b \in accounts : b \notin disturbed' => TellsOf(b)'
  BY <1>1, <1>5, <1>6
<1>10. QED
  BY <1>1, <1>4, <1>7, <1>8, <1>9, EventKeeps

\* Taking an event out of a queue: what is left, and which is the last one.
LEMMA Removed ==
    ASSUME NEW s \in Seq(BOOLEAN), NEW i \in 1..Len(s)
    PROVE  /\ RemoveAt(s, i) \in Seq(BOOLEAN) /\ Len(RemoveAt(s, i)) = Len(s) - 1
           /\ i = 1 /\ Len(s) > 1 =>
                 RemoveAt(s, i)[Len(RemoveAt(s, i))] = s[Len(s)]
<1> DEFINE front == SubSeq(s, 1, i - 1)
           back == SubSeq(s, i + 1, Len(s))
<1>1. front \in Seq(BOOLEAN) /\ Len(front) = i - 1
  OBVIOUS
<1>2. back \in Seq(BOOLEAN) /\ Len(back) = Len(s) - i
  OBVIOUS
<1>3. \A j \in 1..Len(s) - i : back[j] = s[i + j]
  OBVIOUS
<1>4. RemoveAt(s, i) = front \o back
  BY DEF RemoveAt
<1> HIDE DEF front, back
<1>5. /\ front \o back \in Seq(BOOLEAN) /\ Len(front \o back) = Len(s) - 1
      /\ i = 1 => \A j \in 1..Len(s) - 1 : (front \o back)[j] = back[j]
  BY <1>1, <1>2
<1>6. ASSUME i = 1, Len(s) > 1 PROVE (front \o back)[Len(s) - 1] = s[Len(s)]
  <2>1. Len(s) \in Nat /\ Len(s) - 1 \in 1..Len(s) - 1
    BY <1>6
  <2>2. back[Len(s) - 1] = s[i + (Len(s) - 1)]
    BY <1>3, <1>6, <2>1
  <2>3. QED
    BY <1>5, <1>6, <2>1, <2>2
<1>7. QED
  BY <1>4, <1>5, <1>6

LEMMA AccountUpdatedKeeps ==
    ASSUME Inv, NEW a \in Request, NEW i \in 1..MaxEvents,
           NEW success \in BOOLEAN, NEW again \in BOOLEAN, AccountUpdated(a, i, success, again)
    PROVE  Inv'
<1>1. /\ i \in DOMAIN events[a]
      /\ complete' = IF ~success \/ a \notin rows THEN complete
                     ELSE IF events[a][i] THEN complete \cup {a} ELSE complete \ {a}
      /\ events' = IF again THEN events ELSE [events EXCEPT ![a] = RemoveAt(events[a], i)]
      /\ disturbed' = IF success /\ i = 1 THEN disturbed ELSE disturbed \cup {a}
      /\ UNCHANGED <<request, pc, reply, offer, setup, connect, enabled, emitted>>
  BY DEF AccountUpdated
<1>2. events \in [Request -> Seq(BOOLEAN)] /\ events[a] \in Seq(BOOLEAN)
  BY DEF Inv, TypeOK
<1>3. i \in 1..Len(events[a]) /\ events[a] # <<>>
  BY <1>1, <1>2
<1>4. a \in rows /\ a \in accounts
  BY <1>3 DEF Inv, EventsOfRows, TypeOK
<1>5. /\ RemoveAt(events[a], i) \in Seq(BOOLEAN) /\ Len(RemoveAt(events[a], i)) = Len(events[a]) - 1
      /\ i = 1 /\ Len(events[a]) > 1 =>
            RemoveAt(events[a], i)[Len(RemoveAt(events[a], i))] = events[a][Len(events[a])]
  BY <1>2, <1>3, Removed
<1>6. /\ events' \in [Request -> Seq(BOOLEAN)]
      /\ events'[a] = IF again THEN events[a] ELSE RemoveAt(events[a], i)
      /\ \A b \in Request : b # a => events'[b] = events[b]
  BY <1>1, <1>2, <1>5
<1>7. ASSUME a \notin disturbed' PROVE TellsOf(a)'
  <2>1. success /\ i = 1 /\ a \notin disturbed
    BY <1>1, <1>7
  <2>2. events[a][Len(events[a])] <=> a \in enabled
    BY <1>3, <1>4, <2>1 DEF Inv, LastTells, TellsOf
  <2>3. UNCHANGED enabled
    BY <1>1
  <2>4. CASE again
    BY <1>3, <1>6, <2>2, <2>3, <2>4 DEF TellsOf
  <2>5. CASE ~again /\ Len(events[a]) > 1
    <3>1. events'[a] # <<>> /\ events'[a][Len(events'[a])] = events[a][Len(events[a])]
      BY <1>2, <1>5, <1>6, <2>1, <2>5
    <3>2. QED
      BY <2>2, <2>3, <3>1 DEF TellsOf
  <2>6. CASE ~again /\ Len(events[a]) = 1
    <3>1. events'[a] = <<>>
      BY <1>5, <1>6, <2>6
    <3>2. events[a][1] <=> a \in enabled
      BY <2>2, <2>6
    <3>3. a \in complete' <=> a \in enabled
      BY <1>1, <1>4, <2>1, <3>2
    <3>4. QED
      BY <2>3, <3>1, <3>3 DEF TellsOf
  <2>7. Len(events[a]) > 1 \/ Len(events[a]) = 1
    <3>1. PICK n \in Nat : n = Len(events[a])
      BY <1>2
    <3>2. n >= 1
      BY <1>3, <3>1
    <3>3. n > 1 \/ n = 1
      BY <3>2
    <3>4. QED
      BY <3>1, <3>3
  <2>8. QED
    BY <2>4, <2>5, <2>6, <2>7, Zenon
<1>8. ASSUME NEW b \in accounts, b # a, b \notin disturbed' PROVE TellsOf(b)'
  <2>1. b \in Request /\ b \notin disturbed
    BY <1>1, <1>8 DEF Inv, TypeOK
  <2>2. TellsOf(b)
    BY <2>1 DEF Inv, LastTells
  <2>3. /\ events'[b] = events[b] /\ UNCHANGED enabled
        /\ b \in complete' <=> b \in complete
    BY <1>1, <1>6, <1>8, <2>1
  <2>4. QED
    BY <2>2, <2>3 DEF TellsOf
<1>9. /\ complete' \subseteq rows /\ enabled' \subseteq accounts /\ disturbed' \subseteq accounts
      /\ emitted' \in 0..MaxEvents
  BY <1>1, <1>4 DEF Inv, TypeOK
<1>10. \A b \in Request : events'[b] # <<>> => b \in rows
  BY <1>4, <1>6 DEF Inv, EventsOfRows
<1>11. \A b \in accounts : b \notin disturbed' => TellsOf(b)'
  BY <1>7, <1>8
<1>12. QED
  BY <1>1, <1>6, <1>9, <1>10, <1>11, EventKeeps

-----------------------------------------------------------------------------
LEMMA Invariance == Inv /\ [Next]_vars => Inv'
<1> SUFFICES ASSUME Inv, [Next]_vars PROVE Inv'
  OBVIOUS
<1>1. ASSUME NEW r \in Request,
             Lookup(r) \/ Create(r) \/ Attach(r) \/ Subscribe(r) \/ Insert(r)
      PROVE  Inv'
  BY <1>1, SetupKeeps
<1>2. ASSUME NEW r \in Request, Find(r) \/ OpenAccount(r) \/ Link(r) \/ Save(r) PROVE Inv'
  BY <1>2, ConnectKeeps
<1>3. ASSUME NEW r \in Request, NEW answer \in {"error", None}, BreakOff(r, answer) PROVE Inv'
  BY <1>3, BreakOffKeeps
<1>4. ASSUME NEW r \in Request, AccountChanges(r) PROVE Inv'
  BY <1>4, AccountChangesKeeps
<1>5. ASSUME NEW r \in Request, NEW i \in 1..MaxEvents, NEW success \in BOOLEAN,
             NEW again \in BOOLEAN, AccountUpdated(r, i, success, again)
      PROVE  Inv'
  BY <1>5, AccountUpdatedKeeps
<1>6. ASSUME UNCHANGED vars PROVE Inv'
  <2>1. /\ UNCHANGED <<request, pc, reply, offer, setup, connect>>
        /\ UNCHANGED <<complete, enabled, events, emitted, disturbed>>
    BY <1>6 DEF vars, webhook
  <2>2. \A b : TellsOf(b)' <=> TellsOf(b)
    BY <2>1 DEF TellsOf
  <2>3. /\ complete \subseteq rows /\ enabled \subseteq accounts /\ disturbed \subseteq accounts
        /\ events \in [Request -> Seq(BOOLEAN)] /\ emitted \in 0..MaxEvents
    BY DEF Inv, TypeOK
  <2>4. \A b \in Request : events[b] # <<>> => b \in rows
    BY DEF Inv, EventsOfRows
  <2>5. \A b \in accounts : b \notin disturbed' => TellsOf(b)'
    BY <2>1, <2>2 DEF Inv, LastTells
  <2>6. QED
    BY <2>1, <2>3, <2>4, <2>5, EventKeeps
<1>7. QED
  BY <1>1, <1>2, <1>3, <1>4, <1>5, <1>6 DEF Next, Idle

LEMMA Invariant == Spec => []Inv
<1>1. Init => Inv
  BY Initially
<1>2. Inv /\ [Next]_vars => Inv'
  BY Invariance
<1>3. QED
  BY <1>1, <1>2, PTL DEF Spec

\* Every state is well typed, and what Stripe holds is made in the order of the
\* calls (routes/billing.rs:84-152, 217-282).
THEOREM TypeCorrect == Spec => []TypeOK
<1>1. Inv => TypeOK
  BY DEF Inv
<1>2. QED
  BY <1>1, Invariant, PTL

\* All that were told of a customer or an account were told the one on record, of
\* which nothing is missing (routes/billing.rs:49-66, 84-152, 217-223, 276-282).
THEOREM AllRepliesAgree == Spec => []RepliesAgree
<1>1. Inv => RepliesAgree
  BY AgreeMeans DEF Inv
<1>2. QED
  BY <1>1, Invariant, PTL

\* Once the events of an account are handled the record tells what Stripe holds
\* (routes/billing.rs:353-379).
THEOREM RecordFollows == Spec => []RecordInStep
<1>1. Inv => RecordInStep
  BY DEF Inv, LastTells, TellsOf, RecordInStep
<1>2. QED
  BY <1>1, Invariant, PTL

\* The customer on record stays (routes/billing.rs:119-138).
THEOREM RecordIsKept == Spec => RecordStays
<1> DEFINE Stays == \A k \in Key : record[k] # None => record'[k] = record[k]
<1>1. Inv /\ [Next]_vars => [Stays]_vars
  <2> SUFFICES ASSUME Inv, Next PROVE Stays
    BY DEF vars
  <2>1. ASSUME NEW r \in Request, Effect(r) PROVE Stays
    BY <2>1, Effective DEF Inv, TypeOK
  <2>2. ASSUME NEW r \in Request,
               Create(r) \/ Attach(r) \/ Subscribe(r) \/ OpenAccount(r) \/ Save(r)
        PROVE  Effect(r)
    BY <2>2 DEF Create, Attach, Subscribe, OpenAccount, Save, Effect
  <2>3. ASSUME NEW r \in Request, Insert(r) \/ \E answer \in {"error", None} : BreakOff(r, answer)
        PROVE  Effect(r) \/ UNCHANGED record
    BY <2>3 DEF Insert, BreakOff, Effect, setup
  <2>4. ASSUME NEW r \in Request, Lookup(r) \/ Find(r) \/ Link(r) PROVE UNCHANGED record
    BY <2>4 DEF Lookup, Find, Link, setup
  <2>5. ASSUME NEW r \in Request,
               \/ AccountChanges(r)
               \/ \E i \in 1..MaxEvents, success, again \in BOOLEAN :
                     AccountUpdated(r, i, success, again)
        PROVE  UNCHANGED record
    BY <2>5 DEF AccountChanges, AccountUpdated, setup
  <2>6. ASSUME UNCHANGED vars PROVE UNCHANGED record
    BY <2>6 DEF vars, setup
  <2>7. ASSUME UNCHANGED record PROVE Stays
    BY <2>7
  <2>8. QED
    BY <2>1, <2>2, <2>3, <2>4, <2>5, <2>6, <2>7 DEF Next, Idle
<1>2. QED
  BY <1>1, Invariant, PTL DEF Spec, RecordStays
=============================================================================
