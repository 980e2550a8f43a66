---------------------------- MODULE Pages_proofs ----------------------------
(***************************************************************************)
(* What a user has of the site in a browser and in the users table.  Forms *)
(* keep the legs of a slip and the refine loop has one slip, for all legs, *)
(* texts and histories; a plan is what was bought, for any users,          *)
(* subscriptions, log, order and number of duplicates and failures.        *)
(***************************************************************************)
EXTENDS Billing, Pages, FiniteSetTheorems, WellFoundedInduction, TLAPS

-----------------------------------------------------------------------------
(* Billing (Billing.tla).                                                  *)

\* The subscription on record was paid by this user and customer.
RecordedIsPaid == \A u \in Users :
  user[u].sub # NULL =>
    /\ stripe[user[u].sub].owner = u /\ stripe[user[u].sub].status \in Paid
    /\ user[u].customer = stripe[user[u].sub].customer

BestIsRecorded == \A u \in Users : user[u].tier = "BEST" => user[u].sub # NULL

\* A checkout only completes when a user's session is paid.
CheckoutsArePaid == \A i \in DOMAIN events :
  events[i].kind = "checkout.session.completed" =>
    stripe[events[i].sub].owner \in Users /\ stripe[events[i].sub].status \in Paid

\* Only a user opens a session.
OpenHasOwner == \A s \in Subs : stripe[s].status = "open" => stripe[s].owner \in Users

\* The inductive invariant.
BillingInv ==
  OpenHasOwner /\ BillingTypeOK /\ RecordedIsPaid /\ BestIsRecorded /\ CheckoutsArePaid

\* What the log holds.
LEMMA EventInLog ==
  ASSUME BillingTypeOK, NEW i \in DOMAIN events
  PROVE  events[i] \in Event /\ events[i].sub \in Subs /\ events[i].kind \in Kinds
<1>1. events \in Seq(Event)
  BY DEF BillingTypeOK
<1>2. events[i] \in Event
  BY <1>1
<1>3. QED  BY <1>2 DEF Event

\* Whoever an event concerns is a user, and the owner of a completed checkout.
LEMMA ConcernedIsUser ==
  ASSUME BillingInv, NEW i \in DOMAIN events
  PROVE  /\ Concerned(events[i]) \in Users \cup {NULL}
         /\ events[i].kind = "checkout.session.completed"
              => Concerned(events[i]) = stripe[events[i].sub].owner
<1>1. events[i] \in Event /\ events[i].sub \in Subs
  BY EventInLog DEF BillingInv
<1>2. stripe[events[i].sub].owner \in Users \cup {NULL}
  BY <1>1 DEF BillingInv, BillingTypeOK, StripeRow
<1>3. FindUserBySubscription(events[i].sub) \in Users \cup {NULL}
  BY DEF FindUserBySubscription
<1>4. events[i].kind = "checkout.session.completed" => stripe[events[i].sub].owner \in Users
  BY DEF BillingInv, CheckoutsArePaid
<1>5. QED  BY <1>2, <1>3, <1>4, BillingAssumption DEF Concerned

\* The row a handler writes.
LEMMA UpdatedRow ==
  ASSUME BillingInv, NEW i \in DOMAIN events, NEW u \in Users, Concerned(events[i]) = u
  PROVE  /\ UpdateUserSubscription(u, events[i]) \in UserRow
         /\ LET r == UpdateUserSubscription(u, events[i])
            IN  /\ r.tier = "BEST" => r.sub # NULL
                /\ r.sub # NULL =>
                     /\ stripe[r.sub].owner = u /\ stripe[r.sub].status \in Paid
                     /\ r.customer = stripe[r.sub].customer
<1> DEFINE e == events[i]
           r == UpdateUserSubscription(u, e)
<1>1. e \in Event /\ e.sub \in Subs /\ e.kind \in Kinds /\ e.sub # NULL
  BY EventInLog, BillingAssumption DEF BillingInv
<1>2. user[u] \in UserRow /\ stripe[e.sub] \in StripeRow
  BY <1>1 DEF BillingInv, BillingTypeOK
<1>3. CASE e.kind = "checkout.session.completed"
  <2>1. stripe[e.sub].owner = u /\ stripe[e.sub].status \in Paid
    BY <1>3, ConcernedIsUser DEF BillingInv, CheckoutsArePaid
  <2>2. r = [tier |-> "BEST", customer |-> stripe[e.sub].customer, sub |-> e.sub]
    BY <1>3 DEF UpdateUserSubscription
  <2>3. QED  BY <1>1, <1>2, <2>1, <2>2 DEF UserRow, StripeRow, PaidTiers
<1>4. CASE e.kind = "customer.subscription.deleted"
  <2>1. r = [user[u] EXCEPT !.tier = "GOOD", !.sub = NULL]
    BY <1>4 DEF UpdateUserSubscription
  <2>2. QED  BY <1>2, <2>1 DEF UserRow, PaidTiers
<1>5. CASE e.kind = "invoice.payment_failed"
  <2>1. r = [user[u] EXCEPT !.tier = "GOOD"]
    BY <1>5 DEF UpdateUserSubscription
  <2>2. r \in UserRow /\ r.tier = "GOOD" /\ r.sub = user[u].sub /\ r.customer = user[u].customer
    BY <1>2, <2>1 DEF UserRow, PaidTiers
  <2>3. QED  BY <2>2 DEF BillingInv, RecordedIsPaid
<1>6. QED  BY <1>1, <1>3, <1>4, <1>5 DEF Kinds

\* A handler keeps the invariant, whatever event it is given and whenever.
LEMMA ProcessKeepsInv ==
  ASSUME BillingInv, NEW i \in DOMAIN events, ProcessWebhookEvent(i),
         UNCHANGED <<stripe, events, orderly>>,
         duplicates' \in 0..MaxDuplicates, failures' \in 0..MaxFailures
  PROVE  BillingInv'
<1> DEFINE u == Concerned(events[i])
<1>1. stripe' = stripe /\ events' = events /\ orderly' = orderly
  OBVIOUS
<1>2. tried' \subseteq DOMAIN events /\ acked' \subseteq tried'
  BY DEF ProcessWebhookEvent, BillingInv, BillingTypeOK
<1>3. CheckoutsArePaid'
  BY <1>1 DEF BillingInv, CheckoutsArePaid
<1>4. CASE u = NULL
  <2>1. user' = user
    BY <1>4 DEF ProcessWebhookEvent
  <2>2. QED
    BY <1>1, <1>2, <1>3, <2>1
    DEF BillingInv, BillingTypeOK, RecordedIsPaid, BestIsRecorded, OpenHasOwner
<1>5. CASE u # NULL
  <2>1. u \in Users
    BY <1>5, ConcernedIsUser
  <2>2. user' = [user EXCEPT ![u] = UpdateUserSubscription(u, events[i])]
    BY <1>5 DEF ProcessWebhookEvent
  <2>3. user \in [Users -> UserRow]
    BY DEF BillingInv, BillingTypeOK
  <2>4. user' \in [Users -> UserRow]
    BY <2>1, <2>2, <2>3, UpdatedRow
  <2>5. \A v \in Users : user'[v] = IF v = u THEN UpdateUserSubscription(u, events[i]) ELSE user[v]
    BY <2>2, <2>3
  <2>6. RecordedIsPaid'
    BY <1>1, <2>1, <2>5, UpdatedRow DEF BillingInv, RecordedIsPaid
  <2>7. BestIsRecorded'
    BY <2>1, <2>5, UpdatedRow DEF BillingInv, BestIsRecorded
  <2>8. QED
    BY <1>1, <1>2, <1>3, <2>4, <2>6, <2>7 DEF BillingInv, BillingTypeOK, OpenHasOwner
<1>6. QED  BY <1>4, <1>5

\* Stripe changes one subscription that keeps its owner and customer once it
\* is paid, and logs at most one event; a checkout when a user's session is paid.
StripeStep(s) ==
  /\ stripe' \in [Subs -> StripeRow]
  /\ \A r \in Subs : stripe[r].status \in Paid =>
       /\ stripe'[r].status \in Paid
       /\ stripe'[r].owner = stripe[r].owner /\ stripe'[r].customer = stripe[r].customer
  /\ OpenHasOwner'
  /\ \/ events' = events
     \/ \E k \in Kinds :
          /\ events' = Append(events, [kind |-> k, sub |-> s])
          /\ k = "checkout.session.completed" =>
               stripe'[s].owner \in Users /\ stripe'[s].status \in Paid
  /\ UNCHANGED <<user, tried, acked, duplicates, failures, orderly>>

LEMMA StripeStepKeepsInv ==
  ASSUME BillingInv, NEW s \in Subs, StripeStep(s)
  PROVE  BillingInv'
<1>1. events \in Seq(Event) /\ user \in [Users -> UserRow]
  BY DEF BillingInv, BillingTypeOK
<1>2. events' \in Seq(Event) /\ DOMAIN events \subseteq DOMAIN events'
  <2>1. CASE events' = events
    BY <1>1, <2>1
  <2>2. ASSUME NEW k \in Kinds, events' = Append(events, [kind |-> k, sub |-> s])
        PROVE  events' \in Seq(Event) /\ DOMAIN events \subseteq DOMAIN events'
    <3>1. [kind |-> k, sub |-> s] \in Event
      BY DEF Event
    <3>2. QED  BY <1>1, <2>2, <3>1
  <2>3. QED  BY <2>1, <2>2 DEF StripeStep
<1>3. BillingTypeOK'
  BY <1>2 DEF StripeStep, BillingInv, BillingTypeOK
<1>4. RecordedIsPaid' /\ BestIsRecorded'
  <2>1. \A u \in Users : user[u].sub \in Subs \cup {NULL}
    BY <1>1 DEF UserRow
  <2>2. QED  BY <2>1 DEF StripeStep, BillingInv, RecordedIsPaid, BestIsRecorded
<1>5. CheckoutsArePaid'
  <2>1. \A i \in DOMAIN events : events[i].sub \in Subs
    BY EventInLog DEF BillingInv
  <2>2. CASE events' = events
    BY <2>1, <2>2 DEF StripeStep, BillingInv, CheckoutsArePaid
  <2>3. ASSUME NEW k \in Kinds, events' = Append(events, [kind |-> k, sub |-> s]),
               k = "checkout.session.completed" =>
                 stripe'[s].owner \in Users /\ stripe'[s].status \in Paid
        PROVE  CheckoutsArePaid'
    <3>1. ASSUME NEW i \in DOMAIN events', events'[i].kind = "checkout.session.completed"
          PROVE  stripe'[events'[i].sub].owner \in Users /\ stripe'[events'[i].sub].status \in Paid
      <4>1. CASE i \in DOMAIN events
        <5>1. events'[i] = events[i]
          BY <1>1, <2>3, <4>1
        <5>2. QED  BY <2>1, <3>1, <4>1, <5>1 DEF StripeStep, BillingInv, CheckoutsArePaid
      <4>2. CASE i \notin DOMAIN events
        <5>1. i = Len(events) + 1
          BY <1>1, <2>3, <4>2
        <5>2. events'[i] = [kind |-> k, sub |-> s]
          BY <1>1, <2>3, <5>1
        <5>3. QED  BY <2>3, <3>1, <5>2
      <4>3. QED  BY <4>1, <4>2
    <3>2. QED  BY <3>1 DEF CheckoutsArePaid
  <2>4. QED  BY <2>2, <2>3 DEF StripeStep
<1>6. QED  BY <1>3, <1>4, <1>5 DEF BillingInv, StripeStep

\* A checkout is such a step.
LEMMA CheckoutIsStripeStep ==
  ASSUME BillingInv, NEW u \in Users, NEW s \in Subs, CreateCheckout(u, s)
  PROVE  StripeStep(s)
<1>0. stripe \in [Subs -> StripeRow] /\ user \in [Users -> UserRow]
  BY DEF BillingInv, BillingTypeOK
<1>1. user[u].customer \in Subs \cup {NULL}
  BY <1>0 DEF UserRow
<1>2. stripe' \in [Subs -> StripeRow] /\ OpenHasOwner'
  BY <1>0, <1>1 DEF CreateCheckout, StripeRow, Status, BillingInv, OpenHasOwner
<1>3. QED
  BY <1>0, <1>2 DEF CreateCheckout, StripeStep, Paid

\* So is whatever happens to a subscription.
SubscriptionStep(s) ==
  DashboardSubscription(s) \/ Pay(s) \/ PaymentFails(s) \/ PaymentRecovers(s) \/ Cancel(s)

\* It keeps what is paid, and logs at most one event of it.
LEMMA SubscriptionIsStripeStep ==
  ASSUME BillingInv, NEW s \in Subs, SubscriptionStep(s)
  PROVE  StripeStep(s)
<1>0. stripe \in [Subs -> StripeRow] /\ user \in [Users -> UserRow]
  BY DEF BillingInv, BillingTypeOK
<1>1. CASE DashboardSubscription(s)
  <2>1. stripe' \in [Subs -> StripeRow] /\ OpenHasOwner'
    BY <1>0, <1>1 DEF DashboardSubscription, StripeRow, Status, BillingInv, OpenHasOwner
  <2>2. QED
    BY <1>0, <1>1, <2>1 DEF DashboardSubscription, StripeStep, Paid
<1>2. CASE Pay(s)
  <2>1. stripe' \in [Subs -> StripeRow] /\ OpenHasOwner'
    BY <1>0, <1>2 DEF Pay, SetStatus, StripeRow, Status, BillingInv, OpenHasOwner
  <2>2. QED
    BY <1>0, <1>2, <2>1 DEF Pay, SetStatus, Emit, StripeStep, Paid, Kinds, BillingInv, OpenHasOwner
<1>3. CASE PaymentFails(s)
  <2>1. stripe' \in [Subs -> StripeRow] /\ OpenHasOwner'
    BY <1>0, <1>3 DEF PaymentFails, SetStatus, StripeRow, Status, BillingInv, OpenHasOwner
  <2>2. QED
    BY <1>0, <1>3, <2>1 DEF PaymentFails, SetStatus, Emit, StripeStep, Paid, Kinds, BillingInv, OpenHasOwner
<1>4. CASE PaymentRecovers(s)
  <2>1. stripe' \in [Subs -> StripeRow] /\ OpenHasOwner'
    BY <1>0, <1>4 DEF PaymentRecovers, SetStatus, StripeRow, Status, BillingInv, OpenHasOwner
  <2>2. QED
    BY <1>0, <1>4, <2>1 DEF PaymentRecovers, SetStatus, StripeStep, Paid
<1>5. CASE Cancel(s)
  <2>1. stripe' \in [Subs -> StripeRow] /\ OpenHasOwner'
    BY <1>0, <1>5 DEF Cancel, SetStatus, StripeRow, Status, BillingInv, OpenHasOwner
  <2>2. QED
    BY <1>0, <1>5, <2>1 DEF Cancel, SetStatus, Emit, StripeStep, Paid, Kinds, BillingInv, OpenHasOwner
<1>6. QED  BY <1>1, <1>2, <1>3, <1>4, <1>5 DEF SubscriptionStep

LEMMA BillingInitInv == BillingInit => BillingInv
<1> SUFFICES ASSUME BillingInit PROVE BillingInv
  OBVIOUS
<1>2. user \in [Users -> UserRow]
  BY DEF BillingInit, UserRow, PaidTiers
<1>3. stripe \in [Subs -> StripeRow]
  BY DEF BillingInit, StripeRow, Status
<1>4. events \in Seq(Event) /\ DOMAIN events = {}
  BY DEF BillingInit
<1>5. tried = {} /\ acked = {} /\ duplicates \in 0..MaxDuplicates /\ failures \in 0..MaxFailures
     /\ orderly \in BOOLEAN
  BY BillingAssumption DEF BillingInit
<1>6. BillingTypeOK
  BY <1>2, <1>3, <1>4, <1>5 DEF BillingTypeOK
<1>7. \A u \in Users : user[u].sub = NULL /\ user[u].tier = "GOOD"
  BY DEF BillingInit
<1>8. \A s \in Subs : stripe[s].status = "none"
  BY DEF BillingInit
<1>9. QED
  BY <1>4, <1>6, <1>7, <1>8
  DEF BillingInv, RecordedIsPaid, BestIsRecorded, CheckoutsArePaid, OpenHasOwner

\* Every action keeps the invariant.
LEMMA BillingStepInv == BillingInv /\ [BillingNext]_billingVars => BillingInv'
<1> SUFFICES ASSUME BillingInv, [BillingNext]_billingVars PROVE BillingInv'
  OBVIOUS
<1>0. stripe \in [Subs -> StripeRow] /\ user \in [Users -> UserRow]
  BY DEF BillingInv, BillingTypeOK
<1>1. ASSUME NEW u \in Users, NEW s \in Subs, CreateCheckout(u, s) PROVE BillingInv'
  BY <1>1, CheckoutIsStripeStep, StripeStepKeepsInv
<1>2. ASSUME NEW s \in Subs, SubscriptionStep(s) PROVE BillingInv'
  BY <1>2, SubscriptionIsStripeStep, StripeStepKeepsInv
<1>3. ASSUME NEW i \in 1..MaxEvents, Deliver(i) PROVE BillingInv'
  <2>1. i \in DOMAIN events /\ duplicates' \in 0..MaxDuplicates /\ failures' \in 0..MaxFailures
    BY <1>3 DEF Deliver, Delivered, BillingInv, BillingTypeOK
  <2>2. QED  BY <1>3, <2>1, ProcessKeepsInv DEF Deliver
<1>4. ASSUME NEW i \in 1..MaxEvents, Redeliver(i) PROVE BillingInv'
  <2>1. i \in DOMAIN events /\ duplicates' \in 0..MaxDuplicates /\ failures' \in 0..MaxFailures
    BY <1>4, BillingAssumption DEF Redeliver, BillingInv, BillingTypeOK
  <2>2. QED  BY <1>4, <2>1, ProcessKeepsInv DEF Redeliver
<1>5. ASSUME NEW i \in 1..MaxEvents, DeliverAndFail(i) PROVE BillingInv'
  <2>1. failures' \in 0..MaxFailures
    BY <1>5, BillingAssumption DEF DeliverAndFail, BillingInv, BillingTypeOK
  <2>2. BillingTypeOK'
    BY <1>5, <2>1 DEF DeliverAndFail, Delivered, BillingInv, BillingTypeOK
  <2>3. QED
    BY <1>5, <2>2 DEF DeliverAndFail, BillingInv, RecordedIsPaid, BestIsRecorded, CheckoutsArePaid, OpenHasOwner
<1>6. CASE UNCHANGED billingVars
  <2>1. BillingTypeOK'
    BY <1>6 DEF billingVars, BillingInv, BillingTypeOK
  <2>2. QED
    BY <1>6, <2>1 DEF billingVars, BillingInv, RecordedIsPaid, BestIsRecorded, CheckoutsArePaid, OpenHasOwner
<1>7. QED
  BY <1>1, <1>2, <1>3, <1>4, <1>5, <1>6 DEF BillingNext, SubscriptionStep

THEOREM BillingInvariant == BillingSpec => []BillingInv
BY BillingInitInv, BillingStepInv, PTL DEF BillingSpec

\* The users table, Stripe's rows and the log stay well formed.
THEOREM BillingTypeCorrect == BillingSpec => []BillingTypeOK
<1>1. BillingInv => BillingTypeOK
  BY DEF BillingInv
<1>2. QED  BY <1>1, BillingInvariant, PTL

\* Whatever the order, the duplicates and the failed UPDATEs, a BEST user has
\* a subscription on record that this user paid for.
THEOREM BestIsAlwaysBought == BillingSpec => []BestIsBought
<1>1. BillingInv => BestIsBought
  BY DEF BillingInv, RecordedIsPaid, BestIsRecorded, BestIsBought
<1>2. QED  BY <1>1, BillingInvariant, PTL

\* Customer and subscription on record are always those of one purchase of
\* the user.
THEOREM PortalAlwaysShowsSubscription == BillingSpec => []PortalShowsSubscription
<1>1. BillingInv => PortalShowsSubscription
  BY DEF BillingInv, RecordedIsPaid, PortalShowsSubscription
<1>2. QED  BY <1>1, BillingInvariant, PTL
-----------------------------------------------------------------------------
(* With events in order.                                                   *)

\* Event i of the log is of this kind and about s.
At(i, kind, s) == i \in DOMAIN events /\ events[i].kind = kind /\ events[i].sub = s

\* What Stripe's log tells of Stripe's rows, in any weather: a session is paid
\* once and before anything else happens to it, and a cancellation or a
\* failure has its event.
LogInv ==
  /\ \A s \in Subs : stripe[s].status = "none" => stripe[s].owner = NULL
  /\ \A i \in DOMAIN events : stripe[events[i].sub].status \in Paid
  /\ \A s \in Subs : stripe[s].status \in Paid /\ stripe[s].owner # NULL =>
       \E i \in DOMAIN events :
         /\ \A j \in DOMAIN events : events[j].sub = s => i <= j
         /\ \A j \in DOMAIN events : At(j, "checkout.session.completed", s) <=> j = i
  /\ \A s \in Subs :
       /\ stripe[s].status = "canceled" =>
            \E i \in DOMAIN events : At(i, "customer.subscription.deleted", s)
       /\ stripe[s].status = "past_due" =>
            \E i \in DOMAIN events : At(i, "invoice.payment_failed", s)

\* In order, what was tried is a beginning of the log, no completed checkout
\* waits behind it, and what a row says no event of it contradicts.
OrderInv ==
  orderly =>
    /\ \A i \in tried : 1..(i-1) \subseteq tried
    /\ \A i \in tried : events[i].kind = "checkout.session.completed" => i \in acked
    /\ \A u \in Users : \A i \in tried : events[i].sub = user[u].sub =>
         /\ events[i].kind # "customer.subscription.deleted"
         /\ user[u].tier = "BEST" => events[i].kind # "invoice.payment_failed"

\* What a step of Stripe does to one subscription and writes into the log.
Outcome(kind) == CASE kind = "checkout.session.completed" -> "active"
                   [] kind = "customer.subscription.deleted" -> "canceled"
                   [] kind = "invoice.payment_failed" -> "past_due"
LogStep(s) ==
  /\ \A r \in Subs \ {s} : stripe'[r] = stripe[r]
  /\ stripe'[s].status = "none" => stripe'[s].owner = NULL
  /\ \/ /\ events' = events
        /\ stripe'[s].status \in Paid /\ stripe'[s].owner # NULL => stripe[s].status \in Paid
        /\ stripe'[s].status \notin {"canceled", "past_due"}
     \/ \E kind \in Kinds :
          /\ events' = Append(events, [kind |-> kind, sub |-> s])
          /\ kind = "checkout.session.completed" <=> stripe[s].status \notin Paid
          /\ stripe'[s].status = Outcome(kind)

\* The log grows at its end.
LEMMA LogGrows ==
  ASSUME BillingInv, NEW kind \in Kinds, NEW s \in Subs,
         events' = Append(events, [kind |-> kind, sub |-> s])
  PROVE  /\ Len(events) + 1 \in DOMAIN events'
         /\ events'[Len(events) + 1].kind = kind /\ events'[Len(events) + 1].sub = s
         /\ \A i \in DOMAIN events : i \in DOMAIN events' /\ events'[i] = events[i] /\ i <= Len(events)
         /\ \A i \in DOMAIN events' : i \in DOMAIN events \/ i = Len(events) + 1
<1>1. events \in Seq(Event) /\ [kind |-> kind, sub |-> s] \in Event
  BY DEF BillingInv, BillingTypeOK, Event
<1>2. Len(events) \in Nat /\ DOMAIN events = 1..Len(events) /\ DOMAIN events' = 1..(Len(events) + 1)
  BY <1>1
<1>3. events'[Len(events) + 1] = [kind |-> kind, sub |-> s]
  BY <1>1
<1>4. \A i \in 1..Len(events) : events'[i] = events[i]
  BY <1>1
<1>5. QED  BY <1>2, <1>3, <1>4

\* Such a step keeps what the log tells.
LEMMA LogStepKeepsLog ==
  ASSUME BillingInv, LogInv, NEW s \in Subs, StripeStep(s), LogStep(s)
  PROVE  LogInv'
<1> DEFINE C == "checkout.session.completed"
           Begins(r, i) == /\ \A j \in DOMAIN events : events[j].sub = r => i <= j
                           /\ \A j \in DOMAIN events : At(j, C, r) <=> j = i
           Here(r, kind) == \E i \in DOMAIN events : At(i, kind, r)
           Tells(r) == /\ stripe[r].status = "none" => stripe[r].owner = NULL
                       /\ stripe[r].status \in Paid /\ stripe[r].owner # NULL =>
                            \E i \in DOMAIN events : Begins(r, i)
                       /\ stripe[r].status = "canceled" => Here(r, "customer.subscription.deleted")
                       /\ stripe[r].status = "past_due" => Here(r, "invoice.payment_failed")
           Told == \A i \in DOMAIN events : stripe[events[i].sub].status \in Paid
<1>0. /\ LogInv <=> Told /\ \A r \in Subs : Tells(r)
      /\ LogInv' <=> Told' /\ \A r \in Subs : Tells(r)'
  BY DEF LogInv
<1>1. \A i \in DOMAIN events : events[i].sub \in Subs
  BY EventInLog DEF BillingInv
<1>2. \A r \in Subs : stripe[r].status \in Paid =>
        stripe'[r].status \in Paid /\ stripe'[r].owner = stripe[r].owner
  BY DEF StripeStep
<1>3. CASE /\ events' = events
           /\ stripe'[s].status \in Paid /\ stripe'[s].owner # NULL => stripe[s].status \in Paid
           /\ stripe'[s].status \notin {"canceled", "past_due"}
  <2>1. \A r, i : Begins(r, i)' <=> Begins(r, i)
    BY <1>3 DEF At
  <2>2. \A r, kind : Here(r, kind)' <=> Here(r, kind)
    BY <1>3 DEF At
  <2> HIDE DEF Begins, Here
  <2>3. Told'
    BY <1>0, <1>1, <1>2, <1>3
  <2>4. Tells(s)'
    BY <1>0, <1>2, <1>3, <2>1 DEF LogStep
  <2>5. \A r \in Subs \ {s} : Tells(r)'
    BY <1>0, <1>3, <2>1, <2>2 DEF LogStep
  <2>6. QED  BY <1>0, <2>3, <2>4, <2>5
<1>4. ASSUME NEW kind \in Kinds, events' = Append(events, [kind |-> kind, sub |-> s]),
             kind = C <=> stripe[s].status \notin Paid, stripe'[s].status = Outcome(kind)
      PROVE  LogInv'
  <2> DEFINE n == Len(events) + 1
  <2>1. /\ n \in DOMAIN events' /\ events'[n].kind = kind /\ events'[n].sub = s
        /\ \A i \in DOMAIN events : i \in DOMAIN events' /\ events'[i] = events[i] /\ i <= n
        /\ \A i \in DOMAIN events' : i \in DOMAIN events \/ i = n
        /\ n \notin DOMAIN events
    <3>1. events \in Seq(Event)
      BY DEF BillingInv, BillingTypeOK
    <3>2. Len(events) \in Nat /\ DOMAIN events = 1..Len(events)
      BY <3>1
    <3>3. QED  BY <1>4, <3>2, LogGrows
  <2>2. stripe'[s].status \in Paid
    BY <1>4 DEF Outcome, Paid, Kinds
  <2>3. Told'
    BY <1>0, <1>1, <1>2, <2>1, <2>2
  <2>4. \A r \in Subs, k \in Kinds : Here(r, k) => Here(r, k)'
    BY <2>1 DEF At
  <2>5. Here(s, kind)'
    BY <2>1 DEF At
  <2>6. ASSUME NEW r \in Subs, NEW i \in DOMAIN events, Begins(r, i), r # s \/ kind # C
        PROVE  Begins(r, i)'
    <3>1. ASSUME NEW j \in DOMAIN events', events'[j].sub = r PROVE i <= j
      BY <2>1, <2>6, <3>1
    <3>2. ASSUME NEW j \in DOMAIN events' PROVE At(j, C, r)' <=> j = i
      BY <2>1, <2>6, <3>2 DEF At
    <3>3. QED  BY <3>1, <3>2
  <2>7. kind = C => \E i \in DOMAIN events' : Begins(s, i)'
    <3>1. SUFFICES ASSUME kind = C PROVE \E i \in DOMAIN events' : Begins(s, i)'
      OBVIOUS
    <3>2. \A j \in DOMAIN events : events[j].sub # s
      BY <1>0, <1>4, <3>1
    <3>3. PICK m \in DOMAIN events' : m = n /\ m <= m
      BY <2>1 DEF BillingInv, BillingTypeOK
    <3>4. \A j \in DOMAIN events' : events'[j].sub = s <=> j = m
      BY <2>1, <3>2, <3>3
    <3>5. Begins(s, m)'
      BY <2>1, <3>1, <3>3, <3>4 DEF At
    <3>6. QED  BY <3>5
  <2> HIDE DEF Begins, Here
  <2>8. Tells(s)'
    <3>1. stripe'[s].owner # NULL => \E i \in DOMAIN events' : Begins(s, i)'
      BY <1>0, <1>2, <1>4, <2>1, <2>6, <2>7
    <3>2. /\ stripe'[s].status = "canceled" => kind = "customer.subscription.deleted"
          /\ stripe'[s].status = "past_due" => kind = "invoice.payment_failed"
      BY <1>4 DEF Outcome, Kinds
    <3>3. stripe'[s].status # "none"
      BY <2>2 DEF Paid
    <3>4. QED  BY <2>5, <3>1, <3>2, <3>3
  <2>9. ASSUME NEW r \in Subs \ {s} PROVE Tells(r)'
    <3>1. stripe'[r] = stripe[r]
      BY DEF LogStep
    <3>2. (\E i \in DOMAIN events : Begins(r, i)) => \E i \in DOMAIN events' : Begins(r, i)'
      BY <2>1, <2>6
    <3>3. QED  BY <1>0, <2>4, <3>1, <3>2 DEF Kinds
  <2>10. QED  BY <1>0, <2>3, <2>8, <2>9
<1>5. QED  BY <1>3, <1>4 DEF LogStep

\* Stripe's steps touch nothing that was tried.
LEMMA StripeStepKeepsOrder ==
  ASSUME BillingInv, OrderInv, NEW s \in Subs, StripeStep(s)
  PROVE  OrderInv'
<1>1. tried \subseteq DOMAIN events
  BY DEF BillingInv, BillingTypeOK
<1>2. \A i \in tried : events'[i] = events[i]
  BY <1>1, LogGrows DEF StripeStep
<1>3. QED  BY <1>2 DEF StripeStep, OrderInv

\* Whoever has a subscription on record is the one whom what happens to it concerns.
LEMMA RecorderIsConcerned ==
  ASSUME BillingInv, NEW i \in DOMAIN events, NEW u \in Users, user[u].sub = events[i].sub
  PROVE  Concerned(events[i]) = u
<1> DEFINE s == events[i].sub
<1>1. s \in Subs /\ s # NULL
  BY EventInLog, BillingAssumption DEF BillingInv
<1>2. \A v \in Users : user[v].sub = s => stripe[s].owner = v
  BY <1>1 DEF BillingInv, RecordedIsPaid
<1>3. FindUserBySubscription(s) = u
  BY <1>2 DEF FindUserBySubscription
<1>4. QED  BY <1>2, <1>3 DEF Concerned

\* The first delivery of a completed checkout comes before anything else was
\* told of its subscription.
LEMMA CheckoutComesFirst ==
  ASSUME BillingInv, LogInv, OrderInv, orderly, NEW i \in DOMAIN events \ acked,
         events[i].kind = "checkout.session.completed", NEW j \in tried
  PROVE  events[j].sub # events[i].sub
<1> SUFFICES ASSUME events[j].sub = events[i].sub PROVE FALSE
  OBVIOUS
<1> DEFINE s == events[i].sub
<1>1. s \in Subs /\ j \in DOMAIN events /\ i \in Nat /\ j \in Nat /\ i >= 1
  BY EventInLog DEF BillingInv, BillingTypeOK
<1>2. stripe[s].owner # NULL /\ stripe[s].status \in Paid
  BY BillingAssumption DEF BillingInv, CheckoutsArePaid
<1>3. PICK k \in DOMAIN events :
        /\ \A m \in DOMAIN events : events[m].sub = s => k <= m
        /\ \A m \in DOMAIN events : At(m, "checkout.session.completed", s) <=> m = k
  BY <1>1, <1>2 DEF LogInv
<1>4. i = k /\ i <= j
  BY <1>1, <1>3 DEF At
<1>5. i \in tried
  BY <1>1, <1>4 DEF OrderInv
<1>6. QED  BY <1>5 DEF OrderInv

\* In order, a first delivery leaves no row that the events before contradict.
LEMMA DeliverKeepsOrder ==
  ASSUME BillingInv, LogInv, OrderInv, NEW i, Deliver(i)
  PROVE  OrderInv'
<1> SUFFICES ASSUME orderly PROVE OrderInv'
  BY DEF OrderInv, Deliver
<1> DEFINE e == events[i]
           c == Concerned(e)
           Agrees(u, j) == events[j].sub = user[u].sub =>
             /\ events[j].kind # "customer.subscription.deleted"
             /\ user[u].tier = "BEST" => events[j].kind # "invoice.payment_failed"
<1>1. /\ i \in DOMAIN events \ acked /\ 1..(i-1) \subseteq tried
      /\ tried' = tried \cup {i} /\ events' = events /\ orderly' = orderly
  BY DEF Deliver, Delivered, ProcessWebhookEvent
<1>2. user \in [Users -> UserRow] /\ tried \subseteq DOMAIN events
  BY DEF BillingInv, BillingTypeOK
<1>3. e \in Event /\ e.sub \in Subs /\ e.kind \in Kinds /\ e.sub # NULL
  BY <1>1, EventInLog, BillingAssumption DEF BillingInv
<1>4. /\ c \in Users \cup {NULL}
      /\ e.kind = "checkout.session.completed" => c \in Users
  BY <1>1, ConcernedIsUser DEF BillingInv, CheckoutsArePaid
<1>5. \A u \in Users : user[u].sub = e.sub => c = u
  BY <1>1, RecorderIsConcerned
<1>6. c # NULL => /\ user' = [user EXCEPT ![c] = UpdateUserSubscription(c, e)]
                  /\ acked' = acked \cup {i}
  BY DEF Deliver, ProcessWebhookEvent
<1>7. c = NULL => user' = user /\ acked' = acked
  BY DEF Deliver, ProcessWebhookEvent
<1>8. NULL \notin Users
  BY BillingAssumption
<1>9. ASSUME NEW u \in Users, NEW j \in tried' PROVE Agrees(u, j)'
  <2>1. CASE u # c
    <3>1. user'[u] = user[u]
      BY <1>2, <1>4, <1>6, <1>7, <2>1
    <3>2. CASE j = i
      BY <1>1, <1>5, <2>1, <3>1, <3>2
    <3>3. CASE j \in tried
      BY <1>1, <3>1, <3>3 DEF OrderInv
    <3>4. QED  BY <1>1, <3>2, <3>3
  <2>2. CASE u = c
    <3>0. user'[u] = UpdateUserSubscription(u, e) /\ user[u] \in UserRow
      BY <1>2, <1>6, <1>8, <2>2
    <3>1. CASE e.kind = "checkout.session.completed"
      <4>1. user'[u].sub = e.sub
        BY <3>0, <3>1 DEF UpdateUserSubscription
      <4>2. CASE j = i
        BY <1>1, <3>1, <4>2
      <4>3. CASE j \in tried
        BY <1>1, <3>1, <4>1, <4>3, CheckoutComesFirst
      <4>4. QED  BY <1>1, <4>2, <4>3
    <3>2. CASE e.kind = "customer.subscription.deleted"
      <4>1. user'[u] = [user[u] EXCEPT !.tier = "GOOD", !.sub = NULL]
        BY <3>0, <3>2 DEF UpdateUserSubscription
      <4>2. user'[u].sub = NULL
        BY <3>0, <4>1 DEF UserRow
      <4>3. events[j].sub \in Subs
        BY <1>1, <1>2, EventInLog DEF BillingInv
      <4>4. QED  BY <1>1, <4>2, <4>3, BillingAssumption
    <3>3. CASE e.kind = "invoice.payment_failed"
      <4>1. user'[u] = [user[u] EXCEPT !.tier = "GOOD"]
        BY <3>0, <3>3 DEF UpdateUserSubscription
      <4>2. user'[u].tier = "GOOD" /\ user'[u].sub = user[u].sub
        BY <3>0, <4>1 DEF UserRow
      <4>3. CASE j = i
        BY <1>1, <3>3, <4>2, <4>3
      <4>4. CASE j \in tried
        BY <1>1, <4>2, <4>4 DEF OrderInv
      <4>5. QED  BY <1>1, <4>3, <4>4
    <3>4. QED  BY <1>3, <3>1, <3>2, <3>3 DEF Kinds
  <2>3. QED  BY <2>1, <2>2
<1>10. \A j \in tried' : 1..(j-1) \subseteq tried'
  BY <1>1 DEF OrderInv
<1>11. \A j \in tried' : events'[j].kind = "checkout.session.completed" => j \in acked'
  BY <1>1, <1>4, <1>6, <1>7, <1>8 DEF OrderInv
<1>12. QED  BY <1>9, <1>10, <1>11 DEF OrderInv

\* Every action keeps what the log tells, and the order.
LEMMA OrderStepInv ==
  ASSUME BillingInv, LogInv, OrderInv, [BillingNext]_billingVars
  PROVE  LogInv' /\ OrderInv'
<1>0. stripe \in [Subs -> StripeRow]
  BY DEF BillingInv, BillingTypeOK
<1>1. ASSUME NEW s \in Subs, StripeStep(s), LogStep(s) PROVE LogInv' /\ OrderInv'
  BY <1>1, LogStepKeepsLog, StripeStepKeepsOrder
<1>2. ASSUME UNCHANGED <<stripe, events>> PROVE LogInv'
  BY <1>2 DEF LogInv, At
<1>3. ASSUME NEW u \in Users, NEW s \in Subs, CreateCheckout(u, s) PROVE LogInv' /\ OrderInv'
  <2>1. StripeStep(s)
    BY <1>3, CheckoutIsStripeStep
  <2>2. LogStep(s)
    BY <1>0, <1>3 DEF CreateCheckout, LogStep, Paid
  <2>3. QED  BY <1>1, <2>1, <2>2
<1>4. ASSUME NEW s \in Subs, SubscriptionStep(s) PROVE LogInv' /\ OrderInv'
  <2>1. StripeStep(s)
    BY <1>4, SubscriptionIsStripeStep
  <2>2. CASE DashboardSubscription(s)
    <3>1. stripe[s].owner = NULL
      BY <2>2 DEF DashboardSubscription, LogInv
    <3>2. LogStep(s)
      BY <1>0, <2>2, <3>1 DEF DashboardSubscription, LogStep, Paid, StripeRow
    <3>3. QED  BY <1>1, <2>1, <3>2
  <2>3. CASE Pay(s)
    <3>1. LogStep(s)
      BY <1>0, <2>3 DEF Pay, SetStatus, Emit, LogStep, Outcome, Paid, Kinds, StripeRow
    <3>2. QED  BY <1>1, <2>1, <3>1
  <2>4. CASE PaymentFails(s)
    <3>1. LogStep(s)
      BY <1>0, <2>4 DEF PaymentFails, SetStatus, Emit, LogStep, Outcome, Paid, Kinds, StripeRow
    <3>2. QED  BY <1>1, <2>1, <3>1
  <2>5. CASE PaymentRecovers(s)
    <3>1. LogStep(s)
      BY <1>0, <2>5 DEF PaymentRecovers, SetStatus, LogStep, Paid, StripeRow
    <3>2. QED  BY <1>1, <2>1, <3>1
  <2>6. CASE Cancel(s)
    <3>1. LogStep(s)
      BY <1>0, <2>6 DEF Cancel, SetStatus, Emit, LogStep, Outcome, Paid, Kinds, StripeRow
    <3>2. QED  BY <1>1, <2>1, <3>1
  <2>7. QED  BY <1>4, <2>2, <2>3, <2>4, <2>5, <2>6 DEF SubscriptionStep
<1>5. ASSUME NEW i \in 1..MaxEvents, Deliver(i) PROVE LogInv' /\ OrderInv'
  BY <1>2, <1>5, DeliverKeepsOrder DEF Deliver
<1>6. ASSUME NEW i \in 1..MaxEvents, Redeliver(i) \/ DeliverAndFail(i) PROVE LogInv' /\ OrderInv'
  BY <1>2, <1>6 DEF Redeliver, DeliverAndFail, OrderInv
<1>7. CASE UNCHANGED billingVars
  BY <1>2, <1>7 DEF billingVars, OrderInv
<1>8. QED  BY <1>3, <1>4, <1>5, <1>6, <1>7 DEF BillingNext, SubscriptionStep

\* So both hold in every state.
LEMMA OrderHolds == BillingSpec => [](LogInv /\ OrderInv)
<1>1. BillingInit => LogInv /\ OrderInv
  BY DEF BillingInit, LogInv, OrderInv, Paid
<1>2. BillingInv /\ LogInv /\ OrderInv /\ [BillingNext]_billingVars => (LogInv /\ OrderInv)'
  BY OrderStepInv
<1>3. QED  BY <1>1, <1>2, BillingInvariant, PTL DEF BillingSpec

\* An event that was not tried is not answered, so it is not settled whom it concerns.
LEMMA UntoldIsUnsettled ==
  ASSUME BillingInv, NEW u \in Users, Settled(u), NEW i \in DOMAIN events,
         events[i].sub = user[u].sub
  PROVE  i \in tried
BY RecorderIsConcerned DEF Settled, BillingInv, BillingTypeOK

\* With events in order, a user about whom nothing is left to be told has no
\* cancelled subscription on record.
THEOREM RecordedIsAlwaysLive == BillingSpec => []RecordedIsLive
<1>1. BillingInv /\ LogInv /\ OrderInv => RecordedIsLive
  <2> SUFFICES ASSUME BillingInv, LogInv, OrderInv, NEW u \in Users, orderly, Settled(u),
                      user[u].sub # NULL, stripe[user[u].sub].status = "canceled"
               PROVE  FALSE
    BY DEF RecordedIsLive
  <2>1. user[u].sub \in Subs
    BY DEF BillingInv, BillingTypeOK, UserRow
  <2>2. PICK i \in DOMAIN events : At(i, "customer.subscription.deleted", user[u].sub)
    BY <2>1 DEF LogInv
  <2>3. i \in tried
    BY <2>2, UntoldIsUnsettled DEF At
  <2>4. QED  BY <2>2, <2>3 DEF At, OrderInv
<1>2. QED  BY <1>1, BillingInvariant, OrderHolds, PTL

\* With events in order, a BEST user about whom nothing is left to be told has
\* a subscription on record whose last payment did not fail.
THEOREM BestIsAlwaysPaid == BillingSpec => []BestIsPaid
<1>1. BillingInv /\ LogInv /\ OrderInv => BestIsPaid
  <2> SUFFICES ASSUME BillingInv, LogInv, OrderInv, NEW u \in Users, orderly, Settled(u),
                      user[u].tier = "BEST"
               PROVE  stripe[user[u].sub].status = "active"
    BY DEF BestIsPaid
  <2> DEFINE s == user[u].sub
  <2>1. s \in Subs /\ stripe[s].status \in Paid
    BY DEF BillingInv, BillingTypeOK, UserRow, BestIsRecorded, RecordedIsPaid
  <2>2. ASSUME NEW i \in DOMAIN events, events[i].sub = s
        PROVE  events[i].kind \notin {"customer.subscription.deleted", "invoice.payment_failed"}
    BY <2>2, UntoldIsUnsettled DEF OrderInv
  <2>3. stripe[s].status \notin {"canceled", "past_due"}
    BY <2>1, <2>2 DEF LogInv, At
  <2>4. QED  BY <2>1, <2>3 DEF Paid
<1>2. QED  BY <1>1, BillingInvariant, OrderHolds, PTL

-----------------------------------------------------------------------------
(* The pages of /v1.                                                       *)

Leg == [type : Types, line : Lines]
LinkedPages == {Linked(at) : at \in {"home", "history", "account"}}
BuildPages == {Build(legs, via) : legs \in Seq(Leg), via \in {"link", "form"}}
Ends == {"evaluated", "invalid", "failed", "short"}
DebriefPages ==
  {Debrief(legs, tier, outcome) : legs \in Seq(Leg), tier \in Tiers, outcome \in Ends}
TabPages == LinkedPages \cup BuildPages \cup DebriefPages

\* What FormsKeepLegs says of a page and the next.
KeepsLegs(here, there) ==
  there.via = "form" =>
    IF here.field = here.legs
    THEN /\ IsPrefix(here.legs, there.legs)
         /\ Len(there.legs) <= Len(here.legs) + 1
         /\ there.at = "debrief" => there.legs = here.legs /\ there.outcome # "short"
    ELSE Len(there.legs) <= 1 /\ (there.at = "debrief" => there.outcome = "short")

TrailInv ==
  /\ trail \in Seq(TabPages) /\ trail # <<>>
  /\ \A i \in 1..Len(trail) - 1 : KeepsLegs(trail[i], trail[i + 1])

\* The hidden field holds the legs or, after an apostrophe, nothing.
LEMMA FieldIs ==
  ASSUME NEW legs \in Seq(Leg)
  PROVE  Field(legs) \in {legs, <<>>} /\ Field(legs) \in Seq(Leg)
BY DEF Field

LEMMA BuildIs ==
  ASSUME NEW legs, NEW via
  PROVE  /\ Build(legs, via).at = "build" /\ Build(legs, via).via = via
         /\ Build(legs, via).legs = legs /\ Build(legs, via).field = Field(legs)
         /\ "evaluate" \in Build(legs, via).forms <=> Len(legs) >= 2
BY DEF Build

LEMMA TabPagesAre ==
  /\ \A at \in {"home", "history", "account"} : Linked(at) \in TabPages
  /\ \A legs \in Seq(Leg), via \in {"link", "form"} : Build(legs, via) \in TabPages
  /\ \A legs \in Seq(Leg), tier \in Tiers, outcome \in Ends :
       Debrief(legs, tier, outcome) \in TabPages
  /\ <<>> \in Seq(Leg)
<1>1. \A at \in {"home", "history", "account"} : Linked(at) \in LinkedPages
  BY Zenon DEF LinkedPages
<1>2. ASSUME NEW legs \in Seq(Leg), NEW via \in {"link", "form"}
      PROVE  Build(legs, via) \in BuildPages
  <2>1. PICK page : page = Build(legs, via)
    OBVIOUS
  <2> QED BY <2>1 DEF BuildPages
<1>3. ASSUME NEW legs \in Seq(Leg), NEW tier \in Tiers, NEW outcome \in Ends
      PROVE  Debrief(legs, tier, outcome) \in DebriefPages
  <2>1. PICK page : page = Debrief(legs, tier, outcome)
    OBVIOUS
  <2> QED BY <2>1 DEF DebriefPages
<1> QED BY <1>1, <1>2, <1>3 DEF TabPages

\* Only Build makes a page with forms that keep legs.
LEMMA ShownIs ==
  ASSUME TrailInv, Shown.at = "build"
  PROVE  \E legs \in Seq(Leg), via \in {"link", "form"} : Shown = Build(legs, via)
<1>1. Shown \in TabPages
  BY DEF TrailInv, Shown
<1>2. \A page \in LinkedPages \cup DebriefPages : page.at # "build"
  BY DEF LinkedPages, DebriefPages, Linked, Debrief
<1> QED BY <1>1, <1>2 DEF TabPages, BuildPages

\* Going on cuts what is ahead and adds one page.
LEMMA GoKeeps ==
  ASSUME TrailInv, NEW page \in TabPages, KeepsLegs(Shown, page), Go(page)
  PROVE  TrailInv'
<1>1. trail' = Append(trail, page) /\ trail \in Seq(TabPages) /\ trail # <<>>
  BY DEF Go, TrailInv
<1>2. trail' \in Seq(TabPages) /\ trail' # <<>> /\ Len(trail') = Len(trail) + 1
  BY <1>1
<1>3. ASSUME NEW i \in 1..Len(trail') - 1
      PROVE  KeepsLegs(trail'[i], trail'[i + 1])
  <2>1. CASE i < Len(trail)
    <3>1. i \in 1..Len(trail) - 1 /\ trail'[i] = trail[i] /\ trail'[i + 1] = trail[i + 1]
      BY <1>1, <1>2, <2>1
    <3> QED BY <3>1 DEF TrailInv
  <2>2. CASE i = Len(trail)
    <3>1. trail'[i] = Shown /\ trail'[i + 1] = page
      BY <1>1, <1>2, <2>2 DEF Shown
    <3> QED BY <3>1
  <2> QED BY <1>1, <1>2, <2>1, <2>2
<1> QED BY <1>2, <1>3 DEF TrailInv

LEMMA FollowKeeps ==
  ASSUME TrailInv, NEW at \in {"home", "history", "account", "build"}, Follow(at)
  PROVE  TrailInv'
<1>1. PICK page : page = IF at = "build" THEN Build(<<>>, "link") ELSE Linked(at)
  OBVIOUS
<1>2. page \in TabPages
  <2>1. CASE at = "build"
    BY <1>1, <2>1, TabPagesAre
  <2>2. CASE at # "build"
    BY <1>1, <2>2, TabPagesAre
  <2> QED BY <2>1, <2>2
<1>3. page.via = "link"
  BY <1>1 DEF Build, Linked
<1>4. Go(page)
  BY <1>1 DEF Follow
<1>5. KeepsLegs(Shown, page)
  BY <1>3 DEF KeepsLegs
<1> QED BY <1>2, <1>4, <1>5, GoKeeps

LEMMA AddKeeps ==
  ASSUME TrailInv, NEW team \in BOOLEAN, NEW leg \in Leg, Add(team, leg)
  PROVE  TrailInv'
<1>1. PICK legs \in Seq(Leg), via \in {"link", "form"} : Shown = Build(legs, via)
  BY ShownIs DEF Add
<1>2. PICK field \in Seq(Leg) : field = Field(legs) /\ field \in {legs, <<>>}
  BY FieldIs
<1>3. PICK new \in Seq(Leg) : new = AddTo(field, team, leg)
  <2>1. Append(field, leg) \in Seq(Leg)
    OBVIOUS
  <2> QED BY <2>1 DEF AddTo
<1>4. Len(new) <= Len(field) + 1 /\ IsPrefix(field, new)
  <2>1. CASE ~team
    BY <1>3, <2>1 DEF AddTo, IsPrefix
  <2>2. CASE team
    <3>1. new = Append(field, leg)
      BY <1>3, <2>2 DEF AddTo
    <3>2. SubSeq(field, 1, Len(field)) = SubSeq(new, 1, Len(field))
      BY <3>1
    <3> QED BY <3>1, <3>2 DEF IsPrefix
  <2> QED BY <2>1, <2>2
<1>5. PICK page : page = Build(new, "form")
  OBVIOUS
<1>6. page \in TabPages
  BY <1>5, TabPagesAre
<1>7. Shown.legs = legs /\ Shown.field = field /\ page.legs = new /\ page.at = "build"
  BY <1>1, <1>2, <1>5, BuildIs
<1>8. KeepsLegs(Shown, page)
  BY <1>2, <1>4, <1>7 DEF KeepsLegs
<1>9. Go(page)
  BY <1>3, <1>5, <1>7 DEF Add
<1> QED BY <1>6, <1>8, <1>9, GoKeeps

LEMMA EvaluateKeeps ==
  ASSUME TrailInv, NEW tier \in Tiers, Evaluate(tier)
  PROVE  TrailInv'
<1>1. PICK legs \in Seq(Leg), via \in {"link", "form"} : Shown = Build(legs, via)
  BY ShownIs DEF Evaluate
<1>2. PICK field \in Seq(Leg) : field = Field(legs) /\ field \in {legs, <<>>}
  BY FieldIs
<1>3. PICK outcome \in Endings(field) : Go(Debrief(field, tier, outcome))
  BY <1>1, <1>2, BuildIs DEF Evaluate
<1>4. PICK page : page = Debrief(field, tier, outcome)
  OBVIOUS
<1>5. /\ Shown.legs = legs /\ Shown.field = field /\ Len(legs) >= 2
      /\ page.legs = field /\ page.at = "debrief" /\ page.outcome = outcome
  BY <1>1, <1>2, <1>4, BuildIs DEF Evaluate, Debrief
<1>6. outcome \in Ends
  <2>1. Endings(field) \in {{"evaluated", "invalid", "failed"}, {"short"}}
    BY DEF Endings
  <2> QED BY <1>3, <2>1 DEF Ends
<1>7. KeepsLegs(Shown, page)
  <2>1. CASE field = legs
    <3>1. IsPrefix(legs, legs)
      BY DEF IsPrefix
    <3>2. outcome # "short"
      <4>1. Endings(legs) = {"evaluated", "invalid", "failed"}
        BY <1>5 DEF Endings
      <4> QED BY <1>3, <2>1, <4>1
    <3> QED BY <1>5, <2>1, <3>1, <3>2 DEF KeepsLegs
  <2>2. CASE field # legs
    <3>1. field = <<>> /\ Len(field) = 0
      BY <1>2, <2>2
    <3>2. outcome = "short"
      <4>1. Endings(field) = {"short"}
        BY <3>1 DEF Endings
      <4> QED BY <1>3, <4>1
    <3> QED BY <1>5, <2>2, <3>1, <3>2 DEF KeepsLegs
  <2> QED BY <2>1, <2>2
<1>8. page \in TabPages
  BY <1>4, <1>6, TabPagesAre
<1>9. Go(page)
  BY <1>3, <1>4
<1> QED BY <1>7, <1>8, <1>9, GoKeeps

LEMMA BackKeeps == TrailInv /\ Back => TrailInv'
<1> SUFFICES ASSUME TrailInv, Back
             PROVE  TrailInv'
    OBVIOUS
<1>1. trail \in Seq(TabPages) /\ Len(trail) \in Nat /\ Len(trail) > 1
      /\ trail' = SubSeq(trail, 1, Len(trail) - 1)
  BY DEF TrailInv, Back, Front
<1>2. /\ trail' \in Seq(TabPages) /\ Len(trail') = Len(trail) - 1
      /\ \A i \in 1..Len(trail') : trail'[i] = trail[i]
  BY <1>1
<1>3. \A i \in 1..Len(trail') - 1 : KeepsLegs(trail'[i], trail'[i + 1])
  <2>1. ASSUME NEW i \in 1..Len(trail') - 1
        PROVE  /\ i \in 1..Len(trail) - 1
               /\ trail'[i] = trail[i] /\ trail'[i + 1] = trail[i + 1]
    BY <1>1, <1>2
  <2> QED BY <2>1 DEF TrailInv
<1>4. trail' # <<>>
  <2>1. PICK n \in Nat : n = Len(trail') /\ n # 0
    BY <1>1, <1>2
  <2>2. Len(<<>>) = 0
    OBVIOUS
  <2> QED BY <2>1, <2>2, Zenon
<1> QED BY <1>2, <1>3, <1>4 DEF TrailInv

\* A tab that was just opened keeps nothing.
LEMMA OnePage ==
  ASSUME NEW page \in TabPages, trail = <<page>>
  PROVE  TrailInv
BY DEF TrailInv

LEMMA TrailInit == V1Init => TrailInv
<1>1. Linked("home") \in TabPages /\ Build(<<>>, "link") \in TabPages
  BY TabPagesAre
<1>2. CASE trail = <<Linked("home")>>
  BY <1>1, <1>2, OnePage
<1>3. CASE trail = <<Build(<<>>, "link")>>
  BY <1>1, <1>3, OnePage
<1> QED BY <1>2, <1>3 DEF V1Init

LEMMA ClosedKeeps == V1Closed => TrailInv'
<1>1. Build(<<>>, "link") \in TabPages
  BY TabPagesAre
<1>2. TrailInv' <=> /\ trail' \in Seq(TabPages) /\ trail' # <<>>
                   /\ \A i \in 1..Len(trail') - 1 : KeepsLegs(trail'[i], trail'[i + 1])
  BY DEF TrailInv
<1>3. ASSUME NEW page \in TabPages, NEW t, t = <<page>>
      PROVE  t \in Seq(TabPages) /\ t # <<>> /\ \A i \in 1..Len(t) - 1 : KeepsLegs(t[i], t[i + 1])
  BY <1>3
<1> QED BY <1>1, <1>2, <1>3, Zenon DEF V1Closed

LEMMA TrailStep == TrailInv /\ [PagesNext]_pagesVars => TrailInv'
<1> SUFFICES ASSUME TrailInv, [PagesNext]_pagesVars
             PROVE  TrailInv'
    OBVIOUS
<1>1. CASE V1Next
  <2>1. ASSUME NEW at \in {"home", "history", "account", "build"}, Follow(at)
        PROVE  TrailInv'
    BY <2>1, FollowKeeps
  <2>2. ASSUME NEW team \in BOOLEAN, NEW type \in Types, NEW line \in Lines,
               Add(team, [type |-> type, line |-> line])
        PROVE  TrailInv'
    <3>1. [type |-> type, line |-> line] \in Leg
      BY DEF Leg
    <3> QED BY <2>2, <3>1, AddKeeps
  <2>3. ASSUME NEW tier \in Tiers, Evaluate(tier)
        PROVE  TrailInv'
    BY <2>3, EvaluateKeeps
  <2>4. CASE Back
    BY <2>4, BackKeeps
  <2> QED BY <1>1, <2>1, <2>2, <2>3, <2>4 DEF V1Next
<1>2. CASE UNCHANGED v1Vars
  BY <1>2 DEF v1Vars, TrailInv
<1>3. CASE V1Closed
  BY <1>3, ClosedKeeps
<1>4. V1Next \/ UNCHANGED v1Vars \/ V1Closed
  BY DEF PagesNext, InV1, InPanel, InApp, OpenPage, pagesVars
<1> QED BY <1>1, <1>2, <1>3, <1>4

\* For slips and histories of any length: however the reader goes back and forth, a
\* form loses no leg of its page unless a line holds an apostrophe, and then the
\* slip is read as empty.
THEOREM FormsAlwaysKeepLegs == PagesSpec => []FormsKeepLegs
<1>1. PagesInit => TrailInv
  BY TrailInit DEF PagesInit
<1>2. TrailInv /\ [PagesNext]_pagesVars => TrailInv'
  BY TrailStep
<1>3. TrailInv => FormsKeepLegs
  BY DEF TrailInv, FormsKeepLegs, KeepsLegs
<1> QED BY <1>1, <1>2, <1>3, PTL DEF PagesSpec

-----------------------------------------------------------------------------
(* The refine loop.                                                        *)

IsSeq(s) == \E n \in Nat : s = [i \in 1..n |-> s[i]]

\* What is shown, sent or remembered is a sequence of legs.
LegsAreSeq ==
  /\ IsSeq(builderLegs) /\ IsSeq(resultsLegs) /\ IsSeq(lastResponse)
  /\ view = "loading" => IsSeq(request.legs) /\ IsSeq(request.input)

SlipInv == IsSeq(betInput) /\ LegsAreSeq /\ OneSlip

LEMMA MappedIsSeq ==
  ASSUME NEW s, IsSeq(s), NEW t, DOMAIN t = DOMAIN s, t = [i \in DOMAIN t |-> t[i]]
  PROVE  IsSeq(t)
BY DEF IsSeq

LEMMA AppendIsSeq ==
  ASSUME NEW s, IsSeq(s), NEW e
  PROVE  IsSeq(Append(s, e))
<1>1. PICK n \in Nat : s = [i \in 1..n |-> s[i]]
  BY DEF IsSeq
<1>2. s \in Seq({s[i] : i \in 1..n}) /\ Len(s) = n
  BY <1>1
<1>3. PICK t : t = Append(s, e)
  OBVIOUS
<1>4. t \in Seq({s[i] : i \in 1..n} \cup {e})
  BY <1>2, <1>3
<1>5. t = [i \in 1..Len(t) |-> t[i]] /\ Len(t) \in Nat
  BY <1>4
<1> QED BY <1>3, <1>5 DEF IsSeq

LEMMA RemoveIsSeq ==
  ASSUME NEW s, IsSeq(s), NEW k \in DOMAIN s
  PROVE  IsSeq(RemoveAt(s, k))
<1>1. PICK n \in Nat : s = [i \in 1..n |-> s[i]]
  BY DEF IsSeq
<1>2. PICK S : S = {s[i] : i \in 1..n}
  OBVIOUS
<1>3. s \in Seq(S) /\ Len(s) = n /\ k \in 1..n
  BY <1>1, <1>2
<1>4. PICK l, r : l = SubSeq(s, 1, k - 1) /\ r = SubSeq(s, k + 1, n)
  OBVIOUS
<1>5. l \in Seq(S) /\ r \in Seq(S)
  BY <1>3, <1>4
<1>6. PICK t : t = RemoveAt(s, k)
  OBVIOUS
<1>7. t \in Seq(S)
  BY <1>3, <1>4, <1>5, <1>6 DEF RemoveAt
<1>8. t = [i \in 1..Len(t) |-> t[i]] /\ Len(t) \in Nat
  BY <1>7
<1> QED BY <1>6, <1>8 DEF IsSeq

LEMMA EmptyIsSeq == IsSeq(<<>>)
<1>1. <<>> = [i \in 1..0 |-> <<>>[i]]
  OBVIOUS
<1> QED BY <1>1 DEF IsSeq

\* A text of the builder is one line, or none.
LEMMA JoinedIsSeq == \A legs : IsSeq(Joined(legs))
<1> TAKE legs
<1>1. PICK x : x = AllPhrases(legs)
  OBVIOUS
<1>2. <<x>> = [i \in 1..1 |-> <<x>>[i]]
  OBVIOUS
<1> QED BY <1>1, <1>2, EmptyIsSeq DEF Joined, IsSeq

\* Legs rewritten one by one say the same text.
LEMMA SameTexts ==
  ASSUME NEW s, IsSeq(s), NEW t, t = [i \in DOMAIN s |-> t[i]],
         \A i \in DOMAIN s : t[i].text = s[i].text
  PROVE  AllPhrases(t) = AllPhrases(s) /\ Joined(t) = Joined(s)
<1>1. PICK f : f = [i \in DOMAIN s |-> s[i].text]
  OBVIOUS
<1>2. DOMAIN t = DOMAIN s
  OBVIOUS
<1>3. f = [i \in DOMAIN t |-> t[i].text]
  BY <1>1, <1>2
<1>4. AllPhrases(t) = FlattenSeq(f) /\ AllPhrases(s) = FlattenSeq(f)
  BY <1>1, <1>3, Zenon DEF AllPhrases
<1>5. t = <<>> <=> s = <<>>
  BY <1>2 DEF IsSeq
<1> QED BY <1>4, <1>5 DEF Joined

\* Results become the builder's legs and the text of the area.
LEMMA SyncKeeps ==
  ASSUME NEW legs, IsSeq(legs), SyncStateFromResults(legs)
  PROVE  /\ IsSeq(builderLegs)' /\ betInput' = Joined(builderLegs')
         /\ AllPhrases(builderLegs') = AllPhrases(legs) /\ Joined(builderLegs') = Joined(legs)
<1>1. /\ builderLegs' = [i \in DOMAIN legs |-> BuilderLeg(legs[i], legs[i].bet_type)]
      /\ betInput' = Joined(builderLegs')
  BY DEF SyncStateFromResults, SyncTextarea
<1>2. PICK t : t = [i \in DOMAIN legs |-> BuilderLeg(legs[i], legs[i].bet_type)]
  OBVIOUS
<1>3. DOMAIN t = DOMAIN legs /\ t = [i \in DOMAIN t |-> t[i]]
  BY <1>2
<1>4. \A i \in DOMAIN legs : t[i].text = legs[i].text
  BY <1>2 DEF BuilderLeg
<1>5. IsSeq(t)
  BY <1>3, MappedIsSeq
<1>6. AllPhrases(t) = AllPhrases(legs) /\ Joined(t) = Joined(legs)
  BY <1>3, <1>4, SameTexts
<1>7. builderLegs' = t
  BY <1>1, <1>2
<1> QED BY <1>1, <1>5, <1>6, <1>7

LEMMA FirstIs ==
  ASSUME NEW n \in Nat, NEW I \in SUBSET (1..n), I # {}
  PROVE  Min(I) \in I
<1>1. I \subseteq Nat
  OBVIOUS
<1>2. PICK x \in I : \A y \in I : <<y, x>> \notin OpToRel(<, Nat)
  BY <1>1, NatLessThanWellFounded, WFMin
<1>3. \A y \in I : x <= y
  <2>1. \A y \in I : ~(y < x)
    BY <1>1, <1>2 DEF OpToRel
  <2> QED BY <1>1, <2>1
<1> QED BY <1>3 DEF Min

LEMMA FirstLegIs ==
  ASSUME NEW s, IsSeq(s), NEW k \in DOMAIN s,
         NEW first, first = SelectInSeq(s, LAMBDA leg : leg.leg_id = s[k].leg_id)
  PROVE  first \in DOMAIN s
<1>1. PICK n \in Nat : s = [i \in 1..n |-> s[i]]
  BY DEF IsSeq
<1>2. Len(s) = n /\ DOMAIN s = 1..n
  BY <1>1
<1>3. PICK I : I = {i \in 1..n : s[i].leg_id = s[k].leg_id}
  OBVIOUS
<1>4. first = IF I # {} THEN Min(I) ELSE 0
  BY <1>2, <1>3 DEF SelectInSeq
<1>5. I \in SUBSET (1..n) /\ I # {}
  BY <1>2, <1>3
<1>6. Min(I) \in I
  BY <1>5, FirstIs
<1> QED BY <1>2, <1>4, <1>5, <1>6

LEMMA EvaluatedIsSeq ==
  ASSUME NEW r, IsSeq(r.legs), IsSeq(r.input)
  PROVE  IsSeq(EvaluatedLegs(r))
<1>1. PICK t : t = EvaluatedLegs(r)
  OBVIOUS
<1>2. CASE r.legs # <<>>
  <2>1. DOMAIN t = DOMAIN r.legs /\ t = [i \in DOMAIN t |-> t[i]]
    BY <1>1, <1>2 DEF EvaluatedLegs
  <2>2. IsSeq(t)
    BY <2>1, MappedIsSeq
  <2> QED BY <1>1, <2>2
<1>3. CASE r.legs = <<>>
  <2>1. DOMAIN t = DOMAIN r.input /\ t = [i \in DOMAIN t |-> t[i]]
    BY <1>1, <1>3 DEF EvaluatedLegs
  <2>2. IsSeq(t)
    BY <2>1, MappedIsSeq
  <2> QED BY <1>1, <2>2
<1> QED BY <1>2, <1>3

LEMMA ShownIsSeq ==
  ASSUME NEW legs, IsSeq(legs)
  PROVE  IsSeq(ShowResults(legs))
<1>1. PICK t : t = ShowResults(legs)
  OBVIOUS
<1>2. DOMAIN t = DOMAIN legs /\ t = [i \in DOMAIN t |-> t[i]]
  BY <1>1 DEF ShowResults
<1>3. IsSeq(t)
  BY <1>2, MappedIsSeq
<1> QED BY <1>1, <1>3

\* While nothing is under way it is enough that the text says the builder's legs.
LEMMA BuilderStep ==
  ASSUME IsSeq(builderLegs)', IsSeq(resultsLegs)', IsSeq(lastResponse)',
         view' # "loading", betInput' = Joined(builderLegs')
  PROVE  SlipInv'
<1>1. PICK b : b = Joined(builderLegs')
  OBVIOUS
<1>2. IsSeq(b)
  BY <1>1, JoinedIsSeq
<1>3. betInput' = b
  BY <1>1
<1>4. IsSeq(betInput)'
  BY <1>2, <1>3
<1> QED BY <1>4 DEF SlipInv, LegsAreSeq, OneSlip

LEMMA SlipAddStep ==
  ASSUME SlipInv, NEW p, AddLeg(p)
  PROVE  SlipInv'
<1>1. PICK e : builderLegs' = Append(builderLegs, e)
  BY DEF AddLeg
<1>2. /\ view' = "input" /\ betInput' = Joined(builderLegs')
      /\ resultsLegs' = resultsLegs /\ lastResponse' = lastResponse
  BY DEF AddLeg, SyncTextarea, resultVars, serverVars
<1>3. IsSeq(builderLegs) /\ IsSeq(resultsLegs) /\ IsSeq(lastResponse)
  BY DEF SlipInv, LegsAreSeq
<1>4. PICK b : b = Append(builderLegs, e)
  OBVIOUS
<1>5. IsSeq(b)
  BY <1>3, <1>4, AppendIsSeq
<1>6. IsSeq(builderLegs)' /\ IsSeq(resultsLegs)' /\ IsSeq(lastResponse)'
  BY <1>1, <1>2, <1>3, <1>4, <1>5
<1> QED BY <1>2, <1>6, BuilderStep

LEMMA SlipRemoveStep ==
  ASSUME SlipInv, NEW k \in DOMAIN builderLegs, RemoveLeg(k)
  PROVE  SlipInv'
<1>1. builderLegs' = RemoveAt(builderLegs, k)
  BY DEF RemoveLeg
<1>2. /\ view' = "input" /\ betInput' = Joined(builderLegs')
      /\ resultsLegs' = resultsLegs /\ lastResponse' = lastResponse
  BY DEF RemoveLeg, SyncTextarea, resultVars, serverVars
<1>3. IsSeq(builderLegs) /\ IsSeq(resultsLegs) /\ IsSeq(lastResponse)
  BY DEF SlipInv, LegsAreSeq
<1>4. PICK b : b = RemoveAt(builderLegs, k)
  OBVIOUS
<1>5. IsSeq(b)
  BY <1>3, <1>4, RemoveIsSeq
<1>6. IsSeq(builderLegs)' /\ IsSeq(resultsLegs)' /\ IsSeq(lastResponse)'
  BY <1>1, <1>2, <1>3, <1>4, <1>5
<1> QED BY <1>2, <1>6, BuilderStep

\* The other actions of the form.
LEMMA SlipFormStep ==
  ASSUME SlipInv, SwitchMode \/ (\E text \in TypedTexts : TypeText(text)) \/ Submit
  PROVE  SlipInv'
<1>1. CASE SwitchMode
  BY <1>1 DEF SwitchMode, SlipInv, LegsAreSeq, OneSlip, resultVars, serverVars
<1>2. ASSUME NEW text \in TypedTexts, TypeText(text)
      PROVE  SlipInv'
  <2>1. text \in Seq(Seq(DOMAIN Phrases))
    BY RefineAssumption
  <2>2. text = [i \in 1..Len(text) |-> text[i]] /\ Len(text) \in Nat
    BY <2>1
  <2>3. IsSeq(text)
    BY <2>2 DEF IsSeq
  <2>4. /\ betInput' = text /\ view' = "input" /\ builderLegs' = builderLegs
        /\ resultsLegs' = resultsLegs /\ lastResponse' = lastResponse
    BY <1>2 DEF TypeText, resultVars, serverVars
  <2> QED BY <2>3, <2>4 DEF SlipInv, LegsAreSeq, OneSlip
<1>3. CASE Submit
  <2>1. PICK r : r = [input |-> betInput,
                      legs |-> IF currentMode = "builder" THEN builderLegs ELSE <<>>]
    OBVIOUS
  <2>2. /\ request' = r /\ view' = "loading" /\ isReEvaluation' = FALSE
        /\ betInput' = betInput /\ builderLegs' = builderLegs
        /\ resultsLegs' = resultsLegs /\ lastResponse' = lastResponse
    BY <1>3, <2>1 DEF Submit, RunEvaluation, slipVars
  <2>3. r.input = betInput /\ r.legs = IF currentMode = "builder" THEN builderLegs ELSE <<>>
    BY <2>1
  <2>4. IsSeq(r.input) /\ IsSeq(r.legs)
    BY <2>3, EmptyIsSeq DEF SlipInv, LegsAreSeq
  <2> QED BY <2>2, <2>4 DEF SlipInv, LegsAreSeq, OneSlip
<1> QED BY <1>1, <1>2, <1>3

LEMMA SlipTestStep ==
  ASSUME SlipInv, ReEvaluateParlay
  PROVE  SlipInv'
<1>1. PICK new : new = builderLegs'
  OBVIOUS
<1>2. /\ IsSeq(builderLegs)' /\ betInput' = Joined(builderLegs')
      /\ AllPhrases(new) = AllPhrases(resultsLegs) /\ Joined(builderLegs') = Joined(resultsLegs)
  BY <1>1, SyncKeeps DEF ReEvaluateParlay, SlipInv, LegsAreSeq
<1>3. PICK b : b = Joined(resultsLegs)
  OBVIOUS
<1>4. IsSeq(b) /\ IsSeq(new)
  BY <1>1, <1>2, <1>3, JoinedIsSeq
<1>5. PICK r : r = [input |-> b, legs |-> IF currentMode = "builder" THEN new ELSE <<>>]
  OBVIOUS
<1>6. /\ request' = r /\ view' = "loading"
      /\ resultsLegs' = resultsLegs /\ lastResponse' = lastResponse
  BY <1>1, <1>3, <1>5 DEF ReEvaluateParlay, RunEvaluation
<1>7. r.input = b /\ r.legs = IF currentMode = "builder" THEN new ELSE <<>>
  BY <1>5
<1>8. IsSeq(r.input) /\ IsSeq(r.legs) /\ (r.legs # <<>> => AllPhrases(r.legs) = AllPhrases(resultsLegs))
  BY <1>2, <1>4, <1>7, EmptyIsSeq
<1>9. betInput' = b
  BY <1>2, <1>3
<1>10. IsSeq(betInput)' /\ IsSeq(request.input)' /\ IsSeq(request.legs)'
  BY <1>4, <1>6, <1>8, <1>9
<1>11. IsSeq(resultsLegs)' /\ IsSeq(lastResponse)'
  BY <1>6 DEF SlipInv, LegsAreSeq
<1>12. /\ request'.input = Joined(resultsLegs') /\ betInput' = request'.input
       /\ request'.legs # <<>> => AllPhrases(request'.legs) = AllPhrases(resultsLegs')
  BY <1>3, <1>6, <1>7, <1>8, <1>9
<1> QED BY <1>2, <1>10, <1>11, <1>12 DEF SlipInv, LegsAreSeq, OneSlip

LEMMA SlipAnswerStep ==
  ASSUME SlipInv, AppAnswer
  PROVE  SlipInv'
<1>1. /\ betInput' = betInput /\ builderLegs' = builderLegs /\ view = "loading"
  BY DEF AppAnswer, Lost, Answered, slipVars
<1>2. IsSeq(request.legs) /\ IsSeq(request.input)
  BY <1>1 DEF SlipInv, LegsAreSeq
<1>3. CASE Lost
  <2>1. view' = "input" /\ resultsLegs' = resultsLegs /\ lastResponse' = lastResponse
    BY <1>3 DEF Lost, resultVars
  <2> QED BY <1>1, <2>1 DEF SlipInv, LegsAreSeq, OneSlip
<1>4. ASSUME NEW answer \in EvaluateProxy(request), Answered(answer)
      PROVE  SlipInv'
  <2>1. PICK legs : legs = answer.legs
    OBVIOUS
  <2>2. IsSeq(legs)
    <3>1. CASE answer \in {[status |-> s, legs |-> <<>>] : s \in {400, 429, 500, 503}}
      <4>1. legs = <<>>
        BY <2>1, <3>1
      <4> QED BY <4>1, EmptyIsSeq
    <3>2. CASE answer = [status |-> 200, legs |-> EvaluatedLegs(request)]
      <4>1. legs = EvaluatedLegs(request)
        BY <2>1, <3>2
      <4> QED BY <1>2, <4>1, EvaluatedIsSeq
    <3> QED BY <1>4, <3>1, <3>2 DEF EvaluateProxy
  <2>3. PICK shown : shown = ShowResults(legs)
    OBVIOUS
  <2>4. IsSeq(shown)
    BY <2>2, <2>3, ShownIsSeq
  <2>5. /\ lastResponse' = legs /\ resultsLegs' \in {shown, resultsLegs}
        /\ view' \in {"input", "results"}
    BY <1>4, <2>1, <2>3 DEF Answered
  <2>6. IsSeq(resultsLegs)' /\ IsSeq(lastResponse)'
    <3>1. CASE resultsLegs' = shown
      BY <2>2, <2>4, <2>5, <3>1
    <3>2. CASE resultsLegs' = resultsLegs
      BY <2>2, <2>5, <3>2 DEF SlipInv, LegsAreSeq
    <3> QED BY <2>5, <3>1, <3>2
  <2> QED BY <1>1, <2>5, <2>6 DEF SlipInv, LegsAreSeq, OneSlip
<1> QED BY <1>3, <1>4 DEF AppAnswer

LEMMA SlipResultsStep ==
  ASSUME SlipInv, NEW k \in DOMAIN resultsLegs, ToggleLegLock(k) \/ RemoveLegFromResults(k)
  PROVE  SlipInv'
<1>1. IsSeq(builderLegs) /\ IsSeq(resultsLegs) /\ IsSeq(lastResponse)
  BY DEF SlipInv, LegsAreSeq
<1>2. CASE ToggleLegLock(k)
  <2>1. PICK t : t = [resultsLegs EXCEPT ![k].locked = ~@]
    OBVIOUS
  <2>2. DOMAIN t = DOMAIN resultsLegs /\ t = [i \in DOMAIN t |-> t[i]]
    BY <2>1
  <2>3. IsSeq(t)
    BY <1>1, <2>2, MappedIsSeq
  <2>4. /\ resultsLegs' = t /\ view' = "results" /\ betInput' = betInput
        /\ builderLegs' = builderLegs /\ lastResponse' = lastResponse
    BY <1>2, <2>1 DEF ToggleLegLock, slipVars, serverVars
  <2> QED BY <2>3, <2>4 DEF SlipInv, LegsAreSeq, OneSlip
<1>3. CASE RemoveLegFromResults(k)
  <2>1. PICK first : first = SelectInSeq(resultsLegs, LAMBDA leg : leg.leg_id = resultsLegs[k].leg_id)
    OBVIOUS
  <2>2. first \in DOMAIN resultsLegs
    BY <1>1, <2>1, FirstLegIs
  <2>3. PICK t : t = RemoveAt(resultsLegs, first)
    OBVIOUS
  <2>4. IsSeq(t)
    BY <1>1, <2>2, <2>3, RemoveIsSeq
  <2>5. /\ resultsLegs' = t /\ view' = "results" /\ lastResponse' = lastResponse
        /\ SyncStateFromResults(t)
    BY <1>3, <2>1, <2>3 DEF RemoveLegFromResults, serverVars
  <2>6. IsSeq(builderLegs)' /\ betInput' = Joined(builderLegs')
    BY <2>4, <2>5, SyncKeeps
  <2>7. IsSeq(resultsLegs)' /\ IsSeq(lastResponse)'
    BY <1>1, <2>4, <2>5
  <2> QED BY <2>5, <2>6, <2>7, BuilderStep
<1> QED BY <1>2, <1>3

LEMMA SlipBackStep ==
  ASSUME SlipInv, ResetForm \/ RefineParlay
  PROVE  SlipInv'
<1>1. IsSeq(builderLegs) /\ IsSeq(resultsLegs) /\ IsSeq(lastResponse)
  BY DEF SlipInv, LegsAreSeq
<1>2. CASE ResetForm
  <2>1. /\ betInput' = <<>> /\ builderLegs' = <<>> /\ resultsLegs' = <<>>
        /\ view' = "input" /\ lastResponse' = lastResponse
    BY <1>2 DEF ResetForm, serverVars
  <2>2. IsSeq(builderLegs)' /\ IsSeq(resultsLegs)' /\ IsSeq(lastResponse)'
    BY <1>1, <2>1, EmptyIsSeq
  <2>3. betInput' = Joined(builderLegs')
    BY <2>1 DEF Joined
  <2> QED BY <2>1, <2>2, <2>3, BuilderStep
<1>3. CASE RefineParlay
  <2>1. PICK legs : legs = IF resultsLegs # <<>> THEN resultsLegs ELSE lastResponse
    OBVIOUS
  <2>2. IsSeq(legs)
    BY <1>1, <2>1
  <2>3. /\ \E market : builderLegs' = [i \in DOMAIN legs |-> BuilderLeg(legs[i], market[i])]
        /\ betInput' = Joined(builderLegs') /\ view' = "input"
        /\ resultsLegs' = resultsLegs /\ lastResponse' = lastResponse
    <3> DEFINE Market(leg) == IF leg.bet_type \in ToSet(MarketOrder) THEN leg.bet_type ELSE "moneyline"
               market == [i \in DOMAIN legs |-> Market(legs[i])]
    <3>1. builderLegs' = [i \in DOMAIN legs |-> BuilderLeg(legs[i], Market(legs[i]))]
      BY <1>3, <2>1 DEF RefineParlay
    <3>2. builderLegs' = [i \in DOMAIN legs |-> BuilderLeg(legs[i], market[i])]
      BY <3>1
    <3>3. \E m : builderLegs' = [i \in DOMAIN legs |-> BuilderLeg(legs[i], m[i])]
      <4> HIDE DEF market
      <4> QED BY <3>2
    <3> QED BY <1>3, <3>3 DEF RefineParlay, SyncTextarea, resultVars, serverVars
  <2>4. PICK market : builderLegs' = [i \in DOMAIN legs |-> BuilderLeg(legs[i], market[i])]
    BY <2>3
  <2>5. PICK t : t = [i \in DOMAIN legs |-> BuilderLeg(legs[i], market[i])]
    OBVIOUS
  <2>6. DOMAIN t = DOMAIN legs /\ t = [i \in DOMAIN t |-> t[i]]
    BY <2>5
  <2>7. IsSeq(t) /\ builderLegs' = t
    BY <2>2, <2>4, <2>5, <2>6, MappedIsSeq
  <2>8. IsSeq(builderLegs)' /\ IsSeq(resultsLegs)' /\ IsSeq(lastResponse)'
    BY <1>1, <2>3, <2>7
  <2> QED BY <2>3, <2>8, BuilderStep
<1> QED BY <1>2, <1>3

LEMMA SlipStarts ==
  /\ AppInit => SlipInv
  /\ SlipInv /\ ReloadApp => SlipInv'
<1>1. Joined(<<>>) = <<>>
  BY DEF Joined
<1>2. AppInit => SlipInv
  BY <1>1, EmptyIsSeq DEF AppInit, SlipInv, LegsAreSeq, OneSlip
<1>3. ASSUME SlipInv, ReloadApp
      PROVE  SlipInv'
  <2>1. /\ betInput' = <<>> /\ builderLegs' = <<>> /\ resultsLegs' = <<>>
        /\ view' = "input" /\ lastResponse' = <<>>
    BY <1>3 DEF ReloadApp
  <2>2. IsSeq(builderLegs)' /\ IsSeq(resultsLegs)' /\ IsSeq(lastResponse)'
    BY <2>1, EmptyIsSeq
  <2> QED BY <1>1, <2>1, <2>2, BuilderStep
<1> QED BY <1>2, <1>3

LEMMA SlipStep == SlipInv /\ [PagesNext]_pagesVars => SlipInv'
<1> SUFFICES ASSUME SlipInv, [PagesNext]_pagesVars
             PROVE  SlipInv'
    OBVIOUS
<1>1. CASE AppNext
  <2>1. ASSUME NEW p \in DOMAIN Phrases, AddLeg(p)
        PROVE  SlipInv'
    BY <2>1, SlipAddStep
  <2>2. ASSUME NEW k \in DOMAIN builderLegs, RemoveLeg(k)
        PROVE  SlipInv'
    BY <2>2, SlipRemoveStep
  <2>3. ASSUME NEW k \in DOMAIN resultsLegs, ToggleLegLock(k) \/ RemoveLegFromResults(k)
        PROVE  SlipInv'
    BY <2>3, SlipResultsStep
  <2>4. CASE SwitchMode \/ (\E text \in TypedTexts : TypeText(text)) \/ Submit
    BY <2>4, SlipFormStep
  <2>5. CASE ReEvaluateParlay
    BY <2>5, SlipTestStep
  <2>6. CASE AppAnswer
    BY <2>6, SlipAnswerStep
  <2>7. CASE ResetForm \/ RefineParlay
    BY <2>7, SlipBackStep
  <2> QED BY <1>1, <2>1, <2>2, <2>3, <2>4, <2>5, <2>6, <2>7 DEF AppNext
<1>2. CASE UNCHANGED appVars
  BY <1>2 DEF appVars, SlipInv, LegsAreSeq, OneSlip
<1>3. CASE ReloadApp
  BY <1>3, SlipStarts
<1>4. AppNext \/ UNCHANGED appVars \/ ReloadApp
  BY DEF PagesNext, InV1, InPanel, InApp, OpenPage, pagesVars
<1> QED BY <1>1, <1>2, <1>3, <1>4

\* For all phrases, texts and numbers of legs: builder, text area and results say
\* the same slip, and what is tested again is what the results list.
THEOREM AlwaysOneSlip == PagesSpec => []OneSlip
<1>1. PagesInit => SlipInv
  BY SlipStarts DEF PagesInit
<1>2. SlipInv /\ [PagesNext]_pagesVars => SlipInv'
  BY SlipStep
<1>3. SlipInv => OneSlip
  BY DEF SlipInv
<1> QED BY <1>1, <1>2, <1>3, PTL DEF PagesSpec

-----------------------------------------------------------------------------
(* Locks.                                                                  *)

\* No two legs are of one id.
Apart(legs) == \A i, j \in DOMAIN legs :
  legs[i].entity = legs[j].entity /\ legs[i].bet_type = legs[j].bet_type => i = j

\* The locks of the listed legs are what lockedLegIds says.
LocksAgree ==
  /\ Apart(resultsLegs)
  /\ \A i \in DOMAIN resultsLegs : resultsLegs[i].locked = (resultsLegs[i].leg_id \in lockedLegIds)

\* A slip is refined from the moment its results are shown.
Refining == view = "results" \/ (view = "loading" /\ isReEvaluation)

LocksInv ==
  /\ view = "loading" /\ ~isReEvaluation => lockedLegIds = {}
  /\ Refining =>
       /\ \A i \in DOMAIN resultsLegs :
            resultsLegs[i].leg_id = <<resultsLegs[i].entity, resultsLegs[i].bet_type>>
       /\ Apart(lastResponse) => LocksAgree
  /\ view = "loading" /\ isReEvaluation /\ request.legs # <<>> =>
       request.legs = [i \in DOMAIN resultsLegs |->
                         BuilderLeg(resultsLegs[i], resultsLegs[i].bet_type)]

\* As many ids as legs: no two legs share one.
LEMMA IdsApart ==
  ASSUME NEW legs, IsSeq(legs), Cardinality(Ids(legs)) = Len(legs)
  PROVE  Apart(legs)
<1>1. PICK n \in Nat : legs = [i \in 1..n |-> legs[i]]
  BY DEF IsSeq
<1>2. Len(legs) = n /\ DOMAIN legs = 1..n
  BY <1>1
<1>3. PICK f : f = [i \in 1..n |-> <<legs[i].entity, legs[i].bet_type>>]
  OBVIOUS
<1>4. f \in Surjection(1..n, Ids(legs))
  <2>1. f \in [1..n -> Ids(legs)]
    BY <1>2, <1>3 DEF Ids, GenerateLegId
  <2>2. \A id \in Ids(legs) : \E i \in 1..n : f[i] = id
    BY <1>2, <1>3 DEF Ids, GenerateLegId
  <2> QED BY <2>1, <2>2 DEF Surjection
<1>5. IsFiniteSet(1..n) /\ Cardinality(1..n) = n
  BY FS_Interval
<1>6. f \in Injection(1..n, Ids(legs))
  BY <1>2, <1>4, <1>5, FS_SurjSameCardinalityImpliesInj
<1>7. \A i, j \in 1..n : f[i] = f[j] => i = j
  BY <1>6 DEF Injection, IsInjective
<1> QED BY <1>2, <1>3, <1>7 DEF Apart

\* A piece of a sequence, and two pieces put together.
LEMMA PieceIs ==
  ASSUME NEW S, NEW s \in Seq(S), NEW a \in Int, NEW b \in Int, 1 <= a, b <= Len(s), a <= b + 1
  PROVE  /\ SubSeq(s, a, b) \in Seq(S)
         /\ Len(SubSeq(s, a, b)) = b - a + 1
         /\ \A i \in 1..(b - a + 1) : SubSeq(s, a, b)[i] = s[a + i - 1]
<1>1. SubSeq(s, a, b) \in Seq(S)
  OBVIOUS
<1>2. Len(SubSeq(s, a, b)) = b - a + 1
  OBVIOUS
<1>3. \A i \in 1..(b - a + 1) : SubSeq(s, a, b)[i] = s[a + i - 1]
  OBVIOUS
<1> QED BY <1>1, <1>2, <1>3

LEMMA PiecesJoin ==
  ASSUME NEW S, NEW l \in Seq(S), NEW r \in Seq(S)
  PROVE  /\ l \o r \in Seq(S)
         /\ Len(l \o r) = Len(l) + Len(r)
         /\ \A i \in 1..Len(l) : (l \o r)[i] = l[i]
         /\ \A i \in 1..Len(r) : (l \o r)[Len(l) + i] = r[i]
OBVIOUS

\* A list without its leg g.
LEMMA RemovedIs ==
  ASSUME NEW S, NEW s \in Seq(S), NEW n \in Nat, Len(s) = n, NEW g \in 1..n
  PROVE  RemoveAt(s, g) = [i \in 1..(n - 1) |-> IF i < g THEN s[i] ELSE s[i + 1]]
<1>2. s \in Seq(S) /\ Len(s) = n
  OBVIOUS
<1>3. PICK m \in Nat, k \in Nat : g = m + 1 /\ n = m + 1 + k
  <2>1. g - 1 \in Nat /\ n - g \in Nat
    OBVIOUS
  <2>2. g = (g - 1) + 1 /\ n = (g - 1) + 1 + (n - g)
    OBVIOUS
  <2> QED BY <2>1, <2>2
<1>4. PICK o \in Int : o = m + 2
  OBVIOUS
<1>5. PICK l, r : l = SubSeq(s, 1, m) /\ r = SubSeq(s, o, n)
  OBVIOUS
<1>6. l \in Seq(S) /\ Len(l) = m /\ \A i \in 1..m : l[i] = s[i]
  <2>1. /\ l \in Seq(S) /\ Len(l) = m - 1 + 1
        /\ \A i \in 1..(m - 1 + 1) : l[i] = s[1 + i - 1]
    BY <1>2, <1>3, <1>5, PieceIs
  <2>2. m - 1 + 1 = m /\ \A i \in 1..m : 1 + i - 1 = i
    OBVIOUS
  <2> QED BY <2>1, <2>2
<1>7. r \in Seq(S) /\ Len(r) = k /\ \A i \in 1..k : r[i] = s[m + 1 + i]
  <2>1. /\ r \in Seq(S) /\ Len(r) = n - o + 1
        /\ \A i \in 1..(n - o + 1) : r[i] = s[o + i - 1]
    BY <1>2, <1>3, <1>4, <1>5, PieceIs
  <2>2. n - o + 1 = k /\ \A i \in 1..k : o + i - 1 = m + 1 + i
    BY <1>3, <1>4
  <2> QED BY <2>1, <2>2
<1>8. PICK t : t = l \o r
  OBVIOUS
<1>9. /\ t \in Seq(S) /\ Len(t) = m + k
      /\ \A i \in 1..m : t[i] = s[i]
      /\ \A i \in 1..k : t[m + i] = s[m + 1 + i]
  <2>1. l \in Seq(S) /\ r \in Seq(S)
    BY <1>6, <1>7
  <2>2. /\ t \in Seq(S) /\ Len(t) = Len(l) + Len(r)
        /\ \A i \in 1..Len(l) : t[i] = l[i]
        /\ \A i \in 1..Len(r) : t[Len(l) + i] = r[i]
    BY <1>8, <2>1, PiecesJoin
  <2> QED BY <1>6, <1>7, <2>2
<1>10. m + k = n - 1
  BY <1>3
<1>11. ASSUME NEW i \in 1..(n - 1)
       PROVE  t[i] = IF i < g THEN s[i] ELSE s[i + 1]
  <2>1. CASE i < g
    <3>1. i \in 1..m
      BY <1>3, <2>1
    <3> QED BY <1>9, <2>1, <3>1
  <2>2. CASE ~(i < g)
    <3>1. PICK d \in 1..k : i = m + d
      <4>1. i - m \in 1..k /\ i = m + (i - m)
        BY <1>3, <1>10, <2>2
      <4> QED BY <4>1
    <3>2. t[i] = s[m + 1 + d]
      BY <1>9, <3>1
    <3>3. m + 1 + d = i + 1
      BY <3>1
    <3> QED BY <2>2, <3>2, <3>3
  <2> QED BY <2>1, <2>2
<1>12. t = RemoveAt(s, g)
  <2>1. g - 1 = m /\ g + 1 = o
    BY <1>3, <1>4
  <2> QED BY <1>2, <1>5, <1>8, <2>1 DEF RemoveAt
<1>13. t = [i \in 1..(n - 1) |-> t[i]]
  BY <1>9, <1>10
<1> QED BY <1>11, <1>12, <1>13

\* Removing an unlocked leg leaves the locked ones at their places among the locked.
LEMMA RemovalKeepsLocked ==
  ASSUME NEW s, IsSeq(s), NEW g \in DOMAIN s, ~s[g].locked
  PROVE  Locked(RemoveAt(s, g)) = Locked(s)
<1>1. PICK n \in Nat : s = [i \in 1..n |-> s[i]]
  BY DEF IsSeq
<1>2. g \in 1..n /\ DOMAIN s = 1..n
  BY <1>1
<1>3. PICK t : t = RemoveAt(s, g)
  OBVIOUS
<1>4. t = [i \in 1..(n - 1) |-> IF i < g THEN s[i] ELSE s[i + 1]]
  <2>1. PICK S : S = {s[i] : i \in 1..n}
    OBVIOUS
  <2>2. s \in Seq(S) /\ Len(s) = n
    BY <1>1, <2>1
  <2> QED BY <1>2, <1>3, <2>2, RemovedIs
<1>5. PICK up : up = [i \in 1..(n - 1) |-> IF i < g THEN i ELSE i + 1]
  OBVIOUS
<1>6. PICK A, B : A = {i \in 1..n : s[i].locked} /\ B = {i \in 1..(n - 1) : t[i].locked}
  OBVIOUS
<1>7. /\ \A i \in 1..(n - 1) : up[i] \in 1..n /\ t[i] = s[up[i]] /\ (i \in B <=> up[i] \in A)
      /\ \A i, j \in 1..(n - 1) : (i <= j <=> up[i] <= up[j]) /\ (up[i] = up[j] => i = j)
      /\ \A k \in A : \E i \in B : up[i] = k
  <2>1. \A i \in 1..(n - 1) : up[i] \in 1..n /\ t[i] = s[up[i]]
    BY <1>2, <1>4, <1>5
  <2>2. \A i \in 1..(n - 1) : i \in B <=> up[i] \in A
    BY <1>6, <2>1
  <2>3. \A i, j \in 1..(n - 1) : (i <= j <=> up[i] <= up[j]) /\ (up[i] = up[j] => i = j)
    BY <1>2, <1>5
  <2>4. ASSUME NEW k \in A
        PROVE  \E i \in B : up[i] = k
    <3>1. k \in 1..n /\ k # g
      BY <1>6
    <3>2. PICK i \in 1..(n - 1) : up[i] = k
      <4>1. CASE k < g
        BY <1>2, <1>5, <3>1, <4>1
      <4>2. CASE k > g
        <5>1. k - 1 \in 1..(n - 1) /\ ~(k - 1 < g)
          BY <1>2, <3>1, <4>2
        <5>2. PICK d \in 1..(n - 1) : d = k - 1
          BY <5>1
        <5> QED BY <1>5, <3>1, <5>1, <5>2
      <4> QED BY <1>2, <3>1, <4>1, <4>2
    <3> QED BY <2>2, <3>2
  <2> QED BY <2>1, <2>2, <2>3, <2>4
<1>8. ASSUME NEW i \in B
      PROVE  Cardinality(B \cap 1..i) = Cardinality(A \cap 1..up[i])
  <2>1. PICK X, Y : X = B \cap 1..i /\ Y = A \cap 1..up[i]
    OBVIOUS
  <2>2. PICK f : f = [j \in X |-> up[j]]
    OBVIOUS
  <2>3. X \subseteq 1..(n - 1) /\ i \in 1..(n - 1)
    BY <1>6, <2>1
  <2>4. f \in Bijection(X, Y)
    <3>1. f \in [X -> Y]
      <4>1. ASSUME NEW j \in X
            PROVE  up[j] \in Y
        <5>1. j \in 1..(n - 1) /\ j \in B /\ j <= i
          BY <2>1, <2>3
        <5>2. up[j] \in A /\ up[j] <= up[i] /\ up[j] \in 1..n /\ up[i] \in 1..n
          BY <1>7, <2>3, <5>1
        <5> QED BY <2>1, <5>2
      <4> QED BY <2>2, <4>1
    <3>2. \A j, k \in X : f[j] = f[k] => j = k
      BY <1>7, <2>2, <2>3
    <3>3. ASSUME NEW y \in Y
          PROVE  \E j \in X : f[j] = y
      <4>1. y \in A /\ y <= up[i]
        BY <1>6, <1>7, <2>1, <2>3
      <4>2. PICK j \in B : up[j] = y
        BY <1>7, <4>1
      <4>3. j \in 1..(n - 1) /\ j <= i
        BY <1>6, <1>7, <2>3, <4>1, <4>2
      <4>4. j \in X
        BY <2>1, <2>3, <4>3
      <4> QED BY <2>2, <4>2, <4>4
    <3> QED BY <3>1, <3>2, <3>3 DEF Bijection, Injection, Surjection, IsInjective
  <2>5. IsFiniteSet(X)
    <3>1. IsFiniteSet(1..(n - 1))
      <4>1. PICK d \in Int : d = n - 1
        OBVIOUS
      <4>2. IsFiniteSet(1..d)
        BY FS_Interval
      <4> QED BY <4>1, <4>2
    <3> QED BY <2>3, <3>1, FS_Subset
  <2>6. Cardinality(X) = Cardinality(Y)
    BY <2>4, <2>5, FS_Bijection DEF ExistsBijection
  <2> QED BY <2>1, <2>6
<1>9. DOMAIN t = 1..(n - 1)
  BY <1>4
<1>10. Locked(s) = {<<Cardinality(A \cap 1..k), s[k]>> : k \in A}
  BY <1>2, <1>6, Zenon DEF Locked
<1>11. Locked(t) = {<<Cardinality(B \cap 1..i), t[i]>> : i \in B}
  BY <1>6, <1>9, Zenon DEF Locked
<1>12. \A i \in B : <<Cardinality(B \cap 1..i), t[i]>> = <<Cardinality(A \cap 1..up[i]), s[up[i]]>>
                    /\ up[i] \in A
  BY <1>6, <1>7, <1>8
<1>13. \A x \in Locked(t) : x \in Locked(s)
  BY <1>10, <1>11, <1>12
<1>14. ASSUME NEW x \in Locked(s)
       PROVE  x \in Locked(t)
  <2>1. PICK k \in A : x = <<Cardinality(A \cap 1..k), s[k]>>
    BY <1>10
  <2>2. PICK i \in B : up[i] = k
    BY <1>7
  <2>3. x = <<Cardinality(B \cap 1..i), t[i]>>
    BY <1>12, <2>1, <2>2
  <2> QED BY <1>11, <2>3
<1>15. Locked(t) = Locked(s)
  BY <1>13, <1>14
<1> QED BY <1>3, <1>15

-----------------------------------------------------------------------------

\* Between the results and the answer to a second test the legs are the same.
LEMMA ResultLegIs ==
  ASSUME NEW leg, NEW locked
  PROVE  /\ ResultLeg(leg, locked).entity = leg.entity
         /\ ResultLeg(leg, locked).bet_type = leg.bet_type
         /\ ResultLeg(leg, locked).leg_id = <<leg.entity, leg.bet_type>>
         /\ ResultLeg(leg, locked).locked = locked
BY DEF ResultLeg, GenerateLegId

LEMMA LocksShown ==
  ASSUME NEW legs, NEW t, t = ShowResults(legs)
  PROVE  /\ DOMAIN t = DOMAIN legs
         /\ \A i \in DOMAIN legs :
              /\ t[i].entity = legs[i].entity /\ t[i].bet_type = legs[i].bet_type
              /\ t[i].leg_id = <<legs[i].entity, legs[i].bet_type>>
              /\ t[i].locked = (t[i].leg_id \in lockedLegIds)
<1>1. DOMAIN t = DOMAIN legs
  BY DEF ShowResults
<1>2. ASSUME NEW i \in DOMAIN legs
      PROVE  /\ t[i].entity = legs[i].entity /\ t[i].bet_type = legs[i].bet_type
             /\ t[i].leg_id = <<legs[i].entity, legs[i].bet_type>>
             /\ t[i].locked = (t[i].leg_id \in lockedLegIds)
  <2>1. PICK lock : lock = (<<legs[i].entity, legs[i].bet_type>> \in lockedLegIds)
    OBVIOUS
  <2>2. t[i] = ResultLeg(legs[i], lock)
    BY <2>1 DEF ShowResults, GenerateLegId
  <2> QED BY <2>1, <2>2, ResultLegIs
<1> QED BY <1>1, <1>2

\* What a request of the loop says of the results it was made from.
Sent(r, legs) ==
  r.legs = [i \in DOMAIN legs |-> BuilderLeg(legs[i], legs[i].bet_type)]

\* An answer to a second test lists the legs that were sent.
LEMMA AnswerLists ==
  ASSUME NEW r, NEW legs, r.legs # <<>>, Sent(r, legs), NEW e, e = EvaluatedLegs(r)
  PROVE  /\ DOMAIN e = DOMAIN legs
         /\ \A i \in DOMAIN legs :
              e[i].entity = legs[i].entity /\ e[i].bet_type = legs[i].bet_type
<1>1. DOMAIN r.legs = DOMAIN legs
  BY DEF Sent
<1>2. \A i \in DOMAIN legs :
        r.legs[i].entity = legs[i].entity /\ r.legs[i].market = legs[i].bet_type
  BY DEF Sent, BuilderLeg
<1>3. e = [i \in DOMAIN r.legs |-> [text |-> r.legs[i].text, entity |-> r.legs[i].entity,
                                    bet_type |-> r.legs[i].market]]
  BY DEF EvaluatedLegs
<1> QED BY <1>1, <1>2, <1>3

LEMMA LocksAnswer ==
  ASSUME SlipInv, LocksInv, NEW answer \in EvaluateProxy(request), Answered(answer)
  PROVE  /\ LocksInv'
         /\ view' = "results" =>
              IF ~isReEvaluation THEN Locked(resultsLegs') = {}
              ELSE request.legs # <<>> /\ Cardinality(Ids(lastResponse)) = Len(lastResponse) =>
                     [i \in DOMAIN resultsLegs' |-> resultsLegs'[i].locked]
                       = [i \in DOMAIN resultsLegs |-> resultsLegs[i].locked]
<1>1. /\ view = "loading" /\ view' \in {"input", "results"}
      /\ lockedLegIds' = lockedLegIds /\ isReEvaluation' = isReEvaluation
  BY DEF Answered
<1>2. CASE view' = "input"
  BY <1>2 DEF LocksInv, Refining
<1>3. CASE view' = "results"
  <2>1. answer.status = 200 /\ resultsLegs' = ShowResults(answer.legs) /\ lastResponse' = answer.legs
    BY <1>3 DEF Answered
  <2>2. answer.legs = EvaluatedLegs(request)
    BY <2>1 DEF EvaluateProxy
  <2>3. PICK e : e = EvaluatedLegs(request)
    OBVIOUS
  <2>4. PICK t : t = ShowResults(e)
    OBVIOUS
  <2>5. resultsLegs' = t /\ lastResponse' = e
    BY <2>1, <2>2, <2>3, <2>4
  <2>6. /\ DOMAIN t = DOMAIN e
        /\ \A i \in DOMAIN e :
              /\ t[i].entity = e[i].entity /\ t[i].bet_type = e[i].bet_type
              /\ t[i].leg_id = <<e[i].entity, e[i].bet_type>>
              /\ t[i].locked = (t[i].leg_id \in lockedLegIds)
    BY <2>4, LocksShown
  <2>7. LocksInv'
    <3>1. \A i \in DOMAIN t : t[i].leg_id = <<t[i].entity, t[i].bet_type>>
      BY <2>6
    <3>2. Apart(e) => Apart(t)
      BY <2>6 DEF Apart
    <3>3. \A i \in DOMAIN t : t[i].locked = (t[i].leg_id \in lockedLegIds)
      BY <2>6
    <3> QED BY <1>1, <1>3, <2>5, <3>1, <3>2, <3>3 DEF LocksInv, LocksAgree, Apart
  <2>8. CASE ~isReEvaluation
    <3>1. \A i \in DOMAIN t : ~t[i].locked
      BY <1>1, <2>6, <2>8 DEF LocksInv
    <3>2. Locked(t) = {}
      BY <3>1 DEF Locked
    <3> QED BY <2>5, <2>7, <2>8, <3>2
  <2>9. CASE isReEvaluation
    <3> SUFFICES ASSUME request.legs # <<>>, Cardinality(Ids(lastResponse)) = Len(lastResponse)
                 PROVE  [i \in DOMAIN resultsLegs' |-> resultsLegs'[i].locked]
                          = [i \in DOMAIN resultsLegs |-> resultsLegs[i].locked]
      BY <2>7, <2>9
    <3>1. Apart(lastResponse)
      BY IdsApart DEF SlipInv, LegsAreSeq
    <3>2. /\ LocksAgree /\ Sent(request, resultsLegs)
          /\ \A i \in DOMAIN resultsLegs :
               resultsLegs[i].leg_id = <<resultsLegs[i].entity, resultsLegs[i].bet_type>>
      BY <1>1, <2>9, <3>1 DEF LocksInv, Refining, Sent
    <3>3. /\ DOMAIN e = DOMAIN resultsLegs
          /\ \A i \in DOMAIN resultsLegs :
               e[i].entity = resultsLegs[i].entity /\ e[i].bet_type = resultsLegs[i].bet_type
      BY <2>3, <3>2, AnswerLists
    <3>4. \A i \in DOMAIN resultsLegs : t[i].locked = resultsLegs[i].locked
      BY <2>6, <3>2, <3>3 DEF LocksAgree
    <3> QED BY <2>5, <2>6, <3>3, <3>4
  <2> QED BY <2>8, <2>9
<1> QED BY <1>1, <1>2, <1>3

\* What LocksHold says of a step.
LocksStep ==
  /\ view = "results" /\ Len(resultsLegs') < Len(resultsLegs) /\ resultsLegs' # <<>> =>
       Locked(resultsLegs') = Locked(resultsLegs)
  /\ view = "loading" /\ view' = "results" =>
       IF ~isReEvaluation THEN Locked(resultsLegs') = {}
       ELSE request.legs # <<>> /\ Cardinality(Ids(lastResponse)) = Len(lastResponse) =>
              [i \in DOMAIN resultsLegs' |-> resultsLegs'[i].locked]
                = [i \in DOMAIN resultsLegs |-> resultsLegs[i].locked]

\* A list that stays is no shorter.
LEMMA NoShorter ==
  ASSUME NEW legs, IsSeq(legs)
  PROVE  ~(Len(legs) < Len(legs))
BY DEF IsSeq

\* On the input page nothing is refined, and a fresh evaluation has no lock.
LEMMA LocksInput ==
  ASSUME SlipInv, view' = "input" \/ Submit,
         view # "input" => resultsLegs' \in {resultsLegs, <<>>}
  PROVE  LocksInv' /\ LocksStep
<1>1. LocksInv'
  <2>1. CASE view' = "input"
    BY <2>1 DEF LocksInv, Refining
  <2>2. CASE Submit
    <3>1. view' = "loading" /\ isReEvaluation' = FALSE /\ lockedLegIds' = {}
      BY <2>2 DEF Submit, RunEvaluation
    <3> QED BY <3>1 DEF LocksInv, Refining
  <2> QED BY <2>1, <2>2
<1>2. view' # "results" /\ (Submit => view = "input")
  BY DEF Submit, RunEvaluation
<1>3. ~(Len(resultsLegs) < Len(resultsLegs))
  BY NoShorter DEF SlipInv, LegsAreSeq
<1> QED BY <1>1, <1>2, <1>3 DEF LocksStep

\* The second test sends what the results list.
LEMMA LocksTest ==
  ASSUME SlipInv, LocksInv, ReEvaluateParlay
  PROVE  LocksInv' /\ LocksStep
<1>1. /\ view = "results" /\ view' = "loading" /\ isReEvaluation' = TRUE
      /\ resultsLegs' = resultsLegs /\ lockedLegIds' = lockedLegIds /\ lastResponse' = lastResponse
  BY DEF ReEvaluateParlay, RunEvaluation
<1>2. PICK b : b = [i \in DOMAIN resultsLegs |-> BuilderLeg(resultsLegs[i], resultsLegs[i].bet_type)]
  OBVIOUS
<1>3. builderLegs' = b
  BY <1>2 DEF ReEvaluateParlay, SyncStateFromResults
<1>4. request'.legs \in {b, <<>>}
  BY <1>3 DEF ReEvaluateParlay, RunEvaluation
<1>5. Refining /\ (\A i \in DOMAIN resultsLegs :
            resultsLegs[i].leg_id = <<resultsLegs[i].entity, resultsLegs[i].bet_type>>)
      /\ (Apart(lastResponse) => LocksAgree)
  BY <1>1 DEF LocksInv, Refining
<1>6. LocksInv'
  BY <1>1, <1>2, <1>4, <1>5 DEF LocksInv, LocksAgree, Apart
<1>7. ~(Len(resultsLegs) < Len(resultsLegs))
  BY NoShorter DEF SlipInv, LegsAreSeq
<1> QED BY <1>1, <1>6, <1>7 DEF LocksStep

\* A lock set or taken away concerns the legs of one id.
LEMMA LocksToggle ==
  ASSUME SlipInv, LocksInv, NEW k \in DOMAIN resultsLegs, ToggleLegLock(k)
  PROVE  LocksInv' /\ LocksStep
<1>1. PICK t : t = [resultsLegs EXCEPT ![k].locked = ~@]
  OBVIOUS
<1>2. /\ view = "results" /\ view' = "results" /\ resultsLegs' = t
      /\ lastResponse' = lastResponse
      /\ lockedLegIds' = IF resultsLegs[k].locked THEN lockedLegIds \ {resultsLegs[k].leg_id}
                         ELSE lockedLegIds \cup {resultsLegs[k].leg_id}
  BY <1>1 DEF ToggleLegLock, serverVars
<1>3. /\ DOMAIN t = DOMAIN resultsLegs
      /\ \A i \in DOMAIN resultsLegs : i # k => t[i] = resultsLegs[i]
      /\ t[k] = [resultsLegs[k] EXCEPT !.locked = ~@]
  BY <1>1
<1>4. /\ t[k].entity = resultsLegs[k].entity /\ t[k].bet_type = resultsLegs[k].bet_type
      /\ t[k].leg_id = resultsLegs[k].leg_id
  BY <1>3
<1>5. \A i \in DOMAIN resultsLegs :
        /\ t[i].entity = resultsLegs[i].entity /\ t[i].bet_type = resultsLegs[i].bet_type
        /\ t[i].leg_id = resultsLegs[i].leg_id
  BY <1>3, <1>4
<1>6. /\ \A i \in DOMAIN resultsLegs :
           resultsLegs[i].leg_id = <<resultsLegs[i].entity, resultsLegs[i].bet_type>>
      /\ Apart(lastResponse) => LocksAgree
  BY <1>2 DEF LocksInv, Refining
<1>7. ASSUME Apart(lastResponse)
      PROVE  LocksAgree'
  <2>1. LocksAgree
    BY <1>6, <1>7
  <2>2. Apart(resultsLegs)'
    BY <1>2, <1>3, <1>5, <2>1 DEF LocksAgree, Apart
  <2>3. t[k].locked = (t[k].leg_id \in lockedLegIds')
    BY <1>2, <1>3, <1>4, <2>1 DEF LocksAgree
  <2>4. ASSUME NEW i \in DOMAIN resultsLegs, i # k
        PROVE  t[i].locked = (t[i].leg_id \in lockedLegIds')
    <3>1. resultsLegs[i].leg_id # resultsLegs[k].leg_id
      BY <1>6, <2>1, <2>4 DEF LocksAgree, Apart
    <3> QED BY <1>2, <1>3, <2>1, <2>4, <3>1 DEF LocksAgree
  <2> QED BY <1>2, <1>3, <2>2, <2>3, <2>4 DEF LocksAgree
<1>8. LocksInv'
  BY <1>2, <1>3, <1>5, <1>6, <1>7 DEF LocksInv, Refining
<1>9. ~(Len(t) < Len(resultsLegs))
  <2>1. PICK n \in Nat : resultsLegs = [i \in 1..n |-> resultsLegs[i]]
    BY DEF SlipInv, LegsAreSeq, IsSeq
  <2>2. DOMAIN t = 1..n /\ t = [i \in DOMAIN t |-> t[i]]
    BY <1>1, <2>1
  <2>3. t = [i \in 1..n |-> t[i]]
    BY <2>2
  <2>4. Len(t) = n
    BY <2>3
  <2>5. Len(resultsLegs) = n
    BY <2>1
  <2> QED BY <2>4, <2>5
<1> QED BY <1>2, <1>8, <1>9 DEF LocksStep

\* A leg goes, with what was said of the legs that stay.
LEMMA LocksRemove ==
  ASSUME SlipInv, LocksInv, NEW k \in DOMAIN resultsLegs, RemoveLegFromResults(k)
  PROVE  LocksInv' /\ LocksStep
<1>1. PICK g : g = SelectInSeq(resultsLegs, LAMBDA leg : leg.leg_id = resultsLegs[k].leg_id)
  OBVIOUS
<1>2. IsSeq(resultsLegs) /\ g \in DOMAIN resultsLegs
  BY <1>1, FirstLegIs DEF SlipInv, LegsAreSeq
<1>3. PICK t : t = RemoveAt(resultsLegs, g)
  OBVIOUS
<1>4. /\ view = "results" /\ view' = "results" /\ resultsLegs' = t /\ ~resultsLegs[g].locked
      /\ lastResponse' = lastResponse /\ lockedLegIds' = lockedLegIds
  BY <1>1, <1>3 DEF RemoveLegFromResults, serverVars
<1>5. Locked(t) = Locked(resultsLegs)
  BY <1>2, <1>3, <1>4, RemovalKeepsLocked
<1>6. \E up \in [DOMAIN t -> DOMAIN resultsLegs] :
        /\ \A i \in DOMAIN t : t[i] = resultsLegs[up[i]]
        /\ \A i, j \in DOMAIN t : up[i] = up[j] => i = j
  <2>1. PICK n \in Nat : resultsLegs = [i \in 1..n |-> resultsLegs[i]]
    BY <1>2 DEF IsSeq
  <2>2. PICK S : S = {resultsLegs[i] : i \in 1..n}
    OBVIOUS
  <2>3. resultsLegs \in Seq(S) /\ Len(resultsLegs) = n /\ g \in 1..n /\ DOMAIN resultsLegs = 1..n
    BY <1>2, <2>1, <2>2
  <2>4. t = [i \in 1..(n - 1) |-> IF i < g THEN resultsLegs[i] ELSE resultsLegs[i + 1]]
    BY <1>3, <2>3, RemovedIs
  <2>5. PICK up : up = [i \in 1..(n - 1) |-> IF i < g THEN i ELSE i + 1]
    OBVIOUS
  <2>6. up \in [1..(n - 1) -> 1..n]
    BY <2>3, <2>5
  <2>7. \A i, j \in 1..(n - 1) : up[i] = up[j] => i = j
    BY <2>3, <2>5
  <2>8. \A i \in 1..(n - 1) : t[i] = resultsLegs[up[i]]
    BY <2>4, <2>5
  <2> QED BY <2>3, <2>4, <2>6, <2>7, <2>8
<1>7. PICK up \in [DOMAIN t -> DOMAIN resultsLegs] :
        /\ \A i \in DOMAIN t : t[i] = resultsLegs[up[i]]
        /\ \A i, j \in DOMAIN t : up[i] = up[j] => i = j
  BY <1>6
<1>8. /\ \A i \in DOMAIN resultsLegs :
           resultsLegs[i].leg_id = <<resultsLegs[i].entity, resultsLegs[i].bet_type>>
      /\ Apart(lastResponse) => LocksAgree
  BY <1>4 DEF LocksInv, Refining
<1>9. Apart(resultsLegs) => Apart(t)
  BY <1>7 DEF Apart
<1>10. LocksAgree => \A i \in DOMAIN t : t[i].locked = (t[i].leg_id \in lockedLegIds)
  BY <1>7 DEF LocksAgree
<1>11. \A i \in DOMAIN t : t[i].leg_id = <<t[i].entity, t[i].bet_type>>
  BY <1>7, <1>8
<1>12. LocksInv'
  BY <1>4, <1>8, <1>9, <1>10, <1>11 DEF LocksInv, Refining, LocksAgree, Apart
<1> QED BY <1>4, <1>5, <1>12 DEF LocksStep

LEMMA LocksKept == SlipInv /\ LocksInv /\ [PagesNext]_pagesVars => LocksInv' /\ LocksStep
<1> SUFFICES ASSUME SlipInv, LocksInv, [PagesNext]_pagesVars
             PROVE  LocksInv' /\ LocksStep
    OBVIOUS
<1>1. CASE AppNext
  <2>1. ASSUME (\E p \in DOMAIN Phrases : AddLeg(p)) \/ (\E k \in DOMAIN builderLegs : RemoveLeg(k))
                 \/ SwitchMode \/ (\E text \in TypedTexts : TypeText(text))
        PROVE  LocksInv' /\ LocksStep
    <3>1. view = "input" /\ view' = "input"
      BY <2>1 DEF AddLeg, RemoveLeg, SwitchMode, TypeText
    <3> QED BY <3>1, LocksInput
  <2>2. ASSUME NEW k \in DOMAIN resultsLegs, ToggleLegLock(k) \/ RemoveLegFromResults(k)
        PROVE  LocksInv' /\ LocksStep
    BY <2>2, LocksToggle, LocksRemove
  <2>3. CASE Submit
    <3>1. view = "input"
      BY <2>3 DEF Submit
    <3> QED BY <2>3, <3>1, LocksInput
  <2>4. CASE ReEvaluateParlay
    BY <2>4, LocksTest
  <2>5. CASE AppAnswer
    <3>1. CASE Lost
      <4>1. view' = "input" /\ resultsLegs' = resultsLegs
        BY <3>1 DEF Lost, resultVars
      <4> QED BY <4>1, LocksInput
    <3>2. ASSUME NEW answer \in EvaluateProxy(request), Answered(answer)
          PROVE  LocksInv' /\ LocksStep
      <4>1. view = "loading"
        BY <3>2 DEF Answered
      <4> QED BY <3>2, <4>1, LocksAnswer DEF LocksStep
    <3> QED BY <2>5, <3>1, <3>2 DEF AppAnswer
  <2>6. CASE ResetForm \/ RefineParlay
    <3>1. view' = "input" /\ resultsLegs' \in {resultsLegs, <<>>}
      BY <2>6 DEF ResetForm, RefineParlay, resultVars
    <3> QED BY <3>1, LocksInput
  <2> QED BY <1>1, <2>1, <2>2, <2>3, <2>4, <2>5, <2>6 DEF AppNext
<1>2. CASE UNCHANGED appVars
  <2>1. ~(Len(resultsLegs) < Len(resultsLegs))
    BY NoShorter DEF SlipInv, LegsAreSeq
  <2> QED BY <1>2, <2>1 DEF appVars, LocksInv, Refining, LocksAgree, Apart, LocksStep
<1>3. CASE ReloadApp
  <2>1. view' = "input" /\ resultsLegs' = <<>>
    BY <1>3 DEF ReloadApp
  <2> QED BY <2>1, LocksInput
<1>4. AppNext \/ UNCHANGED appVars \/ ReloadApp
  BY DEF PagesNext, InV1, InPanel, InApp, OpenPage, pagesVars
<1> QED BY <1>1, <1>2, <1>3, <1>4

\* For all phrases, texts and numbers of legs: a lock lasts as long as the slip is
\* refined, and a fresh evaluation starts without one.
THEOREM LocksAlwaysHold == PagesSpec => LocksHold
<1>1. PagesInit => SlipInv /\ LocksInv
  BY SlipStarts DEF PagesInit, AppInit, LocksInv, Refining
<1>2. SlipInv /\ [PagesNext]_pagesVars => SlipInv'
  BY SlipStep
<1>3. SlipInv /\ LocksInv /\ [PagesNext]_pagesVars => LocksInv' /\ LocksStep
  BY LocksKept
<1>4. LocksStep => [LocksStep]_appVars
  OBVIOUS
<1> QED BY <1>1, <1>2, <1>3, <1>4, PTL DEF PagesSpec, LocksHold, LocksStep
=============================================================================
