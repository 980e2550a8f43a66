-------------------------------- MODULE Billing --------------------------------
(***************************************************************************)
(* Subscriptions: the users table (tier, customer, subscription) against   *)
(* Stripe's own state, joined by the checkout route and by the webhook.    *)
(*                                                                         *)
(* Stripe is external: a checkout session becomes a subscription when it   *)
(* is paid, its payments may fail and recover, it may be cancelled; each   *)
(* of the three events billing/webhooks.py handles is put in a log and     *)
(* delivered at least once, until the webhook answers 200.  A handler      *)
(* makes one UPDATE, so handling an event is one step.                     *)
(***************************************************************************)
EXTENDS Integers, Sequences

CONSTANTS
  Users,
  Subs,           \* ids of checkout sessions, and of the subscriptions they become
  NULL,           \* SQL NULL
  MaxDuplicates,  \* bound: redeliveries of events answered with 200
  MaxFailures,    \* bound: deliveries during which the UPDATE raises
  MaxEvents       \* bound: length of Stripe's log

ASSUME BillingAssumption ==
  /\ MaxDuplicates \in Nat /\ MaxFailures \in Nat /\ MaxEvents \in Nat
  /\ NULL \notin Users \cup Subs

PaidTiers == {"GOOD", "BEST"}   \* BETTER cannot be bought
Kinds  == {"checkout.session.completed", "customer.subscription.deleted",
           "invoice.payment_failed"}
Status == {"none", "open", "active", "past_due", "canceled"}
Paid   == {"active", "past_due", "canceled"}

VARIABLES
  user,       \* the users table
  stripe,     \* Stripe's sessions and subscriptions
  events,     \* Stripe's log of the events this application handles
  tried,      \* events delivered at least once
  acked,      \* events answered with 200
  duplicates, \* redeliveries so far
  failures,   \* UPDATEs that raised so far
  orderly     \* a behaviour's weather: every event is delivered once, in order

billingVars == <<user, stripe, events, tried, acked, duplicates, failures, orderly>>

\* A customer is named after the session whose completion created it.
UserRow == [tier : PaidTiers, customer : Subs \cup {NULL}, sub : Subs \cup {NULL}]
StripeRow == [status : Status, owner : Users \cup {NULL}, customer : Subs \cup {NULL}]
Event == [kind : Kinds, sub : Subs]

BillingInit ==
  /\ user = [u \in Users |-> [tier |-> "GOOD", customer |-> NULL, sub |-> NULL]]
  /\ stripe = [s \in Subs |-> [status |-> "none", owner |-> NULL, customer |-> NULL]]
  /\ events = <<>> /\ tried = {} /\ acked = {}
  /\ duplicates = 0 /\ failures = 0
  /\ orderly \in BOOLEAN

-----------------------------------------------------------------------------
(* The user and Stripe.                                                    *)

Emit(kind, s) ==
  /\ Len(events) < MaxEvents
  /\ events' = Append(events, [kind |-> kind, sub |-> s])
  /\ UNCHANGED <<user, tried, acked, duplicates, failures, orderly>>

SetStatus(s, status) == stripe' = [stripe EXCEPT ![s].status = status]

\* POST /app/billing/checkout and create_checkout_session: refused for a BEST
\* user; the session's metadata names the user, and the customer is the one
\* the user already has, else Stripe creates one.
CreateCheckout(u, s) ==
  /\ stripe[s].status = "none"
  /\ user[u].tier # "BEST"
  /\ stripe' = [stripe EXCEPT ![s] =
                  [status |-> "open", owner |-> u,
                   customer |-> IF user[u].customer # NULL THEN user[u].customer ELSE s]]
  /\ UNCHANGED <<user, events, tried, acked, duplicates, failures, orderly>>

\* A subscription made in Stripe's dashboard: its metadata names no user and
\* no checkout completes.
DashboardSubscription(s) ==
  /\ stripe[s].status = "none"
  /\ stripe' = [stripe EXCEPT ![s].status = "active", ![s].customer = s]
  /\ UNCHANGED <<user, events, tried, acked, duplicates, failures, orderly>>

Pay(s) ==
  /\ stripe[s].status = "open"
  /\ SetStatus(s, "active")
  /\ Emit("checkout.session.completed", s)

PaymentFails(s) ==
  /\ stripe[s].status \in {"active", "past_due"}
  /\ SetStatus(s, "past_due")
  /\ Emit("invoice.payment_failed", s)

\* A later attempt of Stripe succeeds: an event nobody handles.
PaymentRecovers(s) ==
  /\ stripe[s].status = "past_due"
  /\ SetStatus(s, "active")
  /\ UNCHANGED <<user, events, tried, acked, duplicates, failures, orderly>>

\* The user cancels in the portal, or Stripe after the last failed payment.
Cancel(s) ==
  /\ stripe[s].status \in {"active", "past_due"}
  /\ SetStatus(s, "canceled")
  /\ Emit("customer.subscription.deleted", s)

-----------------------------------------------------------------------------
(* The webhook.                                                            *)

\* _find_user_by_subscription
FindUserBySubscription(s) ==
  IF \E u \in Users : user[u].sub = s
  THEN CHOOSE u \in Users : user[u].sub = s
  ELSE NULL

\* Whom an event concerns: the user its metadata names; an invoice has none,
\* and a deleted subscription may have none.
Concerned(e) ==
  IF e.kind # "invoice.payment_failed" /\ stripe[e.sub].owner # NULL
  THEN stripe[e.sub].owner
  ELSE FindUserBySubscription(e.sub)

\* Mutant: a payment failure is left to Stripe's retries.
MutGracePeriod(u, e) ==
  CASE e.kind = "checkout.session.completed" ->
         [tier |-> "BEST", customer |-> stripe[e.sub].customer, sub |-> e.sub]
    [] e.kind = "customer.subscription.deleted" ->
         [user[u] EXCEPT !.tier = "GOOD", !.sub = NULL]
    [] e.kind = "invoice.payment_failed" -> user[u]

\* Mutant: a known customer is kept.
MutKeepCustomer(u, e) ==
  CASE e.kind = "checkout.session.completed" ->
         [tier |-> "BEST", sub |-> e.sub,
          customer |-> IF user[u].customer # NULL THEN user[u].customer
                       ELSE stripe[e.sub].customer]
    [] e.kind = "customer.subscription.deleted" ->
         [user[u] EXCEPT !.tier = "GOOD", !.sub = NULL]
    [] e.kind = "invoice.payment_failed" -> [user[u] EXCEPT !.tier = "GOOD"]

\* Mutant: "" does not become NULL but "no change", as None does.
MutKeepSubscription(u, e) ==
  CASE e.kind = "checkout.session.completed" ->
         [tier |-> "BEST", customer |-> stripe[e.sub].customer, sub |-> e.sub]
    [] OTHER -> [user[u] EXCEPT !.tier = "GOOD"]

\* Mutant: every handler but the checkout's clears the subscription, and only it.
MutKeepTier(u, e) ==
  CASE e.kind = "checkout.session.completed" ->
         [tier |-> "BEST", customer |-> stripe[e.sub].customer, sub |-> e.sub]
    [] OTHER -> [user[u] EXCEPT !.sub = NULL]

\* The row after handle_checkout_completed, handle_subscription_deleted (it
\* never compares the subscription with the recorded one) and
\* handle_payment_failed.
UpdateUserSubscription(u, e) ==
  CASE e.kind = "checkout.session.completed" ->
         [tier |-> "BEST", customer |-> stripe[e.sub].customer, sub |-> e.sub]
    [] e.kind = "customer.subscription.deleted" ->
         [user[u] EXCEPT !.tier = "GOOD", !.sub = NULL]
    [] e.kind = "invoice.payment_failed" -> [user[u] EXCEPT !.tier = "GOOD"]

\* process_webhook_event: without a user it answers 500, and the event stays
\* to be delivered again.
ProcessWebhookEvent(i) ==
  LET u == Concerned(events[i]) IN
  /\ IF u = NULL THEN UNCHANGED <<user, acked>>
     ELSE /\ user' = [user EXCEPT ![u] = UpdateUserSubscription(u, events[i])]
          /\ acked' = acked \cup {i}
  /\ tried' = tried \cup {i}

Delivered(i) == i \in DOMAIN events \ acked /\ (orderly => 1..(i-1) \subseteq tried)

Deliver(i) ==
  /\ Delivered(i)
  /\ ProcessWebhookEvent(i)
  /\ UNCHANGED <<stripe, events, duplicates, failures, orderly>>

Redeliver(i) ==
  /\ ~orderly /\ i \in acked /\ duplicates < MaxDuplicates
  /\ duplicates' = duplicates + 1
  /\ ProcessWebhookEvent(i)
  /\ UNCHANGED <<stripe, events, failures, orderly>>

\* Mutant: the exception is logged and the event acknowledged all the same.
MutSwallow(i) ==
  /\ ~orderly /\ Delivered(i) /\ Concerned(events[i]) # NULL
  /\ failures < MaxFailures
  /\ failures' = failures + 1
  /\ tried' = tried \cup {i} /\ acked' = acked \cup {i}
  /\ UNCHANGED <<user, stripe, events, duplicates, orderly>>

\* The UPDATE raises (a locked database): 500, nothing written.
DeliverAndFail(i) ==
  /\ ~orderly /\ Delivered(i) /\ Concerned(events[i]) # NULL
  /\ failures < MaxFailures
  /\ failures' = failures + 1
  /\ tried' = tried \cup {i}
  /\ UNCHANGED <<user, stripe, events, acked, duplicates, orderly>>

BillingNext ==
  \/ \E u \in Users, s \in Subs : CreateCheckout(u, s)
  \/ \E s \in Subs : \/ DashboardSubscription(s)
                     \/ Pay(s)
                     \/ PaymentFails(s)
                     \/ PaymentRecovers(s)
                     \/ Cancel(s)
  \/ \E i \in 1..MaxEvents : Deliver(i) \/ Redeliver(i) \/ DeliverAndFail(i)

BillingSpec == BillingInit /\ [][BillingNext]_billingVars

\* Stripe keeps delivering an event until it is acknowledged.
Delivery == \A i \in 1..MaxEvents : WF_billingVars(Deliver(i))

FairBillingSpec == BillingSpec /\ Delivery

-----------------------------------------------------------------------------
(* Properties.                                                             *)

\* The rows and the log are well formed, and only tried events are answered.
BillingTypeOK ==
  /\ user \in [Users -> UserRow]
  /\ stripe \in [Subs -> StripeRow]
  /\ events \in Seq(Event)
  /\ tried \subseteq DOMAIN events /\ acked \subseteq tried
  /\ duplicates \in 0..MaxDuplicates /\ failures \in 0..MaxFailures
  /\ orderly \in BOOLEAN

\* Nobody has BEST without having bought it: in every order of events, with
\* duplicates and failures, a BEST user has a subscription on record, which
\* this user, and nobody else, paid for.
BestIsBought == \A u \in Users :
  user[u].tier = "BEST" =>
    /\ user[u].sub # NULL
    /\ stripe[user[u].sub].owner = u /\ stripe[user[u].sub].status \in Paid

\* The customer on record is the one that pays the subscription on record, so
\* the portal of get_customer_portal_url shows that subscription, and a
\* subscription is on record for its owner alone.
PortalShowsSubscription == \A u \in Users :
  user[u].sub # NULL => /\ user[u].customer = stripe[user[u].sub].customer
                        /\ stripe[user[u].sub].owner = u

\* No event is left that would change the user's row.
Settled(u) == \A i \in DOMAIN events \ acked : Concerned(events[i]) # u

\* In order, once the events about a user are handled, BEST means a subscription whose
\* last payment did not fail (UpdateUserSubscription and the order of events).
BestIsPaid == \A u \in Users :
  orderly /\ Settled(u) /\ user[u].tier = "BEST" => stripe[user[u].sub].status = "active"

\* In order, once the events about a user are handled, the subscription on
\* record is not a cancelled one: User.stripe_subscription_id is "Active Stripe
\* subscription ID".
RecordedIsLive == \A u \in Users :
  orderly /\ Settled(u) /\ user[u].sub # NULL => stripe[user[u].sub].status # "canceled"

\* In order, once the events about a user are handled, a user with an active
\* subscription has one on record: has_active_subscription is "Check if user
\* has an active Stripe subscription".
ActiveIsRecorded == \A u \in Users :
  orderly /\ Settled(u) /\ (\E s \in Subs : stripe[s].owner = u /\ stripe[s].status = "active")
    => user[u].sub # NULL

\* A completed checkout gives its user BEST and is recorded, whatever order,
\* duplicate or failure comes first: the webhook answers 500 until it is done.
PaymentsTakeEffect == \A s \in Subs, u \in Users :
  (stripe[s].owner = u /\ \E i \in DOMAIN events \ acked :
     events[i] = [kind |-> "checkout.session.completed", sub |-> s])
    ~> user[u].tier = "BEST" /\ user[u].sub = s

\* With events in order, a user who cancelled everything and has no session
\* open ends up GOOD, or opens another session.
CancellationsTakeEffect == \A u \in Users :
  (orderly /\ \A s \in Subs : stripe[s].owner = u => stripe[s].status = "canceled")
    ~> \/ user[u].tier = "GOOD"
       \/ \E s \in Subs : stripe[s].owner = u /\ stripe[s].status # "canceled"
=============================================================================
