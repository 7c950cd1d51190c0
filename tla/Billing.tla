------------------------------- MODULE Billing -------------------------------
(***************************************************************************)
(* One organisation's money: the checkout endpoint (api/billing/           *)
(* endpoints.py), Stripe's subscriptions and the events it emits, the six  *)
(* webhook handlers (handlers.py) with the entitlement seeder              *)
(* (entitlement_seeder.py), and the consumption of the quota they grant    *)
(* (core/entitlements.py).                                                 *)
(*                                                                         *)
(* An event carries the subscription as it was when Stripe emitted it, and *)
(* an invoice its lines.  A plan change or metered usage of the period     *)
(* before is a line of that period, and may come first.  Stripe dates      *)
(* every line, so the fall-back to the row's period is not modelled.       *)
(* Events are delivered late, in any order, and as often as Stripe likes;  *)
(* stripe_events lets one delivery through, in one transaction with the    *)
(* handler.  A failed or rolled-back delivery changes nothing and is not a *)
(* step.  Organisations share no row, so one is enough; of the four        *)
(* seeded features only "signals" is metered, and it is the one kept.      *)
(***************************************************************************)
EXTENDS Integers, Sequences, FiniteSets, Functions

CONSTANTS
    Sub,         \* Stripe subscriptions
    PaidTier,    \* tiers with a price in tiers.yaml
    Quota,       \* signals_included of each tier
    Overage,     \* whether the tier has an overage_price
    Expanded,    \* whether a checkout event carries the subscription object
    Period,      \* billing period
    FreePeriod,  \* 30 days
    NoSub,       \* no such subscription, no such row
    MaxTime, MaxEvents, MaxUnits   \* bounds

ASSUME TierAssumption ==
    /\ "free" \notin PaidTier
    /\ Quota \in [PaidTier \cup {"free"} -> Nat]
    /\ Overage \in [PaidTier \cup {"free"} -> BOOLEAN]
ASSUME SubAssumption ==
    /\ IsFiniteSet(Sub) /\ "free" \notin Sub
    /\ NoSub \notin Sub
    /\ NoSub \notin [tier : PaidTier, status : {"active", "past_due", "canceled"},
                     start : 0 .. MaxTime]
ASSUME PayloadAssumption == Expanded \subseteq BOOLEAN
ASSUME BoundAssumption ==
    /\ Period \in Nat \ {0} /\ FreePeriod \in Nat \ {0}
    /\ MaxTime \in Nat /\ MaxEvents \in Nat /\ MaxUnits \in Nat

Tier == PaidTier \cup {"free"}
Status == {"active", "past_due", "canceled"}

\* What Stripe keeps of a subscription, and the row that mirrors it.
Subscription == [tier : PaidTier, status : Status, start : 0 .. MaxTime]

EventType == {"checkout", "created", "updated", "deleted", "paid", "payment_failed"}
\* line: where the period of an invoice's first line starts.
Event == [type : EventType, sub : Sub, snapshot : Subscription, expanded : BOOLEAN,
          line : 0 .. MaxTime]
EventId == 1 .. MaxEvents

\* period_start.  A paid period starts when Stripe says; a free one starts at
\* the instant its event is handled, which no other row shares.
PeriodKey == (Sub \X (0 .. MaxTime)) \cup ({"free"} \X EventId)
Entitlement == [included : Nat, remaining : Int, overage : BOOLEAN, end : Nat]

ASSUME RowAssumption == NoSub \notin Entitlement

VARIABLES
    now,
    checkout,     \* subscriptions whose Checkout Session is open
    customer,     \* [Sub -> Sub \cup {NoSub}]: its Stripe customer, named after
                  \* the first subscription bought under it
    stripe,       \* Stripe's subscriptions
    sent,         \* the events Stripe has emitted, in its order
    processed,    \* stripe_events
    orgCustomer,  \* organizations.stripe_customer_id
    orgTier,      \* organizations.tier
    subs,         \* subscriptions
    ents,         \* entitlements
    included,     \* units served without an overage event
    overage,      \* usage_events rows
    grants,       \* history: what each event granted
    inOrder       \* history: this subscription's events were applied in order

stripeVars == <<checkout, customer, stripe, sent>>
bookVars == <<orgCustomer, orgTier, subs, ents, grants>>
vars == <<now, stripeVars, processed, bookVars, included, overage, inOrder>>

TypeOK ==
    /\ now \in 0 .. MaxTime
    /\ checkout \subseteq Sub
    /\ customer \in [Sub -> Sub \cup {NoSub}]
    /\ stripe \in [Sub -> Subscription \cup {NoSub}]
    /\ sent \in Seq(Event) /\ Len(sent) <= MaxEvents
    /\ processed \subseteq DOMAIN sent
    /\ orgCustomer \in Sub \cup {NoSub}
    /\ orgTier \in Tier
    /\ subs \in [Sub -> Subscription \cup {NoSub}]
    /\ ents \in [PeriodKey -> Entitlement \cup {NoSub}]
    /\ included \in Nat /\ overage \in Nat
    /\ grants \in [EventId -> Nat]
    /\ inOrder \in [Sub -> BOOLEAN]

\* An organisation signs up on the free tier, with no entitlements row.
Init ==
    /\ now = 0
    /\ checkout = {}
    /\ customer = [s \in Sub |-> NoSub]
    /\ stripe = [s \in Sub |-> NoSub]
    /\ sent = << >>
    /\ processed = {}
    /\ orgCustomer = NoSub
    /\ orgTier = "free"
    /\ subs = [s \in Sub |-> NoSub]
    /\ ents = [k \in PeriodKey |-> NoSub]
    /\ included = 0
    /\ overage = 0
    /\ grants = [i \in EventId |-> 0]
    /\ inOrder = [s \in Sub |-> TRUE]

-----------------------------------------------------------------------------
(* Checkout and Stripe.                                                    *)

\* _has_blocking_subscription
Blocked == \E s \in Sub : subs[s] # NoSub /\ subs[s].status \in {"active", "past_due"}

\* POST /checkout: the check reads the local rows, the session lives at Stripe.
StartCheckout(s) ==
    /\ customer[s] = NoSub
    /\ ~Blocked
    /\ checkout' = checkout \cup {s}
    /\ customer' = [customer EXCEPT ![s] = IF orgCustomer = NoSub THEN s ELSE orgCustomer]
    /\ UNCHANGED <<now, stripe, sent, processed, bookVars, included, overage, inOrder>>

\* Stripe changes subscription s to x and emits events of the given types.
Emits(s, x, types, exp, line) ==
    /\ Len(sent) + Len(types) <= MaxEvents
    /\ stripe' = [stripe EXCEPT ![s] = x]
    /\ sent' = sent \o [n \in DOMAIN types |->
                 [type |-> types[n], sub |-> s, snapshot |-> x, expanded |-> exp,
                  line |-> line]]
    /\ UNCHANGED <<now, customer, processed, bookVars, included, overage, inOrder>>

CompleteCheckout(s, tier, exp) ==
    /\ s \in checkout
    /\ checkout' = checkout \ {s}
    /\ Emits(s, [tier |-> tier, status |-> "active", start |-> now],
             <<"checkout", "created", "paid">>, exp, now)

Live(s) == stripe[s] # NoSub /\ stripe[s].status # "canceled"
PeriodOver(s) == now >= stripe[s].start + Period

ChangePlan(s, tier) ==
    /\ Live(s)
    /\ stripe[s].tier # tier
    /\ Emits(s, [stripe[s] EXCEPT !.tier = tier], <<"updated">>, FALSE, stripe[s].start)
    /\ UNCHANGED checkout

\* The first line of a renewal's invoice is of the new period, or of the old one
\* from its start or from a plan change in it.
Renew(s, line) ==
    /\ Live(s) /\ PeriodOver(s)
    /\ line \in stripe[s].start .. now
    /\ Emits(s, [stripe[s] EXCEPT !.status = "active", !.start = now],
             <<"updated", "paid">>, FALSE, line)
    /\ UNCHANGED checkout

PaymentFails(s, line) ==
    /\ Live(s) /\ PeriodOver(s)
    /\ line \in stripe[s].start .. now
    /\ Emits(s, [stripe[s] EXCEPT !.status = "past_due", !.start = now],
             <<"updated", "payment_failed">>, FALSE, line)
    /\ UNCHANGED checkout

\* A failed invoice is paid after all.
PaymentRecovers(s, n) ==
    /\ Live(s) /\ stripe[s].status = "past_due"
    /\ sent[n].sub = s /\ sent[n].type = "payment_failed"
    /\ Emits(s, [stripe[s] EXCEPT !.status = "active"], <<"updated", "paid">>, FALSE,
             sent[n].line)
    /\ UNCHANGED checkout

Cancel(s) ==
    /\ Live(s)
    /\ Emits(s, [stripe[s] EXCEPT !.status = "canceled"], <<"deleted">>, FALSE, stripe[s].start)
    /\ UNCHANGED checkout

-----------------------------------------------------------------------------
(* The handlers.  Each runs in the transaction of its event i.             *)

KnownCustomer(e) == orgCustomer # NoSub /\ orgCustomer = customer[e.sub]

\* seed_entitlements: the row is reset to the tier's quota, new or not.
Seed(i, tier, key, end) ==
    /\ ents' = [ents EXCEPT ![key] = [included |-> Quota[tier], remaining |-> Quota[tier],
                                      overage |-> Overage[tier], end |-> end]]
    /\ orgTier' = tier
    /\ grants' = [grants EXCEPT ![i] = Quota[tier]]

SeedPaid(i, tier, s, start) == Seed(i, tier, <<s, start>>, start + Period)

\* Fault: DO UPDATE SET forgets current_period_start.
Upsert_KeepsPeriod(e) ==
    subs' = [subs EXCEPT ![e.sub] =
                IF @ = NoSub THEN e.snapshot ELSE [e.snapshot EXCEPT !.start = subs[e.sub].start]]

Upsert(e) == subs' = [subs EXCEPT ![e.sub] = e.snapshot]

CheckoutCompleted(i, e) ==
    /\ orgCustomer' = IF orgCustomer = NoSub THEN customer[e.sub] ELSE orgCustomer
    /\ \/ /\ e.expanded
          /\ Upsert(e)
          /\ SeedPaid(i, e.snapshot.tier, e.sub, e.snapshot.start)
       \/ /\ ~e.expanded
          /\ UNCHANGED <<orgTier, subs, ents, grants>>

PreviousTier(e) == IF subs[e.sub] = NoSub THEN "none" ELSE subs[e.sub].tier

\* Fault: a new tier is written to the row, the quota is left as it was.
SubscriptionUpdated_NoReseed(i, e) ==
    /\ KnownCustomer(e)
    /\ Upsert(e)
    /\ \/ /\ PreviousTier(e) = "none"
          /\ SeedPaid(i, e.snapshot.tier, e.sub, e.snapshot.start)
       \/ /\ PreviousTier(e) # "none"
          /\ UNCHANGED <<orgTier, ents, grants>>
    /\ UNCHANGED orgCustomer

SubscriptionUpdated(i, e) ==
    /\ KnownCustomer(e)
    /\ Upsert(e)
    /\ \/ /\ PreviousTier(e) # e.snapshot.tier
          /\ SeedPaid(i, e.snapshot.tier, e.sub, e.snapshot.start)
       \/ /\ PreviousTier(e) = e.snapshot.tier
          /\ UNCHANGED <<orgTier, ents, grants>>
    /\ UNCHANGED orgCustomer

\* The subscription's own entitlements row is left to expire.
SubscriptionDeleted(i, e) ==
    /\ KnownCustomer(e)
    /\ subs' = IF subs[e.sub] = NoSub THEN subs
               ELSE [subs EXCEPT ![e.sub].status = "canceled"]
    /\ Seed(i, "free", <<"free", i>>, now + FreePeriod)
    /\ UNCHANGED orgCustomer

\* The end of the first line's period: a line of the period before ends with it.
LineEnd(e) == IF e.line = e.snapshot.start THEN e.line + Period ELSE e.snapshot.start

\* The tier comes from the row, the period from the invoice's first line.
InvoicePaid(i, e) ==
    /\ KnownCustomer(e) /\ subs[e.sub] # NoSub
    /\ Seed(i, subs[e.sub].tier, <<e.sub, e.line>>, LineEnd(e))
    /\ UNCHANGED <<orgCustomer, subs>>

\* Fault: a failed payment is taken for the end of the subscription.
PaymentFailed_Cancels(e) ==
    /\ subs[e.sub] # NoSub
    /\ subs' = [subs EXCEPT ![e.sub].status = "canceled"]
    /\ UNCHANGED <<orgCustomer, orgTier, ents, grants>>

PaymentFailed(e) ==
    /\ subs[e.sub] # NoSub
    /\ subs' = [subs EXCEPT ![e.sub].status = "past_due"]
    /\ UNCHANGED <<orgCustomer, orgTier, ents, grants>>

\* A handler that finds no customer or no row has nothing to change; the event
\* counts as processed all the same.
Deferred(e) ==
    /\ \/ e.type \in {"created", "updated", "deleted"} /\ ~KnownCustomer(e)
       \/ e.type = "paid" /\ ~(KnownCustomer(e) /\ subs[e.sub] # NoSub)
       \/ e.type = "payment_failed" /\ subs[e.sub] = NoSub
    /\ UNCHANGED bookVars

Handle(i, e) ==
    \/ e.type = "checkout" /\ CheckoutCompleted(i, e)
    \/ e.type \in {"created", "updated"} /\ SubscriptionUpdated(i, e)
    \/ e.type = "deleted" /\ SubscriptionDeleted(i, e)
    \/ e.type = "paid" /\ InvoicePaid(i, e)
    \/ e.type = "payment_failed" /\ PaymentFailed(e)
    \/ Deferred(e)

\* Events that say something of the subscription.
Tells(e) == e.type # "checkout" \/ e.expanded

\* History: e is applied after everything Stripe emitted before it and nothing
\* emitted after it, and finds its customer.
AppliedInOrder(i, e) ==
    Tells(e) => /\ e.type = "checkout" \/ KnownCustomer(e)
                /\ \A j \in processed : sent[j].sub = e.sub /\ Tells(sent[j]) => j < i

\* Fault: the insert into stripe_events is not checked.
FirstSeen_Always(i) == TRUE

\* _insert_event_if_new
FirstSeen(i) == i \notin processed

\* POST /webhook
Deliver(i) ==
    /\ i \in DOMAIN sent
    /\ FirstSeen(i)
    /\ processed' = processed \cup {i}
    /\ Handle(i, sent[i])
    /\ inOrder' = [inOrder EXCEPT ![sent[i].sub] = @ /\ AppliedInOrder(i, sent[i])]
    /\ UNCHANGED <<now, stripeVars, included, overage>>

-----------------------------------------------------------------------------
(* Consumption, one unit at a time.                                        *)

Open(k) ==
    /\ ents[k] # NoSub
    /\ ents[k].end > now
    /\ ents[k].remaining >= 1 \/ ents[k].overage

\* One UPDATE over every open row; whichever row RETURNING yields first decides
\* whether the unit is overage.
Consume(k) ==
    /\ included + overage < MaxUnits
    /\ Open(k)
    /\ ents' = [x \in PeriodKey |->
                 IF Open(x) THEN [ents[x] EXCEPT !.remaining = @ - 1] ELSE ents[x]]
    /\ IF ents'[k].remaining < 0 /\ ents[k].overage
       THEN overage' = overage + 1 /\ UNCHANGED included
       ELSE included' = included + 1 /\ UNCHANGED overage
    /\ UNCHANGED <<now, stripeVars, processed, orgCustomer, orgTier, subs, grants, inOrder>>

Tick ==
    /\ now < MaxTime
    /\ now' = now + 1
    /\ UNCHANGED <<stripeVars, processed, bookVars, included, overage, inOrder>>

Next ==
    \/ \E s \in Sub : StartCheckout(s)
    \/ \E s \in Sub, t \in PaidTier, x \in Expanded : CompleteCheckout(s, t, x)
    \/ \E s \in Sub, t \in PaidTier : ChangePlan(s, t)
    \/ \E s \in Sub, l \in 0 .. MaxTime : Renew(s, l)
    \/ \E s \in Sub, l \in 0 .. MaxTime : PaymentFails(s, l)
    \/ \E s \in Sub, n \in DOMAIN sent : PaymentRecovers(s, n)
    \/ \E s \in Sub : Cancel(s)
    \/ \E i \in EventId : Deliver(i)
    \/ \E k \in PeriodKey : Consume(k)
    \/ Tick

Spec == Init /\ [][Next]_vars

-----------------------------------------------------------------------------
(* Properties.                                                             *)

\* However often events are delivered and however many requests consume at
\* once, what is served within the quota never exceeds what distinct events
\* have granted.
NoOversell == included <= SumFunction(grants)

AllApplied(s) == \A i \in DOMAIN sent : sent[i].sub = s => i \in processed

\* A subscription whose events were applied in Stripe's order, and to the end,
\* is mirrored exactly.
BooksAgree ==
    \A s \in Sub : stripe[s] # NoSub /\ inOrder[s] /\ AllApplied(s) => subs[s] = stripe[s]

\* Some invoice paid for the current period begins with a line of another one.
Misdated(s) ==
    \E i \in DOMAIN sent :
        /\ sent[i].sub = s /\ sent[i].type = "paid"
        /\ sent[i].snapshot.start = stripe[s].start /\ sent[i].line # stripe[s].start

\* ... and while it is active its current period has the tier's quota, provided that
\* the invoices paid for it begin with a line of it.
PaidPeriodEntitled ==
    \A s \in Sub :
        Live(s) /\ stripe[s].status = "active" /\ inOrder[s] /\ AllApplied(s) /\ ~Misdated(s)
        =>
        /\ ents[<<s, stripe[s].start>>] # NoSub
        /\ ents[<<s, stripe[s].start>>].included = Quota[stripe[s].tier]

\* Whatever the order, the row is not invented: its plan and period are those of
\* an event applied to it, and it is canceled only if Stripe canceled it.
BooksFromStripe ==
    \A s \in Sub : subs[s] # NoSub =>
        /\ \E i \in processed :
              /\ sent[i].sub = s
              /\ sent[i].snapshot.tier = subs[s].tier
              /\ sent[i].snapshot.start = subs[s].start
        /\ subs[s].status = "canceled" => stripe[s].status = "canceled"
=============================================================================
