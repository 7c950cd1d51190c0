--------------------------- MODULE Billing_proofs ---------------------------
(***************************************************************************)
(* Proofs about what an organisation is entitled to and what it is billed. *)
(* Billing: for every number of subscriptions, tiers and events, in        *)
(* whatever order they are delivered.  Metering: for any number of runs of *)
(* the job, rows, quantities and items, any length of the hour and any     *)
(* safety window.                                                          *)
(***************************************************************************)
EXTENDS Billing, Metering, Sums, TLAPS

\* Stripe never reuses a subscription: nothing was emitted for one that was not
\* bought, and an open session has not bought its subscription yet.
NothingBeforePurchase ==
    /\ \A s \in Sub : s \in checkout \/ customer[s] = NoSub => stripe[s] = NoSub
    /\ \A s \in checkout : customer[s] # NoSub
    /\ \A i \in DOMAIN sent : stripe[sent[i].sub] # NoSub

\* An event that tells of the end is emitted at the end, which is final.
EndIsFinal ==
    \A i \in DOMAIN sent :
        sent[i].type = "deleted" \/ sent[i].snapshot.status = "canceled"
            => stripe[sent[i].sub].status = "canceled"

IInv ==
    /\ TypeOK
    /\ NothingBeforePurchase
    /\ EndIsFinal
    /\ BooksFromStripe

-----------------------------------------------------------------------------
(* What Stripe's steps do to the sequence of events.                       *)

\* The event log stays one.
LEMMA Emitted ==
    ASSUME TypeOK, NEW s \in Sub, NEW x \in Subscription,
           NEW types \in Seq(EventType), NEW exp \in BOOLEAN, NEW line \in 0 .. MaxTime,
           Emits(s, x, types, exp, line)
    PROVE  /\ sent' \in Seq(Event)
           /\ Len(sent') <= MaxEvents
           /\ DOMAIN sent \subseteq DOMAIN sent'
           /\ \A i \in DOMAIN sent : sent'[i] = sent[i]
           /\ \A i \in DOMAIN sent' \ DOMAIN sent :
                 /\ sent'[i].sub = s
                 /\ sent'[i].snapshot = x
                 /\ \E n \in DOMAIN types : sent'[i].type = types[n]
<1> DEFINE new == [n \in DOMAIN types |->
               [type |-> types[n], sub |-> s, snapshot |-> x,
                expanded |-> exp, line |-> line]]
<1>1. new \in Seq(Event) /\ Len(new) = Len(types) /\ DOMAIN new = DOMAIN types
  <2>1. \A n \in DOMAIN types : new[n] \in Event
    BY DEF Event
  <2>2. DOMAIN types = 1 .. Len(types) /\ Len(types) \in Nat
    OBVIOUS
  <2>3. QED
    BY <2>1, <2>2
<1>2. sent \in Seq(Event)
  BY DEF TypeOK
<1>3. sent' = sent \o new
  BY DEF Emits
<1>4. sent' \in Seq(Event) /\ Len(sent') = Len(sent) + Len(new)
  BY <1>1, <1>2, <1>3
<1>5. Len(sent') <= MaxEvents
  BY <1>1, <1>4 DEF Emits
<1>6. /\ DOMAIN sent = 1 .. Len(sent) /\ DOMAIN sent' = 1 .. Len(sent')
      /\ \A i \in 1 .. Len(sent) : sent'[i] = sent[i]
      /\ \A i \in Len(sent) + 1 .. Len(sent') : sent'[i] = new[i - Len(sent)]
  BY <1>1, <1>2, <1>3, <1>4
<1>7. ASSUME NEW i \in DOMAIN sent' \ DOMAIN sent
      PROVE  /\ sent'[i].sub = s
             /\ sent'[i].snapshot = x
             /\ \E n \in DOMAIN types : sent'[i].type = types[n]
  <2>1. i \in Len(sent) + 1 .. Len(sent') /\ i - Len(sent) \in DOMAIN types
    BY <1>1, <1>2, <1>4, <1>6
  <2>2. sent'[i] = [type |-> types[i - Len(sent)], sub |-> s, snapshot |-> x,
                    expanded |-> exp, line |-> line]
    BY <1>6, <2>1
  <2>3. QED
    BY <2>1, <2>2
<1>8. QED
  BY <1>4, <1>5, <1>6, <1>7

\* Anything Stripe does to a subscription that is not over, or to a new one,
\* keeps the invariant.
LEMMA EmitsKeeps ==
    ASSUME IInv, NEW s \in Sub, NEW x \in Subscription,
           NEW types \in Seq(EventType), NEW exp \in BOOLEAN, NEW line \in 0 .. MaxTime,
           Emits(s, x, types, exp, line),
           stripe[s] = NoSub \/ stripe[s].status # "canceled",
           x.status = "canceled" \/ \A n \in DOMAIN types : types[n] # "deleted",
           checkout' \subseteq checkout \ {s},
           s \in checkout \/ stripe[s] # NoSub
    PROVE  IInv'
<1>0. TypeOK /\ NothingBeforePurchase /\ EndIsFinal /\ BooksFromStripe
  BY DEF IInv
<1>1. /\ sent' \in Seq(Event)
      /\ Len(sent') <= MaxEvents
      /\ DOMAIN sent \subseteq DOMAIN sent'
      /\ \A i \in DOMAIN sent : sent'[i] = sent[i]
      /\ \A i \in DOMAIN sent' \ DOMAIN sent :
            /\ sent'[i].sub = s
            /\ sent'[i].snapshot = x
            /\ \E n \in DOMAIN types : sent'[i].type = types[n]
  BY <1>0, Emitted
<1>2. /\ stripe' = [stripe EXCEPT ![s] = x]
      /\ UNCHANGED <<now, customer, processed, bookVars, included, overage, inOrder>>
  BY DEF Emits
<1>3. x # NoSub
  BY SubAssumption DEF Subscription, Status
<1>4. stripe' \in [Sub -> Subscription \cup {NoSub}] /\ stripe'[s] = x
      /\ \A r \in Sub : r # s => stripe'[r] = stripe[r]
  BY <1>0, <1>2 DEF TypeOK
<1>5. TypeOK'
  BY <1>0, <1>1, <1>2, <1>4 DEF TypeOK, bookVars
<1>6. ASSUME NEW i \in DOMAIN sent PROVE sent[i].sub \in Sub
  <2>1. sent[i] \in Event
    BY <1>0 DEF TypeOK
  <2>2. QED
    BY <2>1 DEF Event
<1>7. NothingBeforePurchase'
  <2>1. customer[s] # NoSub
    BY <1>0, SubAssumption DEF NothingBeforePurchase, IInv
  <2>2. \A r \in Sub : r \in checkout' \/ customer'[r] = NoSub => stripe'[r] = NoSub
    BY <1>0, <1>2, <1>4, <2>1 DEF NothingBeforePurchase
  <2>3. \A i \in DOMAIN sent' : stripe'[sent'[i].sub] # NoSub
    BY <1>0, <1>1, <1>3, <1>4, <1>6 DEF NothingBeforePurchase
  <2>4. \A r \in checkout' : customer'[r] # NoSub
    BY <1>0, <1>2 DEF NothingBeforePurchase
  <2>5. QED
    BY <2>2, <2>3, <2>4 DEF NothingBeforePurchase
<1>8. EndIsFinal'
  <2>1. ASSUME NEW i \in DOMAIN sent,
               sent[i].type = "deleted" \/ sent[i].snapshot.status = "canceled"
        PROVE  stripe'[sent[i].sub].status = "canceled"
    BY <1>0, <1>4, <1>6, <2>1 DEF EndIsFinal, NothingBeforePurchase
  <2>2. ASSUME NEW i \in DOMAIN sent' \ DOMAIN sent,
               sent'[i].type = "deleted" \/ sent'[i].snapshot.status = "canceled"
        PROVE  stripe'[sent'[i].sub].status = "canceled"
    BY <1>1, <1>4, <2>2
  <2>3. QED
    BY <1>1, <2>1, <2>2 DEF EndIsFinal
<1>9. BooksFromStripe'
  <2>1. processed \subseteq DOMAIN sent /\ processed' = processed /\ subs' = subs
    BY <1>0, <1>2 DEF TypeOK, bookVars
  <2>2. \A r \in Sub : stripe[r] # NoSub /\ stripe[r].status = "canceled"
            => stripe'[r].status = "canceled"
    BY <1>4
  <2>3. \A r \in Sub : subs[r] # NoSub => stripe[r] # NoSub
    BY <1>0, <2>1 DEF BooksFromStripe, NothingBeforePurchase
  <2>4. QED
    BY <1>0, <1>1, <2>1, <2>2, <2>3 DEF BooksFromStripe
<1>10. QED
  BY <1>5, <1>7, <1>8, <1>9 DEF IInv

-----------------------------------------------------------------------------
(* What a delivery does to the books.                                      *)

\* Every event in the log has a subscription, a snapshot and a type.
LEMMA EventTyped ==
    ASSUME TypeOK, NEW i \in DOMAIN sent
    PROVE  /\ sent[i].sub \in Sub
           /\ sent[i].snapshot \in Subscription
           /\ sent[i].type \in EventType
           /\ sent[i].line \in 0 .. MaxTime
<1>1. sent[i] \in Event
  BY DEF TypeOK
<1>2. QED
  BY <1>1 DEF Event

\* A seeded row has the right type.
LEMMA SeedTyped ==
    ASSUME TypeOK, NEW i \in EventId, NEW tier \in Tier, NEW key \in PeriodKey,
           NEW end \in Nat, Seed(i, tier, key, end)
    PROVE  /\ ents' \in [PeriodKey -> Entitlement \cup {NoSub}]
           /\ orgTier' \in Tier
           /\ grants' \in [EventId -> Nat]
<1>1. Quota[tier] \in Nat /\ Overage[tier] \in BOOLEAN
  BY TierAssumption DEF Tier
<1>2. [included |-> Quota[tier], remaining |-> Quota[tier],
       overage |-> Overage[tier], end |-> end] \in Entitlement
  BY <1>1 DEF Entitlement
<1>3. QED
  BY <1>1, <1>2 DEF Seed, TypeOK

\* Seeding a paid tier for the period of a subscription keeps the types.
LEMMA SeedPaidTyped ==
    ASSUME TypeOK, NEW i \in EventId, NEW tier \in PaidTier, NEW s \in Sub,
           NEW start \in 0 .. MaxTime, SeedPaid(i, tier, s, start)
    PROVE  /\ ents' \in [PeriodKey -> Entitlement \cup {NoSub}]
           /\ orgTier' \in Tier
           /\ grants' \in [EventId -> Nat]
<1>1. <<s, start>> \in PeriodKey
  BY DEF PeriodKey
<1>2. start + Period \in Nat
  BY BoundAssumption
<1>3. QED
  BY <1>1, <1>2, SeedTyped DEF SeedPaid, Tier

\* The first line of an invoice has a period.
LEMMA LineTyped ==
    ASSUME TypeOK, NEW i \in DOMAIN sent
    PROVE  <<sent[i].sub, sent[i].line>> \in PeriodKey /\ LineEnd(sent[i]) \in Nat
<1>1. /\ sent[i].sub \in Sub /\ sent[i].line \in 0 .. MaxTime
      /\ sent[i].snapshot.start \in 0 .. MaxTime
  BY EventTyped DEF Subscription
<1>2. <<sent[i].sub, sent[i].line>> \in PeriodKey
  BY <1>1 DEF PeriodKey
<1>3. sent[i].line + Period \in Nat /\ sent[i].snapshot.start \in Nat
  BY <1>1, BoundAssumption
<1>4. QED
  BY <1>2, <1>3 DEF LineEnd

\* After event i is handled every row is the one before, the event's snapshot,
\* or the one before with the status that the event's type stands for.
LEMMA Handled ==
    ASSUME IInv, NEW i \in EventId, i \in DOMAIN sent, Handle(i, sent[i])
    PROVE  /\ ents' \in [PeriodKey -> Entitlement \cup {NoSub}]
           /\ orgTier' \in Tier
           /\ grants' \in [EventId -> Nat]
           /\ orgCustomer' \in Sub \cup {NoSub}
           /\ subs' \in [Sub -> Subscription \cup {NoSub}]
           /\ \A s \in Sub :
                 \/ subs'[s] = subs[s]
                 \/ s = sent[i].sub /\ subs'[s] = sent[i].snapshot
                 \/ /\ s = sent[i].sub /\ subs[s] # NoSub
                    /\ subs'[s].tier = subs[s].tier /\ subs'[s].start = subs[s].start
                    /\ subs'[s].status = "canceled" => sent[i].type = "deleted"
<1> DEFINE e == sent[i]
<1>0. TypeOK
  BY DEF IInv
<1>1. e.sub \in Sub /\ e.snapshot \in Subscription /\ i \in DOMAIN sent
  BY <1>0, EventTyped
<1>2. /\ e.snapshot.tier \in PaidTier /\ e.snapshot.start \in 0 .. MaxTime
      /\ subs \in [Sub -> Subscription \cup {NoSub}]
      /\ customer[e.sub] \in Sub \cup {NoSub}
  BY <1>0, <1>1 DEF TypeOK, Subscription
<1>3. CASE e.type = "checkout" /\ CheckoutCompleted(i, e)
  <2>1. orgCustomer' \in Sub \cup {NoSub}
    BY <1>0, <1>2, <1>3 DEF CheckoutCompleted, TypeOK
  <2>2. CASE e.expanded /\ Upsert(e) /\ SeedPaid(i, e.snapshot.tier, e.sub, e.snapshot.start)
    BY <1>0, <1>1, <1>2, <2>1, <2>2, SeedPaidTyped DEF Upsert
  <2>3. CASE UNCHANGED <<orgTier, subs, ents, grants>>
    BY <1>0, <1>2, <2>1, <2>3 DEF TypeOK
  <2>4. QED
    BY <1>3, <2>2, <2>3 DEF CheckoutCompleted
<1>4. CASE e.type \in {"created", "updated"} /\ SubscriptionUpdated(i, e)
  <2>1. orgCustomer' \in Sub \cup {NoSub} /\ Upsert(e)
    BY <1>0, <1>4 DEF SubscriptionUpdated, TypeOK
  <2>2. /\ ents' \in [PeriodKey -> Entitlement \cup {NoSub}]
        /\ orgTier' \in Tier
        /\ grants' \in [EventId -> Nat]
    <3>1. CASE SeedPaid(i, e.snapshot.tier, e.sub, e.snapshot.start)
      BY <1>0, <1>1, <1>2, <3>1, SeedPaidTyped
    <3>2. CASE UNCHANGED <<orgTier, ents, grants>>
      BY <1>0, <3>2 DEF TypeOK
    <3>3. QED
      BY <1>4, <3>1, <3>2 DEF SubscriptionUpdated
  <2>3. QED
    BY <1>1, <1>2, <2>1, <2>2 DEF Upsert
<1>5. CASE e.type = "deleted" /\ SubscriptionDeleted(i, e)
  <2>1. <<"free", i>> \in PeriodKey /\ now + FreePeriod \in Nat
    BY <1>0, BoundAssumption DEF PeriodKey, TypeOK
  <2>2. /\ ents' \in [PeriodKey -> Entitlement \cup {NoSub}]
        /\ orgTier' \in Tier
        /\ grants' \in [EventId -> Nat]
    BY <1>0, <1>5, <2>1, SeedTyped DEF SubscriptionDeleted, Tier
  <2>3. CASE subs[e.sub] = NoSub
    BY <1>0, <1>2, <1>5, <2>2, <2>3 DEF SubscriptionDeleted, TypeOK
  <2>4. CASE subs[e.sub] # NoSub
    <3>1. subs[e.sub] \in Subscription
      BY <1>1, <1>2, <2>4
    <3>2. subs' = [subs EXCEPT ![e.sub] = [subs[e.sub] EXCEPT !.status = "canceled"]]
      BY <1>5, <2>4 DEF SubscriptionDeleted
    <3>3. /\ [subs[e.sub] EXCEPT !.status = "canceled"] \in Subscription
          /\ [subs[e.sub] EXCEPT !.status = "canceled"].tier = subs[e.sub].tier
          /\ [subs[e.sub] EXCEPT !.status = "canceled"].start = subs[e.sub].start
      BY <3>1 DEF Subscription, Status
    <3>4. QED
      BY <1>0, <1>1, <1>2, <1>5, <2>2, <2>4, <3>2, <3>3 DEF SubscriptionDeleted, TypeOK
  <2>5. QED
    BY <2>3, <2>4
<1>6. CASE e.type = "paid" /\ InvoicePaid(i, e)
  <2>1. subs[e.sub] \in Subscription /\ subs[e.sub].tier \in PaidTier
    BY <1>1, <1>2, <1>6 DEF InvoicePaid, Subscription
  <2>2. <<e.sub, e.line>> \in PeriodKey /\ LineEnd(e) \in Nat
    BY <1>0, <1>1, LineTyped
  <2>3. /\ ents' \in [PeriodKey -> Entitlement \cup {NoSub}]
        /\ orgTier' \in Tier
        /\ grants' \in [EventId -> Nat]
    BY <1>0, <1>6, <2>1, <2>2, SeedTyped DEF InvoicePaid, Tier
  <2>4. QED
    BY <1>0, <1>2, <1>6, <2>3 DEF InvoicePaid, TypeOK
<1>7. CASE e.type = "payment_failed" /\ PaymentFailed(e)
  <2>1. subs[e.sub] \in Subscription
    BY <1>1, <1>2, <1>7 DEF PaymentFailed
  <2>2. subs' = [subs EXCEPT ![e.sub] = [subs[e.sub] EXCEPT !.status = "past_due"]]
    BY <1>7 DEF PaymentFailed
  <2>3. /\ [subs[e.sub] EXCEPT !.status = "past_due"] \in Subscription
        /\ [subs[e.sub] EXCEPT !.status = "past_due"].tier = subs[e.sub].tier
        /\ [subs[e.sub] EXCEPT !.status = "past_due"].start = subs[e.sub].start
        /\ [subs[e.sub] EXCEPT !.status = "past_due"].status = "past_due"
    BY <2>1 DEF Subscription, Status
  <2>4. QED
    BY <1>0, <1>1, <1>2, <1>7, <2>2, <2>3 DEF PaymentFailed, TypeOK
<1>8. CASE Deferred(e)
  BY <1>0, <1>2, <1>8 DEF Deferred, bookVars, TypeOK
<1>9. QED
  BY <1>3, <1>4, <1>5, <1>6, <1>7, <1>8 DEF Handle

\* A webhook delivery keeps the invariant.
LEMMA DeliverKeeps ==
    ASSUME IInv, NEW i \in EventId, Deliver(i)
    PROVE  IInv'
<1>0. TypeOK /\ NothingBeforePurchase /\ EndIsFinal /\ BooksFromStripe
  BY DEF IInv
<1>1. i \in DOMAIN sent /\ Handle(i, sent[i]) /\ processed' = processed \cup {i}
  BY DEF Deliver
<1>2. /\ sent[i].sub \in Sub /\ sent[i].snapshot \in Subscription
  BY <1>0, <1>1, EventTyped
<1>3. UNCHANGED <<now, checkout, customer, stripe, sent, included, overage>>
  BY DEF Deliver, stripeVars
<1>4. /\ ents' \in [PeriodKey -> Entitlement \cup {NoSub}]
      /\ orgTier' \in Tier
      /\ grants' \in [EventId -> Nat]
      /\ orgCustomer' \in Sub \cup {NoSub}
      /\ subs' \in [Sub -> Subscription \cup {NoSub}]
      /\ \A s \in Sub :
            \/ subs'[s] = subs[s]
            \/ s = sent[i].sub /\ subs'[s] = sent[i].snapshot
            \/ /\ s = sent[i].sub /\ subs[s] # NoSub
               /\ subs'[s].tier = subs[s].tier /\ subs'[s].start = subs[s].start
               /\ subs'[s].status = "canceled" => sent[i].type = "deleted"
  BY <1>1, Handled
<1>5. inOrder' \in [Sub -> BOOLEAN]
  <2>1. AppliedInOrder(i, sent[i]) \in BOOLEAN
    BY DEF AppliedInOrder
  <2>2. inOrder \in [Sub -> BOOLEAN]
    BY <1>0 DEF TypeOK
  <2>3. inOrder' = [inOrder EXCEPT ![sent[i].sub] = @ /\ AppliedInOrder(i, sent[i])]
    BY DEF Deliver
  <2>4. QED
    BY <2>2, <2>3
<1>6. TypeOK'
  BY <1>0, <1>1, <1>3, <1>4, <1>5 DEF TypeOK
<1>7. NothingBeforePurchase' /\ EndIsFinal'
  BY <1>0, <1>3 DEF NothingBeforePurchase, EndIsFinal
<1>8. BooksFromStripe'
  <2> SUFFICES ASSUME NEW s \in Sub, subs'[s] # NoSub
               PROVE  /\ \E j \in processed' :
                            /\ sent[j].sub = s
                            /\ sent[j].snapshot.tier = subs'[s].tier
                            /\ sent[j].snapshot.start = subs'[s].start
                      /\ subs'[s].status = "canceled" => stripe[s].status = "canceled"
    BY <1>3 DEF BooksFromStripe
  <2>1. CASE subs'[s] = subs[s]
    BY <1>0, <1>1, <2>1 DEF BooksFromStripe
  <2>2. CASE s = sent[i].sub /\ subs'[s] = sent[i].snapshot
    BY <1>0, <1>1, <2>2 DEF EndIsFinal
  <2>3. CASE /\ s = sent[i].sub /\ subs[s] # NoSub
             /\ subs'[s].tier = subs[s].tier /\ subs'[s].start = subs[s].start
             /\ subs'[s].status = "canceled" => sent[i].type = "deleted"
    BY <1>0, <1>1, <2>3 DEF EndIsFinal, BooksFromStripe
  <2>4. QED
    BY <1>4, <2>1, <2>2, <2>3
<1>9. QED
  BY <1>6, <1>7, <1>8 DEF IInv

-----------------------------------------------------------------------------
(* The remaining steps.                                                    *)

\* Consumption concerns the entitlements only.
LEMMA ConsumeKeeps ==
    ASSUME IInv, NEW k \in PeriodKey, Consume(k)
    PROVE  IInv'
<1>0. TypeOK /\ NothingBeforePurchase /\ EndIsFinal /\ BooksFromStripe
  BY DEF IInv
<1>1. UNCHANGED <<now, checkout, customer, stripe, sent, processed, orgCustomer,
                  orgTier, subs, grants, inOrder>>
  BY DEF Consume, stripeVars
<1>2. ents' \in [PeriodKey -> Entitlement \cup {NoSub}]
  <2>1. ASSUME NEW x \in PeriodKey, Open(x)
        PROVE  [ents[x] EXCEPT !.remaining = @ - 1] \in Entitlement
    <3>1. ents[x] \in Entitlement
      BY <1>0, <2>1 DEF Open, TypeOK
    <3>2. QED
      BY <3>1 DEF Entitlement
  <2>2. \A x \in PeriodKey : ents[x] \in Entitlement \cup {NoSub}
    BY <1>0 DEF TypeOK
  <2>3. ents' = [x \in PeriodKey |->
                  IF Open(x) THEN [ents[x] EXCEPT !.remaining = @ - 1] ELSE ents[x]]
    BY DEF Consume
  <2>4. QED
    BY <2>1, <2>2, <2>3
<1>3. included' \in Nat /\ overage' \in Nat
  <2>1. included \in Nat /\ overage \in Nat
    BY <1>0 DEF TypeOK
  <2>2. \/ overage' = overage + 1 /\ included' = included
        \/ overage' = overage /\ included' = included + 1
    BY DEF Consume
  <2>3. QED
    BY <2>1, <2>2
<1>4. TypeOK'
  BY <1>0, <1>1, <1>2, <1>3 DEF TypeOK
<1>5. NothingBeforePurchase' /\ EndIsFinal' /\ BooksFromStripe'
  BY <1>0, <1>1 DEF NothingBeforePurchase, EndIsFinal, BooksFromStripe
<1>6. QED
  BY <1>4, <1>5 DEF IInv

\* Opening a checkout touches no subscription.
LEMMA StartCheckoutKeeps ==
    ASSUME IInv, NEW s \in Sub, StartCheckout(s)
    PROVE  IInv'
<1>0. TypeOK /\ NothingBeforePurchase /\ EndIsFinal /\ BooksFromStripe
  BY DEF IInv
<1>1. UNCHANGED <<now, stripe, sent, processed, orgCustomer, orgTier, subs, ents,
                  grants, included, overage, inOrder>>
  BY DEF StartCheckout, bookVars
<1>2. /\ checkout' = checkout \cup {s} /\ customer[s] = NoSub
      /\ customer' \in [Sub -> Sub \cup {NoSub}] /\ customer'[s] # NoSub
      /\ \A r \in Sub : r # s => customer'[r] = customer[r]
  BY <1>0, SubAssumption DEF StartCheckout, TypeOK
<1>3. TypeOK'
  BY <1>0, <1>1, <1>2 DEF TypeOK
<1>4. NothingBeforePurchase'
  BY <1>0, <1>1, <1>2 DEF NothingBeforePurchase, TypeOK
<1>5. EndIsFinal' /\ BooksFromStripe'
  BY <1>0, <1>1 DEF EndIsFinal, BooksFromStripe
<1>6. QED
  BY <1>3, <1>4, <1>5 DEF IInv

\* A purchase is the first news of its subscription.
LEMMA CompleteCheckoutKeeps ==
    ASSUME IInv, NEW s \in Sub, NEW t \in PaidTier, NEW x \in Expanded,
           CompleteCheckout(s, t, x)
    PROVE  IInv'
<1> DEFINE y == [tier |-> t, status |-> "active", start |-> now]
<1> DEFINE types == <<"checkout", "created", "paid">>
<1>1. y \in Subscription
  BY DEF IInv, TypeOK, Subscription, Status
<1>2. types \in Seq(EventType) /\ \A n \in DOMAIN types : types[n] # "deleted"
  BY DEF EventType
<1>3. x \in BOOLEAN
  BY PayloadAssumption
<1>4. /\ s \in checkout /\ checkout' = checkout \ {s} /\ Emits(s, y, types, x, now)
      /\ now \in 0 .. MaxTime
  BY DEF CompleteCheckout, IInv, TypeOK
<1>5. stripe[s] = NoSub
  BY <1>4 DEF IInv, NothingBeforePurchase
<1> HIDE DEF y, types
<1>6. QED
  BY <1>1, <1>2, <1>3, <1>4, <1>5, EmitsKeeps

\* A step of Stripe's on a live subscription.
LEMMA LiveEmitsKeeps ==
    ASSUME IInv, NEW s \in Sub, Live(s), NEW x \in Subscription,
           NEW types \in Seq(EventType), NEW line \in 0 .. MaxTime,
           Emits(s, x, types, FALSE, line),
           x.status = "canceled" \/ \A n \in DOMAIN types : types[n] # "deleted",
           UNCHANGED checkout
    PROVE  IInv'
<1>1. stripe[s] # NoSub /\ stripe[s].status # "canceled" /\ s \notin checkout
  BY DEF Live, IInv, NothingBeforePurchase
<1>2. checkout' \subseteq checkout \ {s}
  BY <1>1
<1>3. QED
  BY <1>1, <1>2, EmitsKeeps

\* Plan changes, renewals, payments and cancellations concern live subscriptions.
LEMMA StripeKeeps ==
    ASSUME IInv, NEW s \in Sub,
           \/ \E t \in PaidTier : ChangePlan(s, t)
           \/ \E l \in 0 .. MaxTime : Renew(s, l) \/ PaymentFails(s, l)
           \/ (\E n \in DOMAIN sent : PaymentRecovers(s, n)) \/ Cancel(s)
    PROVE  IInv'
<1>0. TypeOK /\ Live(s) /\ UNCHANGED checkout
  BY DEF IInv, ChangePlan, Renew, PaymentFails, PaymentRecovers, Cancel
<1>1. /\ stripe[s] \in Subscription /\ now \in 0 .. MaxTime
      /\ stripe[s].start \in 0 .. MaxTime
      /\ \A n \in DOMAIN sent : sent[n].line \in 0 .. MaxTime
  BY <1>0, EventTyped DEF Live, TypeOK, Subscription
<1>2. /\ \A t \in PaidTier : [stripe[s] EXCEPT !.tier = t] \in Subscription
      /\ \A c \in Status : [stripe[s] EXCEPT !.status = c] \in Subscription
      /\ \A c \in Status :
            [stripe[s] EXCEPT !.status = c, !.start = now] \in Subscription
  BY <1>1 DEF Subscription
<1>3. [stripe[s] EXCEPT !.status = "canceled"].status = "canceled"
  BY <1>1 DEF Subscription
<1>4. {"active", "past_due", "canceled"} \subseteq Status
  BY DEF Status
<1>5. /\ <<"updated">> \in Seq(EventType) /\ <<"deleted">> \in Seq(EventType)
      /\ <<"updated", "paid">> \in Seq(EventType)
      /\ <<"updated", "payment_failed">> \in Seq(EventType)
  BY DEF EventType
<1>6. /\ \A n \in DOMAIN <<"updated">> : <<"updated">>[n] # "deleted"
      /\ \A n \in DOMAIN <<"updated", "paid">> : <<"updated", "paid">>[n] # "deleted"
      /\ \A n \in DOMAIN <<"updated", "payment_failed">> :
            <<"updated", "payment_failed">>[n] # "deleted"
  OBVIOUS
<1>7. ASSUME NEW t \in PaidTier, ChangePlan(s, t) PROVE IInv'
  BY <1>0, <1>1, <1>2, <1>5, <1>6, <1>7, LiveEmitsKeeps DEF ChangePlan
<1>8. ASSUME NEW l \in 0 .. MaxTime, Renew(s, l) PROVE IInv'
  BY <1>0, <1>1, <1>2, <1>4, <1>5, <1>6, <1>8, LiveEmitsKeeps DEF Renew
<1>9. ASSUME NEW l \in 0 .. MaxTime, PaymentFails(s, l) PROVE IInv'
  BY <1>0, <1>1, <1>2, <1>4, <1>5, <1>6, <1>9, LiveEmitsKeeps DEF PaymentFails
<1>10. ASSUME NEW n \in DOMAIN sent, PaymentRecovers(s, n) PROVE IInv'
  BY <1>0, <1>1, <1>2, <1>4, <1>5, <1>6, <1>10, LiveEmitsKeeps DEF PaymentRecovers
<1>11. CASE Cancel(s)
  BY <1>0, <1>1, <1>2, <1>3, <1>4, <1>5, <1>11, LiveEmitsKeeps DEF Cancel
<1>12. QED
  BY <1>7, <1>8, <1>9, <1>10, <1>11

\* Time passes.
LEMMA TickKeeps ==
    ASSUME IInv, Tick \/ UNCHANGED vars
    PROVE  IInv'
<1>0. TypeOK /\ NothingBeforePurchase /\ EndIsFinal /\ BooksFromStripe
  BY DEF IInv
<1>1. UNCHANGED <<stripeVars, processed, bookVars, included, overage, inOrder>>
  BY DEF Tick, vars
<1>2. now' \in 0 .. MaxTime
  BY <1>0, BoundAssumption DEF Tick, vars, TypeOK
<1>3. TypeOK'
  BY <1>0, <1>1, <1>2 DEF TypeOK, stripeVars, bookVars
<1>4. NothingBeforePurchase' /\ EndIsFinal' /\ BooksFromStripe'
  BY <1>0, <1>1
     DEF NothingBeforePurchase, EndIsFinal, BooksFromStripe, stripeVars, bookVars
<1>5. QED
  BY <1>3, <1>4 DEF IInv

-----------------------------------------------------------------------------
(* Books of a subscription whose events came in Stripe's order.            *)

\* Event i says something of subscription s.
Mine(i, s) == sent[i].sub = s /\ Tells(sent[i])

\* What Stripe keeps of a subscription is what it last said of it.
StripeIsLast ==
    \A s \in Sub : stripe[s] # NoSub =>
        \E i \in DOMAIN sent :
            /\ Mine(i, s)
            /\ sent[i].snapshot = stripe[s]
            /\ \A j \in DOMAIN sent : Mine(j, s) => j <= i

\* Event j is the one before event i, of those that tell of the same subscription.
Precedes(j, i) ==
    /\ j < i /\ Mine(j, sent[i].sub)
    /\ \A k \in DOMAIN sent : Mine(k, sent[i].sub) /\ k < i => k <= j

\* The handlers of these three events change at most the status: the rest of the
\* snapshot was already told by the event before.
EventsFollow ==
    \A i \in DOMAIN sent :
        /\ sent[i].type \in {"paid", "payment_failed"} =>
              \E j \in DOMAIN sent : Precedes(j, i) /\ sent[i].snapshot = sent[j].snapshot
        /\ sent[i].type = "payment_failed" => sent[i].snapshot.status = "past_due"
        /\ sent[i].type = "deleted" =>
              \E j \in DOMAIN sent :
                  /\ Precedes(j, i)
                  /\ sent[i].snapshot = [sent[j].snapshot EXCEPT !.status = "canceled"]

\* Of the events of s, those up to m were applied, in order, and no later one.
AppliedUpTo(s, m) ==
    /\ inOrder[s]
    /\ Mine(m, s)
    /\ \A j \in DOMAIN sent : Mine(j, s) => (j \in processed <=> j <= m)

MirrorsSoFar ==
    \A s \in Sub : \A m \in DOMAIN sent : AppliedUpTo(s, m) => subs[s] = sent[m].snapshot

OrderInv == StripeIsLast /\ EventsFollow /\ MirrorsSoFar

\* The event log grows at its end, by the events emitted, all of one subscription.
LEMMA EmittedTail ==
    ASSUME TypeOK, NEW s \in Sub, NEW x \in Subscription,
           NEW types \in Seq(EventType), NEW exp \in BOOLEAN, NEW line \in 0 .. MaxTime,
           Emits(s, x, types, exp, line)
    PROVE  /\ Len(sent) \in Nat /\ DOMAIN sent = 1 .. Len(sent)
           /\ DOMAIN sent' = 1 .. Len(sent) + Len(types)
           /\ \A i \in DOMAIN sent : sent'[i] = sent[i]
           /\ \A n \in DOMAIN types :
                 /\ Len(sent) + n \in DOMAIN sent'
                 /\ sent'[Len(sent) + n] =
                       [type |-> types[n], sub |-> s, snapshot |-> x,
                        expanded |-> exp, line |-> line]
           /\ \A i \in DOMAIN sent' \ DOMAIN sent :
                 i - Len(sent) \in DOMAIN types /\ i = Len(sent) + (i - Len(sent))
<1> DEFINE new == [n \in DOMAIN types |->
               [type |-> types[n], sub |-> s, snapshot |-> x,
                expanded |-> exp, line |-> line]]
<1>1. new \in Seq(Event) /\ Len(new) = Len(types) /\ DOMAIN new = DOMAIN types
  <2>1. \A n \in DOMAIN types : new[n] \in Event
    BY DEF Event
  <2>2. DOMAIN types = 1 .. Len(types) /\ Len(types) \in Nat
    OBVIOUS
  <2>3. QED
    BY <2>1, <2>2
<1>2. sent \in Seq(Event)
  BY DEF TypeOK
<1>3. sent' = sent \o new
  BY DEF Emits
<1>4. DOMAIN types = 1 .. Len(types) /\ Len(types) \in Nat
  OBVIOUS
<1>5. Len(sent) \in Nat /\ DOMAIN sent = 1 .. Len(sent)
  BY <1>2
<1>10. sent' \in Seq(Event) /\ Len(sent') = Len(sent) + Len(new)
  BY <1>1, <1>2, <1>3
<1>6. /\ DOMAIN sent' = 1 .. Len(sent) + Len(types)
      /\ \A i \in 1 .. Len(sent) : sent'[i] = sent[i]
      /\ \A i \in Len(sent) + 1 .. Len(sent) + Len(types) : sent'[i] = new[i - Len(sent)]
  <2>1. DOMAIN sent' = 1 .. Len(sent) + Len(types)
    BY <1>1, <1>10
  <2>2. \A i \in 1 .. Len(sent) : sent'[i] = sent[i]
    BY <1>1, <1>2, <1>3
  <2>3. \A i \in Len(sent) + 1 .. Len(sent) + Len(new) : sent'[i] = new[i - Len(sent)]
    BY <1>1, <1>2, <1>3
  <2>4. QED
    BY <1>1, <2>1, <2>2, <2>3
<1>7. ASSUME NEW n \in DOMAIN types
      PROVE  /\ Len(sent) + n \in DOMAIN sent'
             /\ sent'[Len(sent) + n] =
                   [type |-> types[n], sub |-> s, snapshot |-> x,
                    expanded |-> exp, line |-> line]
  <2>1. Len(sent) + n \in Len(sent) + 1 .. Len(sent) + Len(types)
        /\ (Len(sent) + n) - Len(sent) = n
    BY <1>4, <1>5
  <2>2. new[n] = [type |-> types[n], sub |-> s, snapshot |-> x,
                  expanded |-> exp, line |-> line]
    OBVIOUS
  <2>3. sent'[Len(sent) + n] = new[n]
    BY <1>6, <2>1
  <2>4. Len(sent) + n \in DOMAIN sent'
    BY <1>4, <1>5, <1>6, <2>1
  <2>5. QED
    BY <2>2, <2>3, <2>4
<1>8. \A i \in DOMAIN sent' \ DOMAIN sent :
          i - Len(sent) \in DOMAIN types /\ i = Len(sent) + (i - Len(sent))
  BY <1>4, <1>5, <1>6
<1>9. QED
  BY <1>5, <1>6, <1>7, <1>8

\* The shape of what Stripe emits in one step.
WellEmitted(s, x, types) ==
    /\ types # << >> /\ types[Len(types)] # "checkout"
    /\ \A n \in DOMAIN types :
          /\ types[n] \in {"paid", "payment_failed"} =>
                n - 1 \in DOMAIN types /\ types[n - 1] # "checkout"
          /\ types[n] = "payment_failed" => x.status = "past_due"
          /\ types[n] = "deleted" =>
                n = 1 /\ stripe[s] # NoSub /\ x = [stripe[s] EXCEPT !.status = "canceled"]

\* Emitting well-formed news keeps the ordering invariant: nothing new is applied.
LEMMA EmitsKeepsOrder ==
    ASSUME IInv, OrderInv, NEW s \in Sub, NEW x \in Subscription,
           NEW types \in Seq(EventType), NEW exp \in BOOLEAN, NEW line \in 0 .. MaxTime,
           Emits(s, x, types, exp, line), WellEmitted(s, x, types)
    PROVE  OrderInv'
<1>0. TypeOK /\ StripeIsLast /\ EventsFollow /\ MirrorsSoFar
  BY DEF IInv, OrderInv
<1>10. PICK n0 : n0 = Len(sent)
  OBVIOUS
<1>1. /\ n0 \in Nat /\ DOMAIN sent = 1 .. n0
      /\ DOMAIN sent' = 1 .. n0 + Len(types)
      /\ \A i \in DOMAIN sent : sent'[i] = sent[i]
      /\ \A n \in DOMAIN types :
            /\ n0 + n \in DOMAIN sent'
            /\ sent'[n0 + n] = [type |-> types[n], sub |-> s, snapshot |-> x,
                                expanded |-> exp, line |-> line]
      /\ \A i \in DOMAIN sent' \ DOMAIN sent :
            i - n0 \in DOMAIN types /\ i = n0 + (i - n0)
  BY <1>0, <1>10, EmittedTail
<1>2. /\ stripe' = [stripe EXCEPT ![s] = x]
      /\ processed' = processed /\ subs' = subs /\ inOrder' = inOrder
  BY DEF Emits, bookVars
<1>3. /\ \A i \in DOMAIN sent : \A r : Mine(i, r)' <=> Mine(i, r)
      /\ \A n \in DOMAIN types : sent'[n0 + n].type = types[n] /\ sent'[n0 + n].sub = s
                                 /\ sent'[n0 + n].snapshot = x
      /\ \A n \in DOMAIN types : types[n] # "checkout" => Mine(n0 + n, s)'
      /\ \A i \in DOMAIN sent' \ DOMAIN sent : \A r : Mine(i, r)' => r = s
  <2>1. ASSUME NEW i \in DOMAIN sent, NEW r PROVE Mine(i, r)' <=> Mine(i, r)
    <3>1. sent'[i] = sent[i]
      BY <1>1
    <3>2. QED
      BY <3>1 DEF Mine, Tells
  <2>2. ASSUME NEW n \in DOMAIN types
        PROVE  /\ sent'[n0 + n].type = types[n] /\ sent'[n0 + n].sub = s
               /\ sent'[n0 + n].snapshot = x
               /\ types[n] # "checkout" => Mine(n0 + n, s)'
    <3>1. sent'[n0 + n] = [type |-> types[n], sub |-> s, snapshot |-> x,
                           expanded |-> exp, line |-> line]
      BY <1>1
    <3>2. QED
      BY <3>1 DEF Mine, Tells
  <2>3. ASSUME NEW i \in DOMAIN sent' \ DOMAIN sent, NEW r, Mine(i, r)' PROVE r = s
    <3>1. i - n0 \in DOMAIN types /\ i = n0 + (i - n0)
      BY <1>1
    <3>2. sent'[i].sub = s
      BY <2>2, <3>1
    <3>3. QED
      BY <2>3, <3>2 DEF Mine
  <2>4. QED
    BY <2>1, <2>2, <2>3
<1>4. Len(types) \in Nat /\ DOMAIN types = 1 .. Len(types)
  OBVIOUS
<1>5. stripe'[s] = x /\ \A r \in Sub : r # s => stripe'[r] = stripe[r]
  BY <1>0, <1>2 DEF TypeOK
<1>6. StripeIsLast'
  <2>1. ASSUME NEW r \in Sub, r # s, stripe'[r] # NoSub
        PROVE  \E i \in DOMAIN sent' :
                  /\ Mine(i, r)'
                  /\ sent'[i].snapshot = stripe'[r]
                  /\ \A j \in DOMAIN sent' : Mine(j, r)' => j <= i
    <3>1. PICK i \in DOMAIN sent :
              /\ Mine(i, r) /\ sent[i].snapshot = stripe[r]
              /\ \A j \in DOMAIN sent : Mine(j, r) => j <= i
      BY <1>0, <1>5, <2>1 DEF StripeIsLast
    <3>2. i \in DOMAIN sent' /\ sent'[i] = sent[i]
      BY <1>1, <1>4
    <3>3. QED
      BY <1>3, <1>5, <2>1, <3>1, <3>2
  <2>2. \E i \in DOMAIN sent' :
            /\ Mine(i, s)'
            /\ sent'[i].snapshot = stripe'[s]
            /\ \A j \in DOMAIN sent' : Mine(j, s)' => j <= i
    <3>1. Len(types) \in DOMAIN types /\ types[Len(types)] # "checkout"
      BY <1>4 DEF WellEmitted
    <3>2. \A j \in DOMAIN sent' : j <= n0 + Len(types)
      BY <1>1, <1>4
    <3>3. QED
      BY <1>1, <1>3, <1>5, <3>1, <3>2
  <2>3. QED
    BY <2>1, <2>2 DEF StripeIsLast
<1>7. EventsFollow'
  <2>1. ASSUME NEW i \in DOMAIN sent, NEW j \in DOMAIN sent, Precedes(j, i)
        PROVE  Precedes(j, i)'
    <3>1. sent'[i] = sent[i] /\ Mine(j, sent[i].sub)'
      BY <1>1, <1>3, <2>1 DEF Precedes
    <3>2. ASSUME NEW k \in DOMAIN sent', Mine(k, sent[i].sub)', k < i
          PROVE  k <= j
      <4>1. k \in DOMAIN sent
        BY <1>1, <1>4, <3>2
      <4>2. QED
        BY <1>3, <2>1, <3>1, <3>2, <4>1 DEF Precedes
    <3>3. QED
      BY <2>1, <3>1, <3>2 DEF Precedes
  <2>2. ASSUME NEW i \in DOMAIN sent
        PROVE  /\ sent'[i].type \in {"paid", "payment_failed"} =>
                     \E j \in DOMAIN sent' :
                        Precedes(j, i)' /\ sent'[i].snapshot = sent'[j].snapshot
               /\ sent'[i].type = "payment_failed" => sent'[i].snapshot.status = "past_due"
               /\ sent'[i].type = "deleted" =>
                     \E j \in DOMAIN sent' :
                        /\ Precedes(j, i)'
                        /\ sent'[i].snapshot = [sent'[j].snapshot EXCEPT !.status = "canceled"]
    <3>1. DOMAIN sent \subseteq DOMAIN sent'
      BY <1>1, <1>4
    <3>2. sent'[i] = sent[i] /\ \A j \in DOMAIN sent : sent'[j] = sent[j]
      BY <1>1
    <3>3. CASE sent[i].type \in {"paid", "payment_failed"}
      <4>1. PICK j \in DOMAIN sent : Precedes(j, i) /\ sent[i].snapshot = sent[j].snapshot
        BY <1>0, <3>3 DEF EventsFollow
      <4>2. j \in DOMAIN sent' /\ Precedes(j, i)' /\ sent'[i].snapshot = sent'[j].snapshot
        BY <2>1, <3>1, <3>2, <4>1
      <4>3. sent[i].type = "payment_failed" => sent[i].snapshot.status = "past_due"
        BY <1>0 DEF EventsFollow
      <4>4. QED
        BY <3>2, <3>3, <4>2, <4>3
    <3>4. CASE sent[i].type = "deleted"
      <4>1. PICK j \in DOMAIN sent :
                /\ Precedes(j, i)
                /\ sent[i].snapshot = [sent[j].snapshot EXCEPT !.status = "canceled"]
        BY <1>0, <3>4 DEF EventsFollow
      <4>2. /\ j \in DOMAIN sent' /\ Precedes(j, i)'
            /\ sent'[i].snapshot = [sent'[j].snapshot EXCEPT !.status = "canceled"]
        BY <2>1, <3>1, <3>2, <4>1
      <4>3. QED
        BY <3>2, <3>4, <4>2
    <3>5. QED
      BY <3>2, <3>3, <3>4
  <2>3. ASSUME NEW n \in DOMAIN types, types[n] \in {"paid", "payment_failed"}
        PROVE  \E j \in DOMAIN sent' :
                   Precedes(j, n0 + n)' /\ sent'[n0 + n].snapshot = sent'[j].snapshot
    <3>1. n - 1 \in DOMAIN types /\ types[n - 1] # "checkout"
      BY <2>3 DEF WellEmitted
    <3>2. n0 + (n - 1) \in DOMAIN sent' /\ n0 + (n - 1) < n0 + n
          /\ \A k \in DOMAIN sent' : k < n0 + n => k <= n0 + (n - 1)
      BY <1>1, <1>4, <3>1
    <3>3. Precedes(n0 + (n - 1), n0 + n)'
      BY <1>3, <3>1, <3>2 DEF Precedes
    <3>4. QED
      BY <1>3, <3>1, <3>2, <3>3
  <2>4. ASSUME NEW n \in DOMAIN types, types[n] = "deleted"
        PROVE  \E j \in DOMAIN sent' :
                   /\ Precedes(j, n0 + n)'
                   /\ sent'[n0 + n].snapshot = [sent'[j].snapshot EXCEPT !.status = "canceled"]
    <3>1. n = 1 /\ stripe[s] # NoSub /\ x = [stripe[s] EXCEPT !.status = "canceled"]
      BY <2>4 DEF WellEmitted
    <3>2. PICK j \in DOMAIN sent :
              /\ Mine(j, s) /\ sent[j].snapshot = stripe[s]
              /\ \A k \in DOMAIN sent : Mine(k, s) => k <= j
      BY <1>0, <3>1 DEF StripeIsLast
    <3>3. /\ j \in DOMAIN sent' /\ j < n0 + n
          /\ \A k \in DOMAIN sent' : k < n0 + n => k \in DOMAIN sent
      BY <1>1, <1>4, <3>1
    <3>4. Precedes(j, n0 + n)'
      BY <1>3, <3>2, <3>3 DEF Precedes
    <3>5. sent'[j] = sent[j] /\ sent'[n0 + n].snapshot = x
      BY <1>1, <1>3
    <3>6. QED
      BY <3>1, <3>2, <3>3, <3>4, <3>5
  <2>5. ASSUME NEW n \in DOMAIN types, types[n] = "payment_failed"
        PROVE  sent'[n0 + n].snapshot.status = "past_due"
    BY <1>3, <2>5 DEF WellEmitted
  <2>6. ASSUME NEW i \in DOMAIN sent' \ DOMAIN sent
        PROVE  /\ sent'[i].type \in {"paid", "payment_failed"} =>
                     \E j \in DOMAIN sent' :
                        Precedes(j, i)' /\ sent'[i].snapshot = sent'[j].snapshot
               /\ sent'[i].type = "payment_failed" => sent'[i].snapshot.status = "past_due"
               /\ sent'[i].type = "deleted" =>
                     \E j \in DOMAIN sent' :
                        /\ Precedes(j, i)'
                        /\ sent'[i].snapshot = [sent'[j].snapshot EXCEPT !.status = "canceled"]
    <3>1. PICK n \in DOMAIN types : i = n0 + n
      BY <1>1, <2>6
    <3>2. sent'[i].type = types[n]
      BY <1>3, <3>1
    <3>3. QED
      BY <2>3, <2>4, <2>5, <3>1, <3>2
  <2>7. QED
    BY <2>2, <2>6 DEF EventsFollow
<1>8. MirrorsSoFar'
  <2> SUFFICES ASSUME NEW r \in Sub, NEW m \in DOMAIN sent', AppliedUpTo(r, m)'
               PROVE  subs'[r] = sent'[m].snapshot
    BY DEF MirrorsSoFar
  <2>1. m \in processed
    BY <1>1, <1>2 DEF AppliedUpTo
  <2>2. m \in DOMAIN sent
    BY <1>0, <2>1 DEF TypeOK
  <2>3. DOMAIN sent \subseteq DOMAIN sent'
    BY <1>1, <1>4
  <2>4. AppliedUpTo(r, m)
    BY <1>2, <1>3, <2>2, <2>3 DEF AppliedUpTo
  <2>5. QED
    BY <1>0, <1>1, <1>2, <2>2, <2>4 DEF MirrorsSoFar
<1>9. QED
  BY <1>6, <1>7, <1>8 DEF OrderInv

\* A delivery in order finds its customer, and the row as the event before it
\* left it.
LEMMA FoundInOrder ==
    ASSUME IInv, OrderInv, NEW i \in EventId, Deliver(i), Tells(sent[i]),
           NEW s \in Sub, s = sent[i].sub, AppliedUpTo(s, i)'
    PROVE  /\ sent[i].type = "checkout" \/ KnownCustomer(sent[i])
           /\ \A j \in DOMAIN sent : Precedes(j, i) => subs[s] = sent[j].snapshot
<1> DEFINE e == sent[i]
<1>0. TypeOK /\ MirrorsSoFar
  BY DEF IInv, OrderInv
<1>1. /\ i \in DOMAIN sent /\ processed' = processed \cup {i} /\ i \notin processed
      /\ sent' = sent
      /\ inOrder' = [inOrder EXCEPT ![s] = @ /\ AppliedInOrder(i, e)]
  BY DEF Deliver, FirstSeen, stripeVars
<1>2. inOrder[s] /\ AppliedInOrder(i, e)
  <2>1. inOrder'[s]
    BY DEF AppliedUpTo
  <2>2. inOrder'[s] = (inOrder[s] /\ AppliedInOrder(i, e))
    BY <1>0, <1>1 DEF TypeOK
  <2>3. QED
    BY <2>1, <2>2
<1>3. e.type = "checkout" \/ KnownCustomer(e)
  BY <1>2 DEF AppliedInOrder
<1>4. ASSUME NEW j \in DOMAIN sent, Precedes(j, i)
      PROVE  subs[s] = sent[j].snapshot
  <2>1. /\ j < i /\ Mine(j, s)
        /\ \A k \in DOMAIN sent : Mine(k, s) /\ k < i => k <= j
    BY <1>4 DEF Precedes
  <2>2. \A k \in DOMAIN sent : Mine(k, s) => (k \in processed \cup {i} <=> k <= i)
    BY <1>1 DEF AppliedUpTo, Mine
  <2>3. /\ \A k \in DOMAIN sent : k \in Int
        /\ i \in Int
    BY <1>0 DEF TypeOK, EventId
  <2>4. \A k \in DOMAIN sent : Mine(k, s) => (k \in processed <=> k <= j)
    BY <1>1, <2>1, <2>2, <2>3
  <2>5. AppliedUpTo(s, j)
    BY <1>2, <2>1, <2>4 DEF AppliedUpTo
  <2>6. QED
    BY <1>0, <2>5 DEF MirrorsSoFar
<1>5. QED
  BY <1>3, <1>4

\* A delivery that keeps a subscription in order leaves its row equal to the
\* snapshot delivered.
LEMMA DeliveredInOrder ==
    ASSUME IInv, OrderInv, NEW i \in EventId, Deliver(i), Tells(sent[i]),
           NEW s \in Sub, s = sent[i].sub, AppliedUpTo(s, i)'
    PROVE  subs'[s] = sent[i].snapshot
<1> DEFINE e == sent[i]
<1>0. TypeOK /\ EventsFollow /\ MirrorsSoFar
  BY DEF IInv, OrderInv
<1>1. i \in DOMAIN sent /\ Handle(i, e)
  BY DEF Deliver
<1>2. /\ s \in Sub /\ e.snapshot \in Subscription /\ e.type \in EventType
      /\ subs \in [Sub -> Subscription \cup {NoSub}]
  BY <1>0, <1>1, EventTyped DEF TypeOK
<1>4. e.type = "checkout" \/ KnownCustomer(e)
  BY FoundInOrder
<1>5. \A j \in DOMAIN sent : Precedes(j, i) => subs[s] = sent[j].snapshot
  BY FoundInOrder
<1>6. CASE e.type = "checkout"
  <2>1. CheckoutCompleted(i, e) /\ e.expanded
    BY <1>1, <1>6 DEF Handle, Deferred, Tells
  <2>2. Upsert(e)
    BY <2>1 DEF CheckoutCompleted
  <2>3. QED
    BY <1>2, <2>2 DEF Upsert
<1>7. CASE e.type \in {"created", "updated"}
  <2>1. SubscriptionUpdated(i, e)
    BY <1>1, <1>4, <1>7 DEF Handle, Deferred
  <2>2. Upsert(e)
    BY <2>1 DEF SubscriptionUpdated
  <2>3. QED
    BY <1>2, <2>2 DEF Upsert
<1>8. CASE e.type = "deleted"
  <2>1. PICK j \in DOMAIN sent :
            /\ Precedes(j, i)
            /\ e.snapshot = [sent[j].snapshot EXCEPT !.status = "canceled"]
    BY <1>0, <1>1, <1>8 DEF EventsFollow
  <2>2. subs[s] = sent[j].snapshot
    BY <1>5, <2>1
  <2>3. subs[s] # NoSub
    BY <1>0, <2>2, EventTyped, SubAssumption DEF Subscription, Status
  <2>4. SubscriptionDeleted(i, e)
    BY <1>1, <1>4, <1>8 DEF Handle, Deferred
  <2>5. subs' = [subs EXCEPT ![s] = [subs[s] EXCEPT !.status = "canceled"]]
    BY <2>3, <2>4 DEF SubscriptionDeleted
  <2>6. subs'[s] = [subs[s] EXCEPT !.status = "canceled"]
    BY <1>2, <2>5
  <2>7. QED
    BY <2>1, <2>2, <2>6
<1>9. CASE e.type \in {"paid", "payment_failed"}
  <2>1. PICK j \in DOMAIN sent : Precedes(j, i) /\ e.snapshot = sent[j].snapshot
    BY <1>0, <1>1, <1>9 DEF EventsFollow
  <2>2. subs[s] = e.snapshot
    BY <1>5, <2>1
  <2>3. subs[s] # NoSub
    BY <1>2, <2>2, SubAssumption DEF Subscription, Status
  <2>4. CASE e.type = "paid"
    <3>1. InvoicePaid(i, e)
      BY <1>1, <1>4, <2>3, <2>4 DEF Handle, Deferred
    <3>2. QED
      BY <2>2, <3>1 DEF InvoicePaid
  <2>5. CASE e.type = "payment_failed"
    <3>1. PaymentFailed(e)
      BY <1>1, <2>3, <2>5 DEF Handle, Deferred
    <3>2. subs' = [subs EXCEPT ![s] = [subs[s] EXCEPT !.status = "past_due"]]
      BY <3>1 DEF PaymentFailed
    <3>3. e.snapshot.status = "past_due"
      BY <1>0, <1>1, <2>5 DEF EventsFollow
    <3>4. [e.snapshot EXCEPT !.status = "past_due"] = e.snapshot
      BY <1>2, <3>3 DEF Subscription
    <3>5. QED
      BY <1>2, <2>2, <3>2, <3>4
  <2>6. QED
    BY <1>9, <2>4, <2>5
<1>10. QED
  BY <1>2, <1>6, <1>7, <1>8, <1>9 DEF EventType

\* If after a delivery the events of r are applied up to m, either they were
\* before and the delivery says nothing of r, or m is the event delivered.
LEMMA LastApplied ==
    ASSUME IInv, NEW i \in EventId, Deliver(i),
           NEW r \in Sub, NEW m \in DOMAIN sent, AppliedUpTo(r, m)'
    PROVE  \/ ~Mine(i, r) /\ AppliedUpTo(r, m)
           \/ Mine(i, r) /\ m = i
<1>0. TypeOK
  BY DEF IInv
<1>1. /\ i \in DOMAIN sent /\ processed' = processed \cup {i} /\ sent' = sent
      /\ inOrder' = [inOrder EXCEPT ![sent[i].sub] = @ /\ AppliedInOrder(i, sent[i])]
  BY DEF Deliver, stripeVars
<1>2. /\ inOrder'[r] /\ Mine(m, r)
      /\ \A j \in DOMAIN sent : Mine(j, r) => (j \in processed \cup {i} <=> j <= m)
  BY <1>1 DEF AppliedUpTo, Mine
<1>3. CASE ~Mine(i, r)
  <2>1. \A j \in DOMAIN sent : Mine(j, r) => (j \in processed <=> j <= m)
    BY <1>2, <1>3
  <2>2. inOrder[r]
    BY <1>0, <1>1, <1>2, EventTyped DEF TypeOK
  <2>3. QED
    BY <1>2, <1>3, <2>1, <2>2 DEF AppliedUpTo
<1>4. CASE Mine(i, r)
  <2>1. r = sent[i].sub /\ Tells(sent[i])
    BY <1>4 DEF Mine
  <2>2. AppliedInOrder(i, sent[i])
    BY <1>0, <1>1, <1>2, <2>1 DEF TypeOK
  <2>3. \A j \in processed : Mine(j, r) => j < i
    BY <2>1, <2>2 DEF AppliedInOrder, Mine
  <2>4. m \in processed \cup {i} /\ i <= m
    <3>1. m <= m
      BY <1>0 DEF TypeOK
    <3>2. QED
      BY <1>1, <1>2, <1>4, <3>1
  <2>5. m = i
    BY <1>0, <1>2, <2>3, <2>4 DEF TypeOK, EventId
  <2>6. QED
    BY <1>4, <2>5
<1>5. QED
  BY <1>3, <1>4

\* A delivery keeps the ordering invariant.
LEMMA DeliverKeepsOrder ==
    ASSUME IInv, OrderInv, NEW i \in EventId, Deliver(i)
    PROVE  OrderInv'
<1>0. TypeOK /\ StripeIsLast /\ EventsFollow /\ MirrorsSoFar
  BY DEF IInv, OrderInv
<1>1. /\ i \in DOMAIN sent /\ i \notin processed /\ processed' = processed \cup {i}
      /\ Handle(i, sent[i]) /\ sent' = sent /\ stripe' = stripe
      /\ inOrder' = [inOrder EXCEPT ![sent[i].sub] = @ /\ AppliedInOrder(i, sent[i])]
  BY DEF Deliver, FirstSeen, stripeVars
<1>2. StripeIsLast' /\ EventsFollow'
  BY <1>0, <1>1 DEF StripeIsLast, EventsFollow, Precedes, Mine
<1>3. MirrorsSoFar'
  <2> SUFFICES ASSUME NEW r \in Sub, NEW m \in DOMAIN sent, AppliedUpTo(r, m)'
               PROVE  subs'[r] = sent[m].snapshot
    BY <1>1 DEF MirrorsSoFar
  <2>1. CASE ~Mine(i, r) /\ AppliedUpTo(r, m)
    <3>1. subs[r] = sent[m].snapshot
      BY <1>0, <2>1 DEF MirrorsSoFar
    <3>2. subs'[r] = subs[r]
      <4>1. CASE r # sent[i].sub
        BY <1>1, <4>1, Handled
      <4>2. CASE ~Tells(sent[i])
        BY <1>1, <4>2 DEF Tells, Handle, Deferred, CheckoutCompleted, bookVars
      <4>3. QED
        BY <2>1, <4>1, <4>2 DEF Mine
    <3>3. QED
      BY <3>1, <3>2
  <2>2. CASE Mine(i, r) /\ m = i
    <3>1. r = sent[i].sub /\ Tells(sent[i])
      BY <2>2 DEF Mine
    <3>2. QED
      BY <2>2, <3>1, DeliveredInOrder
  <2>3. QED
    BY <2>1, <2>2, LastApplied
<1>4. QED
  BY <1>2, <1>3 DEF OrderInv

\* The steps that touch neither events nor rows of subscriptions.
LEMMA OthersKeepOrder ==
    ASSUME OrderInv, UNCHANGED <<stripe, sent, processed, subs, inOrder>>
    PROVE  OrderInv'
<1>1. \A i \in DOMAIN sent : \A r : Mine(i, r)' <=> Mine(i, r)
  BY DEF Mine
<1>2. StripeIsLast'
  BY DEF OrderInv, StripeIsLast, Mine
<1>3. EventsFollow'
  BY DEF OrderInv, EventsFollow, Precedes, Mine
<1>4. MirrorsSoFar'
  BY DEF OrderInv, MirrorsSoFar, AppliedUpTo, Mine
<1>5. QED
  BY <1>2, <1>3, <1>4 DEF OrderInv

\* What Stripe does keeps the ordering invariant.
LEMMA StripeKeepsOrder ==
    ASSUME IInv, OrderInv, NEW s \in Sub,
           \/ \E t \in PaidTier, x \in Expanded : CompleteCheckout(s, t, x)
           \/ \E t \in PaidTier : ChangePlan(s, t)
           \/ \E l \in 0 .. MaxTime : Renew(s, l) \/ PaymentFails(s, l)
           \/ (\E n \in DOMAIN sent : PaymentRecovers(s, n)) \/ Cancel(s)
    PROVE  OrderInv'
<1>0. TypeOK /\ now \in 0 .. MaxTime /\ \A n \in DOMAIN sent : sent[n].line \in 0 .. MaxTime
  BY EventTyped DEF IInv, TypeOK
<1>1. {"active", "past_due", "canceled"} \subseteq Status
  BY DEF Status
<1>2. /\ <<"updated">> \in Seq(EventType) /\ <<"deleted">> \in Seq(EventType)
      /\ <<"updated", "paid">> \in Seq(EventType)
      /\ <<"updated", "payment_failed">> \in Seq(EventType)
      /\ <<"checkout", "created", "paid">> \in Seq(EventType)
  BY DEF EventType
<1>3. /\ \A x \in Subscription : WellEmitted(s, x, <<"updated">>)
      /\ \A x \in Subscription : WellEmitted(s, x, <<"updated", "paid">>)
      /\ \A x \in Subscription : x.status = "past_due" =>
            WellEmitted(s, x, <<"updated", "payment_failed">>)
      /\ \A x \in Subscription : WellEmitted(s, x, <<"checkout", "created", "paid">>)
  BY DEF WellEmitted
<1>4. ASSUME Live(s)
      PROVE  /\ stripe[s] \in Subscription /\ stripe[s] # NoSub
             /\ stripe[s].start \in 0 .. MaxTime
             /\ \A t \in PaidTier : [stripe[s] EXCEPT !.tier = t] \in Subscription
             /\ \A c \in Status : [stripe[s] EXCEPT !.status = c] \in Subscription
             /\ \A c \in Status :
                   /\ [stripe[s] EXCEPT !.status = c, !.start = now] \in Subscription
                   /\ [stripe[s] EXCEPT !.status = c, !.start = now].status = c
  <2>1. stripe[s] \in Subscription /\ stripe[s] # NoSub
    BY <1>0, <1>4 DEF Live, TypeOK
  <2>2. QED
    BY <1>0, <2>1 DEF Subscription
<1>5. ASSUME NEW t \in PaidTier, NEW x \in Expanded, CompleteCheckout(s, t, x)
      PROVE  OrderInv'
  <2>1. [tier |-> t, status |-> "active", start |-> now] \in Subscription /\ x \in BOOLEAN
    BY <1>0, PayloadAssumption DEF Subscription, Status
  <2>2. QED
    BY <1>0, <1>2, <1>3, <1>5, <2>1, EmitsKeepsOrder DEF CompleteCheckout
<1>6. ASSUME NEW t \in PaidTier, ChangePlan(s, t) PROVE OrderInv'
  BY <1>0, <1>2, <1>3, <1>4, <1>6, EmitsKeepsOrder DEF ChangePlan
<1>7. ASSUME NEW l \in 0 .. MaxTime, Renew(s, l) PROVE OrderInv'
  <2>1. /\ Live(s) /\ l \in 0 .. MaxTime
        /\ Emits(s, [stripe[s] EXCEPT !.status = "active", !.start = now],
                 <<"updated", "paid">>, FALSE, l)
    BY <1>7 DEF Renew
  <2>2. [stripe[s] EXCEPT !.status = "active", !.start = now] \in Subscription
    BY <1>1, <1>4, <2>1
  <2>3. QED
    BY <1>2, <1>3, <2>1, <2>2, EmitsKeepsOrder
<1>8. ASSUME NEW l \in 0 .. MaxTime, PaymentFails(s, l) PROVE OrderInv'
  <2> DEFINE x == [stripe[s] EXCEPT !.status = "past_due", !.start = now]
  <2>1. /\ Live(s) /\ l \in 0 .. MaxTime
        /\ Emits(s, x, <<"updated", "payment_failed">>, FALSE, l)
    BY <1>8 DEF PaymentFails
  <2>2. x \in Subscription /\ x.status = "past_due"
    BY <1>1, <1>4, <2>1
  <2> HIDE DEF x
  <2>3. QED
    BY <1>2, <1>3, <2>1, <2>2, EmitsKeepsOrder
<1>9. ASSUME NEW n \in DOMAIN sent, PaymentRecovers(s, n) PROVE OrderInv'
  <2>1. /\ Live(s) /\ sent[n].line \in 0 .. MaxTime
        /\ Emits(s, [stripe[s] EXCEPT !.status = "active"],
                 <<"updated", "paid">>, FALSE, sent[n].line)
    BY <1>0, <1>9 DEF PaymentRecovers
  <2>2. [stripe[s] EXCEPT !.status = "active"] \in Subscription
    BY <1>1, <1>4, <2>1
  <2>3. QED
    BY <1>2, <1>3, <2>1, <2>2, EmitsKeepsOrder
<1>10. CASE Cancel(s)
  <2>1. Live(s) /\ Emits(s, [stripe[s] EXCEPT !.status = "canceled"], <<"deleted">>, FALSE,
                         stripe[s].start)
    BY <1>10 DEF Cancel
  <2>2. WellEmitted(s, [stripe[s] EXCEPT !.status = "canceled"], <<"deleted">>)
    <3>1. /\ <<"deleted">> # << >> /\ Len(<<"deleted">>) = 1
          /\ \A n \in DOMAIN <<"deleted">> : n = 1 /\ <<"deleted">>[n] = "deleted"
      OBVIOUS
    <3>2. <<"deleted">>[1] = "deleted"
      OBVIOUS
    <3>3. stripe[s] # NoSub
      BY <1>4, <2>1
    <3>4. QED
      BY <3>1, <3>2, <3>3 DEF WellEmitted
  <2>3. QED
    BY <1>1, <1>2, <1>4, <2>1, <2>2, EmitsKeepsOrder
<1>11. QED
  BY <1>5, <1>6, <1>7, <1>8, <1>9, <1>10

\* Every step keeps the ordering invariant.
LEMMA OrderStep ==
    ASSUME IInv, OrderInv, [Next]_vars
    PROVE  OrderInv'
<1>1. ASSUME NEW s \in Sub, StartCheckout(s) PROVE OrderInv'
  BY <1>1, OthersKeepOrder DEF StartCheckout, bookVars
<1>2. ASSUME NEW k \in PeriodKey, Consume(k) PROVE OrderInv'
  BY <1>2, OthersKeepOrder DEF Consume, stripeVars
<1>3. CASE Tick \/ UNCHANGED vars
  BY <1>3, OthersKeepOrder DEF Tick, vars, stripeVars, bookVars
<1>4. QED
  BY <1>1, <1>2, <1>3, StripeKeepsOrder, DeliverKeepsOrder DEF Next

-----------------------------------------------------------------------------
(* The entitlements row of a subscription whose events came in order.      *)

\* The events that seed a period when they are applied in order: a payment, and an
\* update to another tier than the event before it told.
Seeds(i) ==
    \/ sent[i].type = "paid"
    \/ /\ sent[i].type = "updated"
       /\ \E j \in DOMAIN sent :
             Precedes(j, i) /\ sent[j].snapshot.tier # sent[i].snapshot.tier

\* They seed the period they tell of, unless an invoice begins with another's line.
Entitles(i) == Seeds(i) /\ (sent[i].type = "paid" => sent[i].line = sent[i].snapshot.start)

Entitled(s, x) ==
    /\ ents[<<s, x.start>>] # NoSub
    /\ ents[<<s, x.start>>].included = Quota[x.tier]

\* Whatever leaves a subscription active ends with such an event.
ActiveIsEntitled ==
    \A s \in Sub : stripe[s] # NoSub /\ stripe[s].status = "active" =>
        \E i \in DOMAIN sent :
            /\ Mine(i, s) /\ Seeds(i)
            /\ sent[i].snapshot = stripe[s]
            /\ \A j \in DOMAIN sent : Mine(j, s) => j <= i

EntitledSoFar ==
    \A s \in Sub : \A m \in DOMAIN sent :
        AppliedUpTo(s, m) /\ Entitles(m) => Entitled(s, sent[m].snapshot)

EntitleInv == ActiveIsEntitled /\ EntitledSoFar

\* What Stripe emits does not change what was said before.
LEMMA PastStays ==
    ASSUME TypeOK, NEW s \in Sub, NEW x \in Subscription,
           NEW types \in Seq(EventType), NEW exp \in BOOLEAN, NEW line \in 0 .. MaxTime,
           Emits(s, x, types, exp, line), NEW i \in DOMAIN sent
    PROVE  /\ i \in DOMAIN sent' /\ sent'[i] = sent[i]
           /\ \A r : Mine(i, r)' <=> Mine(i, r)
           /\ \A j \in DOMAIN sent : Precedes(j, i)' <=> Precedes(j, i)
           /\ Seeds(i)' <=> Seeds(i)
           /\ Entitles(i)' <=> Entitles(i)
<1>1. /\ Len(sent) \in Nat /\ DOMAIN sent = 1 .. Len(sent)
      /\ DOMAIN sent' = 1 .. Len(sent) + Len(types)
      /\ \A k \in DOMAIN sent : sent'[k] = sent[k]
  BY EmittedTail
<1>2. Len(types) \in Nat
  OBVIOUS
<1>3. DOMAIN sent \subseteq DOMAIN sent'
  BY <1>1, <1>2
<1>4. ASSUME NEW k \in DOMAIN sent, NEW r PROVE Mine(k, r)' <=> Mine(k, r)
  <2>1. sent'[k] = sent[k]
    BY <1>1
  <2>2. QED
    BY <2>1 DEF Mine, Tells
<1>5. \A k \in DOMAIN sent' : k < i => k \in DOMAIN sent
  BY <1>1, <1>2
<1>6. ASSUME NEW j \in DOMAIN sent PROVE Precedes(j, i)' <=> Precedes(j, i)
  <2>1. sent'[i].sub = sent[i].sub
    BY <1>1
  <2>2. \A k \in DOMAIN sent : Mine(k, sent[i].sub)' <=> Mine(k, sent[i].sub)
    BY <1>4, <2>1 DEF Mine
  <2>3. QED
    BY <1>3, <1>5, <2>1, <2>2 DEF Precedes
<1>7. Seeds(i)' <=> Seeds(i)
  <2>1. \A j \in DOMAIN sent' : Precedes(j, i)' => j \in DOMAIN sent
    BY <1>5 DEF Precedes
  <2>2. QED
    BY <1>1, <1>3, <1>6, <2>1 DEF Seeds
<1>8. QED
  BY <1>1, <1>3, <1>4, <1>6, <1>7 DEF Entitles

\* What Stripe emits keeps the invariant, if what leaves a subscription active
\* ends with a payment or is a change of its tier.
LEMMA EmitsKeepsEntitled ==
    ASSUME IInv, OrderInv, EntitleInv, NEW s \in Sub, NEW x \in Subscription,
           NEW types \in Seq(EventType), NEW exp \in BOOLEAN, NEW line \in 0 .. MaxTime,
           Emits(s, x, types, exp, line), types # << >>,
           x.status = "active" =>
               \/ types[Len(types)] = "paid"
               \/ /\ types[Len(types)] = "updated" /\ Len(types) = 1
                  /\ stripe[s] # NoSub /\ stripe[s].tier # x.tier
    PROVE  EntitleInv'
<1>0. TypeOK /\ StripeIsLast /\ ActiveIsEntitled /\ EntitledSoFar
  BY DEF IInv, OrderInv, EntitleInv
<1>1. PICK n0 : n0 = Len(sent)
  OBVIOUS
<1>2. /\ n0 \in Nat /\ DOMAIN sent = 1 .. n0
      /\ DOMAIN sent' = 1 .. n0 + Len(types)
      /\ \A n \in DOMAIN types :
            /\ n0 + n \in DOMAIN sent'
            /\ sent'[n0 + n] = [type |-> types[n], sub |-> s, snapshot |-> x,
                                expanded |-> exp, line |-> line]
      /\ \A i \in DOMAIN sent' \ DOMAIN sent :
            i - n0 \in DOMAIN types /\ i = n0 + (i - n0)
  BY <1>0, <1>1, EmittedTail
<1>3. /\ stripe' = [stripe EXCEPT ![s] = x]
      /\ processed' = processed /\ inOrder' = inOrder /\ ents' = ents
  BY DEF Emits, bookVars
<1>4. Len(types) \in Nat \ {0} /\ DOMAIN types = 1 .. Len(types)
  OBVIOUS
<1>5. ASSUME NEW n \in DOMAIN types
      PROVE  /\ sent'[n0 + n].type = types[n] /\ sent'[n0 + n].sub = s
             /\ sent'[n0 + n].snapshot = x
  <2>1. sent'[n0 + n] = [type |-> types[n], sub |-> s, snapshot |-> x,
                         expanded |-> exp, line |-> line]
    BY <1>2
  <2>2. QED
    BY <2>1
<1>6. ASSUME NEW i \in DOMAIN sent' \ DOMAIN sent, NEW r, Mine(i, r)' PROVE r = s
  <2>1. i - n0 \in DOMAIN types /\ i = n0 + (i - n0)
    BY <1>2
  <2>2. sent'[i].sub = s
    BY <1>5, <2>1
  <2>3. QED
    BY <1>6, <2>2 DEF Mine
<1>7. ActiveIsEntitled'
  <2>1. ASSUME NEW r \in Sub, r # s, stripe'[r] # NoSub, stripe'[r].status = "active"
        PROVE  \E i \in DOMAIN sent' :
                  /\ Mine(i, r)' /\ Seeds(i)'
                  /\ sent'[i].snapshot = stripe'[r]
                  /\ \A j \in DOMAIN sent' : Mine(j, r)' => j <= i
    <3>1. stripe'[r] = stripe[r]
      BY <1>0, <1>3, <2>1 DEF TypeOK
    <3>2. PICK i \in DOMAIN sent :
              /\ Mine(i, r) /\ Seeds(i) /\ sent[i].snapshot = stripe[r]
              /\ \A j \in DOMAIN sent : Mine(j, r) => j <= i
      BY <1>0, <2>1, <3>1 DEF ActiveIsEntitled
    <3>3. i \in DOMAIN sent' /\ sent'[i] = sent[i] /\ Mine(i, r)' /\ Seeds(i)'
      BY <1>0, <3>2, PastStays
    <3>4. \A j \in DOMAIN sent' : Mine(j, r)' => j <= i
      BY <1>0, <1>6, <2>1, <3>2, PastStays
    <3>5. QED
      BY <3>1, <3>2, <3>3, <3>4
  <2>2. ASSUME x.status = "active"
        PROVE  \E i \in DOMAIN sent' :
                  /\ Mine(i, s)' /\ Seeds(i)'
                  /\ sent'[i].snapshot = x
                  /\ \A j \in DOMAIN sent' : Mine(j, s)' => j <= i
    <3> DEFINE last == n0 + Len(types)
    <3>1. /\ last \in DOMAIN sent' /\ last \in Nat
          /\ sent'[last].type = types[Len(types)] /\ sent'[last].sub = s
          /\ sent'[last].snapshot = x
      BY <1>2, <1>4, <1>5
    <3>2. \A j \in DOMAIN sent' : j <= last
      BY <1>2, <1>4
    <3>3. Mine(last, s)'
      BY <2>2, <3>1 DEF Mine, Tells
    <3>4. CASE types[Len(types)] = "paid"
      BY <3>1, <3>2, <3>3, <3>4 DEF Seeds
    <3>5. CASE /\ types[Len(types)] = "updated" /\ Len(types) = 1
               /\ stripe[s] # NoSub /\ stripe[s].tier # x.tier
      <4>1. PICK j \in DOMAIN sent :
                /\ Mine(j, s) /\ sent[j].snapshot = stripe[s]
                /\ \A k \in DOMAIN sent : Mine(k, s) => k <= j
        BY <1>0, <3>5 DEF StripeIsLast
      <4>2. j \in DOMAIN sent' /\ sent'[j] = sent[j] /\ Mine(j, s)'
        BY <1>0, <4>1, PastStays
      <4>3. j < last /\ \A k \in DOMAIN sent' : k < last => k \in DOMAIN sent
        BY <1>2, <3>5
      <4>4. \A k \in DOMAIN sent' : Mine(k, s)' /\ k < last => k <= j
        BY <1>0, <4>1, <4>3, PastStays
      <4>5. Precedes(j, last)'
        BY <3>1, <4>2, <4>3, <4>4 DEF Precedes
      <4>6. Seeds(last)'
        BY <3>1, <3>5, <4>1, <4>2, <4>5 DEF Seeds
      <4>7. QED
        BY <3>1, <3>2, <3>3, <4>6
    <3>6. QED
      BY <2>2, <3>4, <3>5
  <2>3. stripe'[s] = x
    BY <1>0, <1>3 DEF TypeOK
  <2>4. QED
    BY <2>1, <2>2, <2>3 DEF ActiveIsEntitled
<1>8. EntitledSoFar'
  <2> SUFFICES ASSUME NEW r \in Sub, NEW m \in DOMAIN sent',
                      AppliedUpTo(r, m)', Entitles(m)'
               PROVE  Entitled(r, sent[m].snapshot)' /\ sent'[m] = sent[m]
    BY DEF EntitledSoFar, Entitled
  <2>1. m \in processed
    BY <1>2, <1>3, <1>4 DEF AppliedUpTo
  <2>2. m \in DOMAIN sent
    BY <1>0, <2>1 DEF TypeOK
  <2>3. sent'[m] = sent[m] /\ Entitles(m)
    BY <1>0, <2>2, PastStays
  <2>4. AppliedUpTo(r, m)
    BY <1>0, <1>3, <2>2, PastStays DEF AppliedUpTo
  <2>5. Entitled(r, sent[m].snapshot)
    BY <1>0, <2>2, <2>3, <2>4 DEF EntitledSoFar
  <2>6. QED
    BY <1>3, <2>3, <2>5 DEF Entitled
<1>9. QED
  BY <1>7, <1>8 DEF EntitleInv

\* A handler leaves the entitlements of every other subscription alone, and those
\* of its own unless the event tells of it.
LEMMA OthersEntitlements ==
    ASSUME IInv, NEW i \in EventId, i \in DOMAIN sent, Handle(i, sent[i]),
           NEW r \in Sub, ~Mine(i, r), NEW t \in 0 .. MaxTime
    PROVE  ents'[<<r, t>>] = ents[<<r, t>>]
<1> DEFINE e == sent[i]
<1>0. TypeOK
  BY DEF IInv
<1>1. e.sub \in Sub /\ e.snapshot \in Subscription
  BY <1>0, EventTyped
<1>2. /\ e.snapshot.start \in 0 .. MaxTime /\ <<r, t>> \in PeriodKey
      /\ <<e.sub, e.snapshot.start>> \in PeriodKey /\ <<"free", i>> \in PeriodKey
  BY <1>1 DEF PeriodKey, Subscription
<1>3. ents \in [PeriodKey -> Entitlement \cup {NoSub}]
  BY <1>0 DEF TypeOK
<1>4. CASE UNCHANGED ents
  BY <1>4
<1>5. ASSUME Tells(e), NEW tier, NEW start, NEW end, Seed(i, tier, <<e.sub, start>>, end)
      PROVE  ents'[<<r, t>>] = ents[<<r, t>>]
  <2>1. <<e.sub, start>> # <<r, t>>
    BY <1>5 DEF Mine
  <2>2. QED
    BY <1>2, <1>3, <1>5, <2>1 DEF Seed
<1>6. ASSUME Seed(i, "free", <<"free", i>>, now + FreePeriod)
      PROVE  ents'[<<r, t>>] = ents[<<r, t>>]
  <2>1. <<"free", i>> # <<r, t>>
    BY SubAssumption
  <2>2. QED
    BY <1>2, <1>3, <1>6, <2>1 DEF Seed
<1>7. CASE e.type = "checkout" /\ CheckoutCompleted(i, e)
  BY <1>4, <1>5, <1>7 DEF CheckoutCompleted, SeedPaid, Tells
<1>8. CASE e.type \in {"created", "updated"} /\ SubscriptionUpdated(i, e)
  BY <1>4, <1>5, <1>8 DEF SubscriptionUpdated, SeedPaid, Tells
<1>9. CASE e.type = "deleted" /\ SubscriptionDeleted(i, e)
  BY <1>6, <1>9 DEF SubscriptionDeleted
<1>10. CASE e.type = "paid" /\ InvoicePaid(i, e)
  BY <1>5, <1>10 DEF InvoicePaid, Tells
<1>11. CASE e.type = "payment_failed" /\ PaymentFailed(e)
  BY <1>4, <1>11 DEF PaymentFailed
<1>12. CASE Deferred(e)
  BY <1>4, <1>12 DEF Deferred, bookVars
<1>13. QED
  BY <1>7, <1>8, <1>9, <1>10, <1>11, <1>12 DEF Handle

\* Seeding a period entitles its subscription to the tier's quota.
LEMMA SeedEntitles ==
    ASSUME TypeOK, NEW i \in EventId, NEW s \in Sub, NEW x \in Subscription,
           SeedPaid(i, x.tier, s, x.start)
    PROVE  Entitled(s, x)'
<1>1. <<s, x.start>> \in PeriodKey /\ x.tier \in PaidTier
  BY DEF PeriodKey, Subscription
<1>2. ents \in [PeriodKey -> Entitlement \cup {NoSub}]
  BY DEF TypeOK
<1>3. ents'[<<s, x.start>>] = [included |-> Quota[x.tier], remaining |-> Quota[x.tier],
                               overage |-> Overage[x.tier], end |-> x.start + Period]
  BY <1>1, <1>2 DEF SeedPaid, Seed
<1>4. x.start + Period \in Nat /\ Quota[x.tier] \in Nat /\ Overage[x.tier] \in BOOLEAN
  BY <1>1, TierAssumption, BoundAssumption DEF Subscription
<1>5. ents'[<<s, x.start>>] # NoSub
  BY <1>3, <1>4, RowAssumption DEF Entitlement
<1>6. QED
  BY <1>3, <1>5 DEF Entitled

\* A delivery keeps the rows of the periods in order.
LEMMA DeliverKeepsEntitled ==
    ASSUME IInv, OrderInv, EntitleInv, NEW i \in EventId, Deliver(i)
    PROVE  EntitleInv'
<1> DEFINE e == sent[i]
<1>0. TypeOK /\ EventsFollow /\ ActiveIsEntitled /\ EntitledSoFar
  BY DEF IInv, OrderInv, EntitleInv
<1>1. i \in DOMAIN sent /\ Handle(i, e) /\ sent' = sent /\ stripe' = stripe
  BY DEF Deliver, stripeVars
<1>2. ActiveIsEntitled'
  BY <1>0, <1>1 DEF ActiveIsEntitled, Seeds, Precedes, Mine
<1>3. ASSUME NEW r \in Sub, NEW m \in DOMAIN sent, AppliedUpTo(r, m)', Entitles(m)
      PROVE  Entitled(r, sent[m].snapshot)'
  <2>1. CASE ~Mine(i, r) /\ AppliedUpTo(r, m)
    <3>1. Entitled(r, sent[m].snapshot)
      BY <1>0, <1>3, <2>1 DEF EntitledSoFar
    <3>2. sent[m].snapshot.start \in 0 .. MaxTime
      BY <1>0, EventTyped DEF Subscription
    <3>3. ents'[<<r, sent[m].snapshot.start>>] = ents[<<r, sent[m].snapshot.start>>]
      BY <1>1, <2>1, <3>2, OthersEntitlements
    <3>4. QED
      BY <1>1, <3>1, <3>3 DEF Entitled
  <2>2. CASE Mine(i, r) /\ m = i
    <3>1. r = e.sub /\ Tells(e) /\ e.snapshot \in Subscription
      BY <1>0, <1>1, <2>2, EventTyped DEF Mine
    <3>2. /\ e.type = "checkout" \/ KnownCustomer(e)
          /\ \A j \in DOMAIN sent : Precedes(j, i) => subs[r] = sent[j].snapshot
      BY <1>3, <2>2, <3>1, FoundInOrder
    <3>3. CASE e.type = "paid"
      <4>1. PICK j \in DOMAIN sent : Precedes(j, i) /\ e.snapshot = sent[j].snapshot
        BY <1>0, <1>1, <3>3 DEF EventsFollow
      <4>2. subs[r] = e.snapshot /\ subs[r] # NoSub
        BY <3>1, <3>2, <4>1, SubAssumption DEF Subscription, Status
      <4>3. InvoicePaid(i, e)
        BY <1>1, <3>1, <3>2, <3>3, <4>2 DEF Handle, Deferred
      <4>4. SeedPaid(i, e.snapshot.tier, r, e.snapshot.start)
        BY <1>3, <2>2, <3>1, <3>3, <4>2, <4>3 DEF InvoicePaid, Entitles, LineEnd, SeedPaid
      <4>5. QED
        BY <1>0, <1>1, <2>2, <3>1, <4>4, SeedEntitles DEF Entitled
    <3>4. CASE /\ e.type = "updated"
               /\ \E j \in DOMAIN sent :
                     Precedes(j, i) /\ sent[j].snapshot.tier # e.snapshot.tier
      <4>1. PICK j \in DOMAIN sent :
                Precedes(j, i) /\ sent[j].snapshot.tier # e.snapshot.tier
        BY <3>4
      <4>2. subs[r] = sent[j].snapshot
        BY <3>2, <4>1
      <4>3. subs[r] # NoSub
        BY <1>0, <4>2, EventTyped, SubAssumption DEF Subscription, Status
      <4>4. PreviousTier(e) # e.snapshot.tier
        BY <3>1, <4>1, <4>2, <4>3 DEF PreviousTier
      <4>5. SubscriptionUpdated(i, e)
        BY <1>1, <3>2, <3>4 DEF Handle, Deferred
      <4>6. SeedPaid(i, e.snapshot.tier, r, e.snapshot.start)
        BY <3>1, <4>4, <4>5 DEF SubscriptionUpdated
      <4>7. QED
        BY <1>0, <1>1, <2>2, <3>1, <4>6, SeedEntitles DEF Entitled
    <3>5. QED
      BY <1>3, <2>2, <3>3, <3>4 DEF Entitles, Seeds
  <2>3. QED
    BY <1>3, <2>1, <2>2, LastApplied
<1>4. EntitledSoFar'
  BY <1>1, <1>3 DEF EntitledSoFar, Entitles, Seeds, Precedes, Mine, Entitled
<1>5. QED
  BY <1>2, <1>4 DEF EntitleInv

\* Consumption lowers what remains of a row, never what it includes.
LEMMA ConsumeKeepsEntitled ==
    ASSUME IInv, EntitleInv, NEW k \in PeriodKey, Consume(k)
    PROVE  EntitleInv'
<1>0. TypeOK /\ ActiveIsEntitled /\ EntitledSoFar
  BY DEF IInv, EntitleInv
<1>1. UNCHANGED <<stripe, sent, processed, inOrder>>
  BY DEF Consume, stripeVars
<1>2. ASSUME NEW y \in PeriodKey, ents[y] # NoSub
      PROVE  ents'[y] # NoSub /\ ents'[y].included = ents[y].included
  <2>1. ents[y] \in Entitlement
    BY <1>0, <1>2 DEF TypeOK
  <2>2. \/ ents'[y] = ents[y]
        \/ ents'[y] = [ents[y] EXCEPT !.remaining = @ - 1]
    BY DEF Consume
  <2>3. /\ [ents[y] EXCEPT !.remaining = @ - 1] \in Entitlement
        /\ [ents[y] EXCEPT !.remaining = @ - 1].included = ents[y].included
    BY <2>1 DEF Entitlement
  <2>4. QED
    BY <1>2, <2>2, <2>3, RowAssumption
<1>3. ActiveIsEntitled'
  BY <1>0, <1>1 DEF ActiveIsEntitled, Seeds, Precedes, Mine
<1>4. EntitledSoFar'
  <2> SUFFICES ASSUME NEW r \in Sub, NEW m \in DOMAIN sent,
                      AppliedUpTo(r, m)', Entitles(m)'
               PROVE  Entitled(r, sent[m].snapshot)'
    BY <1>1 DEF EntitledSoFar, Entitled
  <2>1. AppliedUpTo(r, m) /\ Entitles(m)
    BY <1>1 DEF AppliedUpTo, Entitles, Seeds, Precedes, Mine
  <2>2. Entitled(r, sent[m].snapshot)
    BY <1>0, <2>1 DEF EntitledSoFar
  <2>3. <<r, sent[m].snapshot.start>> \in PeriodKey
    BY <1>0, EventTyped DEF PeriodKey, Subscription
  <2>4. QED
    BY <1>1, <1>2, <2>2, <2>3 DEF Entitled
<1>5. QED
  BY <1>3, <1>4 DEF EntitleInv

\* What Stripe does keeps it: a subscription is left active by a purchase, a
\* renewal or a recovered payment, each of which ends with "paid", or by a change
\* of its plan.
LEMMA StripeKeepsEntitled ==
    ASSUME IInv, OrderInv, EntitleInv, NEW s \in Sub,
           \/ \E t \in PaidTier, x \in Expanded : CompleteCheckout(s, t, x)
           \/ \E t \in PaidTier : ChangePlan(s, t)
           \/ \E l \in 0 .. MaxTime : Renew(s, l) \/ PaymentFails(s, l)
           \/ (\E n \in DOMAIN sent : PaymentRecovers(s, n)) \/ Cancel(s)
    PROVE  EntitleInv'
<1>0. TypeOK /\ now \in 0 .. MaxTime /\ \A n \in DOMAIN sent : sent[n].line \in 0 .. MaxTime
  BY EventTyped DEF IInv, TypeOK
<1>1. {"active", "past_due", "canceled"} = Status
  BY DEF Status
<1>2. /\ <<"updated">> \in Seq(EventType) /\ <<"deleted">> \in Seq(EventType)
      /\ <<"updated", "paid">> \in Seq(EventType)
      /\ <<"updated", "payment_failed">> \in Seq(EventType)
      /\ <<"checkout", "created", "paid">> \in Seq(EventType)
  BY DEF EventType
<1>3. ASSUME Live(s)
      PROVE  /\ stripe[s] \in Subscription /\ stripe[s] # NoSub
             /\ stripe[s].start \in 0 .. MaxTime
             /\ \A t \in PaidTier : /\ [stripe[s] EXCEPT !.tier = t] \in Subscription
                                    /\ [stripe[s] EXCEPT !.tier = t].tier = t
             /\ \A c \in Status : /\ [stripe[s] EXCEPT !.status = c] \in Subscription
                                  /\ [stripe[s] EXCEPT !.status = c].status = c
             /\ \A c \in Status :
                   /\ [stripe[s] EXCEPT !.status = c, !.start = now] \in Subscription
                   /\ [stripe[s] EXCEPT !.status = c, !.start = now].status = c
  <2>1. stripe[s] \in Subscription /\ stripe[s] # NoSub
    BY <1>0, <1>3 DEF Live, TypeOK
  <2>2. QED
    BY <1>0, <2>1 DEF Subscription
<1>4. ASSUME NEW t \in PaidTier, NEW x \in Expanded, CompleteCheckout(s, t, x)
      PROVE  EntitleInv'
  <2>1. [tier |-> t, status |-> "active", start |-> now] \in Subscription /\ x \in BOOLEAN
    BY <1>0, PayloadAssumption DEF Subscription, Status
  <2>2. QED
    BY <1>0, <1>2, <1>4, <2>1, EmitsKeepsEntitled DEF CompleteCheckout
<1>5. ASSUME NEW t \in PaidTier, ChangePlan(s, t) PROVE EntitleInv'
  BY <1>0, <1>2, <1>3, <1>5, EmitsKeepsEntitled DEF ChangePlan
<1>6. ASSUME NEW l \in 0 .. MaxTime, Renew(s, l) PROVE EntitleInv'
  BY <1>0, <1>1, <1>2, <1>3, <1>6, EmitsKeepsEntitled DEF Renew
<1>7. ASSUME NEW l \in 0 .. MaxTime, PaymentFails(s, l) PROVE EntitleInv'
  BY <1>0, <1>1, <1>2, <1>3, <1>7, EmitsKeepsEntitled DEF PaymentFails
<1>8. ASSUME NEW n \in DOMAIN sent, PaymentRecovers(s, n) PROVE EntitleInv'
  BY <1>0, <1>1, <1>2, <1>3, <1>8, EmitsKeepsEntitled DEF PaymentRecovers
<1>9. CASE Cancel(s)
  BY <1>0, <1>1, <1>2, <1>3, <1>9, EmitsKeepsEntitled DEF Cancel
<1>10. QED
  BY <1>4, <1>5, <1>6, <1>7, <1>8, <1>9

\* The steps that touch neither events nor entitlements.
LEMMA OthersKeepEntitled ==
    ASSUME EntitleInv, UNCHANGED <<stripe, sent, processed, ents, inOrder>>
    PROVE  EntitleInv'
<1>1. ActiveIsEntitled'
  BY DEF EntitleInv, ActiveIsEntitled, Seeds, Precedes, Mine
<1>2. EntitledSoFar'
  BY DEF EntitleInv, EntitledSoFar, AppliedUpTo, Entitles, Seeds, Precedes, Mine, Entitled
<1>3. QED
  BY <1>1, <1>2 DEF EntitleInv

\* Every step keeps the rows of the periods in order.
LEMMA EntitleStep ==
    ASSUME IInv, OrderInv, EntitleInv, [Next]_vars
    PROVE  EntitleInv'
<1>1. ASSUME NEW s \in Sub, StartCheckout(s) PROVE EntitleInv'
  BY <1>1, OthersKeepEntitled DEF StartCheckout, bookVars
<1>2. CASE Tick \/ UNCHANGED vars
  BY <1>2, OthersKeepEntitled DEF Tick, vars, stripeVars, bookVars
<1>3. QED
  BY <1>1, <1>2, ConsumeKeepsEntitled, StripeKeepsEntitled, DeliverKeepsEntitled DEF Next

-----------------------------------------------------------------------------
(* Results.                                                                *)

\* The invariant holds initially.
LEMMA InitInv == Init => IInv
<1> SUFFICES ASSUME Init PROVE IInv
  OBVIOUS
<1>1. TypeOK
  BY BoundAssumption DEF Init, TypeOK, Tier
<1>2. NothingBeforePurchase /\ EndIsFinal /\ BooksFromStripe
  BY DEF Init, NothingBeforePurchase, EndIsFinal, BooksFromStripe
<1>3. QED
  BY <1>1, <1>2 DEF IInv

\* The invariant holds in every reachable state.
LEMMA InvHolds == Spec => []IInv
<1>1. IInv /\ [Next]_vars => IInv'
  BY StartCheckoutKeeps, CompleteCheckoutKeeps, StripeKeeps, DeliverKeeps, ConsumeKeeps,
     TickKeeps DEF Next
<1>2. QED
  BY <1>1, InitInv, PTL DEF Spec

\* Every variable keeps its type, whatever Stripe sends and in whatever order.
THEOREM TypeCorrect == Spec => []TypeOK
<1>1. IInv => TypeOK
  BY DEF IInv
<1>2. QED
  BY <1>1, InvHolds, PTL

\* A row of the subscriptions table always carries the plan and the period of an
\* event applied to it, and says canceled only of a canceled subscription.
THEOREM BooksExplained == Spec => []BooksFromStripe
<1>1. IInv => BooksFromStripe
  BY DEF IInv
<1>2. QED
  BY <1>1, InvHolds, PTL

\* So does the ordering invariant.
LEMMA OrderHolds == Spec => []OrderInv
<1>1. Init => OrderInv
  BY DEF Init, OrderInv, StripeIsLast, EventsFollow, MirrorsSoFar
<1>2. IInv /\ OrderInv /\ [Next]_vars => OrderInv'
  BY OrderStep
<1>3. QED
  BY <1>1, <1>2, InvHolds, PTL DEF Spec

\* The last event of a subscription with all its events applied in order is the
\* last one applied, and tells what Stripe keeps.
LEMMA LastTold ==
    ASSUME OrderInv, NEW s \in Sub, stripe[s] # NoSub, inOrder[s], AllApplied(s),
           NEW i \in DOMAIN sent, Mine(i, s),
           \A j \in DOMAIN sent : Mine(j, s) => j <= i
    PROVE  AppliedUpTo(s, i)
<1>1. \A j \in DOMAIN sent : Mine(j, s) => j \in processed
  BY DEF AllApplied, Mine
<1>2. QED
  BY <1>1 DEF AppliedUpTo

\* The stripe_events table stops duplicates, but imposes no order.  A subscription
\* whose events were all applied in Stripe's order, each after its customer was
\* bound, has exactly Stripe's plan, period and status in its row.
THEOREM InOrderBooksAgree == Spec => []BooksAgree
<1>1. OrderInv => BooksAgree
  <2> SUFFICES ASSUME OrderInv, NEW s \in Sub,
                      stripe[s] # NoSub, inOrder[s], AllApplied(s)
               PROVE  subs[s] = stripe[s]
    BY DEF BooksAgree
  <2>1. PICK i \in DOMAIN sent :
            /\ Mine(i, s) /\ sent[i].snapshot = stripe[s]
            /\ \A j \in DOMAIN sent : Mine(j, s) => j <= i
    BY DEF OrderInv, StripeIsLast
  <2>2. AppliedUpTo(s, i)
    BY <2>1, LastTold
  <2>3. QED
    BY <2>1, <2>2 DEF OrderInv, MirrorsSoFar
<1>2. QED
  BY <1>1, OrderHolds, PTL

\* What was paid for is granted, as long as invoices begin with a line of the period
\* they are for: an active subscription whose events were all applied in order has,
\* for the period Stripe bills, an entitlements row with the quota of the tier Stripe
\* bills, although only invoice.paid and a change of tier seed one.
THEOREM PaidPeriodsEntitled == Spec => []PaidPeriodEntitled
<1>1. Init => EntitleInv
  BY DEF Init, EntitleInv, ActiveIsEntitled, EntitledSoFar
<1>2. OrderInv /\ EntitleInv => PaidPeriodEntitled
  <2> SUFFICES ASSUME OrderInv, EntitleInv, NEW s \in Sub,
                      Live(s), stripe[s].status = "active", inOrder[s], AllApplied(s),
                      ~Misdated(s)
               PROVE  Entitled(s, stripe[s])
    BY DEF PaidPeriodEntitled, Entitled
  <2>1. PICK i \in DOMAIN sent :
            /\ Mine(i, s) /\ Seeds(i) /\ sent[i].snapshot = stripe[s]
            /\ \A j \in DOMAIN sent : Mine(j, s) => j <= i
    BY DEF EntitleInv, ActiveIsEntitled, Live
  <2>2. AppliedUpTo(s, i)
    BY <2>1, LastTold DEF Live
  <2>3. Entitles(i)
    BY <2>1 DEF Misdated, Mine, Entitles
  <2>4. QED
    BY <2>1, <2>2, <2>3 DEF EntitleInv, EntitledSoFar
<1>3. IInv /\ OrderInv /\ EntitleInv /\ [Next]_vars => EntitleInv'
  BY EntitleStep
<1>4. QED
  BY <1>1, <1>2, <1>3, InvHolds, OrderHolds, PTL DEF Spec

-----------------------------------------------------------------------------
(* No more is served than was granted.                                     *)

\* Units an entitlements row still has.
LeftIn(e) == IF e = NoSub \/ e.remaining <= 0 THEN 0 ELSE e.remaining
Left == [k \in PeriodKey |-> LeftIn(ents[k])]

\* What was served and what is left was granted, by distinct events.
QuotaInv ==
    /\ \A i \in EventId \ processed : grants[i] = 0
    /\ included + SumFunctionOnSet(Left, PeriodKey) <= SumFunctionOnSet(grants, EventId)

\* There are finitely many periods and events.
LEMMA KeysFinite == IsFiniteSet(PeriodKey) /\ IsFiniteSet(EventId)
<1>1. /\ IsFiniteSet(0 .. MaxTime) /\ IsFiniteSet(EventId)
      /\ IsFiniteSet(Sub) /\ IsFiniteSet({"free"})
  <2>1. 0 \in Int /\ 1 \in Int /\ MaxTime \in Int /\ MaxEvents \in Int
    BY BoundAssumption
  <2>2. IsFiniteSet(0 .. MaxTime) /\ IsFiniteSet(1 .. MaxEvents)
    BY <2>1, FS_Interval
  <2>3. IsFiniteSet({"free"})
    BY FS_Singleton
  <2>4. QED
    BY <2>2, <2>3, SubAssumption DEF EventId
<1>2. IsFiniteSet(Sub \X (0 .. MaxTime)) /\ IsFiniteSet({"free"} \X EventId)
  BY <1>1, FS_Product
<1>3. IsFiniteSet((Sub \X (0 .. MaxTime)) \cup ({"free"} \X EventId))
  <2> DEFINE paid == Sub \X (0 .. MaxTime)
             free == {"free"} \X EventId
  <2>1. IsFiniteSet(paid) /\ IsFiniteSet(free)
    BY <1>2
  <2> HIDE DEF paid, free
  <2>2. IsFiniteSet(paid \cup free)
    BY <2>1, FS_Union
  <2>3. QED
    BY <2>2 DEF paid, free
<1>4. QED
  BY <1>1, <1>3 DEF PeriodKey

\* What is left is counted in natural numbers.
LEMMA LeftType ==
    ASSUME NEW e \in Entitlement \cup {NoSub}
    PROVE  LeftIn(e) \in Nat
BY DEF LeftIn, Entitlement

\* Both sums are natural numbers.
LEMMA SumsTyped ==
    ASSUME TypeOK
    PROVE  /\ SumFunctionOnSet(Left, PeriodKey) \in Int
           /\ SumFunctionOnSet(Left, PeriodKey) >= 0
           /\ SumFunctionOnSet(grants, EventId) \in Int
<1>1. \A k \in PeriodKey : Left[k] \in Nat
  BY LeftType DEF Left, TypeOK
<1>2. \A i \in EventId : grants[i] \in Nat
  BY DEF TypeOK
<1>3. QED
  BY <1>1, <1>2, KeysFinite, SumType

\* A seed leaves at most its quota more than there was, and grants its quota.
LEMMA SeedKeepsQuota ==
    ASSUME TypeOK, TypeOK', QuotaInv, NEW i \in EventId, i \notin processed,
           processed' = processed \cup {i}, included' = included,
           NEW t \in Tier, NEW key \in PeriodKey, NEW end \in Nat, Seed(i, t, key, end)
    PROVE  QuotaInv'
<1> DEFINE before == SumFunctionOnSet(Left, PeriodKey)
           after == SumFunctionOnSet(Left', PeriodKey)
           granted == SumFunctionOnSet(grants, EventId)
           grantedNow == SumFunctionOnSet(grants', EventId)
<1>1. /\ ents' = [ents EXCEPT ![key] = [included |-> Quota[t], remaining |-> Quota[t],
                                        overage |-> Overage[t], end |-> end]]
      /\ grants' = [grants EXCEPT ![i] = Quota[t]]
      /\ ents \in [PeriodKey -> Entitlement \cup {NoSub}]
      /\ ents' \in [PeriodKey -> Entitlement \cup {NoSub}]
      /\ grants \in [EventId -> Nat] /\ grants' \in [EventId -> Nat]
      /\ Quota[t] \in Nat /\ included \in Nat
  BY TierAssumption DEF Seed, TypeOK, Tier
<1>2. \A k \in PeriodKey : Left[k] \in Nat /\ Left'[k] \in Nat
  BY <1>1, LeftType DEF Left
<1>3. \A k \in PeriodKey \ {key} : Left[k] = Left'[k]
  BY <1>1 DEF Left
<1>4. Left'[key] = Quota[t]
  <2>1. ents'[key] = [included |-> Quota[t], remaining |-> Quota[t],
                      overage |-> Overage[t], end |-> end]
    BY <1>1
  <2>2. ents'[key].remaining = Quota[t]
    BY <2>1
  <2>3. ents'[key] # NoSub
    <3> SUFFICES ASSUME ents'[key] = NoSub PROVE FALSE
      OBVIOUS
    <3>1. Overage[t] \in BOOLEAN
      BY TierAssumption DEF Tier
    <3>2. QED
      BY <1>1, <2>1, <3>1, RowAssumption DEF Entitlement
  <2>4. QED
    BY <1>1, <2>2, <2>3 DEF Left, LeftIn
<1>5. after = before + Quota[t] - Left[key]
  BY <1>2, <1>3, <1>4, KeysFinite, SumChange
<1>6. grantedNow = granted + Quota[t] - 0
  <2>1. grants[i] = 0 /\ grants'[i] = Quota[t]
    BY <1>1 DEF QuotaInv
  <2>2. /\ \A j \in EventId \ {i} : grants[j] = grants'[j]
        /\ \A j \in EventId : grants[j] \in Int /\ grants'[j] \in Int
    BY <1>1
  <2>3. grantedNow = granted + grants'[i] - grants[i]
    BY <2>2, KeysFinite, SumChange
  <2>4. QED
    BY <2>1, <2>3
<1>7. before \in Int /\ granted \in Int /\ included + before <= granted
  BY SumsTyped DEF QuotaInv
<1>8. \A j \in EventId \ processed' : grants'[j] = 0
  BY <1>1 DEF QuotaInv
<1> HIDE DEF before, after, granted, grantedNow
<1>9. included + after <= grantedNow
  BY <1>1, <1>2, <1>5, <1>6, <1>7
<1>10. QED
  BY <1>8, <1>9 DEF QuotaInv, after, grantedNow, Left

\* A delivery grants at most once.
LEMMA DeliverKeepsQuota ==
    ASSUME IInv, TypeOK', QuotaInv, NEW i \in EventId, Deliver(i)
    PROVE  QuotaInv'
<1> DEFINE e == sent[i]
<1>1. /\ i \in DOMAIN sent /\ i \notin processed /\ processed' = processed \cup {i}
      /\ included' = included /\ Handle(i, e) /\ TypeOK
  BY DEF Deliver, FirstSeen, IInv
<1>2. e \in Event
  BY <1>1 DEF TypeOK
<1>3. /\ e.sub \in Sub /\ e.snapshot.tier \in Tier /\ e.snapshot.start \in 0 .. MaxTime
      /\ <<e.sub, e.snapshot.start>> \in PeriodKey /\ <<"free", i>> \in PeriodKey
      /\ e.snapshot.start + Period \in Nat /\ now + FreePeriod \in Nat
  <2>1. /\ e.sub \in Sub /\ e.snapshot.tier \in Tier /\ e.snapshot.start \in 0 .. MaxTime
        /\ <<e.sub, e.snapshot.start>> \in PeriodKey /\ <<"free", i>> \in PeriodKey
    BY <1>2 DEF Event, Subscription, Tier, PeriodKey
  <2>2. e.snapshot.start \in Nat /\ now \in Nat
    BY <1>1, <2>1, BoundAssumption DEF TypeOK
  <2>3. e.snapshot.start + Period \in Nat /\ now + FreePeriod \in Nat
    BY <2>2, BoundAssumption
  <2>4. QED
    BY <2>1, <2>3
<1>4. ASSUME UNCHANGED <<ents, grants>>
      PROVE  QuotaInv'
  BY <1>1, <1>4 DEF QuotaInv, Left
<1>5. ASSUME NEW t \in Tier, SeedPaid(i, t, e.sub, e.snapshot.start)
      PROVE  QuotaInv'
  BY <1>1, <1>3, <1>5, SeedKeepsQuota DEF SeedPaid
<1>6. CASE CheckoutCompleted(i, e)
  BY <1>3, <1>4, <1>5, <1>6 DEF CheckoutCompleted
<1>7. CASE SubscriptionUpdated(i, e)
  BY <1>3, <1>4, <1>5, <1>7 DEF SubscriptionUpdated
<1>8. CASE SubscriptionDeleted(i, e)
  <2>1. "free" \in Tier
    BY DEF Tier
  <2>2. QED
    BY <1>1, <1>3, <1>8, <2>1, SeedKeepsQuota DEF SubscriptionDeleted
<1>9. CASE InvoicePaid(i, e)
  <2>1. subs[e.sub].tier \in Tier
    BY <1>1, <1>3, <1>9 DEF InvoicePaid, TypeOK, Subscription, Tier
  <2>2. <<e.sub, e.line>> \in PeriodKey /\ LineEnd(e) \in Nat
    BY <1>1, LineTyped
  <2>3. QED
    BY <1>1, <1>9, <2>1, <2>2, SeedKeepsQuota DEF InvoicePaid
<1>10. CASE PaymentFailed(e) \/ Deferred(e)
  BY <1>4, <1>10 DEF PaymentFailed, Deferred, bookVars
<1>11. QED
  BY <1>1, <1>6, <1>7, <1>8, <1>9, <1>10 DEF Handle

\* A unit that is not overage was left in the row that served it.
LEMMA ConsumeKeepsQuota ==
    ASSUME TypeOK, TypeOK', QuotaInv, NEW k \in PeriodKey, Consume(k)
    PROVE  QuotaInv'
<1> DEFINE before == SumFunctionOnSet(Left, PeriodKey)
           after == SumFunctionOnSet(Left', PeriodKey)
           granted == SumFunctionOnSet(grants, EventId)
<1>1. /\ ents' = [x \in PeriodKey |->
                    IF Open(x) THEN [ents[x] EXCEPT !.remaining = @ - 1] ELSE ents[x]]
      /\ Open(k)
      /\ ents \in [PeriodKey -> Entitlement \cup {NoSub}]
      /\ ents' \in [PeriodKey -> Entitlement \cup {NoSub}]
      /\ included \in Nat /\ UNCHANGED <<grants, processed>>
  BY DEF Consume, TypeOK
<1>2. \A x \in PeriodKey : Left[x] \in Nat /\ Left'[x] \in Nat
  BY <1>1, LeftType DEF Left
<1>3. ASSUME NEW x \in PeriodKey, Open(x)
      PROVE  /\ Left'[x] <= Left[x]
             /\ ents'[x].remaining >= 0 => Left'[x] = Left[x] - 1
  <2>1. ents[x] \in Entitlement /\ ents[x] # NoSub
    BY <1>1, <1>3 DEF Open
  <2>2. /\ ents'[x] = [ents[x] EXCEPT !.remaining = @ - 1] /\ ents'[x] \in Entitlement
        /\ ents'[x].remaining = ents[x].remaining - 1 /\ ents[x].remaining \in Int
    BY <1>1, <1>3, <2>1 DEF Entitlement
  <2>3. ents'[x] # NoSub
    BY <2>2, RowAssumption
  <2>4. /\ Left[x] = IF ents[x].remaining <= 0 THEN 0 ELSE ents[x].remaining
        /\ Left'[x] = IF ents'[x].remaining <= 0 THEN 0 ELSE ents'[x].remaining
    BY <2>1, <2>3 DEF Left, LeftIn
  <2>5. QED
    BY <2>2, <2>4
<1>4. \A x \in PeriodKey : Left'[x] <= Left[x]
  <2>1. ASSUME NEW x \in PeriodKey, ~Open(x) PROVE Left'[x] = Left[x]
    BY <1>1, <2>1 DEF Left
  <2>2. QED
    BY <1>2, <1>3, <2>1
<1>5. before \in Int /\ granted \in Int /\ included + before <= granted
  BY SumsTyped DEF QuotaInv
<1>6. after \in Int
  BY <1>2, KeysFinite, SumType
<1>7. CASE included' = included
  <2>1. after <= before
    BY <1>2, <1>4, KeysFinite, SumMonotone
  <2> HIDE DEF before, after, granted
  <2>2. included' + after <= granted
    BY <1>1, <1>5, <1>6, <1>7, <2>1
  <2>3. QED
    BY <1>1, <2>2 DEF QuotaInv, after, granted, Left
<1>8. CASE included' = included + 1 /\ ents'[k].remaining >= 0
  <2> DEFINE less == [Left EXCEPT ![k] = Left[k] - 1]
             between == SumFunctionOnSet(less, PeriodKey)
  <2>1. Left'[k] = Left[k] - 1 /\ Left \in [PeriodKey -> Nat]
    BY <1>1, <1>2, <1>3, <1>8 DEF Left
  <2>2. /\ \A x \in PeriodKey : less[x] \in Int /\ Left'[x] <= less[x]
        /\ \A x \in PeriodKey \ {k} : less[x] = Left[x]
        /\ less[k] = Left[k] - 1
    BY <1>2, <1>4, <2>1
  <2> HIDE DEF less
  <2>3. after <= between
    BY <1>2, <2>2, KeysFinite, SumMonotone
  <2>4. between = before + less[k] - Left[k]
    BY <1>2, <2>2, KeysFinite, SumChange
  <2>5. Left[k] \in Int
    BY <1>2
  <2> HIDE DEF before, after, granted, between
  <2>6. between = before - 1
    BY <1>5, <2>2, <2>4, <2>5
  <2>7. included' + after <= granted
    BY <1>1, <1>5, <1>6, <1>8, <2>3, <2>6
  <2>8. QED
    BY <1>1, <2>7 DEF QuotaInv, after, granted, Left
<1>9. QED
  <2>1. \/ ents'[k].remaining < 0 /\ included' = included
        \/ ~(ents'[k].remaining < 0 /\ ents[k].overage) /\ included' = included + 1
    BY DEF Consume
  <2>2. ents[k].remaining >= 1 \/ ents[k].overage
    BY <1>1 DEF Open
  <2>3. /\ ents'[k].remaining = ents[k].remaining - 1
        /\ ents[k].remaining \in Int
    BY <1>1 DEF Open, Entitlement
  <2>4. CASE ents'[k].remaining >= 0
    BY <1>7, <1>8, <2>1, <2>4
  <2>5. CASE ~(ents'[k].remaining >= 0)
    <3>1. ents'[k].remaining < 0 /\ ~(ents[k].remaining >= 1)
      BY <2>3, <2>5
    <3>2. QED
      BY <1>7, <2>1, <2>2, <3>1
  <2>6. QED
    BY <2>4, <2>5

\* Every step keeps the account.
LEMMA QuotaStep == IInv /\ IInv' /\ QuotaInv /\ [Next]_vars => QuotaInv'
<1> SUFFICES ASSUME IInv, IInv', QuotaInv, [Next]_vars
             PROVE  QuotaInv'
    OBVIOUS
<1>1. TypeOK /\ TypeOK'
  BY DEF IInv
<1>2. CASE UNCHANGED <<processed, included, ents, grants>>
  BY <1>2 DEF QuotaInv, Left
<1>3. ASSUME NEW i \in EventId, Deliver(i)
      PROVE  QuotaInv'
  BY <1>1, <1>3, DeliverKeepsQuota
<1>4. ASSUME NEW k \in PeriodKey, Consume(k)
      PROVE  QuotaInv'
  BY <1>1, <1>4, ConsumeKeepsQuota
<1>5. \/ UNCHANGED <<processed, included, ents, grants>>
      \/ \E i \in EventId : Deliver(i)
      \/ \E k \in PeriodKey : Consume(k)
  BY DEF Next, vars, bookVars, StartCheckout, CompleteCheckout, ChangePlan, Renew,
         PaymentFails, PaymentRecovers, Cancel, Emits, Tick
<1>6. QED
  BY <1>2, <1>3, <1>4, <1>5

\* However often events are delivered, duplicated or reordered, and whatever rows
\* a request draws on at once, the units served without an overage event never
\* exceed what distinct events granted.
THEOREM NeverOversold == Spec => []NoOversell
<1>1. Init => QuotaInv
  <2> SUFFICES ASSUME Init
               PROVE  QuotaInv
    OBVIOUS
  <2>1. \A k \in PeriodKey : Left[k] = 0
    BY DEF Init, Left, LeftIn
  <2>2. \A i \in EventId : grants[i] = 0
    BY DEF Init
  <2>3. SumFunctionOnSet(Left, PeriodKey) = 0 /\ SumFunctionOnSet(grants, EventId) = 0
    BY <2>1, <2>2, KeysFinite, SumOfZeros
  <2>4. QED
    BY <2>2, <2>3 DEF Init, QuotaInv
<1>2. IInv /\ QuotaInv => NoOversell
  <2> SUFFICES ASSUME IInv, QuotaInv
               PROVE  NoOversell
    OBVIOUS
  <2> DEFINE left == SumFunctionOnSet(Left, PeriodKey)
             granted == SumFunctionOnSet(grants, EventId)
  <2>1. left \in Int /\ left >= 0 /\ granted \in Int /\ included \in Nat
    BY SumsTyped DEF IInv, TypeOK
  <2>2. included + left <= granted
    BY DEF QuotaInv
  <2>3. DOMAIN grants = EventId
    BY DEF IInv, TypeOK
  <2> HIDE DEF left, granted
  <2>4. included <= granted
    BY <2>1, <2>2
  <2>5. QED
    BY <2>3, <2>4 DEF NoOversell, SumFunction, granted
<1>3. QED
  BY <1>1, <1>2, QuotaStep, InvHolds, PTL DEF Spec

-----------------------------------------------------------------------------
(* Metering: the inductive invariant.                                      *)

Committed(r) == events[r].state = "committed"

\* A request to Stripe: one key to an hour, something to bill, and no more than
\* was used.
Honest(k) == k.key = k.hour /\ k.qty > 0 /\ k.qty <= Quantity(UsedIn(k.hour))

\* What was consumed was something.
EventsInv == \A r \in Row : events[r].state # "none" => events[r].qty > 0

\* A run that has read its rows holds committed ones, and has one left; it calls
\* Stripe for an item.
JobInv(w) ==
    /\ \A r \in jobs[w].rows : Committed(r)
    /\ jobs[w].step \in {"fetched", "calling", "marking"} => jobs[w].rows # {}
    /\ jobs[w].step \in {"calling", "marking"} => jobs[w].item \in Item

\* Stripe remembers one request of an hour, and bills its item what it asked for.
\* No item is billed more than was used; and until Stripe forgets a request of the
\* hour, nothing but the one it remembers is billed.
KeysInv ==
    /\ \A k \in keys \cup late : Honest(k)
    /\ \A k, l \in keys : k.hour = l.hour => k = l
    /\ \A k \in keys : usage[<<k.item, k.hour>>] = k.qty
    /\ \A i \in Item, h \in Hour : usage[<<i, h>>] <= Quantity(UsedIn(h))
    /\ \A i \in Item, h \in Hour \ forgotten :
          usage[<<i, h>>] = 0 \/ \E k \in keys : k.item = i /\ k.hour = h

\* Something is billed for the hour.
Touched(h) == \E i \in Item : usage[<<i, h>>] > 0

\* A row is marked, or about to be, when something is billed for its hour.
MarkInv ==
    /\ \A w \in Worker : jobs[w].step = "marking" => Touched(CurrentHour(w))
    /\ \A r \in reported : Committed(r) /\ Touched(HourFloor(events[r].at))

MeterInv ==
    /\ MeteringTypeOK
    /\ EventsInv
    /\ \A w \in Worker : JobInv(w)
    /\ KeysInv
    /\ MarkInv

-----------------------------------------------------------------------------
(* Facts about the operators the job is built from.                        *)

\* An instant is in one of the hours.
LEMMA HourType ==
    ASSUME NEW t \in 0 .. LastTick
    PROVE  HourFloor(t) \in Hour /\ HourFloor(t) \in Nat
BY WindowAssumption DEF HourFloor, Hour

\* A set of numbers that is not empty has its least element for a minimum.
LEMMA MinIsIn ==
    ASSUME NEW S \in SUBSET Nat, S # {}
    PROVE  Min(S) \in S
BY LeastNumber DEF Min

\* What each row holds.
Qty == [r \in Row |-> events[r].qty]

\* Rows hold natural numbers.
LEMMA QtyType ==
    ASSUME MeteringTypeOK
    PROVE  \A r \in Row : Qty[r] = events[r].qty /\ Qty[r] \in Nat
BY DEF Qty, MeteringTypeOK, UsageEvent

\* More rows hold no less.
LEMMA QuantityWithin ==
    ASSUME MeteringTypeOK, NEW A, NEW B \in SUBSET Row, A \subseteq B
    PROVE  Quantity(A) \in Nat /\ Quantity(A) <= Quantity(B)
<1> DEFINE a == SumFunctionOnSet(Qty, A)
           b == SumFunctionOnSet(Qty, B)
<1>1. IsFiniteSet(A) /\ IsFiniteSet(B)
  BY FiniteAssumption, FS_Subset
<1>2. /\ \A r \in A : Qty[r] \in Int /\ Qty[r] >= 0
      /\ \A r \in B : Qty[r] \in Nat
  BY QtyType
<1>3. a \in Int /\ a >= 0
  BY <1>1, <1>2, SumType
<1>4. a <= b
  BY <1>1, <1>2, SumWithin
<1>5. Quantity(A) = a /\ Quantity(B) = b
  BY DEF Quantity, Qty
<1> HIDE DEF a, b
<1>6. QED
  BY <1>3, <1>4, <1>5

\* Rows of something hold something.
LEMMA QuantityPositive ==
    ASSUME MeteringTypeOK, NEW A \in SUBSET Row, NEW r \in A, events[r].qty > 0
    PROVE  Quantity(A) > 0
<1> DEFINE a == SumFunctionOnSet(Qty, A)
           rest == SumFunctionOnSet(Qty, A \ {r})
<1>1. IsFiniteSet(A) /\ IsFiniteSet(A \ {r})
  BY FiniteAssumption, FS_Subset
<1>2. \A x \in A : Qty[x] \in Int /\ Qty[x] >= 0
  BY QtyType
<1>3. rest \in Int /\ rest >= 0
  BY <1>1, <1>2, SumType
<1>4. a = Qty[r] + rest
  BY <1>1, <1>2, SumRemove
<1>5. Qty[r] \in Int /\ Qty[r] > 0
  BY QtyType
<1>6. Quantity(A) = a
  BY DEF Quantity, Qty
<1> HIDE DEF a, rest
<1>7. QED
  BY <1>3, <1>4, <1>5, <1>6

\* The bucket a run is at: committed rows of one hour, at least one.  Its report is
\* honest.
LEMMA BucketFacts ==
    ASSUME MeterInv, NEW w \in Worker, jobs[w].step \in {"calling", "marking"}
    PROVE  /\ CurrentHour(w) \in Hour
           /\ Bucket(w) \subseteq jobs[w].rows
           /\ \A r \in Bucket(w) : Committed(r) /\ HourFloor(events[r].at) = CurrentHour(w)
           /\ BucketReport(w).hour = CurrentHour(w)
           /\ BucketReport(w) \in Report
           /\ Honest(BucketReport(w))
<1> DEFINE rows == jobs[w].rows
           hours == {HourFloor(events[r].at) : r \in rows}
<1>1. /\ MeteringTypeOK /\ rows \in SUBSET Row /\ rows # {} /\ jobs[w].item \in Item
      /\ \A r \in rows : Committed(r)
  BY DEF MeterInv, JobInv, MeteringTypeOK, Job
<1>2. \A r \in rows : HourFloor(events[r].at) \in Hour /\ HourFloor(events[r].at) \in Nat
  BY <1>1, HourType DEF MeteringTypeOK, UsageEvent
<1>3. hours \in SUBSET Nat /\ hours # {}
  BY <1>1, <1>2
<1>4. CurrentHour(w) \in hours
  BY <1>3, MinIsIn DEF CurrentHour
<1>5. CurrentHour(w) \in Hour
  BY <1>2, <1>4
<1>6. /\ Bucket(w) \subseteq rows
      /\ \A r \in Bucket(w) : HourFloor(events[r].at) = CurrentHour(w)
  BY DEF Bucket
<1>7. PICK r \in Bucket(w) : TRUE
  BY <1>4 DEF Bucket
<1>8. Bucket(w) \subseteq UsedIn(CurrentHour(w)) /\ UsedIn(CurrentHour(w)) \subseteq Row
  BY <1>1, <1>6 DEF UsedIn, Committed
<1>9. events[r].qty > 0
  BY <1>1, <1>6, <1>7 DEF MeterInv, EventsInv, Committed
<1>10. Quantity(Bucket(w)) > 0
  BY <1>1, <1>6, <1>7, <1>9, QuantityPositive
<1>11. /\ Quantity(Bucket(w)) \in Nat
       /\ Quantity(Bucket(w)) <= Quantity(UsedIn(CurrentHour(w)))
  BY <1>1, <1>8, QuantityWithin
<1>12. BucketReport(w) \in Report /\ BucketReport(w).hour = CurrentHour(w)
  BY <1>1, <1>5, <1>11 DEF BucketReport, Report, IdempotencyKey
<1>13. Honest(BucketReport(w))
  BY <1>10, <1>11 DEF Honest, BucketReport, IdempotencyKey
<1>14. QED
  BY <1>1, <1>5, <1>6, <1>12, <1>13

-----------------------------------------------------------------------------
(* The consuming requests.                                                 *)

\* No hour's use ever shrinks, and committed rows stay as they are.
LEMMA UseGrows ==
    ASSUME MeterInv, MeteringTypeOK', NEW r \in Row,
           (\E q \in Unit : ConsumeBegins(r, q)) \/ ConsumeCommits(r)
    PROVE  /\ \A h : Quantity(UsedIn(h)) <= Quantity(UsedIn(h))'
           /\ \A x \in Row : Committed(x) => events'[x] = events[x]
           /\ EventsInv'
<1>1. MeteringTypeOK /\ EventsInv /\ events \in [Row -> UsageEvent]
  BY DEF MeterInv, MeteringTypeOK
<1>2. CASE \E q \in Unit : ConsumeBegins(r, q)
  <2>1. PICK q \in Unit : ConsumeBegins(r, q)
    BY <1>2
  <2>2. events' = [events EXCEPT ![r] = [state |-> "open", at |-> clock, qty |-> q]]
        /\ events[r].state = "none"
    BY <2>1 DEF ConsumeBegins
  <2>3. \A x \in Row : Committed(x) => events'[x] = events[x]
    BY <1>1, <2>2 DEF Committed
  <2>4. EventsInv'
    BY <1>1, <2>2, WindowAssumption DEF EventsInv
  <2>5. ASSUME NEW h
        PROVE  Quantity(UsedIn(h)) <= Quantity(UsedIn(h))'
    <3> DEFINE used == UsedIn(h)
    <3>1. UsedIn(h)' = UsedIn(h)
      BY <1>1, <2>2 DEF UsedIn
    <3>2. used \subseteq Row /\ IsFiniteSet(used)
      BY FiniteAssumption, FS_Subset DEF UsedIn
    <3>3. \A x \in used : Qty[x] = Qty'[x]
      BY <2>3 DEF UsedIn, Qty, Committed
    <3>4. Quantity(UsedIn(h)) \in Nat
      BY <1>1, <3>2, QuantityWithin
    <3>5. /\ Quantity(UsedIn(h)) = SumFunctionOnSet(Qty, used)
          /\ Quantity(UsedIn(h))' = SumFunctionOnSet(Qty', used)
      BY <3>1 DEF Quantity, Qty
    <3> HIDE DEF used
    <3>6. SumFunctionOnSet(Qty, used) = SumFunctionOnSet(Qty', used)
      BY <3>2, <3>3, SumAgree
    <3>7. QED
      BY <3>4, <3>5, <3>6
  <2>6. QED
    BY <2>3, <2>4, <2>5
<1>3. CASE ConsumeCommits(r)
  <2>1. events' = [events EXCEPT ![r].state = "committed"] /\ events[r].state = "open"
    BY <1>3 DEF ConsumeCommits
  <2>2. \A x \in Row : Committed(x) => events'[x] = events[x]
    BY <1>1, <2>1 DEF Committed
  <2>3. \A x \in Row : events'[x].qty = events[x].qty /\ events'[x].at = events[x].at
    BY <1>1, <2>1 DEF UsageEvent
  <2>4. EventsInv'
    BY <1>1, <2>1, <2>3 DEF EventsInv
  <2>5. ASSUME NEW h
        PROVE  Quantity(UsedIn(h)) <= Quantity(UsedIn(h))'
    <3>1. UsedIn(h) \subseteq UsedIn(h)' /\ UsedIn(h)' \subseteq Row
      BY <2>2 DEF UsedIn, Committed
    <3>2. \A A : Quantity(A)' = SumFunctionOnSet(Qty', A)
      BY DEF Quantity, Qty
    <3>3. Qty' = Qty
      BY <2>3 DEF Qty
    <3>4. Quantity(UsedIn(h))' = SumFunctionOnSet(Qty', UsedIn(h)')
      BY DEF Quantity, Qty
    <3>5. Quantity(UsedIn(h)') = SumFunctionOnSet(Qty, UsedIn(h)')
      BY DEF Quantity, Qty
    <3>6. Quantity(UsedIn(h)) <= Quantity(UsedIn(h)')
      BY <1>1, <3>1, QuantityWithin
    <3>7. QED
      BY <3>3, <3>4, <3>5, <3>6
  <2>6. QED
    BY <2>2, <2>4, <2>5
<1>4. QED
  BY <1>2, <1>3

\* Consuming keeps the invariant.
LEMMA ConsumeStep ==
    ASSUME MeterInv, MeteringTypeOK', NEW r \in Row,
           (\E q \in Unit : ConsumeBegins(r, q)) \/ ConsumeCommits(r)
    PROVE  MeterInv'
<1>1. /\ UNCHANGED <<reported, jobs, keys, late, usage, forgotten>>
      /\ MeteringTypeOK /\ jobs \in [Worker -> Job] /\ reported \subseteq Row
      /\ keys \subseteq Report /\ late \subseteq Report
      /\ \A i \in Item, h \in Hour : usage[<<i, h>>] \in Nat
  BY DEF ConsumeBegins, ConsumeCommits, recordVars, MeterInv, MeteringTypeOK
<1>2. /\ \A h : Quantity(UsedIn(h)) <= Quantity(UsedIn(h))'
      /\ \A x \in Row : Committed(x) => events'[x] = events[x]
      /\ EventsInv'
  BY UseGrows
<1>3. \A x \in Row : Committed(x) => Committed(x)'
  BY <1>2 DEF Committed
<1>4. ASSUME NEW w \in Worker
      PROVE  JobInv(w)' /\ CurrentHour(w)' = CurrentHour(w)
  <2>1. JobInv(w) /\ jobs[w].rows \subseteq Row /\ jobs'[w] = jobs[w]
    BY <1>1 DEF MeterInv, Job
  <2>2. JobInv(w)'
    BY <1>3, <2>1 DEF JobInv
  <2>3. {HourFloor(events'[x].at) : x \in jobs'[w].rows}
          = {HourFloor(events[x].at) : x \in jobs[w].rows}
    BY <1>2, <2>1 DEF JobInv
  <2>4. QED
    BY <2>2, <2>3 DEF CurrentHour, HourFloor
<1>5. ASSUME NEW h \in Hour, NEW q \in Nat, q <= Quantity(UsedIn(h))
      PROVE  q <= Quantity(UsedIn(h))'
  <2> DEFINE before == Quantity(UsedIn(h))
             after == Quantity(UsedIn(h))'
  <2>1. /\ UsedIn(h) \in SUBSET Row /\ UsedIn(h)' \in SUBSET Row
    BY DEF UsedIn
  <2>2. before \in Nat
    BY <1>1, <2>1, QuantityWithin
  <2>3. after \in Nat
    <3>1. \A x \in Row : Qty'[x] \in Int /\ Qty'[x] >= 0
      BY DEF Qty, MeteringTypeOK, UsageEvent
    <3>2. IsFiniteSet(UsedIn(h)')
      BY <2>1, FiniteAssumption, FS_Subset
    <3>3. SumFunctionOnSet(Qty', UsedIn(h)') \in Nat
      BY <2>1, <3>1, <3>2, SumType
    <3>4. QED
      BY <3>3 DEF Quantity, Qty
  <2>4. before <= after /\ q <= before
    BY <1>2, <1>5
  <2>5. QED
    <3> HIDE DEF before, after
    <3>1. q <= after
      BY <2>2, <2>3, <2>4
    <3>2. QED
      BY <3>1 DEF after
<1>6. KeysInv'
  <2>1. KeysInv
    BY DEF MeterInv
  <2>2. ASSUME NEW k \in keys \cup late
        PROVE  Honest(k)'
    <3>1. k.hour \in Hour /\ k.qty \in Nat /\ Honest(k)
      BY <1>1, <2>1 DEF KeysInv, Report
    <3>2. QED
      BY <1>5, <3>1 DEF Honest
  <2>3. \A i \in Item, h \in Hour : usage'[<<i, h>>] <= Quantity(UsedIn(h))'
    BY <1>1, <1>5, <2>1 DEF KeysInv
  <2>4. QED
    BY <1>1, <2>1, <2>2, <2>3 DEF KeysInv
<1>7. MarkInv'
  <2>1. \A w \in Worker :
           jobs'[w].step = "marking" => Touched(CurrentHour(w))'
    BY <1>1, <1>4 DEF MeterInv, MarkInv, Touched
  <2>2. \A x \in reported' :
           Committed(x)' /\ Touched(HourFloor(events[x].at))'
    BY <1>1, <1>2, <1>3 DEF MeterInv, MarkInv, Touched
  <2>3. QED
    BY <2>1, <2>2 DEF MarkInv, HourFloor, Touched
<1>8. QED
  BY <1>2, <1>4, <1>6, <1>7 DEF MeterInv

-----------------------------------------------------------------------------
(* The steps of a run.                                                     *)

\* A step that touches no row, no key and no record, and leaves nobody newly
\* about to mark rows, keeps the invariant if the runs keep theirs.
LEMMA QuietStep ==
    ASSUME MeterInv, MeteringTypeOK', UNCHANGED <<events, reported, keys, usage, forgotten>>,
           \A k \in late' : Honest(k),
           \A w \in Worker : JobInv(w)' \/ jobs'[w] = jobs[w],
           \A w \in Worker : jobs'[w].step = "marking" => jobs'[w] = jobs[w]
    PROVE  MeterInv'
<1>1. EventsInv'
  BY DEF MeterInv, EventsInv
<1>2. \A w \in Worker : JobInv(w)'
  BY DEF MeterInv, JobInv, Committed
<1>3. /\ \A k : Honest(k) => Honest(k)'
      /\ \A h : Quantity(UsedIn(h))' = Quantity(UsedIn(h))
  BY DEF Honest, Quantity, UsedIn, HourFloor
<1>4. KeysInv'
  BY <1>3 DEF MeterInv, KeysInv
<1>5. MarkInv'
  <2>1. \A w \in Worker : jobs'[w] = jobs[w] => CurrentHour(w)' = CurrentHour(w)
    BY DEF CurrentHour, HourFloor
  <2>2. QED
    BY <2>1 DEF MeterInv, MarkInv, Committed, HourFloor, Touched
<1>6. QED
  BY <1>1, <1>2, <1>4, <1>5 DEF MeterInv

\* An idle run holds nothing.
LEMMA FinishKeeps ==
    ASSUME MeteringTypeOK, NEW w \in Worker, Finish(w)
    PROVE  /\ jobs' \in [Worker -> Job] /\ lock' \in Worker \cup {Nobody}
           /\ \A v \in Worker : JobInv(v)' \/ jobs'[v] = jobs[v]
           /\ \A v \in Worker : jobs'[v].step = "marking" => jobs'[v] = jobs[v]
<1>1. Idle \in Job /\ Idle.rows = {} /\ Idle.step = "idle"
  BY DEF Idle, Job, Step
<1>2. /\ jobs' = [jobs EXCEPT ![w] = Idle] /\ jobs \in [Worker -> Job]
      /\ lock \in Worker \cup {Nobody}
  BY DEF Finish, MeteringTypeOK
<1>3. jobs'[w] = Idle /\ \A v \in Worker \ {w} : jobs'[v] = jobs[v]
  BY <1>2
<1>4. JobInv(w)'
  BY <1>1, <1>3 DEF JobInv
<1>5. jobs' \in [Worker -> Job] /\ lock' \in Worker \cup {Nobody}
  BY <1>1, <1>2 DEF Finish
<1>6. QED
  BY <1>1, <1>3, <1>4, <1>5

\* The next bucket is one of those left.
LEMMA NextBucketKeeps ==
    ASSUME MeterInv, UNCHANGED events, NEW w \in Worker,
           jobs[w].step \in {"calling", "marking"}, NextBucket(w)
    PROVE  /\ jobs' \in [Worker -> Job] /\ lock' \in Worker \cup {Nobody}
           /\ \A v \in Worker : JobInv(v)' \/ jobs'[v] = jobs[v]
           /\ \A v \in Worker : jobs'[v].step = "marking" => jobs'[v] = jobs[v]
<1> DEFINE rest == jobs[w].rows \ Bucket(w)
<1>1. /\ MeteringTypeOK /\ jobs[w].rows \in SUBSET Row /\ jobs[w].item \in Item
      /\ \A r \in jobs[w].rows : Committed(r)
      /\ jobs[w] \in Job /\ jobs \in [Worker -> Job] /\ lock \in Worker \cup {Nobody}
  BY DEF MeterInv, JobInv, MeteringTypeOK, Job
<1>2. CASE rest = {} /\ Finish(w)
  BY <1>1, <1>2, FinishKeeps
<1>3. CASE /\ rest # {} /\ UNCHANGED lock
           /\ jobs' = [jobs EXCEPT ![w].step = "calling", ![w].rows = rest]
  <2>1. /\ jobs'[w] = [jobs[w] EXCEPT !.step = "calling", !.rows = rest]
        /\ \A v \in Worker \ {w} : jobs'[v] = jobs[v]
        /\ DOMAIN jobs' = Worker
    BY <1>1, <1>3
  <2>2. rest \in SUBSET Row /\ rest \subseteq jobs[w].rows
    BY <1>1
  <2> HIDE DEF rest
  <2>3. /\ jobs'[w].step = "calling" /\ jobs'[w].rows = rest
        /\ jobs'[w].item = jobs[w].item
    BY <1>1, <2>1 DEF Job
  <2>4. jobs' \in [Worker -> Job]
    BY <1>1, <1>3, <2>2 DEF Job, Step
  <2>5. JobInv(w)'
    BY <1>1, <1>3, <2>2, <2>3 DEF JobInv, Committed
  <2>6. jobs'[w].step # "marking"
    BY <2>3
  <2>7. QED
    BY <1>1, <1>3, <2>1, <2>4, <2>5, <2>6
<1>4. QED
  BY <1>2, <1>3 DEF NextBucket

\* Starting, reading rows and reading the items.
LEMMA EarlySteps ==
    ASSUME MeterInv, NEW w \in Worker,
           StartRun(w) \/ FetchUnreported(w) \/ FetchMeteredItems(w)
    PROVE  MeterInv'
<1> DEFINE Fine == /\ jobs' \in [Worker -> Job] /\ lock' \in Worker \cup {Nobody}
                   /\ \A v \in Worker : JobInv(v)' \/ jobs'[v] = jobs[v]
                   /\ \A v \in Worker : jobs'[v].step = "marking" => jobs'[v] = jobs[v]
<1>1. /\ MeteringTypeOK /\ UNCHANGED <<clock, events, reported, newest, recordVars>>
      /\ clock \in Int /\ jobs \in [Worker -> Job] /\ lock \in Worker \cup {Nobody}
      /\ newest \in Item \cup {NoItem}
      /\ jobs[w] \in Job /\ jobs[w].rows \in SUBSET Row /\ JobInv(w)
  BY DEF StartRun, FetchUnreported, FetchMeteredItems, MeterInv, MeteringTypeOK, Job
<1>2. CASE StartRun(w)
  <2>1. /\ jobs'[w] = [jobs[w] EXCEPT !.step = "locked", !.cutoff = clock - SafetyWindow]
        /\ \A v \in Worker \ {w} : jobs'[v] = jobs[v]
        /\ lock' = w /\ jobs' \in [Worker -> Job]
    <3> DEFINE c == clock - SafetyWindow
    <3>1. c \in Int
      BY <1>1, WindowAssumption
    <3>2. jobs' = [jobs EXCEPT ![w].step = "locked", ![w].cutoff = c] /\ lock' = w
      BY <1>2 DEF StartRun
    <3> HIDE DEF c
    <3>3. /\ jobs'[w] = [jobs[w] EXCEPT !.step = "locked", !.cutoff = c]
          /\ \A v \in Worker \ {w} : jobs'[v] = jobs[v]
          /\ jobs' \in [Worker -> Job]
      BY <1>1, <3>1, <3>2 DEF Job, Step
    <3>4. QED
      BY <3>2, <3>3 DEF c
  <2>2. jobs'[w].step = "locked" /\ jobs'[w].rows = jobs[w].rows
    BY <1>1, <2>1 DEF Job
  <2>3. JobInv(w)'
    BY <1>1, <2>2 DEF JobInv, Committed
  <2>4. Fine
    BY <2>1, <2>2, <2>3
  <2>5. QED
    BY <1>1, <2>4, QuietStep DEF MeterInv, KeysInv, MeteringTypeOK, recordVars
<1>3. CASE FetchUnreported(w)
  <2> DEFINE rows == Unreported(jobs[w].cutoff)
  <2>1. rows \in SUBSET Row /\ \A r \in rows : Committed(r)
    BY DEF Unreported, Committed
  <2>2. ASSUME rows # {}, jobs' = [jobs EXCEPT ![w].step = "fetched", ![w].rows = rows],
               UNCHANGED lock
        PROVE  Fine
    <3> HIDE DEF rows
    <3>1. /\ jobs'[w] = [jobs[w] EXCEPT !.step = "fetched", !.rows = rows]
          /\ \A v \in Worker \ {w} : jobs'[v] = jobs[v]
          /\ jobs' \in [Worker -> Job]
      BY <1>1, <2>1, <2>2 DEF Job, Step
    <3>2. jobs'[w].step = "fetched" /\ jobs'[w].rows = rows
      BY <1>1, <3>1 DEF Job
    <3>3. JobInv(w)'
      BY <1>1, <2>1, <2>2, <3>2 DEF JobInv, Committed
    <3>4. QED
      BY <1>1, <2>2, <3>1, <3>2, <3>3
  <2>3. Fine
    BY <1>1, <1>3, <2>2, FinishKeeps DEF FetchUnreported
  <2>4. QED
    BY <1>1, <2>3, QuietStep DEF MeterInv, KeysInv, MeteringTypeOK, recordVars
<1>4. CASE FetchMeteredItems(w)
  <2>1. ASSUME newest # NoItem, UNCHANGED lock,
               jobs' = [jobs EXCEPT ![w].step = "calling", ![w].item = newest]
        PROVE  Fine
    <3>1. /\ jobs'[w] = [jobs[w] EXCEPT !.step = "calling", !.item = newest]
          /\ \A v \in Worker \ {w} : jobs'[v] = jobs[v]
          /\ jobs' \in [Worker -> Job]
      BY <1>1, <2>1 DEF Job, Step
    <3>2. /\ jobs'[w].step = "calling" /\ jobs'[w].rows = jobs[w].rows
          /\ jobs'[w].item = newest
      BY <1>1, <3>1 DEF Job
    <3>3. jobs[w].step = "fetched"
      BY <1>4 DEF FetchMeteredItems
    <3>4. JobInv(w)'
      BY <1>1, <2>1, <3>2, <3>3 DEF JobInv, Committed
    <3>5. QED
      BY <1>1, <2>1, <3>1, <3>2, <3>4
  <2>2. Fine
    BY <1>1, <1>4, <2>1, FinishKeeps DEF FetchMeteredItems
  <2>3. QED
    BY <1>1, <2>2, QuietStep DEF MeterInv, KeysInv, MeteringTypeOK, recordVars
<1>5. QED
  BY <1>2, <1>3, <1>4

\* A refusal, no answer, a crash, a lost lock.
LEMMA FailureSteps ==
    ASSUME MeterInv, NEW w \in Worker,
           ReportRefused(w) \/ ReportUnanswered(w) \/ Crash(w) \/ LockLost(w)
    PROVE  MeterInv'
<1>1. MeteringTypeOK /\ UNCHANGED <<clock, events, reported, newest, keys, usage, forgotten>>
  BY DEF ReportRefused, ReportUnanswered, Crash, LockLost, MeterInv, recordVars
<1>2. CASE ReportRefused(w)
  <2>1. UNCHANGED late
    BY <1>2 DEF ReportRefused, recordVars
  <2>2. QED
    BY <1>1, <1>2, <2>1, NextBucketKeeps, QuietStep
       DEF ReportRefused, MeterInv, KeysInv, MeteringTypeOK
<1>3. CASE ReportUnanswered(w)
  <2>1. late' = late \cup {BucketReport(w)} /\ NextBucket(w) /\ jobs[w].step = "calling"
    BY <1>3 DEF ReportUnanswered
  <2>2. BucketReport(w) \in Report /\ Honest(BucketReport(w))
    BY <2>1, BucketFacts
  <2>3. late' \subseteq Report /\ \A k \in late' : Honest(k)
    BY <1>1, <2>1, <2>2 DEF MeterInv, KeysInv, MeteringTypeOK
  <2>4. QED
    BY <1>1, <2>1, <2>3, NextBucketKeeps, QuietStep DEF MeteringTypeOK
<1>4. CASE Crash(w)
  <2>1. UNCHANGED late
    BY <1>4 DEF Crash, recordVars
  <2>2. QED
    BY <1>1, <1>4, <2>1, FinishKeeps, QuietStep DEF Crash, MeterInv, KeysInv, MeteringTypeOK
<1>5. CASE LockLost(w)
  BY <1>1, <1>5, QuietStep DEF LockLost, MeterInv, KeysInv, MeteringTypeOK, recordVars
<1>6. QED
  BY <1>2, <1>3, <1>4, <1>5

-----------------------------------------------------------------------------
(* Stripe takes a request.                                                 *)

\* Stripe's records as long as Stripe takes nothing.
LEMMA KeysKept ==
    ASSUME KeysInv, UNCHANGED <<events, keys, usage, forgotten>>, late' \subseteq late
    PROVE  KeysInv'
<1>1. /\ \A k : Honest(k) => Honest(k)'
      /\ \A h : Quantity(UsedIn(h))' = Quantity(UsedIn(h))
  BY DEF Honest, Quantity, UsedIn, HourFloor
<1>2. QED
  BY <1>1 DEF KeysInv

\* An honest request that Stripe takes, because it knows none of the hour, is what
\* its item is billed for the hour; what else was billed stays.
LEMMA AcceptKeeps ==
    ASSUME MeterInv, UNCHANGED <<events, forgotten>>, NEW rep \in Report, Honest(rep),
           Accept(rep), late' \subseteq late
    PROVE  KeysInv' /\ (\A h \in Hour : Touched(h) => Touched(h)') /\ rep \in keys'
           /\ keys' \subseteq Report /\ usage' \in [Item \X Hour -> Nat]
<1>1. /\ keys' = keys \cup {rep} /\ usage' = [usage EXCEPT ![<<rep.item, rep.hour>>] = rep.qty]
      /\ \A k \in keys : k.key # rep.key
      /\ keys \subseteq Report /\ usage \in [Item \X Hour -> Nat]
      /\ rep.item \in Item /\ rep.hour \in Hour /\ rep.qty \in Nat
      /\ KeysInv
  BY DEF Accept, KeyKnown, MeterInv, MeteringTypeOK, Report
<1>2. /\ \A k : Honest(k) => Honest(k)'
      /\ \A h : Quantity(UsedIn(h))' = Quantity(UsedIn(h))
  BY DEF Honest, Quantity, UsedIn, HourFloor
<1>3. \A k \in keys' \cup late' : Honest(k)'
  BY <1>1, <1>2 DEF KeysInv
<1>4. \A k \in keys : k.hour # rep.hour
  BY <1>1 DEF KeysInv, Honest
<1>5. \A k, l \in keys' : k.hour = l.hour => k = l
  BY <1>1, <1>4 DEF KeysInv
<1>6. \A i \in Item, h \in Hour :
         usage'[<<i, h>>] = IF i = rep.item /\ h = rep.hour THEN rep.qty ELSE usage[<<i, h>>]
  BY <1>1
<1>7. \A k \in keys' : usage'[<<k.item, k.hour>>] = k.qty
  <2>1. \A k \in keys : usage'[<<k.item, k.hour>>] = k.qty
    BY <1>1, <1>4, <1>6 DEF KeysInv, Report
  <2>2. usage'[<<rep.item, rep.hour>>] = rep.qty
    BY <1>1, <1>6
  <2>3. QED
    BY <1>1, <2>1, <2>2
<1>8. \A i \in Item, h \in Hour \ forgotten' :
         usage'[<<i, h>>] = 0 \/ \E k \in keys' : k.item = i /\ k.hour = h
  <2> SUFFICES ASSUME NEW i \in Item, NEW h \in Hour \ forgotten, usage'[<<i, h>>] # 0
               PROVE  \E k \in keys' : k.item = i /\ k.hour = h
    OBVIOUS
  <2>1. CASE i = rep.item /\ h = rep.hour
    BY <1>1, <2>1
  <2>2. CASE ~(i = rep.item /\ h = rep.hour)
    <3>1. usage[<<i, h>>] # 0
      BY <1>6, <2>2
    <3>2. PICK k \in keys : k.item = i /\ k.hour = h
      BY <1>1, <3>1 DEF KeysInv
    <3>3. QED
      BY <1>1, <3>2
  <2>3. QED
    BY <2>1, <2>2
<1>9. keys' \subseteq Report /\ usage' \in [Item \X Hour -> Nat]
  BY <1>1
<1>10. \A i \in Item, h \in Hour : usage'[<<i, h>>] <= Quantity(UsedIn(h))'
  <2>1. rep.qty <= Quantity(UsedIn(rep.hour))
    BY DEF Honest
  <2>2. \A i \in Item, h \in Hour : usage[<<i, h>>] <= Quantity(UsedIn(h))
    BY <1>1 DEF KeysInv
  <2> SUFFICES ASSUME NEW i \in Item, NEW h \in Hour
               PROVE  usage'[<<i, h>>] <= Quantity(UsedIn(h))'
    OBVIOUS
  <2>3. CASE i = rep.item /\ h = rep.hour
    BY <1>2, <1>6, <2>1, <2>3
  <2>4. CASE ~(i = rep.item /\ h = rep.hour)
    BY <1>2, <1>6, <2>2, <2>4
  <2>5. QED
    BY <2>3, <2>4
<1>11. \A h \in Hour : Touched(h) => Touched(h)'
  BY <1>6 DEF Touched, Honest
<1>12. QED
  BY <1>1, <1>3, <1>5, <1>7, <1>8, <1>9, <1>10, <1>11 DEF KeysInv

\* Rows that were marked stay marked while no hour's bill disappears.
LEMMA RowsTouched ==
    ASSUME MeterInv, UNCHANGED events, \A h \in Hour : Touched(h) => Touched(h)'
    PROVE  \A r \in reported : Committed(r)' /\ Touched(HourFloor(events[r].at))'
<1> SUFFICES ASSUME NEW r \in reported
             PROVE  Committed(r)' /\ Touched(HourFloor(events[r].at))'
  OBVIOUS
<1>1. Committed(r) /\ Touched(HourFloor(events[r].at))
  BY DEF MeterInv, MarkInv
<1>2. HourFloor(events[r].at) \in Hour
  BY HourType DEF MeterInv, MeteringTypeOK, UsageEvent
<1>3. HourFloor(events[r].at)' = HourFloor(events[r].at)
  BY DEF HourFloor
<1>4. QED
  BY <1>1, <1>2, <1>3 DEF Committed, Touched

\* Stripe forgets a request: what it bills stays, and no row loses its mark.
LEMMA ForgetStep ==
    ASSUME MeterInv, NEW k \in keys, StripeForgets(k)
    PROVE  MeterInv'
<1>1. /\ UNCHANGED <<clock, events, reported, newest, lock, jobs, late, usage>>
      /\ keys' = keys \ {k} /\ forgotten' = forgotten \cup {k.hour}
      /\ MeteringTypeOK /\ KeysInv /\ k.hour \in Hour
  BY DEF StripeForgets, MeterInv, MeteringTypeOK, Report
<1>2. MeteringTypeOK'
  BY <1>1 DEF MeteringTypeOK
<1>3. /\ \A l : Honest(l) => Honest(l)'
      /\ \A h : Quantity(UsedIn(h))' = Quantity(UsedIn(h))
  BY <1>1 DEF Honest, Quantity, UsedIn, HourFloor
<1>4. KeysInv'
  <2>1. \A i \in Item, h \in Hour \ forgotten' :
           usage'[<<i, h>>] = 0 \/ \E l \in keys' : l.item = i /\ l.hour = h
    <3> SUFFICES ASSUME NEW i \in Item, NEW h \in Hour, h \notin forgotten', usage'[<<i, h>>] # 0
                 PROVE  \E l \in keys' : l.item = i /\ l.hour = h
      OBVIOUS
    <3>0. usage[<<i, h>>] # 0 /\ h \notin forgotten /\ h # k.hour
      BY <1>1
    <3>1. PICK l \in keys : l.item = i /\ l.hour = h
      BY <1>1, <3>0 DEF KeysInv
    <3>2. QED
      BY <1>1, <3>0, <3>1
  <2>2. QED
    BY <1>1, <1>3, <2>1 DEF KeysInv
<1>5. EventsInv' /\ \A w \in Worker : JobInv(w)'
  BY <1>1 DEF MeterInv, EventsInv, JobInv, Committed
<1>6. MarkInv'
  BY <1>1 DEF MeterInv, MarkInv, Committed, CurrentHour, HourFloor, Touched
<1>7. QED
  BY <1>2, <1>4, <1>5, <1>6 DEF MeterInv

\* An answered report.
LEMMA AnsweredStep ==
    ASSUME MeterInv, NEW w \in Worker, ReportAnswered(w)
    PROVE  MeterInv'
<1> DEFINE rep == BucketReport(w)
<1>1. /\ UNCHANGED <<clock, events, reported, newest, lock, late, forgotten>>
      /\ jobs[w].step = "calling" /\ jobs' = [jobs EXCEPT ![w].step = "marking"]
      /\ Accept(rep) \/ (rep \in keys /\ UNCHANGED <<keys, usage>>)
      /\ jobs \in [Worker -> Job] /\ MeteringTypeOK
  BY DEF ReportAnswered, MeterInv, MeteringTypeOK
<1>2. rep \in Report /\ Honest(rep) /\ rep.hour = CurrentHour(w)
  BY <1>1, BucketFacts
<1>3. /\ KeysInv' /\ (\A h \in Hour : Touched(h) => Touched(h)') /\ rep \in keys'
      /\ keys' \subseteq Report /\ usage' \in [Item \X Hour -> Nat]
  <2>1. CASE Accept(rep)
    BY <1>1, <1>2, <2>1, AcceptKeeps
  <2>2. CASE rep \in keys /\ UNCHANGED <<keys, usage>>
    BY <1>1, <2>2, KeysKept DEF MeterInv, MeteringTypeOK, Touched
  <2>3. QED
    BY <1>1, <2>1, <2>2
<1>4. /\ jobs' \in [Worker -> Job] /\ \A v \in Worker \ {w} : jobs'[v] = jobs[v]
      /\ jobs'[w].rows = jobs[w].rows /\ jobs'[w].item = jobs[w].item
      /\ jobs'[w].step = "marking"
  BY <1>1 DEF Job, Step
<1>5. \A v \in Worker : JobInv(v)'
  <2>1. JobInv(w)'
    BY <1>1, <1>4 DEF MeterInv, JobInv, Committed
  <2>2. \A v \in Worker \ {w} : JobInv(v)'
    BY <1>1, <1>4 DEF MeterInv, JobInv, Committed
  <2>3. QED
    BY <2>1, <2>2
<1>6. MarkInv'
  <2>1. \A v \in Worker : CurrentHour(v)' = CurrentHour(v)
    <3>1. \A v \in Worker : jobs'[v].rows = jobs[v].rows
      BY <1>4
    <3>2. QED
      BY <1>1, <3>1 DEF CurrentHour, HourFloor
  <2>3. ASSUME NEW v \in Worker, jobs'[v].step = "marking"
        PROVE  Touched(CurrentHour(v))'
    <3>1. CASE v = w
      <4>1. PICK h \in Hour : h = rep.hour
        BY <1>2 DEF Report
      <4>2. rep.item \in Item /\ rep.qty > 0
        BY <1>2 DEF Honest, Report
      <4>3. PICK i \in Item : usage'[<<i, h>>] > 0
        <5>1. usage'[<<rep.item, rep.hour>>] = rep.qty
          BY <1>3 DEF KeysInv
        <5>2. QED
          BY <4>1, <4>2, <5>1
      <4>4. CurrentHour(v)' = h
        BY <1>2, <2>1, <3>1, <4>1
      <4>5. QED
        BY <4>3, <4>4 DEF Touched
    <3>2. CASE v # w
      <4>1. jobs[v].step = "marking" /\ Touched(CurrentHour(v))
        BY <1>4, <2>3, <3>2 DEF MeterInv, MarkInv
      <4>2. CurrentHour(v) \in Hour
        BY <4>1, BucketFacts
      <4>3. QED
        BY <1>3, <2>1, <4>1, <4>2 DEF Touched
    <3>3. QED
      BY <3>1, <3>2
  <2>4. \A r \in reported' : Committed(r)' /\ Touched(HourFloor(events[r].at))'
    BY <1>1, <1>3, RowsTouched
  <2>5. QED
    BY <2>3, <2>4 DEF MarkInv
<1>7. MeteringTypeOK'
  BY <1>1, <1>3, <1>4 DEF MeteringTypeOK
<1>8. EventsInv'
  BY <1>1 DEF MeterInv, EventsInv
<1>9. QED
  BY <1>3, <1>5, <1>6, <1>7, <1>8 DEF MeterInv

\* A request that arrives after its sender gave up.
LEMMA LateStep ==
    ASSUME MeterInv, NEW rep \in late, StripeServesLate(rep)
    PROVE  MeterInv'
<1>1. /\ UNCHANGED <<clock, events, reported, newest, lock, jobs, forgotten>>
      /\ late' = late \ {rep} /\ rep \in Report /\ Honest(rep) /\ MeteringTypeOK
      /\ Accept(rep) \/ UNCHANGED <<keys, usage>>
  BY DEF StripeServesLate, MeterInv, KeysInv, MeteringTypeOK
<1>2. /\ KeysInv' /\ \A h \in Hour : Touched(h) => Touched(h)'
      /\ keys' \subseteq Report /\ usage' \in [Item \X Hour -> Nat]
  <2>1. CASE Accept(rep)
    BY <1>1, <2>1, AcceptKeeps
  <2>2. CASE UNCHANGED <<keys, usage>>
    BY <1>1, <2>2, KeysKept DEF MeterInv, MeteringTypeOK, Touched
  <2>3. QED
    BY <1>1, <2>1, <2>2
<1>3. MeteringTypeOK'
  BY <1>1, <1>2 DEF MeteringTypeOK
<1>4. EventsInv' /\ \A w \in Worker : JobInv(w)'
  BY <1>1 DEF MeterInv, EventsInv, JobInv, Committed
<1>5. MarkInv'
  <2>1. \A v \in Worker : CurrentHour(v)' = CurrentHour(v)
    BY <1>1 DEF CurrentHour, HourFloor
  <2>2. ASSUME NEW v \in Worker, jobs[v].step = "marking"
        PROVE  Touched(CurrentHour(v))'
    <3>1. Touched(CurrentHour(v)) /\ CurrentHour(v) \in Hour
      BY <2>2, BucketFacts DEF MeterInv, MarkInv
    <3>2. QED
      BY <1>2, <2>1, <3>1 DEF Touched
  <2>3. \A r \in reported' : Committed(r)' /\ Touched(HourFloor(events[r].at))'
    BY <1>1, <1>2, RowsTouched
  <2>4. QED
    BY <1>1, <2>2, <2>3 DEF MarkInv
<1>6. QED
  BY <1>2, <1>3, <1>4, <1>5 DEF MeterInv

\* The rows of the bucket are given up; Stripe remembers a request of their hour.
LEMMA MarkStep ==
    ASSUME MeterInv, NEW w \in Worker, MarkReported(w)
    PROVE  MeterInv'
<1>1. /\ UNCHANGED <<clock, events, newest, keys, late, usage, forgotten>>
      /\ jobs[w].step = "marking" /\ NextBucket(w)
      /\ reported' = reported \cup Bucket(w) /\ MeteringTypeOK
  BY DEF MarkReported, MeterInv, recordVars
<1>2. /\ jobs' \in [Worker -> Job] /\ lock' \in Worker \cup {Nobody}
      /\ \A v \in Worker : JobInv(v)' \/ jobs'[v] = jobs[v]
      /\ \A v \in Worker : jobs'[v].step = "marking" => jobs'[v] = jobs[v]
  BY <1>1, NextBucketKeeps
<1>3. /\ Bucket(w) \subseteq jobs[w].rows /\ jobs[w].rows \subseteq Row
      /\ \A r \in Bucket(w) : Committed(r) /\ HourFloor(events[r].at) = CurrentHour(w)
  BY <1>1, BucketFacts DEF MeteringTypeOK, Job
<1>4. Touched(CurrentHour(w))
  BY <1>1 DEF MeterInv, MarkInv
<1>5. MeteringTypeOK'
  BY <1>1, <1>2, <1>3 DEF MeteringTypeOK
<1>6. EventsInv' /\ KeysInv' /\ \A v \in Worker : JobInv(v)'
  <2>1. EventsInv' /\ KeysInv'
    BY <1>1, KeysKept DEF MeterInv, EventsInv
  <2>2. \A v \in Worker : JobInv(v)'
    BY <1>1, <1>2 DEF MeterInv, JobInv, Committed
  <2>3. QED
    BY <2>1, <2>2
<1>7. MarkInv'
  <2>1. \A v \in Worker : jobs'[v] = jobs[v] => CurrentHour(v)' = CurrentHour(v)
    BY <1>1 DEF CurrentHour, HourFloor
  <2>2. \A v \in Worker :
           jobs'[v].step = "marking" => Touched(CurrentHour(v))'
    BY <1>1, <1>2, <2>1 DEF MeterInv, MarkInv, Touched
  <2>3. \A r \in reported' : Committed(r) /\ Touched(HourFloor(events[r].at))
    BY <1>1, <1>3, <1>4 DEF MeterInv, MarkInv
  <2>4. QED
    BY <1>1, <2>2, <2>3 DEF MarkInv, Committed, HourFloor, Touched
<1>8. QED
  BY <1>5, <1>6, <1>7 DEF MeterInv

-----------------------------------------------------------------------------
(* The theorems.                                                           *)

\* Every step keeps the invariant.
LEMMA MeterStep == MeterInv /\ [MeteringNext]_meteringVars => MeterInv'
<1> SUFFICES ASSUME MeterInv, [MeteringNext]_meteringVars
             PROVE  MeterInv'
    OBVIOUS
<1>1. ASSUME NEW r \in Row, (\E q \in Unit : ConsumeBegins(r, q)) \/ ConsumeCommits(r)
      PROVE  MeterInv'
  <2>1. /\ events \in [Row -> UsageEvent] /\ clock \in 0 .. LastTick /\ MeteringTypeOK
    BY DEF MeterInv, MeteringTypeOK
  <2>2. events' \in [Row -> UsageEvent]
    <3>1. ASSUME NEW q \in Unit, ConsumeBegins(r, q)
          PROVE  events' \in [Row -> UsageEvent]
      BY <2>1, <3>1, WindowAssumption DEF ConsumeBegins, UsageEvent
    <3>2. ASSUME ConsumeCommits(r)
          PROVE  events' \in [Row -> UsageEvent]
      BY <2>1, <3>2 DEF ConsumeCommits, UsageEvent
    <3>3. QED
      BY <1>1, <3>1, <3>2
  <2>3. UNCHANGED <<clock, reported, newest, lock, jobs, recordVars>>
    BY <1>1 DEF ConsumeBegins, ConsumeCommits
  <2>4. MeteringTypeOK'
    BY <2>1, <2>2, <2>3 DEF MeteringTypeOK, recordVars
  <2>5. QED
    BY <1>1, <2>4, ConsumeStep
<1>2. ASSUME NEW w \in Worker,
             \/ StartRun(w) \/ FetchUnreported(w) \/ FetchMeteredItems(w)
             \/ ReportAnswered(w) \/ ReportRefused(w) \/ ReportUnanswered(w)
             \/ MarkReported(w) \/ Crash(w) \/ LockLost(w)
      PROVE  MeterInv'
  BY <1>2, EarlySteps, FailureSteps, AnsweredStep, MarkStep
<1>3. ASSUME NEW rep \in late, StripeServesLate(rep)
      PROVE  MeterInv'
  BY <1>3, LateStep
<1>4. ASSUME NEW k \in keys, StripeForgets(k)
      PROVE  MeterInv'
  BY <1>4, ForgetStep
<1>5. CASE (\E i \in Item \cup {NoItem} : NewestChanges(i)) \/ ClockTicks \/ UNCHANGED meteringVars
  <2>1. UNCHANGED <<events, reported, lock, jobs, keys, late, usage, forgotten>>
    BY <1>5 DEF NewestChanges, ClockTicks, meteringVars, recordVars
  <2>2. clock' \in 0 .. LastTick /\ newest' \in Item \cup {NoItem}
    BY <1>5, WindowAssumption DEF NewestChanges, ClockTicks, meteringVars, MeterInv, MeteringTypeOK
  <2>3. MeteringTypeOK'
    BY <2>1, <2>2 DEF MeterInv, MeteringTypeOK
  <2>4. \A k \in late' : Honest(k)
    BY <2>1 DEF MeterInv, KeysInv
  <2>5. QED
    BY <2>1, <2>3, <2>4, QuietStep
<1>6. QED
  BY <1>1, <1>2, <1>3, <1>4, <1>5 DEF MeteringNext

\* No row, no run and no record before anything was consumed.
LEMMA InitMeter == MeteringInit => MeterInv
<1> SUFFICES ASSUME MeteringInit PROVE MeterInv
    OBVIOUS
<1>1. Idle \in Job /\ Idle.rows = {} /\ Idle.step = "idle"
  BY DEF Idle, Job, Step
<1>2. MeteringTypeOK
  BY <1>1, WindowAssumption DEF MeteringInit, MeteringTypeOK, UsageEvent
<1>3. EventsInv /\ \A w \in Worker : JobInv(w)
  BY <1>1 DEF MeteringInit, EventsInv, JobInv
<1>4. \A i \in Item, h \in Hour : usage[<<i, h>>] <= Quantity(UsedIn(h))
  BY <1>2, QuantityWithin DEF UsedIn, MeteringInit
<1>5. KeysInv /\ MarkInv
  BY <1>1, <1>4 DEF MeteringInit, KeysInv, MarkInv
<1>6. QED
  BY <1>2, <1>3, <1>5 DEF MeterInv

\* The invariant holds throughout.
LEMMA MeterHolds == MeteringSpec => []MeterInv
BY InitMeter, MeterStep, PTL DEF MeteringSpec

\* Types of the rows, the runs of the job and Stripe's records.
THEOREM MeteringTypeCorrect == MeteringSpec => []MeteringTypeOK
<1>1. MeterInv => MeteringTypeOK
  BY DEF MeterInv
<1>2. QED
  BY <1>1, MeterHolds, PTL

\* An hour none of whose items has a record is not billed.
LEMMA NothingBilled ==
    ASSUME NEW u, NEW h, \A i \in Item : u[<<i, h>>] = 0
    PROVE  SumFunction([i \in Item |-> u[<<i, h>>]]) = 0
BY FiniteAssumption, SumOfZeros DEF SumFunction

\* An hour with a record of one item is billed what that says.
LEMMA OneItemBilled ==
    ASSUME NEW u, NEW h, NEW i \in Item, \A j \in Item : u[<<j, h>>] \in Nat,
           \A j \in Item \ {i} : u[<<j, h>>] = 0
    PROVE  SumFunction([j \in Item |-> u[<<j, h>>]]) = u[<<i, h>>]
<1> DEFINE of == [j \in Item |-> u[<<j, h>>]]
<1>1. SumFunctionOnSet(of, Item \ {i}) = 0
  BY FiniteAssumption, FS_Subset, SumOfZeros
<1>2. SumFunctionOnSet(of, Item) = of[i] + SumFunctionOnSet(of, Item \ {i})
  <2>1. \A j \in Item : of[j] \in Int
    OBVIOUS
  <2> HIDE DEF of
  <2>2. QED
    BY <2>1, FiniteAssumption, SumRemove
<1>3. SumFunction(of) = SumFunctionOnSet(of, Item)
  BY DEF SumFunction
<1>4. QED
  BY <1>1, <1>2, <1>3

\* While no request of the hour is forgotten, what Stripe bills for the hour is what
\* the request it remembers asked for.
LEMMA BilledIsAsked ==
    ASSUME MeterInv, NEW h \in Hour \ forgotten
    PROVE  /\ (\A k \in keys : k.hour # h) => Billed(h) = 0
           /\ \A k \in keys : k.hour = h => Billed(h) = k.qty
<1>1. /\ KeysInv /\ keys \subseteq Report
      /\ \A i \in Item : usage[<<i, h>>] \in Nat
  BY DEF MeterInv, MeteringTypeOK
<1>2. ASSUME \A k \in keys : k.hour # h
      PROVE  Billed(h) = 0
  <2>1. \A i \in Item : usage[<<i, h>>] = 0
    BY <1>1, <1>2 DEF KeysInv
  <2>2. QED
    BY <2>1, NothingBilled DEF Billed
<1>3. ASSUME NEW k \in keys, k.hour = h
      PROVE  Billed(h) = k.qty
  <2>1. /\ k.item \in Item /\ usage[<<k.item, h>>] = k.qty
        /\ \A i \in Item \ {k.item} : usage[<<i, h>>] = 0
    BY <1>1, <1>3 DEF KeysInv, Report
  <2>2. QED
    BY <1>1, <2>1, OneItemBilled DEF Billed
<1>4. QED
  BY <1>2, <1>3

\* Whatever crashes, reruns, lost locks, late requests and changes of the
\* subscription come together, no item is ever billed more for an hour than was
\* used in it; nor are all items together while Stripe remembers the hour's key.
THEOREM HoursBilledOnce == MeteringSpec => []HourBilledOnce
<1>1. MeterInv => HourBilledOnce
  <2> SUFFICES ASSUME MeterInv, NEW h \in Hour
               PROVE  /\ \A i \in Item : usage[<<i, h>>] <= Quantity(UsedIn(h))
                      /\ h \notin forgotten => Billed(h) <= Quantity(UsedIn(h))
    BY DEF HourBilledOnce
  <2>1. Quantity(UsedIn(h)) \in Nat
    BY QuantityWithin DEF UsedIn, MeterInv
  <2>2. /\ \A k \in keys : k.hour = h => k.qty <= Quantity(UsedIn(h))
        /\ \A i \in Item : usage[<<i, h>>] <= Quantity(UsedIn(h))
    BY DEF MeterInv, KeysInv, Honest
  <2>3. QED
    BY <2>1, <2>2, BilledIsAsked
<1>2. QED
  BY <1>1, MeterHolds, PTL

\* A row is given up for the next runs only if Stripe bills something for its hour.
THEOREM MarkedIsBilled == MeteringSpec => []ReportedIsBilled
<1>1. MeterInv => ReportedIsBilled
  BY DEF MeterInv, MarkInv, Touched, ReportedIsBilled
<1>2. QED
  BY <1>1, MeterHolds, PTL

-----------------------------------------------------------------------------
(* Metering implements the ledger.                                         *)

LedgerUsed == [h \in Hour |-> Quantity(UsedIn(h))]
LedgerOpen == {h \in Hour : \A k \in keys : k.key # h}
LedgerSettled == {HourFloor(events[r].at) : r \in reported}

\* What is used in an hour depends on the events alone.
LEMMA SameUse ==
    ASSUME UNCHANGED events
    PROVE  LedgerUsed' = LedgerUsed
BY DEF LedgerUsed, Quantity, UsedIn, HourFloor

\* A request that begins to consume uses nothing yet; one that commits uses its
\* quantity in its hour.
LEMMA UseIsLedgers ==
    ASSUME MeterInv, NEW r \in Row,
           (\E q \in Unit : ConsumeBegins(r, q)) \/ ConsumeCommits(r)
    PROVE  [Ledger!Next]_(Ledger!ledgerVars)
<1>1. /\ MeteringTypeOK /\ EventsInv /\ events \in [Row -> UsageEvent]
      /\ UNCHANGED <<reported, keys, usage>>
  BY DEF MeterInv, MeteringTypeOK, ConsumeBegins, ConsumeCommits, recordVars
<1>2. \A x \in Row : Committed(x) => events'[x] = events[x]
  BY <1>1 DEF ConsumeBegins, ConsumeCommits, Committed
<1>3. LedgerSettled' = LedgerSettled /\ LedgerOpen' = LedgerOpen
  <2>1. \A x \in reported : events'[x] = events[x]
    BY <1>1, <1>2 DEF MeterInv, MarkInv, MeteringTypeOK
  <2>2. QED
    BY <1>1, <2>1 DEF LedgerSettled, LedgerOpen, Hour, HourFloor
<1>4. CASE \E q \in Unit : ConsumeBegins(r, q)
  <2>1. ASSUME NEW h \in Hour
        PROVE  Quantity(UsedIn(h))' = Quantity(UsedIn(h))
    <3> DEFINE set == UsedIn(h)
    <3>1. UsedIn(h)' = UsedIn(h)
      BY <1>1, <1>4 DEF ConsumeBegins, UsedIn, HourFloor
    <3>2. \A x \in set : Qty[x] = Qty'[x]
      BY <1>2 DEF UsedIn, Qty, Committed
    <3>3. IsFiniteSet(set)
      BY FiniteAssumption, FS_Subset DEF UsedIn
    <3>4. /\ Quantity(UsedIn(h)) = SumFunctionOnSet(Qty, set)
          /\ Quantity(UsedIn(h))' = SumFunctionOnSet(Qty', set)
      BY <3>1 DEF Quantity, Qty
    <3> HIDE DEF set
    <3>5. SumFunctionOnSet(Qty, set) = SumFunctionOnSet(Qty', set)
      BY <3>2, <3>3, SumAgree
    <3>6. QED
      BY <3>4, <3>5
  <2>2. LedgerUsed' = LedgerUsed
    BY <2>1 DEF LedgerUsed, Hour, HourFloor
  <2>3. QED
    BY <1>1, <1>3, <2>2 DEF Ledger!ledgerVars, LedgerUsed, LedgerOpen, LedgerSettled
<1>5. CASE ConsumeCommits(r)
  <2> DEFINE hour == HourFloor(events[r].at)
  <2>1. /\ events' = [events EXCEPT ![r].state = "committed"] /\ events[r].state = "open"
        /\ hour \in Hour
    BY <1>1, <1>5, HourType DEF ConsumeCommits, UsageEvent
  <2>2. /\ \A x \in Row : events'[x].qty = events[x].qty /\ events'[x].at = events[x].at
        /\ Qty' = Qty
    BY <1>1, <2>1 DEF UsageEvent, Qty
  <2>3. ASSUME NEW h
        PROVE  /\ UsedIn(h)' = UsedIn(h) \cup (IF h = hour THEN {r} ELSE {})
               /\ r \notin UsedIn(h)
               /\ Quantity(UsedIn(h)) = SumFunctionOnSet(Qty, UsedIn(h))
               /\ Quantity(UsedIn(h))' = SumFunctionOnSet(Qty, UsedIn(h)')
    <3>1. UsedIn(h)' = UsedIn(h) \cup (IF h = hour THEN {r} ELSE {}) /\ r \notin UsedIn(h)
      BY <1>1, <2>1, <2>2 DEF UsedIn, HourFloor
    <3>2. Quantity(UsedIn(h)) = SumFunctionOnSet(Qty, UsedIn(h))
      BY DEF Quantity, Qty
    <3>3. Quantity(UsedIn(h))' = SumFunctionOnSet(Qty', UsedIn(h)')
      BY DEF Quantity, Qty
    <3>4. QED
      BY <2>2, <3>1, <3>2, <3>3
  <2>4. \A h \in Hour \ {hour} : LedgerUsed'[h] = LedgerUsed[h]
    BY <2>3 DEF LedgerUsed
  <2>5. LedgerUsed'[hour] > LedgerUsed[hour]
    <3> DEFINE old == SumFunctionOnSet(Qty, UsedIn(hour))
    <3>1. IsFiniteSet(UsedIn(hour)) /\ UsedIn(hour) \subseteq Row
      BY FiniteAssumption, FS_Subset DEF UsedIn
    <3>2. \A x \in UsedIn(hour) \cup {r} : Qty[x] \in Int
      BY <1>1, <3>1, QtyType
    <3>3. SumFunctionOnSet(Qty, UsedIn(hour) \cup {r}) = Qty[r] + old
      BY <2>3, <3>1, <3>2, SumAdd
    <3>4. old \in Int /\ Qty[r] \in Int /\ Qty[r] > 0
      BY <1>1, <2>1, <3>1, <3>2, SumType, QtyType DEF EventsInv
    <3>5. LedgerUsed[hour] = old /\ LedgerUsed'[hour] = Qty[r] + old
      BY <2>1, <2>3, <3>3 DEF LedgerUsed
    <3> HIDE DEF old
    <3>6. QED
      BY <3>4, <3>5
  <2>6. LedgerUsed' = [LedgerUsed EXCEPT ![hour] = LedgerUsed'[hour]]
    <3>1. /\ LedgerUsed = [h \in Hour |-> LedgerUsed[h]]
          /\ LedgerUsed' = [h \in Hour |-> LedgerUsed'[h]]
      BY DEF LedgerUsed, Hour, HourFloor
    <3>2. QED
      BY <2>1, <2>4, <3>1
  <2>7. Ledger!Use(hour)
    BY <1>1, <1>3, <2>5, <2>6 DEF Ledger!Use, LedgerUsed, LedgerOpen, LedgerSettled
  <2>8. QED
    BY <2>1, <2>7 DEF Ledger!Next
<1>6. QED
  BY <1>4, <1>5

\* A request that Stripe takes, early or late, bills an open hour and closes it.
LEMMA AcceptIsLedgers ==
    ASSUME MeterInv, UNCHANGED <<events, reported>>,
           NEW rep \in Report, Honest(rep), Accept(rep)
    PROVE  Ledger!Next
<1> DEFINE hour == rep.hour
           item == rep.item
<1>1. /\ keys' = keys \cup {rep} /\ usage' = [usage EXCEPT ![<<item, hour>>] = rep.qty]
      /\ \A k \in keys : k.key # hour
      /\ rep.key = hour /\ rep.qty > 0 /\ rep.qty <= Quantity(UsedIn(hour))
      /\ usage \in [Item \X Hour -> Nat]
      /\ item \in Item /\ hour \in Hour /\ rep.qty \in Nat
      /\ MeteringTypeOK
  BY DEF Accept, KeyKnown, Honest, MeterInv, MeteringTypeOK, Report
<1>2. LedgerUsed' = LedgerUsed /\ LedgerSettled' = LedgerSettled
  BY SameUse DEF LedgerSettled, HourFloor
<1>3. hour \in LedgerOpen /\ LedgerOpen' = LedgerOpen \ {hour}
  BY <1>1 DEF LedgerOpen, Hour, HourFloor
<1>4. usage'[<<item, hour>>] = rep.qty
  BY <1>1
<1>5. usage'[<<item, hour>>] \in 1 .. LedgerUsed[hour]
  <2>1. LedgerUsed[hour] = Quantity(UsedIn(hour)) /\ LedgerUsed[hour] \in Nat
    BY <1>1, QuantityWithin DEF LedgerUsed, UsedIn
  <2>2. QED
    BY <1>1, <1>4, <2>1
<1>6. usage' = [usage EXCEPT ![<<item, hour>>] = usage'[<<item, hour>>]]
  BY <1>1, <1>4
<1>7. Ledger!Bill(item, hour)
  BY <1>2, <1>3, <1>5, <1>6 DEF Ledger!Bill, LedgerUsed, LedgerOpen, LedgerSettled
<1>8. QED
  BY <1>1, <1>7 DEF Ledger!Next

\* A key that Stripe forgets opens its hour again.
LEMMA ForgetIsLedgers ==
    ASSUME MeterInv, NEW k \in keys, StripeForgets(k)
    PROVE  Ledger!Next
<1>1. /\ UNCHANGED <<events, reported, usage>> /\ keys' = keys \ {k}
      /\ k.hour \in Hour /\ \A l \in keys : l.key = l.hour
      /\ \A l \in keys : l.hour = k.hour => l = k
  BY DEF StripeForgets, MeterInv, MeteringTypeOK, KeysInv, Honest, Report
<1>2. LedgerUsed' = LedgerUsed /\ LedgerSettled' = LedgerSettled
  BY <1>1, SameUse DEF LedgerSettled, HourFloor
<1>3. LedgerOpen' = LedgerOpen \cup {k.hour}
  BY <1>1 DEF LedgerOpen, Hour, HourFloor
<1>4. Ledger!Reopen(k.hour)
  BY <1>1, <1>2, <1>3 DEF Ledger!Reopen, LedgerUsed, LedgerOpen, LedgerSettled
<1>5. QED
  BY <1>1, <1>4 DEF Ledger!Next

\* Rows are marked hour by hour, each after its bill.
LEMMA MarkIsLedgers ==
    ASSUME MeterInv, NEW w \in Worker, MarkReported(w)
    PROVE  Ledger!Next
<1> DEFINE hour == CurrentHour(w)
<1>1. /\ UNCHANGED <<events, keys, usage>> /\ jobs[w].step = "marking"
      /\ reported' = reported \cup Bucket(w) /\ MeteringTypeOK
  BY DEF MarkReported, MeterInv, recordVars
<1>2. /\ hour \in Hour /\ Bucket(w) \subseteq jobs[w].rows
      /\ \A r \in Bucket(w) : HourFloor(events[r].at) = hour
  BY <1>1, BucketFacts
<1>3. Bucket(w) # {}
  <2> DEFINE hours == {HourFloor(events[r].at) : r \in jobs[w].rows}
  <2>1. jobs[w].rows \subseteq Row /\ jobs[w].rows # {}
    BY <1>1 DEF MeterInv, JobInv, MeteringTypeOK, Job
  <2>2. \A r \in jobs[w].rows : HourFloor(events[r].at) \in Nat
    BY <1>1, <2>1, HourType DEF MeteringTypeOK, UsageEvent
  <2>3. hours \in SUBSET Nat /\ hours # {}
    BY <2>1, <2>2
  <2>4. hour \in hours
    BY <2>3, MinIsIn DEF CurrentHour
  <2>5. QED
    BY <2>4 DEF Bucket
<1>4. LedgerSettled' = LedgerSettled \cup {hour}
  BY <1>1, <1>2, <1>3 DEF LedgerSettled, HourFloor
<1>5. \E i \in Item : usage[<<i, hour>>] > 0
  BY <1>1 DEF MeterInv, MarkInv, Touched
<1>6. LedgerUsed' = LedgerUsed /\ LedgerOpen' = LedgerOpen
  BY <1>1, SameUse DEF LedgerOpen, Hour, HourFloor
<1>7. Ledger!Settle(hour)
  BY <1>1, <1>4, <1>5, <1>6 DEF Ledger!Settle, LedgerUsed, LedgerOpen, LedgerSettled
<1>8. QED
  BY <1>2, <1>7 DEF Ledger!Next

\* Nothing is used, billed, opened or settled without an event, a record, a key or a mark.
LEMMA NothingIsLedgers ==
    ASSUME UNCHANGED <<events, keys, usage, reported>>
    PROVE  UNCHANGED Ledger!ledgerVars
<1>1. LedgerSettled' = LedgerSettled
  BY DEF LedgerSettled, HourFloor
<1>2. LedgerOpen' = LedgerOpen
  BY DEF LedgerOpen, Hour, HourFloor
<1>3. QED
  BY <1>1, <1>2, SameUse DEF Ledger!ledgerVars, LedgerUsed, LedgerOpen, LedgerSettled

\* Every step of metering is one of the ledger or none.
LEMMA LedgerStep ==
    MeterInv /\ [MeteringNext]_meteringVars
        => [Ledger!Next]_(Ledger!ledgerVars)
<1> SUFFICES ASSUME MeterInv, [MeteringNext]_meteringVars
             PROVE  [Ledger!Next]_(Ledger!ledgerVars)
  OBVIOUS
<1>1. ASSUME NEW r \in Row, (\E q \in Unit : ConsumeBegins(r, q)) \/ ConsumeCommits(r)
      PROVE  [Ledger!Next]_(Ledger!ledgerVars)
  BY <1>1, UseIsLedgers
<1>2. ASSUME NEW w \in Worker, ReportAnswered(w)
      PROVE  [Ledger!Next]_(Ledger!ledgerVars)
  <2>1. /\ jobs[w].step = "calling" /\ UNCHANGED <<events, reported>>
        /\ Accept(BucketReport(w)) \/ UNCHANGED <<keys, usage>>
    BY <1>2 DEF ReportAnswered
  <2>2. BucketReport(w) \in Report /\ Honest(BucketReport(w))
    BY <2>1, BucketFacts
  <2>3. QED
    BY <2>1, <2>2, AcceptIsLedgers, NothingIsLedgers
<1>3. ASSUME NEW rep \in late, StripeServesLate(rep)
      PROVE  [Ledger!Next]_(Ledger!ledgerVars)
  <2>1. /\ rep \in Report /\ Honest(rep) /\ UNCHANGED <<events, reported>>
        /\ Accept(rep) \/ UNCHANGED <<keys, usage>>
    BY <1>3 DEF StripeServesLate, MeterInv, KeysInv, MeteringTypeOK
  <2>2. QED
    BY <2>1, AcceptIsLedgers, NothingIsLedgers
<1>4. ASSUME NEW w \in Worker, MarkReported(w)
      PROVE  [Ledger!Next]_(Ledger!ledgerVars)
  BY <1>4, MarkIsLedgers
<1>5. ASSUME NEW w \in Worker,
             \/ StartRun(w) \/ FetchUnreported(w) \/ FetchMeteredItems(w)
             \/ ReportRefused(w) \/ ReportUnanswered(w) \/ Crash(w) \/ LockLost(w)
      PROVE  UNCHANGED <<events, keys, usage, reported>>
  BY <1>5 DEF StartRun, FetchUnreported, FetchMeteredItems, ReportRefused,
              ReportUnanswered, Crash, LockLost, recordVars
<1>6. ASSUME NEW k \in keys, StripeForgets(k)
      PROVE  [Ledger!Next]_(Ledger!ledgerVars)
  BY <1>6, ForgetIsLedgers
<1>7. CASE (\E i \in Item \cup {NoItem} : NewestChanges(i)) \/ ClockTicks
           \/ UNCHANGED meteringVars
  BY <1>7, NothingIsLedgers DEF NewestChanges, ClockTicks, meteringVars, recordVars
<1>8. QED
  BY <1>1, <1>2, <1>3, <1>4, <1>5, <1>6, <1>7, NothingIsLedgers DEF MeteringNext

\* Before anything was consumed, nothing is used, billed or settled.
LEMMA LedgerInit == MeteringInit => Ledger!Init
<1> SUFFICES ASSUME MeteringInit PROVE Ledger!Init
  OBVIOUS
<1>1. ASSUME NEW h \in Hour
      PROVE  Quantity(UsedIn(h)) = 0
  <2>1. UsedIn(h) = {}
    BY DEF MeteringInit, UsedIn
  <2>2. QED
    BY <2>1, SumEmpty DEF Quantity
<1>2. reported = {} /\ keys = {} /\ usage = [x \in Item \X Hour |-> 0]
  BY DEF MeteringInit
<1>3. QED
  BY <1>1, <1>2 DEF Ledger!Init

\* Whatever crashes, reruns, lost locks, late requests and changes of the
\* subscription come together, an open hour is billed on one item, for no more than
\* was used in it by then, and is open again only when Stripe forgets its key; and
\* the job gives rows of an hour up only after it was billed.
THEOREM ImplementsLedger == MeteringSpec => LedgerSpec
BY LedgerInit, LedgerStep, MeterHolds, PTL DEF MeteringSpec, LedgerSpec, Ledger!Spec
====
