------------------------------ MODULE Metering ------------------------------
(***************************************************************************)
(* How the overage of one organisation and feature becomes money: the      *)
(* requests that write usage_events (core/entitlements.py), the hourly job *)
(* that reports them (jobs/meter_usage.py, core/stripe_client.py), and     *)
(* Stripe's usage records.                                                 *)
(*                                                                         *)
(* Time is counted in ticks, HourLen of them to an hour.  Several runs of  *)
(* the job may be under way: cron starts one while another is still at     *)
(* work, by hand, or after a crash.  Stripe answers a request whose        *)
(* idempotency key it knows from memory, and refuses the key with other    *)
(* parameters.  After KeyLife, a day, it forgets the key, while the job    *)
(* reports a row it has not marked again every hour, without end.          *)
(* A dry run takes the lock, reads and releases it, as a run does that     *)
(* dies before its first report; it is not modelled apart.                 *)
(***************************************************************************)
EXTENDS Integers, FiniteSets, FiniteSetsExt, Functions

CONSTANTS
    Worker,        \* runs of the job
    Row,           \* rows of usage_events, billed
    Unit,          \* quantities a request may consume
    Item,          \* metered subscription items at Stripe
    HourLen, SafetyWindow,
    KeyLife,       \* how long, at least, Stripe remembers an idempotency key
    NoItem,        \* no subscription, or one without an item for the feature
    Nobody,        \* the advisory lock is free
    LastTick, MaxLate   \* bounds on the clock, on the requests under way unheard

ASSUME WindowAssumption ==
    /\ HourLen \in Nat \ {0} /\ SafetyWindow \in Nat /\ KeyLife \in Nat
    /\ LastTick \in Nat /\ MaxLate \in Nat
    /\ Unit \subseteq Nat \ {0}
ASSUME FiniteAssumption == IsFiniteSet(Row) /\ IsFiniteSet(Item)
ASSUME NobodyAssumption == NoItem \notin Item /\ Nobody \notin Worker

HourFloor(t) == t \div HourLen
Hour == {HourFloor(t) : t \in 0 .. LastTick}

\* The arguments of report_usage.
Report == [key : Hour, item : Item, hour : Hour, qty : Nat]

UsageEvent == [state : {"none", "open", "committed"}, at : 0 .. LastTick, qty : Nat]

Step == {"idle", "locked", "fetched", "calling", "marking"}
Job == [step : Step, cutoff : Int, rows : SUBSET Row, item : Item \cup {NoItem}]

VARIABLES
    clock,
    events,    \* usage_events; "open" in a transaction not committed yet
    reported,  \* rows whose reported_at is set
    newest,    \* the feature's item in the newest subscription
    lock,      \* holder of the advisory lock
    jobs,      \* the runs of the job; rows: those of buckets not yet done
    keys,      \* what Stripe remembers under each idempotency key
    late,      \* requests to Stripe whose sender no longer waits
    usage,     \* Stripe's usage records
    forgotten  \* history: hours whose idempotency key Stripe has forgotten

recordVars == <<keys, late, usage, forgotten>>
meteringVars == <<clock, events, reported, newest, lock, jobs, recordVars>>

MeteringTypeOK ==
    /\ clock \in 0 .. LastTick
    /\ events \in [Row -> UsageEvent]
    /\ reported \subseteq Row
    /\ newest \in Item \cup {NoItem}
    /\ lock \in Worker \cup {Nobody}
    /\ jobs \in [Worker -> Job]
    /\ keys \subseteq Report
    /\ late \subseteq Report
    /\ usage \in [Item \X Hour -> Nat]
    /\ forgotten \subseteq Hour

Idle == [step |-> "idle", cutoff |-> 0, rows |-> {}, item |-> NoItem]

MeteringInit ==
    /\ clock = 0
    /\ events = [r \in Row |-> [state |-> "none", at |-> 0, qty |-> 0]]
    /\ reported = {}
    /\ newest \in Item \cup {NoItem}
    /\ lock = Nobody
    /\ jobs = [w \in Worker |-> Idle]
    /\ keys = {}
    /\ late = {}
    /\ usage = [x \in Item \X Hour |-> 0]
    /\ forgotten = {}

Quantity(rows) == SumFunctionOnSet([r \in Row |-> events[r].qty], rows)

-----------------------------------------------------------------------------
(* The requests that consume, and the subscription's webhooks.             *)

\* try_consume beyond the quota: occurred_at is the instant the transaction
\* began, whenever it commits.
ConsumeBegins(r, q) ==
    /\ events[r].state = "none"
    /\ events' = [events EXCEPT ![r] = [state |-> "open", at |-> clock, qty |-> q]]
    /\ UNCHANGED <<clock, reported, newest, lock, jobs, recordVars>>

ConsumeCommits(r) ==
    /\ events[r].state = "open"
    /\ events' = [events EXCEPT ![r].state = "committed"]
    /\ UNCHANGED <<clock, reported, newest, lock, jobs, recordVars>>

\* Any webhook that touches a subscription row can make it the newest.
NewestChanges(i) ==
    /\ newest # i
    /\ newest' = i
    /\ UNCHANGED <<clock, events, reported, lock, jobs, recordVars>>

ClockTicks ==
    /\ clock < LastTick
    /\ clock' = clock + 1
    /\ UNCHANGED <<events, reported, newest, lock, jobs, recordVars>>

-----------------------------------------------------------------------------
(* The job.                                                                *)

\* The job goes idle and the lock, if it still is its own, is released.
Finish(w) ==
    /\ jobs' = [jobs EXCEPT ![w] = Idle]
    /\ lock' = IF lock = w THEN Nobody ELSE lock

\* A run that finds the lock taken returns at once, and changes nothing.
StartRun(w) ==
    /\ jobs[w].step = "idle"
    /\ lock = Nobody
    /\ lock' = w
    /\ jobs' = [jobs EXCEPT ![w].step = "locked", ![w].cutoff = clock - SafetyWindow]
    /\ UNCHANGED <<clock, events, reported, newest, recordVars>>

Unreported(cutoff) ==
    {r \in Row \ reported : events[r].state = "committed" /\ events[r].at < cutoff}

FetchUnreported(w) ==
    /\ jobs[w].step = "locked"
    /\ LET rows == Unreported(jobs[w].cutoff)
       IN  \/ /\ rows = {}
              /\ Finish(w)
           \/ /\ rows # {}
              /\ jobs' = [jobs EXCEPT ![w].step = "fetched", ![w].rows = rows]
              /\ UNCHANGED lock
    /\ UNCHANGED <<clock, events, reported, newest, recordVars>>

\* Without an item every bucket is skipped.
FetchMeteredItems(w) ==
    /\ jobs[w].step = "fetched"
    /\ \/ /\ newest = NoItem
          /\ Finish(w)
       \/ /\ newest # NoItem
          /\ jobs' = [jobs EXCEPT ![w].step = "calling", ![w].item = newest]
          /\ UNCHANGED lock
    /\ UNCHANGED <<clock, events, reported, newest, recordVars>>

\* The buckets of a run are its rows by hour, taken in order.
CurrentHour(w) == Min({HourFloor(events[r].at) : r \in jobs[w].rows})
Bucket(w) == {r \in jobs[w].rows : HourFloor(events[r].at) = CurrentHour(w)}

\* Fault: keyed by the hour of the run.
IdempotencyKey_OfRun(hour, item) == HourFloor(clock)

\* org_id and feature are the same in all of them.
IdempotencyKey(hour, item) == hour

BucketReport(w) ==
    [key |-> IdempotencyKey(CurrentHour(w), jobs[w].item), item |-> jobs[w].item,
     hour |-> CurrentHour(w), qty |-> Quantity(Bucket(w))]

\* On to the next bucket, or the end of the run.
NextBucket(w) ==
    LET rest == jobs[w].rows \ Bucket(w)
    IN  \/ /\ rest = {}
           /\ Finish(w)
        \/ /\ rest # {}
           /\ jobs' = [jobs EXCEPT ![w].step = "calling", ![w].rows = rest]
           /\ UNCHANGED lock

\* Stripe does what it is told the first time it sees a key (action="set").
KeyKnown(rep) == \E k \in keys : k.key = rep.key
Accept(rep) ==
    /\ ~KeyKnown(rep)
    /\ keys' = keys \cup {rep}
    /\ usage' = [usage EXCEPT ![<<rep.item, rep.hour>>] = rep.qty]

\* report_usage returns a record: a new one, or the one it returned before.
ReportAnswered(w) ==
    /\ jobs[w].step = "calling"
    /\ \/ Accept(BucketReport(w))
       \/ /\ BucketReport(w) \in keys
          /\ UNCHANGED <<keys, usage>>
    /\ jobs' = [jobs EXCEPT ![w].step = "marking"]
    /\ UNCHANGED <<clock, events, reported, newest, lock, late, forgotten>>

\* Fault: rows are marked whatever Stripe said.
ReportRefused_Marks(w) ==
    /\ jobs[w].step = "calling"
    /\ jobs' = [jobs EXCEPT ![w].step = "marking"]
    /\ UNCHANGED <<clock, events, reported, newest, lock, recordVars>>

\* StripeReportError: the key is known with other parameters, or Stripe said no.
ReportRefused(w) ==
    /\ jobs[w].step = "calling"
    /\ NextBucket(w)
    /\ UNCHANGED <<clock, events, reported, newest, recordVars>>

\* StripeReportError: no answer in time; the request may still get there.
ReportUnanswered(w) ==
    /\ jobs[w].step = "calling"
    /\ Cardinality(late) < MaxLate
    /\ late' = late \cup {BucketReport(w)}
    /\ NextBucket(w)
    /\ UNCHANGED <<clock, events, reported, newest, keys, usage, forgotten>>

StripeServesLate(rep) ==
    /\ rep \in late
    /\ late' = late \ {rep}
    /\ Accept(rep) \/ (KeyKnown(rep) /\ UNCHANGED <<keys, usage>>)
    /\ UNCHANGED <<clock, events, reported, newest, lock, jobs, forgotten>>

\* A key is first used after the hour it is for has begun, so it lives at least
\* until that hour's beginning is KeyLife old.  No request is under way that long.
StripeForgets(k) ==
    /\ k \in keys
    /\ \A rep \in late : rep.key # k.key
    /\ clock >= HourLen * k.hour + KeyLife
    /\ keys' = keys \ {k}
    /\ forgotten' = forgotten \cup {k.hour}
    /\ UNCHANGED <<clock, events, reported, newest, lock, jobs, late, usage>>

\* Its own transaction; a row another run has marked meanwhile stays as it is.
MarkReported(w) ==
    /\ jobs[w].step = "marking"
    /\ reported' = reported \cup Bucket(w)
    /\ NextBucket(w)
    /\ UNCHANGED <<clock, events, newest, recordVars>>

\* The run ends by an exception or is killed; its session ends with it.
Crash(w) ==
    /\ jobs[w].step # "idle"
    /\ Finish(w)
    /\ UNCHANGED <<clock, events, reported, newest, recordVars>>

\* The connection that holds the lock drops; the run does not use it any more
\* and goes on.
LockLost(w) ==
    /\ lock = w
    /\ jobs[w].step \in {"calling", "marking"}
    /\ lock' = Nobody
    /\ UNCHANGED <<clock, events, reported, newest, jobs, recordVars>>

MeteringNext ==
    \/ \E r \in Row : (\E q \in Unit : ConsumeBegins(r, q)) \/ ConsumeCommits(r)
    \/ \E i \in Item \cup {NoItem} : NewestChanges(i)
    \/ ClockTicks
    \/ \E w \in Worker :
          \/ StartRun(w) \/ FetchUnreported(w) \/ FetchMeteredItems(w)
          \/ ReportAnswered(w) \/ ReportRefused(w) \/ ReportUnanswered(w)
          \/ MarkReported(w) \/ Crash(w) \/ LockLost(w)
    \/ \E rep \in late : StripeServesLate(rep)
    \/ \E k \in keys : StripeForgets(k)

MeteringSpec == MeteringInit /\ [][MeteringNext]_meteringVars

-----------------------------------------------------------------------------
(* Properties.                                                             *)

UsedIn(h) == {r \in Row : events[r].state = "committed" /\ HourFloor(events[r].at) = h}
Billed(h) == SumFunction([i \in Item |-> usage[<<i, h>>]])

\* Whatever crashes, reruns, lost locks, late requests and changes of the
\* subscription come together, no item is ever billed more for an hour than was
\* used in it; nor are all items together, unless Stripe has forgotten the hour's
\* key.  Once it has, a row still unmarked can bill the hour on a second item.
HourBilledOnce ==
    \A h \in Hour :
        /\ \A i \in Item : usage[<<i, h>>] <= Quantity(UsedIn(h))
        /\ h \notin forgotten => Billed(h) <= Quantity(UsedIn(h))

\* A row is given up for the next runs only if Stripe bills something for its hour.
ReportedIsBilled ==
    \A r \in reported : \E i \in Item : usage[<<i, HourFloor(events[r].at)>>] > 0

Ledger == INSTANCE UsageLedger WITH
              used <- [h \in Hour |-> Quantity(UsedIn(h))],
              billed <- usage,
              open <- {h \in Hour : \A k \in keys : k.key # h},
              settled <- {HourFloor(events[r].at) : r \in reported}

\* The ledger: every step of requests, runs and Stripe uses, bills, reopens or
\* settles one hour, or none; no retry, rerun or late request bills an hour again
\* while Stripe remembers its key.
LedgerSpec == Ledger!Spec
=============================================================================
