# ProxiAlpha in TLA+

A verification project for the ProxiAlpha code base: TLA+ models of its control
plane and customer agent, TLC runs over small instances, and TLAPS proofs for
every value of the constants. `PROJECT.json` lists the components, the runs, the
source lines each definition stands for, the hazards and the theorems.

## 1. The system

ProxiAlpha is sold as a *control plane* (FastAPI + PostgreSQL, `api/`, `core/`,
`jobs/`, `migrations/`) that bills organisations through Stripe and licenses an
*agent* (`proxialpha_agent/`), a container on the customer's host that runs the
trading engine (`strategies/`, `paper_trading/`, `live_trading/`,
`backtesting/`).

| Component | State it keeps | Operations | What makes it correct |
|---|---|---|---|
| Install tokens, enrolment (`api/agent/enroll.py`, `install_tokens.py`, `api/billing/install_tokens_admin.py`) | `install_tokens`, `agents` | mint; validate, consume and enrol in one transaction | a token buys one licence; one `agents` row per host |
| Heartbeat endpoint (`api/agent/heartbeat.py`) | `heartbeat_jti_seen`, `agents.grace_until`, `agents.config_version` | verify, refuse or renew a licence | a licence is renewed once; a barred agent is not renewed; offline grace is bounded |
| Licence issue and check (`api/agent/license_issuer.py`, `proxialpha_agent/license.py`) | licence file, fingerprint file | sign, verify, persist, rotate | both ends agree on expiry and binding; file and memory agree |
| Signing keys (`core/jwt_keys.py`, `api/wellknown.py`, `license.py`'s key cache, the rotation runbook) | active and previous key of every API process, the HTTP cache, agents' caches | rotate, restart, publish, refetch | a licence signed before a rotation still verifies; agents find the new key |
| Agent supervisor (`proxialpha_agent/supervisor.py`, `modes.py`, `heartbeat.py`, `__main__.py`) | mode, exit code, shutdown event, licence | boot, beat, react, shut down | live orders only while confirmed; restricted modes have a cause; it stops when told |
| Rate limiter (`api/middleware/rate_limit.py`) and the loop's cadence (`heartbeat.py`) | token buckets; interval, count, fast start | take; back off, reset | rate and burst bounds; an agent that keeps its cadence is never throttled |
| Support bundles (`api/billing/support_bundles.py`) | object storage, `support_bundles`, `install_tokens.consumed_at` | authenticate, read, store, enter the row | no row without its object; storage per address bounded; a dead token revives only by an enrolment begun in time |
| Stripe webhook and handlers (`api/billing/webhook.py`, `handlers.py`, `entitlement_seeder.py`) | `stripe_events`, `subscriptions`, `entitlements`, `organizations` | dedupe and apply six event types in one transaction each | an event is applied once; the books follow the subscription whatever order events arrive in |
| Entitlement gate (`core/entitlements.py`, `api/billing/feature_gates.py`) | `entitlements.remaining`, `usage_events` | consume atomically, log overage; check a flag or a cap, then act | no more than the quota is served; a cap is passed by concurrent requests only |
| Metering job (`jobs/meter_usage.py`, `core/stripe_client.py`) | `usage_events.reported_at`, advisory lock, Stripe's idempotency keys | report hourly buckets to Stripe | an hour is not billed twice while Stripe knows the key; nothing is given up unbilled |
| Checkout and portal (`api/billing/endpoints.py`) | Stripe sessions | check for a subscription, create a session | one subscription per organisation |
| Risk manager (`core/risk_manager.py`) | daily high, breaker | validate a trade, enforce a stop | limits hold over sequences of trades, the breaker holds for the day |
| Paper trading, live bots, backtest | cash, positions, counters, one JSON file, orders at the broker | buy, sell, scan, submit, close, retry, a day of bars | no buy makes debts; no more orders than attempts; stops honoured |
| Strategies and the LLM decision maker (`strategies/`, `core/ai_decision_maker.py`) | none between calls | signals, decisions, consensus, scan | a verdict has a vote, or a negative one against its opposite, behind it |
| Dashboard server (`api/server.py`) | watchlist, prices, roster, WebSocket clients, shared by all requests | toggle, weigh, add, scan, trade, broadcast | who is on the list hears every broadcast |

How they interact: Stripe's webhooks write `subscriptions`, which the heartbeat
endpoint reads on every beat to decide between renewal (200), past due (402) and
refusal (403). The agent's heartbeat task presents the licence it holds and gets
its successor in the answer; the licence it presented is spent by then. The
supervisor turns the outcome of each beat into a mode, and the modes decide what
the trading engine may do. The entitlement gate of the API consumes from the rows
the webhook handlers seed, and writes the overage events that the metering job
reports back to Stripe. Enrolments, heartbeats and bundle uploads pass the rate
limiter first. Every trader asks a `RiskManager` of its own (the Hyperliquid
adapter asks none); the dashboard server and `main.py --mode paper` share one
account file without a lock.

What is hard here: the answer to a heartbeat can be lost after the control plane
committed; abandoned requests can be served late; the agent can crash, be
signalled or lose its files between any two steps; Stripe delivers events late,
twice and out of order; the hourly job races with requests that are still
writing events; several requests consume one quota at the same time; API
processes are restarted one by one while keys rotate; a broker's answer is lost
after it executed; a handler awaits between reading shared memory and using it;
storage, transaction and process fail between the steps of an upload. The
`hazards` of `PROJECT.json` name the lines where these bite.

## 2. Modules

| Module | Models | State and actions |
|---|---|---|
| `Licenses` | the claims of a licence | `IssueLicense`, `Unexpired`; no state |
| `LicenseChain` | **abstract**: what the control plane promises about credentials | `life`, `root`; `Mint`, `Exchange` |
| `ControlPlane` | enrolment, heartbeat, revocation, subscription status | one variable per table; one action per handler |
| `AgentProcess` | one agent process, its files, its modes | the supervisor's fields, the heartbeat task's position, two files |
| `AgentSystem` | one agent and its control plane over a lossy network | both components' variables, plus the request in flight and abandoned requests |
| `Billing` | checkout, Stripe and its events, the webhook handlers, consumption of quotas | Stripe's side, the billing tables, the usage counted; one action per handler and per thing Stripe does |
| `UsageLedger` | **abstract**: what metering promises of an hour | `used`, `billed`, `open`, `settled`; `Use`, `Bill`, `Reopen`, `Settle` |
| `Metering` | the hourly job, its lock, its buckets, Stripe's usage records | one variable per table and per thing Stripe remembers; one action per await of a run |
| `SigningKeys` | the keys of API processes and agents through a rotation | environment and cached key per process, HTTP cache, client, cache and licence per agent; the runbook's steps |
| `Market` | the tickers there are, for server and traders | no state |
| `RiskManager` | the gate of every buy | the account, the day's tracking; operators the traders use |
| `PaperTrading`, `LiveTrading`, `Backtest` | the traders | account, snapshots, open orders, file; one action per order, scan step, fill, failure |
| `Trading` | composes the four: a behaviour follows one trader | the invariants |
| `RateLimit` | token buckets and the agent's cadence | buckets, loops, sleeps; a request, a beat and its outcomes, a tick, a restart |
| `SupportBundles` | bundle uploads behind the limiter (EXTENDS `RateLimit`) | requests under way, storage, rows; one action per await |
| `Strategies` | consensus, the decision maker, the AI strategy | operators only |
| `Dashboard` | the server's shared memory and its WebSocket clients (EXTENDS `Strategies`) | requests at their awaits, the list, the roster, the watchlist |
| `Sums` | lemmas about sums over finite sets | no state |
| `ControlPlane_proofs` | theorems about `LicenseChain` and `ControlPlane` | |
| `AgentProcess_proofs`, `AgentSystem_proofs`, `SigningKeys_proofs` | theorems about the module of the name | |
| `Billing_proofs` | theorems about `Billing` and `Metering` | |
| `SupportBundles_proofs` | theorems about `RateLimit` and `SupportBundles` | |
| `Trading_proofs` | theorems about `Trading` and the traders it composes, `Strategies` and `Dashboard` | |
| `MC*` | instances for TLC | symmetry sets, finite offers |

### ControlPlane

Each variable is a table or a column: `install` is `install_tokens`, `agents` is
`agents` (fingerprint, `grace_until`, `config_version`), `seen` is
`heartbeat_jti_seen`, `revokedJti` and `revokedAgents` are the two shapes of
`revoked_jti` rows, `sub` is the disposition of the organisation's newest
`subscriptions` row. Two variables are not in the database: `issued`, every
licence ever handed out, and `root`, a history variable that says from which
install token a licence descends.

Every handler runs in one transaction that commits last, so `Enroll` and
`ServeHeartbeat` are one step each, and a refused call changes nothing and is
not a step. `Verdict` is the sequence of refusals in the handler's order.
A heartbeat may present *any* licence of `issued` at any time: that covers
retries, duplicated requests, lost answers and restored backups at once.
`SubscriptionChanges` stands for the billing side and is left unconstrained.

The model follows the intent of the insert into `heartbeat_jti_seen`: at most
one row per token id. (Its `ON CONFLICT (org_id, jti)` names a pair for which
migration 0004 creates no constraint: on PostgreSQL the statement as written fails.)

### AgentProcess

`task` is where the heartbeat task stands: `sleeping` between beats, `waiting`
at the awaited POST, `flushing` in the sleep of `_fatal`, `ended` when `_tick`
returned True, `failed` when an exception left it. `proc` is the process as the
container runtime sees it. Boot is one step because nothing else runs before the
supervisor's tasks exist; each heartbeat is two steps with an await in between,
and between them SIGTERM, a crash, a replaced fingerprint file can come. The
licence an answer carries is any member of `Offer`.

A tick is longer than a request (30 s) or a flush (0.1 s), so the clock does not
move while one is under way.

### AgentSystem

Both components are instantiated on shared variables. `wire` and `answer` are
the agent's current request; `orphans` holds the licences in requests the agent
gave up (timeout, crash, shutdown) but the network did not, which the control
plane may still serve. `Deliver`, `Lose` and `HangUp` connect an action of the
agent with the fate of its request; `Serve` and `ServeOrphan` are the control
plane's `ServeHeartbeat`.

### Billing

`checkout`, `customer`, `stripe` and `sent` are Stripe's: sessions a customer has
open, which Stripe customer a subscription belongs to, the subscriptions
themselves and the events emitted so far, each with the subscription as it was
at that moment. `processed` is `stripe_events`; `orgCustomer` and `orgTier` are
columns of `organizations`; `subs` and `ents` are the two tables; `included` and
`overage` count the units served (`overage` is the rows of `usage_events`).
`grants` and `inOrder` are history variables for the properties.

`Deliver(i)` picks any event that was emitted, so events are late, reordered and
repeated as Stripe pleases; `FirstSeen` is the insert into `stripe_events`, which
commits with the handler. A delivery that fails rolls everything back and is not
a step. A handler that does not find its customer or its row returns normally
(`Deferred`): the event counts as processed. `Consume` is the one `UPDATE` of
`try_consume`: it decrements every open row and lets any of them decide, since
`RETURNING` has no order, whether the unit is overage.

An event carries, besides the snapshot, the start of the period its invoice's
first line is dated with (`line`), any from the old period's start to the new
one's: `InvoicePaid` seeds that period, as `handlers.py:586-599` does, and takes
only the tier from the row. The fallback to the row's period, for an invoice whose
lines have no dates, is not modelled: Stripe dates every line.

Only the metered feature is kept; the other three are seeded alike and never
reach the overage branch. Two subscriptions that start in the same second would
share a row of `entitlements`; the model keeps them apart.

### Metering

`events` is `usage_events`; a row is `open` while the transaction that consumes
is, and its `at` is the instant that transaction began, so a row can appear with
a time in the past. A run goes `locked`, `fetched`, `calling`, `marking`, and
anything may happen between two of these: the process dies, the connection that
holds the advisory lock drops (the run does not notice), another run starts, a
webhook makes another subscription the newest. `keys` is what Stripe remembers
under an idempotency key: a repeated request with the same arguments is answered
as before and changes nothing, one with others is refused. `late` holds requests
whose sender gave up. `usage` is set, never added to (`action="set"`). Stripe
forgets a key once it is `KeyLife` old (`StripeForgets`), while the job goes on
reporting what it has not marked; a request under way does not outlive its key.
`forgotten` is the history of the hours that happened to.

`LedgerSpec` maps this to `UsageLedger`: an hour's `used` is the overage committed in
it, its `billed` what Stripe's records say, item by item, it is `open` while Stripe
knows no key of it, and it is `settled` once a row of it is marked. So an hour is
billed on one item and the bill stands until Stripe forgets it, each item's bill is
at most what was used, and the job gives up an hour only after there is one. The
ledger does not promise a full bill, and lets an hour that Stripe opened again be
billed anew (section 5).

### SigningKeys

`env[w]` is the configuration an API process was started with: the operator
changes it for all (`NextStep`), a process takes it when restarted
(`RestartWorker`). `prevKey[w]` is the previous key as it read it, once, for
good; reading may fail and then counts as "none". `edge` is the HTTP cache that
`Cache-Control` invites in front of `/.well-known/jwks.json`; `jwks[a]` and
`client[a]` are the agent's caches. A heartbeat verifies the presented licence
at any process and hands out one signed with that process's active key; the
agent then verifies it by the key it was built with, by its cache, or by asking.
Asking may fail (`VerifyUnreachable`): the client then falls back to the key it was
built with, and the licence is refused for its signature.

### RiskManager, PaperTrading, LiveTrading, Backtest, Trading

Money is in whole units, percentages are of 100. `Allowed` is the sequence of
checks of `validate_trade`, `Tracked` the daily high-water mark with its breaker.
In `PaperTrading` the server's account is in memory and written to `file` after
every trade, in place (`Torn`); a command-line scan loads the file, waits and
writes it back (`cli`). The route takes any number of shares: a `SELL` of none is
of all, one of a negative number adds to the position and takes cash, with no
check (`Selling`); `drawn` is what the trade history says such sales took. In
`LiveTrading` the account is the broker's: Alpaca's loop decides a whole scan on
one snapshot, orders fill later; a Hyperliquid call is tried up to `MaxAttempts`
times although an earlier attempt may have been executed. `Backtest` takes the
exits of a date before its entries. `mode` fixes the trader of a behaviour; the
traders share no state but `RiskManager`'s definitions.

### RateLimit and SupportBundles

`bucket` is `_buckets`; `admitted` and `since` are history variables. A request
asks the address's bucket and, if that grants, the second one. The heartbeat
route is driven by agents that beat at the cadence of `heartbeat.py`: fast start,
doubling, cap, reset, none of it randomised. The other two routes are called at
will. `SupportBundles` replaces, on its own route, the bare request by the upload
handler: `reading` between authentication and storage, `stored` between storage
and commit. `written` counts the objects of this process, `local` those in `/tmp`
of the host, which a restart on another host loses. `enrolling` are the enrolments
with the token under way: each stamps itself when it begins and, if it commits,
redeems the token as of then (`EnrolBegins`, `EnrolCommits`).

### Strategies and Dashboard

A handler of `api/server.py` runs without interruption between awaits, so the
awaits are where a `task` waits: at the gate's query, or at the send to the next
client of a broadcast. The watchlist's length is read before the gate is
awaited. A consensus is computed by operators over sequences of signals
(`SumFunction`); confidences are of 100 and any integer, since nothing in the code
bounds what a model or `inject_signals` gives (NaN and infinity are not modelled).
The AI strategy is taken with `use_api`
set where a property is about what the model says, and as the server registers
it (off) in the routes.

## 3. Runs

| Run | Question | Result |
|---|---|---|
| `control_plane` | with all licences replayable at all times: one live heir per install token, one row per host, bounded grace, refinement of `LicenseChain`, nobody barred is renewed | holds |
| `agent_process` | against every possible answer: file and memory agree, exit codes, live trading only when confirmed, restricted modes have causes; under fairness, shutdown, revocation and grace expiry take effect | holds |
| `agent_system` | what the agent may rely on: between beats a RUNNING agent holds a licence it can renew, also after a clean stop | holds |
| `agent_system_live` | each side of the composition behaves like the component alone; no agent outlives the grace window without a new licence (ADR-003's hard stop); a canceled organisation's agent leaves RUNNING even if no answer gets through | holds |
| `billing` | with events late, repeated and in any order: is the quota never oversold, does no row say what Stripe never said, is a subscription whose events came in order mirrored and, unless its invoice's first line is of an older period, entitled? | holds |
| `metering` | with overlapping runs, lost locks, crashes after Stripe's acceptance, late requests, changing subscriptions and lapsing keys: is an hour never billed for more than was used, on any item and while its key lives on all together, and no row given up unbilled; refinement of `UsageLedger` | holds |
| `signing_keys` | through a rotation by the runbook: does every unexpired licence verify, and does an agent whose fetch is answered find its keys? | holds |
| `trading` | do limits, breaker, cash and stops hold over sequences of trades, restarts, torn files, sales of negative numbers, late fills and lost answers? | holds |
| `limited_routes` | what do the buckets let pass, is an agent in cadence ever throttled; after any failure, is there a row without an object, more storage than was granted, a token come back to life but by an enrolment begun in time? | holds |
| `dashboard` | does every listed client hear a broadcast, how far do concurrent checks overshoot a cap, has a verdict a vote behind it, whatever confidences are claimed? | holds |
| `agent_system_lost_answer` | is an agent revoked only for an expired or refused licence? | violated |
| `signing_keys_bundled` | does a release from before the rotation find the new key (runbook)? | violated |

The two violated ones are statements of the repository's docs and comments that
the code does not keep; `findings` quotes them. Type invariants are not checked by
the runs but proved (section 4).

**Bounds.** `Jti` has three members where the property is about replay: the
licence presented, its successor and one competitor (or the successor's successor)
are all that one exchange can mix up. Two hosts and two agent ids are enough to
confuse identities, two install tokens to confuse descents. `MaxTime` lets a
licence expire and the grace window close with one tick to spare; `LicenseTTL`,
`GraceWindow`, `SlideThreshold` keep the order of 24 h, 7 d and 6 d where the
property depends on it and are smaller where it does not. `AgentProcess` offers
licences with every deadline from 1 to 3 and none, for the right and a wrong host.
`AgentSystem` has one install token, so one restart needs the licence file.
`Billing` has two subscriptions (a second purchase, or a second open session,
while events of the first are still under way), two paid tiers so that plans can
change, seven events (a purchase emits three; the rest is a failed payment and its
recovery, a renewal and a plan change, a second purchase, or a deletion), a clock
that passes one paid period, and two units of consumption against quotas that run
out: one tier grants a unit, another none but overage, the free one none.
`Metering` has two runs at once, two rows (two in one hour, or one in each of
two), two items so that the subscription can change between report and retry, and
a clock of two hours and a tick, in which the first hour's key can lapse and an
unmarked row of it be reported again. `SigningKeys` has two processes and one
agent (agents share nothing), a licence that lives three ticks against caches of
one, and time for the whole rotation. `Trading` has two tickers, two prices,
percentages at which two positions are one too many, two UTC dates, three trades
(a buy, a sale of minus five, a buy or a sale on top), three scans or calls;
leverage is set so high that the other limits decide. `SupportBundles` has, for
the heartbeat route, the address's bucket scaled to a twentieth: two agents of the
instance are forty real ones, which is as many as the limit carries (a third one
is throttled), and six ticks, one minute, in which the fast start burns most of
the burst; for uploads three of them, buckets of one a minute and two in all, a
token that lives one tick, and one restart. `Dashboard` has two requests and two
clients, one of them on `/ws/signals`, four tickers against caps of one and two,
one organisation; a client object connects once. Symmetry is used over ids that
are only compared for equality, never in a run with a liveness property.
`CHECK_DEADLOCK FALSE`: the clock stops at `MaxTime` (`LastTick` in `Metering`)
and ids run out, so every bounded behaviour ends.

**Fairness.** `AgentProcess!Fairness` is weak fairness of what the event loop
does by itself: send when the sleep is over, take the answer or the timeout, end
the flush, return from `run()`. Time is strongly fair because a request or a
flush can hold it up only for as long as it lasts. Nothing is assumed about
restarts: no code in the repository restarts the agent. `AgentSystem!FairSpec`
says the same of the composed actions and assumes nothing of the network: `Lose`
and `Deliver` together are fair (the 30 s timeout), delivery alone is not.

## 4. Proofs

Checked by TLAPS for all values of the constants (under the named assumptions of
the modules: windows, limits and lifetimes are naturals, install tokens and token
ids are disjoint, the values that say "no row", "no key", "no bucket", "no scan",
"no call", "torn" and so on are none of what they stand in for, there is at least
one API process and one attempt to a call, and whatever is added up over is finite:
subscriptions, usage rows, subscription items, tickers). Three theorems have
hypotheses besides, stated with them (`StopsWork`, `ConsensusIsBacked`,
`CadenceServed`).

* `ControlPlane_proofs!ChainOneLiveHeir`: the chain never clones, for any sets of
  roots and credentials that share no member. Inductive because an exchange
  spends what it trades in; the invariant only adds types.
* `ControlPlane_proofs`: the inductive invariant `IInv` strengthens the type
  invariant with: seen token ids were issued, a token id names one licence,
  licences name their row, descents start in consumed install tokens, rows with
  grace and licences keep it within the window of their issue. From it follow
  `TypeCorrect`, `IdentityBound`, `GraceBounded`; `BarredStayBarred`
  (`BarredNotRenewed`) needs the types only; `ImplementsChain` maps every
  handler to an exchange or a stutter, and `NoCloning` then is the chain's own
  theorem carried over the refinement.
* `AgentProcess_proofs`: `TypeCorrect`, `DiskFollowsMemory`, `ExitCodeRight`,
  `LiveOrdersConfirmed`, `RestrictionsExplained`. The strengthening ties the task's
  position to the mode (flushing means REVOKED with exit code 1, and so on).
* `AgentSystem_proofs`, in steps, each resting on the ones before:
  1. `RefinesControlPlane`. The key is `Held`: every licence the host or the
     network holds was issued, and the host has a request out exactly while its
     task waits. With it, the control plane's invariant holds in the composed
     system (`ServedInvHolds`).
  2. `RefinesAgent`. `AgentProcess` lets the network answer with any licence of
     the constant set `Offer`; `Offered` says that the control plane issues no
     other, which needs the grace window of `RowGraceInv`.
  3. `WireCorrect` (`WireInv`: a request is out exactly while the task waits, and an
     answer brings an heir of what was presented): from `Held` and `Current` below.
  4. `RunningIsRenewable` and `CleanStopIsSafe`. The invariant `Current` follows
     a successor from the server to the disk: an answer on its way carries a
     licence nobody has presented and no abandoned request will present; RUNNING
     was confirmed by such an answer; between two heartbeats the licence in use
     is still unspent, on disk too if the process ends there. Abandoned requests
     are the difficulty: they arrive when the host has long moved on, and only
     the freshness of token ids keeps them away from the licence in use.
  5. `ControlPlaneKeepsPromises` and `AgentKeepsPromises` carry the components'
     properties over the two refinements: `OneLiveHeir`, `IdentityBinding`,
     `GraceWithinWindow`, `BarredNotRenewed` of the server, `MemoryMatchesDisk`,
     `ExitCodeTellsMode`, `LiveNeedsConfirmation`, `RestrictedForCause` of the host.
  6. `HardStopHolds` (`HardStop`) needs both sides: the server bounds the deadline of
     every licence by the window after its issue (`GraceWithinWindow`), the host
     holds an issued licence (`Held`), and in a mode that trades it holds one with a
     deadline (`Current`, `RestrictedForCause`), which it obeys. Neither side alone
     promises it. A failed write of the rotated licence is excepted: it leaves the
     mode alone, but ends the process (section 5).

* `Sums`: what `SumFunctionOnSet` is worth on the empty set, after one member is
  added, left out, changed or raised, on a union, and against another table; and the
  distributive law, which the solver does not find by itself. The sum is
  defined by recursion over subsets; the lemmas get at it without an induction
  theorem (which would need an operator for an argument) by the well-founded order
  of the subsets of a finite set: a claim that fails for one fails for a least one.
* `Billing_proofs`: `TypeCorrect`, `NeverOversold` (`NoOversell`), `BooksExplained`
  (`BooksFromStripe`), `InOrderBooksAgree` (`BooksAgree`) and `PaidPeriodsEntitled`
  (`PaidPeriodEntitled`). A row can be explained by the events
  applied to it only if those events still tell the truth when they arrive, so
  `IInv` adds two facts about Stripe: nothing is emitted for a subscription
  before it is bought, and a canceled subscription stays canceled. For the
  second theorem `OrderInv` adds: Stripe's state is what its last event says;
  `paid`, `payment_failed` and `deleted`, whose handlers write less than a whole
  row, repeat what the event before said, a deletion up to its status; and after every
  prefix of a subscription's events, applied in order, the row is the snapshot of
  the prefix's last event. The third needs more than the row: not every event that
  leaves a subscription active seeds its period, an `updated` of a renewal does
  not. `EntitleInv` says that the last one always does, being a payment or a change of
  tier, and that after a prefix that ends so the period's row has the quota, unless
that payment's first line was dated with an older period (`Misdated`).
  For `NeverOversold`, `QuotaInv` counts what is served together with what the open
  rows have left: a unit moves from the second number to the first, and only an event
  that was not processed before, which has granted nothing yet, can add to them.
  A unit that several open rows are charged for leaves both sides unequal in the
  safe direction, so it is a bound and not a balance.
* `Billing_proofs` about `Metering`: `MeteringTypeCorrect`, `HoursBilledOnce`
  (`HourBilledOnce`) and `MarkedIsBilled` (`ReportedIsBilled`), for any number of
  rows, items and runs at once. `MeterInv` adds that Stripe remembers at most one
  request to an hour and bills what that asked for; that an item is billed for an hour
  whose key was never forgotten only by the request remembered; that every request made
  or late asks for no more than was committed for its hour; and that a run about to mark
  its rows has a bill for its hour. While the key lives the sum over items then has one
  term that is not zero; afterwards each term is still bounded, their sum is not.
  `ImplementsLedger` (`LedgerSpec`) maps every step to the ledger's: a commit raises
  one hour's use by the row's quantity (`SumRaised`), an acceptance under a new key bills
  an open hour, because all items of an hour share a key, a key forgotten opens its
  hour, a mark settles the run's hour, and everything else leaves the ledger alone.

* `SigningKeys_proofs`: `TypeCorrect`, `RotationKeepsLicences`
  (`LiveLicencesVerify`) and `LinkedAgentsAreServed` (`LinkedAgentsFindKeys`), for
  any number of processes and agents and any lifetimes. `RotationInv` says: a
  process runs the configuration of the moment or the one before; a licence with
  the new key exists only once some process has it; a licence with the old key
  was signed before the last process left it, so it ends `LicenseTTL` after
  that, which is what the runbook waits; and the HTTP cache holds the old key up to
  the last step and the new one if it was filled after the roll-out. The proofs use
  `LicenseTTL` and `JwksTTL` but not `PublishWait`: the runbook's wait before it
  activates a key is not what keeps agents alive, since a miss in an agent's own
  cache always asks again. The theorem is about fetches that are answered: a fetch
  that fails strands the agent for good (section 5).
* `SupportBundles_proofs`, first about `RateLimit`: `TypeCorrect` and
  `LimiterBounds` (`AdmissionBound`), for any limits, costs and number of clients.
  The bound is not inductive: `Books` adds what a bucket still holds and dates it
  at the last refill. `CadenceServed` (`CadenceNotThrottled`) is about the
  numbers: for any count of agents behind one address, whatever fails, is lost or
  restarts at the server, no agent in cadence (none restarted since) is answered
  429 if each of the two buckets `Carries` its agents, that is, holds the fast
  start they may all begin at once and refills what they use afterwards. Its
  invariant `Supplied` says that what a bucket holds, and will have been refilled
  with by each agent's next beat, covers what the agents need up to the end of
  their fast starts; a restart of the server refills the buckets, an agent that
  backs off needs less, one that beats takes its need with it.
  `rate_limit.py:191-202` (120 tokens and 2 a second for an address, 30 and 0.5
  for an agent) carries the loop of `heartbeat.py:50-62` (60 s; 5 beats at 10 s)
  for up to 40 agents behind an address: their fast start takes 200 tokens,
  exactly 120 + 2 * 40. Then about the uploads: `UploadsUseLimiter` carries the
  limiter's theorems over; `RowsHaveObjects`, `StorageIsBounded` and
  `DeadTokensStayDead` are the run's three properties; for the last the invariant is
  that every enrolment under way began before the token expired. For the second,
  `ChargedToHour` counts the objects together with the uploads still being read
  against the requests the hourly bucket let pass.

* `Trading_proofs` about the traders: `TradingTypeCorrect`, `NeverInDebt`
  (`NeverOverdrawn`), `AttemptsBounded` (`OrdersMatchCalls`), `StopsWork`
  (`StopsHonoured`), and the action properties `WithinExposure`
  (`ExposureWithinLimit`) and `BreakerBars` (`BreakerHolds`), for any tickers,
  prices, lots and limits. `TradeInv` adds to the types that the file and the copy
  of a scan owe no more than their sales of negative numbers took and hold no
  negative shares (`AccountsInv`), since either may become the account, and that a
  call under way has an attempt left (`CallsInv`); it was checked in `trading`
  before it was proved. `WithinExposure` uses `Sums` to follow the cost of a book
  through one buy: the average cost is rounded down, so what is booked is at most
  what was judged. `StopsWork` assumes a mandatory stop above 0 %: at 0 % it is
  the entry price, and an entry stands at its own stop.
* `Trading_proofs` about the server: `DashboardTypeCorrect`, `BroadcastsReachAll`
  (`ToldOrDropped`), `OvershootIsBounded` (`CapOvershoot`) and `ConsensusIsBacked`
  (`ConsensusFollowsVotes`), for any number of requests, clients and
  tickers. For the first property `TellInv` adds who is still to be told, that the
  list has no client twice and that nobody comes back to it; every step is then
  either the round's own or one after which `NobodyReturns`. For the second,
  `CapInv` counts the tickers together with the checks that may still pass
  (`Passing`): a check that begins has a count below a cap, one that passes moves
  from the second number to the first. The third is about sums over signals of any
  length and assumes `Weight \subseteq Nat`: the route for weights refuses none, and
  with a negative one a vote counts against itself.

Only model-checked: liveness, since the prover has neither fairness nor ENABLED
(`ShutdownHonoured`, `RevokedExits`, `OfflineGraceEnds`, `CancellationBites`). Every
invariant, action property and refinement of a passing run is a theorem.

## 5. Disagreements met while modelling

Besides the two in `findings`, the models show these; none has a run, since each
is a question of what was meant or of a part the models leave out.

* *Licences.* `heartbeat.py:79-82` says a fresh licence always has grace left; the
  slide rule at `:627` can issue one whose deadline has passed
  (`NewGraceRange` says by how much). The revocation runbook
  (`incident-license-revocation.md:34-35`) has a revoked agent enrol again;
  `enroll.py:364` gives it its old row, which is still barred. A 402 ends the
  heartbeat loop and with it the agent (`proxialpha_agent/heartbeat.py:272`),
  `supervisor.py:443-446` says it stays up, degraded. An `OSError` in `persist` ends
  the heartbeat task, `supervisor.py:414-417` only has `LicenseError` in mind. An
  agent offline for more than 24 hours presents an expired licence and is refused,
  although ADR-003:139 lets it return within the grace window.
* *Billing.* An event that arrives before the one that binds its customer is
  acknowledged for good (`handlers.py:362`; `:234` relies on its being seen
  again). A paid period's row stays consumable after a deletion
  (`handlers.py:448-450`), a late `updated` revives a canceled row, seeding a
  period again refunds what was used, two open sessions buy two subscriptions, a
  new organisation has no entitlements row. `handlers.py:584-586` calls the dates of
  the invoice's lines authoritative for the period just billed, but takes the first
  line that has dates; when that is a proration or metered usage of the old period,
  the old period is seeded again and the new one has no row until something else
  seeds it (`Misdated`).
* *Metering.* A row that appears after its hour was reported changes the quantity
  under the same key and is refused by Stripe, so the hour stays billed short
  (`jobs/meter_usage.py:328`, against "absolute usage … not a delta",
  `core/stripe_client.py:114-115`). `meter_usage.py:18-23` calls a duplicate run safe,
  which holds for the day Stripe remembers the key, while unreported rows are tried
  every hour without end (`:214-223`, `:572-583`). After that, rows Stripe accepted
  before a crash could mark them are billed again, on another item if the subscription
  has changed; and late rows refused till then are accepted and overwrite the hour's
  bill with their own, smaller sum. `:42-44` expects `action="set"` to let a later run
  correct a bill; before the lapse it cannot, after it the correction is one of these.
* *Signing keys.* A previous key that could not be read once is taken for absent
  as long as the process lives. In the rolling restart of step 5 a licence signed by a
  new process is refused by an old one, and a 401 revokes the agent; a roll-back
  strands agents that hold a licence of the new key. The 24 hours' wait leaves
  out the leeway. `license.py:369-373` says of a failed fetch that "the next verify will
  retry": the verification at hand falls back to the bundled key (`:346-352`), the
  signature does not match it, and `supervisor.py:396-411` ends the agent as REVOKED
  before there is a next one (`VerifyUnreachable`).
* *Rate limits.* `rate_limit.py:181-184` counts one heartbeat an hour; the loop
  beats every 60 s and starts at 10 s. Agents ignore `Retry-After`.
  `support_bundles.py:57` says 5 a minute for an organisation, the bucket is an
  address's; the clean-up job its docstring relies on does not exist.
  `install_tokens.py:282-284` takes the time of a redemption for one before the
  expiry; it is the time the enrolment began (`enroll.py:306`), so a token refused
  as expired authenticates uploads again when a slow enrolment commits
  (`enroll.py:413`).
* *Trading.* `/api/trade` bounds no number of shares (`server.py:405-409`), and a
  `SELL` of a negative one buys: `simulator.py:154-165` takes `min(shares, held)`, pays
  and grows the position, without risk gate, breaker or a look at the cash, which goes
  negative. `main.py` starts the Alpaca loop with `auto_execute` off and the
  paper mode only proposes. Paper stops are never enforced
  (`check_losing_positions` has no caller). The account file is written in place and
  without a lock: a scan's save undoes the server's trades. The breaker forgets
  its day when the process restarts. Alpaca's bracket orders pass the daily limit,
  which also blocks exits and is never reset. The Hyperliquid adapter asks no
  `RiskManager`; its retries repeat orders that may have been executed, and
  a declined order counts as placed. The backtest's gate reads the wall clock.
  `max_portfolio_drawdown_pct` is 0.15 in the configuration and read as per cent.
* *Strategies.* Confidences are not bounded (`ai_strategy.py:156`, `:113`): one `sell`
  with a negative confidence makes the consensus BUY (`strategy_manager.py:76-83`).
  A decision that follows the prompt's own contract raises in
  `ai_strategy.py:168-170` (`tp_price` and `sl_price` are not read, a textual
  `exit_plan` has no `.get`), which silences the ticker. A scan fails as soon as
  one ticker has no signal (`KeyError: 'score'`). A weak vote for the same side
  lowers a consensus.
* *Server.* A custom strategy that is registered inactive and then switched on
  passes no gate (`server.py:452-458`). Weights are taken as sent, negative ones too
  (`server.py:493-497`). Behind a verified Clerk token a request has
  no organisation, since `_resolve_org_uuid` opens its session without one,
  which `core/db.py:150-155` refuses; gates are then skipped.

## 6. Not modelled, and why

Indicators and the rule strategies' signals are arithmetic over prices, an
arbitrary choice in the models. The user interfaces present; doctor and the
command line report; observability counts; row-level security is enforced by
PostgreSQL. Signatures by a key one holds are taken as unforgeable. The contents
of config bundles, entitlement snapshots and metrics are data no decision in the
modelled code reads. The trading engine under the supervisor is not modelled:
`run_agent` never passes an engine factory. The statements inside one
webhook transaction are one step: two `updated` events that run together at READ
COMMITTED are outside `Billing` (see `hazards`), and so are subscriptions in trial or with a
first payment outstanding. In the agent, a boot that cannot read its licence file, which
enrols again as if there were none (`license.py:224-227`), and an answer of 2xx whose JSON
is no object, which ends the heartbeat task by an exception
(`proxialpha_agent/heartbeat.py:345`), are left out; an AI strategy's stop in a backtest
is taken to lie below the price.

## 7. What could come next

1. A `Webhook` module below `Billing`: the statements of a delivery by several
   workers, shown to implement `Deliver`, or to fail at the tier that is read
   before the upsert.
2. `ControlPlane` composed with `Billing` in place of `SubscriptionChanges`, and
   with `SigningKeys` in place of an abstract licence.
