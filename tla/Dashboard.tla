----------------------------- MODULE Dashboard -----------------------------
(***************************************************************************)
(* api/server.py: one process, one event loop, and in its memory the       *)
(* watchlist, the roster of strategies and the list of connected           *)
(* WebSocket clients, shared by all its requests.  A handler runs without  *)
(* interruption from one await to the next: the query of a gate            *)
(* (api/billing/feature_gates.py) and the send to each client are the      *)
(* places where others run.                                                *)
(***************************************************************************)
EXTENDS Strategies

CONSTANTS
    Req,       \* requests under way at once
    Client,    \* WebSocket connections
    Scanner,   \* those of /ws/signals, which may ask for a scan
    Builtin,   \* strategies init_default_strategies registers
    DefaultOn, \* those of them it leaves active
    Seed,      \* WATCHLIST of core/config.py
    Org, NoOrg,
    Tier, NoTier,
    Cap,       \* tickers_max
    Custom,    \* tiers with custom_strategies
    Weight, Vote, Volume, Talk
        \* bounds of ConsensusFollowsVotes: weights, signals of the strategies,
        \* their number, conversations with the model

ASSUME DashboardAssumption ==
    /\ Scanner \subseteq Client
    /\ DefaultOn \subseteq Builtin /\ Builtin \subseteq Strategy /\ AI \notin Builtin
    /\ Seed \subseteq Ticker
    /\ Cap \in [Tier -> Nat] /\ Custom \subseteq Tier /\ NoTier \notin Tier
    /\ NoOrg \notin Org
    /\ IsFiniteSet(Req) /\ Req # {}
    /\ Vote \subseteq Signal /\ (\A c \in Talk : c \in Conversation)

VARIABLES
    watchlist,  \* WATCHLIST
    data,       \* state.data: the tickers whose prices were fetched
    unmetered,  \* history: tickers added by requests without an organisation
    roster,     \* manager.strategies with is_active, or "absent"
    listed,     \* state.ws_clients
    socket,     \* socket[c]: "new", "open" or "gone"
    handler,    \* handler[c]: the connection's handler is running
    tier,       \* organizations.tier
    task        \* task[r]: what a request is at

state == <<watchlist, data, unmetered, roster>>
sockets == <<listed, socket, handler>>
vars == <<state, sockets, tier, task>>

\* No request: also what an answer other than a broadcast's 200 leaves.
Idle == [at |-> "idle"]

Gate(org, route) == [at |-> "gate", org |-> org, route |-> route]

\* A broadcast: the snapshot, what is left of it, and who was sent the message.
Telling(all, left, sent) == [at |-> "telling", all |-> all, left |-> left, sent |-> sent]

Told(all, sent) == [at |-> "ok", all |-> all, sent |-> sent]

DefaultRoster ==
    [s \in Strategy |-> CASE s \notin Builtin -> "absent"
                          [] s \in DefaultOn -> "on"
                          [] s \in Builtin \ DefaultOn -> "off"]

Init ==
    /\ watchlist = Seed /\ data = Seed
    /\ unmetered = {}
    /\ roster = DefaultRoster
    /\ listed = <<>>
    /\ socket = [c \in Client |-> "new"]
    /\ handler = [c \in Client |-> FALSE]
    /\ tier \in [Org -> Tier \cup {NoTier}]
    /\ task = [r \in Req |-> Idle]

Becomes(r, t) == task' = [task EXCEPT ![r] = t]

-----------------------------------------------------------------------------
(* WebSocket clients.                                                      *)

Connect(c) ==
    /\ socket[c] = "new"
    /\ socket' = [socket EXCEPT ![c] = "open"]
    /\ handler' = [handler EXCEPT ![c] = TRUE]
    /\ listed' = Append(listed, c)
    /\ UNCHANGED <<state, tier, task>>

\* The peer goes away; handler and list learn of it later.
Leave(c) ==
    /\ socket[c] = "open"
    /\ socket' = [socket EXCEPT ![c] = "gone"]
    /\ UNCHANGED <<state, listed, handler, tier, task>>

\* WebSocketDisconnect.  A client that is not listed any more makes remove
\* raise, which ends the handler too.
HandlerEnds(c) ==
    /\ handler[c] /\ socket[c] = "gone"
    /\ handler' = [handler EXCEPT ![c] = FALSE]
    /\ listed' = RemoveFirst(listed, c)
    /\ UNCHANGED <<state, socket, tier, task>>

\* Any other exception, of a text that is no JSON or of the scan it asks for:
\* the connection is closed and the client stays listed.
HandlerFails(c) ==
    /\ c \in Scanner /\ handler[c]
    /\ handler' = [handler EXCEPT ![c] = FALSE]
    /\ socket' = [socket EXCEPT ![c] = "gone"]
    /\ UNCHANGED <<state, listed, tier, task>>

\* broadcast begins: it goes through a copy of the list.
Broadcast(r) ==
    Becomes(r, IF listed = <<>> THEN Told({}, {}) ELSE Telling(ToSet(listed), listed, {}))

\* Fault: the loop goes through the list itself, which a removal shortens.
Remaining_NoCopy(left, removed) ==
    IF removed /\ Len(left) > 1 THEN Tail(Tail(left)) ELSE Tail(left)

Remaining(left, removed) == Tail(left)

Advances(r, removed, sent) ==
    LET left == Remaining(task[r].left, removed)
    IN  Becomes(r, IF left = <<>> THEN Told(task[r].all, sent)
                   ELSE Telling(task[r].all, left, sent))

\* send_json: the connection takes the message, as it may for a while after
\* the peer has gone.
Send(r) ==
    /\ task[r].at = "telling"
    /\ Advances(r, FALSE, task[r].sent \cup {Head(task[r].left)})
    /\ UNCHANGED <<state, sockets, tier>>

\* It raises: the client is taken off the list.  If its own handler has done
\* so, remove raises as well and the request ends with 500.
SendFails(r) ==
    /\ task[r].at = "telling"
    /\ LET c == Head(task[r].left)
       IN  /\ socket[c] = "gone"
           /\ listed' = RemoveFirst(listed, c)
           /\ IF c \in ToSet(listed) THEN Advances(r, TRUE, task[r].sent)
              ELSE Becomes(r, Idle)
    /\ UNCHANGED <<state, socket, handler, tier>>

-----------------------------------------------------------------------------
(* Routes.                                                                 *)

\* The organisation the middleware finds for a request: that of the stub
\* header, or none.  Behind a verified Clerk token there is none either:
\* _resolve_org_uuid opens its session without one, which get_session refuses.
Resolved == Org \cup {NoOrg}

\* assert_feature_flag, assert_within_cap
HasFlag(org) == tier[org] \in Custom

\* Fault: the proposed count leaves the new ticker out.
WithinCap_Current(org, proposed) == tier[org] \in Tier /\ proposed - 1 <= Cap[tier[org]]

WithinCap(org, proposed) == tier[org] \in Tier /\ proposed <= Cap[tier[org]]

\* toggle_strategy once the gate is behind it; the gate is not asked for a
\* strategy that is registered, nor to register one that stays inactive.
Toggles(r, s, on) ==
    /\ roster' = [roster EXCEPT ![s] = IF on THEN "on" ELSE "off"]
    /\ Broadcast(r)
    /\ UNCHANGED <<watchlist, data, unmetered>>

Toggle(r, org, s, on) ==
    /\ task[r] = Idle
    /\ IF roster[s] = "absent" /\ on /\ org # NoOrg
       THEN Becomes(r, Gate(org, [name |-> s])) /\ UNCHANGED state
       ELSE Toggles(r, s, on)
    /\ UNCHANGED <<sockets, tier>>

\* The weights are told apart only in ConsensusFollowsVotes, for all their values.
UpdateWeights(r) ==
    /\ task[r] = Idle
    /\ Broadcast(r)
    /\ UNCHANGED <<state, sockets, tier>>

\* add_to_watchlist after its check; prices may not be had for a ticker.
Adds(r, org, t) ==
    /\ watchlist' = watchlist \cup {t}
    /\ data' \in {data, data \cup {t}}
    /\ unmetered' = IF org = NoOrg /\ t \notin watchlist THEN unmetered \cup {t} ELSE unmetered
    /\ Becomes(r, Idle)
    /\ UNCHANGED roster

\* The length of the watchlist goes into the check before it is awaited.
AddToWatchlist(r, org, t) ==
    /\ task[r] = Idle
    /\ IF org # NoOrg /\ t \notin watchlist
       THEN /\ Becomes(r, Gate(org, [ticker |-> t, proposed |-> Cardinality(watchlist) + 1]))
            /\ UNCHANGED state
       ELSE Adds(r, org, t)
    /\ UNCHANGED <<sockets, tier>>

\* The gate of a waiting request answers.
GateAnswers(r) ==
    /\ task[r].at = "gate"
    /\ LET org == task[r].org
           route == task[r].route
       IN  \/ /\ "name" \in DOMAIN route
              /\ IF HasFlag(org) THEN Toggles(r, route.name, TRUE)
                 ELSE Becomes(r, Idle) /\ UNCHANGED state
           \/ /\ "ticker" \in DOMAIN route
              /\ IF WithinCap(org, route.proposed) THEN Adds(r, org, route.ticker)
                 ELSE Becomes(r, Idle) /\ UNCHANGED state
    /\ UNCHANGED <<sockets, tier>>

\* Its session cannot be had.
GateFails(r) ==
    /\ task[r].at = "gate"
    /\ Becomes(r, Idle)
    /\ UNCHANGED <<state, sockets, tier>>

\* What the active strategies find: here at most one signal for a ticker.  The
\* roster's AI strategy has use_api off and says nothing.
Heard == {<<>>} \cup {<<[strategy |-> s, kind |-> "BUY", confidence |-> 100, size |-> 5]>> :
                         s \in {b \in Builtin : roster[b] = "on"}}

\* run_scan: without a signal on every ticker it fails.
RunScan(r, signals) ==
    /\ task[r] = Idle
    /\ IF ScanSucceeds(signals, [s \in Strategy |-> 1]) THEN Broadcast(r) ELSE Becomes(r, Idle)
    /\ UNCHANGED <<state, sockets, tier>>

\* execute_trade: what it does to the account is PaperTrading's.
ExecuteTrade(r, t) ==
    /\ task[r] = Idle
    /\ IF t \in data THEN Broadcast(r) ELSE Becomes(r, Idle)
    /\ UNCHANGED <<state, sockets, tier>>

\* The caller has its answer.
Answered(r) ==
    /\ task[r].at = "ok"
    /\ Becomes(r, Idle)
    /\ UNCHANGED <<state, sockets, tier>>

\* A webhook changes an organisation's tier.
Billed(org, t) ==
    /\ tier[org] \in Tier \ {t}
    /\ tier' = [tier EXCEPT ![org] = t]
    /\ UNCHANGED <<state, sockets, task>>

\* Nothing of this is stored.
ServerRestarts ==
    /\ watchlist' = Seed /\ data' = Seed /\ unmetered' = {}
    /\ roster' = DefaultRoster
    /\ listed' = <<>>
    /\ socket' = [c \in Client |-> IF socket[c] = "open" THEN "gone" ELSE socket[c]]
    /\ handler' = [c \in Client |-> FALSE]
    /\ task' = [r \in Req |-> Idle]
    /\ UNCHANGED tier

Next ==
    \/ \E c \in Client : Connect(c) \/ Leave(c) \/ HandlerEnds(c) \/ HandlerFails(c)
    \/ \E r \in Req :
        \/ Send(r) \/ SendFails(r)
        \/ \E org \in Resolved, s \in Strategy, on \in BOOLEAN : Toggle(r, org, s, on)
        \/ UpdateWeights(r)
        \/ \E org \in Resolved, t \in Ticker : AddToWatchlist(r, org, t)
        \/ GateAnswers(r) \/ GateFails(r)
        \/ \E signals \in [data -> Heard] : RunScan(r, signals)
        \/ \E t \in Ticker : ExecuteTrade(r, t)
        \/ Answered(r)
    \/ \E org \in Org, t \in Tier : Billed(org, t)
    \/ ServerRestarts

Spec == Init /\ [][Next]_vars

-----------------------------------------------------------------------------
(* Properties.                                                             *)

\* When a request that broadcasts has been answered 200, every client that was
\* connected when its broadcast began has been sent the message or is off the
\* list: whatever clients leave meanwhile, whoever else broadcasts.
ToldOrDropped ==
    \A r \in Req : task[r].at = "ok" =>
        \A c \in task[r].all : c \in task[r].sent \/ c \notin ToSet(listed)

\* What the watchlist may hold: the seeds, or as much as some tier's cap allows.
Limit == {Cardinality(Seed)} \cup {Cap[t] : t \in Tier}

\* Requests of organisations take the watchlist, which all of them share, past
\* every limit only by checking at the same time: by fewer tickers than there
\* are requests under way.
CapOvershoot ==
    \E limit \in Limit : Cardinality(watchlist \ unmetered) < limit + Cardinality(Req)

Rank == [STRONG_SELL |-> -2, SELL |-> -1, HOLD |-> 0, BUY |-> 1, STRONG_BUY |-> 2]

\* A signal that pulls the score towards this side: a vote for it, or a vote
\* against it whose confidence is negative.
Pulls(s, side) ==
    \/ Score[s.kind] * side > 0 /\ s.confidence > 0
    \/ Score[s.kind] * side < 0 /\ s.confidence < 0

Backed(signals, w) ==
    LET verdict == Consensus(signals, w)
    IN  verdict # NoScore /\ Rank[verdict] # 0 =>
            \E s \in ToSet(signals) : w[s.strategy] > 0 /\ Pulls(s, Rank[verdict])

Monotone(signals, w) ==
    \A s \in {v \in Vote : v.kind = "STRONG_BUY" /\ v.confidence = 100} :
        signals # <<>> /\ w[s.strategy] > 0 /\ Total(signals, w) > 0 =>
            Rank[Consensus(Append(signals, s), w)] >= Rank[Consensus(signals, w)]

\* Whatever the strategies and the model say of a ticker, with whatever confidence:
\* behind a verdict other than HOLD stands somebody whose weight counts, who voted
\* for that side or, with a negative confidence, against it; and one more full
\* vote for buying never makes the verdict worse.  It is about no variable, and
\* evaluated in the initial states.
ConsensusFollowsVotes == Init =>
    \A said \in BoundedSeq(Vote, Volume), t \in Ticker, c \in Talk, w \in [Strategy -> Weight] :
        LET signals == said \o Advice(t, c)
        IN  Backed(signals, w) /\ Monotone(signals, w)
=============================================================================
