----------------------------- MODULE RateLimit -----------------------------
(***************************************************************************)
(* The token buckets of api/middleware/rate_limit.py in one API process,   *)
(* and the clients behind one address.  Every limited route asks two       *)
(* buckets in turn: the address's, then the client's (heartbeats, enrol-   *)
(* ments by token prefix) or the address's hourly one (bundles).  The      *)
(* routes share no bucket: a behaviour follows one route.                  *)
(*                                                                         *)
(* Heartbeats come at the cadence of the agent's loop,                     *)
(* proxialpha_agent/heartbeat.py; the other routes are called whenever     *)
(* someone likes.                                                          *)
(***************************************************************************)
EXTENDS Integers

CONSTANTS
    Client,         \* agents, or holders of install tokens
    First,          \* key of the address's bucket
    Hour,           \* key of the address's hourly bucket
    Limit,          \* per route: capacity and refill of its two buckets
    Cost,           \* what a request costs
    NoBucket,       \* no entry in _buckets
    FastInterval,   \* FAST_START_INTERVAL_SECONDS: 10 s
    FastCount,      \* FAST_START_COUNT: 5
    BaseInterval,   \* BASE_INTERVAL_SECONDS: 60 s
    MaxBackoff,     \* MAX_BACKOFF_SECONDS: 300 s
    MaxTime         \* bound: the clock stops here

Route == {"heartbeat", "enroll", "bundle"}
Rate == [capacity : Nat, refill : Nat]
Bucket == [tokens : Int, last : Int]

ASSUME LimitAssumption == Limit \in [Route -> [first : Rate, second : Rate]]
ASSUME CostAssumption == Cost \in Nat \ {0}
ASSUME KeyAssumption == First # Hour /\ {First, Hour} \cap Client = {}
ASSUME NoBucketAssumption == NoBucket \notin Bucket
ASSUME CadenceAssumption ==
    /\ {FastInterval, FastCount, MaxBackoff, MaxTime} \subseteq Nat
    /\ BaseInterval \in Nat /\ FastInterval <= BaseInterval

VARIABLES
    now,        \* time.monotonic(), and the agents' clock
    route,      \* the route this behaviour is about
    bucket,     \* _buckets
    admitted,   \* history: requests a bucket let pass since it exists
    since,      \* history: when it was created
    loop,       \* loop[a]: the agent's cadence
    asleep,     \* asleep[a]: what remains of a's sleep
    throttled,  \* history: some heartbeat was answered 429
    restarted   \* the process that has restarted: "no", "agent" or "server"

serverVars == <<bucket, admitted, since>>
agentVars == <<loop, asleep, throttled, restarted>>
vars == <<now, route, serverVars, agentVars>>

Key == Client \cup {First, Hour}
Loop == [beats : Nat, interval : Nat, graduated : BOOLEAN]

TypeOK ==
    /\ now \in Nat
    /\ route \in Route
    /\ bucket \in [Key -> Bucket \cup {NoBucket}]
    /\ admitted \in [Key -> Nat]
    /\ since \in [Key -> Nat]
    /\ loop \in [Client -> Loop]
    /\ asleep \in [Client -> Nat]
    /\ throttled \in BOOLEAN /\ restarted \in {"no", "agent", "server"}

NewLoop == [beats |-> 0, interval |-> FastInterval, graduated |-> FALSE]

Init ==
    /\ now = 0
    /\ route \in Route
    /\ bucket = [k \in Key |-> NoBucket]
    /\ admitted = [k \in Key |-> 0]
    /\ since = [k \in Key |-> 0]
    /\ loop = [a \in Client |-> NewLoop]
    /\ asleep = [a \in Client |-> 0]
    /\ throttled = FALSE /\ restarted = "no"

-----------------------------------------------------------------------------
(* The limiter.                                                            *)

RateOf(k) == IF k = First THEN Limit[route].first ELSE Limit[route].second

Least(m, n) == IF m <= n THEN m ELSE n

\* What take() finds after refilling; a new bucket is full.
Level(k) ==
    IF bucket[k] = NoBucket THEN RateOf(k).capacity
    ELSE Least(RateOf(k).capacity,
               bucket[k].tokens + RateOf(k).refill * (now - bucket[k].last))

Grants(k) == Level(k) >= Cost

\* Fault: the time of the refill is not noted when a request passes.
Taken_NoRefillMark(k) ==
    [tokens |-> IF Grants(k) THEN Level(k) - Cost ELSE Level(k),
     last |-> IF Grants(k) /\ bucket[k] # NoBucket THEN bucket[k].last ELSE now]

Taken(k) == [tokens |-> IF Grants(k) THEN Level(k) - Cost ELSE Level(k), last |-> now]

SecondKey(c) == IF route = "bundle" THEN Hour ELSE c

\* The second bucket is asked only if the first one grants.
Asked(c) == {First} \cup (IF Grants(First) THEN {SecondKey(c)} ELSE {})

\* Fault: the second bucket's answer is not looked at.
Passes_FirstOnly(c) == Grants(First)

Passes(c) == Grants(First) /\ Grants(SecondKey(c))

\* enforce_*_limit for a request of c.
Enforces(c) ==
    /\ bucket' = [k \in Key |-> IF k \in Asked(c) THEN Taken(k) ELSE bucket[k]]
    /\ admitted' = [k \in Key |->
                       IF k \in Asked(c) /\ Grants(k) THEN admitted[k] + 1 ELSE admitted[k]]
    /\ since' = [k \in Key |->
                    IF k \in Asked(c) /\ bucket[k] = NoBucket THEN now ELSE since[k]]

\* A request for an enrolment or an upload.
Calls(c) ==
    /\ route # "heartbeat"
    /\ Enforces(c)
    /\ UNCHANGED <<now, route, agentVars>>

\* The API process is replaced: its buckets are gone (bound: as above).
ServerRestarts ==
    /\ restarted = "no"
    /\ restarted' = "server"
    /\ bucket' = [k \in Key |-> NoBucket]
    /\ admitted' = [k \in Key |-> 0]
    /\ since' = [k \in Key |-> 0]
    /\ UNCHANGED <<now, route, loop, asleep, throttled>>

-----------------------------------------------------------------------------
(* The agent's loop.                                                       *)

\* _apply_backoff
BackedOff(l) ==
    LET from == IF l.interval < BaseInterval THEN BaseInterval ELSE l.interval
    IN  [l EXCEPT !.interval = Least(2 * from, MaxBackoff), !.graduated = TRUE]

\* _reset_backoff
Reset(l) == [l EXCEPT !.interval = BaseInterval]

\* Fault: the fast start does not end.
Graduated_Never(l) == l

\* The part of _next_interval that ends the fast start.
Graduated(l) ==
    IF l.interval <= BaseInterval /\ l.beats >= FastCount
    THEN [l EXCEPT !.graduated = TRUE] ELSE l

\* _next_interval
NextInterval(l) ==
    IF l.interval > BaseInterval THEN l.interval
    ELSE IF Graduated(l).graduated THEN BaseInterval ELSE FastInterval

Sleeps(a, l) ==
    /\ loop' = [loop EXCEPT ![a] = Graduated(l)]
    /\ asleep' = [asleep EXCEPT ![a] = NextInterval(l)]

\* _heartbeat_count, of which only FastCount matters.
Counted(a) == [loop[a] EXCEPT !.beats = Least(@ + 1, FastCount)]

\* _tick: the heartbeat is answered 200, ...
BeatServed(a) ==
    /\ route = "heartbeat" /\ asleep[a] = 0
    /\ Passes(a)
    /\ Enforces(a)
    /\ Sleeps(a, Reset(Counted(a)))
    /\ UNCHANGED <<now, route, throttled, restarted>>

\* ... it reaches the server and is answered 429, or something that has the
\* loop back off, or its answer is lost, ...
BeatFails(a) ==
    /\ route = "heartbeat" /\ asleep[a] = 0
    /\ Enforces(a)
    /\ Sleeps(a, BackedOff(Counted(a)))
    /\ throttled' = (throttled \/ ~Passes(a))
    /\ UNCHANGED <<now, route, restarted>>

\* ... or it does not get there.
BeatLost(a) ==
    /\ route = "heartbeat" /\ asleep[a] = 0
    /\ Sleeps(a, BackedOff(Counted(a)))
    /\ UNCHANGED <<now, route, serverVars, throttled, restarted>>

\* The agent process is started again (bound: one restart in a behaviour).
AgentRestarts(a) ==
    /\ route = "heartbeat" /\ restarted = "no"
    /\ loop' = [loop EXCEPT ![a] = NewLoop]
    /\ asleep' = [asleep EXCEPT ![a] = 0]
    /\ restarted' = "agent"
    /\ UNCHANGED <<now, route, serverVars, throttled>>

Tick ==
    /\ now < MaxTime
    /\ now' = now + 1
    /\ asleep' = [a \in Client |-> IF asleep[a] = 0 THEN 0 ELSE asleep[a] - 1]
    /\ UNCHANGED <<route, serverVars, loop, throttled, restarted>>

Next ==
    \/ Tick
    \/ ServerRestarts
    \/ \E c \in Client :
        Calls(c) \/ BeatServed(c) \/ BeatFails(c) \/ BeatLost(c) \/ AgentRestarts(c)

Spec == Init /\ [][Next]_vars

-----------------------------------------------------------------------------
(* Properties.                                                             *)

\* However requests and refusals follow each other, a bucket lets pass no more
\* than its capacity and what has been refilled since it was created.
AdmissionBound ==
    \A k \in Key :
        admitted[k] * Cost <= RateOf(k).capacity + RateOf(k).refill * (now - since[k])

\* Agents that start together behind one address and keep the loop's cadence,
\* failures and fast start included, are never throttled.
CadenceNotThrottled == restarted # "agent" => ~throttled
=============================================================================
