------------------------ MODULE SupportBundles_proofs ------------------------
(***************************************************************************)
(* Proofs about the rate limiter, for every number of clients, every       *)
(* capacity, refill and cost and a clock without a bound; about the agents *)
(* behind one address, for as many as the buckets carry; then about the    *)
(* uploads behind it, for every number of them under way at once, every    *)
(* limit and every lifetime of a token.                                    *)
(***************************************************************************)
EXTENDS SupportBundles, Sums, TLAPS

-----------------------------------------------------------------------------
(* Arithmetic.                                                             *)

\* What is refilled in two spans is refilled in their sum.
LEMMA RefillsAdd ==
    ASSUME NEW r \in Nat, NEW s \in Nat, NEW l \in Nat, NEW n \in Nat
    PROVE  r * (n - s) = r * (l - s) + r * (n - l)
<1>1. (l - s) \in Int /\ (n - l) \in Int /\ (l - s) + (n - l) = n - s
  OBVIOUS
<1>2. QED
  BY <1>1, Distributes

\* What is refilled in some time is a natural number.
LEMMA RefillIsNat ==
    ASSUME NEW r \in Nat, NEW d \in Nat
    PROVE  r * d \in Nat
OBVIOUS

-----------------------------------------------------------------------------
(* Types.                                                                  *)

\* Every bucket has a rate.
LEMMA RateType ==
    ASSUME TypeOK, NEW k \in Key
    PROVE  RateOf(k) \in Rate
BY LimitAssumption DEF RateOf, TypeOK, Route

\* What a bucket holds after its refill is an integer.
LEMMA LevelType ==
    ASSUME TypeOK, NEW k \in Key
    PROVE  Level(k) \in Int
<1>1. RateOf(k) \in Rate
  BY RateType
<1>2. CASE bucket[k] = NoBucket
  BY <1>1, <1>2 DEF Level, Rate
<1>3. CASE bucket[k] # NoBucket
  <2>1. bucket[k] \in Bucket
    BY <1>3 DEF TypeOK
  <2>2. RateOf(k).refill * (now - bucket[k].last) \in Int
    BY <1>1, <2>1 DEF Rate, Bucket, TypeOK
  <2>3. QED
    BY <1>1, <1>3, <2>1, <2>2 DEF Level, Least, Rate, Bucket
<1>4. QED
  BY <1>2, <1>3

\* A bucket from which a request was taken is a bucket.
LEMMA TakenType ==
    ASSUME TypeOK, NEW k \in Key
    PROVE  Taken(k) \in Bucket
<1>1. Level(k) \in Int
  BY LevelType
<1>2. QED
  BY <1>1, CostAssumption DEF Taken, Grants, Bucket, TypeOK

\* The buckets a request leaves behind are buckets.
LEMMA EnforcesTypes ==
    ASSUME TypeOK, NEW c \in Client, Enforces(c)
    PROVE  /\ bucket' \in [Key -> Bucket \cup {NoBucket}]
           /\ admitted' \in [Key -> Nat]
           /\ since' \in [Key -> Nat]
<1>1. bucket' \in [Key -> Bucket \cup {NoBucket}]
  <2>1. \A k \in Key : Taken(k) \in Bucket
    BY TakenType
  <2>2. QED
    BY <2>1 DEF Enforces, TypeOK
<1>2. admitted' \in [Key -> Nat]
  BY DEF Enforces, TypeOK
<1>3. since' \in [Key -> Nat]
  BY DEF Enforces, TypeOK
<1>4. QED
  BY <1>1, <1>2, <1>3

\* Counting, backing off and resetting keep a loop a loop.
LEMMA LoopTypes ==
    ASSUME TypeOK, NEW a \in Client
    PROVE  /\ Counted(a) \in Loop
           /\ \A l \in Loop : BackedOff(l) \in Loop /\ Reset(l) \in Loop
           /\ \A l \in Loop : Graduated(l) \in Loop /\ NextInterval(l) \in Nat
<1>1. Counted(a) \in Loop
  BY CadenceAssumption DEF Counted, Least, Loop, TypeOK
<1>2. ASSUME NEW l \in Loop
      PROVE  /\ BackedOff(l) \in Loop /\ Reset(l) \in Loop
             /\ Graduated(l) \in Loop
             /\ NextInterval(l) \in Nat
  <2>1. BackedOff(l) \in Loop
    <3> DEFINE from == IF l.interval < BaseInterval THEN BaseInterval ELSE l.interval
               next == Least(2 * from, MaxBackoff)
    <3>1. MaxBackoff \in Nat /\ from \in Nat
      BY CadenceAssumption DEF Loop
    <3>2. next \in Nat
      <4> HIDE DEF from
      <4>1. QED
        BY <3>1 DEF Least
    <3>3. BackedOff(l) = [l EXCEPT !.interval = next, !.graduated = TRUE]
      BY DEF BackedOff
    <3> HIDE DEF next
    <3>4. QED
      BY <3>2, <3>3 DEF Loop
  <2>2. Reset(l) \in Loop
    BY CadenceAssumption DEF Reset, Loop
  <2>3. Graduated(l) \in Loop
    BY DEF Graduated, Loop
  <2>4. NextInterval(l) \in Nat
    BY CadenceAssumption DEF NextInterval, Loop
  <2>5. QED
    BY <2>1, <2>2, <2>3, <2>4
<1>3. QED
  BY <1>1, <1>2

\* A loop that goes to sleep keeps its type, and so do the sleeps.
LEMMA SleepsTypes ==
    ASSUME TypeOK, NEW a \in Client, NEW l \in Loop, Sleeps(a, l)
    PROVE  loop' \in [Client -> Loop] /\ asleep' \in [Client -> Nat]
<1>1. Graduated(l) \in Loop /\ NextInterval(l) \in Nat
  BY LoopTypes
<1>2. QED
  BY <1>1 DEF Sleeps, TypeOK

\* The variables always hold values of their types.
THEOREM TypeCorrect == Spec => []TypeOK
<1>1. Init => TypeOK
  <2> SUFFICES ASSUME Init PROVE TypeOK
    OBVIOUS
  <2>1. NewLoop \in Loop
    BY CadenceAssumption DEF NewLoop, Loop
  <2>2. QED
    BY <2>1 DEF Init, TypeOK
<1>2. TypeOK /\ [Next]_vars => TypeOK'
  <2> SUFFICES ASSUME TypeOK, [Next]_vars PROVE TypeOK'
    OBVIOUS
  <2>1. CASE Tick
    BY <2>1 DEF Tick, TypeOK, serverVars
  <2>2. CASE ServerRestarts
    BY <2>2 DEF ServerRestarts, TypeOK
  <2>3. ASSUME NEW c \in Client, Calls(c) PROVE TypeOK'
    BY <2>3, EnforcesTypes DEF Calls, TypeOK, agentVars
  <2>4. ASSUME NEW c \in Client, BeatServed(c) PROVE TypeOK'
    <3>1. Reset(Counted(c)) \in Loop
      BY LoopTypes
    <3>2. loop' \in [Client -> Loop] /\ asleep' \in [Client -> Nat]
      BY <2>4, <3>1, SleepsTypes DEF BeatServed
    <3>3. QED
      BY <2>4, <3>2, EnforcesTypes DEF BeatServed, TypeOK
  <2>5. ASSUME NEW c \in Client, BeatFails(c) PROVE TypeOK'
    <3>1. BackedOff(Counted(c)) \in Loop
      BY LoopTypes
    <3>2. loop' \in [Client -> Loop] /\ asleep' \in [Client -> Nat]
      BY <2>5, <3>1, SleepsTypes DEF BeatFails
    <3>3. throttled' \in BOOLEAN
      BY <2>5 DEF BeatFails, TypeOK
    <3>4. QED
      BY <2>5, <3>2, <3>3, EnforcesTypes DEF BeatFails, TypeOK
  <2>6. ASSUME NEW c \in Client, BeatLost(c) PROVE TypeOK'
    <3>1. BackedOff(Counted(c)) \in Loop
      BY LoopTypes
    <3>2. loop' \in [Client -> Loop] /\ asleep' \in [Client -> Nat]
      BY <2>6, <3>1, SleepsTypes DEF BeatLost
    <3>3. QED
      BY <2>6, <3>2 DEF BeatLost, TypeOK, serverVars
  <2>7. ASSUME NEW c \in Client, AgentRestarts(c) PROVE TypeOK'
    <3>1. NewLoop \in Loop
      BY CadenceAssumption DEF NewLoop, Loop
    <3>2. QED
      BY <2>7, <3>1 DEF AgentRestarts, TypeOK, serverVars
  <2>8. CASE UNCHANGED vars
    BY <2>8 DEF vars, serverVars, agentVars, TypeOK
  <2>9. QED
    BY <2>1, <2>2, <2>3, <2>4, <2>5, <2>6, <2>7, <2>8 DEF Next
<1>3. QED
  BY <1>1, <1>2, PTL DEF Spec

-----------------------------------------------------------------------------
(* The bound.  What a bucket has let pass and what it still holds together *)
(* never exceed what it was given up to its last refill.                   *)

Balanced(k) ==
    /\ since[k] <= now
    /\ bucket[k] = NoBucket => admitted[k] = 0
    /\ bucket[k] # NoBucket =>
        /\ since[k] <= bucket[k].last /\ bucket[k].last <= now
        /\ 0 <= bucket[k].tokens
        /\ admitted[k] * Cost + bucket[k].tokens
             <= RateOf(k).capacity + RateOf(k).refill * (bucket[k].last - since[k])

Books == \A k \in Key : Balanced(k)

\* What take() finds is no more than what the bucket can have by now.
LEMMA LevelBound ==
    ASSUME TypeOK, Books, NEW k \in Key, bucket[k] # NoBucket
    PROVE  /\ 0 <= Level(k)
           /\ admitted[k] * Cost + Level(k)
                <= RateOf(k).capacity + RateOf(k).refill * (now - since[k])
<1> DEFINE cap == RateOf(k).capacity
           ref == RateOf(k).refill
           b == bucket[k]
           spent == admitted[k] * Cost
           before == ref * (b.last - since[k])
           added == ref * (now - b.last)
<1>1. cap \in Nat /\ ref \in Nat
  BY RateType DEF Rate
<1>2. b.tokens \in Int /\ b.last \in Int /\ now \in Nat /\ since[k] \in Nat
  BY DEF TypeOK, Bucket
<1>3. spent \in Nat
  BY CostAssumption, RefillIsNat DEF TypeOK
<1>4. /\ since[k] <= b.last /\ b.last <= now
      /\ 0 <= b.tokens
      /\ spent + b.tokens <= cap + before
  BY DEF Books, Balanced
<1>5. b.last \in Nat /\ (b.last - since[k]) \in Nat /\ (now - b.last) \in Nat
  BY <1>2, <1>4
<1>6. before \in Nat /\ added \in Nat
  BY <1>1, <1>5, RefillIsNat
<1>7. ref * (now - since[k]) = before + added
  BY <1>1, <1>2, <1>5, RefillsAdd
<1>8. Level(k) = Least(cap, b.tokens + added)
  BY DEF Level
<1> HIDE DEF cap, ref, b, spent, before, added
<1>9. Level(k) <= b.tokens + added /\ 0 <= Level(k) /\ Level(k) \in Int
  BY <1>1, <1>2, <1>4, <1>6, <1>8 DEF Least
<1>10. spent + Level(k) <= cap + (before + added)
  BY <1>1, <1>2, <1>3, <1>4, <1>6, <1>9
<1>11. QED
  BY <1>7, <1>9, <1>10 DEF cap, ref, spent

\* A bucket that is asked stays balanced.
LEMMA AskedBalanced ==
    ASSUME TypeOK, Books, NEW c \in Client, Enforces(c), UNCHANGED <<now, route>>,
           NEW k \in Key, k \in Asked(c)
    PROVE  Balanced(k)'
<1> DEFINE cap == RateOf(k).capacity
           ref == RateOf(k).refill
<1>1. cap \in Nat /\ ref \in Nat
  BY RateType DEF Rate
<1>2. Level(k) \in Int /\ Cost \in Nat \ {0} /\ admitted[k] \in Nat /\ now \in Nat
      /\ since[k] \in Nat
  BY LevelType, CostAssumption DEF TypeOK
<1>3. /\ bucket'[k] = Taken(k)
      /\ admitted'[k] = IF Grants(k) THEN admitted[k] + 1 ELSE admitted[k]
      /\ since'[k] = IF bucket[k] = NoBucket THEN now ELSE since[k]
  BY DEF Enforces
<1>4. bucket'[k] # NoBucket
  BY <1>3, TakenType, NoBucketAssumption
<1>5. RateOf(k)' = RateOf(k)
  BY DEF RateOf
<1>6. /\ 0 <= Level(k)
      /\ since'[k] \in Nat /\ since'[k] <= now
      /\ admitted[k] * Cost + Level(k) <= cap + ref * (now - since'[k])
  <2>1. CASE bucket[k] = NoBucket
    <3>1. Level(k) = cap /\ since'[k] = now /\ admitted[k] = 0
      BY <1>3, <2>1 DEF Level, Books, Balanced
    <3>2. ref * (now - now) = 0 /\ 0 * Cost = 0
      BY <1>1, <1>2
    <3>3. QED
      BY <1>1, <1>2, <3>1, <3>2
  <2>2. CASE bucket[k] # NoBucket
    <3>1. since'[k] = since[k] /\ since[k] <= now
      BY <1>3, <2>2 DEF Books, Balanced
    <3>2. QED
      BY <1>2, <2>2, <3>1, LevelBound
  <2>3. QED
    BY <2>1, <2>2
<1>7. (admitted[k] + 1) * Cost = admitted[k] * Cost + Cost
  <2>1. Cost * (admitted[k] + 1) = Cost * admitted[k] + Cost * 1
    BY <1>2, Distributes
  <2>2. QED
    BY <1>2, <2>1
<1>8. /\ 0 <= Taken(k).tokens /\ Taken(k).last = now
      /\ admitted'[k] * Cost + Taken(k).tokens = admitted[k] * Cost + Level(k)
  <2>1. admitted[k] * Cost \in Nat
    BY <1>2, RefillIsNat
  <2>2. CASE Grants(k)
    <3>1. Taken(k).tokens = Level(k) - Cost /\ admitted'[k] = admitted[k] + 1
      BY <1>3, <2>2 DEF Taken
    <3>2. Level(k) >= Cost
      BY <2>2 DEF Grants
    <3>3. admitted'[k] * Cost = admitted[k] * Cost + Cost
      BY <1>7, <3>1
    <3>4. QED
      BY <1>2, <2>1, <3>1, <3>2, <3>3 DEF Taken
  <2>3. CASE ~Grants(k)
    BY <1>2, <1>3, <1>6, <2>3 DEF Taken
  <2>4. QED
    BY <2>2, <2>3
<1>9. /\ bucket'[k].last = now' /\ 0 <= bucket'[k].tokens
      /\ admitted'[k] * Cost + bucket'[k].tokens
           <= RateOf(k)'.capacity + RateOf(k)'.refill * (bucket'[k].last - since'[k])
  BY <1>3, <1>5, <1>6, <1>8
<1>10. since'[k] <= now' /\ now' \in Nat
  BY <1>2, <1>6
<1>11. QED
  BY <1>4, <1>6, <1>9, <1>10 DEF Balanced

\* So do the others, and so the books balance after every request.
LEMMA EnforcesBalances ==
    ASSUME TypeOK, Books, NEW c \in Client, Enforces(c), UNCHANGED <<now, route>>
    PROVE  Books'
<1> SUFFICES ASSUME NEW k \in Key PROVE Balanced(k)'
  BY DEF Books, Key
<1>1. CASE k \in Asked(c)
  BY <1>1, AskedBalanced
<1>2. CASE k \notin Asked(c)
  <2>1. bucket'[k] = bucket[k] /\ admitted'[k] = admitted[k] /\ since'[k] = since[k]
    BY <1>2 DEF Enforces, TypeOK
  <2>2. Balanced(k)
    BY DEF Books
  <2>3. QED
    BY <2>1, <2>2 DEF Balanced, RateOf
<1>3. QED
  BY <1>1, <1>2

\* Whatever is requested, refused and restarted, the books balance.
LEMMA BooksInvariant == Spec => [](TypeOK /\ Books)
<1>1. Init => Books
  BY DEF Init, Books, Balanced
<1>2. TypeOK /\ Books /\ [Next]_vars => Books'
  <2> SUFFICES ASSUME TypeOK, Books, [Next]_vars PROVE Books'
    OBVIOUS
  <2>1. CASE Tick
    <3>1. /\ now' = now + 1 /\ route' = route
          /\ bucket' = bucket /\ admitted' = admitted /\ since' = since
      BY <2>1 DEF Tick, serverVars
    <3>2. QED
      <4> SUFFICES ASSUME NEW k \in Key PROVE Balanced(k)'
        BY DEF Books, Key
      <4>1. Balanced(k) /\ now \in Nat /\ since[k] \in Nat
        BY DEF Books, TypeOK
      <4>2. bucket[k] # NoBucket => bucket[k].last \in Int
        BY DEF TypeOK, Bucket
      <4>3. RateOf(k)' = RateOf(k)
        BY <3>1 DEF RateOf
      <4>4. QED
        BY <3>1, <4>1, <4>2, <4>3 DEF Balanced
  <2>2. CASE ServerRestarts
    BY <2>2 DEF ServerRestarts, Books, Balanced, TypeOK, Key
  <2>3. ASSUME NEW c \in Client, Calls(c) PROVE Books'
    BY <2>3, EnforcesBalances DEF Calls
  <2>4. ASSUME NEW c \in Client, BeatServed(c) PROVE Books'
    BY <2>4, EnforcesBalances DEF BeatServed
  <2>5. ASSUME NEW c \in Client, BeatFails(c) PROVE Books'
    BY <2>5, EnforcesBalances DEF BeatFails
  <2>6. CASE \/ \E c \in Client : BeatLost(c) \/ AgentRestarts(c)
             \/ UNCHANGED vars
    BY <2>6 DEF BeatLost, AgentRestarts, vars, serverVars, Books, Balanced, RateOf, Key
  <2>7. QED
    BY <2>1, <2>2, <2>3, <2>4, <2>5, <2>6 DEF Next
<1>3. QED
  BY <1>1, <1>2, TypeCorrect, PTL DEF Spec

\* The books imply the bound.
LEMMA BooksBound == ASSUME TypeOK, Books PROVE AdmissionBound
<1> SUFFICES ASSUME NEW k \in Key
             PROVE  admitted[k] * Cost
                      <= RateOf(k).capacity + RateOf(k).refill * (now - since[k])
  BY DEF AdmissionBound
<1>1. RateOf(k).capacity \in Nat /\ RateOf(k).refill \in Nat
  BY RateType DEF Rate
<1>2. CASE bucket[k] = NoBucket
  <2>1. since[k] <= now /\ admitted[k] = 0 /\ since[k] \in Nat /\ now \in Nat
    BY <1>2 DEF Books, Balanced, TypeOK
  <2>2. RateOf(k).refill * (now - since[k]) \in Nat
    BY <1>1, <2>1, RefillIsNat
  <2>3. admitted[k] * Cost = 0
    BY <2>1, CostAssumption
  <2>4. QED
    BY <1>1, <2>2, <2>3
<1>3. CASE bucket[k] # NoBucket
  <2>1. 0 <= Level(k) /\ Level(k) \in Int
    BY <1>3, LevelBound, LevelType
  <2>2. admitted[k] * Cost \in Nat
    BY CostAssumption, RefillIsNat DEF TypeOK
  <2>3. RateOf(k).refill * (now - since[k]) \in Int
    BY <1>1 DEF TypeOK
  <2>4. admitted[k] * Cost + Level(k)
          <= RateOf(k).capacity + RateOf(k).refill * (now - since[k])
    BY <1>3, LevelBound
  <2>5. QED
    BY <1>1, <2>1, <2>2, <2>3, <2>4
<1>4. QED
  BY <1>2, <1>3

\* However requests and refusals follow each other, a bucket lets pass no more
\* than its capacity and what has been refilled since it was created.
THEOREM LimiterBounds == Spec => []AdmissionBound
<1>1. TypeOK /\ Books => AdmissionBound
  BY BooksBound
<1>2. QED
  BY <1>1, BooksInvariant, PTL

-----------------------------------------------------------------------------
(* Agents that keep the loop's cadence are not throttled.                  *)

More(x, y) == IF x >= y THEN x ELSE y

\* What a bucket refilled with r per tick has to hold for beats of weight q: m of
\* them FastInterval apart, the first one in s ticks, and more after BaseInterval.
Requires(q, r, m, s) ==
    More(0, More(q - r * s, m * q - r * s - (m - 1) * (r * FastInterval)))

\* Beats that may come FastInterval apart from now on.
Ahead(l) == IF l.graduated THEN 1 ELSE More(1, FastCount - l.beats)

\* What an agent with loop l needs, s ticks before its next beat, of a bucket that
\* n agents share, in n-th parts of a token.
Need(n, rate, l, s) == Requires(n * Cost, rate.refill, Ahead(l), s)

\* A bucket carries n agents if it refills what they use at their base interval,
\* and if it holds what they use in a fast start they all begin at once.
Carries(rate, n) ==
    /\ n * Cost <= rate.capacity
    /\ n * Cost <= rate.refill * BaseInterval
    /\ \A m \in 1 .. FastCount :
          m * (n * Cost) <= rate.capacity + (m - 1) * (rate.refill * FastInterval)

FirstRate == Limit["heartbeat"].first
SecondRate == Limit["heartbeat"].second
Clients == Cardinality(Client)

\* What all agents together need of the address's bucket.
Demand(ls, sl) ==
    SumFunctionOnSet([a \in Client |-> Need(Clients, FirstRate, ls[a], sl[a])], Client)

\* What is needed is a natural number, and what an agent that is awake needs
\* covers its beat.
LEMMA RequiresFacts ==
    ASSUME NEW q \in Nat, NEW r \in Nat, NEW m \in Nat \ {0}, NEW s \in Nat
    PROVE  Requires(q, r, m, s) \in Nat /\ Requires(q, r, m, 0) >= q
<1> DEFINE rs == r * s
           mq == m * q
           fast == (m - 1) * (r * FastInterval)
<1>1. rs \in Nat /\ mq \in Nat /\ fast \in Nat
  BY CadenceAssumption
<1>2. Requires(q, r, m, s) \in Nat
  <2> HIDE DEF rs, mq, fast
  <2>1. More(0, More(q - rs, mq - rs - fast)) \in Nat
    BY <1>1 DEF More
  <2>2. QED
    BY <2>1 DEF Requires, rs, mq, fast
<1>3. Requires(q, r, m, 0) >= q
  <2>1. r * 0 = 0
    OBVIOUS
  <2> HIDE DEF mq, fast
  <2>2. More(0, More(q, mq - fast)) >= q
    BY <1>1 DEF More
  <2>3. QED
    BY <1>1, <2>1, <2>2 DEF Requires, mq, fast
<1>4. QED
  BY <1>2, <1>3

\* An agent that waits for the base interval with one beat ahead needs nothing.
LEMMA WaitingNeedsNothing ==
    ASSUME NEW q \in Nat, NEW r \in Nat, NEW s \in Nat,
           q <= r * BaseInterval, s >= BaseInterval
    PROVE  Requires(q, r, 1, s) = 0
<1> DEFINE rs == r * s
           x == r * (s - BaseInterval)
           y == r * BaseInterval
<1>1. FastInterval \in Nat /\ BaseInterval \in Nat
  BY CadenceAssumption
<1>2. r * (BaseInterval + (s - BaseInterval)) = r * BaseInterval + r * (s - BaseInterval)
  BY <1>1, Distributes
<1>3. BaseInterval + (s - BaseInterval) = s
  BY <1>1
<1>4. rs = y + x /\ x \in Nat /\ y \in Nat /\ q <= y /\ rs \in Nat
  BY <1>1, <1>2, <1>3
<1>5. 1 * q = q /\ (1 - 1) * (r * FastInterval) = 0
  BY <1>1
<1> HIDE DEF rs, x, y
<1>6. More(0, More(q - rs, q - rs - 0)) = 0
  BY <1>4 DEF More
<1>7. QED
  BY <1>5, <1>6 DEF Requires, rs

\* A beat of the fast start uses up what was needed for it.
LEMMA FastBeatIsPaid ==
    ASSUME NEW q \in Nat, NEW r \in Nat, NEW m \in Nat, m >= 2
    PROVE  Requires(q, r, m - 1, FastInterval) + q <= Requires(q, r, m, 0)
<1> DEFINE g == r * FastInterval
           d == q - g
           x == (m - 1) * d
<1>1. g \in Nat /\ q \in Int /\ m \in Int
  BY CadenceAssumption
<1>2. d \in Int
  BY <1>1
<1>3. (m - 1) * (g + d) = (m - 1) * g + (m - 1) * d
  BY <1>1, <1>2, Distributes
<1>4. q * ((m - 1) + 1) = q * (m - 1) + q * 1
  BY <1>1, Distributes
<1>5. g * ((m - 2) + 1) = g * (m - 2) + g * 1
  BY <1>1, Distributes
<1>6. g + d = q /\ (m - 1) + 1 = m /\ (m - 2) + 1 = m - 1 /\ (m - 1) - 1 = m - 2
  BY <1>1
<1> DEFINE mq == m * q
           m1q == (m - 1) * q
           m1g == (m - 1) * g
           m2g == (m - 2) * g
<1>7. mq \in Int /\ m1q \in Int /\ m1g \in Int /\ m2g \in Int /\ x \in Int
  BY <1>1, <1>2
<1>8. m1q = m1g + x /\ mq = m1q + q /\ m1g = m2g + g
  BY <1>1, <1>3, <1>4, <1>5, <1>6
<1>9. (d >= 0 => x >= d) /\ (d < 0 => x <= 0)
  <2>1. CASE d >= 0
    <3>1. d * ((m - 2) + 1) = d * (m - 2) + d * 1
      BY <1>1, <1>2, Distributes
    <3>2. d * (m - 2) \in Nat
      BY <1>1, <1>2, <2>1
    <3>3. x = d * (m - 2) + d
      BY <1>1, <1>2, <1>6, <3>1
    <3> DEFINE y == d * (m - 2)
    <3>4. x = y + d /\ y \in Nat
      BY <3>2, <3>3
    <3>5. x \in Int /\ d \in Int /\ d >= 0
      BY <1>2, <1>7, <2>1
    <3> HIDE DEF x, y, d
    <3>6. QED
      BY <3>4, <3>5
  <2>2. CASE d < 0
    <3>1. (m - 1) * (0 - d) \in Nat
      BY <1>1, <1>2, <2>2
    <3>2. (m - 1) * (d + (0 - d)) = x + (m - 1) * (0 - d)
      BY <1>1, <1>2, Distributes
    <3>3. (m - 1) * (d + (0 - d)) = 0
      BY <1>1, <1>2
    <3> DEFINE y == (m - 1) * (0 - d)
    <3>4. 0 = x + y /\ y \in Nat
      BY <3>1, <3>2, <3>3
    <3>5. x \in Int /\ d \in Int /\ d < 0
      BY <1>2, <1>7, <2>2
    <3> HIDE DEF x, y, d
    <3>6. QED
      BY <3>4, <3>5
  <2>3. QED
    BY <1>2, <2>1, <2>2
<1>10. r * 0 = 0
  OBVIOUS
<1>11. /\ Requires(q, r, m - 1, FastInterval) = More(0, More(q - g, m1q - g - m2g))
       /\ Requires(q, r, m, 0) = More(0, More(q - 0, mq - 0 - m1g))
  BY <1>6, <1>10 DEF Requires
<1>12. d = q - g
  OBVIOUS
<1> HIDE DEF g, d, x, mq, m1q, m1g, m2g
<1>13. QED
  BY <1>1, <1>2, <1>7, <1>8, <1>9, <1>11, <1>12 DEF More

\* What is needed grows by no more than a tick refills.
LEMMA NeedGrowsSlowly ==
    ASSUME NEW q \in Nat, NEW r \in Nat, NEW m \in Nat \ {0}, NEW s \in Nat \ {0}
    PROVE  Requires(q, r, m, s - 1) <= Requires(q, r, m, s) + r
<1> DEFINE rs == r * s
           ru == r * (s - 1)
           mq == m * q
           fast == (m - 1) * (r * FastInterval)
<1>1. rs \in Int /\ ru \in Int /\ mq \in Int /\ fast \in Int
  BY CadenceAssumption
<1>2. rs = ru + r
  <2>1. r * ((s - 1) + 1) = r * (s - 1) + r * 1
    BY Distributes
  <2>2. QED
    BY <2>1
<1> HIDE DEF rs, ru, mq, fast
<1>3. More(0, More(q - ru, mq - ru - fast)) <= More(0, More(q - rs, mq - rs - fast)) + r
  BY <1>1, <1>2 DEF More
<1>4. QED
  BY <1>3 DEF Requires, rs, ru, mq, fast

\* A bucket that carries its agents can hold all that one of them may need.
LEMMA NeedIsBounded ==
    ASSUME NEW n \in Nat, NEW rate \in Rate, Carries(rate, n),
           NEW m \in Nat \ {0}, m = 1 \/ m \in 1 .. FastCount, NEW s \in Nat
    PROVE  Requires(n * Cost, rate.refill, m, s) <= rate.capacity
<1> DEFINE q == n * Cost
           r == rate.refill
           c == rate.capacity
           rs == r * s
           mq == m * q
           fast == (m - 1) * (r * FastInterval)
<1>1. q \in Nat /\ r \in Nat /\ c \in Nat
  BY CostAssumption DEF Rate
<1>2. rs \in Nat /\ mq \in Int /\ fast \in Int
  <2> HIDE DEF q, r
  <2>1. QED
    BY <1>1, CadenceAssumption
<1>3. q <= c
  BY DEF Carries
<1>4. mq <= c + fast
  <2>1. CASE m = 1
    <3>1. mq = q /\ fast = 0
      <4> HIDE DEF q, r
      <4>1. QED
        BY <1>1, <2>1, CadenceAssumption
    <3> HIDE DEF mq, fast, q, c
    <3>2. QED
      BY <1>1, <1>3, <3>1
  <2>2. CASE m \in 1 .. FastCount
    BY <2>2 DEF Carries
  <2>3. QED
    BY <2>1, <2>2
<1>5. Requires(q, r, m, s) = More(0, More(q - rs, mq - rs - fast))
  BY DEF Requires
<1> HIDE DEF q, r, c, rs, mq, fast
<1>6. Requires(q, r, m, s) <= c
  BY <1>1, <1>2, <1>3, <1>4, <1>5 DEF More
<1>7. QED
  BY <1>6 DEF q, r, c

\* A loop expects one beat more, or those of a fast start.
LEMMA AheadType ==
    ASSUME NEW l \in Loop
    PROVE  Ahead(l) \in Nat \ {0} /\ (Ahead(l) = 1 \/ Ahead(l) \in 1 .. FastCount)
<1>1. FastCount \in Nat /\ l.beats \in Nat
  BY CadenceAssumption DEF Loop
<1>2. QED
  BY <1>1 DEF Ahead, More

\* So what an agent needs is a natural number, no more than its bucket can hold,
\* and it grows by no more than a tick refills.
LEMMA NeedFacts ==
    ASSUME NEW n \in Nat, NEW rate \in Rate, Carries(rate, n), NEW l \in Loop, NEW s \in Nat
    PROVE  /\ Need(n, rate, l, s) \in Nat
           /\ Need(n, rate, l, s) <= rate.capacity
           /\ s > 0 => Need(n, rate, l, s - 1) <= Need(n, rate, l, s) + rate.refill
<1>1. n * Cost \in Nat /\ rate.refill \in Nat
  BY CostAssumption DEF Rate
<1>2. Ahead(l) \in Nat \ {0} /\ (Ahead(l) = 1 \/ Ahead(l) \in 1 .. FastCount)
  BY AheadType
<1>3. Need(n, rate, l, s) \in Nat
  BY <1>1, <1>2, RequiresFacts DEF Need
<1>4. Need(n, rate, l, s) <= rate.capacity
  BY <1>2, NeedIsBounded DEF Need
<1>5. ASSUME s > 0
      PROVE  Need(n, rate, l, s - 1) <= Need(n, rate, l, s) + rate.refill
  BY <1>1, <1>2, <1>5, NeedGrowsSlowly DEF Need
<1>6. QED
  BY <1>3, <1>4, <1>5

\* After a beat the loop waits for the base interval or longer, or it has one beat
\* of the fast start less ahead of it.
LEMMA NextBeat ==
    ASSUME TypeOK, NEW a \in Client, NEW l \in {Reset(Counted(a)), BackedOff(Counted(a))}
    PROVE  \/ Ahead(Graduated(l)) = 1 /\ NextInterval(l) >= BaseInterval
           \/ /\ NextInterval(l) = FastInterval
              /\ Ahead(loop[a]) >= 2 /\ Ahead(Graduated(l)) = Ahead(loop[a]) - 1
<1> DEFINE old == loop[a]
           c == Counted(a)
<1>1. /\ FastCount \in Nat /\ BaseInterval \in Nat /\ FastInterval \in Nat
      /\ MaxBackoff \in Nat
  BY CadenceAssumption
<1>2. /\ old \in Loop /\ old.beats \in Nat /\ old.graduated \in BOOLEAN
      /\ old.interval \in Nat
  BY DEF TypeOK, Loop
<1>3. /\ c.beats = Least(old.beats + 1, FastCount) /\ c.graduated = old.graduated
      /\ c.interval = old.interval
      /\ c = [c EXCEPT !.interval = @]
      /\ c \in Loop
  BY <1>2, LoopTypes DEF Counted, Loop
<1> HIDE DEF c, old
<1>4. CASE l = Reset(c)
  <2>1. /\ l.beats = c.beats /\ l.interval = BaseInterval /\ l.graduated = c.graduated
        /\ l \in Loop
    BY <1>1, <1>3, <1>4 DEF Reset, Loop
  <2>2. CASE l.beats >= FastCount
    <3>1. Graduated(l).graduated = TRUE
      BY <1>1, <2>1, <2>2 DEF Graduated, Loop
    <3>2. NextInterval(l) = BaseInterval
      BY <1>1, <2>1, <3>1 DEF NextInterval
    <3>3. QED
      BY <1>1, <3>1, <3>2 DEF Ahead
  <2>3. CASE ~(l.beats >= FastCount) /\ l.graduated
    <3>1. Graduated(l) = l
      BY <2>3 DEF Graduated
    <3>2. NextInterval(l) = BaseInterval
      BY <1>1, <2>1, <2>3, <3>1 DEF NextInterval
    <3>3. QED
      BY <1>1, <2>3, <3>1, <3>2 DEF Ahead
  <2>4. CASE ~(l.beats >= FastCount) /\ ~l.graduated
    <3>1. Graduated(l) = l
      BY <2>4 DEF Graduated
    <3>2. NextInterval(l) = FastInterval
      BY <1>1, <2>1, <2>4, <3>1 DEF NextInterval
    <3>3. old.beats + 1 < FastCount /\ l.beats = old.beats + 1 /\ ~old.graduated
      BY <1>1, <1>2, <1>3, <2>1, <2>4 DEF Least
    <3>4. Ahead(old) = FastCount - old.beats
      BY <1>1, <1>2, <3>3 DEF Ahead, More
    <3>5. Ahead(l) = FastCount - l.beats
      BY <1>1, <1>2, <2>4, <3>3 DEF Ahead, More
    <3>6. Ahead(old) >= 2 /\ Ahead(Graduated(l)) = Ahead(old) - 1
      BY <1>1, <1>2, <3>1, <3>3, <3>4, <3>5
    <3>7. QED
      BY <3>2, <3>6 DEF old
  <2>5. QED
    BY <2>2, <2>3, <2>4
<1>5. CASE l = BackedOff(c)
  <2>1. l.graduated = TRUE /\ l.interval \in Nat /\ l \in Loop
    <3>1. l \in Loop
      BY <1>3, <1>5, LoopTypes DEF c
    <3>2. l.graduated = TRUE
      BY <1>3, <1>5 DEF BackedOff, Loop
    <3>3. QED
      BY <3>1, <3>2 DEF Loop
  <2>2. Graduated(l).graduated = TRUE
    BY <2>1 DEF Graduated, Loop
  <2>3. NextInterval(l) >= BaseInterval
    BY <1>1, <2>1, <2>2 DEF NextInterval
  <2>4. QED
    BY <2>2, <2>3 DEF Ahead
<1>6. QED
  BY <1>4, <1>5 DEF c

\* A beat that comes when it is due uses up what the agent needed for it.
LEMMA BeatIsPaid ==
    ASSUME TypeOK, NEW a \in Client, asleep[a] = 0,
           NEW l \in {Reset(Counted(a)), BackedOff(Counted(a))}, Sleeps(a, l),
           NEW n \in Nat, NEW rate \in Rate, Carries(rate, n)
    PROVE  /\ Need(n, rate, loop'[a], asleep'[a]) + n * Cost
                <= Need(n, rate, loop[a], asleep[a])
           /\ \A b \in Client \ {a} : loop'[b] = loop[b] /\ asleep'[b] = asleep[b]
<1>1. n * Cost \in Nat /\ rate.refill \in Nat
  BY CostAssumption DEF Rate
<1>2. Counted(a) \in Loop /\ l \in Loop /\ loop[a] \in Loop
  BY LoopTypes DEF TypeOK
<1>3. NextInterval(l) \in Nat /\ Graduated(l) \in Loop
  BY <1>2, LoopTypes
<1>4. /\ loop'[a] = Graduated(l) /\ asleep'[a] = NextInterval(l)
      /\ \A b \in Client \ {a} : loop'[b] = loop[b] /\ asleep'[b] = asleep[b]
  BY DEF Sleeps, TypeOK
<1> DEFINE before == Need(n, rate, loop[a], asleep[a])
           after == Need(n, rate, loop'[a], asleep'[a])
           q == n * Cost
           wait == NextInterval(l)
<1>5. Ahead(loop[a]) \in Nat \ {0} /\ before = Requires(q, rate.refill, Ahead(loop[a]), 0)
  BY <1>2, AheadType DEF Need
<1>6. CASE Ahead(Graduated(l)) = 1 /\ NextInterval(l) >= BaseInterval
  <2>1. q <= rate.refill * BaseInterval
    BY DEF Carries
  <2>2. after = Requires(q, rate.refill, 1, NextInterval(l))
    BY <1>4, <1>6 DEF Need
  <2>3. q \in Nat /\ wait \in Nat /\ wait >= BaseInterval
    BY <1>1, <1>3, <1>6
  <2> HIDE DEF q, before, after, wait
  <2>4. Requires(q, rate.refill, 1, wait) = 0
    BY <1>1, <2>1, <2>3, WaitingNeedsNothing
  <2>5. before >= q /\ before \in Nat
    <3> DEFINE m == Ahead(loop[a])
    <3>1. m \in Nat \ {0} /\ before = Requires(q, rate.refill, m, 0) /\ 0 \in Nat
      BY <1>5
    <3> HIDE DEF m
    <3>2. QED
      BY <1>1, <2>3, <3>1, RequiresFacts
  <2>6. after + q <= before
    BY <2>2, <2>3, <2>4, <2>5 DEF wait
  <2>7. QED
    BY <1>4, <2>6 DEF q, before, after
<1>7. CASE /\ NextInterval(l) = FastInterval
           /\ Ahead(loop[a]) >= 2 /\ Ahead(Graduated(l)) = Ahead(loop[a]) - 1
  <2>1. after = Requires(q, rate.refill, Ahead(loop[a]) - 1, FastInterval)
    BY <1>4, <1>7 DEF Need
  <2> HIDE DEF q, before, after
  <2>2. after + q <= before
    BY <1>1, <1>5, <1>7, <2>1, FastBeatIsPaid DEF q
  <2>3. QED
    BY <1>4, <2>2 DEF q, before, after
<1>8. QED
  BY <1>6, <1>7, NextBeat

\* A larger factor has a larger product.
LEMMA ProductsGrow ==
    ASSUME NEW n \in Nat, NEW x \in Int, NEW y \in Int, x <= y
    PROVE  n * x <= n * y
<1>1. (y - x) \in Nat /\ x + (y - x) = y
  OBVIOUS
<1>2. n * (x + (y - x)) = n * x + n * (y - x)
  BY <1>1, Distributes
<1>3. n * (y - x) \in Nat /\ n * x \in Int /\ n * y \in Int
  BY <1>1, RefillIsNat
<1> DEFINE p == n * x
           r == n * y
           d == n * (y - x)
<1>4. r = p + d /\ d \in Nat /\ p \in Int
  BY <1>1, <1>2, <1>3
<1> HIDE DEF p, r, d
<1>5. p <= r
  BY <1>4
<1>6. QED
  BY <1>5 DEF p, r

\* No bucket holds more than its capacity; a new one is full.
LEMMA LevelTop ==
    ASSUME TypeOK, NEW k \in Key
    PROVE  /\ Level(k) <= RateOf(k).capacity
           /\ bucket[k] = NoBucket => Level(k) = RateOf(k).capacity
<1>1. RateOf(k).capacity \in Nat /\ RateOf(k).refill \in Nat
  BY RateType DEF Rate
<1>2. CASE bucket[k] = NoBucket
  BY <1>1, <1>2 DEF Level
<1>3. CASE bucket[k] # NoBucket
  <2> DEFINE found == bucket[k].tokens + RateOf(k).refill * (now - bucket[k].last)
  <2>1. found \in Int
    BY <1>1, <1>3 DEF TypeOK, Bucket
  <2>2. Level(k) = Least(RateOf(k).capacity, found)
    BY <1>3 DEF Level
  <2> HIDE DEF found
  <2>3. QED
    BY <1>1, <1>3, <2>1, <2>2 DEF Least
<1>4. QED
  BY <1>2, <1>3

\* A request that a bucket grants costs it what a request costs, any other nothing.
LEMMA LevelAfter ==
    ASSUME TypeOK, NEW c \in Client, Enforces(c), UNCHANGED <<now, route>>, NEW k \in Key
    PROVE  Level(k)' = IF k \in Asked(c) /\ Grants(k) THEN Level(k) - Cost ELSE Level(k)
<1>1. RateOf(k)' = RateOf(k) /\ now' = now /\ now \in Nat
  BY DEF RateOf, TypeOK
<1>2. CASE k \notin Asked(c)
  <2>1. bucket'[k] = bucket[k]
    BY <1>2 DEF Enforces
  <2>2. QED
    BY <1>1, <1>2, <2>1 DEF Level
<1>3. CASE k \in Asked(c)
  <2> DEFINE cap == RateOf(k).capacity
             ref == RateOf(k).refill
             left == Taken(k).tokens
  <2>1. bucket'[k] = Taken(k) /\ Taken(k) # NoBucket
    BY <1>3, TakenType, NoBucketAssumption DEF Enforces
  <2>2. Level(k)' = Least(cap, left + ref * (now - Taken(k).last))
    BY <1>1, <2>1 DEF Level
  <2>3. Taken(k).last = now /\ ref * (now - now) = 0
    BY <1>1, RateType DEF Taken, Rate
  <2>4. /\ cap \in Nat /\ Level(k) \in Int /\ Level(k) <= cap /\ Cost \in Nat
        /\ left = IF Grants(k) THEN Level(k) - Cost ELSE Level(k)
    BY RateType, LevelType, LevelTop, CostAssumption DEF Rate, Taken
  <2>5. left \in Int /\ left <= cap
    BY <2>4
  <2> HIDE DEF cap, ref, left
  <2>6. Level(k)' = left
    BY <2>2, <2>3, <2>4, <2>5 DEF Least
  <2>7. QED
    BY <1>3, <2>4, <2>6
<1>4. QED
  BY <1>2, <1>3

\* A tick fills a bucket up or refills it.
LEMMA LevelTick ==
    ASSUME TypeOK, now' = now + 1, UNCHANGED <<route, bucket>>, NEW k \in Key
    PROVE  \/ Level(k)' = RateOf(k).capacity
           \/ Level(k)' \in Int /\ Level(k)' >= Level(k) + RateOf(k).refill
<1> DEFINE cap == RateOf(k).capacity
           ref == RateOf(k).refill
<1>1. RateOf(k)' = RateOf(k) /\ cap \in Nat /\ ref \in Nat
  BY RateType DEF RateOf, Rate
<1>2. CASE bucket[k] = NoBucket
  BY <1>1, <1>2 DEF Level
<1>3. CASE bucket[k] # NoBucket
  <2> DEFINE b == bucket[k]
             old == ref * (now - b.last)
             new == ref * (now' - b.last)
  <2>1. b.last \in Int /\ b.tokens \in Int /\ now \in Nat
    BY <1>3 DEF TypeOK, Bucket
  <2>2. ref * ((now - b.last) + 1) = old + ref * 1
    BY <1>1, <2>1, Distributes
  <2>3. new = old + ref /\ old \in Int /\ new \in Int
    <3>1. (now - b.last) + 1 = now' - b.last
      BY <2>1
    <3>2. QED
      BY <1>1, <2>1, <2>2, <3>1
  <2>4. Level(k) = Least(cap, b.tokens + old) /\ Level(k)' = Least(cap, b.tokens + new)
    <3>1. Level(k) = Least(cap, b.tokens + old)
      BY <1>3 DEF Level
    <3>2. Level(k)' = Least(cap, b.tokens + new)
      BY <1>1, <1>3 DEF Level
    <3>3. QED
      BY <3>1, <3>2
  <2> HIDE DEF cap, ref, b, old, new
  <2>5. Level(k)' = cap \/ (Level(k)' \in Int /\ Level(k)' >= Level(k) + ref)
    BY <1>1, <2>1, <2>3, <2>4 DEF Least
  <2>6. QED
    BY <2>5 DEF cap, ref
<1>4. QED
  BY <1>2, <1>3

-----------------------------------------------------------------------------
(* The buckets hold what the agents need.                                  *)

Fed(ls, sl) ==
    route = "heartbeat" =>
        /\ Demand(ls, sl) <= Clients * Level(First)
        /\ \A a \in Client : Need(1, SecondRate, ls[a], sl[a]) <= Level(a)

Supplied == restarted # "agent" => ~throttled /\ Fed(loop, asleep)

\* The rates of the buckets of a heartbeat.
LEMMA HeartbeatRates ==
    /\ FirstRate \in Rate /\ SecondRate \in Rate
    /\ \A a \in Client : a \in Key /\ a # First
    /\ First \in Key
    /\ route = "heartbeat" => RateOf(First) = FirstRate
                              /\ \A a \in Client : RateOf(a) = SecondRate
BY LimitAssumption, KeyAssumption DEF FirstRate, SecondRate, Route, Key, RateOf

\* The agents' demand is an integer, and full buckets meet it.
LEMMA FullIsEnough ==
    ASSUME IsFiniteSet(Client), Carries(FirstRate, Clients),
           NEW ls \in [Client -> Loop], NEW sl \in [Client -> Nat]
    PROVE  /\ Demand(ls, sl) \in Int
           /\ Demand(ls, sl) <= Clients * FirstRate.capacity
<1> DEFINE need == [a \in Client |-> Need(Clients, FirstRate, ls[a], sl[a])]
           none == [a \in Client |-> 0]
           c == FirstRate.capacity
<1>1. Clients \in Nat /\ FirstRate \in Rate /\ c \in Nat
  BY HeartbeatRates, FS_CardinalityType DEF Clients, Rate
<1>2. ASSUME NEW a \in Client
      PROVE  none[a] \in Int /\ need[a] \in Int /\ need[a] <= none[a] + c
  <2>1. need[a] \in Nat /\ need[a] <= c
    BY <1>1, NeedFacts
  <2>2. need[a] \in Int /\ need[a] <= 0 + c
    <3> HIDE DEF need, c
    <3>1. QED
      BY <1>1, <2>1
  <2>3. QED
    BY <2>2
<1>3. Demand(ls, sl) \in Int
  <2>1. \A a \in Client : need[a] \in Int
    BY <1>2
  <2> HIDE DEF need
  <2>2. SumFunctionOnSet(need, Client) \in Int
    BY <2>1, SumType
  <2>3. QED
    BY <2>2 DEF need, Demand
<1>4. SumFunctionOnSet(need, Client) <= SumFunctionOnSet(none, Client) + c * Clients
  <2>1. \A a \in Client : none[a] \in Int /\ need[a] \in Int /\ need[a] <= none[a] + c
    BY <1>2
  <2>2. c \in Int
    BY <1>1
  <2> HIDE DEF need, none, c
  <2>3. QED
    BY <2>1, <2>2, SumRaised DEF Clients
<1>5. SumFunctionOnSet(none, Client) = 0
  BY SumOfZeros
<1>6. c * Clients = Clients * c /\ Clients * c \in Nat
  BY <1>1, RefillIsNat
<1>7. Demand(ls, sl) <= Clients * c
  <2> HIDE DEF none, c, need
  <2>1. 0 + c * Clients = Clients * c
    BY <1>6
  <2>2. QED
    BY <1>4, <1>5, <2>1 DEF need, Demand
<1>8. QED
  BY <1>3, <1>7

\* A tick raises the demand by no more than it refills for each agent.
LEMMA DemandGrowsSlowly ==
    ASSUME IsFiniteSet(Client), Carries(FirstRate, Clients),
           NEW ls \in [Client -> Loop], NEW sl \in [Client -> Nat],
           NEW tl \in [Client -> Nat],
           \A a \in Client : tl[a] = IF sl[a] = 0 THEN 0 ELSE sl[a] - 1
    PROVE  Demand(ls, tl) <= Demand(ls, sl) + Clients * FirstRate.refill
<1> DEFINE old == [a \in Client |-> Need(Clients, FirstRate, ls[a], sl[a])]
           new == [a \in Client |-> Need(Clients, FirstRate, ls[a], tl[a])]
           r == FirstRate.refill
<1>1. Clients \in Nat /\ FirstRate \in Rate /\ r \in Nat
  BY HeartbeatRates, FS_CardinalityType DEF Clients, Rate
<1>2. ASSUME NEW a \in Client
      PROVE  old[a] \in Int /\ new[a] \in Int /\ new[a] <= old[a] + r
  <2>1. old[a] \in Nat /\ new[a] \in Nat
    BY <1>1, NeedFacts
  <2>2. CASE sl[a] = 0
    <3>1. new[a] = old[a]
      BY <2>2
    <3> HIDE DEF new, old, r
    <3>2. QED
      BY <1>1, <2>1, <3>1
  <2>3. CASE sl[a] > 0
    <3>1. tl[a] = sl[a] - 1
      BY <2>3
    <3>2. new[a] <= old[a] + r
      BY <1>1, <2>3, <3>1, NeedFacts
    <3>3. QED
      BY <2>1, <3>2
  <2>4. QED
    BY <2>2, <2>3
<1> HIDE DEF old, new, r
<1>3. SumFunctionOnSet(new, Client) <= SumFunctionOnSet(old, Client) + r * Clients
  <2>1. \A a \in Client : old[a] \in Int /\ new[a] \in Int /\ new[a] <= old[a] + r
    BY <1>2
  <2>2. r \in Int
    BY <1>1
  <2>3. QED
    BY <2>1, <2>2, SumRaised DEF Clients
<1>4. r * Clients = Clients * r
  BY <1>1
<1>5. QED
  BY <1>3, <1>4 DEF old, new, r, Demand

\* What one agent's beat saves is saved of the demand.
LEMMA DemandIsPaid ==
    ASSUME IsFiniteSet(Client), Carries(FirstRate, Clients), TypeOK, NEW a \in Client,
           asleep[a] = 0,
           NEW l \in {Reset(Counted(a)), BackedOff(Counted(a))}, Sleeps(a, l)
    PROVE  /\ Demand(loop', asleep') + Clients * Cost <= Demand(loop, asleep)
           /\ Clients * Cost <= Demand(loop, asleep)
<1> DEFINE old == [b \in Client |-> Need(Clients, FirstRate, loop[b], asleep[b])]
           new == [b \in Client |-> Need(Clients, FirstRate, loop'[b], asleep'[b])]
           q == Clients * Cost
           so == SumFunctionOnSet(old, Client)
           sn == SumFunctionOnSet(new, Client)
<1>1. Clients \in Nat /\ FirstRate \in Rate /\ q \in Nat
  <2>1. Clients \in Nat
    BY FS_CardinalityType DEF Clients
  <2>2. QED
    BY <2>1, HeartbeatRates, CostAssumption, RefillIsNat
<1>2. loop' \in [Client -> Loop] /\ asleep' \in [Client -> Nat]
  BY LoopTypes, SleepsTypes
<1>3. ASSUME NEW b \in Client
      PROVE  old[b] \in Int /\ new[b] \in Int /\ new[b] >= 0
  <2>1. old[b] \in Nat /\ new[b] \in Nat
    BY <1>1, <1>2, NeedFacts DEF TypeOK
  <2> HIDE DEF old, new
  <2>2. QED
    BY <2>1
<1>4. new[a] + q <= old[a] /\ \A b \in Client \ {a} : new[b] = old[b]
  BY <1>1, BeatIsPaid
<1> HIDE DEF old, new, q, so, sn
<1>5. sn = so + new[a] - old[a]
  <2>1. \A b \in Client : old[b] \in Int /\ new[b] \in Int
    BY <1>3
  <2>2. \A b \in Client \ {a} : old[b] = new[b]
    BY <1>4
  <2>3. QED
    BY <2>1, <2>2, SumChange DEF so, sn
<1>6. so \in Int /\ sn \in Int /\ sn >= 0
  <2>1. \A b \in Client : old[b] \in Int /\ new[b] \in Int /\ new[b] >= 0
    BY <1>3
  <2>2. QED
    BY <2>1, SumType DEF so, sn
<1>7. sn + q <= so /\ q <= so
  BY <1>1, <1>3, <1>4, <1>5, <1>6
<1>8. QED
  BY <1>7 DEF q, so, sn, old, new, Demand

\* The agents start with full buckets.
LEMMA FullBucketsFeed ==
    ASSUME IsFiniteSet(Client), Carries(FirstRate, Clients), Carries(SecondRate, 1),
           NEW ls \in [Client -> Loop], NEW sl \in [Client -> Nat],
           \A k \in Key : Level(k) = RateOf(k).capacity
    PROVE  Fed(ls, sl)
<1> SUFFICES ASSUME route = "heartbeat"
             PROVE  /\ Demand(ls, sl) <= Clients * Level(First)
                    /\ \A a \in Client : Need(1, SecondRate, ls[a], sl[a]) <= Level(a)
  BY DEF Fed
<1>1. Level(First) = FirstRate.capacity
  BY HeartbeatRates
<1>2. ASSUME NEW a \in Client PROVE Level(a) = SecondRate.capacity
  BY HeartbeatRates
<1>3. \A a \in Client : Need(1, SecondRate, ls[a], sl[a]) <= SecondRate.capacity
  BY HeartbeatRates, NeedFacts
<1>4. QED
  BY <1>1, <1>2, <1>3, FullIsEnough

\* While time passes, the buckets refill at least as fast as the demand grows.
LEMMA TickFeeds ==
    ASSUME IsFiniteSet(Client), Carries(FirstRate, Clients), Carries(SecondRate, 1),
           TypeOK, TypeOK', Fed(loop, asleep), Tick
    PROVE  Fed(loop, asleep)'
<1> SUFFICES ASSUME route' = "heartbeat"
             PROVE  /\ Demand(loop', asleep') <= Clients * Level(First)'
                    /\ \A a \in Client :
                          Need(1, SecondRate, loop'[a], asleep'[a]) <= Level(a)'
  BY DEF Fed
<1>1. /\ route = "heartbeat" /\ route' = route /\ now' = now + 1 /\ bucket' = bucket
      /\ loop' = loop
      /\ asleep' = [a \in Client |-> IF asleep[a] = 0 THEN 0 ELSE asleep[a] - 1]
  BY DEF Tick, serverVars
<1>2. loop \in [Client -> Loop] /\ asleep \in [Client -> Nat] /\ asleep' \in [Client -> Nat]
  BY DEF TypeOK
<1>3. Clients \in Nat
  BY FS_CardinalityType DEF Clients
<1>4. /\ FirstRate.refill \in Nat /\ FirstRate.capacity \in Nat
      /\ SecondRate.refill \in Nat /\ SecondRate.capacity \in Nat
  BY HeartbeatRates DEF Rate
<1>5. Demand(loop', asleep') <= Clients * Level(First)'
  <2>1. CASE Level(First)' = FirstRate.capacity
    BY <1>1, <1>2, <2>1, FullIsEnough
  <2>2. CASE /\ Level(First)' \in Int
             /\ Level(First)' >= Level(First) + FirstRate.refill
    <3> DEFINE p == Level(First)
               r == FirstRate.refill
               d == Demand(loop, asleep)
    <3>1. p \in Int /\ r \in Int /\ d <= Clients * p
      BY <1>1, <1>4, LevelType, HeartbeatRates DEF Fed
    <3>2. Demand(loop', asleep') <= d + Clients * r
      BY <1>1, <1>2, DemandGrowsSlowly
    <3>3. Clients * (p + r) = Clients * p + Clients * r
      BY <1>3, <3>1, Distributes
    <3>4. Clients * (p + r) <= Clients * Level(First)'
      BY <1>3, <2>2, <3>1, ProductsGrow
    <3>5. /\ d \in Int /\ Demand(loop', asleep') \in Int
      BY <1>1, <1>2, FullIsEnough
    <3> DEFINE e == Demand(loop', asleep')
               cp == Clients * p
               cr == Clients * r
               cl == Clients * Level(First)'
    <3>6. cp \in Int /\ cr \in Int /\ cl \in Int
      BY <1>3, <2>2, <3>1
    <3>7. e <= d + cr /\ d <= cp /\ cp + cr <= cl /\ d \in Int /\ e \in Int
      BY <3>1, <3>2, <3>3, <3>4, <3>5
    <3> HIDE DEF p, r, d, e, cp, cr, cl
    <3>8. e <= cl
      BY <3>6, <3>7
    <3>9. QED
      BY <3>8 DEF e, cl
  <2>3. QED
    BY <1>1, <2>1, <2>2, LevelTick, HeartbeatRates
<1>6. ASSUME NEW a \in Client
      PROVE  Need(1, SecondRate, loop'[a], asleep'[a]) <= Level(a)'
  <2> DEFINE before == Need(1, SecondRate, loop[a], asleep[a])
             after == Need(1, SecondRate, loop'[a], asleep'[a])
             r == SecondRate.refill
  <2>1. before \in Nat /\ after \in Nat /\ after <= SecondRate.capacity
    BY <1>1, <1>2, HeartbeatRates, NeedFacts
  <2>2. after <= before + r
    <3>1. CASE asleep[a] = 0
      <4>1. after = before
        BY <1>1, <3>1
      <4> HIDE DEF before, after
      <4>2. QED
        BY <1>4, <2>1, <4>1
    <3>2. CASE asleep[a] > 0
      <4>1. asleep'[a] = asleep[a] - 1
        BY <1>1, <3>2
      <4>2. QED
        BY <1>1, <1>2, <3>2, <4>1, HeartbeatRates, NeedFacts
    <3>3. QED
      BY <1>2, <3>1, <3>2
  <2>3. before <= Level(a) /\ Level(a) \in Int
    BY <1>1, LevelType, HeartbeatRates DEF Fed
  <2>4. Level(a)' = SecondRate.capacity
        \/ (Level(a)' \in Int /\ Level(a)' >= Level(a) + r)
    BY <1>1, LevelTick, HeartbeatRates
  <2> HIDE DEF before, after, r
  <2>5. after <= Level(a)'
    BY <1>4, <2>1, <2>2, <2>3, <2>4 DEF r
  <2>6. QED
    BY <2>5 DEF after
<1>7. QED
  BY <1>5, <1>6

\* A due heartbeat passes, and leaves the others what they need.
LEMMA BeatIsFed ==
    ASSUME IsFiniteSet(Client), Carries(FirstRate, Clients), Carries(SecondRate, 1),
           TypeOK, Fed(loop, asleep), route = "heartbeat",
           NEW a \in Client, asleep[a] = 0, Enforces(a), UNCHANGED <<now, route>>,
           NEW l \in {Reset(Counted(a)), BackedOff(Counted(a))}, Sleeps(a, l)
    PROVE  Passes(a) /\ Fed(loop, asleep)'
<1>1. /\ a \in Key /\ First \in Key /\ a # First /\ SecondKey(a) = a
      /\ SecondRate \in Rate /\ FirstRate \in Rate /\ Cost \in Nat \ {0}
  BY HeartbeatRates, CostAssumption DEF SecondKey
<1> DEFINE d == Demand(loop, asleep)
           e == Demand(loop', asleep')
           p == Level(First)
           q == Clients * Cost
           cp == Clients * p
<1>2. Clients \in Nat /\ Clients # 0
  BY FS_CardinalityType, FS_EmptySet DEF Clients
<1>3. p \in Int /\ cp \in Int /\ q \in Nat
  BY <1>1, <1>2, LevelType, RefillIsNat
<1>4. e + q <= d /\ q <= d /\ d <= cp
  BY DemandIsPaid DEF Fed
<1>5. d \in Int /\ e \in Int
  <2>1. loop \in [Client -> Loop] /\ asleep \in [Client -> Nat]
    BY DEF TypeOK
  <2>2. loop' \in [Client -> Loop] /\ asleep' \in [Client -> Nat]
    BY LoopTypes, SleepsTypes
  <2>3. QED
    BY <2>1, <2>2, FullIsEnough
<1>6. Grants(First)
  <2> SUFFICES ASSUME ~Grants(First) PROVE FALSE
    OBVIOUS
  <2>1. p <= Cost - 1 /\ Cost - 1 \in Int
    BY <1>1, <1>3 DEF Grants
  <2>2. cp <= Clients * (Cost - 1)
    BY <1>2, <1>3, <2>1, ProductsGrow
  <2>3. Clients * ((Cost - 1) + 1) = Clients * (Cost - 1) + Clients * 1
    BY <1>2, <2>1, Distributes
  <2> DEFINE f == Clients * (Cost - 1)
  <2>4. q = f + Clients /\ f \in Int
    <3>1. (Cost - 1) + 1 = Cost
      BY <1>1
    <3>2. QED
      BY <1>2, <2>1, <2>3, <3>1
  <2> HIDE DEF f, cp, q, d, e, p
  <2>5. QED
    BY <1>2, <1>3, <1>4, <1>5, <2>2, <2>4 DEF f
<1>7. Need(1, SecondRate, loop'[a], asleep'[a]) + 1 * Cost
        <= Need(1, SecondRate, loop[a], asleep[a])
      /\ \A b \in Client \ {a} : loop'[b] = loop[b] /\ asleep'[b] = asleep[b]
  BY <1>1, BeatIsPaid
<1> DEFINE before == Need(1, SecondRate, loop[a], asleep[a])
           after == Need(1, SecondRate, loop'[a], asleep'[a])
<1>8. before \in Nat /\ after \in Nat
  BY <1>1, LoopTypes, SleepsTypes, NeedFacts DEF TypeOK
<1>9. after + Cost <= before /\ before <= Level(a) /\ Level(a) \in Int
  <2>1. 1 * Cost = Cost
    BY <1>1
  <2>2. before <= Level(a) /\ Level(a) \in Int
    BY <1>1, LevelType DEF Fed
  <2>3. QED
    BY <1>7, <2>1, <2>2
<1>10. Grants(a)
  <2> HIDE DEF before, after
  <2>1. QED
    BY <1>1, <1>8, <1>9 DEF Grants
<1>11. Passes(a) /\ Asked(a) = {First, a}
  BY <1>1, <1>6, <1>10 DEF Passes, Asked
<1>12. Level(First)' = p - Cost /\ Level(a)' = Level(a) - Cost
  BY <1>1, <1>6, <1>10, <1>11, LevelAfter
<1>13. \A b \in Client \ {a} : Level(b)' = Level(b)
  BY <1>11, LevelAfter, HeartbeatRates
<1>14. e <= Clients * Level(First)'
  <2>1. Clients * ((p - Cost) + Cost) = Clients * (p - Cost) + q
    BY <1>1, <1>2, <1>3, Distributes
  <2>2. (p - Cost) + Cost = p
    BY <1>1, <1>3
  <2> DEFINE f == Clients * (p - Cost)
  <2>3. cp = f + q /\ f \in Int
    BY <1>1, <1>2, <1>3, <2>1, <2>2
  <2> HIDE DEF d, e, cp, q, f
  <2>4. e <= f
    BY <1>3, <1>4, <1>5, <2>3
  <2>5. QED
    BY <1>12, <2>4 DEF f
<1>15. ASSUME NEW b \in Client
       PROVE  Need(1, SecondRate, loop'[b], asleep'[b]) <= Level(b)'
  <2>1. CASE b = a
    <3>1. after <= Level(a) - Cost
      <4> HIDE DEF before, after
      <4>1. QED
        BY <1>1, <1>8, <1>9
    <3>2. QED
      BY <1>12, <2>1, <3>1
  <2>2. CASE b # a
    <3>1. Need(1, SecondRate, loop[b], asleep[b]) <= Level(b)
      BY DEF Fed
    <3>2. QED
      BY <1>7, <1>13, <2>2, <3>1
  <2>3. QED
    BY <2>1, <2>2
<1>16. Fed(loop, asleep)'
  BY <1>14, <1>15 DEF Fed
<1>17. QED
  BY <1>11, <1>16

\* A heartbeat that does not arrive costs nothing, and was due all the same.
LEMMA LostBeatFeeds ==
    ASSUME IsFiniteSet(Client), Carries(FirstRate, Clients), Carries(SecondRate, 1),
           TypeOK, Fed(loop, asleep), NEW a \in Client, BeatLost(a)
    PROVE  Fed(loop, asleep)'
<1> DEFINE l == BackedOff(Counted(a))
<1>1. /\ asleep[a] = 0 /\ Sleeps(a, l) /\ l \in {Reset(Counted(a)), BackedOff(Counted(a))}
      /\ route = "heartbeat" /\ route' = route /\ now' = now /\ bucket' = bucket
  BY DEF BeatLost, serverVars
<1> HIDE DEF l
<1>2. \A k \in Key : Level(k)' = Level(k)
  BY <1>1 DEF Level, RateOf
<1>3. /\ Clients \in Nat /\ Cost \in Nat /\ Clients * Cost \in Nat
      /\ FirstRate \in Rate /\ SecondRate \in Rate
  BY FS_CardinalityType, HeartbeatRates, CostAssumption, RefillIsNat DEF Clients
<1>4. /\ loop \in [Client -> Loop] /\ asleep \in [Client -> Nat]
      /\ loop' \in [Client -> Loop] /\ asleep' \in [Client -> Nat]
  BY <1>1, LoopTypes, SleepsTypes DEF TypeOK
<1>5. Demand(loop', asleep') <= Clients * Level(First)'
  <2> DEFINE d == Demand(loop, asleep)
             e == Demand(loop', asleep')
             q == Clients * Cost
             cp == Clients * Level(First)
  <2>1. e + q <= d /\ d <= cp
    BY <1>1, DemandIsPaid DEF Fed
  <2>2. d \in Int /\ e \in Int
    BY <1>4, FullIsEnough
  <2>3. cp \in Int
    BY <1>3, LevelType, HeartbeatRates
  <2>4. Level(First)' = Level(First)
    BY <1>2, HeartbeatRates
  <2> HIDE DEF d, e, q, cp
  <2>5. e <= cp
    BY <1>3, <2>1, <2>2, <2>3 DEF q
  <2>6. QED
    BY <2>4, <2>5 DEF e, cp
<1>6. ASSUME NEW b \in Client
      PROVE  Need(1, SecondRate, loop'[b], asleep'[b]) <= Level(b)'
  <2> DEFINE before == Need(1, SecondRate, loop[b], asleep[b])
             after == Need(1, SecondRate, loop'[b], asleep'[b])
  <2>1. before \in Nat /\ after \in Nat
    BY <1>3, <1>4, NeedFacts
  <2>2. before <= Level(b) /\ Level(b)' = Level(b) /\ Level(b) \in Int
    BY <1>1, <1>2, LevelType, HeartbeatRates DEF Fed
  <2>3. after <= before
    <3>1. CASE b = a
      <4>1. after + 1 * Cost <= before
        BY <1>1, <1>3, <3>1, BeatIsPaid
      <4> HIDE DEF before, after
      <4>2. QED
        BY <1>3, <2>1, <4>1
    <3>2. CASE b # a
      <4>1. after = before
        BY <1>1, <1>3, <3>2, BeatIsPaid
      <4> HIDE DEF before, after
      <4>2. QED
        BY <2>1, <4>1
    <3>3. QED
      BY <3>1, <3>2
  <2> HIDE DEF before, after
  <2>4. after <= Level(b)'
    BY <2>1, <2>2, <2>3
  <2>5. QED
    BY <2>4 DEF after
<1>7. QED
  BY <1>5, <1>6 DEF Fed

\* Agents that start together behind one address and keep the loop's cadence,
\* failures and fast start included, are never throttled: however many they are, if
\* the address's bucket carries them all and an agent's own bucket carries that one.
THEOREM CadenceServed ==
    ASSUME IsFiniteSet(Client), Carries(FirstRate, Clients), Carries(SecondRate, 1)
    PROVE  Spec => []CadenceNotThrottled
<1>1. ASSUME Init PROVE Supplied
  <2>1. \A k \in Key : Level(k) = RateOf(k).capacity
    BY <1>1 DEF Init, Level
  <2>2. loop \in [Client -> Loop] /\ asleep \in [Client -> Nat] /\ ~throttled
    BY <1>1, CadenceAssumption DEF Init, NewLoop, Loop
  <2>3. QED
    BY <2>1, <2>2, FullBucketsFeed DEF Supplied
<1>2. TypeOK /\ TypeOK' /\ Supplied /\ [Next]_vars => Supplied'
  <2> SUFFICES ASSUME TypeOK, TypeOK', Supplied, [Next]_vars, restarted' # "agent"
               PROVE  ~throttled' /\ Fed(loop, asleep)'
    BY DEF Supplied
  <2>1. CASE Tick
    <3>1. throttled' = throttled /\ restarted' = restarted
      BY <2>1 DEF Tick
    <3>2. QED
      BY <2>1, <3>1, TickFeeds DEF Supplied
  <2>2. CASE ServerRestarts
    <3>1. /\ restarted = "no" /\ throttled' = throttled /\ route' = route
          /\ \A k \in Key : bucket'[k] = NoBucket
          /\ loop' = loop /\ asleep' = asleep
      BY <2>2 DEF ServerRestarts
    <3>2. \A k \in Key : Level(k)' = RateOf(k)'.capacity
      BY <3>1 DEF Level
    <3>3. loop' \in [Client -> Loop] /\ asleep' \in [Client -> Nat]
      BY DEF TypeOK
    <3>4. ASSUME route' = "heartbeat"
          PROVE  /\ Demand(loop', asleep') <= Clients * Level(First)'
                 /\ \A a \in Client :
                       Need(1, SecondRate, loop'[a], asleep'[a]) <= Level(a)'
      <4>1. RateOf(First)' = FirstRate /\ \A a \in Client : RateOf(a)' = SecondRate
        BY <3>1, <3>4, HeartbeatRates DEF RateOf
      <4>2. /\ Level(First)' = FirstRate.capacity
            /\ \A a \in Client : Level(a)' = SecondRate.capacity
        BY <3>2, <4>1, HeartbeatRates
      <4>3. QED
        BY <3>3, <4>2, FullIsEnough, NeedFacts, HeartbeatRates
    <3>5. QED
      BY <3>1, <3>4 DEF Fed, Supplied
  <2>3. ASSUME NEW c \in Client, Calls(c)
        PROVE  ~throttled' /\ Fed(loop, asleep)'
    BY <2>3 DEF Calls, agentVars, Supplied, Fed
  <2>4. ASSUME NEW a \in Client, BeatServed(a)
        PROVE  ~throttled' /\ Fed(loop, asleep)'
    <3>1. /\ restarted' = restarted /\ throttled' = throttled
          /\ route = "heartbeat" /\ asleep[a] = 0 /\ Enforces(a)
          /\ UNCHANGED <<now, route>>
          /\ Sleeps(a, Reset(Counted(a)))
      BY <2>4 DEF BeatServed
    <3>2. ~throttled /\ Fed(loop, asleep)
      BY <3>1 DEF Supplied
    <3>3. QED
      BY <3>1, <3>2, BeatIsFed
  <2>5. ASSUME NEW a \in Client, BeatFails(a)
        PROVE  ~throttled' /\ Fed(loop, asleep)'
    <3>1. /\ restarted' = restarted /\ throttled' = (throttled \/ ~Passes(a))
          /\ route = "heartbeat" /\ asleep[a] = 0 /\ Enforces(a)
          /\ UNCHANGED <<now, route>>
          /\ Sleeps(a, BackedOff(Counted(a)))
      BY <2>5 DEF BeatFails
    <3>2. ~throttled /\ Fed(loop, asleep)
      BY <3>1 DEF Supplied
    <3>3. Passes(a) /\ Fed(loop, asleep)'
      BY <3>1, <3>2, BeatIsFed
    <3>4. QED
      BY <3>1, <3>2, <3>3
  <2>6. ASSUME NEW a \in Client, BeatLost(a)
        PROVE  ~throttled' /\ Fed(loop, asleep)'
    <3>1. restarted' = restarted /\ throttled' = throttled
      BY <2>6 DEF BeatLost
    <3>2. QED
      BY <2>6, <3>1, LostBeatFeeds DEF Supplied
  <2>7. ASSUME NEW a \in Client, AgentRestarts(a) PROVE FALSE
    BY <2>7 DEF AgentRestarts
  <2>8. CASE UNCHANGED vars
    BY <2>8 DEF vars, serverVars, agentVars, Supplied, Fed, Level, RateOf
  <2>9. QED
    BY <2>1, <2>2, <2>3, <2>4, <2>5, <2>6, <2>7, <2>8 DEF Next
<1>3. Supplied => CadenceNotThrottled
  BY DEF Supplied, CadenceNotThrottled
<1>4. QED
  BY <1>1, <1>2, <1>3, TypeCorrect, PTL DEF Spec

-----------------------------------------------------------------------------
(* What an upload does to the limiter is a step of the limiter or none.    *)

\* An enrolment begins, commits or fails.
EnrolSteps ==
    EnrolBegins \/ \E began \in enrolling : EnrolCommits(began) \/ EnrolFails(began)

\* It touches the token and nothing else.
LEMMA EnrolsTouchToken == EnrolSteps => UNCHANGED <<vars, driver, request, storage>>
BY DEF EnrolSteps, EnrolBegins, EnrolCommits, EnrolFails

\* Uploads behave as the limiter allows.
LEMMA UploadStepsLimiter == UploadInit /\ [][UploadNext]_allVars => Spec
<1>1. UploadInit => Init
  BY DEF UploadInit
<1>2. [UploadNext]_allVars => [Next]_vars
  <2> SUFFICES ASSUME [UploadNext]_allVars PROVE [Next]_vars
    OBVIOUS
  <2>1. ASSUME NEW u \in Upload, NEW c \in Client, NEW known \in BOOLEAN,
               Begins(c, u, known)
        PROVE  Next
    BY <2>1 DEF Begins, Next
  <2>2. ASSUME NEW u \in Upload,
               \/ Ends(u) \/ Stores(u) \/ StoresUnknowingly(u)
               \/ Commits(u) \/ CommitFails(u)
        PROVE  UNCHANGED vars
    BY <2>2 DEF Ends, Stores, StoresUnknowingly, Commits, CommitFails
  <2>3. CASE EnrolSteps
    BY <2>3, EnrolsTouchToken
  <2>4. CASE Restarts
    BY <2>4 DEF Restarts, Next
  <2>5. CASE Tick \/ Next
    BY <2>5 DEF Next
  <2>6. CASE UNCHANGED allVars
    BY <2>6 DEF allVars
  <2>7. QED
    BY <2>1, <2>2, <2>3, <2>4, <2>5, <2>6 DEF UploadNext, EnrolSteps
<1>3. QED
  BY <1>1, <1>2, PTL DEF Spec

\* The uploads implement the rate limiter: what is proved of it holds of them.
THEOREM UploadsUseLimiter == UploadSpec => Spec
BY UploadStepsLimiter DEF UploadSpec

-----------------------------------------------------------------------------
(* Types.                                                                  *)

UploadTypeOK ==
    /\ driver \in {"kept", "tmp"}
    /\ request \in [Upload -> {"none", "reading", "stored", "done"}]
    /\ objects \subseteq Upload /\ local \subseteq Upload
    /\ rows \subseteq Upload /\ written \subseteq Upload
    /\ consumed \in Nat \cup {NotYet} /\ enrolling \subseteq Nat

\* The variables of the uploads always hold values of their types.
THEOREM UploadTypeCorrect == UploadSpec => [](TypeOK /\ UploadTypeOK)
<1>1. UploadInit => UploadTypeOK
  BY DEF UploadInit, UploadTypeOK
<1>2. TypeOK /\ UploadTypeOK /\ [UploadNext]_allVars => UploadTypeOK'
  <2> SUFFICES ASSUME TypeOK, UploadTypeOK, [UploadNext]_allVars PROVE UploadTypeOK'
    OBVIOUS
  <2> USE DEF UploadTypeOK
  <2>1. ASSUME NEW u \in Upload, NEW c \in Client, NEW known \in BOOLEAN,
               Begins(c, u, known)
        PROVE  UploadTypeOK'
    BY <2>1 DEF Begins, Becomes, storage, token
  <2>2. ASSUME NEW u \in Upload, Ends(u) PROVE UploadTypeOK'
    BY <2>2 DEF Ends, Becomes, storage, token
  <2>3. ASSUME NEW u \in Upload, Stores(u) \/ StoresUnknowingly(u) PROVE UploadTypeOK'
    BY <2>3 DEF Stores, StoresUnknowingly, Put, Becomes, token
  <2>4. ASSUME NEW u \in Upload, Commits(u) \/ CommitFails(u) PROVE UploadTypeOK'
    BY <2>4 DEF Commits, CommitFails, Becomes, storage, token
  <2>5. CASE EnrolSteps
    <3>1. now \in Nat
      BY DEF TypeOK
    <3>2. consumed' \in Nat \cup {NotYet} /\ enrolling' \subseteq Nat
      BY <2>5, <3>1 DEF EnrolSteps, EnrolBegins, EnrolCommits, EnrolFails
    <3>3. QED
      BY <2>5, <3>2, EnrolsTouchToken DEF storage
  <2>6. CASE Restarts
    BY <2>6 DEF Restarts
  <2>7. CASE UNCHANGED bundleVars
    BY <2>7 DEF bundleVars, storage, token
  <2>8. QED
    BY <2>1, <2>2, <2>3, <2>4, <2>5, <2>6, <2>7 DEF UploadNext, EnrolSteps, allVars
<1>3. QED
  BY <1>1, <1>2, UploadsUseLimiter, TypeCorrect, PTL DEF UploadSpec

-----------------------------------------------------------------------------
(* Rows and objects.  A request that is about to write its row has stored  *)
(* its object; only a host's /tmp is ever lost.                            *)

HasObject ==
    /\ rows \subseteq objects \cup local
    /\ \A u \in Upload : request[u] = "stored" => u \in objects \cup local

\* Whatever fails where, a row has its object, unless that was on a host's /tmp.
THEOREM RowsHaveObjects == UploadSpec => []NoGhostRows
<1>1. UploadInit => HasObject
  BY DEF UploadInit, HasObject
<1>2. UploadTypeOK /\ HasObject /\ [UploadNext]_allVars => HasObject'
  <2> SUFFICES ASSUME UploadTypeOK, HasObject, [UploadNext]_allVars PROVE HasObject'
    OBVIOUS
  <2> USE DEF HasObject, UploadTypeOK
  <2>1. ASSUME NEW u \in Upload, NEW c \in Client, NEW known \in BOOLEAN,
               Begins(c, u, known)
        PROVE  HasObject'
    BY <2>1 DEF Begins, Becomes, storage, token
  <2>2. ASSUME NEW u \in Upload, Ends(u) PROVE HasObject'
    BY <2>2 DEF Ends, Becomes, storage, token
  <2>3. ASSUME NEW u \in Upload, Stores(u) \/ StoresUnknowingly(u) PROVE HasObject'
    BY <2>3 DEF Stores, StoresUnknowingly, Put, Becomes, token
  <2>4. ASSUME NEW u \in Upload, Commits(u) PROVE HasObject'
    BY <2>4 DEF Commits, Becomes, token
  <2>5. ASSUME NEW u \in Upload, CommitFails(u) PROVE HasObject'
    BY <2>5 DEF CommitFails, Becomes, storage, token
  <2>6. CASE EnrolSteps
    BY <2>6, EnrolsTouchToken DEF storage
  <2>7. CASE Restarts
    <3>1. local' = local /\ rows' = rows /\ objects \cup local = objects' \cup local'
      BY <2>7 DEF Restarts
    <3>2. \A u \in Upload : request'[u] \in {"none", "done"}
      BY <2>7 DEF Restarts
    <3>3. QED
      BY <3>1, <3>2
  <2>8. CASE UNCHANGED bundleVars
    BY <2>8 DEF bundleVars, storage, token
  <2>9. QED
    BY <2>1, <2>2, <2>3, <2>4, <2>5, <2>6, <2>7, <2>8 DEF UploadNext, EnrolSteps, allVars
<1>3. HasObject => NoGhostRows
  BY DEF HasObject, NoGhostRows
<1>4. QED
  BY <1>1, <1>2, <1>3, UploadTypeCorrect, PTL DEF UploadSpec

-----------------------------------------------------------------------------
(* Storage.  Every object of this process, and every upload still being    *)
(* read, stands for a request the hourly bucket let pass.                  *)

Reading == {u \in Upload : request[u] = "reading"}
Charged == written \cup Reading

ChargedToHour ==
    /\ IsFiniteSet(Charged)
    /\ Cardinality(Charged) <= admitted[Hour]
    /\ route # "bundle" => Charged = {}

\* An upload that begins was let pass by the hourly bucket.
LEMMA BeginsIsCharged ==
    ASSUME TypeOK, UploadTypeOK, ChargedToHour,
           NEW u \in Upload, NEW c \in Client, NEW known \in BOOLEAN,
           Begins(c, u, known)
    PROVE  ChargedToHour'
<1>1. /\ route = "bundle" /\ route' = route /\ Enforces(c)
      /\ written' = written
  BY DEF Begins, Calls, storage
<1>2. SecondKey(c) = Hour
  BY <1>1 DEF SecondKey
<1>3. admitted[Hour] \in Nat /\ admitted'[Hour] \in Nat
  BY <1>1, EnforcesTypes DEF TypeOK, Key
<1>4. admitted[Hour] <= admitted'[Hour]
  <2>1. Hour \in Key
    BY DEF Key
  <2>2. admitted'[Hour] = IF Hour \in Asked(c) /\ Grants(Hour)
                          THEN admitted[Hour] + 1 ELSE admitted[Hour]
    BY <1>1, <2>1 DEF Enforces
  <2>3. QED
    BY <1>3, <2>2
<1>5. CASE request' = request
  <2>1. Charged' = Charged
    BY <1>1, <1>5 DEF Charged, Reading
  <2>2. Cardinality(Charged) \in Nat
    BY FS_CardinalityType DEF ChargedToHour
  <2>3. QED
    BY <1>1, <1>3, <1>4, <2>1, <2>2 DEF ChargedToHour
<1>6. CASE Passes(c) /\ Becomes(u, "reading")
  <2>1. admitted'[Hour] = admitted[Hour] + 1
    <3>1. Hour \in Asked(c) /\ Grants(Hour) /\ Hour \in Key
      BY <1>2, <1>6 DEF Passes, Asked, Key
    <3>2. QED
      BY <1>1, <3>1 DEF Enforces
  <2>2. Charged' = Charged \cup {u}
    <3>1. Reading' = Reading \cup {u}
      BY <1>6 DEF Becomes, Reading, UploadTypeOK
    <3>2. QED
      BY <1>1, <3>1 DEF Charged
  <2>3. /\ IsFiniteSet(Charged \cup {u})
        /\ Cardinality(Charged \cup {u}) <= Cardinality(Charged) + 1
        /\ Cardinality(Charged) \in Nat /\ Cardinality(Charged \cup {u}) \in Nat
    <3>1. IsFiniteSet(Charged) /\ Cardinality(Charged) \in Nat
      BY FS_CardinalityType DEF ChargedToHour
    <3>2. IsFiniteSet(Charged \cup {u})
          /\ \/ Cardinality(Charged \cup {u}) = Cardinality(Charged)
             \/ Cardinality(Charged \cup {u}) = Cardinality(Charged) + 1
      BY <3>1, FS_AddElement
    <3>3. QED
      BY <3>1, <3>2
  <2>4. QED
    BY <1>1, <1>3, <2>1, <2>2, <2>3 DEF ChargedToHour
<1>7. QED
  BY <1>5, <1>6 DEF Begins

\* A step that charges nothing new to the hour keeps the account.
LEMMA FewerAreCharged ==
    ASSUME ChargedToHour, TypeOK, Charged' \subseteq Charged,
           admitted[Hour] <= admitted'[Hour], admitted'[Hour] \in Nat,
           route' = route
    PROVE  ChargedToHour'
<1>1. IsFiniteSet(Charged) /\ Cardinality(Charged) \in Nat
  BY FS_CardinalityType DEF ChargedToHour
<1>2. IsFiniteSet(Charged') /\ Cardinality(Charged') <= Cardinality(Charged)
  BY <1>1, FS_Subset
<1>3. Cardinality(Charged') \in Nat
  BY <1>2, FS_CardinalityType
<1>4. admitted[Hour] \in Nat
  BY DEF TypeOK, Key
<1>5. Cardinality(Charged) <= admitted[Hour]
  BY DEF ChargedToHour
<1>6. IsFiniteSet(Charged)' /\ Cardinality(Charged)' <= admitted'[Hour]
  BY <1>1, <1>2, <1>3, <1>4, <1>5
<1>7. (route # "bundle" => Charged = {})'
  BY DEF ChargedToHour
<1>8. QED
  BY <1>6, <1>7 DEF ChargedToHour

\* It holds whatever uploads, fails and restarts.
LEMMA ChargedInvariant == UploadSpec => []ChargedToHour
<1>1. ASSUME UploadInit PROVE ChargedToHour
  <2>1. Charged = {}
    BY <1>1 DEF UploadInit, Charged, Reading
  <2>2. admitted[Hour] = 0 /\ written = {}
    BY <1>1 DEF UploadInit, Init, Key
  <2>3. QED
    BY <2>1, <2>2, FS_EmptySet DEF ChargedToHour
<1>2. TypeOK /\ TypeOK' /\ UploadTypeOK /\ ChargedToHour /\ [UploadNext]_allVars
        => ChargedToHour'
  <2> SUFFICES ASSUME TypeOK, TypeOK', UploadTypeOK, ChargedToHour,
                      [UploadNext]_allVars
               PROVE  ChargedToHour'
    OBVIOUS
  <2>0. admitted[Hour] \in Nat /\ admitted'[Hour] \in Nat
    BY DEF TypeOK, Key
  <2>1. ASSUME NEW u \in Upload, NEW c \in Client, NEW known \in BOOLEAN,
               Begins(c, u, known)
        PROVE  ChargedToHour'
    BY <2>1, BeginsIsCharged
  <2>2. ASSUME NEW u \in Upload, Ends(u) PROVE ChargedToHour'
    <3>1. Charged' \subseteq Charged
      BY <2>2 DEF Ends, Becomes, Charged, Reading, storage, UploadTypeOK
    <3>2. admitted' = admitted /\ route' = route
      BY <2>2 DEF Ends, vars, serverVars
    <3>3. QED
      BY <2>0, <3>1, <3>2, FewerAreCharged
  <2>3. ASSUME NEW u \in Upload, Stores(u) \/ StoresUnknowingly(u) PROVE ChargedToHour'
    <3>1. Charged' \subseteq Charged
      BY <2>3 DEF Stores, StoresUnknowingly, Put, Becomes, Charged, Reading, UploadTypeOK
    <3>2. admitted' = admitted /\ route' = route
      BY <2>3 DEF Stores, StoresUnknowingly, vars, serverVars
    <3>3. QED
      BY <2>0, <3>1, <3>2, FewerAreCharged
  <2>4. ASSUME NEW u \in Upload, Commits(u) \/ CommitFails(u) PROVE ChargedToHour'
    <3>1. Charged' \subseteq Charged
      BY <2>4 DEF Commits, CommitFails, Becomes, Charged, Reading, storage, UploadTypeOK
    <3>2. admitted' = admitted /\ route' = route
      BY <2>4 DEF Commits, CommitFails, vars, serverVars
    <3>3. QED
      BY <2>0, <3>1, <3>2, FewerAreCharged
  <2>5. CASE EnrolSteps
    BY <2>5, EnrolsTouchToken DEF vars, serverVars, storage, ChargedToHour, Charged, Reading
  <2>6. CASE Restarts
    <3>1. written' = {} /\ \A u \in Upload : request'[u] \in {"none", "done"}
      BY <2>6 DEF Restarts, UploadTypeOK
    <3>2. Charged' = {}
      BY <3>1 DEF Charged, Reading
    <3>3. IsFiniteSet(Charged)' /\ Cardinality(Charged)' = 0
      BY <3>2, FS_EmptySet
    <3>4. QED
      BY <2>0, <3>2, <3>3 DEF ChargedToHour
  <2>7. CASE Tick /\ UNCHANGED bundleVars
    BY <2>7 DEF Tick, serverVars, bundleVars, storage, ChargedToHour, Charged, Reading
  <2>8. CASE route # "bundle" /\ Next /\ UNCHANGED bundleVars
    <3>1. Charged = {} /\ Charged' = Charged
      BY <2>8 DEF bundleVars, storage, ChargedToHour, Charged, Reading
    <3>2. IsFiniteSet(Charged)' /\ Cardinality(Charged)' = 0
      BY <3>1, FS_EmptySet
    <3>3. QED
      BY <2>0, <3>1, <3>2 DEF ChargedToHour
  <2>9. CASE UNCHANGED allVars
    BY <2>9 DEF allVars, vars, serverVars, bundleVars, storage, ChargedToHour, Charged,
                Reading
  <2>10. QED
    BY <2>1, <2>2, <2>3, <2>4, <2>5, <2>6, <2>7, <2>8, <2>9 DEF UploadNext, EnrolSteps
<1>3. QED
  BY <1>1, <1>2, UploadTypeCorrect, PTL DEF UploadSpec

\* However uploads fail and are tried again, one address cannot put more objects
\* in storage than its hourly bucket has granted since this process runs.
THEOREM StorageIsBounded == UploadSpec => []StorageBounded
<1>1. ASSUME TypeOK, Books, UploadTypeOK, ChargedToHour PROVE StorageBounded
  <2> DEFINE rate == Limit["bundle"].second
             granted == rate.capacity + rate.refill * (now - since[Hour])
  <2>1. Hour \in Key /\ Hour # First /\ admitted[Hour] \in Nat
    BY <1>1, KeyAssumption DEF TypeOK, Key
  <2>2. rate \in Rate /\ now \in Nat /\ since[Hour] \in Nat
    BY <1>1, <2>1, LimitAssumption DEF Route, TypeOK
  <2>3. rate.capacity \in Nat /\ rate.refill \in Nat
    BY <2>2 DEF Rate
  <2>4. since[Hour] <= now
    BY <1>1, <2>1 DEF Books, Balanced
  <2>5. rate.refill * (now - since[Hour]) \in Nat
    BY <2>2, <2>3, <2>4, RefillIsNat
  <2>6. granted \in Nat
    BY <2>3, <2>5
  <2>7. CASE route = "bundle"
    <3>1. admitted[Hour] * Cost <= granted
      <4>1. RateOf(Hour) = rate
        BY <2>1, <2>7 DEF RateOf
      <4>2. QED
        BY <1>1, <2>1, <4>1, BooksBound DEF AdmissionBound
    <3>2. Cardinality(written) \in Nat /\ Cardinality(written) <= admitted[Hour]
      <4>1. IsFiniteSet(Charged) /\ Cardinality(Charged) \in Nat
        BY <1>1, FS_CardinalityType DEF ChargedToHour
      <4>2. IsFiniteSet(written) /\ Cardinality(written) <= Cardinality(Charged)
        BY <4>1, FS_Subset DEF Charged
      <4>3. Cardinality(written) \in Nat
        BY <4>2, FS_CardinalityType
      <4>4. QED
        BY <1>1, <2>1, <4>1, <4>2, <4>3 DEF ChargedToHour
    <3>3. PICK d \in Nat : admitted[Hour] = Cardinality(written) + d
      <4>1. (admitted[Hour] - Cardinality(written)) \in Nat
        BY <2>1, <3>2
      <4>2. QED
        BY <2>1, <3>2, <4>1
    <3>4. Cost * admitted[Hour] = Cost * Cardinality(written) + Cost * d
      BY <3>2, <3>3, CostAssumption, Distributes
    <3>5. Cost * d \in Nat /\ Cost * Cardinality(written) \in Nat
      BY <3>2, <3>3, CostAssumption, RefillIsNat
    <3>6. Cost * Cardinality(written) = Cardinality(written) * Cost
          /\ Cost * admitted[Hour] = admitted[Hour] * Cost
      BY <2>1, <3>2, CostAssumption
    <3>7. Cardinality(written) * Cost <= granted
      <4> HIDE DEF granted
      <4>1. QED
        BY <2>6, <3>1, <3>4, <3>5, <3>6
    <3>8. QED
      BY <3>7 DEF StorageBounded
  <2>8. CASE route # "bundle"
    <3>1. written = {}
      BY <1>1, <2>8 DEF ChargedToHour, Charged
    <3>2. Cardinality(written) = 0 /\ 0 * Cost = 0
      BY <3>1, FS_EmptySet, CostAssumption
    <3>3. Cardinality(written) * Cost = 0
      BY <3>2
    <3>4. QED
      BY <2>6, <3>3 DEF StorageBounded
  <2>9. QED
    BY <2>7, <2>8
<1>2. UploadSpec => [](TypeOK /\ Books)
  BY UploadsUseLimiter, BooksInvariant, PTL
<1>3. QED
  BY <1>1, <1>2, UploadTypeCorrect, ChargedInvariant, PTL

-----------------------------------------------------------------------------
(* The install token.                                                      *)

\* An enrolment under way began before the token expired.
BegunInTime == \A began \in enrolling : began < TokenTTL

\* It does, whatever else happens.
LEMMA EnrolmentsBeginInTime == UploadSpec => []BegunInTime
<1>1. UploadInit => BegunInTime
  BY DEF UploadInit, BegunInTime
<1>2. BegunInTime /\ [UploadNext]_allVars => BegunInTime'
  <2> SUFFICES ASSUME BegunInTime, [UploadNext]_allVars PROVE BegunInTime'
    OBVIOUS
  <2>1. CASE EnrolSteps
    BY <2>1 DEF EnrolSteps, EnrolBegins, EnrolCommits, EnrolFails, BegunInTime
  <2>2. CASE enrolling' \in {enrolling, {}}
    BY <2>2 DEF BegunInTime
  <2>3. ASSUME NEW u \in Upload,
               \/ \E c \in Client, known \in BOOLEAN : Begins(c, u, known)
               \/ Ends(u) \/ Stores(u) \/ StoresUnknowingly(u)
               \/ Commits(u) \/ CommitFails(u)
        PROVE  enrolling' = enrolling
    BY <2>3 DEF Begins, Ends, Stores, StoresUnknowingly, Commits, CommitFails, token
  <2>4. CASE Restarts \/ UNCHANGED bundleVars
    BY <2>2, <2>4 DEF Restarts, bundleVars, token
  <2>5. QED
    BY <2>1, <2>2, <2>3, <2>4 DEF UploadNext, EnrolSteps, allVars
<1>3. QED
  BY <1>1, <1>2, PTL DEF UploadSpec

\* A token that does not authenticate an upload any more does so again only when
\* an enrolment that began before it expired commits after that, and no longer
\* than AfterUse past its expiry; a redeemed one never again.
THEOREM DeadTokensStayDead == UploadSpec => DeadTokenStaysDead
<1>1. TypeOK /\ UploadTypeOK /\ BegunInTime /\ [UploadNext]_allVars
        => [~TokenAuthenticates /\ TokenAuthenticates' =>
              consumed = NotYet /\ consumed' \in enrolling /\ now < TokenTTL + AfterUse]_allVars
  <2> SUFFICES ASSUME TypeOK, UploadTypeOK, BegunInTime, [UploadNext]_allVars,
                      ~TokenAuthenticates, TokenAuthenticates'
               PROVE  consumed = NotYet /\ consumed' \in enrolling /\ now < TokenTTL + AfterUse
    OBVIOUS
  <2>0. now \in Nat /\ TokenTTL \in Nat /\ AfterUse \in Nat /\ NotYet \notin Nat
        /\ consumed \in Nat \cup {NotYet} /\ enrolling \subseteq Nat
    BY TokenAssumption DEF TypeOK, UploadTypeOK
  <2>1. ASSUME NEW began \in enrolling, EnrolCommits(began)
        PROVE  consumed = NotYet /\ consumed' \in enrolling /\ now < TokenTTL + AfterUse
    <3>1. consumed = NotYet /\ consumed' = began /\ now' = now
      BY <2>1 DEF EnrolCommits, vars
    <3>2. began \in Nat /\ began < TokenTTL
      BY <2>0 DEF BegunInTime
    <3>3. now - began <= AfterUse
      BY <2>0, <3>1, <3>2 DEF TokenAuthenticates
    <3>4. QED
      BY <2>0, <3>1, <3>2, <3>3
  <2>2. CASE consumed' = consumed /\ (now' = now \/ now' = now + 1)
    BY <2>0, <2>2 DEF TokenAuthenticates
  <2>3. CASE EnrolBegins \/ \E began \in enrolling : EnrolFails(began)
    BY <2>2, <2>3 DEF EnrolBegins, EnrolFails, vars
  <2>4. ASSUME NEW u \in Upload, NEW c \in Client, NEW known \in BOOLEAN,
               Begins(c, u, known)
        PROVE  consumed' = consumed /\ now' = now
    BY <2>4 DEF Begins, Calls, token
  <2>5. ASSUME NEW u \in Upload,
               \/ Ends(u) \/ Stores(u) \/ StoresUnknowingly(u)
               \/ Commits(u) \/ CommitFails(u)
        PROVE  consumed' = consumed /\ now' = now
    BY <2>5 DEF Ends, Stores, StoresUnknowingly, Commits, CommitFails, vars, token
  <2>6. CASE Restarts
    BY <2>2, <2>6 DEF Restarts, ServerRestarts
  <2>7. CASE Tick /\ UNCHANGED bundleVars
    BY <2>2, <2>7 DEF Tick, bundleVars, token
  <2>8. CASE Next /\ UNCHANGED bundleVars
    BY <2>2, <2>8 DEF Next, Tick, ServerRestarts, Calls, BeatServed, BeatFails, BeatLost,
                      AgentRestarts, bundleVars, token
  <2>9. CASE UNCHANGED allVars
    BY <2>2, <2>9 DEF allVars, vars, bundleVars, token
  <2>10. QED
    BY <2>1, <2>2, <2>3, <2>4, <2>5, <2>6, <2>7, <2>8, <2>9 DEF UploadNext
<1>2. QED
  BY <1>1, UploadTypeCorrect, EnrolmentsBeginInTime, PTL DEF UploadSpec, DeadTokenStaysDead
=============================================================================
