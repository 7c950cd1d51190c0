-------------------------- MODULE SigningKeys_proofs --------------------------
(***************************************************************************)
(* Proofs about the rotation of the signing key, for every number of API   *)
(* processes and agents, every lifetime of licences and caches, and a      *)
(* clock without a bound.                                                  *)
(***************************************************************************)
EXTENDS SigningKeys, TLAPS

-----------------------------------------------------------------------------
(* The configurations, one by one.                                         *)

\* What the four steps of the runbook configure.
LEMMA Configurations ==
    /\ Len(Rotation) = 4
    /\ Rotation[1] = [active |-> OldKey, previous |-> NoKey]
    /\ Rotation[2] = [active |-> OldKey, previous |-> OldKey]
    /\ Rotation[3] = [active |-> NewKey, previous |-> OldKey]
    /\ Rotation[4] = [active |-> NewKey, previous |-> NoKey]
BY DEF Rotation

\* Each of them is a configuration.
LEMMA ConfigurationTypes == \A s \in 1..4 : Rotation[s] \in Config
BY Configurations DEF Config, Key

\* The runbook's last wait is the life of a licence.
LEMMA KeptTypes == Kept[3] = LicenseTTL
BY DEF Kept

-----------------------------------------------------------------------------
(* Types.                                                                  *)

\* What a process publishes, and what it reads to do so, has its type.
LEMMA PublishTypes ==
    ASSUME TypeOK, NEW w \in Worker, Publish(w)
    PROVE  /\ prevKey' \in [Worker -> Key \cup {NoKey, Unloaded}]
           /\ unread' \in BOOLEAN
           /\ edge' \in KeySet
<1>1. PICK prev \in PreviousSeen(w) :
        /\ LoadPrevious(w, prev)
        /\ edge' = [keys |-> PublishedKeys(w, prev), expires |-> now + JwksTTL]
  BY DEF Publish
<1>2. env[w] \in Config
  BY DEF TypeOK
<1>3. prev \in Key \cup {NoKey, Unloaded}
  BY <1>1, <1>2 DEF PreviousSeen, Config, TypeOK
<1>4. prev # Unloaded
  BY <1>1, <1>2, KeyAssumption DEF PreviousSeen, Config, Key
<1>5. edge' \in KeySet
  <2>1. PublishedKeys(w, prev) \in SUBSET Key
    BY <1>2, <1>3, <1>4 DEF PublishedKeys, Config
  <2>2. now + JwksTTL \in Nat
    BY TimeAssumption DEF TypeOK
  <2>3. QED
    BY <1>1, <2>1, <2>2 DEF KeySet
<1>6. prevKey' \in [Worker -> Key \cup {NoKey, Unloaded}]
  BY <1>1, <1>3 DEF LoadPrevious, TypeOK
<1>7. unread' \in BOOLEAN
  BY <1>1 DEF LoadPrevious, TypeOK
<1>8. QED
  BY <1>5, <1>6, <1>7

\* Whether the key is found or not, what the agent then keeps has its type.
LEMMA ConcludeTypes ==
    ASSUME TypeOK, NEW a \in Agent, NEW found \in BOOLEAN,
           pending[a] # NoToken, Conclude(a, found)
    PROVE  /\ licence' \in [Agent -> Token]
           /\ pending' \in [Agent -> Token \cup {NoToken}]
           /\ fate' \in [Agent -> Fate]
BY DEF Conclude, GiveUp, Adopt, TypeOK, Fate

\* The variables always hold values of their types.
THEOREM TypeCorrect == Spec => []TypeOK
<1>1. ASSUME Init PROVE TypeOK
  <2>1. env \in [Worker -> Config]
    BY <1>1, ConfigurationTypes DEF Init
  <2>2. licence \in [Agent -> Token]
    BY <1>1, TimeAssumption DEF Init, Token, Key
  <2>3. edge \in KeySet /\ jwks \in [Agent -> KeySet] /\ client \in [Agent -> Client]
    <3>1. [keys |-> {}, expires |-> 0] \in KeySet
      BY DEF KeySet
    <3>2. [key : {OldKey}, linked : BOOLEAN] \subseteq Client
      BY DEF Client, Key
    <3>3. client \in [Agent -> Client]
      <4>1. client \in [Agent -> [key : {OldKey}, linked : BOOLEAN]]
        BY <1>1 DEF Init
      <4>2. QED
        BY <3>2, <4>1
    <3>4. QED
      BY <1>1, <3>1, <3>3 DEF Init
  <2>4. /\ pending \in [Agent -> Token \cup {NoToken}]
        /\ prevKey \in [Worker -> Key \cup {NoKey, Unloaded}]
    BY <1>1 DEF Init
  <2>5. now \in Nat /\ step \in 1..4 /\ since \in Nat /\ unread \in BOOLEAN
    <3>1. now = 0 /\ step = 1 /\ since = 0 /\ unread = FALSE
      BY <1>1, Zenon DEF Init
    <3>2. unread \in BOOLEAN
      BY <3>1, Zenon
    <3>3. now \in Nat /\ since \in Nat
      BY <3>1
    <3>4. step \in 1..4
      BY <3>1
    <3>5. QED
      BY <3>2, <3>3, <3>4
  <2>6. fate \in [Agent -> Fate]
    <3>1. "running" \in Fate
      BY DEF Fate
    <3>2. QED
      BY <1>1, <3>1 DEF Init
  <2>7. QED
    BY <2>1, <2>2, <2>3, <2>4, <2>5, <2>6 DEF TypeOK
<1>2. TypeOK /\ [Next]_vars => TypeOK'
  <2> SUFFICES ASSUME TypeOK, [Next]_vars PROVE TypeOK'
    OBVIOUS
  <2>1. CASE Tick
    BY <2>1 DEF Tick, TypeOK, server, clients
  <2>2. CASE NextStep
    <3>1. step' \in 1..4
      BY <2>2, Configurations DEF NextStep, TypeOK
    <3>2. QED
      BY <2>2, <3>1 DEF NextStep, TypeOK, server, clients
  <2>3. ASSUME NEW w \in Worker, RestartWorker(w) PROVE TypeOK'
    <3>1. Rotation[step] \in Config
      BY ConfigurationTypes DEF TypeOK
    <3>2. since' \in Nat
      BY <2>3 DEF RestartWorker, TypeOK
    <3>3. QED
      BY <2>3, <3>1, <3>2 DEF RestartWorker, TypeOK, clients
  <2>4. ASSUME NEW w \in Worker, AnyoneFetchesKeys(w) PROVE TypeOK'
    BY <2>4, PublishTypes DEF AnyoneFetchesKeys, TypeOK, clients
  <2>5. ASSUME NEW a \in Agent, NEW w \in Worker, Heartbeat(a, w) PROVE TypeOK'
    <3>1. PICK prev \in IF licence[a].kid = env[w].active THEN {prevKey[w]} ELSE PreviousSeen(w) :
            /\ LoadPrevious(w, prev)
            /\ IF Verifies(w, prev, licence[a]) /\ Unexpired(licence[a])
               THEN pending' = [pending EXCEPT ![a] = Sign(w)] /\ UNCHANGED fate
               ELSE /\ fate' = [fate EXCEPT ![a] = IF Verifies(w, prev, licence[a])
                                                   THEN "expired" ELSE "rejected"]
                    /\ UNCHANGED pending
      BY <2>5 DEF Heartbeat
    <3>2. prev \in Key \cup {NoKey, Unloaded}
      BY <3>1 DEF PreviousSeen, Config, TypeOK
    <3>3. Sign(w) \in Token
      <4>1. env[w].active \in Key /\ now + LicenseTTL \in Nat
        BY TimeAssumption DEF TypeOK, Config
      <4>2. QED
        BY <4>1 DEF Sign, Token
    <3>4. pending' \in [Agent -> Token \cup {NoToken}] /\ fate' \in [Agent -> Fate]
      BY <3>1, <3>3 DEF TypeOK, Fate
    <3>5. prevKey' \in [Worker -> Key \cup {NoKey, Unloaded}] /\ unread' \in BOOLEAN
      BY <3>1, <3>2 DEF LoadPrevious, TypeOK
    <3>6. QED
      BY <2>5, <3>4, <3>5 DEF Heartbeat, TypeOK
  <2>6. ASSUME NEW a \in Agent, VerifyAtHand(a) PROVE TypeOK'
    BY <2>6, ConcludeTypes DEF VerifyAtHand, TypeOK, server
  <2>7. ASSUME NEW a \in Agent, NEW w \in Worker, VerifyFromWorker(a, w) PROVE TypeOK'
    <3>1. edge'.keys \in SUBSET Key /\ now + JwksTTL \in Nat
      BY <2>7, PublishTypes, TimeAssumption DEF VerifyFromWorker, KeySet, TypeOK
    <3>2. jwks' \in [Agent -> KeySet]
      BY <2>7, <3>1 DEF VerifyFromWorker, Refreshed, KeySet, TypeOK
    <3>3. pending[a] # NoToken /\ Conclude(a, pending[a].kid \in edge'.keys)
      BY <2>7 DEF VerifyFromWorker, NeedsKey, Refreshed
    <3>4. (pending[a].kid \in edge'.keys) \in BOOLEAN
      OBVIOUS
    <3>5. QED
      BY <2>7, <3>2, <3>3, <3>4, PublishTypes, ConcludeTypes DEF VerifyFromWorker, TypeOK
  <2>8. ASSUME NEW a \in Agent, VerifyFromEdge(a) PROVE TypeOK'
    <3>1. edge.keys \in SUBSET Key /\ now + JwksTTL \in Nat
      BY TimeAssumption DEF KeySet, TypeOK
    <3>2. jwks' \in [Agent -> KeySet]
      BY <2>8, <3>1 DEF VerifyFromEdge, Refreshed, KeySet, TypeOK
    <3>3. pending[a] # NoToken /\ Conclude(a, pending[a].kid \in edge.keys)
      BY <2>8 DEF VerifyFromEdge, NeedsKey, Refreshed
    <3>4. (pending[a].kid \in edge.keys) \in BOOLEAN
      OBVIOUS
    <3>5. QED
      BY <2>8, <3>2, <3>3, <3>4, ConcludeTypes DEF VerifyFromEdge, TypeOK, server
  <2>9. ASSUME NEW a \in Agent, VerifyBundledOnly(a) PROVE TypeOK'
    BY <2>9 DEF VerifyBundledOnly, GiveUp, TypeOK, Fate, server
  <2>9a. ASSUME NEW a \in Agent, VerifyUnreachable(a) PROVE TypeOK'
    BY <2>9a DEF VerifyUnreachable, GiveUp, TypeOK, Fate, server
  <2>10. ASSUME NEW a \in Agent, NEW k \in Key, RestartAgent(a, k) PROVE TypeOK'
    <3>1. client' \in [Agent -> Client] /\ jwks' \in [Agent -> KeySet]
      BY <2>10 DEF RestartAgent, TypeOK, Client, KeySet
    <3>2. QED
      BY <2>10, <3>1 DEF RestartAgent, TypeOK, server
  <2>11. CASE UNCHANGED vars
    BY <2>11 DEF vars, server, clients, TypeOK
  <2>12. QED
    BY <2>1, <2>2, <2>3, <2>4, <2>5, <2>6, <2>7, <2>8, <2>9, <2>9a, <2>10, <2>11 DEF Next
<1>3. QED
  BY <1>1, <1>2, PTL DEF Spec
-----------------------------------------------------------------------------
(* The rotation.  A process runs the configuration of the moment or the one *)
(* before it; a licence signed with the old key was signed before the last  *)
(* process took the new one, and the runbook waits as long as it lives.     *)

Held(a) == {licence[a], pending[a]} \ {NoToken}

AllNew == \A w \in Worker : env[w].active = NewKey

Configured ==
    /\ since <= now
    /\ \A w \in Worker : env[w] = Rotation[step] \/ (step > 1 /\ env[w] = Rotation[step - 1])

PreviousRead ==
    \A w \in Worker :
        /\ prevKey[w] \in {Unloaded, NoKey, env[w].previous}
        /\ ~unread => prevKey[w] \in {Unloaded, env[w].previous}

\* What is known of a token that some agent holds.
Accounted(t) ==
    /\ t.kid = NewKey => \E w \in Worker : env[w].active = NewKey
    /\ t.exp <= now + LicenseTTL
    /\ t.kid = OldKey /\ step = 3 /\ RolledOut => t.exp <= since + LicenseTTL
    /\ t.kid = OldKey /\ step = 4 => t.exp <= now

TokensAccounted == \A a \in Agent : \A t \in Held(a) : Accounted(t)

\* What is known of the key set the HTTP cache may serve.
EdgeAccounted ==
    /\ edge.expires <= now + JwksTTL
    /\ step <= 3 /\ ~unread /\ edge.expires > 0 => OldKey \in edge.keys
    /\ AllNew /\ edge.expires > since + JwksTTL => NewKey \in edge.keys

RotationInv == Configured /\ PreviousRead /\ TokensAccounted /\ EdgeAccounted

\* Which keys a process may be configured with at each position.
LEMMA ConfiguredKeys ==
    ASSUME TypeOK, Configured, NEW w \in Worker
    PROVE  /\ step \in {1, 2} => env[w].active = OldKey
           /\ step = 3 => \/ env[w].active = OldKey /\ env[w] # Rotation[3]
                          \/ env[w].active = NewKey /\ env[w].previous = OldKey
           /\ step = 4 => env[w].active = NewKey
<1>1. CASE step = 1
  BY <1>1, Configurations DEF Configured
<1>2. CASE step = 2
  <2>1. env[w] = Rotation[2] \/ env[w] = Rotation[1]
    BY <1>2 DEF Configured
  <2>2. QED
    BY <1>2, <2>1, Configurations
<1>3. CASE step = 3
  <2>1. env[w] = Rotation[3] \/ env[w] = Rotation[2]
    BY <1>3 DEF Configured
  <2>2. QED
    BY <1>3, <2>1, Configurations, KeyAssumption
<1>4. CASE step = 4
  <2>1. env[w] = Rotation[4] \/ env[w] = Rotation[3]
    BY <1>4 DEF Configured
  <2>2. QED
    BY <1>4, <2>1, Configurations
<1>5. QED
  BY <1>1, <1>2, <1>3, <1>4 DEF TypeOK

\* An unexpired token's key is one of every process's two, unless processes are mixed.
LEMMA TokensServed ==
    ASSUME TypeOK, Configured, TokensAccounted, ~Rolling,
           NEW a \in Agent, NEW t \in Held(a), now < t.exp, NEW w \in Worker
    PROVE  t.kid = env[w].active \/ t.kid = env[w].previous
<1>0. t \in Token /\ Accounted(t)
  BY DEF Held, TypeOK, TokensAccounted
<1>1. CASE t.kid = NewKey
  BY <1>0, <1>1 DEF Accounted, Rolling
<1>2. CASE t.kid = OldKey
  <2>1. step # 4
    BY <1>0, <1>2 DEF Accounted, Token, TypeOK
  <2>2. QED
    BY <1>2, <2>1, ConfiguredKeys DEF TypeOK
<1>3. QED
  BY <1>0, <1>1, <1>2 DEF Token, Key

\* A process that reads its previous key properly publishes both.
LEMMA PublishAccounted ==
    ASSUME TypeOK, Configured, PreviousRead, EdgeAccounted, NEW w \in Worker, Publish(w),
           UNCHANGED <<now, step, since, env>>
    PROVE  /\ PreviousRead'
           /\ EdgeAccounted'
           /\ ~unread' => {env[w].active, env[w].previous} \ {NoKey} \subseteq edge'.keys
<1>1. PICK prev \in PreviousSeen(w) :
        /\ LoadPrevious(w, prev)
        /\ edge' = [keys |-> PublishedKeys(w, prev), expires |-> now + JwksTTL]
  BY DEF Publish
<1>2. env[w] \in Config
  BY DEF TypeOK
<1>3. prev # Unloaded /\ prev \in {NoKey, env[w].previous}
  BY <1>1, <1>2, KeyAssumption DEF PreviousSeen, PreviousRead, Config, Key
<1>4. ~unread' => prev = env[w].previous
  BY <1>1, <1>3 DEF LoadPrevious
<1>5. PreviousRead'
  <2> SUFFICES ASSUME NEW v \in Worker
               PROVE  /\ prevKey'[v] \in {Unloaded, NoKey, env[v].previous}
                      /\ ~unread' => prevKey'[v] \in {Unloaded, env[v].previous}
    BY DEF PreviousRead
  <2>1. CASE v = w
    BY <1>1, <1>3, <1>4, <2>1 DEF LoadPrevious, TypeOK
  <2>2. CASE v # w
    BY <1>1, <2>2 DEF LoadPrevious, PreviousRead, TypeOK
  <2>3. QED
    BY <2>1, <2>2
<1>6. /\ edge'.keys = {env[w].active, prev} \ {NoKey}
      /\ edge'.expires = now + JwksTTL
  BY <1>1 DEF PublishedKeys
<1>7. EdgeAccounted'
  <2>1. (edge.expires <= now + JwksTTL)'
    BY <1>6, TimeAssumption DEF TypeOK
  <2>2. ASSUME step <= 3, ~unread' PROVE OldKey \in edge'.keys
    <3>1. env[w].active = OldKey \/ env[w].previous = OldKey
      BY <2>2, ConfiguredKeys DEF TypeOK
    <3>2. QED
      BY <1>4, <1>6, <2>2, <3>1, KeyAssumption
  <2>3. AllNew => NewKey \in edge'.keys
    BY <1>6, KeyAssumption DEF AllNew
  <2>4. AllNew' = AllNew
    BY DEF AllNew
  <2>5. QED
    BY <2>1, <2>2, <2>3, <2>4 DEF EdgeAccounted
<1>8. QED
  BY <1>4, <1>5, <1>6, <1>7

\* Steps that leave the processes alone keep what is known of the tokens, if no
\* agent comes to hold a token that is not known.
LEMMA HeldAccounted ==
    ASSUME TypeOK, TokensAccounted, UNCHANGED <<now, step, since, env>>,
           \A b \in Agent : \A t \in Held(b)' : (\E d \in Agent : t \in Held(d)) \/ Accounted(t)
    PROVE  TokensAccounted'
<1> SUFFICES ASSUME NEW b \in Agent, NEW t \in Held(b)' PROVE Accounted(t)'
  BY DEF TokensAccounted
<1>1. Accounted(t)
  BY DEF TokensAccounted
<1>2. RolledOut' = RolledOut
  BY DEF RolledOut
<1>3. QED
  BY <1>1, <1>2 DEF Accounted

\* Verifying a token, or giving up on it, adds none.
LEMMA ConcludeHeld ==
    ASSUME TypeOK, NEW a \in Agent, pending[a] # NoToken,
           NEW found \in BOOLEAN, NEW why \in Fate, Conclude(a, found) \/ GiveUp(a, why)
    PROVE  \A b \in Agent : Held(b)' \subseteq Held(b)
BY DEF Conclude, GiveUp, Adopt, Held, TypeOK

\* Before the rotation everything is the old key's.
LEMMA InvInit == Init => RotationInv
<1> SUFFICES ASSUME Init PROVE RotationInv
  OBVIOUS
<1>1. Configured
  BY Configurations DEF Init, Configured
<1>2. PreviousRead
  BY DEF Init, PreviousRead
<1>3. TokensAccounted
  <2> SUFFICES ASSUME NEW a \in Agent, NEW t \in Held(a) PROVE Accounted(t)
    BY DEF TokensAccounted
  <2>1. t.kid = OldKey /\ t.exp = LicenseTTL
    BY DEF Init, Held
  <2>2. QED
    BY <2>1, KeyAssumption, TimeAssumption DEF Init, Accounted
<1>4. EdgeAccounted
  BY TimeAssumption DEF Init, EdgeAccounted
<1>5. QED
  BY <1>1, <1>2, <1>3, <1>4 DEF RotationInv

\* Every step of the runbook, the processes and the agents keeps the account.
LEMMA InvNext == TypeOK /\ RotationInv /\ [Next]_vars => RotationInv'
<1> SUFFICES ASSUME TypeOK, RotationInv, [Next]_vars PROVE RotationInv'
  OBVIOUS
<1>0. Configured /\ PreviousRead /\ TokensAccounted /\ EdgeAccounted
  BY DEF RotationInv
<1>1. CASE Tick
  <2>1. /\ now' = now + 1 /\ since' = since /\ step' = step /\ env' = env
        /\ prevKey' = prevKey /\ unread' = unread /\ edge' = edge
        /\ licence' = licence /\ pending' = pending
    BY <1>1 DEF Tick, server, clients
  <2>2. now \in Nat /\ since \in Nat /\ edge.expires \in Nat
    BY DEF TypeOK, KeySet
  <2>3. Configured' /\ PreviousRead'
    BY <1>0, <2>1, <2>2 DEF Configured, PreviousRead
  <2>4. TokensAccounted'
    <3> SUFFICES ASSUME NEW a \in Agent, NEW t \in Held(a) PROVE Accounted(t)'
      BY <2>1 DEF TokensAccounted, Held
    <3>1. Accounted(t) /\ t.exp \in Nat
      BY <1>0 DEF TokensAccounted, Held, TypeOK, Token
    <3>2. QED
      BY <2>1, <2>2, <3>1, TimeAssumption DEF Accounted, RolledOut
  <2>5. EdgeAccounted'
    BY <1>0, <2>1, <2>2, TimeAssumption DEF EdgeAccounted, AllNew
  <2>6. QED
    BY <2>3, <2>4, <2>5 DEF RotationInv
<1>2. CASE NextStep
  <2>1. /\ step < 4 /\ step' = step + 1 /\ RolledOut /\ now >= since + Kept[step]
        /\ now' = now /\ since' = since /\ env' = env /\ prevKey' = prevKey
        /\ unread' = unread /\ edge' = edge /\ licence' = licence /\ pending' = pending
    BY <1>2, Configurations DEF NextStep, server, clients
  <2>2. now \in Nat /\ since \in Nat /\ step \in 1..4
    BY DEF TypeOK
  <2>3. Configured'
    <3>1. \A w \in Worker : env[w] = Rotation[step' - 1]
      BY <2>1, <2>2 DEF RolledOut
    <3>2. QED
      BY <1>0, <2>1, <2>2, <3>1 DEF Configured
  <2>4. PreviousRead'
    BY <1>0, <2>1 DEF PreviousRead
  <2>5. TokensAccounted'
    <3> SUFFICES ASSUME NEW a \in Agent, NEW t \in Held(a) PROVE Accounted(t)'
      BY <2>1 DEF TokensAccounted, Held
    <3>1. Accounted(t) /\ t.exp \in Nat
      BY <1>0 DEF TokensAccounted, Held, TypeOK, Token
    <3>2. ASSUME step' = 3 PROVE ~RolledOut'
      <4>1. step = 2
        BY <2>1, <2>2, <3>2
      <4>2. PICK w \in Worker : env'[w] = Rotation[2]
        BY <2>1, <4>1, FleetAssumption DEF RolledOut
      <4>3. Rotation[3] # Rotation[2]
        BY Configurations, KeyAssumption
      <4>4. QED
        BY <3>2, <4>2, <4>3 DEF RolledOut
    <3>3. ASSUME step' = 4, t.kid = OldKey PROVE t.exp <= now
      <4>1. step = 3
        BY <2>1, <2>2, <3>3
      <4>2. QED
        BY <2>1, <2>2, <3>1, <3>3, <4>1, KeptTypes, TimeAssumption DEF Accounted
    <3>4. QED
      BY <2>1, <3>1, <3>2, <3>3 DEF Accounted
  <2>6. EdgeAccounted'
    BY <1>0, <2>1, <2>2 DEF EdgeAccounted, AllNew
  <2>7. QED
    BY <2>3, <2>4, <2>5, <2>6 DEF RotationInv
<1>3. ASSUME NEW w \in Worker, RestartWorker(w) PROVE RotationInv'
  <2>1. /\ env' = [env EXCEPT ![w] = Rotation[step]]
        /\ prevKey' = [prevKey EXCEPT ![w] = Unloaded]
        /\ since' = IF env[w] # Rotation[step] THEN now ELSE since
        /\ now' = now /\ step' = step /\ unread' = unread /\ edge' = edge
        /\ licence' = licence /\ pending' = pending
    BY <1>3 DEF RestartWorker, clients
  <2>2. now \in Nat /\ since \in Nat /\ step \in 1..4 /\ since <= now
    BY <1>0 DEF TypeOK, Configured
  <2>3. env'[w] = Rotation[step] /\ \A v \in Worker : v # w => env'[v] = env[v]
    BY <2>1 DEF TypeOK
  <2>4. Configured'
    BY <1>0, <2>1, <2>2, <2>3 DEF Configured
  <2>5. PreviousRead'
    BY <1>0, <2>1, <2>3 DEF PreviousRead, TypeOK
  <2>6. CASE env[w] = Rotation[step]
    <3>1. env' = env /\ since' = since
      BY <2>1, <2>6 DEF TypeOK
    <3>2. TokensAccounted' /\ EdgeAccounted'
      BY <1>0, <2>1, <3>1 DEF TokensAccounted, Held, Accounted, RolledOut, EdgeAccounted, AllNew
    <3>3. QED
      BY <2>4, <2>5, <3>2 DEF RotationInv
  <2>7. CASE env[w] # Rotation[step]
    <3>1. since' = now
      BY <2>1, <2>7
    <3>2. env[w].active = NewKey => env'[w].active = NewKey
      <4>1. env[w].active = NewKey => step \in {3, 4}
        BY <1>0, <2>2, ConfiguredKeys, KeyAssumption
      <4>2. step \in {3, 4} => Rotation[step].active = NewKey
        BY Configurations
      <4>3. QED
        BY <2>3, <4>1, <4>2
    <3>3. TokensAccounted'
      <4> SUFFICES ASSUME NEW a \in Agent, NEW t \in Held(a) PROVE Accounted(t)'
        BY <2>1 DEF TokensAccounted, Held
      <4>1. Accounted(t) /\ t.exp \in Nat
        BY <1>0 DEF TokensAccounted, Held, TypeOK, Token
      <4>2. t.kid = NewKey => \E v \in Worker : env'[v].active = NewKey
        BY <2>3, <3>2, <4>1 DEF Accounted
      <4>3. QED
        BY <2>1, <3>1, <4>1, <4>2 DEF Accounted
    <3>4. EdgeAccounted'
      <4>1. ~(edge.expires > since' + JwksTTL)
        BY <1>0, <2>2, <3>1, TimeAssumption DEF EdgeAccounted, TypeOK, KeySet
      <4>2. QED
        BY <1>0, <2>1, <4>1 DEF EdgeAccounted
    <3>5. QED
      BY <2>4, <2>5, <3>3, <3>4 DEF RotationInv
  <2>8. QED
    BY <2>6, <2>7
<1>4. ASSUME NEW w \in Worker, AnyoneFetchesKeys(w) PROVE RotationInv'
  <2>1. /\ Publish(w) /\ UNCHANGED <<now, step, since, env>>
        /\ licence' = licence /\ pending' = pending
    BY <1>4 DEF AnyoneFetchesKeys, clients
  <2>2. PreviousRead' /\ EdgeAccounted'
    BY <1>0, <2>1, PublishAccounted
  <2>3. TokensAccounted'
    BY <1>0, <2>1, HeldAccounted DEF Held
  <2>4. Configured'
    BY <1>0, <2>1 DEF Configured
  <2>5. QED
    BY <2>2, <2>3, <2>4 DEF RotationInv
<1>5. ASSUME NEW a \in Agent, NEW w \in Worker, Heartbeat(a, w) PROVE RotationInv'
  <2>1. PICK prev \in IF licence[a].kid = env[w].active THEN {prevKey[w]} ELSE PreviousSeen(w) :
          /\ LoadPrevious(w, prev)
          /\ \/ pending' = [pending EXCEPT ![a] = Sign(w)]
             \/ UNCHANGED pending
    BY <1>5 DEF Heartbeat
  <2>2. UNCHANGED <<now, step, since, env>> /\ edge' = edge /\ licence' = licence
    BY <1>5 DEF Heartbeat
  <2>3. prev \in {Unloaded, NoKey, env[w].previous}
    BY <1>0, <2>1 DEF PreviousSeen, PreviousRead
  <2>4. ~unread' => ~unread /\ prev \in {Unloaded, env[w].previous}
    BY <2>1, <2>3 DEF LoadPrevious
  <2>5. PreviousRead'
    <3> SUFFICES ASSUME NEW v \in Worker
                 PROVE  /\ prevKey'[v] \in {Unloaded, NoKey, env[v].previous}
                        /\ ~unread' => prevKey'[v] \in {Unloaded, env[v].previous}
      BY <2>2 DEF PreviousRead
    <3>1. CASE v = w
      BY <2>1, <2>3, <2>4, <3>1 DEF LoadPrevious, TypeOK
    <3>2. CASE v # w
      BY <1>0, <2>1, <2>4, <3>2 DEF LoadPrevious, PreviousRead, TypeOK
    <3>3. QED
      BY <3>1, <3>2
  <2>6. Accounted(Sign(w))
    <3>1. now \in Nat /\ env[w].active \in Key
      BY DEF TypeOK, Config
    <3>2. Sign(w).kid = env[w].active /\ Sign(w).exp = now + LicenseTTL
      BY DEF Sign
    <3>3. env[w].active = OldKey => step # 4
      BY <1>0, ConfiguredKeys, KeyAssumption
    <3>4. env[w].active = OldKey /\ step = 3 => ~RolledOut
      BY Configurations, KeyAssumption DEF RolledOut
    <3>5. QED
      BY <3>1, <3>2, <3>3, <3>4, TimeAssumption DEF Accounted
  <2>7. TokensAccounted'
    <3>1. \A b \in Agent : \A t \in Held(b)' :
             (\E d \in Agent : t \in Held(d)) \/ Accounted(t)
      <4> SUFFICES ASSUME NEW b \in Agent, NEW t \in Held(b)'
                   PROVE  t \in Held(b) \/ t = Sign(w)
        BY <2>6
      <4>1. QED
        BY <2>1, <2>2 DEF Held, TypeOK
    <3>2. QED
      BY <1>0, <2>2, <3>1, HeldAccounted
  <2>8. Configured' /\ EdgeAccounted'
    BY <1>0, <2>2, <2>4 DEF Configured, EdgeAccounted, AllNew
  <2>9. QED
    BY <2>5, <2>7, <2>8 DEF RotationInv
<1>6. ASSUME NEW a \in Agent,
             VerifyAtHand(a) \/ VerifyFromEdge(a) \/ VerifyUnreachable(a) \/ VerifyBundledOnly(a)
      PROVE  RotationInv'
  <2>1. UNCHANGED <<now, step, since, env>> /\ prevKey' = prevKey /\ unread' = unread
        /\ edge' = edge
    BY <1>6 DEF VerifyAtHand, VerifyFromEdge, VerifyUnreachable, VerifyBundledOnly, server
  <2>2. pending[a] # NoToken
        /\ \E found \in BOOLEAN, why \in Fate : Conclude(a, found) \/ GiveUp(a, why)
    <3>1. CASE VerifyAtHand(a)
      BY <3>1 DEF VerifyAtHand, Fate
    <3>2. CASE VerifyFromEdge(a)
      <4>1. pending[a] # NoToken /\ Conclude(a, pending[a].kid \in edge.keys)
        BY <3>2 DEF VerifyFromEdge, NeedsKey, Refreshed
      <4>2. (pending[a].kid \in edge.keys) \in BOOLEAN /\ "expired" \in Fate
        BY DEF Fate
      <4>3. QED
        BY <4>1, <4>2, Zenon
    <3>3. CASE VerifyBundledOnly(a) \/ VerifyUnreachable(a)
      BY <3>3 DEF VerifyBundledOnly, VerifyUnreachable, NeedsKey, Fate
    <3>4. QED
      BY <1>6, <3>1, <3>2, <3>3
  <2>3. TokensAccounted'
    <3>1. \A b \in Agent : Held(b)' \subseteq Held(b)
      BY <2>2, ConcludeHeld
    <3>2. QED
      BY <1>0, <2>1, <3>1, HeldAccounted
  <2>4. Configured' /\ PreviousRead' /\ EdgeAccounted'
    BY <1>0, <2>1 DEF Configured, PreviousRead, EdgeAccounted, AllNew
  <2>5. QED
    BY <2>3, <2>4 DEF RotationInv
<1>7. ASSUME NEW a \in Agent, NEW w \in Worker, VerifyFromWorker(a, w) PROVE RotationInv'
  <2>1. UNCHANGED <<now, step, since, env>> /\ Publish(w) /\ pending[a] # NoToken
        /\ \E found \in BOOLEAN, why \in Fate : Conclude(a, found) \/ GiveUp(a, why)
    <3>1. /\ UNCHANGED <<now, step, since, env>> /\ Publish(w) /\ pending[a] # NoToken
          /\ Conclude(a, pending[a].kid \in edge'.keys)
      BY <1>7 DEF VerifyFromWorker, NeedsKey, Refreshed
    <3>2. (pending[a].kid \in edge'.keys) \in BOOLEAN /\ "expired" \in Fate
      BY DEF Fate
    <3>3. QED
      BY <3>1, <3>2, Zenon
  <2>2. PreviousRead' /\ EdgeAccounted'
    BY <1>0, <2>1, PublishAccounted
  <2>3. TokensAccounted'
    <3>1. \A b \in Agent : Held(b)' \subseteq Held(b)
      BY <2>1, ConcludeHeld
    <3>2. QED
      BY <1>0, <2>1, <3>1, HeldAccounted
  <2>4. Configured'
    BY <1>0, <2>1 DEF Configured
  <2>5. QED
    BY <2>2, <2>3, <2>4 DEF RotationInv
<1>8. ASSUME NEW a \in Agent, NEW k \in Key, RestartAgent(a, k) PROVE RotationInv'
  <2>1. UNCHANGED <<now, step, since, env>> /\ prevKey' = prevKey /\ unread' = unread
        /\ edge' = edge /\ licence' = licence
        /\ pending' = [pending EXCEPT ![a] = licence[a]]
    BY <1>8 DEF RestartAgent, server
  <2>2. TokensAccounted'
    <3>1. \A b \in Agent : Held(b)' \subseteq Held(b)
      BY <2>1 DEF Held, TypeOK
    <3>2. QED
      BY <1>0, <2>1, <3>1, HeldAccounted
  <2>3. Configured' /\ PreviousRead' /\ EdgeAccounted'
    BY <1>0, <2>1 DEF Configured, PreviousRead, EdgeAccounted, AllNew
  <2>4. QED
    BY <2>2, <2>3 DEF RotationInv
<1>9. CASE UNCHANGED vars
  BY <1>0, <1>9 DEF vars, server, clients, RotationInv, Configured, PreviousRead,
     TokensAccounted, Accounted, Held, RolledOut, EdgeAccounted, AllNew
<1>10. QED
  BY <1>1, <1>2, <1>3, <1>4, <1>5, <1>6, <1>7, <1>8, <1>9 DEF Next

\* It holds through the whole rotation.
LEMMA RotationInvariant == Spec => [](TypeOK /\ RotationInv)
BY InvInit, InvNext, TypeCorrect, PTL DEF Spec

\* Through the whole rotation an agent's unexpired licence, and the one it is
\* being handed, verify at every process that can read its previous key,
\* unless processes with either active key are mixed.
THEOREM RotationKeepsLicences == Spec => []LiveLicencesVerify
<1>1. ASSUME TypeOK, RotationInv PROVE LiveLicencesVerify
  <2> SUFFICES ASSUME ~Rolling, NEW a \in Agent, NEW w \in Worker, NEW t \in Held(a),
                      now < t.exp, ~Degraded(w)
               PROVE  t.kid = env[w].active \/ t.kid = PreviousKey(w)
    BY DEF LiveLicencesVerify, Held, Verifies
  <2>1. PreviousKey(w) = env[w].previous
    BY <1>1 DEF RotationInv, PreviousRead, PreviousKey, Degraded
  <2>2. QED
    BY <1>1, <2>1, TokensServed DEF RotationInv
<1>2. QED
  BY <1>1, RotationInvariant, PTL

-----------------------------------------------------------------------------
(* Agents that fetch keys.                                                 *)

\* Only an agent that has just failed to find its token's key ends that way.
LEMMA UnknownKeySteps ==
    ASSUME TypeOK, [Next]_vars, NEW a \in Agent, client[a].linked,
           fate[a] = "running", fate'[a] = "unknown_key"
    PROVE  /\ pending[a] # NoToken
           /\ \/ /\ VerifyFromEdge(a)
                 /\ pending[a].kid \notin edge.keys
              \/ \E w \in Worker : /\ VerifyFromWorker(a, w)
                                   /\ pending[a].kid \notin edge'.keys
<1>0. fate' # fate
  OBVIOUS
<1>1. PICK b \in Agent :
        \/ \E w \in Worker : Heartbeat(b, w) \/ VerifyFromWorker(b, w)
        \/ VerifyAtHand(b) \/ VerifyFromEdge(b) \/ VerifyUnreachable(b) \/ VerifyBundledOnly(b)
  BY <1>0 DEF Next, vars, Tick, NextStep, RestartWorker, AnyoneFetchesKeys, RestartAgent, clients
<1>2. ASSUME NEW w \in Worker, Heartbeat(b, w) PROVE FALSE
  <2>1. \/ fate' = fate
        \/ fate' = [fate EXCEPT ![b] = "expired"]
        \/ fate' = [fate EXCEPT ![b] = "rejected"]
    BY <1>2 DEF Heartbeat
  <2>2. QED
    BY <2>1 DEF TypeOK
<1>3. ASSUME VerifyAtHand(b) PROVE FALSE
  BY <1>3 DEF VerifyAtHand, Conclude, GiveUp, Adopt, TypeOK
<1>4. ASSUME VerifyBundledOnly(b) PROVE FALSE
  BY <1>4 DEF VerifyBundledOnly, GiveUp, TypeOK
<1>4a. ASSUME VerifyUnreachable(b) PROVE FALSE
  BY <1>4a DEF VerifyUnreachable, GiveUp, TypeOK
<1>5. ASSUME VerifyFromEdge(b)
      PROVE  /\ b = a /\ pending[a] # NoToken
             /\ pending[a].kid \notin edge.keys
  BY <1>5 DEF VerifyFromEdge, NeedsKey, Refreshed, Conclude, GiveUp, Adopt, TypeOK
<1>6. ASSUME NEW w \in Worker, VerifyFromWorker(b, w)
      PROVE  /\ b = a /\ pending[a] # NoToken
             /\ pending[a].kid \notin edge'.keys
  BY <1>6 DEF VerifyFromWorker, NeedsKey, Refreshed, Conclude, GiveUp, Adopt, TypeOK
<1>7. QED
  BY <1>1, <1>2, <1>3, <1>4, <1>4a, <1>5, <1>6

\* An agent that fetches keys, and whose fetch is answered, is never left without
\* the key of an unexpired token, except while keys are mixed and for as long as
\* the HTTP cache may still serve a key set from before.
THEOREM LinkedAgentsAreServed == Spec => LinkedAgentsFindKeys
<1>1. ASSUME TypeOK, RotationInv, [Next]_vars,
             NEW a \in Agent, client[a].linked, fate[a] = "running",
             fate'[a] = "unknown_key", now < pending[a].exp,
             ~Rolling, ~(now < since + JwksTTL), ~unread'
      PROVE  FALSE
  <2> DEFINE t == pending[a]
  <2>0. /\ Configured /\ PreviousRead /\ TokensAccounted /\ EdgeAccounted
        /\ t # NoToken
    BY <1>1, UnknownKeySteps DEF RotationInv
  <2>1. t \in Held(a) /\ t \in Token /\ Accounted(t)
    BY <1>1, <2>0 DEF Held, TypeOK, TokensAccounted
  <2>2. ASSUME VerifyFromEdge(a), t.kid \notin edge.keys PROVE FALSE
    <3>1. now < edge.expires /\ unread' = unread
      BY <2>2 DEF VerifyFromEdge, server
    <3>2. now \in Nat /\ since \in Nat /\ edge.expires \in Nat /\ JwksTTL \in Nat
          /\ t.exp \in Nat /\ step \in 1..4
      BY <1>1, <2>1, TimeAssumption DEF TypeOK, KeySet, Token
    <3>3. CASE t.kid = NewKey
      <4>1. AllNew
        BY <1>1, <2>1, <3>3 DEF Accounted, Rolling, AllNew
      <4>2. QED
        BY <1>1, <2>0, <2>2, <3>1, <3>2, <3>3, <4>1 DEF EdgeAccounted
    <3>4. CASE t.kid = OldKey
      <4>1. step # 4
        BY <1>1, <2>1, <3>2, <3>4 DEF Accounted
      <4>2. QED
        BY <1>1, <2>0, <2>2, <3>1, <3>2, <3>4, <4>1 DEF EdgeAccounted
    <3>5. QED
      BY <2>1, <3>3, <3>4 DEF Token, Key
  <2>3. ASSUME NEW w \in Worker, VerifyFromWorker(a, w), t.kid \notin edge'.keys PROVE FALSE
    <3>1. Publish(w) /\ UNCHANGED <<now, step, since, env>>
      BY <2>3 DEF VerifyFromWorker
    <3>2. {env[w].active, env[w].previous} \ {NoKey} \subseteq edge'.keys
      BY <1>1, <2>0, <3>1, PublishAccounted
    <3>3. t.kid = env[w].active \/ t.kid = env[w].previous
      BY <1>1, <2>0, <2>1, TokensServed
    <3>4. t.kid # NoKey
      BY <2>1, KeyAssumption DEF Token, Key
    <3>5. QED
      BY <2>3, <3>2, <3>3, <3>4
  <2>4. QED
    BY <1>1, <2>2, <2>3, UnknownKeySteps
<1>2. TypeOK /\ RotationInv /\ [Next]_vars
        => [\A a \in Agent :
              client[a].linked /\ fate[a] = "running" /\ fate'[a] = "unknown_key"
                /\ now < pending[a].exp =>
                  Rolling \/ now < since + JwksTTL \/ unread']_vars
  BY <1>1
<1>3. QED
  BY <1>2, RotationInvariant, PTL DEF Spec, LinkedAgentsFindKeys
=============================================================================
