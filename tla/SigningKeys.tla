---------------------------- MODULE SigningKeys ----------------------------
(***************************************************************************)
(* The keys licences are signed with and what a rotation does to agents:   *)
(* core/jwt_keys.py and core/key_providers.py in every API process,        *)
(* api/wellknown.py and the HTTP cache it invites in front of itself, the  *)
(* agent's LicenseClient (proxialpha_agent/license.py) and the operator    *)
(* who walks through docs/runbooks/signing-key-rotation.md.                *)
(*                                                                         *)
(* A licence is its `kid` and its expiry here: Licenses and ControlPlane   *)
(* have the rest.  Every process reads its environment when it starts, and *)
(* API processes are restarted one by one.                                 *)
(***************************************************************************)
EXTENDS Integers, Sequences

CONSTANTS
    Worker,       \* API processes
    Agent,        \* agents in the field
    OldKey, NewKey,
    NoKey,        \* None
    Unloaded,     \* _previous_loaded is False
    NoToken,      \* no token to verify
    LicenseTTL,   \* 24 h
    Leeway,       \* DEFAULT_LEEWAY_SECONDS: 5 min
    JwksTTL,      \* JWKS_CACHE_SECONDS, jwks_cache_seconds: 10 min
    PublishWait,  \* the runbook's step 4: 20 min
    MaxTime       \* bound: the clock stops here

ASSUME FleetAssumption == Worker # {}
ASSUME KeyAssumption ==
    OldKey # NewKey /\ NoKey # Unloaded /\ {OldKey, NewKey} \cap {NoKey, Unloaded} = {}
ASSUME TimeAssumption == {LicenseTTL, Leeway, JwksTTL, PublishWait, MaxTime} \subseteq Nat

VARIABLES
    now,      \* the clock both ends agree on, up to Leeway
    step,     \* position in Rotation
    since,    \* when the last worker took that position's configuration
    env,      \* env[w]: the signing-key variables w was started with
    prevKey,  \* prevKey[w]: _cached_previous
    unread,   \* history: some process could not read its previous key
    edge,     \* the HTTP cache in front of /.well-known/jwks.json
    client,   \* client[a]: the public key a's LicenseClient was built with, and
              \* whether it was given a jwks_url
    jwks,     \* jwks[a]: _jwks_cache and _jwks_cache_expires_at
    licence,  \* licence[a]: the licence a holds
    pending,  \* pending[a]: a token a has to verify before it goes on
    fate      \* fate[a]: running, or what ended it

server == <<env, prevKey, unread>>
clients == <<client, jwks, licence, pending, fate>>
vars == <<now, step, since, server, edge, clients>>

Key == {OldKey, NewKey}
Config == [active : Key, previous : Key \cup {NoKey}]
Token == [kid : Key, exp : Nat]
Client == [key : Key, linked : BOOLEAN]
KeySet == [keys : SUBSET Key, expires : Nat]
Fate == {"running", "rejected", "expired", "unknown_key", "unreachable"}

TypeOK ==
    /\ now \in Nat
    /\ step \in 1..4
    /\ since \in Nat
    /\ env \in [Worker -> Config]
    /\ prevKey \in [Worker -> Key \cup {NoKey, Unloaded}]
    /\ unread \in BOOLEAN
    /\ edge \in KeySet
    /\ client \in [Agent -> Client]
    /\ jwks \in [Agent -> KeySet]
    /\ licence \in [Agent -> Token]
    /\ pending \in [Agent -> Token \cup {NoToken}]
    /\ fate \in [Agent -> Fate]

\* Fault: the old key is dropped in the same change.
Rotation_NoOverlap == << [active |-> OldKey, previous |-> NoKey],
                         [active |-> OldKey, previous |-> OldKey],
                         [active |-> NewKey, previous |-> NoKey],
                         [active |-> NewKey, previous |-> NoKey] >>

\* The configurations the runbook goes through: before it, after its steps 2,
\* 5 and 7.
Rotation == << [active |-> OldKey, previous |-> NoKey],
               [active |-> OldKey, previous |-> OldKey],
               [active |-> NewKey, previous |-> OldKey],
               [active |-> NewKey, previous |-> NoKey] >>

\* How long each of them is kept: the steps 4 and 6.
Kept == <<0, PublishWait, LicenseTTL, 0>>

Init ==
    /\ now = 0 /\ step = 1 /\ since = 0
    /\ env = [w \in Worker |-> Rotation[1]]
    /\ prevKey = [w \in Worker |-> Unloaded]
    /\ unread = FALSE
    /\ edge = [keys |-> {}, expires |-> 0]
    /\ client \in [Agent -> [key : {OldKey}, linked : BOOLEAN]]
    /\ jwks = [a \in Agent |-> [keys |-> {}, expires |-> 0]]
    /\ licence = [a \in Agent |-> [kid |-> OldKey, exp |-> LicenseTTL]]
    /\ pending = [a \in Agent |-> NoToken]
    /\ fate = [a \in Agent |-> "running"]

-----------------------------------------------------------------------------
(* The operator.                                                           *)

RolledOut == \A w \in Worker : env[w] = Rotation[step]

\* The next change of the variables, once the last one is out and was kept as
\* long as the runbook says.
NextStep ==
    /\ step < Len(Rotation)
    /\ RolledOut
    /\ now >= since + Kept[step]
    /\ step' = step + 1
    /\ UNCHANGED <<now, since, server, edge, clients>>

\* A process comes up with the environment of the moment: nothing is loaded.
RestartWorker(w) ==
    /\ env' = [env EXCEPT ![w] = Rotation[step]]
    /\ prevKey' = [prevKey EXCEPT ![w] = Unloaded]
    /\ since' = IF env[w] # Rotation[step] THEN now ELSE since
    /\ UNCHANGED <<now, step, unread, edge, clients>>

Tick ==
    /\ now < MaxTime
    /\ now' = now + 1
    /\ UNCHANGED <<step, since, server, edge, clients>>

-----------------------------------------------------------------------------
(* jwt_keys in an API process.                                             *)

\* _load_previous: read once; any failure to read it counts as "none" for as
\* long as the process lives.
PreviousSeen(w) ==
    IF prevKey[w] = Unloaded THEN {env[w].previous, NoKey} ELSE {prevKey[w]}

LoadPrevious(w, prev) ==
    /\ prevKey' = [prevKey EXCEPT ![w] = prev]
    /\ unread' = (unread \/ prev \notin {env[w].previous, Unloaded})

\* The key verify() picks by the token's kid is the one that signed it.
Verifies(w, prev, t) == t.kid = env[w].active \/ t.kid = prev

Unexpired(t) == now < t.exp + Leeway

\* sign(): stamped with the active key's fingerprint.
Sign(w) == [kid |-> env[w].active, exp |-> now + LicenseTTL]

\* Fault: the previous key is left out.
PublishedKeys_ActiveOnly(w, prev) == {env[w].active}

\* jwks(): the active key, and the previous one if it is another.
PublishedKeys(w, prev) == {env[w].active, prev} \ {NoKey}

\* A GET of /.well-known/jwks.json that reaches a process fills the cache.
Publish(w) ==
    \E prev \in PreviousSeen(w) :
        /\ LoadPrevious(w, prev)
        /\ edge' = [keys |-> PublishedKeys(w, prev), expires |-> now + JwksTTL]

AnyoneFetchesKeys(w) ==
    /\ Publish(w)
    /\ UNCHANGED <<now, step, since, env, clients>>

-----------------------------------------------------------------------------
(* Heartbeats and the agent's verification.                                *)

Alive(a) == fate[a] = "running" /\ pending[a] = NoToken

\* The heartbeat's verification of the presented licence, and the successor it
\* is answered with.  Both refusals are 401s, which end the agent.
Heartbeat(a, w) ==
    /\ Alive(a)
    /\ \E prev \in IF licence[a].kid = env[w].active THEN {prevKey[w]} ELSE PreviousSeen(w) :
        /\ LoadPrevious(w, prev)
        /\ IF Verifies(w, prev, licence[a]) /\ Unexpired(licence[a])
           THEN pending' = [pending EXCEPT ![a] = Sign(w)] /\ UNCHANGED fate
           ELSE /\ fate' = [fate EXCEPT ![a] = IF Verifies(w, prev, licence[a])
                                               THEN "expired" ELSE "rejected"]
                /\ UNCHANGED pending
    /\ UNCHANGED <<now, step, since, env, edge, client, jwks, licence>>

\* _jwks_lookup.
InCache(a, k) == now < jwks[a].expires /\ k \in jwks[a].keys

\* _resolve_public_key_for finds the key without asking anyone.
KeyAtHand(a, k) == k = client[a].key \/ InCache(a, k)

\* The token verifies: it becomes the licence the agent holds, on disk too.
Adopt(a) ==
    /\ licence' = [licence EXCEPT ![a] = pending[a]]
    /\ pending' = [pending EXCEPT ![a] = NoToken]
    /\ UNCHANGED fate

\* LicenseError: a rotated token that fails ends the agent as REVOKED, a
\* stored one fails the boot.
GiveUp(a, why) ==
    /\ pending' = [pending EXCEPT ![a] = NoToken]
    /\ fate' = [fate EXCEPT ![a] = why]
    /\ UNCHANGED licence

Conclude(a, keyFound) ==
    CASE ~keyFound -> GiveUp(a, "unknown_key")
      [] keyFound /\ ~Unexpired(pending[a]) -> GiveUp(a, "expired")
      [] OTHER -> Adopt(a)

VerifyAtHand(a) ==
    /\ pending[a] # NoToken
    /\ KeyAtHand(a, pending[a].kid)
    /\ Conclude(a, TRUE)
    /\ UNCHANGED <<now, step, since, server, edge, client, jwks>>

\* _refresh_jwks answered with a key set: it replaces the agent's cache, with
\* or without the key it was fetched for.
Refreshed(a, keys) ==
    /\ jwks' = [jwks EXCEPT ![a] = [keys |-> keys, expires |-> now + JwksTTL]]
    /\ Conclude(a, pending[a].kid \in keys)

NeedsKey(a) == pending[a] # NoToken /\ ~KeyAtHand(a, pending[a].kid)

VerifyFromWorker(a, w) ==
    /\ NeedsKey(a) /\ client[a].linked
    /\ Publish(w)
    /\ Refreshed(a, edge'.keys)
    /\ UNCHANGED <<now, step, since, env, client>>

VerifyFromEdge(a) ==
    /\ NeedsKey(a) /\ client[a].linked
    /\ now < edge.expires
    /\ Refreshed(a, edge.keys)
    /\ UNCHANGED <<now, step, since, server, edge, client>>

\* The fetch fails, whether or not it reached a process: _refresh_jwks is silent
\* and leaves the cache as it was, so the bundled key is tried, the wrong one.
VerifyUnreachable(a) ==
    /\ NeedsKey(a) /\ client[a].linked
    /\ GiveUp(a, "unreachable")
    /\ UNCHANGED <<now, step, since, server, edge, client, jwks>>

\* No jwks_url: the bundled key is the last resort, and the wrong one.
VerifyBundledOnly(a) ==
    /\ NeedsKey(a) /\ ~client[a].linked
    /\ GiveUp(a, "unknown_key")
    /\ UNCHANGED <<now, step, since, server, edge, client, jwks>>

\* The agent restarts, with the release that bundles the new key if it is out:
\* the cache is gone and the stored licence is verified again.
RestartAgent(a, k) ==
    /\ Alive(a)
    /\ k \in {client[a].key, NewKey}
    /\ client' = [client EXCEPT ![a].key = k]
    /\ jwks' = [jwks EXCEPT ![a] = [keys |-> {}, expires |-> 0]]
    /\ pending' = [pending EXCEPT ![a] = licence[a]]
    /\ UNCHANGED <<now, step, since, server, edge, licence, fate>>

Next ==
    \/ Tick
    \/ NextStep
    \/ \E w \in Worker : RestartWorker(w) \/ AnyoneFetchesKeys(w)
    \/ \E a \in Agent :
        \/ \E w \in Worker : Heartbeat(a, w) \/ VerifyFromWorker(a, w)
        \/ VerifyAtHand(a)
        \/ VerifyFromEdge(a)
        \/ VerifyUnreachable(a)
        \/ VerifyBundledOnly(a)
        \/ \E k \in Key : RestartAgent(a, k)

Spec == Init /\ [][Next]_vars

-----------------------------------------------------------------------------
(* Properties.                                                             *)

\* Processes with different active keys are serving side by side.
Rolling == \E v, w \in Worker : env[v].active # env[w].active

\* What a process that has not met an unreadable file goes by.
PreviousKey(w) == IF prevKey[w] = Unloaded THEN env[w].previous ELSE prevKey[w]

\* The previous key is configured and could not be read.
Degraded(w) == prevKey[w] = NoKey /\ env[w].previous # NoKey

\* Through the whole rotation an agent's unexpired licence, and the one it is
\* being handed, verify at every process that can read its previous key,
\* unless processes with either active key are mixed.
LiveLicencesVerify ==
    ~Rolling =>
        \A a \in Agent, w \in Worker :
            \A t \in {licence[a], pending[a]} \ {NoToken} :
                fate[a] = "running" /\ now < t.exp /\ ~Degraded(w) =>
                    Verifies(w, PreviousKey(w), t)

\* An agent that fetches keys, and whose fetch is answered, is never left without
\* the key of an unexpired token, except while keys are mixed and for as long as
\* the HTTP cache may still serve a key set from before: a miss in its own cache
\* always asks again.  An agent whose one fetch fails is ended all the same
\* ("unreachable"), although license.py:369-373 means it to try again.
LinkedAgentsFindKeys ==
    [][\A a \in Agent :
        client[a].linked /\ fate[a] = "running" /\ fate'[a] = "unknown_key" /\ now < pending[a].exp =>
            Rolling \/ now < since + JwksTTL \/ unread']_vars

\* No agent of a release from before the rotation is ended because it cannot
\* find the key its licence was signed with.
FleetFindsKeys == \A a \in Agent : client[a].key = OldKey => fate[a] # "unknown_key"
=============================================================================
