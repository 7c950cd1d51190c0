--------------------------- MODULE SupportBundles ---------------------------
(***************************************************************************)
(* api/billing/support_bundles.py behind the rate limiter: an upload asks  *)
(* the limiter, proves who it is, is read from the client, put in object   *)
(* storage and only then entered in support_bundles.  Uploads are served   *)
(* together; the database, the storage and the process may fail between    *)
(* any two of these steps.                                                 *)
(*                                                                         *)
(* What the other routes do to the limiter is RateLimit's.                 *)
(***************************************************************************)
EXTENDS RateLimit, FiniteSets

CONSTANTS
    Upload,    \* bundle ids
    TokenTTL,  \* lifetime of an install token
    AfterUse,  \* how long a redeemed one still authenticates an upload
    NotYet     \* consumed_at IS NULL

ASSUME TokenAssumption == TokenTTL \in Nat /\ AfterUse \in Nat /\ NotYet \notin Nat

VARIABLES
    driver,    \* _storage_driver: "kept", or "tmp" when boto3 is missing
    request,   \* request[u]: the upload that gets the id u
    objects,   \* bundles in storage
    local,     \* those of them in /tmp of the host
    rows,      \* support_bundles
    written,   \* history: objects this API process has written
    consumed,  \* install_tokens.consumed_at of the one token, minted at 0
    enrolling  \* enrolments with it under way, each the time it began at

storage == <<objects, local, rows, written>>
token == <<consumed, enrolling>>
bundleVars == <<driver, request, storage, token>>
allVars == <<vars, bundleVars>>

UploadInit ==
    /\ Init
    /\ driver \in IF route = "bundle" THEN {"kept", "tmp"} ELSE {"kept"}
    /\ request = [u \in Upload |-> "none"]
    /\ objects = {} /\ local = {} /\ rows = {} /\ written = {}
    /\ consumed = NotYet /\ enrolling = {}

-----------------------------------------------------------------------------
(* The install token.                                                      *)

\* lookup_install_token: before it is redeemed until it expires, after that
\* for as long as a first boot takes.
TokenAuthenticates ==
    IF consumed = NotYet THEN now < TokenTTL ELSE now - consumed <= AfterUse

\* Fault: an expired token is accepted.
EnrolBegins_Expired ==
    /\ route = "bundle" /\ consumed = NotYet
    /\ enrolling' = enrolling \cup {now}
    /\ UNCHANGED <<vars, driver, request, storage, consumed>>

\* An enrolment reads the clock, once and before anything else, and finds the
\* token unredeemed and, by that clock, unexpired.
EnrolBegins ==
    /\ route = "bundle" /\ consumed = NotYet /\ now < TokenTTL
    /\ enrolling' = enrolling \cup {now}
    /\ UNCHANGED <<vars, driver, request, storage, consumed>>

\* Its commit, which makes the redemption visible with the time of its beginning.
\* The UPDATE lets one of several through.
EnrolCommits(began) ==
    /\ consumed = NotYet
    /\ consumed' = began
    /\ enrolling' = enrolling \ {began}
    /\ UNCHANGED <<vars, driver, request, storage>>

\* It is too late for the token, or fails before its commit.
EnrolFails(began) ==
    /\ enrolling' = enrolling \ {began}
    /\ UNCHANGED <<vars, driver, request, storage, consumed>>

-----------------------------------------------------------------------------
(* The upload.                                                             *)

Becomes(u, what) == request' = [request EXCEPT ![u] = what]

\* The limiter, then the caller: one the middleware knows, or the token's holder.
Begins(c, u, known) ==
    /\ route = "bundle" /\ request[u] = "none"
    /\ Calls(c)
    /\ IF Passes(c) /\ (known \/ TokenAuthenticates)
       THEN Becomes(u, "reading") ELSE UNCHANGED request
    /\ UNCHANGED <<driver, storage, token>>

\* Too large, no gzip, a client that goes away, or storage that refuses: the
\* id was never used.
Ends(u) ==
    /\ request[u] = "reading"
    /\ Becomes(u, "none")
    /\ UNCHANGED <<vars, driver, storage, token>>

Put(u) ==
    /\ objects' = objects \cup {u}
    /\ local' = IF driver = "tmp" THEN local \cup {u} ELSE local
    /\ written' = written \cup {u}

\* Fault: the row is written first.
Stores_RowFirst(u) ==
    /\ request[u] = "reading"
    /\ rows' = rows \cup {u}
    /\ Becomes(u, "stored")
    /\ UNCHANGED <<vars, driver, objects, local, written, token>>

\* The driver returns a URI.
Stores(u) ==
    /\ request[u] = "reading"
    /\ Put(u)
    /\ Becomes(u, "stored")
    /\ UNCHANGED <<vars, driver, rows, token>>

\* The driver raises although the object is there.
StoresUnknowingly(u) ==
    /\ request[u] = "reading"
    /\ Put(u)
    /\ Becomes(u, "done")
    /\ UNCHANGED <<vars, driver, rows, token>>

\* INSERT, the notes and the commit.
Commits(u) ==
    /\ request[u] = "stored"
    /\ rows' = rows \cup {u}
    /\ Becomes(u, "done")
    /\ UNCHANGED <<vars, driver, objects, local, written, token>>

\* The transaction fails; the object stays.
CommitFails(u) ==
    /\ request[u] = "stored"
    /\ Becomes(u, "done")
    /\ UNCHANGED <<vars, driver, storage, token>>

\* A new process, perhaps on another host: requests are gone, and maybe /tmp.
Restarts ==
    /\ route = "bundle"
    /\ ServerRestarts
    /\ request' = [u \in Upload |-> CASE request[u] \in {"none", "reading"} -> "none"
                                      [] request[u] \in {"stored", "done"} -> "done"]
    /\ objects' \in {objects, objects \ local}
    /\ written' = {} /\ enrolling' = {}
    /\ UNCHANGED <<driver, local, rows, consumed>>

UploadNext ==
    \/ \E u \in Upload :
          \/ \E c \in Client, known \in BOOLEAN : Begins(c, u, known)
          \/ Ends(u) \/ Stores(u) \/ StoresUnknowingly(u) \/ Commits(u) \/ CommitFails(u)
    \/ EnrolBegins
    \/ \E began \in enrolling : EnrolCommits(began) \/ EnrolFails(began)
    \/ Restarts
    \/ route = "bundle" /\ Tick /\ UNCHANGED bundleVars
    \/ route # "bundle" /\ Next /\ UNCHANGED bundleVars

UploadSpec == UploadInit /\ [][UploadNext]_allVars

-----------------------------------------------------------------------------
(* Properties.                                                             *)

\* Whatever fails where, a row has its object, unless that was on a host's /tmp.
NoGhostRows == rows \subseteq objects \cup local

\* However uploads fail and are tried again, one address cannot put more objects
\* in storage than its hourly bucket has granted since this process runs.
StorageBounded ==
    Cardinality(written) * Cost <=
        Limit["bundle"].second.capacity
            + Limit["bundle"].second.refill * (now - since[Hour])

\* A token that does not authenticate an upload any more does so again only when
\* an enrolment that began before it expired commits after that, and no longer
\* than AfterUse past its expiry; a redeemed one never again.
DeadTokenStaysDead ==
    [][~TokenAuthenticates /\ TokenAuthenticates' =>
          consumed = NotYet /\ consumed' \in enrolling /\ now < TokenTTL + AfterUse]_allVars
=============================================================================
