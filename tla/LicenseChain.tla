---------------------------- MODULE LicenseChain ----------------------------
(***************************************************************************)
(* What the control plane promises about credentials, with no time, no     *)
(* database and no messages: a credential is either an install token or a  *)
(* licence; each one buys at most one successor; and every credential      *)
(* descends from an install token of which it is the only live heir.       *)
(***************************************************************************)
CONSTANTS InstallToken, Jti   \* disjoint

Credential == InstallToken \cup Jti

VARIABLES
    life,   \* [Credential -> {"unborn", "live", "spent"}]
    root    \* [Jti -> InstallToken]: the install token a licence descends from

chainVars == <<life, root>>

RootOf(c) == IF c \in Jti THEN root[c] ELSE c

Init ==
    /\ life = [c \in Credential |-> "unborn"]
    /\ root \in [Jti -> InstallToken]

\* An operator hands out an install token.
Mint(t) ==
    /\ life[t] = "unborn"
    /\ life' = [life EXCEPT ![t] = "live"]
    /\ UNCHANGED root

\* A live credential is traded for a fresh licence of the same descent.
Exchange(c, j) ==
    /\ life[c] = "live"
    /\ life[j] = "unborn"
    /\ life' = [life EXCEPT ![c] = "spent", ![j] = "live"]
    /\ root' = [root EXCEPT ![j] = RootOf(c)]

Next ==
    \/ \E t \in InstallToken : Mint(t)
    \/ \E c \in Credential, j \in Jti : Exchange(c, j)

Spec == Init /\ [][Next]_chainVars

\* No cloning: at any moment an install token has at most one live heir, so
\* the licences that can still be renewed never outnumber the tokens minted.
OneLiveHeir ==
    \A c, d \in Credential :
        /\ life[c] = "live"
        /\ life[d] = "live"
        /\ RootOf(c) = RootOf(d)
        => c = d
=============================================================================
