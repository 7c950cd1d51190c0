----------------------------- MODULE UsageLedger -----------------------------
(***************************************************************************)
(* What metering promises, with no rows, runs, locks, keys or lost         *)
(* answers: what is used in an hour adds up; an open hour is billed, on    *)
(* one item, for no more than was used in it by then, and is open no more; *)
(* only the payment service can open it again; and an hour is settled,     *)
(* that is given up by the job, only when some item has been billed for    *)
(* it.  Nothing says that an hour is billed in full, nor that an hour      *)
(* opened again is billed for more than before.                            *)
(***************************************************************************)
EXTENDS Integers

CONSTANTS Hour, Item

VARIABLES
    used,     \* [Hour -> Nat]: units of overage
    billed,   \* [Item \X Hour -> Nat]: units the customer pays for
    open,     \* hours the payment service would take a bill for
    settled   \* hours some rows of which will not be reported again

ledgerVars == <<used, billed, open, settled>>

Init ==
    /\ used = [h \in Hour |-> 0]
    /\ billed = [x \in Item \X Hour |-> 0]
    /\ open = Hour
    /\ settled = {}

\* A request consumes beyond the quota.
Use(h) ==
    /\ used'[h] > used[h]
    /\ used' = [used EXCEPT ![h] = used'[h]]
    /\ UNCHANGED <<billed, open, settled>>

\* The hour is billed on item i.
Bill(i, h) ==
    /\ h \in open
    /\ billed'[<<i, h>>] \in 1 .. used[h]
    /\ billed' = [billed EXCEPT ![<<i, h>>] = billed'[<<i, h>>]]
    /\ open' = open \ {h}
    /\ UNCHANGED <<used, settled>>

\* The payment service no longer knows that the hour was billed.
Reopen(h) ==
    /\ open' = open \cup {h}
    /\ UNCHANGED <<used, billed, settled>>

\* The hour is done with.
Settle(h) ==
    /\ \E i \in Item : billed[<<i, h>>] > 0
    /\ settled' = settled \cup {h}
    /\ UNCHANGED <<used, billed, open>>

Next ==
    \E h \in Hour :
        \/ Use(h) \/ Reopen(h) \/ Settle(h)
        \/ \E i \in Item : Bill(i, h)

Spec == Init /\ [][Next]_ledgerVars
=============================================================================
