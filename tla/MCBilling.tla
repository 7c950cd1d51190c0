------------------------------ MODULE MCBilling ------------------------------
\* Instance of Billing for TLC: a paid tier that is all overage, one with a
\* quota and no overage, and a free one that grants nothing.
EXTENDS Billing, TLC

CONSTANTS trader, pro

MCPaidTier == {trader, pro}
MCQuota == (trader :> 0) @@ (pro :> 1) @@ ("free" :> 0)
MCOverage == (trader :> TRUE) @@ (pro :> FALSE) @@ ("free" :> FALSE)

Symmetry == Permutations(Sub)
=============================================================================
