---------------------------- MODULE MCDashboard ----------------------------
\* Instance of Dashboard for TLC.
EXTENDS Dashboard, TLC

CONSTANTS rules, model, k1, k2, k3, k4, o1, r1, r2, c1, c2

MCCap == [free |-> 1, pro |-> 2]
MCWeight == {0, 2}
MCVote ==
    {[strategy |-> rules, kind |-> k, confidence |-> n, size |-> 5] :
        k \in DOMAIN Score, n \in {-100, 40, 100}}
MCTalk ==
    [tools : {0, MaxRounds}, last : {"error", "empty", "json", "prose"},
     decisions : BoundedSeq({[asset |-> t, action |-> a, confidence |-> n, size |-> 30,
                              levels |-> FALSE, plan |-> p] :
                                t \in {k1}, a \in {"buy", "sell"}, n \in {-60, 0, 90},
                                p \in {"none", "text"}}, 1)]
Symmetry == Permutations(Req) \cup Permutations({k2, k3, k4})
=============================================================================
