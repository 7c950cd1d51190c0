SPECIFICATION Spec
CONSTANTS
    rules = rules
    model = model
    k1 = k1
    k2 = k2
    k3 = k3
    k4 = k4
    o1 = o1
    r1 = r1
    r2 = r2
    c1 = c1
    c2 = c2
    Strategy = {rules, model}
    AI = model
    Ticker = {k1, k2, k3, k4}
    MaxRounds = 6
    Req = {r1, r2}
    Client = {c1, c2}
    Scanner = {c1}
    Builtin = {rules}
    DefaultOn = {rules}
    Seed = {k1}
    Org = {o1}
    NoOrg = NoOrg
    Tier = {"free", "pro"}
    NoTier = NoTier
    Cap <- MCCap
    Custom = {"pro"}
    Weight <- MCWeight
    Vote <- MCVote
    Volume = 2
    Talk <- MCTalk
SYMMETRY Symmetry
INVARIANTS ToldOrDropped CapOvershoot ConsensusFollowsVotes
CHECK_DEADLOCK FALSE
