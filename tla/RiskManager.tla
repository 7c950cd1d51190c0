---------------------------- MODULE RiskManager ----------------------------
(***************************************************************************)
(* core/risk_manager.py: the checks a trader asks for before it buys, over *)
(* the account it trades.  Each trader has a RiskManager object of its own *)
(* and hands it the figures it believes in: `c` the cash, `value` the      *)
(* equity, `b` the positions.                                              *)
(*                                                                         *)
(* Money and prices are whole units; percentages are of 100.  Amounts the  *)
(* code keeps as floats are rounded down.                                  *)
(***************************************************************************)
EXTENDS Market, Integers, FiniteSetsExt, Functions

CONSTANTS
    Price,          \* the prices there are
    Capital,        \* initial_capital
    MaxPosition,    \* max_position_pct and MAX_POSITION_SIZE: 10
    MaxExposure,    \* max_total_exposure_pct: 80
    DailyLoss,      \* daily_loss_circuit_breaker_pct: 15
    Reserve,        \* min_balance_reserve_pct: 10
    MandatoryStop,  \* mandatory_sl_pct: 8
    MaxConcurrent,  \* max_concurrent_positions: 10
    MaxLeverage,    \* max_leverage: 1
    MinOrder,       \* min_order_usd: 100
    NoDay,          \* daily_high_date is None
    MaxDay          \* bound: the last UTC date

ASSUME RiskAssumption ==
    /\ Price \subseteq Nat \ {0}
    /\ {Capital, MinOrder, MaxLeverage} \subseteq Nat \ {0}
    /\ {MaxPosition, MaxExposure, DailyLoss, Reserve, MandatoryStop} \subseteq 0..100
    /\ {MaxConcurrent, MaxDay} \subseteq Nat

VARIABLES
    today,   \* the UTC date
    price,   \* price[t]: what the trader is told t costs
    cash,    \* the account: its cash
    book,    \* and its positions, held by a trader or by its broker
    risk     \* the RiskManager's daily tracking

Holding == [shares : Int, avg : Nat]
Empty == [shares |-> 0, avg |-> 0]
Book == [Ticker -> Holding]
Tracking == [high : Int, day : 0..MaxDay \cup {NoDay}, tripped : BOOLEAN]

RiskTypeOK ==
    /\ today \in 0..MaxDay
    /\ price \in [Ticker -> Price]
    /\ cash \in Int
    /\ book \in Book
    /\ risk \in Tracking

Untracked == [high |-> 0, day |-> NoDay, tripped |-> FALSE]

RiskInit ==
    /\ today = 0
    /\ price \in [Ticker -> Price]
    /\ cash = Capital
    /\ book = [t \in Ticker |-> Empty]
    /\ risk = Untracked

Abs(x) == IF x < 0 THEN -x ELSE x

Held(b) == {t \in Ticker : b[t].shares # 0}

\* What positions fetch at prices p, and what they cost.
Values(b, p) == [t \in Ticker |-> b[t].shares * p[t]]
Costs(b) == [t \in Ticker |-> Abs(b[t].shares) * b[t].avg]

Worth(c, b, p) == c + SumFunctionOnSet(Values(b, p), Held(b))

Exposure(b) == SumFunctionOnSet(Costs(b), Held(b))

-----------------------------------------------------------------------------
\* Fault: a new high of the day ends the halt.
Watermark_HighResets(value) ==
    IF risk.day # today \/ value > risk.high
    THEN [high |-> value, day |-> today, tripped |-> FALSE]
    ELSE risk

\* _reset_daily_if_needed
Watermark(value) ==
    IF risk.day # today
    THEN [high |-> value, day |-> today, tripped |-> FALSE]
    ELSE [risk EXCEPT !.high = Max({@, value})]

DrawnDown(r, value) == r.high > 0 /\ (r.high - value) * 100 >= DailyLoss * r.high

\* check_daily_drawdown: what is tracked after it.
Tracked(value) ==
    LET r == Watermark(value)
    IN  [r EXCEPT !.tripped = @ \/ DrawnDown(r, value)]

\* The allocation is raised to the broker's minimum and capped to the largest
\* position, or to the minimum if that is more.
Allotted(alloc, value) ==
    LET a == Max({alloc, MinOrder})
        most == (value * MaxPosition) \div 100
    IN  IF value > 0 /\ a <= most THEN a ELSE Max({most, MinOrder})

\* Fault: the exposure of the account before the trade.
WithinLimits_Before(alloc, c, value, b) ==
    /\ c * 100 >= Capital * Reserve
    /\ Exposure(b) * 100 <= value * MaxExposure
    /\ c > 0 /\ alloc <= MaxLeverage * c
    /\ Cardinality(Held(b)) < MaxConcurrent

\* check_balance_reserve, check_total_exposure, check_leverage and
\* check_concurrent_positions.
WithinLimits(alloc, c, value, b) ==
    /\ c * 100 >= Capital * Reserve
    /\ (Exposure(b) + alloc) * 100 <= value * MaxExposure
    /\ c > 0 /\ alloc <= MaxLeverage * c
    /\ Cardinality(Held(b)) < MaxConcurrent

\* validate_trade of a buy: its answer, and what it leaves tracked.
Allowed(alloc, c, value, b) ==
    /\ alloc > 0
    /\ ~Tracked(value).tripped
    /\ WithinLimits(Allotted(alloc, value), c, value, b)

Validates(alloc, value) == risk' = IF alloc > 0 THEN Tracked(value) ELSE risk

\* enforce_stop_loss of a buy.
EnforcedStop(stop, p) ==
    IF stop > 0 THEN stop ELSE (p * (100 - MandatoryStop)) \div 100

Midnight ==
    /\ today < MaxDay
    /\ today' = today + 1
    /\ UNCHANGED <<price, cash, book, risk>>
=============================================================================
