------------------------------ MODULE Trading ------------------------------
(***************************************************************************)
(* The traders the program can run, each with its account and its own      *)
(* RiskManager: a behaviour follows one of them.  main.py's --mode and     *)
(* api/server.py's lifespan decide which a process has.                    *)
(***************************************************************************)
EXTENDS PaperTrading, LiveTrading, Backtest

VARIABLE mode  \* the trader this behaviour is about

tradingVars == <<mode, today, price, cash, book, risk, paperVars, liveVars, backtestVars>>

Mode == {"paper", "alpaca", "hyperliquid", "backtest"}

TradingTypeOK ==
    /\ mode \in Mode
    /\ RiskTypeOK /\ PaperTypeOK /\ LiveTypeOK /\ BacktestTypeOK

TradingInit ==
    /\ mode \in Mode
    /\ RiskInit /\ PaperInit /\ LiveInit /\ BacktestInit

TradingNext ==
    \/ mode = "paper" /\ PaperNext /\ UNCHANGED <<mode, liveVars, backtestVars>>
    \/ mode = "alpaca" /\ AlpacaNext /\ UNCHANGED <<mode, paperVars, backtestVars>>
    \/ mode = "hyperliquid" /\ HyperliquidNext /\ UNCHANGED <<mode, paperVars, backtestVars>>
    \/ mode = "backtest" /\ BacktestNext /\ UNCHANGED <<mode, paperVars, liveVars>>
    \/ Midnight /\ UNCHANGED <<mode, paperVars, liveVars, backtestVars>>

TradingSpec == TradingInit /\ [][TradingNext]_tradingVars

-----------------------------------------------------------------------------
(* Properties.                                                             *)

\* No buy overdraws a simulated account, whatever the gate raises it to and
\* whichever copy of the account is loaded again, the file and the one a
\* command-line scan is about to write included: a backtest never owes
\* anything, a paper account no more than its SELLs of negative numbers took.
NeverOverdrawn ==
    /\ mode = "backtest" => cash >= 0
    /\ mode = "paper" => cash + drawn >= 0 /\ \A a \in {file, cli} \cap Account : a.cash + a.drawn >= 0

\* A buy of a simulated account shows in its positions, one of a bot in an order.
\* A SELL of a negative number adds to a position too, but passes no check: what
\* it takes tells it from a buy.
Bought == drawn' = drawn /\ \E t \in Ticker : book'[t].shares > book[t].shares
Ordered == scan' # scan /\ \E t \in Ticker : open'[t] > open[t]

Restarted == risk' = Untracked

\* Within one run of the server or of a backtest a buy, also one after sales of
\* negative numbers, leaves the cost of all
\* positions within its share of the equity the buy was judged by.
ExposureWithinLimit ==
    [][Bought /\ ~Restarted /\ mode \in {"paper", "backtest"} =>
        Exposure(book') * 100 <= MaxExposure * (IF mode = "paper" THEN Equity ELSE dayValue)]_tradingVars

\* Once the daily loss has tripped the breaker, its RiskManager lets no trader
\* buy or order a purchase before the next UTC date, whatever the account does;
\* only the SELL of a negative number does not ask it.
BreakerHolds ==
    [][risk.tripped /\ risk.day = today /\ ~Restarted =>
        CASE mode \in {"paper", "backtest"} -> ~Bought
          [] mode = "alpaca" -> ~Ordered
          [] OTHER -> TRUE]_tradingVars

\* After the exits of a date no position is left at or below its stop, if the
\* data has a row for it: entries of the same date included.
StopsHonoured ==
    mode = "backtest" =>
        \A t \in Held(book) \cap quoted : price[t] > exits[t].stop

\* Whatever answers are lost on Hyperliquid, no call is counted twice, one under
\* way is not counted yet, and none makes more than MaxAttempts orders.
OrdersMatchCalls ==
    mode = "hyperliquid" =>
        /\ count + (IF call = NoCall THEN 0 ELSE 1) <= calls
        /\ placed <= MaxAttempts * (calls - 1) + (IF call = NoCall THEN MaxAttempts ELSE call.tries)
=============================================================================
