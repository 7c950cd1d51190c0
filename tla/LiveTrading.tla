---------------------------- MODULE LiveTrading ----------------------------
(***************************************************************************)
(* The broker adapters of live_trading/: alpaca_bot.py, whose loop scans   *)
(* the watchlist and may submit orders, and hyperliquid_bot.py, called by  *)
(* its users order by order.  `cash`, `book` and the open orders are the   *)
(* broker's; a bot has the counters, its RiskManager and the snapshot of   *)
(* the scan it is in.  main.py starts the Alpaca loop with auto_execute    *)
(* off; here it is on.                                                     *)
(***************************************************************************)
EXTENDS RiskManager

CONSTANTS
    SizePct,         \* position_size_pct of a signal
    MaxDailyTrades,  \* max_daily_trades
    MaxAttempts,     \* max_attempts of _retry: 3
    MaxCalls,        \* bound: scans, or calls of the Hyperliquid adapter
    MaxQty,          \* bound: the size of a Hyperliquid order
    NoScan, NoCall

ASSUME LiveAssumption ==
    /\ SizePct \subseteq 0..100
    /\ {MaxDailyTrades, MaxCalls, MaxQty} \subseteq Nat /\ MaxAttempts \in Nat \ {0}

VARIABLES
    count,   \* daily_trade_count
    placed,  \* history: orders Hyperliquid executed
    calls,   \* history: scans and restarts, or calls made
    open,    \* open[t]: shares of t in orders the broker has yet to fill
    scan,    \* run_scan_and_trade's snapshot and the tickers it has left
    call     \* the order a Hyperliquid call is trying to place

liveVars == <<count, placed, calls, open, scan, call>>

Snapshot == [cash : Int, equity : Int, book : Book, left : SUBSET Ticker]
Call == [ticker : Ticker, qty : Int, tries : 0..MaxAttempts]

\* No scan and no call are not one.
ASSUME CallAssumption == NoScan \notin Snapshot /\ NoCall \notin Call

LiveTypeOK ==
    /\ {count, placed, calls} \subseteq Nat
    /\ open \in [Ticker -> Int]
    /\ scan \in Snapshot \cup {NoScan}
    /\ call \in Call \cup {NoCall}

LiveInit ==
    /\ count = 0 /\ placed = 0 /\ calls = 0
    /\ open = [t \in Ticker |-> 0]
    /\ scan = NoScan
    /\ call = NoCall

\* What the broker makes of an execution of n shares, n < 0 to sell.
After(h, n, p) ==
    CASE h.shares + n = 0 -> Empty
      [] h.shares + n # 0 /\ h.shares * n >= 0 ->
            [shares |-> h.shares + n,
             avg |-> (h.avg * Abs(h.shares) + p * Abs(n)) \div Abs(h.shares + n)]
      [] h.shares + n # 0 /\ h.shares * n < 0 ->
            [shares |-> h.shares + n,
             avg |-> IF Abs(n) > Abs(h.shares) THEN p ELSE h.avg]

Executed(t, n) ==
    /\ cash' = cash - n * price[t]
    /\ book' = [book EXCEPT ![t] = After(@, n, price[t])]

-----------------------------------------------------------------------------
(* Alpaca.                                                                 *)

\* _api.submit_order: accepted, accepted and the answer lost, or refused.
\* Bound: beyond the limit the count says nothing more.
AlpacaOrder(t, n) ==
    \/ /\ open' = [open EXCEPT ![t] = @ + n]
       /\ count' \in {count, Min({count + 1, MaxDailyTrades})}
    \/ UNCHANGED <<open, count>>

\* submit_order refuses at the limit; submit_bracket_order has none.
SubmitOrder(t, n) ==
    IF count >= MaxDailyTrades THEN UNCHANGED <<open, count>> ELSE AlpacaOrder(t, n)

\* One account and one list of positions serve the whole scan.
ScanBegins ==
    /\ scan = NoScan
    /\ calls < MaxCalls
    /\ calls' = calls + 1
    /\ scan' = [cash |-> cash, equity |-> Worth(cash, book, price), book |-> book,
                left |-> Ticker]
    /\ UNCHANGED <<today, price, cash, book, risk, count, placed, open, call>>

Scanned(t) ==
    scan' = IF scan.left = {t} THEN NoScan ELSE [scan EXCEPT !.left = @ \ {t}]

\* Fault: the gate's answer is not looked at.
ScanBuys_Ungated(t, alloc, bracket) ==
    LET qty == Allotted(alloc, scan.equity) \div price[t]
    IN  /\ Validates(alloc, scan.equity)
        /\ IF qty > 0
           THEN IF bracket THEN AlpacaOrder(t, qty) ELSE SubmitOrder(t, qty)
           ELSE UNCHANGED <<open, count>>

\* BUY: a bracket order if the signal has a target.
ScanBuys(t, alloc, bracket) ==
    LET qty == Allotted(alloc, scan.equity) \div price[t]
    IN  /\ Validates(alloc, scan.equity)
        /\ IF Allowed(alloc, scan.cash, scan.equity, scan.book) /\ qty > 0
           THEN IF bracket THEN AlpacaOrder(t, qty) ELSE SubmitOrder(t, qty)
           ELSE UNCHANGED <<open, count>>

\* The consensus on one ticker.
ScanTicker(t) ==
    /\ scan # NoScan /\ t \in scan.left
    /\ \/ /\ t \notin Held(scan.book)
          /\ \E pct \in SizePct, bracket \in BOOLEAN :
                ScanBuys(t, (scan.equity * Min({pct, MaxPosition})) \div 100, bracket)
       \/ /\ scan.book[t].shares > 0
          /\ SubmitOrder(t, -scan.book[t].shares)
          /\ UNCHANGED risk
       \/ UNCHANGED <<open, count, risk>>
    /\ Scanned(t)
    /\ UNCHANGED <<today, price, cash, book, placed, calls, call>>

\* An exception ends the scan; the loop goes on.
ScanFails ==
    /\ scan # NoScan
    /\ scan' = NoScan
    /\ UNCHANGED <<today, price, cash, book, risk, count, placed, calls, open, call>>

\* The loop's process starts again and will scan at once (bound: a restart
\* uses up one of the scans).
BotRestarts ==
    /\ calls < MaxCalls
    /\ calls' = calls + 1
    /\ scan' = NoScan
    /\ count' = 0
    /\ risk' = Untracked
    /\ UNCHANGED <<today, price, cash, book, placed, open, call>>

\* The broker fills an order, or lets the day's orders lapse.
BrokerFills(t) ==
    /\ open[t] # 0
    /\ Executed(t, open[t])
    /\ open' = [open EXCEPT ![t] = 0]
    /\ UNCHANGED <<today, price, risk, count, placed, calls, scan, call>>

BrokerExpires(t) ==
    /\ open[t] # 0
    /\ open' = [open EXCEPT ![t] = 0]
    /\ UNCHANGED <<today, price, cash, book, risk, count, placed, calls, scan, call>>

Quotes(t, p) ==
    /\ price[t] # p
    /\ price' = [price EXCEPT ![t] = p]
    /\ UNCHANGED <<today, cash, book, risk, liveVars>>

AlpacaNext ==
    \/ ScanBegins
    \/ \E t \in Ticker : ScanTicker(t) \/ BrokerFills(t) \/ BrokerExpires(t)
    \/ \E t \in Ticker, p \in Price : Quotes(t, p)
    \/ ScanFails
    \/ BotRestarts

-----------------------------------------------------------------------------
(* Hyperliquid.                                                            *)

Calls(t, n) ==
    /\ call = NoCall
    /\ calls < MaxCalls
    /\ calls' = calls + 1
    /\ call' = [ticker |-> t, qty |-> n, tries |-> 0]
    /\ UNCHANGED <<today, price, cash, book, risk, count, placed, open, scan>>

HlSubmit(t, n) == count < MaxDailyTrades /\ Calls(t, n)

\* close_position asks no limit: an order for what user_state shows now.
HlClose(t) == t \in Held(book) /\ Calls(t, -book[t].shares)

\* The order is executed and the call returns.
HlAnswered ==
    /\ call # NoCall
    /\ Executed(call.ticker, call.qty)
    /\ placed' = placed + 1
    /\ count' = count + 1
    /\ call' = NoCall
    /\ UNCHANGED <<today, price, risk, calls, open, scan>>

\* The exchange answers that it will not: no exception, so the call counts.
HlDeclined ==
    /\ call # NoCall
    /\ count' = count + 1
    /\ call' = NoCall
    /\ UNCHANGED <<today, price, cash, book, risk, placed, calls, open, scan>>

\* Fault: an attempt whose order may have been executed is not counted.
Retried_Forever == call' = call

\* _retry: the same order again, until the last exception is raised.
Retried ==
    call' = IF call.tries + 1 = MaxAttempts THEN NoCall
            ELSE [call EXCEPT !.tries = @ + 1]

HlAnswerLost ==
    /\ call # NoCall
    /\ Executed(call.ticker, call.qty)
    /\ placed' = placed + 1
    /\ Retried
    /\ UNCHANGED <<today, price, risk, count, calls, open, scan>>

HlAttemptFails ==
    /\ call # NoCall
    /\ Retried
    /\ UNCHANGED <<today, price, cash, book, risk, count, placed, calls, open, scan>>

HyperliquidNext ==
    \/ \E t \in Ticker :
        \/ \E n \in -MaxQty..MaxQty : n # 0 /\ HlSubmit(t, n)
        \/ HlClose(t)
    \/ HlAnswered \/ HlDeclined \/ HlAnswerLost \/ HlAttemptFails
=============================================================================
