------------------------------ MODULE Backtest ------------------------------
(***************************************************************************)
(* backtesting/engine.py: run() over daily bars.  The dates are those of   *)
(* the data; the gate reads the wall clock, so to it one run is one day.   *)
(***************************************************************************)
EXTENDS RiskManager

CONSTANTS
    EntrySize,  \* position_size_pct of a signal
    NoExit,     \* no target
    MaxBars     \* bound: dates in the data

ASSUME BacktestAssumption == EntrySize \subseteq 0..100 /\ MaxBars \in Nat

VARIABLES
    bar,       \* dates done or begun
    quoted,    \* the tickers that have a row for the date
    todo,      \* those whose signal has not been asked for
    dayValue,  \* day_value
    exits      \* exits[t]: stop_loss and target of the position

backtestVars == <<bar, quoted, todo, dayValue, exits>>

Exits == [stop : Nat, target : Price \cup {NoExit}]
Unset == [stop |-> 0, target |-> NoExit]

BacktestTypeOK ==
    /\ bar \in 0..MaxBars
    /\ todo \subseteq quoted /\ quoted \subseteq Ticker
    /\ dayValue \in Int
    /\ exits \in [Ticker -> Exits]

BacktestInit ==
    /\ bar = 0
    /\ quoted = {} /\ todo = {}
    /\ dayValue = Capital
    /\ exits = [t \in Ticker |-> Unset]

\* Fault: the target is looked at first and ends the look.
Leaves_TargetOnly(t, p) == exits[t].target # NoExit /\ p >= exits[t].target

\* A position goes at its stop or at its target.
Leaves(t, p) == p <= exits[t].stop \/ (exits[t].target # NoExit /\ p >= exits[t].target)

Sold(leaving, p) ==
    /\ cash' = cash + SumFunctionOnSet(Values(book, p), leaving)
    /\ book' = [t \in Ticker |-> IF t \in leaving THEN Empty ELSE book[t]]
    /\ exits' = [t \in Ticker |-> IF t \in leaving THEN Unset ELSE exits[t]]

\* A new date: the day's value of what has a row, and the exits.
Day(rows, p) ==
    LET here == Held(book) \cap rows
    IN  /\ todo = {} /\ bar < MaxBars
        /\ bar' = bar + 1
        /\ price' = [t \in Ticker |-> IF t \in rows THEN p[t] ELSE price[t]]
        /\ dayValue' = cash + SumFunctionOnSet(Values(book, p), here)
        /\ Sold({t \in here : Leaves(t, p[t])}, p)
        /\ quoted' = rows /\ todo' = rows
        /\ UNCHANGED <<today, risk>>

Enter(t, n, stop, target) ==
    /\ cash' = cash - n * price[t]
    /\ book' = [book EXCEPT ![t] = [shares |-> n, avg |-> price[t]]]
    /\ exits' = [exits EXCEPT ![t] = [stop |-> EnforcedStop(stop, price[t]), target |-> target]]

\* BUY, with 95% of the cash at most; strategies put the stop below the price.
Entry(t) ==
    /\ t \notin Held(book)
    /\ \E pct \in EntrySize, stop \in 0..price[t] - 1,
          target \in {p \in Price : p > price[t]} \cup {NoExit} :
        LET alloc == Min({(dayValue * Min({pct, MaxPosition})) \div 100, (cash * 95) \div 100})
            given == Allotted(alloc, dayValue)
            n == given \div price[t]
        IN  /\ Validates(alloc, dayValue)
            /\ IF Allowed(alloc, cash, dayValue, book) /\ given > MinOrder /\ n > 0
                  /\ n * price[t] <= cash
               THEN Enter(t, n, stop, target)
               ELSE UNCHANGED <<cash, book, exits>>

\* The consensus on one ticker of the date.
FollowsSignal(t) ==
    /\ t \in todo
    /\ todo' = todo \ {t}
    /\ \/ Entry(t)
       \/ t \in Held(book) /\ Sold({t}, price) /\ UNCHANGED risk
       \/ UNCHANGED <<cash, book, exits, risk>>
    /\ UNCHANGED <<today, price, bar, quoted, dayValue>>

BacktestNext ==
    \/ \E rows \in SUBSET Ticker, p \in [Ticker -> Price] : rows # {} /\ Day(rows, p)
    \/ \E t \in Ticker : FollowsSignal(t)
=============================================================================
