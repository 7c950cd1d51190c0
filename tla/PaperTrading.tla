---------------------------- MODULE PaperTrading ----------------------------
(***************************************************************************)
(* The paper account (paper_trading/simulator.py) as the program uses it:  *)
(* the dashboard server keeps it in memory, trades it through /api/trade   *)
(* and rewrites one JSON file after every trade; `main.py --mode paper`    *)
(* loads the same file, scans and writes it back.  Neither locks the file, *)
(* and each has its own RiskManager.                                       *)
(***************************************************************************)
EXTENDS RiskManager

CONSTANTS
    Lots,        \* bound: the numbers of shares requests ask for, of either sign
    MaxTrades,   \* bound: the length of the trade history
    Torn,        \* the file cannot be parsed
    NotRunning   \* no scan of the command line

ASSUME PaperAssumption == Lots \subseteq Int /\ MaxTrades \in Nat

VARIABLES
    last,    \* last[t]: last_price of the server's position
    trades,  \* length of the server's trade_history
    drawn,   \* what its sales of negative numbers of shares took
    file,    \* data/paper_trading_state.json
    cli      \* the account as a running command-line scan loaded it

paperVars == <<last, trades, drawn, file, cli>>

Account == [cash : Int, book : Book, last : [Ticker -> Price],
            trades : 0..MaxTrades, drawn : Nat]

\* What is no account cannot be mistaken for one.
ASSUME AccountAssumption == Torn \notin Account /\ NotRunning \notin Account

PaperTypeOK ==
    /\ last \in [Ticker -> Price]
    /\ trades \in 0..MaxTrades
    /\ drawn \in Nat
    /\ file \in Account \cup {Torn}
    /\ cli \in Account \cup {NotRunning}

\* last is kept for positions only: elsewhere it is some price.
SomePrice == CHOOSE p \in Price : TRUE
DefaultState ==
    [cash |-> Capital, book |-> [t \in Ticker |-> Empty],
     last |-> [t \in Ticker |-> SomePrice], trades |-> 0, drawn |-> 0]

PaperInit ==
    /\ last = DefaultState.last
    /\ trades = 0
    /\ drawn = 0
    /\ file = DefaultState
    /\ cli = NotRunning

\* get_portfolio_value()
Equity == Worth(cash, book, last)

\* save_state of what the server has by then.
Saves == file' = [cash |-> cash', book |-> book', last |-> last',
                  trades |-> trades', drawn |-> drawn']

\* The average cost, rounded down.
Added(h, n, p) ==
    [shares |-> h.shares + n, avg |-> (h.avg * h.shares + p * n) \div (h.shares + n)]

\* Fault: the cash is taken for granted once the gate has agreed.
Affordable_Gated(n, p) == TRUE

Affordable(n, p) == n * p <= cash

Books(t, n) ==
    /\ trades < MaxTrades
    /\ cash' = cash - n * price[t]
    /\ book' = [book EXCEPT ![t] = Added(@, n, price[t])]
    /\ last' = [last EXCEPT ![t] = price[t]]
    /\ trades' = trades + 1
    /\ UNCHANGED drawn
    /\ Saves

\* /api/trade BUY of n shares, or of the dollars n shares cost.
ExecuteBuy(t, n) ==
    LET alloc == n * price[t]
        shares == Allotted(alloc, Equity) \div price[t]
    IN  /\ n > 0
        /\ Validates(alloc, Equity)
        /\ IF Allowed(alloc, cash, Equity, book) /\ shares > 0 /\ Affordable(shares, price[t])
           THEN Books(t, shares)
           ELSE UNCHANGED <<cash, book, last, trades, drawn, file>>
        /\ UNCHANGED <<today, price, cli>>

\* The shares a SELL of n of h is about: of all, when n is none or is more.
Selling(h, n) == IF n = 0 THEN h.shares ELSE Min({n, h.shares})

\* /api/trade SELL of n shares.  A negative number adds to the position and
\* takes cash, and nothing asks whether there is any.
ExecuteSell(t, n) ==
    /\ trades < MaxTrades
    /\ t \in Held(book)
    /\ LET shares == Selling(book[t], n)
       IN  /\ cash' = cash + shares * price[t]
           /\ drawn' = IF shares < 0 THEN drawn - shares * price[t] ELSE drawn
           /\ book' = [book EXCEPT ![t] = IF shares = book[t].shares THEN Empty
                                          ELSE [book[t] EXCEPT !.shares = @ - shares]]
           /\ last' = IF shares = book[t].shares THEN [last EXCEPT ![t] = SomePrice] ELSE last
    /\ trades' = trades + 1
    /\ Saves
    /\ UNCHANGED <<today, price, risk, cli>>

\* /api/watchlist/add fetches the ticker's data, also of one that is there.
FetchesPrice(t, p) ==
    /\ price' = [price EXCEPT ![t] = p]
    /\ UNCHANGED <<today, cash, book, risk, paperVars>>

\* _load_state
Loaded(f) == IF f = Torn THEN DefaultState ELSE f

\* The server goes down, possibly while it rewrites the file in place, and
\* comes up with what is there.
ReloadsAccount(f) ==
    /\ f \in {file, Torn}
    /\ file' = f
    /\ cash' = Loaded(f).cash /\ book' = Loaded(f).book
    /\ last' = Loaded(f).last /\ trades' = Loaded(f).trades /\ drawn' = Loaded(f).drawn
    /\ risk' = Untracked
    /\ UNCHANGED <<today, price, cli>>

\* The command line loads the file, while the server rewrites it at worst.
CliLoads ==
    /\ cli = NotRunning
    /\ cli' \in {Loaded(file), DefaultState}
    /\ UNCHANGED <<today, price, cash, book, risk, last, trades, drawn, file>>

\* run_scan: the last prices of what it loaded, and its own save.
CliSaves(p) ==
    /\ cli # NotRunning
    /\ file' = [cli EXCEPT !.last = [t \in Ticker |->
                    IF t \in Held(cli.book) THEN p[t] ELSE @[t]]]
    /\ cli' = NotRunning
    /\ UNCHANGED <<today, price, cash, book, risk, last, trades, drawn>>

PaperNext ==
    \/ \E t \in Ticker, n \in Lots : ExecuteBuy(t, n) \/ ExecuteSell(t, n)
    \/ \E t \in Ticker, p \in Price : FetchesPrice(t, p)
    \/ ReloadsAccount(file) \/ ReloadsAccount(Torn)
    \/ CliLoads
    \/ \E p \in [Ticker -> Price] : CliSaves(p)
=============================================================================
