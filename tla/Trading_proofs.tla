--------------------------- MODULE Trading_proofs ---------------------------
(***************************************************************************)
(* Proofs about the traders and about the server they are watched and run  *)
(* from.  The traders: for any tickers, prices, limits, lots and sizes.    *)
(* The server: for every number of clients, of requests under way at once  *)
(* and of tickers, every cap and every change of tier.                     *)
(***************************************************************************)
EXTENDS Trading, Dashboard, Sums, SequenceTheorems, TLAPS

-----------------------------------------------------------------------------
(* Arithmetic.                                                             *)

\* The larger and the smaller of two numbers.
LEMMA OfTwo ==
    ASSUME NEW a \in Int, NEW b \in Int
    PROVE  /\ Max({a, b}) \in {a, b} /\ Max({a, b}) >= a /\ Max({a, b}) >= b
           /\ Min({a, b}) \in {a, b} /\ Min({a, b}) <= a /\ Min({a, b}) <= b
<1>1. \E x \in {a, b} : \A y \in {a, b} : x >= y
  <2>1. CASE a >= b
    BY <2>1
  <2>2. CASE ~(a >= b)
    BY <2>2
  <2>3. QED
    BY <2>1, <2>2
<1>2. \E x \in {a, b} : \A y \in {a, b} : x <= y
  <2>1. CASE a <= b
    BY <2>1
  <2>2. CASE ~(a <= b)
    BY <2>2
  <2>3. QED
    BY <2>1, <2>2
<1>3. Max({a, b}) \in {a, b} /\ \A y \in {a, b} : Max({a, b}) >= y
  BY <1>1 DEF Max
<1>4. Min({a, b}) \in {a, b} /\ \A y \in {a, b} : Min({a, b}) <= y
  BY <1>2 DEF Min
<1>5. QED
  BY <1>3, <1>4

\* A quotient rounded down.
LEMMA Quotient ==
    ASSUME NEW x \in Int, NEW y \in Nat \ {0}
    PROVE  /\ x \div y \in Int /\ (x \div y) * y <= x
           /\ x >= 0 => x \div y >= 0
OBVIOUS

\* Products of natural numbers.
LEMMA Product ==
    ASSUME NEW x \in Nat, NEW y \in Nat
    PROVE  x * y \in Nat
OBVIOUS

\* Absolute values are natural numbers.
LEMMA AbsType ==
    ASSUME NEW x \in Int
    PROVE  /\ Abs(x) \in Nat /\ (x >= 0 => Abs(x) = x)
           /\ x # 0 => Abs(x) > 0
BY DEF Abs

-----------------------------------------------------------------------------
(* The traders.  Facts about the operators of the risk manager.            *)

\* What a position fetches is an amount.
LEMMA ValuesType ==
    ASSUME NEW b \in Book, NEW p \in [Ticker -> Nat]
    PROVE  \A t \in Ticker : Values(b, p)[t] \in Int /\ Values(b, p)[t] = b[t].shares * p[t]
<1>1. \A t \in Ticker : b[t].shares \in Int /\ p[t] \in Nat
  BY DEF Book, Holding
<1>2. \A t \in Ticker : b[t].shares * p[t] \in Int
  BY <1>1
<1>3. QED
  BY <1>2 DEF Values

\* What it cost is not negative.
LEMMA CostsType ==
    ASSUME NEW b \in Book
    PROVE  \A t \in Ticker : /\ Costs(b)[t] \in Nat
                             /\ Costs(b)[t] = Abs(b[t].shares) * b[t].avg
<1>1. \A t \in Ticker : b[t].shares \in Int /\ b[t].avg \in Nat
  BY DEF Book, Holding
<1>2. \A t \in Ticker : Abs(b[t].shares) * b[t].avg \in Nat
  BY <1>1, AbsType, Product
<1>3. QED
  BY <1>2 DEF Costs

\* Positions are those of tickers.
LEMMA HeldFinite ==
    ASSUME NEW b, NEW S \in SUBSET Held(b)
    PROVE  IsFiniteSet(S) /\ S \subseteq Ticker
BY TickerAssumption, FS_Subset DEF Held

\* What positions are worth is an amount; without short ones it is not negative.
LEMMA ValueType ==
    ASSUME NEW b \in Book, NEW p \in [Ticker -> Nat], NEW S \in SUBSET Held(b)
    PROVE  /\ SumFunctionOnSet(Values(b, p), S) \in Int
           /\ (\A t \in Ticker : b[t].shares >= 0) => SumFunctionOnSet(Values(b, p), S) >= 0
<1>1. IsFiniteSet(S) /\ S \subseteq Ticker
  BY HeldFinite
<1>2. \A t \in S : Values(b, p)[t] \in Int
  BY <1>1, ValuesType
<1>3. ASSUME \A t \in Ticker : b[t].shares >= 0
      PROVE  \A t \in S : Values(b, p)[t] >= 0
  <2> SUFFICES ASSUME NEW t \in S PROVE Values(b, p)[t] >= 0
    OBVIOUS
  <2>1. b[t].shares \in Nat /\ p[t] \in Nat
    BY <1>1, <1>3 DEF Book, Holding
  <2>2. b[t].shares * p[t] \in Nat
    BY <2>1, Product
  <2>3. QED
    BY <1>1, <2>2, ValuesType
<1>4. QED
  BY <1>1, <1>2, <1>3, SumType

\* So is the worth of an account.
LEMMA WorthType ==
    ASSUME NEW c \in Int, NEW b \in Book, NEW p \in [Ticker -> Nat]
    PROVE  Worth(c, b, p) \in Int
<1>1. SumFunctionOnSet(Values(b, p), Held(b)) \in Int
  BY ValueType
<1>2. QED
  BY <1>1 DEF Worth

\* Tickers without a position cost nothing: exposure is a sum over all of them.
LEMMA ExposureOfAll ==
    ASSUME NEW b \in Book
    PROVE  /\ Exposure(b) = SumFunctionOnSet(Costs(b), Ticker)
           /\ Exposure(b) \in Int
<1> DEFINE f == Costs(b)
           held == Held(b)
           rest == Ticker \ held
<1>1. \A t \in Ticker : f[t] \in Int /\ f[t] = Abs(b[t].shares) * b[t].avg
  BY CostsType
<1>2. /\ IsFiniteSet(held) /\ IsFiniteSet(rest) /\ held \cap rest = {}
      /\ held \cup rest = Ticker
  BY TickerAssumption, FS_Subset DEF Held
<1>3. \A t \in rest : f[t] = 0
  <2> SUFFICES ASSUME NEW t \in rest PROVE f[t] = 0
    OBVIOUS
  <2>1. b[t].shares = 0 /\ b[t].avg \in Nat
    BY DEF Held, Book, Holding
  <2>2. Abs(b[t].shares) = 0
    BY <2>1 DEF Abs
  <2>3. QED
    BY <1>1, <2>1, <2>2
<1>4. SumFunctionOnSet(f, rest) = 0
  BY <1>2, <1>3, SumOfZeros
<1> DEFINE sh == SumFunctionOnSet(f, held)
<1>5. SumFunctionOnSet(f, held \cup rest) = sh + SumFunctionOnSet(f, rest)
  <2> HIDE DEF f, held, rest
  <2>1. QED
    BY <1>1, <1>2, SumUnion
<1>6. sh \in Int
  BY <1>1, <1>2, SumType
<1>7. SumFunctionOnSet(f, Ticker) = sh
  <2> HIDE DEF f, held, rest, sh
  <2>1. QED
    BY <1>2, <1>4, <1>5, <1>6
<1>8. QED
  BY <1>6, <1>7 DEF Exposure

\* A position that is changed changes the exposure by what it costs more.
LEMMA ExposureChange ==
    ASSUME NEW b \in Book, NEW t \in Ticker, NEW h \in Holding
    PROVE  Exposure([b EXCEPT ![t] = h])
             = Exposure(b) + Abs(h.shares) * h.avg - Abs(b[t].shares) * b[t].avg
<1> DEFINE b2 == [b EXCEPT ![t] = h]
           f == Costs(b)
           g == Costs(b2)
<1>1. b2 \in Book /\ b2[t] = h /\ \A u \in Ticker \ {t} : b2[u] = b[u]
  BY DEF Book
<1>2. \A u \in Ticker : f[u] \in Int /\ f[u] = Abs(b[u].shares) * b[u].avg
  BY CostsType
<1> HIDE DEF b2
<1>3. \A u \in Ticker : g[u] \in Int /\ g[u] = Abs(b2[u].shares) * b2[u].avg
  BY <1>1, CostsType
<1>4. \A u \in Ticker \ {t} : f[u] = g[u]
  BY <1>1, <1>2, <1>3
<1> HIDE DEF f, g
<1>5. SumFunctionOnSet(g, Ticker) = SumFunctionOnSet(f, Ticker) + g[t] - f[t]
  <2>1. IsFiniteSet(Ticker)
    BY TickerAssumption
  <2>2. \A u \in Ticker : f[u] \in Int /\ g[u] \in Int
    BY <1>2, <1>3
  <2>3. QED
    BY <1>4, <2>1, <2>2, SumChange
<1>6. /\ Exposure(b) = SumFunctionOnSet(f, Ticker)
      /\ Exposure(b2) = SumFunctionOnSet(g, Ticker)
  BY <1>1, ExposureOfAll DEF f, g
<1>7. g[t] = Abs(h.shares) * h.avg /\ f[t] = Abs(b[t].shares) * b[t].avg
  BY <1>1, <1>2, <1>3
<1>8. QED
  BY <1>5, <1>6, <1>7 DEF b2

\* What is allotted is an amount.
LEMMA AllottedType ==
    ASSUME NEW alloc \in Int, NEW value \in Int
    PROVE  Allotted(alloc, value) \in Int
<1>1. MinOrder \in Int /\ MaxPosition \in Int
  BY RiskAssumption
<1>2. value * MaxPosition \in Int
  BY <1>1
<1>3. (value * MaxPosition) \div 100 \in Int
  BY <1>2, Quotient
<1>4. /\ Max({alloc, MinOrder}) \in Int
      /\ Max({(value * MaxPosition) \div 100, MinOrder}) \in Int
  BY <1>1, <1>3, OfTwo
<1>5. QED
  BY <1>4 DEF Allotted

\* The daily tracking keeps its type.
LEMMA TrackedType ==
    ASSUME RiskTypeOK, NEW value \in Int
    PROVE  Tracked(value) \in Tracking
<1>1. risk \in Tracking /\ risk.high \in Int /\ today \in 0..MaxDay
  BY DEF RiskTypeOK, Tracking
<1>2. Max({risk.high, value}) \in Int
  BY <1>1, OfTwo
<1>3. Watermark(value) \in Tracking
  BY <1>1, <1>2 DEF Watermark, Tracking
<1>4. [Watermark(value) EXCEPT !.tripped = @ \/ DrawnDown(Watermark(value), value)] \in Tracking
  <2> DEFINE w == Watermark(value)
             d == w.tripped \/ DrawnDown(w, value)
  <2>1. d \in BOOLEAN
    BY <1>3 DEF Tracking, DrawnDown
  <2>2. w \in Tracking
    BY <1>3
  <2> HIDE DEF w, d
  <2>3. [w EXCEPT !.tripped = d] \in Tracking
    BY <2>1, <2>2 DEF Tracking
  <2>4. QED
    BY <2>3 DEF w, d
<1>5. QED
  BY <1>4 DEF Tracked

\* A tripped breaker stays tripped for the rest of the date: nothing is allowed.
LEMMA TrippedBars ==
    ASSUME risk \in Tracking, risk.tripped, risk.day = today,
           NEW alloc, NEW c, NEW value, NEW b
    PROVE  ~Allowed(alloc, c, value, b)
<1>1. Watermark(value) = [risk EXCEPT !.high = Max({@, value})]
  BY DEF Watermark
<1>2. Watermark(value).tripped = TRUE /\ DOMAIN Watermark(value) = {"high", "day", "tripped"}
  BY <1>1 DEF Tracking
<1>3. Tracked(value).tripped = (Watermark(value).tripped \/ DrawnDown(Watermark(value), value))
  BY <1>2 DEF Tracked
<1>4. QED
  BY <1>2, <1>3 DEF Allowed

-----------------------------------------------------------------------------
(* The inductive invariant of the traders.                                 *)

\* Cash c, or what is accounted for of it, is no debt and no position is short.
Solvent(c, b) == c >= 0 /\ \A t \in Ticker : b[t].shares >= 0

\* Simulated accounts are solvent, the paper one but for what its sales of
\* negative numbers took, the file and the copy of a scan included.
AccountsInv ==
    /\ mode = "backtest" => Solvent(cash, book)
    /\ mode = "paper" => Solvent(cash + drawn, book)
    /\ \A a \in {file, cli} \cap Account : Solvent(a.cash + a.drawn, a.book)

\* A Hyperliquid call under way has attempts left.
CallsInv ==
    /\ OrdersMatchCalls
    /\ mode = "hyperliquid" /\ call # NoCall => call.tries < MaxAttempts

TradeInv == TradingTypeOK /\ AccountsInv /\ CallsInv

\* What the parts of the type invariant say, in the words the steps need.
LEMMA Typed ==
    ASSUME TradingTypeOK
    PROVE  /\ price \in [Ticker -> Price] /\ price \in [Ticker -> Nat]
           /\ last \in [Ticker -> Price] /\ last \in [Ticker -> Nat]
           /\ \A t \in Ticker : price[t] \in Nat \ {0} /\ book[t] \in Holding
           /\ cash \in Int /\ book \in Book /\ risk \in Tracking
           /\ today \in 0..MaxDay /\ trades \in 0..MaxTrades /\ drawn \in Nat
           /\ file \in Account \cup {Torn} /\ cli \in Account \cup {NotRunning}
BY RiskAssumption DEF TradingTypeOK, RiskTypeOK, PaperTypeOK, Book

\* Where prices are quoted there is some price.
LEMMA SomePriceType ==
    ASSUME TradingTypeOK
    PROVE  \A t \in Ticker : SomePrice \in Price
BY Typed DEF SomePrice

\* A check of the gate keeps the tracking's type.
LEMMA ValidatesType ==
    ASSUME TradingTypeOK, NEW alloc, NEW value \in Int, Validates(alloc, value)
    PROVE  risk' \in Tracking
BY TrackedType DEF Validates, TradingTypeOK, RiskTypeOK

-----------------------------------------------------------------------------
(* The paper account.                                                      *)

\* Shares bought on top of others: at their average cost, rounded down, no more
\* than what was paid for all.
LEMMA AddedFacts ==
    ASSUME NEW h \in Holding, h.shares >= 0, NEW n \in Nat \ {0}, NEW p \in Nat
    PROVE  /\ Added(h, n, p) \in Holding
           /\ Added(h, n, p).shares = h.shares + n
           /\ Abs(Added(h, n, p).shares) * Added(h, n, p).avg
                 <= Abs(h.shares) * h.avg + n * p
<1> DEFINE paid == h.avg * h.shares + p * n
           all == h.shares + n
           avg == paid \div all
<1>1. h.shares \in Nat /\ h.avg \in Nat /\ n \in Nat
  BY DEF Holding
<1>2. h.avg * h.shares \in Nat /\ p * n \in Nat
  BY <1>1, Product
<1>3. paid \in Nat /\ all \in Nat \ {0}
  BY <1>1, <1>2
<1>4. avg \in Nat /\ avg * all <= paid
  <2> HIDE DEF paid, all
  <2>1. QED
    BY <1>3, Quotient
<1>5. Added(h, n, p) = [shares |-> all, avg |-> avg]
  BY DEF Added
<1>6. Abs(all) = all /\ Abs(h.shares) = h.shares
  BY <1>1, <1>3, AbsType
<1>7. all * avg = avg * all /\ paid = h.shares * h.avg + n * p
  <2>1. \A x, y \in Nat : x * y = y * x
    OBVIOUS
  <2>2. h.avg * h.shares = h.shares * h.avg /\ p * n = n * p
    BY <1>1, <2>1
  <2>3. all * avg = avg * all
    <3> HIDE DEF all, avg
    <3>1. QED
      BY <1>3, <1>4, <2>1
  <2>4. QED
    BY <2>2, <2>3
<1>8. Added(h, n, p) \in Holding
  <2> HIDE DEF all, avg
  <2>1. QED
    BY <1>3, <1>4, <1>5 DEF Holding
<1> HIDE DEF all, avg, paid
<1>9. Abs(Added(h, n, p).shares) * Added(h, n, p).avg <= Abs(h.shares) * h.avg + n * p
  BY <1>4, <1>5, <1>6, <1>7
<1>10. QED
  BY <1>5, <1>8, <1>9 DEF all

\* What the server has can be saved.
LEMMA SavedType ==
    ASSUME cash' \in Int, book' \in Book, last' \in [Ticker -> Price],
           trades' \in 0..MaxTrades, drawn' \in Nat, Solvent(cash' + drawn', book'), Saves
    PROVE  file' \in Account /\ Solvent(file'.cash + file'.drawn, file'.book)
BY DEF Saves, Account

\* A buy that can be paid for.
LEMMA BooksFacts ==
    ASSUME TradingTypeOK, Solvent(cash + drawn, book), NEW t \in Ticker, NEW n \in Nat \ {0},
           Affordable(n, price[t]), Books(t, n)
    PROVE  /\ cash' \in Int /\ book' \in Book /\ Solvent(cash' + drawn', book')
           /\ last' \in [Ticker -> Price] /\ trades' \in 0..MaxTrades /\ drawn' = drawn
           /\ Exposure(book') <= Exposure(book) + n * price[t]
<1> DEFINE h == Added(book[t], n, price[t])
           cost == n * price[t]
<1>1. /\ price[t] \in Nat \ {0} /\ price[t] \in Price /\ book[t] \in Holding
      /\ book[t].shares >= 0
      /\ cash \in Int /\ book \in Book /\ last \in [Ticker -> Price] /\ trades \in 0..MaxTrades
      /\ drawn \in Nat
  BY Typed DEF Solvent
<1>2. cost \in Nat /\ cost <= cash
  BY <1>1, Product DEF Affordable
<1>3. /\ h \in Holding /\ h.shares = book[t].shares + n
      /\ Abs(h.shares) * h.avg <= Abs(book[t].shares) * book[t].avg + cost
  BY <1>1, AddedFacts
<1>4. /\ cash' = cash - cost /\ book' = [book EXCEPT ![t] = h]
      /\ last' = [last EXCEPT ![t] = price[t]] /\ trades' = trades + 1 /\ trades < MaxTrades
      /\ drawn' = drawn
  BY DEF Books
<1> HIDE DEF h, cost
<1>5. cash' \in Int /\ cash' + drawn' >= 0
  BY <1>1, <1>2, <1>4
<1>6. book' \in Book
  BY <1>1, <1>3, <1>4 DEF Book
<1>7. \A u \in Ticker : book'[u].shares >= 0
  <2>1. book'[t] = h /\ \A u \in Ticker \ {t} : book'[u] = book[u]
    BY <1>1, <1>4 DEF Book
  <2>2. h.shares >= 0
    BY <1>1, <1>3 DEF Holding
  <2>3. QED
    BY <2>1, <2>2 DEF Solvent
<1>8. last' \in [Ticker -> Price] /\ trades' \in 0..MaxTrades
  BY <1>1, <1>4, PaperAssumption
<1>9. Exposure(book')
        = Exposure(book) + Abs(h.shares) * h.avg - Abs(book[t].shares) * book[t].avg
  BY <1>1, <1>3, <1>4, ExposureChange
<1>10. Exposure(book') <= Exposure(book) + cost
  <2> DEFINE new == Abs(h.shares) * h.avg
             old == Abs(book[t].shares) * book[t].avg
  <2>1. new \in Int /\ old \in Int
    BY <1>1, <1>3, AbsType, Product DEF Holding
  <2>2. Exposure(book) \in Int
    BY <1>1, ExposureOfAll
  <2>3. Exposure(book') = Exposure(book) + new - old /\ new <= old + cost
    BY <1>3, <1>9
  <2> HIDE DEF new, old
  <2>4. QED
    BY <1>2, <2>1, <2>2, <2>3
<1>11. QED
  BY <1>4, <1>5, <1>6, <1>7, <1>8, <1>10 DEF Solvent, cost

\* A buy books nothing, or shares the gate allowed and the cash pays for.
LEMMA BuyFacts ==
    ASSUME TradingTypeOK, NEW t \in Ticker, NEW n \in Lots, ExecuteBuy(t, n)
    PROVE  \/ UNCHANGED <<cash, book, last, trades, drawn, file>>
           \/ \E alloc \in Nat, s \in Nat \ {0} :
                 /\ Allowed(alloc, cash, Equity, book) /\ Affordable(s, price[t])
                 /\ s * price[t] <= Allotted(alloc, Equity)
                 /\ Books(t, s)
<1> DEFINE alloc == n * price[t]
           s == Allotted(alloc, Equity) \div price[t]
<1>1. n \in Nat /\ price[t] \in Nat \ {0}
  BY PaperAssumption, Typed DEF ExecuteBuy
<1>2. alloc \in Nat /\ Equity \in Int
  BY <1>1, Product, Typed, WorthType DEF Equity
<1>3. Allotted(alloc, Equity) \in Int
  <2> HIDE DEF alloc
  <2>1. QED
    BY <1>2, AllottedType
<1>4. s \in Int /\ s * price[t] <= Allotted(alloc, Equity)
  <2> HIDE DEF alloc
  <2>1. QED
    BY <1>1, <1>3, Quotient
<1>5. \/ UNCHANGED <<cash, book, last, trades, drawn, file>>
      \/ /\ Allowed(alloc, cash, Equity, book) /\ s > 0 /\ Affordable(s, price[t])
         /\ Books(t, s)
  BY DEF ExecuteBuy
<1> HIDE DEF alloc, s
<1>6. QED
  BY <1>2, <1>4, <1>5

\* What a sale takes of a position: at most all of it, and less than nothing if
\* the number is negative.
LEMMA SellingFacts ==
    ASSUME NEW h \in Holding, h.shares > 0, NEW n \in Int
    PROVE  /\ Selling(h, n) \in Int /\ Selling(h, n) <= h.shares
           /\ Selling(h, n) < 0 <=> n < 0
<1>1. h.shares \in Int
  BY DEF Holding
<1>2. CASE n = 0
  BY <1>1, <1>2 DEF Selling
<1>3. CASE n # 0
  <2>1. /\ Selling(h, n) \in {n, h.shares}
        /\ Selling(h, n) <= n /\ Selling(h, n) <= h.shares
    BY <1>1, <1>3, OfTwo DEF Selling
  <2>2. QED
    BY <1>1, <2>1
<1>4. QED
  BY <1>2, <1>3

\* A sale: what one of a negative number takes is accounted for, any other only
\* shrinks the position.
LEMMA SellFacts ==
    ASSUME TradingTypeOK, Solvent(cash + drawn, book), NEW t \in Ticker, NEW n \in Lots,
           ExecuteSell(t, n)
    PROVE  /\ cash' \in Int /\ book' \in Book /\ Solvent(cash' + drawn', book')
           /\ last' \in [Ticker -> Price] /\ trades' \in 0..MaxTrades /\ drawn' \in Nat
           /\ drawn' = drawn => \A u \in Ticker : book'[u].shares <= book[u].shares
<1> DEFINE m == Selling(book[t], n)
           h == IF m = book[t].shares THEN Empty
                ELSE [book[t] EXCEPT !.shares = book[t].shares - m]
           got == m * price[t]
<1>1. /\ price[t] \in Nat \ {0} /\ book[t] \in Holding
      /\ book[t].shares \in Nat /\ n \in Int /\ book[t].avg \in Nat
      /\ cash \in Int /\ book \in Book /\ last \in [Ticker -> Price] /\ trades \in 0..MaxTrades
      /\ drawn \in Nat /\ cash + drawn >= 0
  BY PaperAssumption, Typed DEF Solvent, Holding
<1>2. m \in Int /\ m <= book[t].shares
  <2>1. book[t].shares > 0
    BY <1>1 DEF ExecuteSell, Held
  <2>2. QED
    BY <1>1, <2>1, SellingFacts
<1>3. /\ cash' = cash + got /\ trades' = trades + 1 /\ trades < MaxTrades
      /\ drawn' = IF m < 0 THEN drawn - got ELSE drawn
      /\ book' = [book EXCEPT ![t] = h]
      /\ last' = IF m = book[t].shares THEN [last EXCEPT ![t] = SomePrice] ELSE last
  <2>2. book' = [book EXCEPT ![t] = h]
    BY DEF ExecuteSell
  <2>3. /\ cash' = cash + got /\ trades' = trades + 1 /\ trades < MaxTrades
        /\ drawn' = IF m < 0 THEN drawn - got ELSE drawn
        /\ last' = IF m = book[t].shares THEN [last EXCEPT ![t] = SomePrice] ELSE last
    BY DEF ExecuteSell
  <2> HIDE DEF m, h, got
  <2>4. QED
    BY <2>2, <2>3
<1>4. got \in Int /\ (m >= 0 => got >= 0) /\ (m < 0 => got < 0)
  <2> HIDE DEF m
  <2>1. CASE m >= 0
    <3>1. m \in Nat /\ price[t] \in Nat
      BY <1>1, <1>2, <2>1
    <3>2. QED
      BY <2>1, <3>1, Product
  <2>2. CASE m < 0
    <3> DEFINE k == -m
               p == price[t]
    <3>1. k \in Nat \ {0} /\ p \in Nat \ {0} /\ m = -k /\ got = m * p
      BY <1>1, <1>2, <2>2
    <3> HIDE DEF k, p, got
    <3>2. \A x, y \in Nat \ {0} : x * y > 0 /\ x * y \in Nat /\ (-x) * y = -(x * y)
      OBVIOUS
    <3>3. k * p > 0 /\ k * p \in Nat /\ (-k) * p = -(k * p)
      BY <3>1, <3>2
    <3>4. got = -(k * p)
      BY <3>1, <3>3
    <3> DEFINE q == k * p
    <3>5. got = -q /\ q \in Nat \ {0}
      BY <3>3, <3>4
    <3> HIDE DEF q
    <3>6. QED
      BY <2>2, <3>1, <3>5
  <2>3. QED
    BY <1>2, <2>1, <2>2
<1> HIDE DEF m, got
<1>5. h \in Holding /\ h.shares >= 0 /\ (m >= 0 => h.shares <= book[t].shares)
  <2>1. CASE m = book[t].shares
    BY <1>1, <2>1 DEF Empty, Holding
  <2>2. CASE m # book[t].shares
    <3>1. h = [book[t] EXCEPT !.shares = book[t].shares - m]
      BY <2>2
    <3>2. h.shares = book[t].shares - m /\ h.avg = book[t].avg /\ h \in Holding
      BY <1>1, <1>2, <3>1 DEF Holding
    <3>3. QED
      BY <1>1, <1>2, <3>2
  <2>3. QED
    BY <2>1, <2>2
<1> HIDE DEF h
<1>6. cash' \in Int /\ drawn' \in Nat /\ cash' + drawn' >= 0 /\ (drawn' = drawn => m >= 0)
  <2>1. CASE m >= 0
    BY <1>1, <1>2, <1>3, <1>4, <2>1
  <2>2. CASE m < 0
    BY <1>1, <1>2, <1>3, <1>4, <2>2
  <2>3. QED
    BY <1>2, <2>1, <2>2
<1>7. /\ book' \in Book /\ book'[t] = h
      /\ \A u \in Ticker \ {t} : book'[u] = book[u]
  BY <1>1, <1>3, <1>5 DEF Book
<1>8. \A u \in Ticker : book'[u].shares >= 0
                        /\ (drawn' = drawn => book'[u].shares <= book[u].shares)
  <2> SUFFICES ASSUME NEW u \in Ticker
               PROVE  /\ book'[u].shares >= 0
                      /\ drawn' = drawn => book'[u].shares <= book[u].shares
    OBVIOUS
  <2>1. CASE u = t
    BY <1>5, <1>6, <1>7, <2>1
  <2>2. CASE u # t
    <3>1. book'[u] = book[u] /\ book[u].shares \in Int /\ book[u].shares >= 0
      BY <1>1, <1>7, <2>2 DEF Solvent, Book, Holding
    <3>2. QED
      BY <3>1
  <2>3. QED
    BY <2>1, <2>2
<1>9. last' \in [Ticker -> Price] /\ trades' \in 0..MaxTrades
  BY <1>1, <1>3, SomePriceType, PaperAssumption
<1>10. QED
  BY <1>6, <1>7, <1>8, <1>9 DEF Solvent

\* Where a fresh account starts.
LEMMA DefaultFacts ==
    ASSUME TradingTypeOK
    PROVE  /\ DefaultState \in Account
           /\ Solvent(DefaultState.cash + DefaultState.drawn, DefaultState.book)
<1>1. Capital \in Nat /\ MaxTrades \in Nat
  BY RiskAssumption, PaperAssumption
<1>2. /\ [t \in Ticker |-> Empty] \in Book
      /\ [t \in Ticker |-> SomePrice] \in [Ticker -> Price]
  BY SomePriceType DEF Empty, Book, Holding
<1>3. DefaultState \in Account
  BY <1>1, <1>2 DEF DefaultState, Account
<1>4. Solvent(DefaultState.cash + DefaultState.drawn, DefaultState.book)
  BY <1>1 DEF DefaultState, Solvent, Empty
<1>5. QED
  BY <1>3, <1>4

\* Whatever is in the file, what is loaded is a solvent account.
LEMMA LoadedFacts ==
    ASSUME TradingTypeOK, AccountsInv, NEW f \in {file, Torn}
    PROVE  Loaded(f) \in Account /\ Solvent(Loaded(f).cash + Loaded(f).drawn, Loaded(f).book)
<1>1. CASE f = Torn
  BY <1>1, DefaultFacts DEF Loaded
<1>2. CASE f # Torn
  <2>1. f = file /\ f \in Account
    BY <1>2, Typed
  <2>2. QED
    BY <1>2, <2>1 DEF Loaded, AccountsInv
<1>3. QED
  BY <1>1, <1>2

\* Every step of the paper account keeps types and accounts.
LEMMA PaperStep ==
    ASSUME TradingTypeOK, AccountsInv, mode = "paper", PaperNext,
           UNCHANGED <<mode, liveVars, backtestVars>>
    PROVE  TradingTypeOK' /\ AccountsInv'
<1> DEFINE Fine == /\ today' \in 0..MaxDay /\ price' \in [Ticker -> Price]
                   /\ cash' \in Int /\ book' \in Book /\ risk' \in Tracking
                   /\ last' \in [Ticker -> Price] /\ trades' \in 0..MaxTrades
                   /\ drawn' \in Nat
                   /\ file' \in Account \cup {Torn} /\ cli' \in Account \cup {NotRunning}
                   /\ Solvent(cash' + drawn', book')
                   /\ \A a \in {file', cli'} \cap Account : Solvent(a.cash + a.drawn, a.book)
<1>1. Fine => TradingTypeOK' /\ AccountsInv'
  <2> SUFFICES ASSUME Fine PROVE TradingTypeOK' /\ AccountsInv'
    OBVIOUS
  <2>1. LiveTypeOK' /\ BacktestTypeOK' /\ mode' \in Mode
    BY DEF TradingTypeOK, LiveTypeOK, BacktestTypeOK, liveVars, backtestVars
  <2>2. RiskTypeOK' /\ PaperTypeOK'
    BY DEF RiskTypeOK, PaperTypeOK
  <2>3. AccountsInv'
    BY DEF AccountsInv, Solvent
  <2>4. QED
    BY <2>1, <2>2, <2>3 DEF TradingTypeOK
<1>2. /\ Solvent(cash + drawn, book)
      /\ \A a \in {file, cli} \cap Account : Solvent(a.cash + a.drawn, a.book)
  BY DEF AccountsInv
<1>3. ASSUME NEW t \in Ticker, NEW n \in Lots, ExecuteBuy(t, n)
      PROVE  Fine
  <2>1. UNCHANGED <<today, price, cli>> /\ risk' \in Tracking
    BY <1>3, ValidatesType, Typed, WorthType DEF ExecuteBuy, Equity
  <2>2. CASE UNCHANGED <<cash, book, last, trades, drawn, file>>
    BY <1>2, <2>1, <2>2, Typed DEF Solvent
  <2>3. ASSUME NEW s \in Nat \ {0}, Affordable(s, price[t]), Books(t, s)
        PROVE  Fine
    <3>1. /\ cash' \in Int /\ book' \in Book /\ Solvent(cash' + drawn', book')
          /\ last' \in [Ticker -> Price] /\ trades' \in 0..MaxTrades /\ drawn' \in Nat
      BY <1>2, <2>3, BooksFacts, Typed
    <3>2. file' \in Account /\ Solvent(file'.cash + file'.drawn, file'.book)
      BY <2>3, <3>1, SavedType DEF Books
    <3>3. QED
      BY <1>2, <2>1, <3>1, <3>2, Typed
  <2>4. QED
    BY <1>3, <2>2, <2>3, BuyFacts
<1>4. ASSUME NEW t \in Ticker, NEW n \in Lots, ExecuteSell(t, n)
      PROVE  Fine
  <2>1. UNCHANGED <<today, price, risk, cli>> /\ Saves
    BY <1>4 DEF ExecuteSell
  <2>2. /\ cash' \in Int /\ book' \in Book /\ Solvent(cash' + drawn', book')
        /\ last' \in [Ticker -> Price] /\ trades' \in 0..MaxTrades /\ drawn' \in Nat
    BY <1>2, <1>4, SellFacts
  <2>3. file' \in Account /\ Solvent(file'.cash + file'.drawn, file'.book)
    BY <2>1, <2>2, SavedType
  <2>4. QED
    BY <1>2, <2>1, <2>2, <2>3, Typed
<1>5. ASSUME NEW t \in Ticker, NEW p \in Price, FetchesPrice(t, p)
      PROVE  Fine
  BY <1>2, <1>5, Typed DEF FetchesPrice, paperVars, Solvent
<1>6. ASSUME NEW f \in {file, Torn}, ReloadsAccount(f)
      PROVE  Fine
  <2> DEFINE a == Loaded(f)
  <2>1. a \in Account /\ Solvent(a.cash + a.drawn, a.book)
    BY LoadedFacts
  <2>2. /\ file' = f /\ cash' = a.cash /\ book' = a.book /\ last' = a.last
        /\ trades' = a.trades /\ drawn' = a.drawn /\ risk' = Untracked /\ UNCHANGED <<today, price, cli>>
    BY <1>6 DEF ReloadsAccount
  <2>3. Untracked \in Tracking
    BY DEF Untracked, Tracking
  <2>4. file' \in Account \cup {Torn}
    BY <2>2, Typed
  <2>5. file' \in Account => file' = file
    BY <2>2, AccountAssumption
  <2> HIDE DEF a
  <2>6. /\ a.cash \in Int /\ a.book \in Book /\ a.last \in [Ticker -> Price]
        /\ a.trades \in 0..MaxTrades /\ a.drawn \in Nat
    BY <2>1 DEF Account
  <2>7. QED
    BY <1>2, <2>1, <2>2, <2>3, <2>4, <2>5, <2>6, Typed
<1>7. ASSUME CliLoads
      PROVE  Fine
  <2>1. cli' \in Account /\ Solvent(cli'.cash + cli'.drawn, cli'.book)
    BY <1>7, LoadedFacts, DefaultFacts DEF CliLoads
  <2>2. UNCHANGED <<today, price, cash, book, risk, last, trades, drawn, file>>
    BY <1>7 DEF CliLoads
  <2>3. QED
    BY <1>2, <2>1, <2>2, Typed DEF Solvent
<1>8. ASSUME NEW p \in [Ticker -> Price], CliSaves(p)
      PROVE  Fine
  <2> DEFINE l == [t \in Ticker |-> IF t \in Held(cli.book) THEN p[t] ELSE cli.last[t]]
  <2>1. cli \in Account /\ Solvent(cli.cash + cli.drawn, cli.book)
    BY <1>2, <1>8, Typed DEF CliSaves
  <2>2. l \in [Ticker -> Price]
    BY <2>1 DEF Account
  <2>3. file' = [cli EXCEPT !.last = l] /\ cli' = NotRunning
    BY <1>8, <2>1 DEF CliSaves, Account
  <2> HIDE DEF l
  <2>4. file' \in Account /\ file'.cash = cli.cash /\ file'.book = cli.book
        /\ file'.drawn = cli.drawn
    BY <2>1, <2>2, <2>3 DEF Account
  <2>5. Solvent(file'.cash + file'.drawn, file'.book)
    BY <2>1, <2>4
  <2>6. cli' \notin Account
    BY <2>3, AccountAssumption
  <2>7. UNCHANGED <<today, price, cash, book, risk, last, trades, drawn>>
    BY <1>8 DEF CliSaves
  <2>8. QED
    BY <1>2, <2>3, <2>4, <2>5, <2>6, <2>7, Typed DEF Solvent
<1>9. Fine
  <2> HIDE DEF Fine
  <2>1. QED
    BY <1>3, <1>4, <1>5, <1>6, <1>7, <1>8 DEF PaperNext
<1>10. QED
  BY <1>1, <1>9

-----------------------------------------------------------------------------
(* The backtest.                                                           *)

\* What leaves at prices p, and what stays.
LEMMA SoldFacts ==
    ASSUME TradingTypeOK, Solvent(cash, book), NEW leaving \in SUBSET Held(book),
           NEW p \in [Ticker -> Price], Sold(leaving, p)
    PROVE  /\ cash' \in Int /\ book' \in Book /\ Solvent(cash', book')
           /\ exits' \in [Ticker -> Exits]
           /\ \A t \in Ticker : book'[t].shares <= book[t].shares
           /\ Held(book') = Held(book) \ leaving
           /\ \A t \in Held(book') : exits'[t] = exits[t]
<1> DEFINE fetched == SumFunctionOnSet(Values(book, p), leaving)
<1>1. p \in [Ticker -> Nat] /\ book \in Book /\ cash \in Int /\ cash >= 0
      /\ (\A t \in Ticker : book[t] \in Holding /\ book[t].shares \in Int /\ book[t].shares >= 0)
      /\ exits \in [Ticker -> Exits]
  BY RiskAssumption, Typed DEF Solvent, TradingTypeOK, BacktestTypeOK, Holding
<1>2. fetched \in Int /\ fetched >= 0
  BY <1>1, ValueType
<1>3. /\ cash' = cash + fetched
      /\ book' = [t \in Ticker |-> IF t \in leaving THEN Empty ELSE book[t]]
      /\ exits' = [t \in Ticker |-> IF t \in leaving THEN Unset ELSE exits[t]]
  BY DEF Sold
<1> HIDE DEF fetched
<1>4. cash' \in Int /\ cash' >= 0
  BY <1>1, <1>2, <1>3
<1>5. Empty \in Holding /\ Empty.shares = 0 /\ Unset \in Exits
  BY DEF Empty, Holding, Unset, Exits
<1>6. book' \in Book /\ exits' \in [Ticker -> Exits]
  BY <1>1, <1>3, <1>5 DEF Book
<1>7. \A t \in Ticker : book'[t].shares >= 0 /\ book'[t].shares <= book[t].shares
  BY <1>1, <1>3, <1>5
<1>8. Held(book') = Held(book) \ leaving
  BY <1>3, <1>5 DEF Held
<1>9. \A t \in Held(book') : exits'[t] = exits[t]
  BY <1>3, <1>8 DEF Held
<1>10. QED
  BY <1>4, <1>6, <1>7, <1>8, <1>9 DEF Solvent

\* The stop of a position is a price, below what it was bought at unless the
\* mandatory distance is zero.
LEMMA StopFacts ==
    ASSUME NEW p \in Nat \ {0}, NEW stop \in 0..p - 1
    PROVE  EnforcedStop(stop, p) \in Nat /\ (MandatoryStop > 0 => EnforcedStop(stop, p) < p)
<1> DEFINE rest == 100 - MandatoryStop
           below == (p * rest) \div 100
<1>1. rest \in Nat /\ rest <= 100 /\ (MandatoryStop > 0 => rest <= 99)
  BY RiskAssumption
<1>2. EnforcedStop(stop, p) = IF stop > 0 THEN stop ELSE below
  BY DEF EnforcedStop
<1> HIDE DEF rest
<1>3. p * rest \in Nat
  BY <1>1, Product
<1>4. below \in Nat
  BY <1>3, Quotient
<1>5. rest <= 99 => below < p
  <2> SUFFICES ASSUME rest <= 99 PROVE below < p
    OBVIOUS
  <2>1. p * rest <= p * 99
    BY <1>1
  <2>2. below * 100 <= p * rest
    BY <1>3, Quotient
  <2> HIDE DEF below
  <2>3. QED
    BY <1>3, <1>4, <2>1, <2>2
<1>6. QED
  BY <1>1, <1>2, <1>4, <1>5

\* An entry opens nothing, or a position the gate allowed and the cash pays for.
LEMMA EntryFacts ==
    ASSUME TradingTypeOK, NEW t \in Ticker, Entry(t)
    PROVE  /\ risk' \in Tracking
           /\ \/ UNCHANGED <<cash, book, exits>>
              \/ \E alloc \in Int, n \in Nat \ {0}, stop \in 0..price[t] - 1,
                    target \in Price \cup {NoExit} :
                    /\ Allowed(alloc, cash, dayValue, book)
                    /\ n * price[t] <= Allotted(alloc, dayValue)
                    /\ n * price[t] <= cash
                    /\ Enter(t, n, stop, target)
<1>1. PICK pct \in EntrySize, stop \in 0..price[t] - 1,
           target \in {p \in Price : p > price[t]} \cup {NoExit} :
        LET alloc == Min({(dayValue * Min({pct, MaxPosition})) \div 100, (cash * 95) \div 100})
            given == Allotted(alloc, dayValue)
            n == given \div price[t]
        IN  /\ Validates(alloc, dayValue)
            /\ IF Allowed(alloc, cash, dayValue, book) /\ given > MinOrder /\ n > 0
                  /\ n * price[t] <= cash
               THEN Enter(t, n, stop, target)
               ELSE UNCHANGED <<cash, book, exits>>
  BY DEF Entry
<1> DEFINE share == Min({pct, MaxPosition})
           alloc == Min({(dayValue * share) \div 100, (cash * 95) \div 100})
           given == Allotted(alloc, dayValue)
           n == given \div price[t]
<1>2. /\ dayValue \in Int /\ cash \in Int /\ price[t] \in Nat \ {0}
      /\ pct \in Int /\ MaxPosition \in Int
  BY Typed, BacktestAssumption, RiskAssumption DEF TradingTypeOK, BacktestTypeOK
<1>3. share \in Int
  BY <1>2, OfTwo
<1>4. alloc \in Int
  <2> HIDE DEF share
  <2> DEFINE wanted == (dayValue * share) \div 100
             most == (cash * 95) \div 100
  <2>1. dayValue * share \in Int /\ cash * 95 \in Int
    BY <1>2, <1>3
  <2>2. wanted \in Int /\ most \in Int
    BY <2>1, Quotient
  <2> HIDE DEF wanted, most
  <2>3. Min({wanted, most}) \in Int
    BY <2>2, OfTwo
  <2>4. QED
    BY <2>3 DEF wanted, most
<1>5. Validates(alloc, dayValue)
  BY <1>1
<1>6. \/ UNCHANGED <<cash, book, exits>>
      \/ /\ Allowed(alloc, cash, dayValue, book) /\ n > 0 /\ n * price[t] <= cash
         /\ Enter(t, n, stop, target)
  BY <1>1
<1> HIDE DEF alloc
<1>7. given \in Int
  BY <1>2, <1>4, AllottedType
<1> HIDE DEF given
<1>8. n \in Int /\ n * price[t] <= given
  BY <1>2, <1>7, Quotient
<1>9. risk' \in Tracking
  BY <1>2, <1>5, ValidatesType
<1> HIDE DEF n
<1>10. n > 0 => n \in Nat \ {0}
  BY <1>8
<1>11. QED
  BY <1>4, <1>6, <1>8, <1>9, <1>10 DEF given

\* A new position.
LEMMA EnterFacts ==
    ASSUME TradingTypeOK, Solvent(cash, book), NEW t \in Ticker, t \notin Held(book),
           NEW n \in Nat \ {0}, n * price[t] <= cash,
           NEW stop \in 0..price[t] - 1, NEW target \in Price \cup {NoExit},
           Enter(t, n, stop, target)
    PROVE  /\ cash' \in Int /\ book' \in Book /\ Solvent(cash', book')
           /\ exits' \in [Ticker -> Exits]
           /\ Exposure(book') = Exposure(book) + n * price[t]
           /\ Held(book') \subseteq Held(book) \cup {t}
           /\ \A u \in Ticker \ {t} : exits'[u] = exits[u]
           /\ MandatoryStop > 0 => exits'[t].stop < price[t]
<1> DEFINE h == [shares |-> n, avg |-> price[t]]
           e == [stop |-> EnforcedStop(stop, price[t]), target |-> target]
           cost == n * price[t]
<1>1. /\ cash \in Int /\ book \in Book /\ price[t] \in Nat \ {0}
      /\ exits \in [Ticker -> Exits] /\ cash >= 0
      /\ \A u \in Ticker : book[u].shares \in Int /\ book[u].shares >= 0 /\ book[u].avg \in Nat
  BY Typed DEF TradingTypeOK, BacktestTypeOK, Solvent, Holding
<1>2. cost \in Nat /\ cost <= cash
  BY <1>1, Product
<1>3. h \in Holding /\ h.shares = n /\ h.avg = price[t]
  BY <1>1 DEF Holding
<1>4. /\ e \in Exits /\ e.stop = EnforcedStop(stop, price[t])
      /\ MandatoryStop > 0 => e.stop < price[t]
  BY <1>1, StopFacts DEF Exits
<1>5. cash' = cash - cost /\ book' = [book EXCEPT ![t] = h] /\ exits' = [exits EXCEPT ![t] = e]
  BY DEF Enter
<1>6. Exposure(book') = Exposure(book) + cost
  <2>1. Exposure(book') = Exposure(book) + Abs(h.shares) * h.avg
                            - Abs(book[t].shares) * book[t].avg
    <3> HIDE DEF h
    <3>1. QED
      BY <1>1, <1>3, <1>5, ExposureChange
  <2>2. book[t].shares = 0
    BY DEF Held
  <2>3. Abs(book[t].shares) = 0 /\ Abs(h.shares) = n
    BY <1>3, <2>2 DEF Abs
  <2>4. Abs(book[t].shares) * book[t].avg = 0 /\ Abs(h.shares) * h.avg = cost
    BY <1>1, <1>3, <2>3
  <2>5. Exposure(book) \in Int
    BY <1>1, ExposureOfAll
  <2> HIDE DEF h, cost
  <2>6. QED
    BY <1>2, <2>1, <2>4, <2>5
<1> HIDE DEF h, e, cost
<1>7. cash' \in Int /\ cash' >= 0
  BY <1>1, <1>2, <1>5
<1>8. book' \in Book /\ book'[t] = h /\ \A u \in Ticker \ {t} : book'[u] = book[u]
  BY <1>1, <1>3, <1>5 DEF Book
<1>9. \A u \in Ticker : book'[u].shares >= 0
  BY <1>1, <1>3, <1>8
<1>10. Held(book') \subseteq Held(book) \cup {t}
  BY <1>8 DEF Held
<1>11. /\ exits' \in [Ticker -> Exits] /\ exits'[t] = e
       /\ \A u \in Ticker \ {t} : exits'[u] = exits[u]
  BY <1>1, <1>4, <1>5
<1>12. QED
  BY <1>4, <1>6, <1>7, <1>8, <1>9, <1>10, <1>11 DEF Solvent, cost

\* Every step of a backtest keeps types and accounts, and the stops of the date.
LEMMA BacktestStep ==
    ASSUME TradingTypeOK, AccountsInv, mode = "backtest", BacktestNext,
           UNCHANGED <<mode, paperVars, liveVars>>
    PROVE  /\ TradingTypeOK' /\ AccountsInv'
           /\ MandatoryStop > 0 /\ StopsHonoured => StopsHonoured'
<1> DEFINE Kept == \A t \in Held(book) \cap quoted : price[t] > exits[t].stop
           Stopped == \A t \in Held(book') \cap quoted' : price'[t] > exits'[t].stop
           Fine == /\ today' \in 0..MaxDay /\ price' \in [Ticker -> Price]
                   /\ cash' \in Int /\ book' \in Book /\ risk' \in Tracking
                   /\ bar' \in 0..MaxBars
                   /\ todo' \subseteq quoted' /\ quoted' \subseteq Ticker
                   /\ dayValue' \in Int /\ exits' \in [Ticker -> Exits]
                   /\ Solvent(cash', book')
                   /\ MandatoryStop > 0 /\ Kept => Stopped
<1>1. Fine => /\ TradingTypeOK' /\ AccountsInv'
              /\ MandatoryStop > 0 /\ StopsHonoured => StopsHonoured'
  <2> SUFFICES ASSUME Fine
               PROVE  /\ TradingTypeOK' /\ AccountsInv'
                      /\ MandatoryStop > 0 /\ StopsHonoured => StopsHonoured'
    OBVIOUS
  <2>1. PaperTypeOK' /\ LiveTypeOK' /\ mode' \in Mode
    BY DEF TradingTypeOK, LiveTypeOK, PaperTypeOK, liveVars, paperVars
  <2>2. RiskTypeOK' /\ BacktestTypeOK'
    BY DEF RiskTypeOK, BacktestTypeOK
  <2>3. AccountsInv'
    BY DEF AccountsInv, Solvent, paperVars
  <2>4. MandatoryStop > 0 /\ StopsHonoured => StopsHonoured'
    BY DEF StopsHonoured
  <2>5. QED
    BY <2>1, <2>2, <2>3, <2>4 DEF TradingTypeOK
<1>2. /\ Solvent(cash, book) /\ todo \subseteq quoted /\ quoted \subseteq Ticker
      /\ bar \in 0..MaxBars /\ dayValue \in Int /\ exits \in [Ticker -> Exits]
      /\ price \in [Ticker -> Price] /\ risk \in Tracking /\ today \in 0..MaxDay
      /\ cash \in Int /\ book \in Book
  BY Typed DEF AccountsInv, TradingTypeOK, BacktestTypeOK
<1>3. ASSUME NEW rows \in SUBSET Ticker, NEW p \in [Ticker -> Price], Day(rows, p)
      PROVE  Fine
  <2> DEFINE here == Held(book) \cap rows
             leaving == {t \in here : Leaves(t, p[t])}
             worth == SumFunctionOnSet(Values(book, p), here)
  <2>1. /\ bar < MaxBars /\ bar' = bar + 1 /\ quoted' = rows /\ todo' = rows
        /\ price' = [t \in Ticker |-> IF t \in rows THEN p[t] ELSE price[t]]
        /\ dayValue' = cash + worth /\ UNCHANGED <<today, risk>>
        /\ Sold(leaving, p)
    BY <1>3 DEF Day
  <2>2. bar' \in 0..MaxBars
    BY <1>2, <2>1, BacktestAssumption
  <2>3. price' \in [Ticker -> Price] /\ \A t \in rows : price'[t] = p[t]
    BY <1>2, <2>1
  <2>4. worth \in Int
    <3>1. p \in [Ticker -> Nat]
      BY RiskAssumption
    <3>2. QED
      BY <1>2, <3>1, ValueType
  <2>5. dayValue' \in Int
    <3> HIDE DEF worth
    <3>1. QED
      BY <1>2, <2>1, <2>4
  <2>6. /\ cash' \in Int /\ book' \in Book /\ Solvent(cash', book')
        /\ exits' \in [Ticker -> Exits]
        /\ Held(book') = Held(book) \ leaving
        /\ \A t \in Held(book') : exits'[t] = exits[t]
    <3>1. leaving \in SUBSET Held(book)
      OBVIOUS
    <3> HIDE DEF leaving
    <3>2. QED
      BY <1>2, <2>1, <3>1, SoldFacts
  <2>7. Stopped
    <3> SUFFICES ASSUME NEW t \in Held(book') \cap quoted'
                 PROVE  price'[t] > exits'[t].stop
      OBVIOUS
    <3>1. t \in here /\ t \notin leaving /\ t \in Ticker
      BY <2>1, <2>6
    <3>2. ~(p[t] <= exits[t].stop)
      BY <3>1 DEF Leaves
    <3>3. p[t] \in Int /\ exits[t].stop \in Int
      <4>1. p[t] \in Price /\ exits[t] \in Exits
        BY <1>2, <3>1
      <4>2. p[t] \in Nat
        BY <4>1, RiskAssumption
      <4>3. exits[t].stop \in Nat
        BY <4>1 DEF Exits
      <4>4. QED
        BY <4>2, <4>3
    <3>4. price'[t] = p[t] /\ exits'[t] = exits[t]
      BY <2>3, <2>6, <3>1
    <3>5. QED
      BY <3>2, <3>3, <3>4
  <2>8. QED
    BY <1>2, <2>1, <2>2, <2>3, <2>5, <2>6, <2>7
<1>4. ASSUME NEW t \in Ticker, FollowsSignal(t)
      PROVE  Fine
  <2>1. UNCHANGED <<today, price, bar, quoted, dayValue>> /\ todo' \subseteq quoted'
    BY <1>2, <1>4 DEF FollowsSignal
  <2>2. CASE Entry(t)
    <3>1. risk' \in Tracking
      BY <2>2, EntryFacts
    <3>2. CASE UNCHANGED <<cash, book, exits>>
      BY <1>2, <2>1, <3>1, <3>2 DEF Solvent
    <3>3. ASSUME NEW n \in Nat \ {0}, NEW stop \in 0..price[t] - 1,
                 NEW target \in Price \cup {NoExit},
                 n * price[t] <= cash, Enter(t, n, stop, target)
          PROVE  Fine
      <4>1. /\ cash' \in Int /\ book' \in Book /\ Solvent(cash', book')
            /\ exits' \in [Ticker -> Exits]
            /\ Held(book') \subseteq Held(book) \cup {t}
            /\ \A u \in Ticker \ {t} : exits'[u] = exits[u]
            /\ MandatoryStop > 0 => exits'[t].stop < price[t]
        BY <1>2, <2>2, <3>3, EnterFacts DEF Entry
      <4>2. MandatoryStop > 0 /\ Kept => Stopped
        <5> SUFFICES ASSUME MandatoryStop > 0, Kept, NEW u \in Held(book') \cap quoted'
                     PROVE  price'[u] > exits'[u].stop
          OBVIOUS
        <5>1. u \in Ticker /\ u \in quoted /\ price'[u] = price[u]
          BY <2>1 DEF Held
        <5>2. CASE u = t
          <6>1. price[t] \in Int /\ exits'[t].stop \in Int /\ exits'[t].stop < price[t]
            BY <1>2, <4>1, Typed DEF Exits
          <6>2. QED
            BY <5>1, <5>2, <6>1
        <5>3. CASE u # t
          BY <4>1, <5>1, <5>3
        <5>4. QED
          BY <5>2, <5>3
      <4>3. QED
        BY <1>2, <2>1, <3>1, <4>1, <4>2
    <3>4. QED
      BY <2>2, <3>2, <3>3, EntryFacts
  <2>3. CASE t \in Held(book) /\ Sold({t}, price) /\ UNCHANGED risk
    <3>1. /\ cash' \in Int /\ book' \in Book /\ Solvent(cash', book')
          /\ exits' \in [Ticker -> Exits]
          /\ Held(book') = Held(book) \ {t}
          /\ \A u \in Held(book') : exits'[u] = exits[u]
      <4>1. {t} \in SUBSET Held(book)
        BY <2>3
      <4>2. QED
        BY <1>2, <2>3, <4>1, SoldFacts
    <3>2. Kept => Stopped
      BY <2>1, <3>1
    <3>3. QED
      BY <1>2, <2>1, <2>3, <3>1, <3>2
  <2>4. CASE UNCHANGED <<cash, book, exits, risk>>
    BY <1>2, <2>1, <2>4 DEF Solvent
  <2>5. QED
    BY <1>4, <2>2, <2>3, <2>4 DEF FollowsSignal
<1>5. Fine
  <2> HIDE DEF Fine
  <2>1. QED
    BY <1>3, <1>4 DEF BacktestNext
<1>6. QED
  BY <1>1, <1>5

-----------------------------------------------------------------------------
(* The live bots.                                                          *)

\* A position after an execution is one.
LEMMA AfterType ==
    ASSUME NEW h \in Holding, NEW n \in Int, NEW p \in Nat
    PROVE  After(h, n, p) \in Holding
<1> DEFINE all == h.shares + n
           cost == h.avg * Abs(h.shares) + p * Abs(n)
           avg == cost \div Abs(all)
<1>1. h.shares \in Int /\ h.avg \in Nat /\ all \in Int /\ h.shares * n \in Int
  BY DEF Holding
<1>2. cost \in Nat
  <2>1. h.avg * Abs(h.shares) \in Nat /\ p * Abs(n) \in Nat
    BY <1>1, AbsType, Product
  <2>2. QED
    BY <2>1
<1>3. ASSUME all # 0 PROVE avg \in Nat
  <2>1. Abs(all) \in Nat \ {0}
    BY <1>1, <1>3, AbsType
  <2> HIDE DEF cost, all
  <2>2. QED
    BY <1>2, <2>1, Quotient
<1>4. CASE all = 0
  BY <1>4 DEF After, Empty, Holding
<1>5. CASE all # 0 /\ h.shares * n >= 0
  <2>1. ~(h.shares * n < 0)
    BY <1>1, <1>5
  <2>2. After(h, n, p) = [shares |-> all, avg |-> avg]
    BY <1>5, <2>1 DEF After
  <2> HIDE DEF avg, all
  <2>3. QED
    BY <1>1, <1>3, <1>5, <2>2 DEF Holding
<1>6. CASE all # 0 /\ h.shares * n < 0
  <2> DEFINE kept == IF Abs(n) > Abs(h.shares) THEN p ELSE h.avg
  <2>1. ~(h.shares * n >= 0)
    BY <1>1, <1>6
  <2>2. After(h, n, p) = [shares |-> all, avg |-> kept]
    BY <1>6, <2>1 DEF After
  <2>3. kept \in Nat
    BY <1>1
  <2> HIDE DEF kept, all
  <2>4. QED
    BY <1>1, <2>2, <2>3 DEF Holding
<1>7. QED
  BY <1>1, <1>4, <1>5, <1>6

\* An execution leaves an account.
LEMMA ExecutedType ==
    ASSUME TradingTypeOK, NEW t \in Ticker, NEW n \in Int, Executed(t, n)
    PROVE  cash' \in Int /\ book' \in Book
<1> DEFINE h == After(book[t], n, price[t])
           cost == n * price[t]
<1>1. cash \in Int /\ book \in Book /\ price[t] \in Nat /\ book[t] \in Holding
  BY Typed
<1>2. cost \in Int
  BY <1>1
<1>3. h \in Holding
  BY <1>1, AfterType
<1>4. cash' = cash - cost /\ book' = [book EXCEPT ![t] = h]
  BY DEF Executed
<1> HIDE DEF h, cost
<1>5. QED
  BY <1>1, <1>2, <1>3, <1>4 DEF Book

\* An order is added to the open ones, or not.
LEMMA OrderFacts ==
    ASSUME TradingTypeOK, NEW t \in Ticker, NEW n \in Int, AlpacaOrder(t, n) \/ SubmitOrder(t, n)
    PROVE  /\ open' \in [Ticker -> Int] /\ count' \in Nat
           /\ open' = open \/ open' = [open EXCEPT ![t] = open[t] + n]
<1>1. open \in [Ticker -> Int] /\ count \in Nat /\ MaxDailyTrades \in Nat
  BY LiveAssumption DEF TradingTypeOK, LiveTypeOK
<1>2. Min({count + 1, MaxDailyTrades}) \in Nat
  <2> DEFINE next == count + 1
  <2>1. next \in Nat /\ next \in Int /\ MaxDailyTrades \in Nat /\ MaxDailyTrades \in Int
    BY <1>1
  <2> HIDE DEF next
  <2>2. Min({next, MaxDailyTrades}) \in {next, MaxDailyTrades}
    BY <2>1, OfTwo
  <2>3. Min({next, MaxDailyTrades}) \in Nat
    BY <2>1, <2>2
  <2>4. QED
    BY <2>3 DEF next
<1>3. open' = open \/ open' = [open EXCEPT ![t] = open[t] + n]
  BY DEF AlpacaOrder, SubmitOrder
<1>4. count' \in {count, Min({count + 1, MaxDailyTrades})}
  BY DEF AlpacaOrder, SubmitOrder
<1>5. count' \in Nat
  BY <1>1, <1>2, <1>4
<1>6. open' \in [Ticker -> Int]
  BY <1>1, <1>3
<1>7. QED
  BY <1>3, <1>5, <1>6

\* What a scan does about one ticker: an order to buy only if the gate agrees.
LEMMA ScanFacts ==
    ASSUME TradingTypeOK, NEW t \in Ticker, ScanTicker(t)
    PROVE  /\ risk' \in Tracking /\ open' \in [Ticker -> Int] /\ count' \in Nat
           /\ scan' \in Snapshot \cup {NoScan}
           /\ \/ \A u \in Ticker : open'[u] <= open[u]
              \/ \E alloc \in Int : Allowed(alloc, scan.cash, scan.equity, scan.book)
<1>1. /\ scan \in Snapshot /\ scan.equity \in Int /\ scan.left \subseteq Ticker
      /\ scan.book \in Book /\ scan.book[t].shares \in Int
      /\ open \in [Ticker -> Int] /\ count \in Nat /\ risk \in Tracking
      /\ price[t] \in Nat \ {0}
  BY Typed DEF ScanTicker, TradingTypeOK, LiveTypeOK, Snapshot, Book, Holding
<1>2. scan' \in Snapshot \cup {NoScan}
  BY <1>1 DEF ScanTicker, Scanned, Snapshot
<1>3. ASSUME NEW alloc \in Int, NEW bracket \in BOOLEAN, ScanBuys(t, alloc, bracket)
      PROVE  /\ risk' \in Tracking /\ open' \in [Ticker -> Int] /\ count' \in Nat
             /\ open' = open \/ Allowed(alloc, scan.cash, scan.equity, scan.book)
  <2> DEFINE qty == Allotted(alloc, scan.equity) \div price[t]
  <2>1. qty \in Int
    <3>1. Allotted(alloc, scan.equity) \in Int
      BY <1>1, AllottedType
    <3>2. QED
      BY <1>1, <3>1, Quotient
  <2>2. risk' \in Tracking
    BY <1>1, <1>3, ValidatesType DEF ScanBuys
  <2>3. \/ UNCHANGED <<open, count>>
        \/ /\ Allowed(alloc, scan.cash, scan.equity, scan.book)
           /\ AlpacaOrder(t, qty) \/ SubmitOrder(t, qty)
    BY <1>3 DEF ScanBuys
  <2> HIDE DEF qty
  <2>4. QED
    BY <1>1, <2>1, <2>2, <2>3, OrderFacts
<1>4. ASSUME NEW pct \in SizePct, NEW bracket \in BOOLEAN,
             ScanBuys(t, (scan.equity * Min({pct, MaxPosition})) \div 100, bracket)
      PROVE  /\ risk' \in Tracking /\ open' \in [Ticker -> Int] /\ count' \in Nat
             /\ open' = open \/ \E alloc \in Int : Allowed(alloc, scan.cash, scan.equity, scan.book)
  <2> DEFINE share == Min({pct, MaxPosition})
             alloc == (scan.equity * share) \div 100
  <2>1. share \in Int
    <3>1. pct \in Int /\ MaxPosition \in Int
      BY LiveAssumption, RiskAssumption
    <3>2. QED
      BY <3>1, OfTwo
  <2> HIDE DEF share
  <2>2. scan.equity * share \in Int
    BY <1>1, <2>1
  <2>3. alloc \in Int
    BY <2>2, Quotient
  <2>4. ScanBuys(t, alloc, bracket)
    BY <1>4 DEF share
  <2> HIDE DEF alloc
  <2>5. QED
    BY <1>3, <2>3, <2>4
<1>5. ASSUME scan.book[t].shares > 0, SubmitOrder(t, -scan.book[t].shares)
      PROVE  /\ open' \in [Ticker -> Int] /\ count' \in Nat
             /\ \A u \in Ticker : open'[u] <= open[u]
  <2> DEFINE n == -scan.book[t].shares
  <2>1. n \in Int /\ n < 0
    BY <1>1, <1>5
  <2>2. SubmitOrder(t, n)
    BY <1>5
  <2> HIDE DEF n
  <2>3. /\ open' \in [Ticker -> Int] /\ count' \in Nat
        /\ open' = open \/ open' = [open EXCEPT ![t] = open[t] + n]
    BY <2>1, <2>2, OrderFacts
  <2>4. QED
    BY <1>1, <2>1, <2>3
<1>6. \A u \in Ticker : open[u] <= open[u]
  BY <1>1
<1>7. CASE \E pct \in SizePct, bracket \in BOOLEAN :
              ScanBuys(t, (scan.equity * Min({pct, MaxPosition})) \div 100, bracket)
  <2>1. /\ risk' \in Tracking /\ open' \in [Ticker -> Int] /\ count' \in Nat
        /\ open' = open \/ \E alloc \in Int : Allowed(alloc, scan.cash, scan.equity, scan.book)
    BY <1>4, <1>7
  <2>2. QED
    BY <1>2, <1>6, <2>1
<1>8. CASE /\ scan.book[t].shares > 0
           /\ SubmitOrder(t, -scan.book[t].shares)
           /\ UNCHANGED risk
  BY <1>1, <1>2, <1>5, <1>8
<1>9. CASE UNCHANGED <<open, count, risk>>
  BY <1>1, <1>2, <1>6, <1>9
<1>10. QED
  BY <1>7, <1>8, <1>9 DEF ScanTicker

\* What a step of a bot leaves alone.
LEMMA LiveRest ==
    ASSUME TradingTypeOK, AccountsInv, mode \in {"alpaca", "hyperliquid"},
           UNCHANGED <<mode, paperVars, backtestVars>>,
           today' \in 0..MaxDay, price' \in [Ticker -> Price],
           cash' \in Int, book' \in Book, risk' \in Tracking, LiveTypeOK'
    PROVE  TradingTypeOK' /\ AccountsInv'
<1>1. PaperTypeOK' /\ BacktestTypeOK' /\ mode' \in Mode
  BY DEF TradingTypeOK, PaperTypeOK, BacktestTypeOK, paperVars, backtestVars
<1>2. RiskTypeOK'
  BY DEF RiskTypeOK
<1>3. AccountsInv'
  BY DEF AccountsInv, Solvent, paperVars
<1>4. QED
  BY <1>1, <1>2, <1>3 DEF TradingTypeOK

\* Every step of the Alpaca bot and of its broker keeps types and accounts.
LEMMA AlpacaStep ==
    ASSUME TradingTypeOK, AccountsInv, mode = "alpaca", AlpacaNext,
           UNCHANGED <<mode, paperVars, backtestVars>>
    PROVE  TradingTypeOK' /\ AccountsInv'
<1> DEFINE Fine == /\ today' \in 0..MaxDay /\ price' \in [Ticker -> Price]
                   /\ cash' \in Int /\ book' \in Book /\ risk' \in Tracking
                   /\ count' \in Nat /\ placed' \in Nat /\ calls' \in Nat
                   /\ open' \in [Ticker -> Int] /\ scan' \in Snapshot \cup {NoScan}
                   /\ call' \in Call \cup {NoCall}
<1>1. Fine => TradingTypeOK' /\ AccountsInv'
  <2>1. Fine => LiveTypeOK'
    BY DEF LiveTypeOK
  <2>2. QED
    BY <2>1, LiveRest
<1>2. /\ count \in Nat /\ placed \in Nat /\ calls \in Nat
      /\ open \in [Ticker -> Int] /\ scan \in Snapshot \cup {NoScan}
      /\ call \in Call \cup {NoCall}
      /\ price \in [Ticker -> Price] /\ risk \in Tracking /\ today \in 0..MaxDay
      /\ cash \in Int /\ book \in Book
  BY Typed DEF TradingTypeOK, LiveTypeOK
<1>3. CASE ScanBegins
  <2>1. Worth(cash, book, price) \in Int
    BY Typed, WorthType
  <2> DEFINE snapshot == [cash |-> cash, equity |-> Worth(cash, book, price),
                          book |-> book, left |-> Ticker]
  <2>2. snapshot \in Snapshot
    BY <1>2, <2>1 DEF Snapshot
  <2>3. /\ scan' = snapshot /\ calls' = calls + 1
        /\ UNCHANGED <<today, price, cash, book, risk, count, placed, open, call>>
    BY <1>3 DEF ScanBegins
  <2> HIDE DEF snapshot
  <2>4. QED
    BY <1>1, <1>2, <2>2, <2>3
<1>4. ASSUME NEW t \in Ticker, ScanTicker(t)
      PROVE  Fine
  <2>1. UNCHANGED <<today, price, cash, book, placed, calls, call>>
    BY <1>4 DEF ScanTicker
  <2>2. QED
    BY <1>2, <1>4, <2>1, ScanFacts
<1>5. ASSUME NEW t \in Ticker, BrokerFills(t)
      PROVE  Fine
  <2>1. cash' \in Int /\ book' \in Book
    BY <1>2, <1>5, ExecutedType DEF BrokerFills
  <2>2. /\ open' = [open EXCEPT ![t] = 0]
        /\ UNCHANGED <<today, price, risk, count, placed, calls, scan, call>>
    BY <1>5 DEF BrokerFills
  <2>3. QED
    BY <1>2, <2>1, <2>2
<1>6. ASSUME NEW t \in Ticker, BrokerExpires(t)
      PROVE  Fine
  BY <1>2, <1>6 DEF BrokerExpires
<1>7. ASSUME NEW t \in Ticker, NEW p \in Price, Quotes(t, p)
      PROVE  Fine
  BY <1>2, <1>7 DEF Quotes, liveVars
<1>8. CASE ScanFails
  BY <1>1, <1>2, <1>8 DEF ScanFails
<1>9. CASE BotRestarts
  BY <1>1, <1>2, <1>9 DEF BotRestarts, Untracked, Tracking
<1>10. QED
  <2> HIDE DEF Fine
  <2>1. QED
    BY <1>1, <1>3, <1>4, <1>5, <1>6, <1>7, <1>8, <1>9 DEF AlpacaNext

\* Every step of the Hyperliquid adapter keeps types and accounts, and the
\* orders that may have been executed to MaxAttempts a call.
LEMMA HyperliquidStep ==
    ASSUME TradingTypeOK, AccountsInv, CallsInv, mode = "hyperliquid", HyperliquidNext,
           UNCHANGED <<mode, paperVars, backtestVars>>
    PROVE  TradingTypeOK' /\ AccountsInv' /\ CallsInv'
<1> DEFINE Counted == count' + (IF call' = NoCall THEN 0 ELSE 1) <= calls'
           Placed == placed' <= MaxAttempts * (calls' - 1)
                                  + (IF call' = NoCall THEN MaxAttempts ELSE call'.tries)
           Left == call' # NoCall => call'.tries < MaxAttempts
           Fine == /\ today' \in 0..MaxDay /\ price' \in [Ticker -> Price]
                   /\ cash' \in Int /\ book' \in Book /\ risk' \in Tracking
                   /\ count' \in Nat /\ placed' \in Nat /\ calls' \in Nat
                   /\ open' \in [Ticker -> Int] /\ scan' \in Snapshot \cup {NoScan}
                   /\ call' \in Call \cup {NoCall}
                   /\ Counted /\ Placed /\ Left
<1>1. Fine => TradingTypeOK' /\ AccountsInv' /\ CallsInv'
  <2>1. Fine => LiveTypeOK'
    BY DEF LiveTypeOK
  <2>2. Fine => CallsInv'
    BY DEF CallsInv, OrdersMatchCalls
  <2>3. QED
    BY <2>1, <2>2, LiveRest
<1> DEFINE base == MaxAttempts * (calls - 1)
<1>2. /\ count \in Nat /\ placed \in Nat /\ calls \in Nat /\ MaxAttempts \in Nat \ {0}
      /\ open \in [Ticker -> Int] /\ scan \in Snapshot \cup {NoScan}
      /\ call \in Call \cup {NoCall}
      /\ price \in [Ticker -> Price] /\ risk \in Tracking /\ today \in 0..MaxDay
      /\ cash \in Int /\ book \in Book
  BY Typed, LiveAssumption DEF TradingTypeOK, LiveTypeOK
<1>3. /\ call = NoCall => count <= calls /\ placed <= base + MaxAttempts
      /\ call # NoCall => /\ count + 1 <= calls /\ placed <= base + call.tries
                          /\ call.tries < MaxAttempts
  BY <1>2 DEF CallsInv, OrdersMatchCalls
<1>4. base \in Int /\ MaxAttempts * ((calls + 1) - 1) = base + MaxAttempts
  BY <1>2
<1>5. call # NoCall => /\ call \in Call /\ call.ticker \in Ticker /\ call.qty \in Int
                       /\ call.tries \in Nat
  BY <1>2 DEF Call
<1>6. ASSUME NEW t \in Ticker, NEW n \in Int, Calls(t, n)
      PROVE  Fine
  <2> DEFINE c == [ticker |-> t, qty |-> n, tries |-> 0]
  <2>1. c \in Call /\ c # NoCall /\ c.tries = 0
    BY <1>2, CallAssumption DEF Call
  <2>2. /\ call = NoCall /\ calls' = calls + 1 /\ call' = c
        /\ UNCHANGED <<today, price, cash, book, risk, count, placed, open, scan>>
    BY <1>6 DEF Calls
  <2>3. MaxAttempts * (calls' - 1) = base + MaxAttempts
    BY <1>4, <2>2
  <2> HIDE DEF c, base
  <2>4. Counted /\ Placed /\ Left
    BY <1>2, <1>3, <1>4, <2>1, <2>2, <2>3
  <2>5. QED
    BY <1>2, <2>1, <2>2, <2>4
<1>7. ASSUME call # NoCall, UNCHANGED <<today, price, risk, calls, open, scan>>
      PROVE  base = MaxAttempts * (calls' - 1)
  BY <1>7
<1>8. CASE HlAnswered
  <2>1. /\ call # NoCall /\ Executed(call.ticker, call.qty)
        /\ placed' = placed + 1 /\ count' = count + 1 /\ call' = NoCall
        /\ UNCHANGED <<today, price, risk, calls, open, scan>>
    BY <1>8 DEF HlAnswered
  <2>2. cash' \in Int /\ book' \in Book
    BY <1>5, <2>1, ExecutedType
  <2>3. base = MaxAttempts * (calls' - 1)
    BY <1>7, <2>1
  <2> HIDE DEF base
  <2>4. Counted /\ Placed /\ Left
    BY <1>2, <1>3, <1>4, <1>5, <2>1, <2>3
  <2>5. QED
    BY <1>1, <1>2, <2>1, <2>2, <2>4
<1>9. CASE HlDeclined
  <2>1. /\ call # NoCall /\ count' = count + 1 /\ call' = NoCall
        /\ UNCHANGED <<today, price, cash, book, risk, placed, calls, open, scan>>
    BY <1>9 DEF HlDeclined
  <2>2. base = MaxAttempts * (calls' - 1)
    BY <1>7, <2>1
  <2> HIDE DEF base
  <2>3. Counted /\ Placed /\ Left
    BY <1>2, <1>3, <1>4, <1>5, <2>1, <2>2
  <2>4. QED
    BY <1>1, <1>2, <2>1, <2>3
<1>10. ASSUME call # NoCall, Retried
       PROVE  \/ call' = NoCall /\ call.tries + 1 = MaxAttempts
              \/ /\ call' \in Call /\ call' # NoCall
                 /\ call'.tries = call.tries + 1 /\ call'.tries < MaxAttempts
  <2>1. call.tries < MaxAttempts /\ call \in Call /\ call.tries \in Nat
    BY <1>3, <1>5, <1>10
  <2>2. CASE call.tries + 1 = MaxAttempts
    BY <1>10, <2>2 DEF Retried
  <2>3. CASE call.tries + 1 # MaxAttempts
    <3>1. call' = [call EXCEPT !.tries = call.tries + 1]
      BY <1>10, <2>1, <2>3 DEF Retried, Call
    <3>2. call' \in Call /\ call'.tries = call.tries + 1
      BY <1>2, <2>1, <3>1 DEF Call
    <3>3. QED
      BY <1>2, <2>1, <2>3, <3>2, CallAssumption
  <2>4. QED
    BY <2>2, <2>3
<1>11. CASE HlAnswerLost
  <2>1. /\ call # NoCall /\ Executed(call.ticker, call.qty)
        /\ placed' = placed + 1 /\ Retried
        /\ UNCHANGED <<today, price, risk, count, calls, open, scan>>
    BY <1>11 DEF HlAnswerLost
  <2>2. cash' \in Int /\ book' \in Book
    BY <1>5, <2>1, ExecutedType
  <2>3. base = MaxAttempts * (calls' - 1)
    BY <1>7, <2>1
  <2> HIDE DEF base
  <2>4. Counted /\ Placed /\ Left /\ call' \in Call \cup {NoCall}
    BY <1>2, <1>3, <1>4, <1>5, <1>10, <2>1, <2>3
  <2>5. QED
    BY <1>1, <1>2, <2>1, <2>2, <2>4
<1>12. CASE HlAttemptFails
  <2>1. /\ call # NoCall /\ Retried
        /\ UNCHANGED <<today, price, cash, book, risk, count, placed, calls, open, scan>>
    BY <1>12 DEF HlAttemptFails
  <2>2. base = MaxAttempts * (calls' - 1)
    BY <1>7, <2>1
  <2> HIDE DEF base
  <2>3. Counted /\ Placed /\ Left /\ call' \in Call \cup {NoCall}
    BY <1>2, <1>3, <1>4, <1>5, <1>10, <2>1, <2>2
  <2>4. QED
    BY <1>1, <1>2, <2>1, <2>3
<1>13. ASSUME NEW t \in Ticker,
              (\E n \in -MaxQty..MaxQty : n # 0 /\ HlSubmit(t, n)) \/ HlClose(t)
       PROVE  Fine
  <2>1. \E n \in Int : Calls(t, n)
    <3>1. \A n \in -MaxQty..MaxQty : n \in Int
      BY LiveAssumption
    <3>2. -book[t].shares \in Int
      BY <1>2 DEF Book, Holding
    <3>3. QED
      BY <1>13, <3>1, <3>2 DEF HlSubmit, HlClose
  <2>2. QED
    BY <1>6, <2>1
<1>14. QED
  <2> HIDE DEF Fine
  <2>1. QED
    BY <1>1, <1>8, <1>9, <1>11, <1>12, <1>13 DEF HyperliquidNext

-----------------------------------------------------------------------------
(* The invariant of the traders is inductive.                              *)

\* It holds to begin with, and so do the stops.
LEMMA InitTrades == TradingInit => TradeInv /\ StopsHonoured
<1> SUFFICES ASSUME TradingInit PROVE TradeInv /\ StopsHonoured
  OBVIOUS
<1>1. /\ mode \in Mode /\ today = 0 /\ price \in [Ticker -> Price] /\ cash = Capital
      /\ book = [t \in Ticker |-> Empty] /\ risk = Untracked
      /\ last = DefaultState.last /\ trades = 0 /\ drawn = 0 /\ file = DefaultState /\ cli = NotRunning
      /\ count = 0 /\ placed = 0 /\ calls = 0 /\ open = [t \in Ticker |-> 0]
      /\ scan = NoScan /\ call = NoCall
      /\ bar = 0 /\ quoted = {} /\ todo = {} /\ dayValue = Capital
      /\ exits = [t \in Ticker |-> Unset]
  BY DEF TradingInit, RiskInit, PaperInit, LiveInit, BacktestInit
<1>2. Capital \in Nat /\ MaxTrades \in Nat /\ MaxBars \in Nat /\ MaxDay \in Nat
      /\ MaxAttempts \in Nat
  BY RiskAssumption, PaperAssumption, BacktestAssumption, LiveAssumption
<1>3. book \in Book /\ [t \in Ticker |-> SomePrice] \in [Ticker -> Price]
  BY <1>1 DEF Empty, Book, Holding, SomePrice
<1>4. DefaultState \in Account
      /\ Solvent(DefaultState.cash + DefaultState.drawn, DefaultState.book)
      /\ DefaultState.last \in [Ticker -> Price]
  BY <1>1, <1>2, <1>3 DEF DefaultState, Account, Solvent, Empty
<1>5. RiskTypeOK
  BY <1>1, <1>2, <1>3 DEF RiskTypeOK, Untracked, Tracking
<1>6. PaperTypeOK /\ LiveTypeOK /\ BacktestTypeOK
  BY <1>1, <1>2, <1>4 DEF PaperTypeOK, LiveTypeOK, BacktestTypeOK, Unset, Exits
<1>7. AccountsInv
  BY <1>1, <1>2, <1>4, AccountAssumption DEF AccountsInv, Solvent, Empty
<1>8. CallsInv
  BY <1>1, <1>2 DEF CallsInv, OrdersMatchCalls
<1>9. StopsHonoured
  BY <1>1 DEF StopsHonoured
<1>10. QED
  BY <1>1, <1>5, <1>6, <1>7, <1>8, <1>9 DEF TradeInv, TradingTypeOK

\* No step breaks it, and none breaks the stops if the mandatory one is below
\* the price.
LEMMA TradeInductive ==
    ASSUME TradeInv, [TradingNext]_tradingVars
    PROVE  TradeInv' /\ (MandatoryStop > 0 /\ StopsHonoured => StopsHonoured')
<1> USE DEF TradeInv
<1>1. mode \in Mode
  BY DEF TradingTypeOK
<1>2. ASSUME mode # "backtest", mode' = mode
      PROVE  StopsHonoured'
  BY <1>2 DEF StopsHonoured
<1>3. ASSUME mode # "hyperliquid", mode' = mode
      PROVE  CallsInv'
  BY <1>3 DEF CallsInv, OrdersMatchCalls
<1>4. CASE mode = "paper" /\ PaperNext /\ UNCHANGED <<mode, liveVars, backtestVars>>
  BY <1>2, <1>3, <1>4, PaperStep
<1>5. CASE mode = "alpaca" /\ AlpacaNext /\ UNCHANGED <<mode, paperVars, backtestVars>>
  BY <1>2, <1>3, <1>5, AlpacaStep
<1>6. CASE mode = "hyperliquid" /\ HyperliquidNext /\ UNCHANGED <<mode, paperVars, backtestVars>>
  BY <1>2, <1>6, HyperliquidStep
<1>7. CASE mode = "backtest" /\ BacktestNext /\ UNCHANGED <<mode, paperVars, liveVars>>
  BY <1>3, <1>7, BacktestStep
<1>8. CASE Midnight /\ UNCHANGED <<mode, paperVars, liveVars, backtestVars>>
  <2>1. /\ today < MaxDay /\ today' = today + 1 /\ UNCHANGED <<mode, price, cash, book, risk>>
        /\ UNCHANGED <<last, trades, drawn, file, cli>>
        /\ UNCHANGED <<count, placed, calls, open, scan, call>>
        /\ UNCHANGED <<bar, quoted, todo, dayValue, exits>>
    BY <1>8 DEF Midnight, paperVars, liveVars, backtestVars
  <2>2. today' \in 0..MaxDay
    BY <2>1, Typed, RiskAssumption
  <2>3. RiskTypeOK' /\ PaperTypeOK' /\ LiveTypeOK' /\ BacktestTypeOK' /\ mode' \in Mode
    BY <2>1, <2>2 DEF TradingTypeOK, RiskTypeOK, PaperTypeOK, LiveTypeOK, BacktestTypeOK
  <2>4. AccountsInv' /\ CallsInv' /\ (StopsHonoured => StopsHonoured')
    BY <2>1 DEF AccountsInv, Solvent, CallsInv, OrdersMatchCalls, StopsHonoured
  <2>5. QED
    BY <2>3, <2>4 DEF TradingTypeOK
<1>9. CASE UNCHANGED tradingVars
  <2>1. /\ UNCHANGED <<mode, today, price, cash, book, risk>>
        /\ UNCHANGED <<last, trades, drawn, file, cli>>
        /\ UNCHANGED <<count, placed, calls, open, scan, call>>
        /\ UNCHANGED <<bar, quoted, todo, dayValue, exits>>
    BY <1>9 DEF tradingVars, paperVars, liveVars, backtestVars
  <2>2. TradingTypeOK'
    BY <2>1 DEF TradingTypeOK, RiskTypeOK, PaperTypeOK, LiveTypeOK, BacktestTypeOK
  <2>3. AccountsInv' /\ CallsInv' /\ (StopsHonoured => StopsHonoured')
    BY <2>1 DEF AccountsInv, Solvent, CallsInv, OrdersMatchCalls, StopsHonoured
  <2>4. QED
    BY <2>2, <2>3
<1>10. QED
  BY <1>4, <1>5, <1>6, <1>7, <1>8, <1>9 DEF TradingNext

\* Every reachable state satisfies the invariant.
LEMMA TradeInvHolds == TradingSpec => []TradeInv
<1>1. TradingInit => TradeInv
  BY InitTrades
<1>2. TradeInv /\ [TradingNext]_tradingVars => TradeInv'
  BY TradeInductive
<1>3. QED
  BY <1>1, <1>2, PTL DEF TradingSpec

-----------------------------------------------------------------------------
(* Buying.                                                                 *)

\* Positions that do not grow are no buy.
LEMMA NoGrowth ==
    ASSUME book \in Book, book' \in Book,
           \A t \in Ticker : book'[t].shares <= book[t].shares
    PROVE  ~Bought
BY DEF Bought, Book, Holding

\* What the limits leave room for stays within them.
LEMMA RoomFor ==
    ASSUME NEW alloc, NEW c, NEW value \in Int, NEW b \in Book, NEW paid \in Int,
           NEW e \in Int, Allowed(alloc, c, value, b),
           Allotted(alloc, value) \in Int, paid <= Allotted(alloc, value),
           e <= Exposure(b) + paid
    PROVE  e * 100 <= MaxExposure * value
<1>1. (Exposure(b) + Allotted(alloc, value)) * 100 <= value * MaxExposure
  BY DEF Allowed, WithinLimits
<1>2. Exposure(b) \in Int /\ MaxExposure \in Int
  BY ExposureOfAll, RiskAssumption
<1>3. value * MaxExposure = MaxExposure * value /\ MaxExposure * value \in Int
  BY <1>2
<1> DEFINE limit == MaxExposure * value
           given == Allotted(alloc, value)
<1>4. limit \in Int /\ given \in Int /\ (Exposure(b) + given) * 100 <= limit /\ paid <= given
  BY <1>1, <1>3
<1> HIDE DEF limit, given
<1>5. e * 100 <= limit
  BY <1>2, <1>4
<1>6. QED
  BY <1>5 DEF limit

\* A buy of the paper account is one the gate allowed, and leaves room.
LEMMA PaperBuys ==
    ASSUME TradeInv, mode = "paper", PaperNext, Bought, ~Restarted
    PROVE  /\ \E alloc \in Int : Allowed(alloc, cash, Equity, book)
           /\ Exposure(book') * 100 <= MaxExposure * Equity
<1>1. /\ TradingTypeOK /\ Solvent(cash + drawn, book) /\ book \in Book /\ cash \in Int /\ Equity \in Int
      /\ \A t \in Ticker : price[t] \in Nat
  BY Typed, WorthType DEF TradeInv, AccountsInv, Equity
<1>2. book' = book => ~Bought
  <2>1. \A t \in Ticker : book[t].shares \in Int
    BY <1>1 DEF Book, Holding
  <2>2. QED
    BY <2>1 DEF Bought
<1>3. ASSUME NEW t \in Ticker, NEW n \in Lots, ExecuteSell(t, n)
      PROVE  FALSE
  <2>1. book' \in Book /\ \A u \in Ticker : book'[u].shares <= book[u].shares
    BY <1>1, <1>3, SellFacts DEF Bought
  <2>2. QED
    BY <1>1, <2>1, NoGrowth
<1>4. ASSUME NEW t \in Ticker, NEW p \in Price, FetchesPrice(t, p)
      PROVE  FALSE
  BY <1>2, <1>4 DEF FetchesPrice
<1>5. ASSUME NEW f, ReloadsAccount(f)
      PROVE  FALSE
  BY <1>5 DEF ReloadsAccount, Restarted
<1>6. ASSUME CliLoads \/ \E p \in [Ticker -> Price] : CliSaves(p)
      PROVE  FALSE
  BY <1>2, <1>6 DEF CliLoads, CliSaves
<1>7. PICK t \in Ticker, n \in Lots : ExecuteBuy(t, n)
  BY <1>3, <1>4, <1>5, <1>6 DEF PaperNext
<1>8. PICK alloc \in Nat, s \in Nat \ {0} :
           /\ Allowed(alloc, cash, Equity, book) /\ Affordable(s, price[t])
           /\ s * price[t] <= Allotted(alloc, Equity)
           /\ Books(t, s)
  BY <1>1, <1>2, <1>7, BuyFacts
<1>9. book' \in Book /\ Exposure(book') <= Exposure(book) + s * price[t]
  BY <1>1, <1>8, BooksFacts
<1>10. Exposure(book') \in Int
  <2>1. \A b \in Book : Exposure(b) \in Int
    BY ExposureOfAll
  <2>2. QED
    BY <1>9, <2>1
<1>11. s * price[t] \in Int /\ Allotted(alloc, Equity) \in Int
  <2>1. s \in Nat /\ price[t] \in Nat
    BY <1>1
  <2>2. s * price[t] \in Nat
    BY <2>1, Product
  <2>3. alloc \in Int /\ Equity \in Int
    BY <1>1
  <2>4. Allotted(alloc, Equity) \in Int
    BY <2>3, AllottedType
  <2>5. QED
    BY <2>2, <2>4
<1>12. Exposure(book') * 100 <= MaxExposure * Equity
  <2> DEFINE paid == s * price[t]
             e == Exposure(book')
             value == Equity
  <2>1. /\ paid \in Int /\ e \in Int /\ value \in Int /\ paid <= Allotted(alloc, value)
        /\ e <= Exposure(book) + paid /\ Allowed(alloc, cash, value, book)
        /\ Allotted(alloc, value) \in Int
    BY <1>1, <1>8, <1>9, <1>10, <1>11
  <2> HIDE DEF paid, e, value
  <2>2. e * 100 <= MaxExposure * value
    BY <1>1, <2>1, RoomFor
  <2>3. QED
    BY <2>2 DEF e, value
<1>13. QED
  BY <1>8, <1>12

\* So is a buy of a backtest.
LEMMA BacktestBuys ==
    ASSUME TradeInv, mode = "backtest", BacktestNext, Bought
    PROVE  /\ \E alloc \in Int : Allowed(alloc, cash, dayValue, book)
           /\ Exposure(book') * 100 <= MaxExposure * dayValue
<1>1. /\ TradingTypeOK /\ Solvent(cash, book) /\ book \in Book /\ cash \in Int /\ dayValue \in Int
      /\ price \in [Ticker -> Price] /\ \A t \in Ticker : price[t] \in Nat
  BY Typed DEF TradeInv, AccountsInv, TradingTypeOK, BacktestTypeOK
<1>2. book' = book => ~Bought
  <2>1. \A t \in Ticker : book[t].shares \in Int
    BY <1>1 DEF Book, Holding
  <2>2. QED
    BY <2>1 DEF Bought
<1>3. ASSUME NEW leaving \in SUBSET Held(book), NEW p \in [Ticker -> Price], Sold(leaving, p)
      PROVE  FALSE
  <2>1. book' \in Book /\ \A u \in Ticker : book'[u].shares <= book[u].shares
    BY <1>1, <1>3, SoldFacts
  <2>2. QED
    BY <1>1, <2>1, NoGrowth
<1>4. ASSUME NEW rows \in SUBSET Ticker, NEW p \in [Ticker -> Price], Day(rows, p)
      PROVE  FALSE
  <2> DEFINE leaving == {t \in Held(book) \cap rows : Leaves(t, p[t])}
  <2>1. Sold(leaving, p) /\ leaving \in SUBSET Held(book)
    BY <1>4 DEF Day
  <2> HIDE DEF leaving
  <2>2. QED
    BY <1>3, <2>1
<1>5. PICK t \in Ticker : FollowsSignal(t)
  BY <1>4 DEF BacktestNext
<1>6. ~(t \in Held(book) /\ Sold({t}, price))
  BY <1>1, <1>3
<1>7. Entry(t) /\ t \notin Held(book)
  BY <1>2, <1>5, <1>6 DEF FollowsSignal, Entry
<1>8. PICK alloc \in Int, n \in Nat \ {0}, stop \in 0..price[t] - 1,
           target \in Price \cup {NoExit} :
           /\ Allowed(alloc, cash, dayValue, book)
           /\ n * price[t] <= Allotted(alloc, dayValue)
           /\ n * price[t] <= cash
           /\ Enter(t, n, stop, target)
  BY <1>1, <1>2, <1>7, EntryFacts
<1>9. book' \in Book /\ Exposure(book') = Exposure(book) + n * price[t]
  BY <1>1, <1>7, <1>8, EnterFacts
<1>10. Exposure(book') \in Int /\ Exposure(book) \in Int
  <2>1. \A b \in Book : Exposure(b) \in Int
    BY ExposureOfAll
  <2>2. QED
    BY <1>1, <1>9, <2>1
<1>11. n * price[t] \in Int /\ Allotted(alloc, dayValue) \in Int
  <2>1. n \in Nat /\ price[t] \in Nat
    BY <1>1
  <2>2. n * price[t] \in Nat
    BY <2>1, Product
  <2>3. alloc \in Int /\ dayValue \in Int
    BY <1>1
  <2>4. Allotted(alloc, dayValue) \in Int
    BY <2>3, AllottedType
  <2>5. QED
    BY <2>2, <2>4
<1>12. Exposure(book') * 100 <= MaxExposure * dayValue
  <2> DEFINE paid == n * price[t]
             e == Exposure(book')
  <2>1. /\ paid \in Int /\ e \in Int /\ paid <= Allotted(alloc, dayValue)
        /\ e <= Exposure(book) + paid
    BY <1>8, <1>9, <1>10, <1>11
  <2> HIDE DEF paid, e
  <2>2. e * 100 <= MaxExposure * dayValue
    BY <1>1, <1>8, <1>11, <2>1, RoomFor
  <2>3. QED
    BY <2>2 DEF e
<1>13. QED
  BY <1>8, <1>12

\* An order to buy of a scan is one the gate allowed.
LEMMA AlpacaOrders ==
    ASSUME TradeInv, mode = "alpaca", AlpacaNext, Ordered
    PROVE  \E alloc \in Int : Allowed(alloc, scan.cash, scan.equity, scan.book)
<1>1. TradingTypeOK /\ open \in [Ticker -> Int]
  BY DEF TradeInv, TradingTypeOK, LiveTypeOK
<1>2. (\A t \in Ticker : open'[t] <= open[t]) /\ open' \in [Ticker -> Int] => ~Ordered
  BY <1>1 DEF Ordered
<1>3. open' # open /\ scan' # scan
  BY <1>1, <1>2 DEF Ordered
<1>4. PICK t \in Ticker : ScanTicker(t)
  BY <1>3 DEF AlpacaNext, ScanBegins, BrokerFills, BrokerExpires, Quotes, liveVars,
             ScanFails, BotRestarts
<1>5. QED
  BY <1>1, <1>2, <1>4, ScanFacts

-----------------------------------------------------------------------------
(* Theorems about the traders.                                             *)

\* Every trader's account, tracking, orders and exits keep their types.
THEOREM TradingTypeCorrect == TradingSpec => []TradingTypeOK
<1>1. TradeInv => TradingTypeOK
  BY DEF TradeInv
<1>2. QED
  BY <1>1, TradeInvHolds, PTL

\* A backtest never owes anything, a paper account no more than its sales of
\* negative numbers took: in memory, in the file and in the copy of a
\* command-line scan.
THEOREM NeverInDebt == TradingSpec => []NeverOverdrawn
<1>1. TradeInv => NeverOverdrawn
  BY DEF TradeInv, AccountsInv, Solvent, NeverOverdrawn
<1>2. QED
  BY <1>1, TradeInvHolds, PTL

\* The adapter of Hyperliquid makes at most MaxAttempts orders of a call, and
\* counts it once at most, whatever answers are lost.
THEOREM AttemptsBounded == TradingSpec => []OrdersMatchCalls
<1>1. TradeInv => OrdersMatchCalls
  BY DEF TradeInv, CallsInv
<1>2. QED
  BY <1>1, TradeInvHolds, PTL

\* If the mandatory stop is below the price at all, no position of a backtest is
\* left at or below its stop after the exits of a date that has a row for it.
THEOREM StopsWork ==
    ASSUME MandatoryStop > 0
    PROVE  TradingSpec => []StopsHonoured
<1> DEFINE Inv == TradeInv /\ StopsHonoured
<1>1. TradingInit => Inv
  BY InitTrades
<1>2. MandatoryStop > 0 /\ Inv /\ [TradingNext]_tradingVars => Inv'
  BY TradeInductive
<1>3. Inv /\ [TradingNext]_tradingVars => Inv'
  BY <1>2
<1>4. QED
  BY <1>1, <1>3, PTL DEF TradingSpec

\* Within one run of the server or of a backtest, a buy leaves the cost of all
\* positions within their share of the equity it was judged by.
THEOREM WithinExposure == TradingSpec => ExposureWithinLimit
<1> DEFINE Room == Bought /\ ~Restarted /\ mode \in {"paper", "backtest"} =>
              Exposure(book') * 100 <= MaxExposure * (IF mode = "paper" THEN Equity ELSE dayValue)
<1>1. TradeInv /\ [TradingNext]_tradingVars => [Room]_tradingVars
  <2> SUFFICES ASSUME TradeInv, TradingNext, Bought, ~Restarted, mode \in {"paper", "backtest"}
               PROVE  Room
    BY DEF Room
  <2>1. CASE mode = "paper" /\ PaperNext
    BY <2>1, PaperBuys
  <2>2. CASE mode = "backtest" /\ BacktestNext
    BY <2>2, BacktestBuys
  <2>3. ~Midnight
    <3>1. book \in Book
      BY Typed DEF TradeInv
    <3>2. \A t \in Ticker : book[t].shares \in Int
      BY <3>1 DEF Book, Holding
    <3>3. QED
      BY <3>2 DEF Midnight, Bought
  <2>4. QED
    BY <2>1, <2>2, <2>3 DEF TradingNext
<1>2. QED
  BY <1>1, TradeInvHolds, PTL DEF TradingSpec, ExposureWithinLimit

\* A tripped breaker bars every buy and every order to buy until the date changes.
THEOREM BreakerBars == TradingSpec => BreakerHolds
<1> DEFINE Barred == risk.tripped /\ risk.day = today /\ ~Restarted =>
              CASE mode \in {"paper", "backtest"} -> ~Bought
                [] mode = "alpaca" -> ~Ordered
                [] OTHER -> TRUE
<1>1. TradeInv /\ [TradingNext]_tradingVars => [Barred]_tradingVars
  <2> SUFFICES ASSUME TradeInv, TradingNext, risk.tripped, risk.day = today, ~Restarted
               PROVE  /\ mode \in {"paper", "backtest"} => ~Bought
                      /\ mode = "alpaca" => ~Ordered
    OBVIOUS
  <2>1. \A alloc, c, value, b : ~Allowed(alloc, c, value, b)
    <3>1. risk \in Tracking
      BY Typed DEF TradeInv
    <3>2. QED
      BY <3>1, TrippedBars
  <2>2. CASE mode = "paper" /\ PaperNext
    BY <2>1, <2>2, PaperBuys
  <2>3. CASE mode = "backtest" /\ BacktestNext
    BY <2>1, <2>3, BacktestBuys
  <2>4. CASE mode = "alpaca" /\ AlpacaNext
    BY <2>1, <2>4, AlpacaOrders
  <2>5. CASE mode = "hyperliquid"
    BY <2>5
  <2>6. CASE Midnight /\ UNCHANGED liveVars
    <3>1. book \in Book
      BY Typed DEF TradeInv
    <3>2. \A t \in Ticker : book[t].shares \in Int
      BY <3>1 DEF Book, Holding
    <3>3. QED
      BY <2>6, <3>2 DEF Midnight, Bought, Ordered, liveVars
  <2>7. QED
    BY <2>2, <2>3, <2>4, <2>5, <2>6 DEF TradingNext
<1>2. QED
  BY <1>1, TradeInvHolds, PTL DEF TradingSpec, BreakerHolds

-----------------------------------------------------------------------------
(* The server.  Lists without duplicates.                                  *)

Distinct(l) == \A i, j \in DOMAIN l : l[i] = l[j] => i = j

\* A part of a list, from the element after the first m to the n-th.
LEMMA Part ==
    ASSUME NEW S, NEW l \in Seq(S), NEW m \in Nat, NEW n \in Nat, m <= n, n <= Len(l)
    PROVE  /\ SubSeq(l, m + 1, n) \in Seq(S)
           /\ Len(SubSeq(l, m + 1, n)) = n - m
           /\ \A i \in 1 .. n - m : SubSeq(l, m + 1, n)[i] = l[m + i]
<1>1. PICK first \in Int : first = m + 1
  OBVIOUS
<1>2. \A i \in first .. n : l[i] \in S
  <2>1. \A i \in 1 .. Len(l) : l[i] \in S
    BY ElementOfSeq
  <2>2. Len(l) \in Nat
    OBVIOUS
  <2>3. QED
    BY <1>1, <2>1, <2>2
<1>3. /\ SubSeq(l, first, n) \in Seq(S)
      /\ Len(SubSeq(l, first, n)) = IF first <= n THEN n - first + 1 ELSE 0
      /\ \A i \in 1 .. n - first + 1 : SubSeq(l, first, n)[i] = l[first + i - 1]
  BY <1>2, SubSeqProperties
<1>4. n - first + 1 = n - m
  BY <1>1
<1>5. Len(SubSeq(l, first, n)) = n - m
  <2>1. CASE first <= n
    BY <1>3, <1>4, <2>1
  <2>2. CASE ~(first <= n)
    BY <1>1, <1>3, <2>2
  <2>3. QED
    BY <2>1, <2>2
<1>6. \A i \in 1 .. n - m : first + i - 1 = m + i
  BY <1>1
<1>7. \A i \in 1 .. n - m : SubSeq(l, first, n)[i] = l[m + i]
  BY <1>3, <1>4, <1>6
<1>8. QED
  BY <1>1, <1>3, <1>5, <1>7

\* remove takes a client off such a list, wherever it is.
LEMMA Removed ==
    ASSUME NEW S, NEW l \in Seq(S), Distinct(l), NEW c
    PROVE  /\ RemoveFirst(l, c) \in Seq(S)
           /\ Distinct(RemoveFirst(l, c))
           /\ ToSet(RemoveFirst(l, c)) = ToSet(l) \ {c}
<1>1. CASE \A i \in 1 .. Len(l) : l[i] # c
  <2>1. RemoveFirst(l, c) = l
    BY <1>1 DEF RemoveFirst
  <2>2. c \notin ToSet(l)
    BY <1>1 DEF ToSet
  <2>3. QED
    BY <2>1, <2>2
<1>2. ASSUME NEW n \in 1 .. Len(l), l[n] = c
      PROVE  /\ RemoveFirst(l, c) \in Seq(S)
             /\ Distinct(RemoveFirst(l, c))
             /\ ToSet(RemoveFirst(l, c)) = ToSet(l) \ {c}
  <2> DEFINE cut == SubSeq(l, 1, n - 1) \o SubSeq(l, n + 1, Len(l))
  <2>1. {i \in 1 .. Len(l) : l[i] = c} = {n}
    BY <1>2 DEF Distinct
  <2>2. Min({n}) = n
    BY DEF Min
  <2>3. SelectInSeq(l, LAMBDA v : v = c) = n
    BY <2>1, <2>2 DEF SelectInSeq
  <2>4. RemoveFirst(l, c) = cut
    BY <1>2, <2>3 DEF RemoveFirst, RemoveAt
  <2>5. Len(l) \in Nat /\ DOMAIN l = 1 .. Len(l)
    OBVIOUS
  <2>6. /\ cut \in Seq(S) /\ DOMAIN cut = 1 .. Len(l) - 1
        /\ \A i \in 1 .. n - 1 : cut[i] = l[i]
        /\ \A i \in n .. Len(l) - 1 : cut[i] = l[i + 1]
    <3> DEFINE before == SubSeq(l, 1, n - 1)
    <3> DEFINE after == SubSeq(l, n + 1, Len(l))
    <3>0. /\ n - 1 \in Nat /\ 0 \in Nat /\ 0 <= n - 1 /\ n - 1 <= Len(l)
          /\ n \in Nat /\ Len(l) \in Nat /\ n <= Len(l) /\ Len(l) <= Len(l)
      BY <2>5
    <3>1. /\ before \in Seq(S) /\ Len(before) = n - 1
          /\ \A i \in 1 .. n - 1 : before[i] = l[i]
      <4>1. /\ SubSeq(l, 0 + 1, n - 1) \in Seq(S)
            /\ Len(SubSeq(l, 0 + 1, n - 1)) = n - 1 - 0
            /\ \A i \in 1 .. n - 1 - 0 : SubSeq(l, 0 + 1, n - 1)[i] = l[0 + i]
        BY <3>0, Part
      <4>2. 0 + 1 = 1 /\ n - 1 - 0 = n - 1 /\ \A i \in 1 .. n - 1 : 0 + i = i
        BY <3>0
      <4>3. QED
        BY <4>1, <4>2
    <3>2. /\ after \in Seq(S) /\ Len(after) = Len(l) - n
          /\ \A i \in 1 .. Len(l) - n : after[i] = l[n + i]
      BY <3>0, Part
    <3> HIDE DEF before, after
    <3>3. /\ before \o after \in Seq(S)
          /\ Len(before \o after) = Len(before) + Len(after)
          /\ \A i \in 1 .. Len(before) + Len(after) : (before \o after)[i] =
                IF i <= Len(before) THEN before[i] ELSE after[i - Len(before)]
      BY <3>1, <3>2, ConcatProperties
    <3>4. /\ DOMAIN (before \o after) = 1 .. Len(l) - 1
          /\ \A i \in 1 .. n - 1 : (before \o after)[i] = l[i]
      <4>1. DOMAIN (before \o after) = 1 .. Len(before \o after)
        BY <3>3, LenProperties
      <4>2. Len(before \o after) = Len(l) - 1
        BY <3>0, <3>1, <3>2, <3>3
      <4>3. \A i \in 1 .. n - 1 : i \in 1 .. Len(before) + Len(after) /\ i <= Len(before)
        BY <3>0, <3>1, <3>2
      <4>4. \A i \in 1 .. n - 1 : (before \o after)[i] = l[i]
        BY <3>1, <3>3, <4>3
      <4>5. QED
        BY <4>1, <4>2, <4>4
    <3>5. ASSUME NEW i \in n .. Len(l) - 1
          PROVE  (before \o after)[i] = l[i + 1]
      <4>1. /\ i \in 1 .. Len(before) + Len(after) /\ ~(i <= Len(before))
            /\ i - Len(before) \in 1 .. Len(l) - n /\ n + (i - Len(before)) = i + 1
        BY <2>5, <3>1, <3>2
      <4>2. QED
        BY <3>2, <3>3, <4>1
    <3>6. QED
      BY <3>3, <3>4, <3>5 DEF before, after
  <2> HIDE DEF cut
  <2>7. \A i \in DOMAIN cut : \E k \in DOMAIN l :
            k # n /\ cut[i] = l[k] /\ k = IF i < n THEN i ELSE i + 1
    <3> SUFFICES ASSUME NEW i \in DOMAIN cut
                 PROVE  \E k \in DOMAIN l :
                            k # n /\ cut[i] = l[k] /\ k = IF i < n THEN i ELSE i + 1
      OBVIOUS
    <3>1. CASE i < n
      BY <2>5, <2>6, <3>1
    <3>2. CASE ~(i < n)
      BY <2>5, <2>6, <3>2
    <3>3. QED
      BY <3>1, <3>2
  <2>8. Distinct(cut)
    <3> SUFFICES ASSUME NEW i \in DOMAIN cut, NEW j \in DOMAIN cut, cut[i] = cut[j]
                 PROVE  i = j
      BY DEF Distinct
    <3>1. PICK k \in DOMAIN l : cut[i] = l[k] /\ k = IF i < n THEN i ELSE i + 1
      BY <2>7
    <3>2. PICK m \in DOMAIN l : cut[j] = l[m] /\ m = IF j < n THEN j ELSE j + 1
      BY <2>7
    <3>3. k = m
      BY <3>1, <3>2 DEF Distinct
    <3>4. QED
      BY <2>5, <2>6, <3>1, <3>2, <3>3
  <2>9. ToSet(cut) = ToSet(l) \ {c}
    <3>1. ASSUME NEW i \in DOMAIN cut PROVE cut[i] \in ToSet(l) \ {c}
      <4>1. PICK k \in DOMAIN l : k # n /\ cut[i] = l[k]
        BY <2>7
      <4>2. l[k] # c
        BY <1>2, <2>5, <4>1 DEF Distinct
      <4>3. QED
        BY <4>1, <4>2 DEF ToSet
    <3>2. ASSUME NEW i \in DOMAIN l, l[i] # c PROVE l[i] \in ToSet(cut)
      <4>1. CASE i < n
        <5>1. i \in DOMAIN cut /\ cut[i] = l[i]
          BY <2>5, <2>6, <4>1
        <5>2. QED
          BY <5>1 DEF ToSet
      <4>2. CASE i > n
        <5>1. i - 1 \in n .. Len(l) - 1 /\ (i - 1) + 1 = i
          BY <2>5, <4>2
        <5>2. i - 1 \in DOMAIN cut /\ cut[i - 1] = l[i]
          BY <2>5, <2>6, <5>1
        <5>3. QED
          BY <5>2 DEF ToSet
      <4>3. QED
        BY <1>2, <2>5, <3>2, <4>1, <4>2
    <3>3. QED
      BY <3>1, <3>2 DEF ToSet
  <2>10. QED
    BY <2>4, <2>6, <2>8, <2>9 DEF cut
<1>3. QED
  BY <1>1, <1>2

\* A client that is not on the list is put at its end.
LEMMA Appended ==
    ASSUME NEW S, NEW l \in Seq(S), Distinct(l), NEW c \in S, c \notin ToSet(l)
    PROVE  /\ Append(l, c) \in Seq(S)
           /\ Distinct(Append(l, c))
           /\ ToSet(Append(l, c)) = ToSet(l) \cup {c}
<1> DEFINE longer == Append(l, c)
<1>1. /\ Len(l) \in Nat /\ DOMAIN l = 1 .. Len(l) /\ longer \in Seq(S)
      /\ DOMAIN longer = 1 .. Len(l) + 1
      /\ \A i \in DOMAIN l : longer[i] = l[i]
      /\ longer[Len(l) + 1] = c
  OBVIOUS
<1>2. \A i \in DOMAIN longer : i \in DOMAIN l \/ i = Len(l) + 1
  BY <1>1
<1>3. \A i \in DOMAIN l : l[i] # c
  BY DEF ToSet
<1>4. Distinct(longer)
  BY <1>1, <1>2, <1>3 DEF Distinct
<1>5. ToSet(longer) = ToSet(l) \cup {c}
  BY <1>1, <1>2 DEF ToSet
<1>6. QED
  BY <1>1, <1>4, <1>5

\* What is left of a list is all but its head.
LEMMA HeadAndTail ==
    ASSUME NEW S, NEW l \in Seq(S), l # << >>
    PROVE  /\ Head(l) \in S /\ Tail(l) \in Seq(S)
           /\ ToSet(l) = {Head(l)} \cup ToSet(Tail(l))
<1>1. /\ Len(l) \in Nat \ {0} /\ DOMAIN l = 1 .. Len(l) /\ Head(l) = l[1]
      /\ Tail(l) \in Seq(S) /\ DOMAIN Tail(l) = 1 .. Len(l) - 1
      /\ \A i \in 1 .. Len(l) - 1 : Tail(l)[i] = l[i + 1]
      /\ Head(l) \in S
  OBVIOUS
<1>2. ASSUME NEW i \in DOMAIN l, i # 1 PROVE l[i] \in ToSet(Tail(l))
  <2>1. i - 1 \in DOMAIN Tail(l) /\ Tail(l)[i - 1] = l[i]
    BY <1>1, <1>2
  <2>2. QED
    BY <2>1 DEF ToSet
<1>3. \A i \in DOMAIN Tail(l) : Tail(l)[i] \in ToSet(l)
  BY <1>1 DEF ToSet
<1>4. QED
  BY <1>1, <1>2, <1>3 DEF ToSet

-----------------------------------------------------------------------------
(* Types.                                                                  *)

SocketState == {"new", "open", "gone"}

Route == [name : Strategy] \cup [ticker : Ticker, proposed : Nat]

Task ==
    [at : {"idle"}]
        \cup [at : {"gate"}, org : Org, route : Route]
        \cup [at : {"telling"}, all : SUBSET Client, left : Seq(Client) \ {<< >>},
              sent : SUBSET Client]
        \cup [at : {"ok"}, all : SUBSET Client, sent : SUBSET Client]

TypeOK ==
    /\ watchlist \subseteq Ticker /\ unmetered \subseteq watchlist
    /\ listed \in Seq(Client)
    /\ socket \in [Client -> SocketState]
    /\ task \in [Req -> Task]

\* The states a request can be in are tasks.
LEMMA TaskTypes ==
    /\ Idle \in Task
    /\ \A org \in Org, route \in Route : Gate(org, route) \in Task
    /\ \A all \in SUBSET Client, left \in Seq(Client) \ {<< >>}, sent \in SUBSET Client :
          Telling(all, left, sent) \in Task
    /\ \A all \in SUBSET Client, sent \in SUBSET Client : Told(all, sent) \in Task
BY DEF Idle, Gate, Telling, Told, Task

\* What is at a telling and at a waiting request.
LEMMA TaskFields ==
    ASSUME NEW t \in Task
    PROVE  /\ t.at \in {"idle", "gate", "telling", "ok"}
           /\ t.at = "telling" => /\ t.left \in Seq(Client) /\ t.left # << >>
                                  /\ t.all \subseteq Client /\ t.sent \subseteq Client
           /\ t.at = "gate" => t.org \in Org /\ t.route \in Route
BY DEF Task

\* A gate is asked for a strategy or for a ticker.
LEMMA RouteFields ==
    ASSUME NEW route \in Route
    PROVE  /\ "ticker" \in DOMAIN route => /\ route.ticker \in Ticker /\ route.proposed \in Nat
                                           /\ "name" \notin DOMAIN route
           /\ "name" \in DOMAIN route => route.name \in Strategy
<1>1. CASE route \in [name : Strategy]
  <2>1. DOMAIN route = {"name"} /\ route.name \in Strategy
    BY <1>1
  <2>2. QED
    BY <2>1
<1>2. CASE route \in [ticker : Ticker, proposed : Nat]
  <2>1. DOMAIN route = {"ticker", "proposed"} /\ route.ticker \in Ticker /\ route.proposed \in Nat
    BY <1>2
  <2>2. QED
    BY <2>1
<1>3. QED
  BY <1>1, <1>2 DEF Route

-----------------------------------------------------------------------------
(* What a route does to its own request.  Reading a shared variable it     *)
(* goes on to a gate, to a broadcast or to its answer.                     *)

\* The first state of a broadcast.
Begun == IF listed = << >> THEN Told({}, {}) ELSE Telling(ToSet(listed), listed, {})

\* A broadcast begins as a task, whatever is listed.
LEMMA BegunTypes ==
    ASSUME TypeOK
    PROVE  Begun \in Task
<1>1. listed \in Seq(Client) /\ ToSet(listed) \subseteq Client
  <2>1. listed \in Seq(Client)
    BY DEF TypeOK
  <2>2. \A i \in DOMAIN listed : listed[i] \in Client
    BY <2>1
  <2>3. QED
    BY <2>1, <2>2 DEF ToSet
<1>2. CASE listed = << >>
  BY <1>2, TaskTypes DEF Begun
<1>3. CASE listed # << >>
  BY <1>1, <1>3, TaskTypes DEF Begun
<1>4. QED
  BY <1>2, <1>3

\* A step of a route: all but Send and SendFails.
Routed(r) ==
    \/ \E org \in Resolved, s \in Strategy, on \in BOOLEAN : Toggle(r, org, s, on)
    \/ UpdateWeights(r)
    \/ \E org \in Resolved, t \in Ticker : AddToWatchlist(r, org, t)
    \/ GateAnswers(r) \/ GateFails(r)
    \/ \E signals \in [data -> Heard] : RunScan(r, signals)
    \/ \E t \in Ticker : ExecuteTrade(r, t)
    \/ Answered(r)

\* Switching a strategy: at once, or after its gate.
LEMMA ToggleDoes ==
    ASSUME TypeOK, NEW r \in Req, NEW org \in Resolved, NEW s \in Strategy,
           NEW on \in BOOLEAN, Toggle(r, org, s, on)
    PROVE  /\ UNCHANGED <<sockets, watchlist, unmetered>>
           /\ \E t \in Task : /\ Becomes(r, t)
                              /\ t.at \in {"idle", "gate"} \/ t = Begun
                              /\ t.at = "gate" => "ticker" \notin DOMAIN t.route
<1>1. CASE Becomes(r, Gate(org, [name |-> s])) /\ org # NoOrg /\ UNCHANGED state
  <2>1. /\ org \in Org /\ [name |-> s] \in Route
        /\ "ticker" \notin DOMAIN [name |-> s]
    BY <1>1 DEF Resolved, Route
  <2>2. Gate(org, [name |-> s]) \in Task
    BY <2>1, TaskTypes
  <2>3. QED
    BY <1>1, <2>1, <2>2 DEF Gate, Toggle, state
<1>2. CASE Toggles(r, s, on)
  <2>1. Begun.at # "gate"
    BY DEF Begun, Told, Telling
  <2>2. QED
    BY <1>2, <2>1, BegunTypes DEF Toggle, Toggles, Broadcast, Begun
<1>3. QED
  BY <1>1, <1>2 DEF Toggle

\* What a ticker added does to the list: it counts unless no organisation asked.
LEMMA AddsDoes ==
    ASSUME TypeOK, NEW r \in Req, NEW org, NEW t \in Ticker, Adds(r, org, t)
    PROVE  /\ Becomes(r, Idle)
           /\ watchlist' \subseteq Ticker /\ unmetered' \subseteq watchlist'
           /\ watchlist' \ unmetered' \subseteq (watchlist \ unmetered) \cup {t}
           /\ org = NoOrg \/ t \in watchlist =>
                 watchlist' \ unmetered' \subseteq watchlist \ unmetered
BY DEF Adds, TypeOK

\* A request that waits for the answer to a check it may pass.
Passes(t) ==
    /\ t.at = "gate" /\ "ticker" \in DOMAIN t.route
    /\ \E k \in Tier : t.route.proposed <= Cap[k]

Passing == {r \in Req : Passes(task[r])}

\* Tickers that count.
Metered == watchlist \ unmetered

\* What a step of a route does to the watchlist and to its own check.
CapEffect(r) ==
    \/ ~Passes(task'[r]) /\ Metered' \subseteq Metered
    \/ /\ Metered' \subseteq watchlist
       /\ \E k \in Tier : Cardinality(watchlist) + 1 <= Cap[k]
    \/ /\ Passes(task[r]) /\ ~Passes(task'[r])
       /\ \E t \in Ticker : Metered' \subseteq Metered \cup {t}

\* Adding a ticker: a check begins, or it is added at once and does not count.
LEMMA AddDoes ==
    ASSUME TypeOK, NEW r \in Req, NEW org \in Resolved, NEW t \in Ticker,
           AddToWatchlist(r, org, t)
    PROVE  /\ UNCHANGED sockets
           /\ watchlist' \subseteq Ticker /\ unmetered' \subseteq watchlist'
           /\ \E u \in Task : Becomes(r, u) /\ u.at \in {"idle", "gate"}
           /\ CapEffect(r)
<1>1. UNCHANGED sockets /\ task \in [Req -> Task]
  BY DEF AddToWatchlist, TypeOK
<1>2. CASE /\ org # NoOrg /\ UNCHANGED state
           /\ Becomes(r, Gate(org, [ticker |-> t, proposed |-> Cardinality(watchlist) + 1]))
  <2> DEFINE route == [ticker |-> t, proposed |-> Cardinality(watchlist) + 1]
  <2>1. Cardinality(watchlist) \in Nat
    BY FS_Subset, FS_CardinalityType, DashboardAssumption, TickerAssumption DEF TypeOK
  <2>2. org \in Org /\ route \in Route
    BY <1>2, <2>1 DEF Resolved, Route
  <2>3. Gate(org, route) \in Task /\ Gate(org, route).at = "gate"
    BY <2>2, TaskTypes DEF Gate
  <2>4. task'[r] = Gate(org, route)
    BY <1>1, <1>2 DEF Becomes
  <2>5. Passes(task'[r]) => \E k \in Tier : Cardinality(watchlist) + 1 <= Cap[k]
    BY <2>4 DEF Passes, Gate
  <2>6. UNCHANGED <<watchlist, unmetered>>
    BY <1>2 DEF state
  <2>7. CapEffect(r)
    BY <2>5, <2>6 DEF CapEffect, Metered
  <2>8. QED
    BY <1>1, <1>2, <2>3, <2>6, <2>7 DEF TypeOK
<1>3. CASE Adds(r, org, t) /\ (org = NoOrg \/ t \in watchlist)
  <2>1. task'[r] = Idle /\ Becomes(r, Idle)
    BY <1>1, <1>3, AddsDoes DEF Becomes
  <2>2. ~Passes(task'[r])
    BY <2>1 DEF Passes, Idle
  <2>3. Metered' \subseteq Metered
    BY <1>3, AddsDoes DEF Metered
  <2>4. Idle.at = "idle"
    BY DEF Idle
  <2>5. QED
    BY <1>1, <1>3, <2>1, <2>2, <2>3, <2>4, AddsDoes, TaskTypes DEF CapEffect
<1>4. QED
  BY <1>2, <1>3 DEF AddToWatchlist
\* A step that leaves the watchlist alone and does not start a check.
LEMMA NoCapEffect ==
    ASSUME TypeOK, NEW r \in Req, NEW u \in Task, Becomes(r, u), u.at # "gate" \/ ~Passes(u),
           UNCHANGED <<watchlist, unmetered>>
    PROVE  /\ watchlist' \subseteq Ticker /\ unmetered' \subseteq watchlist'
           /\ CapEffect(r)
<1>1. task'[r] = u
  BY DEF Becomes, TypeOK
<1>2. ~Passes(task'[r])
  BY <1>1 DEF Passes
<1>3. QED
  BY <1>2 DEF CapEffect, Metered, TypeOK

\* The answer of a gate: a refusal, a strategy, or a ticker that was counted.
LEMMA GateDoes ==
    ASSUME TypeOK, NEW r \in Req, GateAnswers(r)
    PROVE  /\ UNCHANGED sockets
           /\ watchlist' \subseteq Ticker /\ unmetered' \subseteq watchlist'
           /\ \E u \in Task : Becomes(r, u) /\ (u.at \in {"idle", "gate"} \/ u = Begun)
           /\ CapEffect(r)
<1> DEFINE org == task[r].org
<1> DEFINE route == task[r].route
<1>1. task[r] \in Task /\ task[r].at = "gate" /\ UNCHANGED sockets
  BY DEF GateAnswers, TypeOK
<1>2. org \in Org /\ route \in Route
  BY <1>1, TaskFields
<1>3. Idle \in Task /\ Idle.at = "idle"
  BY TaskTypes DEF Idle
<1>4. CASE Becomes(r, Idle) /\ UNCHANGED state
  BY <1>1, <1>3, <1>4, NoCapEffect DEF state
<1>5. CASE Toggles(r, route.name, TRUE)
  <2>1. Becomes(r, Begun) /\ UNCHANGED <<watchlist, unmetered>>
    BY <1>5 DEF Toggles, Broadcast, Begun
  <2>2. Begun \in Task /\ Begun.at # "gate"
    BY BegunTypes DEF Begun, Told, Telling
  <2>3. QED
    BY <1>1, <2>1, <2>2, NoCapEffect
<1>6. CASE "ticker" \in DOMAIN route /\ WithinCap(org, route.proposed) /\ Adds(r, org, route.ticker)
  <2>1. route.ticker \in Ticker
    BY <1>2, <1>6, RouteFields
  <2>2. Passes(task[r])
    BY <1>1, <1>6 DEF WithinCap, Passes
  <2>3. /\ Becomes(r, Idle)
        /\ watchlist' \subseteq Ticker /\ unmetered' \subseteq watchlist'
        /\ Metered' \subseteq Metered \cup {route.ticker}
    BY <1>6, <2>1, AddsDoes DEF Metered
  <2>4. task'[r] = Idle
    BY <2>3 DEF Becomes, TypeOK
  <2>5. ~Passes(task'[r])
    BY <2>4 DEF Passes, Idle
  <2>6. QED
    BY <1>1, <1>3, <2>1, <2>2, <2>3, <2>5 DEF CapEffect
<1>7. QED
  BY <1>4, <1>5, <1>6 DEF GateAnswers

\* What every route does.
LEMMA RoutedDoes ==
    ASSUME TypeOK, NEW r \in Req, Routed(r)
    PROVE  /\ UNCHANGED sockets
           /\ watchlist' \subseteq Ticker /\ unmetered' \subseteq watchlist'
           /\ \E u \in Task : Becomes(r, u) /\ (u.at \in {"idle", "gate"} \/ u = Begun)
           /\ CapEffect(r)
<1>1. /\ Idle \in Task /\ Idle.at = "idle"
      /\ Begun \in Task /\ Begun.at # "gate"
  BY TaskTypes, BegunTypes DEF Idle, Begun, Told, Telling
<1>2. ASSUME NEW org \in Resolved, NEW s \in Strategy, NEW on \in BOOLEAN, Toggle(r, org, s, on)
      PROVE  /\ UNCHANGED sockets
             /\ watchlist' \subseteq Ticker /\ unmetered' \subseteq watchlist'
             /\ \E u \in Task : Becomes(r, u) /\ (u.at \in {"idle", "gate"} \/ u = Begun)
             /\ CapEffect(r)
  <2>1. PICK u \in Task : /\ Becomes(r, u)
                          /\ u.at \in {"idle", "gate"} \/ u = Begun
                          /\ u.at = "gate" => "ticker" \notin DOMAIN u.route
    BY <1>2, ToggleDoes
  <2>2. UNCHANGED <<watchlist, unmetered>> /\ UNCHANGED sockets
    BY <1>2, ToggleDoes
  <2>3. ~Passes(u)
    BY <2>1 DEF Passes
  <2>4. QED
    BY <2>1, <2>2, <2>3, NoCapEffect
<1>3. ASSUME UNCHANGED <<state, sockets>>, Becomes(r, Idle) \/ Becomes(r, Begun)
      PROVE  /\ UNCHANGED sockets
             /\ watchlist' \subseteq Ticker /\ unmetered' \subseteq watchlist'
             /\ \E u \in Task : Becomes(r, u) /\ (u.at \in {"idle", "gate"} \/ u = Begun)
             /\ CapEffect(r)
  BY <1>1, <1>3, NoCapEffect DEF state
<1>4. CASE UpdateWeights(r)
  BY <1>3, <1>4 DEF UpdateWeights, Broadcast, Begun
<1>5. CASE GateFails(r) \/ Answered(r)
  BY <1>3, <1>5 DEF GateFails, Answered
<1>6. ASSUME NEW signals, RunScan(r, signals)
      PROVE  UNCHANGED <<state, sockets>> /\ (Becomes(r, Idle) \/ Becomes(r, Begun))
  BY <1>6 DEF RunScan, Broadcast, Begun
<1>7. ASSUME NEW t \in Ticker, ExecuteTrade(r, t)
      PROVE  UNCHANGED <<state, sockets>> /\ (Becomes(r, Idle) \/ Becomes(r, Begun))
  BY <1>7 DEF ExecuteTrade, Broadcast, Begun
<1>8. QED
  BY <1>2, <1>3, <1>4, <1>5, <1>6, <1>7, AddDoes, GateDoes DEF Routed

-----------------------------------------------------------------------------
(* Who is told.                                                            *)

\* Everybody a broadcast is for was connected, and has been sent the message, is
\* about to be, or is off the list.
Reached(t) ==
    \A c \in t.all : /\ socket[c] # "new"
                     /\ \/ c \in t.sent
                        \/ c \notin ToSet(listed)
                        \/ t.at = "telling" /\ c \in ToSet(t.left)

Broadcasting == {"telling", "ok"}

TellInv ==
    /\ TypeOK
    /\ Distinct(listed)
    /\ \A c \in ToSet(listed) : socket[c] # "new"
    /\ \A r \in Req : task[r].at \in Broadcasting => Reached(task[r])

\* Nobody comes back on the list.
NobodyReturns ==
    /\ Distinct(listed')
    /\ \A c \in ToSet(listed') : socket'[c] # "new"
    /\ \A c \in Client : socket[c] # "new" =>
          socket'[c] # "new" /\ (c \in ToSet(listed') => c \in ToSet(listed))

\* Who was reached stays so when nobody returns to the list.
LEMMA StaysReached ==
    ASSUME TypeOK, NobodyReturns, NEW t \in Task, t.at \in Broadcasting, Reached(t)
    PROVE  Reached(t)'
<1>1. t.all \subseteq Client
  BY DEF Task, Broadcasting
<1>2. QED
  BY <1>1 DEF NobodyReturns, Reached

\* A step that leaves the requests alone, or all but one that is not telling.
LEMMA TellKeeps ==
    ASSUME TellInv, TypeOK', NobodyReturns,
           \A r \in Req : \/ task'[r] = task[r]
                          \/ task'[r].at \in Broadcasting => Reached(task[r])'
    PROVE  TellInv'
<1>1. ASSUME NEW r \in Req, task'[r].at \in Broadcasting PROVE Reached(task[r])'
  <2>1. CASE task'[r] = task[r]
    <3>1. task[r] \in Task /\ Reached(task[r]) /\ task[r].at \in Broadcasting
      BY <1>1, <2>1 DEF TellInv, TypeOK
    <3>2. PICK t \in Task : t = task[r]
      BY <3>1
    <3>3. Reached(t)'
      BY <3>1, <3>2, StaysReached DEF TellInv
    <3>4. t = task'[r]
      BY <2>1, <3>2
    <3>5. QED
      BY <3>3, <3>4 DEF Reached
  <2>2. CASE task'[r] # task[r]
    BY <1>1, <2>2 DEF Reached
  <2>3. QED
    BY <2>1, <2>2
<1>2. QED
  BY <1>1 DEF TellInv, NobodyReturns, Distinct
\* Clients come, go, and end their handlers.
LEMMA ClientSteps ==
    ASSUME TellInv, NEW c \in Client,
           Connect(c) \/ Leave(c) \/ HandlerEnds(c) \/ HandlerFails(c)
    PROVE  TellInv' /\ UNCHANGED <<watchlist, unmetered, task>>
<1>1. /\ TypeOK /\ listed \in Seq(Client) /\ socket \in [Client -> SocketState]
      /\ Distinct(listed) /\ \A d \in ToSet(listed) : d \in Client /\ socket[d] # "new"
  <2>1. listed \in Seq(Client) /\ TypeOK
    BY DEF TellInv, TypeOK
  <2>2. \A d \in ToSet(listed) : d \in Client
    BY <2>1, ElementOfSeq, LenProperties DEF ToSet
  <2>3. QED
    BY <2>1, <2>2 DEF TellInv, TypeOK
<1>2. UNCHANGED <<watchlist, unmetered, task>>
  BY DEF Connect, Leave, HandlerEnds, HandlerFails, state
<1>3. ASSUME listed' \in Seq(Client), socket' \in [Client -> SocketState], NobodyReturns
      PROVE  TellInv'
  BY <1>1, <1>2, <1>3, TellKeeps DEF TypeOK
<1>4. CASE Connect(c)
  <2>1. socket[c] = "new" /\ socket' = [socket EXCEPT ![c] = "open"] /\ listed' = Append(listed, c)
    BY <1>4 DEF Connect
  <2>2. c \notin ToSet(listed)
    BY <1>1, <2>1
  <2>3. listed' \in Seq(Client) /\ Distinct(listed') /\ ToSet(listed') = ToSet(listed) \cup {c}
    BY <1>1, <2>1, <2>2, Appended
  <2>4. /\ socket' \in [Client -> SocketState] /\ socket'[c] = "open"
        /\ \A d \in Client : d # c => socket'[d] = socket[d]
    BY <1>1, <2>1 DEF SocketState
  <2>5. NobodyReturns
    BY <1>1, <2>1, <2>3, <2>4 DEF NobodyReturns
  <2>6. QED
    BY <1>2, <1>3, <2>3, <2>4, <2>5
<1>5. CASE Leave(c) \/ HandlerFails(c)
  <2>1. socket' = [socket EXCEPT ![c] = "gone"] /\ listed' = listed
    BY <1>5 DEF Leave, HandlerFails
  <2>2. /\ socket' \in [Client -> SocketState] /\ socket'[c] = "gone"
        /\ \A d \in Client : d # c => socket'[d] = socket[d]
    BY <1>1, <2>1 DEF SocketState
  <2>3. NobodyReturns
    BY <1>1, <2>1, <2>2 DEF NobodyReturns
  <2>4. QED
    BY <1>1, <1>2, <1>3, <2>1, <2>2, <2>3
<1>6. CASE HandlerEnds(c)
  <2>1. socket' = socket /\ listed' = RemoveFirst(listed, c)
    BY <1>6 DEF HandlerEnds
  <2>2. listed' \in Seq(Client) /\ Distinct(listed') /\ ToSet(listed') = ToSet(listed) \ {c}
    BY <1>1, <2>1, Removed
  <2>3. NobodyReturns
    BY <1>1, <2>1, <2>2 DEF NobodyReturns
  <2>4. QED
    BY <1>1, <1>2, <1>3, <2>1, <2>2, <2>3
<1>7. QED
  BY <1>4, <1>5, <1>6

\* A round goes on with the client at the head of what is left of its copy.  It
\* may have been sent the message, or be taken off the list.
LEMMA RoundGoesOn ==
    ASSUME TellInv, NEW r \in Req, task[r].at = "telling", NobodyReturns,
           listed' \in Seq(Client), socket' = socket,
           NEW sent \in {task[r].sent, task[r].sent \cup {Head(task[r].left)}},
           Head(task[r].left) \in sent \/ Head(task[r].left) \notin ToSet(listed'),
           NEW removed \in BOOLEAN, Advances(r, removed, sent),
           UNCHANGED <<watchlist, unmetered>>
    PROVE  TellInv'
<1>1. TypeOK /\ task \in [Req -> Task] /\ Reached(task[r])
  BY DEF TellInv, TypeOK, Broadcasting
<1>2. PICK all, old, head, left :
          /\ all = task[r].all /\ old = task[r].sent
          /\ head = Head(task[r].left) /\ left = Tail(task[r].left)
  OBVIOUS
<1>3. /\ task[r].left \in Seq(Client) /\ task[r].left # << >>
      /\ all \subseteq Client /\ old \subseteq Client
  BY <1>1, <1>2, TaskFields
<1>4. /\ head \in Client /\ left \in Seq(Client)
      /\ ToSet(task[r].left) = {head} \cup ToSet(left)
  BY <1>2, <1>3, HeadAndTail
<1>5. PICK next : next = IF left = << >> THEN Told(all, sent) ELSE Telling(all, left, sent)
  OBVIOUS
<1>6. task' = [task EXCEPT ![r] = next]
  BY <1>2, <1>5 DEF Advances, Remaining, Becomes
<1>7. next \in Task
  <2>1. all \in SUBSET Client /\ sent \in SUBSET Client
    BY <1>2, <1>3, <1>4
  <2>2. CASE left = << >>
    BY <1>5, <2>1, <2>2, TaskTypes
  <2>3. CASE left # << >>
    BY <1>4, <1>5, <2>1, <2>3, TaskTypes
  <2>4. QED
    BY <2>2, <2>3
<1>8. TypeOK'
  BY <1>1, <1>6, <1>7 DEF TypeOK
<1>9. /\ next.all = all /\ next.sent = sent
      /\ left # << >> => next.at = "telling" /\ next.left = left
      /\ left = << >> => ToSet(left) = {}
  BY <1>5 DEF Told, Telling, ToSet
<1>10. Reached(next)'
  <2> SUFFICES ASSUME NEW c \in all
               PROVE  /\ socket'[c] # "new"
                      /\ \/ c \in sent
                         \/ c \notin ToSet(listed')
                         \/ c \in ToSet(left)
    BY <1>9 DEF Reached
  <2>1. socket[c] # "new" /\ c \in Client
    BY <1>1, <1>2, <1>3 DEF Reached
  <2>2. c \in old \/ c \notin ToSet(listed) \/ c \in ToSet(task[r].left)
    BY <1>1, <1>2 DEF Reached
  <2>3. old \subseteq sent /\ (head \in sent \/ head \notin ToSet(listed'))
    BY <1>2
  <2>4. QED
    BY <1>4, <2>1, <2>2, <2>3 DEF NobodyReturns
<1>11. task'[r] = next /\ \A q \in Req : q # r => task'[q] = task[q]
  BY <1>1, <1>6
<1>12. QED
  BY <1>8, <1>10, <1>11, TellKeeps DEF Reached
\* Sending to a client, or failing to.
LEMMA SendSteps ==
    ASSUME TellInv, NEW r \in Req, Send(r) \/ SendFails(r)
    PROVE  /\ TellInv' /\ UNCHANGED <<watchlist, unmetered>>
           /\ ~Passes(task'[r]) /\ \A q \in Req : q # r => task'[q] = task[q]
<1>1. /\ TypeOK /\ listed \in Seq(Client) /\ Distinct(listed) /\ task \in [Req -> Task]
      /\ task[r].at = "telling"
  BY DEF TellInv, TypeOK, Send, SendFails
<1>2. UNCHANGED <<watchlist, unmetered, socket>>
  BY DEF Send, SendFails, state, sockets
<1>3. \A d \in ToSet(listed) : socket[d] # "new"
  BY DEF TellInv
<1>4. ASSUME NEW removed, NEW sent, Advances(r, removed, sent)
      PROVE  ~Passes(task'[r]) /\ \A q \in Req : q # r => task'[q] = task[q]
  <2>1. PICK next : /\ task' = [task EXCEPT ![r] = next]
                    /\ next = IF Tail(task[r].left) = << >> THEN Told(task[r].all, sent)
                              ELSE Telling(task[r].all, Tail(task[r].left), sent)
    BY <1>4 DEF Advances, Remaining, Becomes
  <2>2. task'[r] = next /\ next.at # "gate"
    BY <1>1, <2>1 DEF Told, Telling
  <2>3. QED
    BY <1>1, <2>1, <2>2 DEF Passes
<1>5. CASE Send(r)
  <2>1. Advances(r, FALSE, task[r].sent \cup {Head(task[r].left)}) /\ listed' = listed
    BY <1>5 DEF Send, sockets
  <2>2. NobodyReturns
    BY <1>1, <1>2, <1>3, <2>1 DEF NobodyReturns
  <2>3. TellInv'
    BY <1>1, <1>2, <2>1, <2>2, RoundGoesOn
  <2>4. QED
    BY <1>2, <1>4, <2>1, <2>3
<1>6. CASE SendFails(r)
  <2>1. PICK c : c = Head(task[r].left)
    OBVIOUS
  <2>2. /\ listed' = RemoveFirst(listed, c)
        /\ Advances(r, TRUE, task[r].sent) \/ Becomes(r, Idle)
    BY <1>6, <2>1 DEF SendFails
  <2>3. listed' \in Seq(Client) /\ Distinct(listed') /\ ToSet(listed') = ToSet(listed) \ {c}
    BY <1>1, <2>2, Removed
  <2>4. NobodyReturns
    BY <1>2, <1>3, <2>3 DEF NobodyReturns
  <2>5. CASE Advances(r, TRUE, task[r].sent)
    <3>1. c \notin ToSet(listed')
      BY <2>3
    <3>2. TellInv'
      BY <1>1, <1>2, <2>1, <2>3, <2>4, <2>5, <3>1, RoundGoesOn
    <3>3. QED
      BY <1>2, <1>4, <2>5, <3>2
  <2>6. CASE Becomes(r, Idle)
    <3>1. /\ task'[r] = Idle /\ Idle \in Task /\ Idle.at = "idle"
          /\ \A q \in Req : q # r => task'[q] = task[q]
          /\ task' = [task EXCEPT ![r] = Idle]
      BY <1>1, <2>6, TaskTypes DEF Becomes, Idle
    <3>2. TypeOK'
      BY <1>1, <1>2, <2>3, <3>1 DEF TypeOK
    <3>3. \A q \in Req : \/ task'[q] = task[q]
                         \/ task'[q].at \in Broadcasting => Reached(task[q])'
      BY <3>1 DEF Broadcasting
    <3>4. TellInv'
      BY <2>4, <3>2, <3>3, TellKeeps
    <3>5. ~Passes(task'[r])
      BY <3>1 DEF Passes
    <3>6. QED
      BY <1>2, <3>1, <3>4, <3>5
  <2>7. QED
    BY <2>2, <2>5, <2>6
<1>7. QED
  BY <1>5, <1>6

\* A step of a route.
LEMMA RouteSteps ==
    ASSUME TellInv, NEW r \in Req, Routed(r)
    PROVE  TellInv' /\ CapEffect(r) /\ \A q \in Req : q # r => task'[q] = task[q]
<1>1. TypeOK /\ task \in [Req -> Task] /\ \A d \in ToSet(listed) : socket[d] # "new"
  BY DEF TellInv, TypeOK
<1>2. /\ listed' = listed /\ socket' = socket
      /\ watchlist' \subseteq Ticker /\ unmetered' \subseteq watchlist'
      /\ CapEffect(r)
  BY <1>1, RoutedDoes DEF sockets
<1>3. PICK u \in Task : Becomes(r, u) /\ (u.at \in {"idle", "gate"} \/ u = Begun)
  BY <1>1, RoutedDoes
<1>4. /\ task'[r] = u /\ \A q \in Req : q # r => task'[q] = task[q]
      /\ task' = [task EXCEPT ![r] = u]
  BY <1>1, <1>3 DEF Becomes
<1>5. TypeOK'
  BY <1>1, <1>2, <1>4 DEF TypeOK
<1>6. NobodyReturns
  BY <1>1, <1>2 DEF NobodyReturns, TellInv, Distinct
<1>7. u.at \in Broadcasting => Reached(u)'
  <2> SUFFICES ASSUME u.at \in Broadcasting PROVE Reached(u)'
    OBVIOUS
  <2>1. u = Begun
    BY <1>3 DEF Broadcasting
  <2>2. \A c \in u.all : c \in ToSet(listed) /\ u.at = "telling" /\ c \in ToSet(u.left)
    BY <2>1 DEF Begun, Told, Telling
  <2>3. QED
    BY <1>1, <1>2, <2>2 DEF Reached
<1>8. \A q \in Req : \/ task'[q] = task[q]
                     \/ task'[q].at \in Broadcasting => Reached(task[q])'
  BY <1>4, <1>7 DEF Reached
<1>9. QED
  BY <1>2, <1>4, <1>5, <1>6, <1>8, TellKeeps

\* A restart forgets the list and the requests.
LEMMA RestartStep ==
    ASSUME TellInv, ServerRestarts
    PROVE  TellInv'
<1>1. /\ watchlist' = Seed /\ unmetered' = {} /\ listed' = << >>
      /\ socket' = [c \in Client |-> IF socket[c] = "open" THEN "gone" ELSE socket[c]]
      /\ task' = [r \in Req |-> Idle]
  BY DEF ServerRestarts
<1>2. /\ << >> \in Seq(Client) /\ Distinct(<< >>) /\ ToSet(<< >>) = {}
  BY DEF Distinct, ToSet
<1>3. socket' \in [Client -> SocketState]
  BY <1>1 DEF TellInv, TypeOK, SocketState
<1>4. TypeOK'
  BY <1>1, <1>2, <1>3, DashboardAssumption, TickerAssumption, TaskTypes DEF TypeOK
<1>5. \A r \in Req : task'[r].at = "idle"
  BY <1>1 DEF Idle
<1>6. QED
  BY <1>1, <1>2, <1>4, <1>5 DEF TellInv, Broadcasting

\* Every step keeps the invariant about broadcasts.
LEMMA TellStep == TellInv /\ [Next]_vars => TellInv'
<1> SUFFICES ASSUME TellInv, [Next]_vars PROVE TellInv'
  OBVIOUS
<1>1. ASSUME UNCHANGED <<watchlist, unmetered, listed, socket, task>> PROVE TellInv'
  <2>1. TypeOK'
    BY <1>1 DEF TellInv, TypeOK
  <2>2. NobodyReturns
    BY <1>1 DEF TellInv, NobodyReturns, Distinct
  <2>3. QED
    BY <1>1, <2>1, <2>2, TellKeeps
<1>2. ASSUME NEW org \in Org, NEW t \in Tier, Billed(org, t) PROVE TellInv'
  BY <1>1, <1>2 DEF Billed, state, sockets
<1>3. CASE UNCHANGED vars
  BY <1>1, <1>3 DEF vars, state, sockets
<1>4. ASSUME NEW r \in Req,
             \/ \E org \in Resolved, s \in Strategy, on \in BOOLEAN : Toggle(r, org, s, on)
             \/ UpdateWeights(r)
             \/ \E org \in Resolved, t \in Ticker : AddToWatchlist(r, org, t)
             \/ GateAnswers(r) \/ GateFails(r)
             \/ \E signals \in [data -> Heard] : RunScan(r, signals)
             \/ \E t \in Ticker : ExecuteTrade(r, t)
             \/ Answered(r)
      PROVE  TellInv'
  <2>1. Routed(r)
    BY <1>4 DEF Routed
  <2>2. QED
    BY <2>1, RouteSteps
<1>5. QED
  BY <1>2, <1>3, <1>4, ClientSteps, SendSteps, RestartStep DEF Next

\* It holds when the server starts.
LEMMA TellInit == Init => TellInv
<1> SUFFICES ASSUME Init PROVE TellInv
  OBVIOUS
<1>1. << >> \in Seq(Client) /\ Distinct(<< >>) /\ ToSet(<< >>) = {}
  BY DEF Distinct, ToSet
<1>2. TypeOK
  BY <1>1, DashboardAssumption, TickerAssumption, TaskTypes DEF Init, TypeOK, SocketState
<1>3. \A r \in Req : task[r].at = "idle"
  BY DEF Init, Idle
<1>4. QED
  BY <1>1, <1>2, <1>3 DEF Init, TellInv, Broadcasting

\* It holds always.
LEMMA TellHolds == Spec => []TellInv
BY TellInit, TellStep, PTL DEF Spec

\* The watchlist, the list of clients and every request keep their types.
THEOREM DashboardTypeCorrect == Spec => []TypeOK
<1>1. TellInv => TypeOK
  BY DEF TellInv
<1>2. QED
  BY <1>1, TellHolds, PTL

\* However many requests broadcast at once, and whoever connects, leaves or fails
\* meanwhile: a broadcast answered 200 has left out nobody who is still listed.
THEOREM BroadcastsReachAll == Spec => []ToldOrDropped
<1>1. TellInv => ToldOrDropped
  BY DEF TellInv, ToldOrDropped, Reached, Broadcasting
<1>2. QED
  BY <1>1, TellHolds, PTL

-----------------------------------------------------------------------------
(* How far the watchlist grows.                                            *)

\* What counts, with the checks that may still be passed, is below a limit and
\* the number of requests: a check is passed on a count taken when it began, and
\* then each of the others may have one under way.
CapInv ==
    \E limit \in Limit :
        Cardinality(Metered) + Cardinality(Passing) < limit + Cardinality(Req)

\* The sets counted are finite.
LEMMA Finite ==
    ASSUME TypeOK
    PROVE  /\ IsFiniteSet(watchlist) /\ IsFiniteSet(Metered) /\ IsFiniteSet(Passing)
           /\ IsFiniteSet(Req)
           /\ Cardinality(watchlist) \in Nat /\ Cardinality(Metered) \in Nat
           /\ Cardinality(Passing) \in Nat /\ Cardinality(Req) \in Nat \ {0}
           /\ Limit \subseteq Nat
<1>1. IsFiniteSet(watchlist) /\ IsFiniteSet(Seed)
  BY FS_Subset, DashboardAssumption, TickerAssumption DEF TypeOK
<1>2. IsFiniteSet(Metered)
  BY <1>1, FS_Difference DEF Metered
<1>3. IsFiniteSet(Req) /\ IsFiniteSet(Passing)
  BY FS_Subset, DashboardAssumption, TickerAssumption DEF Passing
<1>4. Cardinality(Req) # 0
  BY FS_EmptySet, DashboardAssumption, TickerAssumption
<1>5. \A S : IsFiniteSet(S) => Cardinality(S) \in Nat
  BY FS_CardinalityType
<1>6. Limit \subseteq Nat
  BY <1>1, <1>5, DashboardAssumption, TickerAssumption DEF Limit
<1>7. QED
  BY <1>1, <1>2, <1>3, <1>4, <1>5, <1>6

\* A step of a route keeps the bound, whatever it does to the list.
LEMMA RouteKeepsCap ==
    ASSUME TypeOK, TypeOK', CapInv, NEW r \in Req, CapEffect(r),
           \A q \in Req : q # r => task'[q] = task[q]
    PROVE  CapInv'
<1>1. /\ IsFiniteSet(watchlist) /\ IsFiniteSet(Metered) /\ IsFiniteSet(Passing)
      /\ Cardinality(watchlist) \in Nat /\ Cardinality(Metered) \in Nat
      /\ Cardinality(Passing) \in Nat /\ Cardinality(Req) \in Nat \ {0}
      /\ Limit \subseteq Nat
  BY Finite
<1>2. /\ IsFiniteSet(Metered') /\ IsFiniteSet(Passing') /\ IsFiniteSet(Req)
      /\ Cardinality(Metered') \in Nat /\ Cardinality(Passing') \in Nat
  <2>1. \A S : IsFiniteSet(S) => Cardinality(S) \in Nat
    BY FS_CardinalityType
  <2>2. IsFiniteSet(watchlist')
    BY FS_Subset, DashboardAssumption, TickerAssumption DEF TypeOK
  <2>3. IsFiniteSet(Metered')
    BY <2>2, FS_Difference DEF Metered
  <2>4. Passing' \subseteq Req
    BY DEF Passing
  <2>5. IsFiniteSet(Passing')
    BY <2>4, FS_Subset, DashboardAssumption, TickerAssumption
  <2>6. QED
    BY <2>1, <2>3, <2>5, DashboardAssumption, TickerAssumption
<1>3. CASE ~Passes(task'[r]) /\ Metered' \subseteq Metered
  <2>1. Passing' \subseteq Passing
    BY <1>3 DEF Passing, Passes
  <2>2. /\ Cardinality(Passing') <= Cardinality(Passing)
        /\ Cardinality(Metered') <= Cardinality(Metered)
    BY <1>1, <1>3, <2>1, FS_Subset
  <2>3. QED
    BY <1>1, <1>2, <2>2 DEF CapInv, Limit
<1>4. CASE /\ Metered' \subseteq watchlist
           /\ \E k \in Tier : Cardinality(watchlist) + 1 <= Cap[k]
  <2>1. PICK k \in Tier : Cardinality(watchlist) + 1 <= Cap[k]
    BY <1>4
  <2>2. Cardinality(Metered') <= Cardinality(watchlist)
    BY <1>1, <1>4, FS_Subset
  <2>3. Passing' \subseteq Req
    BY DEF Passing
  <2>4. Cardinality(Passing') <= Cardinality(Req)
    BY <1>2, <2>3, FS_Subset
  <2>5. Cap[k] \in Limit /\ Cap[k] \in Nat
    BY <2>1, <1>1 DEF Limit
  <2>6. Cardinality(Metered') + Cardinality(Passing') < Cap[k] + Cardinality(Req)
    BY <1>1, <1>2, <2>1, <2>2, <2>4, <2>5
  <2>7. QED
    BY <2>5, <2>6 DEF CapInv, Limit
<1>5. CASE /\ Passes(task[r]) /\ ~Passes(task'[r])
           /\ \E t \in Ticker : Metered' \subseteq Metered \cup {t}
  <2>1. PICK t \in Ticker : Metered' \subseteq Metered \cup {t}
    BY <1>5
  <2>2. Passing' \subseteq Passing \ {r} /\ r \in Passing
    BY <1>5 DEF Passing, Passes
  <2>3. Cardinality(Passing') <= Cardinality(Passing) - 1
    <3>1. IsFiniteSet(Passing \ {r}) /\ Cardinality(Passing \ {r}) = Cardinality(Passing) - 1
      BY <1>1, <2>2, FS_RemoveElement
    <3>2. QED
      BY <2>2, <3>1, FS_Subset
  <2>4. Cardinality(Metered') <= Cardinality(Metered) + 1
    <3>1. /\ IsFiniteSet(Metered \cup {t})
          /\ Cardinality(Metered \cup {t}) \in {Cardinality(Metered), Cardinality(Metered) + 1}
      BY <1>1, FS_AddElement
    <3>2. Cardinality(Metered') <= Cardinality(Metered \cup {t})
      BY <2>1, <3>1, FS_Subset
    <3>3. QED
      BY <1>1, <1>2, <3>1, <3>2
  <2>5. PICK limit \in Limit :
            Cardinality(Metered) + Cardinality(Passing) < limit + Cardinality(Req)
    BY DEF CapInv
  <2>6. limit \in Nat
    BY <1>1
  <2>7. Cardinality(Metered') + Cardinality(Passing') < limit + Cardinality(Req)
    BY <1>1, <1>2, <2>3, <2>4, <2>5, <2>6
  <2>8. QED
    BY <2>7 DEF CapInv, Limit
<1>6. QED
  BY <1>3, <1>4, <1>5 DEF CapEffect

\* A step that leaves the watchlist alone and starts no check.
LEMMA QuietKeepsCap ==
    ASSUME TypeOK, CapInv, UNCHANGED <<watchlist, unmetered>>, Passing' \subseteq Passing
    PROVE  CapInv'
<1>1. /\ IsFiniteSet(Passing) /\ Cardinality(Metered) \in Nat
      /\ Cardinality(Passing) \in Nat /\ Cardinality(Req) \in Nat
      /\ Limit \subseteq Nat
  BY Finite
<1>2. Cardinality(Passing') \in Nat /\ Cardinality(Passing') <= Cardinality(Passing)
  BY <1>1, FS_Subset, FS_CardinalityType
<1>3. Cardinality(Metered') = Cardinality(Metered)
  BY DEF Metered
<1>4. PICK limit \in Limit :
          Cardinality(Metered) + Cardinality(Passing) < limit + Cardinality(Req)
  BY DEF CapInv
<1>5. limit \in Nat
  BY <1>1
<1>6. Cardinality(Metered') + Cardinality(Passing') < limit + Cardinality(Req)
  BY <1>1, <1>2, <1>3, <1>4, <1>5
<1>7. QED
  BY <1>6 DEF CapInv, Limit

\* With nothing but the seeds, and no request under way, there is room.
LEMMA SeedsFit ==
    ASSUME NEW metered, metered = Seed, NEW passing, passing = {}
    PROVE  \E limit \in Limit :
               Cardinality(metered) + Cardinality(passing) < limit + Cardinality(Req)
<1>1. Cardinality(passing) = 0
  BY FS_EmptySet
<1>2. /\ Cardinality(Seed) \in Nat /\ Cardinality(Req) \in Nat /\ Cardinality(Req) # 0
  BY FS_Subset, FS_CardinalityType, FS_EmptySet, DashboardAssumption, TickerAssumption
<1>3. Cardinality(metered) + Cardinality(passing) < Cardinality(Seed) + Cardinality(Req)
  BY <1>1, <1>2
<1>4. QED
  BY <1>3 DEF Limit

\* Every step keeps the bound.
LEMMA CapStep == TellInv /\ TellInv' /\ CapInv /\ [Next]_vars => CapInv'
<1> SUFFICES ASSUME TellInv, TellInv', CapInv, [Next]_vars PROVE CapInv'
  OBVIOUS
<1>1. TypeOK /\ TypeOK'
  BY DEF TellInv
<1>2. ASSUME UNCHANGED <<watchlist, unmetered, task>> PROVE CapInv'
  <2>1. Passing' = Passing
    BY <1>2 DEF Passing, Passes
  <2>2. QED
    BY <1>1, <1>2, <2>1, QuietKeepsCap
<1>3. ASSUME NEW c \in Client, Connect(c) \/ Leave(c) \/ HandlerEnds(c) \/ HandlerFails(c)
      PROVE  CapInv'
  BY <1>2, <1>3, ClientSteps
<1>4. ASSUME NEW r \in Req, Send(r) \/ SendFails(r) PROVE CapInv'
  <2>1. /\ UNCHANGED <<watchlist, unmetered>>
        /\ ~Passes(task'[r]) /\ \A q \in Req : q # r => task'[q] = task[q]
    BY <1>4, SendSteps
  <2>2. Passing' \subseteq Passing
    BY <2>1 DEF Passing, Passes
  <2>3. QED
    BY <1>1, <2>1, <2>2, QuietKeepsCap
<1>5. ASSUME NEW r \in Req,
             \/ \E org \in Resolved, s \in Strategy, on \in BOOLEAN : Toggle(r, org, s, on)
             \/ UpdateWeights(r)
             \/ \E org \in Resolved, t \in Ticker : AddToWatchlist(r, org, t)
             \/ GateAnswers(r) \/ GateFails(r)
             \/ \E signals \in [data -> Heard] : RunScan(r, signals)
             \/ \E t \in Ticker : ExecuteTrade(r, t)
             \/ Answered(r)
      PROVE  CapInv'
  <2>1. Routed(r)
    BY <1>5 DEF Routed
  <2>2. QED
    BY <1>1, <2>1, RouteSteps, RouteKeepsCap
<1>6. ASSUME NEW org \in Org, NEW t \in Tier, Billed(org, t) PROVE CapInv'
  BY <1>2, <1>6 DEF Billed, state
<1>7. CASE ServerRestarts
  <2>1. watchlist' = Seed /\ unmetered' = {} /\ task' = [r \in Req |-> Idle]
    BY <1>7 DEF ServerRestarts
  <2>2. Metered' = Seed /\ Passing' = {}
    BY <2>1 DEF Metered, Passing, Passes, Idle
  <2>3. QED
    BY <2>2, SeedsFit DEF CapInv, Limit
<1>8. CASE UNCHANGED vars
  BY <1>2, <1>8 DEF vars, state
<1>9. QED
  BY <1>3, <1>4, <1>5, <1>6, <1>7, <1>8 DEF Next

\* The check of tickers_max is awaited between the count and the addition, so
\* concurrent requests overshoot it; but never by as many tickers as there are
\* requests under way, for any caps, tickers and changes of tier.
THEOREM OvershootIsBounded == Spec => []CapOvershoot
<1>1. Init => CapInv
  <2> SUFFICES ASSUME Init PROVE CapInv
    OBVIOUS
  <2>1. Metered = Seed /\ Passing = {}
    BY DEF Init, Metered, Passing, Passes, Idle
  <2>2. QED
    BY <2>1, SeedsFit DEF CapInv
<1>2. TellInv /\ CapInv => CapOvershoot
  <2> SUFFICES ASSUME TypeOK, CapInv PROVE CapOvershoot
    BY DEF TellInv
  <2>1. /\ Cardinality(Metered) \in Nat /\ Cardinality(Passing) \in Nat
        /\ Cardinality(Req) \in Nat /\ Limit \subseteq Nat
    BY Finite
  <2>2. PICK limit \in Limit :
            Cardinality(Metered) + Cardinality(Passing) < limit + Cardinality(Req)
    BY DEF CapInv
  <2>3. limit \in Nat
    BY <2>1
  <2>4. Cardinality(Metered) < limit + Cardinality(Req)
    BY <2>1, <2>2, <2>3
  <2>5. QED
    BY <2>4 DEF CapOvershoot, Metered
<1>3. QED
  BY <1>1, <1>2, CapStep, TellHolds, PTL DEF Spec

-----------------------------------------------------------------------------
(* The consensus.                                                          *)

\* A function on the first n numbers is a sequence.
LEMMA Listed ==
    ASSUME NEW S, NEW n \in Nat, NEW f \in [1 .. n -> S]
    PROVE  f \in Seq(S) /\ Len(f) = n
OBVIOUS

\* A finite set can be put in some order.
LEMMA Enumerated ==
    ASSUME NEW S, IsFiniteSet(S)
    PROVE  /\ Cardinality(S) \in Nat
           /\ SetToSeq(S) \in [1 .. Cardinality(S) -> S]
<1>1. Cardinality(S) \in Nat /\ ExistsBijection(1 .. Cardinality(S), S)
  BY FS_CardinalityType
<1>2. \E f \in [1 .. Cardinality(S) -> S] : IsInjective(f)
  BY <1>1 DEF ExistsBijection, Bijection, Injection
<1>3. QED
  BY <1>1, <1>2 DEF SetToSeq

\* What the AI strategy makes of a decision is a signal.
LEMMA SignalOfType ==
    ASSUME NEW d \in Decision
    PROVE  SignalOf(d) \in Signal
<1>1. /\ d.action \in {"buy", "sell", "hold", "open_long", "open_short"}
      /\ Confidence(d) \in Int /\ d.size \in 0 .. 100
  BY DEF Decision, Confidence
<1>2. Kind(d) \in DOMAIN Score
  <2>1. DOMAIN Score = {"STRONG_BUY", "BUY", "HOLD", "SELL", "STRONG_SELL"}
    BY DEF Score
  <2>2. Kind(d) \in {"STRONG_BUY", "BUY", "HOLD", "SELL", "STRONG_SELL"}
    BY <1>1 DEF Kind
  <2>3. QED
    BY <2>1, <2>2
<1> DEFINE least == Min({d.size, 25})
           size == Max({1, least})
<1>3. least \in Int /\ least <= 25
  <2>1. d.size \in Int /\ 25 \in Int
    BY <1>1
  <2>2. QED
    BY <2>1, OfTwo
<1>4. size \in 0 .. 100
  <2> HIDE DEF least
  <2>1. size \in {1, least} /\ size >= 1
    BY <1>3, OfTwo
  <2>2. QED
    BY <1>3, <2>1
<1>5. AI \in Strategy
  BY StrategyAssumption
<1> HIDE DEF size
<1>6. [strategy |-> AI, kind |-> Kind(d), confidence |-> Confidence(d), size |-> size] \in Signal
  BY <1>1, <1>2, <1>4, <1>5 DEF Signal
<1>7. QED
  BY <1>6 DEF SignalOf, size

\* Whatever the model answers, the advice is a list of signals.
LEMMA AdviceType ==
    ASSUME NEW t \in Ticker, NEW c \in Conversation
    PROVE  Advice(t, c) \in Seq(Signal)
<1> DEFINE decisions == DecideTrade(t, c)
           mine == {i \in DOMAIN decisions : decisions[i].asset = t}
           order == SetToSeq(mine)
           n == Cardinality(mine)
           said == [k \in DOMAIN order |-> SignalOf(decisions[order[k]])]
<1>1. decisions \in Seq(Decision)
  <2>1. Hold(t) \in Decision
    BY DEF Hold, Decision
  <2>2. <<Hold(t)>> \in Seq(Decision)
    BY <2>1
  <2>3. c.decisions \in Seq(Decision)
    BY DEF Conversation
  <2>4. QED
    BY <2>2, <2>3 DEF DecideTrade
<1>2. Advice(t, c) = IF \E i \in mine : Raises(decisions[i]) THEN <<>> ELSE said
  BY DEF Advice
<1> HIDE DEF decisions
<1>3. /\ Len(decisions) \in Nat /\ DOMAIN decisions = 1 .. Len(decisions)
      /\ \A i \in DOMAIN decisions : decisions[i] \in Decision
  BY <1>1, ElementOfSeq
<1>4. IsFiniteSet(mine)
  <2>1. IsFiniteSet(1 .. Len(decisions)) /\ mine \subseteq 1 .. Len(decisions)
    BY <1>3, FS_Interval
  <2>2. QED
    BY <2>1, FS_Subset
<1>5. n \in Nat /\ order \in [1 .. n -> mine]
  BY <1>4, Enumerated
<1>6. \A k \in 1 .. n : SignalOf(decisions[order[k]]) \in Signal
  BY <1>3, <1>5, SignalOfType
<1>7. said \in [1 .. n -> Signal]
  <2> HIDE DEF order, n
  <2>1. DOMAIN order = 1 .. n
    BY <1>5
  <2>2. QED
    BY <1>6, <2>1
<1> HIDE DEF said, n
<1>8. said \in Seq(Signal)
  BY <1>5, <1>7, Listed
<1>9. <<>> \in Seq(Signal)
  OBVIOUS
<1>10. QED
  BY <1>2, <1>8, <1>9

\* A signal that adds to the score, and one that takes from it.
Raising(s) ==
    (Score[s.kind] > 0 /\ s.confidence > 0) \/ (Score[s.kind] < 0 /\ s.confidence < 0)
Lowering(s) ==
    (Score[s.kind] < 0 /\ s.confidence > 0) \/ (Score[s.kind] > 0 /\ s.confidence < 0)

\* What signals add to the sums; how a score is signed.
LEMMA VotesType ==
    ASSUME NEW signals \in Seq(Signal), NEW w \in [Strategy -> Nat]
    PROVE  /\ IsFiniteSet(DOMAIN signals)
           /\ DOMAIN Weights(signals, w) = DOMAIN signals
           /\ DOMAIN Scores(signals, w) = DOMAIN signals
           /\ \A i \in DOMAIN signals :
                 /\ signals[i] \in Signal /\ w[signals[i].strategy] \in Nat
                 /\ Weights(signals, w)[i] = w[signals[i].strategy]
                 /\ Scores(signals, w)[i] \in Int
                 /\ Scores(signals, w)[i] = Score[signals[i].kind] * signals[i].confidence
                                              * w[signals[i].strategy]
                 /\ Scores(signals, w)[i] > 0 =>
                       Raising(signals[i]) /\ w[signals[i].strategy] > 0
                 /\ Scores(signals, w)[i] < 0 =>
                       Lowering(signals[i]) /\ w[signals[i].strategy] > 0
<1>1. /\ Len(signals) \in Nat /\ DOMAIN signals = 1 .. Len(signals)
      /\ \A i \in DOMAIN signals : signals[i] \in Signal
  BY ElementOfSeq
<1>2. IsFiniteSet(DOMAIN signals)
  BY <1>1, FS_Interval
<1>3. ASSUME NEW i \in DOMAIN signals
      PROVE  /\ signals[i] \in Signal /\ w[signals[i].strategy] \in Nat
             /\ Weights(signals, w)[i] = w[signals[i].strategy]
             /\ Scores(signals, w)[i] \in Int
             /\ Scores(signals, w)[i] = Score[signals[i].kind] * signals[i].confidence
                                          * w[signals[i].strategy]
             /\ Scores(signals, w)[i] > 0 =>
                   Raising(signals[i]) /\ w[signals[i].strategy] > 0
             /\ Scores(signals, w)[i] < 0 =>
                   Lowering(signals[i]) /\ w[signals[i].strategy] > 0
  <2> DEFINE score == Score[signals[i].kind]
             sure == signals[i].confidence
             weight == w[signals[i].strategy]
  <2>1. signals[i] \in Signal
    BY <1>1
  <2>2. weight \in Nat /\ sure \in Int /\ signals[i].kind \in DOMAIN Score
    <3>1. /\ signals[i].strategy \in Strategy /\ signals[i].confidence \in Int
          /\ signals[i].kind \in DOMAIN Score
      BY <2>1 DEF Signal
    <3>2. QED
      BY <3>1
  <2>3. score \in -2 .. 2
    BY <2>2 DEF Score
  <2>4. /\ Weights(signals, w)[i] = weight
        /\ Scores(signals, w)[i] = score * sure * weight
    BY DEF Weights, Scores
  <2> HIDE DEF score, sure, weight
  <2> DEFINE x == score * sure
  <2>5. /\ x \in Int
        /\ x > 0 => (score > 0 /\ sure > 0) \/ (score < 0 /\ sure < 0)
        /\ x < 0 => (score < 0 /\ sure > 0) \/ (score > 0 /\ sure < 0)
    BY <2>2, <2>3
  <2> HIDE DEF x
  <2>6. /\ x * weight \in Int
        /\ x * weight > 0 => x > 0 /\ weight > 0
        /\ x * weight < 0 => x < 0 /\ weight > 0
    BY <2>2, <2>5
  <2>7. Scores(signals, w)[i] = x * weight
    BY <2>4 DEF x
  <2>8. QED
    BY <2>1, <2>2, <2>4, <2>5, <2>6, <2>7 DEF score, sure, weight, Raising, Lowering
<1>4. DOMAIN Weights(signals, w) = DOMAIN signals /\ DOMAIN Scores(signals, w) = DOMAIN signals
  BY DEF Weights, Scores
<1>5. QED
  BY <1>2, <1>3, <1>4

\* The two sums are amounts, the total of the weights not negative; a score that
\* is has a signal of its sign behind it.
LEMMA SumsType ==
    ASSUME NEW signals \in Seq(Signal), NEW w \in [Strategy -> Nat]
    PROVE  /\ Total(signals, w) \in Int /\ Total(signals, w) >= 0
           /\ Weighted(signals, w) \in Int
           /\ Weighted(signals, w) > 0 =>
                 \E i \in DOMAIN signals :
                    w[signals[i].strategy] > 0 /\ Raising(signals[i])
           /\ Weighted(signals, w) < 0 =>
                 \E i \in DOMAIN signals :
                    w[signals[i].strategy] > 0 /\ Lowering(signals[i])
<1> DEFINE S == DOMAIN signals
           f == Weights(signals, w)
           g == Scores(signals, w)
           none == [i \in S |-> 0]
<1>1. /\ IsFiniteSet(S) /\ DOMAIN f = S /\ DOMAIN g = S
      /\ \A i \in S : f[i] \in Int /\ f[i] >= 0 /\ g[i] \in Int
  BY VotesType
<1>2. /\ \A i \in S : g[i] > 0 =>
            w[signals[i].strategy] > 0 /\ Raising(signals[i])
      /\ \A i \in S : g[i] < 0 =>
            w[signals[i].strategy] > 0 /\ Lowering(signals[i])
  BY VotesType
<1>3. /\ Total(signals, w) = SumFunctionOnSet(f, S)
      /\ Weighted(signals, w) = SumFunctionOnSet(g, S)
  BY <1>1 DEF Total, Weighted, SumFunction
<1>4. (\A i \in S : none[i] = 0) /\ SumFunctionOnSet(none, S) = 0
  <2>1. \A i \in S : none[i] = 0
    OBVIOUS
  <2> HIDE DEF none, S
  <2>2. QED
    BY <1>1, <2>1, SumOfZeros
<1> HIDE DEF S, f, g, none
<1>5. /\ SumFunctionOnSet(f, S) \in Int /\ SumFunctionOnSet(f, S) >= 0
      /\ SumFunctionOnSet(g, S) \in Int
      /\ (\A i \in S : g[i] >= 0) => SumFunctionOnSet(g, S) >= 0
  BY <1>1, SumType
<1>6. ASSUME \A i \in S : ~(g[i] > 0)
      PROVE  SumFunctionOnSet(g, S) <= 0
  <2>1. \A i \in S : g[i] \in Int /\ none[i] \in Int /\ g[i] <= none[i]
    BY <1>1, <1>4, <1>6
  <2>2. SumFunctionOnSet(g, S) <= SumFunctionOnSet(none, S)
    BY <1>1, <2>1, SumMonotone
  <2>3. QED
    BY <1>4, <1>5, <2>2
<1>7. SumFunctionOnSet(g, S) > 0 => \E i \in S : g[i] > 0
  BY <1>5, <1>6
<1>8. SumFunctionOnSet(g, S) < 0 => \E i \in S : g[i] < 0
  BY <1>1, <1>5
<1>9. QED
  BY <1>2, <1>3, <1>5, <1>7, <1>8 DEF S

\* One more signal adds its own to both sums.
LEMMA OneMore ==
    ASSUME NEW signals \in Seq(Signal), NEW s \in Signal, NEW w \in [Strategy -> Nat]
    PROVE  /\ Append(signals, s) \in Seq(Signal)
           /\ Total(Append(signals, s), w) = Total(signals, w) + w[s.strategy]
           /\ Weighted(Append(signals, s), w)
                = Weighted(signals, w) + Score[s.kind] * s.confidence * w[s.strategy]
<1> DEFINE more == Append(signals, s)
           S == DOMAIN signals
           end == Len(signals) + 1
<1>1. /\ more \in Seq(Signal) /\ more[end] = s /\ end \notin S
      /\ DOMAIN more = S \cup {end} /\ \A i \in S : more[i] = signals[i]
  <2>1. /\ Len(signals) \in Nat /\ S = 1 .. Len(signals) /\ more \in Seq(Signal)
        /\ DOMAIN more = 1 .. end /\ more[end] = s
        /\ \A i \in S : more[i] = signals[i]
    OBVIOUS
  <2>2. QED
    BY <2>1
<1> DEFINE f == Weights(signals, w)
           g == Scores(signals, w)
           f2 == Weights(more, w)
           g2 == Scores(more, w)
<1> HIDE DEF more, end
<1>2. /\ IsFiniteSet(S) /\ DOMAIN f = S /\ DOMAIN g = S
      /\ \A i \in S : f[i] \in Int /\ g[i] \in Int
  BY VotesType
<1>3. /\ DOMAIN f2 = S \cup {end} /\ DOMAIN g2 = S \cup {end}
      /\ \A i \in S \cup {end} : f2[i] \in Int /\ g2[i] \in Int
  <2>0. ASSUME NEW i \in DOMAIN more PROVE f2[i] \in Nat /\ g2[i] \in Int
    <3>1. w[more[i].strategy] \in Nat /\ f2[i] = w[more[i].strategy] /\ g2[i] \in Int
      BY <1>1, VotesType
    <3>2. QED
      BY <3>1
  <2>1. /\ DOMAIN f2 = DOMAIN more /\ DOMAIN g2 = DOMAIN more
        /\ \A i \in DOMAIN more : f2[i] \in Nat /\ g2[i] \in Int
    BY <1>1, <2>0, VotesType
  <2>2. \A i \in DOMAIN more : f2[i] \in Int
    BY <2>1
  <2> HIDE DEF f2, g2, S
  <2>3. QED
    BY <1>1, <2>1, <2>2
<1>4. /\ \A i \in S : f2[i] = f[i] /\ g2[i] = g[i]
      /\ f2[end] = w[s.strategy]
      /\ g2[end] = Score[s.kind] * s.confidence * w[s.strategy]
  BY <1>1 DEF Weights, Scores
<1>5. /\ Total(signals, w) = SumFunctionOnSet(f, S)
      /\ Weighted(signals, w) = SumFunctionOnSet(g, S)
      /\ Total(more, w) = SumFunctionOnSet(f2, S \cup {end})
      /\ Weighted(more, w) = SumFunctionOnSet(g2, S \cup {end})
  BY <1>2, <1>3 DEF Total, Weighted, SumFunction
<1> HIDE DEF S, f, g, f2, g2
<1>6. /\ SumFunctionOnSet(f2, S \cup {end}) = f2[end] + SumFunctionOnSet(f2, S)
      /\ SumFunctionOnSet(g2, S \cup {end}) = g2[end] + SumFunctionOnSet(g2, S)
  <2>1. end \notin S
    BY <1>1 DEF S
  <2>2. QED
    BY <1>2, <1>3, <2>1, SumAdd
<1>7. /\ SumFunctionOnSet(f2, S) = SumFunctionOnSet(f, S)
      /\ SumFunctionOnSet(g2, S) = SumFunctionOnSet(g, S)
  BY <1>2, <1>4, SumAgree
<1>8. /\ SumFunctionOnSet(f, S) \in Int /\ SumFunctionOnSet(g, S) \in Int
      /\ f2[end] \in Int /\ g2[end] \in Int
  BY <1>2, <1>3, SumType
<1>9. /\ Total(more, w) = Total(signals, w) + f2[end]
      /\ Weighted(more, w) = Weighted(signals, w) + g2[end]
  BY <1>5, <1>6, <1>7, <1>8
<1>10. QED
  BY <1>1, <1>4, <1>9 DEF more

\* A verdict stands where twice the score is against the total of the weights.
LEMMA Verdicts ==
    ASSUME NEW signals \in Seq(Signal), signals # <<>>, NEW w \in [Strategy -> Nat]
    PROVE  LET total == Total(signals, w)
               twice == 2 * Weighted(signals, w)
               rank == Rank[Consensus(signals, w)]
           IN  /\ Consensus(signals, w) # NoScore /\ rank \in -2 .. 2
               /\ total <= 0 => rank = 0
               /\ total > 0 => /\ rank >= 2 <=> twice >= 300 * total
                               /\ rank >= 1 <=> twice >= 100 * total
                               /\ rank >= 0 <=> twice > -100 * total
                               /\ rank >= -1 <=> twice > -300 * total
<1> DEFINE total == Total(signals, w)
           twice == 2 * Weighted(signals, w)
           t2 == IF total > 0 THEN twice ELSE 0
           verdict == Consensus(signals, w)
           rank == Rank[verdict]
<1>1. total \in Int /\ twice \in Int /\ total >= 0
  BY SumsType
<1>2. verdict = CASE signals = <<>> -> NoScore
                  [] signals # <<>> /\ total <= 0 -> "HOLD"
                  [] total > 0 /\ t2 >= 300 * total -> "STRONG_BUY"
                  [] total > 0 /\ t2 >= 100 * total /\ t2 < 300 * total -> "BUY"
                  [] total > 0 /\ t2 <= -300 * total -> "STRONG_SELL"
                  [] total > 0 /\ t2 <= -100 * total /\ t2 > -300 * total -> "SELL"
                  [] total > 0 /\ t2 > -100 * total /\ t2 < 100 * total -> "HOLD"
  BY DEF Consensus
<1> HIDE DEF total, twice, verdict
<1>3. ASSUME total <= 0 PROVE verdict = "HOLD"
  BY <1>1, <1>2, <1>3
<1>4. ASSUME total > 0
      PROVE  /\ twice >= 300 * total => verdict = "STRONG_BUY"
             /\ twice >= 100 * total /\ twice < 300 * total => verdict = "BUY"
             /\ twice <= -300 * total => verdict = "STRONG_SELL"
             /\ twice <= -100 * total /\ twice > -300 * total => verdict = "SELL"
             /\ twice > -100 * total /\ twice < 100 * total => verdict = "HOLD"
  <2>1. t2 = twice /\ ~(total <= 0)
    BY <1>1, <1>4
  <2> HIDE DEF t2
  <2>2. ASSUME twice >= 300 * total PROVE verdict = "STRONG_BUY"
    BY <1>1, <1>2, <1>4, <2>1, <2>2
  <2>3. ASSUME twice >= 100 * total, twice < 300 * total PROVE verdict = "BUY"
    BY <1>1, <1>2, <1>4, <2>1, <2>3
  <2>4. ASSUME twice <= -300 * total PROVE verdict = "STRONG_SELL"
    BY <1>1, <1>2, <1>4, <2>1, <2>4
  <2>5. ASSUME twice <= -100 * total, twice > -300 * total PROVE verdict = "SELL"
    BY <1>1, <1>2, <1>4, <2>1, <2>5
  <2>6. ASSUME twice > -100 * total, twice < 100 * total PROVE verdict = "HOLD"
    BY <1>1, <1>2, <1>4, <2>1, <2>6
  <2>7. QED
    BY <2>2, <2>3, <2>4, <2>5, <2>6
<1>5. /\ verdict = "STRONG_BUY" => rank = 2 /\ verdict # NoScore
      /\ verdict = "BUY" => rank = 1 /\ verdict # NoScore
      /\ verdict = "HOLD" => rank = 0 /\ verdict # NoScore
      /\ verdict = "SELL" => rank = -1 /\ verdict # NoScore
      /\ verdict = "STRONG_SELL" => rank = -2 /\ verdict # NoScore
  <2>1. /\ Rank["STRONG_BUY"] = 2 /\ Rank["BUY"] = 1 /\ Rank["HOLD"] = 0
        /\ Rank["SELL"] = -1 /\ Rank["STRONG_SELL"] = -2
    BY DEF Rank
  <2>2. NoScore \notin {"STRONG_BUY", "BUY", "HOLD", "SELL", "STRONG_SELL"}
    BY DEF NoScore
  <2>3. QED
    BY <2>1, <2>2
<1> HIDE DEF rank
<1>6. /\ verdict # NoScore /\ rank \in -2 .. 2
      /\ total <= 0 => rank = 0
      /\ total > 0 => /\ rank >= 2 <=> twice >= 300 * total
                      /\ rank >= 1 <=> twice >= 100 * total
                      /\ rank >= 0 <=> twice > -100 * total
                      /\ rank >= -1 <=> twice > -300 * total
  <2>1. CASE total <= 0
    BY <1>1, <1>3, <1>5, <2>1
  <2>2. CASE total > 0 /\ twice >= 300 * total
    BY <1>1, <1>4, <1>5, <2>2
  <2>3. CASE total > 0 /\ twice >= 100 * total /\ twice < 300 * total
    BY <1>1, <1>4, <1>5, <2>3
  <2>4. CASE total > 0 /\ twice <= -300 * total
    BY <1>1, <1>4, <1>5, <2>4
  <2>5. CASE total > 0 /\ twice <= -100 * total /\ twice > -300 * total
    BY <1>1, <1>4, <1>5, <2>5
  <2>6. CASE total > 0 /\ twice > -100 * total /\ twice < 100 * total
    BY <1>1, <1>4, <1>5, <2>6
  <2>7. QED
    BY <1>1, <2>1, <2>2, <2>3, <2>4, <2>5, <2>6
<1>7. QED
  BY <1>6 DEF total, twice, verdict, rank

\* A verdict other than HOLD has a signal behind it that pulls to its side and
\* whose weight counts.
LEMMA VerdictBacked ==
    ASSUME NEW signals \in Seq(Signal), NEW w \in [Strategy -> Nat]
    PROVE  Backed(signals, w)
<1> DEFINE total == Total(signals, w)
           score == Weighted(signals, w)
           rank == Rank[Consensus(signals, w)]
<1>1. CASE signals = <<>>
  <2>1. total = 0
    <3>1. DOMAIN Weights(signals, w) = {}
      <4>1. Len(signals) = 0 /\ DOMAIN signals = 1 .. Len(signals)
        BY <1>1
      <4>2. DOMAIN Weights(signals, w) = DOMAIN signals
        BY VotesType
      <4>3. QED
        BY <4>1, <4>2
    <3>2. QED
      BY <3>1, SumEmpty DEF Total, SumFunction
  <2>2. Consensus(signals, w) = NoScore
    <3> HIDE DEF total
    <3>1. ~(total > 0)
      BY <2>1
    <3>2. QED
      BY <1>1, <3>1 DEF Consensus, total
  <2>3. QED
    BY <2>2 DEF Backed
<1>2. CASE signals # <<>>
  <2>1. total \in Int /\ total >= 0 /\ score \in Int
    BY SumsType
  <2>2. /\ rank \in -2 .. 2 /\ (total <= 0 => rank = 0)
        /\ total > 0 => (rank >= 1 <=> 2 * score >= 100 * total)
        /\ total > 0 => (rank >= 0 <=> 2 * score > -100 * total)
    BY <1>2, Verdicts
  <2>3. /\ \A i \in DOMAIN signals : signals[i] \in ToSet(signals) /\ signals[i] \in Signal
        /\ \A s \in Signal : Score[s.kind] \in -2 .. 2
    <3>1. \A i \in DOMAIN signals : signals[i] \in ToSet(signals) /\ signals[i] \in Signal
      BY VotesType DEF ToSet
    <3>2. \A s \in Signal : s.kind \in DOMAIN Score
      BY DEF Signal
    <3>3. \A k \in DOMAIN Score : Score[k] \in -2 .. 2
      BY DEF Score
    <3>4. QED
      BY <3>1, <3>2, <3>3
  <2> HIDE DEF total, score, rank
  <2>4. CASE rank > 0
    <3>1. score > 0
      BY <2>1, <2>2, <2>4
    <3>2. PICK i \in DOMAIN signals : w[signals[i].strategy] > 0 /\ Raising(signals[i])
      BY <3>1, SumsType DEF score
    <3>3. Pulls(signals[i], rank)
      <4> DEFINE x == Score[signals[i].kind]
      <4>1. x \in -2 .. 2 /\ rank \in 1 .. 2
        BY <2>2, <2>3, <2>4, <3>2
      <4>2. \/ x > 0 /\ signals[i].confidence > 0
            \/ x < 0 /\ signals[i].confidence < 0
        BY <3>2 DEF Raising
      <4> HIDE DEF x
      <4>3. (x > 0 => x * rank > 0) /\ (x < 0 => x * rank < 0)
        BY <4>1
      <4>4. QED
        BY <4>2, <4>3 DEF x, Pulls
    <3>4. QED
      BY <2>3, <3>2, <3>3 DEF Backed, rank
  <2>5. CASE rank < 0
    <3>1. score < 0
      BY <2>1, <2>2, <2>5
    <3>2. PICK i \in DOMAIN signals : w[signals[i].strategy] > 0 /\ Lowering(signals[i])
      BY <3>1, SumsType DEF score
    <3>3. Pulls(signals[i], rank)
      <4> DEFINE x == Score[signals[i].kind]
      <4>1. x \in -2 .. 2 /\ rank \in -2 .. -1
        BY <2>2, <2>3, <2>5, <3>2
      <4>2. \/ x < 0 /\ signals[i].confidence > 0
            \/ x > 0 /\ signals[i].confidence < 0
        BY <3>2 DEF Lowering
      <4> HIDE DEF x
      <4>3. (x < 0 => x * rank > 0) /\ (x > 0 => x * rank < 0)
        BY <4>1
      <4>4. QED
        BY <4>2, <4>3 DEF x, Pulls
    <3>4. QED
      BY <2>3, <3>2, <3>3 DEF Backed, rank
  <2>6. CASE rank = 0
    BY <2>6 DEF Backed, rank
  <2>7. QED
    BY <2>2, <2>4, <2>5, <2>6
<1>3. QED
  BY <1>1, <1>2

\* One more full vote for buying never makes the verdict worse.
LEMMA VerdictMonotone ==
    ASSUME NEW signals \in Seq(Signal), NEW w \in [Strategy -> Nat]
    PROVE  Monotone(signals, w)
<1> SUFFICES ASSUME NEW s \in Vote, s.kind = "STRONG_BUY", s.confidence = 100,
                    signals # <<>>, w[s.strategy] > 0, Total(signals, w) > 0
             PROVE  Rank[Consensus(Append(signals, s), w)] >= Rank[Consensus(signals, w)]
  BY DEF Monotone
<1> DEFINE more == Append(signals, s)
           weight == w[s.strategy]
           total == Total(signals, w)
           score == Weighted(signals, w)
           rank == Rank[Consensus(signals, w)]
           rank2 == Rank[Consensus(more, w)]
<1>1. s \in Signal /\ weight \in Nat
  <2>1. s \in Signal
    BY DashboardAssumption
  <2>2. s.strategy \in Strategy
    BY <2>1 DEF Signal
  <2>3. QED
    BY <2>1, <2>2
<1>2. /\ more \in Seq(Signal)
      /\ Total(more, w) = total + weight
      /\ Weighted(more, w) = score + Score[s.kind] * s.confidence * weight
  BY <1>1, OneMore
<1>3. Score[s.kind] * s.confidence = 200
  BY DEF Score
<1>4. Weighted(more, w) = score + 200 * weight
  BY <1>2, <1>3
<1>5. more # <<>>
  <2>1. Append(signals, s) # <<>>
    BY <1>1, AppendProperties
  <2>2. QED
    BY <2>1
<1>6. total \in Int /\ score \in Int
  BY SumsType
<1>7. /\ rank \in -2 .. 2
      /\ total > 0 => /\ rank >= 2 <=> 2 * score >= 300 * total
                      /\ rank >= 1 <=> 2 * score >= 100 * total
                      /\ rank >= 0 <=> 2 * score > -100 * total
                      /\ rank >= -1 <=> 2 * score > -300 * total
  BY Verdicts
<1> HIDE DEF more
<1>8. LET t == Total(more, w)
          c == Weighted(more, w)
      IN  /\ rank2 \in -2 .. 2
          /\ t > 0 => /\ rank2 >= 2 <=> 2 * c >= 300 * t
                      /\ rank2 >= 1 <=> 2 * c >= 100 * t
                      /\ rank2 >= 0 <=> 2 * c > -100 * t
                      /\ rank2 >= -1 <=> 2 * c > -300 * t
  BY <1>2, <1>5, Verdicts
<1> HIDE DEF weight, total, score, rank, rank2
<1>9. total > 0 /\ weight > 0
  BY DEF total, weight
<1>10. /\ total + weight > 0
       /\ rank2 >= 2 <=> 2 * (score + 200 * weight) >= 300 * (total + weight)
       /\ rank2 >= 1 <=> 2 * (score + 200 * weight) >= 100 * (total + weight)
       /\ rank2 >= 0 <=> 2 * (score + 200 * weight) > -100 * (total + weight)
       /\ rank2 >= -1 <=> 2 * (score + 200 * weight) > -300 * (total + weight)
  <2>1. total + weight > 0
    BY <1>1, <1>6, <1>9
  <2>2. QED
    BY <1>2, <1>4, <1>8, <2>1
<1>11. rank2 >= rank
  BY <1>1, <1>6, <1>7, <1>8, <1>9, <1>10
<1>12. QED
  BY <1>11 DEF rank, rank2, more

\* Whatever the strategies and the model say of a ticker, with whatever confidence,
\* if no weight is negative: behind a verdict other than HOLD stands somebody whose
\* weight counts, who voted for that side or, with a negative confidence, against
\* it; and one more full vote for buying never makes the verdict worse.
THEOREM ConsensusIsBacked ==
    ASSUME Weight \subseteq Nat
    PROVE  Spec => []ConsensusFollowsVotes
<1>1. ASSUME NEW said \in BoundedSeq(Vote, Volume), NEW t \in Ticker, NEW c \in Talk,
             NEW w \in [Strategy -> Weight]
      PROVE  Backed(said \o Advice(t, c), w) /\ Monotone(said \o Advice(t, c), w)
  <2>1. said \in Seq(Signal)
    <3>1. PICK m \in 0 .. Volume : said \in [1 .. m -> Vote]
      BY DEF BoundedSeq, SeqOf
    <3>2. m \in Nat /\ said \in [1 .. m -> Signal]
      BY <3>1, DashboardAssumption
    <3>3. QED
      BY <3>2, Listed
  <2>2. Advice(t, c) \in Seq(Signal)
    BY AdviceType, DashboardAssumption
  <2>3. said \o Advice(t, c) \in Seq(Signal)
    BY <2>1, <2>2, ConcatProperties
  <2>4. w \in [Strategy -> Nat]
    OBVIOUS
  <2>5. QED
    BY <2>3, <2>4, VerdictBacked, VerdictMonotone
<1>2. ConsensusFollowsVotes
  BY <1>1 DEF ConsensusFollowsVotes
<1>3. QED
  BY <1>2, PTL
=============================================================================
