SPECIFICATION Spec
CONSTANTS
    trader = trader
    pro = pro
    Sub = {s1, s2}
    PaidTier <- MCPaidTier
    Quota <- MCQuota
    Overage <- MCOverage
    Expanded = {TRUE, FALSE}
    Period = 1
    FreePeriod = 1
    NoSub = NoSub
    MaxTime = 1
    MaxEvents = 7
    MaxUnits = 2
SYMMETRY Symmetry
INVARIANTS NoOversell BooksAgree PaidPeriodEntitled BooksFromStripe
CHECK_DEADLOCK FALSE
