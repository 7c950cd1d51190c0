SPECIFICATION MeteringSpec
CONSTANTS
    Worker = {w1, w2}
    Row = {r1, r2}
    Unit = {1}
    Item = {i1, i2}
    HourLen = 2
    SafetyWindow = 1
    KeyLife = 3
    NoItem = NoItem
    Nobody = Nobody
    LastTick = 4
    MaxLate = 1
SYMMETRY Symmetry
INVARIANTS HourBilledOnce ReportedIsBilled
PROPERTIES LedgerSpec
CHECK_DEADLOCK FALSE
