CONSTANTS
    Polled <- MCPolled
    Primary = "btc1"
    Sym <- MCSym
    Secs <- MCSecs
    Price <- MCPrice
    Band <- MCBand
    Count = 3
    NoRow = NoRow
    MaxTime = 4
SPECIFICATION Spec
INVARIANTS NoContamination
