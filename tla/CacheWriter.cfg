CONSTANTS
    NoRow = NoRow
    BandLo = 5
    BandHi = 40
    Count = 3
    TvCap = 3
    Closes <- JumpCloses
    FetchLag = 1
    StepLag = 1
    MaxTime = 5
SPECIFICATION FairHistorySpec
INVARIANTS TypeOK MetaSummarisesRows OnlyClosedBars WriterInv OldClosesUnlessMissed
PROPERTIES NothingForgotten SettledRowsStay OverlapCatchesSnapshot NoSkippedBar ImplementsLedger EventuallyCaughtUp
