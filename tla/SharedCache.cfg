CONSTANTS
    NoRow = NoRow
    BandLo = 5
    BandHi = 40
    Count = 3
    TvCap = 3
    Closes <- CalmCloses
    FetchLag = 1
    StepLag = 1
    MaxTime = 3
    Total = 3
    Runs = 1
SPECIFICATION MCSharedSpec
INVARIANTS SharedTypeOK OnlyClosedBars MetaNeverOverstates
PROPERTIES ImplementsSeries LastRecovers
CHECK_DEADLOCK FALSE
