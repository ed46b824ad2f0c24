CONSTANTS
    NoRow = NoRow
    BandLo = 5
    BandHi = 40
    Count = 6
    TvCap = 6
    Closes <- CalmCloses
    FetchLag = 1
    StepLag = 1
    MaxTime = 5
SPECIFICATION FairHistorySpec
INVARIANTS OverlapBarFetched
