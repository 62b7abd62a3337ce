SPECIFICATION Spec
CONSTANTS
    a1 = a1  a2 = a2  a3 = a3  b = b  c = c  t1 = t1  t2 = t2
    Song <- Songs
    ArtistOf <- TwoArtists
    TitleOf <- Names
    NoTitle = "-"
    TooLong <- NoneTooLong
    Pick <- OnePick
    Task <- Tasks
    None = None
    MaxPerArtist = 2
    ArtistsQuick = 1
    ArtistsBatch = 2
    Thin = 1
    HistoryCheck = 2
    Excluded = 1
    RadioCap = 2
    MaxCmds = 3
INVARIANTS
    QueueIsVaried
    AdjacentOnlyAtTheEnd
SYMMETRY Symmetry
CHECK_DEADLOCK FALSE
