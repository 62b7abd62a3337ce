SPECIFICATION Spec
CONSTANTS
    a1 = a1  a2 = a2  v1 = v1  v2 = v2  t1 = t1  t2 = t2
    Artist <- Artists
    Genre <- Genres
    Video <- Videos
    ArtistOf <- Songs
    GenresOf <- Tags
    Favourite <- Favourites
    Downloaded <- OnDisk
    Catalogue <- CatalogueVideos
    Hits <- Found
    Phrase <- PhraseFound
    SearchLimit = 3
    Task <- Tasks
    None = None
    PageSize = 2
    FeaturedSize = 3
    SpectrumLimit = 2
    MaxEvents = 2
    MaxPlays = 1
INVARIANTS
    CacheKeepsUp
    SectionsAgree
    SearchKnowsTheHistory
SYMMETRY Symmetry
CHECK_DEADLOCK FALSE
