\* Two runs of `add`, two runs of the tree's tools, four events, all of them about one file.
SPECIFICATION CheckoutSpec
CONSTANTS
    Writers = {w1, w2}
    LastNumber = 2
    MaxDay = 2
    MaxEntries = 3
    Files <- TheFiles
    LayerOf <- TheLayers
    BaseName <- TheNames
    Known <- TheKnown
    Tools = {t1, t2}
    MaxEdits = 2
    MaxEvents = 4
INVARIANTS
    EntriesSurvive
    CacheIsTruthful
    NoCycleGetsPast
PROPERTIES
    AddAloneIsExact
    GeneratorTakesHold
SYMMETRY Symmetry
CHECK_DEADLOCK FALSE
