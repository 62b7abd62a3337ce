\* Two runs of `add` and the edits by hand: what is in the log is there for good.
SPECIFICATION CheckoutSpec
CONSTANTS
    Writers = {w1, w2}
    LastNumber = 2
    MaxDay = 2
    MaxEntries = 3
    Files <- TheFiles
    LayerOf <- TheLayers
    BaseName <- TheNames
    Known <- TheKnown
    Tools = {t1, t2}
    MaxEdits = 2
    MaxEvents = 4
INVARIANT
    LogOnlyGrows
SYMMETRY Symmetry
CHECK_DEADLOCK FALSE
