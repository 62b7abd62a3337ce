\* The index document and the marker that was written by hand with other white space.
SPECIFICATION CheckoutSpec
CONSTANTS
    Writers = {w1, w2}
    LastNumber = 2
    MaxDay = 2
    MaxEntries = 3
    Files <- TheFiles
    LayerOf <- TheLayers
    BaseName <- TheNames
    Known <- TheKnown
    Tools = {t1, t2}
    MaxEdits = 2
    MaxEvents = 4
PROPERTY
    BlockIsOverwritten
SYMMETRY Symmetry
CHECK_DEADLOCK FALSE
