SPECIFICATION Spec
SYMMETRY Sym
CONSTANTS
    t1 = t1  t2 = t2
    Track = {t1, t2}
    NoTrack = NoTrack
    NoTask = NoTask
    Client = {c1, c2}
    Bg = {b1, b2, b3}
    Ops <- AllOps
    LoopModes = {"queue"}
    Batch <- Fetched
    Threshold = 2
    HistCap = 1
    RadioCap = 1
    QueueCap = 1
    MaxCmds = 3
    MaxEnds = 1
INVARIANTS
    TypeOK
    LockDiscipline
    TrackedAreRadio
    NowPlayingIsOurs
    LoadIsGuarded
    BreakerBudget
    QueueModeSettles
PROPERTIES
    PlaysSerially
