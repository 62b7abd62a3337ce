SPECIFICATION FairSpec
CONSTANTS
    t1 = t1  t2 = t2
    Track = {t1, t2}
    NoTrack = NoTrack
    NoTask = NoTask
    Client = {c1, c2}
    Bg = {b1, b2, b3}
    Ops = {"play", "next", "stop", "radio_on", "set_loop"}
    LoopModes = {"track"}
    Batch <- Fetched
    Threshold = 2
    HistCap = 1
    RadioCap = 1
    QueueCap = 1
    MaxCmds = 2
    MaxEnds = 0
PROPERTIES
    TasksEnd
