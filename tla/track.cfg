SPECIFICATION Spec
CONSTANTS
    t1 = t1  t2 = t2  s1 = s1  s2 = s2  s3 = s3
    None = None
    Track <- Tracks
    Slot <- Slots
    Lufs <- Lufses
    Peak <- Peaks
    MaxVolume = 2
    FadeSteps = 2
    MaxPosition = 2
    MaxPlays = 2
    MaxEvents = 2
    Focuses <- Companions
INVARIANTS
    LyricsFollow
    GainAgrees
    NeverClips
    TasksAreHeld
SYMMETRY Symmetry
CHECK_DEADLOCK FALSE
