SPECIFICATION Spec
CONSTANTS
    p1 = p1  p2 = p2  w1 = w1  s1 = s1
    Proc <- Procs
    Worker <- Workers
    Song <- Songs
    Gui = Gui
    Outsider = Outsider
    None = None
    Override = TRUE
    MaxClicks = 3
    MaxErrors = 1
INVARIANTS
    OneStarterNoOrphan
PROPERTIES
    NoRowIsDestroyed
SYMMETRY Symmetry
CHECK_DEADLOCK FALSE
