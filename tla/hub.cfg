SPECIFICATION Spec
CONSTANTS
    c1 = c1  c2 = c2  u1 = u1  u2 = u2  i1 = i1
    Conn <- Conns
    Username <- Usernames
    Uid <- Uids
    Player = Player
    None = None
    MaxAttempts = 1
    MaxCommands = 1
    MaxChats = 1
    MaxEvents = 4
INVARIANTS
    TypeOK
    NothingLeaks
    ViewConverges
SYMMETRY Symmetry
CHECK_DEADLOCK FALSE
