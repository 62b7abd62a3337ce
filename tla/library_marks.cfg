SPECIFICATION Spec
CONSTANTS
    t1 = t1  t2 = t2  v1 = v1  f = f
    Task <- Tasks
    Video <- OneVideo
    File <- Files
    FileOf <- OneName
    MaxTasks = 3
INVARIANT MarkedIsGone
CHECK_DEADLOCK FALSE
