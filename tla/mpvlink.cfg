SPECIFICATION LinkFairSpec
CONSTANTS
    m1 = m1  m2 = m2
    Caller <- Callers
    NoCaller = NoCaller
    Prop <- Props
    None = None
    Retries = 3
    Tries = 2
    MaxCalls = 3
INVARIANTS
    AnswerIsOwn
    PendingIsWaited
PROPERTIES
    CallsReturn
    ResumeGoesOn
