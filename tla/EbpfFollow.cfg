SPECIFICATION EbpfStreamSpec
CONSTANTS
    Task = {t1, t2, t3}
    Leader = t1
    Attached = {t1}
    Follow = TRUE
    MaxTargets = 2
    MaxEnters = 2
    RingSize = 2
    Reuse = 1
    ThreadExec = FALSE
    MaxCalls = 2
INVARIANTS EntersHasRoom Paired NothingVanishes TracedUnlessFull
PROPERTY KeepsContract
