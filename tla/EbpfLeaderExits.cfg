SPECIFICATION Spec
CONSTANTS
    Task = {t1, t2}
    Leader = t1
    Attached = {t1}
    Follow = TRUE
    MaxTargets = 2
    MaxEnters = 2
    RingSize = 2
    Reuse = 0
    ThreadExec = FALSE
    MaxCalls = 2
INVARIANT NoneMeansAllExited
