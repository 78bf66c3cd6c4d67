SPECIFICATION Spec
CONSTANTS
    Task = {t1, t2, t3}
    Leader = t1
    Attached = {t1, t2}
    Follow = FALSE
    MaxTargets = 2
    MaxEnters = 2
    RingSize = 2
    Reuse = 0
    ThreadExec = TRUE
    MaxCalls = 2
INVARIANTS ExitIsLast NoneMeansAllExited
PROPERTY EndsAfterExit
