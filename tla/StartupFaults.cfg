SPECIFICATION Spec
CONSTANTS
    Pids = {p1, p2, p3}
    Faults = {"feature", "probe", "load", "programs", "resolve", "fork", "arm", "traceme", "exec", "attach", "setoptions", "filter", "output", "stderr"}
INVARIANTS RunsOnceIfArmed NoChildBlocked SuccessMeansTraced BadOptionsHarmless
PROPERTIES Decides
