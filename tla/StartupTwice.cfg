SPECIFICATION Spec
CONSTANTS
    Pids = {p1, p2, p3}
    Faults = {"arm"}
INVARIANT RunsOnce
