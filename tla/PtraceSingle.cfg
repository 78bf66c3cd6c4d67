SPECIFICATION Spec
CONSTANTS
    Task = {t1, t2}
    Root = {t1, t2}
    None = None
    Follow = FALSE
    Spawned = FALSE
    Ops = {"exec", "exit", "exit_group"}
    Codes = {0, 3}
    Signals = {9, 10, 15, 19, 20, 34}
    MaxCalls = 3
    MaxSignals = 2
INVARIANT PairingAfterExec
