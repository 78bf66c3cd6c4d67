SPECIFICATION Spec
CONSTANTS
    Task = {t1}
    Root = {t1}
    None = None
    Follow = TRUE
    Spawned = TRUE
    Ops = {"exec", "exit_group"}
    Codes = {3}
    Signals = {}
    MaxCalls = 2
    MaxSignals = 0
INVARIANT PairingAfterExec
