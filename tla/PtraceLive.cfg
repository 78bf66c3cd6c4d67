SPECIFICATION Spec
CONSTANTS
    Task = {t1, t2}
    Root = {t1}
    None = None
    Follow = TRUE
    Spawned = TRUE
    Ops = {"thread", "fork", "exec", "exit", "exit_group"}
    Codes = {3}
    Signals = {9, 15, 20, 34}
    MaxCalls = 2
    MaxSignals = 1
PROPERTIES Responsive EndsWhenAllDead KeepsContract
