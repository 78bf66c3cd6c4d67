SPECIFICATION CliSpec
CONSTANTS
    Task = {t1, t2, t3}
    Root = {t1}
    Leader = t1
    None = None
    Follow = TRUE
    Spawned = TRUE
    Ops = {"thread", "fork", "exec", "exit", "exit_group"}
    Codes = {3, 4}
    Signals = {9, 15, 20}
    MaxCalls = 2
    MaxSignals = 1
    SinkErrors = {"BrokenPipe", "Other"}
SYMMETRY Symmetry
INVARIANTS TypeOK NoStranded Pairing HeldStill NoCallLost TgidRight ExitNamesGroup NoneMeansGone LeaderStatusKept NoInventedStatus
