SPECIFICATION Spec
CONSTANTS
    Tbl <- MCTbl
    Exprs <- MCExprs
    Calls <- MCCalls
    Codes = {3}
    Rooms = {0, 1, 2, 3, 4, 5, 7, 13}
    Names <- MCNames
    Parts = 3
    Cap = 3
    LineCap = 2
    MaxEvents = 3
INVARIANTS InOrder NothingHeldBack SuccessMeansWritten SummaryRight QuietOnBrokenPipe
