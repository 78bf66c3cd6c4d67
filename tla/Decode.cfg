SPECIFICATION DecodeSpec
CONSTANTS
    Values <- MCValues
    Tables <- MCTables
    NR <- MCNR
    ArgsOf <- MCArgsOf
    Rets <- MCRets
    Bytes <- MCBytes
    MAX_STR = 2
INVARIANTS Faithful TableRight ShownAlike StringsEnd FailureNamed
