SPECIFICATION Spec
CONSTANTS
    Size = 6
    Byte = {0, 1}
    CHUNK = 2
    PATH_CAP = 5
    CAP_BYTES = 4
    MAX_STR = 2
    MaxWrites = 1
INVARIANTS WholeString CaptureIsEnough
