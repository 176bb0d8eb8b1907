SPECIFICATION DriverSpec
CONSTANTS
    p1 = p1
    p2 = p2
    Procs = {p1}
    Jobs <- OneJob
    MaxVersion = 1
CHECK_DEADLOCK FALSE
INVARIANT SafeFallback
