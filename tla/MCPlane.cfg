SPECIFICATION Spec
CONSTANTS
    Procs = {p, q}
    Dirs <- MCDirs
    Root <- MCRoot
    Verdicts <- MCVerdicts
    Calls <- MCCalls
    Days = {1, 2}
    MaxRows = 3
    MaxStops = 1
    MaxReports = 1
    p = p
    q = q
SYMMETRY MCSymmetry
INVARIANT HealthCountsRecorded
CHECK_DEADLOCK FALSE
