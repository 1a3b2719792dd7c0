SPECIFICATION Spec
CONSTANTS
    Root <- MCRoot
    Beside <- MCBeside
    Requests <- MCRequests
    Commands = {1, 2, 3}
INVARIANTS
    RegisteredIsWhole
    PathsLeadOutAndBack
    ClonesAreWhole
CHECK_DEADLOCK FALSE
