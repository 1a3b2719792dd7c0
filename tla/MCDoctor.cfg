SPECIFICATION DoctorSpec
CONSTANTS
    Exes = {"baron", "uv", "lint"}
    KitExe = "baron"
    Prefixed = {"uv"}
    Foreign = {"lint"}
    HandMade <- MCHandMade
INVARIANTS
    GreenMeansBlocks
CHECK_DEADLOCK FALSE
