SPECIFICATION DecisionsSpec
CONSTANTS
    Numbers = {1, 2}
    Ratified = {1}
    Items = {1}
    Repos = {"code", "ghost"}
    Unresolved = {"ghost"}
    Collab = "collab"
    Located = "code"
    NoRepo = "none"
    Requests <- MCRequests
    HandParks <- MCHandParks
    Manifests <- MCManifests
    MaxEvents = 3
INVARIANTS ParksAreRecorded GreenMeansDischarged
CHECK_DEADLOCK FALSE
