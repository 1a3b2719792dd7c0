SPECIFICATION Spec
CONSTANTS
    Personas = {"wren"}
    Repo = "repo"
    Clones = {"clone"}
    Detached = "detached"
    Default = "main"
    BranchOf <- MCBranchOf
    Committers = {"wren"}
    MaxCommits = 1
    Adders = {one, other}
    one = one
    other = other
    Patterns <- MCPatterns
    Handoffs = {"h"}
    Sla = 0
    MaxDay = 1
INVARIANTS WorkIsKept NothingStrandedSilently
CHECK_DEADLOCK FALSE
SYMMETRY AddersAlike
