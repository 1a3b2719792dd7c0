SPECIFICATION Spec
CONSTANTS
    a = a
    b = b
    ca = ca
    Personas = {a}
    Clones = {ca}
    Home <- Own
    Declared = {}
    Enrolled = {}
    Trailers = {b}
    Labels = {a, b}
    PRs = {1, 2}
    MaxKeys <- Keys
    MaxCommits <- Commits
PROPERTIES
    LandsOnlyVouched
CHECK_DEADLOCK FALSE
