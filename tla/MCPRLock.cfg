SPECIFICATION Spec
CONSTANTS
  p1 = p1
  p2 = p2
  dir = dir
  file = file
  twin = twin
  dirBranch = dirBranch
  fileBranch = fileBranch
  Procs = {p1, p2}
  Paths <- ThreePaths
  Slugs = {dirBranch, fileBranch}
  Slug <- SlugOf
  Under <- UnderOf
  Page = 1
  MaxPRs = 3
  Faults = {"crash", "by-hand", "api"}
SYMMETRY Symmetry
CHECK_DEADLOCK FALSE
INVARIANTS
  TypeOK
  OneOwner
  NoTornLock
  ReleaseIsComplete
  GuardHonoursLocks
