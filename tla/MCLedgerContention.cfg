SPECIFICATION FairSpec
CONSTANTS
  p1 = p1
  p2 = p2
  p3 = p3
  c1 = c1
  c2 = c2
  c3 = c3
  Home <- OwnClone
  Procs = {p1, p2, p3}
  Clones = {c1, c2, c3}
  Kinds = {"finding", "decision"}
  Retries = 2
  Quota <- One
  Faults = {"edit"}
CHECK_DEADLOCK FALSE
PROPERTIES
  ImplementsCounter
  EveryCommandIsAnswered
