SPECIFICATION FairSpec
CONSTANTS
  p1 = p1
  p2 = p2
  p3 = p3
  c1 = c1
  c2 = c2
  c3 = c3
  Home <- OwnClone
  Procs = {p1, p2}
  Clones = {c1, c2}
  Kinds = {"finding", "decision"}
  Retries = 1
  Quota <- TwoAndOne
  Faults = {"no-push", "crash", "unacked", "offline", "refused"}
CHECK_DEADLOCK FALSE
INVARIANTS
  TypeOK
  PublishedDense
  AnswerIsPublished
  FiledOnce
  FailureLeavesNothing
  ExhaustionMeansContention
PROPERTIES
  PublishedIsKept
  ImplementsLedger
