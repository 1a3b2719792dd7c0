SPECIFICATION GateSpec
CONSTANTS
  rev = rev
  dev = dev
  Personas = {rev, dev}
  Reviewers = {rev}
  MaxHeads = 2
  MaxComments = 2
  MaxRuns = 2
CHECK_DEADLOCK FALSE
INVARIANTS
  GateTypeOK
  AllowedWasReviewed
PROPERTIES
  FailIsFinal
  VerdictIsAttributed
