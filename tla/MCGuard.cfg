SPECIFICATION Spec
CONSTANTS
  Personas <- MCPersonas
  Calls <- MCCalls
  Drafts <- MCDrafts
  Shipped <- MCShipped
  Repos <- MCRepos
  Root <- MCRoot
  MaxMerges = 1
  LogCanFail = FALSE
INVARIANTS
  GrantedOrRecorded
  EnforcedMeansDecided
  SeamsAgree
  LabelMeansChecked
  DiffSeesDecisions
CHECK_DEADLOCK FALSE
