SPECIFICATION FairSpec
CONSTANTS
  lib = lib
  rev = rev
  Personas = {lib, rev}
  Watchers = {lib}
  Busy = {lib}
  Allowed = {lib, rev}
  Limit = 0
  Depths = {1}
  Recipients <- MCRecipients
  MaxMail = 2
  Faulty = {lib}
  MaxFaults = 1
CHECK_DEADLOCK FALSE
INVARIANTS
  TypeOK
  MessageBeforeWake
  ChainsEnd
  HalfClosedWasCut
PROPERTIES
  ArchiveNotDelete
  AddressedIsSwept
