\* All kinds of platform through boots with capsules, losses of power and failed writes.
SPECIFICATION Spec
CONSTANTS
  SimpleInits = {FALSE, TRUE}
  Timeouts = {0, 3}
  MaxNumber = 7
  Capsules <- CapsuleLists
  MaxBoots = 2
  MaxFaults = 2
INVARIANTS
  TypeOK
  AppsOffered
  KeyOpensShown
  ResetAfterCapsules
PROPERTIES
  BootArrives
CHECK_DEADLOCK FALSE
