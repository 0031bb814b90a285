SPECIFICATION FairSpec
CONSTANTS
  NumPartitions <- MCNumPartitions
  LunOf <- MCUfsLunOf
  BaseOf <- MCBaseOf
  TailOf <- MCTailOf
  IdleGuid = idle
  None = none
  IsUfs = TRUE
  BootTables <- MCBootTables
  MaxCrashes = 2
  MaxFaults = 0
INVARIANTS
  SomeCopyValid
  PairsKept
  SetActiveSlotHolds
  ResetOnlyWhenSwitched
PROPERTIES
  LunAfterAttributes
  BootCompletes
