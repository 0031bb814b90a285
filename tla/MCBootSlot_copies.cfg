SPECIFICATION Spec
CONSTANTS
  NumPartitions <- MCNumPartitions
  LunOf <- MCEmmcLunOf
  BaseOf <- MCBaseOf
  TailOf <- MCTailOf
  IdleGuid = idle
  None = none
  IsUfs = FALSE
  BootTables <- MCBootTables
  MaxCrashes = 1
  MaxFaults = 0
INVARIANTS
  BothCopiesUpdated
