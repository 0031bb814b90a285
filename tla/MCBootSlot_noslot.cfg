SPECIFICATION Spec
CONSTANTS
  NumPartitions <- MCNumPartitions
  LunOf <- MCUfsLunOf
  BaseOf <- MCBaseOf
  TailOf <- MCTailOf
  IdleGuid = idle
  None = none
  IsUfs = TRUE
  BootTables <- MCUsedTables
  MaxCrashes = 0
  MaxFaults = 1
INVARIANTS
  SlotAvailable
