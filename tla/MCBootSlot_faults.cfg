SPECIFICATION FairSpec
CONSTANTS
  NumPartitions <- MCNumPartitions
  LunOf <- MCUfsLunOf
  BaseOf <- MCBaseOf
  TailOf <- MCTailOf
  IdleGuid = idle
  None = none
  IsUfs = TRUE
  BootTables <- MCBootTables
  MaxCrashes = 0
  MaxFaults = 1
PROPERTIES
  RefreshKeepsSlot
  ImageEnds
