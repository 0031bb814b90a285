SPECIFICATION FairSpec
CONSTANTS
  NumPartitions <- MCNumPartitions
  LunOf <- MCUfsLunOf
  BaseOf <- MCBaseOf
  TailOf <- MCTailOf
  IdleGuid = idle
  None = none
  IsUfs = TRUE
  BootTables <- MCBootTables
  MaxCrashes = 1
  MaxFaults = 0
INVARIANTS
  TypeOK
  SwitchComplete
PROPERTIES
  NeverWithoutSlot
  OnlyTheAppSwitches
  ImplementsSlotSwitch
