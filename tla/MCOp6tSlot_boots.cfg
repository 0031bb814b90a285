SPECIFICATION Spec
CONSTANTS
  NumHandles <- MCNumHandles
  IsPartition <- MCIsPartition
  Names <- MCNames
  ThreeBlocks <- MCThreeBlocks
  MaxCrashes = 2
  MaxFaults = 3
INVARIANTS
  TypeOK
  ActiveAfterBoot
PROPERTIES
  OnlyTargetWritten
