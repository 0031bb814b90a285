SPECIFICATION Spec
CONSTANTS
  Phones <- AllPhones
  MaxFaults = 1
  StrayHandles = {0, 99}
INVARIANTS TypeOK MapSound RecordsSound PatchedOrGone ModemMemoryReserved
CHECK_DEADLOCK FALSE
