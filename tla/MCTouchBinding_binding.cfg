SPECIFICATION FairSpec
CONSTANTS
  Drivers <- BothDrivers
  Pdts <- FewPdts
  MaxFunctions = 3
  PageNumbers = 3
  Looks = 1
  MaxStarts = 2
  MaxMessages = 3
  MaxFaults = 2
INVARIANTS
  TypeOK
  ClosedAtHandOver
  PointerAlive
PROPERTIES
  StartEnds
CHECK_DEADLOCK FALSE
