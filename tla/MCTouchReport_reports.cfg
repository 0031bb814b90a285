SPECIFICATION FairSpec
CONSTANTS
  Layouts <- ActiveLayouts
  TableLayouts <- AllObjectLayouts
  Objects <- Fingers
  MaxObjects = 2
  MAX_FINGER = 10
INVARIANTS
  TypeOK
  ReportExact
PROPERTIES
  InterpretationEnds
CHECK_DEADLOCK FALSE
