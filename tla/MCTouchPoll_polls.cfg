SPECIFICATION FairSpec
CONSTANTS
  ClientTpls <- UpToCallback
  Kinds <- AllMessages
  XInverted = TRUE
  YInverted = FALSE
  MaxMessages = 3
  MaxFaults = 1
INVARIANTS
  TypeOK
  CriticalSection
PROPERTIES
  HandedOutInOrder
  HandedOutWhole
  NoTouchForgotten
  LineServed
