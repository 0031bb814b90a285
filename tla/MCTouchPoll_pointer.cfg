SPECIFICATION Spec
CONSTANTS
  ClientTpls <- CallbackOnly
  Kinds <- AllMessages
  XInverted = TRUE
  YInverted = FALSE
  MaxMessages = 4
  MaxFaults = 1
PROPERTIES
  ImplementsPointer
