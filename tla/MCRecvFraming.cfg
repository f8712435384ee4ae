SPECIFICATION FairSpec
CONSTANTS
  Byte <- Octet
  Junk = Junk
  InitLen = 8
  Messages <- MCMessages
  Foreign <- MCForeign
  MaxPackage = 10
  MaxSent = 2
  Screens <- MCScreens
INVARIANTS
  TypeOK
  MessagesInOrder
  Canonical
  EndsForCause
  EntersBeside
  ReturnsBeside
PROPERTIES
  EventuallyDelivered
CHECK_DEADLOCK FALSE
