SPECIFICATION Spec
CONSTANTS
  PutLocks <- ServerLocks
  SendLocks <- ServerLocks
  Pieces <- MCPieces
  InitLen = 3
  SendMax = 3
  MaxBytes = 10
INVARIANTS
  StreamIntact
  NoWildAccess
  AssertionsHold
CHECK_DEADLOCK FALSE
