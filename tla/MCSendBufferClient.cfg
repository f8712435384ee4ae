SPECIFICATION Spec
CONSTANTS
  PutLocks <- ClientPutLocks
  SendLocks <- ClientSendLocks
  Pieces <- MCPieces
  InitLen = 3
  SendMax = 3
  MaxBytes = 10
INVARIANTS
  AssertionsHold
CHECK_DEADLOCK FALSE
