---------------------------- MODULE MCSendBuffer ----------------------------
(* Messages of a two-byte length-and-type field and a one-byte body, in a   *)
(* block of three bytes at first, sent at most three bytes at a time.      *)
EXTENDS SendBuffer

MCPieces == <<2, 1>>
ServerLocks == {"ss_lock", "out_lock"}
ClientPutLocks == {"hook_lock", "out_lock"}
ClientSendLocks == {"ss_mtx", "in_lock"}
=============================================================================
