------------------------------- MODULE Buffer -------------------------------
(***************************************************************************)
(* One cmBuffer_t (src/mmcore/Common/buffer.c) and the calls its owner     *)
(* makes on it, one after the other.  Both ends keep two per session:      *)
(* in_buf, filled by recv and emptied frame by frame, and out_buf, filled  *)
(* by NM_MsgToBuffer and emptied by send.  The buffer has no lock of its   *)
(* own: SendBuffer models what happens when two threads use one.           *)
(***************************************************************************)
EXTENDS BufferOps

CONSTANTS
  Chunks,       \* the byte strings the owner inserts
  Sizes,        \* the byte counts the owner erases or reserves
  CreateSizes,  \* the sizes the owner creates the buffer with
  MaxLen        \* bound: the owner never lets the unread bytes exceed it

ASSUME ChunksAreBytes == Chunks \subseteq Seq(Byte)
ASSUME SizesAreNat == Sizes \subseteq Nat /\ CreateSizes \subseteq Nat
ASSUME MaxLenIsNat == MaxLen \in Nat

VARIABLES
  buf,   \* the buffer
  peak   \* history: the most bytes the owner ever needed room for at once,
         \* since the buffer last had no block

bufferVars == <<buf, peak>>

BufferInit == \E n \in CreateSizes :
          /\ buf = Create(n)
          /\ peak = IF n = 0 THEN 0 ELSE Larger(n, InitLen)

Com_InsertBuffer(s) ==
  /\ Available(buf) + Len(s) <= MaxLen
  /\ buf' = Insert(buf, s)
  /\ peak' = Larger(peak, Available(buf) + Len(s))

Com_EraseBuffer(n) ==
  /\ buf' = Erase(buf, n)
  /\ UNCHANGED peak

Com_ReserveBuffer(n) ==
  /\ Available(buf) + n <= MaxLen
  /\ buf' = Reserve(buf, n)
  /\ peak' = Larger(peak, Available(buf) + n)

Com_ClearBuffer ==
  /\ buf' = EmptyBuffer
  /\ peak' = 0

BufferNext ==
  \/ \E s \in Chunks : Com_InsertBuffer(s)
  \/ \E n \in Sizes : Com_EraseBuffer(n) \/ Com_ReserveBuffer(n)
  \/ Com_ClearBuffer

BufferSpec == BufferInit /\ [][BufferNext]_bufferVars

-----------------------------------------------------------------------------
(* Properties.                                                             *)

\* The cursors stay in order inside the block (__buffer_is_valid, and the
\* assertion of Com_EraseBuffer that read_cur <= write_cur).
BufferTypeOK ==
  /\ buf \in Buffers
  /\ peak \in Nat

\* The closing assertion of Com_AllocBuffer: whatever the next insert asks
\* for, the block has that much room behind write_cur once it has been moved
\* or grown.
AllocFits ==
  \A s \in Chunks :
    LET c == MakeRoom(buf, Len(s)) IN Writable(c) >= Len(s)

\* The block is never more than twice what the owner needed at once: moving
\* the bytes is preferred to growing, so a buffer that is filled and drained
\* for ever does not grow for ever.
CapacityBounded == Len(buf.mem) <= 2 * peak

\* The buffer is a queue of bytes, whatever block it lives in: neither
\* growing, nor moving, nor the reset of an emptied buffer loses, repeats or
\* reorders an unread byte or exposes one that was never written.
Queue == INSTANCE ByteQueue WITH q <- Data(buf)
QueueSpec == Queue!Spec
=============================================================================
