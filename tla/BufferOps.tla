------------------------------ MODULE BufferOps ------------------------------
(***************************************************************************)
(* commonl's growable byte buffer (src/mmcore/Common/buffer.c) as          *)
(* functions on its value.  The four pointers of cmBuffer_t are kept as    *)
(* offsets from the block's first byte:                                    *)
(*                                                                         *)
(*   mem   the block, first..last          rd   read_cur - first           *)
(*   wr    write_cur - first               Len(mem) = last - first         *)
(*                                                                         *)
(* so the unread bytes are mem[rd+1..wr].  A buffer whose pointers are all *)
(* NULL is EmptyBuffer.  Bytes of a block that nothing was written to are  *)
(* Junk.                                                                   *)
(***************************************************************************)
EXTENDS Integers, Sequences

CONSTANTS
  Byte,     \* the values a byte can have
  Junk,     \* what an uninitialised byte of a new block holds
  InitLen   \* INIT_BUF_LEN

ASSUME JunkIsNoByte == Junk \notin Byte
ASSUME InitLenIsPositive == InitLen \in Nat \ {0}

Cell == Byte \cup {Junk}

\* __buffer_is_valid
Buffers ==
  {b \in [mem : Seq(Cell), rd : Nat, wr : Nat] :
     b.rd <= b.wr /\ b.wr <= Len(b.mem)}

EmptyBuffer == [mem |-> <<>>, rd |-> 0, wr |-> 0]

Larger(m, n) == IF m >= n THEN m ELSE n
Smaller(m, n) == IF m <= n THEN m ELSE n

Available(b) == b.wr - b.rd              \* Com_GetBufferAvailable
Capacity(b) == Len(b.mem) - Available(b) \* Com_GetBufferCapacity
Data(b) == SubSeq(b.mem, b.rd + 1, b.wr) \* Com_GetBufferData, Available(b) bytes
Writable(b) == Len(b.mem) - b.wr         \* last - write_cur

\* (mutant) growing copies the block from its first byte, not from read_cur
Increase_FromFirst(b, inc) ==
  IF inc = 0 THEN b
  ELSE [mem |-> [i \in 1..(Len(b.mem) + inc) |->
                   IF i <= Available(b) THEN b.mem[i] ELSE Junk],
        rd  |-> 0,
        wr  |-> Available(b)]

\* __increase_capability: a larger block, the unread bytes at its start.
Increase(b, inc) ==
  IF inc = 0 THEN b
  ELSE [mem |-> [i \in 1..(Len(b.mem) + inc) |->
                   IF i <= Available(b) THEN b.mem[b.rd + i] ELSE Junk],
        rd  |-> 0,
        wr  |-> Available(b)]

\* __move_internal: the unread bytes slide to the start of the same block,
\* when the gaps at both ends together hold len bytes.
CanMove(b, len) == Writable(b) + b.rd >= len
Move(b) ==
  [mem |-> [i \in 1..Len(b.mem) |->
              IF i <= Available(b) THEN b.mem[b.rd + i] ELSE b.mem[i]],
   rd  |-> 0,
   wr  |-> Available(b)]

\* Com_CreateBuffer
Create(n) == IF n = 0 THEN EmptyBuffer
             ELSE Increase(EmptyBuffer, Larger(n, InitLen))

\* (mutant) the request is compared with the block, not its unused part
Reserve_ByBlock(b, n) ==
  IF Len(b.mem) < n
  THEN Increase(b, Larger(n - Len(b.mem), Len(b.mem)))
  ELSE b

\* (mutant) the block grows by twice its length, not to twice its length
Reserve_Triples(b, n) ==
  IF Capacity(b) < n
  THEN Increase(b, Larger(n - Capacity(b), Len(b.mem) * 2))
  ELSE b

\* Com_ReserveBuffer: at least doubles the block when it must grow.
Reserve(b, n) ==
  IF Capacity(b) < n
  THEN Increase(b, Larger(n - Capacity(b), Len(b.mem)))
  ELSE b

\* The first half of Com_AllocBuffer: see that n bytes fit behind write_cur.
MakeRoom(b, n) ==
  IF Writable(b) >= n THEN b
  ELSE IF CanMove(b, n) THEN Move(b) ELSE Reserve(b, n)

\* Com_AllocBuffer: the n bytes handed out are not written yet.
Alloc(b, n) ==
  IF n = 0 THEN b
  ELSE LET c == MakeRoom(b, n) IN [c EXCEPT !.wr = c.wr + n]

\* The caller's memcpy or recv into the last Len(s) bytes handed out.
Fill(b, s) ==
  [b EXCEPT !.mem = [i \in 1..Len(b.mem) |->
                       IF i > b.wr - Len(s) /\ i <= b.wr
                       THEN s[i - (b.wr - Len(s))] ELSE b.mem[i]]]

\* Com_InsertBuffer
Insert(b, s) == IF s = <<>> THEN b ELSE Fill(Alloc(b, Len(s)), s)

\* (mutant) the count is not limited to the bytes there are
Erase_NotLimited(b, n) == [b EXCEPT !.rd = b.rd + n]

\* Com_EraseBuffer: an emptied buffer starts over at the block's first byte.
Erase(b, n) ==
  LET rd == b.rd + Smaller(Available(b), n)
  IN  IF n = 0 THEN b
      ELSE IF rd = b.wr THEN [b EXCEPT !.rd = 0, !.wr = 0]
      ELSE [b EXCEPT !.rd = rd]
=============================================================================
