----------------------------- MODULE SendBuffer -----------------------------
(***************************************************************************)
(* A session's out_buf shared by two threads: one queues messages          *)
(* (NM_MsgToBuffer, one Com_InsertBuffer per field), the I/O thread sends  *)
(* what is queued and erases what was sent.  Same code at both ends but    *)
(* for the locks:                                                          *)
(*                                                                         *)
(*   server  SS_OnSendData  holds __g_ss_lock and out_lock                 *)
(*           SS_SendClipDataMsg (window thread)  __g_ss_lock and out_lock  *)
(*   client  SS_SendData    holds __g_ss_mtx and in_lock                   *)
(*           SS_SendMouseMsg (hook thread)       the hook's and out_lock   *)
(*                                                                         *)
(* The steps are the statements of src/mmcore/Common/buffer.c that touch   *)
(* the shared cursors, in program order.  Addresses are integers: heap[a]  *)
(* is the byte at address a, blocks are laid one behind the other, never   *)
(* reused, and those below `freed` have been given back.  The k-th byte    *)
(* queued is the number k, so that the peer can tell what it got.          *)
(***************************************************************************)
EXTENDS Integers, Sequences

CONSTANTS
  PutLocks,   \* locks held by the thread that queues a message
  SendLocks,  \* locks held by the thread that sends
  Pieces,     \* lengths of the fields NM_MsgToBuffer inserts for a message
  InitLen,    \* INIT_BUF_LEN
  SendMax,    \* the most one send takes (4 * COM_KB)
  MaxBytes    \* bound: no message is begun after this many bytes

ASSUME PiecesOK == Pieces \in Seq(Nat \ {0}) /\ Pieces # <<>>
ASSUME LengthsOK == {InitLen, SendMax} \subseteq Nat \ {0} /\ MaxBytes \in Nat

VARIABLES
  first, last, rd, wr,  \* the four pointers of cmBuffer_t
  heap, freed,          \* memory
  held,                 \* the locks each thread holds
  putPc, piece, put,    \* queueing thread: statement, field, its locals
  sendPc, snd,          \* sending thread: statement, its locals
  queued,               \* history: bytes queued so far
  sent,                 \* what went out on the socket
  fault                 \* "none", "assert", or "wild": a bad access

cursors == <<first, last, rd, wr>>
memory == <<heap, freed>>
putVars == <<putPc, piece, put, queued>>
sendVars == <<sendPc, snd, sent>>
vars == <<cursors, memory, held, putVars, sendVars, fault>>

Huge == 1000  \* what a negative pointer difference is, as a size_t
Size(d) == IF d < 0 THEN Huge ELSE d
Smaller(m, n) == IF m <= n THEN m ELSE n
Larger(m, n) == IF m >= n THEN m ELSE n

Readable(a, n) == n <= Len(heap) /\ freed <= a /\ a + n - 1 <= Len(heap)
Bytes(a, n) == [i \in 1..n |-> heap[a + i - 1]]
\* the heap with the bytes s stored from address a
Stored(a, s) == [x \in 1..Len(heap) |-> IF a <= x /\ x < a + Len(s)
                                        THEN s[x - a + 1] ELSE heap[x]]
Blank(n) == [i \in 1..n |-> 0]

Init ==
  /\ first = 1 /\ last = 1 + InitLen /\ rd = 1 /\ wr = 1
  /\ heap = Blank(InitLen) /\ freed = 1
  /\ held = [t \in {"put", "send"} |-> {}]
  /\ putPc = "idle" /\ piece = 1 /\ put = [len |-> 0, ptr |-> 0]
  /\ sendPc = "idle" /\ snd = [len |-> 0, ptr |-> 0]
  /\ queued = 0 /\ sent = <<>> /\ fault = "none"

-----------------------------------------------------------------------------
(* Queueing a message: NM_MsgToBuffer under PutLocks.                      *)

PutAt(here, there) ==
  fault = "none" /\ putPc = here /\ putPc' = there

PutLock ==
  /\ PutAt("idle", "room")
  /\ PutLocks \cap held["send"] = {}
  /\ queued < MaxBytes
  /\ held' = [held EXCEPT !["put"] = PutLocks]
  /\ piece' = 1
  /\ UNCHANGED <<cursors, memory, put, queued, sendVars, fault>>

\* Com_AllocBuffer: does the field fit behind write_cur?
PutRoom ==
  /\ PutAt("room", IF Size(last - wr) >= Pieces[piece] THEN "take" ELSE "fits")
  /\ UNCHANGED <<cursors, memory, held, piece, put, queued, sendVars, fault>>

\* Mutant: one byte too many is taken for free.
PutFits_OffByOne ==
  /\ PutAt("fits", IF (last - wr) + (rd - first) + 1 >= Pieces[piece]
                   THEN "slide" ELSE "reserve")
  /\ put' = [put EXCEPT !.len = Size(wr - rd)]
  /\ UNCHANGED <<cursors, memory, held, piece, queued, sendVars, fault>>

\* __move_internal: lengths, and whether the two gaps together are enough.
PutFits ==
  /\ PutAt("fits", IF (last - wr) + (rd - first) >= Pieces[piece]
                   THEN "slide" ELSE "reserve")
  /\ put' = [put EXCEPT !.len = Size(wr - rd)]
  /\ UNCHANGED <<cursors, memory, held, piece, queued, sendVars, fault>>

\* __move_internal: the memmove
PutSlide ==
  /\ PutAt("slide", "slideRd")
  /\ IF Readable(rd, put.len) /\ first + put.len <= last
     THEN heap' = Stored(first, Bytes(rd, put.len)) /\ UNCHANGED fault
     ELSE fault' = "wild" /\ UNCHANGED heap
  /\ UNCHANGED <<cursors, freed, held, piece, put, queued, sendVars>>

PutSlideRd ==
  /\ PutAt("slideRd", "slideWr")
  /\ rd' = first
  /\ UNCHANGED <<first, last, wr, memory, held, piece, put, queued, sendVars,
                 fault>>

\* and its closing assertion
PutSlideWr ==
  /\ PutAt("slideWr", "take")
  /\ wr' = first + put.len
  /\ fault' = IF Size(last - wr') >= Pieces[piece] THEN fault ELSE "assert"
  /\ UNCHANGED <<first, last, rd, memory, held, piece, put, queued, sendVars>>

\* Com_ReserveBuffer and the allocation of __increase_capability
PutReserve ==
  LET block == last - first
      unused == Size(block - Size(wr - rd))
      need == Pieces[piece] - unused
  IN  IF need <= 0
      THEN /\ PutAt("reserve", "take")
           /\ UNCHANGED <<cursors, memory, held, piece, put, queued, sendVars,
                          fault>>
      ELSE /\ PutAt("reserve", "copy")
           /\ put' = [len |-> Size(wr - rd), ptr |-> Len(heap) + 1]
           /\ heap' = heap \o Blank(block + Larger(need, block))
           /\ UNCHANGED <<cursors, freed, held, piece, queued, sendVars, fault>>

\* __increase_capability: the memcpy into the new block
PutCopy ==
  /\ PutAt("copy", "publish")
  /\ IF Readable(rd, put.len) /\ put.ptr + put.len <= Len(heap) + 1
     THEN heap' = Stored(put.ptr, Bytes(rd, put.len)) /\ UNCHANGED fault
     ELSE fault' = "wild" /\ UNCHANGED heap
  /\ UNCHANGED <<cursors, freed, held, piece, put, queued, sendVars>>

PutPublish ==
  /\ PutAt("publish", "growRd")
  /\ first' = put.ptr
  /\ last' = Len(heap) + 1
  /\ UNCHANGED <<rd, wr, memory, held, piece, put, queued, sendVars, fault>>

PutGrowRd ==
  /\ PutAt("growRd", "growWr")
  /\ rd' = first
  /\ UNCHANGED <<first, last, wr, memory, held, piece, put, queued, sendVars,
                 fault>>

PutGrowWr ==
  /\ PutAt("growWr", "free")
  /\ wr' = rd + put.len
  /\ UNCHANGED <<first, last, rd, memory, held, piece, put, queued, sendVars,
                 fault>>

PutFree ==
  /\ PutAt("free", "take")
  /\ freed' = first
  /\ UNCHANGED <<cursors, heap, held, piece, put, queued, sendVars, fault>>

\* Com_AllocBuffer: its assertion, and res = write_cur
PutTake ==
  /\ PutAt("take", "bump")
  /\ put' = [put EXCEPT !.ptr = wr]
  /\ fault' = IF Size(last - wr) >= Pieces[piece] THEN fault ELSE "assert"
  /\ UNCHANGED <<cursors, memory, held, piece, queued, sendVars>>

PutBump ==
  /\ PutAt("bump", "write")
  /\ wr' = wr + Pieces[piece]
  /\ UNCHANGED <<first, last, rd, memory, held, piece, put, queued, sendVars,
                 fault>>

\* Com_InsertBuffer's memcpy to where Com_AllocBuffer pointed; after the last
\* field the locks are released.
PutWrite ==
  /\ PutAt("write", IF piece < Len(Pieces) THEN "room" ELSE "idle")
  /\ IF Readable(put.ptr, Pieces[piece])
     THEN /\ heap' = Stored(put.ptr, [i \in 1..Pieces[piece] |-> queued + i])
          /\ UNCHANGED fault
     ELSE fault' = "wild" /\ UNCHANGED heap
  /\ queued' = queued + Pieces[piece]
  /\ IF piece < Len(Pieces)
     THEN piece' = piece + 1 /\ UNCHANGED held
     ELSE piece' = 1 /\ held' = [held EXCEPT !["put"] = {}]
  /\ UNCHANGED <<cursors, freed, put, sendVars>>

-----------------------------------------------------------------------------
(* Sending: SS_SendData, SS_OnSendData under SendLocks.                    *)

SendAt(here, there) ==
  fault = "none" /\ sendPc = here /\ sendPc' = there

\* SS_HasDataToSend, under out_lock: the socket goes into the write set.
SendReady ==
  /\ SendAt("idle", "lock")
  /\ "out_lock" \notin held["put"]
  /\ Size(wr - rd) > 0
  /\ UNCHANGED <<cursors, memory, held, putVars, snd, sent, fault>>

\* Mutant: sending takes no lock.
SendLock_NoLock ==
  /\ SendAt("lock", "avail")
  /\ UNCHANGED <<cursors, memory, held, putVars, snd, sent, fault>>

SendLock ==
  /\ SendAt("lock", "avail")
  /\ SendLocks \cap held["put"] = {}
  /\ held' = [held EXCEPT !["send"] = SendLocks]
  /\ UNCHANGED <<cursors, memory, putVars, snd, sent, fault>>

\* How much to send; nothing there ends the session.
SendAvail ==
  LET n == Smaller(Size(wr - rd), SendMax)
  IN  /\ SendAt("avail", IF n > 0 THEN "data" ELSE "failed")
      /\ snd' = [snd EXCEPT !.len = n]
      /\ held' = IF n > 0 THEN held ELSE [held EXCEPT !["send"] = {}]
      /\ UNCHANGED <<cursors, memory, putVars, sent, fault>>

\* p = Com_GetBufferData(out_buf)
SendData ==
  /\ SendAt("data", "send")
  /\ snd' = [snd EXCEPT !.ptr = rd]
  /\ UNCHANGED <<cursors, memory, held, putVars, sent, fault>>

\* send(): the system takes some of the bytes.
SendSend ==
  /\ SendAt("send", "count")
  /\ \E wn \in 1..snd.len :
       /\ snd' = [snd EXCEPT !.len = wn]
       /\ IF Readable(snd.ptr, wn)
          THEN sent' = sent \o Bytes(snd.ptr, wn) /\ UNCHANGED fault
          ELSE fault' = "wild" /\ UNCHANGED sent
  /\ UNCHANGED <<cursors, memory, held, putVars>>

\* Com_EraseBuffer: how many, never more than there are
SendCount ==
  /\ SendAt("count", "erase")
  /\ snd' = [snd EXCEPT !.len = Smaller(Size(wr - rd), snd.len)]
  /\ UNCHANGED <<cursors, memory, held, putVars, sent, fault>>

SendErase ==
  /\ SendAt("erase", "check")
  /\ rd' = rd + snd.len
  /\ UNCHANGED <<first, last, wr, memory, held, putVars, snd, sent, fault>>

\* Com_EraseBuffer: its assertion, and whether the buffer is empty now
SendCheck ==
  /\ SendAt("check", IF rd = wr THEN "resetRd" ELSE "unlock")
  /\ fault' = IF rd <= wr THEN fault ELSE "assert"
  /\ UNCHANGED <<cursors, memory, held, putVars, snd, sent>>

SendResetRd ==
  /\ SendAt("resetRd", "resetWr")
  /\ rd' = first
  /\ UNCHANGED <<first, last, wr, memory, held, putVars, snd, sent, fault>>

\* Mutant: write_cur is left where it was.
SendResetWr_Forgotten ==
  /\ SendAt("resetWr", "unlock")
  /\ UNCHANGED <<cursors, memory, held, putVars, snd, sent, fault>>

SendResetWr ==
  /\ SendAt("resetWr", "unlock")
  /\ wr' = rd
  /\ UNCHANGED <<first, last, rd, memory, held, putVars, snd, sent, fault>>

SendUnlock ==
  /\ SendAt("unlock", "idle")
  /\ held' = [held EXCEPT !["send"] = {}]
  /\ UNCHANGED <<cursors, memory, putVars, snd, sent, fault>>

-----------------------------------------------------------------------------
Put ==
  \/ PutLock \/ PutRoom \/ PutFits
  \/ PutSlide \/ PutSlideRd \/ PutSlideWr
  \/ PutReserve \/ PutCopy \/ PutPublish \/ PutGrowRd \/ PutGrowWr \/ PutFree
  \/ PutTake \/ PutBump \/ PutWrite

Send ==
  \/ SendReady \/ SendLock \/ SendAvail \/ SendData \/ SendSend
  \/ SendCount \/ SendErase \/ SendCheck \/ SendResetRd \/ SendResetWr
  \/ SendUnlock

Next == Put \/ Send

Spec == Init /\ [][Next]_vars

-----------------------------------------------------------------------------
(* Properties.                                                             *)

TypeOK ==
  /\ {first, last, rd, wr, freed, queued} \subseteq Nat
  /\ heap \in Seq(Nat)
  /\ held \in [{"put", "send"} -> {{}, PutLocks, SendLocks}]
  /\ piece \in 1..Len(Pieces)
  /\ put \in [len : Nat, ptr : Nat] /\ snd \in [len : Nat, ptr : Nat]
  /\ sent \in Seq(Nat)
  /\ putPc \in {"idle", "room", "fits", "slide", "slideRd", "slideWr",
                "reserve", "copy", "publish", "growRd", "growWr", "free",
                "take", "bump", "write"}
  /\ sendPc \in {"idle", "lock", "avail", "data", "send", "count", "erase",
                 "check", "resetRd", "resetWr", "unlock", "failed"}
  /\ fault \in {"none", "assert", "wild"}

\* The peer gets the bytes that were queued, in order, each once; and when
\* neither thread is at work on the buffer, what it has not got is there.
StreamIntact ==
  /\ \A i \in 1..Len(sent) : sent[i] = i
  /\ putPc = "idle" /\ sendPc \in {"idle", "lock"} /\ fault = "none"
       => sent \o Bytes(rd, wr - rd) = [i \in 1..queued |-> i]

\* No thread touches memory that was given back or lies outside the block.
NoWildAccess == fault # "wild"

\* The assertions of __move_internal and Com_AllocBuffer (room behind
\* write_cur) and of Com_EraseBuffer (read_cur <= write_cur) hold.
AssertionsHold == fault # "assert"
=============================================================================
