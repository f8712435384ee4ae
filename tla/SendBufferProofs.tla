-------------------------- MODULE SendBufferProofs --------------------------
(***************************************************************************)
(* Theorems about SendBuffer, for every two sets of locks that meet, any   *)
(* fields of a message, and any sizes of the buffer and of a send.         *)
(***************************************************************************)
EXTENDS SendBuffer, TLAPS

(* The sending thread is at work on the buffer, under its locks.            *)
Sending == {"avail", "data", "send", "count", "erase", "check", "resetRd",
            "resetWr", "unlock"}

(* The two sets of locks have a lock in common: the server's do.            *)
LocksMeet == PutLocks \cap SendLocks # {}

(* So only one of the two is at work at a time.                             *)
LocksHeld ==
  /\ held["put"] = IF putPc = "idle" THEN {} ELSE PutLocks
  /\ held["send"] = IF sendPc \in Sending THEN SendLocks ELSE {}
  /\ putPc = "idle" \/ sendPc \notin Sending

Need == Pieces[piece]
Room == last - wr >= Need

(* The block is memory that has not been given back.                        *)
Block ==
  /\ 1 <= freed /\ freed <= first /\ first <= last /\ last <= Len(heap) + 1

(* From address a of heap h on there are the n bytes that follow done.      *)
Holds(h, a, n, done) == \A i \in 1..n : h[a + i - 1] = done + i

(* What is queued and not sent lies at a, in the block.                     *)
Unread(a, n, done) ==
  /\ n >= 0 /\ first <= a /\ a + n <= last
  /\ queued = done + n /\ Holds(heap, a, n, done)

(* Where the sending thread is in between, sent is ahead of read_cur, and   *)
(* write_cur is behind it.                                                  *)
Done == IF sendPc \in {"count", "erase"} THEN Len(sent) - snd.len ELSE Len(sent)
End  == IF sendPc = "resetWr" THEN rd ELSE wr

(* Statement by statement, what the queueing thread finds, and leaves.      *)
Queueing ==
  /\ putPc = "idle" => Unread(rd, End - rd, Done)
  /\ putPc \in {"room", "fits", "slide", "reserve", "copy", "free", "take", "bump"}
       => Unread(rd, wr - rd, Len(sent))
  /\ putPc \in {"slideRd", "slideWr", "growRd", "growWr"}
       => Unread(first, put.len, Len(sent)) /\ last - first - put.len >= Need
  /\ putPc \in {"slideWr", "growWr"} => rd = first
  /\ putPc \in {"fits", "reserve"} => ~Room
  /\ putPc \in {"slide", "reserve", "copy"} => put.len = wr - rd
  /\ putPc = "slide" => (last - wr) + (rd - first) >= Need
  /\ putPc = "reserve" => (last - wr) + (rd - first) < Need
  /\ putPc \in {"copy", "publish"} =>
       put.ptr >= last /\ Len(heap) + 1 - put.ptr - put.len >= Need
  /\ putPc = "publish" =>
       queued = Len(sent) + put.len /\ Holds(heap, put.ptr, put.len, Len(sent))
  /\ putPc \in {"free", "take", "bump"} => Room
  /\ putPc = "bump" => put.ptr = wr
  /\ putPc = "write" =>
       wr = put.ptr + Need /\ wr <= last /\ Unread(rd, put.ptr - rd, Len(sent))

(* The same for the sending thread.                                         *)
Sends ==
  /\ sendPc \in {"data", "send", "count", "erase"} => snd.len \in 1..(wr - rd)
  /\ sendPc = "send" => snd.ptr = rd
  /\ sendPc = "resetRd" => rd = wr
  /\ sendPc = "resetWr" => rd = first

InOrder == \A i \in 1..Len(sent) : sent[i] = i

SendInv ==
  /\ TypeOK /\ LocksHeld /\ Block /\ Queueing /\ Sends /\ InOrder
  /\ fault = "none"
-----------------------------------------------------------------------------
(* What the helpers return.                                                 *)
LEMMA Sizes ==
  /\ \A d \in Int : Size(d) \in Nat /\ (d >= 0 => Size(d) = d)
  /\ \A m, n \in Int :
       /\ Smaller(m, n) \in {m, n} /\ Smaller(m, n) <= m /\ Smaller(m, n) <= n
       /\ Larger(m, n) \in {m, n} /\ Larger(m, n) >= m /\ Larger(m, n) >= n
BY DEF Size, Huge, Smaller, Larger

(* A field has a length.                                                    *)
LEMMA NeedIsPositive ==
  ASSUME TypeOK
  PROVE  Need \in Nat /\ Need >= 1
BY PiecesOK, SMTT(40) DEF TypeOK, Need

(* Bytes reads what the heap holds; Stored changes only where it stores.    *)
LEMMA BytesAreASeq ==
  ASSUME heap \in Seq(Nat), NEW a \in Nat, NEW n \in Nat,
         1 <= a, a + n <= Len(heap) + 1
  PROVE  /\ Bytes(a, n) \in Seq(Nat) /\ Len(Bytes(a, n)) = n
         /\ \A i \in 1..n : Bytes(a, n)[i] = heap[a + i - 1]
BY DEF Bytes

LEMMA StoredIsASeq ==
  ASSUME heap \in Seq(Nat), NEW a \in Nat, NEW s \in Seq(Nat)
  PROVE  /\ Stored(a, s) \in Seq(Nat) /\ Len(Stored(a, s)) = Len(heap)
         /\ \A x \in 1..Len(heap) :
              Stored(a, s)[x] = IF a <= x /\ x < a + Len(s)
                                THEN s[x - a + 1] ELSE heap[x]
BY DEF Stored

(* Copying n bytes from b to a puts there what was at b.                    *)
LEMMA Copying ==
  ASSUME heap \in Seq(Nat), NEW a \in Nat, NEW b \in Nat, NEW n \in Nat,
         1 <= a, 1 <= b, a + n <= Len(heap) + 1, b + n <= Len(heap) + 1,
         NEW done, Holds(heap, b, n, done)
  PROVE  /\ Stored(a, Bytes(b, n)) \in Seq(Nat)
         /\ Len(Stored(a, Bytes(b, n))) = Len(heap)
         /\ Holds(Stored(a, Bytes(b, n)), a, n, done)
<1> DEFINE s == Bytes(b, n)
           h == Stored(a, s)
<1>1. s \in Seq(Nat) /\ Len(s) = n /\ \A i \in 1..n : s[i] = heap[b + i - 1]
  BY BytesAreASeq
<1> HIDE DEF s
<1>2. /\ h \in Seq(Nat) /\ Len(h) = Len(heap)
      /\ \A x \in 1..Len(heap) : h[x] = IF a <= x /\ x < a + Len(s)
                                        THEN s[x - a + 1] ELSE heap[x]
  BY <1>1, StoredIsASeq
<1> HIDE DEF h
<1>3. ASSUME NEW i \in 1..n PROVE h[a + i - 1] = done + i
  <2>1. /\ a + i - 1 \in 1..Len(heap) /\ a <= a + i - 1 /\ a + i - 1 < a + n
        /\ (a + i - 1) - a + 1 = i
    BY <1>2
  <2>2. h[a + i - 1] = s[i]
    BY <1>1, <1>2, <2>1
  <2>3. QED
    BY <1>1, <2>2 DEF Holds
<1>4. QED
  BY <1>2, <1>3 DEF Holds, h, s

(* A larger heap holds what the smaller one held.                           *)
LEMMA Growing ==
  ASSUME heap \in Seq(Nat), NEW k \in Nat
  PROVE  /\ heap \o Blank(k) \in Seq(Nat)
         /\ Len(heap \o Blank(k)) = Len(heap) + k
         /\ \A a, n \in Nat, done \in Nat :
              1 <= a /\ a + n <= Len(heap) + 1 /\ Holds(heap, a, n, done)
                => Holds(heap \o Blank(k), a, n, done)
<1>1. Blank(k) \in Seq(Nat) /\ Len(Blank(k)) = k
  BY DEF Blank
<1> DEFINE h == heap \o Blank(k)
<1>2. /\ h \in Seq(Nat) /\ Len(h) = Len(heap) + k
      /\ \A x \in 1..Len(heap) : h[x] = heap[x]
  BY <1>1, SMTT(40)
<1> HIDE DEF h
<1>3. ASSUME NEW a \in Nat, NEW n \in Nat, NEW done \in Nat,
             1 <= a, a + n <= Len(heap) + 1, Holds(heap, a, n, done)
      PROVE  Holds(h, a, n, done)
  <2>1. ASSUME NEW i \in 1..n PROVE h[a + i - 1] = done + i
    <3>1. heap[a + i - 1] = done + i
      BY <1>3 DEF Holds
    <3>2. a + i - 1 \in 1..Len(heap)
      <4>1. Len(heap) \in Nat
        OBVIOUS
      <4>2. QED
        BY <1>3, <4>1
    <3>3. QED
      BY <1>2, <3>1, <3>2
  <2>2. QED
    BY <2>1 DEF Holds
<1>4. QED
  BY <1>2, <1>3 DEF h

(* Without the first k bytes of a run, the rest is a run.                   *)
LEMMA Erasing ==
  ASSUME NEW h, NEW a \in Nat, NEW n \in Nat, NEW done \in Int, NEW k \in 0..n,
         Holds(h, a, n, done)
  PROVE  Holds(h, a + k, n - k, done + k)
<1>1. ASSUME NEW i \in 1..(n - k) PROVE h[a + k + i - 1] = done + k + i
  <2>1. k + i \in 1..n /\ a + (k + i) - 1 = a + k + i - 1
    OBVIOUS
  <2>2. h[a + (k + i) - 1] = done + (k + i)
    BY <2>1 DEF Holds
  <2>3. QED
    BY <2>1, <2>2
<1>2. QED
  BY <1>1 DEF Holds

(* No bytes are a run, whatever they are to follow.                         *)
LEMMA HoldsNothing ==
  ASSUME NEW h, NEW a, NEW done
  PROVE  Holds(h, a, 0, done)
BY DEF Holds

(* A run of numbers, continued by a run, is a run.                          *)
LEMMA GoesOn ==
  ASSUME NEW s \in Seq(Nat), NEW t \in Seq(Nat),
         \A i \in 1..Len(s) : s[i] = i,
         \A i \in 1..Len(t) : t[i] = Len(s) + i
  PROVE  /\ s \o t \in Seq(Nat) /\ Len(s \o t) = Len(s) + Len(t)
         /\ \A i \in 1..Len(s \o t) : (s \o t)[i] = i
<1> DEFINE u == s \o t
<1>1. /\ Len(s) \in Nat /\ Len(t) \in Nat
      /\ u \in Seq(Nat) /\ Len(u) = Len(s) + Len(t)
      /\ \A i \in 1..Len(u) : u[i] = IF i <= Len(s) THEN s[i] ELSE t[i - Len(s)]
  OBVIOUS
<1> HIDE DEF u
<1>2. ASSUME NEW i \in 1..Len(u) PROVE u[i] = i
  <2>1. CASE i <= Len(s)
    <3>1. i \in 1..Len(s)
      BY <1>1, <2>1
    <3>2. s[i] = i
      BY <3>1
    <3>3. QED
      BY <1>1, <2>1, <3>2
  <2>2. CASE ~(i <= Len(s))
    <3>1. i - Len(s) \in 1..Len(t)
      BY <1>1, <2>2
    <3>2. t[i - Len(s)] = Len(s) + (i - Len(s))
      BY <3>1
    <3>3. QED
      BY <1>1, <2>2, <3>2
  <2>3. QED
    BY <2>1, <2>2
<1>3. QED
  BY <1>1, <1>2 DEF u

(* A sequence is given by its length and its elements.                      *)
LEMMA OneToOne ==
  ASSUME NEW s \in Seq(Nat), NEW n \in Nat, Len(s) = n, \A i \in 1..n : s[i] = i
  PROVE  s = [i \in 1..n |-> i]
<1>1. s = [i \in 1..Len(s) |-> s[i]]
  OBVIOUS
<1>2. QED
  BY <1>1

-----------------------------------------------------------------------------
(* What of the types and the block the steps need, in one place.            *)
LEMMA Known ==
  ASSUME SendInv
  PROVE  /\ first \in Nat /\ last \in Nat /\ rd \in Nat /\ wr \in Nat
         /\ freed \in Nat /\ queued \in Nat /\ Need \in Nat /\ Need >= 1
         /\ Len(heap) \in Nat /\ Len(sent) \in Nat
         /\ put.len \in Nat /\ put.ptr \in Nat
         /\ snd.len \in Nat /\ snd.ptr \in Nat
         /\ 1 <= freed /\ freed <= first /\ first <= last /\ last <= Len(heap) + 1
BY NeedIsPositive, SMTT(40) DEF SendInv, TypeOK, Block

(* What of the types is not a number.                                       *)
LEMMA Shapes ==
  ASSUME SendInv
  PROVE  /\ heap \in Seq(Nat) /\ sent \in Seq(Nat)
         /\ put \in [len : Nat, ptr : Nat] /\ snd \in [len : Nat, ptr : Nat]
         /\ fault = "none"
BY DEF SendInv, TypeOK

(* Storing a field behind the bytes that are queued makes them one run.      *)
LEMMA Appending ==
  ASSUME heap \in Seq(Nat), rd \in Nat, put.ptr \in Nat, Need \in Nat,
         queued \in Nat, Len(sent) \in Nat, rd <= put.ptr, 1 <= rd,
         put.ptr + Need <= Len(heap) + 1, queued = Len(sent) + (put.ptr - rd),
         Holds(heap, rd, put.ptr - rd, Len(sent)),
         NEW s \in Seq(Nat), Len(s) = Need, \A i \in 1..Need : s[i] = queued + i
  PROVE  /\ Stored(put.ptr, s) \in Seq(Nat)
         /\ Len(Stored(put.ptr, s)) = Len(heap)
         /\ Holds(Stored(put.ptr, s), rd, (put.ptr - rd) + Need, Len(sent))
<1>0. PICK a, p, n, k, q, done :
      /\ a = rd /\ p = put.ptr /\ n = put.ptr - rd /\ k = Need
      /\ q = queued /\ done = Len(sent)
  OBVIOUS
<1>1. /\ a \in Nat /\ p \in Nat /\ n \in Nat /\ k \in Nat /\ q \in Nat /\ done \in Nat
      /\ p = a + n /\ 1 <= a /\ p + k <= Len(heap) + 1 /\ q = done + n
  BY <1>0, SMTT(40)
<1>h. /\ \A i \in 1..n : heap[a + i - 1] = done + i
      /\ \A i \in 1..k : s[i] = q + i
  BY <1>0 DEF Holds
<1> DEFINE h == Stored(p, s)
<1>2. /\ h \in Seq(Nat) /\ Len(h) = Len(heap)
      /\ \A x \in 1..Len(heap) : h[x] = IF p <= x /\ x < p + k
                                        THEN s[x - p + 1] ELSE heap[x]
  BY <1>0, <1>1, StoredIsASeq, ZenonT(40)
<1>l. Len(heap) \in Nat
  OBVIOUS
<1> HIDE DEF h
<1>3. ASSUME NEW i \in 1..(n + k) PROVE h[a + i - 1] = done + i
  <2>1. a + i - 1 \in 1..Len(heap)
    BY <1>1, <1>l
  <2>2. CASE i <= n
    <3>1. i \in 1..n /\ ~(p <= a + i - 1)
      BY <1>1, <2>2
    <3>2. h[a + i - 1] = heap[a + i - 1]
      BY <1>2, <2>1, <3>1
    <3>3. QED
      BY <1>h, <3>1, <3>2
  <2>3. CASE i > n
    <3>1. /\ i - n \in 1..k /\ (a + i - 1) - p + 1 = i - n
          /\ p <= a + i - 1 /\ a + i - 1 < p + k
      BY <1>1, <2>3
    <3>2. h[a + i - 1] = s[(a + i - 1) - p + 1]
      BY <1>2, <2>1, <3>1
    <3>3. s[i - n] = q + (i - n)
      BY <1>h, <3>1
    <3>4. QED
      BY <1>1, <3>1, <3>2, <3>3
  <2>4. QED
    BY <1>1, <2>2, <2>3
<1>4. Holds(h, a, n + k, done)
  BY <1>3 DEF Holds
<1>5. QED
  BY <1>0, <1>2, <1>4 DEF h

(* While the queueing thread is at work the sending thread is not, and      *)
(* nothing that is said of it changes.                                      *)
LEMMA PutAlone ==
  ASSUME SendInv, putPc # "idle", putPc' # "idle", UNCHANGED <<held, sendVars>>
  PROVE  LocksHeld' /\ Sends' /\ InOrder' /\ sent' = sent
BY DEF SendInv, LocksHeld, Sending, Sends, InOrder, sendVars

PutPcs == {"idle", "room", "fits", "slide", "slideRd", "slideWr", "reserve",
           "copy", "publish", "growRd", "growWr", "free", "take", "bump", "write"}

(* The types after a step of the queueing thread.                           *)
LEMMA PutTyped ==
  ASSUME SendInv, putPc' \in PutPcs, UNCHANGED <<held, piece, sendVars>>,
         {first', last', rd', wr', freed', queued'} \subseteq Nat,
         heap' \in Seq(Nat), put' \in [len : Nat, ptr : Nat], fault' = "none"
  PROVE  TypeOK'
BY DEF SendInv, TypeOK, PutPcs, sendVars

(* The message's bytes are at read_cur while nothing is being moved.        *)
LEMMA PutReady ==
  ASSUME SendInv,
         putPc \in {"room", "fits", "slide", "reserve", "copy", "free", "take", "bump"}
  PROVE  /\ rd <= wr /\ wr <= last /\ first <= rd /\ wr - rd \in Nat
         /\ queued = Len(sent) + (wr - rd) /\ Holds(heap, rd, wr - rd, Len(sent))
         /\ Size(wr - rd) = wr - rd /\ Size(last - wr) = last - wr
<1>1. Unread(rd, wr - rd, Len(sent))
  BY DEF SendInv, Queueing
<1>2. /\ first \in Nat /\ last \in Nat /\ rd \in Nat /\ wr \in Nat
      /\ wr - rd >= 0 /\ first <= rd /\ rd + (wr - rd) <= last
  BY <1>1, Known DEF Unread
<1>3. rd <= wr /\ wr <= last /\ wr - rd \in Nat
  BY <1>2
<1>4. Size(wr - rd) = wr - rd /\ Size(last - wr) = last - wr
  BY <1>2, <1>3 DEF Size
<1>5. queued = Len(sent) + (wr - rd) /\ Holds(heap, rd, wr - rd, Len(sent))
  BY <1>1 DEF Unread
<1>6. QED
  BY <1>2, <1>3, <1>4, <1>5

(* They are at the start of the block while the cursors are set.            *)
LEMMA PutMoved ==
  ASSUME SendInv, putPc \in {"slideRd", "slideWr", "growRd", "growWr"}
  PROVE  /\ first + put.len <= last /\ last - first - put.len >= Need
         /\ queued = Len(sent) + put.len
         /\ Holds(heap, first, put.len, Len(sent))
BY DEF SendInv, Queueing, Unread

(* Every statement of the queueing thread keeps the invariant.              *)
LEMMA PutStep ==
  ASSUME LocksMeet, SendInv, Put
  PROVE  SendInv'
<1> USE DEF PutAt, cursors, memory, sendVars
<1>n. /\ first \in Nat /\ last \in Nat /\ rd \in Nat /\ wr \in Nat
      /\ freed \in Nat /\ queued \in Nat /\ Need \in Nat /\ Need >= 1
      /\ Len(heap) \in Nat /\ Len(sent) \in Nat /\ put.len \in Nat /\ put.ptr \in Nat
      /\ 1 <= freed /\ freed <= first /\ first <= last /\ last <= Len(heap) + 1
  BY Known
<1>s. /\ heap \in Seq(Nat) /\ put \in [len : Nat, ptr : Nat] /\ fault = "none"
  BY Shapes
<1> DEFINE ready ==
      /\ rd <= wr /\ wr <= last /\ first <= rd /\ wr - rd \in Nat
      /\ queued = Len(sent) + (wr - rd)
      /\ Size(wr - rd) = wr - rd /\ Size(last - wr) = last - wr
<1>1. CASE PutLock
  <2>1. /\ putPc = "idle" /\ putPc' = "room" /\ piece' = 1
        /\ sendPc \notin Sending /\ held' = [held EXCEPT !["put"] = PutLocks]
        /\ UNCHANGED <<first, last, rd, wr, heap, freed, put, queued, sendPc, snd,
                       sent, fault>>
    BY <1>1 DEF PutLock, SendInv, LocksHeld, LocksMeet
  <2>2. Unread(rd, wr - rd, Len(sent))
    BY <2>1 DEF SendInv, Queueing, Done, End, Sending
  <2>3. TypeOK'
    BY <2>1, PiecesOK, SMTT(40) DEF SendInv, TypeOK
  <2>4. LocksHeld' /\ Sends' /\ InOrder'
    BY <2>1 DEF SendInv, TypeOK, LocksHeld, Sends, InOrder, Sending
  <2>5. Block' /\ Queueing'
    BY <2>1, <2>2 DEF SendInv, Block, Queueing, Unread
  <2>6. QED
    BY <2>1, <2>3, <2>4, <2>5 DEF SendInv
<1>2. CASE PutRoom
  <2>p. ready /\ Holds(heap, rd, wr - rd, Len(sent))
    BY <1>2, PutReady DEF PutRoom
  <2>1. /\ putPc = "room" /\ putPc' = (IF last - wr >= Need THEN "take" ELSE "fits")
        /\ UNCHANGED <<first, last, rd, wr, heap, freed, held, piece, put, queued,
                       sendPc, snd, sent, fault>>
    BY <1>2, <2>p DEF PutRoom, Need
  <2>2. TypeOK'
    BY <2>1, <1>n, <1>s, <2>p, PutTyped DEF PutPcs
  <2>3. Block' /\ Queueing'
    BY <2>1, <1>n, <2>p DEF Block, Queueing, Unread, Room, Need
  <2>4. QED
    BY <2>1, <2>2, <2>3, PutAlone DEF SendInv
<1>3. CASE PutFits
  <2>p. ready /\ Holds(heap, rd, wr - rd, Len(sent))
    BY <1>3, PutReady DEF PutFits
  <2>1. /\ putPc = "fits" /\ put' = [put EXCEPT !.len = wr - rd]
        /\ putPc' = IF (last - wr) + (rd - first) >= Need THEN "slide" ELSE "reserve"
        /\ ~Room
        /\ UNCHANGED <<first, last, rd, wr, heap, freed, held, piece, queued,
                       sendPc, snd, sent, fault>>
    BY <1>3, <2>p DEF PutFits, Need, SendInv, Queueing
  <2>q. put'.len = wr - rd /\ put' \in [len : Nat, ptr : Nat]
    BY <2>1, <1>n, <1>s, <2>p
  <2>2. TypeOK'
    BY <2>1, <2>q, <1>n, <1>s, <2>p, PutTyped DEF PutPcs
  <2>3. Block' /\ Queueing'
    <3>1. Unread(rd, wr - rd, Len(sent))' /\ Block' /\ ~Room'
      BY <2>1, <1>n, <2>p DEF Block, Unread, Room, Need
    <3>2. CASE (last - wr) + (rd - first) >= Need
      BY <2>1, <2>q, <3>1, <3>2 DEF Queueing, Need
    <3>3. CASE ~((last - wr) + (rd - first) >= Need)
      <4>1. (last - wr) + (rd - first) < Need
        BY <3>3, <1>n
      <4>2. QED
        BY <2>1, <2>q, <3>1, <3>3, <4>1 DEF Queueing, Need
    <3>4. QED
      BY <3>2, <3>3
  <2>4. QED
    BY <2>1, <2>2, <2>3, PutAlone DEF SendInv
<1>4. CASE PutSlide
  <2>p. ready /\ Holds(heap, rd, wr - rd, Len(sent))
    BY <1>4, PutReady DEF PutSlide
  <2>0. putPc = "slide" /\ put.len = wr - rd /\ (last - wr) + (rd - first) >= Need
    BY <1>4 DEF PutSlide, SendInv, Queueing
  <2>r. Readable(rd, put.len) /\ first + put.len <= last /\ rd + put.len <= Len(heap) + 1
    BY <2>0, <1>n, <2>p DEF Readable
  <2>1. /\ putPc = "slide" /\ putPc' = "slideRd"
        /\ heap' = Stored(first, Bytes(rd, put.len))
        /\ UNCHANGED <<first, last, rd, wr, freed, held, piece, put, queued,
                       sendPc, snd, sent, fault>>
    BY <1>4, <2>r DEF PutSlide
  <2>m. /\ heap' \in Seq(Nat) /\ Len(heap') = Len(heap)
        /\ Holds(heap', first, put.len, Len(sent))
    <3>1. Holds(heap, rd, put.len, Len(sent))
      BY <2>0, <2>p
    <3>2. 1 <= rd /\ 1 <= first /\ first + put.len <= Len(heap) + 1
      BY <2>0, <2>r, <1>n, <2>p
    <3>3. QED
      BY <2>1, <2>r, <3>1, <3>2, <1>n, <1>s, Copying
  <2>2. TypeOK'
    BY <2>1, <2>0, <2>m, <1>n, <1>s, <2>p, PutTyped DEF PutPcs
  <2>3. Block' /\ Queueing'
    BY <2>1, <2>0, <2>m, <1>n, <2>p, SMTT(40) DEF Block, Queueing, Unread, Room, Need
  <2>4. QED
    BY <2>1, <2>2, <2>3, PutAlone DEF SendInv
<1>5. CASE PutSlideRd
  <2>p. /\ first + put.len <= last /\ last - first - put.len >= Need
        /\ queued = Len(sent) + put.len
        /\ Holds(heap, first, put.len, Len(sent))
    BY <1>5, PutMoved DEF PutSlideRd
  <2>1. /\ putPc = "slideRd" /\ putPc' = "slideWr" /\ rd' = first
        /\ UNCHANGED <<first, last, wr, heap, freed, held, piece, put, queued,
                       sendPc, snd, sent, fault>>
    BY <1>5 DEF PutSlideRd
  <2>2. TypeOK'
    BY <2>1, <1>n, <1>s, <2>p, PutTyped DEF PutPcs
  <2>3. Block' /\ Queueing'
    BY <2>1, <1>n, <2>p DEF Block, Queueing, Unread, Room, Need
  <2>4. QED
    BY <2>1, <2>2, <2>3, PutAlone DEF SendInv
<1>6. CASE PutSlideWr
  <2>p. /\ first + put.len <= last /\ last - first - put.len >= Need
        /\ queued = Len(sent) + put.len
        /\ Holds(heap, first, put.len, Len(sent))
    BY <1>6, PutMoved DEF PutSlideWr
  <2>0. last - (first + put.len) >= Need /\ rd = first /\ putPc = "slideWr"
    BY <1>6, <1>n, <2>p DEF PutSlideWr, SendInv, Queueing
  <2>1. /\ putPc = "slideWr" /\ putPc' = "take" /\ wr' = first + put.len
        /\ UNCHANGED <<first, last, rd, heap, freed, held, piece, put, queued,
                       sendPc, snd, sent, fault>>
    BY <1>6, <2>0, <1>n, Sizes, SMTT(40) DEF PutSlideWr, Need
  <2>q. first + put.len \in Nat
    BY <1>n
  <2>2. TypeOK'
    BY <2>1, <2>q, <1>n, <1>s, <2>p, PutTyped DEF PutPcs
  <2>3. Block' /\ Queueing'
    BY <2>1, <2>0, <1>n, <2>p, SMTT(40) DEF Block, Queueing, Unread, Room, Need
  <2>4. QED
    BY <2>1, <2>2, <2>3, PutAlone DEF SendInv
<1>7. CASE PutReserve
  <2>p. ready /\ Holds(heap, rd, wr - rd, Len(sent))
    BY <1>7, PutReady DEF PutReserve
  <2> DEFINE block == last - first
             unused == Size(block - Size(wr - rd))
             more == block + Larger(Need - unused, block)
  <2>0. putPc = "reserve" /\ put.len = wr - rd /\ (last - wr) + (rd - first) < Need
    BY <1>7 DEF PutReserve, SendInv, Queueing
  <2>a. unused = (last - wr) + (rd - first) /\ Need - unused > 0
    <3>1. /\ Size(wr - rd) = wr - rd
          /\ block - (wr - rd) = (last - wr) + (rd - first)
          /\ block - (wr - rd) \in Nat
      BY <1>n, <2>p
    <3>2. Size(block - (wr - rd)) = block - (wr - rd)
      BY <3>1, Sizes
    <3>3. unused = (last - wr) + (rd - first)
      BY <3>1, <3>2
    <3>4. QED
      BY <2>0, <3>3, <1>n, <2>p
  <2>b. more \in Nat /\ more - (wr - rd) >= Need
    <3>1. /\ block \in Nat /\ unused \in Int /\ Need - unused \in Nat
          /\ block >= wr - rd
      BY <2>a, <1>n, <2>p, SMTT(40)
    <3> HIDE DEF block, unused
    <3>2. /\ Larger(Need - unused, block) \in Nat
          /\ Larger(Need - unused, block) >= Need - unused
      BY <3>1, Sizes
    <3>3. unused = block - (wr - rd)
      BY <2>a, <1>n, <2>p DEF block
    <3>4. QED
      BY <3>1, <3>2, <3>3, <1>n, <2>p, SMTT(40)
  <2>c. /\ putPc' = "copy" /\ put' = [len |-> wr - rd, ptr |-> Len(heap) + 1]
        /\ heap' = heap \o Blank(more)
        /\ UNCHANGED <<first, last, rd, wr, freed, held, piece, queued,
                       sendPc, snd, sent, fault>>
    <3>1. ~(Need - unused <= 0)
      BY <2>a, <1>n, <2>p
    <3>2. Size(wr - rd) = wr - rd
      BY <2>p
    <3>3. QED
      BY <1>7, <3>1, <3>2 DEF PutReserve, Need
  <2> HIDE DEF more
  <2>1. /\ putPc = "reserve" /\ putPc' = "copy"
        /\ put' \in [len : Nat, ptr : Nat]
        /\ put'.len = wr - rd /\ put'.ptr = Len(heap) + 1
        /\ UNCHANGED <<first, last, rd, wr, freed, held, piece, queued,
                       sendPc, snd, sent, fault>>
    BY <2>0, <2>c, <1>n, <2>p
  <2>m. /\ heap' \in Seq(Nat) /\ Len(heap') = Len(heap) + more
        /\ Len(heap') + 1 - put'.ptr - put'.len >= Need
        /\ Holds(heap', rd, wr - rd, Len(sent))
    <3>1. heap' \in Seq(Nat) /\ Len(heap') = Len(heap) + more
      BY <2>b, <2>c, <1>n, <1>s, Growing
    <3>2. Holds(heap', rd, wr - rd, Len(sent))
      <4>1. 1 <= rd /\ rd + (wr - rd) <= Len(heap) + 1
        BY <1>n, <2>p
      <4>2. QED
        BY <2>b, <2>c, <4>1, <1>n, <1>s, <2>p, Growing
    <3>3. QED
      BY <2>b, <2>1, <3>1, <3>2, <1>n, <2>p
  <2>2. TypeOK'
    BY <2>1, <2>0, <2>b, <2>m, <1>n, <1>s, <2>p, PutTyped DEF PutPcs
  <2>3. Block' /\ Queueing'
    BY <2>1, <2>0, <2>b, <2>m, <1>n, <2>p, SMTT(40) DEF Block, Queueing, Unread, Room, Need
  <2>4. QED
    BY <2>1, <2>2, <2>3, PutAlone DEF SendInv
<1>8. CASE PutCopy
  <2>p. ready /\ Holds(heap, rd, wr - rd, Len(sent))
    BY <1>8, PutReady DEF PutCopy
  <2>0. /\ putPc = "copy" /\ put.len = wr - rd /\ put.ptr >= last
        /\ Len(heap) + 1 - put.ptr - put.len >= Need
    BY <1>8 DEF PutCopy, SendInv, Queueing
  <2>r. /\ Readable(rd, put.len) /\ rd + put.len <= Len(heap) + 1
        /\ put.ptr + put.len <= Len(heap) + 1
    BY <2>0, <1>n, <2>p, SMTT(40) DEF Readable
  <2>1. /\ putPc = "copy" /\ putPc' = "publish"
        /\ heap' = Stored(put.ptr, Bytes(rd, put.len))
        /\ UNCHANGED <<first, last, rd, wr, freed, held, piece, put, queued,
                       sendPc, snd, sent, fault>>
    BY <1>8, <2>r DEF PutCopy
  <2>m. /\ heap' \in Seq(Nat) /\ Len(heap') = Len(heap)
        /\ Holds(heap', put.ptr, put.len, Len(sent))
    <3>1. Holds(heap, rd, put.len, Len(sent))
      BY <2>0, <2>p
    <3>2. 1 <= rd /\ 1 <= put.ptr /\ put.ptr + put.len <= Len(heap) + 1
      BY <2>0, <2>r, <1>n, <2>p
    <3>3. QED
      BY <2>1, <2>r, <3>1, <3>2, <1>n, <1>s, Copying, ZenonT(40)
  <2>2. TypeOK'
    BY <2>1, <2>0, <2>m, <1>n, <1>s, <2>p, PutTyped DEF PutPcs
  <2>3. Block' /\ Queueing'
    BY <2>1, <2>0, <2>m, <1>n, <2>p DEF Block, Queueing, Unread, Room, Need
  <2>4. QED
    BY <2>1, <2>2, <2>3, PutAlone DEF SendInv
<1>9. CASE PutPublish
  <2>0. /\ put.ptr >= last /\ Len(heap) + 1 - put.ptr - put.len >= Need
        /\ queued = Len(sent) + put.len
        /\ Holds(heap, put.ptr, put.len, Len(sent))
    BY <1>9 DEF PutPublish, SendInv, Queueing
  <2>1. /\ putPc = "publish" /\ putPc' = "growRd" /\ first' = put.ptr
        /\ last' = Len(heap) + 1
        /\ UNCHANGED <<rd, wr, heap, freed, held, piece, put, queued,
                       sendPc, snd, sent, fault>>
    BY <1>9 DEF PutPublish
  <2>2. TypeOK'
    BY <2>1, <2>0, <1>n, <1>s, PutTyped DEF PutPcs
  <2>3. Block' /\ Queueing'
    <3>1. Unread(first, put.len, Len(sent))' /\ Block'
      <4>1. /\ put.len >= 0 /\ put.ptr + put.len <= Len(heap) + 1
            /\ freed <= put.ptr /\ put.ptr <= Len(heap) + 1
        BY <2>0, <1>n, SMTT(40)
      <4>2. QED
        BY <2>1, <2>0, <4>1, <1>n DEF Block, Unread
    <3>2. (last - first - put.len >= Need)'
      BY <2>1, <2>0, <1>n, SMTT(40) DEF Need
    <3>3. QED
      BY <2>1, <3>1, <3>2 DEF Queueing
  <2>4. QED
    BY <2>1, <2>2, <2>3, PutAlone DEF SendInv
<1>10. CASE PutGrowRd
  <2>p. /\ first + put.len <= last /\ last - first - put.len >= Need
        /\ queued = Len(sent) + put.len
        /\ Holds(heap, first, put.len, Len(sent))
    BY <1>10, PutMoved DEF PutGrowRd
  <2>1. /\ putPc = "growRd" /\ putPc' = "growWr" /\ rd' = first
        /\ UNCHANGED <<first, last, wr, heap, freed, held, piece, put, queued,
                       sendPc, snd, sent, fault>>
    BY <1>10 DEF PutGrowRd
  <2>2. TypeOK'
    BY <2>1, <1>n, <1>s, <2>p, PutTyped DEF PutPcs
  <2>3. Block' /\ Queueing'
    BY <2>1, <1>n, <2>p DEF Block, Queueing, Unread, Room, Need
  <2>4. QED
    BY <2>1, <2>2, <2>3, PutAlone DEF SendInv
<1>11. CASE PutGrowWr
  <2>p. /\ first + put.len <= last /\ last - first - put.len >= Need
        /\ queued = Len(sent) + put.len
        /\ Holds(heap, first, put.len, Len(sent))
    BY <1>11, PutMoved DEF PutGrowWr
  <2>1. /\ putPc = "growWr" /\ putPc' = "free" /\ wr' = first + put.len /\ rd = first
        /\ UNCHANGED <<first, last, rd, heap, freed, held, piece, put, queued,
                       sendPc, snd, sent, fault>>
    BY <1>11 DEF PutGrowWr, SendInv, Queueing
  <2>q. first + put.len \in Nat
    BY <1>n
  <2>2. TypeOK'
    BY <2>1, <2>q, <1>n, <1>s, <2>p, PutTyped DEF PutPcs
  <2>3. Block' /\ Queueing'
    BY <2>1, <1>n, <2>p, SMTT(40) DEF Block, Queueing, Unread, Room, Need
  <2>4. QED
    BY <2>1, <2>2, <2>3, PutAlone DEF SendInv
<1>12. CASE PutFree
  <2>p. ready /\ Holds(heap, rd, wr - rd, Len(sent))
    BY <1>12, PutReady DEF PutFree
  <2>1. /\ putPc = "free" /\ putPc' = "take" /\ freed' = first /\ Room
        /\ UNCHANGED <<first, last, rd, wr, heap, held, piece, put, queued,
                       sendPc, snd, sent, fault>>
    BY <1>12 DEF PutFree, SendInv, Queueing
  <2>2. TypeOK'
    BY <2>1, <1>n, <1>s, <2>p, PutTyped DEF PutPcs
  <2>3. Block' /\ Queueing'
    BY <2>1, <1>n, <2>p DEF Block, Queueing, Unread, Room, Need
  <2>4. QED
    BY <2>1, <2>2, <2>3, PutAlone DEF SendInv
<1>13. CASE PutTake
  <2>p. ready /\ Holds(heap, rd, wr - rd, Len(sent))
    BY <1>13, PutReady DEF PutTake
  <2>0. putPc = "take" /\ Room
    BY <1>13 DEF PutTake, SendInv, Queueing
  <2>1. /\ putPc = "take" /\ putPc' = "bump" /\ put' = [put EXCEPT !.ptr = wr]
        /\ UNCHANGED <<first, last, rd, wr, heap, freed, held, piece, queued,
                       sendPc, snd, sent, fault>>
    BY <1>13, <2>0, <2>p DEF PutTake, Need, Room
  <2>2. TypeOK'
    BY <2>1, <2>0, <1>n, <1>s, <2>p, PutTyped DEF PutPcs
  <2>3. Block' /\ Queueing'
    BY <2>1, <2>0, <1>n, <2>p DEF Block, Queueing, Unread, Room, Need
  <2>4. QED
    BY <2>1, <2>2, <2>3, PutAlone DEF SendInv
<1>14. CASE PutBump
  <2>p. ready /\ Holds(heap, rd, wr - rd, Len(sent))
    BY <1>14, PutReady DEF PutBump
  <2>1. /\ putPc = "bump" /\ putPc' = "write" /\ wr' = wr + Need
        /\ put.ptr = wr /\ Room
        /\ UNCHANGED <<first, last, rd, heap, freed, held, piece, put, queued,
                       sendPc, snd, sent, fault>>
    BY <1>14 DEF PutBump, Need, SendInv, Queueing
  <2>2. TypeOK'
    BY <2>1, <1>n, <1>s, <2>p, PutTyped DEF PutPcs
  <2>3. Block' /\ Queueing'
    BY <2>1, <1>n, <2>p, SMTT(40) DEF Block, Queueing, Unread, Room, Need
  <2>4. QED
    BY <2>1, <2>2, <2>3, PutAlone DEF SendInv
<1>15. CASE PutWrite
  <2>0. /\ putPc = "write" /\ wr = put.ptr + Need /\ wr <= last
        /\ first <= rd /\ rd <= put.ptr /\ put.ptr - rd \in Nat
        /\ queued = Len(sent) + (put.ptr - rd)
        /\ Holds(heap, rd, put.ptr - rd, Len(sent)) /\ sendPc \notin Sending
    <3>1. /\ putPc = "write" /\ wr = put.ptr + Need /\ wr <= last
          /\ Unread(rd, put.ptr - rd, Len(sent)) /\ sendPc \notin Sending
      BY <1>15 DEF PutWrite, SendInv, Queueing, LocksHeld
    <3>2. QED
      BY <3>1, <1>n, SMTT(40) DEF Unread
  <2>1. /\ heap' = Stored(put.ptr, [i \in 1..Need |-> queued + i])
        /\ queued' = queued + Need
        /\ UNCHANGED <<first, last, rd, wr, freed, put, sendPc, snd, sent, fault>>
        /\ \/ putPc' = "room" /\ piece' \in 1..Len(Pieces) /\ held' = held
           \/ putPc' = "idle" /\ piece' \in 1..Len(Pieces)
              /\ held' = [held EXCEPT !["put"] = {}]
    <3>1. piece \in 1..Len(Pieces) /\ Len(Pieces) \in Nat \ {0}
      BY PiecesOK DEF SendInv, TypeOK
    <3>2. Readable(put.ptr, Need)
      BY <2>0, <1>n, SMTT(40) DEF Readable
    <3>3. QED
      BY <1>15, <3>1, <3>2 DEF PutWrite, Need
  <2>2. /\ heap' \in Seq(Nat) /\ Len(heap') = Len(heap)
        /\ Holds(heap', rd, (put.ptr - rd) + Need, Len(sent))
    <3>1. rd <= put.ptr /\ 1 <= rd /\ put.ptr + Need <= Len(heap) + 1
      BY <2>0, <1>n
    <3> DEFINE s == [i \in 1..Need |-> queued + i]
    <3>2. s \in Seq(Nat) /\ Len(s) = Need /\ \A i \in 1..Need : s[i] = queued + i
      BY <1>n
    <3>3. heap' = Stored(put.ptr, s)
      BY <2>1
    <3> HIDE DEF s
    <3>4. QED
      BY <2>0, <3>1, <3>2, <3>3, <1>n, <1>s, Appending
  <2>3. (put.ptr - rd) + Need = wr - rd /\ queued' = Len(sent) + (wr - rd)
    <3>1. /\ wr = put.ptr + Need /\ queued = Len(sent) + (put.ptr - rd)
          /\ queued' = queued + Need
      BY <2>0, <2>1
    <3>2. (put.ptr - rd) + Need = wr - rd
      BY <3>1, <1>n, SMTT(40)
    <3>3. queued + Need = Len(sent) + (wr - rd)
      <4>1. queued + Need = Len(sent) + ((put.ptr - rd) + Need)
        BY <3>1, <1>n, SMTT(40)
      <4>2. QED
        BY <3>2, <4>1
    <3>4. QED
      BY <3>1, <3>2, <3>3
  <2>4. TypeOK' /\ LocksHeld' /\ Sends' /\ InOrder'
    <3>1. TypeOK'
      <4>1. /\ held' \in [{"put", "send"} -> {{}, PutLocks, SendLocks}]
            /\ putPc' \in {"room", "idle"} /\ piece' \in 1..Len(Pieces)
            /\ queued' \in Nat
        BY <2>1, <1>n, SMTT(40) DEF SendInv, TypeOK
      <4>2. QED
        BY <2>1, <2>2, <4>1, SMTT(40) DEF SendInv, TypeOK
    <3>2. LocksHeld'
      BY <2>0, <2>1 DEF SendInv, TypeOK, LocksHeld, Sending
    <3>3. Sends' /\ InOrder'
      BY <2>0, <2>1 DEF SendInv, Sends, InOrder, Sending
    <3>4. QED
      BY <3>1, <3>2, <3>3
  <2>5. Unread(rd, wr - rd, Len(sent))'
    <3>1. wr - rd >= 0 /\ first <= rd /\ rd + (wr - rd) <= last
      BY <2>0, <1>n, SMTT(40)
    <3>2. Holds(heap', rd, wr - rd, Len(sent))
      BY <2>2, <2>3
    <3>3. UNCHANGED <<first, last, rd, wr, sent>>
      BY <2>1
    <3>4. QED
      BY <2>3, <3>1, <3>2, <3>3 DEF Unread
  <2>6. Queueing' /\ Block'
    BY <2>0, <2>1, <2>2, <2>5, <1>n DEF Queueing, Block, Done, End, Sending
  <2>7. QED
    BY <2>1, <2>4, <2>6, <1>s DEF SendInv
<1>16. QED
  BY <1>1, <1>2, <1>3, <1>4, <1>5, <1>6, <1>7, <1>8, <1>9, <1>10, <1>11, <1>12, <1>13, <1>14, <1>15
  DEF Put
-----------------------------------------------------------------------------
(* While the sending thread is at work the queueing thread is not; what is  *)
(* queued lies between the cursors.                                         *)
LEMMA SendReadyToWork ==
  ASSUME SendInv, sendPc \in Sending
  PROVE  /\ putPc = "idle" /\ End - rd >= 0 /\ first <= rd /\ End <= last
         /\ queued = Done + (End - rd) /\ Holds(heap, rd, End - rd, Done)
<1>1. putPc = "idle" /\ Unread(rd, End - rd, Done)
  BY DEF SendInv, LocksHeld, Queueing
<1>2. End \in Nat /\ rd \in Nat
  BY Known DEF End
<1>3. QED
  BY <1>1, <1>2 DEF Unread

SendPcs == {"idle", "lock", "avail", "data", "send", "count", "erase", "check",
            "resetRd", "resetWr", "unlock", "failed"}

(* A step of the sending thread that changes no memory and leaves it at     *)
(* work.                                                                    *)
LEMMA SendAlone ==
  ASSUME SendInv, sendPc \in Sending, sendPc' \in Sending,
         UNCHANGED <<first, last, memory, held, putVars, fault>>,
         rd' \in Nat, wr' \in Nat, snd' \in [len : Nat, ptr : Nat],
         sent' \in Seq(Nat), InOrder', Sends',
         Unread(rd, End - rd, Done)'
  PROVE  SendInv'
<1> USE DEF memory, putVars
<1>1. putPc = "idle"
  BY SendReadyToWork
<1>2. TypeOK'
  BY DEF SendInv, TypeOK, Sending
<1>3. LocksHeld' /\ Block'
  BY DEF SendInv, LocksHeld, Block
<1>4. Queueing'
  BY <1>1 DEF Queueing
<1>5. QED
  BY <1>2, <1>3, <1>4 DEF SendInv

(* And every statement of the sending thread.                               *)
LEMMA SendStep ==
  ASSUME LocksMeet, SendInv, Send
  PROVE  SendInv'
<1> USE DEF SendAt, cursors, memory, putVars
<1>n. /\ first \in Nat /\ last \in Nat /\ rd \in Nat /\ wr \in Nat
      /\ freed \in Nat /\ queued \in Nat /\ Len(heap) \in Nat /\ Len(sent) \in Nat
      /\ snd.len \in Nat /\ snd.ptr \in Nat
      /\ 1 <= freed /\ freed <= first /\ first <= last /\ last <= Len(heap) + 1
  BY Known
<1>s. /\ heap \in Seq(Nat) /\ sent \in Seq(Nat)
      /\ snd \in [len : Nat, ptr : Nat] /\ fault = "none" /\ InOrder
  BY Shapes DEF SendInv
<1>1. CASE SendReady
  <2>1. /\ sendPc = "idle" /\ sendPc' = "lock"
        /\ UNCHANGED <<first, last, rd, wr, heap, freed, held, putPc, piece, put,
                       queued, snd, sent, fault>>
    BY <1>1 DEF SendReady
  <2>2. TypeOK' /\ LocksHeld' /\ Block' /\ Sends' /\ InOrder'
    BY <2>1 DEF SendInv, TypeOK, LocksHeld, Block, Sends, InOrder, Sending
  <2>3. Queueing'
    BY <2>1 DEF SendInv, Queueing, Unread, Room, Need, Done, End
  <2>4. QED
    BY <2>1, <2>2, <2>3, <1>s DEF SendInv
<1>2. CASE SendLock
  <2>1. /\ sendPc = "lock" /\ sendPc' = "avail" /\ putPc = "idle"
        /\ held' = [held EXCEPT !["send"] = SendLocks]
        /\ UNCHANGED <<first, last, rd, wr, heap, freed, putPc, piece, put,
                       queued, snd, sent, fault>>
    BY <1>2 DEF SendLock, SendInv, LocksHeld, LocksMeet
  <2>2. TypeOK' /\ LocksHeld'
    BY <2>1 DEF SendInv, TypeOK, LocksHeld, Sending
  <2>3. Block' /\ Sends' /\ InOrder'
    BY <2>1 DEF SendInv, Block, Sends, InOrder
  <2>4. Queueing'
    BY <2>1 DEF SendInv, Queueing, Unread, Done, End
  <2>5. QED
    BY <2>1, <2>2, <2>3, <2>4, <1>s DEF SendInv
<1>3. CASE SendAvail
  <2>0. /\ sendPc = "avail" /\ wr - rd >= 0 /\ queued = Len(sent) + (wr - rd)
        /\ first <= rd /\ wr <= last /\ Holds(heap, rd, wr - rd, Len(sent))
        /\ putPc = "idle"
    BY <1>3, SendReadyToWork DEF SendAvail, Sending, Done, End
  <2>1. PICK n : /\ n \in Nat /\ n <= wr - rd
                 /\ sendPc' = (IF n > 0 THEN "data" ELSE "failed")
                 /\ snd' = [snd EXCEPT !.len = n]
                 /\ held' = IF n > 0 THEN held ELSE [held EXCEPT !["send"] = {}]
    <3>1. Size(wr - rd) = wr - rd /\ SendMax \in Nat
      BY <2>0, <1>n, LengthsOK DEF Size
    <3>2. /\ Smaller(Size(wr - rd), SendMax) \in Nat
          /\ Smaller(Size(wr - rd), SendMax) <= wr - rd
      BY <2>0, <3>1, <1>n DEF Smaller
    <3>3. QED
      BY <1>3, <3>2 DEF SendAvail
  <2>2. UNCHANGED <<first, last, rd, wr, heap, freed, putPc, piece, put, queued,
                    sent, fault>>
    BY <1>3 DEF SendAvail
  <2>3. snd' \in [len : Nat, ptr : Nat] /\ snd'.len = n
    BY <2>1, <1>s
  <2>4. Unread(rd, wr - rd, Len(sent))'
    <3>1. rd + (wr - rd) <= last
      BY <2>0, <1>n
    <3>2. QED
      BY <2>0, <2>2, <3>1 DEF Unread
  <2>5. CASE n > 0
    <3>1. n \in 1..(wr - rd)
      BY <2>1, <2>5, <1>n
    <3>2. Sends' /\ InOrder'
      BY <1>s, <2>1, <2>2, <2>3, <2>5, <3>1 DEF Sends, InOrder
    <3>3. Unread(rd, End - rd, Done)'
      BY <2>1, <2>2, <2>4, <2>5 DEF Done, End
    <3>4. sendPc \in Sending /\ sendPc' \in Sending /\ UNCHANGED held
      BY <2>0, <2>1, <2>5 DEF Sending
    <3>5. QED
      BY <1>n, <1>s, <2>2, <2>3, <3>2, <3>3, <3>4, SendAlone
  <2>6. CASE ~(n > 0)
    <3>1. sendPc' = "failed" /\ held' = [held EXCEPT !["send"] = {}]
      BY <2>1, <2>6
    <3>2. TypeOK' /\ LocksHeld'
      BY <2>0, <2>2, <2>3, <3>1 DEF SendInv, TypeOK, LocksHeld, Sending
    <3>3. Block' /\ Sends' /\ InOrder'
      BY <1>s, <2>2, <3>1 DEF SendInv, Block, Sends, InOrder
    <3>4. Queueing'
      BY <2>0, <2>2, <2>4, <3>1 DEF Queueing, Done, End
    <3>5. QED
      BY <2>2, <3>2, <3>3, <3>4, <1>s DEF SendInv
  <2>7. QED
    BY <2>5, <2>6
<1>4. CASE SendData
  <2>0. /\ sendPc = "data" /\ snd.len \in 1..(wr - rd)
        /\ Unread(rd, wr - rd, Len(sent))
    BY <1>4 DEF SendData, SendInv, Sends, Queueing, LocksHeld, Sending, Done, End
  <2>1. /\ sendPc' = "send" /\ snd' = [snd EXCEPT !.ptr = rd]
        /\ UNCHANGED <<first, last, rd, wr, heap, freed, held, putPc, piece, put,
                       queued, sent, fault>>
    BY <1>4 DEF SendData
  <2>2. snd' \in [len : Nat, ptr : Nat] /\ snd'.len = snd.len /\ snd'.ptr = rd
    BY <2>1, <1>n, <1>s
  <2>3. Sends' /\ InOrder'
    BY <1>s, <2>0, <2>1, <2>2 DEF Sends, InOrder
  <2>4. Unread(rd, End - rd, Done)'
    BY <2>0, <2>1 DEF Unread, Done, End
  <2>5. sendPc \in Sending /\ sendPc' \in Sending
    BY <2>0, <2>1 DEF Sending
  <2>6. QED
    BY <1>n, <1>s, <2>1, <2>2, <2>3, <2>4, <2>5, SendAlone
<1>5. CASE SendSend
  <2>0. /\ sendPc = "send" /\ snd.len \in 1..(wr - rd) /\ snd.ptr = rd
        /\ Unread(rd, wr - rd, Len(sent))
    BY <1>5 DEF SendSend, SendInv, Sends, Queueing, LocksHeld, Sending, Done, End
  <2>1. PICK wn \in 1..snd.len :
             /\ snd' = [snd EXCEPT !.len = wn]
             /\ IF Readable(snd.ptr, wn)
                THEN sent' = sent \o Bytes(snd.ptr, wn) /\ UNCHANGED fault
                ELSE fault' = "wild" /\ UNCHANGED sent
    BY <1>5 DEF SendSend
  <2>2. /\ wn \in Nat /\ wn \in 1..(wr - rd) /\ 1 <= rd /\ rd + wn <= Len(heap) + 1
        /\ freed <= rd
    <3>1. first <= rd /\ rd + (wr - rd) <= last
      BY <2>0 DEF Unread
    <3>2. wn \in Nat /\ wn >= 1 /\ wn <= wr - rd
      BY <2>0, <2>1, <1>n
    <3>3. QED
      BY <3>1, <3>2, <1>n
  <2>3. Readable(rd, wn)
    BY <2>2, <1>n DEF Readable
  <2>4. /\ sent' = sent \o Bytes(rd, wn) /\ fault' = fault /\ sendPc' = "count"
        /\ UNCHANGED <<first, last, rd, wr, heap, freed, held, putPc, piece, put,
                       queued>>
    BY <1>5, <2>0, <2>1, <2>3 DEF SendSend
  <2>5. snd' \in [len : Nat, ptr : Nat] /\ snd'.len = wn
    BY <2>1, <2>2, <1>s
  <2>6. /\ Bytes(rd, wn) \in Seq(Nat) /\ Len(Bytes(rd, wn)) = wn
        /\ \A i \in 1..wn : Bytes(rd, wn)[i] = heap[rd + i - 1]
    BY <2>2, <1>n, <1>s, BytesAreASeq
  <2>7. \A i \in 1..wn : heap[rd + i - 1] = Len(sent) + i
    BY <2>0, <2>2, <1>n, SMTT(40) DEF Unread, Holds
  <2>8. /\ sent' \in Seq(Nat) /\ Len(sent') = Len(sent) + wn
        /\ \A i \in 1..Len(sent') : sent'[i] = i
    BY <2>4, <2>6, <2>7, <1>s, GoesOn, ZenonT(40) DEF InOrder
  <2>9. Sends' /\ InOrder'
    BY <2>2, <2>4, <2>5, <2>8 DEF Sends, InOrder
  <2>10. Unread(rd, End - rd, Done)'
    <3>1. Done' = Len(sent) /\ End' = wr
      BY <2>4, <2>5, <2>8, <2>2, <1>n DEF Done, End
    <3>2. QED
      BY <2>0, <2>4, <3>1 DEF Unread
  <2>11. sendPc \in Sending /\ sendPc' \in Sending
    BY <2>0, <2>4 DEF Sending
  <2>12. QED
    BY <1>n, <1>s, <2>4, <2>5, <2>8, <2>9, <2>10, <2>11, SendAlone
<1>6. CASE SendCount
  <2>0. /\ sendPc = "count" /\ snd.len \in 1..(wr - rd)
        /\ Unread(rd, wr - rd, Len(sent) - snd.len)
    BY <1>6 DEF SendCount, SendInv, Sends, Queueing, LocksHeld, Sending, Done, End
  <2>1. /\ sendPc' = "erase" /\ snd' = [snd EXCEPT !.len = Smaller(Size(wr - rd), snd.len)]
        /\ UNCHANGED <<first, last, rd, wr, heap, freed, held, putPc, piece, put,
                       queued, sent, fault>>
    BY <1>6 DEF SendCount
  <2>2. Smaller(Size(wr - rd), snd.len) = snd.len
    <3>1. wr - rd \in Nat /\ snd.len <= wr - rd
      BY <2>0, <1>n
    <3>2. QED
      BY <3>1, <1>n DEF Smaller, Size
  <2>3. snd' = snd
    BY <2>1, <2>2, <1>s
  <2>4. Sends' /\ InOrder'
    BY <1>s, <2>0, <2>1, <2>3 DEF Sends, InOrder
  <2>5. Unread(rd, End - rd, Done)'
    BY <2>0, <2>1, <2>3 DEF Unread, Done, End
  <2>6. sendPc \in Sending /\ sendPc' \in Sending
    BY <2>0, <2>1 DEF Sending
  <2>7. QED
    BY <1>n, <1>s, <2>1, <2>3, <2>4, <2>5, <2>6, SendAlone
<1>7. CASE SendErase
  <2>0. /\ sendPc = "erase" /\ snd.len \in 1..(wr - rd)
        /\ Unread(rd, wr - rd, Len(sent) - snd.len)
    BY <1>7 DEF SendErase, SendInv, Sends, Queueing, LocksHeld, Sending, Done, End
  <2>1. /\ sendPc' = "check" /\ rd' = rd + snd.len
        /\ UNCHANGED <<first, last, wr, heap, freed, held, putPc, piece, put,
                       queued, snd, sent, fault>>
    BY <1>7 DEF SendErase
  <2>2. /\ wr - rd \in Nat /\ snd.len \in 0..(wr - rd)
        /\ first <= rd /\ wr <= last
        /\ queued = Len(sent) - snd.len + (wr - rd)
        /\ Len(sent) - snd.len \in Int
    BY <2>0, <1>n DEF Unread
  <2>3. Holds(heap, rd, wr - rd, Len(sent) - snd.len)
    BY <2>0 DEF Unread
  <2>4. Holds(heap, rd + snd.len, wr - rd - snd.len, Len(sent) - snd.len + snd.len)
    BY <2>2, <2>3, <1>n, Erasing
  <2>5. /\ rd' \in Nat /\ wr - rd' >= 0 /\ first <= rd'
        /\ rd' + (wr - rd') <= last /\ queued = Len(sent) + (wr - rd')
        /\ wr - rd - snd.len = wr - rd'
        /\ Len(sent) - snd.len + snd.len = Len(sent)
    <3>1. wr - (rd + snd.len) = wr - rd - snd.len
      BY <1>n
    <3>2. Len(sent) - snd.len + snd.len = Len(sent)
      BY <1>n
    <3>3. rd + snd.len \in Nat /\ first <= rd + snd.len
      BY <2>2, <1>n, SMTT(40)
    <3>4. wr - (rd + snd.len) >= 0 /\ rd + snd.len + (wr - (rd + snd.len)) <= last
      BY <2>2, <1>n, SMTT(40)
    <3>5. queued = Len(sent) + (wr - (rd + snd.len))
      BY <2>2, <1>n, SMTT(40)
    <3>6. QED
      BY <2>1, <3>1, <3>2, <3>3, <3>4, <3>5
  <2>6. Unread(rd, End - rd, Done)'
    <3>1. Done' = Len(sent) /\ End' = wr
      BY <2>1 DEF Done, End
    <3>2. Holds(heap, rd', wr - rd', Len(sent))
      BY <2>1, <2>4, <2>5
    <3>3. QED
      BY <2>1, <2>5, <3>1, <3>2 DEF Unread
  <2>7. Sends' /\ InOrder'
    BY <1>s, <2>1 DEF Sends, InOrder
  <2>8. sendPc \in Sending /\ sendPc' \in Sending
    BY <2>0, <2>1 DEF Sending
  <2>9. QED
    BY <1>n, <1>s, <2>1, <2>5, <2>6, <2>7, <2>8, SendAlone
<1>8. CASE SendCheck
  <2>0. sendPc = "check" /\ Unread(rd, wr - rd, Len(sent))
    BY <1>8 DEF SendCheck, SendInv, Queueing, LocksHeld, Sending, Done, End
  <2>1. rd <= wr
    BY <2>0, <1>n DEF Unread
  <2>2. /\ sendPc' = (IF rd = wr THEN "resetRd" ELSE "unlock") /\ fault' = fault
        /\ UNCHANGED <<first, last, rd, wr, heap, freed, held, putPc, piece, put,
                       queued, snd, sent>>
    BY <1>8, <2>1 DEF SendCheck
  <2>3. Sends' /\ InOrder'
    BY <1>s, <2>2 DEF Sends, InOrder
  <2>4. Unread(rd, End - rd, Done)'
    BY <2>0, <2>2 DEF Unread, Done, End
  <2>5. sendPc \in Sending /\ sendPc' \in Sending
    BY <2>0, <2>2 DEF Sending
  <2>6. QED
    BY <1>n, <1>s, <2>2, <2>3, <2>4, <2>5, SendAlone
<1>9. CASE SendResetRd
  <2>0. sendPc = "resetRd" /\ rd = wr /\ Unread(rd, wr - rd, Len(sent))
    BY <1>9 DEF SendResetRd, SendInv, Sends, Queueing, LocksHeld, Sending, Done, End
  <2>1. /\ sendPc' = "resetWr" /\ rd' = first
        /\ UNCHANGED <<first, last, wr, heap, freed, held, putPc, piece, put,
                       queued, snd, sent, fault>>
    BY <1>9 DEF SendResetRd
  <2>2. Sends' /\ InOrder'
    BY <1>s, <2>1 DEF Sends, InOrder
  <2>3. Unread(rd, End - rd, Done)'
    <3>1. Done' = Len(sent) /\ End' - rd' = 0 /\ queued = Len(sent) + 0
      BY <2>0, <2>1, <1>n DEF Done, End, Unread
    <3>2. Holds(heap, first, 0, Len(sent))
      BY HoldsNothing
    <3>3. QED
      BY <2>1, <3>1, <3>2, <1>n DEF Unread
  <2>4. sendPc \in Sending /\ sendPc' \in Sending
    BY <2>0, <2>1 DEF Sending
  <2>5. QED
    BY <1>n, <1>s, <2>1, <2>2, <2>3, <2>4, SendAlone
<1>10. CASE SendResetWr
  <2>0. sendPc = "resetWr" /\ Unread(rd, rd - rd, Len(sent))
    BY <1>10 DEF SendResetWr, SendInv, Queueing, LocksHeld, Sending, Done, End
  <2>1. /\ sendPc' = "unlock" /\ wr' = rd
        /\ UNCHANGED <<first, last, rd, heap, freed, held, putPc, piece, put,
                       queued, snd, sent, fault>>
    BY <1>10 DEF SendResetWr
  <2>2. Sends' /\ InOrder'
    BY <1>s, <2>1 DEF Sends, InOrder
  <2>3. Unread(rd, End - rd, Done)'
    BY <2>0, <2>1 DEF Unread, Done, End
  <2>4. sendPc \in Sending /\ sendPc' \in Sending
    BY <2>0, <2>1 DEF Sending
  <2>5. QED
    BY <1>n, <1>s, <2>1, <2>2, <2>3, <2>4, SendAlone
<1>11. CASE SendUnlock
  <2>0. sendPc = "unlock" /\ putPc = "idle" /\ Unread(rd, wr - rd, Len(sent))
    BY <1>11 DEF SendUnlock, SendInv, Queueing, LocksHeld, Sending, Done, End
  <2>1. /\ sendPc' = "idle" /\ held' = [held EXCEPT !["send"] = {}]
        /\ UNCHANGED <<first, last, rd, wr, heap, freed, putPc, piece, put,
                       queued, snd, sent, fault>>
    BY <1>11 DEF SendUnlock
  <2>2. TypeOK' /\ LocksHeld'
    BY <2>0, <2>1 DEF SendInv, TypeOK, LocksHeld, Sending
  <2>3. Block' /\ Sends' /\ InOrder'
    BY <1>s, <2>1 DEF SendInv, Block, Sends, InOrder
  <2>4. Queueing'
    BY <2>0, <2>1 DEF Queueing, Unread, Done, End
  <2>5. QED
    BY <2>1, <2>2, <2>3, <2>4, <1>s DEF SendInv
<1>12. QED
  BY <1>1, <1>2, <1>3, <1>4, <1>5, <1>6, <1>7, <1>8, <1>9, <1>10, <1>11 DEF Send

-----------------------------------------------------------------------------
(* So it holds in every reachable state.                                    *)
LEMMA SendInvariant ==
  ASSUME LocksMeet
  PROVE  Spec => []SendInv
<1>1. Init => SendInv
  <2> SUFFICES ASSUME Init PROVE SendInv
    OBVIOUS
  <2>1. InitLen \in Nat \ {0} /\ Len(Pieces) \in Nat \ {0}
    BY LengthsOK, PiecesOK
  <2>2. Blank(InitLen) \in Seq(Nat) /\ Len(Blank(InitLen)) = InitLen
    BY <2>1 DEF Blank
  <2>3. /\ first = 1 /\ last = 1 + InitLen /\ rd = 1 /\ wr = 1 /\ freed = 1
        /\ heap \in Seq(Nat) /\ Len(heap) = InitLen
        /\ putPc = "idle" /\ sendPc = "idle" /\ queued = 0 /\ fault = "none"
        /\ piece = 1 /\ sent = <<>>
        /\ put = [len |-> 0, ptr |-> 0] /\ snd = [len |-> 0, ptr |-> 0]
        /\ held = [t \in {"put", "send"} |-> {}]
    BY <2>2 DEF Init
  <2>4. TypeOK
    BY <2>1, <2>3 DEF TypeOK
  <2>5. LocksHeld /\ Sends /\ InOrder
    BY <2>3 DEF LocksHeld, Sends, InOrder, Sending
  <2>6. Block
    BY <2>1, <2>3 DEF Block
  <2>7. Queueing
    <3>1. Unread(1, 0, 0)
      BY <2>1, <2>3, HoldsNothing DEF Unread
    <3>2. Done = 0 /\ End - rd = 0
      BY <2>3 DEF Done, End
    <3>3. QED
      BY <2>3, <3>1, <3>2 DEF Queueing
  <2>8. QED
    BY <2>3, <2>4, <2>5, <2>6, <2>7 DEF SendInv
<1>2. SendInv /\ [Next]_vars => SendInv'
  <2>1. ASSUME SendInv, UNCHANGED vars PROVE SendInv'
    BY <2>1, SMTT(40) DEF vars, cursors, memory, putVars, sendVars, SendInv, TypeOK,
       LocksHeld, Block, Queueing, Unread, Room, Need, Done, End, Sends, InOrder
  <2>2. QED
    BY <2>1, PutStep, SendStep DEF Next
<1>3. QED
  BY <1>1, <1>2, PTL DEF Spec

(* Where the two threads have a lock in common, no statement of buffer.c    *)
(* touches memory that was given back or lies outside the block: for every  *)
(* length of the fields, of the first block and of what a send takes.       *)
THEOREM MemoryAlwaysSafe == LocksMeet => (Spec => []NoWildAccess)
<1> SUFFICES ASSUME LocksMeet PROVE Spec => []NoWildAccess
  OBVIOUS
<1>1. SendInv => NoWildAccess
  BY DEF SendInv, NoWildAccess
<1>2. Spec => []SendInv
  BY SendInvariant
<1>3. QED
  BY <1>1, <1>2, PTL

(* There the assertions of buffer.c hold, with which the client fails.      *)
THEOREM AssertionsNeverFail == LocksMeet => (Spec => []AssertionsHold)
<1> SUFFICES ASSUME LocksMeet PROVE Spec => []AssertionsHold
  OBVIOUS
<1>1. SendInv => AssertionsHold
  BY DEF SendInv, AssertionsHold
<1>2. Spec => []SendInv
  BY SendInvariant
<1>3. QED
  BY <1>1, <1>2, PTL

(* There the peer gets what was queued, in order and once, and what it has  *)
(* not got is still in the buffer, however moves, growths, partial sends    *)
(* and resets of the empty buffer follow one another.                       *)
THEOREM StreamAlwaysIntact == LocksMeet => (Spec => []StreamIntact)
<1> SUFFICES ASSUME LocksMeet PROVE Spec => []StreamIntact
  OBVIOUS
<1>1. ASSUME SendInv PROVE StreamIntact
  <2>1. \A i \in 1..Len(sent) : sent[i] = i
    BY <1>1 DEF SendInv, InOrder
  <2>2. ASSUME putPc = "idle", sendPc \in {"idle", "lock"}
        PROVE  sent \o Bytes(rd, wr - rd) = [i \in 1..queued |-> i]
    <3>1. /\ first \in Nat /\ last \in Nat /\ rd \in Nat /\ wr \in Nat
          /\ queued \in Nat /\ Len(heap) \in Nat /\ Len(sent) \in Nat
          /\ 1 <= first /\ last <= Len(heap) + 1
      BY <1>1, Known
    <3>2. heap \in Seq(Nat) /\ sent \in Seq(Nat)
      BY <1>1, Shapes
    <3>3. Unread(rd, wr - rd, Len(sent))
      BY <1>1, <2>2 DEF SendInv, Queueing, Done, End
    <3>4. PICK n : n = wr - rd
      OBVIOUS
    <3>5. /\ n \in Nat /\ 1 <= rd /\ rd + n <= Len(heap) + 1
          /\ queued = Len(sent) + n
          /\ \A i \in 1..n : heap[rd + i - 1] = Len(sent) + i
      BY <3>1, <3>3, <3>4 DEF Unread, Holds
    <3>6. /\ Bytes(rd, n) \in Seq(Nat) /\ Len(Bytes(rd, n)) = n
          /\ \A i \in 1..n : Bytes(rd, n)[i] = heap[rd + i - 1]
      BY <3>1, <3>2, <3>5, BytesAreASeq
    <3> DEFINE t == Bytes(rd, n)
    <3>7. /\ t \in Seq(Nat) /\ Len(t) = n
          /\ \A i \in 1..Len(t) : t[i] = Len(sent) + i
      BY <3>5, <3>6
    <3> HIDE DEF t
    <3>8. /\ sent \o t \in Seq(Nat)
          /\ Len(sent \o t) = Len(sent) + Len(t)
          /\ \A i \in 1..Len(sent \o t) : (sent \o t)[i] = i
      BY <2>1, <3>2, <3>7, GoesOn
    <3>9. Len(sent \o t) = queued
      BY <3>5, <3>7, <3>8
    <3>10. \A i \in 1..queued : (sent \o t)[i] = i
      BY <3>8, <3>9
    <3>11. sent \o t = [i \in 1..queued |-> i]
      BY <3>1, <3>8, <3>9, <3>10, OneToOne
    <3>12. QED
      BY <3>4, <3>11 DEF t
  <2>3. QED
    BY <2>1, <2>2 DEF StreamIntact
<1>2. Spec => []SendInv
  BY SendInvariant
<1>3. QED
  BY <1>1, <1>2, PTL
=============================================================================
