---------------------------- MODULE StreamProofs ----------------------------
(***************************************************************************)
(* Theorems about the stream of bytes between two ends, from the byte      *)
(* buffer to what ENTER and LEAVE do.                                      *)
(*                                                                         *)
(*   Buffer       for every alphabet, initial length and sequence of       *)
(*                calls: the cursors stay inside the block, an insert      *)
(*                always finds room, the block never exceeds twice what    *)
(*                was needed at once, and the buffer is a queue of bytes   *)
(*   NetMsg       parsing undoes encoding for every message that fits its  *)
(*                fields, and accepts nothing an encoder would not write   *)
(*   RecvFraming  for every such message, every other package and every    *)
(*                way to cut the stream: packages come out whole, in order *)
(*                and once, and a session ends for a cause                 *)
(*   Crossing     for screens of every size: the pointer comes out beside  *)
(*                the side it crossed, and at its level                    *)
(***************************************************************************)
EXTENDS Buffer, RecvFraming, SequenceTheorems, TLAPS

-----------------------------------------------------------------------------
(* Sequences.                                                              *)

\* A function on 1..n with values in S is a sequence of length n.
LEMMA FunctionIsSeq ==
  ASSUME NEW S, NEW n \in Nat, NEW f \in [1..n -> S]
  PROVE  f \in Seq(S) /\ Len(f) = n
  OBVIOUS

-----------------------------------------------------------------------------
(* The parts of a buffer.                                                  *)

\* The cursors and the block of a buffer, and the numbers made of them.
LEMMA BufferParts ==
  ASSUME NEW b \in Buffers
  PROVE  /\ b = [mem |-> b.mem, rd |-> b.rd, wr |-> b.wr]
         /\ b.mem \in Seq(Cell) /\ b.mem \in [1..Len(b.mem) -> Cell]
         /\ Len(b.mem) \in Nat /\ b.rd \in Nat /\ b.wr \in Nat
         /\ b.rd <= b.wr /\ b.wr <= Len(b.mem)
         /\ Available(b) \in Nat /\ Available(b) = b.wr - b.rd
         /\ Writable(b) \in Nat /\ Writable(b) = Len(b.mem) - b.wr
         /\ Capacity(b) \in Nat /\ Capacity(b) = Len(b.mem) - Available(b)
  <1>1. b \in [mem : Seq(Cell), rd : Nat, wr : Nat]
        /\ b.rd <= b.wr /\ b.wr <= Len(b.mem)
    BY DEF Buffers
  <1>2. b.mem \in Seq(Cell) /\ b.rd \in Nat /\ b.wr \in Nat
        /\ b = [mem |-> b.mem, rd |-> b.rd, wr |-> b.wr]
    BY <1>1
  <1>3. Len(b.mem) \in Nat /\ b.mem \in [1..Len(b.mem) -> Cell]
    BY <1>2, LenProperties
  <1> QED BY <1>1, <1>2, <1>3 DEF Available, Writable, Capacity

\* The unread bytes, one by one.
LEMMA DataParts ==
  ASSUME NEW b \in Buffers
  PROVE  /\ Data(b) \in Seq(Cell)
         /\ Len(Data(b)) = Available(b)
         /\ \A i \in 1..Available(b) : Data(b)[i] = b.mem[b.rd + i]
  <1>1. b.rd \in Nat /\ b.wr \in Nat /\ b.rd <= b.wr /\ b.wr <= Len(b.mem)
        /\ Len(b.mem) \in Nat /\ b.mem \in [1..Len(b.mem) -> Cell]
        /\ Available(b) = b.wr - b.rd
    BY BufferParts
  <1> DEFINE lo == b.rd + 1
  <1>2. lo \in Int /\ b.wr \in Int /\ \A i \in lo..b.wr : b.mem[i] \in Cell
    BY <1>1
  <1>3. Data(b) = SubSeq(b.mem, lo, b.wr)
    BY DEF Data
  <1>4. b.wr - lo + 1 = Available(b) /\ Available(b) \in Nat
        /\ (lo <= b.wr <=> Available(b) # 0)
        /\ \A i \in Int : lo + i - 1 = b.rd + i
    <2>1. b.rd \in Nat /\ b.wr \in Nat /\ b.rd <= b.wr /\ Available(b) = b.wr - b.rd
      BY <1>1
    <2>2. \A i \in Int : lo + i - 1 = b.rd + i
      BY <2>1
    <2>3. b.wr - lo + 1 = Available(b) /\ Available(b) \in Nat
          /\ (lo <= b.wr <=> Available(b) # 0)
      BY <2>1
    <2> QED BY <2>2, <2>3
  <1> HIDE DEF lo
  <1>5. /\ Data(b) \in Seq(Cell)
        /\ Len(Data(b)) = IF lo <= b.wr THEN b.wr - lo + 1 ELSE 0
        /\ \A i \in 1..(b.wr - lo + 1) : Data(b)[i] = b.mem[lo + i - 1]
    BY <1>2, <1>3, SubSeqProperties
  <1>6. Len(Data(b)) = Available(b)
    BY <1>4, <1>5
  <1>7. \A i \in 1..Available(b) : Data(b)[i] = b.mem[b.rd + i]
    <2> TAKE i \in 1..Available(b)
    <2>1. i \in 1..(b.wr - lo + 1) /\ i \in Int
      BY <1>4
    <2>2. Data(b)[i] = b.mem[lo + i - 1]
      BY <1>5, <2>1
    <2>3. lo + i - 1 = b.rd + i
      BY <1>4, <2>1
    <2> QED BY <2>2, <2>3
  <1> QED BY <1>5, <1>6, <1>7

\* Two buffers with as many unread bytes, equal one by one, hold the same.
LEMMA SameData ==
  ASSUME NEW b \in Buffers, NEW c \in Buffers,
         Available(c) = Available(b),
         \A i \in 1..Available(b) : c.mem[c.rd + i] = b.mem[b.rd + i]
  PROVE  Data(c) = Data(b)
  <1>1. Data(b) \in Seq(Cell) /\ Data(c) \in Seq(Cell)
        /\ Len(Data(b)) = Available(b) /\ Len(Data(c)) = Available(b)
    BY DataParts
  <1>2. \A i \in 1..Available(b) : Data(c)[i] = Data(b)[i]
    BY DataParts
  <1> QED BY <1>1, <1>2, SeqEqual

\* The buffer without a block.
LEMMA EmptyIsBuffer ==
  EmptyBuffer \in Buffers /\ Data(EmptyBuffer) = <<>>
  /\ Len(EmptyBuffer.mem) = 0 /\ Available(EmptyBuffer) = 0
  <1>1. EmptyBuffer \in Buffers /\ Len(EmptyBuffer.mem) = 0
        /\ Available(EmptyBuffer) = 0
    BY DEF EmptyBuffer, Buffers, Available
  <1>2. Data(EmptyBuffer) = <<>>
    BY SubSeqEmpty DEF Data, EmptyBuffer
  <1> QED BY <1>1, <1>2

-----------------------------------------------------------------------------
(* The operations.                                                         *)

\* Growing keeps the unread bytes and lengthens the block by inc.
LEMMA IncreaseKeeps ==
  ASSUME NEW b \in Buffers, NEW inc \in Nat
  PROVE  /\ Increase(b, inc) \in Buffers
         /\ Data(Increase(b, inc)) = Data(b)
         /\ Len(Increase(b, inc).mem) = Len(b.mem) + inc
         /\ inc # 0 => Increase(b, inc).rd = 0
         /\ Available(Increase(b, inc)) = Available(b)
  <1>1. CASE inc = 0
    BY <1>1, BufferParts DEF Increase
  <1>2. CASE inc # 0
    <2> DEFINE n == Len(b.mem) + inc
               m == [i \in 1..n |->
                       IF i <= Available(b) THEN b.mem[b.rd + i] ELSE Junk]
               c == [mem |-> m, rd |-> 0, wr |-> Available(b)]
    <2>1. Increase(b, inc) = c
      BY <1>2 DEF Increase
    <2>2. b.rd \in Nat /\ b.wr \in Nat /\ Len(b.mem) \in Nat
          /\ b.rd <= b.wr /\ b.wr <= Len(b.mem)
          /\ Available(b) = b.wr - b.rd /\ Available(b) \in Nat
          /\ b.mem \in [1..Len(b.mem) -> Cell]
      BY BufferParts
    <2>3. n \in Nat /\ Available(b) <= n
      BY <2>2
    <2>4. \A i \in 1..n :
            (IF i <= Available(b) THEN b.mem[b.rd + i] ELSE Junk) \in Cell
      BY <2>2 DEF Cell
    <2>5. m \in [1..n -> Cell]
      BY <2>4
    <2>6. m \in Seq(Cell) /\ Len(m) = n
      BY <2>3, <2>5, FunctionIsSeq
    <2>7. c \in Buffers
      BY <2>2, <2>3, <2>6 DEF Buffers
    <2>8. Available(c) = Available(b)
      BY <2>2 DEF Available
    <2>9. \A i \in 1..Available(b) : c.mem[c.rd + i] = b.mem[b.rd + i]
      BY <2>2, <2>3
    <2>10. Data(c) = Data(b)
      BY <2>7, <2>8, <2>9, SameData
    <2> QED BY <2>1, <2>6, <2>7, <2>8, <2>10
  <1> QED BY <1>1, <1>2

\* Sliding keeps the unread bytes and the block's length, and leaves all of
\* the unused part behind write_cur.
LEMMA MoveKeeps ==
  ASSUME NEW b \in Buffers
  PROVE  /\ Move(b) \in Buffers
         /\ Data(Move(b)) = Data(b)
         /\ Len(Move(b).mem) = Len(b.mem)
         /\ Available(Move(b)) = Available(b)
         /\ Writable(Move(b)) = Writable(b) + b.rd
  <1> DEFINE n == Len(b.mem)
             m == [i \in 1..n |->
                     IF i <= Available(b) THEN b.mem[b.rd + i] ELSE b.mem[i]]
             c == [mem |-> m, rd |-> 0, wr |-> Available(b)]
  <1>1. Move(b) = c
    BY DEF Move
  <1>2. b.rd \in Nat /\ b.wr \in Nat /\ n \in Nat
        /\ b.rd <= b.wr /\ b.wr <= n
        /\ Available(b) = b.wr - b.rd /\ Available(b) \in Nat
        /\ b.mem \in [1..n -> Cell] /\ Writable(b) = n - b.wr
    BY BufferParts
  <1>3. \A i \in 1..n :
          (IF i <= Available(b) THEN b.mem[b.rd + i] ELSE b.mem[i]) \in Cell
    <2> TAKE i \in 1..n
    <2>1. b.mem[i] \in Cell
      BY <1>2
    <2>2. i <= Available(b) => b.rd + i \in 1..n
      BY <1>2
    <2>3. i <= Available(b) => b.mem[b.rd + i] \in Cell
      BY <1>2, <2>2
    <2> QED BY <2>1, <2>3
  <1>4. m \in [1..n -> Cell]
    BY <1>3
  <1>5. m \in Seq(Cell) /\ Len(m) = n
    BY <1>2, <1>4, FunctionIsSeq
  <1>6. c \in Buffers
    BY <1>2, <1>5 DEF Buffers
  <1>7. Available(c) = Available(b) /\ Writable(c) = Writable(b) + b.rd
    BY <1>2, <1>5 DEF Available, Writable
  <1>8. \A i \in 1..Available(b) : c.mem[c.rd + i] = b.mem[b.rd + i]
    BY <1>2
  <1>9. Data(c) = Data(b)
    BY <1>6, <1>7, <1>8, SameData
  <1> QED BY <1>1, <1>5, <1>6, <1>7, <1>9

\* A block of len bytes, avail of them unread, that grows by what n bytes
\* lack or by itself.
LEMMA GrowsToTwice ==
  ASSUME NEW len \in Nat, NEW avail \in Nat, NEW n \in Nat, NEW cap \in Nat,
         cap = len - avail, cap < n, NEW inc \in Nat, inc = n - cap \/ inc = len
  PROVE  inc <= avail + n /\ len + inc <= 2 * (avail + n)
  OBVIOUS

\* Before an insert of n bytes: there is room for them behind write_cur, the
\* unread bytes are the same, and the block has only grown if the bytes did
\* not fit, to at most twice what is needed now.
LEMMA MakeRoomKeeps ==
  ASSUME NEW b \in Buffers, NEW n \in Nat
  PROVE  /\ MakeRoom(b, n) \in Buffers
         /\ Data(MakeRoom(b, n)) = Data(b)
         /\ Available(MakeRoom(b, n)) = Available(b)
         /\ Writable(MakeRoom(b, n)) >= n
         /\ \/ Len(MakeRoom(b, n).mem) = Len(b.mem)
            \/ Len(MakeRoom(b, n).mem) <= 2 * (Available(b) + n)
  <1>0. b.rd \in Nat /\ b.wr \in Nat /\ Len(b.mem) \in Nat
        /\ b.rd <= b.wr /\ b.wr <= Len(b.mem)
        /\ Available(b) = b.wr - b.rd /\ Available(b) \in Nat
        /\ Writable(b) = Len(b.mem) - b.wr
        /\ Capacity(b) = Len(b.mem) - Available(b) /\ Capacity(b) \in Nat
    BY BufferParts
  <1>1. CASE Writable(b) >= n
    BY <1>1 DEF MakeRoom
  <1>2. CASE ~(Writable(b) >= n) /\ CanMove(b, n)
    <2>1. MakeRoom(b, n) = Move(b)
      BY <1>2 DEF MakeRoom
    <2>2. Writable(b) + b.rd >= n
      BY <1>2 DEF CanMove
    <2> QED BY <2>1, <2>2, MoveKeeps
  <1>3. CASE ~(Writable(b) >= n) /\ ~CanMove(b, n)
    <2> DEFINE inc == Larger(n - Capacity(b), Len(b.mem))
               c == Increase(b, inc)
    <2>1. Capacity(b) < n
      BY <1>0, <1>3 DEF CanMove
    <2>2. inc \in Nat \ {0} /\ inc >= n - Capacity(b)
          /\ (inc = n - Capacity(b) \/ inc = Len(b.mem))
      BY <1>0, <2>1 DEF Larger
    <2>3. MakeRoom(b, n) = c
      BY <1>3, <2>1 DEF MakeRoom, Reserve
    <2> HIDE DEF inc
    <2>4. c \in Buffers /\ Data(c) = Data(b) /\ Available(c) = Available(b)
          /\ Len(c.mem) = Len(b.mem) + inc /\ c.rd = 0
      BY <2>2, IncreaseKeeps
    <2>5. Writable(c) = Len(c.mem) - Available(c)
      BY <2>4, BufferParts
    <2>6. Writable(c) >= n
      BY <1>0, <2>2, <2>4, <2>5
    <2>7. Len(c.mem) <= 2 * (Available(b) + n)
      <3>1. inc <= Available(b) + n /\ Len(b.mem) + inc <= 2 * (Available(b) + n)
        BY <1>0, <2>1, <2>2, GrowsToTwice
      <3> QED BY <2>4, <3>1
    <2> QED BY <2>3, <2>4, <2>6, <2>7
  <1> QED BY <1>1, <1>2, <1>3

\* A request of n bytes that does not come with an insert (Com_ReserveBuffer)
\* is to be met by the unused bytes of both ends of the block.
LEMMA ReserveKeeps ==
  ASSUME NEW b \in Buffers, NEW n \in Nat
  PROVE  /\ Reserve(b, n) \in Buffers
         /\ Data(Reserve(b, n)) = Data(b)
         /\ \/ Len(Reserve(b, n).mem) = Len(b.mem)
            \/ Len(Reserve(b, n).mem) <= 2 * (Available(b) + n)
  <1>0. Len(b.mem) \in Nat /\ Available(b) \in Nat
        /\ Capacity(b) = Len(b.mem) - Available(b) /\ Capacity(b) \in Nat
    BY BufferParts
  <1>1. CASE ~(Capacity(b) < n)
    BY <1>1 DEF Reserve
  <1>2. CASE Capacity(b) < n
    <2> DEFINE inc == Larger(n - Capacity(b), Len(b.mem))
    <2>1. inc \in Nat /\ (inc = n - Capacity(b) \/ inc = Len(b.mem))
      BY <1>0, <1>2 DEF Larger
    <2>2. Reserve(b, n) = Increase(b, inc)
      BY <1>2 DEF Reserve
    <2> HIDE DEF inc
    <2>3. /\ Increase(b, inc) \in Buffers
          /\ Data(Increase(b, inc)) = Data(b)
          /\ Len(Increase(b, inc).mem) = Len(b.mem) + inc
      BY <2>1, IncreaseKeeps
    <2>4. Len(b.mem) + inc <= 2 * (Available(b) + n)
      BY <1>0, <1>2, <2>1, GrowsToTwice
    <2> QED BY <2>2, <2>3, <2>4
  <1> QED BY <1>1, <1>2

\* The places behind the unread bytes.
LEMMA Beyond ==
  ASSUME NEW rd \in Int, NEW avail \in Int, NEW w \in Int, w = rd + avail,
         NEW k \in Int, NEW i \in Int, i > avail, i <= avail + k
  PROVE  rd + i > w /\ rd + i <= w + k /\ rd + i - w = i - avail
  OBVIOUS

\* An insert appends its bytes to the unread ones.
LEMMA InsertAppends ==
  ASSUME NEW b \in Buffers, NEW s \in Seq(Byte)
  PROVE  /\ Insert(b, s) \in Buffers
         /\ Data(Insert(b, s)) = Data(b) \o s
         /\ \/ Len(Insert(b, s).mem) = Len(b.mem)
            \/ Len(Insert(b, s).mem) <= 2 * (Available(b) + Len(s))
  <1>0. Len(s) \in Nat /\ s \in Seq(Cell) /\ Data(b) \in Seq(Cell)
        /\ s \in [1..Len(s) -> Byte]
        /\ Len(Data(b)) = Available(b)
    BY DataParts, SeqMonotonic, LenProperties DEF Cell
  <1>1. CASE s = <<>>
    BY <1>0, <1>1, ConcatEmptySeq DEF Insert
  <1>2. CASE s # <<>>
    <2> DEFINE k == Len(s)
               r == MakeRoom(b, k)
               w == r.wr
               n == Len(r.mem)
               f == [i \in 1..n |-> IF i > w /\ i <= w + k
                                    THEN s[i - w] ELSE r.mem[i]]
               c == [mem |-> f, rd |-> r.rd, wr |-> w + k]
    <2>1. k \in Nat /\ k # 0
      BY <1>2, <1>0, EmptySeq
    <2>2. r \in Buffers /\ Data(r) = Data(b) /\ Available(r) = Available(b)
          /\ Writable(r) >= k
          /\ (n = Len(b.mem) \/ n <= 2 * (Available(b) + k))
      BY <2>1, MakeRoomKeeps
    <2>3. r = [mem |-> r.mem, rd |-> r.rd, wr |-> w]
          /\ n \in Nat /\ r.rd \in Nat /\ w \in Nat
          /\ r.rd <= w /\ w <= n /\ Writable(r) = n - w
          /\ r.mem \in [1..n -> Cell] /\ Available(r) = w - r.rd
      BY <2>2, BufferParts
    <2>4. Insert(b, s) = c
      <3> DEFINE x == [r EXCEPT !.wr = w + k]
      <3>1. Insert(b, s) = Fill(x, s)
        BY <1>2, <2>1 DEF Insert, Alloc
      <3>2. x = [mem |-> r.mem, rd |-> r.rd, wr |-> w + k]
        BY <2>3
      <3>3. x.mem = r.mem /\ x.wr = w + k /\ x.wr - Len(s) = w
        BY <2>1, <2>3, <3>2
      <3> HIDE DEF x, k
      <3>4. Fill(x, s) = [x EXCEPT !.mem = f]
        BY <3>3 DEF Fill
      <3>5. \A m : [x EXCEPT !.mem = m]
                   = [mem |-> m, rd |-> r.rd, wr |-> w + k]
        BY <3>2
      <3> QED BY <3>1, <3>4, <3>5
    <2> HIDE DEF r
    <2>5. f \in Seq(Cell) /\ Len(f) = n
      <3>1. \A i \in 1..n : (IF i > w /\ i <= w + k
                             THEN s[i - w] ELSE r.mem[i]) \in Cell
        BY <1>0, <2>1, <2>3 DEF Cell
      <3>2. f \in [1..n -> Cell]
        BY <3>1
      <3> QED BY <2>3, <3>2, FunctionIsSeq
    <2>6. c \in Buffers
      BY <2>1, <2>2, <2>3, <2>5 DEF Buffers
    <2>7. Available(c) = Available(b) + k
      BY <2>1, <2>2, <2>3 DEF Available
    <2>8. Data(c) = Data(b) \o s
      <3>1. Data(c) \in Seq(Cell) /\ Len(Data(c)) = Available(b) + k
            /\ \A i \in 1..(Available(b) + k) : Data(c)[i] = f[r.rd + i]
        BY <2>6, <2>7, DataParts
      <3>2. Data(b) \o s \in Seq(Cell)
            /\ Len(Data(b) \o s) = Available(b) + k
            /\ \A i \in 1..(Available(b) + k) :
                 (Data(b) \o s)[i] = IF i <= Available(b) THEN Data(b)[i]
                                     ELSE s[i - Available(b)]
        <4> DEFINE d == Data(b)
        <4>1. d \in Seq(Cell) /\ s \in Seq(Cell) /\ Len(d) = Available(b)
          BY <1>0
        <4> HIDE DEF d
        <4>2. /\ d \o s \in Seq(Cell)
              /\ Len(d \o s) = Len(d) + Len(s)
              /\ \A i \in 1..(Len(d) + Len(s)) :
                   (d \o s)[i] = IF i <= Len(d) THEN d[i] ELSE s[i - Len(d)]
          BY <4>1, ConcatProperties
        <4> QED BY <4>1, <4>2 DEF d
      <3>3. ASSUME NEW i \in 1..(Available(b) + k)
            PROVE  Data(c)[i] = (Data(b) \o s)[i]
        <4>1. r.rd + i \in 1..n /\ Available(b) \in Nat /\ i \in Int
              /\ w = r.rd + Available(b) /\ w \in Nat /\ k \in Nat
          <5>1. Available(b) = w - r.rd /\ w + k <= n
            BY <2>1, <2>2, <2>3
          <5>2. Available(b) \in Nat
            BY <2>3, <5>1
          <5> QED BY <2>1, <2>3, <5>1, <5>2
        <4>2. CASE i <= Available(b)
          <5>1. f[r.rd + i] = r.mem[r.rd + i]
            <6>1. ~(r.rd + i > w)
              BY <2>3, <4>1, <4>2
            <6> QED BY <4>1, <6>1
          <5>2. Data(b)[i] = r.mem[r.rd + i]
            BY <2>2, <4>1, <4>2, DataParts
          <5> QED BY <3>1, <3>2, <4>2, <5>1, <5>2
        <4>3. CASE ~(i <= Available(b))
          <5>1. r.rd + i > w /\ r.rd + i <= w + k
                /\ r.rd + i - w = i - Available(b)
            <6>1. i > Available(b) /\ i <= Available(b) + k /\ r.rd \in Int
              BY <2>1, <2>3, <4>1, <4>3
            <6>2. r.rd \in Int /\ w \in Int /\ w = r.rd + Available(b)
              BY <4>1, <6>1
            <6> QED BY <4>1, <6>1, <6>2, Beyond
          <5> DEFINE j == r.rd + i
          <5>2. j \in 1..n /\ j > w /\ j <= w + k /\ j - w = i - Available(b)
            BY <2>3, <4>1, <5>1
          <5> HIDE DEF j
          <5>3. f[j] = s[j - w]
            <6>1. f[j] = IF j > w /\ j <= w + k THEN s[j - w] ELSE r.mem[j]
              BY <5>2
            <6> QED BY <5>2, <6>1
          <5>4. f[r.rd + i] = s[i - Available(b)]
            BY <5>2, <5>3 DEF j
          <5> QED BY <3>1, <3>2, <4>3, <5>4
        <4> QED BY <4>2, <4>3
      <3> QED BY <3>1, <3>2, <3>3, SeqEqual
    <2> QED BY <2>2, <2>4, <2>5, <2>6, <2>8
  <1> QED BY <1>1, <1>2

\* Erasing removes the oldest n bytes, all if there are fewer, and leaves
\* the block alone.
LEMMA EraseDrops ==
  ASSUME NEW b \in Buffers, NEW n \in Nat
  PROVE  /\ Erase(b, n) \in Buffers
         /\ Data(Erase(b, n)) = SubSeq(Data(b), n + 1, Len(Data(b)))
         /\ Len(Erase(b, n).mem) = Len(b.mem)
  <1>0. b = [mem |-> b.mem, rd |-> b.rd, wr |-> b.wr]
        /\ b.mem \in Seq(Cell) /\ Len(b.mem) \in Nat
        /\ b.rd \in Nat /\ b.wr \in Nat
        /\ b.rd <= b.wr /\ b.wr <= Len(b.mem)
        /\ Available(b) = b.wr - b.rd /\ Available(b) \in Nat
    BY BufferParts
  <1>1. Data(b) \in Seq(Cell) /\ Len(Data(b)) = Available(b)
        /\ \A i \in 1..Available(b) : Data(b)[i] = b.mem[b.rd + i]
    BY DataParts
  <1>2. CASE n = 0
    BY <1>1, <1>2, SubSeqFull DEF Erase
  <1>3. CASE n # 0 /\ n >= Available(b)
    <2> DEFINE c == [mem |-> b.mem, rd |-> 0, wr |-> 0]
    <2>0. b.rd + Smaller(Available(b), n) = b.wr
      BY <1>0, <1>3 DEF Smaller
    <2>1. Erase(b, n) = c
      BY <1>0, <1>3, <2>0 DEF Erase
    <2>2. c \in Buffers /\ Data(c) = <<>>
      BY <1>0, SubSeqEmpty DEF Buffers, Data
    <2>3. SubSeq(Data(b), n + 1, Len(Data(b))) = <<>>
      <3> DEFINE lo == n + 1
                 hi == Len(Data(b))
      <3>1. lo \in Int /\ hi \in Int /\ hi < lo
        BY <1>0, <1>1, <1>3
      <3> HIDE DEF lo, hi
      <3>2. SubSeq(Data(b), lo, hi) = <<>>
        BY <3>1, SubSeqEmpty
      <3> QED BY <3>2 DEF lo, hi
    <2>4. c.mem = b.mem
      OBVIOUS
    <2> HIDE DEF c
    <2> QED BY <2>1, <2>2, <2>3, <2>4
  <1>4. CASE n # 0 /\ ~(n >= Available(b))
    <2> DEFINE c == [mem |-> b.mem, rd |-> b.rd + n, wr |-> b.wr]
               d == SubSeq(Data(b), n + 1, Available(b))
    <2>1. Erase(b, n) = c
      BY <1>0, <1>4 DEF Erase, Smaller
    <2>2. c \in Buffers
      BY <1>0, <1>4 DEF Buffers
    <2>3. Available(c) = Available(b) - n
      BY <1>0 DEF Available
    <2>4. Data(c) \in Seq(Cell) /\ Len(Data(c)) = Available(b) - n
          /\ \A i \in 1..(Available(b) - n) : Data(c)[i] = b.mem[b.rd + n + i]
      BY <2>2, <2>3, DataParts
    <2>5. d \in Seq(Cell) /\ Len(d) = Available(b) - n
          /\ \A i \in 1..(Available(b) - n) : d[i] = Data(b)[n + i]
      <3> DEFINE lo == n + 1
      <3>1. lo \in Int /\ Available(b) \in Int /\ lo <= Available(b)
            /\ Available(b) - lo + 1 = Available(b) - n
            /\ \A i \in Int : lo + i - 1 = n + i
        BY <1>0, <1>4
      <3>2. \A i \in lo..Available(b) : Data(b)[i] \in Cell
        BY <1>0, <1>1, LenProperties
      <3>3. d = SubSeq(Data(b), lo, Available(b))
        OBVIOUS
      <3> HIDE DEF lo, d
      <3>4. /\ d \in Seq(Cell)
            /\ Len(d) = IF lo <= Available(b) THEN Available(b) - lo + 1 ELSE 0
            /\ \A i \in 1..(Available(b) - lo + 1) :
                 d[i] = Data(b)[lo + i - 1]
        <4> DEFINE hi == Available(b)
                   e == Data(b)
        <4>1. d = SubSeq(e, lo, hi) /\ lo \in Int /\ hi \in Int
              /\ \A i \in lo..hi : e[i] \in Cell
          BY <3>1, <3>2, <3>3
        <4> HIDE DEF hi, e
        <4>2. /\ d \in Seq(Cell) /\ Len(d) = IF lo <= hi THEN hi - lo + 1 ELSE 0
              /\ \A i \in 1..(hi - lo + 1) : d[i] = e[lo + i - 1]
          BY <4>1, SubSeqProperties
        <4> QED BY <4>2 DEF hi, e
      <3>5. ASSUME NEW i \in 1..(Available(b) - n)
            PROVE  d[i] = Data(b)[n + i]
        <4>1. i \in 1..(Available(b) - lo + 1) /\ lo + i - 1 = n + i
          BY <3>1
        <4> QED BY <3>4, <4>1
      <3>6. Len(d) = Available(b) - n
        BY <3>1, <3>4
      <3> QED BY <3>4, <3>5, <3>6
    <2>6. \A i \in 1..(Available(b) - n) : Data(c)[i] = d[i]
      <3> TAKE i \in 1..(Available(b) - n)
      <3>1. n + i \in 1..Available(b) /\ b.rd + (n + i) = b.rd + n + i
        BY <1>0, <1>4
      <3>2. Data(b)[n + i] = b.mem[b.rd + n + i]
        BY <1>1, <3>1
      <3> QED BY <2>4, <2>5, <3>2
    <2>7. Data(c) = d
      BY <2>4, <2>5, <2>6, SeqEqual
    <2> QED BY <1>1, <2>1, <2>2, <2>7
  <1> QED BY <1>2, <1>3, <1>4

\* A buffer is created empty, with the block it was asked for.
LEMMA CreateIsEmpty ==
  ASSUME NEW n \in Nat
  PROVE  /\ Create(n) \in Buffers
         /\ Data(Create(n)) = <<>>
         /\ Len(Create(n).mem) = IF n = 0 THEN 0 ELSE Larger(n, InitLen)
  <1>1. CASE n = 0
    BY <1>1, EmptyIsBuffer DEF Create
  <1>2. CASE n # 0
    <2> DEFINE k == Larger(n, InitLen)
    <2>1. k \in Nat
      BY InitLenIsPositive DEF Larger
    <2>2. Create(n) = Increase(EmptyBuffer, k)
      BY <1>2 DEF Create
    <2> HIDE DEF k
    <2>3. /\ Increase(EmptyBuffer, k) \in Buffers
          /\ Data(Increase(EmptyBuffer, k)) = Data(EmptyBuffer)
          /\ Len(Increase(EmptyBuffer, k).mem) = Len(EmptyBuffer.mem) + k
      BY <2>1, EmptyIsBuffer, IncreaseKeeps
    <2>4. Len(EmptyBuffer.mem) + k = k
      BY <2>1, EmptyIsBuffer
    <2>5. Data(Create(n)) = <<>>
      BY <2>2, <2>3, EmptyIsBuffer
    <2>6. Len(Create(n).mem) = k
      BY <2>2, <2>3, <2>4
    <2>7. k = Larger(n, InitLen)
      BY DEF k
    <2> QED BY <1>2, <2>2, <2>3, <2>5, <2>6, <2>7
  <1> QED BY <1>1, <1>2

-----------------------------------------------------------------------------
(* The buffer's owner.  The inductive invariant is the typing together with *)
(* the bound on the block: an insert may double the block, so the bound on *)
(* the block of the next state needs both the bound and the order of the   *)
(* cursors now.                                                            *)

BufferInv == BufferTypeOK /\ CapacityBounded

LEMMA BufferInvInit == BufferInit => BufferInv
  <1> SUFFICES ASSUME BufferInit PROVE BufferInv
    OBVIOUS
  <1>1. PICK n \in CreateSizes :
          buf = Create(n) /\ peak = IF n = 0 THEN 0 ELSE Larger(n, InitLen)
    BY DEF BufferInit
  <1>2. n \in Nat
    BY <1>1, SizesAreNat
  <1>3. buf \in Buffers /\ Len(buf.mem) = peak
    BY <1>1, <1>2, CreateIsEmpty
  <1>4. peak \in Nat
    BY <1>3, BufferParts
  <1> QED BY <1>3, <1>4 DEF BufferInv, BufferTypeOK, CapacityBounded

\* Every call keeps the invariant.
LEMMA BufferInvNext == BufferInv /\ [BufferNext]_bufferVars => BufferInv'
  <1> SUFFICES ASSUME BufferInv, [BufferNext]_bufferVars PROVE BufferInv'
    OBVIOUS
  <1>0. buf \in Buffers /\ peak \in Nat /\ Len(buf.mem) <= 2 * peak
        /\ Available(buf) \in Nat /\ Len(buf.mem) \in Nat
    BY BufferParts DEF BufferInv, BufferTypeOK, CapacityBounded
  <1> USE DEF BufferInv, BufferTypeOK, CapacityBounded
  <1>1. ASSUME NEW s \in Chunks, Com_InsertBuffer(s)
        PROVE  BufferInv'
    <2>1. s \in Seq(Byte) /\ Len(s) \in Nat
      BY ChunksAreBytes, LenProperties
    <2>2. buf' \in Buffers
          /\ \/ Len(buf'.mem) = Len(buf.mem)
             \/ Len(buf'.mem) <= 2 * (Available(buf) + Len(s))
      BY <1>0, <1>1, <2>1, InsertAppends DEF Com_InsertBuffer
    <2>3. peak' \in Nat /\ peak' >= peak /\ peak' >= Available(buf) + Len(s)
      BY <1>0, <1>1, <2>1 DEF Com_InsertBuffer, Larger
    <2>4. Len(buf'.mem) \in Nat
      BY <2>2, BufferParts
    <2> QED BY <1>0, <2>1, <2>2, <2>3, <2>4
  <1>2. ASSUME NEW n \in Sizes, Com_EraseBuffer(n)
        PROVE  BufferInv'
    <2>1. n \in Nat
      BY SizesAreNat
    <2>2. buf' \in Buffers /\ Len(buf'.mem) = Len(buf.mem) /\ peak' = peak
      BY <1>0, <1>2, <2>1, EraseDrops DEF Com_EraseBuffer
    <2> QED BY <1>0, <2>2
  <1>3. ASSUME NEW n \in Sizes, Com_ReserveBuffer(n)
        PROVE  BufferInv'
    <2>1. n \in Nat
      BY SizesAreNat
    <2>2. buf' \in Buffers
          /\ \/ Len(buf'.mem) = Len(buf.mem)
             \/ Len(buf'.mem) <= 2 * (Available(buf) + n)
      BY <1>0, <1>3, <2>1, ReserveKeeps DEF Com_ReserveBuffer
    <2>3. peak' \in Nat /\ peak' >= peak /\ peak' >= Available(buf) + n
      BY <1>0, <1>3, <2>1 DEF Com_ReserveBuffer, Larger
    <2>4. Len(buf'.mem) \in Nat
      BY <2>2, BufferParts
    <2> QED BY <1>0, <2>1, <2>2, <2>3, <2>4
  <1>4. CASE Com_ClearBuffer
    BY <1>4, EmptyIsBuffer DEF Com_ClearBuffer
  <1>5. CASE UNCHANGED bufferVars
    BY <1>0, <1>5 DEF bufferVars
  <1> QED BY <1>1, <1>2, <1>3, <1>4, <1>5 DEF BufferNext

LEMMA BufferInvariant == BufferSpec => []BufferInv
  BY BufferInvInit, BufferInvNext, PTL DEF BufferSpec

-----------------------------------------------------------------------------
(* The theorems about the buffer.                                          *)

\* The cursors stay in order inside the block, whatever the calls
\* (__buffer_is_valid and the assertion of Com_EraseBuffer).
THEOREM CursorsInBlock == BufferSpec => []BufferTypeOK
  <1>1. BufferInv => BufferTypeOK
    BY DEF BufferInv
  <1> QED BY <1>1, BufferInvariant, PTL

\* The closing assertion of Com_AllocBuffer holds for every insert the owner
\* can make next, of whatever length.
THEOREM InsertFindsRoom == BufferSpec => []AllocFits
  <1>1. BufferInv => AllocFits
    <2> SUFFICES ASSUME BufferInv, NEW s \in Chunks
                 PROVE  Writable(MakeRoom(buf, Len(s))) >= Len(s)
      BY DEF AllocFits
    <2>1. Len(s) \in Nat
      BY ChunksAreBytes, LenProperties
    <2> QED BY <2>1, MakeRoomKeeps DEF BufferInv, BufferTypeOK
  <1> QED BY <1>1, BufferInvariant, PTL

\* The block is at most twice what its owner needed at once, however long
\* the buffer is used.
THEOREM BlockBounded == BufferSpec => []CapacityBounded
  <1>1. BufferInv => CapacityBounded
    BY DEF BufferInv
  <1> QED BY <1>1, BufferInvariant, PTL

\* A buffer is a queue of bytes: each call is a step of ByteQueue on the
\* unread bytes, or leaves them alone.
THEOREM BufferIsQueue == BufferSpec => QueueSpec
  <1>1. BufferInit => Queue!Init
    <2> SUFFICES ASSUME BufferInit PROVE Data(buf) = <<>>
      BY DEF Queue!Init
    <2> QED BY CreateIsEmpty, SizesAreNat DEF BufferInit
  <1>2. BufferInv /\ [BufferNext]_bufferVars => [Queue!Next]_(Data(buf))
    <2> SUFFICES ASSUME BufferInv, [BufferNext]_bufferVars
                 PROVE  Queue!Next \/ Data(buf)' = Data(buf)
      OBVIOUS
    <2>0. buf \in Buffers
      BY DEF BufferInv, BufferTypeOK
    <2>1. ASSUME NEW s \in Chunks, Com_InsertBuffer(s)
          PROVE  Queue!Put(s)
      <3>1. buf' = Insert(buf, s) /\ s \in Seq(Byte)
        BY <2>1, ChunksAreBytes DEF Com_InsertBuffer
      <3>2. Data(buf') = Data(buf) \o s
        BY <2>0, <3>1, InsertAppends
      <3> QED BY <3>2 DEF Queue!Put
    <2>2. ASSUME NEW n \in Sizes, Com_EraseBuffer(n)
          PROVE  Queue!Take(n)
      <3>1. buf' = Erase(buf, n) /\ n \in Nat
        BY <2>2, SizesAreNat DEF Com_EraseBuffer
      <3>2. Data(buf') = SubSeq(Data(buf), n + 1, Len(Data(buf)))
        BY <2>0, <3>1, EraseDrops
      <3> QED BY <3>2 DEF Queue!Take, Queue!Drop
    <2>3. ASSUME NEW n \in Sizes, Com_ReserveBuffer(n)
          PROVE  Data(buf)' = Data(buf)
      BY <2>0, <2>3, SizesAreNat, ReserveKeeps DEF Com_ReserveBuffer
    <2>4. CASE Com_ClearBuffer
      BY <2>4, EmptyIsBuffer DEF Com_ClearBuffer, Queue!Clear, Queue!Next
    <2>5. CASE UNCHANGED bufferVars
      BY <2>5 DEF bufferVars
    <2> QED BY <2>1, <2>2, <2>3, <2>4, <2>5 DEF BufferNext, Queue!Next
  <1> QED BY <1>1, <1>2, BufferInvariant, PTL DEF BufferSpec, QueueSpec, Queue!Spec

-----------------------------------------------------------------------------
(* Numbers as bytes: the ranges of the fields, and their two halves.      *)

\* The ranges of the fields as bounds.
LEMMA Ranges ==
  /\ \A v : v \in Octet <=> v \in Int /\ 0 <= v /\ v <= 255
  /\ \A v : v \in Word <=> v \in Int /\ 0 <= v /\ v <= 65535
  /\ \A v : v \in S16 <=> v \in Int /\ -32768 <= v /\ v <= 32767
  <1>1. \A v : v \in Octet <=> v \in Int /\ 0 <= v /\ v <= 255
    BY SMT DEF Octet
  <1>2. MaxU16 \in Int /\ Max16 \in Int /\ -Max16 - 1 \in Int
    BY SMT DEF MaxU16, Max16
  <1>3. \A v : v \in Word <=> v \in Int /\ 0 <= v /\ v <= MaxU16
    BY <1>2, SMT DEF Word
  <1>4. \A v : v \in S16 <=> v \in Int /\ -Max16 - 1 <= v /\ v <= Max16
    BY <1>2, SMT DEF S16
  <1>5. MaxU16 = 65535 /\ Max16 = 32767 /\ -Max16 - 1 = -32768
    BY SMT DEF MaxU16, Max16
  <1> QED BY <1>1, <1>3, <1>4, <1>5, SMT

\* The two bytes of a number's low half put together.
LEMMA HalvesOf ==
  ASSUME NEW v \in Int, NEW w \in Int, NEW q \in Int, NEW r \in Int,
         w = v % 65536, q = w \div 256, r = v % 256
  PROVE  q \in Octet /\ r \in Octet /\ q * 256 + r = w
  <1>1. r = w % 256
    BY SMT
  <1>2. 256 * q <= w /\ w < 256 * q + 256
    BY SMT
  <1>3. w - 256 * q = w % 256
    BY <1>2, SMT
  <1>4. q * 256 + r = w
    BY <1>1, <1>3, SMT
  <1>5. 0 <= w /\ w < 65536 /\ 0 <= r /\ r <= 255
    BY SMT
  <1>6. 0 <= q /\ q <= 255
    BY <1>2, <1>5, SMT
  <1> QED BY <1>4, <1>5, <1>6, Ranges, SMT

\* The 16 low bits of a number are two octets, and come back as they were.
LEMMA Halves ==
  ASSUME NEW v \in Int
  PROVE  /\ High(v) \in Octet /\ Low(v) \in Octet
         /\ High(v) * 256 + Low(v) = v % 65536
  <1>1. v % 65536 \in Int /\ High(v) \in Int /\ Low(v) \in Int
    BY SMT DEF High, Low
  <1> QED BY <1>1, HalvesOf, SMT DEF High, Low

\* What 16 bits keep of a number: all of it, or its two's complement.
LEMMA LowBits ==
  /\ \A v \in Word : v % 65536 = v
  /\ \A v \in S16 : v % 65536 = IF v < 0 THEN v + 65536 ELSE v
  <1>1. ASSUME NEW v \in Int, 0 <= v, v < 65536
        PROVE  v % 65536 = v
    BY <1>1, SMT
  <1>2. ASSUME NEW v \in Int, -65536 < v, v < 0
        PROVE  v % 65536 = v + 65536
    BY <1>2, SMT
  <1>3. \A v \in Word : v % 65536 = v
    BY <1>1, Ranges, SMT
  <1>4. ASSUME NEW v \in S16
        PROVE  v % 65536 = IF v < 0 THEN v + 65536 ELSE v
    BY <1>1, <1>2, Ranges, SMT
  <1> QED BY <1>3, <1>4, SMT

\* Two octets read as a field give a value of the field.
LEMMA ToU16Range ==
  ASSUME NEW b, b[1] \in Octet, b[2] \in Octet
  PROVE  ToU16(b) \in Word /\ To16(b) \in S16
  <1>1. ToU16(b) \in Int /\ 0 <= ToU16(b) /\ ToU16(b) <= 65535
    BY Ranges, SMT DEF ToU16
  <1>2. To16(b) \in Int /\ -32768 <= To16(b) /\ To16(b) <= 32767
    BY <1>1, SMT DEF To16
  <1> QED BY <1>1, <1>2, Ranges, SMT

\* Two octets put together, as what 16 bits keep.
LEMMA LowHalf ==
  ASSUME NEW b, NEW v \in Int, b[1] = High(v), b[2] = Low(v)
  PROVE  ToU16(b) = v % 65536
  BY Halves, SMT DEF ToU16

\* Two octets that are the halves of a number give it back.
LEMMA FromHalves ==
  ASSUME NEW b, NEW v \in Int, b[1] = High(v), b[2] = Low(v)
  PROVE  /\ v \in Word => ToU16(b) = v
         /\ v \in S16 => To16(b) = v
  <1>1. ToU16(b) = v % 65536
    BY LowHalf, SMT
  <1>2. v \in Word => v % 65536 = v
    BY LowBits, SMT
  <1>3. v \in S16 => v % 65536 = IF v < 0 THEN v + 65536 ELSE v
    BY LowBits, SMT
  <1>4. v \in S16 => To16(b) = v
    <2> SUFFICES ASSUME v \in S16 PROVE To16(b) = v
      OBVIOUS
    <2>1. -32768 <= v /\ v <= 32767
      BY Ranges, SMT
    <2> QED BY <1>1, <1>3, <2>1, SMT DEF To16
  <1> QED BY <1>1, <1>2, <1>4, SMT

\* The octets of a number, signed or not, from the number.
LEMMA HighLow ==
  ASSUME NEW v \in Int, NEW h \in Octet, NEW l \in Octet,
         v = h * 256 + l \/ v = (h * 256 + l) - 65536
  PROVE  High(v) = h /\ Low(v) = l
  <1>1. h \in Int /\ 0 <= h /\ h <= 255 /\ l \in Int /\ 0 <= l /\ l <= 255
    BY Ranges, SMT
  <1> DEFINE w == h * 256 + l
  <1>2. w \in Int /\ 0 <= w /\ w < 65536 /\ w \div 256 = h
    BY <1>1, SMT
  <1>3. w % 256 = l
    BY <1>1, SMT
  <1>4. v = w \/ v = w - 65536
    BY <1>1, SMT
  <1> HIDE DEF w
  <1>5. v % 65536 = w
    BY <1>2, <1>4, SMT
  <1>6. v % 256 = w % 256
    BY <1>2, <1>4, SMT
  <1> QED BY <1>2, <1>3, <1>5, <1>6, SMT DEF High, Low

\* Reading a field and writing it again gives its octets.
LEMMA ToHalves ==
  ASSUME NEW b, b[1] \in Octet, b[2] \in Octet
  PROVE  /\ High(ToU16(b)) = b[1] /\ Low(ToU16(b)) = b[2]
         /\ High(To16(b)) = b[1] /\ Low(To16(b)) = b[2]
  <1>1. ToU16(b) \in Int /\ To16(b) \in Int
    BY ToU16Range, Ranges, SMT
  <1>2. ToU16(b) = b[1] * 256 + b[2]
    BY SMT DEF ToU16
  <1>3. \/ To16(b) = b[1] * 256 + b[2]
        \/ To16(b) = (b[1] * 256 + b[2]) - 65536
    <2>1. CASE ToU16(b) < 32768
      BY <1>2, <2>1, SMT DEF To16
    <2>2. CASE ~(ToU16(b) < 32768)
      <3>1. To16(b) = ToU16(b) - 65536
        BY <2>2, SMT DEF To16
      <3>2. b[1] \in Int /\ b[2] \in Int
        BY Ranges, SMT
      <3>3. b[1] * 256 + b[2] \in Int /\ To16(b) = (b[1] * 256 + b[2]) - 65536
        BY <1>2, <3>1, <3>2, SMT
      <3> QED BY <3>3, SMT
    <2> QED BY <2>1, <2>2
  <1>4. High(ToU16(b)) = b[1] /\ Low(ToU16(b)) = b[2]
    BY <1>1, <1>2, HighLow, SMT
  <1>5. High(To16(b)) = b[1] /\ Low(To16(b)) = b[2]
    BY <1>1, <1>3, HighLow, SMT
  <1> QED BY <1>4, <1>5

-----------------------------------------------------------------------------
(* The bytes of the fields, one by one.                                    *)

\* A field on the wire is two octets, the higher first.
LEMMA U16Bytes ==
  ASSUME NEW v \in Int
  PROVE  /\ U16(v) \in Seq(Octet) /\ Len(U16(v)) = 2
         /\ U16(v)[1] = High(v) /\ U16(v)[2] = Low(v)
  <1>1. High(v) \in Octet /\ Low(v) \in Octet
    BY Halves
  <1> QED BY <1>1 DEF U16

\* Two fields are four octets.
LEMMA TwoU16 ==
  ASSUME NEW a \in Int, NEW b \in Int
  PROVE  LET s == U16(a) \o U16(b)
         IN  /\ s \in Seq(Octet) /\ Len(s) = 4
             /\ s[1] = High(a) /\ s[2] = Low(a) /\ s[3] = High(b) /\ s[4] = Low(b)
  <1> DEFINE u == U16(a)
             v == U16(b)
             s == u \o v
  <1>1. u \in Seq(Octet) /\ v \in Seq(Octet) /\ Len(u) = 2 /\ Len(v) = 2
        /\ u[1] = High(a) /\ u[2] = Low(a) /\ v[1] = High(b) /\ v[2] = Low(b)
    BY U16Bytes
  <1> HIDE DEF u, v
  <1>2. s \in Seq(Octet) /\ Len(s) = Len(u) + Len(v)
        /\ \A i \in 1..(Len(u) + Len(v)) :
             s[i] = IF i <= Len(u) THEN u[i] ELSE v[i - Len(u)]
    BY <1>1, ConcatProperties
  <1> HIDE DEF s
  <1>3. s[1] = u[1] /\ s[2] = u[2] /\ s[3] = v[1] /\ s[4] = v[2]
    BY <1>1, <1>2
  <1>4. /\ s \in Seq(Octet) /\ Len(s) = 4
        /\ s[1] = High(a) /\ s[2] = Low(a) /\ s[3] = High(b) /\ s[4] = Low(b)
    BY <1>1, <1>2, <1>3
  <1> QED BY <1>4 DEF s, u, v

\* p is the four numbers a, b, c and d.
FourFields(p, a, b, c, d) ==
  /\ p \in Seq(Octet) /\ Len(p) = 8
  /\ p[1] = High(a) /\ p[2] = Low(a) /\ p[3] = High(b) /\ p[4] = Low(b)
  /\ p[5] = High(c) /\ p[6] = Low(c) /\ p[7] = High(d) /\ p[8] = Low(d)

\* Four fields are eight octets, in their order.
LEMMA FourU16 ==
  ASSUME NEW a \in Int, NEW b \in Int, NEW c \in Int, NEW d \in Int
  PROVE  FourFields(U16(a) \o U16(b) \o U16(c) \o U16(d), a, b, c, d)
  <1> DEFINE u == U16(a) \o U16(b)
             v == U16(c) \o U16(d)
             s == u \o v
  <1>1. U16(a) \in Seq(Octet) /\ U16(b) \in Seq(Octet) /\ U16(c) \in Seq(Octet)
        /\ U16(d) \in Seq(Octet)
    BY U16Bytes
  <1>2. /\ u \in Seq(Octet) /\ Len(u) = 4
        /\ u[1] = High(a) /\ u[2] = Low(a) /\ u[3] = High(b) /\ u[4] = Low(b)
    BY TwoU16
  <1>3. /\ v \in Seq(Octet) /\ Len(v) = 4
        /\ v[1] = High(c) /\ v[2] = Low(c) /\ v[3] = High(d) /\ v[4] = Low(d)
    BY TwoU16
  <1>4. ASSUME NEW x \in Seq(Octet), NEW y \in Seq(Octet), NEW z \in Seq(Octet)
        PROVE  x \o y \o z = x \o (y \o z)
    BY ConcatAssociative
  <1>8. U16(a) \o U16(b) \o U16(c) \o U16(d) = s
    BY <1>1, <1>2, <1>4, Zenon
  <1> HIDE DEF u, v
  <1>5. s \in Seq(Octet) /\ Len(s) = Len(u) + Len(v)
        /\ \A i \in 1..(Len(u) + Len(v)) :
             s[i] = IF i <= Len(u) THEN u[i] ELSE v[i - Len(u)]
    BY <1>2, <1>3, ConcatProperties
  <1> HIDE DEF s
  <1>6. s[1] = u[1] /\ s[2] = u[2] /\ s[3] = u[3] /\ s[4] = u[4]
        /\ s[5] = v[1] /\ s[6] = v[2] /\ s[7] = v[3] /\ s[8] = v[4]
    BY <1>2, <1>3, <1>5
  <1>7. FourFields(s, a, b, c, d)
    BY <1>2, <1>3, <1>5, <1>6 DEF FourFields
  <1> QED BY <1>8, <1>7, Zenon

\* The numbers say what the bytes are.
LEMMA FourFieldsEqual ==
  ASSUME NEW p, NEW q, NEW a, NEW b, NEW c, NEW d,
         FourFields(p, a, b, c, d), FourFields(q, a, b, c, d)
  PROVE  p = q
  <1>1. p \in Seq(Octet) /\ q \in Seq(Octet) /\ Len(p) = 8 /\ Len(q) = 8
    BY DEF FourFields
  <1>2. \A i \in 1..8 : p[i] = q[i]
    BY DEF FourFields
  <1> QED BY <1>1, <1>2, SeqEqual

\* Two bytes out of a body.
LEMMA TwoBytes ==
  ASSUME NEW p \in Seq(Octet), NEW i \in Nat \ {0}, NEW j \in Nat, j = i + 1, j <= Len(p)
  PROVE  LET b == SubSeq(p, i, j)
         IN  b[1] = p[i] /\ b[2] = p[j] /\ b[1] \in Octet /\ b[2] \in Octet
  <1> DEFINE b == SubSeq(p, i, j)
  <1>1. Len(p) \in Nat /\ \A k \in i..j : p[k] \in Octet
    BY LenProperties, ElementOfSeq
  <1>2. \A k \in 1..(j - i + 1) : b[k] = p[i + k - 1]
    BY <1>1, SubSeqProperties
  <1> HIDE DEF b
  <1>3. b[1] = p[i] /\ b[2] = p[j]
    BY <1>2
  <1>4. b[1] = p[i] /\ b[2] = p[j] /\ b[1] \in Octet /\ b[2] \in Octet
    BY <1>1, <1>3
  <1> QED BY <1>4 DEF b

\* Reading the numbers back.
LEMMA ReadFields ==
  ASSUME NEW a \in Int, NEW b \in Int, NEW c \in Int, NEW d \in Int, NEW p,
         FourFields(p, a, b, c, d)
  PROVE  /\ a \in Word => ToU16(SubSeq(p, 1, 2)) = a
         /\ b \in Word => ToU16(SubSeq(p, 3, 4)) = b
         /\ b \in S16 => To16(SubSeq(p, 3, 4)) = b
         /\ c \in S16 => To16(SubSeq(p, 5, 6)) = c
         /\ d \in S16 => To16(SubSeq(p, 7, 8)) = d
  <1>1. p \in Seq(Octet) /\ Len(p) = 8
        /\ p[1] = High(a) /\ p[2] = Low(a) /\ p[3] = High(b) /\ p[4] = Low(b)
        /\ p[5] = High(c) /\ p[6] = Low(c) /\ p[7] = High(d) /\ p[8] = Low(d)
    BY DEF FourFields
  <1>2. SubSeq(p, 1, 2)[1] = High(a) /\ SubSeq(p, 1, 2)[2] = Low(a)
    BY <1>1, TwoBytes
  <1>3. SubSeq(p, 3, 4)[1] = High(b) /\ SubSeq(p, 3, 4)[2] = Low(b)
    BY <1>1, TwoBytes
  <1>4. SubSeq(p, 5, 6)[1] = High(c) /\ SubSeq(p, 5, 6)[2] = Low(c)
    BY <1>1, TwoBytes
  <1>5. SubSeq(p, 7, 8)[1] = High(d) /\ SubSeq(p, 7, 8)[2] = Low(d)
    BY <1>1, TwoBytes
  <1> QED BY <1>2, <1>3, <1>4, <1>5, FromHalves, Zenon

\* What is read is in range, whatever the bytes.
LEMMA ReadRanges ==
  ASSUME NEW p \in Seq(Octet), Len(p) = 8
  PROVE  /\ ToU16(SubSeq(p, 1, 2)) \in Word
         /\ ToU16(SubSeq(p, 3, 4)) \in Word /\ To16(SubSeq(p, 3, 4)) \in S16
         /\ To16(SubSeq(p, 5, 6)) \in S16 /\ To16(SubSeq(p, 7, 8)) \in S16
  <1>0. /\ Len(p) = 8 /\ 1 \in Nat \ {0} /\ 3 \in Nat \ {0} /\ 5 \in Nat \ {0} /\ 7 \in Nat \ {0}
        /\ 2 \in Nat /\ 4 \in Nat /\ 6 \in Nat /\ 8 \in Nat
        /\ 2 = 1 + 1 /\ 4 = 3 + 1 /\ 6 = 5 + 1 /\ 8 = 7 + 1
        /\ 2 <= 8 /\ 4 <= 8 /\ 6 <= 8 /\ 8 <= 8
    OBVIOUS
  <1>1. SubSeq(p, 1, 2)[1] \in Octet /\ SubSeq(p, 1, 2)[2] \in Octet
    BY <1>0, TwoBytes
  <1>2. SubSeq(p, 3, 4)[1] \in Octet /\ SubSeq(p, 3, 4)[2] \in Octet
    BY <1>0, TwoBytes
  <1>3. SubSeq(p, 5, 6)[1] \in Octet /\ SubSeq(p, 5, 6)[2] \in Octet
    BY <1>0, TwoBytes
  <1>4. SubSeq(p, 7, 8)[1] \in Octet /\ SubSeq(p, 7, 8)[2] \in Octet
    BY <1>0, TwoBytes
  <1> QED BY <1>1, <1>2, <1>3, <1>4, ToU16Range, Zenon

\* And writing down what was read.
LEMMA WriteFields ==
  ASSUME NEW p \in Seq(Octet), Len(p) = 8,
         NEW a \in {ToU16(SubSeq(p, 1, 2))},
         NEW b \in {ToU16(SubSeq(p, 3, 4)), To16(SubSeq(p, 3, 4))},
         NEW c \in {To16(SubSeq(p, 5, 6))}, NEW d \in {To16(SubSeq(p, 7, 8))}
  PROVE  U16(a) \o U16(b) \o U16(c) \o U16(d) = p
  <1> DEFINE b1 == SubSeq(p, 1, 2)
             b2 == SubSeq(p, 3, 4)
             b3 == SubSeq(p, 5, 6)
             b4 == SubSeq(p, 7, 8)
  <1>0. /\ Len(p) = 8 /\ 1 \in Nat \ {0} /\ 3 \in Nat \ {0} /\ 5 \in Nat \ {0} /\ 7 \in Nat \ {0}
        /\ 2 \in Nat /\ 4 \in Nat /\ 6 \in Nat /\ 8 \in Nat
        /\ 2 = 1 + 1 /\ 4 = 3 + 1 /\ 6 = 5 + 1 /\ 8 = 7 + 1
        /\ 2 <= 8 /\ 4 <= 8 /\ 6 <= 8 /\ 8 <= 8
    OBVIOUS
  <1>a. b1[1] = p[1] /\ b1[2] = p[2] /\ b1[1] \in Octet /\ b1[2] \in Octet
    BY <1>0, TwoBytes
  <1>b. b2[1] = p[3] /\ b2[2] = p[4] /\ b2[1] \in Octet /\ b2[2] \in Octet
    BY <1>0, TwoBytes
  <1>c. b3[1] = p[5] /\ b3[2] = p[6] /\ b3[1] \in Octet /\ b3[2] \in Octet
    BY <1>0, TwoBytes
  <1>d. b4[1] = p[7] /\ b4[2] = p[8] /\ b4[1] \in Octet /\ b4[2] \in Octet
    BY <1>0, TwoBytes
  <1>2. a = ToU16(b1) /\ (b = ToU16(b2) \/ b = To16(b2)) /\ c = To16(b3) /\ d = To16(b4)
    OBVIOUS
  <1> HIDE DEF b1, b2, b3, b4
  <1>3. a \in Int /\ b \in Int /\ c \in Int /\ d \in Int
    <2>1. /\ ToU16(b1) \in Word /\ ToU16(b2) \in Word /\ To16(b2) \in S16
          /\ To16(b3) \in S16 /\ To16(b4) \in S16
      BY <1>a, <1>b, <1>c, <1>d, ToU16Range, Zenon
    <2> QED BY <1>2, <2>1, Ranges, SMT
  <1>4. /\ High(a) = p[1] /\ Low(a) = p[2] /\ High(b) = p[3] /\ Low(b) = p[4]
        /\ High(c) = p[5] /\ Low(c) = p[6] /\ High(d) = p[7] /\ Low(d) = p[8]
    BY <1>a, <1>b, <1>c, <1>d, <1>2, ToHalves, Zenon
  <1>5. FourFields(p, a, b, c, d)
    BY <1>4 DEF FourFields
  <1>6. FourFields(U16(a) \o U16(b) \o U16(c) \o U16(d), a, b, c, d)
    BY <1>3, FourU16
  <1> QED BY <1>5, <1>6, FourFieldsEqual

-----------------------------------------------------------------------------
(* The messages.                                                           *)

\* A message, by its type.
LEMMA MsgCases ==
  ASSUME NEW m \in Msg
  PROVE  \/ /\ m.t \in {"NM_MSG_KEEPALIVE", "NM_MSG_HANDSHAKE_REPLY"}
            /\ m = [t |-> m.t]
         \/ /\ m.t = "NM_MSG_HANDSHAKE" /\ m = [t |-> m.t, srv_pos |-> m.srv_pos]
            /\ m.srv_pos \in 0..3
         \/ /\ m.t \in {"NM_MSG_ENTER", "NM_MSG_LEAVE"}
            /\ m = [t |-> m.t, src_x_fullscreen |-> m.src_x_fullscreen,
                    src_y_fullscreen |-> m.src_y_fullscreen, x |-> m.x, y |-> m.y]
            /\ m.src_x_fullscreen \in Word /\ m.src_y_fullscreen \in Word
            /\ m.x \in S16 /\ m.y \in S16
         \/ /\ m.t = "NM_MSG_MOUSE"
            /\ m = [t |-> m.t, msg |-> m.msg, x |-> m.x, y |-> m.y, data |-> m.data]
            /\ m.msg \in Word /\ m.x \in S16 /\ m.y \in S16 /\ m.data \in S16
         \/ /\ m.t = "NM_MSG_KEYBOARD"
            /\ m = [t |-> m.t, vk |-> m.vk, scan |-> m.scan,
                    is_keydown |-> m.is_keydown]
            /\ m.vk \in Octet /\ m.scan \in Octet /\ m.is_keydown \in BOOLEAN
         \/ /\ m.t = "NM_MSG_CLIPDATA"
            /\ m = [t |-> m.t, data_type |-> m.data_type, data |-> m.data]
            /\ m.data_type = 0 /\ m.data \in Seq(Octet) /\ m.data # <<>>
  BY DEF Msg, NM_POS_MAX, NM_CLIP_TEXT

\* The number of a type.
LEMMA TypeNumbers ==
  /\ Len(Types) = 8
  /\ Types[1] = "NM_MSG_KEEPALIVE" /\ Types[2] = "NM_MSG_HANDSHAKE"
  /\ Types[3] = "NM_MSG_HANDSHAKE_REPLY" /\ Types[4] = "NM_MSG_ENTER"
  /\ Types[5] = "NM_MSG_LEAVE" /\ Types[6] = "NM_MSG_MOUSE"
  /\ Types[7] = "NM_MSG_KEYBOARD" /\ Types[8] = "NM_MSG_CLIPDATA"
  BY DEF Types

\* A type has one number.
LEMMA TypesDiffer ==
  ASSUME NEW i \in 1..8, NEW j \in 1..8, Types[i] = Types[j]
  PROVE  i = j
  BY TypeNumbers

\* TypeOf is the number of the type.
LEMMA TypeOfIs ==
  ASSUME NEW m, NEW i \in 1..8, m.t = Types[i]
  PROVE  TypeOf(m) = i - 1
  <1> DEFINE k == CHOOSE j \in 1..Len(Types) : Types[j] = m.t
  <1>1. Len(Types) = 8
    BY TypeNumbers
  <1>2. k \in 1..8 /\ Types[k] = m.t
    BY <1>1
  <1>3. TypeOf(m) = k - 1
    BY DEF TypeOf
  <1> HIDE DEF k
  <1>4. k = i
    BY <1>2, TypesDiffer
  <1> QED BY <1>3, <1>4

\* A message has a type the parser knows.
LEMMA MsgHasType ==
  ASSUME NEW m \in Msg
  PROVE  TypeOf(m) \in 0..7 /\ Types[TypeOf(m) + 1] = m.t
  <1>1. \E i \in 1..8 : m.t = Types[i]
    BY MsgCases, TypeNumbers
  <1>2. PICK i \in 1..8 : m.t = Types[i]
    BY <1>1
  <1>3. TypeOf(m) = i - 1
    BY <1>2, TypeOfIs
  <1> QED BY <1>2, <1>3

\* A body is its type and its fields, and taken apart into them.
LEMMA TypeThenFields ==
  ASSUME NEW k \in Octet, NEW f \in Seq(Octet)
  PROVE  LET s == <<k>> \o f
         IN  /\ s \in Seq(Octet) /\ Len(s) = Len(f) + 1 /\ s[1] = k /\ Tail(s) = f
             /\ \A i \in 1..Len(f) : s[i + 1] = f[i]
  <1> DEFINE u == <<k>>
             s == u \o f
  <1>1. u \in Seq(Octet) /\ Len(u) = 1 /\ u[1] = k /\ Len(f) \in Nat
    BY LenProperties
  <1> HIDE DEF u
  <1>2. s \in Seq(Octet) /\ Len(s) = Len(u) + Len(f)
        /\ \A i \in 1..(Len(u) + Len(f)) :
             s[i] = IF i <= Len(u) THEN u[i] ELSE f[i - Len(u)]
    BY <1>1, ConcatProperties
  <1> HIDE DEF s
  <1>3. Len(s) = Len(f) + 1 /\ s[1] = k /\ \A i \in 1..Len(f) : s[i + 1] = f[i]
    BY <1>1, <1>2
  <1>4. s # <<>>
    BY <1>1, <1>3
  <1>5. Tail(s) \in Seq(Octet) /\ Len(Tail(s)) = Len(f)
        /\ \A i \in 1..Len(Tail(s)) : Tail(s)[i] = s[i + 1]
    BY <1>1, <1>2, <1>3, <1>4, HeadTailProperties
  <1>6. Tail(s) = f
    BY <1>3, <1>5, SeqEqual
  <1>7. /\ s \in Seq(Octet) /\ Len(s) = Len(f) + 1 /\ s[1] = k /\ Tail(s) = f
        /\ \A i \in 1..Len(f) : s[i + 1] = f[i]
    BY <1>2, <1>3, <1>6
  <1> QED BY <1>7, Zenon DEF s, u

\* A body that is not empty is a type and the rest.
LEMMA BodyIs ==
  ASSUME NEW s \in Seq(Octet), s # <<>>
  PROVE  s = <<s[1]>> \o Tail(s) /\ s[1] \in Octet /\ Tail(s) \in Seq(Octet)
         /\ Len(Tail(s)) = Len(s) - 1 /\ Len(s) \in Nat \ {0}
         /\ Len(s) = Len(Tail(s)) + 1
  <1>1. /\ Tail(s) \in Seq(Octet) /\ Len(Tail(s)) = Len(s) - 1
        /\ \A i \in 1..Len(Tail(s)) : Tail(s)[i] = s[i + 1]
    BY HeadTailProperties
  <1>2. Len(s) \in Nat \ {0}
    BY EmptySeq
  <1>3. s[1] \in Octet
    BY <1>2, ElementOfSeq
  <1> DEFINE u == <<s[1]>> \o Tail(s)
  <1>4. /\ u \in Seq(Octet) /\ Len(u) = Len(Tail(s)) + 1 /\ u[1] = s[1]
        /\ \A i \in 1..Len(Tail(s)) : u[i + 1] = Tail(s)[i]
    BY <1>1, <1>3, TypeThenFields
  <1> HIDE DEF u
  <1>5. Len(u) = Len(s)
    BY <1>1, <1>2, <1>4
  <1>6. ASSUME NEW i \in 1..Len(s)
        PROVE  u[i] = s[i]
    <2>1. CASE i = 1
      BY <1>4, <2>1
    <2>2. CASE i # 1
      <3>1. i - 1 \in 1..Len(Tail(s)) /\ (i - 1) + 1 = i
        BY <1>1, <1>2, <2>2
      <3> QED BY <1>1, <1>4, <3>1
    <2> QED BY <2>1, <2>2
  <1>7. s = u
    BY <1>4, <1>5, <1>6, SeqEqual
  <1>8. Len(s) = Len(Tail(s)) + 1
    BY <1>1, <1>2
  <1> QED BY <1>1, <1>2, <1>3, <1>7, <1>8 DEF u

\* Encoding, then parsing: the fields of a message are as long as the header
\* says and mean the message.
FieldsMean(m) ==
  /\ Fields(m) \in Seq(Octet) /\ Size(m) = Len(Fields(m)) + 1
  /\ LengthFits(m.t, Len(Fields(m))) /\ ParseFields(m.t, Fields(m)) = m

\* KEEPALIVE and HANDSHAKE_REPLY.
LEMMA EmptyFieldsMean ==
  ASSUME NEW m, m.t \in {"NM_MSG_KEEPALIVE", "NM_MSG_HANDSHAKE_REPLY"},
         m = [t |-> m.t]
  PROVE  FieldsMean(m)
  <1>1. Fields(m) = <<>> /\ Size(m) = 1
    BY DEF Fields, Size
  <1>2. LengthFits(m.t, 0) /\ ParseFields(m.t, <<>>) = [t |-> m.t]
    BY DEF LengthFits, ParseFields
  <1> QED BY <1>1, <1>2 DEF FieldsMean

\* HANDSHAKE.
LEMMA HandshakeFieldsMean ==
  ASSUME NEW m, m.t = "NM_MSG_HANDSHAKE", m.srv_pos \in 0..3,
         m = [t |-> m.t, srv_pos |-> m.srv_pos]
  PROVE  FieldsMean(m)
  <1>1. Fields(m) = <<m.srv_pos>> /\ Size(m) = 2
    BY DEF Fields, Size
  <1>2. m.srv_pos \in Octet
    BY Ranges
  <1> DEFINE p == <<m.srv_pos>>
  <1>3. p \in Seq(Octet) /\ Len(p) = 1 /\ p[1] = m.srv_pos
    BY <1>2
  <1> HIDE DEF p
  <1>4. LengthFits(m.t, 1)
    BY DEF LengthFits
  <1>5. ParseFields(m.t, p) = [t |-> m.t, srv_pos |-> m.srv_pos]
    BY <1>3 DEF ParseFields, ParseHandshake, NM_POS_MAX
  <1> QED BY <1>1, <1>3, <1>4, <1>5 DEF FieldsMean, p

\* ENTER and LEAVE.
LEMMA PointFieldsMean ==
  ASSUME NEW m, m.t \in {"NM_MSG_ENTER", "NM_MSG_LEAVE"},
         m = [t |-> m.t, src_x_fullscreen |-> m.src_x_fullscreen,
              src_y_fullscreen |-> m.src_y_fullscreen, x |-> m.x, y |-> m.y],
         m.src_x_fullscreen \in Word, m.src_y_fullscreen \in Word,
         m.x \in S16, m.y \in S16
  PROVE  FieldsMean(m)
  <1> DEFINE a == m.src_x_fullscreen
             b == m.src_y_fullscreen
             p == U16(a) \o U16(b) \o U16(m.x) \o U16(m.y)
  <1>1. Fields(m) = p /\ Size(m) = 9 /\ LengthFits(m.t, 8)
    <2>1. Fields(m) = p
      BY DEF Fields
    <2>2. Size(m) = 9
      BY DEF Size
    <2>3. LengthFits(m.t, 8)
      BY DEF LengthFits
    <2> QED BY <2>1, <2>2, <2>3
  <1>2. a \in Int /\ b \in Int /\ m.x \in Int /\ m.y \in Int
    BY Ranges
  <1>3. FourFields(p, a, b, m.x, m.y)
    BY <1>2, FourU16
  <1> HIDE DEF p
  <1>4. /\ ToU16(SubSeq(p, 1, 2)) = a /\ ToU16(SubSeq(p, 3, 4)) = b
        /\ To16(SubSeq(p, 5, 6)) = m.x /\ To16(SubSeq(p, 7, 8)) = m.y
    BY <1>2, <1>3, ReadFields
  <1>5. ParseFields(m.t, p) = m
    BY <1>4 DEF ParseFields, ParsePoint
  <1>6. p \in Seq(Octet) /\ Len(p) = 8
    BY <1>3 DEF FourFields
  <1> QED BY <1>1, <1>5, <1>6 DEF FieldsMean

\* MOUSE.
LEMMA MouseFieldsMean ==
  ASSUME NEW m, m.t = "NM_MSG_MOUSE",
         m = [t |-> m.t, msg |-> m.msg, x |-> m.x, y |-> m.y, data |-> m.data],
         m.msg \in Word, m.x \in S16, m.y \in S16, m.data \in S16
  PROVE  FieldsMean(m)
  <1> DEFINE p == U16(m.msg) \o U16(m.x) \o U16(m.y) \o U16(m.data)
  <1>1. Fields(m) = p /\ Size(m) = 9 /\ LengthFits(m.t, 8)
    BY DEF Fields, Size, LengthFits
  <1>2. m.msg \in Int /\ m.x \in Int /\ m.y \in Int /\ m.data \in Int
    BY Ranges
  <1>3. FourFields(p, m.msg, m.x, m.y, m.data)
    BY <1>2, FourU16
  <1> HIDE DEF p
  <1>4. /\ ToU16(SubSeq(p, 1, 2)) = m.msg /\ To16(SubSeq(p, 3, 4)) = m.x
        /\ To16(SubSeq(p, 5, 6)) = m.y /\ To16(SubSeq(p, 7, 8)) = m.data
    BY <1>2, <1>3, ReadFields
  <1>5. ParseFields(m.t, p) = m
    BY <1>4 DEF ParseFields, ParseMouse
  <1>6. p \in Seq(Octet) /\ Len(p) = 8
    BY <1>3 DEF FourFields
  <1> QED BY <1>1, <1>5, <1>6 DEF FieldsMean

\* KEYBOARD.
LEMMA KeyboardFieldsMean ==
  ASSUME NEW m, m.t = "NM_MSG_KEYBOARD",
         m = [t |-> m.t, vk |-> m.vk, scan |-> m.scan, is_keydown |-> m.is_keydown],
         m.vk \in Octet, m.scan \in Octet, m.is_keydown \in BOOLEAN
  PROVE  FieldsMean(m)
  <1> DEFINE d == IF m.is_keydown THEN 1 ELSE 0
             p == <<m.vk, m.scan, d>>
  <1>0. Fields(m) = p
    BY DEF Fields
  <1>1. Size(m) = 4 /\ LengthFits(m.t, 3)
    BY DEF Size, LengthFits
  <1>2. d \in Octet /\ m.is_keydown = (d # 0)
    BY Ranges
  <1> HIDE DEF d
  <1>3. p \in Seq(Octet) /\ Len(p) = 3 /\ p[1] = m.vk /\ p[2] = m.scan /\ p[3] = d
    BY <1>2
  <1> HIDE DEF p
  <1>4. ParseFields(m.t, p) = [t |-> m.t, vk |-> p[1], scan |-> p[2],
                               is_keydown |-> p[3] # 0]
    BY DEF ParseFields
  <1>5. ParseFields(m.t, p) = m
    BY <1>2, <1>3, <1>4
  <1> QED BY <1>0, <1>1, <1>3, <1>5 DEF FieldsMean

\* CLIPDATA.
LEMMA ClipdataFieldsMean ==
  ASSUME NEW m, m.t = "NM_MSG_CLIPDATA", m.data_type = 0,
         m = [t |-> m.t, data_type |-> m.data_type, data |-> m.data],
         m.data \in Seq(Octet), m.data # <<>>
  PROVE  FieldsMean(m)
  <1> DEFINE p == <<m.data_type>> \o m.data
  <1>1. Fields(m) = p /\ Size(m) = 1 + 1 + Len(m.data)
    BY DEF Fields, Size
  <1>2. 0 \in Octet /\ Len(m.data) \in Nat \ {0}
    BY Ranges, EmptySeq
  <1>3. p \in Seq(Octet) /\ Len(p) = Len(m.data) + 1 /\ p[1] = 0 /\ Tail(p) = m.data
    BY <1>2, TypeThenFields
  <1> HIDE DEF p
  <1>4. p # <<>> /\ Len(p) >= 2
    BY <1>2, <1>3
  <1>5. SubSeq(p, 2, Len(p)) = m.data
    BY <1>3, <1>4, TailIsSubSeq
  <1>6. LengthFits(m.t, Len(p))
    BY <1>4 DEF LengthFits
  <1>7. ParseFields(m.t, p) = m
    BY <1>3, <1>5 DEF ParseFields, ParseClipdata, NM_CLIP_TEXT
  <1> QED BY <1>1, <1>2, <1>3, <1>6, <1>7 DEF FieldsMean

\* So for every message.
LEMMA EveryFieldsMean ==
  ASSUME NEW m \in Msg
  PROVE  FieldsMean(m)
  BY MsgCases, EmptyFieldsMean, HandshakeFieldsMean, PointFieldsMean,
     MouseFieldsMean, KeyboardFieldsMean, ClipdataFieldsMean, SMT

\* NM_ParseFromBuffer undoes the encoders, and their length is the body's.
LEMMA RoundTrip ==
  ASSUME NEW m \in Msg
  PROVE  LET s == <<TypeOf(m)>> \o Fields(m)
         IN  s \in Seq(Octet) /\ Len(s) = Size(m) /\ Len(s) >= 1
             /\ NM_ParseFromBuffer(s) = m
  <1> DEFINE s == <<TypeOf(m)>> \o Fields(m)
  <1>1. /\ Fields(m) \in Seq(Octet) /\ Size(m) = Len(Fields(m)) + 1
        /\ LengthFits(m.t, Len(Fields(m))) /\ ParseFields(m.t, Fields(m)) = m
    BY EveryFieldsMean DEF FieldsMean
  <1>2. TypeOf(m) \in 0..7 /\ Types[TypeOf(m) + 1] = m.t /\ Len(Types) = 8
    BY MsgHasType, TypeNumbers
  <1>3. TypeOf(m) \in Octet /\ Len(Fields(m)) \in Nat
    BY <1>1, <1>2, LenProperties, Ranges
  <1>4. s \in Seq(Octet) /\ Len(s) = Len(Fields(m)) + 1 /\ s[1] = TypeOf(m)
        /\ Tail(s) = Fields(m)
    BY <1>1, <1>3, TypeThenFields
  <1> HIDE DEF s
  <1>5. ~(Len(s) < 1 \/ s[1] >= Len(Types)) /\ Len(s) - 1 = Len(Fields(m))
    BY <1>2, <1>3, <1>4
  <1>6. NM_ParseFromBuffer(s) = m
    BY <1>1, <1>2, <1>4, <1>5 DEF NM_ParseFromBuffer
  <1>7. s \in Seq(Octet) /\ Len(s) = Size(m) /\ Len(s) >= 1
    BY <1>1, <1>3, <1>4
  <1> QED BY <1>6, <1>7 DEF s

\* Parsing, then encoding: what the parser makes of a body is a message of
\* its type, whose fields are the body's again, but for the truth of
\* is_keydown.
SameFields(m, p) ==
  \/ Fields(m) = p
  \/ /\ m.t = "NM_MSG_KEYBOARD" /\ Fields(m) \in Seq(Octet)
     /\ Len(Fields(m)) = 3 /\ Len(p) = 3
     /\ Fields(m)[1] = p[1] /\ Fields(m)[2] = p[2]

ParsedWell(t, p, m) == m \in Msg /\ m.t = t /\ SameFields(m, p)

\* KEEPALIVE and HANDSHAKE_REPLY.
LEMMA EmptyParsedWell ==
  ASSUME NEW t \in {"NM_MSG_KEEPALIVE", "NM_MSG_HANDSHAKE_REPLY"},
         NEW p \in Seq(Octet), LengthFits(t, Len(p))
  PROVE  ParsedWell(t, p, ParseFields(t, p))
  <1>1. Len(p) = 0
    BY DEF LengthFits
  <1>2. p = <<>>
    BY <1>1, EmptySeq
  <1>3. ParseFields(t, p) = [t |-> t]
    BY DEF ParseFields
  <1>4. [t |-> t] \in Msg
    BY DEF Msg
  <1>5. Fields([t |-> t]) = <<>>
    BY DEF Fields
  <1> QED BY <1>2, <1>3, <1>4, <1>5 DEF ParsedWell, SameFields

\* HANDSHAKE.
LEMMA HandshakeParsedWell ==
  ASSUME NEW t, t = "NM_MSG_HANDSHAKE", NEW p \in Seq(Octet),
         LengthFits(t, Len(p)), ParseFields(t, p) # Bad
  PROVE  ParsedWell(t, p, ParseFields(t, p))
  <1> DEFINE m == [t |-> "NM_MSG_HANDSHAKE", srv_pos |-> p[1]]
  <1>1. Len(p) = 1
    BY DEF LengthFits
  <1>2. p[1] \in Octet
    BY <1>1, ElementOfSeq
  <1>3. ParseFields(t, p) = IF p[1] >= 4 THEN Bad ELSE m
    BY DEF ParseFields, ParseHandshake, NM_POS_MAX
  <1>4. p[1] \in 0..3 /\ ParseFields(t, p) = m
    BY <1>2, <1>3, Ranges, SMT
  <1>5. m \in Msg /\ m.t = t
    BY <1>4 DEF Msg, NM_POS_MAX
  <1>6. Fields(m) = <<p[1]>>
    BY DEF Fields
  <1>7. <<p[1]>> = p
    BY <1>1, <1>2, SeqEqual
  <1> QED BY <1>4, <1>5, <1>6, <1>7 DEF ParsedWell, SameFields

\* ENTER and LEAVE.
LEMMA PointParsedWell ==
  ASSUME NEW t \in {"NM_MSG_ENTER", "NM_MSG_LEAVE"}, NEW p \in Seq(Octet),
         LengthFits(t, Len(p))
  PROVE  ParsedWell(t, p, ParseFields(t, p))
  <1>0. Len(p) = 8
    BY DEF LengthFits
  <1> DEFINE a == ToU16(SubSeq(p, 1, 2))
             b == ToU16(SubSeq(p, 3, 4))
             c == To16(SubSeq(p, 5, 6))
             d == To16(SubSeq(p, 7, 8))
             m == [t |-> t, src_x_fullscreen |-> a, src_y_fullscreen |-> b,
                   x |-> c, y |-> d]
  <1>1. ParseFields(t, p) = m
    BY DEF ParseFields, ParsePoint
  <1>2. a \in Word /\ b \in Word /\ c \in S16 /\ d \in S16
    BY <1>0, ReadRanges
  <1>3. U16(a) \o U16(b) \o U16(c) \o U16(d) = p
    BY <1>0, WriteFields
  <1> HIDE DEF a, b, c, d
  <1>4. m \in Msg /\ m.t = t
    BY <1>2 DEF Msg
  <1>5. Fields(m) = U16(a) \o U16(b) \o U16(c) \o U16(d)
    BY DEF Fields
  <1> QED BY <1>1, <1>3, <1>4, <1>5 DEF ParsedWell, SameFields

\* MOUSE.
LEMMA MouseParsedWell ==
  ASSUME NEW t, t = "NM_MSG_MOUSE", NEW p \in Seq(Octet), LengthFits(t, Len(p))
  PROVE  ParsedWell(t, p, ParseFields(t, p))
  <1>0. Len(p) = 8
    BY DEF LengthFits
  <1> DEFINE a == ToU16(SubSeq(p, 1, 2))
             b == To16(SubSeq(p, 3, 4))
             c == To16(SubSeq(p, 5, 6))
             d == To16(SubSeq(p, 7, 8))
             m == [t |-> "NM_MSG_MOUSE", msg |-> a, x |-> b, y |-> c, data |-> d]
  <1>1. ParseFields(t, p) = m
    BY DEF ParseFields, ParseMouse
  <1>2. a \in Word /\ b \in S16 /\ c \in S16 /\ d \in S16
    BY <1>0, ReadRanges
  <1>3. U16(a) \o U16(b) \o U16(c) \o U16(d) = p
    BY <1>0, WriteFields
  <1> HIDE DEF a, b, c, d
  <1>4. m \in Msg /\ m.t = t
    BY <1>2 DEF Msg
  <1>5. Fields(m) = U16(a) \o U16(b) \o U16(c) \o U16(d)
    BY DEF Fields
  <1> QED BY <1>1, <1>3, <1>4, <1>5 DEF ParsedWell, SameFields

\* KEYBOARD.
LEMMA KeyboardParsedWell ==
  ASSUME NEW t, t = "NM_MSG_KEYBOARD", NEW p \in Seq(Octet), LengthFits(t, Len(p))
  PROVE  ParsedWell(t, p, ParseFields(t, p))
  <1>0. Len(p) = 3
    BY DEF LengthFits
  <1> DEFINE down == p[3] # 0
             m == [t |-> "NM_MSG_KEYBOARD", vk |-> p[1], scan |-> p[2],
                   is_keydown |-> down]
             d == IF m.is_keydown THEN 1 ELSE 0
  <1>1. ParseFields(t, p) = m
    BY DEF ParseFields
  <1>2. p[1] \in Octet /\ p[2] \in Octet /\ down \in BOOLEAN
    BY <1>0, ElementOfSeq
  <1> HIDE DEF down
  <1>3. m \in Msg /\ m.t = t
    BY <1>2 DEF Msg
  <1>4. Fields(m) = <<m.vk, m.scan, d>>
    BY DEF Fields
  <1>5. m.vk = p[1] /\ m.scan = p[2] /\ d \in Octet
    BY Ranges
  <1> HIDE DEF m, d
  <1>6. Fields(m) \in Seq(Octet) /\ Len(Fields(m)) = 3
        /\ Fields(m)[1] = p[1] /\ Fields(m)[2] = p[2]
    BY <1>2, <1>4, <1>5
  <1> QED BY <1>0, <1>1, <1>3, <1>6 DEF ParsedWell, SameFields

\* CLIPDATA.
LEMMA ClipdataParsedWell ==
  ASSUME NEW t, t = "NM_MSG_CLIPDATA", NEW p \in Seq(Octet),
         LengthFits(t, Len(p)), ParseFields(t, p) # Bad
  PROVE  ParsedWell(t, p, ParseFields(t, p))
  <1> DEFINE rest == SubSeq(p, 2, Len(p))
             m == [t |-> "NM_MSG_CLIPDATA", data_type |-> p[1], data |-> rest]
  <1>1. Len(p) >= 2 /\ Len(p) \in Nat
    BY LenProperties DEF LengthFits
  <1>2. ParseFields(t, p) = IF p[1] # 0 THEN Bad ELSE m
    BY DEF ParseFields, ParseClipdata, NM_CLIP_TEXT
  <1>3. p[1] = 0 /\ ParseFields(t, p) = m
    BY <1>2
  <1>4. p # <<>>
    BY <1>1
  <1>5. rest = Tail(p)
    BY <1>4, TailIsSubSeq
  <1>6. rest \in Seq(Octet) /\ Len(rest) = Len(p) - 1 /\ p = <<p[1]>> \o rest
    BY <1>4, <1>5, BodyIs
  <1>7. rest # <<>>
    <2>1. Len(rest) # 0
      BY <1>1, <1>6
    <2> HIDE DEF rest
    <2> QED BY <2>1
  <1> HIDE DEF rest
  <1>8. m \in Msg /\ m.t = t
    BY <1>3, <1>6, <1>7 DEF Msg, NM_CLIP_TEXT
  <1>9. Fields(m) = <<p[1]>> \o rest
    BY DEF Fields
  <1> QED BY <1>3, <1>6, <1>8, <1>9 DEF ParsedWell, SameFields

\* So for every type.
LEMMA EveryBodyParsedWell ==
  ASSUME NEW i \in 1..8, NEW p \in Seq(Octet), LengthFits(Types[i], Len(p)),
         ParseFields(Types[i], p) # Bad
  PROVE  ParsedWell(Types[i], p, ParseFields(Types[i], p))
  <1> DEFINE t == Types[i]
  <1>1. \/ t \in {"NM_MSG_KEEPALIVE", "NM_MSG_HANDSHAKE_REPLY"}
        \/ t = "NM_MSG_HANDSHAKE" \/ t \in {"NM_MSG_ENTER", "NM_MSG_LEAVE"}
        \/ t = "NM_MSG_MOUSE" \/ t = "NM_MSG_KEYBOARD" \/ t = "NM_MSG_CLIPDATA"
    BY TypeNumbers
  <1>2. LengthFits(t, Len(p)) /\ ParseFields(t, p) # Bad
    OBVIOUS
  <1> HIDE DEF t
  <1>3. ParsedWell(t, p, ParseFields(t, p))
    BY <1>1, <1>2, EmptyParsedWell, HandshakeParsedWell, PointParsedWell,
       MouseParsedWell, KeyboardParsedWell, ClipdataParsedWell
  <1> QED BY <1>3 DEF t

\* The same body again, but for the truth of is_keydown.
SameBody(m, again, was) ==
  \/ again = was
  \/ /\ m.t = "NM_MSG_KEYBOARD" /\ Len(again) = Len(was)
     /\ SubSeq(again, 1, 3) = SubSeq(was, 1, 3)

\* Prefixes of three equal bytes are equal.
LEMMA ThreeBytes ==
  ASSUME NEW s \in Seq(Octet), NEW u \in Seq(Octet), Len(s) >= 3, Len(u) >= 3,
         s[1] = u[1], s[2] = u[2], s[3] = u[3]
  PROVE  SubSeq(s, 1, 3) = SubSeq(u, 1, 3)
  <1> DEFINE v == SubSeq(s, 1, 3)
             w == SubSeq(u, 1, 3)
  <1>1. \A k \in 1..3 : s[k] \in Octet /\ u[k] \in Octet
    BY LenProperties, ElementOfSeq
  <1>2. v \in Seq(Octet) /\ Len(v) = 3 /\ \A k \in 1..3 : v[k] = s[1 + k - 1]
    BY <1>1, SubSeqProperties
  <1>3. w \in Seq(Octet) /\ Len(w) = 3 /\ \A k \in 1..3 : w[k] = u[1 + k - 1]
    BY <1>1, SubSeqProperties
  <1> HIDE DEF v, w
  <1>4. \A k \in 1..3 : v[k] = w[k]
    BY <1>2, <1>3
  <1>5. v = w
    BY <1>2, <1>3, <1>4, SeqEqual
  <1> QED BY <1>5 DEF v, w

\* What the parser accepts is a message that fits its fields, and the encoder
\* would write the same body, but for the truth of is_keydown.
LEMMA ParsedBack ==
  ASSUME NEW s \in Seq(Octet), NM_ParseFromBuffer(s) # Bad
  PROVE  LET m == NM_ParseFromBuffer(s)
         IN  m \in Msg /\ SameBody(m, <<TypeOf(m)>> \o Fields(m), s)
  <1> DEFINE m == NM_ParseFromBuffer(s)
             p == Tail(s)
             i == s[1] + 1
  <1>1. Len(s) \in Nat /\ ~(Len(s) < 1 \/ s[1] >= Len(Types))
    BY LenProperties DEF NM_ParseFromBuffer
  <1>2. s # <<>>
    BY <1>1
  <1>3. s = <<s[1]>> \o p /\ s[1] \in Octet /\ p \in Seq(Octet)
        /\ Len(p) = Len(s) - 1 /\ Len(s) = Len(p) + 1
    BY <1>2, BodyIs
  <1>4. i \in 1..8 /\ i - 1 = s[1]
    <2>1. s[1] \in Int /\ 0 <= s[1]
      BY <1>3, Ranges
    <2>2. s[1] < 8
      BY <1>1, <2>1, TypeNumbers
    <2> QED BY <2>1, <2>2
  <1>5. m = IF LengthFits(Types[i], Len(s) - 1) THEN ParseFields(Types[i], p) ELSE Bad
    BY <1>1 DEF NM_ParseFromBuffer
  <1>6. LengthFits(Types[i], Len(p)) /\ m = ParseFields(Types[i], p) /\ m # Bad
    BY <1>3, <1>5
  <1> HIDE DEF m, p, i
  <1>7. m \in Msg /\ m.t = Types[i] /\ SameFields(m, p)
    BY <1>3, <1>4, <1>6, EveryBodyParsedWell DEF ParsedWell
  <1>8. TypeOf(m) = s[1]
    BY <1>4, <1>7, TypeOfIs
  <1> DEFINE again == <<s[1]>> \o Fields(m)
  <1>9. SameBody(m, again, s)
    <2>1. CASE Fields(m) = p
      BY <1>3, <2>1 DEF SameBody
    <2>2. CASE Fields(m) # p
      <3>1. /\ m.t = "NM_MSG_KEYBOARD" /\ Fields(m) \in Seq(Octet)
            /\ Len(Fields(m)) = 3 /\ Len(p) = 3
            /\ Fields(m)[1] = p[1] /\ Fields(m)[2] = p[2]
        BY <1>7, <2>2 DEF SameFields
      <3>2. /\ again \in Seq(Octet) /\ Len(again) = 4 /\ again[1] = s[1]
            /\ again[2] = Fields(m)[1] /\ again[3] = Fields(m)[2]
        <4>1. /\ again \in Seq(Octet) /\ Len(again) = Len(Fields(m)) + 1
              /\ again[1] = s[1]
              /\ \A j \in 1..Len(Fields(m)) : again[j + 1] = Fields(m)[j]
          BY <1>3, <3>1, TypeThenFields
        <4> HIDE DEF again
        <4> QED BY <3>1, <4>1
      <3>3. Len(s) = 4 /\ s[2] = p[1] /\ s[3] = p[2]
        <4>1. \A j \in 1..Len(p) : (<<s[1]>> \o p)[j + 1] = p[j]
          BY <1>3, TypeThenFields
        <4>2. \A j \in 1..Len(p) : s[j + 1] = p[j]
          BY <1>3, <4>1, Zenon
        <4>3. s[1 + 1] = p[1] /\ s[2 + 1] = p[2]
          BY <3>1, <4>2
        <4>4. Len(s) = 3 + 1
          BY <1>3, <3>1, Zenon
        <4> QED BY <4>3, <4>4
      <3> HIDE DEF again
      <3>4. SubSeq(again, 1, 3) = SubSeq(s, 1, 3)
        BY <3>1, <3>2, <3>3, ThreeBytes
      <3> QED BY <3>1, <3>2, <3>3, <3>4 DEF SameBody
    <2> QED BY <2>1, <2>2
  <1> QED BY <1>7, <1>8, <1>9 DEF m

-----------------------------------------------------------------------------
(* The header.                                                             *)

\* A number from its halves.
LEMMA QuotRem65536 ==
  ASSUME NEW n \in Nat, NEW q \in Int, NEW r \in Int, q = n \div 65536, r = n % 65536
  PROVE  q * 65536 + r = n
  <1>1. 65536 * q <= n /\ n < 65536 * q + 65536
    BY SMT
  <1>2. n - 65536 * q = n % 65536
    BY <1>1, SMT
  <1> QED BY <1>2, SMT

\* The octets of two fields, for any sequence that is made of them.
LEMMA FourBytes ==
  ASSUME NEW a \in Int, NEW b \in Int, NEW s, s = U16(a) \o U16(b)
  PROVE  /\ s \in Seq(Octet) /\ Len(s) = 4
         /\ s[1] = High(a) /\ s[2] = Low(a) /\ s[3] = High(b) /\ s[4] = Low(b)
  BY TwoU16, Zenon

\* A header is four octets.
LEMMA HeaderIs ==
  ASSUME NEW n \in Nat
  PROVE  U32(n) \in Seq(Octet) /\ Len(U32(n)) = 4
  <1> DEFINE a == n \div 65536
  <1>1. a \in Int /\ n \in Int /\ U32(n) = U16(a) \o U16(n)
    BY SMT DEF U32
  <1> HIDE DEF a
  <1> QED BY <1>1, FourBytes, Zenon

\* The four bytes of a length that fits them, read where a header is taken
\* from.
LEMMA HeaderRead ==
  ASSUME NEW n \in Nat, FitsU32(n), NEW D \in Seq(Octet), Len(D) >= 4,
         \A j \in 1..4 : D[j] = U32(n)[j]
  PROVE  ToU32(SubSeq(D, 1, 4)) = n
  <1> DEFINE a == n \div 65536
             r == n % 65536
             b == SubSeq(D, 1, 4)
             lo == SubSeq(b, 1, 2)
             hi == SubSeq(b, 3, 4)
  <1>1. a \in Word /\ a \in Int /\ n \in Int /\ r \in Int
    BY Ranges, SMT DEF FitsU32
  <1>2. U32(n) = U16(a) \o U16(n)
    BY SMT DEF U32
  <1>3. a * 65536 + r = n
    BY <1>1, QuotRem65536, SMT
  <1>4. \A k \in 1..4 : D[k] \in Octet
    BY LenProperties, ElementOfSeq, SMT
  <1>5. b \in Seq(Octet) /\ Len(b) = 4 /\ \A k \in 1..4 : b[k] = D[1 + k - 1]
    BY <1>4, SubSeqProperties, SMT
  <1> HIDE DEF a, r, b
  <1>6. /\ U32(n)[1] = High(a) /\ U32(n)[2] = Low(a) /\ U32(n)[3] = High(n)
        /\ U32(n)[4] = Low(n)
    <2>1. a \in Int /\ n \in Int /\ U32(n) = U16(a) \o U16(n)
      BY <1>1, <1>2
    <2> DEFINE u == U16(a) \o U16(n)
    <2>2. u[1] = High(a) /\ u[2] = Low(a) /\ u[3] = High(n) /\ u[4] = Low(n)
      BY <2>1, TwoU16
    <2> HIDE DEF u
    <2>3. U32(n) = u
      BY <2>1 DEF u
    <2> QED BY <2>2, <2>3, SMT
  <1>7. b[1] = High(a) /\ b[2] = Low(a) /\ b[3] = High(n) /\ b[4] = Low(n)
    BY <1>5, <1>6, SMT
  <1>8. lo[1] = High(a) /\ lo[2] = Low(a) /\ hi[1] = High(n) /\ hi[2] = Low(n)
    BY <1>5, <1>7, TwoBytes, SMT
  <1>9. ToU32(b) = ToU16(lo) * 65536 + ToU16(hi)
    BY SMT DEF ToU32
  <1> HIDE DEF lo, hi
  <1>10. ToU16(lo) = a
    BY <1>1, <1>8, FromHalves, SMT
  <1>11. ToU16(hi) = r
    BY <1>1, <1>8, LowHalf, SMT DEF r
  <1>12. ToU32(b) = a * 65536 + r
    BY <1>1, <1>9, <1>10, <1>11, SMT
  <1>13. ToU32(b) = n
    BY <1>3, <1>12, SMT
  <1> QED BY <1>13, SMT DEF b

-----------------------------------------------------------------------------
(* What travels.                                                           *)

\* The length a header announces.
Announced(p) == IF p \in Foreign THEN p.len ELSE Size(p)

\* A message is not one of the packages written as lengths and bytes.
LEMMA MsgNotForeign ==
  ASSUME NEW m \in Msg
  PROVE  m \notin Foreign
  <1>1. "t" \in DOMAIN m
    BY MsgCases
  <1>2. ASSUME NEW p \in Foreign
        PROVE  DOMAIN p = {"len", "body"}
    BY ForeignOK
  <1> QED BY <1>1, <1>2

\* Every package is a header and a body, and says the body's length unless
\* it is too long to be read.
LEMMA WireForm ==
  ASSUME NEW p \in Messages \cup Foreign
  PROVE  /\ Body(p) \in Seq(Octet) /\ Announced(p) \in Nat /\ FitsU32(Announced(p))
         /\ OnWire(p) = U32(Announced(p)) \o Body(p)
         /\ Announced(p) = Len(Body(p)) \/ Announced(p) > MaxPackage
         /\ p \in Messages => NM_ParseFromBuffer(Body(p)) = p
         /\ p \in Foreign => Body(p) = p.body
         /\ Legal(p) <=> /\ Announced(p) \in 1..MaxPackage
                         /\ NM_ParseFromBuffer(Body(p)) # Bad
  <1>1. CASE p \in Foreign
    <2>1. Body(p) = p.body /\ Announced(p) = p.len /\ OnWire(p) = U32(p.len) \o p.body
      BY <1>1 DEF Body, Announced, OnWire
    <2>2. p \in [len : Nat, body : Seq(Octet)] /\ FitsU32(p.len)
          /\ (p.len = Len(p.body) \/ p.len > MaxPackage)
      BY <1>1, ForeignOK
    <2>3. p.len \in Nat /\ p.body \in Seq(Octet)
      BY <2>2
    <2>4. p \notin Messages
      BY <1>1, MessagesOK, MsgNotForeign
    <2> QED BY <1>1, <2>1, <2>2, <2>3, <2>4 DEF Legal
  <1>2. CASE p \notin Foreign
    <2>1. p \in Msg /\ FitsU32(Size(p))
      BY <1>2, MessagesOK
    <2> DEFINE s == <<TypeOf(p)>> \o Fields(p)
    <2>2. Body(p) = s /\ Announced(p) = Size(p) /\ OnWire(p) = NM_MsgToBuffer(p)
      BY <1>2 DEF Body, Announced, OnWire
    <2>3. s \in Seq(Octet) /\ Len(s) = Size(p) /\ Len(s) >= 1
          /\ NM_ParseFromBuffer(s) = p
      BY <2>1, RoundTrip
    <2>4. Size(p) \in Nat
      BY <2>3, LenProperties
    <2>5. OnWire(p) = U32(Size(p)) \o s
      <3>1. U32(Size(p)) \in Seq(Octet)
        BY <2>4, HeaderIs
      <3>2. <<TypeOf(p)>> \in Seq(Octet) /\ Fields(p) \in Seq(Octet)
        <4>1. TypeOf(p) \in Octet
          BY <2>1, MsgHasType, Ranges
        <4> QED BY <2>1, <4>1, EveryFieldsMean DEF FieldsMean
      <3>3. (U32(Size(p)) \o <<TypeOf(p)>>) \o Fields(p) = U32(Size(p)) \o s
        BY <3>1, <3>2, ConcatAssociative
      <3> QED BY <2>2, <3>3 DEF NM_MsgToBuffer
    <2>6. p # Bad
      <3>1. p.t # Bad.t
        BY <2>1, MsgCases DEF Bad
      <3> QED BY <3>1
    <2> HIDE DEF s
    <2>7. Legal(p) <=> Len(s) \in 1..MaxPackage
      BY <1>2, <2>2 DEF Legal
    <2> QED BY <1>2, <2>1, <2>2, <2>3, <2>4, <2>5, <2>6, <2>7
  <1> QED BY <1>1, <1>2

\* The bytes on the wire: four of the header, then the body's.
LEMMA WireBytes ==
  ASSUME NEW p \in Messages \cup Foreign
  PROVE  /\ OnWire(p) \in Seq(Octet) /\ Len(OnWire(p)) = Len(Body(p)) + 4
         /\ Len(Body(p)) \in Nat
         /\ \A j \in 1..4 : OnWire(p)[j] = U32(Announced(p))[j]
         /\ \A j \in 1..Len(Body(p)) : OnWire(p)[j + 4] = Body(p)[j]
  <1> DEFINE h == U32(Announced(p))
             s == Body(p)
             w == OnWire(p)
  <1>1. s \in Seq(Octet) /\ w = h \o s /\ Announced(p) \in Nat
    BY WireForm
  <1>2. h \in Seq(Octet) /\ Len(h) = 4 /\ Len(s) \in Nat
    BY <1>1, HeaderIs, LenProperties
  <1> HIDE DEF h, s, w
  <1>3. w \in Seq(Octet) /\ Len(w) = Len(h) + Len(s)
        /\ \A i \in 1..(Len(h) + Len(s)) :
             w[i] = IF i <= Len(h) THEN h[i] ELSE s[i - Len(h)]
    BY <1>1, <1>2, ConcatProperties
  <1>4. Len(w) = Len(s) + 4 /\ \A j \in 1..4 : w[j] = h[j]
    BY <1>2, <1>3
  <1>5. ASSUME NEW j \in 1..Len(s)
        PROVE  w[j + 4] = s[j]
    <2>1. j + 4 \in 1..(Len(h) + Len(s)) /\ ~(j + 4 <= Len(h)) /\ (j + 4) - Len(h) = j
      BY <1>2
    <2> QED BY <1>3, <2>1
  <1> QED BY <1>2, <1>3, <1>4, <1>5 DEF h, s, w

-----------------------------------------------------------------------------
(* Where the packages lie in the bytes that were not taken yet.            *)

\* The packages of q behind the first k lie one after the other in s and
\* end where it ends: off[i] bytes of s come before package i, fewer than
\* none when part of it is gone.
Laid(off, s, q, k) ==
  /\ off[Len(q) + 1] = Len(s)
  /\ \A i \in (k + 1)..Len(q) :
       /\ off[i + 1] = off[i] + Len(OnWire(q[i])) /\ off[i + 1] <= Len(s)
       /\ \A j \in 1..Len(OnWire(q[i])) :
            off[i] + j >= 1 => s[off[i] + j] = OnWire(q[i])[j]

Packages == Messages \cup Foreign

\* Places in a sequence of m, and of m and x more, when b is the end of the
\* l places behind a.
LEMMA InPrefix ==
  ASSUME NEW a \in Int, NEW b \in Int, NEW l \in Nat, b = a + l,
         NEW m \in Nat, NEW x \in Nat, b <= m, NEW j \in 1..l, a + j >= 1
  PROVE  a + j \in 1..(m + x) /\ a + j <= m
  OBVIOUS

\* And when n of the m are gone.
LEMMA InRest ==
  ASSUME NEW a \in Int, NEW b \in Int, NEW l \in Nat, b = a + l,
         NEW m \in Nat, NEW n \in Nat, n <= m, b <= m,
         NEW c \in Int, c = a - n, NEW j \in 1..l, c + j >= 1
  PROVE  c + j \in 1..(m - n) /\ (c + j) + n = a + j /\ a + j >= 1
  OBVIOUS

\* One more package at the end.
LEMMA LaidAppend ==
  ASSUME NEW off \in [Nat -> Int], NEW s \in Seq(Octet), NEW q \in Seq(Packages),
         NEW k \in 0..Len(q), Laid(off, s, q, k), NEW p \in Packages
  PROVE  \E new \in [Nat -> Int] : /\ new[k + 1] = off[k + 1]
                                   /\ Laid(new, s \o OnWire(p), Append(q, p), k)
  <1> DEFINE w == OnWire(p)
             s2 == s \o w
             q2 == Append(q, p)
             n == Len(q)
             new == [off EXCEPT ![n + 2] = Len(s) + Len(w)]
  <1>1. n \in Nat /\ Len(s) \in Nat /\ w \in Seq(Octet) /\ Len(w) \in Nat
    BY LenProperties, WireBytes DEF Packages
  <1>2. Len(q2) = n + 1 /\ q2[n + 1] = p /\ \A i \in 1..n : q2[i] = q[i]
    BY AppendProperties
  <1> HIDE DEF w, q2
  <1>3. Len(s2) = Len(s) + Len(w)
        /\ \A i \in 1..(Len(s) + Len(w)) :
             s2[i] = IF i <= Len(s) THEN s[i] ELSE w[i - Len(s)]
    BY <1>1, ConcatProperties
  <1> HIDE DEF s2
  <1>4. off[n + 1] = Len(s)
    BY DEF Laid
  <1> HIDE DEF n
  <1>5. /\ new \in [Nat -> Int] /\ new[n + 2] = Len(s) + Len(w)
        /\ \A i \in 1..(n + 1) : new[i] = off[i]
    BY <1>1
  <1> HIDE DEF new
  <1>6. k \in Nat /\ k <= n
    BY <1>1 DEF n
  <1>7. new[k + 1] = off[k + 1]
    BY <1>1, <1>5, <1>6
  <1>8. new[Len(q2) + 1] = Len(s2)
    BY <1>1, <1>2, <1>3, <1>5
  <1>9. ASSUME NEW i \in (k + 1)..Len(q2)
        PROVE  /\ new[i + 1] = new[i] + Len(OnWire(q2[i])) /\ new[i + 1] <= Len(s2)
               /\ \A j \in 1..Len(OnWire(q2[i])) :
                    new[i] + j >= 1 => s2[new[i] + j] = OnWire(q2[i])[j]
    <2>1. CASE i = n + 1
      <3>1. q2[i] = p /\ new[i] = Len(s) /\ new[i + 1] = Len(s) + Len(w)
        <4>1. i + 1 = n + 2 /\ i \in 1..(n + 1)
          BY <1>1, <2>1
        <4> QED BY <1>2, <1>4, <1>5, <2>1, <4>1
      <3>2. ASSUME NEW j \in 1..Len(w)
            PROVE  s2[Len(s) + j] = w[j]
        <4>1. Len(s) + j \in 1..(Len(s) + Len(w)) /\ ~(Len(s) + j <= Len(s))
              /\ (Len(s) + j) - Len(s) = j
          BY <1>1
        <4> QED BY <1>3, <4>1
      <3>3. OnWire(q2[i]) = w
        BY <3>1 DEF w
      <3>4. new[i + 1] = new[i] + Len(w) /\ new[i + 1] <= Len(s2)
        BY <1>1, <1>3, <3>1
      <3>5. \A j \in 1..Len(w) : s2[new[i] + j] = w[j]
        BY <3>1, <3>2
      <3> QED BY <3>3, <3>4, <3>5
    <2>2. CASE i # n + 1
      <3>1. i \in (k + 1)..n /\ i \in 1..n /\ i \in 1..(n + 1) /\ i + 1 \in 1..(n + 1)
        BY <1>1, <1>2, <1>6, <2>2
      <3>2. q2[i] = q[i] /\ new[i] = off[i] /\ new[i + 1] = off[i + 1]
        BY <1>2, <1>5, <3>1
      <3>3. /\ off[i + 1] = off[i] + Len(OnWire(q[i])) /\ off[i + 1] <= Len(s)
            /\ \A j \in 1..Len(OnWire(q[i])) :
                 off[i] + j >= 1 => s[off[i] + j] = OnWire(q[i])[j]
        BY <3>1 DEF Laid, n
      <3>4. off[i] \in Int /\ off[i + 1] \in Int /\ Len(OnWire(q[i])) \in Nat
        <4>1. q[i] \in Packages
          BY <3>1, ElementOfSeq DEF n
        <4>2. OnWire(q[i]) \in Seq(Octet)
          BY <4>1, WireBytes DEF Packages
        <4>3. i \in Nat /\ i + 1 \in Nat
          BY <3>1
        <4> QED BY <4>2, <4>3, LenProperties
      <3>5. ASSUME NEW j \in 1..Len(OnWire(q[i])), off[i] + j >= 1
            PROVE  s2[off[i] + j] = s[off[i] + j]
        <4> DEFINE a == off[i]
                   b == off[i + 1]
                   l == Len(OnWire(q[i]))
        <4>1. a \in Int /\ b \in Int /\ l \in Nat /\ b = a + l /\ b <= Len(s)
              /\ j \in 1..l /\ a + j >= 1
          BY <3>3, <3>4, <3>5
        <4> HIDE DEF a, b, l
        <4>2. a + j \in 1..(Len(s) + Len(w)) /\ a + j <= Len(s)
          BY <1>1, <4>1, InPrefix
        <4>3. s2[a + j] = s[a + j]
          BY <1>3, <4>2
        <4> QED BY <4>3 DEF a
      <3>6. off[i + 1] <= Len(s2)
        <4> DEFINE b == off[i + 1]
                   m == Len(s)
                   x == Len(w)
        <4>1. b \in Int /\ b <= m /\ m \in Nat /\ x \in Nat /\ Len(s2) = m + x
          BY <1>1, <1>3, <3>3, <3>4
        <4> HIDE DEF b, m, x
        <4>2. b <= m + x
          BY <4>1
        <4> QED BY <4>1, <4>2 DEF b
      <3> QED BY <3>2, <3>3, <3>5, <3>6
    <2> QED BY <2>1, <2>2
  <1>10. Laid(new, s2, q2, k)
    BY <1>8, <1>9 DEF Laid
  <1> QED BY <1>5, <1>7, <1>10 DEF s2, w, q2

\* Bytes taken from the front.
LEMMA LaidDrop ==
  ASSUME NEW off \in [Nat -> Int], NEW s \in Seq(Octet), NEW q \in Seq(Packages),
         NEW k \in 0..Len(q), Laid(off, s, q, k), NEW n \in 0..Len(s),
         NEW u \in Seq(Octet), Len(u) = Len(s) - n,
         \A j \in 1..Len(u) : u[j] = s[j + n]
  PROVE  LET new == [i \in Nat |-> off[i] - n]
         IN  new \in [Nat -> Int] /\ Laid(new, u, q, k)
  <1> DEFINE new == [i \in Nat |-> off[i] - n]
  <1>1. Len(q) \in Nat /\ Len(s) \in Nat /\ n \in Nat /\ k \in Nat /\ n <= Len(s)
        /\ k <= Len(q)
    BY LenProperties
  <1>2. new \in [Nat -> Int] /\ \A i \in Nat : new[i] = off[i] - n
    <2>1. ASSUME NEW i \in Nat PROVE off[i] - n \in Int
      BY <1>1
    <2>2. new \in [Nat -> Int]
      BY <2>1
    <2> QED BY <2>2
  <1> HIDE DEF new
  <1>3. off[Len(q) + 1] = Len(s)
    BY DEF Laid
  <1>4. new[Len(q) + 1] = Len(u)
    <2>1. Len(q) + 1 \in Nat
      BY <1>1
    <2>2. new[Len(q) + 1] = off[Len(q) + 1] - n
      BY <1>2, <2>1
    <2> QED BY <1>3, <2>2
  <1>5. ASSUME NEW i \in (k + 1)..Len(q)
        PROVE  /\ new[i + 1] = new[i] + Len(OnWire(q[i])) /\ new[i + 1] <= Len(u)
               /\ \A j \in 1..Len(OnWire(q[i])) :
                    new[i] + j >= 1 => u[new[i] + j] = OnWire(q[i])[j]
    <2>1. i \in Nat /\ i + 1 \in Nat /\ i \in 1..Len(q)
      BY <1>1
    <2>2. off[i] \in Int /\ off[i + 1] \in Int
          /\ new[i] = off[i] - n /\ new[i + 1] = off[i + 1] - n
      BY <1>2, <2>1
    <2>3. /\ off[i + 1] = off[i] + Len(OnWire(q[i])) /\ off[i + 1] <= Len(s)
          /\ \A j \in 1..Len(OnWire(q[i])) :
               off[i] + j >= 1 => s[off[i] + j] = OnWire(q[i])[j]
      BY DEF Laid
    <2>4. Len(OnWire(q[i])) \in Nat
      <3>1. q[i] \in Packages
        BY <2>1, ElementOfSeq
      <3>2. OnWire(q[i]) \in Seq(Octet)
        BY <3>1, WireBytes DEF Packages
      <3> QED BY <3>2, LenProperties
    <2> DEFINE a == off[i]
               b == off[i + 1]
               w == OnWire(q[i])
               l == Len(w)
               c == new[i]
    <2>5. /\ a \in Int /\ b \in Int /\ l \in Nat /\ b = a + l /\ b <= Len(s)
          /\ c = a - n /\ new[i + 1] = b - n
      BY <2>2, <2>3, <2>4
    <2>6. \A j \in 1..l : a + j >= 1 => s[a + j] = w[j]
      BY <2>3
    <2> HIDE DEF a, b, c, l
    <2>7. new[i + 1] = c + l /\ new[i + 1] <= Len(u)
      BY <1>1, <2>5
    <2>8. ASSUME NEW j \in 1..l, c + j >= 1
          PROVE  u[c + j] = w[j]
      <3>1. c + j \in 1..Len(u) /\ (c + j) + n = a + j /\ a + j >= 1
        <4> DEFINE m == Len(s)
        <4>1. /\ a \in Int /\ b \in Int /\ l \in Nat /\ b = a + l
              /\ m \in Nat /\ n \in Nat /\ n <= m /\ b <= m
              /\ c \in Int /\ c = a - n /\ j \in 1..l /\ c + j >= 1
              /\ Len(u) = m - n
          BY <1>1, <2>5, <2>8
        <4> HIDE DEF m
        <4>2. c + j \in 1..(m - n) /\ (c + j) + n = a + j /\ a + j >= 1
          BY <4>1, InRest
        <4> QED BY <4>1, <4>2
      <3>2. u[c + j] = s[(c + j) + n]
        BY <3>1
      <3> QED BY <2>6, <3>1, <3>2
    <2> QED BY <2>7, <2>8 DEF l, c
  <1>6. Laid(new, u, q, k)
    BY <1>4, <1>5 DEF Laid
  <1> QED BY <1>2, <1>6 DEF new

\* One package less to come.
LEMMA LaidNext ==
  ASSUME NEW off, NEW s, NEW q \in Seq(Packages), NEW k \in Nat, Laid(off, s, q, k)
  PROVE  Laid(off, s, q, k + 1)
  <1>1. \A i \in (k + 1 + 1)..Len(q) : i \in (k + 1)..Len(q)
    BY LenProperties
  <1> QED BY <1>1 DEF Laid

\* The packages of q behind the first k, from where the next one begins: gap
\* bytes into s, before it when part of the package is gone.
Follows(s, q, k, gap) ==
  \E off \in [Nat -> Int] : off[k + 1] = gap /\ Laid(off, s, q, k)

\* Bytes taken from the front of what has arrived, seen in the whole stream.
LEMMA FrontTaken ==
  ASSUME NEW d \in Seq(Octet), NEW w \in Seq(Octet), NEW n \in 0..Len(d)
  PROVE  LET u == SubSeq(d, n + 1, Len(d))
         IN  /\ u \in Seq(Octet) /\ u \o w \in Seq(Octet)
             /\ Len(u \o w) = Len(d \o w) - n
             /\ \A j \in 1..Len(u \o w) : (u \o w)[j] = (d \o w)[j + n]
  <1> DEFINE u == SubSeq(d, n + 1, Len(d))
             lo == n + 1
             hi == Len(d)
  <1>1. Len(d) \in Nat /\ Len(w) \in Nat /\ n \in Nat /\ n <= Len(d)
    BY LenProperties
  <1>2. lo \in Int /\ hi \in Int /\ \A i \in lo..hi : d[i] \in Octet
    BY <1>1, ElementOfSeq
  <1>3. u = SubSeq(d, lo, hi)
    OBVIOUS
  <1>4. hi - lo + 1 = Len(d) - n /\ (lo <= hi <=> Len(d) - n # 0)
        /\ \A i \in Int : lo + i - 1 = i + n
    BY <1>1
  <1> HIDE DEF lo, hi, u
  <1>5. /\ u \in Seq(Octet)
        /\ Len(u) = IF lo <= hi THEN hi - lo + 1 ELSE 0
        /\ \A i \in 1..(hi - lo + 1) : u[i] = d[lo + i - 1]
    BY <1>2, <1>3, SubSeqProperties
  <1>6. Len(u) = Len(d) - n /\ Len(u) \in Nat
    BY <1>1, <1>4, <1>5
  <1>7. \A i \in 1..Len(u) : u[i] = d[i + n]
    <2> TAKE i \in 1..Len(u)
    <2>1. i \in 1..(hi - lo + 1) /\ i \in Int
      BY <1>4, <1>6
    <2> QED BY <1>4, <1>5, <2>1
  <1>8. /\ u \o w \in Seq(Octet) /\ Len(u \o w) = Len(u) + Len(w)
        /\ \A i \in 1..(Len(u) + Len(w)) :
             (u \o w)[i] = IF i <= Len(u) THEN u[i] ELSE w[i - Len(u)]
    BY <1>5, ConcatProperties
  <1>9. /\ Len(d \o w) = Len(d) + Len(w)
        /\ \A i \in 1..(Len(d) + Len(w)) :
             (d \o w)[i] = IF i <= Len(d) THEN d[i] ELSE w[i - Len(d)]
    BY ConcatProperties
  <1>10. ASSUME NEW j \in 1..(Len(u) + Len(w))
         PROVE  (u \o w)[j] = (d \o w)[j + n]
    <2>1. j + n \in 1..(Len(d) + Len(w)) /\ (j + n) - Len(d) = j - Len(u)
          /\ (j <= Len(u) <=> j + n <= Len(d))
      BY <1>1, <1>6
    <2>2. CASE j <= Len(u)
      <3>1. (u \o w)[j] = u[j] /\ u[j] = d[j + n]
        BY <1>7, <1>8, <2>2
      <3>2. (d \o w)[j + n] = d[j + n]
        BY <1>9, <2>1, <2>2
      <3> QED BY <3>1, <3>2
    <2>3. CASE ~(j <= Len(u))
      <3>1. (u \o w)[j] = w[j - Len(u)]
        BY <1>8, <2>3
      <3>2. (d \o w)[j + n] = w[(j + n) - Len(d)]
        BY <1>9, <2>1, <2>3
      <3> QED BY <2>1, <3>1, <3>2
    <2> QED BY <2>2, <2>3
  <1>11. Len(u \o w) = Len(d \o w) - n
    BY <1>1, <1>6, <1>8, <1>9
  <1> QED BY <1>5, <1>8, <1>10, <1>11 DEF u

\* A package that is sent follows the others.
LEMMA FollowsAppend ==
  ASSUME NEW s \in Seq(Octet), NEW q \in Seq(Packages), NEW k \in 0..Len(q),
         NEW gap \in Int, Follows(s, q, k, gap), NEW p \in Packages
  PROVE  Follows(s \o OnWire(p), Append(q, p), k, gap)
  <1>1. PICK off \in [Nat -> Int] : off[k + 1] = gap /\ Laid(off, s, q, k)
    BY DEF Follows
  <1>2. \E new \in [Nat -> Int] : /\ new[k + 1] = off[k + 1]
                                  /\ Laid(new, s \o OnWire(p), Append(q, p), k)
    BY <1>1, LaidAppend
  <1> QED BY <1>1, <1>2 DEF Follows

\* Taking bytes from the front moves what follows.
LEMMA FollowsDrop ==
  ASSUME NEW s \in Seq(Octet), NEW q \in Seq(Packages), NEW k \in 0..Len(q),
         NEW gap \in Int, Follows(s, q, k, gap), NEW n \in 0..Len(s),
         NEW u \in Seq(Octet), Len(u) = Len(s) - n,
         \A j \in 1..Len(u) : u[j] = s[j + n]
  PROVE  Follows(u, q, k, gap - n)
  <1>1. PICK off \in [Nat -> Int] : off[k + 1] = gap /\ Laid(off, s, q, k)
    BY DEF Follows
  <1> DEFINE new == [i \in Nat |-> off[i] - n]
  <1>2. new \in [Nat -> Int] /\ Laid(new, u, q, k)
    BY <1>1, LaidDrop
  <1>3. k + 1 \in Nat
    BY LenProperties
  <1>4. new[k + 1] = gap - n
    BY <1>1, <1>3
  <1> HIDE DEF new
  <1> QED BY <1>2, <1>4 DEF Follows

\* The next package lies where it should and ends inside what there is; when
\* there is none, there are no bytes either.
LEMMA FollowsNext ==
  ASSUME NEW s \in Seq(Octet), NEW q \in Seq(Packages), NEW k \in 0..Len(q),
         NEW gap \in Int, Follows(s, q, k, gap)
  PROVE  /\ k = Len(q) => gap = Len(s)
         /\ k # Len(q) =>
              LET w == OnWire(q[k + 1])
              IN  /\ q[k + 1] \in Packages /\ k + 1 \in 0..Len(q)
                  /\ Follows(s, q, k + 1, gap + Len(w)) /\ gap + Len(w) <= Len(s)
                  /\ \A j \in 1..Len(w) : gap + j >= 1 => s[gap + j] = w[j]
  <1>1. PICK off \in [Nat -> Int] : off[k + 1] = gap /\ Laid(off, s, q, k)
    BY DEF Follows
  <1>2. k = Len(q) => gap = Len(s)
    BY <1>1 DEF Laid
  <1>3. ASSUME k # Len(q)
        PROVE  LET w == OnWire(q[k + 1])
               IN  /\ q[k + 1] \in Packages /\ k + 1 \in 0..Len(q)
                   /\ Follows(s, q, k + 1, gap + Len(w)) /\ gap + Len(w) <= Len(s)
                   /\ \A j \in 1..Len(w) : gap + j >= 1 => s[gap + j] = w[j]
    <2> DEFINE w == OnWire(q[k + 1])
               i == k + 1
    <2>1. i \in (k + 1)..Len(q) /\ i \in 1..Len(q) /\ i \in 0..Len(q) /\ k \in Nat
      BY <1>3, LenProperties
    <2>2. q[i] \in Packages
      BY <2>1, ElementOfSeq
    <2> HIDE DEF i
    <2>3. /\ off[i + 1] = off[i] + Len(OnWire(q[i])) /\ off[i + 1] <= Len(s)
          /\ \A j \in 1..Len(OnWire(q[i])) :
               off[i] + j >= 1 => s[off[i] + j] = OnWire(q[i])[j]
      BY <1>1, <2>1 DEF Laid
    <2>4. Laid(off, s, q, i)
      BY <1>1, <2>1, LaidNext DEF i
    <2>5. w = OnWire(q[i]) /\ off[i] = gap
      BY <1>1 DEF i
    <2> HIDE DEF w
    <2>6. Follows(s, q, i, gap + Len(w))
      BY <2>3, <2>4, <2>5 DEF Follows
    <2> QED BY <2>1, <2>2, <2>3, <2>5, <2>6 DEF i, w
  <1> QED BY <1>2, <1>3

-----------------------------------------------------------------------------
(* The next header and the next body, where the reader takes them.        *)

\* The bytes of a prefix.
LEMMA FrontOf ==
  ASSUME NEW d \in Seq(Octet), NEW n \in 0..Len(d)
  PROVE  /\ SubSeq(d, 1, n) \in Seq(Octet) /\ Len(SubSeq(d, 1, n)) = n
         /\ \A j \in 1..n : SubSeq(d, 1, n)[j] = d[j]
  <1>1. Len(d) \in Nat /\ n \in Nat /\ n <= Len(d) /\ 1 \in Int /\ n \in Int
    BY LenProperties
  <1>2. \A i \in 1..n : d[i] \in Octet
    BY <1>1, ElementOfSeq
  <1>3. /\ SubSeq(d, 1, n) \in Seq(Octet)
        /\ Len(SubSeq(d, 1, n)) = IF 1 <= n THEN n - 1 + 1 ELSE 0
        /\ \A i \in 1..(n - 1 + 1) : SubSeq(d, 1, n)[i] = d[1 + i - 1]
    BY <1>1, <1>2, SubSeqProperties
  <1> QED BY <1>1, <1>3

\* The bytes that have arrived are the first of the stream.
LEMMA FrontOfStream ==
  ASSUME NEW d \in Seq(Octet), NEW w \in Seq(Octet)
  PROVE  /\ d \o w \in Seq(Octet) /\ Len(d) <= Len(d \o w) /\ Len(d) \in Nat
         /\ Len(d \o w) \in Nat
         /\ \A j \in 1..Len(d) : (d \o w)[j] = d[j]
  <1>1. /\ d \o w \in Seq(Octet) /\ Len(d \o w) = Len(d) + Len(w)
        /\ \A i \in 1..(Len(d) + Len(w)) :
             (d \o w)[i] = IF i <= Len(d) THEN d[i] ELSE w[i - Len(d)]
    BY ConcatProperties
  <1>2. Len(d) \in Nat /\ Len(w) \in Nat
    BY LenProperties
  <1>3. \A j \in 1..Len(d) : j \in 1..(Len(d) + Len(w)) /\ j <= Len(d)
    BY <1>2
  <1> QED BY <1>1, <1>2, <1>3

\* Where a package begins, the first four bytes are its header.
LEMMA HeaderInFront ==
  ASSUME NEW d \in Seq(Octet), NEW w \in Seq(Octet), NEW q \in Seq(Packages),
         NEW k \in 0..Len(q), Follows(d \o w, q, k, 0), Len(d) >= 4
  PROVE  /\ k # Len(q) /\ k + 1 \in 1..Len(q) /\ q[k + 1] \in Packages
         /\ ToU32(SubSeq(d, 1, 4)) = Announced(q[k + 1])
         /\ Follows(SubSeq(d, 4 + 1, Len(d)) \o w, q, k, -4)
  <1> DEFINE s == d \o w
             p == q[k + 1]
             x == OnWire(p)
             u == SubSeq(d, 4 + 1, Len(d)) \o w
  <1>1. s \in Seq(Octet) /\ Len(d) <= Len(s) /\ Len(d) \in Nat /\ Len(s) \in Nat
        /\ \A j \in 1..Len(d) : s[j] = d[j]
    BY FrontOfStream
  <1>2. 4 \in 0..Len(d) /\ 0 \in Int
    BY <1>1
  <1>3. u \in Seq(Octet) /\ Len(u) = Len(s) - 4 /\ \A j \in 1..Len(u) : u[j] = s[j + 4]
    BY <1>2, FrontTaken
  <1> HIDE DEF s, u
  <1>4. Follows(s, q, k, 0) /\ 0 \in Int
    BY DEF s
  <1>5. /\ k = Len(q) => 0 = Len(s)
        /\ k # Len(q) =>
             /\ p \in Packages /\ k + 1 \in 0..Len(q) /\ 0 + Len(x) <= Len(s)
             /\ \A j \in 1..Len(x) : 0 + j >= 1 => s[0 + j] = x[j]
    BY <1>1, <1>4, FollowsNext
  <1>6. k # Len(q)
    BY <1>1, <1>5
  <1>7. k + 1 \in 1..Len(q) /\ p \in Packages
    BY <1>5, <1>6, LenProperties
  <1>8. \A j \in 1..Len(x) : s[j] = x[j]
    <2> TAKE j \in 1..Len(x)
    <2>1. 0 + j >= 1 /\ 0 + j = j
      OBVIOUS
    <2> QED BY <1>5, <1>6, <2>1
  <1> HIDE DEF p, x
  <1>9. /\ Len(x) = Len(Body(p)) + 4 /\ Len(Body(p)) \in Nat
        /\ \A j \in 1..4 : x[j] = U32(Announced(p))[j]
    BY <1>7, WireBytes DEF Packages, x
  <1>10. \A j \in 1..4 : d[j] = U32(Announced(p))[j]
    <2> TAKE j \in 1..4
    <2>1. j \in 1..Len(x) /\ j \in 1..Len(d)
      BY <1>1, <1>9
    <2> QED BY <1>1, <1>8, <1>9, <2>1
  <1>11. Announced(p) \in Nat /\ FitsU32(Announced(p))
    BY <1>7, WireForm DEF Packages
  <1>12. ToU32(SubSeq(d, 1, 4)) = Announced(p)
    BY <1>10, <1>11, HeaderRead
  <1>13. Follows(u, q, k, 0 - 4)
    <2>1. 4 \in 0..Len(s)
      BY <1>1
    <2> QED BY <1>1, <1>3, <1>4, <2>1, FollowsDrop
  <1>14. 0 - 4 = -4
    OBVIOUS
  <1> QED BY <1>6, <1>7, <1>12, <1>13, <1>14 DEF p, u

\* Behind a header, the first bytes are the body.
LEMMA BodyInFront ==
  ASSUME NEW d \in Seq(Octet), NEW w \in Seq(Octet), NEW q \in Seq(Packages),
         NEW k \in 0..Len(q), k # Len(q), Follows(d \o w, q, k, -4),
         NEW n \in 0..Len(d), n = Len(Body(q[k + 1]))
  PROVE  /\ SubSeq(d, 1, n) = Body(q[k + 1])
         /\ Follows(SubSeq(d, n + 1, Len(d)) \o w, q, k + 1, 0)
  <1> DEFINE s == d \o w
             p == q[k + 1]
             x == OnWire(p)
             b == Body(p)
             u == SubSeq(d, n + 1, Len(d)) \o w
  <1>1. s \in Seq(Octet) /\ Len(d) <= Len(s) /\ Len(d) \in Nat /\ Len(s) \in Nat
        /\ \A j \in 1..Len(d) : s[j] = d[j]
    BY FrontOfStream
  <1>2. n \in Nat /\ n <= Len(d) /\ -4 \in Int
    BY <1>1
  <1>3. u \in Seq(Octet) /\ Len(u) = Len(s) - n /\ \A j \in 1..Len(u) : u[j] = s[j + n]
    BY FrontTaken
  <1> HIDE DEF s, u
  <1>4. Follows(s, q, k, -4)
    BY DEF s
  <1>5. /\ p \in Packages /\ k + 1 \in 0..Len(q)
        /\ Follows(s, q, k + 1, -4 + Len(x))
        /\ \A j \in 1..Len(x) : -4 + j >= 1 => s[-4 + j] = x[j]
    BY <1>1, <1>2, <1>4, FollowsNext
  <1>6. /\ Len(x) = Len(b) + 4 /\ Len(b) \in Nat
        /\ \A j \in 1..Len(b) : x[j + 4] = b[j]
    BY <1>5, WireBytes DEF Packages
  <1>7. b \in Seq(Octet)
    BY <1>5, WireForm DEF Packages
  <1>8. n = Len(b)
    OBVIOUS
  <1> HIDE DEF p, x, b
  <1>9. \A j \in 1..n : d[j] = b[j]
    <2> TAKE j \in 1..n
    <2>1. j + 4 \in 1..Len(x) /\ -4 + (j + 4) >= 1 /\ -4 + (j + 4) = j
          /\ j \in 1..Len(d)
      BY <1>1, <1>2, <1>6, <1>8
    <2>2. s[-4 + (j + 4)] = x[j + 4]
      BY <1>5, <2>1
    <2> QED BY <1>1, <1>6, <1>8, <2>1, <2>2
  <1>10. SubSeq(d, 1, n) = b
    <2>1. SubSeq(d, 1, n) \in Seq(Octet) /\ Len(SubSeq(d, 1, n)) = n
          /\ \A j \in 1..n : SubSeq(d, 1, n)[j] = d[j]
      BY FrontOf
    <2> DEFINE v == SubSeq(d, 1, n)
    <2>2. v \in Seq(Octet) /\ Len(v) = Len(b) /\ \A j \in 1..Len(v) : v[j] = b[j]
      BY <1>8, <1>9, <2>1
    <2> HIDE DEF v
    <2>3. v = b
      BY <1>7, <2>2, SeqEqual
    <2> QED BY <2>3 DEF v
  <1>11. -4 + Len(x) = n
    BY <1>6, <1>8
  <1>12. Follows(s, q, k + 1, n) /\ n \in Int
    BY <1>2, <1>5, <1>11
  <1>13. Follows(u, q, k + 1, n - n)
    <2>1. n \in 0..Len(s)
      BY <1>1, <1>2
    <2> DEFINE l == k + 1
    <2>2. l \in 0..Len(q) /\ Follows(s, q, l, n)
      BY <1>5, <1>12
    <2> HIDE DEF l
    <2>3. Follows(u, q, l, n - n)
      BY <1>1, <1>3, <1>12, <2>1, <2>2, FollowsDrop
    <2> QED BY <2>3 DEF l
  <1>14. n - n = 0
    BY <1>2
  <1> QED BY <1>10, <1>13, <1>14 DEF p, b, u

-----------------------------------------------------------------------------
(* The reader.  MessagesInOrder is not inductive: the invariant says where *)
(* the packages that are still to come lie in in_buf and on the wire, and  *)
(* what the reader knows of the one it is in.                              *)

\* What came out are the first packages sent, each legal and read from its body.
Taken ==
  \A i \in 1..Len(got) : Legal(sent[i]) /\ got[i] = NM_ParseFromBuffer(Body(sent[i]))

\* The part of the invariant about the package that is being read.
Reading ==
  LET p == sent[Len(got) + 1]
  IN  /\ recv_state = "NM_RECV_WAIT_HEADER" => remain_len = NM_PACKAGE_HEADER_LENGTH
      /\ recv_state = "NM_RECV_WAIT_PACKAGE" =>
           /\ Len(got) < Len(sent)
           /\ remain_len = Announced(p) /\ remain_len = Len(Body(p))
           /\ remain_len \in 1..MaxPackage

\* What has not been taken, in in_buf and on the wire, are the packages that
\* have not come out, from where the next one begins.
Ahead == IF recv_state = "NM_RECV_WAIT_HEADER" THEN 0 ELSE -4
InStep == open => Follows(Data(in_buf) \o wire, sent, Len(got), Ahead)

FramingInv ==
  /\ TypeOK /\ Data(in_buf) \in Seq(Octet)
  /\ Taken /\ Reading /\ InStep /\ EndsForCause

\* The session begins in step.
LEMMA FramingInit == Init => FramingInv
  <1> SUFFICES ASSUME Init PROVE FramingInv
    OBVIOUS
  <1>1. sent = <<>> /\ wire = <<>> /\ got = <<>> /\ in_buf = Create(InitLen)
        /\ recv_state = "NM_RECV_WAIT_HEADER"
        /\ remain_len = NM_PACKAGE_HEADER_LENGTH
        /\ pc = "select" /\ open = TRUE /\ cut = FALSE
    BY DEF Init
  <1>2. in_buf \in Buffers /\ Data(in_buf) = <<>>
    BY <1>1, InitLenIsPositive, CreateIsEmpty
  <1>3. TypeOK
    <2>1. sent \in Seq(Messages \cup Foreign) /\ got \in Seq(Msg)
          /\ Len(got) = 0 /\ Len(sent) = 0 /\ wire \in Seq(Byte)
      BY <1>1, EmptySeq
    <2>2. remain_len \in Nat \ {0}
      BY <1>1 DEF NM_PACKAGE_HEADER_LENGTH
    <2>3. Len(got) <= Len(sent)
      BY <2>1
    <2>4. pc \in {"select", "recheck"} /\ open \in BOOLEAN /\ cut \in BOOLEAN
          /\ recv_state \in {"NM_RECV_WAIT_HEADER", "NM_RECV_WAIT_PACKAGE"}
      BY <1>1
    <2> QED BY <1>2, <2>1, <2>2, <2>3, <2>4 DEF TypeOK
  <1>4. Data(in_buf) \in Seq(Octet)
    BY <1>2, EmptySeq
  <1>5. Taken
    BY <1>1, EmptySeq DEF Taken
  <1>6. Reading
    BY <1>1 DEF Reading
  <1>7. InStep
    <2> DEFINE off == [i \in Nat |-> 0]
               s == Data(in_buf) \o wire
    <2>1. s = <<>> /\ Len(s) = 0 /\ Len(sent) = 0 /\ Len(got) = 0
      <3>1. s = <<>> \o <<>>
        BY <1>1, <1>2
      <3>2. <<>> \o <<>> = <<>>
        BY ConcatEmptySeq, EmptySeq
      <3> QED BY <1>1, <3>1, <3>2, EmptySeq
    <2>2. off \in [Nat -> Int] /\ off[0 + 1] = 0
      OBVIOUS
    <2> HIDE DEF off, s
    <2>3. Laid(off, s, sent, 0)
      BY <2>1, <2>2 DEF Laid
    <2>4. Follows(s, sent, 0, 0)
      BY <2>2, <2>3 DEF Follows
    <2>5. Ahead = 0
      BY <1>1 DEF Ahead
    <2> QED BY <2>1, <2>4, <2>5 DEF InStep, s
  <1>8. EndsForCause
    BY <1>1 DEF EndsForCause
  <1> QED BY <1>3, <1>4, <1>5, <1>6, <1>7, <1>8 DEF FramingInv

\* What the steps below use of the invariant.
LEMMA FramingFacts ==
  ASSUME FramingInv
  PROVE  /\ sent \in Seq(Packages) /\ got \in Seq(Msg)
         /\ Len(sent) \in Nat /\ Len(got) \in 0..Len(sent)
         /\ wire \in Seq(Octet) /\ in_buf \in Buffers /\ Data(in_buf) \in Seq(Octet)
         /\ Len(Data(in_buf)) = Available(in_buf) /\ Available(in_buf) \in Nat
         /\ remain_len \in Nat \ {0} /\ Ahead \in {0, -4} /\ Ahead \in Int
  <1>1. sent \in Seq(Packages) /\ got \in Seq(Msg) /\ Len(got) <= Len(sent)
        /\ wire \in Seq(Byte) /\ in_buf \in Buffers /\ Data(in_buf) \in Seq(Octet)
        /\ remain_len \in Nat \ {0}
    BY DEF FramingInv, TypeOK, Packages
  <1>2. wire \in Seq(Octet)
    BY <1>1, ByteIsOctet
  <1>3. Len(sent) \in Nat /\ Len(got) \in Nat
    BY <1>1, LenProperties
  <1>4. Ahead \in {0, -4} /\ Ahead \in Int
    BY DEF Ahead
  <1>5. Len(Data(in_buf)) = Available(in_buf) /\ Available(in_buf) \in Nat
    BY <1>1, DataParts, BufferParts
  <1> QED BY <1>1, <1>2, <1>3, <1>4, <1>5

\* The peer's package goes to the end of the wire.
LEMMA PeerSendsKeeps ==
  ASSUME FramingInv, NEW p \in Messages \cup Foreign, PeerSends(p)
  PROVE  FramingInv'
  <1>1. /\ sent' = Append(sent, p) /\ wire' = wire \o OnWire(p)
        /\ in_buf' = in_buf /\ recv_state' = recv_state /\ remain_len' = remain_len
        /\ pc' = pc /\ open' = open /\ cut' = cut /\ got' = got
    BY DEF PeerSends, recvVars
  <1>2. p \in Packages /\ OnWire(p) \in Seq(Octet)
    BY WireBytes DEF Packages
  <1>3. /\ sent \in Seq(Packages) /\ Len(sent) \in Nat /\ Len(got) \in 0..Len(sent)
        /\ wire \in Seq(Octet) /\ Data(in_buf) \in Seq(Octet) /\ Ahead \in Int
    BY FramingFacts
  <1>4. sent' \in Seq(Packages) /\ Len(sent') = Len(sent) + 1
        /\ \A i \in 1..Len(sent) : sent'[i] = sent[i]
    BY <1>1, <1>2, <1>3, AppendProperties
  <1>5. wire' \in Seq(Octet)
    BY <1>1, <1>2, <1>3, ConcatProperties
  <1>6. TypeOK'
    <2>1. Len(got) <= Len(sent')
      BY <1>3, <1>4
    <2>2. TypeOK
      BY DEF FramingInv
    <2> QED BY <1>1, <1>4, <1>5, <2>1, <2>2, ByteIsOctet DEF TypeOK, Packages
  <1>7. Taken'
    <2>1. \A i \in 1..Len(got) : i \in 1..Len(sent)
      BY <1>3
    <2> QED BY <1>1, <1>4, <2>1 DEF FramingInv, Taken
  <1>8. Len(got) < Len(sent) => sent'[Len(got) + 1] = sent[Len(got) + 1]
                                /\ Len(got') < Len(sent')
    <2>1. Len(got) < Len(sent) => Len(got) + 1 \in 1..Len(sent)
      BY <1>3
    <2>2. Len(got) < Len(sent) => Len(got) < Len(sent')
      BY <1>3, <1>4
    <2> QED BY <1>1, <1>4, <2>1, <2>2
  <1>9. Reading' /\ EndsForCause'
    BY <1>1, <1>8 DEF FramingInv, Reading, EndsForCause
  <1>10. InStep'
    <2> SUFFICES ASSUME open PROVE Follows(Data(in_buf) \o wire', sent', Len(got), Ahead)
      BY <1>1 DEF InStep, Ahead
    <2> DEFINE s == Data(in_buf) \o wire
    <2>1. Follows(s, sent, Len(got), Ahead)
      BY DEF FramingInv, InStep
    <2>2. s \in Seq(Octet)
      BY <1>3, ConcatProperties
    <2>3. Data(in_buf) \o wire' = s \o OnWire(p)
      <3> DEFINE d == Data(in_buf)
                 x == OnWire(p)
      <3>1. d \in Seq(Octet) /\ x \in Seq(Octet) /\ wire \in Seq(Octet)
            /\ wire' = wire \o x
        BY <1>1, <1>2, <1>3
      <3> HIDE DEF d, x
      <3>2. (d \o wire) \o x = d \o (wire \o x)
        BY <3>1, ConcatAssociative, SMTT(30)
      <3> QED BY <3>1, <3>2 DEF d, x
    <2> HIDE DEF s
    <2>4. Follows(s \o OnWire(p), Append(sent, p), Len(got), Ahead)
      BY <1>2, <1>3, <2>1, <2>2, FollowsAppend
    <2> QED BY <1>1, <2>3, <2>4
  <1> QED BY <1>1, <1>3, <1>6, <1>7, <1>9, <1>10 DEF FramingInv

\* recv moves bytes from the wire to in_buf: the stream is the same.
LEMMA RecvArrivedKeeps ==
  ASSUME FramingInv, RecvArrived
  PROVE  FramingInv'
  <1>1. PICK n \in 1..Len(wire) :
           /\ in_buf' = Fill(Alloc(in_buf, n), SubSeq(wire, 1, n))
           /\ wire' = SubSeq(wire, n + 1, Len(wire))
    BY DEF RecvArrived
  <1>2. /\ sent' = sent /\ recv_state' = recv_state /\ remain_len' = remain_len
        /\ pc' = "recheck" /\ open' = open /\ cut' = cut /\ got' = got
    BY DEF RecvArrived
  <1>3. /\ wire \in Seq(Octet) /\ Data(in_buf) \in Seq(Octet) /\ in_buf \in Buffers
    BY FramingFacts
  <1> DEFINE f == SubSeq(wire, 1, n)
             r == SubSeq(wire, n + 1, Len(wire))
  <1>4. n \in 0..Len(wire) /\ Len(wire) \in Nat /\ n # 0
    BY <1>3, LenProperties
  <1>5. f \in Seq(Octet) /\ Len(f) = n
    BY <1>3, <1>4, FrontOf
  <1>6. r \in Seq(Octet)
    BY <1>3, <1>4, FrontTaken
  <1>7. f \o r = wire
    <2>1. 1 \in 1..(Len(wire) + 1) /\ n \in (1 - 1)..Len(wire) /\ Len(wire) \in n..Len(wire)
      BY <1>4
    <2>2. f \o r = SubSeq(wire, 1, Len(wire))
      BY <1>3, <2>1, ConcatAdjacentSubSeq
    <2> QED BY <1>3, <2>2, SubSeqFull
  <1>8. wire' = r /\ in_buf' = Fill(Alloc(in_buf, n), f)
    BY <1>1
  <1> HIDE DEF f, r
  <1>9. f # <<>>
    BY <1>4, <1>5, EmptySeq
  <1>10. in_buf' = Insert(in_buf, f)
    BY <1>5, <1>8, <1>9 DEF Insert
  <1>11. in_buf' \in Buffers /\ Data(in_buf') = Data(in_buf) \o f
    BY <1>3, <1>5, <1>10, ByteIsOctet, InsertAppends
  <1>12. Data(in_buf') \in Seq(Octet)
    BY <1>3, <1>5, <1>11, ConcatProperties
  <1>13. Data(in_buf') \o wire' = Data(in_buf) \o wire
    <2> DEFINE d == Data(in_buf)
    <2>1. d \in Seq(Octet) /\ Data(in_buf') = d \o f
      BY <1>3, <1>11
    <2> HIDE DEF d
    <2>2. (d \o f) \o r = d \o (f \o r)
      BY <1>5, <1>6, <2>1, ConcatAssociative
    <2> QED BY <1>7, <1>8, <2>1, <2>2 DEF d
  <1>14. TypeOK'
    BY <1>2, <1>6, <1>8, <1>11, ByteIsOctet DEF FramingInv, TypeOK
  <1>15. Taken' /\ Reading' /\ EndsForCause'
    BY <1>2 DEF FramingInv, Taken, Reading, EndsForCause
  <1>16. InStep'
    <2>1. Ahead' = Ahead
      BY <1>2 DEF Ahead
    <2> QED BY <1>2, <1>13, <2>1 DEF FramingInv, InStep
  <1> QED BY <1>12, <1>14, <1>15, <1>16 DEF FramingInv

\* A header is taken where a package begins.
LEMMA TakeHeaderKeeps ==
  ASSUME FramingInv, TakeHeader
  PROVE  FramingInv'
  <1> DEFINE d == Data(in_buf)
             n == ToU32(SubSeq(d, 1, NM_PACKAGE_HEADER_LENGTH))
             bad == n > MaxPackage \/ n < 1
             k == Len(got)
             p == sent[k + 1]
             u == SubSeq(d, 4 + 1, Len(d))
  <1>1. /\ open /\ recv_state = "NM_RECV_WAIT_HEADER" /\ remain_len <= Available(in_buf)
        /\ in_buf' = Erase(in_buf, NM_PACKAGE_HEADER_LENGTH)
        /\ recv_state' = IF bad THEN recv_state ELSE "NM_RECV_WAIT_PACKAGE"
        /\ remain_len' = IF bad THEN remain_len ELSE n
        /\ pc' = IF bad THEN "select" ELSE "recheck"
        /\ open' = ~bad
        /\ sent' = sent /\ wire' = wire /\ cut' = cut /\ got' = got
    BY DEF TakeHeader
  <1>2. /\ sent \in Seq(Packages) /\ k \in 0..Len(sent) /\ Len(sent) \in Nat
        /\ wire \in Seq(Octet) /\ in_buf \in Buffers /\ d \in Seq(Octet)
        /\ Len(d) = Available(in_buf) /\ Available(in_buf) \in Nat
    BY FramingFacts
  <1>3. Len(d) >= 4
    BY <1>1, <1>2 DEF FramingInv, Reading, NM_PACKAGE_HEADER_LENGTH
  <1>4. Follows(d \o wire, sent, k, 0)
    BY <1>1 DEF FramingInv, InStep, Ahead
  <1>5. in_buf' \in Buffers /\ Data(in_buf') = u
    <2>1. in_buf' = Erase(in_buf, 4) /\ 4 \in Nat
      BY <1>1 DEF NM_PACKAGE_HEADER_LENGTH
    <2> QED BY <1>2, <2>1, EraseDrops
  <1>6. u \in Seq(Octet)
    BY <1>2, <1>3, FrontTaken
  <1>7. n = ToU32(SubSeq(d, 1, 4))
    BY DEF NM_PACKAGE_HEADER_LENGTH
  <1> HIDE DEF d, n, u
  <1>8. /\ k # Len(sent) /\ k + 1 \in 1..Len(sent) /\ p \in Packages
        /\ n = Announced(p) /\ Follows(u \o wire, sent, k, -4)
    BY <1>2, <1>3, <1>4, <1>7, HeaderInFront DEF u
  <1>9. k < Len(sent)
    BY <1>2, <1>8
  <1>10. /\ Announced(p) \in Nat
         /\ Announced(p) = Len(Body(p)) \/ Announced(p) > MaxPackage
         /\ Legal(p) => Announced(p) \in 1..MaxPackage
    BY <1>8, WireForm DEF Packages
  <1>11. n \in Nat /\ MaxPackage \in Nat
    BY <1>8, <1>10, LimitsOK
  <1>12. bad => ~Legal(p)
    BY <1>8, <1>10, <1>11
  <1>13. ~bad => n \in 1..MaxPackage /\ n = Len(Body(p)) /\ n \in Nat \ {0}
    BY <1>8, <1>10, <1>11
  <1> HIDE DEF bad
  <1>14. TypeOK'
    BY <1>1, <1>5, <1>13 DEF FramingInv, TypeOK
  <1>15. Taken'
    BY <1>1 DEF FramingInv, Taken
  <1>16. Reading'
    BY <1>1, <1>8, <1>9, <1>13 DEF FramingInv, Reading
  <1>17. InStep'
    <2>1. ~bad => Ahead' = -4
      BY <1>1 DEF Ahead
    <2> QED BY <1>1, <1>5, <1>8, <2>1 DEF InStep
  <1>18. EndsForCause'
    BY <1>1, <1>9, <1>12 DEF EndsForCause
  <1> QED BY <1>5, <1>6, <1>14, <1>15, <1>16, <1>17, <1>18 DEF FramingInv

\* A body is taken behind its header.
LEMMA TakePackageKeeps ==
  ASSUME FramingInv, TakePackage
  PROVE  FramingInv'
  <1> DEFINE d == Data(in_buf)
             n == remain_len
             msg == NM_ParseFromBuffer(SubSeq(d, 1, n))
             is_ok == msg # Bad
             k == Len(got)
             p == sent[k + 1]
             u == SubSeq(d, n + 1, Len(d))
  <1>1. /\ open /\ recv_state = "NM_RECV_WAIT_PACKAGE" /\ n <= Available(in_buf)
        /\ in_buf' = Erase(in_buf, n)
        /\ recv_state' = IF is_ok THEN "NM_RECV_WAIT_HEADER" ELSE recv_state
        /\ remain_len' = IF is_ok THEN NM_PACKAGE_HEADER_LENGTH ELSE remain_len
        /\ pc' = IF is_ok THEN "recheck" ELSE "select"
        /\ open' = is_ok
        /\ got' = IF is_ok THEN Append(got, msg) ELSE got
        /\ sent' = sent /\ wire' = wire /\ cut' = cut
    BY DEF TakePackage
  <1>2. /\ sent \in Seq(Packages) /\ k \in 0..Len(sent) /\ Len(sent) \in Nat
        /\ wire \in Seq(Octet) /\ in_buf \in Buffers /\ d \in Seq(Octet)
        /\ Len(d) = Available(in_buf) /\ Available(in_buf) \in Nat
        /\ got \in Seq(Msg) /\ n \in Nat \ {0}
    BY FramingFacts
  <1>3. /\ k < Len(sent) /\ n = Announced(p) /\ n = Len(Body(p)) /\ n \in 1..MaxPackage
    BY <1>1 DEF FramingInv, Reading
  <1>4. Follows(d \o wire, sent, k, -4)
    BY <1>1 DEF FramingInv, InStep, Ahead
  <1>5. in_buf' \in Buffers /\ Data(in_buf') = u
    BY <1>1, <1>2, EraseDrops
  <1>6. n \in 0..Len(d) /\ k # Len(sent) /\ k + 1 \in 1..Len(sent) /\ k \in Nat
    BY <1>1, <1>2, <1>3
  <1>7. u \in Seq(Octet)
    BY <1>2, <1>6, FrontTaken
  <1>8. p \in Packages
    BY <1>2, <1>6, ElementOfSeq
  <1> HIDE DEF d, u
  <1>9. SubSeq(d, 1, n) = Body(p) /\ Follows(u \o wire, sent, k + 1, 0)
    BY <1>2, <1>3, <1>4, <1>6, BodyInFront DEF u
  <1>10. msg = NM_ParseFromBuffer(Body(p)) /\ Body(p) \in Seq(Octet)
         /\ (Legal(p) <=> Announced(p) \in 1..MaxPackage /\ NM_ParseFromBuffer(Body(p)) # Bad)
    BY <1>8, <1>9, WireForm DEF Packages
  <1> HIDE DEF msg, n, p
  <1>11. is_ok => msg \in Msg
    BY <1>10, ParsedBack
  <1>12. is_ok <=> Legal(p)
    BY <1>3, <1>10
  <1>12a. open' \in BOOLEAN
    BY <1>1
  <1>13. is_ok => /\ got' \in Seq(Msg) /\ Len(got') = k + 1 /\ Len(got') <= Len(sent)
                  /\ got'[k + 1] = msg /\ \A i \in 1..k : got'[i] = got[i]
    <2>1. is_ok => /\ got' \in Seq(Msg) /\ Len(got') = k + 1
                   /\ got'[k + 1] = msg /\ \A i \in 1..k : got'[i] = got[i]
      BY <1>1, <1>2, <1>11, AppendProperties
    <2>2. k + 1 <= Len(sent)
      BY <1>2, <1>3
    <2> QED BY <2>1, <2>2
  <1> HIDE DEF is_ok
  <1>14. TypeOK'
    <2>1. NM_PACKAGE_HEADER_LENGTH \in Nat \ {0}
      BY DEF NM_PACKAGE_HEADER_LENGTH
    <2>2. TypeOK
      BY DEF FramingInv
    <2>3. CASE is_ok
      BY <1>1, <1>5, <1>13, <1>12a, <2>1, <2>2, <2>3 DEF TypeOK
    <2>4. CASE ~is_ok
      BY <1>1, <1>5, <1>12a, <2>2, <2>4 DEF TypeOK
    <2> QED BY <2>3, <2>4
  <1>15. Taken'
    <2>1. CASE is_ok
      <3> SUFFICES ASSUME NEW i \in 1..Len(got')
                   PROVE  Legal(sent[i]) /\ got'[i] = NM_ParseFromBuffer(Body(sent[i]))
        BY <1>1 DEF Taken
      <3>1. CASE i = k + 1
        BY <1>10, <1>12, <1>13, <2>1, <3>1 DEF p
      <3>2. CASE i # k + 1
        <4>1. i \in 1..k
          BY <1>6, <1>13, <2>1, <3>2
        <4> QED BY <1>13, <2>1, <4>1 DEF FramingInv, Taken
      <3> QED BY <3>1, <3>2
    <2>2. CASE ~is_ok
      BY <1>1, <2>2 DEF FramingInv, Taken
    <2> QED BY <2>1, <2>2
  <1>16. Reading'
    BY <1>1 DEF FramingInv, Reading, n
  <1>17. InStep'
    <2> SUFFICES ASSUME is_ok PROVE InStep'
      BY <1>1 DEF InStep
    <2>1. Ahead' = 0 /\ Len(got') = k + 1
      BY <1>1, <1>13 DEF Ahead
    <2> QED BY <1>1, <1>5, <1>9, <2>1 DEF InStep
  <1>18. EndsForCause'
    BY <1>1, <1>3, <1>12 DEF EndsForCause, p
  <1> QED BY <1>5, <1>7, <1>14, <1>15, <1>16, <1>17, <1>18 DEF FramingInv

\* With too little, nothing is taken.
LEMMA TooShortKeeps ==
  ASSUME FramingInv, TooShort
  PROVE  FramingInv'
  <1>1. /\ sent' = sent /\ wire' = wire /\ in_buf' = in_buf /\ recv_state' = recv_state
        /\ remain_len' = remain_len /\ open' = open /\ cut' = cut /\ got' = got
        /\ pc' = "select"
    BY DEF TooShort
  <1> QED BY <1>1 DEF FramingInv, TypeOK, Taken, Reading, InStep, Ahead, EndsForCause

\* A session that the socket ends has a cause.
LEMMA RecvFailsKeeps ==
  ASSUME FramingInv, RecvFails
  PROVE  FramingInv'
  <1>1. /\ sent' = sent /\ wire' = wire /\ in_buf' = in_buf /\ recv_state' = recv_state
        /\ remain_len' = remain_len /\ open' = FALSE /\ cut' = TRUE /\ got' = got
        /\ pc' = pc
    BY DEF RecvFails
  <1> QED BY <1>1 DEF FramingInv, TypeOK, Taken, Reading, InStep, EndsForCause

\* Every step keeps the invariant.
LEMMA FramingNext == FramingInv /\ [Next]_vars => FramingInv'
  <1> SUFFICES ASSUME FramingInv, [Next]_vars PROVE FramingInv'
    OBVIOUS
  <1>1. ASSUME NEW p \in Messages \cup Foreign, PeerSends(p) PROVE FramingInv'
    BY <1>1, PeerSendsKeeps
  <1>2. CASE RecvArrived
    BY <1>2, RecvArrivedKeeps
  <1>3. CASE TakeHeader
    BY <1>3, TakeHeaderKeeps
  <1>4. CASE TakePackage
    BY <1>4, TakePackageKeeps
  <1>5. CASE TooShort
    BY <1>5, TooShortKeeps
  <1>6. CASE RecvFails
    BY <1>6, RecvFailsKeeps
  <1>7. CASE UNCHANGED vars
    BY <1>7 DEF vars, recvVars, FramingInv, TypeOK, Taken, Reading, InStep, Ahead,
                EndsForCause
  <1> QED BY <1>1, <1>2, <1>3, <1>4, <1>5, <1>6, <1>7 DEF Next, Receive

\* The inductive invariant: the bytes in in_buf and on the wire are always the
\* packages that have not come out, from where the reader takes them to be.
THEOREM FramingInvariant == Spec => []FramingInv
  BY FramingInit, FramingNext, PTL DEF Spec

\* The state has its type: in particular a length that is waited for is never
\* zero (the assertion at RECHECK_POINT), and only messages whose fields fit
\* reach a handler.
THEOREM FramingTypeCorrect == Spec => []TypeOK
  <1>1. FramingInv => TypeOK
    BY DEF FramingInv
  <1> QED BY <1>1, FramingInvariant, PTL

\* Whatever is sent and however recv cuts it, the packages come out whole, in
\* order and once, and each message as it went in.
THEOREM EveryMessageInOrder == Spec => []MessagesInOrder
  <1>1. FramingInv => MessagesInOrder
    <2> SUFFICES ASSUME FramingInv, NEW i \in 1..Len(got)
                 PROVE  /\ Legal(sent[i])
                        /\ got[i] = IF sent[i] \in Messages THEN sent[i]
                                    ELSE NM_ParseFromBuffer(sent[i].body)
      BY DEF MessagesInOrder
    <2>1. Legal(sent[i]) /\ got[i] = NM_ParseFromBuffer(Body(sent[i]))
      BY DEF FramingInv, Taken
    <2>2. sent[i] \in Messages \cup Foreign
      <3>1. sent \in Seq(Packages) /\ Len(got) \in 0..Len(sent) /\ Len(sent) \in Nat
        BY FramingFacts
      <3>2. i \in 1..Len(sent)
        BY <3>1
      <3> QED BY <3>1, <3>2, ElementOfSeq DEF Packages
    <2>3. /\ sent[i] \in Messages => NM_ParseFromBuffer(Body(sent[i])) = sent[i]
          /\ sent[i] \in Foreign => Body(sent[i]) = sent[i].body
      BY <2>2, WireForm
    <2> QED BY <2>1, <2>2, <2>3
  <1> QED BY <1>1, FramingInvariant, PTL

\* NM_ParseFromBuffer accepts, of all byte strings, only those the encoders
\* write, but for the truth of is_keydown.
THEOREM ParsersAreCanonical == Spec => []Canonical
  <1>1. FramingInv => Canonical
    <2> SUFFICES ASSUME FramingInv, NEW i \in 1..Len(got)
                 PROVE  LET again == Body(got[i])
                            was == Body(sent[i])
                        IN  \/ again = was
                            \/ /\ got[i].t = "NM_MSG_KEYBOARD"
                               /\ Len(again) = Len(was)
                               /\ SubSeq(again, 1, 3) = SubSeq(was, 1, 3)
      BY DEF Canonical
    <2> DEFINE s == Body(sent[i])
    <2>1. got[i] = NM_ParseFromBuffer(s) /\ got[i] \in Msg /\ i \in 1..Len(sent)
          /\ sent[i] \in Packages
      <3>1. sent \in Seq(Packages) /\ Len(got) \in 0..Len(sent) /\ Len(sent) \in Nat
            /\ got \in Seq(Msg)
        BY FramingFacts
      <3>2. i \in 1..Len(sent)
        BY <3>1
      <3> QED BY <3>1, <3>2, ElementOfSeq DEF FramingInv, Taken
    <2>2. s \in Seq(Octet) /\ got[i] # Bad
      <3>1. got[i].t # Bad.t
        BY <2>1, MsgCases DEF Bad
      <3> QED BY <2>1, <3>1, WireForm DEF Packages
    <2> HIDE DEF s
    <2>3. SameBody(got[i], <<TypeOf(got[i])>> \o Fields(got[i]), s)
      BY <2>1, <2>2, ParsedBack
    <2>4. Body(got[i]) = <<TypeOf(got[i])>> \o Fields(got[i])
      BY <2>1, MsgNotForeign DEF Body
    <2> QED BY <2>3, <2>4 DEF SameBody, s
  <1> QED BY <1>1, FramingInvariant, PTL

\* SS_RecvData never ends a session over a legal package.
THEOREM SessionEndsForCause == Spec => []EndsForCause
  <1>1. FramingInv => EndsForCause
    BY DEF FramingInv
  <1> QED BY <1>1, FramingInvariant, PTL

-----------------------------------------------------------------------------
(* Where the pointer comes out: the rounding of the pixels.               *)

\* Division, as the products it lies between.
LEMMA Quotient ==
  ASSUME NEW c \in Int, NEW w \in Nat \ {0}
  PROVE  LET q == c \div w IN q \in Int /\ q * w <= c /\ c < q * w + w
  BY SMT

\* Products keep their order.
LEMMA ProductsOrdered ==
  ASSUME NEW a \in Int, NEW b \in Int, NEW n \in Nat, a <= b
  PROVE  a * n <= b * n
  BY SMT

\* The pixels at which a point may come out, next to the exact quotient.
LEMMA PixelsNear ==
  ASSUME NEW a \in Int, a <= 65535, NEW size \in Nat \ {0}, NEW c \in Pixels(a, size)
  PROVE  \E P \in Int : /\ P * 65536 <= a * size /\ a * size < P * 65536 + 65536
                        /\ P <= size - 1 /\ P <= c /\ c <= P + 1 /\ c <= size - 1
                        /\ c \in Int
  <1> DEFINE P == (a * size) \div 65536
  <1>1. a * size \in Int /\ size \in Int /\ size >= 1
    BY SMT
  <1>2. P \in Int /\ P * 65536 <= a * size /\ a * size < P * 65536 + 65536
    BY <1>1, Quotient, SMT
  <1>3. a * size <= 65535 * size
    BY ProductsOrdered, SMT
  <1> HIDE DEF P
  <1>4. P <= size - 1
    <2> DEFINE x == a * size
    <2>1. x \in Int /\ P * 65536 <= x /\ x <= 65535 * size
      BY <1>1, <1>2, <1>3
    <2> HIDE DEF x
    <2>2. P * 65536 <= 65535 * size
      BY <1>1, <1>2, <2>1, SMT
    <2> QED BY <1>1, <1>2, <2>2, SMT
  <1>5. c \in {P, IF P + 1 > size - 1 THEN size - 1 ELSE P + 1}
    <2>1. ~(a > 65535) /\ ~(P > size - 1)
      BY <1>1, <1>2, <1>4, SMT
    <2>2. Pixels(a, size) = {P, IF P + 1 > size - 1 THEN size - 1 ELSE P + 1}
      BY <2>1 DEF Pixels, P
    <2> QED BY <2>2
  <1>6. c \in Int /\ P <= c /\ c <= P + 1 /\ c <= size - 1
    BY <1>1, <1>2, <1>4, <1>5, SMT
  <1> QED BY <1>2, <1>4, <1>6

\* A column or row near the first.
LEMMA NearFirst ==
  ASSUME NEW inset \in {2, 10}, NEW size \in Nat, size >= 20, size <= 32767,
         NEW c \in Pixels(FromFirst(inset, size), size)
  PROVE  c \in Int /\ inset - 1 <= c /\ c <= inset
  <1> DEFINE a == FromFirst(inset, size)
             k == inset * 65535
  <1>1. inset \in Int /\ inset <= 10 /\ inset >= 2 /\ k \in Int /\ size \in Int
        /\ size \in Nat \ {0}
    BY SMT
  <1>2. a = k \div size
    BY DEF FromFirst
  <1> HIDE DEF a
  <1>3. a \in Int /\ a * size <= k /\ k < a * size + size
    BY <1>1, <1>2, Quotient
  <1>4. a <= 65535
    <2> SUFFICES ASSUME a >= 65536 PROVE FALSE
      BY <1>3, SMT
    <2>1. 65536 * size <= a * size
      BY <1>1, <1>3, ProductsOrdered, SMT
    <2> DEFINE x == a * size
    <2>2. x \in Int /\ x <= k /\ 65536 * size <= x
      BY <1>1, <1>3, <2>1, SMT
    <2> HIDE DEF x
    <2> QED BY <1>1, <2>2, SMT DEF k
  <1>5. PICK P \in Int : /\ P * 65536 <= a * size /\ a * size < P * 65536 + 65536
                         /\ P <= c /\ c <= P + 1 /\ c \in Int
    BY <1>1, <1>3, <1>4, PixelsNear DEF a
  <1> DEFINE x == a * size
  <1>6. x \in Int /\ P * 65536 <= x /\ x < P * 65536 + 65536 /\ x <= k /\ k < x + size
    BY <1>1, <1>3, <1>5, SMT
  <1> HIDE DEF x
  <1>7. P = inset - 1
    BY <1>1, <1>5, <1>6, SMT DEF k
  <1> QED BY <1>1, <1>5, <1>7, SMT

\* And near the last.
LEMMA NearLast ==
  ASSUME NEW inset \in {2, 10}, NEW size \in Nat, size >= 20, size <= 32767,
         NEW c \in Pixels(FromLast(inset, size), size)
  PROVE  c \in Int /\ size - inset - 1 <= c /\ c <= size - inset
  <1> DEFINE a == FromLast(inset, size)
             i == size - inset
             k == i * 65535
  <1>1. inset \in Int /\ inset <= 10 /\ inset >= 2 /\ i \in Int /\ k \in Int /\ size \in Int
        /\ size \in Nat \ {0} /\ i >= 10 /\ i <= size
    BY SMT
  <1>2. a = k \div size
    BY DEF FromLast
  <1> HIDE DEF a
  <1>3. a \in Int /\ a * size <= k /\ k < a * size + size
    BY <1>1, <1>2, Quotient
  <1>4. a <= 65535
    <2> SUFFICES ASSUME a >= 65536 PROVE FALSE
      BY <1>3, SMT
    <2>1. 65536 * size <= a * size
      BY <1>1, <1>3, ProductsOrdered, SMT
    <2> DEFINE x == a * size
    <2>2. x \in Int /\ x <= k /\ 65536 * size <= x
      BY <1>1, <1>3, <2>1, SMT
    <2> HIDE DEF x
    <2> QED BY <1>1, <2>2, SMT DEF k
  <1>5. PICK P \in Int : /\ P * 65536 <= a * size /\ a * size < P * 65536 + 65536
                         /\ P <= c /\ c <= P + 1 /\ c \in Int
    BY <1>1, <1>3, <1>4, PixelsNear DEF a
  <1> DEFINE x == a * size
  <1>6. x \in Int /\ P * 65536 <= x /\ x < P * 65536 + 65536 /\ x <= k /\ k < x + size
    BY <1>1, <1>3, <1>5, SMT
  <1> HIDE DEF x
  <1>7. P = i - 1
    BY <1>1, <1>5, <1>6, SMT DEF k
  <1>8. c <= i /\ i - 1 <= c
    BY <1>1, <1>5, <1>7, SMT
  <1> QED BY <1>1, <1>5, <1>8, SMT

\* The level: to two pixels in the other screen's measure.
LEMMA SameLevel ==
  ASSUME NEW v \in Int, NEW n \in Nat \ {0}, 0 <= v, v <= n,
         NEW size \in Nat, size >= 20, size <= 32767,
         NEW c \in Pixels(Scaled(v, n), size)
  PROVE  c \in Int /\ Abs(c * n - v * size) <= 2 * n
  <1> DEFINE a == Scaled(v, n)
             k == v * 65535
  <1>1. k \in Int /\ k >= 0 /\ n \in Int /\ n >= 1 /\ size \in Int /\ size \in Nat \ {0}
    BY SMT
  <1>2. a = k \div n
    BY <1>1 DEF Scaled
  <1> HIDE DEF a
  <1>3. a \in Int /\ a * n <= k /\ k < a * n + n
    BY <1>1, <1>2, Quotient
  <1>4. a <= 65535
    <2> SUFFICES ASSUME a >= 65536 PROVE FALSE
      BY <1>3, SMT
    <2>1. 65536 * n <= a * n
      BY <1>1, <1>3, ProductsOrdered, SMT
    <2> DEFINE x == a * n
    <2>2. x \in Int /\ x <= k /\ 65536 * n <= x
      BY <1>1, <1>3, <2>1, SMT
    <2> HIDE DEF x
    <2> QED BY <1>1, <2>2, SMT DEF k
  <1>5. PICK P \in Int : /\ P * 65536 <= a * size /\ a * size < P * 65536 + 65536
                         /\ P <= c /\ c <= P + 1 /\ c \in Int
    BY <1>1, <1>3, <1>4, PixelsNear DEF a
  \* Both sides times n, and times size.
  <1> DEFINE A == (a * size) * n
             W == v * size
             N == P * n
             M == n * size
  <1>6. A \in Int /\ W \in Int /\ N \in Int /\ M \in Int
    BY <1>1, <1>3, <1>5, SMT
  <1>7. N * 65536 <= A /\ A <= N * 65536 + 65536 * n
    <2> DEFINE x == a * size
    <2>1. x \in Int /\ P * 65536 \in Int /\ P * 65536 + 65536 \in Int
          /\ P * 65536 <= x /\ x <= P * 65536 + 65536
      BY <1>1, <1>3, <1>5, SMT
    <2> HIDE DEF x
    <2>2. (P * 65536) * n <= x * n /\ x * n <= (P * 65536 + 65536) * n
      BY <2>1, ProductsOrdered
    <2>3. (P * 65536) * n = N * 65536 /\ (P * 65536 + 65536) * n = N * 65536 + 65536 * n
      BY <1>1, <1>5, SMT
    <2>4. A = x * n
      BY DEF x
    <2> QED BY <2>2, <2>3, <2>4
  <1>8. A <= W * 65535 /\ W * 65535 <= A + M
    <2> DEFINE x == a * n
    <2>1. x \in Int /\ x <= k /\ k <= x + n
      BY <1>1, <1>3, SMT
    <2>2. A = x * size
      BY <1>1, <1>3, SMT
    <2> HIDE DEF x
    <2>3. x * size <= k * size /\ k * size <= (x + n) * size
      BY <1>1, <2>1, ProductsOrdered
    <2>4. k * size = W * 65535 /\ (x + n) * size = x * size + M
      BY <1>1, <2>1, SMT
    <2> QED BY <2>2, <2>3, <2>4
  <1>9. 0 <= W /\ W <= M
    BY <1>1, ProductsOrdered, SMT
  <1>10. M <= 32767 * n
    BY <1>1, ProductsOrdered, SMT
  <1> HIDE DEF A, W, N, M
  <1>11. N <= W /\ W - N <= 2 * n
    BY <1>1, <1>6, <1>7, <1>8, <1>9, <1>10, SMT
  <1>12. N <= c * n /\ c * n <= N + n /\ c * n \in Int
    <2>1. c * n \in Int /\ P + 1 \in Int /\ P * n <= c * n /\ c * n <= (P + 1) * n
      BY <1>1, <1>5, ProductsOrdered, SMT
    <2>2. (P + 1) * n = N + n
      BY <1>1, <1>5, SMT DEF N
    <2> QED BY <2>1, <2>2 DEF N
  <1> DEFINE y == c * n
  <1>13. y \in Int /\ N <= y /\ y <= N + n
    BY <1>12
  <1> HIDE DEF y
  <1>14. Abs(y - W) <= 2 * n
    BY <1>1, <1>6, <1>11, <1>13, SMT DEF Abs
  <1> QED BY <1>5, <1>14 DEF y, W

-----------------------------------------------------------------------------
(* The points of ENTER and LEAVE.                                         *)

\* The fields of a message that takes the pointer over a side, and a screen.
LEMMA PointFields ==
  ASSUME NEW m \in Msg, m.t \in {"NM_MSG_ENTER", "NM_MSG_LEAVE"}
  PROVE  m.src_x_fullscreen \in Nat /\ m.src_y_fullscreen \in Nat
         /\ m.x \in Int /\ m.y \in Int
  <1>1. m.src_x_fullscreen \in Word /\ m.src_y_fullscreen \in Word
        /\ m.x \in S16 /\ m.y \in S16
    BY MsgCases
  <1> QED BY <1>1, Ranges, SMT

\* The numbers of a screen.
LEMMA ScreenFields ==
  ASSUME NEW own \in Screens
  PROVE  /\ own.w \in Nat /\ own.w >= 20 /\ own.w <= 32767
         /\ own.h \in Nat /\ own.h >= 20 /\ own.h <= 32767
  <1>1. own \in [w : 20..Max16, h : 20..Max16]
    BY ScreensOK
  <1>2. own.w \in 20..Max16 /\ own.h \in 20..Max16
    BY <1>1
  <1>3. Max16 \in Int
    BY DEF Max16
  <1>4. /\ own.w \in Nat /\ own.w >= 20 /\ own.w <= Max16
        /\ own.h \in Nat /\ own.h >= 20 /\ own.h <= Max16
    BY <1>2, <1>3
  <1> QED BY <1>4 DEF Max16

\* Where a pointer may come out.
LEMMA LandingFields ==
  ASSUME NEW p, NEW own, NEW pt \in Landings(p, own)
  PROVE  /\ pt.x \in Pixels(p.x, own.w) /\ pt.y \in Pixels(p.y, own.h)
         /\ pt["x"] = pt.x /\ pt["y"] = pt.y
  BY DEF Landings

\* What EnterPoint gives, per position.
LEMMA EnterFields ==
  ASSUME NEW pos \in Positions, NEW m, NEW own, NEW e, e = EnterPoint(pos, m, own)
  PROVE  /\ pos = "left"  => e.x = FromLast(10, own.w)  /\ e.y = Scaled(m.y, m.src_y_fullscreen)
         /\ pos = "right" => e.x = FromFirst(10, own.w) /\ e.y = Scaled(m.y, m.src_y_fullscreen)
         /\ pos = "up"    => e.y = FromLast(10, own.h)  /\ e.x = Scaled(m.x, m.src_x_fullscreen)
         /\ pos = "down"  => e.y = FromFirst(10, own.h) /\ e.x = Scaled(m.x, m.src_x_fullscreen)
  BY DEF EnterPoint, Source, NM_POS_LEFT, NM_POS_RIGHT, NM_POS_UP, NM_POS_DOWN

\* What ReturnPoint gives, per position.
LEMMA ReturnFields ==
  ASSUME NEW pos \in Positions, NEW m, NEW own, NEW e, e = ReturnPoint(pos, m, own)
  PROVE  /\ pos = "left"  => e.x = FromFirst(2, own.w) /\ e.y = Scaled(m.y, m.src_y_fullscreen)
         /\ pos = "right" => e.x = FromLast(2, own.w)  /\ e.y = Scaled(m.y, m.src_y_fullscreen)
         /\ pos = "up"    => e.y = FromFirst(2, own.h) /\ e.x = Scaled(m.x, m.src_x_fullscreen)
         /\ pos = "down"  => e.y = FromLast(2, own.h)  /\ e.x = Scaled(m.x, m.src_x_fullscreen)
  BY DEF ReturnPoint, Source, NM_POS_LEFT, NM_POS_RIGHT, NM_POS_UP, NM_POS_DOWN

\* A point at the level of `from` comes out at its level.
LEMMA LevelKept ==
  ASSUME NEW pos \in Positions, NEW m, NEW own \in Screens, NEW pt, NEW from,
         from = [x |-> m.x, y |-> m.y],
         m.src_x_fullscreen \in Nat, m.src_y_fullscreen \in Nat,
         m.x \in Int, m.y \in Int, pt["x"] = pt.x, pt["y"] = pt.y,
         pos \in {"left", "right"} =>
           pt.y \in Pixels(Scaled(m.y, m.src_y_fullscreen), own.h),
         pos \in {"up", "down"} =>
           pt.x \in Pixels(Scaled(m.x, m.src_x_fullscreen), own.w),
         BetweenCorners(pos, from, Source(m))
  PROVE  Level(pos, from, Source(m), pt, own)
  <1>0. /\ own.w \in Nat /\ own.w >= 20 /\ own.w <= 32767
        /\ own.h \in Nat /\ own.h >= 20 /\ own.h <= 32767
    BY ScreenFields
  <1>1. CASE pos \in {"left", "right"}
    <2>1. Along(pos) = "y"
      BY <1>1 DEF Along, NM_POS_LEFT, NM_POS_RIGHT
    <2>2. from["y"] = m.y /\ Extent(Source(m))["y"] = m.src_y_fullscreen
          /\ Extent(own)["y"] = own.h
      BY DEF Extent, Source
    <2>3. m.src_y_fullscreen > 0 /\ m.y \in 0..m.src_y_fullscreen
      BY <2>1, <2>2 DEF BetweenCorners
    <2>4. m.src_y_fullscreen \in Nat \ {0} /\ 0 <= m.y /\ m.y <= m.src_y_fullscreen
      BY <2>3
    <2>5. Abs(pt.y * m.src_y_fullscreen - m.y * own.h) <= 2 * m.src_y_fullscreen
      BY <1>0, <1>1, <2>4, SameLevel
    <2> QED BY <2>1, <2>2, <2>5 DEF Level
  <1>2. CASE pos \in {"up", "down"}
    <2>1. Along(pos) = "x"
      BY <1>2 DEF Along, NM_POS_LEFT, NM_POS_RIGHT
    <2>2. from["x"] = m.x /\ Extent(Source(m))["x"] = m.src_x_fullscreen
          /\ Extent(own)["x"] = own.w
      BY DEF Extent, Source
    <2>3. m.src_x_fullscreen > 0 /\ m.x \in 0..m.src_x_fullscreen
      BY <2>1, <2>2 DEF BetweenCorners
    <2>4. m.src_x_fullscreen \in Nat \ {0} /\ 0 <= m.x /\ m.x <= m.src_x_fullscreen
      BY <2>3
    <2>5. Abs(pt.x * m.src_x_fullscreen - m.x * own.w) <= 2 * m.src_x_fullscreen
      BY <1>0, <1>2, <2>4, SameLevel
    <2> QED BY <2>1, <2>2, <2>5 DEF Level
  <1> QED BY <1>1, <1>2 DEF Positions, NM_POS_LEFT, NM_POS_RIGHT, NM_POS_UP, NM_POS_DOWN

\* The side the pointer comes out at, on the server.
LEMMA EntersInside ==
  ASSUME NEW pos \in Positions, NEW m, NEW own \in Screens,
         NEW pt \in Landings(EnterPoint(pos, m, own), own)
  PROVE  /\ Distance(Opposite[pos], pt, own) <= 11
         /\ \A d \in Moves : ~Leaves(pos, pt, d, own)
  <1>0. /\ own.w \in Nat /\ own.w >= 20 /\ own.w <= 32767
        /\ own.h \in Nat /\ own.h >= 20 /\ own.h <= 32767
    BY ScreenFields
  <1> DEFINE e == EnterPoint(pos, m, own)
  <1>1. /\ pt.x \in Pixels(e.x, own.w) /\ pt.y \in Pixels(e.y, own.h)
        /\ pt["x"] = pt.x /\ pt["y"] = pt.y
    BY LandingFields
  <1>2. /\ pos = "left"  => e.x = FromLast(10, own.w)
        /\ pos = "right" => e.x = FromFirst(10, own.w)
        /\ pos = "up"    => e.y = FromLast(10, own.h)
        /\ pos = "down"  => e.y = FromFirst(10, own.h)
    BY EnterFields
  <1>3. Extent(own)["x"] = own.w /\ Extent(own)["y"] = own.h
    BY DEF Extent
  <1> HIDE DEF e
  <1>4. CASE pos = "left"
    <2>1. pt.x \in Int /\ own.w - 10 - 1 <= pt.x /\ pt.x <= own.w - 10
      BY <1>0, <1>1, <1>2, <1>4, NearLast
    <2>2. Distance(Opposite[pos], pt, own) = own.w - 1 - pt.x
      BY <1>1, <1>3, <1>4
      DEF Distance, Opposite, Across, NM_POS_LEFT, NM_POS_RIGHT, NM_POS_UP, NM_POS_DOWN
    <2>3. ASSUME NEW d \in Moves PROVE ~Leaves(pos, pt, d, own)
      BY <1>0, <1>4, <2>1
      DEF Leaves, NM_POS_LEFT, NM_POS_RIGHT, NM_POS_UP, NM_POS_DOWN
    <2> QED BY <1>0, <2>1, <2>2, <2>3
  <1>5. CASE pos = "right"
    <2>1. pt.x \in Int /\ 10 - 1 <= pt.x /\ pt.x <= 10
      BY <1>0, <1>1, <1>2, <1>5, NearFirst
    <2>2. Distance(Opposite[pos], pt, own) = pt.x
      BY <1>1, <1>3, <1>5
      DEF Distance, Opposite, Across, NM_POS_LEFT, NM_POS_RIGHT, NM_POS_UP, NM_POS_DOWN
    <2>3. ASSUME NEW d \in Moves PROVE ~Leaves(pos, pt, d, own)
      BY <1>0, <1>5, <2>1
      DEF Leaves, NM_POS_LEFT, NM_POS_RIGHT, NM_POS_UP, NM_POS_DOWN
    <2> QED BY <1>0, <2>1, <2>2, <2>3
  <1>6. CASE pos = "up"
    <2>1. pt.y \in Int /\ own.h - 10 - 1 <= pt.y /\ pt.y <= own.h - 10
      BY <1>0, <1>1, <1>2, <1>6, NearLast
    <2>2. Distance(Opposite[pos], pt, own) = own.h - 1 - pt.y
      BY <1>1, <1>3, <1>6
      DEF Distance, Opposite, Across, NM_POS_LEFT, NM_POS_RIGHT, NM_POS_UP, NM_POS_DOWN
    <2>3. ASSUME NEW d \in Moves PROVE ~Leaves(pos, pt, d, own)
      BY <1>0, <1>6, <2>1
      DEF Leaves, NM_POS_LEFT, NM_POS_RIGHT, NM_POS_UP, NM_POS_DOWN
    <2> QED BY <1>0, <2>1, <2>2, <2>3
  <1>7. CASE pos = "down"
    <2>1. pt.y \in Int /\ 10 - 1 <= pt.y /\ pt.y <= 10
      BY <1>0, <1>1, <1>2, <1>7, NearFirst
    <2>2. Distance(Opposite[pos], pt, own) = pt.y
      BY <1>1, <1>3, <1>7
      DEF Distance, Opposite, Across, NM_POS_LEFT, NM_POS_RIGHT, NM_POS_UP, NM_POS_DOWN
    <2>3. ASSUME NEW d \in Moves PROVE ~Leaves(pos, pt, d, own)
      BY <1>0, <1>7, <2>1
      DEF Leaves, NM_POS_LEFT, NM_POS_RIGHT, NM_POS_UP, NM_POS_DOWN
    <2> QED BY <1>0, <2>1, <2>2, <2>3
  <1> QED BY <1>4, <1>5, <1>6, <1>7
          DEF Positions, NM_POS_LEFT, NM_POS_RIGHT, NM_POS_UP, NM_POS_DOWN

\* And on the client again.
LEMMA ReturnsInside ==
  ASSUME NEW pos \in Positions, NEW m, NEW own \in Screens,
         NEW pt \in Landings(ReturnPoint(pos, m, own), own)
  PROVE  /\ Distance(pos, pt, own) <= 3
         /\ \A d \in Moves : Edge(own, [x |-> pt.x + d.x, y |-> pt.y + d.y]) # pos
  <1>0. /\ own.w \in Nat /\ own.w >= 20 /\ own.w <= 32767
        /\ own.h \in Nat /\ own.h >= 20 /\ own.h <= 32767
    BY ScreenFields
  <1> DEFINE e == ReturnPoint(pos, m, own)
  <1>1. /\ pt.x \in Pixels(e.x, own.w) /\ pt.y \in Pixels(e.y, own.h)
        /\ pt["x"] = pt.x /\ pt["y"] = pt.y
    BY LandingFields
  <1>2. /\ pos = "left"  => e.x = FromFirst(2, own.w)
        /\ pos = "right" => e.x = FromLast(2, own.w)
        /\ pos = "up"    => e.y = FromFirst(2, own.h)
        /\ pos = "down"  => e.y = FromLast(2, own.h)
    BY ReturnFields
  <1>3. Extent(own)["x"] = own.w /\ Extent(own)["y"] = own.h
    BY DEF Extent
  <1>3a. \A d \in Moves : d.x \in {-1, 0, 1} /\ d.y \in {-1, 0, 1}
    BY DEF Moves
  <1> HIDE DEF e
  <1>4. CASE pos = "left"
    <2>1. pt.x \in Int /\ 2 - 1 <= pt.x /\ pt.x <= 2
      BY <1>0, <1>1, <1>2, <1>4, NearFirst
    <2>2. Distance(pos, pt, own) = pt.x
      BY <1>1, <1>3, <1>4
      DEF Distance, Across, NM_POS_LEFT, NM_POS_RIGHT, NM_POS_UP, NM_POS_DOWN
    <2>3. ASSUME NEW d \in Moves
          PROVE  Edge(own, [x |-> pt.x + d.x, y |-> pt.y + d.y]) # pos
      <3>1. ~(pt.x + d.x < 0)
        BY <1>3a, <2>1
      <3> QED BY <1>4, <3>1
          DEF Edge, NM_POS_LEFT, NM_POS_RIGHT, NM_POS_UP, NM_POS_DOWN, NoEdge
    <2> QED BY <1>0, <2>1, <2>2, <2>3
  <1>5. CASE pos = "right"
    <2>1. pt.x \in Int /\ own.w - 2 - 1 <= pt.x /\ pt.x <= own.w - 2
      BY <1>0, <1>1, <1>2, <1>5, NearLast
    <2>2. Distance(pos, pt, own) = own.w - 1 - pt.x
      BY <1>1, <1>3, <1>5
      DEF Distance, Across, NM_POS_LEFT, NM_POS_RIGHT, NM_POS_UP, NM_POS_DOWN
    <2>3. ASSUME NEW d \in Moves
          PROVE  Edge(own, [x |-> pt.x + d.x, y |-> pt.y + d.y]) # pos
      <3>1. ~(pt.x + d.x > own.w)
        BY <1>0, <1>3a, <2>1
      <3> QED BY <1>5, <3>1
          DEF Edge, NM_POS_LEFT, NM_POS_RIGHT, NM_POS_UP, NM_POS_DOWN, NoEdge
    <2> QED BY <1>0, <2>1, <2>2, <2>3
  <1>6. CASE pos = "up"
    <2>1. pt.y \in Int /\ 2 - 1 <= pt.y /\ pt.y <= 2
      BY <1>0, <1>1, <1>2, <1>6, NearFirst
    <2>2. Distance(pos, pt, own) = pt.y
      BY <1>1, <1>3, <1>6
      DEF Distance, Across, NM_POS_LEFT, NM_POS_RIGHT, NM_POS_UP, NM_POS_DOWN
    <2>3. ASSUME NEW d \in Moves
          PROVE  Edge(own, [x |-> pt.x + d.x, y |-> pt.y + d.y]) # pos
      <3>1. ~(pt.y + d.y < 0)
        BY <1>3a, <2>1
      <3> QED BY <1>6, <3>1
          DEF Edge, NM_POS_LEFT, NM_POS_RIGHT, NM_POS_UP, NM_POS_DOWN, NoEdge
    <2> QED BY <1>0, <2>1, <2>2, <2>3
  <1>7. CASE pos = "down"
    <2>1. pt.y \in Int /\ own.h - 2 - 1 <= pt.y /\ pt.y <= own.h - 2
      BY <1>0, <1>1, <1>2, <1>7, NearLast
    <2>2. Distance(pos, pt, own) = own.h - 1 - pt.y
      BY <1>1, <1>3, <1>7
      DEF Distance, Across, NM_POS_LEFT, NM_POS_RIGHT, NM_POS_UP, NM_POS_DOWN
    <2>3. ASSUME NEW d \in Moves
          PROVE  Edge(own, [x |-> pt.x + d.x, y |-> pt.y + d.y]) # pos
      <3>1. ~(pt.y + d.y > own.h)
        BY <1>0, <1>3a, <2>1
      <3> QED BY <1>7, <3>1
          DEF Edge, NM_POS_LEFT, NM_POS_RIGHT, NM_POS_UP, NM_POS_DOWN, NoEdge
    <2> QED BY <1>0, <2>1, <2>2, <2>3
  <1> QED BY <1>4, <1>5, <1>6, <1>7
          DEF Positions, NM_POS_LEFT, NM_POS_RIGHT, NM_POS_UP, NM_POS_DOWN

\* ENTER: for screens of any sizes, the pointer comes out beside the side that
\* it crossed, at its level, and does not leave at once.
THEOREM PointerEntersBeside == Spec => []EntersBeside
  <1>1. FramingInv => EntersBeside
    <2> SUFFICES ASSUME FramingInv, NEW i \in 1..Len(got), got[i].t = "NM_MSG_ENTER",
                        NEW m, m = got[i], NEW from, from = [x |-> m.x, y |-> m.y],
                        NEW pos, pos = Edge(Source(m), from), pos # NoEdge,
                        NEW own \in Screens, NEW pt \in Landings(EnterPoint(pos, m, own), own)
                 PROVE  /\ Distance(Opposite[pos], pt, own) <= 11
                        /\ \A d \in Moves : ~Leaves(pos, pt, d, own)
                        /\ BetweenCorners(pos, from, Source(m)) =>
                             Level(pos, from, Source(m), pt, own)
      BY DEF EntersBeside
    <2>1. m \in Msg
      BY FramingFacts, ElementOfSeq
    <2>2. pos \in Positions
      BY DEF Edge, Positions
    <2>3. m.src_x_fullscreen \in Nat /\ m.src_y_fullscreen \in Nat
          /\ m.x \in Int /\ m.y \in Int
      BY <2>1, PointFields
    <2> DEFINE e == EnterPoint(pos, m, own)
    <2>4. /\ pt.x \in Pixels(e.x, own.w) /\ pt.y \in Pixels(e.y, own.h)
          /\ pt["x"] = pt.x /\ pt["y"] = pt.y
      BY LandingFields
    <2>5. /\ pos \in {"left", "right"} => e.y = Scaled(m.y, m.src_y_fullscreen)
          /\ pos \in {"up", "down"} => e.x = Scaled(m.x, m.src_x_fullscreen)
      BY <2>2, EnterFields
    <2> HIDE DEF e
    <2>6. BetweenCorners(pos, from, Source(m)) => Level(pos, from, Source(m), pt, own)
      BY <2>2, <2>3, <2>4, <2>5, LevelKept
    <2> QED BY <2>2, <2>6, EntersInside
  <1> QED BY <1>1, FramingInvariant, PTL

\* LEAVE: and it comes back beside the side the server is at, at its level,
\* without entering it again at once.
THEOREM PointerReturnsBeside == Spec => []ReturnsBeside
  <1>1. FramingInv => ReturnsBeside
    <2> SUFFICES ASSUME FramingInv, NEW i \in 1..Len(got), got[i].t = "NM_MSG_LEAVE",
                        NEW m, m = got[i], NEW from, from = [x |-> m.x, y |-> m.y],
                        NEW pos \in Positions, NEW own \in Screens,
                        NEW pt \in Landings(ReturnPoint(pos, m, own), own)
                 PROVE  /\ Distance(pos, pt, own) <= 3
                        /\ \A d \in Moves :
                             Edge(own, [x |-> pt.x + d.x, y |-> pt.y + d.y]) # pos
                        /\ BetweenCorners(pos, from, Source(m)) =>
                             Level(pos, from, Source(m), pt, own)
      BY DEF ReturnsBeside
    <2>1. m \in Msg
      BY FramingFacts, ElementOfSeq
    <2>3. m.src_x_fullscreen \in Nat /\ m.src_y_fullscreen \in Nat
          /\ m.x \in Int /\ m.y \in Int
      BY <2>1, PointFields
    <2> DEFINE e == ReturnPoint(pos, m, own)
    <2>4. /\ pt.x \in Pixels(e.x, own.w) /\ pt.y \in Pixels(e.y, own.h)
          /\ pt["x"] = pt.x /\ pt["y"] = pt.y
      BY LandingFields
    <2>5. /\ pos \in {"left", "right"} => e.y = Scaled(m.y, m.src_y_fullscreen)
          /\ pos \in {"up", "down"} => e.x = Scaled(m.x, m.src_x_fullscreen)
      BY ReturnFields
    <2> HIDE DEF e
    <2>6. BetweenCorners(pos, from, Source(m)) => Level(pos, from, Source(m), pt, own)
      BY <2>3, <2>4, <2>5, LevelKept
    <2> QED BY <2>6, ReturnsInside
  <1> QED BY <1>1, FramingInvariant, PTL
=============================================================================
