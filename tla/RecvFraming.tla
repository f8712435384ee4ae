---------------------------- MODULE RecvFraming ----------------------------
(***************************************************************************)
(* How a session cuts the byte stream of its socket into packages:         *)
(* SS_RecvData (src/mmcore/Client/cli_session.c) and SS_OnRecvData         *)
(* (src/mmcore/Server/srv_session.c), which are the same code.  A package  *)
(* on the wire is a header with the body's length, then the body.  TCP     *)
(* hands the stream over in pieces that respect neither; what has arrived  *)
(* is appended to in_buf, and whole headers and bodies are taken from its  *)
(* front until the rest is too short.  The bytes are those NetMsg's        *)
(* encoders write, and a body goes to its parsers; what ENTER and LEAVE do *)
(* with the pointer is Crossing.  The other effects of a message are the   *)
(* subject of Handover and Clipboard.                                      *)
(***************************************************************************)
EXTENDS BufferOps, NetMsg, Crossing

CONSTANTS
  Messages,    \* the messages a peer hands to NM_MsgToBuffer
  Foreign,     \* what else may arrive: a header's length and a body
  MaxPackage,  \* 10 * COM_MB
  MaxSent,     \* bound: packages sent in one behaviour
  Screens      \* the sizes a machine's screen may have

NM_PACKAGE_HEADER_LENGTH == 4

ASSUME ByteIsOctet == Byte = Octet
\* What a peer sends fits the fields it travels in.
ASSUME MessagesOK == Messages \subseteq Msg /\ \A m \in Messages : FitsU32(Size(m))
\* No encoder writes the length of a foreign package that does not fit its
\* body; a body longer than the limit is never read.
ASSUME ForeignOK ==
  \A p \in Foreign :
    /\ p \in [len : Nat, body : Seq(Octet)] /\ FitsU32(p.len)
    /\ p.len = Len(p.body) \/ p.len > MaxPackage
ASSUME LimitsOK == MaxPackage \in Nat \ {0} /\ MaxSent \in Nat
ASSUME ScreensOK == Screens \subseteq [w : 20..Max16, h : 20..Max16]

VARIABLES
  sent,        \* history: the messages and foreign packages the peer has sent
  wire,        \* their bytes that recv has not returned yet
  in_buf,
  recv_state,  \* "NM_RECV_WAIT_HEADER" or "NM_RECV_WAIT_PACKAGE"
  remain_len,
  pc,          \* "select", or "recheck" at RECHECK_POINT
  open,        \* the session is still there
  cut,         \* history: the socket ended or failed
  got          \* history: the messages the parser made of packages

recvVars == <<in_buf, recv_state, remain_len, pc, open>>
vars == <<sent, wire, recvVars, cut, got>>

\* The body of what is sent, and all of it on the wire.
Body(p) == IF p \in Foreign THEN p.body ELSE <<TypeOf(p)>> \o Fields(p)
OnWire(p) == IF p \in Foreign THEN U32(p.len) \o p.body ELSE NM_MsgToBuffer(p)

Init ==
  /\ sent = <<>> /\ wire = <<>> /\ got = <<>>
  /\ in_buf = Create(InitLen)
  /\ recv_state = "NM_RECV_WAIT_HEADER"
  /\ remain_len = NM_PACKAGE_HEADER_LENGTH
  /\ pc = "select" /\ open = TRUE /\ cut = FALSE

\* The peer's out_buf reaches the wire, package after package.
PeerSends(p) ==
  /\ Len(sent) < MaxSent
  /\ sent' = Append(sent, p)
  /\ wire' = wire \o OnWire(p)
  /\ UNCHANGED <<recvVars, cut, got>>

\* The first half of SS_RecvData: all that has arrived goes into in_buf.
RecvArrived ==
  /\ open /\ pc = "select"
  /\ \E available \in 1..Len(wire) :
       /\ in_buf' = Fill(Alloc(in_buf, available), SubSeq(wire, 1, available))
       /\ wire' = SubSeq(wire, available + 1, Len(wire))
  /\ pc' = "recheck"
  /\ UNCHANGED <<sent, recv_state, remain_len, open, cut, got>>

\* The peer has closed (nothing is announced), recv fails or returns less
\* than was announced: the session ends.
RecvFails ==
  /\ open /\ pc = "select"
  /\ open' = FALSE
  /\ cut' = TRUE
  /\ UNCHANGED <<sent, wire, in_buf, recv_state, remain_len, pc, got>>

\* Mutant: only too long a package is refused.
TakeHeader_NoMinimum ==
  LET n == ToU32(SubSeq(Data(in_buf), 1, NM_PACKAGE_HEADER_LENGTH))
      bad == n > MaxPackage
  IN  /\ open /\ pc = "recheck" /\ recv_state = "NM_RECV_WAIT_HEADER"
      /\ remain_len <= Available(in_buf)
      /\ in_buf' = Erase(in_buf, NM_PACKAGE_HEADER_LENGTH)
      /\ recv_state' = IF bad THEN recv_state ELSE "NM_RECV_WAIT_PACKAGE"
      /\ remain_len' = IF bad THEN remain_len ELSE n
      /\ pc' = IF bad THEN "select" ELSE "recheck"
      /\ open' = ~bad
      /\ UNCHANGED <<sent, wire, cut, got>>

\* RECHECK_POINT while waiting for a header
TakeHeader ==
  LET n == ToU32(SubSeq(Data(in_buf), 1, NM_PACKAGE_HEADER_LENGTH))
      bad == n > MaxPackage \/ n < 1
  IN  /\ open /\ pc = "recheck" /\ recv_state = "NM_RECV_WAIT_HEADER"
      /\ remain_len <= Available(in_buf)
      /\ in_buf' = Erase(in_buf, NM_PACKAGE_HEADER_LENGTH)
      /\ recv_state' = IF bad THEN recv_state ELSE "NM_RECV_WAIT_PACKAGE"
      /\ remain_len' = IF bad THEN remain_len ELSE n
      /\ pc' = IF bad THEN "select" ELSE "recheck"
      /\ open' = ~bad
      /\ UNCHANGED <<sent, wire, cut, got>>

\* Mutant: one package is taken each time recv returns something.
TakePackage_Once ==
  LET msg == NM_ParseFromBuffer(SubSeq(Data(in_buf), 1, remain_len))
      is_ok == msg # Bad
  IN  /\ open /\ pc = "recheck" /\ recv_state = "NM_RECV_WAIT_PACKAGE"
      /\ remain_len <= Available(in_buf)
      /\ in_buf' = Erase(in_buf, remain_len)
      /\ recv_state' = IF is_ok THEN "NM_RECV_WAIT_HEADER" ELSE recv_state
      /\ remain_len' = IF is_ok THEN NM_PACKAGE_HEADER_LENGTH ELSE remain_len
      /\ pc' = "select"
      /\ open' = is_ok
      /\ got' = IF is_ok THEN Append(got, msg) ELSE got
      /\ UNCHANGED <<sent, wire, cut>>

\* Mutant: the body stays in the buffer.
TakePackage_Kept ==
  LET msg == NM_ParseFromBuffer(SubSeq(Data(in_buf), 1, remain_len))
      is_ok == msg # Bad
  IN  /\ open /\ pc = "recheck" /\ recv_state = "NM_RECV_WAIT_PACKAGE"
      /\ remain_len <= Available(in_buf)
      /\ recv_state' = IF is_ok THEN "NM_RECV_WAIT_HEADER" ELSE recv_state
      /\ remain_len' = IF is_ok THEN NM_PACKAGE_HEADER_LENGTH ELSE remain_len
      /\ pc' = IF is_ok THEN "recheck" ELSE "select"
      /\ open' = is_ok
      /\ got' = IF is_ok THEN Append(got, msg) ELSE got
      /\ UNCHANGED <<sent, wire, in_buf, cut>>

\* RECHECK_POINT while waiting for a body; a package the parser refuses
\* ends the session.
TakePackage ==
  LET msg == NM_ParseFromBuffer(SubSeq(Data(in_buf), 1, remain_len))
      is_ok == msg # Bad
  IN  /\ open /\ pc = "recheck" /\ recv_state = "NM_RECV_WAIT_PACKAGE"
      /\ remain_len <= Available(in_buf)
      /\ in_buf' = Erase(in_buf, remain_len)
      /\ recv_state' = IF is_ok THEN "NM_RECV_WAIT_HEADER" ELSE recv_state
      /\ remain_len' = IF is_ok THEN NM_PACKAGE_HEADER_LENGTH ELSE remain_len
      /\ pc' = IF is_ok THEN "recheck" ELSE "select"
      /\ open' = is_ok
      /\ got' = IF is_ok THEN Append(got, msg) ELSE got
      /\ UNCHANGED <<sent, wire, cut>>

\* RECHECK_POINT with too little in in_buf: back to select.
TooShort ==
  /\ open /\ pc = "recheck"
  /\ remain_len > Available(in_buf)
  /\ pc' = "select"
  /\ UNCHANGED <<sent, wire, in_buf, recv_state, remain_len, open, cut, got>>

Receive == RecvArrived \/ TakeHeader \/ TakePackage \/ TooShort

Next ==
  \/ \E p \in Messages \cup Foreign : PeerSends(p)
  \/ Receive
  \/ RecvFails

Spec == Init /\ [][Next]_vars

\* The I/O thread's loop selects on every session and handles what is ready.
FairSpec == Spec /\ WF_vars(Receive)

-----------------------------------------------------------------------------
(* Properties.                                                             *)

\* An illegal package: its length, or a foreign body the parsers refuse.
Legal(p) ==
  /\ (IF p \in Foreign THEN p.len ELSE Len(Body(p))) \in 1..MaxPackage
  /\ p \in Foreign => NM_ParseFromBuffer(p.body) # Bad

TypeOK ==
  /\ sent \in Seq(Messages \cup Foreign)
  /\ got \in Seq(Msg) /\ Len(got) <= Len(sent)
  /\ wire \in Seq(Byte) /\ in_buf \in Buffers
  /\ recv_state \in {"NM_RECV_WAIT_HEADER", "NM_RECV_WAIT_PACKAGE"}
  /\ remain_len \in Nat \ {0}     \* the assertion at RECHECK_POINT
  /\ pc \in {"select", "recheck"}
  /\ open \in BOOLEAN /\ cut \in BOOLEAN

\* Every package comes out, whole, in order and once, however the stream was
\* cut, and none with an illegal length; and a message comes out as it went
\* in: no field is cut off, moved, or loses its sign or its byte order on the
\* way, and no encoder's length puts the reader out of step.
MessagesInOrder ==
  \A i \in 1..Len(got) :
    /\ Legal(sent[i])
    /\ got[i] = IF sent[i] \in Messages THEN sent[i]
                ELSE NM_ParseFromBuffer(sent[i].body)

\* What the parser accepts is what an encoder would have written: no two
\* bodies mean the same, but for the truth of is_keydown.
Canonical ==
  \A i \in 1..Len(got) :
    LET again == Body(got[i])
        was == Body(sent[i])
    IN  \/ again = was
        \/ /\ got[i].t = "NM_MSG_KEYBOARD"
           /\ Len(again) = Len(was) /\ SubSeq(again, 1, 3) = SubSeq(was, 1, 3)

\* A session is only ended by its stream for a reason: the socket failed or
\* the next package really is illegal, which a peer's own message is only
\* when it is too long.
EndsForCause ==
  ~open => \/ cut
           \/ Len(got) < Len(sent) /\ ~Legal(sent[Len(got) + 1])

\* A pointer that left the client's screen over a side comes out ten pixels
\* inside the opposite side of the server's, at the same level when it left
\* between two corners, and not where its next move is already a leave:
\* whatever the two screens' sizes are and the system's rounding does.
EntersBeside ==
  \A i \in 1..Len(got) : got[i].t = "NM_MSG_ENTER" =>
    LET m == got[i]
        from == [x |-> m.x, y |-> m.y]
        pos == Edge(Source(m), from)
    IN  pos # NoEdge =>
          \A own \in Screens : \A pt \in Landings(EnterPoint(pos, m, own), own) :
            /\ Distance(Opposite[pos], pt, own) <= 11
            /\ \A d \in Moves : ~Leaves(pos, pt, d, own)
            /\ BetweenCorners(pos, from, Source(m)) =>
                 Level(pos, from, Source(m), pt, own)

\* And back: it returns to the side of the client's screen the server is at,
\* at the same level (the pointer of a server is on its screen, so between
\* two corners), and not where the next move enters that server again.
ReturnsBeside ==
  \A i \in 1..Len(got) : got[i].t = "NM_MSG_LEAVE" =>
    LET m == got[i]
        from == [x |-> m.x, y |-> m.y]
    IN  \A pos \in Positions :
          (\E d \in Moves : Leaves(pos, from, d, Source(m))) =>
            \A own \in Screens : \A pt \in Landings(ReturnPoint(pos, m, own), own) :
              /\ Distance(pos, pt, own) <= 3
              /\ \A d \in Moves :
                   Edge(own, [x |-> pt.x + d.x, y |-> pt.y + d.y]) # pos
              /\ BetweenCorners(pos, from, Source(m)) =>
                   Level(pos, from, Source(m), pt, own)

\* What was sent is delivered eventually, unless the session ends.
EventuallyDelivered ==
  Len(got) < Len(sent) ~> Len(got) = Len(sent) \/ ~open
=============================================================================
