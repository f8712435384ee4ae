------------------------------- MODULE NetMsg -------------------------------
(***************************************************************************)
(* The messages of the two ends as bytes: the encoders behind              *)
(* NM_MsgToBuffer and the parsers behind NM_ParseFromBuffer                *)
(* (src/mmcore/NetMsg/netmsg.c).  A package is four bytes of length, most  *)
(* significant first, then a byte of type and the type's fields.  Fields   *)
(* that are 32 bits wide in nmMsg_t travel as 16.                          *)
(*                                                                         *)
(* These are the operators; RecvFraming sends what they write through a    *)
(* stream and gives them what it cuts out of it.                           *)
(***************************************************************************)
EXTENDS Integers, Sequences

\* The values of uint_8_t, uint_16_t and int_16_t.
Octet == 0..255
MaxU16 == 65535
Max16 == 32767
Word == 0..MaxU16
S16 == (-Max16 - 1)..Max16

Bad == [t |-> "bad"]

Types == <<"NM_MSG_KEEPALIVE", "NM_MSG_HANDSHAKE", "NM_MSG_HANDSHAKE_REPLY",
           "NM_MSG_ENTER", "NM_MSG_LEAVE", "NM_MSG_MOUSE", "NM_MSG_KEYBOARD",
           "NM_MSG_CLIPDATA">>
TypeOf(m) == (CHOOSE i \in 1..Len(Types) : Types[i] = m.t) - 1

NM_POS_MAX == 4
NM_CLIP_TEXT == 0

-----------------------------------------------------------------------------
(* nmMsg_t, each field with the values that fit what travels: what the     *)
(* encoders are for, and what a handler may be given.  A clipboard text is *)
(* not empty (the parser refuses one that is), a position is one there is. *)
Msg ==
  [t : {"NM_MSG_KEEPALIVE", "NM_MSG_HANDSHAKE_REPLY"}]
  \cup [t : {"NM_MSG_HANDSHAKE"}, srv_pos : 0..(NM_POS_MAX - 1)]
  \cup [t : {"NM_MSG_ENTER", "NM_MSG_LEAVE"}, src_x_fullscreen : Word,
        src_y_fullscreen : Word, x : S16, y : S16]
  \cup [t : {"NM_MSG_MOUSE"}, msg : Word, x : S16, y : S16, data : S16]
  \cup [t : {"NM_MSG_KEYBOARD"}, vk : Octet, scan : Octet, is_keydown : BOOLEAN]
  \cup [t : {"NM_MSG_CLIPDATA"}, data_type : {NM_CLIP_TEXT},
        data : Seq(Octet) \ {<<>>}]

-----------------------------------------------------------------------------
(* Byte order (src/mmcore/Common/byteorder.c): most significant first.     *)

\* The 16 low bits of v, signed or not, as COM_LTON_U16 and COM_LTON_16
\* leave them in memory.
High(v) == (v % 65536) \div 256
Low(v) == v % 256
U16(v) == <<High(v), Low(v)>>
U32(v) == U16(v \div 65536) \o U16(v)
FitsU32(v) == v \div 65536 \in Word

ToU16(b) == b[1] * 256 + b[2]
To16(b) == IF ToU16(b) < 32768 THEN ToU16(b) ELSE ToU16(b) - 65536
ToU32(b) == ToU16(SubSeq(b, 1, 2)) * 65536 + ToU16(SubSeq(b, 3, 4))

-----------------------------------------------------------------------------
(* Encoding.                                                               *)

\* The fields of a message after its type.
Fields(m) ==
  CASE m.t \in {"NM_MSG_KEEPALIVE", "NM_MSG_HANDSHAKE_REPLY"} -> <<>>
    [] m.t = "NM_MSG_HANDSHAKE" -> <<m.srv_pos>>
    [] m.t \in {"NM_MSG_ENTER", "NM_MSG_LEAVE"} ->
         U16(m.src_x_fullscreen) \o U16(m.src_y_fullscreen) \o U16(m.x) \o U16(m.y)
    [] m.t = "NM_MSG_MOUSE" -> U16(m.msg) \o U16(m.x) \o U16(m.y) \o U16(m.data)
    [] m.t = "NM_MSG_KEYBOARD" ->
         <<m.vk, m.scan, IF m.is_keydown THEN 1 ELSE 0>>
    [] m.t = "NM_MSG_CLIPDATA" -> <<m.data_type>> \o m.data

\* The length each encoder writes: the sizes of the type and of the fields.
Size(m) ==
  CASE m.t \in {"NM_MSG_KEEPALIVE", "NM_MSG_HANDSHAKE_REPLY"} -> 1
    [] m.t = "NM_MSG_HANDSHAKE" -> 1 + 1
    [] m.t \in {"NM_MSG_ENTER", "NM_MSG_LEAVE", "NM_MSG_MOUSE"} -> 1 + 4 * 2
    [] m.t = "NM_MSG_KEYBOARD" -> 1 + 3
    [] m.t = "NM_MSG_CLIPDATA" -> 1 + 1 + Len(m.data)

NM_MsgToBuffer(m) == U32(Size(m)) \o <<TypeOf(m)>> \o Fields(m)

-----------------------------------------------------------------------------
(* Parsing.  p is the body after its type.                                 *)

\* Mutant: the point is read before the screen's size.
ParsePoint_Swapped(t, p) ==
  [t |-> t, src_x_fullscreen |-> ToU16(SubSeq(p, 5, 6)),
            src_y_fullscreen |-> ToU16(SubSeq(p, 7, 8)),
            x |-> To16(SubSeq(p, 1, 2)), y |-> To16(SubSeq(p, 3, 4))]

ParsePoint(t, p) ==
  [t |-> t, src_x_fullscreen |-> ToU16(SubSeq(p, 1, 2)),
            src_y_fullscreen |-> ToU16(SubSeq(p, 3, 4)),
            x |-> To16(SubSeq(p, 5, 6)), y |-> To16(SubSeq(p, 7, 8))]

ParseMouse(p) ==
  [t |-> "NM_MSG_MOUSE", msg |-> ToU16(SubSeq(p, 1, 2)),
   x |-> To16(SubSeq(p, 3, 4)), y |-> To16(SubSeq(p, 5, 6)),
   data |-> To16(SubSeq(p, 7, 8))]

ParseHandshake(p) ==
  IF p[1] >= NM_POS_MAX THEN Bad
  ELSE [t |-> "NM_MSG_HANDSHAKE", srv_pos |-> p[1]]

ParseClipdata(p) ==
  IF p[1] # NM_CLIP_TEXT THEN Bad
  ELSE [t |-> "NM_MSG_CLIPDATA", data_type |-> p[1],
        data |-> SubSeq(p, 2, Len(p))]

\* Mutant: a body may be longer than its fields.
LengthFits_AtLeast(t, n) ==
  CASE t \in {"NM_MSG_KEEPALIVE", "NM_MSG_HANDSHAKE_REPLY"} -> TRUE
    [] t = "NM_MSG_HANDSHAKE" -> n >= 1
    [] t \in {"NM_MSG_ENTER", "NM_MSG_LEAVE", "NM_MSG_MOUSE"} -> n >= 8
    [] t = "NM_MSG_KEYBOARD" -> n >= 3
    [] t = "NM_MSG_CLIPDATA" -> n >= 2

\* Each parser's first condition.
LengthFits(t, n) ==
  CASE t \in {"NM_MSG_KEEPALIVE", "NM_MSG_HANDSHAKE_REPLY"} -> n = 0
    [] t = "NM_MSG_HANDSHAKE" -> n = 1
    [] t \in {"NM_MSG_ENTER", "NM_MSG_LEAVE", "NM_MSG_MOUSE"} -> n = 8
    [] t = "NM_MSG_KEYBOARD" -> n = 3
    [] t = "NM_MSG_CLIPDATA" -> n >= 2

ParseFields(t, p) ==
  CASE t \in {"NM_MSG_KEEPALIVE", "NM_MSG_HANDSHAKE_REPLY"} -> [t |-> t]
    [] t = "NM_MSG_HANDSHAKE" -> ParseHandshake(p)
    [] t \in {"NM_MSG_ENTER", "NM_MSG_LEAVE"} -> ParsePoint(t, p)
    [] t = "NM_MSG_MOUSE" -> ParseMouse(p)
    [] t = "NM_MSG_KEYBOARD" ->
         [t |-> t, vk |-> p[1], scan |-> p[2], is_keydown |-> p[3] # 0]
    [] t = "NM_MSG_CLIPDATA" -> ParseClipdata(p)

NM_ParseFromBuffer(s) ==
  IF Len(s) < 1 \/ s[1] >= Len(Types) THEN Bad
  ELSE LET t == Types[s[1] + 1]
       IN  IF LengthFits(t, Len(s) - 1) THEN ParseFields(t, Tail(s)) ELSE Bad
=============================================================================
