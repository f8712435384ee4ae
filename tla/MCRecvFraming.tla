--------------------------- MODULE MCRecvFraming ---------------------------
(* Messages with the values at which a conversion could go wrong, bodies   *)
(* that are too short, too long or of no known kind, and lengths no reader *)
(* takes.                                                                  *)
EXTENDS RecvFraming

Point(t, w, h, x, y) ==
  [t |-> t, src_x_fullscreen |-> w, src_y_fullscreen |-> h, x |-> x, y |-> y]
Clip(s) == [t |-> "NM_MSG_CLIPDATA", data_type |-> 0, data |-> s]

MCMessages ==
  {[t |-> "NM_MSG_KEEPALIVE"], [t |-> "NM_MSG_HANDSHAKE_REPLY"]}
  \cup {[t |-> "NM_MSG_HANDSHAKE", srv_pos |-> p] : p \in {3}}
  \cup {Point("NM_MSG_ENTER", 1920, 1080, x, y) :
           <<x, y>> \in {<<0 - 2, 0>>, <<0 - 1, 0 - 2>>, <<1921, 1080>>,
                        <<255, 0 - 3>>, <<256, 1083>>}}
  \cup {Point("NM_MSG_LEAVE", 1024, 768, x, y) :
           <<x, y>> \in {<<1023, 300>>, <<0, 767>>, <<500, 767>>}}
  \cup {[t |-> "NM_MSG_MOUSE", msg |-> 512, x |-> 0 - 32768, y |-> 32767, data |-> d] :
           d \in {0 - 1, 129}}
  \cup {[t |-> "NM_MSG_KEYBOARD", vk |-> 255, scan |-> 30, is_keydown |-> d] :
           d \in BOOLEAN}
  \cup {Clip(<<200, 1, 2>>), Clip([i \in 1..9 |-> 4])}

\* A body of each type: with a byte too many or too few, of a value there is
\* not, or one that the parser takes although no encoder wrote it.
Of(type, n, byte) == <<type>> \o [i \in 1..n |-> byte]
Bodies ==
  {Of(0, 1, 4), Of(1, 0, 4), Of(1, 1, 4), Of(2, 1, 4), Of(3, 8, 4), Of(4, 9, 0),
   Of(5, 7, 4), Of(6, 3, 4), Of(6, 4, 1), Of(7, 1, 0), Of(7, 3, 4), Of(8, 0, 4)}

MCForeign ==
  {[len |-> Len(s), body |-> s] : s \in Bodies}
    \cup {[len |-> 0, body |-> <<>>], [len |-> MaxPackage + 1, body |-> <<0>>]}

MCScreens == {[w |-> 1024, h |-> 768], [w |-> 1920, h |-> 1080], [w |-> 1080, h |-> 3840]}
=============================================================================
