------------------------------ MODULE Crossing ------------------------------
(***************************************************************************)
(* Where the pointer crosses from one machine's screen to another's: the   *)
(* edge tests of the hook (on_normal_mouse_action in                       *)
(* src/mmcore/Client/cli_hook.c), the point at which the server of a       *)
(* position puts it on ENTER and the test by which it gives it back        *)
(* (SS_OnPackage in src/mmcore/Server/srv_session.c), and the point at     *)
(* which the client takes it back on LEAVE (SS_HandleRecvBuffer in         *)
(* src/mmcore/Client/cli_session.c).                                       *)
(*                                                                         *)
(* A screen is [w, h] in pixels, a point [x, y]; a point for mouse_event   *)
(* is in 65536ths of the screen it is called on.                           *)
(***************************************************************************)
EXTENDS Integers

NM_POS_LEFT == "left"
NM_POS_RIGHT == "right"
NM_POS_UP == "up"
NM_POS_DOWN == "down"
NoEdge == "none"
Positions == {NM_POS_LEFT, NM_POS_RIGHT, NM_POS_UP, NM_POS_DOWN}

\* The position the hook asks for a handler, the tests in their order.
Edge(screen, pt) ==
  IF pt.x < 0 THEN NM_POS_LEFT
  ELSE IF pt.x > screen.w THEN NM_POS_RIGHT
  ELSE IF pt.y < 0 THEN NM_POS_UP
  ELSE IF pt.y > screen.h THEN NM_POS_DOWN
  ELSE NoEdge

\* v * 65535 / size, where size is unsigned: a negative product is taken
\* modulo 2^32 first.  (2^32 = 2 * (2^31 - 1) + 2, in TLC's 32 bits.)
Scaled(v, size) ==
  LET MaxInt == 2147483647
      p == v * 65535
  IN  IF p >= 0 THEN p \div size
      ELSE (MaxInt + p) \div size + MaxInt \div size
             + (((MaxInt + p) % size) + (MaxInt % size) + 2) \div size

\* A column or row of the screen the handler runs on; inset pixels from its
\* first or from its last one.
FromFirst(inset, size) == (inset * 65535) \div size
FromLast(inset, size) == ((size - inset) * 65535) \div size

Source(m) == [w |-> m.src_x_fullscreen, h |-> m.src_y_fullscreen]

\* Mutant: the level is taken in pixels of the screen entered.
EnterPoint_OwnScale(pos, m, own) ==
  CASE pos = NM_POS_LEFT  -> [x |-> FromLast(10, own.w), y |-> Scaled(m.y, own.h)]
    [] pos = NM_POS_RIGHT -> [x |-> FromFirst(10, own.w), y |-> Scaled(m.y, own.h)]
    [] pos = NM_POS_UP    -> [x |-> Scaled(m.x, own.w), y |-> FromLast(10, own.h)]
    [] pos = NM_POS_DOWN  -> [x |-> Scaled(m.x, own.w), y |-> FromFirst(10, own.h)]

\* The server at pos: ten pixels inside the side that faces the client.
EnterPoint(pos, m, own) ==
  LET src == Source(m)
  IN  CASE pos = NM_POS_LEFT  -> [x |-> FromLast(10, own.w), y |-> Scaled(m.y, src.h)]
        [] pos = NM_POS_RIGHT -> [x |-> FromFirst(10, own.w), y |-> Scaled(m.y, src.h)]
        [] pos = NM_POS_UP    -> [x |-> Scaled(m.x, src.w), y |-> FromLast(10, own.h)]
        [] pos = NM_POS_DOWN  -> [x |-> Scaled(m.x, src.w), y |-> FromFirst(10, own.h)]

\* A move by d with the pointer at pt leaves the server at pos.
Leaves(pos, pt, d, own) ==
  \/ pos = NM_POS_LEFT  /\ pt.x >= own.w - 1 /\ d.x > 0
  \/ pos = NM_POS_RIGHT /\ pt.x <= 0 /\ d.x < 0
  \/ pos = NM_POS_UP    /\ pt.y >= own.h - 1 /\ d.y > 0
  \/ pos = NM_POS_DOWN  /\ pt.y <= 0 /\ d.y < 0

\* Mutant: the pointer returns on the far side of the client's screen.
ReturnPoint_FarSide(pos, m, own) ==
  LET src == Source(m)
  IN  CASE pos = NM_POS_LEFT  -> [x |-> FromLast(2, own.w), y |-> Scaled(m.y, src.h)]
        [] pos = NM_POS_RIGHT -> [x |-> FromFirst(2, own.w), y |-> Scaled(m.y, src.h)]
        [] pos = NM_POS_UP    -> [x |-> Scaled(m.x, src.w), y |-> FromLast(2, own.h)]
        [] pos = NM_POS_DOWN  -> [x |-> Scaled(m.x, src.w), y |-> FromFirst(2, own.h)]

\* The client: two pixels inside the side the server is at.
ReturnPoint(pos, m, own) ==
  LET src == Source(m)
  IN  CASE pos = NM_POS_LEFT  -> [x |-> FromFirst(2, own.w), y |-> Scaled(m.y, src.h)]
        [] pos = NM_POS_RIGHT -> [x |-> FromLast(2, own.w), y |-> Scaled(m.y, src.h)]
        [] pos = NM_POS_UP    -> [x |-> Scaled(m.x, src.w), y |-> FromFirst(2, own.h)]
        [] pos = NM_POS_DOWN  -> [x |-> Scaled(m.x, src.w), y |-> FromLast(2, own.h)]

\* mouse_event with MOUSEEVENTF_ABSOLUTE, on the primary screen: the pixel is
\* rounded in a way of the system's own, and one beyond the edge is the last.
Pixels(a, size) ==
  LET a16 == IF a > 65535 THEN 65535 ELSE a
      Clamped(p) == IF p > size - 1 THEN size - 1 ELSE p
  IN  {Clamped((a16 * size) \div 65536), Clamped((a16 * size) \div 65536 + 1)}

Landings(p, own) == [x : Pixels(p.x, own.w), y : Pixels(p.y, own.h)]

-----------------------------------------------------------------------------
(* What a crossing is meant to do, in pixels.                              *)

Across(pos) == IF pos \in {NM_POS_LEFT, NM_POS_RIGHT} THEN "x" ELSE "y"
Along(pos)  == IF pos \in {NM_POS_LEFT, NM_POS_RIGHT} THEN "y" ELSE "x"
Extent(screen) == [x |-> screen.w, y |-> screen.h]

Opposite ==
  [left |-> NM_POS_RIGHT, right |-> NM_POS_LEFT,
   up |-> NM_POS_DOWN, down |-> NM_POS_UP]

\* How far pt is from the side of the screen that faces pos.
Distance(pos, pt, screen) ==
  LET c == Across(pos)
  IN  IF pos \in {NM_POS_LEFT, NM_POS_UP} THEN pt[c] ELSE Extent(screen)[c] - 1 - pt[c]

Abs(n) == IF n < 0 THEN 0 - n ELSE n

\* pt on the screen `to` is where `from` was on its screen, along the side
\* that is crossed, to two pixels.
Level(pos, from, source, pt, to) ==
  LET c == Along(pos)
      n == Extent(source)[c]
  IN  Abs(pt[c] * n - from[c] * Extent(to)[c]) <= 2 * n

BetweenCorners(pos, pt, screen) ==
  LET c == Along(pos) IN Extent(screen)[c] > 0 /\ pt[c] \in 0..Extent(screen)[c]

Moves == [x : {-1, 0, 1}, y : {-1, 0, 1}]
=============================================================================
