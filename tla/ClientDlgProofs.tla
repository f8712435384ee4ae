-------------------------- MODULE ClientDlgProofs --------------------------
(***************************************************************************)
(* Theorems about ClientDlg, for every set of positions and every number   *)
(* of connections.                                                         *)
(***************************************************************************)
EXTENDS ClientDlg, TLAPS

\* A DISCONNECTED about p is under way: posted, or to be posted by a thread
\* that has a session of p to close.
Pending(p) ==
  \/ io.pos = p
  \/ ui.at = "close" /\ ui.pos = p
  \/ Posted(p)

\* While one is, p has no session and is not about to get one.
PendingMeansEmpty ==
  \A p \in Positions :
    Pending(p) => slot[p] = 0 /\ ~(ui.at = "insert" /\ ui.pos = p)

\* The flag is down while a handler works on its position, and in the end.
FlagDownInHandler ==
  /\ ui.at \in {"insert", "inserted", "remove", "close"} => ~flag[ui.pos]
  /\ ui.at \in {"join", "over"} => \A p \in Positions : ~flag[p]

\* A session without its flag is in the hands of a handler.
SessionShown ==
  \A p \in Positions :
    slot[p] # 0 => flag[p] \/ (ui.at \in {"inserted", "remove"} /\ ui.pos = p)

\* A flag without its session, up or about to be, has a notice to come.
LossNoticed ==
  \A p \in Positions :
    slot[p] = 0 /\ (flag[p] \/ (ui.at = "inserted" /\ ui.pos = p)) => Pending(p)

FlagsAndSlots ==
  /\ PendingMeansEmpty /\ FlagDownInHandler /\ SessionShown /\ LossNoticed
  /\ NewcomerSpared

DlgInv == TypeOK /\ FlagsAndSlots

Notices == [pos : Positions, ss : Sessions]

-----------------------------------------------------------------------------
(* Posting a notice: the message queue knows of one position more.         *)
LEMMA Posting ==
  ASSUME TypeOK, NEW n \in Notices, posted' = Append(posted, n)
  PROVE  /\ posted' \in Seq(Notices)
         /\ \A p \in Positions : Posted(p)' <=> Posted(p) \/ n.pos = p
<1>1. posted \in Seq(Notices)
  BY DEF TypeOK, Notices
<1>2. /\ DOMAIN posted' = 1..(Len(posted) + 1)
      /\ posted'[Len(posted) + 1] = n
      /\ \A i \in DOMAIN posted : posted'[i] = posted[i]
      /\ DOMAIN posted = 1..Len(posted) /\ Len(posted) \in Nat
  BY <1>1
<1>3. posted' \in Seq(Notices)
  BY <1>1
<1>4. ASSUME NEW p \in Positions PROVE Posted(p)' <=> Posted(p) \/ n.pos = p
  BY <1>2 DEF Posted
<1>5. QED
  BY <1>3, <1>4

(* Reading one: no position is news, and only its own may be forgotten.    *)
LEMMA Reading ==
  ASSUME TypeOK, posted # <<>>, posted' = Tail(posted)
  PROVE  /\ Head(posted) \in Notices /\ posted' \in Seq(Notices)
         /\ Posted(Head(posted).pos)
         /\ \A p \in Positions : Posted(p)' => Posted(p)
         /\ \A p \in Positions : Posted(p) /\ p # Head(posted).pos => Posted(p)'
<1>1. posted \in Seq(Notices)
  BY DEF TypeOK, Notices
<1>2. /\ DOMAIN posted = 1..Len(posted) /\ Len(posted) \in Nat \ {0}
      /\ DOMAIN posted' = 1..(Len(posted) - 1)
      /\ \A i \in DOMAIN posted' : posted'[i] = posted[i + 1]
      /\ Head(posted) = posted[1]
  BY <1>1
<1>3. Head(posted) \in Notices /\ posted' \in Seq(Notices)
  BY <1>1
<1>4. Posted(Head(posted).pos)
  BY <1>2 DEF Posted
<1>5. ASSUME NEW p \in Positions, Posted(p)' PROVE Posted(p)
  <2>1. PICK i \in DOMAIN posted' : posted'[i].pos = p
    BY <1>5 DEF Posted
  <2>2. i + 1 \in DOMAIN posted /\ posted[i + 1].pos = p
    BY <1>2, <2>1
  <2>3. QED
    BY <2>2 DEF Posted
<1>6. ASSUME NEW p \in Positions, Posted(p), p # Head(posted).pos PROVE Posted(p)'
  <2>1. PICK i \in DOMAIN posted : posted[i].pos = p
    BY <1>6 DEF Posted
  <2>2. i - 1 \in DOMAIN posted' /\ posted'[i - 1].pos = p
    BY <1>2, <1>6, <2>1
  <2>3. QED
    BY <2>2 DEF Posted
<1>7. QED
  BY <1>3, <1>4, <1>5, <1>6

(* Every step keeps the invariant.                                         *)
LEMMA DlgStep ==
  DlgInv /\ [Next]_vars => DlgInv'
<1> SUFFICES ASSUME TypeOK, FlagsAndSlots, [Next]_vars
             PROVE  TypeOK' /\ FlagsAndSlots'
  BY DEF DlgInv
<1> USE NoneIsNoPosition, BoundIsNat
        DEF TypeOK, Statements, Doing, Idle, Quitting, Nothing, Notice, Sessions
<1>1. ASSUME NEW p \in Positions, Connects(p) PROVE TypeOK' /\ FlagsAndSlots'
  BY <1>1 DEF Connects, InputIsNext, LockFree, FlagsAndSlots, Pending, Posted,
        PendingMeansEmpty, FlagDownInHandler, SessionShown, LossNoticed,
        NewcomerSpared
<1>2. ASSUME NEW p \in Positions, ClicksDisconnect(p) PROVE TypeOK' /\ FlagsAndSlots'
  BY <1>2 DEF ClicksDisconnect, Disconnect, InputIsNext, FlagsAndSlots, Pending, Posted,
        PendingMeansEmpty, FlagDownInHandler, SessionShown, LossNoticed,
        NewcomerSpared
<1>3. ASSUME NEW p \in Positions, QuitDisconnects(p) PROVE TypeOK' /\ FlagsAndSlots'
  BY <1>3 DEF QuitDisconnects, Disconnect, FlagsAndSlots, Pending, Posted,
        PendingMeansEmpty, FlagDownInHandler, SessionShown, LossNoticed,
        NewcomerSpared
<1>4. ASSUME NEW p \in Positions, IoDetaches(p) PROVE TypeOK' /\ FlagsAndSlots'
  BY <1>4 DEF IoDetaches, LockFree, FlagsAndSlots, Pending, Posted,
        PendingMeansEmpty, FlagDownInHandler, SessionShown, LossNoticed,
        NewcomerSpared
<1>5. ASSUME Inserts PROVE TypeOK' /\ FlagsAndSlots'
  BY <1>5 DEF Inserts, LockFree, FlagsAndSlots, Pending, Posted,
        PendingMeansEmpty, FlagDownInHandler, SessionShown, LossNoticed,
        NewcomerSpared
<1>6. ASSUME ShowsConnected PROVE TypeOK' /\ FlagsAndSlots'
  BY <1>6 DEF ShowsConnected, FlagsAndSlots, Pending, Posted,
        PendingMeansEmpty, FlagDownInHandler, SessionShown, LossNoticed,
        NewcomerSpared
<1>7. ASSUME Detaches PROVE TypeOK' /\ FlagsAndSlots'
  BY <1>7 DEF Detaches, LockFree, Back, FlagsAndSlots, Pending, Posted,
        PendingMeansEmpty, FlagDownInHandler, SessionShown, LossNoticed,
        NewcomerSpared
<1>8. ASSUME Closes PROVE TypeOK' /\ FlagsAndSlots'
  <2>1. Notice(ui.pos, ui.ss) \in Notices
    BY <1>8 DEF Closes, Notices
  <2>2. /\ posted' \in Seq(Notices)
        /\ \A p \in Positions : Posted(p)' <=> Posted(p) \/ ui.pos = p
    BY <1>8, <2>1, Posting DEF Closes
  <2>3. TypeOK'
    BY <1>8, <2>2 DEF Closes, Back, Notices
  <2>4. FlagsAndSlots'
    BY <1>8, <2>2 DEF Closes, Back, FlagsAndSlots, Pending,
        PendingMeansEmpty, FlagDownInHandler, SessionShown, LossNoticed,
        NewcomerSpared
  <2>5. QED
    BY <2>3, <2>4
<1>9. ASSUME IoCloses PROVE TypeOK' /\ FlagsAndSlots'
  <2>1. io \in Notices
    BY <1>9 DEF IoCloses, Notices
  <2>2. /\ posted' \in Seq(Notices)
        /\ \A p \in Positions : Posted(p)' <=> Posted(p) \/ io.pos = p
    BY <1>9, <2>1, Posting DEF IoCloses
  <2>3. TypeOK'
    BY <1>9, <2>2 DEF IoCloses, Notices
  <2>4. FlagsAndSlots'
    BY <1>9, <2>2 DEF IoCloses, FlagsAndSlots, Pending,
        PendingMeansEmpty, FlagDownInHandler, SessionShown, LossNoticed,
        NewcomerSpared
  <2>5. QED
    BY <2>3, <2>4
<1>10. ASSUME OnNotifyMsg PROVE TypeOK' /\ FlagsAndSlots'
  <2> DEFINE h == Head(posted).pos
  <2>1. /\ h \in Positions /\ posted' \in Seq(Notices) /\ Posted(h)
        /\ \A p \in Positions : Posted(p)' => Posted(p)
        /\ \A p \in Positions : Posted(p) /\ p # h => Posted(p)'
    BY <1>10, Reading DEF OnNotifyMsg, Notices
  <2>2. slot[h] = 0
    BY <2>1 DEF FlagsAndSlots, PendingMeansEmpty, Pending
  <2>3. \/ Disconnect(h, "notice")
        \/ ~flag[h] /\ UNCHANGED <<flag, ui>>
    BY <1>10 DEF OnNotifyMsg
  <2>4. ui = Idle /\ UNCHANGED <<slot, io, started, made>>
    BY <1>10 DEF OnNotifyMsg
  <2> HIDE DEF h
  <2>5. TypeOK'
    <3>1. CASE Disconnect(h, "notice")
      BY <2>1, <2>4, <3>1 DEF Disconnect, Notices
    <3>2. CASE UNCHANGED <<flag, ui>>
      BY <2>1, <2>4, <3>2 DEF Notices
    <3>3. QED
      BY <2>3, <3>1, <3>2
  <2>6. FlagsAndSlots'
    BY <2>1, <2>2, <2>3, <2>4 DEF Disconnect, FlagsAndSlots, Pending,
        PendingMeansEmpty, FlagDownInHandler, SessionShown, LossNoticed,
        NewcomerSpared
  <2>7. QED
    BY <2>5, <2>6
<1>11. ASSUME OnBnClickedButtonQuit PROVE TypeOK' /\ FlagsAndSlots'
  BY <1>11 DEF OnBnClickedButtonQuit, FlagsAndSlots, Pending, Posted,
        PendingMeansEmpty, FlagDownInHandler, SessionShown, LossNoticed,
        NewcomerSpared
<1>12. ASSUME Cli_Stop PROVE TypeOK' /\ FlagsAndSlots'
  BY <1>12 DEF Cli_Stop, FlagsAndSlots, Pending, Posted,
        PendingMeansEmpty, FlagDownInHandler, SessionShown, LossNoticed,
        NewcomerSpared
<1>13. ASSUME Cli_StopJoined PROVE TypeOK' /\ FlagsAndSlots'
  BY <1>13 DEF Cli_StopJoined, FlagsAndSlots, Pending, Posted,
        PendingMeansEmpty, FlagDownInHandler, SessionShown, LossNoticed,
        NewcomerSpared
<1>14. CASE UNCHANGED vars
  BY <1>14 DEF vars, FlagsAndSlots, Pending, Posted,
        PendingMeansEmpty, FlagDownInHandler, SessionShown, LossNoticed,
        NewcomerSpared
<1>15. QED
  BY <1>1, <1>2, <1>3, <1>4, <1>5, <1>6, <1>7, <1>8, <1>9, <1>10, <1>11,
     <1>12, <1>13, <1>14 DEF Next

LEMMA DlgInvariant == Spec => []DlgInv
<1>1. Init => DlgInv
  BY NoneIsNoPosition, BoundIsNat
     DEF Init, DlgInv, TypeOK, Statements, Doing, Idle, Nothing, Notice,
         Sessions, FlagsAndSlots, Pending, Posted,
         PendingMeansEmpty, FlagDownInHandler, SessionShown, LossNoticed,
        NewcomerSpared
<1>2. QED
  BY <1>1, DlgStep, PTL DEF Spec

-----------------------------------------------------------------------------
(* The dialog's thread never closes a session it does not have.            *)
THEOREM DlgTypeCorrect == Spec => []TypeOK
BY DlgInvariant, PTL DEF DlgInv

(* Between messages every button says what is connected, or is about to be *)
(* told: no order of clicks, failures and notices leaves it wrong.         *)
THEOREM ButtonsTruthful == Spec => []ButtonTruthful
<1>1. ASSUME DlgInv, ui = Idle, NEW p \in Positions
      PROVE  /\ slot[p] # 0 => flag[p]
             /\ flag[p] /\ slot[p] = 0 => io.pos = p \/ Posted(p)
  <2>1. ui.at = "idle"
    BY <1>1 DEF Idle, Doing
  <2>2. slot[p] # 0 => flag[p]
    BY <1>1, <2>1 DEF DlgInv, FlagsAndSlots, SessionShown
  <2>3. flag[p] /\ slot[p] = 0 => Pending(p)
    BY <1>1 DEF DlgInv, FlagsAndSlots, LossNoticed
  <2>4. Pending(p) => io.pos = p \/ Posted(p)
    BY <2>1 DEF Pending
  <2>5. QED
    BY <2>2, <2>3, <2>4
<1>2. DlgInv => ButtonTruthful
  BY <1>1 DEF ButtonTruthful
<1>3. QED
  BY <1>2, DlgInvariant, PTL

(* However late a notice is read, it never ends another connection than    *)
(* the one it is about.                                                    *)
THEOREM NewcomersSpared == Spec => []NewcomerSpared
<1>1. DlgInv => NewcomerSpared
  BY DEF DlgInv, FlagsAndSlots
<1>2. QED
  BY <1>1, DlgInvariant, PTL
=============================================================================
