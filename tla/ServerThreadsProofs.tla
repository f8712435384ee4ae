------------------------ MODULE ServerThreadsProofs ------------------------
(***************************************************************************)
(* Theorems about ServerThreads, for every number of ports, whatever is    *)
(* typed and whoever connects.                                             *)
(***************************************************************************)
EXTENDS ServerThreads, TLAPS

Wakeful == {"idle", "lock", "send"}   \* a window thread with its window

\* What of the server there is at each place of Srv_Start and Srv_Stop: its
\* flag, its lock, its IO thread, its window thread.
StartedInStep ==
  started <=> ui \in {"closeWnd", "joinWnd", "clear"} \/ (ui = "idle" /\ started)

LockInStep ==
  lockUp <=> \/ ui \in {"startWnd", "waitEvent", "startIo", "closeWnd", "joinWnd",
                        "clear", "joinIo"}
             \/ ui = "idle" /\ started

IoInStep ==
  /\ io # "none" <=> started \/ ui = "joinIo"
  /\ io = "exited" => ui = "joinIo"

WndInStep ==
  /\ wnd = "none" <=> ~(started \/ ui \in {"waitEvent", "startIo"}) \/ ui = "clear"
  /\ wnd = "exited" <=> ui = "joinWnd"
  /\ wnd \in {"create", "created", "failed"} => ui = "waitEvent" /\ ~event
  /\ ui = "waitEvent" /\ wnd = "idle" => event
  /\ event => ui = "waitEvent" /\ wnd \in Wakeful
  /\ window <=> wnd \in Wakeful \cup {"created", "exited"}

InStep == StartedInStep /\ LockInStep /\ IoInStep /\ WndInStep

\* The owner of the lock is the thread inside, and the session is there from
\* the IO thread's login to its close.
OwnerInside ==
  /\ owner = "io" <=> io \in IoInside
  /\ owner = "wnd" <=> wnd = "send"
  /\ ss # NoClient <=> io \in InSession

\* The search has not gone past its end, or has gone past the last port.
Held(p) ==
  IF p = 0 THEN bound = Ephemeral /\ (range.beg = 0 \/ range.end = MaxPort)
           ELSE bound = p /\ p \in range.beg..range.end

Search ==
  /\ ui = "bind" => port >= range.beg \/ (port = 0 /\ range.end = MaxPort)
  /\ ui = "listen" => Held(port)
  /\ ui \notin {"bind", "listen"} /\ bound # NoPort => Held(said)
  /\ bound # NoPort => started \/ ui \notin {"idle", "bind", "over"}

\* The messages of the session come in the order of what happens to it.
Shown == ToBeShown = ss

ServerInv == TypeOK /\ InStep /\ OwnerInside /\ Search /\ Shown

-----------------------------------------------------------------------------
(* Cutting to 16 bits, and the counter's wrap.                             *)
LEMMA Cutting ==
  /\ \A v \in Nat : To16(v) \in Ports
  /\ \A p \in Ports : To16(p + 1) = IF p = MaxPort THEN 0 ELSE p + 1
<1>1. MaxPort \in Nat
  BY PortsAssumption
<1>2. ASSUME NEW v \in Nat PROVE To16(v) \in Ports
  BY <1>1 DEF To16, Ports
<1>3. ASSUME NEW p \in Ports PROVE To16(p + 1) = IF p = MaxPort THEN 0 ELSE p + 1
  BY <1>1 DEF To16, Ports
<1>4. QED
  BY <1>2, <1>3

(* Posting shows the newcomer; reading shows the same as before.           *)
LEMMA PostingShows ==
  ASSUME TypeOK, NEW c \in Clients \cup {NoClient}, posted' = Append(posted, c)
  PROVE  posted' \in Seq(Clients \cup {NoClient}) /\ ToBeShown' = c
<1>1. /\ posted' # <<>> /\ posted' \in Seq(Clients \cup {NoClient})
      /\ Len(posted') = Len(posted) + 1 /\ posted'[Len(posted) + 1] = c
  BY DEF TypeOK
<1>2. QED
  BY <1>1 DEF ToBeShown

LEMMA ReadingShows ==
  ASSUME TypeOK, posted # <<>>, box' = Head(posted), posted' = Tail(posted)
  PROVE  /\ posted' \in Seq(Clients \cup {NoClient})
         /\ box' \in Clients \cup {NoClient}
         /\ ToBeShown' = ToBeShown
<1> DEFINE S == Clients \cup {NoClient}
<1>1. posted \in Seq(S)
  BY DEF TypeOK
<1>2. /\ Len(posted) \in Nat \ {0} /\ Head(posted) = posted[1] /\ Head(posted) \in S
      /\ posted' \in Seq(S) /\ Len(posted') = Len(posted) - 1
      /\ \A i \in 1..Len(posted') : posted'[i] = posted[i + 1]
  BY <1>1
<1>3. CASE Len(posted) = 1
  <2>1. posted' = <<>>
    BY <1>2, <1>3
  <2>2. QED
    BY <1>2, <1>3, <2>1 DEF ToBeShown
<1>4. CASE Len(posted) # 1
  <2>1. posted' # <<>>
    <3>1. Len(posted') > 0
      BY <1>2, <1>4
    <3>2. QED
      BY <3>1
  <2>2. posted'[Len(posted')] = posted[Len(posted)]
    <3>1. Len(posted') \in 1..Len(posted') /\ Len(posted') + 1 = Len(posted)
      BY <1>2, <1>4
    <3>2. QED
      BY <1>2, <3>1
  <2>3. QED
    BY <1>2, <2>1, <2>2 DEF ToBeShown
<1>5. QED
  BY <1>3, <1>4
-----------------------------------------------------------------------------
(* Every step keeps the invariant.  The threads' steps that do not post     *)
(* leave what is shown alone.                                              *)
LEMMA ServerStep ==
  ServerInv /\ [Next]_vars => ServerInv'
<1> SUFFICES ASSUME ServerInv, [Next]_vars
             PROVE  ServerInv'
  OBVIOUS
<1> USE PortsAssumption, ClientsAssumption
<1> USE DEF ServerInv, TypeOK, InStep, StartedInStep, LockInStep, IoInStep,
            WndInStep, OwnerInside, Search, Held, Ports, Ephemeral, NoPort,
            Wakeful, IoInside, InSession, search, lock, dialog
<1>1. ASSUME NEW beg \in Typed, NEW end \in Typed,
             OnBnClickedButtonSrvstart(beg, end)
      PROVE  ServerInv'
  <2>1. To16(beg) \in Ports /\ To16(Larger(beg, end)) \in Ports
    BY Cutting DEF Larger
  <2>2. Shown'
    BY <1>1 DEF OnBnClickedButtonSrvstart, Shown, ToBeShown
  <2>3. /\ range' \in [beg : Ports, end : Ports]
        /\ port' \in Ports /\ port' = range'.beg
    BY <1>1, <2>1 DEF OnBnClickedButtonSrvstart
  <2>4. TypeOK' /\ InStep' /\ OwnerInside'
    BY <1>1, <2>3 DEF OnBnClickedButtonSrvstart, InputIsNext
  <2>5. Search'
    BY <1>1, <2>3 DEF OnBnClickedButtonSrvstart, InputIsNext
  <2>6. QED
    BY <2>2, <2>4, <2>5
<1>2. CASE BindSucceeds
  <2>1. Shown'
    BY <1>2 DEF BindSucceeds, Shown, ToBeShown
  <2>2. QED
    BY <1>2, <2>1 DEF BindSucceeds
<1>3. CASE BindInUse
  <2>1. Shown'
    BY <1>3 DEF BindInUse, Shown, ToBeShown
  <2>2. port' = (IF port = MaxPort THEN 0 ELSE port + 1) /\ port' \in Ports
    BY <1>3, Cutting DEF BindInUse
  <2>3. TypeOK' /\ InStep' /\ OwnerInside'
    BY <1>3, <2>2 DEF BindInUse
  <2>4. Search'
    BY <1>3, <2>2 DEF BindInUse
  <2>5. QED
    BY <2>1, <2>3, <2>4
<1>4. CASE BindFails
  <2>1. Shown'
    BY <1>4 DEF BindFails, Shown, ToBeShown
  <2>2. QED
    BY <1>4, <2>1 DEF BindFails
<1>5. CASE Listen
  <2>1. Shown'
    BY <1>5 DEF Listen, Shown, ToBeShown
  <2>2. QED
    BY <1>5, <2>1 DEF Listen
<1>6. CASE InitLock
  <2>1. Shown'
    BY <1>6 DEF InitLock, Shown, ToBeShown
  <2>2. QED
    BY <1>6, <2>1 DEF InitLock
<1>7. CASE WND_Srv_Start
  <2>1. Shown'
    BY <1>7 DEF WND_Srv_Start, Shown, ToBeShown
  <2>2. QED
    BY <1>7, <2>1 DEF WND_Srv_Start
<1>8. CASE WaitEvent
  <2>1. Shown'
    BY <1>8 DEF WaitEvent, Shown, ToBeShown
  <2>2. QED
    BY <1>8, <2>1 DEF WaitEvent
<1>9. CASE StartIo
  <2>1. Shown'
    BY <1>9 DEF StartIo, Shown, ToBeShown
  <2>2. QED
    BY <1>9, <2>1 DEF StartIo
<1>10. CASE OnBnClickedButtonSrvstop
  <2>1. Shown'
    BY <1>10 DEF OnBnClickedButtonSrvstop, Shown, ToBeShown
  <2>2. QED
    BY <1>10, <2>1 DEF OnBnClickedButtonSrvstop
<1>11. CASE OnBnClickedButtonQuit
  <2>1. Shown'
    BY <1>11 DEF OnBnClickedButtonQuit, Shown, ToBeShown
  <2>2. QED
    BY <1>11, <2>1 DEF OnBnClickedButtonQuit
<1>12. CASE WindowCloses
  <2>1. Shown'
    BY <1>12 DEF WindowCloses, Shown, ToBeShown
  <2>2. QED
    BY <1>12, <2>1 DEF WindowCloses
<1>13. CASE JoinWnd
  <2>1. Shown'
    BY <1>13 DEF JoinWnd, Shown, ToBeShown
  <2>2. QED
    BY <1>13, <2>1 DEF JoinWnd
<1>14. CASE ClearStarted
  <2>1. Shown'
    BY <1>14 DEF ClearStarted, Shown, ToBeShown
  <2>2. QED
    BY <1>14, <2>1 DEF ClearStarted
<1>15. CASE JoinIo
  <2>1. Shown'
    BY <1>15 DEF JoinIo, Shown, ToBeShown
  <2>2. QED
    BY <1>15, <2>1 DEF JoinIo
<1>16. CASE OnNotifyMsg
  <2>1. /\ posted' \in Seq(Clients \cup {NoClient})
        /\ box' \in Clients \cup {NoClient}
        /\ Shown'
    BY <1>16, ReadingShows DEF OnNotifyMsg, Shown
  <2>2. QED
    BY <1>16, <2>1 DEF OnNotifyMsg
<1>17. CASE CreateWindow
  <2>1. Shown'
    BY <1>17 DEF CreateWindow, Shown, ToBeShown
  <2>2. QED
    BY <1>17, <2>1 DEF CreateWindow
<1>18. CASE CreateWindowFails
  <2>1. Shown'
    BY <1>18 DEF CreateWindowFails, Shown, ToBeShown
  <2>2. QED
    BY <1>18, <2>1 DEF CreateWindowFails
<1>19. CASE SetEvent
  <2>1. Shown'
    BY <1>19 DEF SetEvent, Shown, ToBeShown
  <2>2. QED
    BY <1>19, <2>1 DEF SetEvent
<1>20. CASE OnClipboardChanged
  <2>1. Shown'
    BY <1>20 DEF OnClipboardChanged, Shown, ToBeShown
  <2>2. QED
    BY <1>20, <2>1 DEF OnClipboardChanged
<1>21. CASE WndLocks
  <2>1. Shown'
    BY <1>21 DEF WndLocks, Shown, ToBeShown
  <2>2. QED
    BY <1>21, <2>1 DEF WndLocks
<1>22. CASE WndSends
  <2>1. Shown'
    BY <1>22 DEF WndSends, Shown, ToBeShown
  <2>2. QED
    BY <1>22, <2>1 DEF WndSends, Creating
<1>23. CASE Accept
  <2>1. Shown'
    BY <1>23 DEF Accept, Shown, ToBeShown
  <2>2. QED
    BY <1>23, <2>1 DEF Accept
<1>24. CASE IoEnds
  <2>1. Shown'
    BY <1>24 DEF IoEnds, Shown, ToBeShown
  <2>2. QED
    BY <1>24, <2>1 DEF IoEnds
<1>25. CASE IoLocks
  <2>1. Shown'
    BY <1>25 DEF IoLocks, Shown, ToBeShown
  <2>2. QED
    BY <1>25, <2>1 DEF IoLocks, Inside
<1>26. CASE LoopTest
  <2>1. Shown'
    BY <1>26 DEF LoopTest, Shown, ToBeShown
  <2>2. QED
    BY <1>26, <2>1 DEF LoopTest
<1>27. CASE BuildSets
  <2>1. Shown'
    BY <1>27 DEF BuildSets, Shown, ToBeShown
  <2>2. QED
    BY <1>27, <2>1 DEF BuildSets
<1>28. CASE Handle
  <2>1. Shown'
    BY <1>28 DEF Handle, Shown, ToBeShown
  <2>2. QED
    BY <1>28, <2>1 DEF Handle
<1>29. CASE SS_CloseClientSession
  <2>1. posted' \in Seq(Clients \cup {NoClient}) /\ Shown'
    BY <1>29, PostingShows DEF SS_CloseClientSession, Shown
  <2>2. QED
    BY <1>29, <2>1 DEF SS_CloseClientSession
<1>30. ASSUME NEW c \in Clients, SS_OnClientSession(c) PROVE ServerInv'
  <2>1. posted' \in Seq(Clients \cup {NoClient}) /\ Shown'
    BY <1>30, PostingShows DEF SS_OnClientSession, Shown
  <2>2. QED
    BY <1>30, <2>1 DEF SS_OnClientSession
<1>31. CASE UNCHANGED vars
  BY <1>31 DEF vars, Shown, ToBeShown
<1>32. QED
  BY <1>1, <1>2, <1>3, <1>4, <1>5, <1>6, <1>7, <1>8, <1>9, <1>10, <1>11, <1>12, <1>13, <1>14, <1>15, <1>16, <1>17, <1>18, <1>19, <1>20, <1>21, <1>22, <1>23, <1>24, <1>25, <1>26, <1>27, <1>28, <1>29, <1>30, <1>31
     DEF Next, UserClicks, UiStep, WndStep, IoStep, Stopped

LEMMA ServerInit ==
  Init => ServerInv
<1> SUFFICES ASSUME Init PROVE ServerInv
  OBVIOUS
<1> USE PortsAssumption, ClientsAssumption DEF Init
<1>1. TypeOK
  <2>1. posted \in Seq(Clients \cup {NoClient})
    OBVIOUS
  <2>2. range \in [beg : Ports, end : Ports]
    BY DEF Ports
  <2>3. QED
    BY <2>1, <2>2 DEF TypeOK, Ports, NoPort
<1>2. InStep /\ OwnerInside
  BY DEF InStep, StartedInStep, LockInStep, IoInStep, WndInStep, OwnerInside,
         Wakeful, IoInside, InSession
<1>3. Search /\ Shown
  BY DEF Search, Shown, ToBeShown
<1>4. QED
  BY <1>1, <1>2, <1>3 DEF ServerInv

LEMMA ServerInvariant ==
  Spec => []ServerInv
BY ServerInit, ServerStep, PTL DEF Spec

(* Every reachable state is well typed.                                    *)
THEOREM ServerTypeCorrect ==
  Spec => []TypeOK
<1>1. ServerInv => TypeOK
  BY DEF ServerInv
<1>2. QED
  BY <1>1, ServerInvariant, PTL

(* __g_ss_lock exists whenever a thread waits for it, holds it or leaves   *)
(* it: Srv_Stop destroys it behind the last of the two.                    *)
THEOREM LockAlwaysUsable ==
  Spec => []LockUsable
<1>1. ServerInv => LockUsable
  BY DEF ServerInv, InStep, StartedInStep, LockInStep, IoInStep, WndInStep,
         Wakeful, LockUsable, Inside, IoInside, TypeOK
<1>2. QED
  BY <1>1, ServerInvariant, PTL

(* The window thread and the IO thread are never both at the session, and  *)
(* it is there exactly while the IO thread serves it.                      *)
THEOREM SessionAlwaysGuarded ==
  Spec => []SessionGuarded
<1>1. ServerInv => SessionGuarded
  BY DEF ServerInv, OwnerInside, SessionGuarded
<1>2. QED
  BY <1>1, ServerInvariant, PTL

(* The port in the dialog is the one the server listens on, for every      *)
(* range that can be typed.                                                *)
THEOREM PortSaidAlwaysHeld ==
  Spec => []PortSaidIsHeld
<1>1. ServerInv => PortSaidIsHeld
  BY DEF ServerInv, InStep, StartedInStep, Search, Held, PortSaidIsHeld
<1>2. QED
  BY <1>1, ServerInvariant, PTL

(* The dialog shows who is connected once it has read its messages.        *)
THEOREM BoxAlwaysTruthful ==
  Spec => []BoxTruthful
<1>1. ServerInv => BoxTruthful
  BY DEF ServerInv, Shown, BoxTruthful
<1>2. QED
  BY <1>1, ServerInvariant, PTL

(* A start that failed and a stop leave nothing behind.                    *)
THEOREM NothingHalfDone ==
  Spec => []Lifecycle
<1>1. ServerInv => Lifecycle
  BY PortsAssumption
     DEF ServerInv, TypeOK, InStep, StartedInStep, LockInStep, IoInStep,
         WndInStep, OwnerInside, Search, Wakeful, InSession, Lifecycle
<1>2. QED
  BY <1>1, ServerInvariant, PTL
=============================================================================
