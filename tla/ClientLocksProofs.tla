-------------------------- MODULE ClientLocksProofs --------------------------
(***************************************************************************)
(* Theorems about ClientLocks, for any number of session objects.          *)
(*                                                                         *)
(* The invariant goes from the threads' places to the locks they hold,     *)
(* from these to who may write what, and from there to the pointers.       *)
(***************************************************************************)
EXTENDS ClientLocks, TLAPS

(* The places in Cli_RemoveServer at which __g_ss_mtx is held, unless       *)
(* Cli_Stop is there.                                                       *)
Inside == {"unhook", "unctx", "unwnd", "detach"}

(* How often a thread holds each lock, read off its place.                  *)
SsCount(t) ==
  CASE t = "ui" -> IF pc["ui"] \in {"regHook", "regWnd"}
                      \/ (pc["ui"] \in Inside /\ started # "stopping")
                   THEN 1 ELSE 0
    [] t = "io" -> IF pc["io"] \in Inside THEN 2
                   ELSE IF pc["io"] \in {"exited", "top", "select", "tick",
                                         "process"}
                   THEN 0 ELSE 1
    [] OTHER -> 0
HookCount(t) ==
  IF pc[t] \in {"unctx", "sendEnter", "entered", "sendKey"} THEN 1 ELSE 0
WndCount(t) == IF pc[t] = "sendClip" THEN 1 ELSE 0

(* No thread holds a lock it is not at the place for, and no out_lock is    *)
(* held between two steps.                                                  *)
LocksPlaced ==
  \A t \in Threads :
    /\ held[t]["ss"] = SsCount(t) /\ held[t]["hook"] = HookCount(t)
    /\ held[t]["wnd"] = WndCount(t) /\ \A s \in Sessions : held[t][s] = 0

(* The names of the locks are different.                                    *)
LEMMA Names ==
  /\ {"ss", "hook", "wnd"} \subseteq Locks /\ Sessions \subseteq Locks
  /\ "ss" \notin Sessions /\ "hook" \notin Sessions /\ "wnd" \notin Sessions
  /\ NoLock \notin Locks /\ Locks = Sessions \cup Globals
BY SessionAssumption DEF Locks, Globals, NoLock

(* Every thread is at a place of its own program, or all of them at none.   *)
PcTyped ==
  /\ pc \in [Threads -> UNION {Labels[t] : t \in Threads}]
  /\ \A t \in Threads : pc[t] \in Labels[t]
  /\ started \in {"stopped", "started", "stopping"}
  /\ back \in {"timerEnd", "recv", "end"}
  /\ \A t \in Threads : pc[t] = "aborted" <=> pc["ui"] = "aborted"

(* What the variables hold.                                                 *)
DataTyped ==
  /\ cur \in [Threads -> Sessions \cup {NoSession}]
  /\ slot \in Sessions \cup {NoSession}
  /\ hookHandler \in BOOLEAN /\ remote \in BOOLEAN
  /\ hookCtx \in Sessions \cup {NoSession}
  /\ wndCtx \in Sessions \cup {NoSession}
  /\ life \in [Sessions -> {"live", "freed"}]
  /\ active \in [Sessions -> BOOLEAN] /\ outData \in [Sessions -> BOOLEAN]
  /\ rdSet \subseteq Sessions /\ wdSet \subseteq Sessions

(* The places, thread by thread.                                            *)
LEMMA Placed ==
  ASSUME PcTyped
  PROVE  /\ pc["ui"] \in Labels.ui /\ pc["io"] \in Labels.io
         /\ pc["hook"] \in Labels.hook /\ pc["wnd"] \in Labels.wnd
BY DEF PcTyped, Labels, Threads

(* How far Cli_Stop has got, and who has left by then.                      *)
Stops ==
  /\ pc["ui"] = "idle" => started # "stopping"
  /\ pc["ui"] \in {"join", "quitHook", "quitWnd"} => started = "stopping"
  /\ pc["ui"] \in {"checkSlot", "connect", "insert", "regHook", "regWnd",
                   "remove", "detach", "return"} => started = "started"
  /\ started = "stopped" => pc["ui"] = "idle" /\ slot = NoSession
  /\ started = "stopping" /\ pc["ui"] # "join" => pc["io"] = "exited"
  /\ started = "stopped" => \A t \in Threads \ {"ui"} : pc[t] = "exited"
  /\ pc["io"] = "exited" => started # "started"
  /\ pc["wnd"] = "exited" => started = "stopped"
  /\ pc["hook"] = "exited" <=> started = "stopped" \/ pc["ui"] = "quitWnd"
  /\ pc["ui"] \in {"quitHook", "quitWnd"} => slot = NoSession

Running == pc["ui"] # "aborted"

FlowInv == PcTyped /\ DataTyped /\ (Running => Stops)

(* Only the IO thread holds a lock twice, and only __g_ss_mtx.              *)
HeldTyped ==
  /\ held \in [Threads -> [Locks -> 0..2]]
  /\ \A t \in Threads, l \in Locks : held[t][l] = 2 => t = "io" /\ l = "ss"

(* Every step keeps the places.                                             *)
LEMMA PcTypedStep ==
  PcTyped /\ [Next]_vars => PcTyped'
<1> SUFFICES ASSUME PcTyped, [Next]_vars PROVE PcTyped'
  OBVIOUS
<1> USE Names DEF PcTyped, Labels, At, Goto, entries, sess, io, Threads
<1>1. CASE UiCalls
  BY <1>1 DEF UiCalls, Cli_Start, Cli_InsertServer, Cli_RemoveServer, Cli_Stop
<1>2. CASE CheckSlot \/ ConnectFails \/ \E s \in Sessions : Connect(s)
  BY <1>2 DEF CheckSlot, ConnectFails, Connect, Fresh, Put
<1>3. CASE InsertSlot \/ Hook_Cli_RegisterHandler \/ WND_Cli_RegisterHandler
  BY <1>3 DEF InsertSlot, Hook_Cli_RegisterHandler, WND_Cli_RegisterHandler
<1>4. CASE StopJoined \/ Hook_Cli_Stop \/ WND_Cli_Stop
  BY <1>4 DEF StopJoined, Hook_Cli_Stop, WND_Cli_Stop
<1>5. CASE LoopTop \/ BuildSets \/ Select \/ SelectFails
  BY <1>5 DEF LoopTop, BuildSets, WriteSet, Select, SelectFails, Abort
<1>6. CASE Tick \/ Timer \/ SS_SendKeepAlive \/ TimerEnd
  BY <1>6 DEF Tick, Timer, IoRemoves, SS_SendKeepAlive, Put, TimerEnd
<1>7. CASE \/ Process \/ SS_SendData \/ SS_RecvData
          \/ Hook_Cli_ControlReturn \/ RoundEnd
  BY <1>7 DEF Process, SS_SendData, Selected, IoRemoves, SS_RecvData,
     Hook_Cli_ControlReturn, RoundEnd
<1>8. CASE HookCallback \/ OnNormalMouseAction \/ OnKeyboard
  BY <1>8 DEF HookCallback, OnNormalMouseAction, OnKeyboard, CallLocked
<1>9. CASE SS_SendEnterMsg \/ EnterRemote \/ SS_SendKeyboardMsg
  BY <1>9 DEF SS_SendEnterMsg, EnterRemote, SS_SendKeyboardMsg, Put
<1>10. CASE MouseMoves \/ ReadHandlerUnlocked \/ ReadCtxUnlocked
  BY <1>10 DEF MouseMoves, ReadHandlerUnlocked, ReadCtxUnlocked
<1>11. CASE SS_SendMouseMsg \/ DispatchFails
  BY <1>11 DEF SS_SendMouseMsg, DispatchFails, Put, Abort
<1>12. CASE ClipboardChanges \/ WndStep
  BY <1>12 DEF ClipboardChanges, WndStep, OnClipboardChanged,
     SS_SendClipDataMsg, Put
<1>13. ASSUME NEW t \in Removers, RemoveLocks(t) \/ ClearHandler(t) \/
              ClearCtx(t) \/ WND_Cli_UnRegisterHandler(t)
       PROVE  PcTyped'
  BY <1>13 DEF RemoveLocks, ClearHandler, ClearCtx, WND_Cli_UnRegisterHandler,
     Removers, Stopping
<1>14. ASSUME NEW t \in Removers, RemoveDetach(t) \/ RemoveReturn(t) \/
              RemoveClose(t)
       PROVE  PcTyped'
  BY <1>14 DEF RemoveDetach, RemoveReturn, RemoveClose, Removers, Stopping,
     AfterRemove
<1>15. CASE UNCHANGED vars
  BY <1>15 DEF vars, entries, sess, io
<1>16. QED
  BY <1>1, <1>2, <1>3, <1>4, <1>5, <1>6, <1>7, <1>8, <1>9, <1>10, <1>11,
     <1>12, <1>13, <1>14, <1>15
     DEF Next, UiCalls, UiStep, IoStep, HookStep, WndStep, RemoveStep,
         Aborted, Removers

(* Every step keeps the types.                                              *)
LEMMA DataTypedStep ==
  PcTyped /\ DataTyped /\ [Next]_vars => DataTyped'
<1> SUFFICES ASSUME PcTyped /\ DataTyped, [Next]_vars PROVE DataTyped'
  OBVIOUS
<1> USE Names DEF DataTyped, At, Goto, Point, Put, WriteSet, entries, sess,
    io, Threads
<1>1. CASE UiCalls
  BY <1>1 DEF UiCalls, Cli_Start, Cli_InsertServer, Cli_RemoveServer, Cli_Stop
<1>2. CASE CheckSlot \/ ConnectFails \/ \E s \in Sessions : Connect(s)
  <2>1. CASE CheckSlot \/ ConnectFails
    BY <2>1 DEF CheckSlot, ConnectFails
  <2>2. ASSUME NEW s \in Sessions, Connect(s) PROVE DataTyped'
    BY <2>2 DEF Connect, Fresh
  <2>3. QED
    BY <1>2, <2>1, <2>2
<1>3. CASE InsertSlot \/ Hook_Cli_RegisterHandler \/ WND_Cli_RegisterHandler
  BY <1>3 DEF InsertSlot, Hook_Cli_RegisterHandler, WND_Cli_RegisterHandler
<1>4. CASE StopJoined \/ Hook_Cli_Stop \/ WND_Cli_Stop
  <2>1. CASE StopJoined
    BY <2>1 DEF StopJoined
  <2>2. CASE Hook_Cli_Stop
    BY <2>2 DEF Hook_Cli_Stop
  <2>3. CASE WND_Cli_Stop
    BY <2>3 DEF WND_Cli_Stop
  <2>4. QED
    BY <1>4, <2>1, <2>2, <2>3
<1>5. CASE LoopTop \/ BuildSets \/ Select \/ SelectFails
  BY <1>5 DEF LoopTop, BuildSets, WriteSet, Select, SelectFails, Abort
<1>6. CASE Tick \/ Timer \/ SS_SendKeepAlive \/ TimerEnd
  BY <1>6 DEF Tick, Timer, IoRemoves, SS_SendKeepAlive, Put, TimerEnd
<1>7. CASE \/ Process \/ SS_SendData \/ SS_RecvData
          \/ Hook_Cli_ControlReturn \/ RoundEnd
  BY <1>7 DEF Process, SS_SendData, Selected, IoRemoves, SS_RecvData,
     Hook_Cli_ControlReturn, RoundEnd
<1>8. CASE HookCallback \/ OnNormalMouseAction \/ OnKeyboard
  BY <1>8 DEF HookCallback, OnNormalMouseAction, OnKeyboard, CallLocked
<1>9. CASE SS_SendEnterMsg \/ EnterRemote \/ SS_SendKeyboardMsg
  <2>1. CASE SS_SendEnterMsg
    BY <2>1 DEF SS_SendEnterMsg
  <2>2. CASE EnterRemote
    BY <2>2 DEF EnterRemote
  <2>3. CASE SS_SendKeyboardMsg
    BY <2>3 DEF SS_SendKeyboardMsg
  <2>4. QED
    BY <1>9, <2>1, <2>2, <2>3
<1>10. CASE MouseMoves \/ ReadHandlerUnlocked \/ ReadCtxUnlocked
  BY <1>10 DEF MouseMoves, ReadHandlerUnlocked, ReadCtxUnlocked
<1>11. CASE SS_SendMouseMsg \/ DispatchFails
  BY <1>11 DEF SS_SendMouseMsg, DispatchFails, Put, Abort
<1>12. CASE ClipboardChanges \/ WndStep
  <2>1. CASE ClipboardChanges
    BY <2>1 DEF ClipboardChanges
  <2>2. CASE OnClipboardChanged
    BY <2>2 DEF OnClipboardChanged
  <2>3. CASE SS_SendClipDataMsg
    BY <2>3 DEF SS_SendClipDataMsg
  <2>4. QED
    BY <1>12, <2>1, <2>2, <2>3 DEF WndStep
<1>13. ASSUME NEW t \in Removers, RemoveLocks(t) \/ ClearHandler(t) \/
              ClearCtx(t) \/ WND_Cli_UnRegisterHandler(t)
       PROVE  DataTyped'
  BY <1>13 DEF RemoveLocks, ClearHandler, ClearCtx, WND_Cli_UnRegisterHandler,
     Removers, Stopping
<1>14. ASSUME NEW t \in Removers, RemoveDetach(t) \/ RemoveReturn(t) \/
              RemoveClose(t)
       PROVE  DataTyped'
  <2>1. CASE RemoveDetach(t)
    BY <2>1 DEF RemoveDetach, Removers, Stopping
  <2>2. CASE RemoveReturn(t)
    BY <2>2 DEF RemoveReturn, Removers, Stopping
  <2>3. CASE RemoveClose(t)
    BY <2>3 DEF RemoveClose, Removers, Stopping
  <2>4. QED
    BY <1>14, <2>1, <2>2, <2>3
<1>15. CASE UNCHANGED vars
  BY <1>15 DEF vars, entries, sess, io
<1>16. QED
  BY <1>1, <1>2, <1>3, <1>4, <1>5, <1>6, <1>7, <1>8, <1>9, <1>10, <1>11,
     <1>12, <1>13, <1>14, <1>15
     DEF Next, UiCalls, UiStep, IoStep, HookStep, WndStep, RemoveStep,
         Aborted, Removers

(* Every step keeps the order of the stop.                                  *)
LEMMA StopsStep ==
  PcTyped /\ (Running => Stops) /\ [Next]_vars /\ Running' => Stops'
<1> SUFFICES ASSUME PcTyped /\ (Running => Stops), [Next]_vars, Running'
             PROVE  Stops'
  OBVIOUS
<1> USE Names DEF PcTyped, Stops, Running, At, Goto, entries, sess, io, Threads
<1>1. CASE UiCalls
  BY <1>1 DEF UiCalls, Cli_Start, Cli_InsertServer, Cli_RemoveServer, Cli_Stop
<1>2. CASE CheckSlot \/ ConnectFails \/ \E s \in Sessions : Connect(s)
  BY <1>2 DEF CheckSlot, ConnectFails, Connect, Fresh, Put
<1>3. CASE InsertSlot \/ Hook_Cli_RegisterHandler \/ WND_Cli_RegisterHandler
  BY <1>3 DEF InsertSlot, Hook_Cli_RegisterHandler, WND_Cli_RegisterHandler
<1>4. CASE StopJoined \/ Hook_Cli_Stop \/ WND_Cli_Stop
  BY <1>4 DEF StopJoined, Hook_Cli_Stop, WND_Cli_Stop
<1>5. CASE LoopTop \/ BuildSets \/ Select \/ SelectFails
  BY <1>5 DEF LoopTop, BuildSets, WriteSet, Select, SelectFails, Abort
<1>6. CASE Tick \/ Timer \/ SS_SendKeepAlive \/ TimerEnd
  BY <1>6 DEF Tick, Timer, IoRemoves, SS_SendKeepAlive, Put, TimerEnd
<1>7. CASE \/ Process \/ SS_SendData \/ SS_RecvData
          \/ Hook_Cli_ControlReturn \/ RoundEnd
  BY <1>7 DEF Process, SS_SendData, Selected, IoRemoves, SS_RecvData,
     Hook_Cli_ControlReturn, RoundEnd
<1>8. CASE HookCallback \/ OnNormalMouseAction \/ OnKeyboard
  BY <1>8 DEF HookCallback, OnNormalMouseAction, OnKeyboard, CallLocked
<1>9. CASE SS_SendEnterMsg \/ EnterRemote \/ SS_SendKeyboardMsg
  BY <1>9 DEF SS_SendEnterMsg, EnterRemote, SS_SendKeyboardMsg, Put
<1>10. CASE MouseMoves \/ ReadHandlerUnlocked \/ ReadCtxUnlocked
  BY <1>10 DEF MouseMoves, ReadHandlerUnlocked, ReadCtxUnlocked
<1>11. CASE SS_SendMouseMsg \/ DispatchFails
  BY <1>11 DEF SS_SendMouseMsg, DispatchFails, Put, Abort
<1>12. CASE ClipboardChanges \/ WndStep
  BY <1>12 DEF ClipboardChanges, WndStep, OnClipboardChanged,
     SS_SendClipDataMsg, Put
<1>13. ASSUME NEW t \in Removers, RemoveLocks(t) \/ ClearHandler(t) \/
              ClearCtx(t) \/ WND_Cli_UnRegisterHandler(t)
       PROVE  Stops'
  BY <1>13 DEF RemoveLocks, ClearHandler, ClearCtx, WND_Cli_UnRegisterHandler,
     Removers, Stopping
<1>14. ASSUME NEW t \in Removers, RemoveDetach(t) \/ RemoveReturn(t) \/
              RemoveClose(t)
       PROVE  Stops'
  BY <1>14 DEF RemoveDetach, RemoveReturn, RemoveClose, Removers, Stopping,
     AfterRemove
<1>15. CASE UNCHANGED vars
  BY <1>15 DEF vars, entries, sess, io
<1>16. QED
  BY <1>1, <1>2, <1>3, <1>4, <1>5, <1>6, <1>7, <1>8, <1>9, <1>10, <1>11,
     <1>12, <1>13, <1>14, <1>15
     DEF Next, UiCalls, UiStep, IoStep, HookStep, WndStep, RemoveStep,
         Aborted, Removers

(* No lock is entered too often.                                            *)
LEMMA HeldTypedStep ==
  FlowInv /\ HeldTyped /\ (Running => LocksPlaced) /\ [Next]_vars => HeldTyped'
<1> SUFFICES ASSUME FlowInv /\ HeldTyped /\ (Running => LocksPlaced), [Next]_vars
             PROVE  HeldTyped'
  OBVIOUS
<1> USE Names DEF FlowInv, PcTyped, HeldTyped, LocksPlaced, Stops, Running,
    SsCount, HookCount, WndCount, Inside, At, Goto, Lock, Unlock, entries,
    sess, io, Threads
<1>1. CASE UiCalls
  BY <1>1 DEF UiCalls, Cli_Start, Cli_InsertServer, Cli_RemoveServer, Cli_Stop
<1>2. CASE CheckSlot \/ ConnectFails \/ \E s \in Sessions : Connect(s)
  BY <1>2 DEF CheckSlot, ConnectFails, Connect, Fresh, Put
<1>3. CASE InsertSlot \/ Hook_Cli_RegisterHandler \/ WND_Cli_RegisterHandler
  BY <1>3 DEF InsertSlot, Hook_Cli_RegisterHandler, WND_Cli_RegisterHandler
<1>4. CASE StopJoined \/ Hook_Cli_Stop \/ WND_Cli_Stop
  BY <1>4 DEF StopJoined, Hook_Cli_Stop, WND_Cli_Stop
<1>5. CASE LoopTop \/ BuildSets \/ Select \/ SelectFails
  BY <1>5 DEF LoopTop, BuildSets, WriteSet, Select, SelectFails, Abort
<1>6. CASE Tick \/ Timer \/ SS_SendKeepAlive \/ TimerEnd
  BY <1>6 DEF Tick, Timer, IoRemoves, SS_SendKeepAlive, Put, TimerEnd
<1>7. CASE \/ Process \/ SS_SendData \/ SS_RecvData
          \/ Hook_Cli_ControlReturn \/ RoundEnd
  BY <1>7 DEF Process, SS_SendData, Selected, IoRemoves, SS_RecvData,
     Hook_Cli_ControlReturn, RoundEnd
<1>8. CASE HookCallback \/ OnNormalMouseAction \/ OnKeyboard
  BY <1>8 DEF HookCallback, OnNormalMouseAction, OnKeyboard, CallLocked
<1>9. CASE SS_SendEnterMsg \/ EnterRemote \/ SS_SendKeyboardMsg
  BY <1>9 DEF SS_SendEnterMsg, EnterRemote, SS_SendKeyboardMsg, Put
<1>10. CASE MouseMoves \/ ReadHandlerUnlocked \/ ReadCtxUnlocked
  BY <1>10 DEF MouseMoves, ReadHandlerUnlocked, ReadCtxUnlocked
<1>11. CASE SS_SendMouseMsg \/ DispatchFails
  BY <1>11 DEF SS_SendMouseMsg, DispatchFails, Put, Abort
<1>12. CASE ClipboardChanges \/ WndStep
  BY <1>12 DEF ClipboardChanges, WndStep, OnClipboardChanged,
     SS_SendClipDataMsg, Put
<1>13. ASSUME NEW t \in Removers, RemoveLocks(t) \/ ClearHandler(t) \/
              ClearCtx(t) \/ WND_Cli_UnRegisterHandler(t)
       PROVE  HeldTyped'
  BY <1>13 DEF RemoveLocks, ClearHandler, ClearCtx, WND_Cli_UnRegisterHandler,
     Removers, Stopping
<1>14. ASSUME NEW t \in Removers, RemoveDetach(t) \/ RemoveReturn(t) \/
              RemoveClose(t)
       PROVE  HeldTyped'
  BY <1>14 DEF RemoveDetach, RemoveReturn, RemoveClose, Removers, Stopping,
     AfterRemove
<1>15. CASE UNCHANGED vars
  BY <1>15 DEF vars, entries, sess, io
<1>16. QED
  BY <1>1, <1>2, <1>3, <1>4, <1>5, <1>6, <1>7, <1>8, <1>9, <1>10, <1>11,
     <1>12, <1>13, <1>14, <1>15
     DEF Next, UiCalls, UiStep, IoStep, HookStep, WndStep, RemoveStep,
         Aborted, Removers

(* Every step takes and gives back what its place says.                     *)
LEMMA LocksPlacedStep ==
  FlowInv /\ HeldTyped /\ (Running => LocksPlaced) /\ [Next]_vars /\ Running'
    => LocksPlaced'
<1> SUFFICES ASSUME FlowInv /\ HeldTyped /\ (Running => LocksPlaced), [Next]_vars,
                    Running'
             PROVE  LocksPlaced'
  OBVIOUS
<1> USE Names DEF FlowInv, PcTyped, HeldTyped, LocksPlaced, Stops, Running,
    SsCount, HookCount, WndCount, Inside, At, Goto, Lock, Unlock, entries,
    sess, io, Threads
<1>1. CASE UiCalls
  BY <1>1 DEF UiCalls, Cli_Start, Cli_InsertServer, Cli_RemoveServer, Cli_Stop
<1>2. CASE CheckSlot \/ ConnectFails \/ \E s \in Sessions : Connect(s)
  BY <1>2 DEF CheckSlot, ConnectFails, Connect, Fresh, Put
<1>3. CASE InsertSlot \/ Hook_Cli_RegisterHandler \/ WND_Cli_RegisterHandler
  BY <1>3 DEF InsertSlot, Hook_Cli_RegisterHandler, WND_Cli_RegisterHandler
<1>4. CASE StopJoined \/ Hook_Cli_Stop \/ WND_Cli_Stop
  BY <1>4 DEF StopJoined, Hook_Cli_Stop, WND_Cli_Stop
<1>5. CASE LoopTop \/ BuildSets \/ Select \/ SelectFails
  BY <1>5 DEF LoopTop, BuildSets, WriteSet, Select, SelectFails, Abort
<1>6. CASE Tick \/ Timer \/ SS_SendKeepAlive \/ TimerEnd
  BY <1>6 DEF Tick, Timer, IoRemoves, SS_SendKeepAlive, Put, TimerEnd
<1>7. CASE \/ Process \/ SS_SendData \/ SS_RecvData
          \/ Hook_Cli_ControlReturn \/ RoundEnd
  BY <1>7 DEF Process, SS_SendData, Selected, IoRemoves, SS_RecvData,
     Hook_Cli_ControlReturn, RoundEnd
<1>8. CASE HookCallback \/ OnNormalMouseAction \/ OnKeyboard
  BY <1>8 DEF HookCallback, OnNormalMouseAction, OnKeyboard, CallLocked
<1>9. CASE SS_SendEnterMsg \/ EnterRemote \/ SS_SendKeyboardMsg
  BY <1>9 DEF SS_SendEnterMsg, EnterRemote, SS_SendKeyboardMsg, Put
<1>10. CASE MouseMoves \/ ReadHandlerUnlocked \/ ReadCtxUnlocked
  BY <1>10 DEF MouseMoves, ReadHandlerUnlocked, ReadCtxUnlocked
<1>11. CASE SS_SendMouseMsg \/ DispatchFails
  BY <1>11 DEF SS_SendMouseMsg, DispatchFails, Put, Abort
<1>12. CASE ClipboardChanges \/ WndStep
  BY <1>12 DEF ClipboardChanges, WndStep, OnClipboardChanged,
     SS_SendClipDataMsg, Put
<1>13. ASSUME NEW t \in Removers, RemoveLocks(t) \/ ClearHandler(t) \/
              ClearCtx(t) \/ WND_Cli_UnRegisterHandler(t)
       PROVE  LocksPlaced'
  BY <1>13 DEF RemoveLocks, ClearHandler, ClearCtx, WND_Cli_UnRegisterHandler,
     Removers, Stopping
<1>14. ASSUME NEW t \in Removers, RemoveDetach(t) \/ RemoveReturn(t) \/
              RemoveClose(t)
       PROVE  LocksPlaced'
  BY <1>14 DEF RemoveDetach, RemoveReturn, RemoveClose, Removers, Stopping,
     AfterRemove
<1>15. CASE UNCHANGED vars
  BY <1>15 DEF vars, entries, sess, io
<1>16. QED
  BY <1>1, <1>2, <1>3, <1>4, <1>5, <1>6, <1>7, <1>8, <1>9, <1>10, <1>11,
     <1>12, <1>13, <1>14, <1>15
     DEF Next, UiCalls, UiStep, IoStep, HookStep, WndStep, RemoveStep,
         Aborted, Removers

(* A lock has one holder.                                                   *)
Exclusive ==
  /\ SsCount("ui") = 0 \/ SsCount("io") = 0
  /\ \A t, u \in Threads : HookCount(t) = 1 /\ HookCount(u) = 1 => t = u

HeldInv == FlowInv /\ HeldTyped /\ (Running => LocksPlaced)

(* Who has got a lock is the only one at the places it guards.              *)
LEMMA Alone ==
  ASSUME HeldInv, Running, NEW t \in Threads, NEW label, At(t, label)
  PROVE  /\ label \in {"checkSlot", "insert", "remove", "tick", "process"}
                \/ (label = "top" /\ started = "started")
              => \A u \in Threads \ {t} : SsCount(u) = 0
         /\ label \in {"regHook", "unhook", "leave", "enter", "mouse", "key"}
              => \A u \in Threads \ {t} : HookCount(u) = 0
         /\ label = "return" /\ active[cur[t]]
              => \A u \in Threads \ {t} : HookCount(u) = 0
         /\ label \in WndLocked => \A u \in Threads \ {t} : WndCount(u) = 0
<1> DEFINE L == LockAt(t)
<1>1. /\ pc[t] = label
      /\ \A l : LockAt(t) = l /\ l # NoLock =>
           \A u \in Threads \ {t} : ~(held[u][l] > 0)
  BY DEF At, Holders
<1>2. \A u \in Threads : /\ SsCount(u) \in Nat /\ held[u]["ss"] = SsCount(u)
                         /\ HookCount(u) \in Nat /\ held[u]["hook"] = HookCount(u)
                         /\ WndCount(u) \in Nat /\ held[u]["wnd"] = WndCount(u)
  BY DEF HeldInv, LocksPlaced, SsCount, HookCount, WndCount
<1>3. /\ label \in {"checkSlot", "insert", "remove", "tick", "process"}
             \/ (label = "top" /\ started = "started")
           => LockAt(t) = "ss"
      /\ label \in {"regHook", "unhook", "leave", "enter", "mouse", "key"}
           => LockAt(t) = "hook"
      /\ label = "return" /\ active[cur[t]] => LockAt(t) = "hook"
      /\ label \in WndLocked => LockAt(t) = "wnd"
  BY <1>1 DEF LockAt, WndLocked
<1>4. "ss" # NoLock /\ "hook" # NoLock /\ "wnd" # NoLock
  BY DEF NoLock
<1>5. QED
  BY <1>1, <1>2, <1>3, <1>4

(* Nobody gets a lock another has.                                          *)
LEMMA ExclusiveStep ==
  HeldInv /\ (Running => Exclusive) /\ [Next]_vars /\ Running' => Exclusive'
<1> SUFFICES ASSUME HeldInv /\ (Running => Exclusive), [Next]_vars, Running'
             PROVE  Exclusive'
  OBVIOUS
<1> USE Names DEF HeldInv, FlowInv, PcTyped, Stops, Running, Exclusive,
    SsCount, HookCount, Inside, At, Goto, entries, sess, io, Threads
<1>1. CASE UiCalls
  BY Alone, <1>1 DEF UiCalls, Cli_Start, Cli_InsertServer, Cli_RemoveServer,
     Cli_Stop
<1>2. CASE CheckSlot \/ ConnectFails \/ \E s \in Sessions : Connect(s)
  BY Alone, <1>2 DEF CheckSlot, ConnectFails, Connect, Fresh, Put
<1>3. CASE InsertSlot \/ Hook_Cli_RegisterHandler \/ WND_Cli_RegisterHandler
  BY Alone, <1>3 DEF InsertSlot, Hook_Cli_RegisterHandler,
     WND_Cli_RegisterHandler
<1>4. CASE StopJoined \/ Hook_Cli_Stop \/ WND_Cli_Stop
  BY Alone, <1>4 DEF StopJoined, Hook_Cli_Stop, WND_Cli_Stop
<1>5. CASE LoopTop \/ BuildSets \/ Select \/ SelectFails
  BY Alone, <1>5 DEF LoopTop, BuildSets, WriteSet, Select, SelectFails, Abort
<1>6. CASE Tick \/ Timer \/ SS_SendKeepAlive \/ TimerEnd
  BY Alone, <1>6 DEF Tick, Timer, IoRemoves, SS_SendKeepAlive, Put, TimerEnd
<1>7. CASE \/ Process \/ SS_SendData \/ SS_RecvData
          \/ Hook_Cli_ControlReturn \/ RoundEnd
  BY Alone, <1>7 DEF Process, SS_SendData, Selected, IoRemoves, SS_RecvData,
     Hook_Cli_ControlReturn, RoundEnd
<1>8. CASE HookCallback \/ OnNormalMouseAction \/ OnKeyboard
  BY Alone, <1>8 DEF HookCallback, OnNormalMouseAction, OnKeyboard, CallLocked
<1>9. CASE SS_SendEnterMsg \/ EnterRemote \/ SS_SendKeyboardMsg
  BY Alone, <1>9 DEF SS_SendEnterMsg, EnterRemote, SS_SendKeyboardMsg, Put
<1>10. CASE MouseMoves \/ ReadHandlerUnlocked \/ ReadCtxUnlocked
  BY Alone, <1>10 DEF MouseMoves, ReadHandlerUnlocked, ReadCtxUnlocked
<1>11. CASE SS_SendMouseMsg \/ DispatchFails
  BY Alone, <1>11 DEF SS_SendMouseMsg, DispatchFails, Put, Abort
<1>12. CASE ClipboardChanges \/ WndStep
  BY Alone, <1>12 DEF ClipboardChanges, WndStep, OnClipboardChanged,
     SS_SendClipDataMsg, Put
<1>13. ASSUME NEW t \in Removers, RemoveLocks(t) \/ ClearHandler(t) \/
              ClearCtx(t) \/ WND_Cli_UnRegisterHandler(t)
       PROVE  Exclusive'
  BY Alone, <1>13 DEF RemoveLocks, ClearHandler, ClearCtx,
     WND_Cli_UnRegisterHandler, Removers, Stopping
<1>14. ASSUME NEW t \in Removers, RemoveDetach(t) \/ RemoveReturn(t) \/
              RemoveClose(t)
       PROVE  Exclusive'
  BY Alone, <1>14 DEF RemoveDetach, RemoveReturn, RemoveClose, Removers,
     Stopping, AfterRemove
<1>15. CASE UNCHANGED vars
  BY Alone, <1>15 DEF vars, entries, sess, io
<1>16. QED
  BY Alone, <1>1, <1>2, <1>3, <1>4, <1>5, <1>6, <1>7, <1>8, <1>9, <1>10,
     <1>11, <1>12, <1>13, <1>14, <1>15
     DEF Next, UiCalls, UiStep, IoStep, HookStep, WndStep, RemoveStep,
         Aborted, Removers

Either(S) == pc["ui"] \in S \/ pc["io"] \in S
Closing == started = "stopping" /\ pc["ui"] = "close"

(* What the two entries hold while a session comes or goes, in the order    *)
(* in which they are written; otherwise both are those of the session in    *)
(* the slot.                                                                *)
Entries ==
  /\ hookHandler <=> /\ slot # NoSession /\ pc["ui"] # "regHook"
                     /\ ~Either({"unctx", "unwnd", "detach"}) /\ ~Closing
  /\ hookCtx = IF pc["ui"] = "regHook" \/ Either({"unwnd", "detach"}) \/ Closing
               THEN NoSession ELSE slot
  /\ wndCtx = IF \/ pc["ui"] \in {"regHook", "regWnd"}
                 \/ Either({"detach"}) \/ Closing
              THEN NoSession ELSE slot

(* What the UI thread has a pointer to: the session it has made and is      *)
(* about to insert, or the one it has taken out.                            *)
UiPoints ==
  /\ pc["ui"] \in {"connect", "insert"} => slot = NoSession
  /\ pc["ui"] \in {"regHook", "regWnd"} => cur["ui"] = slot
  /\ started = "stopping" /\ pc["ui"] \in Inside \cup {"close"} =>
       cur["ui"] = slot
  /\ cur["ui"] # NoSession <=>
       \/ pc["ui"] \in {"insert", "regHook", "regWnd", "return", "close"}
       \/ started = "stopping" /\ pc["ui"] \in Inside

EntryInv == HeldInv /\ (Running => Exclusive /\ UiPoints /\ Entries)

(* The UI thread's pointer.                                                 *)
LEMMA UiPointsStep ==
  EntryInv /\ [Next]_vars /\ Running' => UiPoints'
<1> SUFFICES ASSUME EntryInv, [Next]_vars, Running' PROVE UiPoints'
  OBVIOUS
<1> USE Names DEF HeldInv, FlowInv, PcTyped, DataTyped, Stops, Running,
    Exclusive, SsCount, HookCount, Inside, At, Goto, Point, entries, sess, io,
    Threads, EntryInv, UiPoints, Entries, Closing, Either
<1>1. CASE UiCalls
  BY Alone, <1>1 DEF UiCalls, Cli_Start, Cli_InsertServer, Cli_RemoveServer,
     Cli_Stop
<1>2. CASE CheckSlot \/ ConnectFails \/ \E s \in Sessions : Connect(s)
  BY Alone, <1>2 DEF CheckSlot, ConnectFails, Connect, Fresh, Put
<1>3. CASE InsertSlot \/ Hook_Cli_RegisterHandler \/ WND_Cli_RegisterHandler
  BY Alone, <1>3 DEF InsertSlot, Hook_Cli_RegisterHandler,
     WND_Cli_RegisterHandler
<1>4. CASE StopJoined \/ Hook_Cli_Stop \/ WND_Cli_Stop
  BY Alone, <1>4 DEF StopJoined, Hook_Cli_Stop, WND_Cli_Stop
<1>5. CASE LoopTop \/ BuildSets \/ Select \/ SelectFails
  BY Alone, <1>5 DEF LoopTop, BuildSets, WriteSet, Select, SelectFails, Abort
<1>6. CASE Tick \/ Timer \/ SS_SendKeepAlive \/ TimerEnd
  BY Alone, <1>6 DEF Tick, Timer, IoRemoves, SS_SendKeepAlive, Put, TimerEnd
<1>7. CASE \/ Process \/ SS_SendData \/ SS_RecvData
          \/ Hook_Cli_ControlReturn \/ RoundEnd
  BY Alone, <1>7 DEF Process, SS_SendData, Selected, IoRemoves, SS_RecvData,
     Hook_Cli_ControlReturn, RoundEnd
<1>8. CASE HookCallback \/ OnNormalMouseAction \/ OnKeyboard
  BY Alone, <1>8 DEF HookCallback, OnNormalMouseAction, OnKeyboard, CallLocked
<1>9. CASE SS_SendEnterMsg \/ EnterRemote \/ SS_SendKeyboardMsg
  BY Alone, <1>9 DEF SS_SendEnterMsg, EnterRemote, SS_SendKeyboardMsg, Put
<1>10. CASE MouseMoves \/ ReadHandlerUnlocked \/ ReadCtxUnlocked
  BY Alone, <1>10 DEF MouseMoves, ReadHandlerUnlocked, ReadCtxUnlocked
<1>11. CASE SS_SendMouseMsg \/ DispatchFails
  BY Alone, <1>11 DEF SS_SendMouseMsg, DispatchFails, Put, Abort
<1>12. CASE ClipboardChanges \/ WndStep
  BY Alone, <1>12 DEF ClipboardChanges, WndStep, OnClipboardChanged,
     SS_SendClipDataMsg, Put
<1>13. ASSUME NEW t \in Removers, RemoveLocks(t) \/ ClearHandler(t) \/
              ClearCtx(t) \/ WND_Cli_UnRegisterHandler(t)
       PROVE  UiPoints'
  BY Alone, <1>13 DEF RemoveLocks, ClearHandler, ClearCtx,
     WND_Cli_UnRegisterHandler, Removers, Stopping
<1>14. ASSUME NEW t \in Removers, RemoveDetach(t) \/ RemoveReturn(t) \/
              RemoveClose(t)
       PROVE  UiPoints'
  BY Alone, <1>14 DEF RemoveDetach, RemoveReturn, RemoveClose, Removers,
     Stopping, AfterRemove
<1>15. CASE UNCHANGED vars
  BY Alone, <1>15 DEF vars, entries, sess, io
<1>16. QED
  BY Alone, <1>1, <1>2, <1>3, <1>4, <1>5, <1>6, <1>7, <1>8, <1>9, <1>10,
     <1>11, <1>12, <1>13, <1>14, <1>15
     DEF Next, UiCalls, UiStep, IoStep, HookStep, WndStep, RemoveStep,
         Aborted, Removers

(* The entries.                                                             *)
LEMMA EntriesStep ==
  EntryInv /\ [Next]_vars /\ Running' => Entries'
<1> SUFFICES ASSUME EntryInv, [Next]_vars, Running' PROVE Entries'
  OBVIOUS
<1> USE Names DEF HeldInv, FlowInv, PcTyped, DataTyped, Stops, Running,
    Exclusive, SsCount, HookCount, Inside, At, Goto, Point, entries, sess, io,
    Threads, EntryInv, UiPoints, Entries, Closing, Either
<1>1. CASE UiCalls
  BY Alone, <1>1 DEF UiCalls, Cli_Start, Cli_InsertServer, Cli_RemoveServer,
     Cli_Stop
<1>2. CASE CheckSlot \/ ConnectFails \/ \E s \in Sessions : Connect(s)
  BY Alone, <1>2 DEF CheckSlot, ConnectFails, Connect, Fresh, Put
<1>3. CASE InsertSlot \/ Hook_Cli_RegisterHandler \/ WND_Cli_RegisterHandler
  BY Alone, <1>3 DEF InsertSlot, Hook_Cli_RegisterHandler,
     WND_Cli_RegisterHandler
<1>4. CASE StopJoined \/ Hook_Cli_Stop \/ WND_Cli_Stop
  BY Alone, <1>4 DEF StopJoined, Hook_Cli_Stop, WND_Cli_Stop
<1>5. CASE LoopTop \/ BuildSets \/ Select \/ SelectFails
  BY Alone, <1>5 DEF LoopTop, BuildSets, WriteSet, Select, SelectFails, Abort
<1>6. CASE Tick \/ Timer \/ SS_SendKeepAlive \/ TimerEnd
  BY Alone, <1>6 DEF Tick, Timer, IoRemoves, SS_SendKeepAlive, Put, TimerEnd
<1>7. CASE \/ Process \/ SS_SendData \/ SS_RecvData
          \/ Hook_Cli_ControlReturn \/ RoundEnd
  BY Alone, <1>7 DEF Process, SS_SendData, Selected, IoRemoves, SS_RecvData,
     Hook_Cli_ControlReturn, RoundEnd
<1>8. CASE HookCallback \/ OnNormalMouseAction \/ OnKeyboard
  BY Alone, <1>8 DEF HookCallback, OnNormalMouseAction, OnKeyboard, CallLocked
<1>9. CASE SS_SendEnterMsg \/ EnterRemote \/ SS_SendKeyboardMsg
  BY Alone, <1>9 DEF SS_SendEnterMsg, EnterRemote, SS_SendKeyboardMsg, Put
<1>10. CASE MouseMoves \/ ReadHandlerUnlocked \/ ReadCtxUnlocked
  BY Alone, <1>10 DEF MouseMoves, ReadHandlerUnlocked, ReadCtxUnlocked
<1>11. CASE SS_SendMouseMsg \/ DispatchFails
  BY Alone, <1>11 DEF SS_SendMouseMsg, DispatchFails, Put, Abort
<1>12. CASE ClipboardChanges \/ WndStep
  BY Alone, <1>12 DEF ClipboardChanges, WndStep, OnClipboardChanged,
     SS_SendClipDataMsg, Put
<1>13. ASSUME NEW t \in Removers, RemoveLocks(t) \/ ClearHandler(t) \/
              ClearCtx(t) \/ WND_Cli_UnRegisterHandler(t)
       PROVE  Entries'
  BY Alone, <1>13 DEF RemoveLocks, ClearHandler, ClearCtx,
     WND_Cli_UnRegisterHandler, Removers, Stopping
<1>14. ASSUME NEW t \in Removers, RemoveDetach(t) \/ RemoveReturn(t) \/
              RemoveClose(t)
       PROVE  Entries'
  BY Alone, <1>14 DEF RemoveDetach, RemoveReturn, RemoveClose, Removers,
     Stopping, AfterRemove
<1>15. CASE UNCHANGED vars
  BY Alone, <1>15 DEF vars, entries, sess, io
<1>16. QED
  BY Alone, <1>1, <1>2, <1>3, <1>4, <1>5, <1>6, <1>7, <1>8, <1>9, <1>10,
     <1>11, <1>12, <1>13, <1>14, <1>15
     DEF Next, UiCalls, UiStep, IoStep, HookStep, WndStep, RemoveStep,
         Aborted, Removers

(* What the other threads have a pointer to: the IO thread what it closes,  *)
(* the two that send what their entry holds.                                *)
Others ==
  /\ cur["io"] # NoSession <=> pc["io"] \in {"return", "close"}
  /\ cur["hook"] # NoSession =>
       pc["hook"] \in {"sendEnter", "entered", "sendKey", "sendMouse"}
  /\ pc["hook"] \in {"sendEnter", "entered", "sendKey"} =>
       hookHandler /\ cur["hook"] = hookCtx
  /\ cur["wnd"] # NoSession <=> pc["wnd"] = "sendClip"
  /\ pc["wnd"] = "sendClip" => cur["wnd"] = wndCtx

(* A session in the slot is there, and one that is being closed is in no    *)
(* other hand.                                                              *)
Living ==
  /\ \A s \in {slot, cur["ui"], cur["io"]} : s # NoSession => life[s] = "live"
  /\ pc["ui"] \in {"return", "close"} /\ started = "started" => cur["ui"] # slot
  /\ cur["io"] # NoSession => cur["io"] \notin {slot, cur["ui"]}

Owned == Others /\ Living

LocksInv == EntryInv /\ (Running => Owned)

(* The other threads' pointers.                                             *)
LEMMA OthersStep ==
  LocksInv /\ [Next]_vars /\ Running' => Others'
<1> SUFFICES ASSUME LocksInv, [Next]_vars, Running' PROVE Others'
  OBVIOUS
<1> USE Names DEF HeldInv, FlowInv, PcTyped, DataTyped, Stops, Running,
    Exclusive, SsCount, HookCount, Inside, At, Goto, Point, entries, sess, io,
    Threads, WndCount, WndLocked, EntryInv, UiPoints, Entries, Closing,
    Either, LocksInv, Owned, Others, Living
<1>1. CASE UiCalls
  BY Alone, <1>1 DEF UiCalls, Cli_Start, Cli_InsertServer, Cli_RemoveServer,
     Cli_Stop
<1>2. CASE CheckSlot \/ ConnectFails \/ \E s \in Sessions : Connect(s)
  BY Alone, <1>2 DEF CheckSlot, ConnectFails, Connect, Fresh, Put
<1>3. CASE InsertSlot \/ Hook_Cli_RegisterHandler \/ WND_Cli_RegisterHandler
  BY Alone, <1>3 DEF InsertSlot, Hook_Cli_RegisterHandler,
     WND_Cli_RegisterHandler
<1>4. CASE StopJoined \/ Hook_Cli_Stop \/ WND_Cli_Stop
  BY Alone, <1>4 DEF StopJoined, Hook_Cli_Stop, WND_Cli_Stop
<1>5. CASE LoopTop \/ BuildSets \/ Select \/ SelectFails
  BY Alone, <1>5 DEF LoopTop, BuildSets, WriteSet, Select, SelectFails, Abort
<1>6. CASE Tick \/ Timer \/ SS_SendKeepAlive \/ TimerEnd
  BY Alone, <1>6 DEF Tick, Timer, IoRemoves, SS_SendKeepAlive, Put, TimerEnd
<1>7. CASE \/ Process \/ SS_SendData \/ SS_RecvData
          \/ Hook_Cli_ControlReturn \/ RoundEnd
  BY Alone, <1>7 DEF Process, SS_SendData, Selected, IoRemoves, SS_RecvData,
     Hook_Cli_ControlReturn, RoundEnd
<1>8. CASE HookCallback \/ OnNormalMouseAction \/ OnKeyboard
  BY Alone, <1>8 DEF HookCallback, OnNormalMouseAction, OnKeyboard, CallLocked
<1>9. CASE SS_SendEnterMsg \/ EnterRemote \/ SS_SendKeyboardMsg
  BY Alone, <1>9 DEF SS_SendEnterMsg, EnterRemote, SS_SendKeyboardMsg, Put
<1>10. CASE MouseMoves \/ ReadHandlerUnlocked \/ ReadCtxUnlocked
  BY Alone, <1>10 DEF MouseMoves, ReadHandlerUnlocked, ReadCtxUnlocked
<1>11. CASE SS_SendMouseMsg \/ DispatchFails
  BY Alone, <1>11 DEF SS_SendMouseMsg, DispatchFails, Put, Abort
<1>12. CASE ClipboardChanges \/ WndStep
  BY Alone, <1>12 DEF ClipboardChanges, WndStep, OnClipboardChanged,
     SS_SendClipDataMsg, Put
<1>13. ASSUME NEW t \in Removers, RemoveLocks(t) \/ ClearHandler(t) \/
              ClearCtx(t) \/ WND_Cli_UnRegisterHandler(t)
       PROVE  Others'
  BY Alone, <1>13 DEF RemoveLocks, ClearHandler, ClearCtx,
     WND_Cli_UnRegisterHandler, Removers, Stopping
<1>14. ASSUME NEW t \in Removers, RemoveDetach(t) \/ RemoveReturn(t) \/
              RemoveClose(t)
       PROVE  Others'
  BY Alone, <1>14 DEF RemoveDetach, RemoveReturn, RemoveClose, Removers,
     Stopping, AfterRemove
<1>15. CASE UNCHANGED vars
  BY Alone, <1>15 DEF vars, entries, sess, io
<1>16. QED
  BY Alone, <1>1, <1>2, <1>3, <1>4, <1>5, <1>6, <1>7, <1>8, <1>9, <1>10,
     <1>11, <1>12, <1>13, <1>14, <1>15
     DEF Next, UiCalls, UiStep, IoStep, HookStep, WndStep, RemoveStep,
         Aborted, Removers

(* Nobody closes what another has in hand.                                  *)
LEMMA LivingStep ==
  LocksInv /\ [Next]_vars /\ Running' => Living'
<1> SUFFICES ASSUME LocksInv, [Next]_vars, Running' PROVE Living'
  OBVIOUS
<1> USE Names DEF HeldInv, FlowInv, PcTyped, DataTyped, Stops, Running,
    Exclusive, SsCount, HookCount, Inside, At, Goto, Point, entries, sess, io,
    Threads, WndCount, WndLocked, EntryInv, UiPoints, Entries, Closing,
    Either, LocksInv, Owned, Others, Living
<1>1. CASE UiCalls
  BY Alone, <1>1 DEF UiCalls, Cli_Start, Cli_InsertServer, Cli_RemoveServer,
     Cli_Stop
<1>2. CASE CheckSlot \/ ConnectFails \/ \E s \in Sessions : Connect(s)
  BY Alone, <1>2 DEF CheckSlot, ConnectFails, Connect, Fresh, Put
<1>3. CASE InsertSlot \/ Hook_Cli_RegisterHandler \/ WND_Cli_RegisterHandler
  BY Alone, <1>3 DEF InsertSlot, Hook_Cli_RegisterHandler,
     WND_Cli_RegisterHandler
<1>4. CASE StopJoined \/ Hook_Cli_Stop \/ WND_Cli_Stop
  BY Alone, <1>4 DEF StopJoined, Hook_Cli_Stop, WND_Cli_Stop
<1>5. CASE LoopTop \/ BuildSets \/ Select \/ SelectFails
  BY Alone, <1>5 DEF LoopTop, BuildSets, WriteSet, Select, SelectFails, Abort
<1>6. CASE Tick \/ Timer \/ SS_SendKeepAlive \/ TimerEnd
  BY Alone, <1>6 DEF Tick, Timer, IoRemoves, SS_SendKeepAlive, Put, TimerEnd
<1>7. CASE \/ Process \/ SS_SendData \/ SS_RecvData
          \/ Hook_Cli_ControlReturn \/ RoundEnd
  BY Alone, <1>7 DEF Process, SS_SendData, Selected, IoRemoves, SS_RecvData,
     Hook_Cli_ControlReturn, RoundEnd
<1>8. CASE HookCallback \/ OnNormalMouseAction \/ OnKeyboard
  BY Alone, <1>8 DEF HookCallback, OnNormalMouseAction, OnKeyboard, CallLocked
<1>9. CASE SS_SendEnterMsg \/ EnterRemote \/ SS_SendKeyboardMsg
  BY Alone, <1>9 DEF SS_SendEnterMsg, EnterRemote, SS_SendKeyboardMsg, Put
<1>10. CASE MouseMoves \/ ReadHandlerUnlocked \/ ReadCtxUnlocked
  BY Alone, <1>10 DEF MouseMoves, ReadHandlerUnlocked, ReadCtxUnlocked
<1>11. CASE SS_SendMouseMsg \/ DispatchFails
  BY Alone, <1>11 DEF SS_SendMouseMsg, DispatchFails, Put, Abort
<1>12. CASE ClipboardChanges \/ WndStep
  BY Alone, <1>12 DEF ClipboardChanges, WndStep, OnClipboardChanged,
     SS_SendClipDataMsg, Put
<1>13. ASSUME NEW t \in Removers, RemoveLocks(t) \/ ClearHandler(t) \/
              ClearCtx(t) \/ WND_Cli_UnRegisterHandler(t)
       PROVE  Living'
  BY Alone, <1>13 DEF RemoveLocks, ClearHandler, ClearCtx,
     WND_Cli_UnRegisterHandler, Removers, Stopping
<1>14. ASSUME NEW t \in Removers, RemoveDetach(t) \/ RemoveReturn(t) \/
              RemoveClose(t)
       PROVE  Living'
  BY Alone, <1>14 DEF RemoveDetach, RemoveReturn, RemoveClose, Removers,
     Stopping, AfterRemove
<1>15. CASE UNCHANGED vars
  BY Alone, <1>15 DEF vars, entries, sess, io
<1>16. QED
  BY Alone, <1>1, <1>2, <1>3, <1>4, <1>5, <1>6, <1>7, <1>8, <1>9, <1>10,
     <1>11, <1>12, <1>13, <1>14, <1>15
     DEF Next, UiCalls, UiStep, IoStep, HookStep, WndStep, RemoveStep,
         Aborted, Removers

(* Between BuildSets and the sending that follows it.                       *)
BeforeSend ==
  \/ pc["io"] \in {"select", "tick", "timer", "keepalive", "timerEnd", "process",
                   "send"}
  \/ back = "timerEnd" /\ pc["io"] \in {"remove", "return", "close"} \cup Inside

(* A session begins with the handshake in its out_buf, and nobody but the   *)
(* IO thread takes anything out.                                            *)
Fed ==
  /\ pc["ui"] = "insert" => outData[cur["ui"]]
  /\ BeforeSend /\ wdSet # {} /\ slot # NoSession => outData[slot]

(* What is selected stays fed.                                              *)
LEMMA FedStep ==
  LocksInv /\ (Running => Fed) /\ [Next]_vars /\ Running' => Fed'
<1> SUFFICES ASSUME LocksInv /\ (Running => Fed), [Next]_vars, Running'
             PROVE  Fed'
  OBVIOUS
<1> USE Names DEF HeldInv, FlowInv, PcTyped, DataTyped, Stops, Running,
    Exclusive, SsCount, HookCount, Inside, At, Goto, Point, entries, sess, io,
    Threads, EntryInv, UiPoints, LocksInv, Owned, Fed, BeforeSend
<1>1. CASE UiCalls
  BY <1>1 DEF UiCalls, Cli_Start, Cli_InsertServer, Cli_RemoveServer, Cli_Stop
<1>2. CASE CheckSlot \/ ConnectFails \/ \E s \in Sessions : Connect(s)
  BY <1>2 DEF CheckSlot, ConnectFails, Connect, Fresh, Put
<1>3. CASE InsertSlot \/ Hook_Cli_RegisterHandler \/ WND_Cli_RegisterHandler
  BY <1>3 DEF InsertSlot, Hook_Cli_RegisterHandler, WND_Cli_RegisterHandler
<1>4. CASE StopJoined \/ Hook_Cli_Stop \/ WND_Cli_Stop
  BY <1>4 DEF StopJoined, Hook_Cli_Stop, WND_Cli_Stop
<1>5. CASE LoopTop \/ BuildSets \/ Select \/ SelectFails
  BY <1>5 DEF LoopTop, BuildSets, Put, WriteSet, Select, SelectFails, Abort
<1>6. CASE Tick \/ Timer \/ SS_SendKeepAlive \/ TimerEnd
  BY <1>6 DEF Tick, Timer, IoRemoves, SS_SendKeepAlive, Put, TimerEnd
<1>7. CASE \/ Process \/ SS_SendData \/ SS_RecvData
          \/ Hook_Cli_ControlReturn \/ RoundEnd
  BY <1>7 DEF Process, SS_SendData, Selected, IoRemoves, SS_RecvData,
     Hook_Cli_ControlReturn, RoundEnd
<1>8. CASE HookCallback \/ OnNormalMouseAction \/ OnKeyboard
  BY <1>8 DEF HookCallback, OnNormalMouseAction, OnKeyboard, CallLocked
<1>9. CASE SS_SendEnterMsg \/ EnterRemote \/ SS_SendKeyboardMsg
  BY <1>9 DEF Put, SS_SendEnterMsg, EnterRemote, SS_SendKeyboardMsg, Put
<1>10. CASE MouseMoves \/ ReadHandlerUnlocked \/ ReadCtxUnlocked
  BY <1>10 DEF MouseMoves, ReadHandlerUnlocked, ReadCtxUnlocked
<1>11. CASE SS_SendMouseMsg \/ DispatchFails
  BY <1>11 DEF Put, SS_SendMouseMsg, DispatchFails, Put, Abort
<1>12. CASE ClipboardChanges \/ WndStep
  BY <1>12 DEF ClipboardChanges, WndStep, OnClipboardChanged,
     SS_SendClipDataMsg, Put
<1>13. ASSUME NEW t \in Removers, RemoveLocks(t) \/ ClearHandler(t) \/
              ClearCtx(t) \/ WND_Cli_UnRegisterHandler(t)
       PROVE  Fed'
  BY <1>13 DEF RemoveLocks, ClearHandler, ClearCtx, WND_Cli_UnRegisterHandler,
     Removers, Stopping
<1>14. ASSUME NEW t \in Removers, RemoveDetach(t) \/ RemoveReturn(t) \/
              RemoveClose(t)
       PROVE  Fed'
  BY <1>14 DEF RemoveDetach, RemoveReturn, RemoveClose, Removers, Stopping,
     AfterRemove
<1>15. CASE UNCHANGED vars
  BY <1>15 DEF vars, entries, sess, io
<1>16. QED
  BY <1>1, <1>2, <1>3, <1>4, <1>5, <1>6, <1>7, <1>8, <1>9, <1>10, <1>11,
     <1>12, <1>13, <1>14, <1>15
     DEF Next, UiCalls, UiStep, IoStep, HookStep, WndStep, RemoveStep,
         Aborted, Removers

(* What stays as it is when the process ends.                               *)
Kept == UNCHANGED <<held, started, entries, life>>

(* The end of the process changes nothing else.                             *)
LEMMA AbortKeeps ==
  PcTyped /\ [Next]_vars /\ ~Running' => Kept
<1> SUFFICES ASSUME PcTyped, [Next]_vars, ~Running' PROVE Kept
  OBVIOUS
<1> USE Names DEF Kept, PcTyped, At, Goto, Running, entries, sess, io,
    Threads, Labels
<1>1. CASE UiCalls
  BY <1>1 DEF UiCalls, Cli_Start, Cli_InsertServer, Cli_RemoveServer, Cli_Stop
<1>2. CASE CheckSlot \/ ConnectFails \/ \E s \in Sessions : Connect(s)
  BY <1>2 DEF CheckSlot, ConnectFails, Connect, Fresh, Put
<1>3. CASE InsertSlot \/ Hook_Cli_RegisterHandler \/ WND_Cli_RegisterHandler
  BY <1>3 DEF InsertSlot, Hook_Cli_RegisterHandler, WND_Cli_RegisterHandler
<1>4. CASE StopJoined \/ Hook_Cli_Stop \/ WND_Cli_Stop
  BY <1>4 DEF StopJoined, Hook_Cli_Stop, WND_Cli_Stop
<1>5. CASE LoopTop \/ BuildSets \/ Select \/ SelectFails
  BY <1>5 DEF LoopTop, BuildSets, WriteSet, Select, SelectFails, Abort
<1>6. CASE Tick \/ Timer \/ SS_SendKeepAlive \/ TimerEnd
  BY <1>6 DEF Tick, Timer, IoRemoves, SS_SendKeepAlive, Put, TimerEnd
<1>7. CASE \/ Process \/ SS_SendData \/ SS_RecvData
          \/ Hook_Cli_ControlReturn \/ RoundEnd
  BY <1>7 DEF Process, SS_SendData, Selected, IoRemoves, SS_RecvData,
     Hook_Cli_ControlReturn, RoundEnd
<1>8. CASE HookCallback \/ OnNormalMouseAction \/ OnKeyboard
  BY <1>8 DEF HookCallback, OnNormalMouseAction, OnKeyboard, CallLocked
<1>9. CASE SS_SendEnterMsg \/ EnterRemote \/ SS_SendKeyboardMsg
  BY <1>9 DEF SS_SendEnterMsg, EnterRemote, SS_SendKeyboardMsg, Put
<1>10. CASE MouseMoves \/ ReadHandlerUnlocked \/ ReadCtxUnlocked
  BY <1>10 DEF MouseMoves, ReadHandlerUnlocked, ReadCtxUnlocked
<1>11. CASE SS_SendMouseMsg \/ DispatchFails
  BY <1>11 DEF SS_SendMouseMsg, DispatchFails, Put, Abort
<1>12. CASE ClipboardChanges \/ WndStep
  BY <1>12 DEF ClipboardChanges, WndStep, OnClipboardChanged,
     SS_SendClipDataMsg, Put
<1>13. ASSUME NEW t \in Removers, RemoveLocks(t) \/ ClearHandler(t) \/
              ClearCtx(t) \/ WND_Cli_UnRegisterHandler(t)
       PROVE  Kept
  BY <1>13 DEF RemoveLocks, ClearHandler, ClearCtx, WND_Cli_UnRegisterHandler,
     Removers, Stopping
<1>14. ASSUME NEW t \in Removers, RemoveDetach(t) \/ RemoveReturn(t) \/
              RemoveClose(t)
       PROVE  Kept
  BY <1>14 DEF RemoveDetach, RemoveReturn, RemoveClose, Removers, Stopping,
     AfterRemove
<1>15. CASE UNCHANGED vars
  BY <1>15 DEF vars, entries, sess, io
<1>16. QED
  BY <1>1, <1>2, <1>3, <1>4, <1>5, <1>6, <1>7, <1>8, <1>9, <1>10, <1>11,
     <1>12, <1>13, <1>14, <1>15
     DEF Next, UiCalls, UiStep, IoStep, HookStep, WndStep, RemoveStep,
         Aborted, Removers

(* The inductive invariant.                                                 *)
ClientInv == LocksInv /\ (Running => Fed)

(* It holds at the start.                                                   *)
LEMMA InvInit ==
  Init => ClientInv
<1> SUFFICES ASSUME Init PROVE ClientInv
  OBVIOUS
<1> USE Names DEF Init, Threads
<1>1. PcTyped
  BY DEF PcTyped, Labels
<1>2. DataTyped
  BY DEF DataTyped
<1>3. Stops
  BY DEF Stops
<1>4. HeldTyped /\ LocksPlaced /\ Exclusive
  BY DEF HeldTyped, LocksPlaced, Exclusive, SsCount, HookCount, WndCount, Inside
<1>5. UiPoints /\ Entries
  BY DEF UiPoints, Entries, Inside, Closing, Either
<1>6. Owned
  BY DEF Owned, Others, Living
<1>7. Fed
  BY DEF Fed
<1>8. QED
  BY <1>1, <1>2, <1>3, <1>4, <1>5, <1>6, <1>7
     DEF ClientInv, LocksInv, EntryInv, HeldInv, FlowInv

(* It holds in every reachable state.                                       *)
LEMMA Reachable ==
  Spec => []ClientInv
<1>1. ClientInv /\ [Next]_vars => ClientInv'
  <2> SUFFICES ASSUME ClientInv, [Next]_vars PROVE ClientInv'
    OBVIOUS
  <2>1. FlowInv'
    BY PcTypedStep, DataTypedStep, StopsStep DEF ClientInv, LocksInv,
       EntryInv, HeldInv, FlowInv
  <2>2. HeldInv'
    BY <2>1, HeldTypedStep, LocksPlacedStep DEF ClientInv, LocksInv, EntryInv,
       HeldInv
  <2>3. EntryInv'
    BY <2>2, ExclusiveStep, UiPointsStep, EntriesStep DEF ClientInv, LocksInv,
       EntryInv
  <2>4. LocksInv'
    BY <2>3, OthersStep, LivingStep DEF ClientInv, LocksInv, Owned
  <2>5. QED
    BY <2>4, FedStep DEF ClientInv
<1>2. QED
  BY <1>1, InvInit, PTL DEF Spec

(* Every reachable state is well typed.                                     *)
THEOREM ClientTypeCorrect ==
  Spec => []TypeOK
<1>1. ClientInv => TypeOK
  BY DEF ClientInv, LocksInv, EntryInv, HeldInv, FlowInv, PcTyped, DataTyped,
     HeldTyped, TypeOK
<1>2. QED
  BY <1>1, Reachable, PTL

(* No thread touches a session that was closed, whatever the number of      *)
(* sessions and the order of removals by the user, by the IO thread and by  *)
(* Cli_Stop. The mouse in remote mode is the exception NoUseAfterFree       *)
(* names.                                                                   *)
THEOREM SessionsOutliveUse ==
  Spec => []NoUseAfterFree
<1> USE DEF ClientInv, LocksInv, EntryInv, HeldInv, FlowInv
<1>1. ClientInv /\ Running => NoUseAfterFree
  <2> SUFFICES ASSUME ClientInv, Running PROVE NoUseAfterFree
    OBVIOUS
  <2>1. \A s \in {slot, hookCtx, wndCtx} : s # NoSession => life[s] = "live"
    BY DEF Owned, Living, Entries
  <2>2. \A t \in Threads : cur[t] # NoSession /\ pc[t] # "sendMouse" =>
               life[cur[t]] = "live"
    BY <2>1 DEF Owned, Others, Living, Threads, Entries
  <2>3. QED
    BY <2>1, <2>2 DEF NoUseAfterFree
<1>2. ClientInv /\ NoUseAfterFree /\ [Next]_vars => Running' \/ NoUseAfterFree'
  <2> SUFFICES ASSUME ClientInv, NoUseAfterFree, [Next]_vars, ~Running'
               PROVE  NoUseAfterFree'
    OBVIOUS
  <2>1. Kept /\ PcTyped'
    BY AbortKeeps, PcTypedStep
  <2>2. QED
    BY <2>1 DEF Kept, entries, NoUseAfterFree, Running, PcTyped
<1>3. Init => NoUseAfterFree
  BY DEF Init, NoUseAfterFree
<1>4. QED
  BY <1>1, <1>2, <1>3, Reachable, PTL DEF Spec

(* Whenever __g_ss_mtx is free, a session in the slot has both its          *)
(* handlers and an empty slot has none.                                     *)
THEOREM SlotAndEntriesAgree ==
  Spec => []EntriesAgree
<1> USE DEF ClientInv, LocksInv, EntryInv, HeldInv, FlowInv
<1>1. ClientInv /\ Running => EntriesAgree
  <2> SUFFICES ASSUME ClientInv, Running, Holders("ss") = {}, started = "started"
               PROVE  /\ hookHandler = (slot # NoSession)
                      /\ hookCtx = slot /\ wndCtx = slot
    BY DEF EntriesAgree
  <2>1. SsCount("ui") = 0 /\ SsCount("io") = 0
    <3>1. \A t \in Threads : held[t]["ss"] = SsCount(t) /\ SsCount(t) \in Nat
      BY DEF LocksPlaced, SsCount
    <3>2. \A t \in Threads : ~(held[t]["ss"] > 0)
      BY DEF Holders
    <3>3. QED
      BY <3>1, <3>2 DEF Threads
  <2>2. ~Either(Inside) /\ pc["ui"] \notin {"regHook", "regWnd"} /\ ~Closing
    BY <2>1 DEF SsCount, Either, Closing
  <2>3. QED
    BY <2>2 DEF Entries, DataTyped, Either, Inside
<1>2. ClientInv /\ EntriesAgree /\ [Next]_vars => Running' \/ EntriesAgree'
  <2> SUFFICES ASSUME ClientInv, EntriesAgree, [Next]_vars, ~Running'
               PROVE  EntriesAgree'
    OBVIOUS
  <2>1. Kept /\ PcTyped'
    BY AbortKeeps, PcTypedStep
  <2>2. QED
    BY <2>1 DEF Kept, entries, EntriesAgree, Holders
<1>3. Init => EntriesAgree
  BY DEF Init, EntriesAgree
<1>4. QED
  BY <1>1, <1>2, <1>3, Reachable, PTL DEF Spec

(* No circle of threads waits for one another: the window thread waits for  *)
(* nobody; the hook thread only for one that is clearing an entry, which    *)
(* waits for nobody; and of the UI thread and the IO thread, one at most    *)
(* has __g_ss_mtx, and none while it joins the other.                       *)
THEOREM NobodyWaitsForever ==
  Spec => []NoDeadlock
<1> USE DEF ClientInv, LocksInv, EntryInv, HeldInv, FlowInv
<1>1. ClientInv => NoDeadlock
  <2> SUFFICES ASSUME ClientInv, NEW W \in (SUBSET Threads) \ {{}}
               PROVE  \E t \in W : WaitsFor(t) \cap W = {}
    BY DEF NoDeadlock
  <2>1. CASE ~Running
    <3>1. W # {} /\ W \subseteq Threads
      OBVIOUS
    <3> PICK t \in W : TRUE
      BY <3>1
    <3>2. pc[t] = "aborted"
      BY <2>1, <3>1 DEF Running, PcTyped
    <3>3. WaitsFor(t) = {}
      BY <3>2 DEF WaitsFor, LockAt, WndLocked
    <3>4. QED
      BY <3>3
  <2>2. CASE Running
    <3>1. \A t \in Threads : \A l \in Locks :
            /\ held[t]["ss"] = SsCount(t) /\ held[t]["hook"] = HookCount(t)
            /\ held[t]["wnd"] = WndCount(t) /\ l \in Sessions => held[t][l] = 0
      BY <2>2 DEF LocksPlaced
    <3>2. /\ Holders("ss") = {t \in Threads : SsCount(t) > 0}
          /\ Holders("hook") = {t \in Threads : HookCount(t) > 0}
          /\ Holders("wnd") = {t \in Threads : WndCount(t) > 0}
          /\ \A s \in Sessions : Holders(s) = {}
      BY <3>1, Names, <2>2 DEF Holders, LocksPlaced
    <3>3. \A t \in Threads : LockAt(t) \in {"ss", "hook", "wnd", NoLock} \cup Sessions
      BY <2>2 DEF LockAt, Owned, Others, DataTyped, Threads
    <3>4. WaitsFor("wnd") = {}
      <4>1. /\ pc["wnd"] \in Labels.wnd
            /\ WndCount("ui") = 0 /\ WndCount("io") = 0 /\ WndCount("hook") = 0
        BY Placed DEF WndCount, Labels
      <4>2. LockAt("wnd") \in {"wnd", NoLock} \cup Sessions
        BY <3>3, <4>1 DEF LockAt, WndLocked, Labels, DataTyped, Threads
      <4>3. QED
        BY <3>2, <4>1, <4>2, Names DEF WaitsFor, Threads, Labels
    <3>5. \A t \in Threads : pc[t] = "unctx" => WaitsFor(t) = {}
      BY DEF WaitsFor, LockAt, WndLocked
    <3>6. \A t \in WaitsFor("hook") : pc[t] = "unctx"
      <4>1. pc["hook"] \in Labels.hook /\ pc["wnd"] \in Labels.wnd
            /\ pc["ui"] \in Labels.ui /\ pc["io"] \in Labels.io
        BY Placed
      <4>2. LockAt("hook") \in {"hook", NoLock} \cup Sessions
        BY <3>3, <4>1 DEF LockAt, WndLocked, Labels, DataTyped, Threads
      <4>3. \A t \in Holders("hook") \ {"hook"} : pc[t] = "unctx"
        BY <3>2, <4>1 DEF HookCount, Threads, Labels
      <4>4. QED
        BY <3>2, <4>1, <4>2, <4>3, Names DEF WaitsFor, Labels
    <3>7. "io" \in WaitsFor("ui") => "ui" \notin WaitsFor("io")
      <4>1. pc["ui"] \in Labels.ui /\ pc["io"] \in Labels.io
        BY Placed
      <4>2. SsCount("ui") = 0 \/ SsCount("io") = 0
        BY <2>2 DEF Exclusive
      <4>3. CASE pc["ui"] = "join"
        <5>1. SsCount("ui") = 0 /\ HookCount("ui") = 0 /\ WndCount("ui") = 0
          BY <4>3 DEF SsCount, HookCount, WndCount, Inside
        <5>2. "ui" \notin Holders(LockAt("io")) \/ LockAt("io") = NoLock
          BY <3>2, <3>3, <5>1 DEF Threads
        <5>3. QED
          BY <4>1, <5>2 DEF WaitsFor, Labels
      <4>4. CASE pc["ui"] # "join"
        <5>1. SUFFICES ASSUME "io" \in WaitsFor("ui"), "ui" \in WaitsFor("io")
                       PROVE  FALSE
          OBVIOUS
        <5>2. /\ LockAt("ui") # NoLock /\ "io" \in Holders(LockAt("ui"))
              /\ LockAt("io") # NoLock /\ "ui" \in Holders(LockAt("io"))
          BY <4>1, <4>4, <5>1 DEF WaitsFor, Labels
        <5>3. /\ pc["ui"] # "unctx" /\ pc["io"] # "unctx"
          BY <3>5, <5>1 DEF Threads
        <5>4. /\ HookCount("ui") = 0 /\ HookCount("io") = 0
              /\ WndCount("ui") = 0 /\ WndCount("io") = 0
          BY <4>1, <5>3 DEF HookCount, WndCount, Labels
        <5>5. SsCount("ui") > 0 /\ SsCount("io") > 0
          BY <3>2, <3>3, <5>2, <5>4 DEF Threads
        <5>6. QED
          BY <4>2, <5>5
      <4>5. QED
        BY <4>3, <4>4
    <3>8. \A t \in Threads : t \notin WaitsFor(t)
      BY Placed DEF WaitsFor, Labels, Threads
    <3>9. CASE \E t \in W : WaitsFor(t) = {}
      BY <3>9
    <3>10. CASE \A t \in W : WaitsFor(t) # {}
      <4>1. W \subseteq {"ui", "io", "hook"}
        BY <3>4, <3>10 DEF Threads
      <4>2. CASE "hook" \in W
        <5>1. WaitsFor("hook") \cap W = {}
          BY <3>5, <3>6, <3>10, <4>1 DEF Threads
        <5>2. QED
          BY <4>2, <5>1
      <4>3. CASE "hook" \notin W
        <5>1. "ui" \in W \/ "io" \in W
          BY <3>1, <4>1, <4>3
        <5>2. /\ "ui" \notin WaitsFor("ui") /\ "io" \notin WaitsFor("io")
          BY <3>8 DEF Threads
        <5>3. CASE "ui" \in W /\ WaitsFor("ui") \cap W = {}
          BY <5>3
        <5>4. CASE "ui" \in W /\ WaitsFor("ui") \cap W # {}
          <6>1. "io" \in W /\ "io" \in WaitsFor("ui")
            BY <4>1, <4>3, <5>2, <5>4
          <6>2. WaitsFor("io") \cap W = {}
            BY <3>7, <4>1, <4>3, <5>2, <6>1
          <6>3. QED
            BY <6>1, <6>2
        <5>5. CASE "ui" \notin W
          <6>1. WaitsFor("io") \cap W = {}
            BY <4>1, <4>3, <5>2, <5>5
          <6>2. QED
            BY <5>1, <5>5, <6>1
        <5>6. QED
          BY <5>3, <5>4, <5>5
      <4>4. QED
        BY <4>2, <4>3
    <3>11. QED
      BY <3>9, <3>10
  <2>3. QED
    BY <2>1, <2>2
<1>2. QED
  BY <1>1, Reachable, PTL

(* Whatever SS_SendData is called for has data to send.                     *)
THEOREM SelectedIsFed ==
  Spec => []SelectedHasData
<1>1. ClientInv => SelectedHasData
  <2> SUFFICES ASSUME ClientInv, pc["io"] = "send", Selected(wdSet)
               PROVE  outData[slot]
    BY DEF SelectedHasData
  <2> USE DEF ClientInv, LocksInv, EntryInv, HeldInv, FlowInv
  <2>1. Running
    BY DEF PcTyped, Running, Threads
  <2>2. BeforeSend /\ wdSet # {} /\ slot # NoSession
    BY DEF BeforeSend, Selected
  <2>3. QED
    BY <2>1, <2>2 DEF Fed
<1>2. QED
  BY <1>1, Reachable, PTL
=============================================================================
