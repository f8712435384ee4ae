---------------------------- MODULE ClientLocks ----------------------------
(***************************************************************************)
(* The locks, the pointers and the sockets of the client's four threads.   *)
(*                                                                         *)
(* The UI thread inserts and removes servers, the IO thread runs           *)
(* client_io_thread_func, the hook thread the low-level hook callbacks and *)
(* the window thread (cli_wndsrv.c) follows the clipboard.  They share the *)
(* session in a slot of __g_ss_set, the hook's and the window's entry with *)
(* a pointer to it, and the locks __g_ss_mtx, the two __g_lock and the     *)
(* session's out_lock.  in_lock is taken by the IO thread only.            *)
(*                                                                         *)
(* One screen position is modelled: the others have slots, entries and     *)
(* sessions of their own and add nothing but more holders of the same      *)
(* locks.  A critical section in which no second lock is asked for is one  *)
(* step; a step that stands for an access made without the lock is named   *)
(* so.  What the messages say is the subject of Handover.                  *)
(***************************************************************************)
EXTENDS Naturals, FiniteSets

CONSTANTS
  Sessions,   \* identities of session objects; also names of their out_lock
  NoSession   \* NULL

Threads == {"ui", "io", "hook", "wnd"}
Globals == {"ss", "hook", "wnd"}   \* __g_ss_mtx, __g_lock of cli_hook.c and of cli_wndsrv.c
NoLock  == "none"
Locks   == Globals \cup Sessions

ASSUME SessionAssumption ==
  /\ NoSession \notin Sessions
  /\ Sessions \cap (Globals \cup {NoLock}) = {}

VARIABLES
  started,      \* __g_is_started; "stopping" while Cli_Stop is at work
  pc,           \* where each thread is
  cur,          \* the session each thread has a pointer to
  held,         \* how often each thread has entered each lock
  slot,         \* __g_ss_set at the position
  hookHandler,  \* __g_entry[].handler of cli_hook.c is not NULL
  hookCtx,      \* __g_entry[].ctx of cli_hook.c
  wndCtx,       \* __g_entry[] of cli_wndsrv.c, only used under its lock
  remote,       \* __g_state is HK_STATE_REMOTE
  life,         \* whether a session object exists
  active,       \* is_active
  outData,      \* out_buf is not empty
  rdSet, wdSet, \* the sockets in the IO thread's fd sets
  back          \* where the IO thread's Cli_RemoveServer returns to

entries == <<slot, hookHandler, hookCtx, wndCtx, remote>>
sess    == <<life, active, outData>>
io      == <<rdSet, wdSet, back>>
vars == <<started, pc, cur, held, entries, sess, io>>

\* Mutant: WND_Cli_UnRegisterHandler does not lock.
WndLocked_NotUnRegister == {"regWnd", "changed"}

(* The critical sections of cli_wndsrv.c.                                   *)
WndLocked == {"regWnd", "unwnd", "changed"}

(* The lock a thread must get to make its next step.                        *)
LockAt(t) ==
  CASE pc[t] \in {"checkSlot", "insert", "remove", "tick", "process"} -> "ss"
    [] pc[t] = "top" -> IF started = "started" THEN "ss" ELSE NoLock
    [] pc[t] \in {"regHook", "unhook", "leave", "enter", "mouse", "key"} -> "hook"
    [] pc[t] = "return" -> IF active[cur[t]] THEN "hook" ELSE NoLock
    [] pc[t] \in WndLocked -> "wnd"
    [] pc[t] \in {"build", "keepalive"} ->
         IF slot # NoSession THEN slot ELSE NoLock
    [] pc[t] \in {"sendEnter", "sendMouse", "sendKey", "sendClip"} ->
         IF cur[t] # NoSession THEN cur[t] ELSE NoLock
    [] OTHER -> NoLock

Holders(l) == {u \in Threads : held[u][l] > 0}

At(t, label) ==
  /\ pc[t] = label
  /\ LockAt(t) # NoLock => Holders(LockAt(t)) \subseteq {t}

Goto(t, label) == pc' = [pc EXCEPT ![t] = label]
Lock(t, l)   == held' = [held EXCEPT ![t][l] = @ + 1]
Unlock(t, l) == held' = [held EXCEPT ![t][l] = @ - 1]
Point(t, s)  == cur' = [cur EXCEPT ![t] = s]
Put(s)       == outData' = [outData EXCEPT ![s] = TRUE]
-----------------------------------------------------------------------------
Init ==
  /\ started = "stopped"
  /\ pc = [t \in Threads |-> IF t = "ui" THEN "idle" ELSE "exited"]
  /\ cur = [t \in Threads |-> NoSession]
  /\ held = [t \in Threads |-> [l \in Locks |-> 0]]
  /\ slot = NoSession
  /\ hookHandler = FALSE
  /\ hookCtx = NoSession
  /\ wndCtx = NoSession
  /\ remote = FALSE
  /\ life = [s \in Sessions |-> "freed"]
  /\ active = [s \in Sessions |-> FALSE]
  /\ outData = [s \in Sessions |-> FALSE]
  /\ rdSet = {} /\ wdSet = {}
  /\ back = "end"

Cli_Start ==
  /\ At("ui", "idle")
  /\ started = "stopped"
  /\ started' = "started"
  /\ pc' = [ui |-> "idle", io |-> "top", hook |-> "idle", wnd |-> "idle"]
  /\ UNCHANGED <<cur, held, entries, sess, io>>

(***************************************************************************)
(* Cli_InsertServer: look, connect without the lock, look no more.         *)
(***************************************************************************)
Cli_InsertServer ==
  /\ At("ui", "idle")
  /\ started = "started"
  /\ Goto("ui", "checkSlot")
  /\ UNCHANGED <<started, cur, held, entries, sess, io>>

\* Mutant: the position is not looked at.
CheckSlot_Skipped ==
  /\ At("ui", "checkSlot")
  /\ Goto("ui", "connect")
  /\ UNCHANGED <<started, cur, held, entries, sess, io>>

CheckSlot ==
  /\ At("ui", "checkSlot")
  /\ Goto("ui", IF slot = NoSession THEN "connect" ELSE "idle")
  /\ UNCHANGED <<started, cur, held, entries, sess, io>>

(* An object nothing points to any more; its socket is in no set.           *)
Fresh(s) ==
  /\ life[s] = "freed"
  /\ \A t \in Threads : cur[t] # s
  /\ s \notin rdSet \cup wdSet

(* SS_ConnectSession: up to three seconds, with the handshake queued.       *)
Connect(s) ==
  /\ At("ui", "connect")
  /\ Fresh(s)
  /\ life' = [life EXCEPT ![s] = "live"]
  /\ active' = [active EXCEPT ![s] = FALSE]
  /\ Put(s)
  /\ Point("ui", s)
  /\ Goto("ui", "insert")
  /\ UNCHANGED <<started, held, entries, io>>

ConnectFails ==
  /\ At("ui", "connect")
  /\ Goto("ui", "idle")
  /\ UNCHANGED <<started, cur, held, entries, sess, io>>

InsertSlot ==
  /\ At("ui", "insert")
  /\ Lock("ui", "ss")
  /\ slot' = cur["ui"]
  /\ Goto("ui", "regHook")
  /\ UNCHANGED <<started, cur, hookHandler, hookCtx, wndCtx, remote, sess, io>>

(* An entry already in use stays as it is, and true is returned anyway.     *)
Hook_Cli_RegisterHandler ==
  /\ At("ui", "regHook")
  /\ hookHandler' = TRUE
  /\ hookCtx' = IF hookHandler THEN hookCtx ELSE cur["ui"]
  /\ Goto("ui", "regWnd")
  /\ UNCHANGED <<started, cur, held, slot, wndCtx, remote, sess, io>>

WND_Cli_RegisterHandler ==
  /\ At("ui", "regWnd")
  /\ wndCtx' = IF wndCtx # NoSession THEN wndCtx ELSE cur["ui"]
  /\ Unlock("ui", "ss")
  /\ Point("ui", NoSession)
  /\ Goto("ui", "idle")
  /\ UNCHANGED <<started, slot, hookHandler, hookCtx, remote, sess, io>>

(***************************************************************************)
(* Cli_RemoveServer, called by the UI thread, or by the IO thread that has *)
(* entered __g_ss_mtx already.                                             *)
(***************************************************************************)
Cli_RemoveServer ==
  /\ At("ui", "idle")
  /\ started = "started"
  /\ Goto("ui", "remove")
  /\ UNCHANGED <<started, cur, held, entries, sess, io>>

Removers == {"ui", "io"}

RemoveLocks(t) ==
  /\ At(t, "remove")
  /\ Lock(t, "ss")
  /\ Goto(t, "unhook")
  /\ UNCHANGED <<started, cur, entries, sess, io>>

(* Hook_Cli_UnRegisterHandler stores twice, and one reader does not lock.   *)
ClearHandler(t) ==
  /\ At(t, "unhook")
  /\ Lock(t, "hook")
  /\ hookHandler' = FALSE
  /\ Goto(t, "unctx")
  /\ UNCHANGED <<started, cur, slot, hookCtx, wndCtx, remote, sess, io>>

ClearCtx(t) ==
  /\ At(t, "unctx")
  /\ hookCtx' = NoSession
  /\ Unlock(t, "hook")
  /\ Goto(t, "unwnd")
  /\ UNCHANGED <<started, cur, slot, hookHandler, wndCtx, remote, sess, io>>

Stopping(t) == t = "ui" /\ started = "stopping"

WND_Cli_UnRegisterHandler(t) ==
  /\ At(t, "unwnd")
  /\ wndCtx' = NoSession
  /\ Goto(t, IF Stopping(t) THEN "close" ELSE "detach")
  /\ UNCHANGED <<started, cur, held, slot, hookHandler, hookCtx, remote, sess,
                 io>>

AfterRemove(t) == IF t = "ui" THEN "idle" ELSE back

RemoveDetach(t) ==
  /\ At(t, "detach")
  /\ Point(t, slot)
  /\ slot' = NoSession
  /\ Unlock(t, "ss")
  /\ Goto(t, IF slot = NoSession THEN AfterRemove(t) ELSE "return")
  /\ UNCHANGED <<started, hookHandler, hookCtx, wndCtx, remote, sess, io>>

(* SS_IsActive is read, and Hook_Cli_ControlReturn called, after the lock.  *)
RemoveReturn(t) ==
  /\ At(t, "return")
  /\ remote' = (remote /\ ~active[cur[t]])
  /\ Goto(t, "close")
  /\ UNCHANGED <<started, cur, held, slot, hookHandler, hookCtx, wndCtx, sess,
                 io>>

(* SS_CloseSession: the socket, the locks and the object are gone.          *)
RemoveClose(t) ==
  /\ At(t, "close")
  /\ life' = [life EXCEPT ![cur[t]] = "freed"]
  /\ Point(t, NoSession)
  /\ slot' = IF Stopping(t) THEN NoSession ELSE slot
  /\ Goto(t, IF Stopping(t) THEN "quitHook" ELSE AfterRemove(t))
  /\ UNCHANGED <<started, held, hookHandler, hookCtx, wndCtx, remote, active,
                 outData, io>>

(***************************************************************************)
(* Cli_Stop: join the IO thread, close the session, stop hook and window.  *)
(***************************************************************************)
\* Mutant: __g_ss_mtx is taken before the IO thread is joined.
Cli_Stop_Locked ==
  /\ At("ui", "idle")
  /\ started = "started"
  /\ Holders("ss") = {}
  /\ started' = "stopping"
  /\ Lock("ui", "ss")
  /\ Goto("ui", "join")
  /\ UNCHANGED <<cur, entries, sess, io>>

Cli_Stop ==
  /\ At("ui", "idle")
  /\ started = "started"
  /\ started' = "stopping"
  /\ Goto("ui", "join")
  /\ UNCHANGED <<cur, held, entries, sess, io>>

StopJoined ==
  /\ At("ui", "join")
  /\ pc["io"] = "exited"
  /\ Point("ui", slot)
  /\ Goto("ui", IF slot = NoSession THEN "quitHook" ELSE "unhook")
  /\ UNCHANGED <<started, held, entries, sess, io>>

(* The hook thread takes the quit message between two callbacks.            *)
Hook_Cli_Stop ==
  /\ At("ui", "quitHook")
  /\ pc["hook"] = "idle"
  /\ pc' = [pc EXCEPT !["ui"] = "quitWnd", !["hook"] = "exited"]
  /\ hookHandler' = FALSE
  /\ hookCtx' = NoSession
  /\ remote' = FALSE
  /\ UNCHANGED <<started, cur, held, slot, wndCtx, sess, io>>

WND_Cli_Stop ==
  /\ At("ui", "quitWnd")
  /\ pc["wnd"] = "idle"
  /\ pc' = [pc EXCEPT !["ui"] = "idle", !["wnd"] = "exited"]
  /\ started' = "stopped"
  /\ UNCHANGED <<cur, held, entries, sess, io>>

(***************************************************************************)
(* client_io_thread_func.                                                  *)
(***************************************************************************)
LoopTop ==
  /\ At("io", "top")
  /\ IF started = "started"
     THEN Lock("io", "ss") /\ Goto("io", "build")
     ELSE UNCHANGED held /\ Goto("io", "exited")
  /\ UNCHANGED <<started, cur, entries, sess, io>>

\* Mutant: every socket is put into the write set.
WriteSet_Always == {slot} \ {NoSession}

WriteSet == {s \in {slot} \ {NoSession} : outData[s]}

BuildSets ==
  /\ At("io", "build")
  /\ rdSet' = {slot} \ {NoSession}
  /\ wdSet' = WriteSet
  /\ Unlock("io", "ss")
  /\ Goto("io", "select")
  /\ UNCHANGED <<started, cur, entries, sess, back>>

(* The handle of a closed socket may be that of a session made since.       *)
HandleOpen(s) == life[s] = "live" \/ \E r \in Sessions : life[r] = "live"

(* select leaves the ready sockets in the sets; it takes 20 ms at most.     *)
Select ==
  /\ At("io", "select")
  /\ \A s \in rdSet : HandleOpen(s)
  /\ rdSet' \in SUBSET rdSet
  /\ wdSet' \in SUBSET wdSet
  /\ \/ Goto("io", "tick")
     \/ Goto("io", IF rdSet' \cup wdSet' = {} THEN "top" ELSE "process")
  /\ UNCHANGED <<started, cur, held, entries, sess, back>>

Abort == pc' = [t \in Threads |-> "aborted"]

(* It fails on a socket that is closed, of this position or of another.     *)
(* The error function Com_error calls ends the process, or, like those of   *)
(* the dialogs, only takes note; then the round goes on with the sets as    *)
(* BuildSets left them.                                                     *)
SelectFails ==
  /\ At("io", "select")
  /\ Abort \/ Goto("io", "tick") \/ Goto("io", "process")
  /\ UNCHANGED <<started, cur, held, entries, sess, io>>

Tick ==
  /\ At("io", "tick")
  /\ Lock("io", "ss")
  /\ Goto("io", "timer")
  /\ UNCHANGED <<started, cur, entries, sess, io>>

(* Cli_RemoveServer does nothing once __g_is_started is cleared.            *)
IoRemoves(label) ==
  /\ back' = label
  /\ Goto("io", IF started = "started" THEN "remove" ELSE label)

(* SS_OnTimer: a silent peer, an idle one, or neither.                      *)
Timer ==
  /\ At("io", "timer")
  /\ \/ Goto("io", "timerEnd") /\ UNCHANGED back
     \/ slot # NoSession /\ IoRemoves("timerEnd")
     \/ slot # NoSession /\ Goto("io", "keepalive") /\ UNCHANGED back
  /\ UNCHANGED <<started, cur, held, entries, sess, rdSet, wdSet>>

SS_SendKeepAlive ==
  /\ At("io", "keepalive")
  /\ Put(slot)
  /\ Goto("io", "timerEnd")
  /\ UNCHANGED <<started, cur, held, entries, life, active, io>>

TimerEnd ==
  /\ At("io", "timerEnd")
  /\ Unlock("io", "ss")
  /\ Goto("io", IF rdSet \cup wdSet = {} THEN "top" ELSE "process")
  /\ UNCHANGED <<started, cur, entries, sess, io>>

Process ==
  /\ At("io", "process")
  /\ Lock("io", "ss")
  /\ Goto("io", "send")
  /\ UNCHANGED <<started, cur, entries, sess, io>>

(* FD_ISSET: a new session may have got the socket handle of a closed one.  *)
Selected(set) ==
  /\ slot # NoSession
  /\ slot \in set \/ \E s \in set : life[s] = "freed"

(* SS_SendData holds in_lock: nothing keeps out_buf from other threads.     *)
SS_SendData ==
  /\ At("io", "send")
  /\ \/ /\ slot \notin wdSet
        /\ Goto("io", "recv")
        /\ UNCHANGED <<outData, back>>
     \/ /\ Selected(wdSet)
        /\ outData[slot]
        /\ outData' \in {outData, [outData EXCEPT ![slot] = FALSE]}
        /\ Goto("io", "recv")
        /\ UNCHANGED back
     \/ /\ Selected(wdSet)
        /\ IoRemoves("recv")
        /\ UNCHANGED outData
  /\ UNCHANGED <<started, cur, held, entries, life, active, rdSet, wdSet>>

(* SS_RecvData: of what is received only LEAVE asks for another lock.  A    *)
(* session selected by mistake has nothing to read, and that is a failure. *)
SS_RecvData ==
  /\ At("io", "recv")
  /\ \/ Goto("io", "end") /\ UNCHANGED back
     \/ slot \in rdSet /\ Goto("io", "leave") /\ UNCHANGED back
     \/ Selected(rdSet) /\ IoRemoves("end")
  /\ UNCHANGED <<started, cur, held, entries, sess, rdSet, wdSet>>

Hook_Cli_ControlReturn ==
  /\ At("io", "leave")
  /\ remote' = FALSE
  /\ Goto("io", "end")
  /\ UNCHANGED <<started, cur, held, slot, hookHandler, hookCtx, wndCtx, sess,
                 io>>

RoundEnd ==
  /\ At("io", "end")
  /\ rdSet' = {} /\ wdSet' = {}
  /\ Unlock("io", "ss")
  /\ Goto("io", "top")
  /\ UNCHANGED <<started, cur, entries, sess, back>>

(***************************************************************************)
(* The hook thread.                                                        *)
(***************************************************************************)
HookCallback ==
  /\ At("hook", "idle")
  /\ Holders("hook") = {}
  /\ \E label \in IF remote THEN {"mouse", "key"} ELSE {"enter"} :
       Goto("hook", label)
  /\ UNCHANGED <<started, cur, held, entries, sess, io>>

(* The handler is called inside the lock: ENTER and the keyboard.           *)
CallLocked(label, next) ==
  /\ At("hook", label)
  /\ IF hookHandler
     THEN Lock("hook", "hook") /\ Point("hook", hookCtx) /\ Goto("hook", next)
     ELSE UNCHANGED <<held, cur>> /\ Goto("hook", "idle")
  /\ UNCHANGED <<started, entries, sess, io>>

OnNormalMouseAction == CallLocked("enter", "sendEnter")
OnKeyboard          == CallLocked("key", "sendKey")

(* hook_dispatch with a context that is NULL, or an object that is gone.    *)
Dangling(t) == cur[t] \notin {s \in Sessions : life[s] = "live"}

(* It does nothing before the handshake.                                    *)
SS_SendEnterMsg ==
  /\ At("hook", "sendEnter")
  /\ ~Dangling("hook")
  /\ \/ /\ active' = [active EXCEPT ![cur["hook"]] = TRUE]
        /\ Put(cur["hook"])
        /\ Goto("hook", "entered")
        /\ UNCHANGED held
     \/ /\ Unlock("hook", "hook")
        /\ Goto("hook", "idle")
        /\ UNCHANGED <<active, outData>>
  /\ Point("hook", IF pc'["hook"] = "idle" THEN NoSession ELSE cur["hook"])
  /\ UNCHANGED <<started, entries, life, io>>

EnterRemote ==
  /\ At("hook", "entered")
  /\ remote' = TRUE
  /\ Unlock("hook", "hook")
  /\ Point("hook", NoSession)
  /\ Goto("hook", "idle")
  /\ UNCHANGED <<started, slot, hookHandler, hookCtx, wndCtx, sess, io>>

SS_SendKeyboardMsg ==
  /\ At("hook", "sendKey")
  /\ ~Dangling("hook")
  /\ Put(cur["hook"]) \/ UNCHANGED outData
  /\ Unlock("hook", "hook")
  /\ Point("hook", NoSession)
  /\ Goto("hook", "idle")
  /\ UNCHANGED <<started, entries, life, active, io>>

(* on_remote_mouse_action lets go of the lock before it reads its entry.    *)
MouseMoves ==
  /\ At("hook", "mouse")
  /\ Goto("hook", "readHandler")
  /\ UNCHANGED <<started, cur, held, entries, sess, io>>

ReadHandlerUnlocked ==
  /\ At("hook", "readHandler")
  /\ Goto("hook", IF hookHandler THEN "readCtx" ELSE "idle")
  /\ UNCHANGED <<started, cur, held, entries, sess, io>>

ReadCtxUnlocked ==
  /\ At("hook", "readCtx")
  /\ Point("hook", hookCtx)
  /\ Goto("hook", "sendMouse")
  /\ UNCHANGED <<started, held, entries, sess, io>>

SS_SendMouseMsg ==
  /\ At("hook", "sendMouse")
  /\ ~Dangling("hook")
  /\ Put(cur["hook"]) \/ UNCHANGED outData
  /\ Point("hook", NoSession)
  /\ Goto("hook", "idle")
  /\ UNCHANGED <<started, held, entries, life, active, io>>

(* What follows is undefined; the process is taken to end.                  *)
DispatchFails ==
  /\ pc["hook"] = "sendMouse"
  /\ Dangling("hook")
  /\ Abort
  /\ UNCHANGED <<started, cur, held, entries, sess, io>>

(***************************************************************************)
(* The window thread: the clipboard's text goes to every session.          *)
(***************************************************************************)
ClipboardChanges ==
  /\ At("wnd", "idle")
  /\ Goto("wnd", "changed")
  /\ UNCHANGED <<started, cur, held, entries, sess, io>>

OnClipboardChanged ==
  /\ At("wnd", "changed")
  /\ IF wndCtx # NoSession
     THEN Lock("wnd", "wnd") /\ Point("wnd", wndCtx) /\ Goto("wnd", "sendClip")
     ELSE UNCHANGED <<held, cur>> /\ Goto("wnd", "idle")
  /\ UNCHANGED <<started, entries, sess, io>>

SS_SendClipDataMsg ==
  /\ At("wnd", "sendClip")
  /\ Put(cur["wnd"]) \/ UNCHANGED outData
  /\ Unlock("wnd", "wnd")
  /\ Point("wnd", NoSession)
  /\ Goto("wnd", "idle")
  /\ UNCHANGED <<started, entries, life, active, io>>
-----------------------------------------------------------------------------
RemoveStep(t) ==
  \/ RemoveLocks(t) \/ ClearHandler(t) \/ ClearCtx(t)
  \/ WND_Cli_UnRegisterHandler(t)
  \/ RemoveDetach(t) \/ RemoveReturn(t) \/ RemoveClose(t)

UiCalls == Cli_Start \/ Cli_InsertServer \/ Cli_RemoveServer \/ Cli_Stop

UiStep ==
  \/ CheckSlot \/ (\E s \in Sessions : Connect(s)) \/ ConnectFails
  \/ InsertSlot \/ Hook_Cli_RegisterHandler \/ WND_Cli_RegisterHandler
  \/ RemoveStep("ui")
  \/ StopJoined \/ Hook_Cli_Stop \/ WND_Cli_Stop

IoStep ==
  \/ LoopTop \/ BuildSets \/ Select \/ SelectFails
  \/ Tick \/ Timer \/ SS_SendKeepAlive \/ TimerEnd
  \/ Process \/ SS_SendData \/ SS_RecvData \/ Hook_Cli_ControlReturn \/ RoundEnd
  \/ RemoveStep("io")

HookStep ==
  \/ OnNormalMouseAction \/ SS_SendEnterMsg \/ EnterRemote
  \/ OnKeyboard \/ SS_SendKeyboardMsg
  \/ MouseMoves \/ ReadHandlerUnlocked \/ ReadCtxUnlocked \/ SS_SendMouseMsg
  \/ DispatchFails

WndStep == OnClipboardChanged \/ SS_SendClipDataMsg

Aborted == pc["ui"] = "aborted" /\ UNCHANGED vars

Next ==
  \/ UiCalls \/ UiStep
  \/ IoStep
  \/ HookCallback \/ HookStep
  \/ ClipboardChanges \/ WndStep
  \/ Aborted

Spec == Init /\ [][Next]_vars

-----------------------------------------------------------------------------
Labels ==
  [ui   |-> {"idle", "checkSlot", "connect", "insert", "regHook", "regWnd",
             "remove", "unhook", "unctx", "unwnd", "detach", "return", "close",
             "join", "quitHook", "quitWnd", "aborted"},
   io   |-> {"exited", "top", "build", "select", "tick", "timer", "keepalive",
             "timerEnd", "process", "send", "recv", "leave", "end",
             "remove", "unhook", "unctx", "unwnd", "detach", "return", "close",
             "aborted"},
   hook |-> {"exited", "idle", "enter", "sendEnter", "entered", "key",
             "sendKey", "mouse", "readHandler", "readCtx", "sendMouse",
             "aborted"},
   wnd  |-> {"exited", "idle", "changed", "sendClip", "aborted"}]

(* Every variable holds a value the code can store in it; only __g_ss_mtx   *)
(* is ever entered twice, and no further.                                  *)
TypeOK ==
  /\ started \in {"stopped", "started", "stopping"}
  /\ pc \in [Threads -> UNION {Labels[t] : t \in Threads}]
  /\ \A t \in Threads : pc[t] \in Labels[t]
  /\ cur \in [Threads -> Sessions \cup {NoSession}]
  /\ held \in [Threads -> [Locks -> 0..2]]
  /\ \A t \in Threads, l \in Locks : held[t][l] = 2 => t = "io" /\ l = "ss"
  /\ slot \in Sessions \cup {NoSession}
  /\ hookHandler \in BOOLEAN /\ remote \in BOOLEAN
  /\ hookCtx \in Sessions \cup {NoSession}
  /\ wndCtx \in Sessions \cup {NoSession}
  /\ life \in [Sessions -> {"live", "freed"}]
  /\ active \in [Sessions -> BOOLEAN] /\ outData \in [Sessions -> BOOLEAN]
  /\ rdSet \subseteq Sessions /\ wdSet \subseteq Sessions
  /\ back \in {"timerEnd", "recv", "end"}

(* The threads that keep t from its next step: the other holders of the     *)
(* lock it wants, or the thread it joins.                                  *)
WaitsFor(t) ==
  IF LockAt(t) # NoLock THEN Holders(LockAt(t)) \ {t}
  ELSE IF pc[t] = "join" /\ pc["io"] # "exited" THEN {"io"}
  ELSE IF pc[t] = "quitHook" /\ pc["hook"] # "idle" THEN {"hook"}
  ELSE IF pc[t] = "quitWnd" /\ pc["wnd"] # "idle" THEN {"wnd"}
  ELSE {}

(* No circle of threads, each waiting for the next: not for the locks,      *)
(* although they are nested three deep and re-entered, and not for the end *)
(* of a thread Cli_Stop joins.                                             *)
NoDeadlock ==
  \A W \in (SUBSET Threads) \ {{}} : \E t \in W : WaitsFor(t) \cap W = {}

(* No thread touches a session that has been closed: neither the one that   *)
(* calls a handler inside the lock of its entry, nor the IO thread, nor the*)
(* one that is closing it.  The one exception is the mouse in remote mode, *)
(* whose entry is read without the lock and may be gone by then.           *)
NoUseAfterFree ==
  /\ \A t \in Threads :
       cur[t] # NoSession /\ pc[t] \notin {"sendMouse", "aborted"} =>
         life[cur[t]] = "live"
  /\ slot # NoSession => life[slot] = "live"

(* Outside __g_ss_mtx the slot and the two entries agree: a session has     *)
(* both its handlers or neither, in spite of the Cli_InsertServer that     *)
(* looks at the slot first and locks again after the connection is made,   *)
(* and of a registration whose failure is not reported.                    *)
EntriesAgree ==
  Holders("ss") = {} /\ started = "started" =>
    /\ hookHandler = (slot # NoSession)
    /\ hookCtx = slot
    /\ wndCtx = slot

(* "if put into select, there must be data to send": what SS_SendData takes *)
(* for granted, between two holds of __g_ss_mtx, with a session that may be*)
(* another one by then.                                                    *)
SelectedHasData == pc["io"] = "send" /\ Selected(wdSet) => outData[slot]
=============================================================================
