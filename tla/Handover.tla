------------------------------ MODULE Handover ------------------------------
(***************************************************************************)
(* Which machine the keyboard and the mouse of the client drive.           *)
(*                                                                         *)
(* The client (mmcore/Client) runs three threads: the UI thread calls the  *)
(* Cli_ operations, the IO thread runs client_io_thread_func, the hook     *)
(* thread runs the low-level hook callbacks.  Each screen position has at  *)
(* most one session, to a server (mmcore/Server) that serves one client at *)
(* a time.  ENTER hands control to a server, LEAVE hands it back.          *)
(*                                                                         *)
(* A wire is the bytes one end has put into its out_buf and the other has  *)
(* not yet handled, as a FIFO of messages; what nobody can read any more   *)
(* is dropped from it.  INPUT stands for MOUSE and KEYBOARD, which both    *)
(* ends treat alike here.  KEEPALIVE and CLIPDATA change none of the state *)
(* below and are left to other modules.                                    *)
(***************************************************************************)
EXTENDS Naturals, Sequences, FiniteSets

CONSTANTS
  Positions,  \* screen positions of servers, NM_POS_LEFT .. NM_POS_DOWN
  Conns,      \* identities of TCP connections, reused once both ends closed
  NoPos,      \* NM_POS_MAX
  NoConn,     \* NULL
  MaxWire     \* bound on the messages in one direction of a connection

ASSUME NullAssumption == NoPos \notin Positions /\ NoConn \notin Conns
ASSUME BoundAssumption == MaxWire \in Nat

VARIABLES
  started,       \* __g_is_started, and how far a Cli_Stop is: "stopping" while
                 \* it joins the IO thread, "joined" after that
  hookState,     \* __g_state of cli_hook.c
  currPos,       \* __g_curr_pos of cli_hook.c
  hookSeen,      \* the copy of __g_state a hook callback is acting on
  entering,      \* where a callback is sending ENTER, holding the hook's lock
  slot,          \* __g_ss_set, and the ctx of __g_entry: both change as one
  uiPc,          \* what the UI thread is in the middle of
  ioPc,          \* what the IO thread is in the middle of, holding __g_ss_mtx
  cursorHidden,  \* the system cursor of the client machine
  seized,        \* history: a removed session took control from another one
  outrun         \* history: a LEAVE was handled before its ENTER was over

VARIABLES        \* the client's end of a connection, cliSession_t
  pos,           \* for_position
  cliOpen,       \* the session exists
  handshaked,    \* is_handshaked
  active         \* is_active

VARIABLES        \* the server's end of a connection, srvSession_t
  srvUp,         \* the server at a position is listening
  srvState,      \* "backlog" until accepted, "served", "closed"
  srvHandshaked, \* is_handshaked
  entered        \* is_entered

VARIABLES c2s, s2c, linkUp   \* the wires, and whether the network carries them

hookVars == <<hookState, currPos, hookSeen, entering>>
history  == <<seized, outrun>>
clientVars  == <<started, hookVars, slot, uiPc, ioPc, cursorHidden, history>>
sessionVars == <<pos, cliOpen, handshaked, active>>
serverVars  == <<srvUp, srvState, srvHandshaked, entered>>
vars == <<clientVars, sessionVars, serverVars, c2s, s2c, linkUp>>

ToServer   == {"HANDSHAKE", "ENTER", "INPUT"}
ToClient   == {"HANDSHAKE_REPLY", "LEAVE"}
Ops        == {"idle", "leave", "fail", "return", "close"}
Pc         == [op : Ops, conn : Conns \cup {NoConn}]

At(op, c) == [op |-> op, conn |-> c]
Idle      == At("idle", NoConn)

(* The session of c is the one its position's slot and hook entry hold. *)
Attached(c) == cliOpen[c] /\ slot[pos[c]] = c

RemoteAt(p) == hookState = "REMOTE" /\ currPos = p

(* __g_lock of cli_hook.c is free: a callback that is sending ENTER holds   *)
(* it, and every other critical section on it is within one step here.     *)
HookLockFree == entering = NoPos

Has(s, m) == \E i \in 1..Len(s) : s[i] = m

(* The server end can still be reached from the client, and vice versa.     *)
Alive(c) == linkUp[c] /\ srvState[c] # "closed"

PutToServer(c, m) ==
  /\ Len(c2s[c]) < MaxWire
  /\ c2s' = [c2s EXCEPT ![c] = IF Alive(c) THEN Append(@, m) ELSE @]

PutToClient(c, m) ==
  s2c' = [s2c EXCEPT ![c] = IF linkUp[c] /\ cliOpen[c] THEN Append(@, m) ELSE @]
-----------------------------------------------------------------------------
Init ==
  /\ started = "stopped"
  /\ hookState = "STOP"
  /\ currPos = NoPos
  /\ hookSeen = "none"
  /\ entering = NoPos
  /\ slot = [p \in Positions |-> NoConn]
  /\ uiPc = Idle
  /\ ioPc = Idle
  /\ cursorHidden = FALSE
  /\ seized = FALSE
  /\ outrun = FALSE
  /\ pos \in [Conns -> Positions]
  /\ cliOpen = [c \in Conns |-> FALSE]
  /\ handshaked = [c \in Conns |-> FALSE]
  /\ active = [c \in Conns |-> FALSE]
  /\ srvUp = [p \in Positions |-> FALSE]
  /\ srvState = [c \in Conns |-> "closed"]
  /\ srvHandshaked = [c \in Conns |-> FALSE]
  /\ entered = [c \in Conns |-> FALSE]
  /\ c2s = [c \in Conns |-> <<>>]
  /\ s2c = [c \in Conns |-> <<>>]
  /\ linkUp = [c \in Conns |-> TRUE]

(***************************************************************************)
(* The UI thread.                                                          *)
(***************************************************************************)
Cli_Start ==
  /\ started = "stopped"
  /\ started' = "started"
  /\ hookState' = "NORMAL"
  /\ UNCHANGED <<currPos, hookSeen, entering, slot, uiPc, ioPc, cursorHidden,
                 history, sessionVars, serverVars, c2s, s2c, linkUp>>

(* Clearing the flag; the IO thread may still be inside its loop body. *)
Cli_Stop ==
  /\ started = "started"
  /\ uiPc = Idle
  /\ started' = "stopping"
  /\ UNCHANGED <<hookVars, slot, uiPc, ioPc, cursorHidden, history,
                 sessionVars, serverVars, c2s, s2c, linkUp>>

(* The IO thread is joined. *)
Cli_StopJoined ==
  /\ started = "stopping"
  /\ ioPc = Idle
  /\ started' = "joined"
  /\ UNCHANGED <<hookVars, slot, uiPc, ioPc, cursorHidden, history,
                 sessionVars, serverVars, c2s, s2c, linkUp>>

(* The two halves of a connection SS_ConnectSession has just set up: the    *)
(* handshake is queued, and the server's kernel has accepted the connection *)
(* although its only IO thread may be busy with another client.            *)
SS_ConnectSession(c, p) ==
  /\ pos' = [pos EXCEPT ![c] = p]
  /\ cliOpen' = [cliOpen EXCEPT ![c] = TRUE]
  /\ handshaked' = [handshaked EXCEPT ![c] = FALSE]
  /\ active' = [active EXCEPT ![c] = FALSE]
  /\ srvState' = [srvState EXCEPT ![c] = "backlog"]
  /\ srvHandshaked' = [srvHandshaked EXCEPT ![c] = FALSE]
  /\ entered' = [entered EXCEPT ![c] = FALSE]
  /\ c2s' = [c2s EXCEPT ![c] = <<"HANDSHAKE">>]
  /\ s2c' = [s2c EXCEPT ![c] = <<>>]
  /\ linkUp' = [linkUp EXCEPT ![c] = TRUE]

Cli_InsertServer(p, c) ==
  /\ started = "started"
  /\ uiPc = Idle
  /\ ioPc = Idle
  /\ HookLockFree
  /\ slot[p] = NoConn
  /\ srvUp[p]
  /\ ~cliOpen[c] /\ srvState[c] = "closed"
  /\ SS_ConnectSession(c, p)
  /\ slot' = [slot EXCEPT ![p] = c]
  /\ UNCHANGED <<started, hookVars, uiPc, ioPc, cursorHidden, history, srvUp>>

(* The critical section of Cli_RemoveServer takes the session out of its    *)
(* slot and its hook entry; what follows it depends on SS_IsActive.         *)
\* Mutant: the active session is closed without Hook_Cli_ControlReturn.
AfterDetach_NoReturn(c) == At("close", c)

AfterDetach(c) == At(IF active[c] THEN "return" ELSE "close", c)

Detach(c) == HookLockFree /\ slot' = [slot EXCEPT ![pos[c]] = NoConn]

Cli_RemoveServer(p) ==
  /\ started = "started"
  /\ uiPc = Idle
  /\ ioPc = Idle
  /\ slot[p] # NoConn
  /\ Detach(slot[p])
  /\ uiPc' = AfterDetach(slot[p])
  /\ UNCHANGED <<started, hookVars, ioPc, cursorHidden, history, sessionVars,
                 serverVars, c2s, s2c, linkUp>>

(***************************************************************************)
(* The tail of Cli_RemoveServer, outside the critical section, on either   *)
(* thread: Hook_Cli_ControlReturn if the session is active, then           *)
(* SS_CloseSession.  Hook_Cli_ControlReturn does not ask which session     *)
(* holds control: seized records that it was not the removed one.          *)
(***************************************************************************)
Hook_Cli_ControlReturn == HookLockFree /\ hookState' = "NORMAL"

ReturnOnRemove(c) ==
  /\ Hook_Cli_ControlReturn
  /\ seized' = (seized \/ (hookState = "REMOTE" /\ currPos # pos[c]))

\* Mutant: the cursor is not shown again.
SS_CloseSession_NoCursor(c) ==
  /\ cliOpen' = [cliOpen EXCEPT ![c] = FALSE]
  /\ handshaked' = [handshaked EXCEPT ![c] = FALSE]
  /\ active' = [active EXCEPT ![c] = FALSE]
  /\ s2c' = [s2c EXCEPT ![c] = <<>>]
  /\ UNCHANGED cursorHidden

SS_CloseSession(c) ==
  /\ cliOpen' = [cliOpen EXCEPT ![c] = FALSE]
  /\ handshaked' = [handshaked EXCEPT ![c] = FALSE]
  /\ active' = [active EXCEPT ![c] = FALSE]
  /\ s2c' = [s2c EXCEPT ![c] = <<>>]
  /\ cursorHidden' = (cursorHidden /\ ~active[c])

UiReturn ==
  /\ uiPc.op = "return"
  /\ ReturnOnRemove(uiPc.conn)
  /\ uiPc' = At("close", uiPc.conn)
  /\ UNCHANGED <<started, currPos, hookSeen, entering, slot, ioPc,
                 cursorHidden, sessionVars, serverVars, c2s, s2c, linkUp,
                 outrun>>

UiClose ==
  /\ uiPc.op = "close"
  /\ SS_CloseSession(uiPc.conn)
  /\ uiPc' = Idle
  /\ UNCHANGED <<started, hookVars, slot, ioPc, history, pos, serverVars,
                 c2s, linkUp>>

(***************************************************************************)
(* The rest of Cli_Stop: session by session the hook's handler is taken    *)
(* away and the session closed, in no particular order here; then the hook *)
(* is stopped, and its thread, which may still be in a callback, joined.   *)
(***************************************************************************)
Cli_StopDetaches(p) ==
  /\ started = "joined"
  /\ uiPc = Idle
  /\ slot[p] # NoConn
  /\ Detach(slot[p])
  /\ uiPc' = At("close", slot[p])
  /\ UNCHANGED <<started, hookVars, ioPc, cursorHidden, history, sessionVars,
                 serverVars, c2s, s2c, linkUp>>

Hook_Cli_Stop ==
  /\ started = "joined"
  /\ uiPc = Idle
  /\ \A p \in Positions : slot[p] = NoConn
  /\ hookSeen = "none"
  /\ HookLockFree
  /\ started' = "stopped"
  /\ hookState' = "STOP"
  /\ currPos' = NoPos
  /\ UNCHANGED <<hookSeen, entering, slot, uiPc, ioPc, cursorHidden, history,
                 sessionVars, serverVars, c2s, s2c, linkUp>>

(***************************************************************************)
(* The IO thread.  It holds __g_ss_mtx from the moment it takes up a       *)
(* session until it is done with it, so the UI thread's critical sections  *)
(* exclude every step in which ioPc is not Idle.                           *)
(***************************************************************************)
IoReady(c) == started \in {"started", "stopping"} /\ ioPc = Idle /\ Attached(c)

Received(c, m) == s2c[c] # <<>> /\ Head(s2c[c]) = m

Cli_OnHandShakeReply(c) ==
  /\ IoReady(c)
  /\ Received(c, "HANDSHAKE_REPLY")
  /\ handshaked' = [handshaked EXCEPT ![c] = TRUE]
  /\ s2c' = [s2c EXCEPT ![c] = Tail(@)]
  /\ UNCHANGED <<clientVars, pos, cliOpen, active, serverVars, c2s, linkUp>>

(* The cursor is shown before anything is checked; a LEAVE on a session     *)
(* that is not active is reported as fatal but is_ok stays true.            *)
Cli_OnLeave(c) ==
  /\ IoReady(c)
  /\ Received(c, "LEAVE")
  /\ s2c' = [s2c EXCEPT ![c] = Tail(@)]
  /\ cursorHidden' = FALSE
  /\ ioPc' = IF ~handshaked[c] THEN At("fail", c)
             ELSE IF ~active[c] THEN Idle
             ELSE At("leave", c)
  /\ UNCHANGED <<started, hookVars, slot, uiPc, history, sessionVars,
                 serverVars, c2s, linkUp>>

Cli_LeaveReturn ==
  /\ ioPc.op = "leave"
  /\ Hook_Cli_ControlReturn
  /\ ioPc' = Idle
  /\ UNCHANGED <<started, currPos, hookSeen, entering, slot, uiPc,
                 cursorHidden, history, sessionVars, serverVars, c2s, s2c,
                 linkUp>>

(* SS_RecvData returns false: the peer closed the connection.  A reset may  *)
(* overtake what the peer had sent before.                                 *)
PeerClosed(c) == linkUp[c] /\ srvState[c] = "closed"

(* SS_OnTimer returns false: nothing was received for NM_KEEPALIVE_TIMEOUT, *)
(* because the network is gone or the server never accepted.               *)
Silent(c) == ~linkUp[c] \/ srvState[c] = "backlog"

Cli_SessionFails(c) ==
  /\ IoReady(c)
  /\ PeerClosed(c) \/ Silent(c)
  /\ ioPc' = At("fail", c)
  /\ UNCHANGED <<started, hookVars, slot, uiPc, cursorHidden, history,
                 sessionVars, serverVars, c2s, s2c, linkUp>>

(* Cli_RemoveServer called by the IO thread.  Once Cli_Stop has cleared the *)
(* flag it does nothing and returns false.                                 *)
IoRemoveServer ==
  /\ ioPc.op = "fail"
  /\ IF started = "started"
     THEN Detach(ioPc.conn) /\ ioPc' = AfterDetach(ioPc.conn)
     ELSE ioPc' = Idle /\ UNCHANGED slot
  /\ UNCHANGED <<started, hookVars, uiPc, cursorHidden, history, sessionVars,
                 serverVars, c2s, s2c, linkUp>>

IoReturn ==
  /\ ioPc.op = "return"
  /\ ReturnOnRemove(ioPc.conn)
  /\ ioPc' = At("close", ioPc.conn)
  /\ UNCHANGED <<started, currPos, hookSeen, entering, slot, uiPc,
                 cursorHidden, sessionVars, serverVars, c2s, s2c, linkUp,
                 outrun>>

IoClose ==
  /\ ioPc.op = "close"
  /\ SS_CloseSession(ioPc.conn)
  /\ ioPc' = Idle
  /\ UNCHANGED <<started, hookVars, slot, uiPc, history, pos, serverVars,
                 c2s, linkUp>>

(***************************************************************************)
(* The hook thread.                                                        *)
(***************************************************************************)
\* Mutant: is_active is not set.
SS_SendEnterMsg_NotActive(c) == PutToServer(c, "ENTER") /\ UNCHANGED active

SS_SendEnterMsg(c) ==
  /\ active' = [active EXCEPT ![c] = TRUE]
  /\ PutToServer(c, "ENTER")

(* The pointer leaves the screen at p, and the handler there says yes.      *)
OnNormalMouseAction(p) ==
  /\ hookState = "NORMAL"
  /\ hookSeen = "none"
  /\ HookLockFree
  /\ slot[p] # NoConn
  /\ handshaked[slot[p]]
  /\ SS_SendEnterMsg(slot[p])
  /\ entering' = p
  /\ UNCHANGED <<started, hookState, currPos, hookSeen, slot, uiPc, ioPc,
                 cursorHidden, history, pos, cliOpen, handshaked, serverVars,
                 s2c, linkUp>>

(* ENTER is in out_buf, and may be answered, before the handler hides the   *)
(* cursor and the callback changes __g_state.                              *)
EnterRemote ==
  /\ ~HookLockFree
  /\ cursorHidden' = TRUE
  /\ outrun' = (outrun \/ ioPc = At("leave", slot[entering]))
  /\ hookState' = "REMOTE"
  /\ currPos' = entering
  /\ entering' = NoPos
  /\ UNCHANGED <<started, hookSeen, slot, uiPc, ioPc, seized, sessionVars,
                 serverVars, c2s, s2c, linkUp>>

(* A callback reads __g_state and lets go of the lock before it acts on it. *)
HookReadsRemote ==
  /\ hookState = "REMOTE"
  /\ hookSeen = "none"
  /\ hookSeen' = "remote"
  /\ UNCHANGED <<entering, started, hookState, currPos, slot, uiPc, ioPc,
                 cursorHidden, history, sessionVars, serverVars, c2s, s2c,
                 linkUp>>

(* on_remote_mouse_action and keyboard_hook_func: the input goes to the     *)
(* session at __g_curr_pos, whatever __g_state is by now.  Nothing is sent  *)
(* when the pointer is wrapped round, the event is not one of those         *)
(* forwarded, or no handshaked session is there.                            *)
OnRemoteInput ==
  /\ hookSeen = "remote"
  /\ hookSeen' = "none"
  /\ \/ UNCHANGED c2s
     \/ LET c == slot[currPos]
        IN  c # NoConn /\ handshaked[c] /\ PutToServer(c, "INPUT")
  /\ UNCHANGED <<entering, started, hookState, currPos, slot, uiPc, ioPc,
                 cursorHidden, history, sessionVars, serverVars, s2c, linkUp>>

(***************************************************************************)
(* The server: one IO thread, one session at a time.                       *)
(***************************************************************************)
Serving(c) == srvState[c] = "served"

Srv_Start(p) ==
  /\ ~srvUp[p]
  /\ srvUp' = [srvUp EXCEPT ![p] = TRUE]
  /\ UNCHANGED <<clientVars, sessionVars, srvState, srvHandshaked, entered,
                 c2s, s2c, linkUp>>

(* The session is closed, and so are connections never accepted.            *)
Srv_Stop(p) ==
  /\ srvUp[p]
  /\ srvUp' = [srvUp EXCEPT ![p] = FALSE]
  /\ srvState' = [c \in Conns |-> IF pos[c] = p THEN "closed" ELSE srvState[c]]
  /\ srvHandshaked' = [c \in Conns |-> srvHandshaked[c] /\ pos[c] # p]
  /\ entered' = [c \in Conns |-> entered[c] /\ pos[c] # p]
  /\ c2s' = [c \in Conns |-> IF pos[c] = p THEN <<>> ELSE c2s[c]]
  /\ UNCHANGED <<clientVars, sessionVars, s2c, linkUp>>

(* accept and SS_OnClientSession.                                           *)
Srv_Accept(c) ==
  /\ srvState[c] = "backlog"
  /\ \A d \in Conns : pos[d] = pos[c] => ~Serving(d)
  /\ srvState' = [srvState EXCEPT ![c] = "served"]
  /\ UNCHANGED <<clientVars, sessionVars, srvUp, srvHandshaked, entered,
                 c2s, s2c, linkUp>>

CloseClientSession(c) ==
  /\ srvState' = [srvState EXCEPT ![c] = "closed"]
  /\ srvHandshaked' = [srvHandshaked EXCEPT ![c] = FALSE]
  /\ entered' = [entered EXCEPT ![c] = FALSE]
  /\ c2s' = [c2s EXCEPT ![c] = <<>>]

(* SS_OnRecvData sees the client's close, SS_OnTimer its silence.           *)
Srv_SessionFails(c) ==
  /\ Serving(c)
  /\ ~cliOpen[c] \/ ~linkUp[c]
  /\ CloseClientSession(c)
  /\ UNCHANGED <<clientVars, sessionVars, srvUp, s2c, linkUp>>

Arrived(c, m) == Serving(c) /\ c2s[c] # <<>> /\ Head(c2s[c]) = m

TakeFromClient(c) == c2s' = [c2s EXCEPT ![c] = Tail(@)]

(* SS_OnPackage returns false: the session is closed.                       *)
Srv_Rejects(c) == CloseClientSession(c) /\ UNCHANGED s2c

\* Mutant: the request type where the reply type belongs.
SS_SendHandShakeReply_WrongType(c) == PutToClient(c, "HANDSHAKE")

SS_SendHandShakeReply(c) == PutToClient(c, "HANDSHAKE_REPLY")

\* Mutant: is_handshaked is not set.
SrvMarkHandshaked_Forgotten(c) == UNCHANGED srvHandshaked

SrvMarkHandshaked(c) == srvHandshaked' = [srvHandshaked EXCEPT ![c] = TRUE]

Srv_OnHandShake(c) ==
  /\ Arrived(c, "HANDSHAKE")
  /\ IF srvHandshaked[c]
     THEN Srv_Rejects(c)
     ELSE /\ TakeFromClient(c)
          /\ SrvMarkHandshaked(c)
          /\ SS_SendHandShakeReply(c)
          /\ UNCHANGED <<srvState, entered>>
  /\ UNCHANGED <<clientVars, sessionVars, srvUp, linkUp>>

(* A second ENTER is reported and then treated like the first.              *)
Srv_OnEnter(c) ==
  /\ Arrived(c, "ENTER")
  /\ IF ~srvHandshaked[c]
     THEN Srv_Rejects(c)
     ELSE /\ TakeFromClient(c)
          /\ entered' = [entered EXCEPT ![c] = TRUE]
          /\ UNCHANGED <<srvState, srvHandshaked, s2c>>
  /\ UNCHANGED <<clientVars, sessionVars, srvUp, linkUp>>

\* Mutants: control is given up without a LEAVE; LEAVE without giving it up.
SS_SendMouseLeave_Silent(c) ==
  entered' = [entered EXCEPT ![c] = FALSE] /\ UNCHANGED s2c

SS_SendMouseLeave_StillEntered(c) == PutToClient(c, "LEAVE") /\ UNCHANGED entered

SS_SendMouseLeave(c) ==
  /\ PutToClient(c, "LEAVE")
  /\ entered' = [entered EXCEPT ![c] = FALSE]

(* Input is injected only while entered.  A mouse move may push the pointer *)
(* out at the edge towards the client, which sends LEAVE; a key never does. *)
Srv_OnInput(c) ==
  /\ Arrived(c, "INPUT")
  /\ IF ~srvHandshaked[c]
     THEN Srv_Rejects(c)
     ELSE /\ TakeFromClient(c)
          /\ \/ UNCHANGED <<s2c, entered>>
             \/ entered[c] /\ Len(s2c[c]) < MaxWire /\ SS_SendMouseLeave(c)
          /\ UNCHANGED <<srvState, srvHandshaked>>
  /\ UNCHANGED <<clientVars, sessionVars, srvUp, linkUp>>

(***************************************************************************)
(* The network stops carrying a connection; neither end is told.           *)
(***************************************************************************)
LinkDown(c) ==
  /\ linkUp[c]
  /\ cliOpen[c] \/ srvState[c] # "closed"
  /\ linkUp' = [linkUp EXCEPT ![c] = FALSE]
  /\ c2s' = [c2s EXCEPT ![c] = <<>>]
  /\ s2c' = [s2c EXCEPT ![c] = <<>>]
  /\ UNCHANGED <<clientVars, sessionVars, serverVars>>
-----------------------------------------------------------------------------
UiStep ==
  \/ Cli_Start \/ Cli_Stop \/ Cli_StopJoined
  \/ \E p \in Positions, c \in Conns : Cli_InsertServer(p, c)
  \/ \E p \in Positions : Cli_RemoveServer(p) \/ Cli_StopDetaches(p)
  \/ Hook_Cli_Stop
  \/ UiReturn \/ UiClose

IoSession(c) ==
  Cli_OnHandShakeReply(c) \/ Cli_OnLeave(c) \/ Cli_SessionFails(c)

IoTail == Cli_LeaveReturn \/ IoRemoveServer \/ IoReturn \/ IoClose

HookStep ==
  \/ \E p \in Positions : OnNormalMouseAction(p)
  \/ EnterRemote
  \/ HookReadsRemote
  \/ OnRemoteInput

SrvStep ==
  \/ \E p \in Positions : Srv_Start(p) \/ Srv_Stop(p)
  \/ \E c \in Conns :
       \/ Srv_Accept(c) \/ Srv_SessionFails(c)
       \/ Srv_OnHandShake(c) \/ Srv_OnEnter(c) \/ Srv_OnInput(c)

Next ==
  \/ UiStep
  \/ \E c \in Conns : IoSession(c)
  \/ IoTail
  \/ HookStep
  \/ SrvStep
  \/ \E c \in Conns : LinkDown(c)

Spec == Init /\ [][Next]_vars

(***************************************************************************)
(* The IO thread visits every session in each round of its loop, so none   *)
(* is passed over for ever; both threads finish a Cli_RemoveServer begun.  *)
(* Cli_Stop finishes as well: the loop ends when it finds the flag cleared, *)
(* a callback comes to its end, and the hook thread then gets to the        *)
(* message that ends it.  Users, servers and the network owe nothing.       *)
(***************************************************************************)
Fairness ==
  /\ \A c \in Conns : SF_vars(IoSession(c))
  /\ WF_vars(IoTail)
  /\ WF_vars(UiReturn)
  /\ WF_vars(UiClose)
  /\ SF_vars(Cli_StopJoined)
  /\ SF_vars(\E p \in Positions : Cli_StopDetaches(p))
  /\ SF_vars(Hook_Cli_Stop)
  /\ WF_vars(EnterRemote) /\ WF_vars(OnRemoteInput)

FairSpec == Spec /\ Fairness
-----------------------------------------------------------------------------
(* Every variable holds a value the code can store in it; in particular     *)
(* each wire carries only messages its reader knows how to handle.         *)
TypeOK ==
  /\ started \in {"stopped", "started", "stopping", "joined"}
  /\ hookState \in {"STOP", "NORMAL", "REMOTE"}
  /\ currPos \in Positions \cup {NoPos}
  /\ hookSeen \in {"none", "remote"}
  /\ entering \in Positions \cup {NoPos}
  /\ slot \in [Positions -> Conns \cup {NoConn}]
  /\ uiPc \in Pc /\ ioPc \in Pc
  /\ cursorHidden \in BOOLEAN /\ seized \in BOOLEAN /\ outrun \in BOOLEAN
  /\ pos \in [Conns -> Positions]
  /\ cliOpen \in [Conns -> BOOLEAN]
  /\ handshaked \in [Conns -> BOOLEAN]
  /\ active \in [Conns -> BOOLEAN]
  /\ srvUp \in [Positions -> BOOLEAN]
  /\ srvState \in [Conns -> {"backlog", "served", "closed"}]
  /\ srvHandshaked \in [Conns -> BOOLEAN]
  /\ entered \in [Conns -> BOOLEAN]
  /\ c2s \in [Conns -> Seq(ToServer)]
  /\ s2c \in [Conns -> Seq(ToClient)]
  /\ linkUp \in [Conns -> BOOLEAN]

(***************************************************************************)
(* Control of a server is a token: an ENTER under way, then is_entered,    *)
(* then a LEAVE under way or being handled.                                *)
(***************************************************************************)
Count(s, m) == Cardinality({i \in 1..Len(s) : s[i] = m})

One(b) == IF b THEN 1 ELSE 0

Tokens(c) == Count(c2s[c], "ENTER") + One(entered[c]) + Count(s2c[c], "LEAVE")
               + One(ioPc = At("leave", c))

(* No honest peer is ever thrown out for breaking the protocol: every check *)
(* of SS_OnPackage and SS_HandleRecvBuffer that ends a session passes.  The *)
(* handshake is the first thing a server gets and comes once, and no LEAVE  *)
(* reaches a session that is not handshaked and active.                     *)
HandshakeOrder ==
  \A c \in Conns :
    /\ Serving(c) /\ c2s[c] # <<>> =>
         (Head(c2s[c]) = "HANDSHAKE" <=> ~srvHandshaked[c])
    /\ Attached(c) /\ s2c[c] # <<>> /\ Head(s2c[c]) = "LEAVE" =>
         handshaked[c] /\ active[c]

(* The input is never swallowed by a server that does not want it: while    *)
(* the hook diverts input to a live session, that server has control, is    *)
(* about to get it, or has sent it back.                                   *)
RemoteHasHolder ==
  \A p \in Positions :
    RemoteAt(p) /\ slot[p] # NoConn /\ Alive(slot[p]) => Tokens(slot[p]) > 0

(* The hook can always be brought back by Cli_RemoveServer: diverted input  *)
(* goes to a session whose is_active makes Cli_RemoveServer call            *)
(* Hook_Cli_ControlReturn, or that call is about to be made, or Cli_Stop is *)
(* past the point from which it stops the hook without waiting for the IO   *)
(* thread.                                                                 *)
RemoteReclaimable ==
  \A p \in Positions :
    RemoteAt(p) =>
      \/ slot[p] # NoConn /\ active[slot[p]]
      \/ \E pc \in {uiPc, ioPc} : pc.op = "return" /\ pos[pc.conn] = p
      \/ started = "joined"

(* Unless a removed session took control away from another one, exactly the *)
(* server the hook points at, or is about to, has the token and has it      *)
(* once, and no other has any: one machine at a time gets input, and a      *)
(* LEAVE hands back what an ENTER gave.                                     *)
TokenConservation ==
  ~seized => \A c \in Conns :
    Attached(c) /\ Alive(c) =>
      Tokens(c) = One(RemoteAt(pos[c]) \/ entering = pos[c])

(* The user of the client is not left without a cursor: when input stays    *)
(* local the cursor is shown, or SS_CloseSession is about to show it.       *)
(* Unless a LEAVE was handled before the callback that sent the ENTER got   *)
(* round to hiding the cursor: nothing shows that cursor again.            *)
LocalCursorVisible ==
  ~seized /\ ~outrun /\ cursorHidden /\ hookState # "REMOTE" =>
    \E pc \in {uiPc, ioPc} : pc.op = "close" /\ active[pc.conn]

(* Diverted input comes back to the client once the server gave it up, went *)
(* away, or fell silent, at the latest when a Cli_Stop has stopped the      *)
(* hook.                                                                   *)
Lost(p) == slot[p] # NoConn /\ (~Alive(slot[p]) \/ Has(s2c[slot[p]], "LEAVE"))

ControlComesBack ==
  \A p \in Positions :
    (RemoteAt(p) /\ Lost(p)) ~> ~RemoteAt(p)
=============================================================================
