--------------------------- MODULE ServerThreads ---------------------------
(***************************************************************************)
(* The server's three threads from Srv_Start to Srv_Stop.                  *)
(*                                                                         *)
(* The dialog's thread (src/tools/MultiMoveServer/MultiMoveServerDlg.cpp)  *)
(* runs Srv_Start, which looks for a free port, initialises __g_ss_lock,   *)
(* starts the window thread and then the IO thread                         *)
(* (src/mmcore/Server/server.c), and Srv_Stop, which ends them in that     *)
(* order.  The window thread (srv_wndsrv.c) takes the lock to send the     *)
(* clipboard to the session, which the IO thread makes, uses and frees     *)
(* under it.  What happens to the session is told to the dialog by posted  *)
(* messages (srv_notify.c).                                                *)
(*                                                                         *)
(* What a session receives and sends is the subject of Handover and        *)
(* Clipboard.  The early failures of Srv_Start, no socket and no such      *)
(* address, change nothing and are left out.                               *)
(***************************************************************************)
EXTENDS Naturals, Sequences

CONSTANTS
  MaxPort,     \* 65535: a port is a uint_16_t
  Typed,       \* the numbers in the dialog's two fields, 32 bits wide
  Clients,     \* the addresses clients connect from
  NoClient,    \* NULL
  MaxPosted    \* bound: notices the dialog has not read

ASSUME PortsAssumption == MaxPort \in Nat \ {0} /\ Typed \subseteq Nat
ASSUME ClientsAssumption == NoClient \notin Clients /\ MaxPosted \in Nat

Ports == 0..MaxPort
Ephemeral == MaxPort + 1   \* a port the system has chosen
NoPort == MaxPort + 2
To16(v) == v % (MaxPort + 1)

VARIABLES
  ui, io, wnd,  \* where each thread is
  quitting,     \* Srv_Stop is called by OnBnClickedButtonQuit
  range,        \* port_beg and port_end of the last Srv_Start
  port,         \* its loop's counter
  bound,        \* the port the listening socket has
  said,         \* the port of the last SRV_NOTIFY_ON_LISTEN
  started,      \* __g_is_started
  lockUp,       \* __g_ss_lock is initialised
  owner,        \* the thread that has entered it
  ss,           \* __g_ss: the client whose session it is
  window,       \* __g_wnd is not NULL
  event,        \* the event WND_Srv_Start waits for
  posted,       \* LOGIN (a client) and LOGOFF (none) the dialog has not read
  box           \* the client the dialog shows

search == <<range, port, said>>
lock == <<lockUp, owner>>
dialog == <<posted, box>>
vars == <<ui, io, wnd, quitting, search, bound, started, lock, ss, window,
          event, dialog>>

Init ==
  /\ ui = "idle" /\ io = "none" /\ wnd = "none"
  /\ quitting = FALSE
  /\ range = [beg |-> 0, end |-> MaxPort] /\ port = 0 /\ said = 0
  /\ bound = NoPort
  /\ started = FALSE
  /\ lockUp = FALSE /\ owner = "nobody"
  /\ ss = NoClient
  /\ window = FALSE /\ event = FALSE
  /\ posted = <<>> /\ box = NoClient

\* Windows hands out posted messages before the user's input, a click or the
\* choice of Start in the tray's menu.  While no server runs no notice comes.
InputIsNext == ui = "idle" /\ posted = <<>>

Larger(m, n) == IF m >= n THEN m ELSE n

-----------------------------------------------------------------------------
(* Srv_Start, on the dialog's thread.                                      *)

\* The fields are put in order before they are cut to 16 bits.
OnBnClickedButtonSrvstart(beg, end) ==
  /\ InputIsNext /\ ~started
  /\ range' = [beg |-> To16(beg), end |-> To16(Larger(beg, end))]
  /\ port' = To16(beg)
  /\ ui' = "bind"
  /\ UNCHANGED <<io, wnd, quitting, said, bound, started, lock, ss, window,
                 event, dialog>>

\* Mutant: the loop counts on after the bind that succeeds.
BindSucceeds_NoBreak ==
  /\ ui = "bind" /\ port <= range.end
  /\ bound' = IF port = 0 THEN Ephemeral ELSE port
  /\ port' = To16(port + 1)
  /\ ui' = "listen"
  /\ UNCHANGED <<io, wnd, quitting, range, said, started, lock, ss, window,
                 event, dialog>>

\* Port 0 lets the system choose.
BindSucceeds ==
  /\ ui = "bind" /\ port <= range.end
  /\ bound' = IF port = 0 THEN Ephemeral ELSE port
  /\ ui' = "listen"
  /\ UNCHANGED <<io, wnd, quitting, search, started, lock, ss, window, event,
                 dialog>>

\* WSAEADDRINUSE, which port 0 never meets; ++port wraps.
BindInUse ==
  /\ ui = "bind" /\ port <= range.end /\ port # 0
  /\ port' = To16(port + 1)
  /\ UNCHANGED <<ui, io, wnd, quitting, range, bound, said, started, lock, ss,
                 window, event, dialog>>

\* Another error, or no port left: the socket is closed.
BindFails ==
  /\ ui = "bind"
  /\ ui' = "idle"
  /\ UNCHANGED <<io, wnd, quitting, search, bound, started, lock, ss, window,
                 event, dialog>>

\* A listen that fails closes the socket, and Srv_Start goes on.
Listen ==
  /\ ui = "listen"
  /\ bound' \in {bound, NoPort}
  /\ said' = port
  /\ ui' = "initLock"
  /\ UNCHANGED <<io, wnd, quitting, range, port, started, lock, ss, window,
                 event, dialog>>

InitLock ==
  /\ ui = "initLock"
  /\ lockUp' = TRUE
  /\ ss' = NoClient
  /\ ui' = "startWnd"
  /\ UNCHANGED <<io, wnd, quitting, search, bound, started, owner, window,
                 event, dialog>>

\* WND_Srv_Start; when there is a window already, Srv_Start gives up.
WND_Srv_Start ==
  /\ ui = "startWnd"
  /\ IF window
     THEN /\ ui' = "idle" /\ lockUp' = FALSE /\ bound' = NoPort
          /\ UNCHANGED wnd
     ELSE /\ ui' = "waitEvent" /\ wnd' = "create"
          /\ UNCHANGED <<lockUp, bound>>
  /\ UNCHANGED <<io, quitting, search, started, owner, ss, window, event,
                 dialog>>

WaitEvent ==
  /\ ui = "waitEvent" /\ event
  /\ event' = FALSE
  /\ ui' = "startIo"
  /\ UNCHANGED <<io, wnd, quitting, search, bound, started, lock, ss, window,
                 dialog>>

StartIo ==
  /\ ui = "startIo"
  /\ started' = TRUE
  /\ io' = "top"
  /\ ui' = "idle"
  /\ UNCHANGED <<wnd, quitting, search, bound, lock, ss, window, event, dialog>>

-----------------------------------------------------------------------------
(* Srv_Stop, and the dialog's other handlers.                              *)

\* The tray's menu posts its commands (TrackPopupMenu), so that notices may
\* have come in behind Stop or Quit.
OnBnClickedButtonSrvstop ==
  /\ ui = "idle" /\ started
  /\ ui' = "closeWnd"
  /\ UNCHANGED <<io, wnd, quitting, search, bound, started, lock, ss, window,
                 event, dialog>>

OnBnClickedButtonQuit ==
  /\ ui = "idle"
  /\ quitting' = TRUE
  /\ ui' = IF started THEN "closeWnd" ELSE "over"
  /\ UNCHANGED <<io, wnd, search, bound, started, lock, ss, window, event,
                 dialog>>

\* SendMessage: the window thread handles WM_CLOSE when it is in GetMessage,
\* destroys the window, and its loop ends.
WindowCloses ==
  /\ ui = "closeWnd" /\ wnd = "idle"
  /\ wnd' = "exited"
  /\ ui' = "joinWnd"
  /\ UNCHANGED <<io, quitting, search, bound, started, lock, ss, window, event,
                 dialog>>

\* Mutant: WND_Srv_Stop forgets to clear __g_wnd.
JoinWnd_Kept ==
  /\ ui = "joinWnd" /\ wnd = "exited"
  /\ wnd' = "none"
  /\ ui' = "clear"
  /\ UNCHANGED <<io, quitting, search, bound, started, lock, ss, window, event,
                 dialog>>

JoinWnd ==
  /\ ui = "joinWnd" /\ wnd = "exited"
  /\ wnd' = "none"
  /\ window' = FALSE
  /\ ui' = "clear"
  /\ UNCHANGED <<io, quitting, search, bound, started, lock, ss, event, dialog>>

ClearStarted ==
  /\ ui = "clear"
  /\ started' = FALSE
  /\ ui' = "joinIo"
  /\ UNCHANGED <<io, wnd, quitting, search, bound, lock, ss, window, event,
                 dialog>>

\* Mutant: the IO thread is not waited for.
JoinIo_NotJoined ==
  /\ ui = "joinIo"
  /\ bound' = NoPort
  /\ lockUp' = FALSE
  /\ ss' = NoClient
  /\ ui' = IF quitting THEN "over" ELSE "idle"
  /\ UNCHANGED <<io, wnd, quitting, search, started, owner, window, event,
                 dialog>>

JoinIo ==
  /\ ui = "joinIo" /\ io = "exited"
  /\ io' = "none"
  /\ bound' = NoPort
  /\ lockUp' = FALSE
  /\ ss' = NoClient
  /\ ui' = IF quitting THEN "over" ELSE "idle"
  /\ UNCHANGED <<wnd, quitting, search, started, owner, window, event, dialog>>

OnNotifyMsg ==
  /\ ui = "idle" /\ posted # <<>>
  /\ box' = Head(posted)
  /\ posted' = Tail(posted)
  /\ UNCHANGED <<ui, io, wnd, quitting, search, bound, started, lock, ss,
                 window, event>>

-----------------------------------------------------------------------------
(* The window thread.                                                      *)

\* WM_CREATE: SetClipboardViewer sends WM_DRAWCLIPBOARD at once, which takes
\* the lock if the clipboard holds text.
CreateWindow ==
  /\ wnd = "create"
  /\ window' = TRUE
  /\ wnd' \in {"lock", "created"}
  /\ UNCHANGED <<ui, io, quitting, search, bound, started, lock, ss, event,
                 dialog>>

\* The thread ends without setting the event.
CreateWindowFails ==
  /\ wnd = "create"
  /\ wnd' = "failed"
  /\ UNCHANGED <<ui, io, quitting, search, bound, started, lock, ss, window,
                 event, dialog>>

SetEvent ==
  /\ wnd = "created"
  /\ event' = TRUE
  /\ wnd' = "idle"
  /\ UNCHANGED <<ui, io, quitting, search, bound, started, lock, ss, window,
                 dialog>>

OnClipboardChanged ==
  /\ wnd = "idle"
  /\ wnd' = "lock"
  /\ UNCHANGED <<ui, io, quitting, search, bound, started, lock, ss, window,
                 event, dialog>>

\* Mutant: __on_window_notify does not lock.
WndLocks_Not ==
  /\ wnd = "lock"
  /\ wnd' = "send"
  /\ UNCHANGED <<ui, io, quitting, search, bound, started, lock, ss, window,
                 event, dialog>>

WndLocks ==
  /\ wnd = "lock" /\ owner = "nobody"
  /\ owner' = "wnd"
  /\ wnd' = "send"
  /\ UNCHANGED <<ui, io, quitting, search, bound, started, lockUp, ss, window,
                 event, dialog>>

\* The window is still being made.
Creating == ui = "waitEvent" /\ ~event

\* Mutant: the lock is not left when there is no session.
WndSends_KeepsLock ==
  /\ wnd = "send"
  /\ owner' = IF ss = NoClient THEN owner ELSE "nobody"
  /\ wnd' = IF Creating THEN "created" ELSE "idle"
  /\ UNCHANGED <<ui, io, quitting, search, bound, started, lockUp, ss, window,
                 event, dialog>>

\* __on_window_notify: the session, if there is one, gets the text.
WndSends ==
  /\ wnd = "send"
  /\ owner' = "nobody"
  /\ wnd' = IF Creating THEN "created" ELSE "idle"
  /\ UNCHANGED <<ui, io, quitting, search, bound, started, lockUp, ss, window,
                 event, dialog>>

-----------------------------------------------------------------------------
(* The IO thread.                                                          *)

\* Com_accpet_timeout; when it returns nothing the loop goes round.
Accept ==
  /\ io = "top" /\ started /\ bound # NoPort
  /\ Len(posted) + 2 <= MaxPosted
  /\ io' = "login"
  /\ UNCHANGED <<ui, wnd, quitting, search, bound, started, lock, ss, window,
                 event, dialog>>

IoEnds ==
  /\ io = "top" /\ ~started
  /\ io' = "exited"
  /\ UNCHANGED <<ui, wnd, quitting, search, bound, started, lock, ss, window,
                 event, dialog>>

\* Where the thread locks, and what it does inside.
Inside ==
  [login |-> "loggingIn", build |-> "building", select |-> "handling",
   close |-> "closing"]

IoLocks ==
  /\ io \in DOMAIN Inside /\ owner = "nobody"
  /\ owner' = "io"
  /\ io' = Inside[io]
  /\ UNCHANGED <<ui, wnd, quitting, search, bound, started, lockUp, ss, window,
                 event, dialog>>

SS_OnClientSession(c) ==
  /\ io = "loggingIn"
  /\ ss' = c
  /\ posted' = Append(posted, c)
  /\ owner' = "nobody"
  /\ io' = "loop"
  /\ UNCHANGED <<ui, wnd, quitting, search, bound, started, lockUp, window,
                 event, box>>

LoopTest ==
  /\ io = "loop"
  /\ io' = IF started THEN "build" ELSE "close"
  /\ UNCHANGED <<ui, wnd, quitting, search, bound, started, lock, ss, window,
                 event, dialog>>

\* The fd sets; select waits without the lock.
BuildSets ==
  /\ io = "building"
  /\ owner' = "nobody"
  /\ io' = "select"
  /\ UNCHANGED <<ui, wnd, quitting, search, bound, started, lockUp, ss, window,
                 event, dialog>>

\* Timer, receiving and sending: all is well, or the session is over.
Handle ==
  /\ io = "handling"
  /\ owner' = "nobody"
  /\ io' \in {"loop", "close"}
  /\ UNCHANGED <<ui, wnd, quitting, search, bound, started, lockUp, ss, window,
                 event, dialog>>

\* Mutant: nobody is told.
SS_CloseClientSession_Silent ==
  /\ io = "closing"
  /\ ss' = NoClient
  /\ owner' = "nobody"
  /\ io' = "top"
  /\ UNCHANGED <<ui, wnd, quitting, search, bound, started, lockUp, window,
                 event, dialog>>

SS_CloseClientSession ==
  /\ io = "closing"
  /\ posted' = Append(posted, NoClient)
  /\ ss' = NoClient
  /\ owner' = "nobody"
  /\ io' = "top"
  /\ UNCHANGED <<ui, wnd, quitting, search, bound, started, lockUp, window,
                 event, box>>

-----------------------------------------------------------------------------
UserClicks ==
  \/ \E beg, end \in Typed : OnBnClickedButtonSrvstart(beg, end)
  \/ OnBnClickedButtonSrvstop \/ OnBnClickedButtonQuit

UiStep ==
  \/ BindSucceeds \/ BindInUse \/ BindFails \/ Listen \/ InitLock
  \/ WND_Srv_Start \/ WaitEvent \/ StartIo
  \/ JoinWnd \/ ClearStarted \/ JoinIo
  \/ OnNotifyMsg

WndStep == CreateWindow \/ CreateWindowFails \/ SetEvent \/ WndSends

IoStep ==
  \/ IoEnds \/ (\E c \in Clients : SS_OnClientSession(c))
  \/ LoopTest \/ BuildSets \/ Handle \/ SS_CloseClientSession

\* The program has ended, or the dialog waits for a window there will not be.
Stopped == (ui = "over" \/ wnd = "failed") /\ UNCHANGED vars

Next ==
  \/ UserClicks \/ UiStep
  \/ WindowCloses \/ OnClipboardChanged \/ WndLocks \/ WndStep
  \/ Accept \/ IoLocks \/ IoStep
  \/ Stopped

Spec == Init /\ [][Next]_vars

\* Each thread runs; a thread that waits for the lock gets in at last, since
\* the other one spends its time in select or in GetMessage; and so does a
\* message sent to a window thread that returns to GetMessage.
FairSpec ==
  /\ Spec
  /\ WF_vars(UiStep) /\ WF_vars(WndStep) /\ WF_vars(IoStep)
  /\ SF_vars(WndLocks) /\ SF_vars(IoLocks) /\ SF_vars(WindowCloses)

-----------------------------------------------------------------------------
(* Properties.                                                             *)

IoInside == {"loggingIn", "building", "handling", "closing"}
InSession == {"loop", "build", "building", "select", "handling", "close", "closing"}

TypeOK ==
  /\ ui \in {"idle", "bind", "listen", "initLock", "startWnd", "waitEvent",
             "startIo", "closeWnd", "joinWnd", "clear", "joinIo", "over"}
  /\ io \in {"none", "top", "login", "loggingIn", "exited"} \cup InSession
  /\ wnd \in {"none", "create", "created", "failed", "idle", "lock", "send", "exited"}
  /\ quitting \in BOOLEAN
  /\ range \in [beg : Ports, end : Ports]
  /\ port \in Ports /\ said \in Ports
  /\ bound \in Ports \cup {Ephemeral, NoPort}
  /\ started \in BOOLEAN /\ lockUp \in BOOLEAN
  /\ owner \in {"nobody", "wnd", "io"}
  /\ ss \in Clients \cup {NoClient} /\ box \in Clients \cup {NoClient}
  /\ window \in BOOLEAN /\ event \in BOOLEAN
  /\ posted \in Seq(Clients \cup {NoClient})

\* No thread enters, holds or leaves __g_ss_lock before it is initialised or
\* after Srv_Stop has destroyed it: not the window thread, which takes it
\* while its window is being made, nor the IO thread, which takes it to close
\* the session of a server that is being stopped.
LockUsable ==
  io \in DOMAIN Inside \cup IoInside \/ wnd \in {"lock", "send"} => lockUp

\* One thread at a time has the session in hand; it is there as long as the
\* IO thread works on it, and none is there when a new one is made: the
\* assertions on __g_ss at the two ends of handle_client_control.
SessionGuarded ==
  /\ ~(io \in IoInside /\ wnd = "send")
  /\ io \in InSession => ss # NoClient
  /\ io \notin InSession => ss = NoClient

\* The port the dialog is told is in the range asked for and is the one the
\* socket has; or it is told 0, and the system has chosen, which happens only
\* when 0 was asked for or the search ran over the last port there is.
PortSaidIsHeld ==
  started /\ bound # NoPort =>
    \/ said = bound /\ said \in range.beg..range.end
    \/ /\ said = 0 /\ bound = Ephemeral
       /\ range.beg = 0 \/ range.end = MaxPort

\* What the dialog shows, once it has read its messages, is who is connected.
ToBeShown == IF posted = <<>> THEN box ELSE posted[Len(posted)]
BoxTruthful == owner # "io" => ToBeShown = ss

\* Between calls a server is wholly there or wholly gone, however its start
\* failed and however it was stopped.
Lifecycle ==
  ui \in {"idle", "over"} =>
    IF started
    THEN lockUp /\ window /\ wnd \in {"idle", "lock", "send"} /\ io # "none" /\ io # "exited"
    ELSE ~lockUp /\ ~window /\ wnd = "none" /\ io = "none" /\ bound = NoPort /\ ss = NoClient

\* Srv_Start and Srv_Stop come back, unless the window could not be made:
\* the search for a port ends, and nobody waits for a thread that waits for
\* the lock of another.
CallsReturn ==
  ui \notin {"idle", "over"} ~> ui \in {"idle", "over"} \/ wnd = "failed"
=============================================================================
