----------------------------- MODULE ClientDlg -----------------------------
(***************************************************************************)
(* The client's dialog (src/tools/MultiMoveClient/MultiMoveClientDlg.cpp)  *)
(* and its idea of which positions are connected.  The core never tells it *)
(* directly: a connection that fails is taken out of its slot by the IO    *)
(* thread, which then posts a notice to the dialog's message queue, and    *)
(* the handler of the notice works the same button the user does.          *)
(*                                                                         *)
(* Two threads: the dialog's own and the IO thread, which is in            *)
(* __g_ss_mtx from the detaching of a session to its notice.  A message    *)
(* box is a message loop too, so a handler that ends in one is the idle    *)
(* dialog here; notices other than DISCONNECTED only write the log.        *)
(* ClientLocks has the critical sections that are one step here.           *)
(***************************************************************************)
EXTENDS Naturals, Sequences

CONSTANTS
  Positions,    \* the positions that have a button
  MaxConnects   \* bound: connections made

ASSUME BoundIsNat == MaxConnects \in Nat
ASSUME NoneIsNoPosition == "none" \notin Positions

VARIABLES
  flag,      \* m_up_is_connected and its like
  slot,      \* __g_ss_set: the number of the session at each position, or 0
  posted,    \* WM_NOTIFYMSG messages for DISCONNECTED, the oldest first
  ui,        \* what the dialog's thread is doing
  io,        \* what the IO thread has detached and not closed yet
  started,   \* __g_is_started
  made       \* history: connections made, which also numbers the sessions

vars == <<flag, slot, posted, ui, io, started, made>>

Sessions == 1..MaxConnects
Notice(p, s) == [pos |-> p, ss |-> s]
Nothing == Notice("none", 0)

\* at: the statement; pos, ss: the position and the session in hand; why: who
\* set the handler going.
Doing(at, p, s, why) == [at |-> at, pos |-> p, ss |-> s, why |-> why]
Statements == {"idle", "insert", "inserted", "remove", "close", "quit", "join", "over"}
Idle == Doing("idle", "none", 0, "none")
Quitting == Doing("quit", "none", 0, "none")

Init ==
  /\ flag = [p \in Positions |-> FALSE]
  /\ slot = [p \in Positions |-> 0]
  /\ posted = <<>>
  /\ ui = Idle
  /\ io = Nothing
  /\ started = TRUE
  /\ made = 0

\* Mutant: the IO thread lets go of the lock before it closes.
LockFree_Always == TRUE

LockFree == io = Nothing

\* A notice about p waits in the message queue.
Posted(p) == \E i \in DOMAIN posted : posted[i].pos = p

\* Windows hands out posted messages before the user's input.
InputIsNext == ui = Idle /\ posted = <<>>

Back(why) == IF why = "quit" THEN Quitting ELSE Idle

-----------------------------------------------------------------------------
(* OnBnClickedButton*Connect, with the flag down: Cli_InsertServer.        *)

\* The slot is looked at and the server answers.  Otherwise, or if the address
\* is mistyped, a message box is all that comes of the click.
Connects(p) ==
  /\ InputIsNext /\ ~flag[p] /\ LockFree
  /\ slot[p] = 0 /\ made < MaxConnects
  /\ made' = made + 1
  /\ ui' = Doing("insert", p, made + 1, "click")
  /\ UNCHANGED <<flag, slot, posted, io, started>>

Inserts ==
  /\ ui.at = "insert" /\ LockFree
  /\ slot' = [slot EXCEPT ![ui.pos] = ui.ss]
  /\ ui' = Doing("inserted", ui.pos, 0, ui.why)
  /\ UNCHANGED <<flag, posted, io, started, made>>

ShowsConnected ==
  /\ ui.at = "inserted"
  /\ flag' = [flag EXCEPT ![ui.pos] = TRUE]
  /\ ui' = Idle
  /\ UNCHANGED <<slot, posted, io, started, made>>

-----------------------------------------------------------------------------
(* The same with the flag up: Cli_RemoveServer.                            *)

Disconnect(p, why) ==
  /\ flag[p]
  /\ flag' = [flag EXCEPT ![p] = FALSE]
  /\ ui' = Doing("remove", p, 0, why)

ClicksDisconnect(p) ==
  /\ InputIsNext
  /\ Disconnect(p, "click")
  /\ UNCHANGED <<slot, posted, io, started, made>>

\* The IO thread may have been faster.
Detaches ==
  /\ ui.at = "remove" /\ LockFree
  /\ slot' = [slot EXCEPT ![ui.pos] = 0]
  /\ ui' = IF slot[ui.pos] = 0 THEN Back(ui.why)
           ELSE Doing("close", ui.pos, slot[ui.pos], ui.why)
  /\ UNCHANGED <<flag, posted, io, started, made>>

Closes ==
  /\ ui.at = "close"
  /\ posted' = Append(posted, Notice(ui.pos, ui.ss))
  /\ ui' = Back(ui.why)
  /\ UNCHANGED <<flag, slot, io, started, made>>

-----------------------------------------------------------------------------
(* The IO thread: a session fails.  It is in the lock until it has closed. *)

IoDetaches(p) ==
  /\ started /\ LockFree /\ slot[p] # 0
  /\ io' = Notice(p, slot[p])
  /\ slot' = [slot EXCEPT ![p] = 0]
  /\ UNCHANGED <<flag, posted, ui, started, made>>

\* Mutant: SS_CloseSession notifies nobody.
IoCloses_Silent ==
  /\ io # Nothing
  /\ io' = Nothing
  /\ UNCHANGED <<flag, slot, posted, ui, started, made>>

IoCloses ==
  /\ io # Nothing
  /\ posted' = Append(posted, io)
  /\ io' = Nothing
  /\ UNCHANGED <<flag, slot, ui, started, made>>

-----------------------------------------------------------------------------
(* OnNotifyMsg.  The message names the position, not the session.          *)

OnNotifyMsg ==
  /\ ui = Idle /\ posted # <<>>
  /\ posted' = Tail(posted)
  /\ LET p == Head(posted).pos
     IN  IF flag[p] THEN Disconnect(p, "notice") ELSE UNCHANGED <<flag, ui>>
  /\ UNCHANGED <<slot, io, started, made>>

-----------------------------------------------------------------------------
(* OnBnClickedButtonQuit and OnNcDestroy.                                  *)

\* The tray's menu posts this command, so notices may still wait behind it.
OnBnClickedButtonQuit ==
  /\ ui = Idle
  /\ ui' = Quitting
  /\ UNCHANGED <<flag, slot, posted, io, started, made>>

\* Up, down, left and right in this order; nothing depends on it.
QuitDisconnects(p) ==
  /\ ui = Quitting
  /\ Disconnect(p, "quit")
  /\ UNCHANGED <<slot, posted, io, started, made>>

Cli_Stop ==
  /\ ui = Quitting /\ \A p \in Positions : ~flag[p]
  /\ started' = FALSE
  /\ ui' = Doing("join", "none", 0, "none")
  /\ UNCHANGED <<flag, slot, posted, io, made>>

\* The IO thread has ended; Cli_Stop closes what is left.  The window is
\* gone, and with it the messages.
Cli_StopJoined ==
  /\ ui.at = "join" /\ io = Nothing
  /\ slot' = [p \in Positions |-> 0]
  /\ posted' = <<>>
  /\ ui' = Doing("over", "none", 0, "none")
  /\ UNCHANGED <<flag, io, started, made>>

-----------------------------------------------------------------------------
Next ==
  \/ \E p \in Positions :
       \/ Connects(p) \/ ClicksDisconnect(p)
       \/ QuitDisconnects(p)
       \/ IoDetaches(p)
  \/ Inserts \/ ShowsConnected
  \/ Detaches \/ Closes
  \/ IoCloses
  \/ OnNotifyMsg
  \/ OnBnClickedButtonQuit \/ Cli_Stop \/ Cli_StopJoined

Spec == Init /\ [][Next]_vars

-----------------------------------------------------------------------------
(* Properties.                                                             *)

\* The dialog's thread has a session in its hands exactly where the code
\* dereferences one.
TypeOK ==
  /\ flag \in [Positions -> BOOLEAN]
  /\ slot \in [Positions -> {0} \cup Sessions]
  /\ posted \in Seq([pos : Positions, ss : Sessions])
  /\ io \in [pos : Positions, ss : Sessions] \cup {Nothing}
  /\ ui \in [at : Statements, pos : Positions \cup {"none"},
             ss : {0} \cup Sessions, why : {"none", "click", "notice", "quit"}]
  /\ ui.pos \in Positions <=> ui.at \in {"insert", "inserted", "remove", "close"}
  /\ ui.ss \in Sessions <=> ui.at \in {"insert", "close"}
  /\ started \in BOOLEAN
  /\ made \in 0..MaxConnects

\* Between messages each button tells the truth: a position that has a session
\* offers to disconnect it, and one that has lost its session has a notice
\* under way that will say so.
ButtonTruthful ==
  ui = Idle =>
    \A p \in Positions :
      /\ slot[p] # 0 => flag[p]
      /\ flag[p] /\ slot[p] = 0 => io.pos = p \/ Posted(p)

\* A notice names a position, and by the time it is read the position may have
\* another session: the disconnecting it sets off never finds one.
NewcomerSpared == ui.at = "remove" /\ ui.why = "notice" => slot[ui.pos] = 0
=============================================================================
