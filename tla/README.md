# Verification of multimove

multimove lets the keyboard and mouse of one machine, the *client*, drive up to four others, the
*servers*, placed LEFT, RIGHT, UP and DOWN of its screen. When the pointer leaves the client's screen
on a side where a server is, the client sends ENTER and from then on diverts its input to that
server; when the pointer leaves the server's screen on the facing side, the server sends LEAVE and
the input is local again. The machines share the clipboard's text.

This directory holds TLA+ models of that program, the TLC runs that check them, and theorems about
them that TLAPS proves. The repository has no design document (its `ReadMe.txt` files are generated
by the IDE), so the source, its assertions, its log messages and its comments are the reference.
`PROJECT.json` names, for every definition, the lines of source it stands for.

Run a model with `tlc -config MCHandover.cfg MCHandover`, a proof with `tlapm HandoverProofs.tla`.

## 1. Inventory

| component | source (`src/mmcore/`) | state | operations | status |
|---|---|---|---|---|
| client control | `Client/client.c`, `cli_session.c`, `cli_hook.c` | `__g_is_started`, `__g_ss_set[4]`, `__g_state`, `__g_curr_pos`, per session `is_handshaked`, `is_active` | `Cli_Start/Stop/InsertServer/RemoveServer`, `client_io_thread_func`, the hook callbacks | modelled |
| client locking | same and `cli_wndsrv.c` | `__g_ss_mtx`, two `__g_lock`s, `in_lock`, `out_lock`, handler entries, fd sets | every critical section of four threads | modelled |
| server session | `Server/server.c`, `srv_session.c`, `srv_wndsrv.c` | listening socket, `__g_ss_lock`, `__g_wnd`, one `srvSession_t`, `is_handshaked`, `is_entered` | `Srv_Start/Stop`, port search, accept, handshake, ENTER, input, LEAVE, close | modelled |
| byte buffer | `Common/buffer.c` | block, `read_cur`, `write_cur` | Create, Insert, Erase, Reserve, Clear | modelled |
| send path | `cli_session.c`, `srv_session.c`, `buffer.c` | `out_buf` under two threads | `SS_Send*Msg`, `SS_SendData`, `SS_OnSendData` | modelled |
| receive framing | `cli_session.c`, `srv_session.c` | `in_buf`, `recv_state`, `remain_len` | `SS_RecvData`, `SS_OnRecvData` | modelled |
| message encoding | `NetMsg/netmsg.c`, `Common/byteorder.c` | none | `NM_MsgToBuffer`, `NM_ParseFromBuffer` | modelled |
| clipboard | `cli_wndsrv.c`, `Server/srv_wndsrv.c` | `is_in_setclipboard_mode`, the viewer window's queue | notification, send, set, hand on | modelled |
| keepalive | `SS_OnTimer` at both ends and the loops | `last_*_stamp`, `time_mark` | timer, keepalive, giving up | modelled |
| pointer coordinates | `cli_session.c`, `cli_hook.c`, `srv_session.c` | hidden pointer, screen sizes | edge tests, scaling of ENTER and LEAVE | partly |
| async queue | `Common/thread.c` | data list, wait list, an event per sleeper | Get, Get with timeout, Put, Clear | modelled (unused by both ends) |
| client dialog | `src/tools/MultiMoveClient`, `cli_notify.c` | `m_*_is_connected`, its message queue | connect buttons, `OnNotifyMsg`, quitting | partly |
| sockets | `Common/net.c` | none | connect and accept with a timeout; unused transfers | outcomes only |
| server dialog | `src/tools/MultiMoveServer`, `srv_notify.c` | the client shown, its message queue | start, stop and quit buttons, port fields, notices | partly |
| locks, threads | `Common/thread.c` | Win32 objects | thin wrappers | assumed |
| ini, text, strings | `Common/*.c` | none | file formats | not modelled: no concurrency, no protocol |
| WTL | `src/library/WTL` | | | vendored |

How they interact. The client runs four threads. The UI thread calls `Cli_*`. The IO thread selects
over all sessions, runs their timers, sends and receives. The hook thread runs the low-level mouse
and keyboard callbacks and may call into a session through a handler entry. The window thread
follows the clipboard. They share the sessions through `__g_ss_mtx`, the hook's and the window's
entries through a lock each, and each session's `out_buf` through `out_lock`. The hook's callbacks
do *not* take `__g_ss_mtx`; what keeps a session alive under them is the hook's own lock. The server
runs one IO thread, which holds `__g_ss_lock` while it handles its one client, and a window thread
that takes the same lock; both are started and ended by the dialog's thread, which they tell of
logins and logoffs by posted messages. On the wire, KEEPALIVE and CLIPDATA go both ways, HANDSHAKE, ENTER, MOUSE
and KEYBOARD from client to server, HANDSHAKE_REPLY and LEAVE from server to client.

What is hard here, and what correctness means for each part:

* *Control*: four threads, several servers, and messages that cross on the wire. Input must go to
  exactly one machine, and must come back whatever fails.
* *Locking*: locks nested three deep, one re-entered, a thread joined by another; sessions freed by
  one thread while others have pointers to them.
* *Buffers*: one block, three ways to make room; nothing lost, repeated or written outside; two
  threads at once.
* *Framing and encoding*: any cut of the stream, every length; both ends agree byte for byte.
* *Clipboard*: a flag set by one callback and cleared by another tells one's own change from the
  user's; a text must not go round in a circle.
* *Keepalive*: two timers, polled late, on two clocks; no healthy session is lost, no dead one kept.
* *Async queue*: a Put chooses a sleeper at the moment its time runs out; nothing is lost or given twice.
* *Client dialog*: flags that are told of lost connections by message, late, and by position only.
* *Server start and stop*: a lock that is made and destroyed around two threads that use it; a 16-bit
  port that is counted up; a stop that sends a message to a thread that may wait for the other.
* *Pointer coordinates*: widths, signs and roundings at both ends; a pointer must not bounce.

`PROJECT.json` lists the hazards one by one, each at the line where it bites.

## 2. Modules

`MC<M>.tla` gives finite constants to `<M>.tla`; `<M>Proofs.tla` holds the theorems about it. Two proof
modules are about several: StreamProofs, which follows the bytes from Buffer through NetMsg and
RecvFraming to Crossing, and SharedProofs, about KeepAlive and AsyncQueue. They bring two state machines
into one scope, which is why the definitions of Buffer and KeepAlive carry the module's name
(`BufferInit`, `KeepAliveNext`) where others say `Init` and `Next`.
Definitions keep the names of the functions they stand for. Operators named `X_Something` are
mutants of `X`: a bug someone could have written, which the run's properties must notice.

**Handover** — which machine the input drives. Client: `started`, the hook's `hookState`/`currPos`,
`slot` (`__g_ss_set`), and per connection `cliOpen`, `handshaked`, `active`. Server: `srvState`,
`srvHandshaked`, `entered`. Wires are FIFOs of messages; INPUT stands for MOUSE and KEYBOARD.
Critical sections are atomic where a lock makes them so: a removal is three steps (`uiPc`, `ioPc` =
detach, `Hook_Cli_ControlReturn`, `SS_CloseSession`) because `Cli_RemoveServer` lets go of
`__g_ss_mtx` after the first; `Cli_Stop` clears the flag, joins the IO thread (`Cli_StopJoined`), takes the
sessions' entries away and closes them one by one (`Cli_StopDetaches`, in the order of the positions in the
code and in any order here) and stops the hook (`Hook_Cli_Stop`); a callback decides on a copy of the state (`hookSeen`) because
`cli_hook.c` does; ENTER and the hiding of the cursor are two steps (`entering`) because the LEAVE can
overtake the second. The network may fail at any time; servers start, stop and go away. Two history
variables mark what the code really lets happen, so that the invariants can be stated around it and
not weakened: `seized` (a removal took control from *another* server, see section 4) and
`outrun` (a LEAVE was handled before the callback that sent its ENTER had hidden the cursor, which
then stays hidden).

**ClientLocks** — the same four threads at the level of locks and pointers: `pc`, `held` (re-entry
counts), `cur` (each thread's session pointer), the slot and the two entries, `life` of the session
objects, and the IO thread's fd sets. One position, since the others have entries and sessions of their
own and share the same locks. A read outside a lock (`ReadHandlerUnlocked`, `ReadCtxUnlocked`) is a
step of its own. `select` may run on the handle of a socket closed meanwhile: it fails
(`SelectFails`), or the handle is that of a session made since (`HandleOpen`). A failure ends the
process only with the library's own error function; those of the dialogs take note and the round goes
on with the sets as they were. SelectedHasData is about the write set; a session that is in the read set
by another's handle is really ended.

**BufferOps**, **Buffer**, **ByteQueue** — `cmBuffer_t`. BufferOps has the operations as operators on
a record of block and cursors, with the code's three ways to make room; Buffer is the state machine of
a client of the buffer; ByteQueue is the abstract specification, a queue of bytes. Buffer implements
ByteQueue under `q <- Data(buf)`.

**SendBuffer** — `out_buf` while one thread queues and another sends, one step per statement of
`buffer.c` that touches a shared cursor, heap addresses and freed blocks included; every copy is checked
for leaving its block. Which locks each
thread holds is a constant, so that the same module is the server (both take `out_lock`) and the
client (one takes `out_lock`, the other `in_lock`).

**RecvFraming**, **NetMsg**, **Crossing** — what a session sends and what its peer makes of it. NetMsg
has the encoders and parsers as operators on octet sequences, with their widths, byte order and length
checks. Crossing has the hook's edge tests and the arithmetic of ENTER and LEAVE with the code's
widths, a product of 32 bits that wraps included. RecvFraming is the state machine: `SS_RecvData` and
`SS_OnRecvData`, which are the same code, on top of BufferOps. The bytes that NetMsg writes arrive in
any pieces, `RECHECK_POINT` takes headers and bodies from the front, bodies go to the parsers; foreign
packages, which no encoder wrote, are among them. `Msg` is the set of messages whose fields fit what
travels: 32-bit fields of `nmMsg_t` are cut to 16 bits on the way, a screen or a pointer beyond them would
come out changed. A foreign package announces the length of its body, or one over the limit, behind
which nothing is read; one that lies about its length is another pair of packages. A pointer's level is
compared where it leaves between two corners of a screen that has an extent; on LEAVE the pointer is on
its screen, so that this is no restriction there. External: Windows rounds a point given in 65536ths
of the screen to a pixel, in either direction (`Pixels`).

**ServerThreads** — the server from `Srv_Start` to `Srv_Stop`: the dialog's thread (`ui`), the IO thread
(`io`), the window thread (`wnd`), `__g_ss_lock` (`lockUp`, `owner`), the session they share (`ss`),
the search for a port (`range`, `port`, `bound`), and the notices by which the dialog (`box`) follows
(`said`, `posted`). A failing `bind`, `listen` or window is a choice. The tray's menu posts Stop and Quit
as messages of their own, so that notices may come in behind them and be read when the server is gone; a
Start finds the queue empty, since no notice comes while no server runs.

**Clipboard** — client, servers, their viewer windows. Windows' part (notifications in order, possibly
before `CloseClipboard` returns; sent messages before posted ones; `OpenClipboard` may fail) is
external. Assertions are compiled out, as in a release build. A set that fails before `EmptyClipboard`
changes nothing and leaves the flag up (`SetFails`); one that fails after it has emptied the clipboard,
which is a change like any other and is notified (`SetDone`). What a failed set or an empty text does to
the next copy is in the model and left out of CopyOffered.

**KeepAlive** — both `SS_OnTimer`s in discrete time; ages are what the code gets by subtracting a stamp
from the clock. A loop turn comes at most `Lag` after the last, the timer fires at most once per `Tick`.
A clock may be set forwards, `MaxSteps` times by at most `MaxStep`. A turn that sends takes all that is
queued: the cap on one send is left out, since while bytes remain they keep going out and each is a sign of
life, and a socket that cannot be written counts as the network's delay.

**AsyncQueue**, **AsyncFifo** — `cmAsyncQueue_t`: one spin lock, a list of data, a list of sleeping
threads, and an event for each. What happens under one hold of the lock is one step, except a Put
that serves a sleeper: it stores the item and then sets the event, and the sleeper needs the event but
not the lock (`PutHands`, `PutSignals`). A timeout is two steps, giving up the wait and then taking the
lock (`Expires`, `GivesUp`), between which a Put may choose the thread. AsyncFifo is the abstract
specification: a queue in which each item is put once, and for each caller whether it asks, has got an
item or has timed out.

**ClientDlg** — the client dialog's flag for each position against `__g_ss_set`. The dialog's thread
runs one handler at a time (`ui`); the IO thread takes a failed session out of its slot and posts a
notice (`posted`), inside `__g_ss_mtx` (`io`), and `OnNotifyMsg` works the button of the notice's
position. External: Windows hands out posted messages before input, so that a click finds the message
queue empty; the Quit command of the tray's menu is posted itself and need not.

## 3. Runs

| run | what it shows | states |
|---|---|---|
| `handover` | HandshakeOrder, RemoteHasHolder, RemoteReclaimable, TokenConservation, LocalCursorVisible, over 2 positions and 2 connections | 2.7 M |
| `handover_live` | ControlComesBack: control returns when the server gives it up, dies or falls silent (1 position, 2 connections) | 10 k |
| `client_locks` | NoDeadlock, NoUseAfterFree, EntriesAgree, SelectedHasData, over 2 sessions at one position | 0.68 M |
| `buffer` | BufferTypeOK, AllocFits, CapacityBounded, and Buffer implements ByteQueue | 19 k |
| `send_buffer` | StreamIntact, NoWildAccess, AssertionsHold with the server's locks | 18 k |
| `recv_framing` | TypeOK, MessagesInOrder, Canonical, EndsForCause, EntersBeside, ReturnsBeside, EventuallyDelivered | 0.31 M |
| `clipboard` | CopyOffered, NoEcho, Quiesces, over a client and 2 servers | 0.60 M |
| `keepalive` | NoFalseTimeout, GoneInTime | 1.2 M |
| `async_queue` | AsyncQueue implements AsyncFifo; GetReturns; 3 takers, 3 items | 55 k |
| `client_dlg` | ButtonTruthful, NewcomerSpared, over 3 positions and 4 connections | 23 k |
| `server` | LockUsable, SessionGuarded, PortSaidIsHeld, BoxTruthful, Lifecycle, CallsReturn | 27 k |
| `send_buffer_client` | a counterexample, see section 4 | |

`handover`, `buffer` and `recv_framing` also check the module's type invariant; those of ClientLocks,
KeepAlive, AsyncQueue, ClientDlg, Clipboard and ServerThreads are proved (section 5). Each property has a mutant
in `PROJECT.json` that breaks it.

Bounds, and why they are enough:

* `handover`: two positions so that one session's removal can meet another's control; two connections
  so that a position can be given up and taken again while the old session is still closing.
  `MaxWire = 2` lets an ENTER and an input be under way together, and a second message behind a
  LEAVE or a reply. Connections are interchangeable, hence the symmetry; positions are not permuted.
  `handover_live` has one position (another only adds interleavings to a property about one), and no
  symmetry.
* `client_locks`: two session objects are what it takes to free one and insert another while a thread
  still has a pointer or an fd of the first. There is no counter to bound.
* `buffer`: `INIT_BUF_LEN` is scaled to 2 and strings are one to three bytes, so that all three ways
  of making room, two growths in a row and the reset of an empty buffer happen within `MaxLen` 5.
* `send_buffer`: messages of two fields, a block that one message fills, ten bytes in all: moves,
  growths and resets happen in each half of the other thread's work.
* `recv_framing`: 31 packages, two in a row, so that what is wrong with the first shows in the second,
  in any pieces. Messages of every type, with values at the ends of the 8-, 16- and 32-bit ranges that
  travel and points just outside each edge and corner; foreign bodies too short, too long or of no type;
  lengths 0 and one over the limit, which is scaled to `MaxPackage` 10. `INIT_BUF_LEN` is scaled to 8, so
  that the buffer moves and grows. Three screens, one upright, on either end.
* `clipboard`: three copies, so that a copy can meet another's text and the echo of a third.
* `keepalive`: Timeout 8, Margin 5, Tick 2, Lag 1, delay 1, one clock step of 1. These are the
  tightest constants for which NoFalseTimeout holds: Tick + 2 Lag + delay + step may be at most
  Margin + 1, and with Margin 4 the run fails. The code's values (100000 ms, 2000, 1000) leave some
  1000 ms for two turns of the loop, the network and clock steps together.

* `async_queue`: three takers, so that two are on the wait list when a Put has chosen a third; three
  items, one for each, or one behind two in the queue.
* `client_dlg`: three positions, so that a notice waits behind others; four connections, so that a
  position can be lost and taken again while notices of the others come and go.
* `server`: ports of two bits and fields from 0 to two above the last port, so that the counter wraps and
  a typed number is cut; two clients, so that one can follow another; four unread notices, which is two
  sessions.

`CHECK_DEADLOCK FALSE` is given where a bounded sender stops: `send_buffer`, `send_buffer_client`,
`recv_framing`, `clipboard`, and in `client_dlg`, whose dialog is quit. Everywhere else TLC also
shows that some step is always possible; an aborted process, in ClientLocks, and a dialog that has quit or waits
for a window that was not made, in ServerThreads, count as having one.

Fairness:

* Handover: strong fairness of `IoSession(c)` per connection, since the IO thread visits every session
  in each round of its loop, and weak fairness of the steps that finish a removal a thread has begun.
  A `Cli_Stop` that was called finishes, even if the flag's reader or a callback is busy again and again in
  between (strong fairness of its steps, weak fairness of the callbacks): the loop ends when it finds the
  flag cleared, a callback only waits for locks, and the hook thread then gets to the message that ends it.
  Users, servers and the network owe nothing. `ControlComesBack` has no exemption for a client that is being
  stopped; it rests on a silent peer being noticed,
  which is what KeepAlive's `GoneInTime` bounds.
* RecvFraming: weak fairness of the receiver, which selects again and again.
* AsyncQueue: a Put that holds the spin lock goes on; a thread that sleeps on an event that is set, or
  whose time is up, gets the lock in the end (strong fairness, since others come and go in between).
  Nobody owes a Put.
* ServerThreads: weak fairness of each thread; strong fairness of a thread that waits for `__g_ss_lock`
  and of the WM_CLOSE that waits for the window thread's GetMessage, since the IO thread spends its time
  in `select` and the window thread in GetMessage, and both leave the lock each time. Users, clients
  and the clipboard owe nothing.
* Clipboard: weak fairness of each window's message pump and of each session's receiver.

## 4. Findings

* `send_buffer_client`: the client's `SS_SendData` works on `out_buf` under `in_lock`, its producers
  under `out_lock`. The assertions of `buffer.c` fail. The server takes the right lock, and with it
  the same model passes.

Also met while modelling, and not given a run:

* `Cli_RemoveServer` trusts `is_active`, which a LEAVE never clears. Removing a server
  that gave control back earlier takes the hook out of the remote state while *another* server is
  entered. That one then gets a second ENTER, which `srv_session.c` reports as an error.
  Handover marks it in `seized`.
* `on_remote_mouse_action` reads handler and context of its entry after it has let go of
  the lock, in two reads. A removal in between makes it call `hook_dispatch` with NULL, against the
  assertion at its head; with the context read just before, the session may be freed while in use.
  ClientLocks has both reads (`sendMouse`), and NoUseAfterFree leaves them out.
* `Cli_Stop` clears the flag before it joins the IO thread, whose `Cli_RemoveServer` then meets
  `Com_ASSERT(false)` (client.c:237); in a release build it returns and `Cli_Stop` does the removal.
* A socket put in the fd sets can be closed by the UI thread before `select` runs, which then fails
  (client.c:357) and, with the library's own error function, ends the process. Its number may also have
  been given to a session made since: that one is taken to be readable and is removed. ClientLocks has
  both steps.
* A range of ports whose end is typed above 65535 fails `Com_ASSERT(port_beg <= port_end)` (server.c:99),
  since the dialog orders the two before they are cut to 16 bits; in a release build no port is tried. A search
  up to 65535 in which all ports are taken wraps to port 0 and takes one the system chooses.
* A window that cannot be created ends the window thread without setting the event for which `Srv_Start`
  waits (srv_wndsrv.c:208). ServerThreads has the step, and CallsReturn leaves it out.
* A failing `listen` closes the socket, and the server is started all the same (server.c:161).
* An empty text on the clipboard becomes a message of length 0, against the assertion at
  netmsg.c:222, and the peer's parser ends the session over it. Clipboard has the step.
* Setting the clock back makes an age wrap around (`Elapsed` in KeepAlive), and the session is given up.
* Comments and code differ: the timeout is 100 s and its comment says 10 (netmsg.h:44), the tick is 1 s
  and its comment says 2, a package may be 10 MB and srv_session.h:49 says 1 KB.
* The data of a horizontal wheel message is not copied (cli_hook.c:484).

## 5. Theorems

All are proved for every value of the constants, from the assumptions named in the modules: that null
values are no members of the sets they stand beside, that sizes, times and bounds are natural numbers,
and that `INIT_BUF_LEN`, `Lag` and the last port are positive. RecvFraming assumes that what a peer
sends is in `Msg` and its length in 32 bits, that foreign packages are as described in section 2, and
that a screen is 20 to 32767 pixels wide and high: a narrower one has no point ten pixels inside a side,
and a wider one has no coordinates in 16 bits. `NeverFalseTimeout` and the theorems of SendBufferProofs
have a hypothesis of their own, see below.

**HandoverProofs**

* `TypeCorrect`: `Spec => []TypeOK`, action by action; `ServerFrame` takes care of the server's steps,
  which leave the client's variables alone.
* `HandshakeOrdered`: `Spec => []HandshakeOrder`. The property speaks of the first message of a wire
  only, so it is not inductive. `OrderInv` says for each connection what may be anywhere on the wires:
  before the server has handled the handshake there is at most the handshake (`FirstHandshake`);
  a client that is handshaked, or about to be, has a server that is (`ReplyAfterHandshake`); where
  there is an ENTER, a control or a LEAVE, the session is active (`ActiveBeforeLeave`). The last one
  carries why a LEAVE never finds an inactive session, although the code does not close on it.
* `RemoteAlwaysReclaimable`: `Spec => []RemoteReclaimable`. `ReclaimInv` adds that slots hold open
  sessions of their own position (`SlotsHoldSessions`), that a session being removed is in no slot and
  in one removal only (`RemovalsDetached`), that the IO thread's session stays in its slot while it
  is being handled (`IoHoldsSession`, which is `__g_ss_mtx`), and that ENTER is being sent to a
  session in its slot and active (`EnteringHeld`, which is the hook's lock).

* `RemoteAlwaysHeld` (RemoteHasHolder) and `TokensConserved` (TokenConservation), for every number of servers,
  connections and messages under way. The invariant `TokenInv`
  is both, moved to where each step can be read: a session in its slot that is alive has a token if the
  hook points at it or is about to (`Kept`), and has no more than that, also when its server is out of
  reach (`OnlyOne`, while nothing was `seized`). It needs that a position under removal stays empty
  (`Vacated`) and that ENTER is only sent while the input is local (`EnteringNormal`). The wires are
  counted by `CountAppend` and `CountTail`; a server's step moves the token of one connection (`OneTaken`).
* `CursorComesBack` (LocalCursorVisible): besides, the cursor is shown between the two halves of a LEAVE
  (`LeaveShows`). Only EnterRemote could hide it there, and then there is but one token, so that the
  LEAVE answers the very ENTER being sent (`LeaveOutruns`), which is what `outrun` records. And while
  `Cli_Stop` works its way through the sessions, the one that hid the cursor is still to be closed
  (`StopShows`).

**StreamProofs**, from the buffer's block to the pointer on the screen

* `CursorsInBlock`, `BlockBounded`, `InsertFindsRoom`: from `BufferInv == BufferTypeOK /\ CapacityBounded`,
  which is inductive. The lemmas say of each operator what it does to a buffer's data, its length and the
  room behind `write_cur`.
* `BufferIsQueue`: `Spec => QueueSpec`, the refinement, by `InsertAppends`, `EraseDrops`,
  `ReserveKeeps` and `CreateIsEmpty`.
* `RoundTrip` and `ParsedBack`: parsing undoes encoding for every member of `Msg`, with the length the encoder
  wrote down by hand; and what a parser accepts is in `Msg` and encodes to the body it was read from.
  Below them are the bytes: `High` and `Low` of a word, two's complement (`To16`), 32-bit lengths, and
  which bytes of a body each field takes.
* `FramingTypeCorrect` (TypeOK), `EveryMessageInOrder` (MessagesInOrder), `ParsersAreCanonical` (Canonical),
  `SessionEndsForCause` (EndsForCause), from `FramingInvariant`: for all messages, foreign packages, limits
  and cuts of the stream. None of them is inductive, since a reader that is out of step has done nothing
  wrong yet. `FramingInv` says that it is in step: the packages that have not come out lie one behind the other in
  what is in `in_buf` followed by what is on the wire (`InStep`), from its start, or from four bytes before it
  when a header was taken; and that `remain_len` is then the length of the next body (`Reading`).
  `Follows` says this with the offset of each package, where a definition by recursion over the packages
  could not be reasoned about. The buffer enters by what its operations do to `Data` only (`InsertAppends`,
  `EraseDrops`), so that moves and growths need no argument of their own.
* `PointerEntersBeside` (EntersBeside), `PointerReturnsBeside` (ReturnsBeside): for all screens and both roundings
  of the system. The lengths of both screens are variables, so the proofs reason about products:
  `PixelsNear` puts the pixel next to the exact quotient, `NearFirst` and `NearLast` find the two pixels
  at which an inset of 2 or 10 comes out on any screen, and `SameLevel` adds up what the division by one
  screen, the scaling to the other and the rounding lose, which is at most two pixels.

**ClipboardProofs**

* `EveryCopyIsOffered` (CopyOffered), `NoTextEchoes` (NoEcho), and `ClipboardTypeCorrect`, from
  `ClipboardInvariant`, for any servers, texts and copies. `is_in_setclipboard_mode` is one bit, and the
  notifications it hides carry no name. The invariant keeps the account: the flag is up while a text is
  being set or after a set has failed (`Marked`); a flag that is up otherwise has the window's own
  notification under way, and a user's copy one *besides* (`Owed`), which is why swallowing the first
  one that comes cannot lose a copy; and as long as nobody has copied during a set, a content from the
  network has no notification but the one the flag waits for (`Expected`). `stuck`, the flag that a failed
  set leaves behind, is where this account breaks and a copy is swallowed: the code does that, and the
  property is stated around it.

**SendBufferProofs**

* `MemoryAlwaysSafe`, `AssertionsNeverFail`, `StreamAlwaysIntact`: `LocksMeet => (Spec => []P)` for
  NoWildAccess, AssertionsHold and StreamIntact, where `LocksMeet` says that the two threads have a lock in
  common. The server's do; the client's do not, which is what the run `send_buffer_client` shows. One invariant,
  `SendInv`, carries all three: only one thread is inside (`LocksHeld`), the block has not been given back
  (`Block`), and at each statement of either thread the unsent bytes lie, in order, where that statement
  will look for them (`Queueing`, `Sends`): between the cursors, or at the start of the block while
  these are being set, or in the new block before it is published.

**ClientDlgProofs**

* `DlgTypeCorrect`, `ButtonsTruthful`, `NewcomersSpared`, from one invariant, `DlgInv`. Neither property
  is inductive: a notice in the queue says nothing yet of the flag it will meet. What carries them is
  `PendingMeansEmpty`: from the moment a session leaves its slot until its notice is read, its position
  has no session and no handler is about to give it one. It needs the lock (the IO thread holds it from
  one to the other) and the order of messages, and fails without either. `SessionShown` and
  `LossNoticed` are the two halves of ButtonTruthful while a handler is at work, `FlagDownInHandler`
  keeps the flag and the handler apart.

**ClientLocksProofs** — the invariant goes from the threads' places to the locks, to who may write what,
to the pointers.

* `ClientTypeCorrect`: `PcTyped`, `DataTyped` and `HeldTyped`; `Stops` says how far `Cli_Stop` has got
  and which threads have left.
* `NobodyWaitsForever`: NoDeadlock. `LocksPlaced` says how often each thread has entered each lock at each
  of its places; the order of the locks can be read off it, and with it that no set of threads waits in
  a circle.
* `SessionsOutliveUse` (NoUseAfterFree), `SlotAndEntriesAgree` (EntriesAgree), `SelectedIsFed`
  (SelectedHasData): with `Alone`, two threads are never inside the same lock, so that whoever has taken
  a session out of an entry under its lock finds it alive until the lock is let go.

**SharedProofs**, KeepAlive

* `SilentPeerGoneInTime`: GoneInTime for all times, from `TimerLooks`, the bounds of the ages as of the
  timer's last look.
* `NeverFalseTimeout`: NoFalseTimeout for all times that are `Tuned`: clocks are only set forwards,
  `Margin` is at most `Timeout`, and Tick + 2 Lag + MaxDelay + MaxSteps * MaxStep is at most Margin + 1. `Together`
  follows a keepalive: an end with nothing to send was not due when its timer last looked
  (`Watchful`), what is queued is not older than a turn of the loop, and what is on the wire was sent
  in time (`Hears`). The run's constants meet the bound exactly, and TLC finds a false timeout one beyond.

**SharedProofs**, AsyncQueue

* `QueueTypeCorrect`, `AsyncQueueIsFifo`: the refinement, for any threads and items. `Handing` says that
  only sleepers are on the wait list, that a set event has its item, and that the thread a Put has
  chosen sleeps until its event is set; with it each step is a step of AsyncFifo or a stutter.

**ServerThreadsProofs**

* `ServerTypeCorrect`, `LockAlwaysUsable`, `SessionAlwaysGuarded`, `PortSaidAlwaysHeld`,
  `BoxAlwaysTruthful`, `NothingHalfDone`, from one invariant, `ServerInv`: what of the server there is at each place of
  `Srv_Start` and `Srv_Stop` (`InStep`), who is inside the lock (`OwnerInside`), how far the search has
  come (`Search`), and what the dialog will show (`Shown`).

Only model-checked: liveness everywhere (ControlComesBack, CallsReturn, GetReturns, EventuallyDelivered,
Quiesces), which the prover does not reach. All other properties of the passing runs are theorems.

## 6. Plan

Done, in this order: Handover, ClientLocks, Buffer and its refinement, SendBuffer, RecvFraming with NetMsg
and Crossing, Clipboard, KeepAlive, AsyncQueue and its refinement, ClientDlg, ServerThreads; the proofs of
Handover, Buffer, ClientDlg, ServerThreads, AsyncQueue, KeepAlive, ClientLocks and SendBuffer, of
RecvFraming with NetMsg and Crossing, and of Clipboard.

Left: a specification of a stream of messages that RecvFraming implements, with the proof, so that
Handover's wires, which are FIFOs of messages, rest on it; the hidden pointer's wrap, which needs more of
Windows than the repository says.

## 7. Not modelled

* WTL (`src/library/WTL`) is a vendored library of some 70 000 lines, most of the repository's text, of
  which the dialogs use windows and message maps. It has no part in the protocol.
* `on_remote_mouse_action` keeps the hidden pointer away from the screen's edges. What a low-level hook
  is told of a pointer at an edge is Windows' own, and the repository says nothing of it.
* A key or button held while control changes is released on the other machine only. No code deals with
  it; the models do not follow single keys.
* `Common/net.c`: both ends call only connect and accept with a timeout, whose outcomes are steps of
  Handover, ClientLocks and ServerThreads. The transfers and the address arithmetic have no callers.
* Ini files, text files, strings, logs, the tray icons and the loader: no concurrency and no protocol.
* A clipboard text that the window thread has not read when it stops is leaked, and one that converts to
  nothing is freed twice (cli_wndsrv.c:272): memory inside one function, which the models leave out.
