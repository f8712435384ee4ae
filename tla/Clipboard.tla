------------------------------ MODULE Clipboard ------------------------------
(***************************************************************************)
(* Sharing the clipboard: the window threads of the client and of its      *)
(* servers (src/mmcore/Client/cli_wndsrv.c, Server/srv_wndsrv.c).  Each    *)
(* is a clipboard viewer.  A change it is notified of is sent to the       *)
(* peers, unless is_in_setclipboard_mode says that it is its own doing; a  *)
(* text that arrives is posted to the window, put on the clipboard, and by *)
(* the client handed on to the other servers.                              *)
(*                                                                         *)
(* What Windows does is external: a change is notified to the viewers      *)
(* after the clipboard was closed, in order; a window's own change may be  *)
(* notified before CloseClipboard returns; notifications are sent messages *)
(* and come before posted ones; OpenClipboard can fail.  Sessions are      *)
(* handshaked; which server has the mouse changes at any time (Handover).  *)
(* Com_ASSERT is compiled out, as in the release build.                    *)
(***************************************************************************)
EXTENDS Integers, Sequences

CONSTANTS
  Servers,    \* the connected servers
  Client,
  Texts,      \* texts a user copies
  Blank,      \* an empty text
  Other,      \* content that is not text
  MaxCopies   \* bound: copies the users make

Machines == Servers \cup {Client}
Contents == Texts \cup {Blank, Other}

ASSUME DistinctContents == {Blank, Other} \cap Texts = {} /\ Blank # Other
ASSUME ClientIsNoServer == Client \notin Servers
ASSUME BoundIsNat == MaxCopies \in Nat

VARIABLES
  clip,       \* what each machine's clipboard holds
  notices,    \* WM_DRAWCLIPBOARD notifications under way, per machine
  flag,       \* is_in_setclipboard_mode
  posted,     \* WM_SET_CLIPBOARD_MSG in each window's queue: text, origin
  setting,    \* the pack a window is putting on the clipboard, or <<>>
  toServer, toClient,  \* CLIPDATA messages of each session
  linked,     \* the sessions that are there
  entered,    \* the server that has the mouse, or Client
  copies,     \* bound: copies made so far
  ours,       \* history: "remote", "unsent", "done" or "swallowed" (below)
  stuck,      \* history: the last set failed and left the flag set
  raced,      \* history: a user copied while a text was being set
  echoed      \* history: a text was sent that had come from the network

netVars == <<toServer, toClient, linked>>
windowVars == <<clip, notices, flag, posted, setting>>
historyVars == <<ours, stuck, raced, echoed>>
vars == <<windowVars, netVars, entered, copies, historyVars>>

\* ours[m]: where the content of m's clipboard comes from and, if from m's
\* user, whether it was offered to the peers yet.
Init ==
  /\ clip = [m \in Machines |-> Other]
  /\ notices = [m \in Machines |-> 0]
  /\ flag = [m \in Machines |-> FALSE]
  /\ posted = [m \in Machines |-> <<>>]
  /\ setting = [m \in Machines |-> <<>>]
  /\ toServer = [s \in Servers |-> <<>>]
  /\ toClient = [s \in Servers |-> <<>>]
  /\ linked = Servers
  /\ entered = Client
  /\ copies = 0
  /\ ours = [m \in Machines |-> "remote"]
  /\ stuck = [m \in Machines |-> FALSE]
  /\ raced = FALSE /\ echoed = FALSE

-----------------------------------------------------------------------------
(* The environment.                                                        *)

\* A user copies something on m: the clipboard changes and its viewers will
\* be told.
UserCopies(m, c) ==
  /\ copies < MaxCopies
  /\ copies' = copies + 1
  /\ clip' = [clip EXCEPT ![m] = c]
  /\ notices' = [notices EXCEPT ![m] = @ + 1]
  /\ ours' = [ours EXCEPT ![m] = "unsent"]
  /\ raced' = (raced \/ setting[m] # <<>>)
  /\ UNCHANGED <<flag, posted, setting, netVars, entered, stuck, echoed>>

\* The mouse goes to a server or comes back.
MouseMoves(m) ==
  /\ m \in linked \cup {Client} /\ m # entered
  /\ entered' = m
  /\ UNCHANGED <<windowVars, netVars, copies, historyVars>>

-----------------------------------------------------------------------------
(* The window threads.                                                     *)

\* NM_MSG_CLIPDATA queued for the servers in S.
SendToServers(S, text) ==
  toServer' = [s \in Servers |->
                 IF s \in S \cap linked THEN Append(toServer[s], text)
                 ELSE toServer[s]]

\* The handlers of __on_clipboard_changed: the client's send to every
\* server (hook_dispatch), a server's to the client if the mouse is there
\* (__on_window_notify).
Announce(m, text) ==
  IF m = Client
  THEN SendToServers(Servers, text) /\ UNCHANGED toClient
  ELSE /\ toClient' = IF m \in linked /\ entered = m
                      THEN [toClient EXCEPT ![m] = Append(@, text)]
                      ELSE toClient
       /\ UNCHANGED toServer

\* __on_clipboard_changed; a clipboard that cannot be opened, or holds no
\* text, is not announced.
OnClipboardChanged(m) ==
  \/ /\ clip[m] # Other
     /\ Announce(m, clip[m])
     /\ ours' = [ours EXCEPT ![m] = IF @ = "remote" THEN @ ELSE "done"]
     /\ echoed' = (echoed \/ ours[m] = "remote")
  \/ /\ ours' = [ours EXCEPT ![m] = IF @ = "remote" THEN @ ELSE "done"]
     /\ UNCHANGED <<toServer, toClient, echoed>>

\* Mutant: the flag is not taken back.
IgnoreNotice_FlagStays(m) ==
  /\ setting[m] = <<>> /\ notices[m] > 0 /\ flag[m]
  /\ notices' = [notices EXCEPT ![m] = @ - 1]
  /\ ours' = [ours EXCEPT ![m] = IF stuck[m] /\ @ = "unsent"
                                 THEN "swallowed" ELSE @]
  /\ stuck' = [stuck EXCEPT ![m] = FALSE]
  /\ UNCHANGED <<clip, flag, posted, setting, netVars, entered, copies, raced,
                 echoed>>

\* WM_DRAWCLIPBOARD while the flag is set: taken for the window's own.
IgnoreNotice(m) ==
  /\ setting[m] = <<>> /\ notices[m] > 0 /\ flag[m]
  /\ notices' = [notices EXCEPT ![m] = @ - 1]
  /\ flag' = [flag EXCEPT ![m] = FALSE]
  /\ ours' = [ours EXCEPT ![m] = IF stuck[m] /\ @ = "unsent"
                                 THEN "swallowed" ELSE @]
  /\ stuck' = [stuck EXCEPT ![m] = FALSE]
  /\ UNCHANGED <<clip, posted, setting, netVars, entered, copies, raced,
                 echoed>>

\* WM_DRAWCLIPBOARD otherwise.
HandleNotice(m) ==
  /\ setting[m] = <<>> /\ notices[m] > 0 /\ ~flag[m]
  /\ notices' = [notices EXCEPT ![m] = @ - 1]
  /\ OnClipboardChanged(m)
  /\ UNCHANGED <<clip, flag, posted, setting, linked, entered, copies, stuck,
                 raced>>

\* Mutant: the window does not mark the change as its own.
BeginSet_NoFlag(m) ==
  /\ setting[m] = <<>> /\ notices[m] = 0 /\ posted[m] # <<>>
  /\ setting' = [setting EXCEPT ![m] = Head(posted[m])]
  /\ posted' = [posted EXCEPT ![m] = Tail(@)]
  /\ UNCHANGED <<clip, notices, flag, netVars, entered, copies, historyVars>>

\* WM_SET_CLIPBOARD_MSG: the flag is set before the attempt.
BeginSet(m) ==
  /\ setting[m] = <<>> /\ notices[m] = 0 /\ posted[m] # <<>>
  /\ setting' = [setting EXCEPT ![m] = Head(posted[m])]
  /\ posted' = [posted EXCEPT ![m] = Tail(@)]
  /\ flag' = [flag EXCEPT ![m] = TRUE]
  /\ UNCHANGED <<clip, notices, netVars, entered, copies, historyVars>>

\* After the attempt the client hands the text on, whatever came of it, to
\* the servers it did not come from.
HandOn(m) ==
  IF m = Client
  THEN SendToServers(Servers \ {setting[m].from}, setting[m].text)
  ELSE UNCHANGED toServer

\* __set_clipboard_data changes the clipboard; its notification comes before
\* CloseClipboard returns, or later.  What fails after EmptyClipboard (the
\* conversion, the memory) leaves no text there, and is a change all the same.
SetDone(m) ==
  /\ setting[m] # <<>>
  /\ \E c \in {setting[m].text, Other} : clip' = [clip EXCEPT ![m] = c]
  /\ ours' = [ours EXCEPT ![m] = "remote"]
  /\ stuck' = [stuck EXCEPT ![m] = FALSE]
  /\ \/ flag' = [flag EXCEPT ![m] = FALSE] /\ UNCHANGED notices
     \/ notices' = [notices EXCEPT ![m] = @ + 1] /\ UNCHANGED flag
  /\ HandOn(m)
  /\ setting' = [setting EXCEPT ![m] = <<>>]
  /\ UNCHANGED <<posted, toClient, linked, entered, copies, raced, echoed>>

\* Mutant: a window whose set failed posts itself the text to try again.
SetFails_Retries(m) ==
  /\ setting[m] # <<>>
  /\ stuck' = [stuck EXCEPT ![m] = TRUE]
  /\ posted' = [posted EXCEPT ![m] = Append(@, setting[m])]
  /\ setting' = [setting EXCEPT ![m] = <<>>]
  /\ UNCHANGED <<clip, notices, flag, netVars, entered, copies, ours, raced,
                 echoed>>

\* __set_clipboard_data fails before it has emptied the clipboard (another
\* program has it open): no notification will follow, the flag stays.
SetFails(m) ==
  /\ setting[m] # <<>>
  /\ stuck' = [stuck EXCEPT ![m] = TRUE]
  /\ HandOn(m)
  /\ setting' = [setting EXCEPT ![m] = <<>>]
  /\ UNCHANGED <<clip, notices, flag, posted, toClient, linked, entered,
                 copies, ours, raced, echoed>>

-----------------------------------------------------------------------------
(* The sessions.                                                           *)

\* The parser refuses a CLIPDATA without data (parse_clipdata wants a type
\* and at least one byte), and the session is closed.
CloseSession(s) ==
  /\ linked' = linked \ {s}
  /\ toServer' = [toServer EXCEPT ![s] = <<>>]
  /\ toClient' = [toClient EXCEPT ![s] = <<>>]
  /\ entered' = IF entered = s THEN Client ELSE entered
  /\ UNCHANGED posted

\* SS_OnPackage, NM_MSG_CLIPDATA: WND_Srv_SetClipboardData posts the text.
ServerReceives(s) ==
  /\ s \in linked /\ toServer[s] # <<>>
  /\ \/ /\ Head(toServer[s]) = Blank
        /\ CloseSession(s)
     \/ /\ Head(toServer[s]) # Blank
        /\ toServer' = [toServer EXCEPT ![s] = Tail(@)]
        /\ posted' = [posted EXCEPT ![s] =
                        Append(@, [text |-> Head(toServer[s]), from |-> Client])]
        /\ UNCHANGED <<toClient, linked, entered>>
  /\ UNCHANGED <<clip, notices, flag, setting, copies, historyVars>>

\* SS_HandleRecvBuffer, NM_MSG_CLIPDATA: WND_Cli_SetClipboardData.
ClientReceives(s) ==
  /\ s \in linked /\ toClient[s] # <<>>
  /\ \/ /\ Head(toClient[s]) = Blank
        /\ CloseSession(s)
     \/ /\ Head(toClient[s]) # Blank
        /\ toClient' = [toClient EXCEPT ![s] = Tail(@)]
        /\ posted' = [posted EXCEPT ![Client] =
                        Append(@, [text |-> Head(toClient[s]), from |-> s])]
        /\ UNCHANGED <<toServer, linked, entered>>
  /\ UNCHANGED <<clip, notices, flag, setting, copies, historyVars>>

-----------------------------------------------------------------------------
Window(m) ==
  IgnoreNotice(m) \/ HandleNotice(m) \/ BeginSet(m) \/ SetDone(m) \/ SetFails(m)

Session(s) == ServerReceives(s) \/ ClientReceives(s)

Next ==
  \/ \E m \in Machines : MouseMoves(m) \/ Window(m)
  \/ \E m \in Machines, c \in Contents : UserCopies(m, c)
  \/ \E s \in Servers : Session(s)

Spec == Init /\ [][Next]_vars

\* The window threads pump their messages and the I/O threads their sockets.
Fairness ==
  /\ \A m \in Machines : WF_vars(Window(m))
  /\ \A s \in Servers : WF_vars(ServerReceives(s)) /\ WF_vars(ClientReceives(s))

FairSpec == Spec /\ Fairness

-----------------------------------------------------------------------------
(* Properties.                                                             *)

Pack == [text : Texts, from : Machines]

TypeOK ==
  /\ clip \in [Machines -> Contents]
  /\ notices \in [Machines -> Nat]
  /\ flag \in [Machines -> BOOLEAN] /\ stuck \in [Machines -> BOOLEAN]
  /\ posted \in [Machines -> Seq(Pack)]
  /\ setting \in [Machines -> Pack \cup {<<>>}]
  /\ toServer \in [Servers -> Seq(Texts \cup {Blank})]
  /\ toClient \in [Servers -> Seq(Texts \cup {Blank})]
  /\ linked \subseteq Servers /\ entered \in linked \cup {Client}
  /\ copies \in 0..MaxCopies
  /\ ours \in [Machines -> {"remote", "unsent", "done", "swallowed"}]
  /\ raced \in BOOLEAN /\ echoed \in BOOLEAN

\* What a user copied last on a machine, and no arriving text replaced, has
\* gone through __on_clipboard_changed once the notifications are handled:
\* the flag only ever hides the window's own change, except after a failed
\* set, whose flag nothing takes back until the next copy is lost to it.
CopyOffered ==
  \A m \in Machines :
    setting[m] = <<>> /\ notices[m] = 0 => ours[m] # "unsent"

\* A text that came from the network is not sent out again as if the user
\* had copied it, unless a user copied while it was being set.
NoEcho == echoed => raced

\* Copying cannot set off an endless exchange: once the users stop, the
\* traffic ends, with every text delivered or its session closed.
Quiet ==
  /\ \A m \in Machines : notices[m] = 0 /\ posted[m] = <<>> /\ setting[m] = <<>>
  /\ \A s \in linked : toServer[s] = <<>> /\ toClient[s] = <<>>
Quiesces == <>[]Quiet
=============================================================================
