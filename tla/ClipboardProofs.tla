-------------------------- MODULE ClipboardProofs --------------------------
(***************************************************************************)
(* Theorems about the shared clipboard, for any set of servers and texts   *)
(* and any number of copies: what a user copies is offered to the peers,   *)
(* and what came from the network is not sent out again as a copy of the   *)
(* user's.                                                                 *)
(*                                                                         *)
(* Both are about the same book-keeping: is_in_setclipboard_mode is one    *)
(* bit, the notifications it is meant to hide are counted by Windows and   *)
(* carry no name.  The invariant says what the bit owes: while it is set,  *)
(* the window is putting a text on the clipboard, or a set has failed, or  *)
(* a notification that is the window's own is under way; and a copy of the *)
(* user's has one besides.                                                 *)
(***************************************************************************)
EXTENDS Clipboard, SequenceTheorems, TLAPS

\* The flag is set while a text is being set, and after a set has failed.
Marked ==
  \A m \in Machines :
    /\ setting[m] # <<>> => flag[m]
    /\ stuck[m] => flag[m]

\* A copy that was not offered yet has its notification under way; a flag
\* that waits for the window's own has that one under way as well.
Owed ==
  \A m \in Machines :
    /\ ours[m] = "unsent" => notices[m] >= 1
    /\ flag[m] /\ ~stuck[m] /\ setting[m] = <<>> =>
         /\ notices[m] >= 1
         /\ ours[m] = "unsent" => notices[m] >= 2

\* As long as nobody copied while a text was being set, the only
\* notification of a content that came from the network is the one the flag
\* waits for.
Expected ==
  ~raced =>
    /\ ~echoed
    /\ \A m \in Machines :
         /\ setting[m] # <<>> => notices[m] = 0
         /\ ours[m] = "remote" /\ setting[m] = <<>> =>
              notices[m] = 0 \/ (notices[m] = 1 /\ flag[m])

ClipboardInv == TypeOK /\ Marked /\ Owed /\ Expected

-----------------------------------------------------------------------------
(* Types.                                                                  *)

\* A window that is putting a text on the clipboard is told from one that
\* is not.
LEMMA PackIsNotEmpty ==
  ASSUME NEW p \in Pack
  PROVE  p # <<>>
  <1>1. DOMAIN p = {"text", "from"}
    BY DEF Pack
  <1>2. DOMAIN <<>> = {}
    OBVIOUS
  <1> QED BY <1>1, <1>2

\* A message taken from a session's queue is one that may be there, and so
\* is what remains.
LEMMA TakeFirst ==
  ASSUME NEW S, NEW q \in Seq(S), q # <<>>
  PROVE  Head(q) \in S /\ Tail(q) \in Seq(S)
  BY HeadTailProperties

LEMMA PutLast ==
  ASSUME NEW S, NEW q \in Seq(S), NEW e \in S
  PROVE  Append(q, e) \in Seq(S)
  BY AppendProperties

\* Texts queued for servers.
LEMMA SendKeepsType ==
  ASSUME TypeOK, NEW S, NEW text \in Texts \cup {Blank}, SendToServers(S, text)
  PROVE  toServer' \in [Servers -> Seq(Texts \cup {Blank})]
  <1> DEFINE Queues == Seq(Texts \cup {Blank})
  <1>1. toServer \in [Servers -> Queues]
    BY DEF TypeOK
  <1>2. ASSUME NEW s \in Servers
        PROVE  Append(toServer[s], text) \in Queues /\ toServer[s] \in Queues
    <2>1. toServer[s] \in Queues
      BY <1>1
    <2> QED BY <2>1, PutLast, Zenon
  <1> HIDE DEF Queues
  <1>3. toServer' = [s \in Servers |-> IF s \in S \cap linked
                       THEN Append(toServer[s], text) ELSE toServer[s]]
    BY DEF SendToServers
  <1>4. toServer' \in [Servers -> Queues]
    BY <1>2, <1>3
  <1> QED BY <1>4 DEF Queues

LEMMA HandOnKeepsType ==
  ASSUME TypeOK, NEW m \in Machines, setting[m] # <<>>, HandOn(m)
  PROVE  toServer' \in [Servers -> Seq(Texts \cup {Blank})]
  <1>1. setting[m].text \in Texts \cup {Blank}
    BY DEF TypeOK, Pack
  <1>2. CASE m = Client
    <2>1. SendToServers(Servers \ {setting[m].from}, setting[m].text)
      BY <1>2 DEF HandOn
    <2> QED BY <1>1, <2>1, SendKeepsType, Zenon
  <1>3. CASE m # Client
    BY <1>3 DEF HandOn, TypeOK
  <1> QED BY <1>2, <1>3

LEMMA AnnounceKeepsType ==
  ASSUME TypeOK, NEW m \in Machines, NEW text \in Texts \cup {Blank},
         Announce(m, text)
  PROVE  /\ toServer' \in [Servers -> Seq(Texts \cup {Blank})]
         /\ toClient' \in [Servers -> Seq(Texts \cup {Blank})]
  <1> DEFINE Queues == Seq(Texts \cup {Blank})
  <1>1. toServer \in [Servers -> Queues] /\ toClient \in [Servers -> Queues]
    BY DEF TypeOK
  <1>2. CASE m = Client
    <2>1. SendToServers(Servers, text) /\ toClient' = toClient
      BY <1>2 DEF Announce
    <2> QED BY <1>1, <2>1, SendKeepsType, Zenon
  <1>3. CASE m # Client
    <2>1. m \in Servers
      BY <1>3 DEF Machines
    <2>2. toClient[m] \in Queues
      BY <1>1, <2>1
    <2>3. Append(toClient[m], text) \in Queues
      BY <2>2, PutLast, Zenon
    <2> HIDE DEF Queues
    <2>4. /\ toServer' = toServer
          /\ \/ toClient' = toClient
             \/ toClient' = [toClient EXCEPT ![m] = Append(@, text)]
      BY <1>3 DEF Announce
    <2>5. toClient' \in [Servers -> Queues]
      BY <1>1, <2>3, <2>4
    <2> QED BY <1>1, <2>4, <2>5 DEF Queues
  <1> QED BY <1>2, <1>3

\* A session that is closed has nothing under way.
LEMMA CloseKeepsType ==
  ASSUME TypeOK, NEW s \in Servers, CloseSession(s)
  PROVE  /\ toServer' \in [Servers -> Seq(Texts \cup {Blank})]
         /\ toClient' \in [Servers -> Seq(Texts \cup {Blank})]
         /\ linked' \subseteq Servers /\ entered' \in linked' \cup {Client}
         /\ posted' = posted
  <1> DEFINE Queues == Seq(Texts \cup {Blank})
  <1>1. toServer \in [Servers -> Queues] /\ toClient \in [Servers -> Queues]
        /\ linked \subseteq Servers /\ entered \in linked \cup {Client}
    BY DEF TypeOK
  <1>2. <<>> \in Queues
    OBVIOUS
  <1> HIDE DEF Queues
  <1>3. /\ toServer' \in [Servers -> Queues] /\ toClient' \in [Servers -> Queues]
        /\ linked' \subseteq Servers /\ entered' \in linked' \cup {Client}
        /\ posted' = posted
    BY <1>1, <1>2 DEF CloseSession
  <1> QED BY <1>3 DEF Queues

LEMMA TypeInit ==
  ASSUME Init
  PROVE  TypeOK
  <1>1. Client \in Machines /\ Other \in Contents /\ MaxCopies \in Nat
        /\ Servers \subseteq Machines
    BY BoundIsNat DEF Machines, Contents
  <1>2. /\ <<>> \in Seq(Pack) /\ <<>> \in Pack \cup {<<>>}
        /\ <<>> \in Seq(Texts \cup {Blank})
    OBVIOUS
  <1>3. \A T : \A e \in T : /\ [m \in Machines |-> e] \in [Machines -> T]
                          /\ [s \in Servers |-> e] \in [Servers -> T]
    OBVIOUS
  <1>4. /\ clip \in [Machines -> Contents] /\ notices \in [Machines -> Nat]
        /\ flag \in [Machines -> BOOLEAN] /\ stuck \in [Machines -> BOOLEAN]
        /\ ours \in [Machines -> {"remote", "unsent", "done", "swallowed"}]
    <2>1. /\ 0 \in Nat /\ FALSE \in BOOLEAN
          /\ "remote" \in {"remote", "unsent", "done", "swallowed"}
      OBVIOUS
    <2> QED BY <1>1, <1>3, <2>1, Zenon DEF Init
  <1>5. /\ posted \in [Machines -> Seq(Pack)]
        /\ setting \in [Machines -> Pack \cup {<<>>}]
        /\ toServer \in [Servers -> Seq(Texts \cup {Blank})]
        /\ toClient \in [Servers -> Seq(Texts \cup {Blank})]
    BY <1>2, <1>3, Zenon DEF Init
  <1>6. /\ linked \subseteq Servers /\ entered \in linked \cup {Client}
        /\ copies \in 0..MaxCopies /\ raced \in BOOLEAN /\ echoed \in BOOLEAN
    <2>1. linked = Servers /\ entered = Client /\ copies = 0
      BY DEF Init
    <2>2. raced \in BOOLEAN /\ echoed \in BOOLEAN
      BY Zenon DEF Init
    <2> QED BY <1>1, <2>1, <2>2
  <1> QED BY <1>4, <1>5, <1>6 DEF TypeOK

\* A window's step.
LEMMA TypeWindow ==
  ASSUME TypeOK, NEW m \in Machines, Window(m)
  PROVE  TypeOK'
  <1>1. clip[m] \in Contents /\ notices[m] \in Nat /\ posted[m] \in Seq(Pack)
    BY DEF TypeOK
  <1>2. CASE IgnoreNotice(m)
    <2>1. notices[m] - 1 \in Nat
      BY <1>1, <1>2 DEF IgnoreNotice
    <2>2. notices' \in [Machines -> Nat]
      BY <1>2, <2>1 DEF TypeOK, IgnoreNotice
    <2>3. /\ flag' \in [Machines -> BOOLEAN] /\ stuck' \in [Machines -> BOOLEAN]
          /\ ours' \in [Machines -> {"remote", "unsent", "done", "swallowed"}]
      BY <1>2 DEF TypeOK, IgnoreNotice
    <2> QED BY <1>2, <2>2, <2>3 DEF TypeOK, IgnoreNotice, netVars
  <1>3. CASE HandleNotice(m)
    <2>1. notices[m] - 1 \in Nat
      BY <1>1, <1>3 DEF HandleNotice
    <2>2. notices' \in [Machines -> Nat]
      BY <1>3, <2>1 DEF TypeOK, HandleNotice
    <2>3. OnClipboardChanged(m)
      BY <1>3 DEF HandleNotice
    <2>4. /\ toServer' \in [Servers -> Seq(Texts \cup {Blank})]
          /\ toClient' \in [Servers -> Seq(Texts \cup {Blank})]
      <3>1. CASE clip[m] # Other /\ Announce(m, clip[m])
        <4>1. clip[m] \in Texts \cup {Blank}
          BY <1>1, <3>1 DEF Contents
        <4> QED BY <3>1, <4>1, AnnounceKeepsType, Zenon
      <3>2. CASE UNCHANGED <<toServer, toClient>>
        BY <3>2 DEF TypeOK
      <3> QED BY <2>3, <3>1, <3>2 DEF OnClipboardChanged
    <2>5. /\ ours' \in [Machines -> {"remote", "unsent", "done", "swallowed"}]
          /\ echoed' \in BOOLEAN
      BY <2>3 DEF OnClipboardChanged, TypeOK
    <2> QED BY <1>3, <2>2, <2>4, <2>5 DEF TypeOK, HandleNotice
  <1>4. CASE BeginSet(m)
    <2>1. Head(posted[m]) \in Pack /\ Tail(posted[m]) \in Seq(Pack)
      <3>1. posted[m] # <<>>
        BY <1>4 DEF BeginSet
      <3> QED BY <1>1, <3>1, TakeFirst, Zenon
    <2>2. setting' \in [Machines -> Pack \cup {<<>>}]
      BY <1>4, <2>1 DEF TypeOK, BeginSet
    <2>3. posted' \in [Machines -> Seq(Pack)] /\ flag' \in [Machines -> BOOLEAN]
      BY <1>4, <2>1 DEF TypeOK, BeginSet
    <2> QED BY <1>4, <2>2, <2>3 DEF TypeOK, BeginSet, netVars, historyVars
  <1>5. CASE SetDone(m)
    <2>1. setting[m] \in Pack
      BY <1>5 DEF TypeOK, SetDone
    <2>2. setting[m].text \in Contents
      BY <2>1 DEF Pack, Contents
    <2>3. toServer' \in [Servers -> Seq(Texts \cup {Blank})]
      BY <1>5, HandOnKeepsType DEF SetDone
    <2>4. /\ clip' \in [Machines -> Contents]
          /\ setting' \in [Machines -> Pack \cup {<<>>}]
      <3>1. PICK c \in Contents : clip' = [clip EXCEPT ![m] = c]
        <4>1. {setting[m].text, Other} \subseteq Contents
          BY <2>2 DEF Contents
        <4> QED BY <1>5, <4>1 DEF SetDone
      <3>2. clip' \in [Machines -> Contents]
        BY <3>1 DEF TypeOK
      <3>3. setting' \in [Machines -> Pack \cup {<<>>}]
        BY <1>5 DEF TypeOK, SetDone
      <3> QED BY <3>2, <3>3
    <2>5. /\ notices' \in [Machines -> Nat] /\ flag' \in [Machines -> BOOLEAN]
          /\ stuck' \in [Machines -> BOOLEAN]
          /\ ours' \in [Machines -> {"remote", "unsent", "done", "swallowed"}]
      <3>1. notices[m] + 1 \in Nat
        BY <1>1
      <3>2. notices' \in [Machines -> Nat]
        BY <1>5, <3>1 DEF TypeOK, SetDone
      <3>3. flag' \in [Machines -> BOOLEAN] /\ stuck' \in [Machines -> BOOLEAN]
        BY <1>5 DEF TypeOK, SetDone
      <3>4. ours' \in [Machines -> {"remote", "unsent", "done", "swallowed"}]
        BY <1>5 DEF TypeOK, SetDone
      <3> QED BY <3>2, <3>3, <3>4
    <2> QED BY <1>5, <2>3, <2>4, <2>5 DEF TypeOK, SetDone
  <1>6. CASE SetFails(m)
    <2>1. toServer' \in [Servers -> Seq(Texts \cup {Blank})]
      BY <1>6, HandOnKeepsType DEF SetFails
    <2>2. /\ setting' \in [Machines -> Pack \cup {<<>>}]
          /\ stuck' \in [Machines -> BOOLEAN]
      BY <1>6 DEF TypeOK, SetFails
    <2> QED BY <1>6, <2>1, <2>2 DEF TypeOK, SetFails
  <1> QED BY <1>2, <1>3, <1>4, <1>5, <1>6 DEF Window

\* A message that arrives.
LEMMA TypeSession ==
  ASSUME TypeOK, NEW s \in Servers, Session(s)
  PROVE  TypeOK'
  <1>1. s \in Machines /\ Client \in Machines /\ posted[s] \in Seq(Pack)
        /\ posted[Client] \in Seq(Pack)
        /\ toServer[s] \in Seq(Texts \cup {Blank})
        /\ toClient[s] \in Seq(Texts \cup {Blank})
    BY DEF Machines, TypeOK
  <1>2. CASE ServerReceives(s)
    <2>1. Head(toServer[s]) \in Texts \cup {Blank}
          /\ Tail(toServer[s]) \in Seq(Texts \cup {Blank})
      <3>1. toServer[s] # <<>>
        BY <1>2 DEF ServerReceives
      <3> QED BY <1>1, <3>1, TakeFirst, Zenon
    <2>2. CASE CloseSession(s)
      BY <1>2, <2>2, CloseKeepsType DEF ServerReceives, TypeOK, historyVars
    <2>3. CASE ~CloseSession(s)
      <3> DEFINE pack == [text |-> Head(toServer[s]), from |-> Client]
      <3>1. /\ Head(toServer[s]) # Blank
            /\ toServer' = [toServer EXCEPT ![s] = Tail(@)]
            /\ posted' = [posted EXCEPT ![s] = Append(@, pack)]
            /\ UNCHANGED <<toClient, linked, entered>>
        BY <1>2, <2>3 DEF ServerReceives
      <3>2. pack \in Pack
        BY <1>1, <2>1, <3>1 DEF Pack
      <3> HIDE DEF pack
      <3>3. Append(posted[s], pack) \in Seq(Pack)
        BY <1>1, <3>2, PutLast, Zenon
      <3>4. posted' \in [Machines -> Seq(Pack)]
        BY <3>1, <3>3 DEF TypeOK
      <3>5. toServer' \in [Servers -> Seq(Texts \cup {Blank})]
        BY <2>1, <3>1 DEF TypeOK
      <3> QED BY <1>2, <3>1, <3>4, <3>5 DEF ServerReceives, TypeOK, historyVars
    <2> QED BY <2>2, <2>3
  <1>3. CASE ClientReceives(s)
    <2>1. Head(toClient[s]) \in Texts \cup {Blank}
          /\ Tail(toClient[s]) \in Seq(Texts \cup {Blank})
      <3>1. toClient[s] # <<>>
        BY <1>3 DEF ClientReceives
      <3> QED BY <1>1, <3>1, TakeFirst, Zenon
    <2>2. CASE CloseSession(s)
      BY <1>3, <2>2, CloseKeepsType DEF ClientReceives, TypeOK, historyVars
    <2>3. CASE ~CloseSession(s)
      <3> DEFINE pack == [text |-> Head(toClient[s]), from |-> s]
      <3>1. /\ Head(toClient[s]) # Blank
            /\ toClient' = [toClient EXCEPT ![s] = Tail(@)]
            /\ posted' = [posted EXCEPT ![Client] = Append(@, pack)]
            /\ UNCHANGED <<toServer, linked, entered>>
        BY <1>3, <2>3 DEF ClientReceives
      <3>2. pack \in Pack
        BY <1>1, <2>1, <3>1 DEF Pack
      <3> HIDE DEF pack
      <3>3. Append(posted[Client], pack) \in Seq(Pack)
        BY <1>1, <3>2, PutLast, Zenon
      <3>4. posted' \in [Machines -> Seq(Pack)]
        BY <3>1, <3>3 DEF TypeOK
      <3>5. toClient' \in [Servers -> Seq(Texts \cup {Blank})]
        BY <2>1, <3>1 DEF TypeOK
      <3> QED BY <1>3, <3>1, <3>4, <3>5 DEF ClientReceives, TypeOK, historyVars
    <2> QED BY <2>2, <2>3
  <1> QED BY <1>2, <1>3 DEF Session

LEMMA TypeNext ==
  ASSUME TypeOK, [Next]_vars
  PROVE  TypeOK'
  <1>1. CASE \E m \in Machines : Window(m)
    BY <1>1, TypeWindow
  <1>2. CASE \E s \in Servers : Session(s)
    BY <1>2, TypeSession
  <1>3. ASSUME NEW m \in Machines, MouseMoves(m)
        PROVE  TypeOK'
    BY <1>3 DEF MouseMoves, TypeOK, windowVars, netVars, historyVars
  <1>4. ASSUME NEW m \in Machines, NEW c \in Contents, UserCopies(m, c)
        PROVE  TypeOK'
    <2>1. notices[m] + 1 \in Nat /\ copies + 1 \in 0..MaxCopies
      BY <1>4, BoundIsNat DEF TypeOK, UserCopies
    <2>2. /\ clip' \in [Machines -> Contents] /\ notices' \in [Machines -> Nat]
          /\ copies' \in 0..MaxCopies /\ raced' \in BOOLEAN
          /\ ours' \in [Machines -> {"remote", "unsent", "done", "swallowed"}]
      BY <1>4, <2>1 DEF TypeOK, UserCopies
    <2> QED BY <1>4, <2>2 DEF UserCopies, TypeOK, netVars
  <1>5. CASE UNCHANGED vars
    BY <1>5 DEF TypeOK, vars, windowVars, netVars, historyVars
  <1> QED BY <1>1, <1>2, <1>3, <1>4, <1>5 DEF Next

-----------------------------------------------------------------------------
(* The flag and the notifications.                                         *)

\* What the invariant says of one machine, so that a step need only look at
\* the machine it is a step of.
Accounts(m) ==
  /\ setting[m] # <<>> => flag[m]
  /\ stuck[m] => flag[m]
  /\ ours[m] = "unsent" => notices[m] >= 1
  /\ flag[m] /\ ~stuck[m] /\ setting[m] = <<>> =>
       /\ notices[m] >= 1
       /\ ours[m] = "unsent" => notices[m] >= 2

LEMMA AccountsKept ==
  ASSUME NEW n \in Machines, Accounts(n),
         UNCHANGED <<setting[n], flag[n], stuck[n], ours[n], notices[n]>>
  PROVE  Accounts(n)'
  BY DEF Accounts

LEMMA AccountsWindow ==
  ASSUME TypeOK, NEW m \in Machines, Window(m), NEW n \in Machines,
         Accounts(n)
  PROVE  Accounts(n)'
  <1>1. notices[n] \in Nat /\ flag[n] \in BOOLEAN /\ stuck[n] \in BOOLEAN
    BY DEF TypeOK
  <1>2. CASE n # m
    <2>1. UNCHANGED <<setting[n], flag[n], stuck[n], ours[n], notices[n]>>
      BY <1>2 DEF Window, IgnoreNotice, HandleNotice, OnClipboardChanged,
                  BeginSet, SetDone, SetFails, TypeOK, historyVars
    <2> QED BY <2>1, AccountsKept
  <1>3. CASE n = m
    <2>1. CASE IgnoreNotice(m)
      <3>1. /\ setting[n] = <<>> /\ flag[n] /\ notices[n] > 0
            /\ setting'[n] = <<>> /\ flag'[n] = FALSE /\ stuck'[n] = FALSE
            /\ notices'[n] = notices[n] - 1
            /\ ours'[n] = IF stuck[n] /\ ours[n] = "unsent" THEN "swallowed"
                          ELSE ours[n]
        BY <1>3, <2>1 DEF IgnoreNotice, TypeOK
      <3> QED BY <1>1, <3>1 DEF Accounts
    <2>2. CASE HandleNotice(m)
      <3>1. /\ setting[n] = <<>> /\ ~flag[n]
            /\ setting'[n] = <<>> /\ flag'[n] = flag[n] /\ stuck'[n] = stuck[n]
            /\ ours'[n] # "unsent"
        BY <1>3, <2>2 DEF HandleNotice, OnClipboardChanged, TypeOK
      <3> QED BY <1>1, <3>1 DEF Accounts
    <2>3. CASE BeginSet(m)
      <3>1. Head(posted[m]) \in Pack
        <4>1. posted[m] \in Seq(Pack) /\ posted[m] # <<>>
          BY <2>3 DEF BeginSet, TypeOK
        <4> QED BY <4>1, TakeFirst, Zenon
      <3>2. /\ setting'[n] # <<>> /\ flag'[n] = TRUE
            /\ ours'[n] = ours[n] /\ notices'[n] = notices[n]
        BY <1>3, <2>3, <3>1, PackIsNotEmpty DEF BeginSet, TypeOK, historyVars
      <3> QED BY <1>1, <3>2 DEF Accounts
    <2>4. CASE SetDone(m)
      <3>1. /\ setting[n] # <<>> /\ setting'[n] = <<>>
            /\ ours'[n] = "remote" /\ stuck'[n] = FALSE
            /\ \/ flag'[n] = FALSE
               \/ notices'[n] = notices[n] + 1
        BY <1>3, <2>4 DEF SetDone, TypeOK
      <3> QED BY <1>1, <3>1 DEF Accounts
    <2>5. CASE SetFails(m)
      <3>1. /\ setting[n] # <<>> /\ setting'[n] = <<>> /\ stuck'[n] = TRUE
            /\ flag'[n] = flag[n] /\ ours'[n] = ours[n]
            /\ notices'[n] = notices[n]
        BY <1>3, <2>5 DEF SetFails, TypeOK
      <3> QED BY <1>1, <3>1 DEF Accounts
    <2> QED BY <2>1, <2>2, <2>3, <2>4, <2>5 DEF Window
  <1> QED BY <1>2, <1>3

LEMMA AccountsNext ==
  ASSUME TypeOK, [Next]_vars, NEW n \in Machines, Accounts(n)
  PROVE  Accounts(n)'
  <1>1. CASE \E m \in Machines : Window(m)
    BY <1>1, AccountsWindow
  <1>2. CASE \/ \E m \in Machines : MouseMoves(m)
             \/ \E s \in Servers : Session(s)
             \/ UNCHANGED vars
    <2>1. UNCHANGED <<setting, flag, stuck, ours, notices>>
      BY <1>2 DEF MouseMoves, Session, ServerReceives, ClientReceives, vars,
                  windowVars, historyVars
    <2> QED BY <2>1, AccountsKept
  <1>3. ASSUME NEW m \in Machines, NEW c \in Contents, UserCopies(m, c)
        PROVE  Accounts(n)'
    <2>1. UNCHANGED <<setting, flag, stuck>>
      BY <1>3 DEF UserCopies
    <2>2. notices[n] \in Nat /\ flag[n] \in BOOLEAN /\ stuck[n] \in BOOLEAN
      BY DEF TypeOK
    <2>3. CASE n = m
      <3>1. ours'[n] = "unsent" /\ notices'[n] = notices[n] + 1
        BY <1>3, <2>3 DEF UserCopies, TypeOK
      <3> QED BY <2>1, <2>2, <3>1 DEF Accounts
    <2>4. CASE n # m
      <3>1. UNCHANGED <<ours[n], notices[n]>>
        BY <1>3, <2>4 DEF UserCopies, TypeOK
      <3> QED BY <2>1, <3>1, AccountsKept
    <2> QED BY <2>3, <2>4
  <1> QED BY <1>1, <1>2, <1>3 DEF Next

-----------------------------------------------------------------------------
(* Which notification tells of a text from the network.                    *)

\* Expected, of one machine.
Hidden(m) ==
  /\ setting[m] # <<>> => notices[m] = 0
  /\ ours[m] = "remote" /\ setting[m] = <<>> =>
       notices[m] = 0 \/ (notices[m] = 1 /\ flag[m])

LEMMA HiddenKept ==
  ASSUME NEW n \in Machines, Hidden(n),
         UNCHANGED <<setting[n], flag[n], ours[n], notices[n]>>
  PROVE  Hidden(n)'
  BY DEF Hidden

LEMMA HiddenWindow ==
  ASSUME TypeOK, NEW m \in Machines, Window(m), NEW n \in Machines,
         Accounts(n), Hidden(n)
  PROVE  Hidden(n)'
  <1>1. notices[n] \in Nat /\ flag[n] \in BOOLEAN /\ stuck[n] \in BOOLEAN
    BY DEF TypeOK
  <1>2. CASE n # m
    <2>1. UNCHANGED <<setting[n], flag[n], ours[n], notices[n]>>
      BY <1>2 DEF Window, IgnoreNotice, HandleNotice, OnClipboardChanged,
                  BeginSet, SetDone, SetFails, TypeOK, historyVars
    <2> QED BY <2>1, HiddenKept
  <1>3. CASE n = m
    <2>1. CASE IgnoreNotice(m)
      <3>1. /\ setting[n] = <<>> /\ notices[n] > 0 /\ setting'[n] = <<>>
            /\ notices'[n] = notices[n] - 1
            /\ ours'[n] = "remote" => ours[n] = "remote"
        BY <1>3, <2>1 DEF IgnoreNotice, TypeOK
      <3> QED BY <1>1, <3>1 DEF Hidden
    <2>2. CASE HandleNotice(m)
      <3>1. /\ setting[n] = <<>> /\ ~flag[n] /\ notices[n] > 0
            /\ setting'[n] = <<>> /\ notices'[n] = notices[n] - 1
            /\ ours'[n] = "remote" => ours[n] = "remote"
        BY <1>3, <2>2 DEF HandleNotice, OnClipboardChanged, TypeOK
      <3> QED BY <1>1, <3>1 DEF Hidden
    <2>3. CASE BeginSet(m)
      <3>1. Head(posted[m]) \in Pack
        <4>1. posted[m] \in Seq(Pack) /\ posted[m] # <<>>
          BY <2>3 DEF BeginSet, TypeOK
        <4> QED BY <4>1, TakeFirst, Zenon
      <3>2. setting'[n] # <<>> /\ notices[n] = 0 /\ notices'[n] = notices[n]
        BY <1>3, <2>3, <3>1, PackIsNotEmpty DEF BeginSet, TypeOK
      <3> QED BY <3>2 DEF Hidden
    <2>4. CASE SetDone(m)
      <3>1. /\ setting[n] # <<>> /\ setting'[n] = <<>>
            /\ \/ notices'[n] = notices[n]
               \/ notices'[n] = notices[n] + 1 /\ flag'[n] = flag[n]
        BY <1>3, <2>4 DEF SetDone, TypeOK
      <3> QED BY <1>1, <3>1 DEF Accounts, Hidden
    <2>5. CASE SetFails(m)
      <3>1. setting[n] # <<>> /\ setting'[n] = <<>> /\ notices'[n] = notices[n]
        BY <1>3, <2>5 DEF SetFails, TypeOK
      <3> QED BY <1>1, <3>1 DEF Hidden
    <2> QED BY <2>1, <2>2, <2>3, <2>4, <2>5 DEF Window
  <1> QED BY <1>2, <1>3

\* A text of the network is only announced when a notification of it is not
\* hidden by the flag.
LEMMA EchoWindow ==
  ASSUME TypeOK, NEW m \in Machines, Window(m), Hidden(m), ~echoed
  PROVE  ~echoed'
  <1>1. CASE HandleNotice(m)
    <2>1. setting[m] = <<>> /\ notices[m] > 0 /\ ~flag[m] /\ notices[m] \in Nat
      BY <1>1 DEF HandleNotice, TypeOK
    <2>2. ours[m] # "remote"
      BY <2>1 DEF Hidden
    <2> QED BY <1>1, <2>2 DEF HandleNotice, OnClipboardChanged
  <1>2. CASE ~HandleNotice(m)
    BY <1>2 DEF Window, IgnoreNotice, BeginSet, SetDone, SetFails, historyVars
  <1> QED BY <1>1, <1>2

LEMMA ExpectedNext ==
  ASSUME TypeOK, Expected, \A n \in Machines : Accounts(n), [Next]_vars
  PROVE  Expected'
  <1> SUFFICES ASSUME ~raced'
               PROVE  ~echoed' /\ \A n \in Machines : Hidden(n)'
    BY DEF Expected, Hidden
  <1>1. ~raced
    BY DEF Next, Window, Session, MouseMoves, UserCopies, IgnoreNotice,
           HandleNotice, BeginSet, SetDone, SetFails, ServerReceives,
           ClientReceives, historyVars, vars
  <1>2. ~echoed /\ \A n \in Machines : Hidden(n)
    BY <1>1 DEF Expected, Hidden
  <1>3. ASSUME NEW m \in Machines, Window(m)
        PROVE  ~echoed' /\ \A n \in Machines : Hidden(n)'
    BY <1>2, <1>3, HiddenWindow, EchoWindow
  <1>4. CASE \/ \E m \in Machines : MouseMoves(m)
             \/ \E s \in Servers : Session(s)
             \/ UNCHANGED vars
    <2>1. UNCHANGED <<setting, flag, ours, notices, echoed>>
      BY <1>4 DEF MouseMoves, Session, ServerReceives, ClientReceives, vars,
                  windowVars, historyVars
    <2> QED BY <1>2, <2>1, HiddenKept
  <1>5. ASSUME NEW m \in Machines, NEW c \in Contents, UserCopies(m, c)
        PROVE  ~echoed' /\ \A n \in Machines : Hidden(n)'
    <2>1. UNCHANGED <<setting, flag, echoed>> /\ setting[m] = <<>>
      BY <1>5 DEF UserCopies
    <2>2. ASSUME NEW n \in Machines
          PROVE  Hidden(n)'
      <3>1. CASE n = m
        <4>1. ours'[n] = "unsent" /\ setting'[n] = <<>>
          BY <1>5, <2>1, <3>1 DEF UserCopies, TypeOK
        <4> QED BY <4>1 DEF Hidden
      <3>2. CASE n # m
        <4>1. UNCHANGED <<ours[n], notices[n]>>
          BY <1>5, <3>2 DEF UserCopies, TypeOK
        <4> QED BY <1>2, <2>1, <4>1, HiddenKept
      <3> QED BY <3>1, <3>2
    <2> QED BY <1>2, <2>1, <2>2
  <1> QED BY <1>3, <1>4, <1>5 DEF Next

-----------------------------------------------------------------------------
(* The theorems.                                                           *)

LEMMA AccountsAre ==
  Marked /\ Owed <=> \A m \in Machines : Accounts(m)
  BY DEF Marked, Owed, Accounts

LEMMA InvInit ==
  ASSUME Init
  PROVE  ClipboardInv
  <1>1. TypeOK
    BY TypeInit
  <1>2. ~echoed
    BY DEF Init
  <1>3. ASSUME NEW m \in Machines
        PROVE  Accounts(m) /\ Hidden(m)
    BY DEF Init, Accounts, Hidden
  <1>4. Marked /\ Owed
    BY <1>3, AccountsAre
  <1>5. Expected
    BY <1>2, <1>3 DEF Expected, Hidden
  <1> QED BY <1>1, <1>4, <1>5 DEF ClipboardInv

LEMMA InvNext ==
  ASSUME ClipboardInv, [Next]_vars
  PROVE  ClipboardInv'
  <1>1. TypeOK /\ Expected /\ \A n \in Machines : Accounts(n)
    BY AccountsAre DEF ClipboardInv
  <1>2. TypeOK'
    BY <1>1, TypeNext
  <1>3. \A n \in Machines : Accounts(n)'
    BY <1>1, AccountsNext
  <1>4. (Marked /\ Owed)'
    BY <1>3, AccountsAre DEF Marked, Owed, Accounts
  <1>5. Expected'
    BY <1>1, ExpectedNext
  <1> QED BY <1>2, <1>4, <1>5 DEF ClipboardInv

THEOREM ClipboardInvariant == Spec => []ClipboardInv
  <1>1. Init => ClipboardInv
    BY InvInit
  <1>2. ClipboardInv /\ [Next]_vars => ClipboardInv'
    BY InvNext
  <1> QED BY <1>1, <1>2, PTL DEF Spec

\* Every queue of a window or a session holds texts, and a text that waits
\* to be set knows whom it came from; no more sessions are ever there than
\* were connected.
THEOREM ClipboardTypeCorrect == Spec => []TypeOK
  <1>1. ClipboardInv => TypeOK
    BY DEF ClipboardInv
  <1> QED BY <1>1, ClipboardInvariant, PTL

\* What a user copied last, and no arriving text replaced, has gone through
\* __on_clipboard_changed once the window has handled its notifications, or
\* was lost to the flag of a set that failed.
THEOREM EveryCopyIsOffered == Spec => []CopyOffered
  <1>1. ClipboardInv => CopyOffered
    BY DEF ClipboardInv, TypeOK, Owed, CopyOffered
  <1> QED BY <1>1, ClipboardInvariant, PTL

\* No text is sent on as a copy of the user's when it came from the network,
\* unless a user copied while a text was being put on the clipboard.
THEOREM NoTextEchoes == Spec => []NoEcho
  <1>1. ClipboardInv => NoEcho
    BY DEF ClipboardInv, Expected, NoEcho, TypeOK
  <1> QED BY <1>1, ClipboardInvariant, PTL
=============================================================================
