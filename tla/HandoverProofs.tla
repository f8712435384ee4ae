--------------------------- MODULE HandoverProofs ---------------------------
(***************************************************************************)
(* Theorems about Handover, for every set of positions and connections and *)
(* every bound on the wires.                                               *)
(***************************************************************************)
EXTENDS Handover, TLAPS, FiniteSetTheorems

(* What the wires are built with: an empty wire, one message more, one less. *)
LEMMA WireTypes ==
  ASSUME NEW S
  PROVE  /\ <<>> \in Seq(S)
         /\ \A w \in Seq(S), m \in S : Append(w, m) \in Seq(S)
         /\ \A w \in Seq(S) : w # <<>> => Tail(w) \in Seq(S)
OBVIOUS

(* What the server does to a wire keeps its type. *)
LEMMA ToServerStep ==
  ASSUME TypeOK, NEW c \in Conns, c2s[c] # <<>>,
         \/ c2s' = [c2s EXCEPT ![c] = Tail(@)]
         \/ c2s' = [c2s EXCEPT ![c] = <<>>]
  PROVE  c2s' \in [Conns -> Seq(ToServer)]
<1>1. c2s \in [Conns -> Seq(ToServer)]
  BY DEF TypeOK
<1>2. QED
  BY <1>1, WireTypes

(* The same for the wire to the client. *)
LEMMA ToClientStep ==
  ASSUME TypeOK, NEW c \in Conns, NEW m \in ToClient,
         s2c' = s2c \/ s2c' = [s2c EXCEPT ![c] = Append(@, m)]
  PROVE  s2c' \in [Conns -> Seq(ToClient)]
<1>1. s2c \in [Conns -> Seq(ToClient)]
  BY DEF TypeOK
<1>2. QED
  BY <1>1, WireTypes

(* The program counters, built and taken apart. *)
LEMMA PcTypes ==
  /\ Idle \in Pc
  /\ \A op \in Ops, c \in Conns \cup {NoConn} : At(op, c) \in Pc
  /\ \A pc \in Pc : pc.op \in Ops /\ pc.conn \in Conns \cup {NoConn}
BY DEF Pc, At, Idle, Ops

(* A step of a server leaves every variable of the client alone.            *)
LEMMA ServerFrame ==
  ASSUME TypeOK, UNCHANGED <<clientVars, sessionVars, srvUp, linkUp>>,
         srvState' \in [Conns -> {"backlog", "served", "closed"}],
         srvHandshaked' \in [Conns -> BOOLEAN],
         entered' \in [Conns -> BOOLEAN],
         c2s' \in [Conns -> Seq(ToServer)],
         s2c' \in [Conns -> Seq(ToClient)]
  PROVE  TypeOK'
BY DEF TypeOK, clientVars, hookVars, history, sessionVars

(* Every reachable state is well typed: no step, of either machine, stores  *)
(* a value or puts a message on a wire that its reader does not know.       *)
THEOREM TypeCorrect == Spec => []TypeOK
<1>1. ASSUME Init PROVE TypeOK
  <2>1. c2s \in [Conns -> Seq(ToServer)] /\ s2c \in [Conns -> Seq(ToClient)]
    BY <1>1, WireTypes DEF Init
  <2>2. uiPc \in Pc /\ ioPc \in Pc
    BY <1>1, PcTypes DEF Init
  <2>3. /\ slot \in [Positions -> Conns \cup {NoConn}]
        /\ srvUp \in [Positions -> BOOLEAN]
    BY <1>1 DEF Init
  <2>4. /\ pos \in [Conns -> Positions]
        /\ srvState \in [Conns -> {"backlog", "served", "closed"}]
    BY <1>1 DEF Init
  <2>5. /\ cliOpen \in [Conns -> BOOLEAN]
        /\ handshaked \in [Conns -> BOOLEAN]
        /\ active \in [Conns -> BOOLEAN]
        /\ srvHandshaked \in [Conns -> BOOLEAN]
        /\ entered \in [Conns -> BOOLEAN]
        /\ linkUp \in [Conns -> BOOLEAN]
    BY <1>1 DEF Init
  <2>6. /\ started = "stopped" /\ hookState = "STOP" /\ currPos = NoPos
        /\ hookSeen = "none" /\ entering = NoPos /\ cursorHidden = FALSE
        /\ seized = FALSE /\ outrun = FALSE
    BY <1>1 DEF Init
  <2>7. QED
    BY <2>1, <2>2, <2>3, <2>4, <2>5, <2>6 DEF TypeOK
<1>2. TypeOK /\ [Next]_vars => TypeOK'
  <2> SUFFICES ASSUME TypeOK, [Next]_vars PROVE TypeOK'
    OBVIOUS
  <2> USE DEF TypeOK, clientVars, hookVars, history, sessionVars, serverVars
  <2>1. CASE UiStep
    <3>1. CASE Cli_Start
      BY <3>1 DEF Cli_Start
    <3>2. CASE Cli_Stop
      BY <3>2 DEF Cli_Stop
    <3>3. CASE Cli_StopJoined
      BY <3>3 DEF Cli_StopJoined
    <3>4. ASSUME NEW p \in Positions, NEW c \in Conns, Cli_InsertServer(p, c)
          PROVE  TypeOK'
      <4>1. <<"HANDSHAKE">> \in Seq(ToServer) /\ <<>> \in Seq(ToClient)
        BY DEF ToServer, ToClient
      <4>2. QED
        BY <3>4, <4>1 DEF Cli_InsertServer, SS_ConnectSession
    <3>5. ASSUME NEW p \in Positions, Cli_RemoveServer(p) PROVE TypeOK'
      BY <3>5 DEF Cli_RemoveServer, Detach, AfterDetach, Pc, At, Ops
    <3>6. CASE UiReturn
      BY <3>6, PcTypes DEF UiReturn, ReturnOnRemove, Hook_Cli_ControlReturn, Ops
    <3>7. CASE UiClose
      <4>1. s2c' \in [Conns -> Seq(ToClient)]
        BY <3>7, WireTypes DEF UiClose, SS_CloseSession
      <4>2. cursorHidden' \in BOOLEAN
        BY <3>7, Zenon DEF UiClose, SS_CloseSession
      <4>3. QED
        BY <3>7, <4>1, <4>2, PcTypes DEF UiClose, SS_CloseSession
    <3>8. ASSUME NEW p \in Positions, Cli_StopDetaches(p) PROVE TypeOK'
      BY <3>8 DEF Cli_StopDetaches, Detach, Pc, At, Ops
    <3>9. CASE Hook_Cli_Stop
      BY <3>9 DEF Hook_Cli_Stop
    <3>10. QED
      BY <2>1, <3>1, <3>2, <3>3, <3>4, <3>5, <3>6, <3>7, <3>8, <3>9 DEF UiStep
  <2>2. ASSUME NEW c \in Conns, IoSession(c) PROVE TypeOK'
    <3>1. CASE Cli_OnHandShakeReply(c)
      BY <3>1 DEF Cli_OnHandShakeReply, Received
    <3>2. CASE Cli_OnLeave(c)
      <4>1. s2c' \in [Conns -> Seq(ToClient)]
        BY <3>2, WireTypes DEF Cli_OnLeave, Received
      <4>2. ioPc' \in Pc
        BY <3>2, PcTypes DEF Cli_OnLeave, Ops
      <4>3. QED
        BY <3>2, <4>1, <4>2 DEF Cli_OnLeave
    <3>3. CASE Cli_SessionFails(c)
      BY <3>3, PcTypes DEF Cli_SessionFails, Ops, IoReady
    <3>4. QED
      BY <2>2, <3>1, <3>2, <3>3 DEF IoSession
  <2>3. CASE IoTail
    <3>1. CASE Cli_LeaveReturn
      BY <3>1, PcTypes DEF Cli_LeaveReturn, Hook_Cli_ControlReturn
    <3>2. CASE IoRemoveServer
      <4>1. slot' \in [Positions -> Conns \cup {NoConn}]
        BY <3>2 DEF IoRemoveServer, Detach
      <4>2. ioPc' \in Pc
        BY <3>2, PcTypes DEF IoRemoveServer, AfterDetach, Ops
      <4>3. QED
        BY <3>2, <4>1, <4>2 DEF IoRemoveServer
    <3>3. CASE IoReturn
      BY <3>3, PcTypes DEF IoReturn, ReturnOnRemove, Hook_Cli_ControlReturn, Ops
    <3>4. CASE IoClose
      <4>1. s2c' \in [Conns -> Seq(ToClient)]
        BY <3>4, WireTypes DEF IoClose, SS_CloseSession
      <4>2. cursorHidden' \in BOOLEAN
        BY <3>4, Zenon DEF IoClose, SS_CloseSession
      <4>3. QED
        BY <3>4, <4>1, <4>2, PcTypes DEF IoClose, SS_CloseSession
    <3>5. QED
      BY <2>3, <3>1, <3>2, <3>3, <3>4 DEF IoTail
  <2>4. CASE HookStep
    <3>1. ASSUME NEW p \in Positions, OnNormalMouseAction(p) PROVE TypeOK'
      BY <3>1 DEF OnNormalMouseAction, SS_SendEnterMsg, PutToServer, ToServer
    <3>2. CASE HookReadsRemote
      BY <3>2 DEF HookReadsRemote
    <3>5. CASE EnterRemote
      <4>1. outrun' \in BOOLEAN
        BY <3>5, Zenon DEF EnterRemote
      <4>2. QED
        BY <3>5, <4>1 DEF EnterRemote
    <3>3. CASE OnRemoteInput
      <4>1. c2s' \in [Conns -> Seq(ToServer)]
        <5>1. CASE UNCHANGED c2s
          BY <5>1
        <5>2. CASE PutToServer(slot[currPos], "INPUT")
          BY <5>2, WireTypes DEF PutToServer, ToServer
        <5>3. QED
          BY <3>3, <5>1, <5>2 DEF OnRemoteInput
      <4>2. QED
        BY <3>3, <4>1 DEF OnRemoteInput
    <3>4. QED
      BY <2>4, <3>1, <3>2, <3>3, <3>5 DEF HookStep
  <2>5. CASE SrvStep
    <3>1. ASSUME NEW p \in Positions, Srv_Start(p) PROVE TypeOK'
      BY <3>1 DEF Srv_Start
    <3>2. ASSUME NEW p \in Positions, Srv_Stop(p) PROVE TypeOK'
      BY <3>2 DEF Srv_Stop
    <3> USE DEF CloseClientSession, Srv_Rejects, Arrived, TakeFromClient
    <3>3. ASSUME NEW c \in Conns, Srv_Accept(c) PROVE TypeOK'
      BY <3>3 DEF Srv_Accept
    <3>4. ASSUME NEW c \in Conns, Srv_SessionFails(c) PROVE TypeOK'
      BY <3>4 DEF Srv_SessionFails
    <3>5. ASSUME NEW c \in Conns, Srv_OnHandShake(c) PROVE TypeOK'
      <4>1. c2s[c] # <<>>
        BY <3>5 DEF Srv_OnHandShake
      <4>2. \/ c2s' = [c2s EXCEPT ![c] = Tail(@)]
            \/ c2s' = [c2s EXCEPT ![c] = <<>>]
        BY <3>5 DEF Srv_OnHandShake
      <4>3. s2c' = s2c \/ s2c' = [s2c EXCEPT ![c] = Append(@, "HANDSHAKE_REPLY")]
        BY <3>5 DEF Srv_OnHandShake, SS_SendHandShakeReply, PutToClient
      <4>4. srvState' = [srvState EXCEPT ![c] = "closed"] \/ UNCHANGED srvState
        BY <3>5 DEF Srv_OnHandShake
      <4>5. entered' = [entered EXCEPT ![c] = FALSE] \/ UNCHANGED entered
        BY <3>5 DEF Srv_OnHandShake
      <4>6. \E b \in BOOLEAN : srvHandshaked' = [srvHandshaked EXCEPT ![c] = b]
        BY <3>5 DEF Srv_OnHandShake, SrvMarkHandshaked
      <4>7. UNCHANGED <<clientVars, sessionVars, srvUp, linkUp>>
        BY <3>5 DEF Srv_OnHandShake
      <4>8. c2s' \in [Conns -> Seq(ToServer)]
        BY <4>1, <4>2, ToServerStep
      <4>9. s2c' \in [Conns -> Seq(ToClient)]
        BY <4>3, ToClientStep DEF ToClient
      <4>10. /\ srvState' \in [Conns -> {"backlog", "served", "closed"}]
             /\ srvHandshaked' \in [Conns -> BOOLEAN]
             /\ entered' \in [Conns -> BOOLEAN]
        BY <4>4, <4>5, <4>6
      <4>11. QED
        BY <4>7, <4>8, <4>9, <4>10, ServerFrame
    <3>6. ASSUME NEW c \in Conns, Srv_OnEnter(c) PROVE TypeOK'
      <4>1. c2s[c] # <<>>
        BY <3>6 DEF Srv_OnEnter
      <4>2. \/ c2s' = [c2s EXCEPT ![c] = Tail(@)]
            \/ c2s' = [c2s EXCEPT ![c] = <<>>]
        BY <3>6 DEF Srv_OnEnter
      <4>3. srvState' = [srvState EXCEPT ![c] = "closed"] \/ UNCHANGED srvState
        BY <3>6 DEF Srv_OnEnter
      <4>4. \E b \in BOOLEAN : entered' = [entered EXCEPT ![c] = b]
        BY <3>6 DEF Srv_OnEnter
      <4>5. \/ srvHandshaked' = [srvHandshaked EXCEPT ![c] = FALSE]
            \/ UNCHANGED srvHandshaked
        BY <3>6 DEF Srv_OnEnter
      <4>6. UNCHANGED <<clientVars, sessionVars, srvUp, s2c, linkUp>>
        BY <3>6 DEF Srv_OnEnter
      <4>7. c2s' \in [Conns -> Seq(ToServer)]
        BY <4>1, <4>2, ToServerStep
      <4>8. /\ srvState' \in [Conns -> {"backlog", "served", "closed"}]
            /\ srvHandshaked' \in [Conns -> BOOLEAN]
            /\ entered' \in [Conns -> BOOLEAN]
        BY <4>3, <4>4, <4>5
      <4>9. s2c' \in [Conns -> Seq(ToClient)]
        BY <4>6
      <4>10. QED
        BY <4>6, <4>7, <4>8, <4>9, ServerFrame
    <3>7. ASSUME NEW c \in Conns, Srv_OnInput(c) PROVE TypeOK'
      <4>1. c2s[c] # <<>>
        BY <3>7 DEF Srv_OnInput
      <4>2. \/ c2s' = [c2s EXCEPT ![c] = Tail(@)]
            \/ c2s' = [c2s EXCEPT ![c] = <<>>]
        BY <3>7 DEF Srv_OnInput
      <4>3. s2c' = s2c \/ s2c' = [s2c EXCEPT ![c] = Append(@, "LEAVE")]
        BY <3>7 DEF Srv_OnInput, SS_SendMouseLeave, PutToClient
      <4>4. srvState' = [srvState EXCEPT ![c] = "closed"] \/ UNCHANGED srvState
        BY <3>7 DEF Srv_OnInput
      <4>5. entered' = [entered EXCEPT ![c] = FALSE] \/ UNCHANGED entered
        BY <3>7 DEF Srv_OnInput, SS_SendMouseLeave
      <4>6. \/ srvHandshaked' = [srvHandshaked EXCEPT ![c] = FALSE]
            \/ UNCHANGED srvHandshaked
        BY <3>7 DEF Srv_OnInput
      <4>7. UNCHANGED <<clientVars, sessionVars, srvUp, linkUp>>
        BY <3>7 DEF Srv_OnInput
      <4>8. c2s' \in [Conns -> Seq(ToServer)]
        BY <4>1, <4>2, ToServerStep
      <4>9. s2c' \in [Conns -> Seq(ToClient)]
        BY <4>3, ToClientStep DEF ToClient
      <4>10. /\ srvState' \in [Conns -> {"backlog", "served", "closed"}]
             /\ srvHandshaked' \in [Conns -> BOOLEAN]
             /\ entered' \in [Conns -> BOOLEAN]
        BY <4>4, <4>5, <4>6
      <4>11. QED
        BY <4>7, <4>8, <4>9, <4>10, ServerFrame
    <3>8. QED
      BY <2>5, <3>1, <3>2, <3>3, <3>4, <3>5, <3>6, <3>7 DEF SrvStep
  <2>6. ASSUME NEW c \in Conns, LinkDown(c) PROVE TypeOK'
    BY <2>6 DEF LinkDown
  <2>7. CASE UNCHANGED vars
    BY <2>7 DEF vars
  <2>8. QED
    BY <2>1, <2>2, <2>3, <2>4, <2>5, <2>6, <2>7 DEF Next
<1>3. QED
  BY <1>1, <1>2, PTL DEF Spec
-----------------------------------------------------------------------------
(***************************************************************************)
(* The inductive invariant behind HandshakeOrder: how far one end of a     *)
(* connection has got in the protocol bounds what the other end can have   *)
(* sent.                                                                   *)
(***************************************************************************)
Removing(pc) == pc.op \in {"return", "close"}

(* Until the server has handled the handshake, that is all there is for it. *)
FirstHandshake(c) ==
  /\ ~srvHandshaked[c] => c2s[c] = <<>> \/ c2s[c] = <<"HANDSHAKE">>
  /\ srvHandshaked[c] => ~Has(c2s[c], "HANDSHAKE")

(* The client knows of a handshake only from a server that made it.         *)
ReplyAfterHandshake(c) ==
  handshaked[c] \/ Has(s2c[c], "HANDSHAKE_REPLY") =>
    srvHandshaked[c] \/ srvState[c] = "closed"

(* What makes a server have control, or send it back, starts with an ENTER. *)
ActiveBeforeLeave(c) ==
  /\ active[c] => handshaked[c]
  /\ cliOpen[c] /\ (Has(c2s[c], "ENTER") \/ entered[c] \/ Has(s2c[c], "LEAVE"))
       => active[c]

Order(c) ==
  FirstHandshake(c) /\ ReplyAfterHandshake(c) /\ ActiveBeforeLeave(c)

OrderInv == \A c \in Conns : Order(c)

(* What a wire holds after one message more.                                *)
LEMMA HasAppend ==
  ASSUME NEW S, NEW w \in Seq(S), NEW m \in S, NEW x
  PROVE  Has(Append(w, m), x) <=> Has(w, x) \/ x = m
<1>1. /\ Len(Append(w, m)) = Len(w) + 1
      /\ Append(w, m)[Len(w) + 1] = m
      /\ \A i \in 1..Len(w) : Append(w, m)[i] = w[i]
      /\ Len(w) \in Nat
  OBVIOUS
<1>2. QED
  BY <1>1 DEF Has

(* And after one less.                                                      *)
LEMMA HasTail ==
  ASSUME NEW S, NEW w \in Seq(S), w # <<>>
  PROVE  Has(w, Head(w)) /\ \A x : Has(Tail(w), x) => Has(w, x)
<1>1. /\ Len(w) \in Nat \ {0}
      /\ Head(w) = w[1]
      /\ Len(Tail(w)) = Len(w) - 1
      /\ \A i \in 1..Len(Tail(w)) : Tail(w)[i] = w[i + 1]
  OBVIOUS
<1>2. QED
  BY <1>1 DEF Has

(* The state Order(d) is about; a step that leaves it alone keeps Order(d). *)
orderVars == <<cliOpen, handshaked, active, srvState, srvHandshaked, entered,
               c2s, s2c>>

LEMMA OrderFrame ==
  ASSUME NEW d, Order(d), UNCHANGED orderVars
  PROVE  Order(d)'
BY DEF orderVars, Order, FirstHandshake, ReplyAfterHandshake,
       ActiveBeforeLeave, Has

(* Closing the client's end of a connection forgets all that it promised.  *)
LEMMA OrderClose ==
  ASSUME TypeOK, NEW d \in Conns, Order(d), NEW c, SS_CloseSession(c),
         UNCHANGED <<serverVars, c2s>>
  PROVE  Order(d)'
<1>1. UNCHANGED <<srvHandshaked, srvState, entered, c2s>>
  BY DEF serverVars
<1>2. CASE c = d
  <2>1. /\ handshaked'[d] = FALSE /\ active'[d] = FALSE /\ cliOpen'[d] = FALSE
        /\ s2c'[d] = <<>>
    BY <1>2 DEF SS_CloseSession, TypeOK
  <2>2. QED
    BY <1>1, <2>1
    DEF Order, FirstHandshake, ReplyAfterHandshake, ActiveBeforeLeave, Has
<1>3. CASE c # d
  <2>1. /\ handshaked'[d] = handshaked[d] /\ active'[d] = active[d]
        /\ s2c'[d] = s2c[d] /\ cliOpen'[d] = cliOpen[d]
    BY <1>3 DEF SS_CloseSession, TypeOK
  <2>2. QED
    BY <1>1, <2>1
    DEF Order, FirstHandshake, ReplyAfterHandshake, ActiveBeforeLeave, Has
<1>4. QED
  BY <1>2, <1>3

(* No step of the UI thread disturbs the order of the messages.             *)
LEMMA OrderUi ==
  ASSUME TypeOK, OrderInv, UiStep, NEW d \in Conns
  PROVE  Order(d)'
<1> USE DEF clientVars, hookVars, history, sessionVars, serverVars
<1>1. Order(d)
  BY DEF OrderInv
<1>2. ASSUME NEW p \in Positions, NEW c \in Conns, Cli_InsertServer(p, c)
      PROVE  Order(d)'
  <2>1. CASE c = d
    <3>1. /\ srvHandshaked'[d] = FALSE /\ handshaked'[d] = FALSE
          /\ active'[d] = FALSE /\ entered'[d] = FALSE
          /\ c2s'[d] = <<"HANDSHAKE">> /\ s2c'[d] = <<>>
      BY <1>2, <2>1 DEF Cli_InsertServer, SS_ConnectSession, TypeOK
    <3>2. ~Has(<<>>, "HANDSHAKE_REPLY") /\ ~Has(<<>>, "LEAVE")
          /\ ~Has(<<"HANDSHAKE">>, "ENTER")
      BY DEF Has
    <3>3. QED
      BY <3>1, <3>2
      DEF Order, FirstHandshake, ReplyAfterHandshake, ActiveBeforeLeave, Has
  <2>2. CASE c # d
    <3>1. /\ srvHandshaked'[d] = srvHandshaked[d]
          /\ handshaked'[d] = handshaked[d] /\ srvState'[d] = srvState[d]
          /\ active'[d] = active[d] /\ entered'[d] = entered[d]
          /\ c2s'[d] = c2s[d] /\ s2c'[d] = s2c[d] /\ cliOpen'[d] = cliOpen[d]
      BY <1>2, <2>2 DEF Cli_InsertServer, SS_ConnectSession, TypeOK
    <3>2. QED
      BY <1>1, <3>1
      DEF Order, FirstHandshake, ReplyAfterHandshake, ActiveBeforeLeave, Has
  <2>3. QED
    BY <2>1, <2>2
<1>3. CASE Cli_StopJoined
  BY <1>1, <1>3, OrderFrame DEF Cli_StopJoined, orderVars
<1>4. CASE UiClose
  BY <1>1, <1>4, OrderClose DEF UiClose
<1>5. CASE Cli_Start
  BY <1>1, <1>5, OrderFrame DEF Cli_Start, orderVars
<1>6. CASE Cli_Stop
  BY <1>1, <1>6, OrderFrame DEF Cli_Stop, orderVars
<1>7. ASSUME NEW p \in Positions, Cli_RemoveServer(p) PROVE Order(d)'
  BY <1>1, <1>7, OrderFrame DEF Cli_RemoveServer, orderVars
<1>8. CASE UiReturn
  BY <1>1, <1>8, OrderFrame DEF UiReturn, orderVars
<1>9. ASSUME NEW p \in Positions, Cli_StopDetaches(p) PROVE Order(d)'
  BY <1>1, <1>9, OrderFrame DEF Cli_StopDetaches, orderVars
<1>10. CASE Hook_Cli_Stop
  BY <1>1, <1>10, OrderFrame DEF Hook_Cli_Stop, orderVars
<1>11. QED
  BY <1>2, <1>3, <1>4, <1>5, <1>6, <1>7, <1>8, <1>9, <1>10 DEF UiStep

(* Nor does the IO thread: it only takes a reply or a LEAVE from the wire.  *)
LEMMA OrderIo ==
  ASSUME TypeOK, OrderInv, IoTail \/ (\E c \in Conns : IoSession(c)),
         NEW d \in Conns
  PROVE  Order(d)'
<1> USE DEF clientVars, hookVars, history, sessionVars, serverVars
<1>1. Order(d)
  BY DEF OrderInv
<1>2. s2c[d] \in Seq(ToClient) /\ d \in DOMAIN s2c /\ d \in DOMAIN handshaked
  BY DEF TypeOK
<1>3. ASSUME NEW c \in Conns, Cli_OnHandShakeReply(c) PROVE Order(d)'
  <2>1. UNCHANGED <<srvHandshaked, srvState, entered, c2s, active, cliOpen>>
    BY <1>3 DEF Cli_OnHandShakeReply
  <2>2. CASE c = d
    <3>1. /\ handshaked'[d] = TRUE
          /\ s2c'[d] = Tail(s2c[d])
          /\ s2c[d] # <<>> /\ Head(s2c[d]) = "HANDSHAKE_REPLY"
      BY <1>2, <1>3, <2>2 DEF Cli_OnHandShakeReply, Received
    <3>2. /\ Has(s2c[d], "HANDSHAKE_REPLY")
          /\ Has(Tail(s2c[d]), "LEAVE") => Has(s2c[d], "LEAVE")
      BY <1>2, <3>1, HasTail
    <3>3. QED
      BY <1>1, <2>1, <3>1, <3>2
      DEF Order, FirstHandshake, ReplyAfterHandshake, ActiveBeforeLeave, Has
  <2>3. CASE c # d
    <3>1. handshaked'[d] = handshaked[d] /\ s2c'[d] = s2c[d]
      BY <1>2, <1>3, <2>3 DEF Cli_OnHandShakeReply
    <3>2. QED
      BY <1>1, <2>1, <3>1
      DEF Order, FirstHandshake, ReplyAfterHandshake, ActiveBeforeLeave, Has
  <2>4. QED
    BY <2>2, <2>3
<1>4. ASSUME NEW c \in Conns, Cli_OnLeave(c) PROVE Order(d)'
  <2>1. UNCHANGED <<srvHandshaked, srvState, entered, c2s, active, cliOpen,
                    handshaked>>
    BY <1>4 DEF Cli_OnLeave
  <2>2. s2c'[d] = s2c[d] \/ (s2c[d] # <<>> /\ s2c'[d] = Tail(s2c[d]))
    BY <1>2, <1>4 DEF Cli_OnLeave, Received
  <2>3. \A x : Has(s2c'[d], x) => Has(s2c[d], x)
    BY <1>2, <2>2, HasTail
  <2>4. QED
    BY <1>1, <2>1, <2>3
    DEF Order, FirstHandshake, ReplyAfterHandshake, ActiveBeforeLeave, Has
<1>5. ASSUME NEW c \in Conns, Cli_SessionFails(c) PROVE Order(d)'
  BY <1>1, <1>5, OrderFrame DEF Cli_SessionFails, orderVars
<1>6. CASE Cli_LeaveReturn
  BY <1>1, <1>6, OrderFrame DEF Cli_LeaveReturn, orderVars
<1>7. CASE IoRemoveServer
  BY <1>1, <1>7, OrderFrame DEF IoRemoveServer, orderVars
<1>8. CASE IoReturn
  BY <1>1, <1>8, OrderFrame DEF IoReturn, orderVars
<1>9. CASE IoClose
  BY <1>1, <1>9, OrderClose DEF IoClose
<1>10. QED
  BY <1>3, <1>4, <1>5, <1>6, <1>7, <1>8, <1>9 DEF IoTail, IoSession

(* A message for the server keeps its place behind the handshake: only a    *)
(* client that knows of the handshake sends one.                           *)
LEMMA OrderSend ==
  ASSUME TypeOK, NEW d \in Conns, Order(d), NEW c, handshaked[c],
         NEW m \in {"ENTER", "INPUT"}, PutToServer(c, m),
         UNCHANGED <<handshaked, cliOpen, srvState, srvHandshaked, entered, s2c>>,
         active[d] => active'[d],
         active'[d] => handshaked[d],
         c = d /\ m = "ENTER" => active'[d]
  PROVE  Order(d)'
<1>1. c2s[d] \in Seq(ToServer) /\ d \in DOMAIN c2s /\ m \in ToServer /\ m # "HANDSHAKE"
  BY DEF TypeOK, ToServer
<1>2. CASE c2s'[d] = c2s[d]
  BY <1>2 DEF Order, FirstHandshake, ReplyAfterHandshake, ActiveBeforeLeave, Has
<1>3. CASE c2s'[d] # c2s[d]
  <2>1. c = d /\ Alive(c) /\ c2s'[d] = Append(c2s[d], m)
    BY <1>1, <1>3 DEF PutToServer
  <2>2. srvHandshaked[d]
    BY <2>1 DEF Alive, Order, ReplyAfterHandshake
  <2>3. ~Has(c2s'[d], "HANDSHAKE")
    BY <1>1, <2>1, <2>2, HasAppend DEF Order, FirstHandshake
  <2>4. Has(c2s'[d], "ENTER") => Has(c2s[d], "ENTER") \/ m = "ENTER"
    BY <1>1, <2>1, HasAppend
  <2>5. FirstHandshake(d)'
    BY <2>2, <2>3 DEF FirstHandshake, Has
  <2>6. ReplyAfterHandshake(d)'
    BY <2>2 DEF ReplyAfterHandshake
  <2>7. ActiveBeforeLeave(d)'
    BY <2>1, <2>4 DEF Order, ActiveBeforeLeave, Has
  <2>8. QED
    BY <2>5, <2>6, <2>7 DEF Order
<1>4. QED
  BY <1>2, <1>3

LEMMA OrderHook ==
  ASSUME TypeOK, OrderInv, HookStep, NEW d \in Conns
  PROVE  Order(d)'
<1> USE DEF clientVars, hookVars, history, sessionVars, serverVars
<1>1. Order(d)
  BY DEF OrderInv
<1>2. ASSUME NEW p \in Positions, OnNormalMouseAction(p) PROVE Order(d)'
  <2> DEFINE c == slot[p]
  <2>1. /\ handshaked[c] /\ PutToServer(c, "ENTER")
        /\ active' = [active EXCEPT ![c] = TRUE]
        /\ UNCHANGED <<handshaked, cliOpen, srvState, srvHandshaked, entered,
                       s2c>>
    BY <1>2 DEF OnNormalMouseAction, SS_SendEnterMsg
  <2>2. active'[d] = active[d] \/ (c = d /\ active'[d] = TRUE)
    BY <2>1 DEF TypeOK
  <2>5. c = d => active'[d] = TRUE
    BY <2>1 DEF TypeOK
  <2>3. active[d] => handshaked[d]
    BY <1>1 DEF Order, ActiveBeforeLeave
  <2> HIDE DEF c
  <2>4. QED
    BY <1>1, <2>1, <2>2, <2>3, <2>5, OrderSend
<1>3. CASE HookReadsRemote
  BY <1>1, <1>3, OrderFrame DEF HookReadsRemote, orderVars
<1>6. CASE EnterRemote
  BY <1>1, <1>6, OrderFrame DEF EnterRemote, orderVars
<1>4. CASE OnRemoteInput
  <2>1. CASE UNCHANGED c2s
    BY <1>1, <1>4, <2>1, OrderFrame DEF OnRemoteInput, orderVars
  <2>2. CASE ~UNCHANGED c2s
    <3>1. \E c : handshaked[c] /\ PutToServer(c, "INPUT")
      BY <1>4, <2>2 DEF OnRemoteInput
    <3>2. UNCHANGED <<handshaked, active, cliOpen, srvState, srvHandshaked,
                      entered, s2c>>
      BY <1>4 DEF OnRemoteInput
    <3>3. active[d] => handshaked[d]
      BY <1>1 DEF Order, ActiveBeforeLeave
    <3>4. QED
      BY <1>1, <3>1, <3>2, <3>3, OrderSend
  <2>3. QED
    BY <2>1, <2>2
<1>5. QED
  BY <1>2, <1>3, <1>4, <1>6 DEF HookStep

(* A server that closes its end lets go of control and of what it had not   *)
(* read.                                                                   *)
LEMMA OrderSrvClose ==
  ASSUME TypeOK, NEW d \in Conns, Order(d), NEW c, CloseClientSession(c),
         UNCHANGED <<sessionVars, s2c>>
  PROVE  Order(d)'
<1>1. UNCHANGED <<handshaked, active, cliOpen, s2c>>
  BY DEF sessionVars
<1>2. CASE c = d
  <2>1. /\ srvState'[d] = "closed" /\ srvHandshaked'[d] = FALSE
        /\ entered'[d] = FALSE /\ c2s'[d] = <<>>
    BY <1>2 DEF CloseClientSession, TypeOK
  <2>2. QED
    BY <1>1, <2>1
    DEF Order, FirstHandshake, ReplyAfterHandshake, ActiveBeforeLeave, Has
<1>3. CASE c # d
  <2>1. /\ srvState'[d] = srvState[d] /\ srvHandshaked'[d] = srvHandshaked[d]
        /\ entered'[d] = entered[d] /\ c2s'[d] = c2s[d]
    BY <1>3 DEF CloseClientSession, TypeOK
  <2>2. QED
    BY <1>1, <2>1
    DEF Order, FirstHandshake, ReplyAfterHandshake, ActiveBeforeLeave, Has
<1>4. QED
  BY <1>2, <1>3

(* The three messages a server handles.  Each is taken from a connection c  *)
(* other than d, or from d itself.                                         *)
LEMMA OrderOther ==
  ASSUME NEW d, Order(d), UNCHANGED sessionVars,
         srvState'[d] = srvState[d], srvHandshaked'[d] = srvHandshaked[d],
         entered'[d] = entered[d], c2s'[d] = c2s[d], s2c'[d] = s2c[d]
  PROVE  Order(d)'
BY DEF Order, FirstHandshake, ReplyAfterHandshake, ActiveBeforeLeave, Has,
       sessionVars

LEMMA OrderTake ==
  ASSUME TypeOK, NEW d \in Conns, Order(d), c2s[d] # <<>>
  PROVE  /\ ~srvHandshaked[d] => Tail(c2s[d]) = <<>>
         /\ srvHandshaked[d] => ~Has(Tail(c2s[d]), "HANDSHAKE")
         /\ \A x : Has(Tail(c2s[d]), x) => Has(c2s[d], x)
         /\ Has(c2s[d], Head(c2s[d]))
<1>1. c2s[d] \in Seq(ToServer)
  BY DEF TypeOK
<1>2. \A x : Has(Tail(c2s[d]), x) => Has(c2s[d], x)
  BY <1>1, HasTail
<1>3. Has(c2s[d], Head(c2s[d]))
  BY <1>1, HasTail
<1>4. ASSUME ~srvHandshaked[d] PROVE Tail(c2s[d]) = <<>>
  <2>1. c2s[d] = <<"HANDSHAKE">>
    BY <1>4 DEF Order, FirstHandshake
  <2>2. QED
    BY <2>1
<1>5. ASSUME srvHandshaked[d] PROVE ~Has(Tail(c2s[d]), "HANDSHAKE")
  BY <1>2, <1>5 DEF Order, FirstHandshake
<1>6. QED
  BY <1>2, <1>3, <1>4, <1>5

LEMMA OrderSrv ==
  ASSUME TypeOK, OrderInv, SrvStep, NEW d \in Conns
  PROVE  Order(d)'
<1>1. Order(d)
  BY DEF OrderInv
<1>2. ASSUME NEW p \in Positions, Srv_Start(p) PROVE Order(d)'
  BY <1>1, <1>2, OrderFrame DEF Srv_Start, orderVars, sessionVars
<1>3. ASSUME NEW p \in Positions, Srv_Stop(p) PROVE Order(d)'
  <2>1. UNCHANGED <<handshaked, active, cliOpen, s2c>>
    BY <1>3 DEF Srv_Stop, sessionVars
  <2>2. CASE pos[d] = p
    <3>1. /\ srvState'[d] = "closed" /\ srvHandshaked'[d] = FALSE
          /\ entered'[d] = FALSE /\ c2s'[d] = <<>>
      BY <1>3, <2>2 DEF Srv_Stop
    <3>2. QED
      BY <1>1, <2>1, <3>1
      DEF Order, FirstHandshake, ReplyAfterHandshake, ActiveBeforeLeave, Has
  <2>3. CASE pos[d] # p
    <3>1. /\ srvState'[d] = srvState[d]
          /\ srvHandshaked'[d] = srvHandshaked[d]
          /\ entered'[d] = entered[d] /\ c2s'[d] = c2s[d] /\ s2c'[d] = s2c[d]
      BY <1>3, <2>3 DEF Srv_Stop, TypeOK
    <3>2. QED
      BY <1>1, <1>3, <3>1, OrderOther DEF Srv_Stop
  <2>4. QED
    BY <2>2, <2>3
<1>4. ASSUME NEW c \in Conns, Srv_Accept(c) PROVE Order(d)'
  <2>1. /\ UNCHANGED <<handshaked, active, cliOpen, srvHandshaked, entered,
                       c2s, s2c>>
        /\ srvState'[d] = "closed" <=> srvState[d] = "closed"
    BY <1>4 DEF Srv_Accept, sessionVars, TypeOK
  <2>2. QED
    BY <1>1, <2>1
    DEF Order, FirstHandshake, ReplyAfterHandshake, ActiveBeforeLeave, Has
<1>5. ASSUME NEW c \in Conns, Srv_SessionFails(c) PROVE Order(d)'
  BY <1>1, <1>5, OrderSrvClose DEF Srv_SessionFails
<1>6. ASSUME NEW c \in Conns, Srv_OnHandShake(c) PROVE Order(d)'
  <2>1. CASE Srv_Rejects(c)
    BY <1>1, <1>6, <2>1, OrderSrvClose DEF Srv_OnHandShake, Srv_Rejects
  <2>2. CASE ~Srv_Rejects(c)
    <3>1. /\ ~srvHandshaked[c] /\ c2s[c] # <<>>
          /\ c2s' = [c2s EXCEPT ![c] = Tail(@)]
          /\ srvHandshaked' = [srvHandshaked EXCEPT ![c] = TRUE]
          /\ s2c' = s2c \/ s2c' = [s2c EXCEPT ![c] = Append(@, "HANDSHAKE_REPLY")]
          /\ UNCHANGED <<srvState, entered, sessionVars>>
      BY <1>6, <2>2
      DEF Srv_OnHandShake, Arrived, TakeFromClient, SrvMarkHandshaked,
          SS_SendHandShakeReply, PutToClient, TypeOK
    <3>2. CASE c # d
      <4>1. /\ c2s'[d] = c2s[d] /\ srvHandshaked'[d] = srvHandshaked[d]
            /\ s2c'[d] = s2c[d]
        BY <3>1, <3>2 DEF TypeOK
      <4>2. QED
        BY <1>1, <3>1, <4>1, OrderOther
    <3>3. CASE c = d
      <4>1. /\ c2s'[d] = Tail(c2s[d]) /\ srvHandshaked'[d] = TRUE
            /\ s2c'[d] = s2c[d] \/ s2c'[d] = Append(s2c[d], "HANDSHAKE_REPLY")
            /\ s2c[d] \in Seq(ToClient)
        BY <3>1, <3>3 DEF TypeOK
      <4>2. c2s'[d] = <<>>
        BY <1>1, <3>1, <3>3, <4>1, OrderTake
      <4>3. Has(s2c'[d], "LEAVE") => Has(s2c[d], "LEAVE")
        <5>1. "HANDSHAKE_REPLY" \in ToClient
          BY DEF ToClient
        <5>2. Has(Append(s2c[d], "HANDSHAKE_REPLY"), "LEAVE")
                <=> Has(s2c[d], "LEAVE") \/ "LEAVE" = "HANDSHAKE_REPLY"
          BY <4>1, <5>1, HasAppend
        <5>3. QED
          BY <4>1, <5>2
      <4>4. UNCHANGED <<handshaked, active, cliOpen, srvState, entered>>
        BY <3>1 DEF sessionVars
      <4>5. QED
        BY <1>1, <4>1, <4>2, <4>3, <4>4
        DEF Order, FirstHandshake, ReplyAfterHandshake, ActiveBeforeLeave, Has
    <3>4. QED
      BY <3>2, <3>3
  <2>3. QED
    BY <2>1, <2>2

<1>7. ASSUME NEW c \in Conns, Srv_OnEnter(c) PROVE Order(d)'
  <2>1. CASE Srv_Rejects(c)
    BY <1>1, <1>7, <2>1, OrderSrvClose DEF Srv_OnEnter, Srv_Rejects
  <2>2. CASE ~Srv_Rejects(c)
    <3>1. /\ srvHandshaked[c] /\ c2s[c] # <<>> /\ Head(c2s[c]) = "ENTER"
          /\ c2s' = [c2s EXCEPT ![c] = Tail(@)]
          /\ entered' = [entered EXCEPT ![c] = TRUE]
          /\ UNCHANGED <<srvState, srvHandshaked, s2c, sessionVars>>
      BY <1>7, <2>2 DEF Srv_OnEnter, Arrived, TakeFromClient
    <3>2. CASE c # d
      <4>1. c2s'[d] = c2s[d] /\ entered'[d] = entered[d]
        BY <3>1, <3>2 DEF TypeOK
      <4>2. QED
        BY <1>1, <3>1, <4>1, OrderOther
    <3>3. CASE c = d
      <4>1. c2s'[d] = Tail(c2s[d]) /\ entered'[d] = TRUE
        BY <3>1, <3>3 DEF TypeOK
      <4>2. /\ Has(c2s[d], "ENTER") /\ ~Has(c2s'[d], "HANDSHAKE")
            /\ Has(c2s'[d], "ENTER") => Has(c2s[d], "ENTER")
        BY <1>1, <3>1, <3>3, <4>1, OrderTake
      <4>3. UNCHANGED <<handshaked, active, cliOpen, srvState, srvHandshaked, s2c>>
        BY <3>1 DEF sessionVars
      <4>4. QED
        BY <1>1, <3>1, <3>3, <4>1, <4>2, <4>3
        DEF Order, FirstHandshake, ReplyAfterHandshake, ActiveBeforeLeave, Has
    <3>4. QED
      BY <3>2, <3>3
  <2>3. QED
    BY <2>1, <2>2
<1>8. ASSUME NEW c \in Conns, Srv_OnInput(c) PROVE Order(d)'
  <2>1. CASE Srv_Rejects(c)
    BY <1>1, <1>8, <2>1, OrderSrvClose DEF Srv_OnInput, Srv_Rejects
  <2>2. CASE ~Srv_Rejects(c)
    <3>1. /\ srvHandshaked[c] /\ c2s[c] # <<>>
          /\ c2s' = [c2s EXCEPT ![c] = Tail(@)]
          /\ UNCHANGED <<srvState, srvHandshaked, sessionVars>>
      BY <1>8, <2>2 DEF Srv_OnInput, Arrived, TakeFromClient
    <3>2. \/ UNCHANGED <<s2c, entered>>
          \/ /\ entered[c]
             /\ entered' = [entered EXCEPT ![c] = FALSE]
             /\ s2c' = s2c \/ s2c' = [s2c EXCEPT ![c] = Append(@, "LEAVE")]
      BY <1>8, <2>2 DEF Srv_OnInput, SS_SendMouseLeave, PutToClient, TypeOK
    <3>3. CASE c # d
      <4>1. /\ c2s'[d] = c2s[d] /\ entered'[d] = entered[d]
            /\ s2c'[d] = s2c[d]
        BY <3>1, <3>2, <3>3 DEF TypeOK
      <4>2. QED
        BY <1>1, <3>1, <4>1, OrderOther
    <3>4. CASE c = d
      <4>1. c2s'[d] = Tail(c2s[d]) /\ s2c[d] \in Seq(ToClient)
        BY <3>1, <3>4 DEF TypeOK
      <4>2. /\ ~Has(c2s'[d], "HANDSHAKE")
            /\ Has(c2s'[d], "ENTER") => Has(c2s[d], "ENTER")
        BY <1>1, <3>1, <3>4, <4>1, OrderTake
      <4>3. \/ s2c'[d] = s2c[d] /\ entered'[d] = entered[d]
            \/ /\ entered[d]
               /\ s2c'[d] = s2c[d] \/ s2c'[d] = Append(s2c[d], "LEAVE")
        BY <3>2, <3>4 DEF TypeOK
      <4>4. \/ s2c'[d] = s2c[d] /\ entered'[d] = entered[d]
            \/ /\ entered[d]
               /\ Has(s2c'[d], "HANDSHAKE_REPLY") => Has(s2c[d], "HANDSHAKE_REPLY")
        <5>1. "LEAVE" \in ToClient
          BY DEF ToClient
        <5>2. Has(Append(s2c[d], "LEAVE"), "HANDSHAKE_REPLY")
                <=> Has(s2c[d], "HANDSHAKE_REPLY") \/ "HANDSHAKE_REPLY" = "LEAVE"
          BY <4>1, <5>1, HasAppend
        <5>3. QED
          BY <4>3, <5>2
      <4>5. UNCHANGED <<handshaked, active, cliOpen, srvState, srvHandshaked>>
        BY <3>1 DEF sessionVars
      <4>6. QED
        BY <1>1, <3>1, <3>4, <4>1, <4>2, <4>4, <4>5
        DEF Order, FirstHandshake, ReplyAfterHandshake, ActiveBeforeLeave, Has
    <3>5. QED
      BY <3>3, <3>4
  <2>3. QED
    BY <2>1, <2>2
<1>9. QED
  BY <1>2, <1>3, <1>4, <1>5, <1>6, <1>7, <1>8 DEF SrvStep

(* OrderInv is inductive, given the types.                                  *)
LEMMA OrderInductive ==
  ASSUME TypeOK, OrderInv, [Next]_vars
  PROVE  OrderInv'
<1> SUFFICES ASSUME NEW d \in Conns PROVE Order(d)'
  BY DEF OrderInv
<1>1. Order(d)
  BY DEF OrderInv
<1>2. ASSUME NEW c \in Conns, LinkDown(c) PROVE Order(d)'
  <2>1. /\ \/ c2s'[d] = c2s[d] /\ s2c'[d] = s2c[d]
           \/ c2s'[d] = <<>> /\ s2c'[d] = <<>>
        /\ UNCHANGED <<sessionVars, serverVars>>
    BY <1>2 DEF LinkDown, TypeOK
  <2>2. QED
    BY <1>1, <2>1
    DEF Order, FirstHandshake, ReplyAfterHandshake, ActiveBeforeLeave, Has,
        sessionVars, serverVars
<1>3. CASE UNCHANGED vars
  BY <1>1, <1>3, OrderFrame DEF vars, orderVars, sessionVars, serverVars
<1>4. QED
  BY <1>2, <1>3, OrderUi, OrderIo, OrderHook, OrderSrv DEF Next

(* On every connection, in every order in which the threads of both         *)
(* machines run: the handshake is what a server gets first and only once,   *)
(* and a LEAVE finds its session handshaked and active.  So no check of     *)
(* SS_OnPackage or SS_HandleRecvBuffer throws an honest peer out.           *)
THEOREM HandshakeOrdered == Spec => []HandshakeOrder
<1>1. Init => OrderInv
  BY DEF Init, OrderInv, Order, FirstHandshake, ReplyAfterHandshake,
         ActiveBeforeLeave, Has
<1>2. TypeOK /\ OrderInv /\ [Next]_vars => OrderInv'
  BY OrderInductive
<1>3. ASSUME TypeOK, OrderInv PROVE HandshakeOrder
  <2> SUFFICES ASSUME NEW c \in Conns
               PROVE  /\ Serving(c) /\ c2s[c] # <<>> =>
                           (Head(c2s[c]) = "HANDSHAKE" <=> ~srvHandshaked[c])
                      /\ Attached(c) /\ s2c[c] # <<>> /\ Head(s2c[c]) = "LEAVE"
                           => handshaked[c] /\ active[c]
    BY DEF HandshakeOrder
  <2>1. Order(c) /\ c2s[c] \in Seq(ToServer) /\ s2c[c] \in Seq(ToClient)
    BY <1>3 DEF OrderInv, TypeOK
  <2>2. ASSUME c2s[c] # <<>>
        PROVE  Head(c2s[c]) = "HANDSHAKE" <=> ~srvHandshaked[c]
    <3>1. Has(c2s[c], Head(c2s[c]))
      BY <2>1, <2>2, HasTail
    <3>2. QED
      BY <2>1, <2>2, <3>1 DEF Order, FirstHandshake
  <2>3. ASSUME cliOpen[c], s2c[c] # <<>>, Head(s2c[c]) = "LEAVE"
        PROVE  handshaked[c] /\ active[c]
    <3>1. Has(s2c[c], "LEAVE")
      BY <2>1, <2>3, HasTail
    <3>2. QED
      BY <2>1, <2>3, <3>1 DEF Order, ActiveBeforeLeave
  <2>4. QED
    BY <2>2, <2>3 DEF Attached
<1>4. QED
  BY <1>1, <1>2, <1>3, TypeCorrect, PTL DEF Spec

(***************************************************************************)
(* The inductive invariant behind RemoteReclaimable: slots, sessions and   *)
(* removals under way agree, and a session is in at most one removal.      *)
(***************************************************************************)
SlotsHoldSessions ==
  \A p \in Positions :
    slot[p] # NoConn => cliOpen[slot[p]] /\ pos[slot[p]] = p

RemovalsDetached ==
  /\ \A pc \in {uiPc, ioPc} :
       Removing(pc) => /\ pc.conn \in Conns
                       /\ cliOpen[pc.conn]
                       /\ slot[pos[pc.conn]] # pc.conn
  /\ Removing(uiPc) /\ Removing(ioPc) => uiPc.conn # ioPc.conn

IoHoldsSession ==
  ioPc.op \in {"leave", "fail"} => ioPc.conn \in Conns /\ Attached(ioPc.conn)

UiOps == uiPc.op \in {"idle", "return", "close"}

(* Cli_Stop removes nothing until the IO thread is gone, and then never     *)
(* calls Hook_Cli_ControlReturn.                                           *)
StopQuiet ==
  /\ started \in {"stopped", "stopping"} => ~Removing(uiPc)
  /\ started = "joined" => ioPc.op = "idle" /\ uiPc.op # "return"

(* The hook's lock keeps the session ENTER is being sent to in its slot.    *)
EnteringHeld ==
  entering # NoPos => slot[entering] # NoConn /\ active[slot[entering]]

ReclaimInv ==
  /\ SlotsHoldSessions
  /\ RemovalsDetached
  /\ IoHoldsSession
  /\ UiOps
  /\ StopQuiet
  /\ EnteringHeld
  /\ RemoteReclaimable
(* The state ReclaimInv is about; a step that leaves it alone keeps it.     *)
reclaimVars == <<started, hookState, currPos, entering, slot, uiPc, ioPc, pos,
                 cliOpen, active>>

LEMMA ReclaimFrame ==
  ASSUME ReclaimInv, UNCHANGED reclaimVars
  PROVE  ReclaimInv'
BY DEF reclaimVars, ReclaimInv, SlotsHoldSessions, RemovalsDetached,
       IoHoldsSession, UiOps, StopQuiet, EnteringHeld, RemoteReclaimable,
      RemoteAt, Removing,
       Attached

(* What the types say of the state ReclaimInv is about.                     *)
LEMMA ReclaimTypes ==
  ASSUME TypeOK
  PROVE  /\ slot \in [Positions -> Conns \cup {NoConn}]
         /\ pos \in [Conns -> Positions]
         /\ cliOpen \in [Conns -> BOOLEAN] /\ active \in [Conns -> BOOLEAN]
         /\ uiPc \in Pc /\ ioPc \in Pc
         /\ started \in {"stopped", "started", "stopping", "joined"}
         /\ entering \in Positions \cup {NoPos}
         /\ NoConn \notin Conns /\ NoPos \notin Positions
BY NullAssumption DEF TypeOK

LEMMA ReclaimUi ==
  ASSUME TypeOK, ReclaimInv, UiStep
  PROVE  ReclaimInv'
<1> USE DEF clientVars, hookVars, history, sessionVars, serverVars
<1>0. /\ SlotsHoldSessions /\ RemovalsDetached /\ IoHoldsSession
      /\ UiOps /\ StopQuiet /\ EnteringHeld /\ RemoteReclaimable
  BY DEF ReclaimInv
<1>1. CASE Cli_Start
  BY <1>0, <1>1
  DEF Cli_Start, ReclaimInv, SlotsHoldSessions, RemovalsDetached,
      IoHoldsSession, UiOps, StopQuiet, EnteringHeld, RemoteReclaimable,
      RemoteAt, Removing, Attached
<1>2. CASE Cli_Stop
  BY <1>0, <1>2
  DEF Cli_Stop, ReclaimInv, SlotsHoldSessions, RemovalsDetached, Idle, At,
      IoHoldsSession, UiOps, StopQuiet, EnteringHeld, RemoteReclaimable,
      RemoteAt, Removing, Attached
<1>3. CASE Cli_StopJoined
  BY <1>0, <1>3
  DEF Cli_StopJoined, ReclaimInv, SlotsHoldSessions, RemovalsDetached, Idle, At,
      IoHoldsSession, UiOps, StopQuiet, EnteringHeld, RemoteReclaimable,
      RemoteAt, Removing, Attached
<1>4. ASSUME NEW p \in Positions, NEW c \in Conns, Cli_InsertServer(p, c)
      PROVE  ReclaimInv'
  <2>1. /\ slot' = [slot EXCEPT ![p] = c] /\ pos' = [pos EXCEPT ![c] = p]
        /\ cliOpen' = [cliOpen EXCEPT ![c] = TRUE]
        /\ active' = [active EXCEPT ![c] = FALSE]
        /\ UNCHANGED <<uiPc, ioPc, started, hookState, currPos, entering>>
        /\ uiPc = Idle /\ ioPc = Idle /\ entering = NoPos
        /\ slot[p] = NoConn /\ ~cliOpen[c] /\ started = "started"
    BY <1>4 DEF Cli_InsertServer, SS_ConnectSession, HookLockFree
  <2>2. ~Removing(uiPc) /\ ~Removing(ioPc) /\ Idle.op = "idle"
    BY <2>1 DEF Removing, Idle, At
  <2>3. SlotsHoldSessions'
    BY <1>0, <2>1, ReclaimTypes DEF SlotsHoldSessions
  <2>4. RemovalsDetached' /\ IoHoldsSession' /\ UiOps' /\ StopQuiet'
        /\ EnteringHeld'
    BY <1>0, <2>1, <2>2
    DEF RemovalsDetached, IoHoldsSession, UiOps, StopQuiet, EnteringHeld,
        Removing
  <2>5. RemoteReclaimable'
    BY <1>0, <2>1, <2>2, ReclaimTypes
    DEF RemoteReclaimable, RemoteAt, SlotsHoldSessions
  <2>6. QED
    BY <2>3, <2>4, <2>5 DEF ReclaimInv
<1>5. ASSUME NEW p \in Positions, Cli_RemoveServer(p) PROVE ReclaimInv'
  <2> DEFINE c == slot[p]
  <2>1. /\ c \in Conns /\ cliOpen[c] /\ pos[c] = p
        /\ slot' = [slot EXCEPT ![p] = NoConn]
        /\ uiPc' = At(IF active[c] THEN "return" ELSE "close", c)
        /\ UNCHANGED <<ioPc, started, hookState, currPos, entering, pos, cliOpen,
                       active>>
        /\ uiPc = Idle /\ ioPc = Idle /\ started = "started" /\ entering = NoPos
    <3>1. c \in Conns /\ cliOpen[c] /\ pos[c] = p
      BY <1>0, <1>5, ReclaimTypes DEF Cli_RemoveServer, SlotsHoldSessions
    <3>2. QED
      BY <1>5, <3>1 DEF Cli_RemoveServer, Detach, AfterDetach, HookLockFree
  <2>2. ~Removing(uiPc) /\ ~Removing(ioPc) /\ Idle.op = "idle"
    BY <2>1 DEF Removing, Idle, At
  <2>3. /\ uiPc'.conn = c /\ uiPc'.op \in {"return", "close"}
        /\ active[c] => uiPc'.op = "return"
    BY <2>1 DEF At
  <2> HIDE DEF c
  <2>4. SlotsHoldSessions'
    BY <1>0, <2>1, ReclaimTypes DEF SlotsHoldSessions
  <2>5. RemovalsDetached' /\ IoHoldsSession' /\ UiOps' /\ StopQuiet'
        /\ EnteringHeld'
    BY <1>0, <2>1, <2>2, <2>3, ReclaimTypes
    DEF RemovalsDetached, IoHoldsSession, UiOps, StopQuiet, EnteringHeld,
        Removing
  <2>6. RemoteReclaimable'
    BY <1>0, <2>1, <2>2, <2>3, ReclaimTypes
    DEF RemoteReclaimable, RemoteAt, c
  <2>7. QED
    BY <2>4, <2>5, <2>6 DEF ReclaimInv
<1>6. CASE UiReturn
  <2>1. /\ uiPc.op = "return" /\ uiPc'.op = "close" /\ uiPc'.conn = uiPc.conn
        /\ hookState' = "NORMAL"
        /\ UNCHANGED <<ioPc, started, entering, slot, pos, cliOpen, active>>
    BY <1>6 DEF UiReturn, ReturnOnRemove, Hook_Cli_ControlReturn, At
  <2>2. QED
    BY <1>0, <2>1
    DEF ReclaimInv, SlotsHoldSessions, RemovalsDetached, IoHoldsSession, UiOps,
        StopQuiet, EnteringHeld, RemoteReclaimable, RemoteAt, Removing,
        Attached
<1>7. CASE UiClose
  <2>1. /\ uiPc.op = "close" /\ uiPc' = Idle /\ Idle.op = "idle"
        /\ cliOpen' = [cliOpen EXCEPT ![uiPc.conn] = FALSE]
        /\ active' = [active EXCEPT ![uiPc.conn] = FALSE]
        /\ UNCHANGED <<ioPc, started, slot, pos, hookState, currPos, entering>>
    BY <1>7 DEF UiClose, SS_CloseSession, Idle, At
  <2>2. QED
    BY <1>0, <2>1, ReclaimTypes
    DEF ReclaimInv, SlotsHoldSessions, RemovalsDetached, IoHoldsSession, UiOps,
        StopQuiet, EnteringHeld, RemoteReclaimable, RemoteAt, Removing,
        Attached
<1>8. ASSUME NEW p \in Positions, Cli_StopDetaches(p) PROVE ReclaimInv'
  <2> DEFINE c == slot[p]
  <2>1. c \in Conns /\ cliOpen[c] /\ pos[c] = p
    BY <1>0, <1>8, ReclaimTypes DEF Cli_StopDetaches, SlotsHoldSessions
  <2>2. /\ slot' = [slot EXCEPT ![p] = NoConn]
        /\ uiPc' = At("close", c) /\ uiPc.op = "idle"
        /\ UNCHANGED <<ioPc, started, hookState, currPos, entering, pos, cliOpen,
                       active>>
        /\ started = "joined" /\ entering = NoPos
    BY <1>8, <2>1 DEF Cli_StopDetaches, Detach, HookLockFree, Idle, At
  <2>3. uiPc'.conn = c /\ uiPc'.op = "close" /\ ioPc.op = "idle"
    BY <1>0, <2>2 DEF At, StopQuiet
  <2> HIDE DEF c
  <2>4. SlotsHoldSessions'
    BY <1>0, <2>2, ReclaimTypes DEF SlotsHoldSessions
  <2>5. RemovalsDetached' /\ IoHoldsSession' /\ UiOps' /\ StopQuiet'
        /\ EnteringHeld' /\ RemoteReclaimable'
    BY <1>0, <2>1, <2>2, <2>3, ReclaimTypes
    DEF RemovalsDetached, IoHoldsSession, UiOps, StopQuiet, EnteringHeld,
        RemoteReclaimable, Removing
  <2>6. QED
    BY <2>4, <2>5 DEF ReclaimInv
<1>9. CASE Hook_Cli_Stop
  <2>1. /\ uiPc.op = "idle" /\ entering = NoPos /\ hookState' = "STOP"
        /\ started = "joined" /\ started' = "stopped"
        /\ UNCHANGED <<entering, slot, uiPc, ioPc, pos, cliOpen, active>>
    BY <1>9 DEF Hook_Cli_Stop, HookLockFree, Idle, At
  <2>2. QED
    BY <1>0, <2>1
    DEF ReclaimInv, SlotsHoldSessions, RemovalsDetached, IoHoldsSession, UiOps,
        StopQuiet, EnteringHeld, RemoteReclaimable, RemoteAt, Removing,
        Attached
<1>10. QED
  BY <1>1, <1>2, <1>3, <1>4, <1>5, <1>6, <1>7, <1>8, <1>9 DEF UiStep
LEMMA ReclaimIo ==
  ASSUME TypeOK, ReclaimInv, IoTail \/ (\E c \in Conns : IoSession(c))
  PROVE  ReclaimInv'
<1> USE DEF clientVars, hookVars, history, sessionVars, serverVars
<1>0. /\ SlotsHoldSessions /\ RemovalsDetached /\ IoHoldsSession
      /\ UiOps /\ StopQuiet /\ EnteringHeld /\ RemoteReclaimable
  BY DEF ReclaimInv
<1>1. ASSUME NEW c \in Conns, Cli_OnHandShakeReply(c) PROVE ReclaimInv'
  BY <1>1, ReclaimFrame DEF Cli_OnHandShakeReply, reclaimVars
<1>2. ASSUME NEW c \in Conns, Cli_OnLeave(c) \/ Cli_SessionFails(c)
      PROVE  ReclaimInv'
  <2>1. /\ ioPc = Idle /\ Idle.op = "idle" /\ Attached(c)
        /\ ioPc' = Idle \/ (ioPc'.op \in {"leave", "fail"} /\ ioPc'.conn = c)
        /\ UNCHANGED <<uiPc, started, slot, pos, cliOpen, active, hookState,
                       currPos, entering>>
        /\ started # "joined"
    BY <1>2 DEF Cli_OnLeave, Cli_SessionFails, IoReady, Idle, At
  <2>2. QED
    BY <1>0, <2>1
    DEF ReclaimInv, SlotsHoldSessions, RemovalsDetached, IoHoldsSession, UiOps,
        StopQuiet, EnteringHeld, RemoteReclaimable, RemoteAt, Removing,
        Attached
<1>3. CASE Cli_LeaveReturn
  <2>1. /\ ioPc' = Idle /\ Idle.op = "idle" /\ hookState' = "NORMAL"
        /\ UNCHANGED <<uiPc, started, entering, slot, pos, cliOpen, active>>
    BY <1>3 DEF Cli_LeaveReturn, Hook_Cli_ControlReturn, Idle, At
  <2>2. QED
    BY <1>0, <2>1
    DEF ReclaimInv, SlotsHoldSessions, RemovalsDetached, IoHoldsSession, UiOps,
        StopQuiet, EnteringHeld, RemoteReclaimable, RemoteAt, Removing,
        Attached
<1>4. CASE IoRemoveServer
  <2> DEFINE c == ioPc.conn
  <2>1. /\ ioPc.op = "fail"
        /\ UNCHANGED <<uiPc, started, pos, cliOpen, active, hookState, currPos,
                       entering>>
    BY <1>4 DEF IoRemoveServer
  <2>2. c \in Conns /\ cliOpen[c] /\ slot[pos[c]] = c /\ pos[c] \in Positions
    BY <1>0, <2>1, ReclaimTypes DEF IoHoldsSession, Attached
  <2>3. CASE started # "started"
    <3>1. ioPc' = Idle /\ Idle.op = "idle" /\ UNCHANGED slot
      BY <1>4, <2>3 DEF IoRemoveServer, Idle, At
    <3>2. QED
      BY <1>0, <2>1, <3>1
      DEF ReclaimInv, SlotsHoldSessions, RemovalsDetached, IoHoldsSession,
          UiOps, StopQuiet, EnteringHeld, RemoteReclaimable, RemoteAt, Removing,
        Attached
  <2>4. CASE started = "started"
    <3>1. /\ slot' = [slot EXCEPT ![pos[c]] = NoConn]
          /\ ioPc' = At(IF active[c] THEN "return" ELSE "close", c)
          /\ entering = NoPos
      BY <1>4, <2>4 DEF IoRemoveServer, Detach, AfterDetach, HookLockFree
    <3>2. /\ ioPc'.conn = c /\ ioPc'.op \in {"return", "close"}
          /\ active[c] => ioPc'.op = "return"
      BY <3>1 DEF At
    <3> HIDE DEF c
    <3>3. SlotsHoldSessions'
      BY <1>0, <2>1, <2>2, <3>1, ReclaimTypes DEF SlotsHoldSessions
    <3>4. Removing(uiPc) => uiPc.conn # c
      BY <1>0, <2>2 DEF RemovalsDetached
    <3>5. RemovalsDetached' /\ IoHoldsSession' /\ UiOps' /\ StopQuiet'
          /\ EnteringHeld'
      BY <1>0, <2>1, <2>2, <3>1, <3>2, <3>4, ReclaimTypes
      DEF RemovalsDetached, IoHoldsSession, UiOps, StopQuiet, EnteringHeld,
          Removing
    <3>6. RemoteReclaimable'
      <4> SUFFICES ASSUME NEW p \in Positions, RemoteAt(p)'
                   PROVE  \/ slot'[p] # NoConn /\ active'[slot'[p]]
                          \/ \E pc \in {uiPc', ioPc'} :
                               pc.op = "return" /\ pos'[pc.conn] = p
        BY DEF RemoteReclaimable
      <4>1. RemoteAt(p)
        BY <2>1 DEF RemoteAt
      <4>2. CASE p = pos[c]
        BY <1>0, <2>1, <2>2, <2>4, <3>2, <4>1, <4>2 DEF RemoteReclaimable
      <4>3. CASE p # pos[c]
        BY <1>0, <2>1, <2>2, <2>4, <3>1, <4>1, <4>3, ReclaimTypes
        DEF RemoteReclaimable
      <4>4. QED
        BY <4>2, <4>3
    <3>7. QED
      BY <3>3, <3>5, <3>6 DEF ReclaimInv
  <2>5. QED
    BY <2>3, <2>4
<1>5. CASE IoReturn
  <2>1. /\ ioPc.op = "return" /\ ioPc'.op = "close" /\ ioPc'.conn = ioPc.conn
        /\ hookState' = "NORMAL"
        /\ UNCHANGED <<uiPc, started, entering, slot, pos, cliOpen, active>>
    BY <1>5 DEF IoReturn, ReturnOnRemove, Hook_Cli_ControlReturn, At
  <2>2. QED
    BY <1>0, <2>1
    DEF ReclaimInv, SlotsHoldSessions, RemovalsDetached, IoHoldsSession, UiOps,
        StopQuiet, EnteringHeld, RemoteReclaimable, RemoteAt, Removing,
        Attached
<1>6. CASE IoClose
  <2>1. /\ ioPc.op = "close" /\ ioPc' = Idle /\ Idle.op = "idle"
        /\ cliOpen' = [cliOpen EXCEPT ![ioPc.conn] = FALSE]
        /\ active' = [active EXCEPT ![ioPc.conn] = FALSE]
        /\ UNCHANGED <<uiPc, started, slot, pos, hookState, currPos, entering>>
    BY <1>6 DEF IoClose, SS_CloseSession, Idle, At
  <2>2. QED
    BY <1>0, <2>1, ReclaimTypes
    DEF ReclaimInv, SlotsHoldSessions, RemovalsDetached, IoHoldsSession, UiOps,
        StopQuiet, EnteringHeld, RemoteReclaimable, RemoteAt, Removing,
        Attached
<1>7. QED
  BY <1>1, <1>2, <1>3, <1>4, <1>5, <1>6 DEF IoTail, IoSession

LEMMA ReclaimHook ==
  ASSUME TypeOK, ReclaimInv, HookStep
  PROVE  ReclaimInv'
<1> USE DEF clientVars, hookVars, history, sessionVars, serverVars
<1>0. /\ SlotsHoldSessions /\ RemovalsDetached /\ IoHoldsSession
      /\ UiOps /\ StopQuiet /\ EnteringHeld /\ RemoteReclaimable
  BY DEF ReclaimInv
<1>1. ASSUME NEW p \in Positions, OnNormalMouseAction(p) PROVE ReclaimInv'
  <2>1. /\ slot[p] # NoConn /\ entering' = p
        /\ active' = [active EXCEPT ![slot[p]] = TRUE]
        /\ UNCHANGED <<uiPc, ioPc, started, hookState, currPos, slot, pos,
                       cliOpen>>
    BY <1>1 DEF OnNormalMouseAction, SS_SendEnterMsg
  <2>2. SlotsHoldSessions' /\ RemovalsDetached' /\ IoHoldsSession' /\ UiOps'
        /\ StopQuiet'
    BY <1>0, <2>1
    DEF SlotsHoldSessions, RemovalsDetached, IoHoldsSession, UiOps,
        StopQuiet, Removing, Attached
  <2>3. slot[p] \in Conns
    BY <2>1, ReclaimTypes
  <2>4. EnteringHeld' /\ RemoteReclaimable'
    BY <1>0, <2>1, <2>3, ReclaimTypes
    DEF EnteringHeld, RemoteReclaimable, RemoteAt
  <2>5. QED
    BY <2>2, <2>4 DEF ReclaimInv
<1>5. CASE EnterRemote
  <2>1. /\ entering # NoPos /\ entering' = NoPos /\ currPos' = entering
        /\ UNCHANGED <<uiPc, ioPc, started, slot, pos, cliOpen, active>>
    BY <1>5 DEF EnterRemote, HookLockFree
  <2>2. QED
    BY <1>0, <2>1
    DEF ReclaimInv, SlotsHoldSessions, RemovalsDetached, IoHoldsSession, UiOps,
        StopQuiet, EnteringHeld, RemoteReclaimable, RemoteAt, Removing,
        Attached
<1>2. CASE HookReadsRemote
  BY <1>2, ReclaimFrame DEF HookReadsRemote, reclaimVars
<1>3. CASE OnRemoteInput
  BY <1>3, ReclaimFrame DEF OnRemoteInput, reclaimVars
<1>4. QED
  BY <1>1, <1>2, <1>3, <1>5 DEF HookStep

(* Together they are the invariant, from which the property is read off.   *)
LEMMA ReclaimInvariant == Spec => []ReclaimInv
<1>1. Init => ReclaimInv
  BY DEF Init, ReclaimInv, SlotsHoldSessions, RemovalsDetached, IoHoldsSession,
         UiOps, StopQuiet, EnteringHeld, RemoteReclaimable, RemoteAt, Removing,
         Idle, At
<1>2. TypeOK /\ ReclaimInv /\ [Next]_vars => ReclaimInv'
  <2> SUFFICES ASSUME TypeOK, ReclaimInv, [Next]_vars PROVE ReclaimInv'
    OBVIOUS
  <2>1. CASE SrvStep
    <3>1. UNCHANGED reclaimVars
      BY <2>1 DEF SrvStep, Srv_Start, Srv_Stop, Srv_Accept, Srv_SessionFails,
         Srv_OnHandShake, Srv_OnEnter, Srv_OnInput, clientVars, hookVars,
         sessionVars, reclaimVars
    <3>2. QED
      BY <3>1, ReclaimFrame
  <2>2. ASSUME NEW c \in Conns, LinkDown(c) PROVE ReclaimInv'
    BY <2>2, ReclaimFrame DEF LinkDown, clientVars, hookVars, sessionVars, reclaimVars
  <2>3. CASE UNCHANGED vars
    BY <2>3, ReclaimFrame DEF vars, clientVars, hookVars, sessionVars, reclaimVars
  <2>4. QED
    BY <2>1, <2>2, <2>3, ReclaimUi, ReclaimIo, ReclaimHook DEF Next
<1>3. QED
  BY <1>1, <1>2, TypeCorrect, PTL DEF Spec

(* Whatever the threads do, the hook never diverts the input to a position  *)
(* from which no Cli_RemoveServer would bring it back: is_active, the       *)
(* slots and the state of the hook agree, also between the critical section *)
(* of a removal and the call of Hook_Cli_ControlReturn after it.           *)
THEOREM RemoteAlwaysReclaimable == Spec => []RemoteReclaimable
<1>1. ReclaimInv => RemoteReclaimable
  BY DEF ReclaimInv
<1>2. QED
  BY <1>1, ReclaimInvariant, PTL

-----------------------------------------------------------------------------
(* Control of a server is a token, and the cursor comes back with it.      *)

(* How many messages of a kind there are, on an empty wire, with one more   *)
(* behind, and with the first taken away.                                  *)
LEMMA CountIsNat ==
  ASSUME NEW S, NEW w \in Seq(S), NEW x
  PROVE  /\ IsFiniteSet({i \in 1..Len(w) : w[i] = x})
         /\ Count(w, x) \in Nat
<1>1. Len(w) \in Nat /\ {i \in 1..Len(w) : w[i] = x} \in SUBSET (1..Len(w))
  OBVIOUS
<1>2. IsFiniteSet(1..Len(w))
  BY <1>1, FS_Interval
<1>3. IsFiniteSet({i \in 1..Len(w) : w[i] = x})
  BY <1>1, <1>2, FS_Subset
<1>4. QED
  BY <1>3, FS_CardinalityType DEF Count

LEMMA CountEmpty ==
  ASSUME NEW x
  PROVE  Count(<<>>, x) = 0
<1>1. {i \in 1..Len(<<>>) : <<>>[i] = x} = {}
  OBVIOUS
<1>2. QED
  BY <1>1, FS_EmptySet DEF Count

LEMMA CountAppend ==
  ASSUME NEW S, NEW w \in Seq(S), NEW m \in S, NEW x
  PROVE  Count(Append(w, m), x) = Count(w, x) + IF m = x THEN 1 ELSE 0
<1> DEFINE v == Append(w, m)
           A == {i \in 1..Len(w) : w[i] = x}
           B == {i \in 1..Len(v) : v[i] = x}
<1>1. /\ Len(w) \in Nat /\ Len(v) = Len(w) + 1 /\ v[Len(w) + 1] = m
      /\ \A i \in 1..Len(w) : v[i] = w[i]
  OBVIOUS
<1>2. IsFiniteSet(A) /\ Count(w, x) \in Nat
  BY CountIsNat
<1>3. Count(w, x) = Cardinality(A) /\ Count(v, x) = Cardinality(B)
  BY DEF Count
<1>4. Len(w) + 1 \notin A
  BY <1>1
<1> HIDE DEF v
<1>5. CASE m = x
  <2>1. B = A \cup {Len(w) + 1}
    BY <1>1, <1>5
  <2>2. Cardinality(A \cup {Len(w) + 1}) = Cardinality(A) + 1
    BY <1>2, <1>4, FS_AddElement
  <2>3. QED
    BY <1>2, <1>3, <1>5, <2>1, <2>2 DEF v
<1>6. CASE m # x
  <2>1. B = A
    BY <1>1, <1>6
  <2>2. Count(v, x) = Count(w, x)
    BY <1>3, <2>1, Zenon
  <2>3. QED
    BY <1>2, <1>6, <2>2 DEF v
<1>7. QED
  BY <1>5, <1>6

LEMMA CountTail ==
  ASSUME NEW S, NEW w \in Seq(S), w # <<>>, NEW x
  PROVE  /\ Count(w, x) = Count(Tail(w), x) + IF Head(w) = x THEN 1 ELSE 0
         /\ Count(Tail(w), x) \in Nat
<1> DEFINE v == Tail(w)
           A == {i \in 1..Len(v) : v[i] = x}
           B == {i \in 1..Len(w) : w[i] = x}
           f == [i \in A |-> i + 1]
<1>1. /\ v \in Seq(S) /\ Len(w) \in Nat \ {0} /\ Len(v) = Len(w) - 1
      /\ Head(w) = w[1] /\ \A i \in 1..Len(v) : v[i] = w[i + 1]
  OBVIOUS
<1>2. /\ IsFiniteSet(A) /\ Count(v, x) \in Nat
      /\ IsFiniteSet(B) /\ Count(w, x) \in Nat
  BY <1>1, CountIsNat
<1>3. Count(v, x) = Cardinality(A) /\ Count(w, x) = Cardinality(B)
  BY DEF Count
<1> HIDE DEF v
<1>4. ExistsBijection(A, B \ {1})
  <2>1. f \in [A -> B \ {1}]
    BY <1>1
  <2>2. \A i, j \in A : f[i] = f[j] => i = j
    BY <1>1
  <2>3. ASSUME NEW k \in B \ {1} PROVE \E i \in A : f[i] = k
    <3>1. k - 1 \in A
      BY <1>1, <2>3
    <3>2. f[k - 1] = k
      BY <1>1, <2>3, <3>1
    <3>3. QED
      BY <3>1, <3>2
  <2> HIDE DEF f
  <2>4. f \in Injection(A, B \ {1}) /\ f \in Surjection(A, B \ {1})
    BY <2>1, <2>2, <2>3 DEF Injection, IsInjective, Surjection
  <2>5. QED
    BY <2>4 DEF ExistsBijection, Bijection
<1>5. Cardinality(B \ {1}) = Cardinality(A)
  BY <1>2, <1>4, FS_Bijection
<1>6. Cardinality(B \ {1}) = IF 1 \in B THEN Cardinality(B) - 1 ELSE Cardinality(B)
  BY <1>2, FS_RemoveElement
<1>7. 1 \in B <=> Head(w) = x
  BY <1>1
<1>8. Count(w, x) = Count(v, x) + IF Head(w) = x THEN 1 ELSE 0
  BY <1>2, <1>3, <1>5, <1>6, <1>7, FS_CardinalityType
<1>9. QED
  BY <1>2, <1>8 DEF v
-----------------------------------------------------------------------------
(* The position of a session that is being removed stays empty.             *)
Vacated ==
  \A pc \in {uiPc, ioPc} : Removing(pc) => slot[pos[pc.conn]] = NoConn

(* ENTER is only sent while the input is local, whatever else goes on.      *)
EnteringNormal == entering # NoPos => hookState = "NORMAL"

StoppedQuiet == started = "stopped" => hookState = "STOP" /\ ioPc.op = "idle"

(* Control is taken back for active sessions only.                          *)
ReturnActive ==
  \A pc \in {uiPc, ioPc} : pc.op = "return" => active[pc.conn]

Settled == Vacated /\ EnteringNormal /\ StoppedQuiet /\ ReturnActive

(* What holds of a session in its slot, and of one that is being removed.   *)
LEMMA Sessions ==
  ASSUME TypeOK, ReclaimInv
  PROVE  /\ \A p \in Positions :
              slot[p] # NoConn => /\ slot[p] \in Conns /\ Attached(slot[p])
                                  /\ pos[slot[p]] = p
         /\ \A pc \in {uiPc, ioPc} :
              Removing(pc) => pc.conn \in Conns /\ ~Attached(pc.conn)
BY NullAssumption
DEF TypeOK, ReclaimInv, SlotsHoldSessions, RemovalsDetached, Attached

LEMMA SettledStep ==
  ASSUME TypeOK, ReclaimInv, Settled, [Next]_vars
  PROVE  Settled'
<1> USE DEF clientVars, hookVars, history, sessionVars, serverVars
<1>0. /\ Vacated /\ EnteringNormal /\ StoppedQuiet /\ ReturnActive
      /\ SlotsHoldSessions /\ RemovalsDetached /\ IoHoldsSession
      /\ UiOps /\ StopQuiet /\ EnteringHeld
  BY DEF Settled, ReclaimInv
<1>1. ASSUME UNCHANGED reclaimVars PROVE Settled'
  BY <1>1 DEF reclaimVars, Settled, Vacated, EnteringNormal, StoppedQuiet,
     ReturnActive, Removing
<1>2. CASE Cli_Start
  BY <1>0, <1>2 DEF Cli_Start, Settled, Vacated, EnteringNormal, StoppedQuiet,
     ReturnActive, Removing
<1>3. CASE Cli_Stop
  BY <1>0, <1>3 DEF Cli_Stop, Settled, Vacated, EnteringNormal, StoppedQuiet,
     ReturnActive, Removing
<1>4. CASE Cli_StopJoined
  BY <1>0, <1>4 DEF Cli_StopJoined, Settled, Vacated, EnteringNormal,
     StoppedQuiet, ReturnActive, Removing
<1>5. ASSUME NEW p \in Positions, NEW c \in Conns, Cli_InsertServer(p, c)
      PROVE  Settled'
  <2>1. /\ uiPc' = uiPc /\ ioPc' = ioPc /\ uiPc = Idle /\ ioPc = Idle
        /\ entering' = entering /\ entering = NoPos /\ started' = "started"
    BY <1>5 DEF Cli_InsertServer, HookLockFree
  <2>2. Idle.op = "idle"
    BY DEF Idle, At
  <2>3. QED
    BY <2>1, <2>2 DEF Settled, Vacated, EnteringNormal, StoppedQuiet,
       ReturnActive, Removing
<1>6. ASSUME NEW p \in Positions, Cli_RemoveServer(p) PROVE Settled'
  <2> DEFINE c == slot[p]
  <2>1. /\ c \in Conns /\ pos[c] = p
        /\ slot' = [slot EXCEPT ![p] = NoConn]
        /\ uiPc' = At(IF active[c] THEN "return" ELSE "close", c)
        /\ UNCHANGED <<ioPc, started, hookState, entering, pos, active>>
        /\ ioPc = Idle /\ started = "started"
    <3>1. c \in Conns /\ pos[c] = p
      BY <1>0, <1>6, ReclaimTypes DEF Cli_RemoveServer, SlotsHoldSessions
    <3>2. QED
      BY <1>6, <3>1 DEF Cli_RemoveServer, Detach, AfterDetach
  <2>2. /\ uiPc'.conn = c /\ uiPc'.op = IF active[c] THEN "return" ELSE "close"
        /\ Idle.op = "idle"
    BY <2>1 DEF At, Idle
  <2>3. QED
    BY <1>0, <2>1, <2>2, ReclaimTypes DEF Settled, Vacated, EnteringNormal,
       StoppedQuiet, ReturnActive, Removing
<1>7. CASE UiReturn
  <2>1. /\ uiPc.op = "return" /\ uiPc'.op = "close" /\ uiPc'.conn = uiPc.conn
        /\ hookState' = "NORMAL"
        /\ UNCHANGED <<ioPc, started, entering, slot, pos, active>>
    BY <1>7 DEF UiReturn, ReturnOnRemove, Hook_Cli_ControlReturn, At
  <2>2. QED
    BY <1>0, <2>1 DEF Settled, Vacated, EnteringNormal, StoppedQuiet,
       ReturnActive, Removing, StopQuiet
<1>8. CASE IoReturn
  <2>1. /\ ioPc.op = "return" /\ ioPc'.op = "close" /\ ioPc'.conn = ioPc.conn
        /\ hookState' = "NORMAL"
        /\ UNCHANGED <<uiPc, started, entering, slot, pos, active>>
    BY <1>8 DEF IoReturn, ReturnOnRemove, Hook_Cli_ControlReturn, At
  <2>2. QED
    BY <1>0, <2>1 DEF Settled, Vacated, EnteringNormal, StoppedQuiet,
       ReturnActive, Removing
<1>9. CASE UiClose
  <2>1. /\ uiPc.op = "close" /\ uiPc'.op = "idle"
        /\ active' = [active EXCEPT ![uiPc.conn] = FALSE]
        /\ UNCHANGED <<ioPc, started, hookState, entering, slot, pos>>
    BY <1>9 DEF UiClose, SS_CloseSession, Idle, At
  <2>2. QED
    BY <1>0, <2>1, ReclaimTypes DEF Settled, Vacated, EnteringNormal, StoppedQuiet,
       ReturnActive, Removing, RemovalsDetached
<1>10. CASE IoClose
  <2>1. /\ ioPc.op = "close" /\ ioPc'.op = "idle"
        /\ active' = [active EXCEPT ![ioPc.conn] = FALSE]
        /\ UNCHANGED <<uiPc, started, hookState, entering, slot, pos>>
    BY <1>10 DEF IoClose, SS_CloseSession, Idle, At
  <2>2. QED
    BY <1>0, <2>1, ReclaimTypes DEF Settled, Vacated, EnteringNormal, StoppedQuiet,
       ReturnActive, Removing, RemovalsDetached
<1>11. ASSUME NEW c \in Conns, Cli_OnLeave(c) \/ Cli_SessionFails(c)
       PROVE  Settled'
  <2>1. /\ started # "stopped" /\ ~Removing(ioPc')
        /\ UNCHANGED <<uiPc, started, hookState, entering, slot, pos, active>>
    BY <1>11 DEF Cli_OnLeave, Cli_SessionFails, IoReady, Removing, At, Idle
  <2>2. QED
    BY <1>0, <2>1 DEF Settled, Vacated, EnteringNormal, StoppedQuiet,
       ReturnActive, Removing
<1>12. CASE Cli_LeaveReturn
  <2>1. /\ ioPc.op = "leave" /\ ioPc'.op = "idle" /\ hookState' = "NORMAL"
        /\ UNCHANGED <<uiPc, started, entering, slot, pos, active>>
    BY <1>12 DEF Cli_LeaveReturn, Hook_Cli_ControlReturn, Idle, At
  <2>2. QED
    BY <1>0, <2>1 DEF Settled, Vacated, EnteringNormal, StoppedQuiet,
       ReturnActive, Removing
<1>13. CASE IoRemoveServer
  <2> DEFINE c == ioPc.conn
  <2>1. /\ ioPc.op = "fail" /\ c \in Conns
        /\ UNCHANGED <<uiPc, started, hookState, entering, pos, active>>
    BY <1>0, <1>13 DEF IoRemoveServer, IoHoldsSession
  <2>2. CASE started # "started"
    <3>1. ioPc'.op = "idle" /\ UNCHANGED slot
      BY <1>13, <2>2 DEF IoRemoveServer, Idle, At
    <3>2. QED
      BY <1>0, <2>1, <3>1 DEF Settled, Vacated, EnteringNormal, StoppedQuiet,
         ReturnActive, Removing
  <2>3. CASE started = "started"
    <3>1. /\ slot' = [slot EXCEPT ![pos[c]] = NoConn]
          /\ ioPc' = At(IF active[c] THEN "return" ELSE "close", c)
      BY <1>13, <2>3 DEF IoRemoveServer, Detach, AfterDetach
    <3>2. ioPc'.conn = c /\ ioPc'.op = IF active[c] THEN "return" ELSE "close"
      BY <3>1 DEF At
    <3>3. Removing(uiPc) => uiPc.conn \in Conns
      BY <1>0 DEF RemovalsDetached
    <3>4. QED
      BY <1>0, <2>1, <2>3, <3>1, <3>2, <3>3, ReclaimTypes DEF Settled, Vacated,
         EnteringNormal, StoppedQuiet, ReturnActive, Removing
  <2>4. QED
    BY <2>2, <2>3
<1>14. ASSUME NEW p \in Positions, OnNormalMouseAction(p) PROVE Settled'
  <2>1. /\ hookState = "NORMAL" /\ active' = [active EXCEPT ![slot[p]] = TRUE]
        /\ UNCHANGED <<uiPc, ioPc, started, hookState, slot, pos>>
    BY <1>14 DEF OnNormalMouseAction, SS_SendEnterMsg
  <2>2. \A pc \in {uiPc, ioPc} : Removing(pc) => pc.conn \in Conns
    BY <1>0 DEF RemovalsDetached
  <2>3. QED
    BY <1>0, <2>1, <2>2, ReclaimTypes DEF Settled, Vacated, EnteringNormal,
       StoppedQuiet, ReturnActive, Removing
<1>15. CASE EnterRemote
  BY <1>0, <1>15 DEF EnterRemote, HookLockFree, Settled, Vacated, EnteringNormal,
     StoppedQuiet, ReturnActive, Removing
<1>16. ASSUME NEW c \in Conns, Cli_OnHandShakeReply(c) \/ LinkDown(c)
       PROVE  Settled'
  BY <1>1, <1>16 DEF Cli_OnHandShakeReply, LinkDown, reclaimVars
<1>17. CASE HookReadsRemote \/ OnRemoteInput \/ SrvStep \/ UNCHANGED vars
  BY <1>1, <1>17 DEF HookReadsRemote, OnRemoteInput, SrvStep, Srv_Start,
     Srv_Stop, Srv_Accept, Srv_SessionFails, Srv_OnHandShake, Srv_OnEnter,
     Srv_OnInput, vars, reclaimVars
<1>18. ASSUME NEW p \in Positions, Cli_StopDetaches(p) PROVE Settled'
  <2> DEFINE c == slot[p]
  <2>1. c \in Conns /\ pos[c] = p
    BY <1>0, <1>18, ReclaimTypes DEF Cli_StopDetaches, SlotsHoldSessions
  <2>2. /\ slot' = [slot EXCEPT ![p] = NoConn]
        /\ uiPc'.conn = c /\ uiPc'.op = "close"
        /\ UNCHANGED <<ioPc, started, hookState, entering, pos, active>>
        /\ started = "joined" /\ ioPc.op = "idle"
    BY <1>0, <1>18, <2>1 DEF Cli_StopDetaches, Detach, At, StopQuiet
  <2>3. QED
    BY <1>0, <2>1, <2>2, ReclaimTypes DEF Settled, Vacated, EnteringNormal,
       StoppedQuiet, ReturnActive, Removing
<1>19. CASE Hook_Cli_Stop
  <2>1. /\ ioPc.op = "idle" /\ entering = NoPos /\ hookState' = "STOP"
        /\ UNCHANGED <<entering, slot, uiPc, ioPc, pos, active>>
    BY <1>0, <1>19 DEF Hook_Cli_Stop, HookLockFree, StopQuiet
  <2>2. QED
    BY <1>0, <2>1 DEF Settled, Vacated, EnteringNormal, StoppedQuiet,
       ReturnActive, Removing
<1>20. QED
  BY <1>2, <1>3, <1>4, <1>5, <1>6, <1>7, <1>8, <1>9, <1>10, <1>11, <1>12,
     <1>13, <1>14, <1>15, <1>16, <1>17, <1>18, <1>19
  DEF Next, UiStep, IoSession, IoTail, HookStep
-----------------------------------------------------------------------------
(* The hook diverts the input to c's position, or is about to.              *)
Wanted(c) == RemoteAt(pos[c]) \/ entering = pos[c]

(* A server the hook points at has the token, in some form ...              *)
Kept(c) == Attached(c) /\ Alive(c) /\ Wanted(c) => Tokens(c) > 0

(* ... and has it once, and no other has one, even if it is out of reach.   *)
OnlyOne(c) == Attached(c) => Tokens(c) <= One(Wanted(c))

TokenInv == \A c \in Conns : Kept(c) /\ (~seized => OnlyOne(c))

(* A token is in one of four places.                                        *)
LEMMA TokenParts ==
  ASSUME TypeOK, NEW c \in Conns
  PROVE  /\ Count(c2s[c], "ENTER") \in Nat /\ Count(s2c[c], "LEAVE") \in Nat
         /\ Tokens(c) \in Nat
<1>1. c2s[c] \in Seq(ToServer) /\ s2c[c] \in Seq(ToClient)
  BY DEF TypeOK
<1>2. Count(c2s[c], "ENTER") \in Nat /\ Count(s2c[c], "LEAVE") \in Nat
  BY <1>1, CountIsNat
<1>3. One(entered[c]) \in Nat /\ One(ioPc = At("leave", c)) \in Nat
  BY DEF One
<1>4. QED
  BY <1>2, <1>3 DEF Tokens

LEMMA TokenPartsNext ==
  ASSUME TypeOK', NEW c \in Conns
  PROVE  /\ Count(c2s'[c], "ENTER") \in Nat /\ Count(s2c'[c], "LEAVE") \in Nat
         /\ Tokens(c)' \in Nat
<1>1. c2s'[c] \in Seq(ToServer) /\ s2c'[c] \in Seq(ToClient)
  BY DEF TypeOK
<1>2. Count(c2s'[c], "ENTER") \in Nat /\ Count(s2c'[c], "LEAVE") \in Nat
  BY <1>1, CountIsNat
<1>3. One(entered'[c]) \in Nat /\ One(ioPc' = At("leave", c)) \in Nat
  BY DEF One
<1>4. QED
  BY <1>2, <1>3 DEF Tokens

(* Where nothing of it changes, the number does not.                        *)
LEMMA SameTokens ==
  ASSUME NEW c, c2s'[c] = c2s[c], s2c'[c] = s2c[c], entered'[c] = entered[c],
         ioPc' = At("leave", c) <=> ioPc = At("leave", c)
  PROVE  Tokens(c)' = Tokens(c)
<1>1. One(entered'[c]) = One(entered[c])
  OBVIOUS
<1>2. One(ioPc' = At("leave", c)) = One(ioPc = At("leave", c))
  BY DEF One
<1>3. QED
  BY <1>1, <1>2 DEF Tokens

(* The two halves of the invariant across a step that does not move the     *)
(* hook.                                                                    *)
LEMMA TokensFollow ==
  ASSUME TypeOK, TypeOK', TokenInv, NEW d \in Conns, seized => seized',
         Attached(d)' => Attached(d), Alive(d)' => Alive(d),
         Attached(d)' => (Wanted(d)' <=> Wanted(d)),
         Attached(d)' /\ Alive(d)' /\ Tokens(d) > 0 => Tokens(d)' > 0,
         Attached(d)' /\ Tokens(d) <= 1 => Tokens(d)' <= Tokens(d)
  PROVE  Kept(d)' /\ (~seized' => OnlyOne(d)')
<1>1. Kept(d) /\ (~seized => OnlyOne(d))
  BY DEF TokenInv
<1>2. Kept(d)'
  BY <1>1 DEF Kept
<1>3. ASSUME ~seized', Attached(d)' PROVE Tokens(d)' <= One(Wanted(d))'
  <2>1. Tokens(d) <= One(Wanted(d))
    BY <1>1, <1>3 DEF OnlyOne
  <2>2. One(Wanted(d)) <= 1 /\ One(Wanted(d)) \in Nat
    BY DEF One
  <2>3. One(Wanted(d))' = One(Wanted(d))
    BY <1>3 DEF One
  <2>4. Tokens(d) \in Nat /\ Tokens(d)' \in Nat
    BY TokenParts, TokenPartsNext
  <2>5. QED
    BY <1>3, <2>1, <2>2, <2>3, <2>4
<1>4. QED
  BY <1>2, <1>3 DEF OnlyOne

(* The same, where no connection's token moves at all.                      *)
LEMMA TokensStay ==
  ASSUME TypeOK, TypeOK', TokenInv, seized => seized',
         UNCHANGED <<pos, cliOpen, srvState, linkUp, entered, c2s, s2c>>,
         \A d \in Conns :
           /\ Attached(d)' => Attached(d) /\ (Wanted(d)' <=> Wanted(d))
           /\ ioPc' = At("leave", d) <=> ioPc = At("leave", d)
  PROVE  TokenInv'
<1> SUFFICES ASSUME NEW d \in Conns
             PROVE  Kept(d)' /\ (~seized' => OnlyOne(d)')
  BY DEF TokenInv
<1>1. Tokens(d)' = Tokens(d)
  BY SameTokens
<1>2. Tokens(d) \in Nat
  BY TokenParts
<1>3. Alive(d)' <=> Alive(d)
  BY DEF Alive
<1>4. QED
  BY <1>1, <1>2, <1>3, TokensFollow

(* Taking control back for a session that is being removed takes it from    *)
(* nobody else, unless seized says so.                                      *)
LEMMA ReturnKeeps ==
  ASSUME TypeOK, TypeOK', ReclaimInv, Settled, TokenInv,
         NEW pc \in {uiPc, ioPc}, Removing(pc), ReturnOnRemove(pc.conn),
         UNCHANGED <<currPos, entering, slot, sessionVars, serverVars, c2s, s2c,
                     linkUp>>,
         \A d \in Conns : ioPc' = At("leave", d) <=> ioPc = At("leave", d)
  PROVE  TokenInv'
<1> USE DEF sessionVars, serverVars
<1> SUFFICES ASSUME NEW d \in Conns
             PROVE  Kept(d)' /\ (~seized' => OnlyOne(d)')
  BY DEF TokenInv
<1>1. hookState' = "NORMAL" /\ entering = NoPos
  BY DEF ReturnOnRemove, Hook_Cli_ControlReturn, HookLockFree
<1>2. ~Wanted(d)'
  BY <1>1, ReclaimTypes DEF Wanted, RemoteAt
<1>3. Tokens(d)' = Tokens(d)
  BY SameTokens
<1>4. ASSUME ~seized', Attached(d) PROVE Tokens(d) <= 0
  <2>1. ~seized /\ ~(hookState = "REMOTE" /\ currPos # pos[pc.conn])
    BY <1>4 DEF ReturnOnRemove
  <2>2. slot[pos[pc.conn]] = NoConn
    BY DEF Settled, Vacated
  <2>3. ~Wanted(d)
    BY <1>1, <1>4, <2>1, <2>2, ReclaimTypes DEF Wanted, RemoteAt, Attached
  <2>4. Tokens(d) <= One(Wanted(d))
    BY <1>4, <2>1 DEF TokenInv, OnlyOne
  <2>5. QED
    BY <2>3, <2>4 DEF One
<1>5. One(Wanted(d))' = 0
  BY <1>2 DEF One
<1>6. Attached(d)' <=> Attached(d)
  BY DEF Attached
<1>7. QED
  BY <1>2, <1>3, <1>4, <1>5, <1>6 DEF Kept, OnlyOne

(* Closing a removed session touches no session in a slot.                  *)
LEMMA CloseKeeps ==
  ASSUME TypeOK, TypeOK', ReclaimInv, TokenInv,
         NEW pc \in {uiPc, ioPc}, Removing(pc), SS_CloseSession(pc.conn),
         UNCHANGED <<hookVars, slot, seized, pos, serverVars, c2s, linkUp>>,
         \A d \in Conns : ioPc' = At("leave", d) <=> ioPc = At("leave", d)
  PROVE  TokenInv'
<1> USE DEF hookVars, serverVars
<1> SUFFICES ASSUME NEW d \in Conns
             PROVE  Kept(d)' /\ (~seized' => OnlyOne(d)')
  BY DEF TokenInv
<1>1. pc.conn \in Conns /\ ~Attached(pc.conn)
  BY Sessions
<1>2. /\ cliOpen' = [cliOpen EXCEPT ![pc.conn] = FALSE]
      /\ s2c' = [s2c EXCEPT ![pc.conn] = <<>>]
  BY DEF SS_CloseSession
<1>3. CASE d = pc.conn
  <2>1. ~Attached(d)'
    BY <1>2, <1>3, ReclaimTypes DEF Attached
  <2>2. QED
    BY <2>1 DEF Kept, OnlyOne
<1>4. CASE d # pc.conn
  <2>1. s2c'[d] = s2c[d] /\ cliOpen'[d] = cliOpen[d]
    BY <1>2, <1>4 DEF TypeOK
  <2>2. Tokens(d)' = Tokens(d) /\ Tokens(d) \in Nat
    BY <2>1, SameTokens, TokenParts
  <2>3. (Attached(d)' <=> Attached(d)) /\ (Alive(d)' <=> Alive(d))
        /\ (Wanted(d)' <=> Wanted(d))
    BY <2>1 DEF Attached, Alive, Wanted, RemoteAt
  <2>4. QED
    BY <2>2, <2>3, TokensFollow
<1>5. QED
  BY <1>3, <1>4

-----------------------------------------------------------------------------
(* The UI thread.                                                           *)
LEMMA TokenUi ==
  ASSUME TypeOK, TypeOK', ReclaimInv, Settled, TokenInv, UiStep
  PROVE  TokenInv'
<1> USE DEF clientVars, hookVars, history, sessionVars, serverVars
<1>1. CASE Cli_Start
  <2>1. /\ hookState = "STOP" /\ hookState' = "NORMAL"
        /\ UNCHANGED <<slot, pos, cliOpen, entering, ioPc, seized, srvState,
                       linkUp, entered, c2s, s2c>>
    BY <1>1 DEF Cli_Start, Settled, StoppedQuiet
  <2>2. QED
    BY <2>1, TokensStay DEF Attached, Wanted, RemoteAt
<1>2. CASE Cli_Stop
  BY <1>2, TokensStay DEF Cli_Stop, Attached, Wanted, RemoteAt
<1>3. CASE Cli_StopJoined
  BY <1>3, TokensStay DEF Cli_StopJoined, Attached, Wanted, RemoteAt
<1>4. ASSUME NEW p \in Positions, NEW c \in Conns, Cli_InsertServer(p, c)
      PROVE  TokenInv'
  <2>1. /\ slot' = [slot EXCEPT ![p] = c] /\ pos' = [pos EXCEPT ![c] = p]
        /\ cliOpen' = [cliOpen EXCEPT ![c] = TRUE]
        /\ srvState' = [srvState EXCEPT ![c] = "backlog"]
        /\ entered' = [entered EXCEPT ![c] = FALSE]
        /\ c2s' = [c2s EXCEPT ![c] = <<"HANDSHAKE">>]
        /\ s2c' = [s2c EXCEPT ![c] = <<>>]
        /\ linkUp' = [linkUp EXCEPT ![c] = TRUE]
        /\ UNCHANGED <<uiPc, ioPc, hookState, currPos, entering, seized>>
        /\ uiPc = Idle /\ ioPc = Idle /\ entering = NoPos /\ slot[p] = NoConn
        /\ started = "started"
    BY <1>4 DEF Cli_InsertServer, SS_ConnectSession, HookLockFree
  <2>2. Idle.op = "idle" /\ \A d : Idle # At("leave", d)
    BY DEF Idle, At
  <2>3. ~RemoteAt(p)
    BY <2>1, <2>2 DEF ReclaimInv, RemoteReclaimable
  <2> SUFFICES ASSUME NEW d \in Conns
               PROVE  Kept(d)' /\ (~seized' => OnlyOne(d)')
    BY DEF TokenInv
  <2>4. CASE d = c
    <3>1. /\ c2s'[d] = <<"HANDSHAKE">> /\ s2c'[d] = <<>> /\ entered'[d] = FALSE
          /\ pos'[d] = p
      BY <2>1, <2>4 DEF TypeOK
    <3>3. Count(<<>>, "LEAVE") = 0
      BY CountEmpty
    <3>4. Count(<<"HANDSHAKE">>, "ENTER") = 0
      <4>1. {i \in 1..Len(<<"HANDSHAKE">>) : <<"HANDSHAKE">>[i] = "ENTER"} = {}
        OBVIOUS
      <4>2. QED
        BY <4>1, FS_EmptySet DEF Count
    <3>5. Count(c2s'[d], "ENTER") = 0 /\ Count(s2c'[d], "LEAVE") = 0
      BY <3>1, <3>3, <3>4
    <3>6. One(entered'[d]) = 0 /\ One(ioPc' = At("leave", d)) = 0
      BY <2>1, <2>2, <3>1 DEF One
    <3>7. Tokens(d)' = 0
      BY <3>5, <3>6 DEF Tokens
    <3>8. ~Wanted(d)'
      BY <2>1, <2>3, <3>1, NullAssumption DEF Wanted, RemoteAt
    <3>9. One(Wanted(d))' = 0
      BY <3>8 DEF One
    <3>10. QED
      BY <3>7, <3>8, <3>9 DEF Kept, OnlyOne
  <2>5. CASE d # c
    <3>1. /\ c2s'[d] = c2s[d] /\ s2c'[d] = s2c[d] /\ entered'[d] = entered[d]
          /\ pos'[d] = pos[d] /\ srvState'[d] = srvState[d]
          /\ linkUp'[d] = linkUp[d] /\ cliOpen'[d] = cliOpen[d]
      BY <2>1, <2>5 DEF TypeOK
    <3>2. Attached(d)' => Attached(d)
      BY <2>1, <2>5, <3>1, ReclaimTypes DEF Attached
    <3>3. Tokens(d)' = Tokens(d) /\ Tokens(d) \in Nat
      BY <2>1, <3>1, SameTokens, TokenParts
    <3>4. (Alive(d)' <=> Alive(d)) /\ (Wanted(d)' <=> Wanted(d))
      BY <2>1, <3>1 DEF Alive, Wanted, RemoteAt
    <3>5. QED
      BY <2>1, <3>2, <3>3, <3>4, TokensFollow
  <2>6. QED
    BY <2>4, <2>5
<1>5. ASSUME NEW p \in Positions, Cli_RemoveServer(p) PROVE TokenInv'
  <2>1. /\ slot[p] \in Conns /\ pos[slot[p]] = p
    BY <1>5, Sessions DEF Cli_RemoveServer
  <2>2. /\ slot' = [slot EXCEPT ![p] = NoConn]
        /\ UNCHANGED <<ioPc, hookVars, sessionVars, serverVars, c2s, s2c, linkUp,
                       seized>>
    BY <1>5, <2>1 DEF Cli_RemoveServer, Detach
  <2>3. \A d \in Conns : Attached(d)' => Attached(d)
    BY <2>2, ReclaimTypes DEF Attached
  <2>4. QED
    BY <2>2, <2>3, TokensStay DEF Wanted, RemoteAt
<1>6. CASE UiReturn
  <2>1. /\ Removing(uiPc) /\ ReturnOnRemove(uiPc.conn)
        /\ UNCHANGED <<currPos, entering, slot, ioPc, sessionVars, serverVars,
                       c2s, s2c, linkUp>>
    BY <1>6 DEF UiReturn, Removing
  <2>2. QED
    BY <2>1, ReturnKeeps
<1>7. CASE UiClose
  <2>1. /\ Removing(uiPc) /\ SS_CloseSession(uiPc.conn)
        /\ UNCHANGED <<hookVars, slot, ioPc, seized, pos, serverVars, c2s, linkUp>>
    BY <1>7 DEF UiClose, Removing
  <2>2. QED
    BY <2>1, CloseKeeps
<1>8. ASSUME NEW p \in Positions, Cli_StopDetaches(p) PROVE TokenInv'
  <2>1. /\ slot[p] \in Conns /\ pos[slot[p]] = p
    BY <1>8, Sessions DEF Cli_StopDetaches
  <2>2. /\ slot' = [slot EXCEPT ![p] = NoConn]
        /\ UNCHANGED <<ioPc, hookVars, sessionVars, serverVars, c2s, s2c, linkUp,
                       seized>>
    BY <1>8, <2>1 DEF Cli_StopDetaches, Detach
  <2>3. \A d \in Conns : Attached(d)' => Attached(d)
    BY <2>2, ReclaimTypes DEF Attached
  <2>4. QED
    BY <2>2, <2>3, TokensStay DEF Wanted, RemoteAt
<1>9. CASE Hook_Cli_Stop
  <2>1. pos' = pos /\ slot' = slot /\ \A p \in Positions : slot[p] = NoConn
    BY <1>9 DEF Hook_Cli_Stop
  <2>2. \A d \in Conns : ~Attached(d)'
    BY <2>1, ReclaimTypes DEF Attached
  <2>3. QED
    BY <2>2 DEF TokenInv, Kept, OnlyOne
<1>10. QED
  BY <1>1, <1>2, <1>3, <1>4, <1>5, <1>6, <1>7, <1>8, <1>9 DEF UiStep

(* The IO thread.                                                           *)
LEMMA TokenIo ==
  ASSUME TypeOK, TypeOK', HandshakeOrder, ReclaimInv, Settled, TokenInv,
         IoTail \/ (\E c \in Conns : IoSession(c))
  PROVE  TokenInv'
<1> USE DEF clientVars, hookVars, history, sessionVars, serverVars
<1>1. ASSUME NEW c \in Conns, Cli_OnHandShakeReply(c) PROVE TokenInv'
  <2>1. /\ s2c[c] # <<>> /\ Head(s2c[c]) = "HANDSHAKE_REPLY"
        /\ s2c' = [s2c EXCEPT ![c] = Tail(@)]
        /\ UNCHANGED <<clientVars, pos, cliOpen, serverVars, c2s, linkUp>>
    BY <1>1 DEF Cli_OnHandShakeReply, Received
  <2> SUFFICES ASSUME NEW d \in Conns
               PROVE  Kept(d)' /\ (~seized' => OnlyOne(d)')
    BY DEF TokenInv
  <2>2. Count(s2c'[d], "LEAVE") = Count(s2c[d], "LEAVE")
    <3>1. CASE d = c
      <4>1. s2c[c] \in Seq(ToClient) /\ s2c'[c] = Tail(s2c[c])
        BY <2>1 DEF TypeOK
      <4>2. /\ Count(s2c[c], "LEAVE") = Count(Tail(s2c[c]), "LEAVE")
            /\ Count(Tail(s2c[c]), "LEAVE") \in Nat
        BY <2>1, <4>1, CountTail
      <4>3. QED
        BY <3>1, <4>1, <4>2
    <3>2. CASE d # c
      BY <2>1, <3>2 DEF TypeOK
    <3>3. QED
      BY <3>1, <3>2
  <2>3. Tokens(d)' = Tokens(d) /\ Tokens(d) \in Nat
    BY <2>1, <2>2, TokenParts DEF Tokens
  <2>4. QED
    BY <2>1, <2>3, TokensFollow DEF Attached, Alive, Wanted, RemoteAt
<1>2. ASSUME NEW c \in Conns, Cli_OnLeave(c) PROVE TokenInv'
  <2>1. /\ Attached(c) /\ s2c[c] # <<>> /\ Head(s2c[c]) = "LEAVE"
        /\ s2c' = [s2c EXCEPT ![c] = Tail(@)] /\ ioPc = Idle
        /\ UNCHANGED <<hookVars, slot, sessionVars, serverVars, c2s, linkUp, seized>>
    BY <1>2 DEF Cli_OnLeave, Received, IoReady
  <2>2. handshaked[c] /\ active[c]
    BY <2>1 DEF HandshakeOrder
  <2>3. ioPc' = At("leave", c)
    BY <1>2, <2>2 DEF Cli_OnLeave
  <2>4. \A d : ioPc # At("leave", d)
    BY <2>1 DEF Idle, At
  <2> SUFFICES ASSUME NEW d \in Conns
               PROVE  Kept(d)' /\ (~seized' => OnlyOne(d)')
    BY DEF TokenInv
  <2>5. Tokens(d)' = Tokens(d)
    <3>1. CASE d = c
      <4>1. s2c[c] \in Seq(ToClient) /\ s2c'[c] = Tail(s2c[c])
        BY <2>1 DEF TypeOK
      <4>2. /\ Count(s2c[c], "LEAVE") = Count(Tail(s2c[c]), "LEAVE")
                                           + 1
            /\ Count(Tail(s2c[c]), "LEAVE") \in Nat
        BY <2>1, <4>1, CountTail
      <4>3. /\ One(ioPc = At("leave", c)) = 0 /\ One(ioPc' = At("leave", c)) = 1
            /\ One(entered[c]) \in Nat
        BY <2>1, <2>3, <2>4 DEF One
      <4>4. Count(c2s[c], "ENTER") \in Nat
        BY TokenParts
      <4>5. QED
        BY <2>1, <3>1, <4>1, <4>2, <4>3, <4>4 DEF Tokens
    <3>2. CASE d # c
      <4>1. s2c'[d] = s2c[d]
        BY <2>1, <3>2 DEF TypeOK
      <4>2. ioPc' # At("leave", d)
        BY <2>3, <3>2 DEF At
      <4>3. QED
        BY <2>1, <2>4, <4>1, <4>2, SameTokens
    <3>3. QED
      BY <3>1, <3>2
  <2>6. Tokens(d) \in Nat
    BY TokenParts
  <2>7. QED
    BY <2>1, <2>5, <2>6, TokensFollow DEF Attached, Alive, Wanted, RemoteAt
<1>3. ASSUME NEW c \in Conns, Cli_SessionFails(c) PROVE TokenInv'
  <2>1. /\ ioPc = Idle /\ ioPc' = At("fail", c)
        /\ UNCHANGED <<hookVars, slot, seized, sessionVars, serverVars, c2s, s2c,
                       linkUp>>
    BY <1>3 DEF Cli_SessionFails, IoReady
  <2>2. \A d : ioPc # At("leave", d) /\ ioPc' # At("leave", d)
    BY <2>1 DEF Idle, At
  <2>3. QED
    BY <2>1, <2>2, TokensStay DEF Attached, Wanted, RemoteAt
<1>4. CASE Cli_LeaveReturn
  <2>1. /\ ioPc.op = "leave" /\ ioPc' = Idle /\ hookState' = "NORMAL"
        /\ entering = NoPos
        /\ UNCHANGED <<currPos, entering, slot, seized, sessionVars, serverVars,
                       c2s, s2c, linkUp>>
    BY <1>4 DEF Cli_LeaveReturn, Hook_Cli_ControlReturn, HookLockFree
  <2> PICK c \in Conns : c = ioPc.conn
    BY <2>1 DEF ReclaimInv, IoHoldsSession
  <2>2. c \in Conns /\ Attached(c)
    BY <2>1 DEF ReclaimInv, IoHoldsSession
  <2>3. ioPc = At("leave", c)
    <3>1. ioPc \in [op : Ops, conn : Conns \cup {NoConn}]
      BY DEF TypeOK, Pc
    <3>2. QED
      BY <2>1, <3>1 DEF At
  <2>4. \A d : Idle # At("leave", d)
    BY DEF Idle, At
  <2> SUFFICES ASSUME NEW d \in Conns
               PROVE  Kept(d)' /\ (~seized' => OnlyOne(d)')
    BY DEF TokenInv
  <2>5. ~Wanted(d)'
    BY <2>1, ReclaimTypes DEF Wanted, RemoteAt
  <2>6. ASSUME ~seized', Attached(d)' PROVE Tokens(d)' <= 0
    <3>1. ~seized /\ Attached(d)
      BY <2>1, <2>6 DEF Attached
    <3>2. /\ Count(c2s[c], "ENTER") \in Nat /\ Count(s2c[c], "LEAVE") \in Nat
          /\ Tokens(c) \in Nat /\ Tokens(d) \in Nat
      BY <2>2, TokenParts
    <3>3. /\ One(ioPc = At("leave", c)) = 1 /\ One(ioPc' = At("leave", c)) = 0
          /\ One(entered[c]) \in Nat /\ entered' = entered
      BY <2>1, <2>3, <2>4 DEF One
    <3>4. Tokens(c) >= 1 /\ Tokens(c)' = Tokens(c) - 1
      BY <2>1, <3>2, <3>3 DEF Tokens
    <3>5. Tokens(c) <= One(Wanted(c)) /\ Tokens(d) <= One(Wanted(d))
      BY <2>2, <3>1 DEF TokenInv, OnlyOne
    <3>6. Wanted(c) /\ Tokens(c) = 1
      BY <3>2, <3>4, <3>5 DEF One
    <3>7. currPos = pos[c]
      BY <2>1, <2>2, <3>6, ReclaimTypes DEF Wanted, RemoteAt
    <3>8. CASE d = c
      BY <3>4, <3>6, <3>8
    <3>9. CASE d # c
      <4>1. pos[d] # pos[c]
        BY <2>2, <3>1, <3>9 DEF Attached
      <4>2. ~Wanted(d)
        BY <2>1, <3>7, <4>1, ReclaimTypes DEF Wanted, RemoteAt
      <4>3. Tokens(d) <= 0
        BY <3>5, <4>2 DEF One
      <4>4. ioPc # At("leave", d)
        BY <2>3, <3>9 DEF At
      <4>5. Tokens(d)' = Tokens(d)
        BY <2>1, <2>4, <4>4, SameTokens
      <4>6. QED
        BY <4>3, <4>5
    <3>10. QED
      BY <3>8, <3>9
  <2>7. One(Wanted(d))' = 0
    BY <2>5 DEF One
  <2>8. QED
    BY <2>5, <2>6, <2>7 DEF Kept, OnlyOne
<1>5. CASE IoRemoveServer
  <2>1. /\ ioPc.op = "fail" /\ ioPc'.op \in {"idle", "return", "close"}
        /\ slot' = slot \/ slot' = [slot EXCEPT ![pos[ioPc.conn]] = NoConn]
        /\ UNCHANGED <<hookVars, seized, sessionVars, serverVars, c2s, s2c, linkUp>>
    BY <1>5 DEF IoRemoveServer, Detach, AfterDetach, At, Idle
  <2>2. \A d : ioPc # At("leave", d) /\ ioPc' # At("leave", d)
    BY <2>1 DEF At
  <2>3. \A d \in Conns : Attached(d)' => Attached(d)
    BY <2>1, ReclaimTypes DEF Attached
  <2>4. QED
    BY <2>1, <2>2, <2>3, TokensStay DEF Wanted, RemoteAt
<1>6. CASE IoReturn
  <2>1. /\ Removing(ioPc) /\ ReturnOnRemove(ioPc.conn) /\ ioPc.op = "return"
        /\ ioPc' = At("close", ioPc.conn)
        /\ UNCHANGED <<currPos, entering, slot, sessionVars, serverVars,
                       c2s, s2c, linkUp>>
    BY <1>6 DEF IoReturn, Removing
  <2>2. \A d : ioPc # At("leave", d) /\ ioPc' # At("leave", d)
    BY <2>1 DEF At
  <2>3. QED
    BY <2>1, <2>2, ReturnKeeps
<1>7. CASE IoClose
  <2>1. /\ Removing(ioPc) /\ SS_CloseSession(ioPc.conn) /\ ioPc.op = "close"
        /\ ioPc' = Idle
        /\ UNCHANGED <<hookVars, slot, seized, pos, serverVars, c2s, linkUp>>
    BY <1>7 DEF IoClose, Removing
  <2>2. \A d : ioPc # At("leave", d) /\ ioPc' # At("leave", d)
    BY <2>1 DEF At, Idle
  <2>3. QED
    BY <2>1, <2>2, CloseKeeps
<1>8. QED
  BY <1>1, <1>2, <1>3, <1>4, <1>5, <1>6, <1>7 DEF IoTail, IoSession

(* The hook thread.                                                         *)
LEMMA TokenHook ==
  ASSUME TypeOK, TypeOK', ReclaimInv, Settled, TokenInv, HookStep
  PROVE  TokenInv'
<1> USE DEF clientVars, hookVars, history, sessionVars, serverVars
<1>1. ASSUME NEW p \in Positions, OnNormalMouseAction(p) PROVE TokenInv'
  <2>0. slot[p] \in Conns /\ Attached(slot[p]) /\ pos[slot[p]] = p
    BY <1>1, Sessions DEF OnNormalMouseAction
  <2> PICK c \in Conns : c = slot[p]
    BY <2>0
  <2>1. c \in Conns /\ Attached(c) /\ pos[c] = p
    BY <2>0
  <2>2. /\ hookState = "NORMAL" /\ entering = NoPos /\ entering' = p
        /\ c2s' = [c2s EXCEPT ![c] = IF Alive(c) THEN Append(@, "ENTER") ELSE @]
        /\ UNCHANGED <<hookState, currPos, slot, ioPc, seized, pos, cliOpen,
                       serverVars, s2c, linkUp>>
    BY <1>1 DEF OnNormalMouseAction, SS_SendEnterMsg, PutToServer, HookLockFree
  <2> SUFFICES ASSUME NEW d \in Conns
               PROVE  Kept(d)' /\ (~seized' => OnlyOne(d)')
    BY DEF TokenInv
  <2>3. ~Wanted(d)
    BY <2>2, ReclaimTypes DEF Wanted, RemoteAt
  <2>4. CASE d = c
    <3>1. c2s[c] \in Seq(ToServer) /\ "ENTER" \in ToServer
      BY <2>1 DEF TypeOK, ToServer
    <3>2. /\ Tokens(c) \in Nat /\ Count(c2s[c], "ENTER") \in Nat
          /\ Count(s2c[c], "LEAVE") \in Nat
      BY <2>1, TokenParts
    <3>3. /\ One(entered[c]) \in Nat /\ One(ioPc = At("leave", c)) \in Nat
      BY DEF One
    <3>4. Count(Append(c2s[c], "ENTER"), "ENTER") = Count(c2s[c], "ENTER") + 1
      BY <3>1, CountAppend
    <3>5. c2s'[c] = IF Alive(c) THEN Append(c2s[c], "ENTER") ELSE c2s[c]
      BY <2>1, <2>2 DEF TypeOK
    <3>6. Tokens(c)' = IF Alive(c) THEN Tokens(c) + 1 ELSE Tokens(c)
      BY <2>2, <3>2, <3>3, <3>4, <3>5 DEF Tokens
    <3>7. Wanted(c)' /\ One(Wanted(c))' = 1
      BY <2>1, <2>2 DEF Wanted, One
    <3>8. ~seized => Tokens(c) <= 0
      <4>1. ~seized => Tokens(c) <= One(Wanted(c))
        BY <2>1 DEF TokenInv, OnlyOne
      <4>2. QED
        BY <2>3, <2>4, <4>1 DEF One
    <3>9. (Alive(c)' <=> Alive(c)) /\ seized' = seized
      BY <2>2 DEF Alive
    <3>10. Kept(c)'
      BY <3>2, <3>6, <3>9 DEF Kept
    <3>11. ~seized' => Tokens(c)' <= One(Wanted(c))'
      <4>1. ~seized' => Tokens(c)' <= 1
        BY <3>2, <3>6, <3>8, <3>9
      <4>2. QED
        BY <3>7, <4>1
    <3>12. QED
      BY <2>4, <3>10, <3>11 DEF OnlyOne
  <2>5. CASE d # c
    <3>1. c2s'[d] = c2s[d]
      BY <2>2, <2>5 DEF TypeOK
    <3>2. Tokens(d)' = Tokens(d) /\ Tokens(d) \in Nat
      BY <2>2, <3>1, SameTokens, TokenParts
    <3>3. (Attached(d)' <=> Attached(d)) /\ (Alive(d)' <=> Alive(d))
      BY <2>2 DEF Attached, Alive
    <3>4. Attached(d) => pos[d] # p
      BY <2>5 DEF Attached
    <3>5. Attached(d)' => (Wanted(d)' <=> Wanted(d))
      BY <2>2, <2>3, <3>3, <3>4 DEF Wanted, RemoteAt
    <3>6. QED
      BY <2>2, <3>2, <3>3, <3>5, TokensFollow
  <2>6. QED
    BY <2>4, <2>5
<1>2. CASE EnterRemote
  <2>1. /\ entering # NoPos /\ entering' = NoPos /\ hookState = "NORMAL"
        /\ hookState' = "REMOTE" /\ currPos' = entering
        /\ UNCHANGED <<slot, ioPc, seized, sessionVars, serverVars, c2s, s2c, linkUp>>
    BY <1>2 DEF EnterRemote, HookLockFree, Settled, EnteringNormal
  <2>2. QED
    BY <2>1, TokensStay, ReclaimTypes DEF Attached, Wanted, RemoteAt
<1>3. CASE HookReadsRemote
  BY <1>3, TokensStay DEF HookReadsRemote, Attached, Wanted, RemoteAt
<1>4. CASE OnRemoteInput
  <2>1. /\ UNCHANGED <<hookState, currPos, entering, slot, ioPc, seized,
                       sessionVars, serverVars, s2c, linkUp>>
        /\ \/ c2s' = c2s
           \/ \E c \in Conns :
                c2s' = [c2s EXCEPT ![c] = IF Alive(c) THEN Append(@, "INPUT") ELSE @]
    <3>1. /\ UNCHANGED <<hookState, currPos, entering, slot, ioPc, seized,
                         sessionVars, serverVars, s2c, linkUp>>
          /\ \/ c2s' = c2s
             \/ slot[currPos] # NoConn /\ handshaked[slot[currPos]]
                  /\ PutToServer(slot[currPos], "INPUT")
      BY <1>4 DEF OnRemoteInput
    <3>2. CASE slot[currPos] \in Conns
      BY <3>1, <3>2 DEF PutToServer
    <3>3. CASE slot[currPos] \notin Conns
      <4>1. c2s \in [Conns -> Seq(ToServer)]
        BY DEF TypeOK
      <4>2. c2s' = c2s
        BY <3>1, <3>3, <4>1 DEF PutToServer
      <4>3. QED
        BY <3>1, <4>2
    <3>4. QED
      BY <3>2, <3>3
  <2> SUFFICES ASSUME NEW d \in Conns
               PROVE  Kept(d)' /\ (~seized' => OnlyOne(d)')
    BY DEF TokenInv
  <2>2. c2s[d] \in Seq(ToServer) /\ "INPUT" \in ToServer
    BY DEF TypeOK, ToServer
  <2>3. c2s'[d] = c2s[d] \/ c2s'[d] = Append(c2s[d], "INPUT")
    BY <2>1 DEF TypeOK
  <2>4. Count(c2s[d], "ENTER") \in Nat
    BY TokenParts
  <2>5. Count(Append(c2s[d], "INPUT"), "ENTER") = Count(c2s[d], "ENTER")
    <3>1. Count(Append(c2s[d], "INPUT"), "ENTER")
            = Count(c2s[d], "ENTER") + IF "INPUT" = "ENTER" THEN 1 ELSE 0
      BY <2>2, CountAppend
    <3>2. QED
      BY <2>4, <3>1
  <2>6. Tokens(d)' = Tokens(d) /\ Tokens(d) \in Nat
    <3>1. Count(c2s'[d], "ENTER") = Count(c2s[d], "ENTER")
      BY <2>3, <2>5
    <3>2. QED
      BY <2>1, <3>1, TokenParts DEF Tokens
  <2>7. QED
    BY <2>1, <2>6, TokensFollow DEF Attached, Alive, Wanted, RemoteAt
<1>5. QED
  BY <1>1, <1>2, <1>3, <1>4 DEF HookStep

-----------------------------------------------------------------------------
(* The servers and the network: they move tokens, or lose them with the     *)
(* connection.  A step on one connection leaves the others alone.           *)
LEMMA OtherTokens ==
  ASSUME TypeOK, NEW c \in Conns, NEW d \in Conns, d # c,
         UNCHANGED <<clientVars, sessionVars>>,
         c2s' = c2s \/ (\E w : c2s' = [c2s EXCEPT ![c] = w]),
         s2c' = s2c \/ (\E w : s2c' = [s2c EXCEPT ![c] = w]),
         entered' = entered \/ (\E b : entered' = [entered EXCEPT ![c] = b])
  PROVE  Tokens(d)' = Tokens(d) /\ Tokens(d) \in Nat
<1>1. c2s'[d] = c2s[d] /\ s2c'[d] = s2c[d] /\ entered'[d] = entered[d]
  BY DEF TypeOK
<1>2. ioPc' = ioPc
  BY DEF clientVars
<1>3. QED
  BY <1>1, <1>2, SameTokens, TokenParts

(* The client sees nothing of a step of a server.                           *)
LEMMA ServerKeeps ==
  ASSUME TypeOK, TypeOK', TokenInv, UNCHANGED <<clientVars, sessionVars>>,
         \A d \in Conns :
           /\ Alive(d)' => Alive(d)
           /\ Attached(d) /\ Alive(d)' /\ Tokens(d) > 0 => Tokens(d)' > 0
           /\ Attached(d) /\ Tokens(d) <= 1 => Tokens(d)' <= Tokens(d)
  PROVE  TokenInv'
<1> SUFFICES ASSUME NEW d \in Conns
             PROVE  Kept(d)' /\ (~seized' => OnlyOne(d)')
  BY DEF TokenInv
<1>1. seized' = seized /\ (Attached(d)' <=> Attached(d)) /\ (Wanted(d)' <=> Wanted(d))
  BY DEF clientVars, hookVars, history, sessionVars, Attached, Wanted, RemoteAt
<1>2. QED
  BY <1>1, TokensFollow

(* What is on the wires to an end that is gone is lost.                     *)
LEMMA LostTokens ==
  ASSUME TypeOK, TypeOK', NEW d \in Conns, ioPc' = ioPc,
         c2s'[d] = <<>>, s2c'[d] = s2c[d] \/ s2c'[d] = <<>>,
         entered'[d] = entered[d] \/ entered'[d] = FALSE
  PROVE  Tokens(d)' <= Tokens(d)
<1>1. Count(c2s'[d], "ENTER") = 0
  BY CountEmpty
<1>2. Count(s2c'[d], "LEAVE") = Count(s2c[d], "LEAVE") \/ Count(s2c'[d], "LEAVE") = 0
  BY CountEmpty
<1>3. One(entered'[d]) \in Nat /\ One(entered[d]) \in Nat
      /\ One(entered'[d]) <= One(entered[d])
  BY DEF One
<1>4. /\ Count(c2s[d], "ENTER") \in Nat /\ Count(s2c[d], "LEAVE") \in Nat
      /\ Count(s2c'[d], "LEAVE") \in Nat
  BY TokenParts, TokenPartsNext
<1>5. One(ioPc' = At("leave", d)) = One(ioPc = At("leave", d))
      /\ One(ioPc = At("leave", d)) \in Nat
  BY DEF One
<1>6. QED
  BY <1>1, <1>2, <1>3, <1>4, <1>5 DEF Tokens

LEMMA CloseLoses ==
  ASSUME TypeOK, TypeOK', TokenInv, NEW c \in Conns, CloseClientSession(c),
         UNCHANGED <<clientVars, sessionVars, s2c, linkUp>>
  PROVE  TokenInv'
<1>1. /\ srvState' = [srvState EXCEPT ![c] = "closed"]
      /\ entered' = [entered EXCEPT ![c] = FALSE]
      /\ c2s' = [c2s EXCEPT ![c] = <<>>]
  BY DEF CloseClientSession
<1>2. ioPc' = ioPc
  BY DEF clientVars
<1>3. ASSUME NEW d \in Conns
      PROVE  /\ Alive(d)' => Alive(d)
             /\ Attached(d) /\ Alive(d)' /\ Tokens(d) > 0 => Tokens(d)' > 0
             /\ Attached(d) /\ Tokens(d) <= 1 => Tokens(d)' <= Tokens(d)
  <2>1. CASE d = c
    <3>1. c2s'[d] = <<>> /\ entered'[d] = FALSE /\ srvState'[d] = "closed"
      BY <1>1, <2>1 DEF TypeOK
    <3>2. Tokens(d)' <= Tokens(d)
      BY <1>2, <3>1, LostTokens
    <3>3. QED
      BY <3>1, <3>2 DEF Alive
  <2>2. CASE d # c
    <3>1. Tokens(d)' = Tokens(d) /\ Tokens(d) \in Nat
      BY <1>1, <2>2, OtherTokens
    <3>2. Alive(d)' <=> Alive(d)
      BY <1>1, <2>2 DEF Alive, TypeOK
    <3>3. QED
      BY <3>1, <3>2
  <2>3. QED
    BY <2>1, <2>2
<1>4. QED
  BY <1>3, ServerKeeps

(* A message that is taken is one less on the wire.                         *)
LEMMA Taking ==
  ASSUME TypeOK, NEW c \in Conns, NEW m, Arrived(c, m), TakeFromClient(c)
  PROVE  /\ Count(c2s[c], "ENTER")
              = Count(c2s'[c], "ENTER") + IF m = "ENTER" THEN 1 ELSE 0
         /\ Count(c2s'[c], "ENTER") \in Nat
<1>1. c2s[c] \in Seq(ToServer) /\ c2s[c] # <<>> /\ Head(c2s[c]) = m
  BY DEF TypeOK, Arrived
<1>2. c2s'[c] = Tail(c2s[c])
  BY DEF TakeFromClient, TypeOK
<1>3. QED
  BY <1>1, <1>2, CountTail

(* A message to the client is one more, unless nobody is there.             *)
LEMMA Putting ==
  ASSUME TypeOK, NEW c \in Conns, NEW m \in ToClient, PutToClient(c, m)
  PROVE  /\ Count(s2c'[c], "LEAVE")
              = Count(s2c[c], "LEAVE")
                  + IF m = "LEAVE" /\ linkUp[c] /\ cliOpen[c] THEN 1 ELSE 0
         /\ Count(s2c[c], "LEAVE") \in Nat
<1>1. s2c[c] \in Seq(ToClient)
  BY DEF TypeOK
<1>2. s2c'[c] = IF linkUp[c] /\ cliOpen[c] THEN Append(s2c[c], m) ELSE s2c[c]
  BY DEF PutToClient, TypeOK
<1>3. Count(Append(s2c[c], m), "LEAVE")
        = Count(s2c[c], "LEAVE") + IF m = "LEAVE" THEN 1 ELSE 0
  BY <1>1, CountAppend
<1>4. Count(s2c[c], "LEAVE") \in Nat
  BY TokenParts
<1>5. QED
  BY <1>2, <1>3, <1>4

(* A step of a server that leaves every other connection alone.             *)
Elsewhere(c) ==
  \A d \in Conns : d # c =>
    c2s'[d] = c2s[d] /\ s2c'[d] = s2c[d] /\ entered'[d] = entered[d]

Unseen == UNCHANGED <<clientVars, sessionVars, linkUp, srvState>>

LEMMA OneTaken ==
  ASSUME TypeOK, TypeOK', TokenInv, NEW c \in Conns, Unseen, Elsewhere(c),
         Attached(c) /\ Alive(c) /\ Tokens(c) > 0 => Tokens(c)' > 0,
         Tokens(c) <= 1 => Tokens(c)' <= Tokens(c)
  PROVE  TokenInv'
<1>1. UNCHANGED <<clientVars, sessionVars>> /\ linkUp' = linkUp /\ srvState' = srvState
  BY DEF Unseen
<1>2. ioPc' = ioPc
  BY <1>1 DEF clientVars
<1>3. ASSUME NEW d \in Conns
      PROVE  /\ Alive(d)' => Alive(d)
             /\ Attached(d) /\ Alive(d)' /\ Tokens(d) > 0 => Tokens(d)' > 0
             /\ Attached(d) /\ Tokens(d) <= 1 => Tokens(d)' <= Tokens(d)
  <2>1. Alive(d)' <=> Alive(d)
    BY <1>1 DEF Alive
  <2>2. CASE d = c
    BY <2>1, <2>2
  <2>3. CASE d # c
    <3>1. Tokens(d)' = Tokens(d) /\ Tokens(d) \in Nat
      BY <1>2, <2>3, SameTokens, TokenParts DEF Elsewhere
    <3>2. QED
      BY <2>1, <3>1
  <2>4. QED
    BY <2>2, <2>3
<1>4. QED
  BY <1>1, <1>3, ServerKeeps

LEMMA TokenTaken ==
  ASSUME TypeOK, TypeOK', TokenInv, NEW c \in Conns,
         Srv_OnHandShake(c) \/ Srv_OnEnter(c) \/ Srv_OnInput(c)
  PROVE  TokenInv'
<1>1. CASE Srv_Rejects(c) /\ UNCHANGED <<clientVars, sessionVars, srvUp, linkUp>>
  BY <1>1, CloseLoses DEF Srv_Rejects
<1>3. /\ Count(c2s[c], "ENTER") \in Nat /\ Count(s2c[c], "LEAVE") \in Nat
      /\ Tokens(c) \in Nat /\ entered[c] \in BOOLEAN
  BY TokenParts DEF TypeOK
<1>4. /\ One(ioPc = At("leave", c)) \in Nat /\ One(TRUE) = 1 /\ One(FALSE) = 0
      /\ One(entered[c]) \in {0, 1}
  BY DEF One
<1>5. CASE Srv_OnHandShake(c) /\ ~srvHandshaked[c]
  <2>1. /\ Arrived(c, "HANDSHAKE") /\ TakeFromClient(c)
        /\ PutToClient(c, "HANDSHAKE_REPLY") /\ entered' = entered /\ Unseen
    BY <1>5 DEF Srv_OnHandShake, SS_SendHandShakeReply, Unseen
  <2>2. Count(c2s'[c], "ENTER") = Count(c2s[c], "ENTER")
    BY <1>3, <2>1, Taking
  <2>3. Count(s2c'[c], "LEAVE") = Count(s2c[c], "LEAVE")
    BY <1>3, <2>1, Putting DEF ToClient
  <2>4. Tokens(c)' = Tokens(c)
    BY <2>1, <2>2, <2>3 DEF Tokens, Unseen, clientVars
  <2>5. Elsewhere(c)
    BY <2>1 DEF Elsewhere, TakeFromClient, PutToClient, TypeOK
  <2>6. QED
    BY <1>3, <2>1, <2>4, <2>5, OneTaken
<1>6. CASE Srv_OnEnter(c) /\ srvHandshaked[c]
  <2>1. /\ Arrived(c, "ENTER") /\ TakeFromClient(c)
        /\ entered' = [entered EXCEPT ![c] = TRUE] /\ s2c' = s2c /\ Unseen
    BY <1>6 DEF Srv_OnEnter, Unseen
  <2>2. /\ Count(c2s[c], "ENTER") = Count(c2s'[c], "ENTER") + 1
        /\ Count(c2s'[c], "ENTER") \in Nat
    BY <2>1, Taking
  <2>3. entered'[c] = TRUE /\ ioPc' = ioPc /\ s2c'[c] = s2c[c]
    BY <2>1 DEF TypeOK, Unseen, clientVars
  <2>4. /\ Tokens(c) = Count(c2s[c], "ENTER") + One(entered[c])
                         + Count(s2c[c], "LEAVE") + One(ioPc = At("leave", c))
        /\ Tokens(c)' = Count(c2s'[c], "ENTER") + 1
                         + Count(s2c[c], "LEAVE") + One(ioPc = At("leave", c))
    BY <1>4, <2>3 DEF Tokens
  <2>5. /\ Tokens(c) > 0 => Tokens(c)' > 0
        /\ Tokens(c) <= 1 => Tokens(c)' <= Tokens(c)
    BY <1>3, <1>4, <2>2, <2>4
  <2>6. Elsewhere(c)
    BY <2>1 DEF Elsewhere, TakeFromClient, TypeOK
  <2>7. QED
    BY <2>1, <2>5, <2>6, OneTaken
<1>7. CASE Srv_OnInput(c) /\ srvHandshaked[c]
  <2>1. /\ Arrived(c, "INPUT") /\ TakeFromClient(c) /\ Unseen
        /\ \/ s2c' = s2c /\ entered' = entered
           \/ /\ entered[c] /\ PutToClient(c, "LEAVE")
              /\ entered' = [entered EXCEPT ![c] = FALSE]
    BY <1>7 DEF Srv_OnInput, SS_SendMouseLeave, Unseen
  <2>2. Count(c2s'[c], "ENTER") = Count(c2s[c], "ENTER") /\ ioPc' = ioPc
    BY <1>3, <2>1, Taking DEF Unseen, clientVars
  <2>3. Elsewhere(c)
    BY <2>1 DEF Elsewhere, TakeFromClient, PutToClient, TypeOK
  <2>4. CASE s2c' = s2c /\ entered' = entered
    <3>1. Tokens(c)' = Tokens(c)
      BY <2>2, <2>4 DEF Tokens
    <3>2. QED
      BY <1>3, <2>1, <2>3, <3>1, OneTaken
  <2>5. CASE /\ entered[c] /\ PutToClient(c, "LEAVE")
             /\ entered' = [entered EXCEPT ![c] = FALSE]
    <3>1. /\ Count(s2c'[c], "LEAVE")
               = Count(s2c[c], "LEAVE") + IF linkUp[c] /\ cliOpen[c] THEN 1 ELSE 0
      BY <2>5, Putting DEF ToClient
    <3>2. entered[c] = TRUE /\ entered'[c] = FALSE
      BY <1>3, <2>5 DEF TypeOK
    <3>3. Attached(c) /\ Alive(c) => linkUp[c] /\ cliOpen[c]
      BY DEF Attached, Alive
    <3>4. /\ Tokens(c) = Count(c2s[c], "ENTER") + 1
                           + Count(s2c[c], "LEAVE") + One(ioPc = At("leave", c))
          /\ Tokens(c)' = Count(c2s[c], "ENTER") + 0
                           + Count(s2c'[c], "LEAVE") + One(ioPc = At("leave", c))
      BY <1>4, <2>2, <3>2 DEF Tokens
    <3>5. Tokens(c)' = IF linkUp[c] /\ cliOpen[c] THEN Tokens(c) ELSE Tokens(c) - 1
      BY <1>3, <1>4, <3>1, <3>4
    <3>6. QED
      BY <1>3, <2>1, <2>3, <3>3, <3>5, OneTaken
  <2>6. QED
    BY <2>1, <2>4, <2>5
<1>8. QED
  BY <1>1, <1>5, <1>6, <1>7 DEF Srv_OnHandShake, Srv_OnEnter, Srv_OnInput

LEMMA TokenSrv ==
  ASSUME TypeOK, TypeOK', TokenInv, SrvStep \/ (\E c \in Conns : LinkDown(c))
  PROVE  TokenInv'
<1> USE DEF clientVars, hookVars, history, sessionVars, serverVars
<1>1. ASSUME NEW p \in Positions, Srv_Start(p) PROVE TokenInv'
  BY <1>1, TokensStay DEF Srv_Start, Attached, Wanted, RemoteAt
<1>2. ASSUME NEW p \in Positions, Srv_Stop(p) PROVE TokenInv'
  <2>1. /\ srvState' = [c \in Conns |-> IF pos[c] = p THEN "closed" ELSE srvState[c]]
        /\ entered' = [c \in Conns |-> entered[c] /\ pos[c] # p]
        /\ c2s' = [c \in Conns |-> IF pos[c] = p THEN <<>> ELSE c2s[c]]
        /\ UNCHANGED <<clientVars, sessionVars, s2c, linkUp>>
    BY <1>2 DEF Srv_Stop
  <2>2. ASSUME NEW d \in Conns
        PROVE  /\ Alive(d)' => Alive(d)
               /\ Attached(d) /\ Alive(d)' /\ Tokens(d) > 0 => Tokens(d)' > 0
               /\ Attached(d) /\ Tokens(d) <= 1 => Tokens(d)' <= Tokens(d)
    <3>1. CASE pos[d] = p
      <4>1. c2s'[d] = <<>> /\ entered'[d] = FALSE /\ srvState'[d] = "closed"
        BY <2>1, <3>1
      <4>2. Tokens(d)' <= Tokens(d)
        BY <2>1, <4>1, LostTokens
      <4>3. QED
        BY <4>1, <4>2 DEF Alive
    <3>2. CASE pos[d] # p
      <4>1. /\ c2s'[d] = c2s[d] /\ srvState'[d] = srvState[d]
            /\ entered'[d] = entered[d]
        BY <2>1, <3>2 DEF TypeOK
      <4>2. Tokens(d)' = Tokens(d) /\ Tokens(d) \in Nat
        BY <2>1, <4>1, SameTokens, TokenParts
      <4>3. Alive(d)' <=> Alive(d)
        BY <2>1, <4>1 DEF Alive
      <4>4. QED
        BY <4>2, <4>3
    <3>3. QED
      BY <3>1, <3>2
  <2>3. QED
    BY <2>1, <2>2, ServerKeeps
<1>3. ASSUME NEW c \in Conns, Srv_Accept(c) PROVE TokenInv'
  <2>1. /\ srvState[c] = "backlog" /\ srvState' = [srvState EXCEPT ![c] = "served"]
        /\ UNCHANGED <<clientVars, sessionVars, entered, c2s, s2c, linkUp>>
    BY <1>3 DEF Srv_Accept
  <2>2. ASSUME NEW d \in Conns
        PROVE  /\ Alive(d)' => Alive(d)
               /\ Tokens(d)' = Tokens(d) /\ Tokens(d) \in Nat
    BY <2>1, SameTokens, TokenParts DEF Alive, TypeOK
  <2>3. QED
    BY <2>1, <2>2, ServerKeeps
<1>4. ASSUME NEW c \in Conns, Srv_SessionFails(c) PROVE TokenInv'
  BY <1>4, CloseLoses DEF Srv_SessionFails
<1>5. ASSUME NEW c \in Conns, LinkDown(c) PROVE TokenInv'
  <2>1. /\ linkUp' = [linkUp EXCEPT ![c] = FALSE]
        /\ c2s' = [c2s EXCEPT ![c] = <<>>] /\ s2c' = [s2c EXCEPT ![c] = <<>>]
        /\ UNCHANGED <<clientVars, sessionVars, srvState, entered>>
    BY <1>5 DEF LinkDown
  <2>2. ASSUME NEW d \in Conns
        PROVE  /\ Alive(d)' => Alive(d)
               /\ Attached(d) /\ Alive(d)' /\ Tokens(d) > 0 => Tokens(d)' > 0
               /\ Attached(d) /\ Tokens(d) <= 1 => Tokens(d)' <= Tokens(d)
    <3>1. CASE d = c
      <4>1. c2s'[d] = <<>> /\ s2c'[d] = <<>> /\ linkUp'[d] = FALSE
        BY <2>1, <3>1 DEF TypeOK
      <4>2. Tokens(d)' <= Tokens(d)
        BY <2>1, <4>1, LostTokens
      <4>3. QED
        BY <4>1, <4>2 DEF Alive
    <3>2. CASE d # c
      <4>1. Tokens(d)' = Tokens(d) /\ Tokens(d) \in Nat
        BY <2>1, <3>2, OtherTokens
      <4>2. Alive(d)' <=> Alive(d)
        BY <2>1, <3>2 DEF Alive, TypeOK
      <4>3. QED
        BY <4>1, <4>2
    <3>3. QED
      BY <3>1, <3>2
  <2>3. QED
    BY <2>1, <2>2, ServerKeeps
<1>6. QED
  BY <1>1, <1>2, <1>3, <1>4, <1>5, TokenTaken DEF SrvStep

LEMMA TokenInvariant == Spec => [](ReclaimInv /\ Settled /\ TokenInv)
<1>1. Init => Settled /\ TokenInv
  BY DEF Init, Settled, Vacated, EnteringNormal, StoppedQuiet, ReturnActive,
     Removing, Idle, At, TokenInv, Kept, OnlyOne, Attached
<1>2. /\ TypeOK /\ TypeOK' /\ HandshakeOrder /\ ReclaimInv
      /\ Settled /\ TokenInv /\ [Next]_vars
      => Settled' /\ TokenInv'
  <2> SUFFICES ASSUME TypeOK, TypeOK', HandshakeOrder, ReclaimInv,
                      Settled, TokenInv, [Next]_vars
               PROVE  TokenInv'
    BY SettledStep
  <2>1. CASE UiStep
    BY <2>1, TokenUi
  <2>2. CASE IoTail \/ \E c \in Conns : IoSession(c)
    BY <2>2, TokenIo
  <2>3. CASE HookStep
    BY <2>3, TokenHook
  <2>4. CASE SrvStep \/ \E c \in Conns : LinkDown(c)
    BY <2>4, TokenSrv
  <2>5. CASE UNCHANGED vars
    BY <2>5, TokensStay DEF vars, clientVars, hookVars, history, sessionVars,
       serverVars, Attached, Wanted, RemoteAt
  <2>6. QED
    BY <2>1, <2>2, <2>3, <2>4, <2>5 DEF Next
<1>3. QED
  BY <1>1, <1>2, TypeCorrect, HandshakeOrdered, ReclaimInvariant, PTL DEF Spec

(* Whatever the threads and the servers do, a live server the input is      *)
(* diverted to has been told so or has answered with LEAVE: no interleaving *)
(* of the hook's ENTER with a removal, a stop or a LEAVE loses both.        *)
THEOREM RemoteAlwaysHeld == Spec => []RemoteHasHolder
<1>1. ASSUME TypeOK, ReclaimInv, TokenInv PROVE RemoteHasHolder
  <2> SUFFICES ASSUME NEW p \in Positions, RemoteAt(p), slot[p] # NoConn,
                      Alive(slot[p])
               PROVE  Tokens(slot[p]) > 0
    BY DEF RemoteHasHolder
  <2>1. slot[p] \in Conns /\ Attached(slot[p]) /\ pos[slot[p]] = p
    BY <1>1, Sessions
  <2>2. QED
    BY <1>1, <2>1 DEF TokenInv, Kept, Wanted
<1>2. QED
  BY <1>1, TypeCorrect, TokenInvariant, PTL

(* As long as no removal took control from another session, control is one  *)
(* token: the server the hook points at has it once and no other has any,   *)
(* for every number of servers, connections and messages under way.         *)
THEOREM TokensConserved == Spec => []TokenConservation
<1>1. ASSUME TypeOK, TokenInv PROVE TokenConservation
  <2> SUFFICES ASSUME ~seized, NEW c \in Conns, Attached(c), Alive(c)
               PROVE  Tokens(c) = One(Wanted(c))
    BY DEF TokenConservation, Wanted
  <2>1. Kept(c) /\ OnlyOne(c)
    BY <1>1 DEF TokenInv
  <2>2. Tokens(c) \in Nat /\ Tokens(c) <= One(Wanted(c))
    BY <1>1, <2>1, TokenParts DEF OnlyOne
  <2>3. CASE Wanted(c)
    <3>1. One(Wanted(c)) = 1 /\ Tokens(c) > 0
      BY <2>1, <2>3 DEF Kept, One
    <3>2. QED
      BY <2>2, <3>1
  <2>4. CASE ~Wanted(c)
    <3>1. One(Wanted(c)) = 0
      BY <2>4 DEF One
    <3>2. QED
      BY <2>2, <3>1
  <2>5. QED
    BY <2>3, <2>4
<1>2. QED
  BY <1>1, TypeCorrect, TokenInvariant, PTL
-----------------------------------------------------------------------------
(* What the cursor needs besides: between the two halves of a LEAVE it is   *)
(* shown, and REMOTE has a position.                                        *)
LeaveShows == ioPc.op = "leave" /\ ~seized /\ ~outrun => ~cursorHidden

RemoteSomewhere == hookState = "REMOTE" => currPos \in Positions

(* Once the IO thread is joined, the session whose cursor is hidden is      *)
(* still there for Cli_Stop to close.                                      *)
StopShows ==
  started = "joined" /\ hookState = "REMOTE" /\ cursorHidden
    /\ ~seized /\ ~outrun =>
    \/ slot[currPos] # NoConn /\ active[slot[currPos]]
    \/ uiPc.op = "close" /\ active[uiPc.conn]

CursorInv == LeaveShows /\ RemoteSomewhere /\ StopShows /\ LocalCursorVisible

cursorVars == <<started, hookState, currPos, slot, uiPc, ioPc, cursorHidden,
                seized, outrun, active>>

LEMMA CursorFrame ==
  ASSUME CursorInv, UNCHANGED cursorVars
  PROVE  CursorInv'
BY DEF cursorVars, CursorInv, LeaveShows, RemoteSomewhere, StopShows, LocalCursorVisible

(* A LEAVE that is being handled while ENTER is being sent answers that     *)
(* very ENTER.                                                              *)
LEMMA LeaveOutruns ==
  ASSUME TypeOK, ReclaimInv, Settled, TokenInv, ~seized,
         ioPc.op = "leave", entering # NoPos
  PROVE  ioPc = At("leave", slot[entering])
<1> PICK c : c = ioPc.conn
  OBVIOUS
<1>1. c \in Conns /\ Attached(c)
  BY DEF ReclaimInv, IoHoldsSession
<1>2. ioPc = At("leave", c)
  BY ReclaimTypes DEF Pc, At
<1>3. /\ Count(c2s[c], "ENTER") \in Nat /\ Count(s2c[c], "LEAVE") \in Nat
      /\ One(entered[c]) \in Nat /\ One(ioPc = At("leave", c)) = 1
  BY <1>1, <1>2, TokenParts DEF One
<1>4. Tokens(c) > 0
  BY <1>3 DEF Tokens
<1>5. Tokens(c) <= One(Wanted(c)) /\ Tokens(c) \in Nat
  BY <1>1, TokenParts DEF TokenInv, OnlyOne
<1>6. Wanted(c)
  BY <1>4, <1>5 DEF One
<1>7. entering = pos[c]
  BY <1>6 DEF Wanted, RemoteAt, Settled, EnteringNormal
<1>8. QED
  BY <1>1, <1>2, <1>7 DEF Attached

(* Closing a removed session shows the cursor if it was that session's.     *)
LEMMA CursorClosed ==
  ASSUME TypeOK, ReclaimInv, CursorInv,
         NEW pc \in {uiPc, ioPc}, pc.op = "close", SS_CloseSession(pc.conn),
         UNCHANGED <<started, hookState, currPos, slot, seized, outrun>>,
         \/ pc = uiPc /\ uiPc' = Idle /\ ioPc' = ioPc
         \/ pc = ioPc /\ ioPc' = Idle /\ uiPc' = uiPc
  PROVE  CursorInv'
<1>1. /\ active' = [active EXCEPT ![pc.conn] = FALSE]
      /\ cursorHidden' => cursorHidden /\ ~active[pc.conn]
  BY DEF SS_CloseSession
<1>2. pc.conn \in Conns /\ active \in [Conns -> BOOLEAN] /\ Idle.op = "idle"
  BY Sessions, ReclaimTypes DEF Removing, Idle, At
<1>3. \A qc \in {uiPc, ioPc} : qc.op = "close" => qc.conn \in Conns
  BY Sessions DEF Removing
<1>4. LeaveShows' /\ RemoteSomewhere'
  BY <1>1, <1>2 DEF CursorInv, LeaveShows, RemoteSomewhere
<1>5. LocalCursorVisible'
  BY <1>1, <1>2, <1>3 DEF CursorInv, LocalCursorVisible
<1>6. StopShows'
  <2> SUFFICES ASSUME started = "joined", hookState = "REMOTE", cursorHidden',
                      ~seized, ~outrun
               PROVE  slot[currPos] # NoConn /\ active'[slot[currPos]]
    BY DEF StopShows
  <2>1. pc = uiPc
    BY DEF ReclaimInv, StopQuiet
  <2>2. slot[currPos] # NoConn /\ active[slot[currPos]]
    BY <1>1, <2>1 DEF CursorInv, StopShows
  <2>3. slot[currPos] \in Conns /\ slot[currPos] # pc.conn
    BY <2>2, Sessions DEF CursorInv, RemoteSomewhere, Removing
  <2>4. QED
    BY <1>1, <1>2, <2>2, <2>3
<1>7. QED
  BY <1>4, <1>5, <1>6 DEF CursorInv

LEMMA CursorUi ==
  ASSUME TypeOK, ReclaimInv, Settled, CursorInv, UiStep
  PROVE  CursorInv'
<1> USE DEF clientVars, hookVars, history, sessionVars, serverVars
<1>1. CASE Cli_Start
  BY <1>1 DEF Cli_Start, Settled, StoppedQuiet, CursorInv, LeaveShows,
     RemoteSomewhere, StopShows, LocalCursorVisible
<1>2. CASE Cli_Stop
  BY <1>2 DEF Cli_Stop, CursorInv, LeaveShows, RemoteSomewhere, StopShows,
     LocalCursorVisible
<1>3. CASE Cli_StopJoined
  <2>1. /\ started = "stopping" /\ ioPc.op = "idle"
        /\ UNCHANGED <<hookState, currPos, slot, uiPc, ioPc, cursorHidden, seized,
                       outrun, active>>
    BY <1>3 DEF Cli_StopJoined, Idle, At
  <2>2. ~Removing(uiPc)
    BY <2>1 DEF ReclaimInv, StopQuiet
  <2>3. RemoteAt(currPos) /\ currPos \in Positions =>
          slot[currPos] # NoConn /\ active[slot[currPos]]
    BY <2>1, <2>2 DEF ReclaimInv, RemoteReclaimable, Removing
  <2>4. StopShows'
    BY <2>1, <2>3 DEF StopShows, CursorInv, RemoteSomewhere, RemoteAt
  <2>5. QED
    BY <2>1, <2>4 DEF CursorInv, LeaveShows, RemoteSomewhere, LocalCursorVisible
<1>4. ASSUME NEW p \in Positions, NEW c \in Conns, Cli_InsertServer(p, c)
      PROVE  CursorInv'
  <2>1. /\ uiPc = Idle /\ ioPc = Idle /\ Idle.op = "idle"
        /\ started = "started" /\ started' = "started"
        /\ UNCHANGED <<hookState, currPos, uiPc, ioPc, cursorHidden, seized, outrun>>
    BY <1>4 DEF Cli_InsertServer, Idle, At
  <2>2. QED
    BY <2>1 DEF CursorInv, LeaveShows, RemoteSomewhere, StopShows, LocalCursorVisible
<1>5. ASSUME NEW p \in Positions, Cli_RemoveServer(p) PROVE CursorInv'
  <2>1. /\ uiPc = Idle /\ ioPc = Idle /\ Idle.op = "idle"
        /\ started = "started" /\ started' = "started"
        /\ UNCHANGED <<hookState, currPos, ioPc, cursorHidden, seized, outrun>>
    BY <1>5 DEF Cli_RemoveServer, Idle, At
  <2>2. QED
    BY <2>1 DEF CursorInv, LeaveShows, RemoteSomewhere, StopShows, LocalCursorVisible
<1>6. CASE UiReturn
  <2>1. /\ uiPc.op = "return" /\ uiPc' = At("close", uiPc.conn)
        /\ hookState' = "NORMAL" /\ (seized => seized')
        /\ UNCHANGED <<ioPc, cursorHidden, outrun, active>>
    BY <1>6 DEF UiReturn, ReturnOnRemove, Hook_Cli_ControlReturn
  <2>2. active[uiPc.conn] /\ uiPc'.op = "close" /\ uiPc'.conn = uiPc.conn
    BY <2>1 DEF Settled, ReturnActive, At
  <2>3. QED
    BY <2>1, <2>2 DEF CursorInv, LeaveShows, RemoteSomewhere, StopShows, LocalCursorVisible
<1>7. CASE UiClose
  BY <1>7, CursorClosed DEF UiClose
<1>8. ASSUME NEW p \in Positions, Cli_StopDetaches(p) PROVE CursorInv'
  <2>1. /\ slot' = [slot EXCEPT ![p] = NoConn] /\ slot[p] \in Conns
        /\ uiPc.op = "idle" /\ uiPc'.op = "close" /\ uiPc'.conn = slot[p]
        /\ UNCHANGED <<started, hookState, currPos, ioPc, cursorHidden, seized,
                       outrun, active>>
        /\ started = "joined"
    BY <1>8, Sessions DEF Cli_StopDetaches, Detach, Idle, At
  <2>2. ioPc.op = "idle"
    BY <2>1 DEF ReclaimInv, StopQuiet
  <2>3. StopShows'
    BY <2>1, ReclaimTypes DEF CursorInv, StopShows, RemoteSomewhere
  <2>4. QED
    BY <2>1, <2>2, <2>3 DEF CursorInv, LeaveShows, RemoteSomewhere,
       LocalCursorVisible
<1>9. CASE Hook_Cli_Stop
  <2>1. /\ started = "joined" /\ uiPc.op = "idle" /\ hookState' = "STOP"
        /\ \A p \in Positions : slot[p] = NoConn
        /\ UNCHANGED <<uiPc, ioPc, cursorHidden, seized, outrun, active>>
        /\ started' = "stopped"
    BY <1>9 DEF Hook_Cli_Stop, Idle, At
  <2>2. ioPc.op = "idle"
    BY <2>1 DEF ReclaimInv, StopQuiet
  <2>3. ~seized /\ ~outrun => ~cursorHidden
    <3>1. CASE hookState = "REMOTE"
      BY <2>1, <3>1 DEF CursorInv, StopShows, RemoteSomewhere
    <3>2. CASE hookState # "REMOTE"
      BY <2>1, <2>2, <3>2 DEF CursorInv, LocalCursorVisible
    <3>3. QED
      BY <3>1, <3>2
  <2>4. QED
    BY <2>1, <2>2, <2>3 DEF CursorInv, LeaveShows, RemoteSomewhere, StopShows,
       LocalCursorVisible
<1>10. QED
  BY <1>1, <1>2, <1>3, <1>4, <1>5, <1>6, <1>7, <1>8, <1>9 DEF UiStep

LEMMA CursorIo ==
  ASSUME TypeOK, ReclaimInv, Settled, CursorInv,
         IoTail \/ (\E c \in Conns : IoSession(c))
  PROVE  CursorInv'
<1> USE DEF clientVars, hookVars, history, sessionVars, serverVars
<1>0. started # "joined" /\ UNCHANGED started
  <2>1. CASE IoTail
    <3>1. ioPc.op # "idle" /\ UNCHANGED started
      BY <2>1 DEF IoTail, Cli_LeaveReturn, IoRemoveServer, IoReturn, IoClose
    <3>2. QED
      BY <3>1 DEF ReclaimInv, StopQuiet
  <2>2. ASSUME NEW c \in Conns, IoSession(c)
        PROVE  started # "joined" /\ UNCHANGED started
    BY <2>2 DEF IoSession, Cli_OnHandShakeReply, Cli_OnLeave, Cli_SessionFails,
       IoReady
  <2>3. QED
    BY <2>1, <2>2
<1>1. ASSUME NEW c \in Conns, Cli_OnHandShakeReply(c) PROVE CursorInv'
  BY <1>1, CursorFrame DEF Cli_OnHandShakeReply, cursorVars
<1>2. ASSUME NEW c \in Conns, Cli_OnLeave(c) PROVE CursorInv'
  BY <1>0, <1>2 DEF Cli_OnLeave, CursorInv, LeaveShows, RemoteSomewhere,
     StopShows, LocalCursorVisible
<1>3. ASSUME NEW c \in Conns, Cli_SessionFails(c) PROVE CursorInv'
  <2>1. /\ ioPc.op = "idle" /\ ioPc'.op = "fail"
        /\ UNCHANGED <<uiPc, hookState, currPos, cursorHidden, seized, outrun, active>>
    BY <1>3 DEF Cli_SessionFails, IoReady, Idle, At
  <2>2. QED
    BY <1>0, <2>1 DEF CursorInv, LeaveShows, RemoteSomewhere, StopShows, LocalCursorVisible
<1>4. CASE Cli_LeaveReturn
  <2>1. /\ ioPc.op = "leave" /\ ioPc'.op = "idle" /\ hookState' = "NORMAL"
        /\ UNCHANGED <<uiPc, currPos, cursorHidden, seized, outrun, active>>
    BY <1>4 DEF Cli_LeaveReturn, Hook_Cli_ControlReturn, Idle, At
  <2>2. QED
    BY <1>0, <2>1 DEF CursorInv, LeaveShows, RemoteSomewhere, StopShows, LocalCursorVisible
<1>5. CASE IoRemoveServer
  <2>1. /\ ioPc.op = "fail" /\ ioPc'.op # "leave"
        /\ UNCHANGED <<uiPc, hookState, currPos, cursorHidden, seized, outrun, active>>
    BY <1>5 DEF IoRemoveServer, AfterDetach, Idle, At
  <2>2. QED
    BY <1>0, <2>1 DEF CursorInv, LeaveShows, RemoteSomewhere, StopShows, LocalCursorVisible
<1>6. CASE IoReturn
  <2>1. /\ ioPc.op = "return" /\ ioPc' = At("close", ioPc.conn)
        /\ hookState' = "NORMAL" /\ (seized => seized')
        /\ UNCHANGED <<uiPc, cursorHidden, outrun, active>>
    BY <1>6 DEF IoReturn, ReturnOnRemove, Hook_Cli_ControlReturn
  <2>2. active[ioPc.conn] /\ ioPc'.op = "close" /\ ioPc'.conn = ioPc.conn
    BY <2>1 DEF Settled, ReturnActive, At
  <2>3. QED
    BY <1>0, <2>1, <2>2 DEF CursorInv, LeaveShows, RemoteSomewhere, StopShows, LocalCursorVisible
<1>7. CASE IoClose
  BY <1>7, CursorClosed DEF IoClose
<1>8. QED
  BY <1>1, <1>2, <1>3, <1>4, <1>5, <1>6, <1>7 DEF IoTail, IoSession

LEMMA CursorHook ==
  ASSUME TypeOK, ReclaimInv, Settled, TokenInv, CursorInv, HookStep
  PROVE  CursorInv'
<1> USE DEF clientVars, hookVars, history, sessionVars, serverVars
<1>1. ASSUME NEW p \in Positions, OnNormalMouseAction(p) PROVE CursorInv'
  <2>1. /\ active' = [active EXCEPT ![slot[p]] = TRUE] /\ hookState = "NORMAL"
        /\ UNCHANGED <<hookState, currPos, uiPc, ioPc, cursorHidden, seized, outrun>>
    BY <1>1 DEF OnNormalMouseAction, SS_SendEnterMsg
  <2>2. /\ \A pc \in {uiPc, ioPc} : pc.op = "close" => pc.conn \in Conns
        /\ active \in [Conns -> BOOLEAN]
    BY Sessions, ReclaimTypes DEF Removing
  <2>3. QED
    BY <2>1, <2>2 DEF CursorInv, LeaveShows, RemoteSomewhere, StopShows, LocalCursorVisible
<1>2. CASE EnterRemote
  <2>1. /\ entering # NoPos /\ hookState' = "REMOTE" /\ currPos' = entering
        /\ outrun' <=> (outrun \/ ioPc = At("leave", slot[entering]))
        /\ UNCHANGED <<started, slot, active, ioPc, seized>>
    BY <1>2 DEF EnterRemote, HookLockFree
  <2>2. LeaveShows'
    BY <2>1, LeaveOutruns DEF LeaveShows
  <2>3. StopShows'
    BY <2>1 DEF StopShows, ReclaimInv, EnteringHeld
  <2>4. QED
    BY <2>1, <2>2, <2>3, ReclaimTypes DEF CursorInv, RemoteSomewhere,
       LocalCursorVisible
<1>3. CASE HookReadsRemote \/ OnRemoteInput
  BY <1>3, CursorFrame DEF HookReadsRemote, OnRemoteInput, cursorVars
<1>4. QED
  BY <1>1, <1>2, <1>3 DEF HookStep

(* Unless a removal took control from another session or a LEAVE came       *)
(* before its ENTER was over, local input never goes with a hidden cursor:  *)
(* whatever ended the remote control has shown it, or the SS_CloseSession   *)
(* that shows it is still to come.                                          *)
THEOREM CursorComesBack == Spec => []LocalCursorVisible
<1>1. Init => CursorInv
  BY DEF Init, CursorInv, LeaveShows, RemoteSomewhere, StopShows, LocalCursorVisible
<1>2. TypeOK /\ ReclaimInv /\ Settled /\ TokenInv /\ CursorInv /\ [Next]_vars
      => CursorInv'
  <2> SUFFICES ASSUME TypeOK, ReclaimInv, Settled, TokenInv, CursorInv, [Next]_vars
               PROVE  CursorInv'
    OBVIOUS
  <2>1. CASE SrvStep \/ \E c \in Conns : LinkDown(c)
    <3>1. UNCHANGED cursorVars
      BY <2>1 DEF SrvStep, Srv_Start, Srv_Stop, Srv_Accept, Srv_SessionFails,
         Srv_OnHandShake, Srv_OnEnter, Srv_OnInput, LinkDown, clientVars,
         hookVars, history, sessionVars, cursorVars
    <3>2. QED
      BY <3>1, CursorFrame
  <2>2. CASE UNCHANGED vars
    BY <2>2, CursorFrame DEF vars, clientVars, hookVars, history, sessionVars,
       cursorVars
  <2>3. QED
    BY <2>1, <2>2, CursorUi, CursorIo, CursorHook DEF Next
<1>3. CursorInv => LocalCursorVisible
  BY DEF CursorInv
<1>4. QED
  BY <1>1, <1>2, <1>3, TypeCorrect, TokenInvariant, PTL DEF Spec
=============================================================================
