------------------------------ MODULE KeepAlive ------------------------------
(***************************************************************************)
(* The timers of a session's two ends: SS_OnTimer in                       *)
(* src/mmcore/Client/cli_session.c and src/mmcore/Server/srv_session.c,    *)
(* and the I/O loops of client.c and server.c that call it.  An end that   *)
(* has sent nothing for a while queues a keepalive; an end that has        *)
(* received nothing for longer gives the session up.  Each end decides by  *)
(* its own clock, in a loop that looks at it about once in Tick.           *)
(*                                                                         *)
(* Time is discrete.  Ages are what the code gets when it subtracts a      *)
(* stamp from the current time.  A keepalive and any other message do the  *)
(* same here: bytes that reach the peer.  A turn that sends takes all that *)
(* is queued: with the code's cap on one send, bytes keep going out while  *)
(* some remain.  A socket that cannot be written is a delay of the network.*)
(***************************************************************************)
EXTENDS Integers

CONSTANTS
  Timeout,         \* NM_KEEPALIVE_TIMEOUT
  Margin,          \* the 2000 ms taken off it for sending
  Tick,            \* NM_TIMER_TICK
  Lag,             \* the most one turn of an I/O loop takes
  MaxDelay,        \* the most a healthy network takes from send to recv
  Steps,           \* how far a wall clock may be set, forwards or back
  MaxStep,         \* the most it may be set forwards
  MaxSteps         \* bound: how often

ASSUME TimesAreNat ==
  {Timeout, Margin, Tick, MaxDelay, MaxStep, MaxSteps} \subseteq Nat
ASSUME LagIsPositive == Lag \in Nat \ {0}
ASSUME StepsAreInt == Steps \subseteq Int /\ \A d \in Steps : d <= MaxStep

Ends == {"client", "server"}
Peer(e) == IF e = "client" THEN "server" ELSE "client"

VARIABLES
  sendAge,   \* now - last_send_stamp (last_out_stamp)
  recvAge,   \* now - last_recv_stamp (last_in_stamp)
  tickAge,   \* now - time_mark
  loopAge,   \* time since the end's loop last came round
  out,       \* out_buf: "empty", "queued", or "ready" if in the write set
  wire,      \* ages of the bytes on their way to each end
  status,    \* "open", or how the session ended there
  link,      \* the network works
  steps      \* bound: clock steps so far

ageVars == <<sendAge, recvAge, tickAge>>
keepAliveVars == <<ageVars, loopAge, out, wire, status, link, steps>>

Open(e) == status[e] = "open"

\* The code subtracts 64-bit unsigned numbers: a stamp from the future is
\* very long ago.
Elapsed(age) == IF age < 0 THEN Timeout + Tick + 1 ELSE age

\* The client's time_mark is that of its loop, which may be at any point of
\* a Tick when the session begins; the server's begins with the session.
KeepAliveInit ==
  /\ sendAge = [e \in Ends |-> 0]
  /\ recvAge = [e \in Ends |-> 0]
  /\ tickAge \in {[e \in Ends |-> IF e = "client" THEN t ELSE 0] : t \in 0..Tick}
  /\ loopAge = [e \in Ends |-> 0]
  /\ out = [e \in Ends |-> "empty"]
  /\ wire = [e \in Ends |-> {}]
  /\ status = [e \in Ends |-> "open"]
  /\ link = TRUE
  /\ steps = 0

\* NM_TIMER_TICK has passed since the timers were last looked at.
TimerDue(e) == Elapsed(tickAge[e]) >= Tick

\* Mutant: whatever was sent counts as a sign of life.
Expired_BySend(e) == TimerDue(e) /\ Elapsed(sendAge[e]) > Timeout

\* SS_OnTimer, first half
Expired(e) == TimerDue(e) /\ Elapsed(recvAge[e]) > Timeout

\* Mutant: a keepalive is sent only when the time is up.
QueuesKeepAlive_NoMargin(e) == TimerDue(e) /\ Elapsed(sendAge[e]) > Timeout

\* SS_OnTimer, second half
QueuesKeepAlive(e) == TimerDue(e) /\ Elapsed(sendAge[e]) > Timeout - Margin

\* The session is no longer there: its stamps and buffers are freed.
Close(e, how) ==
  /\ status' = [status EXCEPT ![e] = how]
  /\ sendAge' = [sendAge EXCEPT ![e] = 0]
  /\ recvAge' = [recvAge EXCEPT ![e] = 0]
  /\ tickAge' = [tickAge EXCEPT ![e] = 0]
  /\ loopAge' = [loopAge EXCEPT ![e] = 0]
  /\ out' = [out EXCEPT ![e] = "empty"]
  /\ wire' = [wire EXCEPT ![e] = {}]
  /\ UNCHANGED <<link, steps>>

\* A turn of the loop in which the timer ends the session; what may have
\* arrived in the meantime is not looked at.
TimerCloses(e) ==
  /\ Open(e) /\ Expired(e)
  /\ Close(e, "timer")

\* What a turn finds arrived: the oldest bytes, down to some age.
Arrivals(e) ==
  IF link THEN {{a \in wire[e] : a >= least} : least \in 0..MaxDelay + 1} ELSE {{}}

\* A turn of the loop from select's return to the next select: the timer,
\* then the socket if it was in the write set, and what has arrived; then
\* the sets are built anew.
Turn(e) ==
  /\ Open(e) /\ ~Expired(e)
  /\ \E arrived \in Arrivals(e) :
       LET sends == out[e] = "ready"
       IN  /\ recvAge' = [recvAge EXCEPT ![e] = IF arrived = {} THEN @ ELSE 0]
           /\ sendAge' = [sendAge EXCEPT ![e] = IF sends THEN 0 ELSE @]
           /\ out' = [out EXCEPT ![e] =
                IF sends \/ (@ = "empty" /\ ~QueuesKeepAlive(e))
                THEN "empty" ELSE "ready"]
           /\ wire' = [wire EXCEPT ![e] = @ \ arrived,
                                   ![Peer(e)] = IF sends THEN @ \cup {0} ELSE @]
  /\ tickAge' = [tickAge EXCEPT ![e] = IF TimerDue(e) THEN 0 ELSE @]
  /\ loopAge' = [loopAge EXCEPT ![e] = 0]
  /\ UNCHANGED <<status, link, steps>>

\* Another thread, or a handler, queues a message.
Traffic(e) ==
  /\ Open(e) /\ out[e] = "empty"
  /\ out' = [out EXCEPT ![e] = "queued"]
  /\ UNCHANGED <<ageVars, loopAge, wire, status, link, steps>>

\* The user ends the session: Cli_RemoveServer, or Srv_Stop and the end of
\* the loop it waits for.
Ended(e) ==
  /\ Open(e)
  /\ Close(e, "ended")

\* The peer closed its socket and recv says so.
PeerClosed(e) ==
  /\ Open(e) /\ link /\ status[Peer(e)] \in {"timer", "ended"}
  /\ Close(e, "peer")

-----------------------------------------------------------------------------
(* The environment.                                                        *)

\* One unit of time; no turn takes longer than Lag, no byte of a healthy
\* network longer than MaxDelay.
Pass ==
  /\ \A e \in Ends :
       /\ Open(e) => loopAge[e] < Lag
       /\ Open(e) /\ link => \A a \in wire[e] : a < MaxDelay
  /\ LET Older(age) == [e \in Ends |-> IF Open(e) THEN age[e] + 1 ELSE age[e]]
     IN  /\ sendAge' = Older(sendAge) /\ recvAge' = Older(recvAge)
         /\ tickAge' = Older(tickAge) /\ loopAge' = Older(loopAge)
  /\ wire' = [e \in Ends |-> IF Open(e) /\ link THEN {a + 1 : a \in wire[e]}
                             ELSE {}]
  /\ UNCHANGED <<out, status, link, steps>>

\* The wall clock of one machine is set.
ClockStep(e, d) ==
  /\ Open(e) /\ steps < MaxSteps
  /\ steps' = steps + 1
  /\ sendAge' = [sendAge EXCEPT ![e] = @ + d]
  /\ recvAge' = [recvAge EXCEPT ![e] = @ + d]
  /\ tickAge' = [tickAge EXCEPT ![e] = @ + d]
  /\ UNCHANGED <<loopAge, out, wire, status, link>>

\* A machine loses power, or the network fails, and nobody is told.
Crash(e) ==
  /\ Open(e)
  /\ Close(e, "crashed")

LinkFails ==
  /\ link
  /\ link' = FALSE
  /\ wire' = [e \in Ends |-> {}]
  /\ UNCHANGED <<ageVars, loopAge, out, status, steps>>

-----------------------------------------------------------------------------
KeepAliveNext ==
  \/ Pass
  \/ LinkFails
  \/ \E e \in Ends :
       \/ Turn(e) \/ TimerCloses(e) \/ Ended(e) \/ PeerClosed(e)
       \/ Traffic(e) \/ Crash(e)
       \/ \E d \in Steps : ClockStep(e, d)

KeepAliveSpec == KeepAliveInit /\ [][KeepAliveNext]_keepAliveVars

-----------------------------------------------------------------------------
(* Properties.                                                             *)

Slack == MaxSteps * MaxStep

KeepAliveTypeOK ==
  /\ {sendAge, recvAge, tickAge} \subseteq [Ends -> Int]
  /\ \A e \in Ends : tickAge[e] <= Tick + Lag + Slack
  /\ loopAge \in [Ends -> 0..Lag]
  /\ out \in [Ends -> {"empty", "queued", "ready"}]
  /\ wire \in [Ends -> SUBSET (0..MaxDelay)]
  /\ status \in [Ends -> {"open", "timer", "ended", "peer", "crashed"}]
  /\ link \in BOOLEAN /\ steps \in 0..MaxSteps

\* However quiet the users are, a session between two machines that are up,
\* over a network that works, which no user ends, is never given up: the
\* keepalive of one end, with the turns it may wait for, comes before the
\* other end's patience is over.
NoFalseTimeout ==
  link /\ (\A e \in Ends : status[e] \notin {"crashed", "ended"})
    => \A e \in Ends : status[e] # "timer"

\* A peer that is gone is noticed in bounded time: no end keeps a session
\* that has been silent for longer than the timeout, one tick and one turn.
GoneInTime ==
  \A e \in Ends : Open(e) => recvAge[e] <= Timeout + Tick + Lag + Slack
=============================================================================
