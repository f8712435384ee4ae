----------------------------- MODULE AsyncQueue -----------------------------
(***************************************************************************)
(* cmAsyncQueue_t of src/mmcore/Common/thread.c: a queue of data and a     *)
(* queue of waiting threads under one spin lock.  A thread that finds no   *)
(* data puts itself on the wait queue, lets go of the lock and sleeps on   *)
(* an event of its own; Com_PutToAsyncQueue hands its item to the first of *)
(* them, or queues it.  A Get with a timeout that wakes up with nothing    *)
(* takes the lock again and looks whether it is still on the wait queue: a *)
(* Put may have chosen it in the meantime.                                 *)
(*                                                                         *)
(* Items are told apart by number.  The two lists are sequences; their     *)
(* nodes and counters stand for nothing else.  Com_UnInitAsyncQueue is for *)
(* a queue nobody uses any more, and is left out.                          *)
(***************************************************************************)
EXTENDS Naturals, Sequences, SequencesExt

CONSTANTS
  Getters,  \* the threads that take
  MaxPut    \* bound: items put

ASSUME BoundIsNat == MaxPut \in Nat
ASSUME ZeroIsNoGetter == 0 \notin Getters

VARIABLES
  data,       \* the data queue
  waiters,    \* the wait queue: whose asyncWaitInfo_t is on it
  info,       \* info.data of each thread, 0 for NULL
  signalled,  \* the event of each thread is set
  pc,         \* where each thread is: "idle", "wait", "timed", "expired", "done"
  ret,        \* *pdata of a call that is done, 0 if it returned false
  serving,    \* whom a Put that holds the lock is handing its item, or 0
  puts        \* history: items put so far

queues == <<data, waiters>>
calls == <<info, signalled, pc, ret>>
vars == <<queues, calls, serving, puts>>

Items == 1..MaxPut
LockFree == serving = 0
Waiting(g) == Contains(waiters, g)

Init ==
  /\ data = <<>> /\ waiters = <<>>
  /\ info = [g \in Getters |-> 0]
  /\ signalled = [g \in Getters |-> FALSE]
  /\ pc = [g \in Getters |-> "idle"]
  /\ ret = [g \in Getters |-> 0]
  /\ serving = 0
  /\ puts = 0

\* A call returns to its caller with x.
Done(g, x) ==
  /\ pc' = [pc EXCEPT ![g] = "done"]
  /\ ret' = [ret EXCEPT ![g] = x]

-----------------------------------------------------------------------------
(* Com_GetFromAsyncQueue and Com_GetFromAsyncQueueTimeOut.                 *)

GetNow(g) ==
  /\ pc[g] = "idle" /\ LockFree /\ data # <<>>
  /\ data' = Tail(data)
  /\ Done(g, Head(data))
  /\ UNCHANGED <<waiters, info, signalled, serving, puts>>

\* how is "wait" for a call without a timeout, "timed" for one with.
GetWaits(g, how) ==
  /\ pc[g] = "idle" /\ LockFree /\ data = <<>>
  /\ waiters' = Append(waiters, g)
  /\ info' = [info EXCEPT ![g] = 0]
  /\ signalled' = [signalled EXCEPT ![g] = FALSE]
  /\ pc' = [pc EXCEPT ![g] = how]
  /\ UNCHANGED <<data, ret, serving, puts>>

\* The event is set: the item is there, no lock is needed.
Wakes(g) ==
  /\ pc[g] \in {"wait", "timed"} /\ signalled[g]
  /\ Done(g, info[g])
  /\ UNCHANGED <<queues, info, signalled, serving, puts>>

\* Com_WaitEventTimeout gives up; the lock is still to be taken.
Expires(g) ==
  /\ pc[g] = "timed" /\ ~signalled[g]
  /\ pc' = [pc EXCEPT ![g] = "expired"]
  /\ UNCHANGED <<queues, info, signalled, ret, serving, puts>>

\* Mutant: a call whose time is up returns false, come what may.
GivesUp_Always(g) ==
  /\ pc[g] = "expired" /\ LockFree
  /\ waiters' = Remove(waiters, g)
  /\ Done(g, 0)
  /\ UNCHANGED <<data, info, signalled, serving, puts>>

\* __remove_wait_node takes the thread's own node off, and the call has
\* failed; or it finds none: a Put was faster, and the call has not.
GivesUp(g) ==
  /\ pc[g] = "expired" /\ LockFree
  /\ \/ \E i \in DOMAIN waiters :
          /\ waiters[i] = g
          /\ waiters' = RemoveAt(waiters, i)
          /\ Done(g, 0)
     \/ /\ ~Waiting(g)
        /\ Done(g, info[g])
        /\ UNCHANGED waiters
  /\ UNCHANGED <<data, info, signalled, serving, puts>>

Return(g) ==
  /\ pc[g] = "done"
  /\ pc' = [pc EXCEPT ![g] = "idle"]
  /\ UNCHANGED <<queues, info, signalled, ret, serving, puts>>

-----------------------------------------------------------------------------
(* Com_PutToAsyncQueue.                                                    *)

\* Nobody waits.
PutQueues ==
  /\ LockFree /\ waiters = <<>> /\ puts < MaxPut
  /\ data' = Append(data, puts + 1)
  /\ puts' = puts + 1
  /\ UNCHANGED <<waiters, calls, serving>>

\* The first of those who wait is taken off the wait queue and gets the item.
PutHands ==
  /\ LockFree /\ waiters # <<>> /\ puts < MaxPut
  /\ serving' = Head(waiters)
  /\ waiters' = Tail(waiters)
  /\ info' = [info EXCEPT ![Head(waiters)] = puts + 1]
  /\ puts' = puts + 1
  /\ UNCHANGED <<data, signalled, pc, ret>>

\* Mutant: no event for a thread whose call has no timeout.
PutSignals_TimedOnly ==
  /\ ~LockFree
  /\ signalled' = [signalled EXCEPT ![serving] = pc[serving] = "timed"]
  /\ serving' = 0
  /\ UNCHANGED <<queues, info, pc, ret, puts>>

\* Com_SetEvent, and the lock is let go of.
PutSignals ==
  /\ ~LockFree
  /\ signalled' = [signalled EXCEPT ![serving] = TRUE]
  /\ serving' = 0
  /\ UNCHANGED <<queues, info, pc, ret, puts>>

Com_ClearAsyncQueue ==
  /\ LockFree
  /\ data' = <<>>
  /\ UNCHANGED <<waiters, calls, serving, puts>>

-----------------------------------------------------------------------------
GetStep(g) == Wakes(g) \/ Expires(g) \/ GivesUp(g) \/ Return(g)

Next ==
  \/ \E g \in Getters :
       \/ GetNow(g)
       \/ \E how \in {"wait", "timed"} : GetWaits(g, how)
       \/ Wakes(g) \/ Expires(g) \/ GivesUp(g) \/ Return(g)
  \/ PutQueues \/ PutHands \/ PutSignals
  \/ Com_ClearAsyncQueue

Spec == Init /\ [][Next]_vars

\* A Put holds the lock for a few statements, an event or a timeout ends a
\* sleep, and a spin lock is got in the end.  Nobody has to put anything.
Fairness == WF_vars(PutSignals) /\ \A g \in Getters : SF_vars(GetStep(g))
FairSpec == Spec /\ Fairness

-----------------------------------------------------------------------------
(* Properties.                                                             *)

\* The event of a sleeping thread is only set once its item is there, and
\* the wait queue holds each thread that sleeps with nothing, once.
TypeOK ==
  /\ data \in Seq(Items) /\ puts \in 0..MaxPut
  /\ info \in [Getters -> 0..MaxPut] /\ ret \in [Getters -> 0..MaxPut]
  /\ signalled \in [Getters -> BOOLEAN]
  /\ pc \in [Getters -> {"idle", "wait", "timed", "expired", "done"}]
  /\ serving \in Getters \cup {0}
  /\ waiters \in Seq(Getters) /\ IsInjective(waiters)
  /\ \A g \in Getters :
       pc[g] \in {"wait", "timed", "expired"} => (Waiting(g) <=> info[g] = 0)

\* What a thread's call has come to.
CallOf(g) ==
  CASE pc[g] = "idle" -> <<"idle">>
    [] pc[g] = "done" -> IF ret[g] = 0 THEN <<"timed out">> ELSE <<"got", ret[g]>>
    [] OTHER -> IF Waiting(g) THEN <<"asking">> ELSE <<"got", info[g]>>

\* Threads, locks and events are one queue: no item is lost, given twice or
\* out of order when a Put meets a timeout, a call that times out was given
\* nothing, and no thread sleeps beside an item.
Fifo == INSTANCE AsyncFifo WITH
  q <- data, put <- 1..puts, call <- [g \in Getters |-> CallOf(g)]
FifoSpec == Fifo!Spec

\* A call that was handed an item, or has a timeout, returns.
GetReturns ==
  \A g \in Getters :
    pc[g] = "timed" \/ (pc[g] = "wait" /\ ~Waiting(g)) ~> pc[g] = "idle"
=============================================================================
