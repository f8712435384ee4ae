------------------------------ MODULE AsyncFifo ------------------------------
(***************************************************************************)
(* What cmAsyncQueue_t (src/mmcore/Common/thread.c) promises the threads   *)
(* that share it: one queue, from which items leave in the order they came *)
(* and one at a time, each once for the one time it was put, and in which  *)
(* nobody waits while there is something to take.  AsyncQueue implements   *)
(* this module.                                                            *)
(***************************************************************************)
EXTENDS Sequences

CONSTANTS
  Getters,  \* the threads that take
  Items     \* what is put

VARIABLES
  q,    \* the items nobody has taken yet, oldest first
  put,  \* the items put so far: each is put once
  call  \* what each thread's call has come to

Idle == <<"idle">>
Asking == <<"asking">>
Got(x) == <<"got", x>>
TimedOut == <<"timed out">>

Init ==
  /\ q = <<>>
  /\ put = {}
  /\ call = [g \in Getters |-> Idle]

Becomes(g, c) == call' = [call EXCEPT ![g] = c]

\* A call that finds nothing waits.
Ask(g) ==
  /\ call[g] = Idle /\ q = <<>>
  /\ Becomes(g, Asking)
  /\ UNCHANGED <<q, put>>

\* A call that finds something takes the oldest.
Take(g) ==
  /\ call[g] = Idle /\ q # <<>>
  /\ Becomes(g, Got(Head(q)))
  /\ q' = Tail(q)
  /\ UNCHANGED put

\* An item goes to a thread that waits, or else to the end of the queue.
Put(x) ==
  /\ x \notin put
  /\ put' = put \cup {x}
  /\ \/ \E g \in Getters :
          /\ call[g] = Asking
          /\ Becomes(g, Got(x))
          /\ UNCHANGED q
     \/ /\ \A g \in Getters : call[g] # Asking
        /\ q' = Append(q, x)
        /\ UNCHANGED call

\* Only a call that was given nothing times out.
TimeOut(g) ==
  /\ call[g] = Asking
  /\ Becomes(g, TimedOut)
  /\ UNCHANGED <<q, put>>

Return(g) ==
  /\ call[g] \notin {Idle, Asking}
  /\ Becomes(g, Idle)
  /\ UNCHANGED <<q, put>>

Clear == q' = <<>> /\ UNCHANGED <<put, call>>

Next ==
  \/ \E g \in Getters : Ask(g) \/ Take(g) \/ TimeOut(g) \/ Return(g)
  \/ \E x \in Items : Put(x)
  \/ Clear

Spec == Init /\ [][Next]_<<q, put, call>>
=============================================================================
