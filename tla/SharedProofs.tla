---------------------------- MODULE SharedProofs ----------------------------
(***************************************************************************)
(* Theorems about what both ends run: the queue between their threads      *)
(* (AsyncQueue) and the timers of their sessions (KeepAlive).              *)
(***************************************************************************)
EXTENDS AsyncQueue, KeepAlive, SequenceTheorems, TLAPS

-----------------------------------------------------------------------------
(* AsyncQueue implements AsyncFifo, for any threads and any number of      *)
(* items.                                                                  *)

Asleep == {"wait", "timed", "expired"}

\* Only a thread that sleeps is on the wait queue.
WaitersAsleep == \A g \in Getters : Waiting(g) => pc[g] \in Asleep

\* The event of a sleeper is set when its item is there, and not before.
SignalGiven == \A g \in Getters : pc[g] \in Asleep /\ signalled[g] => info[g] # 0

\* The thread whose event a Put is about to set has its item and sleeps on.
ServedHasItem ==
  serving # 0 => pc[serving] \in Asleep /\ info[serving] # 0 /\ ~signalled[serving]

Handing == WaitersAsleep /\ SignalGiven /\ ServedHasItem

QueueInv == TypeOK /\ Handing

-----------------------------------------------------------------------------
(* The wait queue: a thread joins it, its first leaves it, one in the       *)
(* middle is unlinked.                                                     *)
LEMMA Joining ==
  ASSUME TypeOK, NEW g \in Getters, ~Waiting(g), waiters' = Append(waiters, g)
  PROVE  /\ waiters' \in Seq(Getters) /\ IsInjective(waiters')
         /\ \A h \in Getters : Waiting(h)' <=> Waiting(h) \/ h = g
<1>1. waiters \in Seq(Getters) /\ IsInjective(waiters)
  BY DEF TypeOK
<1>2. /\ waiters' \in Seq(Getters) /\ Len(waiters') = Len(waiters) + 1
      /\ Len(waiters) \in Nat
      /\ DOMAIN waiters' = 1..(Len(waiters) + 1) /\ DOMAIN waiters = 1..Len(waiters)
      /\ waiters'[Len(waiters) + 1] = g
      /\ \A i \in 1..Len(waiters) : waiters'[i] = waiters[i]
  BY <1>1
<1>3. \A i \in 1..Len(waiters) : waiters[i] # g
  BY DEF Waiting, Contains
<1>4. IsInjective(waiters')
  BY <1>1, <1>2, <1>3 DEF IsInjective
<1>5. ASSUME NEW h \in Getters PROVE Waiting(h)' <=> Waiting(h) \/ h = g
  BY <1>2 DEF Waiting, Contains
<1>6. QED
  BY <1>2, <1>4, <1>5

LEMMA Serving ==
  ASSUME TypeOK, waiters # <<>>, waiters' = Tail(waiters)
  PROVE  /\ waiters' \in Seq(Getters) /\ IsInjective(waiters')
         /\ Head(waiters) \in Getters /\ Waiting(Head(waiters))
         /\ \A h \in Getters : Waiting(h)' <=> Waiting(h) /\ h # Head(waiters)
<1>1. waiters \in Seq(Getters) /\ IsInjective(waiters)
  BY DEF TypeOK
<1>2. /\ waiters' \in Seq(Getters) /\ Len(waiters') = Len(waiters) - 1
      /\ Len(waiters) \in Nat \ {0}
      /\ DOMAIN waiters' = 1..(Len(waiters) - 1) /\ DOMAIN waiters = 1..Len(waiters)
      /\ Head(waiters) = waiters[1] /\ Head(waiters) \in Getters
      /\ \A i \in 1..(Len(waiters) - 1) : waiters'[i] = waiters[i + 1]
  BY <1>1
<1>3. \A i \in 1..Len(waiters) : waiters[i] = waiters[1] => i = 1
  BY <1>1, <1>2 DEF IsInjective
<1>4. IsInjective(waiters')
  <2>1. SUFFICES ASSUME NEW i \in DOMAIN waiters', NEW j \in DOMAIN waiters',
                        waiters'[i] = waiters'[j]
                 PROVE  i = j
    BY DEF IsInjective
  <2>2. i + 1 \in DOMAIN waiters /\ j + 1 \in DOMAIN waiters
        /\ waiters[i + 1] = waiters[j + 1]
    BY <1>2, <2>1
  <2>3. i + 1 = j + 1
    BY <1>1, <2>2 DEF IsInjective
  <2>4. QED
    BY <1>2, <2>3
<1>5. ASSUME NEW h \in Getters
      PROVE  Waiting(h)' <=> Waiting(h) /\ h # Head(waiters)
  <2>1. ASSUME Waiting(h)' PROVE Waiting(h) /\ h # Head(waiters)
    <3>1. PICK i \in 1..(Len(waiters) - 1) : waiters'[i] = h
      BY <1>2, <2>1 DEF Waiting, Contains
    <3>2. i + 1 \in 1..Len(waiters) /\ waiters[i + 1] = h /\ i + 1 # 1
      BY <1>2, <3>1
    <3>3. QED
      BY <1>2, <1>3, <3>2 DEF Waiting, Contains
  <2>2. ASSUME Waiting(h), h # Head(waiters) PROVE Waiting(h)'
    <3>1. PICK i \in 1..Len(waiters) : waiters[i] = h
      BY <2>2 DEF Waiting, Contains
    <3>2. i - 1 \in 1..Len(waiters') /\ waiters'[i - 1] = h
      BY <1>2, <2>2, <3>1
    <3>3. QED
      BY <3>2 DEF Waiting, Contains
  <2>3. QED
    BY <2>1, <2>2
<1>6. Waiting(Head(waiters))
  BY <1>2 DEF Waiting, Contains
<1>7. QED
  BY <1>2, <1>4, <1>5, <1>6

LEMMA Unlinking ==
  ASSUME TypeOK, NEW k \in DOMAIN waiters, waiters' = RemoveAt(waiters, k)
  PROVE  /\ waiters' \in Seq(Getters) /\ IsInjective(waiters')
         /\ \A h \in Getters : Waiting(h)' <=> Waiting(h) /\ h # waiters[k]
<1>1. waiters \in Seq(Getters) /\ IsInjective(waiters)
  BY DEF TypeOK
<1>2. Len(waiters) \in Nat /\ k \in 1..Len(waiters) /\ DOMAIN waiters = 1..Len(waiters)
  BY <1>1
<1> DEFINE n == Len(waiters)
           s == SubSeq(waiters, 1, k - 1)
           t == SubSeq(waiters, k + 1, n)
<1>3. /\ s \in Seq(Getters) /\ Len(s) = k - 1
      /\ \A i \in 1..(k - 1) : s[i] = waiters[i]
  BY <1>1, <1>2
<1>4. /\ t \in Seq(Getters) /\ Len(t) = n - k
      /\ \A i \in 1..(n - k) : t[i] = waiters[k + i]
  BY <1>1, <1>2
<1>5. waiters' = s \o t
  BY DEF RemoveAt
<1>6. /\ waiters' \in Seq(Getters) /\ Len(waiters') = n - 1
      /\ DOMAIN waiters' = 1..(n - 1)
      /\ \A i \in 1..(n - 1) :
           waiters'[i] = IF i < k THEN waiters[i] ELSE waiters[i + 1]
  <2> HIDE DEF s, t
  <2>1. /\ s \o t \in Seq(Getters) /\ Len(s \o t) = Len(s) + Len(t)
        /\ \A i \in 1..(Len(s) + Len(t)) :
             (s \o t)[i] = IF i <= Len(s) THEN s[i] ELSE t[i - Len(s)]
    BY <1>3, <1>4, ConcatProperties
  <2>2. Len(s) + Len(t) = n - 1
    BY <1>2, <1>3, <1>4
  <2>3. waiters' \in Seq(Getters) /\ Len(waiters') = n - 1
    BY <1>5, <2>1, <2>2
  <2>4. ASSUME NEW i \in 1..(n - 1)
        PROVE  waiters'[i] = IF i < k THEN waiters[i] ELSE waiters[i + 1]
    <3>1. waiters'[i] = IF i <= Len(s) THEN s[i] ELSE t[i - Len(s)]
      BY <1>5, <2>1, <2>2
    <3>2. CASE i < k
      BY <1>2, <1>3, <3>1, <3>2
    <3>3. CASE ~(i < k)
      <4>1. i - Len(s) \in 1..(n - k) /\ k + (i - Len(s)) = i + 1 /\ ~(i <= Len(s))
        BY <1>2, <1>3, <3>3
      <4>2. t[i - Len(s)] = waiters[i + 1]
        BY <1>4, <4>1
      <4>3. QED
        BY <3>1, <3>3, <4>1, <4>2
    <3>4. QED
      BY <3>2, <3>3
  <2>5. QED
    BY <2>3, <2>4
<1> HIDE DEF s, t
<1>7. ASSUME NEW i \in 1..(n - 1)
      PROVE  \E j \in 1..n : j # k /\ waiters'[i] = waiters[j]
                             /\ j = IF i < k THEN i ELSE i + 1
  BY <1>2, <1>6
<1>8. IsInjective(waiters')
  <2>1. SUFFICES ASSUME NEW i \in DOMAIN waiters', NEW j \in DOMAIN waiters',
                        waiters'[i] = waiters'[j]
                 PROVE  i = j
    BY DEF IsInjective
  <2>2. PICK i1 \in 1..n : waiters'[i] = waiters[i1] /\ i1 = IF i < k THEN i ELSE i + 1
    BY <1>6, <1>7
  <2>3. PICK j1 \in 1..n : waiters'[j] = waiters[j1] /\ j1 = IF j < k THEN j ELSE j + 1
    BY <1>6, <1>7
  <2>4. i1 = j1
    BY <1>1, <1>2, <2>1, <2>2, <2>3 DEF IsInjective
  <2>5. QED
    BY <1>2, <1>6, <2>2, <2>3, <2>4
<1>9. ASSUME NEW h \in Getters PROVE Waiting(h)' <=> Waiting(h) /\ h # waiters[k]
  <2>1. ASSUME Waiting(h)' PROVE Waiting(h) /\ h # waiters[k]
    <3>1. PICK i \in 1..(n - 1) : waiters'[i] = h
      BY <1>6, <2>1 DEF Waiting, Contains
    <3>2. PICK j \in 1..n : j # k /\ h = waiters[j]
      BY <1>7, <3>1
    <3>3. QED
      BY <1>1, <1>2, <3>2 DEF Waiting, Contains, IsInjective
  <2>2. ASSUME Waiting(h), h # waiters[k] PROVE Waiting(h)'
    <3>1. PICK j \in 1..n : waiters[j] = h
      BY <2>2 DEF Waiting, Contains
    <3>2. CASE j < k
      <4>1. j \in 1..(n - 1) /\ waiters'[j] = h
        BY <1>2, <1>6, <3>1, <3>2
      <4>2. QED
        BY <1>6, <4>1 DEF Waiting, Contains
    <3>3. CASE j > k
      <4>1. j - 1 \in 1..(n - 1) /\ waiters'[j - 1] = h
        BY <1>2, <1>6, <3>1, <3>3
      <4>2. QED
        BY <1>6, <4>1 DEF Waiting, Contains
    <3>4. QED
      BY <1>2, <2>2, <3>1, <3>2, <3>3
  <2>3. QED
    BY <2>1, <2>2
<1>10. QED
  BY <1>6, <1>8, <1>9

-----------------------------------------------------------------------------
(* Every step keeps the invariant.                                         *)
LEMMA QueueStep ==
  QueueInv /\ [Next]_vars => QueueInv'
<1> SUFFICES ASSUME TypeOK, Handing, [Next]_vars
             PROVE  TypeOK' /\ Handing'
  BY DEF QueueInv
<1> USE ZeroIsNoGetter, BoundIsNat
        DEF TypeOK, Handing, WaitersAsleep, SignalGiven, ServedHasItem, Asleep,
            LockFree, Items, queues, calls
<1>1. ASSUME NEW g \in Getters, GetNow(g) PROVE TypeOK' /\ Handing'
  <2>1. data' \in Seq(Items) /\ Head(data) \in Items
    BY <1>1 DEF GetNow
  <2>2. \A h \in Getters : Waiting(h)' <=> Waiting(h)
    BY <1>1 DEF GetNow, Waiting
  <2>3. /\ pc' = [pc EXCEPT ![g] = "done"] /\ ret' \in [Getters -> 0..MaxPut]
        /\ serving = 0 /\ pc[g] = "idle"
        /\ UNCHANGED <<waiters, info, signalled, serving, puts>>
    BY <1>1, <2>1 DEF GetNow, Done
  <2>4. TypeOK'
    BY <2>1, <2>2, <2>3
  <2>5. Handing'
    BY <2>2, <2>3
  <2>6. QED
    BY <2>4, <2>5
<1>2. ASSUME NEW g \in Getters, NEW how \in {"wait", "timed"}, GetWaits(g, how)
      PROVE  TypeOK' /\ Handing'
  <2>1. /\ waiters' \in Seq(Getters) /\ IsInjective(waiters')
        /\ \A h \in Getters : Waiting(h)' <=> Waiting(h) \/ h = g
    BY <1>2, Joining DEF GetWaits
  <2>2. QED
    BY <1>2, <2>1 DEF GetWaits
<1>3. ASSUME NEW g \in Getters, Wakes(g) PROVE TypeOK' /\ Handing'
  <2>1. \A h \in Getters : Waiting(h)' <=> Waiting(h)
    BY <1>3 DEF Wakes, Waiting
  <2>2. /\ signalled[g]
        /\ pc' = [pc EXCEPT ![g] = "done"] /\ ret' \in [Getters -> 0..MaxPut]
        /\ UNCHANGED <<data, waiters, info, signalled, serving, puts>>
    BY <1>3 DEF Wakes, Done
  <2>3. TypeOK'
    BY <2>1, <2>2
  <2>4. Handing'
    BY <2>1, <2>2
  <2>5. QED
    BY <2>3, <2>4
<1>4. ASSUME NEW g \in Getters, Expires(g) PROVE TypeOK' /\ Handing'
  <2>1. \A h \in Getters : Waiting(h)' <=> Waiting(h)
    BY <1>4 DEF Expires, Waiting
  <2>2. QED
    BY <1>4, <2>1 DEF Expires
<1>5. ASSUME NEW g \in Getters, GivesUp(g) PROVE TypeOK' /\ Handing'
  <2>1. /\ waiters' \in Seq(Getters) /\ IsInjective(waiters')
        /\ \A h \in Getters : Waiting(h)' <=> Waiting(h) /\ h # g
    <3>1. ASSUME NEW i \in DOMAIN waiters, waiters[i] = g,
                 waiters' = RemoveAt(waiters, i)
          PROVE  /\ waiters' \in Seq(Getters) /\ IsInjective(waiters')
                 /\ \A h \in Getters : Waiting(h)' <=> Waiting(h) /\ h # g
      BY <3>1, Unlinking
    <3>2. CASE ~Waiting(g) /\ UNCHANGED waiters
      BY <3>2 DEF Waiting
    <3>3. QED
      BY <1>5, <3>1, <3>2 DEF GivesUp
  <2>2. pc' = [pc EXCEPT ![g] = "done"] /\ ret' \in [Getters -> 0..MaxPut]
    BY <1>5 DEF GivesUp, Done
  <2>3. pc[g] = "expired" /\ serving = 0 /\ UNCHANGED <<data, info, signalled, serving, puts>>
    BY <1>5 DEF GivesUp
  <2>4. TypeOK'
    BY <2>1, <2>2, <2>3
  <2>5. Handing'
    BY <2>1, <2>2, <2>3
  <2>6. QED
    BY <2>4, <2>5
<1>6. ASSUME NEW g \in Getters, Return(g) PROVE TypeOK' /\ Handing'
  <2>1. \A h \in Getters : Waiting(h)' <=> Waiting(h)
    BY <1>6 DEF Return, Waiting
  <2>2. QED
    BY <1>6, <2>1 DEF Return
<1>7. CASE PutQueues
  <2>1. data' \in Seq(Items)
    BY <1>7 DEF PutQueues
  <2>2. \A h \in Getters : Waiting(h)' <=> Waiting(h)
    BY <1>7 DEF PutQueues, Waiting
  <2>3. QED
    BY <1>7, <2>1, <2>2 DEF PutQueues
<1>8. CASE PutHands
  <2>1. /\ waiters' \in Seq(Getters) /\ IsInjective(waiters')
        /\ Head(waiters) \in Getters /\ Waiting(Head(waiters))
        /\ \A h \in Getters : Waiting(h)' <=> Waiting(h) /\ h # Head(waiters)
    BY <1>8, Serving DEF PutHands
  <2>2. /\ serving = 0 /\ serving' = Head(waiters) /\ puts' \in 1..MaxPut
        /\ info' = [info EXCEPT ![Head(waiters)] = puts']
        /\ UNCHANGED <<data, signalled, pc, ret>>
    BY <1>8 DEF PutHands
  <2>3. info' \in [Getters -> 0..MaxPut]
    BY <2>1, <2>2
  <2>4. TypeOK'
    BY <2>1, <2>2, <2>3
  <2>5. pc[Head(waiters)] \in Asleep /\ ~signalled[Head(waiters)]
    BY <2>1
  <2>6. Handing'
    BY <2>1, <2>2, <2>5
  <2>7. QED
    BY <2>4, <2>6
<1>9. CASE PutSignals
  <2>1. \A h \in Getters : Waiting(h)' <=> Waiting(h)
    BY <1>9 DEF PutSignals, Waiting
  <2>2. QED
    BY <1>9, <2>1 DEF PutSignals
<1>10. CASE Com_ClearAsyncQueue
  <2>1. data' \in Seq(Items)
    BY <1>10 DEF Com_ClearAsyncQueue
  <2>2. \A h \in Getters : Waiting(h)' <=> Waiting(h)
    BY <1>10 DEF Com_ClearAsyncQueue, Waiting
  <2>3. QED
    BY <1>10, <2>1, <2>2 DEF Com_ClearAsyncQueue
<1>11. CASE UNCHANGED vars
  <2>1. \A h \in Getters : Waiting(h)' <=> Waiting(h)
    BY <1>11 DEF vars, Waiting
  <2>2. QED
    BY <1>11, <2>1 DEF vars
<1>12. QED
  BY <1>1, <1>2, <1>3, <1>4, <1>5, <1>6, <1>7, <1>8, <1>9, <1>10, <1>11 DEF Next

LEMMA QueueInit ==
  Init => QueueInv
<1> SUFFICES ASSUME Init PROVE QueueInv
  OBVIOUS
<1>1. \A g \in Getters : ~Waiting(g)
  BY DEF Init, Waiting, Contains
<1>2. TypeOK
  BY <1>1, BoundIsNat DEF Init, TypeOK, IsInjective, Items
<1>3. Handing
  BY <1>1 DEF Init, Handing, WaitersAsleep, SignalGiven, ServedHasItem, Asleep
<1>4. QED
  BY <1>2, <1>3 DEF QueueInv

LEMMA QueueInvariant ==
  Spec => []QueueInv
BY QueueInit, QueueStep, PTL DEF Spec

(* Every reachable state is well typed: the wait queue holds each thread    *)
(* that sleeps with nothing, once.                                         *)
THEOREM QueueTypeCorrect ==
  Spec => []TypeOK
<1>1. QueueInv => TypeOK
  BY DEF QueueInv
<1>2. QED
  BY <1>1, QueueInvariant, PTL

-----------------------------------------------------------------------------
(* The refinement.  The calls of the abstract queue, and how they change.  *)
CallNames == {<<"idle">>, <<"asking">>, <<"timed out">>}

LEMMA Distinct ==
  /\ <<"idle">> # <<"asking">> /\ <<"idle">> # <<"timed out">>
  /\ <<"asking">> # <<"timed out">>
  /\ \A x : <<"got", x>> \notin CallNames
<1>1. /\ <<"idle">>[1] = "idle" /\ <<"asking">>[1] = "asking"
      /\ <<"timed out">>[1] = "timed out"
  OBVIOUS
<1>2. \A x : <<"got", x>>[1] = "got"
  OBVIOUS
<1>3. QED
  BY <1>1, <1>2 DEF CallNames

LEMMA OneCall ==
  ASSUME NEW g \in Getters, NEW c, CallOf(g)' = c,
         \A h \in Getters \ {g} : CallOf(h)' = CallOf(h)
  PROVE  Fifo!Becomes(g, c)
BY DEF Fifo!Becomes

LEMMA NoCall ==
  ASSUME \A h \in Getters : CallOf(h)' = CallOf(h)
  PROVE  UNCHANGED [g \in Getters |-> CallOf(g)]
OBVIOUS

(* The next item is one that has not been put yet.                         *)
LEMMA NextIsNew ==
  ASSUME TypeOK, puts' = puts + 1
  PROVE  puts + 1 \notin 1..puts /\ (1..puts)' = 1..puts \cup {puts + 1}
<1>1. puts \in Nat
  BY BoundIsNat DEF TypeOK
<1>2. QED
  BY <1>1

(* Every step of the threads is one of the abstract queue, or none.        *)
LEMMA FifoStep ==
  QueueInv /\ [Next]_vars =>
    [Fifo!Next]_<<data, 1..puts, [g \in Getters |-> CallOf(g)]>>
<1> SUFFICES ASSUME TypeOK, Handing, [Next]_vars,
                    ~ UNCHANGED <<data, 1..puts, [g \in Getters |-> CallOf(g)]>>
             PROVE  Fifo!Next
  BY DEF QueueInv
<1> DEFINE Same(h) == CallOf(h)' = CallOf(h)
<1>a. ASSUME UNCHANGED data, UNCHANGED puts, \A h \in Getters : Same(h) PROVE FALSE
  BY <1>a, NoCall
<1> USE ZeroIsNoGetter, BoundIsNat DEF Asleep, LockFree, queues, calls
<1>1. ASSUME NEW g \in Getters, GetNow(g) PROVE Fifo!Next
  <2>1. Head(data) \in Items /\ Head(data) # 0
    BY <1>1 DEF GetNow, TypeOK, Items
  <2>2. CallOf(g) = <<"idle">> /\ CallOf(g)' = <<"got", Head(data)>>
    BY <1>1, <2>1 DEF GetNow, Done, CallOf, TypeOK
  <2>3. \A h \in Getters \ {g} : Same(h)
    BY <1>1 DEF GetNow, Done, CallOf, TypeOK, Waiting
  <2>4. Fifo!Take(g)
    BY <1>1, <2>2, <2>3, OneCall DEF GetNow, Fifo!Take, Fifo!Idle, Fifo!Got
  <2>5. QED
    BY <2>4 DEF Fifo!Next
<1>2. ASSUME NEW g \in Getters, NEW how \in {"wait", "timed"}, GetWaits(g, how)
      PROVE  Fifo!Next
  <2>1. \A h \in Getters : Waiting(h)' <=> Waiting(h) \/ h = g
    <3>1. ~Waiting(g)
      BY <1>2 DEF GetWaits, Handing, WaitersAsleep
    <3>2. QED
      BY <1>2, <3>1, Joining DEF GetWaits
  <2>2. CallOf(g) = <<"idle">> /\ CallOf(g)' = <<"asking">>
    BY <1>2, <2>1 DEF GetWaits, CallOf, TypeOK
  <2>3. \A h \in Getters \ {g} : Same(h)
    BY <1>2, <2>1 DEF GetWaits, CallOf, TypeOK
  <2>4. Fifo!Ask(g)
    BY <1>2, <2>2, <2>3, OneCall DEF GetWaits, Fifo!Ask, Fifo!Idle, Fifo!Asking
  <2>5. QED
    BY <2>4 DEF Fifo!Next
<1>3. ASSUME NEW g \in Getters, Wakes(g) PROVE Fifo!Next
  <2>1. info[g] # 0 /\ ~Waiting(g)
    BY <1>3 DEF Wakes, Handing, SignalGiven, TypeOK
  <2>2. CallOf(g) = <<"got", info[g]>> /\ CallOf(g)' = <<"got", info[g]>>
    BY <1>3, <2>1 DEF Wakes, Done, CallOf, TypeOK
  <2>3. \A h \in Getters \ {g} : Same(h)
    BY <1>3 DEF Wakes, Done, CallOf, TypeOK, Waiting
  <2>4. QED
    BY <1>3, <2>2, <2>3, <1>a DEF Wakes
<1>4. ASSUME NEW g \in Getters, Expires(g) PROVE Fifo!Next
  <2>1. \A h \in Getters : Same(h)
    BY <1>4 DEF Expires, CallOf, TypeOK, Waiting
  <2>2. QED
    BY <1>4, <2>1, <1>a DEF Expires
<1>5. ASSUME NEW g \in Getters, GivesUp(g) PROVE Fifo!Next
  <2>1. pc[g] = "expired" /\ UNCHANGED <<data, info, puts>>
    BY <1>5 DEF GivesUp
  <2>2. ASSUME NEW i \in DOMAIN waiters, waiters[i] = g,
               waiters' = RemoveAt(waiters, i), Done(g, 0)
        PROVE  Fifo!Next
    <3>1. Waiting(g)
      BY <2>2 DEF Waiting, Contains, TypeOK
    <3>2. \A h \in Getters : Waiting(h)' <=> Waiting(h) /\ h # g
      BY <2>2, Unlinking
    <3>3. CallOf(g) = <<"asking">> /\ CallOf(g)' = <<"timed out">>
      BY <2>1, <2>2, <3>1 DEF Done, CallOf, TypeOK
    <3>4. \A h \in Getters \ {g} : Same(h)
      BY <2>1, <2>2, <3>2 DEF Done, CallOf, TypeOK
    <3>5. Fifo!TimeOut(g)
      BY <2>1, <3>3, <3>4, OneCall DEF Fifo!TimeOut, Fifo!Asking, Fifo!TimedOut
    <3>6. QED
      BY <3>5 DEF Fifo!Next
  <2>3. ASSUME ~Waiting(g), Done(g, info[g]), UNCHANGED waiters
        PROVE  Fifo!Next
    <3>1. info[g] # 0
      BY <2>1, <2>3 DEF TypeOK
    <3>2. CallOf(g) = <<"got", info[g]>> /\ CallOf(g)' = <<"got", info[g]>>
      BY <2>1, <2>3, <3>1 DEF Done, CallOf, TypeOK
    <3>3. \A h \in Getters \ {g} : Same(h)
      BY <2>1, <2>3 DEF Done, CallOf, TypeOK, Waiting
    <3>4. QED
      BY <2>1, <3>2, <3>3, <1>a
  <2>4. QED
    BY <1>5, <2>2, <2>3 DEF GivesUp
<1>6. ASSUME NEW g \in Getters, Return(g) PROVE Fifo!Next
  <2>1. CallOf(g) \notin {<<"idle">>, <<"asking">>} /\ CallOf(g)' = <<"idle">>
    BY <1>6, Distinct DEF Return, CallOf, TypeOK, CallNames
  <2>2. \A h \in Getters \ {g} : Same(h)
    BY <1>6 DEF Return, CallOf, TypeOK, Waiting
  <2>3. Fifo!Return(g)
    BY <1>6, <2>1, <2>2, OneCall DEF Return, Fifo!Return, Fifo!Idle, Fifo!Asking
  <2>4. QED
    BY <2>3 DEF Fifo!Next
<1>7. CASE PutQueues
  <2>1. puts + 1 \in Items
    BY <1>7 DEF PutQueues, TypeOK, Items
  <2>2. \A h \in Getters : ~Waiting(h)
    BY <1>7 DEF PutQueues, Waiting, Contains
  <2>3. \A h \in Getters : CallOf(h) # <<"asking">>
    BY <2>2, Distinct DEF CallOf, CallNames
  <2>4. \A h \in Getters : Same(h)
    BY <1>7 DEF PutQueues, CallOf, Waiting
  <2>new. puts + 1 \notin 1..puts /\ (1..puts)' = 1..puts \cup {puts + 1}
    BY <1>7, NextIsNew DEF PutQueues
  <2>5. Fifo!Put(puts + 1)
    BY <1>7, <2>3, <2>4, <2>new, NoCall DEF PutQueues, Fifo!Put, Fifo!Asking
  <2>6. QED
    BY <2>1, <2>5 DEF Fifo!Next
<1>8. CASE PutHands
  <2>1. PICK g \in Getters : g = Head(waiters)
    BY <1>8, Serving DEF PutHands
  <2>2. Waiting(g) /\ \A h \in Getters : Waiting(h)' <=> Waiting(h) /\ h # g
    BY <1>8, <2>1, Serving DEF PutHands
  <2>3. pc[g] \in Asleep
    BY <2>2 DEF Handing, WaitersAsleep
  <2>4. /\ info' = [info EXCEPT ![g] = puts + 1] /\ puts + 1 \in Items
        /\ UNCHANGED <<data, pc, ret>>
    BY <1>8, <2>1 DEF PutHands, TypeOK, Items
  <2>5. CallOf(g) = <<"asking">> /\ CallOf(g)' = <<"got", puts + 1>>
    BY <2>2, <2>3, <2>4 DEF CallOf, TypeOK
  <2>6. \A h \in Getters \ {g} : Same(h)
    BY <2>2, <2>4 DEF CallOf, TypeOK
  <2>7. Fifo!Becomes(g, <<"got", puts + 1>>)
    BY <2>5, <2>6, OneCall
  <2>new. puts + 1 \notin 1..puts /\ (1..puts)' = 1..puts \cup {puts + 1}
    BY <1>8, NextIsNew DEF PutHands
  <2>8. Fifo!Put(puts + 1)
    BY <2>4, <2>5, <2>7, <2>new DEF Fifo!Put, Fifo!Asking, Fifo!Got
  <2>9. QED
    BY <2>4, <2>8 DEF Fifo!Next
<1>9. CASE PutSignals
  <2>1. \A h \in Getters : Same(h)
    BY <1>9 DEF PutSignals, CallOf, Waiting
  <2>2. QED
    BY <1>9, <2>1, <1>a DEF PutSignals
<1>10. CASE Com_ClearAsyncQueue
  <2>1. \A h \in Getters : Same(h)
    BY <1>10 DEF Com_ClearAsyncQueue, CallOf, Waiting
  <2>2. QED
    BY <1>10, <2>1, NoCall DEF Com_ClearAsyncQueue, Fifo!Next, Fifo!Clear
<1>11. CASE UNCHANGED vars
  <2>1. \A h \in Getters : Same(h)
    BY <1>11 DEF vars, CallOf, Waiting
  <2>2. QED
    BY <1>11, <2>1, <1>a DEF vars
<1>12. QED
  BY <1>1, <1>2, <1>3, <1>4, <1>5, <1>6, <1>7, <1>8, <1>9, <1>10, <1>11 DEF Next

LEMMA FifoInit ==
  Init => Fifo!Init
BY DEF Init, Fifo!Init, Fifo!Idle, CallOf

(* Wait list, events and spin lock are one queue of items, whoever times    *)
(* out while a Put is under way.                                           *)
THEOREM AsyncQueueIsFifo ==
  Spec => FifoSpec
BY FifoInit, FifoStep, QueueInvariant, PTL DEF Spec, FifoSpec, Fifo!Spec

-----------------------------------------------------------------------------
(* KeepAlive: how long a dead peer is kept, for all times, and for which   *)
(* times a live one is never given up.                                     *)

\* What the clocks have been set forwards by, at most.
Drift == steps * MaxStep

\* The ages of an open session: the timer's is bounded, and a peer has been
\* silent for no longer than it had when the timer last looked.
TimerLooks ==
  /\ steps \in 0..MaxSteps
  /\ sendAge \in [Ends -> Int] /\ recvAge \in [Ends -> Int]
  /\ tickAge \in [Ends -> Int] /\ loopAge \in [Ends -> 0..Lag]
  /\ \A e \in Ends : tickAge[e] <= Tick + loopAge[e] + Drift
  /\ \A e \in Ends : recvAge[e] <= Timeout + tickAge[e]

\* The times for which nobody is given up who is there.
Tuned ==
  /\ Steps \subseteq Nat
  /\ Tick >= 1 /\ Margin <= Timeout
  /\ Tick + 2 * Lag + MaxDelay + Slack <= Margin + 1

\* How old the last thing sent may be, before anybody waits.
Patience == Timeout - Margin + Tick - 1

\* An end with nothing to send was not due for a keepalive when its timer
\* last looked.
Watchful(p) == out[p] = "empty" => sendAge[p] <= Timeout - Margin + tickAge[p]

\* What e has heard of its peer p, if everything sent has been received: it
\* was not long before p sent it, and p sends again in time.
Heard(e, p) ==
  wire[e] = {} =>
    /\ recvAge[e] <= sendAge[p] + Drift
    /\ recvAge[e] <= Patience + Drift + loopAge[p]
                       + (IF out[p] = "ready" THEN Lag ELSE 0)

\* And if something is on its way, it was sent in time.
Hears(e) ==
  wire[e] # {} =>
    \E a \in wire[e] : recvAge[e] <= Patience + Drift + 2 * Lag + a

Timing ==
  /\ sendAge \in [Ends -> Nat] /\ tickAge \in [Ends -> Nat]
  /\ recvAge \in [Ends -> Nat]
  /\ \A e \in Ends : Watchful(e) /\ Heard(e, Peer(e)) /\ Hears(e)

WiresTyped ==
  /\ out \in [Ends -> {"empty", "queued", "ready"}]
  /\ wire \in [Ends -> SUBSET (0..MaxDelay)]
  /\ status \in [Ends -> {"open", "timer", "ended", "peer", "crashed"}]
  /\ link \in BOOLEAN

\* As long as nobody leaves and nothing fails, both are there.
Undisturbed == link /\ \A e \in Ends : status[e] \notin {"crashed", "ended"}

Together ==
  Undisturbed => (\A e \in Ends : Open(e)) /\ Timing

KeepInv == TimerLooks /\ WiresTyped /\ Together

-----------------------------------------------------------------------------
(* The drift grows by what a clock is set forwards, and has its bound.     *)
LEMMA DriftGrows ==
  ASSUME steps \in 0..MaxSteps
  PROVE  /\ Drift \in Nat /\ Drift <= Slack /\ Slack \in Nat
         /\ (steps + 1) * MaxStep = Drift + MaxStep
<1>1. MaxStep \in Nat /\ MaxSteps \in Nat /\ steps \in Nat
  BY TimesAreNat
<1>2. steps * MaxStep \in Nat /\ MaxSteps * MaxStep \in Nat
  BY <1>1
<1>3. steps * MaxStep <= MaxSteps * MaxStep
  BY <1>1
<1>4. (steps + 1) * MaxStep = steps * MaxStep + MaxStep
  BY <1>1
<1>5. QED
  BY <1>2, <1>3, <1>4 DEF Drift, Slack

LEMMA Peers ==
  \A e \in Ends : /\ Peer(e) \in Ends /\ Peer(e) # e /\ Peer(Peer(e)) = e
                  /\ Ends = {e, Peer(e)}
BY DEF Ends, Peer

-----------------------------------------------------------------------------
(* How long a silent peer is kept.                                         *)
LEMMA LooksInit ==
  KeepAliveInit => TimerLooks
BY TimesAreNat, LagIsPositive, DriftGrows
   DEF KeepAliveInit, TimerLooks, Drift

LEMMA LooksStep ==
  TimerLooks /\ [KeepAliveNext]_keepAliveVars => TimerLooks'
<1> SUFFICES ASSUME TimerLooks, [KeepAliveNext]_keepAliveVars PROVE TimerLooks'
  OBVIOUS
<1>0. /\ {Timeout, Tick, Lag, MaxStep} \subseteq Nat /\ Drift \in Nat
      /\ (steps + 1) * MaxStep = Drift + MaxStep
  BY TimesAreNat, LagIsPositive, DriftGrows DEF TimerLooks
<1>1. steps' = steps => Drift' = Drift
  BY DEF Drift
<1>2. CASE Pass
  <2>1. /\ \A e \in Ends : loopAge'[e] = IF Open(e) THEN loopAge[e] + 1 ELSE loopAge[e]
        /\ \A e \in Ends : tickAge'[e] = IF Open(e) THEN tickAge[e] + 1 ELSE tickAge[e]
        /\ \A e \in Ends : recvAge'[e] = IF Open(e) THEN recvAge[e] + 1 ELSE recvAge[e]
        /\ \A e \in Ends : Open(e) => loopAge[e] < Lag
    BY <1>2 DEF Pass
  <2>2. /\ sendAge' \in [Ends -> Int] /\ recvAge' \in [Ends -> Int]
        /\ tickAge' \in [Ends -> Int] /\ loopAge' \in [Ends -> 0..Lag]
        /\ steps' = steps
    BY <1>0, <1>2 DEF Pass, TimerLooks
  <2>3. QED
    BY <1>0, <1>1, <2>1, <2>2 DEF TimerLooks
<1>3. ASSUME NEW e \in Ends, Turn(e) PROVE TimerLooks'
  <2>1. /\ sendAge' \in [Ends -> Int]
        /\ \/ recvAge' = recvAge
           \/ recvAge' = [recvAge EXCEPT ![e] = 0]
        /\ tickAge' = [tickAge EXCEPT ![e] = IF TimerDue(e) THEN 0 ELSE @]
        /\ loopAge' = [loopAge EXCEPT ![e] = 0] /\ steps' = steps
    <3>1. PICK arrived :
            /\ recvAge' = [recvAge EXCEPT ![e] = IF arrived = {} THEN @ ELSE 0]
            /\ sendAge' = [sendAge EXCEPT ![e] = IF out[e] = "ready" THEN 0 ELSE @]
      BY <1>3 DEF Turn
    <3>2. recvAge' = recvAge \/ recvAge' = [recvAge EXCEPT ![e] = 0]
      BY <3>1 DEF TimerLooks
    <3>3. sendAge' \in [Ends -> Int]
      BY <3>1 DEF TimerLooks
    <3>4. QED
      BY <1>3, <3>2, <3>3 DEF Turn
  <2>2. /\ ~TimerDue(e) => tickAge[e] \in 0..Tick
        /\ TimerDue(e) => recvAge[e] <= Timeout
    BY <1>0, <1>3 DEF Turn, Expired, TimerDue, Elapsed, TimerLooks
  <2>3. QED
    BY <1>0, <1>1, <2>1, <2>2 DEF TimerLooks
<1>4. ASSUME NEW e \in Ends, NEW how \in {"timer", "ended", "peer", "crashed"},
             Close(e, how)
      PROVE  TimerLooks'
  BY <1>0, <1>1, <1>4 DEF Close, TimerLooks
<1>5. ASSUME NEW e \in Ends, NEW d \in Steps, ClockStep(e, d) PROVE TimerLooks'
  <2>1. d \in Int /\ d <= MaxStep
    BY StepsAreInt
  <2>2. steps' \in 0..MaxSteps /\ Drift' = Drift + MaxStep
    BY <1>0, <1>5, TimesAreNat DEF ClockStep, TimerLooks, Drift
  <2>3. QED
    BY <1>0, <1>5, <2>1, <2>2 DEF ClockStep, TimerLooks
<1>6. CASE LinkFails
  BY <1>1, <1>6 DEF LinkFails, ageVars, TimerLooks
<1>7. ASSUME NEW e \in Ends, Traffic(e) PROVE TimerLooks'
  BY <1>1, <1>7 DEF Traffic, ageVars, TimerLooks
<1>8. CASE UNCHANGED keepAliveVars
  BY <1>1, <1>8 DEF keepAliveVars, ageVars, TimerLooks
<1>9. QED
  BY <1>2, <1>3, <1>4, <1>5, <1>6, <1>7, <1>8
     DEF KeepAliveNext, TimerCloses, Ended, PeerClosed, Crash

(* Whatever the users, the network and the clocks do, nobody keeps a        *)
(* session with a silent peer for longer than the timeout, a tick, and one  *)
(* turn of the loop.                                                       *)
THEOREM SilentPeerGoneInTime ==
  KeepAliveSpec => []GoneInTime
<1>1. TimerLooks => GoneInTime
  <2> SUFFICES ASSUME TimerLooks, NEW e \in Ends
               PROVE  recvAge[e] <= Timeout + Tick + Lag + Slack
    BY DEF GoneInTime
  <2>1. Drift \in Nat /\ Drift <= Slack /\ Slack \in Nat
    BY DriftGrows DEF TimerLooks
  <2>2. QED
    BY <2>1, TimesAreNat, LagIsPositive DEF TimerLooks
<1>2. QED
  BY <1>1, LooksInit, LooksStep, PTL DEF KeepAliveSpec

-----------------------------------------------------------------------------
(* What is on its way, and whether the session is there.                   *)
LEMMA WiresStep ==
  WiresTyped /\ [KeepAliveNext]_keepAliveVars => WiresTyped'
<1> SUFFICES ASSUME WiresTyped, [KeepAliveNext]_keepAliveVars PROVE WiresTyped'
  OBVIOUS
<1> USE TimesAreNat DEF WiresTyped
<1>1. CASE Pass
  <2>1. ASSUME NEW e \in Ends, Open(e), link
        PROVE  {a + 1 : a \in wire[e]} \subseteq 0..MaxDelay
    BY <1>1, <2>1 DEF Pass
  <2>2. wire' \in [Ends -> SUBSET (0..MaxDelay)]
    BY <1>1, <2>1 DEF Pass
  <2>3. QED
    BY <1>1, <2>2 DEF Pass
<1>2. ASSUME NEW e \in Ends, Turn(e) PROVE WiresTyped'
  <2>1. PICK arrived :
          /\ out' = [out EXCEPT ![e] =
               IF out[e] = "ready" \/ (@ = "empty" /\ ~QueuesKeepAlive(e))
               THEN "empty" ELSE "ready"]
          /\ wire' = [wire EXCEPT ![e] = @ \ arrived,
                        ![Peer(e)] = IF out[e] = "ready" THEN @ \cup {0} ELSE @]
    BY <1>2 DEF Turn
  <2>2. wire' \in [Ends -> SUBSET (0..MaxDelay)]
    BY <2>1, Peers
  <2>3. out' \in [Ends -> {"empty", "queued", "ready"}]
    BY <2>1
  <2>4. QED
    BY <1>2, <2>2, <2>3 DEF Turn
<1>3. ASSUME NEW e \in Ends, NEW how \in {"timer", "ended", "peer", "crashed"},
             Close(e, how)
      PROVE  WiresTyped'
  BY <1>3 DEF Close
<1>4. ASSUME NEW e \in Ends, NEW d \in Steps, ClockStep(e, d) PROVE WiresTyped'
  BY <1>4 DEF ClockStep
<1>5. CASE LinkFails
  BY <1>5 DEF LinkFails
<1>6. ASSUME NEW e \in Ends, Traffic(e) PROVE WiresTyped'
  BY <1>6 DEF Traffic
<1>7. CASE UNCHANGED keepAliveVars
  BY <1>7 DEF keepAliveVars
<1>8. QED
  BY <1>1, <1>2, <1>3, <1>4, <1>5, <1>6, <1>7
     DEF KeepAliveNext, TimerCloses, Ended, PeerClosed, Crash

LEMMA Bounded ==
  KeepAliveSpec => [](TimerLooks /\ WiresTyped)
<1>1. KeepAliveInit => WiresTyped
  BY DEF KeepAliveInit, WiresTyped
<1>2. QED
  BY <1>1, LooksInit, LooksStep, WiresStep, PTL DEF KeepAliveSpec

(* Every reachable state is well typed.                                    *)
THEOREM KeepAliveTypeCorrect ==
  KeepAliveSpec => []KeepAliveTypeOK
<1>1. TimerLooks /\ WiresTyped => KeepAliveTypeOK
  <2> SUFFICES ASSUME TimerLooks, WiresTyped PROVE KeepAliveTypeOK
    OBVIOUS
  <2>1. Drift \in Nat /\ Drift <= Slack /\ Slack \in Nat
    BY DriftGrows DEF TimerLooks
  <2>2. \A e \in Ends : tickAge[e] <= Tick + Lag + Slack
    BY <2>1, TimesAreNat, LagIsPositive DEF TimerLooks
  <2>3. QED
    BY <2>2 DEF KeepAliveTypeOK, TimerLooks, WiresTyped
<1>2. QED
  BY <1>1, Bounded, PTL

-----------------------------------------------------------------------------
(* Nobody is given up who is there.                                        *)
LEMMA TunedTimes ==
  ASSUME Tuned
  PROVE  /\ {Timeout, Margin, Tick, Lag, MaxDelay, MaxStep} \subseteq Nat
         /\ Patience \in Nat /\ Timeout - Margin \in Nat
         /\ Patience + Slack + 2 * Lag + MaxDelay <= Timeout
BY TimesAreNat, LagIsPositive DEF Tuned, Patience, Slack

LEMMA TogetherInit ==
  Tuned /\ KeepAliveInit => Together
<1> SUFFICES ASSUME Tuned, KeepAliveInit PROVE Together
  OBVIOUS
<1>1. Timing
  <2>1. sendAge \in [Ends -> Nat] /\ recvAge \in [Ends -> Nat]
        /\ tickAge \in [Ends -> Nat]
    BY TimesAreNat DEF KeepAliveInit
  <2>2. Drift \in Nat
    BY DriftGrows, TimesAreNat DEF KeepAliveInit
  <2>3. QED
    BY <2>1, <2>2, TunedTimes, Peers DEF KeepAliveInit, Timing, Watchful, Heard, Hears
<1>2. QED
  BY <1>1 DEF Together, KeepAliveInit, Open

(* An end that has heard, or hears, its peer does not give it up.          *)
LEMMA Patient ==
  ASSUME Tuned, TimerLooks, WiresTyped, Timing, NEW e \in Ends
  PROVE  recvAge[e] <= Timeout /\ ~Expired(e)
<1>1. Drift \in Nat /\ Drift <= Slack /\ Slack \in Nat
  BY DriftGrows DEF TimerLooks
<1>2. loopAge[Peer(e)] \in 0..Lag /\ Peer(e) \in Ends
  BY Peers DEF TimerLooks
<1>3. recvAge[e] \in Nat
  BY DEF Timing
<1>4. recvAge[e] <= Timeout
  <2>1. CASE wire[e] = {}
    BY <1>1, <1>2, <1>3, <2>1, TunedTimes DEF Timing, Heard
  <2>2. CASE wire[e] # {}
    <3>1. PICK a \in wire[e] : recvAge[e] <= Patience + Drift + 2 * Lag + a
      BY <2>2 DEF Timing, Hears
    <3>2. a \in 0..MaxDelay
      BY DEF WiresTyped
    <3>3. QED
      BY <1>1, <1>3, <3>1, <3>2, TunedTimes
  <2>3. QED
    BY <2>1, <2>2
<1>5. QED
  BY <1>3, <1>4, TunedTimes DEF Expired, Elapsed

(* A turn of x's loop: x has heard its peer, or hears it.                  *)
LEMMA TurnTakes ==
  ASSUME Tuned, TimerLooks, WiresTyped, Timing, NEW x \in Ends, Turn(x)
  PROVE  /\ recvAge' \in [Ends -> Nat]
         /\ Heard(x, Peer(x))' /\ Hears(x)'
<1>1. PICK arrived \in Arrivals(x) :
        /\ recvAge' = [recvAge EXCEPT ![x] = IF arrived = {} THEN @ ELSE 0]
        /\ wire'[x] = wire[x] \ arrived
        /\ out'[Peer(x)] = out[Peer(x)]
        /\ sendAge'[Peer(x)] = sendAge[Peer(x)]
  BY Peers DEF Turn, WiresTyped, Timing
<1>2. /\ Drift' = Drift /\ Drift \in Nat /\ Peer(x) \in Ends
      /\ loopAge'[Peer(x)] = loopAge[Peer(x)] /\ loopAge[Peer(x)] \in 0..Lag
      /\ sendAge[Peer(x)] \in Nat
  BY Peers, DriftGrows DEF Turn, Drift, TimerLooks, Timing
<1>3. recvAge' \in [Ends -> Nat]
  BY <1>1 DEF Timing
<1>4. CASE arrived = {}
  <2>1. recvAge'[x] = recvAge[x] /\ wire'[x] = wire[x]
    BY <1>1, <1>4 DEF Timing
  <2>2. Heard(x, Peer(x)) /\ Hears(x)
    BY DEF Timing
  <2>3. QED
    BY <1>1, <1>2, <1>3, <2>1, <2>2 DEF Heard, Hears
<1>5. CASE arrived # {}
  <2>1. recvAge'[x] = 0
    BY <1>1, <1>5 DEF Timing
  <2>2. \A a \in wire'[x] : a \in Nat
    BY <1>1 DEF WiresTyped
  <2>3. QED
    BY <1>1, <1>2, <1>3, <2>1, <2>2, TunedTimes DEF Heard, Hears
<1>6. QED
  BY <1>4, <1>5

(* And what its peer hears of x.                                           *)
LEMMA TurnSends ==
  ASSUME Tuned, TimerLooks, WiresTyped, Timing, NEW x \in Ends, Turn(x)
  PROVE  /\ sendAge' \in [Ends -> Nat] /\ tickAge' \in [Ends -> Nat]
         /\ Watchful(x)'
         /\ Heard(Peer(x), x)' /\ Hears(Peer(x))'
<1> DEFINE p == Peer(x)
           sends == out[x] = "ready"
<1>1. /\ sendAge' = [sendAge EXCEPT ![x] = IF sends THEN 0 ELSE @]
      /\ out'[x] = IF sends \/ (out[x] = "empty" /\ ~QueuesKeepAlive(x))
                   THEN "empty" ELSE "ready"
      /\ wire'[p] = IF sends THEN wire[p] \cup {0} ELSE wire[p]
      /\ recvAge'[p] = recvAge[p]
  BY Peers DEF Turn, WiresTyped, Timing
<1>2. /\ tickAge' = [tickAge EXCEPT ![x] = IF TimerDue(x) THEN 0 ELSE @]
      /\ Drift' = Drift /\ Drift \in Nat
      /\ loopAge'[x] = 0 /\ loopAge[x] \in 0..Lag
  BY DriftGrows DEF Turn, Drift, TimerLooks
<1>3. /\ sendAge' \in [Ends -> Nat] /\ tickAge' \in [Ends -> Nat]
      /\ sendAge[x] \in Nat /\ tickAge[x] \in Nat /\ recvAge[p] \in Nat
  BY <1>1, <1>2, Peers DEF Timing
<1>4. /\ TimerDue(x) <=> tickAge[x] >= Tick
      /\ QueuesKeepAlive(x) <=> TimerDue(x) /\ sendAge[x] > Timeout - Margin
  BY <1>3, TunedTimes DEF TimerDue, QueuesKeepAlive, Elapsed
<1>5. Peer(p) = x /\ p \in Ends /\ p # x
  BY Peers
<1>6. Watchful(x) /\ Heard(p, x) /\ Hears(p)
  BY <1>5 DEF Timing
<1>7. Watchful(x)'
  BY <1>1, <1>2, <1>3, <1>4, <1>6, TunedTimes DEF Watchful
<1>8. CASE sends
  <2>1. wire'[p] # {} /\ 0 \in wire'[p]
    BY <1>1, <1>8
  <2>2. Heard(p, x)'
    BY <2>1 DEF Heard
  <2>3. \E a \in wire'[p] : recvAge[p] <= Patience + Drift + 2 * Lag + a
    <3>1. CASE wire[p] = {}
      <4>1. recvAge[p] <= Patience + Drift + loopAge[x] + Lag
        BY <1>6, <1>8, <3>1 DEF Heard
      <4>2. recvAge[p] <= Patience + Drift + 2 * Lag + 0
        BY <1>2, <1>3, <4>1, TunedTimes
      <4>3. QED
        BY <2>1, <4>2
    <3>2. CASE wire[p] # {}
      BY <1>1, <1>6, <3>2 DEF Hears
    <3>3. QED
      BY <3>1, <3>2
  <2>4. Hears(p)'
    BY <1>1, <1>2, <2>3, TunedTimes DEF Hears, Patience
  <2>5. QED
    BY <1>3, <1>5, <1>7, <2>2, <2>4
<1>9. CASE ~sends
  <2>1. wire'[p] = wire[p] /\ sendAge'[x] = sendAge[x]
    BY <1>1, <1>3, <1>9
  <2>2. Hears(p)'
    BY <1>1, <1>2, <1>6, <2>1 DEF Hears
  <2>3. ASSUME wire[p] = {}
        PROVE  recvAge[p] <= Patience + Drift + (IF out'[x] = "ready" THEN Lag ELSE 0)
    <3>1. recvAge[p] <= sendAge[x] + Drift /\ recvAge[p] <= Patience + Drift + Lag
      BY <1>2, <1>3, <1>6, <1>9, <2>3, TunedTimes DEF Heard
    <3>2. CASE out'[x] = "ready"
      BY <3>1, <3>2
    <3>3. CASE out'[x] # "ready"
      <4>1. out[x] = "empty" /\ ~QueuesKeepAlive(x)
        BY <1>1, <1>9, <3>3
      <4>2. sendAge[x] <= Patience
        BY <1>3, <1>4, <1>6, <4>1, TunedTimes DEF Watchful, Patience, Tuned
      <4>3. QED
        BY <1>2, <1>3, <3>1, <3>3, <4>2, TunedTimes
    <3>4. QED
      BY <3>2, <3>3
  <2>4. Heard(p, x)'
    BY <1>1, <1>2, <1>3, <1>6, <2>1, <2>3, TunedTimes DEF Heard
  <2>5. QED
    BY <1>3, <1>7, <2>2, <2>4
<1>10. QED
  BY <1>8, <1>9

LEMMA TogetherStep ==
  Tuned /\ KeepInv /\ [KeepAliveNext]_keepAliveVars => Together'
<1> SUFFICES ASSUME Tuned, TimerLooks, WiresTyped, Together, [KeepAliveNext]_keepAliveVars,
                    Undisturbed'
             PROVE  (\A e \in Ends : Open(e))' /\ Timing'
  BY DEF KeepInv, Together
<1>1. Drift \in Nat /\ (steps + 1) * MaxStep = Drift + MaxStep
  BY DriftGrows DEF TimerLooks
<1>2. steps' = steps => Drift' = Drift
  BY DEF Drift
<1>3. CASE Pass
  <2>1. (\A e \in Ends : Open(e)) /\ Timing /\ link
    BY <1>3 DEF Pass, Together, Undisturbed
  <2>2. /\ \A e \in Ends : sendAge'[e] = sendAge[e] + 1 /\ recvAge'[e] = recvAge[e] + 1
        /\ \A e \in Ends : tickAge'[e] = tickAge[e] + 1 /\ loopAge'[e] = loopAge[e] + 1
        /\ \A e \in Ends : wire'[e] = {a + 1 : a \in wire[e]}
        /\ UNCHANGED <<out, status, link, steps>>
    BY <1>3, <2>1 DEF Pass
  <2>3. /\ sendAge' \in [Ends -> Nat] /\ tickAge' \in [Ends -> Nat]
        /\ recvAge' \in [Ends -> Nat]
    BY <1>3, <2>1, <2>2 DEF Pass, Timing
  <2>4. ASSUME NEW e \in Ends
        PROVE  Watchful(e)' /\ Heard(e, Peer(e))' /\ Hears(e)'
    <3>1. Watchful(e) /\ Heard(e, Peer(e)) /\ Hears(e)
      BY <2>1 DEF Timing
    <3>2. Peer(e) \in Ends /\ loopAge[Peer(e)] \in Nat /\ loopAge[e] \in Nat
      BY LagIsPositive, Peers DEF TimerLooks
    <3>3. /\ sendAge[e] \in Nat /\ sendAge[Peer(e)] \in Nat /\ tickAge[e] \in Nat
          /\ recvAge[e] \in Nat
      BY <2>1, <3>2 DEF Timing
    <3>4. Watchful(e)'
      BY <2>2, <3>1, <3>3, TunedTimes DEF Watchful
    <3>5. Heard(e, Peer(e))'
      <4>1. wire'[e] = {} => wire[e] = {}
        BY <2>2
      <4>2. /\ recvAge'[e] = recvAge[e] + 1 /\ sendAge'[Peer(e)] = sendAge[Peer(e)] + 1
            /\ loopAge'[Peer(e)] = loopAge[Peer(e)] + 1 /\ out' = out /\ Drift' = Drift
        BY <1>2, <2>2, <3>2
      <4>3. QED
        BY <1>1, <3>1, <3>2, <3>3, <4>1, <4>2, TunedTimes DEF Heard, Patience
    <3>6. Hears(e)'
      <4>1. CASE wire[e] = {}
        BY <2>2, <4>1 DEF Hears
      <4>2. CASE wire[e] # {}
        <5>1. PICK a \in wire[e] : recvAge[e] <= Patience + Drift + 2 * Lag + a
          BY <3>1, <4>2 DEF Hears
        <5>2. a + 1 \in wire'[e] /\ a \in Nat
          BY <2>2 DEF WiresTyped
        <5>3. recvAge'[e] <= Patience + Drift' + 2 * Lag + (a + 1)
          BY <1>1, <1>2, <2>2, <3>3, <5>1, <5>2, TunedTimes
        <5>4. QED
          BY <5>2, <5>3 DEF Hears
      <4>3. QED
        BY <4>1, <4>2
    <3>7. QED
      BY <3>4, <3>5, <3>6
  <2>5. QED
    BY <2>1, <2>2, <2>3, <2>4 DEF Timing, Open
<1>4. ASSUME NEW x \in Ends, Turn(x)
      PROVE  (\A e \in Ends : Open(e))' /\ Timing'
  <2>1. (\A e \in Ends : Open(e)) /\ Timing
    BY <1>4 DEF Turn, Together, Undisturbed
  <2>2. /\ recvAge' \in [Ends -> Nat]
        /\ Heard(x, Peer(x))' /\ Hears(x)'
    BY <1>4, <2>1, TurnTakes
  <2>3. /\ sendAge' \in [Ends -> Nat] /\ tickAge' \in [Ends -> Nat]
        /\ Watchful(x)' /\ Heard(Peer(x), x)' /\ Hears(Peer(x))'
    BY <1>4, <2>1, TurnSends
  <2>4. Watchful(Peer(x))'
    <3>1. /\ out'[Peer(x)] = out[Peer(x)] /\ sendAge'[Peer(x)] = sendAge[Peer(x)]
          /\ tickAge'[Peer(x)] = tickAge[Peer(x)]
      BY <1>4, <2>1, Peers DEF Turn, WiresTyped, Timing
    <3>2. Watchful(Peer(x))
      BY <2>1, Peers DEF Timing
    <3>3. QED
      BY <3>1, <3>2 DEF Watchful
  <2>5. \A e \in Ends : Watchful(e)' /\ Heard(e, Peer(e))' /\ Hears(e)'
    <3>1. SUFFICES ASSUME NEW e \in Ends
                   PROVE  Watchful(e)' /\ Heard(e, Peer(e))' /\ Hears(e)'
      OBVIOUS
    <3>2. CASE e = x
      BY <2>2, <2>3, <3>2
    <3>3. CASE e = Peer(x)
      <4>1. Peer(e) = x
        BY <3>3, Peers
      <4>2. QED
        BY <2>3, <2>4, <3>3, <4>1
    <3>4. QED
      BY <3>2, <3>3, Peers
  <2>6. (\A e \in Ends : Open(e))'
    BY <1>4, <2>1 DEF Turn, Open
  <2>7. QED
    BY <2>2, <2>3, <2>5, <2>6 DEF Timing
<1>5. ASSUME NEW x \in Ends, TimerCloses(x) PROVE FALSE
  <2>1. link /\ status[x] = "open" /\ status' = [status EXCEPT ![x] = "timer"]
    BY <1>5 DEF TimerCloses, Close, Undisturbed, Open
  <2>2. Undisturbed
    BY <1>5, <2>1 DEF Undisturbed, WiresTyped
  <2>3. QED
    BY <1>5, <2>2, Patient DEF TimerCloses, Together
<1>6. ASSUME NEW x \in Ends, Ended(x) \/ Crash(x) PROVE FALSE
  BY <1>6 DEF Ended, Crash, Close, Undisturbed, WiresTyped
<1>7. ASSUME NEW x \in Ends, PeerClosed(x) PROVE FALSE
  <2>1. /\ Open(x) /\ status[Peer(x)] \in {"timer", "ended"} /\ link
        /\ status' = [status EXCEPT ![x] = "peer"]
    BY <1>7 DEF PeerClosed, Close
  <2>2. Undisturbed
    BY <2>1 DEF Undisturbed, WiresTyped, Open
  <2>3. QED
    BY <2>1, <2>2, Peers DEF Together, Open
<1>8. ASSUME NEW x \in Ends, Traffic(x)
      PROVE  (\A e \in Ends : Open(e))' /\ Timing'
  BY <1>2, <1>8
     DEF Traffic, ageVars, Together, Undisturbed, Timing, Watchful, Heard, Hears,
         Open, WiresTyped
<1>9. ASSUME NEW x \in Ends, NEW d \in Steps, ClockStep(x, d)
      PROVE  (\A e \in Ends : Open(e))' /\ Timing'
  <2>1. (\A e \in Ends : Open(e)) /\ Timing
    BY <1>9 DEF ClockStep, Together, Undisturbed
  <2>2. d \in Nat /\ d <= MaxStep /\ MaxStep \in Nat
    BY StepsAreInt, TunedTimes DEF Tuned
  <2>3. Drift' = Drift + MaxStep
    BY <1>1, <1>9 DEF ClockStep, Drift
  <2>4. /\ sendAge' \in [Ends -> Nat] /\ tickAge' \in [Ends -> Nat]
        /\ recvAge' \in [Ends -> Nat]
    BY <1>9, <2>1, <2>2 DEF ClockStep, Timing
  <2>5. ASSUME NEW e \in Ends
        PROVE  Watchful(e)' /\ Heard(e, Peer(e))' /\ Hears(e)'
    <3>1. Watchful(e) /\ Heard(e, Peer(e)) /\ Hears(e)
      BY <2>1 DEF Timing
    <3>2. Peer(e) \in Ends /\ loopAge[Peer(e)] \in Nat /\ Peer(e) # e
      BY LagIsPositive, Peers DEF TimerLooks
    <3>3. /\ sendAge[e] \in Nat /\ sendAge[Peer(e)] \in Nat /\ tickAge[e] \in Nat
          /\ recvAge[e] \in Nat
      BY <2>1, <3>2 DEF Timing
    <3>4. /\ \/ sendAge'[e] = sendAge[e] /\ tickAge'[e] = tickAge[e]
             \/ sendAge'[e] = sendAge[e] + d /\ tickAge'[e] = tickAge[e] + d
          /\ recvAge'[e] <= recvAge[e] + MaxStep
          /\ sendAge'[Peer(e)] >= sendAge[Peer(e)]
          /\ UNCHANGED <<loopAge, out, wire>>
      BY <1>9, <2>1, <2>2, <3>2, <3>3 DEF ClockStep, Timing
    <3>5. recvAge'[e] \in Nat /\ sendAge'[Peer(e)] \in Nat
      BY <2>4, <3>2
    <3>6. Watchful(e)'
      BY <2>2, <3>1, <3>3, <3>4, TunedTimes DEF Watchful
    <3>7. Heard(e, Peer(e))'
      BY <1>1, <2>2, <2>3, <3>1, <3>2, <3>3, <3>4, <3>5, TunedTimes DEF Heard
    <3>8. Hears(e)'
      <4>1. CASE wire[e] = {}
        BY <3>4, <4>1 DEF Hears
      <4>2. CASE wire[e] # {}
        <5>1. PICK a \in wire[e] : recvAge[e] <= Patience + Drift + 2 * Lag + a
          BY <3>1, <4>2 DEF Hears
        <5>2. a \in Nat
          BY DEF WiresTyped
        <5>3. recvAge'[e] <= Patience + Drift' + 2 * Lag + a
          BY <1>1, <2>2, <2>3, <3>3, <3>4, <3>5, <5>1, <5>2, TunedTimes
        <5>4. QED
          BY <3>4, <5>3 DEF Hears
      <4>3. QED
        BY <4>1, <4>2
    <3>9. QED
      BY <3>6, <3>7, <3>8
  <2>6. (\A e \in Ends : Open(e))'
    BY <1>9, <2>1 DEF ClockStep, Open
  <2>7. QED
    BY <2>4, <2>5, <2>6 DEF Timing
<1>10. CASE LinkFails
  BY <1>10 DEF LinkFails, Undisturbed
<1>11. CASE UNCHANGED keepAliveVars
  BY <1>2, <1>11
     DEF keepAliveVars, ageVars, Together, Undisturbed, Timing, Watchful, Heard, Hears, Open
<1>12. QED
  BY <1>3, <1>4, <1>5, <1>6, <1>7, <1>8, <1>9, <1>10, <1>11 DEF KeepAliveNext

(* For all times that leave room for a tick, two turns, the network and     *)
(* the clocks within the margin, a session between two ends that are there  *)
(* is never given up.                                                      *)
THEOREM NeverFalseTimeout ==
  Tuned => (KeepAliveSpec => []NoFalseTimeout)
<1> SUFFICES ASSUME Tuned PROVE KeepAliveSpec => []NoFalseTimeout
  OBVIOUS
<1>1. KeepAliveInit => Together
  BY TogetherInit
<1>2. KeepInv /\ [KeepAliveNext]_keepAliveVars => Together'
  BY TogetherStep
<1>3. Together => NoFalseTimeout
  BY DEF Together, Undisturbed, NoFalseTimeout, Open
<1>4. KeepAliveSpec => []Together
  <2>1. TimerLooks /\ WiresTyped /\ Together /\ [KeepAliveNext]_keepAliveVars => Together'
    BY <1>2 DEF KeepInv
  <2>2. QED
    BY <1>1, <2>1, Bounded, PTL DEF KeepAliveSpec
<1>5. QED
  BY <1>3, <1>4, PTL
=============================================================================
