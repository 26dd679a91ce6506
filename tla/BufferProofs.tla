---------------------------- MODULE BufferProofs ----------------------------
(***************************************************************************)
(* Proofs about the bounded buffer: the wait queues of the semaphores and  *)
(* of the mutex and the set of blocked processes always agree, grants are  *)
(* reserved for processes back at their wait, and the mutex excludes.      *)
(***************************************************************************)
EXTENDS BoundedBuffer, FiniteSetTheorems, TLAPS

(* No process is in a queue twice.                                          *)
Once(s) == \A i, j \in DOMAIN s : s[i] = s[j] => i = j

(* Whoever works on the buffer owns the mutex.                              *)
WorkersOwn == \A p \in Users : pc[p] \in {"work", "unlock"} => owner = p

QueuesInv ==
    /\ TypeOK /\ NoBarging /\ BlockedExactlyQueued /\ WorkersOwn
    /\ Once(waiting) /\ \A s \in Sems : Once(queue[s])

-----------------------------------------------------------------------------
(* A process that is not in a queue joins it.                               *)
LEMMA JoinQueue ==
    ASSUME NEW s \in Seq(Users), NEW x \in Users, x \notin Range(s), Once(s)
    PROVE  /\ Append(s, x) \in Seq(Users) /\ Append(s, x) # <<>>
           /\ Range(Append(s, x)) = Range(s) \cup {x}
           /\ Once(Append(s, x))
<1> DEFINE t == Append(s, x)
<1>1. /\ t \in Seq(Users) /\ Len(t) = Len(s) + 1 /\ Len(s) \in Nat
      /\ DOMAIN s = 1..Len(s) /\ DOMAIN t = 1..(Len(s) + 1)
      /\ t[Len(s) + 1] = x /\ \A i \in 1..Len(s) : t[i] = s[i]
  OBVIOUS
<1> HIDE DEF t
<1>2. \A i \in 1..Len(s) : s[i] # x
  BY <1>1 DEF Range
<1>3. t # <<>>
  BY <1>1
<1>4. Range(t) = Range(s) \cup {x}
  BY <1>1 DEF Range
<1>5. Once(t)
  BY <1>1, <1>2 DEF Once
<1> QED BY <1>1, <1>3, <1>4, <1>5 DEF t

(* The first process of a queue leaves it.                                  *)
LEMMA LeaveQueue ==
    ASSUME NEW s \in Seq(Users), s # <<>>, Once(s)
    PROVE  /\ Head(s) \in Users /\ Head(s) \in Range(s)
           /\ Tail(s) \in Seq(Users)
           /\ Range(Tail(s)) = Range(s) \ {Head(s)}
           /\ Once(Tail(s))
<1> DEFINE t == Tail(s)
<1>1. /\ Len(s) \in Nat /\ Len(s) > 0 /\ DOMAIN s = 1..Len(s) /\ Head(s) = s[1] /\ s[1] \in Users
      /\ t \in Seq(Users) /\ Len(t) = Len(s) - 1 /\ DOMAIN t = 1..(Len(s) - 1)
      /\ \A i \in 1..(Len(s) - 1) : t[i] = s[i + 1]
  OBVIOUS
<1> HIDE DEF t
<1>2. Head(s) \in Range(s)
  BY <1>1 DEF Range
<1>3. ASSUME NEW y PROVE y \in Range(t) <=> y \in Range(s) /\ y # Head(s)
  <2>1. ASSUME y \in Range(t) PROVE y \in Range(s) /\ y # Head(s)
    <3>1. PICK i \in 1..(Len(s) - 1) : y = s[i + 1]
      BY <1>1, <2>1 DEF Range
    <3>2. i + 1 \in DOMAIN s /\ 1 \in DOMAIN s /\ i + 1 # 1
      BY <1>1
    <3> QED BY <1>1, <3>1, <3>2 DEF Range, Once
  <2>2. ASSUME y \in Range(s), y # Head(s) PROVE y \in Range(t)
    <3>1. PICK i \in 1..Len(s) : y = s[i]
      BY <1>1, <2>2 DEF Range
    <3>2. i # 1
      BY <1>1, <2>2, <3>1
    <3>3. i - 1 \in 1..(Len(s) - 1) /\ t[i - 1] = y
      BY <1>1, <3>1, <3>2
    <3> QED BY <1>1, <3>3 DEF Range
  <2> QED BY <2>1, <2>2
<1>4. Once(t)
  <2> SUFFICES ASSUME NEW i \in 1..(Len(s) - 1), NEW j \in 1..(Len(s) - 1), t[i] = t[j]
               PROVE  i = j
    BY <1>1 DEF Once
  <2>1. s[i + 1] = s[j + 1] /\ i + 1 \in DOMAIN s /\ j + 1 \in DOMAIN s
    BY <1>1
  <2>2. i + 1 = j + 1
    BY <2>1 DEF Once
  <2> QED BY <2>2
<1> QED BY <1>1, <1>2, <1>3, <1>4 DEF t

-----------------------------------------------------------------------------
(* The buffer starts with every queue empty and nobody blocked.             *)
LEMMA InitQueues == Init => QueuesInv
<1> SUFFICES ASSUME Init PROVE QueuesInv
  OBVIOUS
<1>1. /\ TypeOK /\ \A s \in Sems : queue[s] = <<>> /\ grants[s] = {}
      /\ waiting = <<>> /\ blocked = {} /\ \A p \in Users : pc[p] = "idle"
  BY BufferAssumption DEF Init, TypeOK, Sems
<1>2. Range(<<>>) = {} /\ Once(<<>>)
  BY DEF Range, Once
<1>3. BlockedExactlyQueued
  BY <1>1, <1>2 DEF BlockedExactlyQueued, Sems
<1>4. NoBarging /\ WorkersOwn
  BY <1>1 DEF NoBarging, WorkersOwn
<1> QED BY <1>1, <1>2, <1>3, <1>4 DEF QueuesInv

(* Where a process that is not blocked stands: in no queue.                 *)
LEMMA AwakeNotQueued ==
    ASSUME QueuesInv, NEW p \in Users, p \notin blocked
    PROVE  p \notin Range(waiting) /\ \A s \in Sems : p \notin Range(queue[s])
BY DEF QueuesInv, BlockedExactlyQueued, Sems

(* Beginning a frame: an idle process holds no grant and is in no queue, so *)
(* moving it to its wait disturbs none of them.                             *)
LEMMA BeginKeeps ==
    ASSUME QueuesInv, NEW p \in Users, Begin(p)
    PROVE  QueuesInv'
<1> USE DEF QueuesInv
<1>1. pc[p] = "idle" /\ pc' = [pc EXCEPT ![p] = "wait"] /\ p \notin blocked
  BY DEF Begin, At, Goto
<1>2. UNCHANGED <<semVars, lockVars, items, blocked>>
  BY DEF Begin
<1>3. TypeOK'
  BY <1>1, <1>2 DEF TypeOK, semVars, lockVars
<1>4. NoBarging'
  BY <1>1, <1>2 DEF TypeOK, NoBarging, At, Awaited, semVars, lockVars
<1>5. BlockedExactlyQueued'
  BY <1>1, <1>2, AwakeNotQueued DEF TypeOK, BlockedExactlyQueued, Awaited, semVars, lockVars
<1>6. WorkersOwn'
  BY <1>1, <1>2 DEF TypeOK, WorkersOwn, lockVars
<1>7. Once(waiting)' /\ (\A s \in Sems : Once(queue[s]))'
  BY <1>2 DEF semVars, lockVars
<1> QED BY <1>3, <1>4, <1>5, <1>6, <1>7

(* A wait that succeeds: the process takes its grant, or a permit that no   *)
(* waiter could have had, and goes on to the mutex.                         *)
LEMMA WaitGrantedKeeps ==
    ASSUME QueuesInv, NEW p \in Users, At(p, "wait"),
           WaitResumed(p, Awaited(p)) \/ WaitOk(p, Awaited(p)),
           UNCHANGED <<lockVars, items>>
    PROVE  QueuesInv'
<1> DEFINE s == Awaited(p)
<1> USE DEF QueuesInv
<1>1. pc[p] = "wait" /\ p \notin blocked /\ s \in Sems
  BY DEF At, Awaited, Sems
<1>2. pc' = [pc EXCEPT ![p] = "lock"] /\ UNCHANGED <<owner, waiting, items, queue, blocked>>
  BY DEF WaitResumed, WaitOk, Goto, lockVars
<1>3. /\ \A t \in Sems : grants'[t] \subseteq grants[t] /\ p \notin grants'[t]
      /\ \A t \in Sems : count[t] = 0 => count'[t] = 0
      /\ count' \in [Sems -> Nat] /\ grants' \in [Sems -> SUBSET Users]
  <2>0. \A t \in Sems : p \in grants[t] => t = s
    BY <1>1 DEF NoBarging
  <2>1. CASE WaitResumed(p, s)
    BY <1>1, <2>0, <2>1 DEF WaitResumed, TypeOK
  <2>2. CASE WaitOk(p, s)
    BY <1>1, <2>0, <2>2 DEF WaitOk, TypeOK
  <2> QED BY <2>1, <2>2
<1>4. TypeOK'
  BY <1>2, <1>3 DEF TypeOK
<1>5. NoBarging'
  BY <1>2, <1>3 DEF TypeOK, NoBarging, At, Awaited
<1>6. BlockedExactlyQueued'
  BY <1>1, <1>2, AwakeNotQueued DEF TypeOK, BlockedExactlyQueued, Awaited
<1>7. WorkersOwn' /\ Once(waiting)' /\ (\A t \in Sems : Once(queue[t]))'
  BY <1>2 DEF TypeOK, WorkersOwn
<1> QED BY <1>4, <1>5, <1>6, <1>7

(* A wait that blocks: the process joins the queue of the semaphore, at     *)
(* zero, and the blocked processes.                                         *)
LEMMA WaitBlockedKeeps ==
    ASSUME QueuesInv, NEW p \in Users, At(p, "wait"),
           WaitBlocked(p, Awaited(p)), UNCHANGED <<lockVars, items>>
    PROVE  QueuesInv'
<1> DEFINE s == Awaited(p)
<1> USE DEF QueuesInv
<1>1. pc[p] = "wait" /\ p \notin blocked /\ s \in Sems /\ queue[s] \in Seq(Users)
  BY DEF At, Awaited, Sems, TypeOK
<1>2. /\ UNCHANGED <<owner, waiting, items, count, grants, pc>>
      /\ blocked' = blocked \cup {p} /\ count[s] <= 0 /\ p \notin grants[s]
      /\ queue' = [queue EXCEPT ![s] = Append(@, p)]
  BY DEF WaitBlocked, lockVars
<1>3. /\ queue'[s] \in Seq(Users) /\ Range(queue'[s]) = Range(queue[s]) \cup {p}
      /\ Once(queue'[s]) /\ \A t \in Sems \ {s} : queue'[t] = queue[t]
  <2>1. queue'[s] = Append(queue[s], p) /\ \A t \in Sems \ {s} : queue'[t] = queue[t]
    BY <1>1, <1>2 DEF TypeOK
  <2>2. p \notin Range(queue[s]) /\ Once(queue[s])
    BY <1>1, AwakeNotQueued
  <2> QED BY <1>1, <2>1, <2>2, JoinQueue
<1>4. TypeOK'
  BY <1>1, <1>2, <1>3 DEF TypeOK
<1>5. NoBarging'
  <2>1. count[s] = 0
    BY <1>1, <1>2 DEF TypeOK
  <2>2. \A t \in Sems : p \notin grants[t]
    BY <1>1, <1>2 DEF NoBarging
  <2> QED BY <1>1, <1>2, <1>3, <2>1, <2>2 DEF NoBarging, At, Awaited
<1>6. BlockedExactlyQueued'
  BY <1>1, <1>2, <1>3 DEF TypeOK, BlockedExactlyQueued, Awaited, Sems
<1>7. WorkersOwn' /\ Once(waiting)' /\ (\A t \in Sems : Once(queue[t]))'
  BY <1>2, <1>3 DEF WorkersOwn
<1> QED BY <1>4, <1>5, <1>6, <1>7

(* An acquire that succeeds: the lock was free, or handed to the process.   *)
LEMMA AcquireOkKeeps ==
    ASSUME QueuesInv, NEW p \in Users, At(p, "lock"), AcquireOk(p), UNCHANGED <<semVars, items>>
    PROVE  QueuesInv'
<1> USE DEF QueuesInv
<1>1. pc[p] = "lock" /\ p \notin blocked
  BY DEF At
<1>2. /\ pc' = [pc EXCEPT ![p] = "work"] /\ owner \in {None, p} /\ owner' = p
      /\ UNCHANGED <<count, queue, grants, waiting, items, blocked>>
  BY DEF AcquireOk, Goto, semVars
<1>3. TypeOK'
  BY <1>2 DEF TypeOK
<1>4. NoBarging'
  BY <1>1, <1>2 DEF TypeOK, NoBarging, At, Awaited
<1>5. BlockedExactlyQueued'
  BY <1>1, <1>2, AwakeNotQueued DEF TypeOK, BlockedExactlyQueued, Awaited
<1>6. WorkersOwn'
  BY <1>2, BufferAssumption DEF TypeOK, WorkersOwn, Users
<1>7. Once(waiting)' /\ (\A t \in Sems : Once(queue[t]))'
  BY <1>2
<1> QED BY <1>3, <1>4, <1>5, <1>6, <1>7

(* An acquire of a lock another process holds: the caller joins the queue   *)
(* of the lock and the blocked processes.                                   *)
LEMMA AcquireBlockedKeeps ==
    ASSUME QueuesInv, NEW p \in Users, At(p, "lock"), AcquireBlocked(p),
           UNCHANGED <<semVars, items>>
    PROVE  QueuesInv'
<1> USE DEF QueuesInv
<1>1. pc[p] = "lock" /\ p \notin blocked /\ waiting \in Seq(Users)
  BY DEF At, TypeOK
<1>2. /\ waiting' = Append(waiting, p) /\ blocked' = blocked \cup {p}
      /\ UNCHANGED <<count, queue, grants, owner, items, pc>>
  BY DEF AcquireBlocked, semVars
<1>3. waiting' \in Seq(Users) /\ Range(waiting') = Range(waiting) \cup {p} /\ Once(waiting')
  BY <1>1, <1>2, AwakeNotQueued, JoinQueue
<1>4. TypeOK'
  BY <1>2, <1>3 DEF TypeOK
<1>5. NoBarging'
  BY <1>1, <1>2 DEF NoBarging, At, Awaited
<1>6. BlockedExactlyQueued'
  BY <1>1, <1>2, <1>3 DEF BlockedExactlyQueued, Awaited
<1>7. WorkersOwn' /\ (\A t \in Sems : Once(queue[t]))'
  BY <1>2 DEF WorkersOwn
<1> QED BY <1>3, <1>4, <1>5, <1>6, <1>7

(* The work on the buffer moves the process on, out of the mutex only when  *)
(* the buffer raises, and touches no queue.                                 *)
LEMMA WorkKeeps ==
    ASSUME QueuesInv, NEW p \in Users, Work(p)
    PROVE  QueuesInv'
<1> USE DEF QueuesInv
<1>1. pc[p] = "work" /\ p \notin blocked
  BY DEF Work, At
<1>2. PICK l \in {"unlock", "rejected"} : pc' = [pc EXCEPT ![p] = l]
  BY DEF Work, Goto
<1>3. UNCHANGED <<count, queue, grants, owner, waiting, blocked>>
  BY DEF Work, semVars, lockVars
<1>4. TypeOK'
  <2>1. CASE ~ HasRoom(p)
    BY <1>2, <1>3, <2>1 DEF Work, TypeOK
  <2>2. CASE HasRoom(p) /\ p \in Producers
    BY <1>2, <1>3, <2>2 DEF Work, TypeOK
  <2>3. CASE HasRoom(p) /\ p \notin Producers
    <3>1. items # <<>> /\ items' = Tail(items) /\ items \in Seq(Producers)
      BY <2>3 DEF HasRoom, Work, TypeOK
    <3>2. items' \in Seq(Producers)
      BY <3>1
    <3> QED BY <1>2, <1>3, <3>2 DEF TypeOK
  <2> QED BY <2>1, <2>2, <2>3
<1>5. NoBarging'
  BY <1>1, <1>2, <1>3 DEF TypeOK, NoBarging, At, Awaited
<1>6. BlockedExactlyQueued'
  BY <1>1, <1>2, <1>3, AwakeNotQueued DEF TypeOK, BlockedExactlyQueued, Awaited
<1>7. WorkersOwn'
  BY <1>1, <1>2, <1>3 DEF TypeOK, WorkersOwn
<1>8. Once(waiting)' /\ (\A t \in Sems : Once(queue[t]))'
  BY <1>3
<1> QED BY <1>4, <1>5, <1>6, <1>7, <1>8

(* A release: the first waiter, if there is one, leaves the queue, wakes    *)
(* and owns the lock; nobody else was working, so nobody works unowned.     *)
LEMMA UnlockKeeps ==
    ASSUME QueuesInv, NEW p \in Users, Unlock(p)
    PROVE  QueuesInv'
<1> USE DEF QueuesInv
<1>1. /\ pc[p] = "unlock" /\ p \notin blocked /\ owner = p
      /\ pc' = [pc EXCEPT ![p] = "signal"] /\ UNCHANGED <<count, queue, grants, items>>
  BY DEF Unlock, At, Goto, semVars
<1>2. WorkersOwn'
  BY <1>1 DEF TypeOK, WorkersOwn
<1>3. /\ NoBarging'
      /\ (\A s \in Sems : \A q \in Range(queue[s]) : pc[q] = "wait" /\ Awaited(q) = s)'
  <2>1. \A q \in Users : pc[q] = "wait" => pc'[q] = "wait"
    BY <1>1 DEF TypeOK
  <2>2. blocked' \subseteq blocked
    BY DEF Unlock
  <2>3. \A s \in Sems : grants[s] \subseteq Users
    BY DEF TypeOK
  <2>4. NoBarging'
    BY <1>1, <2>1, <2>2, <2>3 DEF NoBarging, At, Awaited
  <2>5. \A s \in Sems : Range(queue[s]) \subseteq Users
    BY DEF TypeOK, Range
  <2> QED BY <1>1, <2>1, <2>4, <2>5 DEF BlockedExactlyQueued, Awaited
<1>4. p \notin Range(waiting)
  BY <1>1, AwakeNotQueued
<1>5. CASE waiting = <<>> /\ owner' = None /\ UNCHANGED <<waiting, blocked>>
  <2>1. TypeOK'
    BY <1>1, <1>5 DEF TypeOK
  <2>2. BlockedExactlyQueued'
    BY <1>1, <1>3, <1>4, <1>5 DEF TypeOK, BlockedExactlyQueued
  <2> QED BY <1>1, <1>2, <1>3, <1>5, <2>1, <2>2
<1>6. CASE /\ waiting # <<>> /\ owner' = Head(waiting) /\ waiting' = Tail(waiting)
           /\ blocked' = blocked \ {Head(waiting)}
  <2>1. waiting \in Seq(Users) /\ Once(waiting)
    BY DEF TypeOK
  <2>2. /\ Head(waiting) \in Users /\ Head(waiting) \in Range(waiting)
        /\ waiting' \in Seq(Users) /\ Range(waiting') = Range(waiting) \ {Head(waiting)}
        /\ Once(waiting')
    BY <1>6, <2>1, LeaveQueue
  <2>3. TypeOK'
    BY <1>1, <1>6, <2>2 DEF TypeOK
  <2>4. \A s \in Sems : Head(waiting) \notin Range(queue[s])
    BY <2>2 DEF BlockedExactlyQueued
  <2>5. Range(waiting) \subseteq Users
    BY <2>1 DEF Range
  <2>6. BlockedExactlyQueued'
    <3>1. \A q \in Range(waiting') : pc'[q] = "lock"
      BY <1>1, <1>4, <2>2, <2>5 DEF TypeOK, BlockedExactlyQueued
    <3>2. blocked' = Range(queue'["empty"]) \cup Range(queue'["full"]) \cup Range(waiting')
      BY <1>1, <1>6, <2>2, <2>4 DEF BlockedExactlyQueued, Sems
    <3> QED BY <1>3, <3>1, <3>2 DEF BlockedExactlyQueued
  <2> QED BY <1>1, <1>2, <1>3, <2>2, <2>3, <2>6
<1> QED BY <1>5, <1>6 DEF Unlock

(* A signal with waiters: the first one leaves the queue, wakes, and holds  *)
(* a grant for the wait it is to repeat.                                    *)
LEMMA SignalHandoffKeeps ==
    ASSUME QueuesInv, NEW p \in Users, At(p, "signal"), SignalHandoff(p, Signalled(p)),
           Goto(p, "idle"), UNCHANGED <<lockVars, items>>
    PROVE  QueuesInv'
<1> DEFINE s == Signalled(p)
           w == Head(queue[s])
<1> USE DEF QueuesInv
<1>1. /\ pc[p] = "signal" /\ p \notin blocked /\ s \in Sems
      /\ queue[s] \in Seq(Users) /\ queue[s] # <<>> /\ Once(queue[s])
  BY DEF At, Signalled, Sems, TypeOK, SignalHandoff
<1>2. /\ queue' = [queue EXCEPT ![s] = Tail(@)]
      /\ grants' = [grants EXCEPT ![s] = @ \cup {w}]
      /\ blocked' = blocked \ {w}
      /\ pc' = [pc EXCEPT ![p] = "idle"]
      /\ UNCHANGED <<count, owner, waiting, items>>
  BY DEF SignalHandoff, Goto, lockVars
<1> HIDE DEF s
<1>3. /\ w \in Users /\ w \in Range(queue[s]) /\ queue'[s] \in Seq(Users)
      /\ Range(queue'[s]) = Range(queue[s]) \ {w} /\ Once(queue'[s])
      /\ \A t \in Sems \ {s} : queue'[t] = queue[t]
  <2>1. queue'[s] = Tail(queue[s]) /\ \A t \in Sems \ {s} : queue'[t] = queue[t]
    BY <1>1, <1>2 DEF TypeOK
  <2> QED BY <1>1, <2>1, LeaveQueue
<1> HIDE DEF w
<1>4. /\ pc[w] = "wait" /\ Awaited(w) = s /\ w # p /\ w \notin Range(waiting)
      /\ \A t \in Sems \ {s} : w \notin Range(queue[t])
  BY <1>1, <1>3 DEF BlockedExactlyQueued
<1>5. TypeOK'
  BY <1>1, <1>2, <1>3 DEF TypeOK
<1>6. \A q \in Users : q # p => pc'[q] = pc[q]
  BY <1>2 DEF TypeOK
<1>7. NoBarging'
  <2>1. \A t \in Sems : queue'[t] # <<>> => count'[t] = 0
    BY <1>1, <1>2, <1>3 DEF NoBarging
  <2>2. ASSUME NEW t \in Sems, NEW q \in grants'[t]
        PROVE  q \notin blocked' /\ pc'[q] = "wait" /\ Awaited(q) = t
    <3>1. q \in Users /\ (q \in grants[t] \/ (q = w /\ t = s))
      BY <1>1, <1>2, <1>3, <2>2 DEF TypeOK
    <3>2. CASE q \in grants[t]
      BY <1>1, <1>2, <1>6, <3>1, <3>2 DEF NoBarging, At
    <3>3. CASE q = w /\ t = s
      BY <1>2, <1>4, <1>6, <3>1, <3>3
    <3> QED BY <3>1, <3>2, <3>3
  <2> QED BY <2>1, <2>2 DEF NoBarging, At, Awaited
<1>8. BlockedExactlyQueued'
  <2>1. Range(waiting) \subseteq Users /\ \A t \in Sems : Range(queue[t]) \subseteq Users
    BY DEF TypeOK, Range
  <2>2. p \notin Range(waiting) /\ \A t \in Sems : p \notin Range(queue[t])
    BY <1>1, AwakeNotQueued
  <2>3. blocked' = Range(queue'["empty"]) \cup Range(queue'["full"]) \cup Range(waiting')
    BY <1>1, <1>2, <1>3, <1>4 DEF BlockedExactlyQueued, Sems
  <2>4. \A t \in Sems : \A q \in Range(queue'[t]) : pc'[q] = "wait" /\ Awaited(q) = t
    BY <1>3, <1>6, <2>1, <2>2 DEF BlockedExactlyQueued
  <2>5. \A q \in Range(waiting') : pc'[q] = "lock"
    BY <1>2, <1>6, <2>1, <2>2 DEF BlockedExactlyQueued
  <2> QED BY <2>3, <2>4, <2>5 DEF BlockedExactlyQueued, Awaited
<1>9. WorkersOwn'
  BY <1>2 DEF TypeOK, WorkersOwn
<1> QED BY <1>2, <1>3, <1>5, <1>7, <1>8, <1>9

(* A signal without waiters: a permit more, and the process is idle.        *)
LEMMA SignalCountKeeps ==
    ASSUME QueuesInv, NEW p \in Users, At(p, "signal"), SignalCount(p, Signalled(p)),
           Goto(p, "idle"), UNCHANGED <<lockVars, items>>
    PROVE  QueuesInv'
<1> DEFINE s == Signalled(p)
<1> USE DEF QueuesInv
<1>1. pc[p] = "signal" /\ p \notin blocked /\ s \in Sems /\ queue[s] = <<>>
  BY DEF At, Signalled, Sems, SignalCount
<1>2. /\ count' = [count EXCEPT ![s] = @ + 1] /\ pc' = [pc EXCEPT ![p] = "idle"]
      /\ UNCHANGED <<queue, grants, blocked, owner, waiting, items>>
  BY DEF SignalCount, Goto, lockVars
<1>3. TypeOK'
  BY <1>1, <1>2 DEF TypeOK
<1>4. NoBarging'
  BY <1>1, <1>2 DEF TypeOK, NoBarging, At, Awaited
<1>5. BlockedExactlyQueued'
  BY <1>1, <1>2, AwakeNotQueued DEF TypeOK, BlockedExactlyQueued, Awaited
<1>6. WorkersOwn' /\ Once(waiting)' /\ (\A t \in Sems : Once(queue[t]))'
  BY <1>2 DEF TypeOK, WorkersOwn
<1> QED BY <1>3, <1>4, <1>5, <1>6

-----------------------------------------------------------------------------
(* Every step of the producers and consumers keeps the invariant.           *)
LEMMA NextKeeps == QueuesInv /\ [Next]_vars => QueuesInv'
<1> SUFFICES ASSUME QueuesInv, [Next]_vars PROVE QueuesInv'
  OBVIOUS
<1>1. ASSUME NEW p \in Users, Begin(p) PROVE QueuesInv'
  BY <1>1, BeginKeeps
<1>2. ASSUME NEW p \in Users, Wait(p) PROVE QueuesInv'
  BY <1>2, WaitGrantedKeeps, WaitBlockedKeeps DEF Wait
<1>3. ASSUME NEW p \in Users, Acquire(p) PROVE QueuesInv'
  BY <1>3, AcquireOkKeeps, AcquireBlockedKeeps DEF Acquire
<1>4. ASSUME NEW p \in Users, Work(p) PROVE QueuesInv'
  BY <1>4, WorkKeeps
<1>5. ASSUME NEW p \in Users, Unlock(p) PROVE QueuesInv'
  BY <1>5, UnlockKeeps
<1>6. ASSUME NEW p \in Users, Signal(p) PROVE QueuesInv'
  BY <1>6, SignalHandoffKeeps, SignalCountKeeps DEF Signal
<1>7. CASE UNCHANGED vars
  BY <1>7 DEF vars, semVars, lockVars, QueuesInv, TypeOK, NoBarging, BlockedExactlyQueued,
              WorkersOwn, At, Awaited
<1> QED BY <1>1, <1>2, <1>3, <1>4, <1>5, <1>6, <1>7 DEF Next, Step

-----------------------------------------------------------------------------
(* With the accounting of the permits, and nobody rejected by the buffer.   *)
BufferInv == QueuesInv /\ PermitsConserved /\ NeverRejected

(* The processes of each role that hold a permit, and that have turned it   *)
(* into an item or a free slot and not yet signalled it.                    *)
ProdHold == Between(Producers, {"lock", "work"})
ProdGive == Between(Producers, {"unlock", "signal"})
ConsHold == Between(Consumers, {"lock", "work"})
ConsGive == Between(Consumers, {"unlock", "signal"})

Holds(l) == IF l \in {"lock", "work"} THEN 1 ELSE 0
Gives(l) == IF l \in {"unlock", "signal"} THEN 1 ELSE 0

(* How the size of a finite set changes when one element may come or go.    *)
LEMMA OneMoves ==
    ASSUME NEW A, NEW B, NEW p, IsFiniteSet(A), A \ {p} = B \ {p}
    PROVE  Cardinality(B) = Cardinality(A) + (IF p \in B THEN 1 ELSE 0)
                                           - (IF p \in A THEN 1 ELSE 0)
<1> DEFINE C == A \ {p}
<1>1. IsFiniteSet(C) /\ p \notin C
  BY FS_Subset
<1>2. /\ (p \in A => A = C \cup {p}) /\ (p \notin A => A = C)
      /\ (p \in B => B = C \cup {p}) /\ (p \notin B => B = C)
  OBVIOUS
<1> HIDE DEF C
<1>3. Cardinality(C) \in Nat /\ Cardinality(C \cup {p}) = Cardinality(C) + 1
  BY <1>1, FS_CardinalityType, FS_AddElement
<1>4. Cardinality(A) = Cardinality(C) + (IF p \in A THEN 1 ELSE 0)
  <2>1. CASE p \in A
    BY <1>2, <1>3, <2>1
  <2>2. CASE p \notin A
    <3>1. A = C
      BY <1>2, <2>2
    <3> QED BY <1>3, <2>2, <3>1
  <2> QED BY <2>1, <2>2
<1>5. Cardinality(B) = Cardinality(C) + (IF p \in B THEN 1 ELSE 0)
  <2>1. CASE p \in B
    BY <1>2, <1>3, <2>1
  <2>2. CASE p \notin B
    <3>1. B = C
      BY <1>2, <2>2
    <3> QED BY <1>3, <2>2, <3>1
  <2> QED BY <2>1, <2>2
<1> QED BY <1>3, <1>4, <1>5

(* The counts of both roles, when one process goes on to its next call.     *)
LEMMA RolesMove ==
    ASSUME TypeOK, NEW p \in Users, NEW l, pc' = [pc EXCEPT ![p] = l]
    PROVE  /\ p \in Producers =>
                 /\ p \notin Consumers
                 /\ ProdHold' = ProdHold + Holds(l) - Holds(pc[p])
                 /\ ProdGive' = ProdGive + Gives(l) - Gives(pc[p])
                 /\ ConsHold' = ConsHold /\ ConsGive' = ConsGive
           /\ p \in Consumers =>
                 /\ p \notin Producers
                 /\ ConsHold' = ConsHold + Holds(l) - Holds(pc[p])
                 /\ ConsGive' = ConsGive + Gives(l) - Gives(pc[p])
                 /\ ProdHold' = ProdHold /\ ProdGive' = ProdGive
<1>1. /\ IsFiniteSet(Producers) /\ IsFiniteSet(Consumers) /\ Producers \cap Consumers = {}
      /\ Producers \subseteq Users /\ Consumers \subseteq Users
  BY BufferAssumption DEF Users
<1>2. pc'[p] = l /\ \A q \in Users : q # p => pc'[q] = pc[q]
  BY DEF TypeOK
<1>3. ASSUME NEW S, IsFiniteSet(S), S \subseteq Users, p \in S, NEW labels
      PROVE  Between(S, labels)' = Between(S, labels) + (IF l \in labels THEN 1 ELSE 0)
                                                      - (IF pc[p] \in labels THEN 1 ELSE 0)
  <2> DEFINE A == {q \in S : pc[q] \in labels}
             B == {q \in S : pc'[q] \in labels}
  <2>1. IsFiniteSet(A)
    BY <1>3, FS_Subset
  <2>2. /\ A \ {p} = B \ {p}
        /\ p \in A <=> pc[p] \in labels
        /\ p \in B <=> l \in labels
    BY <1>3, <1>2
  <2>3. Between(S, labels) = Cardinality(A) /\ Between(S, labels)' = Cardinality(B)
    BY DEF Between
  <2> HIDE DEF A, B
  <2>4. Cardinality(B) = Cardinality(A) + (IF p \in B THEN 1 ELSE 0)
                                        - (IF p \in A THEN 1 ELSE 0)
    BY <2>1, <2>2, OneMoves
  <2> QED BY <2>2, <2>3, <2>4
<1>4. CASE p \in Producers
  <2>1. \A q \in Consumers : pc'[q] = pc[q]
    BY <1>1, <1>2, <1>4
  <2>2. ConsHold' = ConsHold /\ ConsGive' = ConsGive
    BY <2>1 DEF ConsHold, ConsGive, Between
  <2>3. ProdHold' = ProdHold + Holds(l) - Holds(pc[p])
    BY <1>1, <1>2, <1>3, <1>4 DEF ProdHold, Holds
  <2>4. ProdGive' = ProdGive + Gives(l) - Gives(pc[p])
    BY <1>1, <1>2, <1>3, <1>4 DEF ProdGive, Gives
  <2> QED BY <1>1, <1>4, <2>2, <2>3, <2>4
<1>5. CASE p \in Consumers
  <2>1. \A q \in Producers : pc'[q] = pc[q]
    BY <1>1, <1>2, <1>5
  <2>2. ProdHold' = ProdHold /\ ProdGive' = ProdGive
    BY <2>1 DEF ProdHold, ProdGive, Between
  <2>3. ConsHold' = ConsHold + Holds(l) - Holds(pc[p])
    BY <1>1, <1>2, <1>3, <1>5 DEF ConsHold, Holds
  <2>4. ConsGive' = ConsGive + Gives(l) - Gives(pc[p])
    BY <1>1, <1>2, <1>3, <1>5 DEF ConsGive, Gives
  <2> QED BY <1>1, <1>5, <2>2, <2>3, <2>4
<1> QED BY <1>4, <1>5

(* A process that holds a permit is counted.                                *)
LEMMA RolesCounted ==
    /\ ProdHold \in Nat /\ ProdGive \in Nat /\ ConsHold \in Nat /\ ConsGive \in Nat
    /\ \A p \in Producers : pc[p] = "work" => ProdHold >= 1
    /\ \A p \in Consumers : pc[p] = "work" => ConsHold >= 1
<1>1. ASSUME NEW S, IsFiniteSet(S), NEW labels
      PROVE  /\ Cardinality({q \in S : pc[q] \in labels}) \in Nat
             /\ \A p \in S : pc[p] \in labels => Cardinality({q \in S : pc[q] \in labels}) >= 1
  <2> DEFINE A == {q \in S : pc[q] \in labels}
  <2>1. IsFiniteSet(A)
    BY <1>1, FS_Subset
  <2>2. \A p \in S : pc[p] \in labels => A # {}
    OBVIOUS
  <2> HIDE DEF A
  <2>3. Cardinality(A) \in Nat /\ (A # {} => Cardinality(A) # 0)
    BY <2>1, FS_CardinalityType, FS_EmptySet
  <2>4. \A p \in S : pc[p] \in labels => Cardinality(A) >= 1
    BY <2>2, <2>3
  <2> QED BY <2>3, <2>4 DEF A
<1>2. /\ ProdHold \in Nat /\ ProdGive \in Nat
      /\ \A p \in Producers : pc[p] = "work" => ProdHold >= 1
  BY <1>1, BufferAssumption DEF ProdHold, ProdGive, Between
<1>3. /\ ConsHold \in Nat /\ ConsGive \in Nat
      /\ \A p \in Consumers : pc[p] = "work" => ConsHold >= 1
  BY <1>1, BufferAssumption DEF ConsHold, ConsGive, Between
<1> QED BY <1>2, <1>3

(* The grants of a semaphore are a finite set.                              *)
LEMMA GrantsFinite ==
    ASSUME TypeOK, NEW s \in Sems
    PROVE  IsFiniteSet(grants[s]) /\ Cardinality(grants[s]) \in Nat
<1>1. grants[s] \subseteq Users
  BY DEF TypeOK
<1>2. IsFiniteSet(Users)
  BY BufferAssumption, FS_Union DEF Users
<1>3. IsFiniteSet(grants[s])
  BY <1>1, <1>2, FS_Subset
<1> QED BY <1>3, FS_CardinalityType

(* At the start every slot is a permit of empty_slots.                      *)
LEMMA InitPermits == Init => PermitsConserved /\ NeverRejected
<1> SUFFICES ASSUME Init PROVE PermitsConserved /\ NeverRejected
  OBVIOUS
<1>1. \A S, labels : S \subseteq Users /\ "idle" \notin labels => Between(S, labels) = 0
  <2> SUFFICES ASSUME NEW S, NEW labels, S \subseteq Users, "idle" \notin labels
               PROVE  Between(S, labels) = 0
    OBVIOUS
  <2>1. {q \in S : pc[q] \in labels} = {}
    BY DEF Init
  <2> QED BY <2>1, FS_EmptySet DEF Between
<1>2. Producers \subseteq Users /\ Consumers \subseteq Users
  BY DEF Users
<1>3. /\ count["empty"] = Capacity /\ count["full"] = 0 /\ Len(items) = 0
      /\ grants["empty"] = {} /\ grants["full"] = {}
  BY DEF Init, Sems
<1>4. /\ Between(Producers, {"lock", "work"}) = 0 /\ Between(Producers, {"unlock", "signal"}) = 0
      /\ Between(Consumers, {"lock", "work"}) = 0 /\ Between(Consumers, {"unlock", "signal"}) = 0
  BY <1>1, <1>2
<1>5. PermitsConserved
  BY <1>3, <1>4, FS_EmptySet, BufferAssumption DEF PermitsConserved
<1> QED BY <1>5 DEF Init, NeverRejected

(* What a semaphore has to give: its permits and its pending grants.        *)
FreeSlots == count["empty"] + Cardinality(grants["empty"])
FreeItems == count["full"] + Cardinality(grants["full"])

(* PermitsConserved in these terms.                                         *)
Ledger ==
    /\ FreeSlots + ProdHold + Len(items) + ConsGive = Capacity
    /\ FreeItems + ConsHold + ProdGive = Len(items)

(* The ledger is the accounting of the permits, before and after a step.    *)
LEMMA LedgerMeaning == (PermitsConserved <=> Ledger) /\ (PermitsConserved' <=> Ledger')
BY DEF PermitsConserved, Ledger, FreeSlots, FreeItems, ProdHold, ProdGive, ConsHold, ConsGive

(* The terms of the ledger are numbers.                                     *)
LEMMA LedgerTypes ==
    ASSUME TypeOK
    PROVE  FreeSlots \in Nat /\ FreeItems \in Nat /\ Len(items) \in Nat
BY GrantsFinite DEF TypeOK, FreeSlots, FreeItems, Sems

-----------------------------------------------------------------------------
(* A wait that succeeds moves a permit or a grant into the caller's hands.  *)
LEMMA WaitGrantedPermits ==
    ASSUME QueuesInv, PermitsConserved, NEW p \in Users, At(p, "wait"),
           WaitResumed(p, Awaited(p)) \/ WaitOk(p, Awaited(p)),
           UNCHANGED <<lockVars, items>>
    PROVE  PermitsConserved'
<1> DEFINE s == Awaited(p)
<1>0. /\ Ledger /\ FreeSlots \in Nat /\ FreeItems \in Nat /\ Len(items) \in Nat
      /\ ProdHold \in Nat /\ ProdGive \in Nat /\ ConsHold \in Nat /\ ConsGive \in Nat
  BY LedgerMeaning, LedgerTypes, RolesCounted DEF QueuesInv
<1>1. TypeOK /\ pc[p] = "wait" /\ pc' = [pc EXCEPT ![p] = "lock"] /\ items' = items /\ s \in Sems
  BY DEF QueuesInv, At, WaitResumed, WaitOk, Goto, Awaited, Sems
<1>2. /\ count'[s] + Cardinality(grants'[s]) = (count[s] + Cardinality(grants[s])) - 1
      /\ \A t \in Sems \ {s} : count'[t] = count[t] /\ grants'[t] = grants[t]
  <2>1. count[s] \in Nat /\ Cardinality(grants[s]) \in Nat
    BY <1>1, GrantsFinite DEF TypeOK
  <2>2. CASE WaitResumed(p, s)
    <3>1. p \in grants[s] /\ grants'[s] = grants[s] \ {p} /\ count' = count
      BY <1>1, <2>2 DEF WaitResumed, TypeOK
    <3>2. Cardinality(grants'[s]) = Cardinality(grants[s]) - 1
      BY <1>1, <3>1, GrantsFinite, FS_RemoveElement
    <3>3. \A t \in Sems \ {s} : grants'[t] = grants[t]
      BY <1>1, <2>2 DEF WaitResumed, TypeOK
    <3> QED BY <2>1, <3>1, <3>2, <3>3
  <2>3. CASE WaitOk(p, s)
    <3>1. /\ grants' = grants /\ count'[s] = count[s] - 1
          /\ \A t \in Sems \ {s} : count'[t] = count[t]
      BY <1>1, <2>3 DEF WaitOk, TypeOK
    <3> QED BY <2>1, <3>1
  <2> QED BY <2>2, <2>3
<1>3. Holds("lock") = 1 /\ Gives("lock") = 0 /\ Holds(pc[p]) = 0 /\ Gives(pc[p]) = 0
  BY <1>1 DEF Holds, Gives
<1>4. CASE p \in Producers
  <2>1. FreeSlots' = FreeSlots - 1 /\ FreeItems' = FreeItems
    <3>1. s = "empty" /\ "full" \in Sems \ {s}
      BY <1>4 DEF Awaited, Sems
    <3> HIDE DEF s
    <3>2. /\ count'["empty"] + Cardinality(grants'["empty"])
               = (count["empty"] + Cardinality(grants["empty"])) - 1
          /\ count'["full"] = count["full"] /\ grants'["full"] = grants["full"]
      BY <1>2, <3>1
    <3> QED BY <3>2 DEF FreeSlots, FreeItems
  <2>2. /\ ProdHold' = ProdHold + Holds("lock") - Holds(pc[p])
        /\ ProdGive' = ProdGive + Gives("lock") - Gives(pc[p])
        /\ ConsHold' = ConsHold /\ ConsGive' = ConsGive
    BY <1>1, <1>4, RolesMove
  <2>3. ProdHold' = ProdHold + 1 /\ ProdGive' = ProdGive
    BY <1>0, <1>3, <2>2
  <2>4. Ledger'
    BY <1>0, <1>1, <2>1, <2>2, <2>3 DEF Ledger
  <2> QED BY <2>4, LedgerMeaning
<1>5. CASE p \in Consumers
  <2>1. s = "full" /\ "empty" \in Sems \ {s}
    BY <1>5, BufferAssumption DEF Awaited, Sems
  <2>2. FreeItems' = FreeItems - 1 /\ FreeSlots' = FreeSlots
    <3> HIDE DEF s
    <3>1. /\ count'["full"] + Cardinality(grants'["full"])
               = (count["full"] + Cardinality(grants["full"])) - 1
          /\ count'["empty"] = count["empty"] /\ grants'["empty"] = grants["empty"]
      BY <1>2, <2>1
    <3> QED BY <3>1 DEF FreeSlots, FreeItems
  <2>3. /\ ConsHold' = ConsHold + Holds("lock") - Holds(pc[p])
        /\ ConsGive' = ConsGive + Gives("lock") - Gives(pc[p])
        /\ ProdHold' = ProdHold /\ ProdGive' = ProdGive
    BY <1>1, <1>5, RolesMove
  <2>4. ConsHold' = ConsHold + 1 /\ ConsGive' = ConsGive
    BY <1>0, <1>3, <2>3
  <2>5. Ledger'
    BY <1>0, <1>1, <2>2, <2>3, <2>4 DEF Ledger
  <2> QED BY <2>5, LedgerMeaning
<1> QED BY <1>4, <1>5 DEF Users

(* Work finds room: the permit in the caller's hands is a free slot or an   *)
(* item, by the accounting, so the buffer does not raise.                   *)
LEMMA WorkPermits ==
    ASSUME QueuesInv, PermitsConserved, NEW p \in Users, Work(p)
    PROVE  /\ HasRoom(p) /\ PermitsConserved'
           /\ pc' = [pc EXCEPT ![p] = "unlock"]
<1>0. /\ Ledger /\ FreeSlots \in Nat /\ FreeItems \in Nat /\ Len(items) \in Nat
      /\ ProdHold \in Nat /\ ProdGive \in Nat /\ ConsHold \in Nat /\ ConsGive \in Nat
  BY LedgerMeaning, LedgerTypes, RolesCounted DEF QueuesInv
<1>1. TypeOK /\ pc[p] = "work" /\ count' = count /\ grants' = grants /\ items \in Seq(Producers)
  BY DEF QueuesInv, Work, At, semVars, TypeOK
<1>2. FreeSlots' = FreeSlots /\ FreeItems' = FreeItems
  BY <1>1 DEF FreeSlots, FreeItems
<1>3. /\ Holds("unlock") = 0 /\ Gives("unlock") = 1 /\ Holds(pc[p]) = 1 /\ Gives(pc[p]) = 0
  BY <1>1 DEF Holds, Gives
<1>4. Capacity \in Nat
  BY BufferAssumption
<1>5. CASE p \in Producers
  <2>1. HasRoom(p)
    BY <1>1, <1>4, <1>5, RolesCounted, LedgerTypes, LedgerMeaning DEF Ledger, HasRoom
  <2>2. pc' = [pc EXCEPT ![p] = "unlock"] /\ Len(items') = Len(items) + 1
    BY <1>1, <1>5, <2>1 DEF Work, Goto
  <2>3. /\ ProdHold' = ProdHold + Holds("unlock") - Holds(pc[p])
        /\ ProdGive' = ProdGive + Gives("unlock") - Gives(pc[p])
        /\ ConsHold' = ConsHold /\ ConsGive' = ConsGive
    BY <1>1, <1>5, <2>2, RolesMove
  <2>4. ProdHold' = ProdHold - 1 /\ ProdGive' = ProdGive + 1
    BY <1>0, <1>3, <2>3
  <2>5. Ledger'
    BY <1>0, <1>1, <1>2, <1>4, <2>2, <2>3, <2>4 DEF Ledger
  <2> QED BY <2>1, <2>2, <2>5, LedgerMeaning
<1>6. CASE p \in Consumers
  <2>1. p \notin Producers
    BY <1>6, BufferAssumption
  <2>2. items # <<>>
    <3>1. Len(items) >= 1
      BY <1>0, <1>1, <1>6, RolesCounted DEF Ledger
    <3> QED BY <1>1, <3>1
  <2>3. HasRoom(p)
    BY <2>1, <2>2 DEF HasRoom
  <2>4. pc' = [pc EXCEPT ![p] = "unlock"] /\ Len(items') = Len(items) - 1
    BY <1>1, <2>1, <2>2, <2>3 DEF Work, Goto
  <2>5. /\ ConsHold' = ConsHold + Holds("unlock") - Holds(pc[p])
        /\ ConsGive' = ConsGive + Gives("unlock") - Gives(pc[p])
        /\ ProdHold' = ProdHold /\ ProdGive' = ProdGive
    BY <1>1, <1>6, <2>4, RolesMove
  <2>6. ConsHold' = ConsHold - 1 /\ ConsGive' = ConsGive + 1
    BY <1>0, <1>3, <2>5
  <2>7. Ledger'
    BY <1>0, <1>2, <1>4, <2>4, <2>5, <2>6 DEF Ledger
  <2> QED BY <2>3, <2>4, <2>7, LedgerMeaning
<1> QED BY <1>5, <1>6 DEF Users

(* A signal turns what the caller holds into a grant or a permit.           *)
LEMMA SignalPermits ==
    ASSUME QueuesInv, PermitsConserved, NEW p \in Users, Signal(p)
    PROVE  PermitsConserved'
<1> DEFINE s == Signalled(p)
<1>0. /\ Ledger /\ FreeSlots \in Nat /\ FreeItems \in Nat /\ Len(items) \in Nat
      /\ ProdHold \in Nat /\ ProdGive \in Nat /\ ConsHold \in Nat /\ ConsGive \in Nat
  BY LedgerMeaning, LedgerTypes, RolesCounted DEF QueuesInv
<1>1. /\ TypeOK /\ pc[p] = "signal" /\ pc' = [pc EXCEPT ![p] = "idle"] /\ items' = items
      /\ s \in Sems
  BY DEF QueuesInv, Signal, At, Goto, Signalled, Sems
<1>2. /\ count'[s] + Cardinality(grants'[s]) = count[s] + Cardinality(grants[s]) + 1
      /\ \A t \in Sems \ {s} : count'[t] = count[t] /\ grants'[t] = grants[t]
  <2>1. count[s] \in Nat /\ Cardinality(grants[s]) \in Nat
    BY <1>1, GrantsFinite DEF TypeOK
  <2>2. CASE SignalHandoff(p, s)
    <3> DEFINE w == Head(queue[s])
    <3>1. grants'[s] = grants[s] \cup {w} /\ count' = count
      BY <1>1, <2>2 DEF SignalHandoff, TypeOK
    <3>2. \A t \in Sems \ {s} : grants'[t] = grants[t]
      BY <1>1, <2>2 DEF SignalHandoff, TypeOK
    <3>3. w \notin grants[s]
      <4>1. queue[s] \in Seq(Users) /\ queue[s] # <<>> /\ Once(queue[s])
        BY <1>1, <2>2 DEF SignalHandoff, TypeOK, QueuesInv
      <4>2. w \in Range(queue[s])
        BY <4>1, LeaveQueue
      <4>3. w \in blocked
        BY <1>1, <4>2 DEF QueuesInv, BlockedExactlyQueued, Sems
      <4> QED BY <1>1, <4>3 DEF QueuesInv, NoBarging, At
    <3> HIDE DEF w
    <3>4. Cardinality(grants'[s]) = Cardinality(grants[s]) + 1
      BY <1>1, <3>1, <3>3, GrantsFinite, FS_AddElement
    <3> QED BY <2>1, <3>1, <3>2, <3>4
  <2>3. CASE SignalCount(p, s)
    <3>1. /\ grants' = grants /\ count'[s] = count[s] + 1
          /\ \A t \in Sems \ {s} : count'[t] = count[t]
      BY <1>1, <2>3 DEF SignalCount, TypeOK
    <3> QED BY <2>1, <3>1
  <2> QED BY <2>2, <2>3 DEF Signal
<1>3. Holds("idle") = 0 /\ Gives("idle") = 0 /\ Holds(pc[p]) = 0 /\ Gives(pc[p]) = 1
  BY <1>1 DEF Holds, Gives
<1>4. CASE p \in Producers
  <2>1. FreeItems' = FreeItems + 1 /\ FreeSlots' = FreeSlots
    <3>1. s = "full" /\ "empty" \in Sems \ {s}
      BY <1>4 DEF Signalled, Sems
    <3> HIDE DEF s
    <3>2. /\ count'["full"] + Cardinality(grants'["full"])
               = count["full"] + Cardinality(grants["full"]) + 1
          /\ count'["empty"] = count["empty"] /\ grants'["empty"] = grants["empty"]
      BY <1>2, <3>1
    <3> QED BY <3>2 DEF FreeSlots, FreeItems
  <2>2. /\ ProdHold' = ProdHold + Holds("idle") - Holds(pc[p])
        /\ ProdGive' = ProdGive + Gives("idle") - Gives(pc[p])
        /\ ConsHold' = ConsHold /\ ConsGive' = ConsGive
    BY <1>1, <1>4, RolesMove
  <2>3. ProdHold' = ProdHold /\ ProdGive' = ProdGive - 1
    BY <1>0, <1>3, <2>2
  <2>4. Ledger'
    BY <1>0, <1>1, <2>1, <2>2, <2>3 DEF Ledger
  <2> QED BY <2>4, LedgerMeaning
<1>5. CASE p \in Consumers
  <2>1. s = "empty" /\ "full" \in Sems \ {s}
    BY <1>5, BufferAssumption DEF Signalled, Sems
  <2>2. FreeSlots' = FreeSlots + 1 /\ FreeItems' = FreeItems
    <3> HIDE DEF s
    <3>1. /\ count'["empty"] + Cardinality(grants'["empty"])
               = count["empty"] + Cardinality(grants["empty"]) + 1
          /\ count'["full"] = count["full"] /\ grants'["full"] = grants["full"]
      BY <1>2, <2>1
    <3> QED BY <3>1 DEF FreeSlots, FreeItems
  <2>3. /\ ConsHold' = ConsHold + Holds("idle") - Holds(pc[p])
        /\ ConsGive' = ConsGive + Gives("idle") - Gives(pc[p])
        /\ ProdHold' = ProdHold /\ ProdGive' = ProdGive
    BY <1>1, <1>5, RolesMove
  <2>4. ConsHold' = ConsHold /\ ConsGive' = ConsGive - 1
    BY <1>0, <1>3, <2>3
  <2>5. Ledger'
    BY <1>0, <1>1, <2>2, <2>3, <2>4 DEF Ledger
  <2> QED BY <2>5, LedgerMeaning
<1> QED BY <1>4, <1>5 DEF Users

(* A move between two calls that hold the same leaves the ledger alone:     *)
(* beginning a frame, acquiring and releasing the mutex.                    *)
LEMMA MovePermits ==
    ASSUME TypeOK, PermitsConserved, NEW p \in Users, NEW l, pc' = [pc EXCEPT ![p] = l],
           Holds(l) = Holds(pc[p]), Gives(l) = Gives(pc[p]), UNCHANGED <<count, grants, items>>
    PROVE  PermitsConserved'
<1>1. FreeSlots' = FreeSlots /\ FreeItems' = FreeItems
  BY DEF FreeSlots, FreeItems
<1>2. Holds(l) \in Int /\ Gives(l) \in Int
  BY DEF Holds, Gives
<1>3. ProdHold' = ProdHold /\ ProdGive' = ProdGive /\ ConsHold' = ConsHold /\ ConsGive' = ConsGive
  <2>1. CASE p \in Producers
    <3>1. /\ ProdHold' = ProdHold + Holds(l) - Holds(pc[p])
          /\ ProdGive' = ProdGive + Gives(l) - Gives(pc[p])
          /\ ConsHold' = ConsHold /\ ConsGive' = ConsGive
      BY <2>1, RolesMove
    <3> QED BY <1>2, <3>1, RolesCounted
  <2>2. CASE p \in Consumers
    <3>1. /\ ConsHold' = ConsHold + Holds(l) - Holds(pc[p])
          /\ ConsGive' = ConsGive + Gives(l) - Gives(pc[p])
          /\ ProdHold' = ProdHold /\ ProdGive' = ProdGive
      BY <2>2, RolesMove
    <3> QED BY <1>2, <3>1, RolesCounted
  <2> QED BY <2>1, <2>2 DEF Users
<1> QED BY <1>1, <1>3, LedgerMeaning DEF Ledger

(* Every step keeps the accounting, and nobody becomes rejected.            *)
LEMMA NextKeepsPermits == BufferInv /\ [Next]_vars => BufferInv'
<1> SUFFICES ASSUME BufferInv, [Next]_vars PROVE PermitsConserved' /\ NeverRejected'
  BY NextKeeps DEF BufferInv
<1>1. QueuesInv /\ TypeOK /\ PermitsConserved /\ \A q \in Users : pc[q] # "rejected"
  BY DEF BufferInv, QueuesInv, NeverRejected
<1>2. ASSUME NEW p \in Users, NEW l, l # "rejected", pc' = [pc EXCEPT ![p] = l]
      PROVE  NeverRejected'
  BY <1>1, <1>2 DEF TypeOK, NeverRejected
<1>3. ASSUME NEW p \in Users, Begin(p) PROVE PermitsConserved' /\ NeverRejected'
  <2>1. /\ pc[p] = "idle" /\ pc' = [pc EXCEPT ![p] = "wait"]
        /\ UNCHANGED <<count, grants, items>>
    BY <1>3 DEF Begin, At, Goto, semVars
  <2>2. Holds("wait") = Holds(pc[p]) /\ Gives("wait") = Gives(pc[p])
    BY <2>1 DEF Holds, Gives
  <2> QED BY <1>1, <1>2, <2>1, <2>2, MovePermits
<1>4. ASSUME NEW p \in Users, Wait(p) PROVE PermitsConserved' /\ NeverRejected'
  <2>1. CASE WaitResumed(p, Awaited(p)) \/ WaitOk(p, Awaited(p))
    <3>1. PermitsConserved'
      BY <1>1, <1>4, <2>1, WaitGrantedPermits DEF Wait
    <3>2. pc' = [pc EXCEPT ![p] = "lock"]
      BY <2>1 DEF WaitResumed, WaitOk, Goto
    <3> QED BY <1>2, <3>1, <3>2
  <2>2. CASE WaitBlocked(p, Awaited(p))
    <3>1. UNCHANGED <<count, grants, items, pc>>
      BY <1>4, <2>2 DEF Wait, WaitBlocked
    <3> QED BY <1>1, <3>1 DEF PermitsConserved, Between, NeverRejected
  <2> QED BY <1>4, <2>1, <2>2 DEF Wait
<1>5. ASSUME NEW p \in Users, Acquire(p) PROVE PermitsConserved' /\ NeverRejected'
  <2>1. pc[p] = "lock" /\ UNCHANGED <<count, grants, items>>
    BY <1>5 DEF Acquire, At, semVars
  <2>2. CASE AcquireOk(p)
    <3>1. pc' = [pc EXCEPT ![p] = "work"]
      BY <2>2 DEF AcquireOk, Goto
    <3>2. Holds("work") = Holds(pc[p]) /\ Gives("work") = Gives(pc[p])
      BY <2>1 DEF Holds, Gives
    <3> QED BY <1>1, <1>2, <2>1, <3>1, <3>2, MovePermits
  <2>3. CASE AcquireBlocked(p)
    <3>1. pc' = pc
      BY <2>3 DEF AcquireBlocked
    <3> QED BY <1>1, <2>1, <3>1 DEF PermitsConserved, Between, NeverRejected
  <2> QED BY <1>5, <2>2, <2>3 DEF Acquire
<1>6. ASSUME NEW p \in Users, Work(p) PROVE PermitsConserved' /\ NeverRejected'
  BY <1>1, <1>2, <1>6, WorkPermits
<1>7. ASSUME NEW p \in Users, Unlock(p) PROVE PermitsConserved' /\ NeverRejected'
  <2>1. /\ pc[p] = "unlock" /\ pc' = [pc EXCEPT ![p] = "signal"]
        /\ UNCHANGED <<count, grants, items>>
    BY <1>7 DEF Unlock, At, Goto, semVars
  <2>2. Holds("signal") = Holds(pc[p]) /\ Gives("signal") = Gives(pc[p])
    BY <2>1 DEF Holds, Gives
  <2> QED BY <1>1, <1>2, <2>1, <2>2, MovePermits
<1>8. ASSUME NEW p \in Users, Signal(p) PROVE PermitsConserved' /\ NeverRejected'
  <2>1. pc' = [pc EXCEPT ![p] = "idle"]
    BY <1>8 DEF Signal, Goto
  <2> QED BY <1>1, <1>2, <1>8, <2>1, SignalPermits
<1>9. CASE UNCHANGED vars
  BY <1>1, <1>9 DEF vars, semVars, PermitsConserved, Between, NeverRejected
<1> QED BY <1>3, <1>4, <1>5, <1>6, <1>7, <1>8, <1>9 DEF Next, Step

(* The accounting and the wait queues hold of every execution, for any sets *)
(* of producers and consumers and any capacity.                             *)
THEOREM BufferInvariant == Spec => []BufferInv
<1>1. Init => BufferInv
  BY InitQueues, InitPermits DEF BufferInv
<1> QED BY <1>1, NextKeepsPermits, PTL DEF Spec

(* Semaphores, mutex, buffer and program counters have their types.         *)
THEOREM BufferTypes == Spec => []TypeOK
<1>1. BufferInv => TypeOK
  BY DEF BufferInv, QueuesInv
<1> QED BY <1>1, BufferInvariant, PTL

(* No process of the demos overtakes the queue of a semaphore.              *)
THEOREM NobodyBarges == Spec => []NoBarging
<1>1. BufferInv => NoBarging
  BY DEF BufferInv, QueuesInv
<1> QED BY <1>1, BufferInvariant, PTL

(* No process sleeps outside a queue or is queued awake, and one at a time  *)
(* is between acquire and release of the buffer mutex.                      *)
THEOREM BufferSafety == Spec => [](BlockedExactlyQueued /\ MutualExclusion)
<1>1. BufferInv => BlockedExactlyQueued /\ MutualExclusion
  BY DEF BufferInv, QueuesInv, WorkersOwn, MutualExclusion
<1> QED BY <1>1, BufferInvariant, PTL

(* The permits of the semaphores always account for the slots of the        *)
(* buffer.                                                                  *)
THEOREM PermitsAddUp == Spec => []PermitsConserved
<1>1. BufferInv => PermitsConserved
  BY DEF BufferInv
<1> QED BY <1>1, BufferInvariant, PTL

(* produce never raises on a full buffer, nor consume on an empty one.      *)
THEOREM BufferNeverRejects == Spec => []NeverRejected
<1>1. BufferInv => NeverRejected
  BY DEF BufferInv
<1> QED BY <1>1, BufferInvariant, PTL

-----------------------------------------------------------------------------
(* Every step is a step of the channel, or leaves it alone: beginning a     *)
(* frame asks, the work puts or gets, and no other call shows.              *)
LEMMA ChannelStep ==
    ASSUME BufferInv, [Next]_vars
    PROVE  [Channel!ChanNext]_(Channel!chanVars)
<1> DEFINE asks == {"wait", "lock", "work"}
           asking == {p \in Users : pc[p] \in asks}
           asking2 == {p \in Users : pc'[p] \in asks}
<1>1. QueuesInv /\ TypeOK /\ PermitsConserved
  BY DEF BufferInv, QueuesInv
<1>2. ASSUME NEW p \in Users, NEW l, pc' = [pc EXCEPT ![p] = l]
      PROVE  /\ pc[p] \in asks /\ l \notin asks => asking2 = asking \ {p}
             /\ l \in asks => asking2 = asking \cup {p}
             /\ pc[p] \notin asks /\ l \notin asks => asking2 = asking
             /\ p \in asking <=> pc[p] \in asks
  <2>1. \A q \in Users : pc'[q] = IF q = p THEN l ELSE pc[q]
    BY <1>1, <1>2 DEF TypeOK
  <2> QED BY <2>1
<1> HIDE DEF asking, asking2
<1>3. ASSUME items' = items, asking2 = asking
      PROVE  UNCHANGED Channel!chanVars
  BY <1>3 DEF Channel!chanVars, asking, asking2
<1>4. ASSUME NEW p \in Users, Begin(p) PROVE Channel!ChanNext
  <2>1. pc[p] = "idle" /\ pc' = [pc EXCEPT ![p] = "wait"] /\ items' = items
    BY <1>4 DEF Begin, At, Goto
  <2>2. p \notin asking /\ asking2 = asking \cup {p}
    BY <1>2, <2>1
  <2>3. Channel!Ask(p)
    BY <2>1, <2>2 DEF Channel!Ask, asking, asking2
  <2> QED BY <2>3 DEF Channel!ChanNext, Users
<1>5. ASSUME NEW p \in Users, Wait(p) PROVE UNCHANGED Channel!chanVars
  <2>1. pc[p] = "wait" /\ items' = items /\ (pc' = pc \/ pc' = [pc EXCEPT ![p] = "lock"])
    BY <1>5 DEF Wait, At, WaitResumed, WaitOk, WaitBlocked, Goto
  <2>2. asking2 = asking
    <3>1. CASE pc' = pc
      BY <3>1 DEF asking, asking2
    <3>2. CASE pc' = [pc EXCEPT ![p] = "lock"]
      BY <1>2, <2>1, <3>2
    <3> QED BY <2>1, <3>1, <3>2
  <2> QED BY <1>3, <2>1, <2>2
<1>6. ASSUME NEW p \in Users, Acquire(p) PROVE UNCHANGED Channel!chanVars
  <2>1. pc[p] = "lock" /\ items' = items /\ (pc' = pc \/ pc' = [pc EXCEPT ![p] = "work"])
    BY <1>6 DEF Acquire, At, AcquireOk, AcquireBlocked, Goto
  <2>2. asking2 = asking
    <3>1. CASE pc' = pc
      BY <3>1 DEF asking, asking2
    <3>2. CASE pc' = [pc EXCEPT ![p] = "work"]
      BY <1>2, <2>1, <3>2
    <3> QED BY <2>1, <3>1, <3>2
  <2> QED BY <1>3, <2>1, <2>2
<1>7. ASSUME NEW p \in Users, Work(p) PROVE Channel!ChanNext
  <2>1. pc[p] = "work" /\ HasRoom(p) /\ pc' = [pc EXCEPT ![p] = "unlock"]
    BY <1>1, <1>7, WorkPermits DEF Work, At
  <2>2. p \in asking /\ asking2 = asking \ {p}
    BY <1>2, <2>1
  <2>3. CASE p \in Producers
    <3>1. Channel!Put(p)
      BY <1>7, <2>1, <2>2, <2>3 DEF Work, HasRoom, Channel!Put, asking, asking2
    <3> QED BY <2>3, <3>1 DEF Channel!ChanNext
  <2>4. CASE p \notin Producers
    <3>1. Channel!Get(p)
      BY <1>7, <2>1, <2>2, <2>4 DEF Work, HasRoom, Channel!Get, asking, asking2
    <3> QED BY <2>4, <3>1 DEF Channel!ChanNext, Users
  <2> QED BY <2>3, <2>4
<1>8. ASSUME NEW p \in Users, Unlock(p) PROVE UNCHANGED Channel!chanVars
  <2>1. pc[p] = "unlock" /\ pc' = [pc EXCEPT ![p] = "signal"] /\ items' = items
    BY <1>8 DEF Unlock, At, Goto
  <2>2. asking2 = asking
    BY <1>2, <2>1
  <2> QED BY <1>3, <2>1, <2>2
<1>9. ASSUME NEW p \in Users, Signal(p) PROVE UNCHANGED Channel!chanVars
  <2>1. pc[p] = "signal" /\ pc' = [pc EXCEPT ![p] = "idle"] /\ items' = items
    BY <1>9 DEF Signal, At, Goto
  <2>2. asking2 = asking
    BY <1>2, <2>1
  <2> QED BY <1>3, <2>1, <2>2
<1>10. CASE UNCHANGED vars
  BY <1>3, <1>10 DEF vars, asking, asking2
<1> QED BY <1>4, <1>5, <1>6, <1>7, <1>8, <1>9, <1>10 DEF Next, Step

(* The buffer with its semaphores and its mutex implements the safety part  *)
(* of the channel: puts and gets are atomic and in order, within capacity.  *)
THEOREM BufferRefinesChannel == Spec => Channel!ChanInit /\ [][Channel!ChanNext]_(Channel!chanVars)
<1>1. Init => Channel!ChanInit
  BY DEF Init, Channel!ChanInit
<1>2. BufferInv /\ [Next]_vars => [Channel!ChanNext]_(Channel!chanVars)
  BY ChannelStep
<1> QED BY <1>1, <1>2, BufferInvariant, PTL DEF Spec

=============================================================================
