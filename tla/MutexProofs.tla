----------------------------- MODULE MutexProofs ----------------------------
(***************************************************************************)
(* Proofs about Mutex, for any processes, policy, terminations and late    *)
(* admissions.  For any number of locks: the waiters of a lock are off the *)
(* CPU, unless a script admits them late; each waits once, for a lock that *)
(* is held; nobody else is BLOCKED, and nobody has a floor without a       *)
(* reason.  For one lock: the floor of the holder covers its waiters, and  *)
(* the CPU goes to nobody less urgent.                                     *)
(***************************************************************************)
EXTENDS Mutex, KernelProofs, DataLemmas

OffCpu(st, cur, p) == p # cur /\ st[p] \in {"NEW", "BLOCKED", "TERMINATED"}

(* Nobody reaches the CPU before it is admitted.                            *)
NewStaysAside == \A p \in Procs : state[p] = "NEW" => p # current /\ p \notin Range(ready)

(* The inductive invariant: a waiter that is no latecomer is not in the     *)
(* middle of a slice either, so that no tick executes it although it may be *)
(* TERMINATED, and not in the ready queue while it is NEW.                  *)
LockInv ==
    /\ state \in [Procs -> ProcessState]
    /\ LockTypeOK /\ WaitersQueued /\ BlockedMeansWaiting /\ NewStaysAside
    /\ \A l \in Locks : \A i \in DOMAIN waiting[l] :
           waiting[l][i] \notin Latecomers => OffCpu(state, current, waiting[l][i])

(* The same invariant, of the waiters one by one.                           *)
LEMMA WaitersAreOffCpu ==
    ASSUME LockInv, NEW l \in Locks, NEW w \in Range(waiting[l])
    PROVE  w \in Procs /\ (w \notin Latecomers => OffCpu(state, current, w))
<1>1. waiting[l] \in Seq(Procs)
  BY DEF LockInv, LockTypeOK
<1>2. PICK i \in DOMAIN waiting[l] : waiting[l][i] = w
  BY DEF Range
<1>3. QED
  BY <1>1, <1>2 DEF LockInv

LEMMA WaiterInQueue ==
    ASSUME NEW p, NEW l \in Locks, NEW i \in DOMAIN waiting[l], waiting[l][i] = p
    PROVE  Waits(p)
BY DEF Waits, Range

-----------------------------------------------------------------------------
(* The locks.                                                               *)
LEMMA TakeInv ==
    ASSUME LockInv, NEW p \in Procs, NEW l \in Locks, Take(p, l)
    PROVE  LockInv'
<1>1. /\ owner[l] = None /\ owner' = [owner EXCEPT ![l] = p] /\ waiting' = waiting
      /\ state' = state /\ current' = current /\ ready' = ready
  BY DEF Take, kernelVars
<1>2. \A m \in Locks : \A i \in DOMAIN waiting[m] : m # l
  BY <1>1 DEF LockInv, WaitersQueued
<1>3. LockTypeOK'
  BY <1>1 DEF LockInv, LockTypeOK
<1>4. WaitersQueued'
  BY <1>1, <1>2 DEF LockInv, WaitersQueued, LockTypeOK
<1>5. BlockedMeansWaiting' /\ NewStaysAside'
  BY <1>1 DEF LockInv, BlockedMeansWaiting, Waits, NewStaysAside
<1>6. QED
  BY <1>1, <1>3, <1>4, <1>5 DEF LockInv, OffCpu

LEMMA FreeInv ==
    ASSUME LockInv, NEW p \in Procs, NEW l \in Locks, Free(p, l)
    PROVE  LockInv'
<1>1. /\ waiting[l] = <<>> /\ owner' = [owner EXCEPT ![l] = None] /\ waiting' = waiting
      /\ state' = state /\ current' = current /\ ready' = ready
  BY DEF Free, kernelVars
<1>2. \A m \in Locks : \A i \in DOMAIN waiting[m] : m # l
  BY <1>1
<1>3. LockTypeOK'
  BY <1>1 DEF LockInv, LockTypeOK
<1>4. WaitersQueued'
  BY <1>1, <1>2 DEF LockInv, WaitersQueued, LockTypeOK
<1>5. BlockedMeansWaiting' /\ NewStaysAside'
  BY <1>1 DEF LockInv, BlockedMeansWaiting, Waits, NewStaysAside
<1>6. QED
  BY <1>1, <1>3, <1>4, <1>5 DEF LockInv, OffCpu

(* The caller joins the waiters: it waits nowhere yet, and is BLOCKED now   *)
(* unless it is NEW.                                                        *)
LEMMA ContendInv ==
    ASSUME LockInv, NEW p \in Procs, NEW l \in Locks, Contend(p, l),
           state[p] # "TERMINATED", ~ Waits(p)
    PROVE  LockInv'
<1> DEFINE n == Len(waiting[l])
<1>1. /\ owner[l] \notin {None, p} /\ owner' = owner
      /\ waiting' = [waiting EXCEPT ![l] = Append(@, p)] /\ BlockProcess(p)
  BY DEF Contend
<1>2. /\ state' = BlockState(state, p) /\ ready' = ready
      /\ current' = IF current = p THEN None ELSE current
  BY <1>1 DEF BlockProcess
<1>3. /\ state \in [Procs -> ProcessState] /\ waiting \in [Locks -> Seq(Procs)]
      /\ owner \in [Locks -> Procs \cup {None}] /\ None \notin Procs
  BY KernelAssumption DEF LockInv, LockTypeOK
<1>4. /\ waiting' \in [Locks -> Seq(Procs)] /\ waiting'[l] = Append(waiting[l], p)
      /\ \A m \in Locks : m # l => waiting'[m] = waiting[m]
  BY <1>1, <1>3
<1>5. /\ n \in Nat /\ DOMAIN waiting[l] = 1..n /\ DOMAIN waiting'[l] = 1..(n + 1)
      /\ waiting'[l][n + 1] = p /\ \A i \in 1..n : waiting'[l][i] = waiting[l][i]
  BY <1>3, <1>4
<1> HIDE DEF n
<1>6. \A m \in Locks : \A i \in DOMAIN waiting[m] : waiting[m][i] \in Procs /\ waiting[m][i] # p
  BY <1>3, WaiterInQueue
<1>7. \A m \in Locks : \A i \in DOMAIN waiting'[m] :
          \/ i \in DOMAIN waiting[m] /\ waiting'[m][i] = waiting[m][i]
          \/ m = l /\ i = n + 1 /\ waiting'[m][i] = p
  BY <1>4, <1>5
<1>8. /\ state' \in [Procs -> ProcessState] /\ state'[p] \in {"NEW", "BLOCKED"}
      /\ \A q \in Procs : q # p => state'[q] = state[q]
      /\ state'[p] = "NEW" => state[p] = "NEW"
  BY <1>2, <1>3 DEF BlockState, ProcessState
<1>9. LockTypeOK'
  BY <1>1, <1>3, <1>4 DEF LockTypeOK
<1>10. WaitersQueued'
  <2> SUFFICES ASSUME NEW m \in Locks, NEW i \in DOMAIN waiting'[m]
               PROVE  /\ owner[m] \notin {None, waiting'[m][i]}
                      /\ \A k \in Locks : \A j \in DOMAIN waiting'[k] :
                             waiting'[m][i] = waiting'[k][j] => m = k /\ i = j
    BY <1>1 DEF WaitersQueued
  <2>1. CASE i \in DOMAIN waiting[m] /\ waiting'[m][i] = waiting[m][i]
    <3>1. /\ owner[m] \notin {None, waiting[m][i]}
          /\ \A k \in Locks : \A j \in DOMAIN waiting[k] :
                 waiting[m][i] = waiting[k][j] => m = k /\ i = j
      BY <2>1 DEF LockInv, WaitersQueued
    <3>2. QED
      BY <2>1, <3>1, <1>6, <1>7
  <2>2. CASE m = l /\ i = n + 1 /\ waiting'[m][i] = p
    BY <1>1, <1>6, <1>7, <2>2
  <2>3. QED
    BY <1>7, <2>1, <2>2
<1>11. BlockedMeansWaiting'
  <2> SUFFICES ASSUME NEW q \in Procs, state'[q] = "BLOCKED"
               PROVE  \E m \in Locks : q \in Range(waiting'[m])
    BY DEF BlockedMeansWaiting, Waits
  <2>1. CASE q = p
    BY <2>1, <1>5 DEF Range
  <2>2. CASE q # p
    <3>1. state[q] = "BLOCKED"
      BY <2>2, <1>8
    <3>2. PICK m \in Locks : \E i \in DOMAIN waiting[m] : waiting[m][i] = q
      BY <3>1 DEF LockInv, BlockedMeansWaiting, Waits, Range
    <3>3. PICK i \in DOMAIN waiting[m] : waiting[m][i] = q
      BY <3>2
    <3>4. i \in DOMAIN waiting'[m] /\ waiting'[m][i] = q
      BY <3>3, <1>4, <1>5
    <3>5. QED
      BY <3>4 DEF Range
  <2>3. QED
    BY <2>1, <2>2
<1>12. NewStaysAside'
  BY <1>2, <1>3, <1>8 DEF LockInv, NewStaysAside
<1>13. ASSUME NEW m \in Locks, NEW i \in DOMAIN waiting'[m], waiting'[m][i] \notin Latecomers
       PROVE  OffCpu(state', current', waiting'[m][i])
  <2>1. CASE i \in DOMAIN waiting[m] /\ waiting'[m][i] = waiting[m][i]
    <3>1. OffCpu(state, current, waiting[m][i])
      BY <1>13, <2>1 DEF LockInv
    <3>2. QED
      BY <1>2, <1>3, <1>6, <1>8, <2>1, <3>1 DEF OffCpu
  <2>2. CASE waiting'[m][i] = p
    BY <1>2, <1>3, <1>8, <2>2 DEF OffCpu
  <2>3. QED
    BY <1>7, <2>1, <2>2
<1>14. QED
  BY <1>8, <1>9, <1>10, <1>11, <1>12, <1>13 DEF LockInv

(* The first waiter gets the lock and leaves the queue; nobody else moves.  *)
LEMMA HandOverInv ==
    ASSUME LockInv, ready \in Seq(Procs), NEW p \in Procs, NEW l \in Locks, HandOver(p, l)
    PROVE  LockInv'
<1> DEFINE h == waiting[l][1]
           n == Len(waiting[l])
<1>1. /\ waiting[l] # <<>> /\ owner' = [owner EXCEPT ![l] = Head(waiting[l])]
      /\ waiting' = [waiting EXCEPT ![l] = Tail(@)] /\ WakeProcess(owner'[l])
  BY DEF HandOver
<1>2. /\ state \in [Procs -> ProcessState] /\ waiting \in [Locks -> Seq(Procs)]
      /\ owner \in [Locks -> Procs \cup {None}] /\ None \notin Procs
  BY KernelAssumption DEF LockInv, LockTypeOK
<1>3. /\ n \in Nat \ {0} /\ DOMAIN waiting[l] = 1..n /\ Head(waiting[l]) = h /\ h \in Procs
      /\ Tail(waiting[l]) \in Seq(Procs) /\ DOMAIN Tail(waiting[l]) = 1..(n - 1)
      /\ \A i \in 1..(n - 1) : Tail(waiting[l])[i] = waiting[l][i + 1]
  <2>1. waiting[l] \in Seq(Procs) /\ waiting[l] # <<>>
    BY <1>1, <1>2
  <2>2. QED
    BY <2>1
<1> HIDE DEF n, h
<1>4. owner'[l] = h /\ \A m \in Locks : m # l => owner'[m] = owner[m]
  BY <1>1, <1>2, <1>3
<1>5. /\ waiting' \in [Locks -> Seq(Procs)] /\ waiting'[l] = Tail(waiting[l])
      /\ \A m \in Locks : m # l => waiting'[m] = waiting[m]
  BY <1>1, <1>2, <1>3
<1>6. /\ state' = WakeState(state, h) /\ ready' = WakeQueue(state, ready, h)
      /\ current' = current
  BY <1>1, <1>4 DEF WakeProcess
<1>7. /\ \A q \in Procs : q # h => state'[q] = state[q]
      /\ state'[h] # "BLOCKED" /\ state' \in [Procs -> ProcessState]
  BY <1>2, <1>3, <1>6 DEF WakeState, ProcessState
<1>8. \A m \in Locks : \A i \in DOMAIN waiting[m] : waiting[m][i] = h => m = l /\ i = 1
  BY <1>3 DEF LockInv, WaitersQueued, h
<1> DEFINE old(m, i) == IF m = l THEN i + 1 ELSE i
<1>9. \A m \in Locks : \A i \in DOMAIN waiting'[m] :
          /\ old(m, i) \in DOMAIN waiting[m] /\ waiting'[m][i] = waiting[m][old(m, i)]
          /\ waiting'[m][i] \in Procs \ {h}
  <2> TAKE m \in Locks
  <2> TAKE i \in DOMAIN waiting'[m]
  <2>1. CASE m = l
    <3>1. i \in 1..(n - 1) /\ i + 1 \in 1..n /\ i + 1 # 1
      BY <2>1, <1>3, <1>5
    <3>2. waiting'[m][i] = waiting[m][i + 1] /\ i + 1 \in DOMAIN waiting[m]
      BY <2>1, <3>1, <1>3, <1>5
    <3>3. waiting[m][i + 1] \in Procs
      BY <3>2, <1>2
    <3>4. QED
      BY <2>1, <3>1, <3>2, <3>3, <1>8
  <2>2. CASE m # l
    <3>1. waiting'[m] = waiting[m]
      BY <2>2, <1>5
    <3>2. waiting[m][i] \in Procs
      BY <3>1, <1>2
    <3>3. QED
      BY <2>2, <3>1, <3>2, <1>8
  <2>3. QED
    BY <2>1, <2>2
<1>10. LockTypeOK'
  BY <1>1, <1>2, <1>3, <1>4, <1>5 DEF LockTypeOK
<1>11. WaitersQueued'
  <2> SUFFICES ASSUME NEW m \in Locks, NEW i \in DOMAIN waiting'[m]
               PROVE  /\ owner'[m] \notin {None, waiting'[m][i]}
                      /\ \A k \in Locks : \A j \in DOMAIN waiting'[k] :
                             waiting'[m][i] = waiting'[k][j] => m = k /\ i = j
    BY DEF WaitersQueued
  <2> DEFINE w == waiting'[m][i]
  <2>1. /\ old(m, i) \in DOMAIN waiting[m] /\ w = waiting[m][old(m, i)] /\ w \in Procs \ {h}
    BY <1>9
  <2>2. /\ owner[m] \notin {None, w}
        /\ \A k \in Locks : \A j \in DOMAIN waiting[k] :
               w = waiting[k][j] => m = k /\ old(m, i) = j
    BY <2>1 DEF LockInv, WaitersQueued
  <2> HIDE DEF w
  <2>3. owner'[m] \notin {None, w}
    BY <2>1, <2>2, <1>2, <1>3, <1>4
  <2>4. ASSUME NEW k \in Locks, NEW j \in DOMAIN waiting'[k], w = waiting'[k][j]
        PROVE  m = k /\ i = j
    <3>1. old(k, j) \in DOMAIN waiting[k] /\ w = waiting[k][old(k, j)]
      BY <2>4, <1>9
    <3>2. m = k /\ old(m, i) = old(k, j)
      BY <2>2, <3>1
    <3>3. CASE m = l
      <4>1. i \in 1..(n - 1) /\ j \in 1..(n - 1) /\ i + 1 = j + 1
        BY <3>2, <3>3, <1>3, <1>5
      <4>2. QED
        BY <4>1, <3>2, <1>3
    <3>4. CASE m # l
      BY <3>2, <3>4
    <3>5. QED
      BY <3>3, <3>4
  <2>5. QED
    BY <2>3, <2>4 DEF w
<1>12. BlockedMeansWaiting'
  <2> SUFFICES ASSUME NEW q \in Procs, state'[q] = "BLOCKED"
               PROVE  \E m \in Locks : q \in Range(waiting'[m])
    BY DEF BlockedMeansWaiting, Waits
  <2>1. q # h /\ state[q] = "BLOCKED"
    BY <1>7
  <2>2. PICK m \in Locks : \E i \in DOMAIN waiting[m] : waiting[m][i] = q
    BY <2>1 DEF LockInv, BlockedMeansWaiting, Waits, Range
  <2>3. PICK i \in DOMAIN waiting[m] : waiting[m][i] = q
    BY <2>2
  <2>4. CASE m = l
    <3>1. i \in 1..n /\ i # 1
      BY <2>1, <2>3, <2>4, <1>3 DEF h
    <3>2. i - 1 \in 1..(n - 1) /\ (i - 1) + 1 = i
      BY <3>1, <1>3
    <3>3. i - 1 \in DOMAIN waiting'[l] /\ waiting'[l][i - 1] = q
      BY <3>2, <2>3, <2>4, <1>3, <1>5
    <3>4. QED
      BY <3>3 DEF Range
  <2>5. CASE m # l
    BY <2>3, <2>5, <1>5 DEF Range
  <2>6. QED
    BY <2>4, <2>5
<1>13. NewStaysAside'
  <2> SUFFICES ASSUME NEW q \in Procs, state'[q] = "NEW"
               PROVE  q # current' /\ q \notin Range(ready')
    BY DEF NewStaysAside
  <2>1. state[q] = "NEW"
    BY <1>3, <1>6, <1>7 DEF WakeState
  <2>2. q # current /\ q \notin Range(ready)
    BY <2>1 DEF LockInv, NewStaysAside
  <2>3. ready' = ready \/ (ready' = Append(ready, h) /\ q # h)
    BY <1>2, <1>3, <1>6, <1>7, <2>1 DEF WakeQueue, Enqueue
  <2>4. Range(Append(ready, h)) \subseteq Range(ready) \cup {h}
    BY DEF Range
  <2>5. QED
    BY <1>6, <2>2, <2>3, <2>4
<1>14. ASSUME NEW m \in Locks, NEW i \in DOMAIN waiting'[m], waiting'[m][i] \notin Latecomers
       PROVE  OffCpu(state', current', waiting'[m][i])
  <2>1. OffCpu(state, current, waiting[m][old(m, i)]) /\ waiting'[m][i] = waiting[m][old(m, i)]
    BY <1>9, <1>14 DEF LockInv
  <2>2. QED
    BY <1>6, <1>7, <1>9, <2>1 DEF OffCpu
<1>15. QED
  BY <1>7, <1>10, <1>11, <1>12, <1>13, <1>14 DEF LockInv

-----------------------------------------------------------------------------
(* Steps that leave the locks alone and every waiter off the CPU.           *)
LEMMA QuietLockInv ==
    ASSUME LockInv, UNCHANGED lockVars, state' \in [Procs -> ProcessState], NewStaysAside',
           \A p \in Procs \ Latecomers :
               Waits(p) /\ OffCpu(state, current, p) => OffCpu(state', current', p),
           \A p \in Procs : state'[p] = "BLOCKED" => state[p] = "BLOCKED"
    PROVE  LockInv'
<1>1. owner' = owner /\ waiting' = waiting
  BY DEF lockVars
<1>2. ASSUME NEW l \in Locks, NEW i \in DOMAIN waiting[l], waiting[l][i] \notin Latecomers
      PROVE  OffCpu(state', current', waiting[l][i])
  <2>1. waiting[l][i] \in Range(waiting[l])
    BY DEF Range
  <2>2. waiting[l][i] \in Procs /\ OffCpu(state, current, waiting[l][i]) /\ Waits(waiting[l][i])
    BY <1>2, <2>1, WaitersAreOffCpu, WaiterInQueue
  <2>3. QED
    BY <1>2, <2>2
<1>3. WaitersQueued'
  BY <1>1 DEF LockInv, WaitersQueued
<1>4. BlockedMeansWaiting'
  BY <1>1 DEF LockInv, BlockedMeansWaiting, Waits
<1>5. LockTypeOK'
  BY <1>1 DEF LockInv, LockTypeOK
<1>6. QED
  BY <1>1, <1>2, <1>3, <1>4, <1>5 DEF LockInv, OffCpu

LEMMA AdmitKeepsLockInv ==
    ASSUME LockInv, ready \in Seq(Procs), NEW p \in Procs, MutexAdmit(p)
    PROVE  LockInv'
<1>1. /\ state[p] = "NEW" /\ state' = [state EXCEPT ![p] = "READY"] /\ UNCHANGED lockVars
      /\ current' = current /\ ready' = Enqueue(state', ready, p)
      /\ p \in Latecomers \/ ~ Waits(p)
  BY DEF MutexAdmit, Admit
<1>2. /\ state' \in [Procs -> ProcessState]
      /\ \A q \in Procs : state'[q] = "BLOCKED" => state[q] = "BLOCKED"
      /\ \A q \in Procs \ {p} : state'[q] = state[q]
      /\ state'[p] = "READY"
  BY <1>1 DEF LockInv, ProcessState
<1>3. Range(Append(ready, p)) \subseteq Range(ready) \cup {p}
  BY DEF Range
<1>4. Range(ready') \subseteq Range(ready) \cup {p}
  BY <1>1, <1>3 DEF Enqueue
<1>5. NewStaysAside'
  BY <1>1, <1>2, <1>4 DEF LockInv, NewStaysAside
<1>6. \A q \in Procs \ Latecomers :
          Waits(q) /\ OffCpu(state, current, q) => OffCpu(state', current', q)
  BY <1>1, <1>2 DEF OffCpu
<1>7. QED
  BY <1>1, <1>2, <1>5, <1>6, QuietLockInv

LEMMA TerminateKeepsLockInv ==
    ASSUME LockInv, NEW p \in Procs, MutexTerminate(p)
    PROVE  LockInv'
<1>1. /\ state' = [state EXCEPT ![p] = "TERMINATED"] /\ UNCHANGED lockVars
      /\ current' = current /\ ready' = ready
  BY DEF MutexTerminate, Terminate
<1>2. /\ state' \in [Procs -> ProcessState]
      /\ \A q \in Procs : state'[q] = "BLOCKED" => state[q] = "BLOCKED"
      /\ \A q \in Procs : state'[q] = state[q] \/ state'[q] = "TERMINATED"
  BY <1>1 DEF LockInv, ProcessState
<1>3. NewStaysAside'
  BY <1>1, <1>2 DEF LockInv, NewStaysAside
<1>4. \A q \in Procs \ Latecomers :
          Waits(q) /\ OffCpu(state, current, q) => OffCpu(state', current', q)
  BY <1>1, <1>2 DEF OffCpu
<1>5. QED
  BY <1>1, <1>2, <1>3, <1>4, QuietLockInv

(* A tick blocks nobody here, and executes neither who is BLOCKED or        *)
(* TERMINATED nor who was never admitted.                                   *)
LEMMA TickKeepsLockInv ==
    ASSUME KernelInv, LockInv, UNCHANGED lockVars,
           NEW eff \in [Procs -> Int], CpuStep(state, ready, eff, {})
    PROVE  LockInv'
<1>1. /\ state \in [Procs -> ProcessState] /\ ready \in Seq(Procs)
      /\ \A i, j \in DOMAIN ready : ready[i] = ready[j] => i = j
      /\ current \in Procs \cup {None}
  BY DEF KernelInv, TypeOK, QueuedOnce
<1>2. /\ state' \in [Procs -> ProcessState]
      /\ \A p \in Procs : Parked(state, current, p) => Parked(state', current', p)
      /\ \A p \in Procs : state'[p] = "BLOCKED" => state[p] = "BLOCKED"
  BY <1>1, TickKeepsParked
<1>3. /\ \A q \in Procs : q \notin Range(ready) /\ q # current =>
             state'[q] = state[q] /\ q # current' /\ q \notin Range(ready')
      /\ \A q \in Procs : state'[q] = "NEW" => state[q] = "NEW"
  BY <1>1, TickTouchesQueued
<1>4. NewStaysAside'
  BY <1>3 DEF LockInv, NewStaysAside
<1>5. \A q \in Procs \ Latecomers :
          Waits(q) /\ OffCpu(state, current, q) => OffCpu(state', current', q)
  <2> SUFFICES ASSUME NEW q \in Procs, OffCpu(state, current, q) PROVE OffCpu(state', current', q)
    OBVIOUS
  <2>1. CASE state[q] = "NEW"
    <3>1. q # current /\ q \notin Range(ready)
      BY <2>1 DEF LockInv, NewStaysAside
    <3>2. QED
      BY <2>1, <3>1, <1>3 DEF OffCpu
  <2>2. CASE state[q] # "NEW"
    BY <2>2, <1>2 DEF OffCpu, Parked
  <2>3. QED
    BY <2>1, <2>2
<1>6. QED
  BY <1>2, <1>4, <1>5, QuietLockInv

LEMMA CallKeepsLockInv ==
    ASSUME LockInv, ready \in Seq(Procs), NEW p \in Procs, NEW l \in Locks,
           Acquire(p, l) \/ Release(p, l) \/ BareRelease(p, l)
    PROVE  LockInv'
<1>1. CASE Acquire(p, l)
  <2>1. /\ state[p] # "TERMINATED" /\ ~ Waits(p)
        /\ Take(p, l) \/ Contend(p, l)
    BY <1>1 DEF Acquire, AcquireFree, AcquireContended
  <2>2. QED
    BY <2>1, TakeInv, ContendInv
<1>2. CASE Release(p, l) \/ BareRelease(p, l)
  <2>1. Free(p, l) \/ HandOver(p, l)
    BY <1>2 DEF Release, ReleaseFree, Handoff, BareRelease
  <2>2. QED
    BY <2>1, FreeInv, HandOverInv
<1>3. QED
  BY <1>1, <1>2

LEMMA InitLockInv ==
    ASSUME MutexInit
    PROVE  LockInv
<1>1. /\ state = [p \in Procs |-> "NEW"] /\ current = None /\ ready = <<>>
      /\ owner = [l \in Locks |-> None] /\ waiting = [l \in Locks |-> <<>>]
  BY DEF MutexInit, KernelInit, LockInit
<1>2. LockTypeOK /\ state \in [Procs -> ProcessState]
  BY <1>1 DEF LockTypeOK, ProcessState
<1>3. /\ \A l \in Locks : DOMAIN waiting[l] = {}
      /\ Range(ready) = {} /\ None \notin Procs
  BY <1>1, KernelAssumption DEF Range
<1>4. QED
  BY <1>1, <1>2, <1>3 DEF LockInv, WaitersQueued, BlockedMeansWaiting, NewStaysAside

-----------------------------------------------------------------------------
(* Types, and the state of the kernel below the locks.                      *)
BoostTypeOK == bonus \in [Procs -> Nat] /\ floor \in [Procs -> Nat]

(* The floor that the waiters w of a queue give their holder: that of the   *)
(* most urgent of them, zero without one.                                   *)
LEMMA RecomputeFloor ==
    ASSUME bonus \in [Procs -> Nat], NEW fl \in [Procs -> Nat], NEW p \in Procs,
           NEW q \in Seq(Procs)
    PROVE  /\ Recompute(fl, p, q) \in [Procs -> Nat]
           /\ \A x \in Procs \ {p} : Recompute(fl, p, q)[x] = fl[x]
           /\ ~ Inheritance => Recompute(fl, p, q) = fl
           /\ Inheritance => \A w \in Range(q) : Recompute(fl, p, q)[p] >= Own(w, bonus)
           /\ Inheritance /\ Recompute(fl, p, q)[p] > 0 =>
                  \E w \in Range(q) : Own(w, bonus) = Recompute(fl, p, q)[p]
<1> DEFINE Urgency == {Own(w, bonus) : w \in Range(q)}
           S == {0} \cup Urgency
<1>1. Range(q) \subseteq Procs /\ IsFiniteSet(Range(q))
  BY KernelAssumption, FS_Subset, RangeOfQueue
<1>2. IsFiniteSet(S)
  <2>1. IsFiniteSet(Urgency)
    <3> DEFINE own == [w \in Range(q) |-> Own(w, bonus)]
    <3>1. own \in Surjection(Range(q), Urgency)
      <4>1. own \in [Range(q) -> Urgency] /\ \A y \in Urgency : \E w \in Range(q) : own[w] = y
        OBVIOUS
      <4> HIDE DEF Urgency, own
      <4>2. QED
        BY <4>1 DEF Surjection
    <3> HIDE DEF Urgency, own
    <3>2. QED
      BY <1>1, <3>1, FS_Surjection
  <2> HIDE DEF Urgency
  <2>2. QED
    BY <2>1, FS_Singleton, FS_Union
<1>3. S \subseteq Int /\ 0 \in S
  BY <1>1, MutexAssumption DEF Own
<1>4. Max(S) \in S /\ \A x \in S : Max(S) >= x
  <2> HIDE DEF S
  <2>1. QED
    BY <1>2, <1>3, MaxOfFinite
<1>5. CASE Inheritance
  <2>1. Recompute(fl, p, q) = [fl EXCEPT ![p] = Max(S)]
    BY <1>5 DEF Recompute
  <2>2. Max(S) \in Nat /\ \A w \in Range(q) : Max(S) >= Own(w, bonus)
    <3>1. \A w \in Range(q) : Own(w, bonus) \in S
      OBVIOUS
    <3> HIDE DEF S
    <3>2. Max(S) >= 0 /\ Max(S) \in Int
      BY <1>3, <1>4
    <3>3. QED
      BY <1>4, <3>1, <3>2
  <2>3. Max(S) > 0 => \E w \in Range(q) : Own(w, bonus) = Max(S)
    <3>1. \A x \in S : x = 0 \/ \E w \in Range(q) : Own(w, bonus) = x
      OBVIOUS
    <3> HIDE DEF S
    <3>2. QED
      BY <3>1, <1>4
  <2> HIDE DEF S
  <2>4. QED
    BY <2>1, <2>2, <2>3, <1>5
<1>6. CASE ~ Inheritance
  BY <1>6 DEF Recompute
<1>7. QED
  BY <1>5, <1>6

LEMMA ClearedFloor ==
    ASSUME NEW fl \in [Procs -> Nat], NEW p \in Procs
    PROVE  /\ ClearFloor(fl, p) \in [Procs -> Nat]
           /\ \A x \in Procs \ {p} : ClearFloor(fl, p)[x] = fl[x]
           /\ Inheritance => ClearFloor(fl, p)[p] = 0
           /\ ~ Inheritance => ClearFloor(fl, p) = fl
BY DEF ClearFloor

(* The second inductive invariant, of the floors.  A positive floor is the  *)
(* priority of some waiter, for any number of locks; that it covers every   *)
(* waiter holds for one lock only, because Recompute and ClearFloor forget  *)
(* what another lock of the same holder had made it.                        *)
OneLock == \A l, m \in Locks : l = m

FloorInv ==
    Inheritance => \A l \in Locks : \A w \in OrderlyWaiters(l) : floor[owner[l]] >= Own(w, bonus)

BoostInv ==
    /\ BoostTypeOK
    /\ NoLeftoverBoost
    /\ ~ Inheritance => \A p \in Procs : floor[p] = 0
    /\ OneLock => FloorInv

(* Locks that are taken or left alone by everyone who waits, while nobody   *)
(* ages who is waiting, but for the latecomers.                             *)
LEMMA QuietBoost ==
    ASSUME LockInv, BoostInv, UNCHANGED <<waiting, floor>>,
           bonus' \in [Procs -> Nat],
           \A l \in Locks : waiting[l] # <<>> => owner'[l] = owner[l],
           \A l \in Locks : \A w \in Range(waiting[l]) :
               bonus'[w] >= bonus[w] /\ (w \notin Latecomers => bonus'[w] = bonus[w])
    PROVE  BoostInv'
<1>1. \A l \in Locks : \A w \in Range(waiting[l]) :
          /\ w \in Procs /\ waiting[l] # <<>> /\ owner'[l] = owner[l]
          /\ Own(w, bonus) \in Int /\ Own(w, bonus') \in Int
          /\ Own(w, bonus') >= Own(w, bonus)
          /\ w \notin Latecomers => Own(w, bonus') = Own(w, bonus)
  <2> SUFFICES ASSUME NEW l \in Locks, NEW w \in Range(waiting[l])
               PROVE  /\ w \in Procs /\ waiting[l] # <<>> /\ owner'[l] = owner[l]
                      /\ Own(w, bonus) \in Int /\ Own(w, bonus') \in Int
                      /\ Own(w, bonus') >= Own(w, bonus)
                      /\ w \notin Latecomers => Own(w, bonus') = Own(w, bonus)
    OBVIOUS
  <2>1. waiting[l] \in Seq(Procs)
    BY DEF LockInv, LockTypeOK
  <2>2. w \in Procs /\ waiting[l] # <<>>
    BY <2>1, RangeOfQueue
  <2>3. Base[w] \in Int /\ bonus[w] \in Int /\ bonus'[w] \in Int
    BY <2>2, MutexAssumption DEF BoostInv, BoostTypeOK
  <2>4. bonus'[w] >= bonus[w] /\ (w \notin Latecomers => bonus'[w] = bonus[w])
    OBVIOUS
  <2>5. QED
    BY <2>2, <2>3, <2>4 DEF Own
<1>2. BoostTypeOK'
  BY DEF BoostInv, BoostTypeOK
<1>3. NoLeftoverBoost'
  <2> SUFFICES ASSUME NEW p \in Procs, floor[p] > 0
               PROVE  \E l \in Locks : owner'[l] = p /\
                          \E w \in Range(waiting[l]) : Own(w, bonus') >= floor[p]
    BY DEF NoLeftoverBoost
  <2>1. PICK l \in Locks : owner[l] = p /\ \E w \in Range(waiting[l]) : Own(w, bonus) >= floor[p]
    BY DEF BoostInv, NoLeftoverBoost
  <2>2. PICK w \in Range(waiting[l]) : Own(w, bonus) >= floor[p]
    BY <2>1
  <2>3. floor[p] \in Int
    BY DEF BoostInv, BoostTypeOK
  <2>4. Own(w, bonus') >= floor[p] /\ owner'[l] = p
    BY <1>1, <2>1, <2>2, <2>3
  <2>5. QED
    BY <2>4
<1>4. (OneLock => FloorInv)'
  <2> SUFFICES ASSUME OneLock, Inheritance, NEW l \in Locks, NEW w \in Range(waiting[l]),
                      w \notin Latecomers
               PROVE  floor[owner'[l]] >= Own(w, bonus')
    BY DEF OneLock, FloorInv, OrderlyWaiters
  <2>1. owner'[l] = owner[l] /\ Own(w, bonus') = Own(w, bonus)
    BY <1>1
  <2>2. QED
    BY <2>1 DEF BoostInv, FloorInv, OrderlyWaiters
<1>5. QED
  BY <1>2, <1>3, <1>4 DEF BoostInv

LEMMA ContendBoost ==
    ASSUME LockInv, BoostInv, NEW p \in Procs, NEW l \in Locks, AcquireContended(p, l)
    PROVE  BoostInv'
<1> DEFINE o == owner[l]
           q == waiting'[l]
<1>1. /\ o \notin {None, p} /\ owner' = owner /\ bonus' = bonus
      /\ waiting' = [waiting EXCEPT ![l] = Append(@, p)]
      /\ floor' = Recompute(floor, o, q)
  BY DEF AcquireContended, Contend
<1>2. /\ waiting \in [Locks -> Seq(Procs)] /\ owner \in [Locks -> Procs \cup {None}]
      /\ bonus \in [Procs -> Nat] /\ floor \in [Procs -> Nat]
  BY DEF LockInv, LockTypeOK, BoostInv, BoostTypeOK
<1>3. /\ o \in Procs /\ q \in Seq(Procs)
      /\ \A m \in Locks : m # l => waiting'[m] = waiting[m]
  BY <1>1, <1>2
<1> HIDE DEF o, q
<1>4. /\ floor' \in [Procs -> Nat]
      /\ \A x \in Procs \ {o} : floor'[x] = floor[x]
      /\ ~ Inheritance => floor' = floor
      /\ Inheritance => \A w \in Range(q) : floor'[o] >= Own(w, bonus)
      /\ Inheritance /\ floor'[o] > 0 => \E w \in Range(q) : Own(w, bonus) = floor'[o]
  <2>1. /\ Recompute(floor, o, q) \in [Procs -> Nat]
        /\ \A x \in Procs \ {o} : Recompute(floor, o, q)[x] = floor[x]
        /\ ~ Inheritance => Recompute(floor, o, q) = floor
        /\ Inheritance => \A w \in Range(q) : Recompute(floor, o, q)[o] >= Own(w, bonus)
        /\ Inheritance /\ Recompute(floor, o, q)[o] > 0 =>
               \E w \in Range(q) : Own(w, bonus) = Recompute(floor, o, q)[o]
    BY <1>2, <1>3, RecomputeFloor
  <2>2. QED
    BY <1>1, <2>1
<1>5. BoostTypeOK'
  BY <1>1, <1>2, <1>4 DEF BoostTypeOK
<1>6. ~ Inheritance => \A x \in Procs : floor'[x] = 0
  BY <1>4 DEF BoostInv
<1>7. NoLeftoverBoost'
  <2> SUFFICES ASSUME NEW x \in Procs, floor'[x] > 0
               PROVE  \E m \in Locks : owner'[m] = x /\
                          \E w \in Range(waiting'[m]) : Own(w, bonus') >= floor'[x]
    BY DEF NoLeftoverBoost
  <2>1. CASE x = o
    <3>1. Inheritance /\ floor'[o] > 0 /\ floor'[o] \in Nat
      BY <2>1, <1>3, <1>4, <1>6
    <3>2. PICK w \in Range(q) : Own(w, bonus) = floor'[o]
      BY <1>4, <3>1
    <3>3. Own(w, bonus') >= floor'[x]
      BY <1>1, <2>1, <3>1, <3>2
    <3>4. QED
      BY <1>1, <2>1, <3>3 DEF o, q
  <2>2. CASE x # o
    <3>1. floor'[x] = floor[x]
      BY <2>2, <1>4
    <3>2. PICK m \in Locks : owner[m] = x /\ \E w \in Range(waiting[m]) : Own(w, bonus) >= floor[x]
      BY <3>1 DEF BoostInv, NoLeftoverBoost
    <3>3. m # l
      BY <2>2, <3>2 DEF o
    <3>4. QED
      BY <3>1, <3>2, <3>3, <1>1, <1>3
  <2>3. QED
    BY <2>1, <2>2
<1>8. (OneLock => FloorInv)'
  BY <1>1, <1>4 DEF OneLock, FloorInv, OrderlyWaiters, o, q
<1>9. QED
  BY <1>5, <1>6, <1>7, <1>8 DEF BoostInv

(* A lock that nobody waits for gives nobody a floor.                       *)
LEMMA FreeBoost ==
    ASSUME LockInv, BoostInv, NEW p \in Procs, NEW l \in Locks, ReleaseFree(p, l)
    PROVE  BoostInv'
<1>1. /\ owner[l] = p /\ waiting[l] = <<>> /\ owner' = [owner EXCEPT ![l] = None]
      /\ waiting' = waiting /\ bonus' = bonus /\ floor' = ClearFloor(floor, p)
  BY DEF ReleaseFree, Free
<1>2. bonus \in [Procs -> Nat] /\ floor \in [Procs -> Nat]
  BY DEF BoostInv, BoostTypeOK
<1>3. /\ floor' \in [Procs -> Nat]
      /\ \A x \in Procs \ {p} : floor'[x] = floor[x]
      /\ Inheritance => floor'[p] = 0
      /\ ~ Inheritance => floor' = floor
  BY <1>1, <1>2, ClearedFloor
<1>4. Range(waiting[l]) = {}
  BY <1>1 DEF Range
<1>5. BoostTypeOK'
  BY <1>1, <1>2, <1>3 DEF BoostTypeOK
<1>6. ~ Inheritance => \A x \in Procs : floor'[x] = 0
  BY <1>3 DEF BoostInv
<1>7. NoLeftoverBoost'
  <2> SUFFICES ASSUME NEW x \in Procs, floor'[x] > 0
               PROVE  \E m \in Locks : owner'[m] = x /\
                          \E w \in Range(waiting'[m]) : Own(w, bonus') >= floor'[x]
    BY DEF NoLeftoverBoost
  <2>1. floor'[x] = floor[x]
    BY <1>3
  <2>2. PICK m \in Locks : owner[m] = x /\ \E w \in Range(waiting[m]) : Own(w, bonus) >= floor[x]
    BY <2>1 DEF BoostInv, NoLeftoverBoost
  <2>3. m # l
    BY <2>2, <1>4
  <2>4. owner'[m] = x
    BY <2>2, <2>3, <1>1 DEF LockInv, LockTypeOK
  <2>5. QED
    BY <2>1, <2>2, <2>4, <1>1
<1>8. (OneLock => FloorInv)'
  BY <1>1, <1>4 DEF OneLock, FloorInv, OrderlyWaiters
<1>9. QED
  BY <1>5, <1>6, <1>7, <1>8 DEF BoostInv

(* The new owner takes over the waiters that are left, the old one loses    *)
(* its floor.                                                               *)
LEMMA HandoffBoost ==
    ASSUME LockInv, BoostInv, NEW p \in Procs, NEW l \in Locks, Handoff(p, l)
    PROVE  BoostInv'
<1> DEFINE h == owner'[l]
           q == waiting'[l]
           fl == ClearFloor(floor, p)
<1>1. /\ owner[l] = p /\ waiting[l] # <<>> /\ bonus' = bonus
      /\ owner' = [owner EXCEPT ![l] = Head(waiting[l])]
      /\ waiting' = [waiting EXCEPT ![l] = Tail(@)]
      /\ floor' = Recompute(fl, h, q)
  BY DEF Handoff, HandOver
<1>2. /\ waiting \in [Locks -> Seq(Procs)] /\ owner \in [Locks -> Procs \cup {None}]
      /\ bonus \in [Procs -> Nat] /\ floor \in [Procs -> Nat]
  BY DEF LockInv, LockTypeOK, BoostInv, BoostTypeOK
<1>3. /\ h \in Procs /\ q \in Seq(Procs)
      /\ \A m \in Locks : m # l => waiting'[m] = waiting[m] /\ owner'[m] = owner[m]
  <2>1. waiting[l] \in Seq(Procs) /\ waiting[l] # <<>>
    BY <1>1, <1>2
  <2>2. Head(waiting[l]) \in Procs /\ Tail(waiting[l]) \in Seq(Procs)
    BY <2>1
  <2>3. QED
    BY <2>2, <1>1, <1>2
<1>4. /\ fl \in [Procs -> Nat]
      /\ \A x \in Procs \ {p} : fl[x] = floor[x]
      /\ Inheritance => fl[p] = 0
      /\ ~ Inheritance => fl = floor
  BY <1>2, ClearedFloor
<1> HIDE DEF h, q, fl
<1>5. /\ floor' \in [Procs -> Nat]
      /\ \A x \in Procs \ {h} : floor'[x] = fl[x]
      /\ ~ Inheritance => floor' = fl
      /\ Inheritance => \A w \in Range(q) : floor'[h] >= Own(w, bonus)
      /\ Inheritance /\ floor'[h] > 0 => \E w \in Range(q) : Own(w, bonus) = floor'[h]
  <2>1. /\ Recompute(fl, h, q) \in [Procs -> Nat]
        /\ \A x \in Procs \ {h} : Recompute(fl, h, q)[x] = fl[x]
        /\ ~ Inheritance => Recompute(fl, h, q) = fl
        /\ Inheritance => \A w \in Range(q) : Recompute(fl, h, q)[h] >= Own(w, bonus)
        /\ Inheritance /\ Recompute(fl, h, q)[h] > 0 =>
               \E w \in Range(q) : Own(w, bonus) = Recompute(fl, h, q)[h]
    BY <1>2, <1>3, <1>4, RecomputeFloor
  <2>2. QED
    BY <1>1, <2>1
<1>6. BoostTypeOK'
  BY <1>1, <1>2, <1>5 DEF BoostTypeOK
<1>7. ~ Inheritance => \A x \in Procs : floor'[x] = 0
  BY <1>4, <1>5 DEF BoostInv
<1>8. NoLeftoverBoost'
  <2> SUFFICES ASSUME NEW x \in Procs, floor'[x] > 0
               PROVE  \E m \in Locks : owner'[m] = x /\
                          \E w \in Range(waiting'[m]) : Own(w, bonus') >= floor'[x]
    BY DEF NoLeftoverBoost
  <2>1. CASE x = h
    <3>1. Inheritance /\ floor'[h] > 0 /\ floor'[h] \in Nat
      BY <2>1, <1>3, <1>5, <1>7
    <3>2. PICK w \in Range(q) : Own(w, bonus) = floor'[h]
      BY <1>5, <3>1
    <3>3. Own(w, bonus') >= floor'[x]
      BY <1>1, <2>1, <3>1, <3>2
    <3>4. QED
      BY <1>1, <2>1, <3>3 DEF h, q
  <2>2. CASE x # h
    <3>1. x # p /\ floor'[x] = floor[x]
      BY <2>2, <1>4, <1>5, <1>7
    <3>2. PICK m \in Locks : owner[m] = x /\ \E w \in Range(waiting[m]) : Own(w, bonus) >= floor[x]
      BY <3>1 DEF BoostInv, NoLeftoverBoost
    <3>3. m # l
      BY <3>1, <3>2, <1>1
    <3>4. QED
      BY <3>1, <3>2, <3>3, <1>1, <1>3
  <2>3. QED
    BY <2>1, <2>2
<1>9. (OneLock => FloorInv)'
  BY <1>1, <1>5 DEF OneLock, FloorInv, OrderlyWaiters, h, q
<1>10. QED
  BY <1>6, <1>7, <1>8, <1>9 DEF BoostInv

-----------------------------------------------------------------------------
(* The whole invariant, and what every step does to it.                     *)
MutexInv == KernelInv /\ LockInv /\ BoostInv

LEMMA PortsKeepKernelInv ==
    ASSUME KernelInv, LockInv, NEW p \in Procs, NEW l \in Locks,
           Take(p, l) \/ Contend(p, l) \/ Free(p, l) \/ HandOver(p, l)
    PROVE  KernelInv'
<1>1. CASE HandOver(p, l)
  <2>1. waiting[l] \in Seq(Procs) /\ waiting[l] # <<>> /\ owner \in [Locks -> Procs \cup {None}]
    BY <1>1 DEF HandOver, LockInv, LockTypeOK
  <2>2. owner'[l] = Head(waiting[l]) /\ Head(waiting[l]) \in Procs /\ WakeProcess(owner'[l])
    BY <1>1, <2>1 DEF HandOver
  <2>3. \E q \in Procs : WakeProcess(q)
    BY <2>2
  <2>4. [KernelNext]_kernelVars
    BY <2>3 DEF KernelNext
  <2>5. QED
    BY <2>4, KernelNextInv
<1>2. CASE Contend(p, l)
  <2>1. [KernelNext]_kernelVars
    BY <1>2 DEF Contend, KernelNext
  <2>2. QED
    BY <2>1, KernelNextInv
<1>3. CASE Take(p, l) \/ Free(p, l)
  <2>1. [KernelNext]_kernelVars
    BY <1>3 DEF Take, Free
  <2>2. QED
    BY <2>1, KernelNextInv
<1>4. QED
  BY <1>1, <1>2, <1>3

(* The priorities of a tick, aged by one where a process is READY.          *)
LEMMA TickPriorities ==
    ASSUME BoostInv, MutexTick
    PROVE  /\ bonus' \in [Procs -> Nat] /\ \A p \in Procs : bonus'[p] >= bonus[p]
           /\ \A p \in Procs : state[p] # "READY" => bonus'[p] = bonus[p]
           /\ EffectivePriority(bonus', floor) \in [Procs -> Int]
           /\ \A p \in Procs : EffectivePriority(bonus', floor)[p] >= floor[p]
           /\ CpuStep(state, ready, EffectivePriority(bonus', floor), {})
           /\ UNCHANGED <<lockVars, floor>>
<1>1. bonus \in [Procs -> Nat] /\ floor \in [Procs -> Nat] /\ Base \in [Procs -> Int]
  BY MutexAssumption DEF BoostInv, BoostTypeOK
<1>2. /\ bonus' \in [Procs -> Nat] /\ \A p \in Procs : bonus'[p] >= bonus[p]
      /\ \A p \in Procs : state[p] # "READY" => bonus'[p] = bonus[p]
  BY <1>1 DEF MutexTick
<1>3. /\ CpuStep(state, ready, EffectivePriority(bonus', floor), {})
      /\ UNCHANGED <<lockVars, floor>>
  BY DEF MutexTick
<1>4. /\ EffectivePriority(bonus', floor) \in [Procs -> Int]
      /\ \A p \in Procs : EffectivePriority(bonus', floor)[p] >= floor[p]
  BY <1>1, <1>2 DEF EffectivePriority, Own
<1>5. QED
  BY <1>2, <1>3, <1>4

LEMMA TickKeepsMutexInv ==
    ASSUME MutexInv, MutexTick
    PROVE  MutexInv'
<1> DEFINE eff == EffectivePriority(bonus', floor)
<1>1. /\ KInv(state, ready, current) /\ SliceOK(current, slice)
      /\ current \in Procs \cup {None} /\ remaining \in [Procs -> Nat]
  BY KernelInvSplit DEF MutexInv
<1>2. /\ eff \in [Procs -> Int] /\ CpuStep(state, ready, eff, {})
      /\ UNCHANGED <<lockVars, floor>> /\ bonus' \in [Procs -> Nat]
      /\ \A p \in Procs : bonus'[p] >= bonus[p]
      /\ \A p \in Procs : state[p] # "READY" => bonus'[p] = bonus[p]
  BY TickPriorities DEF MutexInv
<1> HIDE DEF eff
<1>3. KernelInv'
  BY <1>1, <1>2, CpuStepKeepsInv
<1>4. KernelInv /\ LockInv /\ BoostInv
  BY DEF MutexInv
<1>5. LockInv'
  BY <1>2, <1>4, TickKeepsLockInv
<1>6. UNCHANGED <<waiting, floor>> /\ owner' = owner
  BY <1>2 DEF lockVars
<1>7. \A l \in Locks : \A w \in Range(waiting[l]) :
          bonus'[w] >= bonus[w] /\ (w \notin Latecomers => bonus'[w] = bonus[w])
  BY <1>2, <1>4, WaitersAreOffCpu DEF OffCpu
<1>8. BoostInv'
  BY <1>2, <1>4, <1>6, <1>7, QuietBoost
<1>9. QED
  BY <1>3, <1>5, <1>8 DEF MutexInv

LEMMA StepKeepsMutexInv ==
    ASSUME MutexInv, [MutexNext]_mutexVars
    PROVE  MutexInv'
<1>1. LockInv /\ BoostInv /\ KernelInv /\ ready \in Seq(Procs)
  BY DEF MutexInv, KernelInv, TypeOK
<1>2. bonus \in [Procs -> Nat] /\ \A p \in Procs : bonus[p] >= bonus[p]
  BY <1>1 DEF BoostInv, BoostTypeOK
<1>3. ASSUME UNCHANGED <<waiting, floor>>, bonus' = bonus,
             \A l \in Locks : waiting[l] # <<>> => owner'[l] = owner[l]
      PROVE  BoostInv'
  <2>1. \A l \in Locks : \A w \in Range(waiting[l]) :
            bonus'[w] >= bonus[w] /\ (w \notin Latecomers => bonus'[w] = bonus[w])
    BY <1>1, <1>2, <1>3, WaitersAreOffCpu
  <2>2. QED
    BY <1>1, <1>2, <1>3, <2>1, QuietBoost
<1>4. ASSUME UNCHANGED <<lockVars, bonus, floor>>, [KernelNext]_kernelVars, LockInv'
      PROVE  MutexInv'
  <2>1. BoostInv'
    BY <1>3, <1>4 DEF lockVars
  <2>2. KernelInv'
    BY <1>1, <1>4, KernelNextInv
  <2>3. QED
    BY <1>4, <2>1, <2>2 DEF MutexInv
<1>5. ASSUME NEW p \in Procs, NEW l \in Locks, Acquire(p, l) \/ Release(p, l) \/ BareRelease(p, l)
      PROVE  MutexInv'
  <2>1. LockInv'
    BY <1>1, <1>5, CallKeepsLockInv
  <2>2. KernelInv'
    <3>1. Take(p, l) \/ Contend(p, l) \/ Free(p, l) \/ HandOver(p, l)
      BY <1>5 DEF Acquire, AcquireFree, AcquireContended, Release, ReleaseFree, Handoff, BareRelease
    <3>2. QED
      BY <1>1, <3>1, PortsKeepKernelInv
  <2>3. BoostInv'
    <3>1. CASE AcquireContended(p, l)
      BY <1>1, <3>1, ContendBoost
    <3>2. CASE ReleaseFree(p, l)
      BY <1>1, <3>2, FreeBoost
    <3>3. CASE Handoff(p, l)
      BY <1>1, <3>3, HandoffBoost
    <3>4. CASE AcquireFree(p, l) \/ BareRelease(p, l)
      <4>1. owner[l] = None \/ waiting[l] = <<>>
        BY <3>4 DEF AcquireFree, Take, BareRelease, Free
      <4>2. waiting[l] = <<>>
        <5>1. waiting[l] \in Seq(Procs) /\ \A i \in DOMAIN waiting[l] : owner[l] # None
          BY <1>1 DEF LockInv, LockTypeOK, WaitersQueued
        <5>2. waiting[l] # <<>> => 1 \in DOMAIN waiting[l]
          BY <5>1
        <5>3. QED
          BY <4>1, <5>1, <5>2
      <4>3. /\ UNCHANGED <<waiting, floor>> /\ bonus' = bonus
            /\ \A m \in Locks : waiting[m] # <<>> => owner'[m] = owner[m]
        BY <3>4, <4>2, <1>1
           DEF AcquireFree, Take, BareRelease, Free, LockInv, LockTypeOK
      <4>4. QED
        BY <1>3, <4>3
    <3>5. QED
      BY <1>5, <3>1, <3>2, <3>3, <3>4 DEF Acquire, Release
  <2>4. QED
    BY <2>1, <2>2, <2>3 DEF MutexInv
<1>6. CASE MutexTick
  BY <1>6, TickKeepsMutexInv
<1>7. CASE (\E p \in Procs : MutexAdmit(p)) \/ (\E p \in Killable : MutexTerminate(p))
  <2>1. UNCHANGED <<lockVars, bonus, floor>> /\ [KernelNext]_kernelVars
    BY <1>7, MutexAssumption DEF MutexAdmit, MutexTerminate, KernelNext
  <2>2. LockInv'
    BY <1>1, <1>7, MutexAssumption, AdmitKeepsLockInv, TerminateKeepsLockInv
  <2>3. QED
    BY <2>1, <2>2, <1>4
<1>8. CASE UNCHANGED mutexVars
  <2>1. UNCHANGED <<lockVars, bonus, floor>> /\ UNCHANGED kernelVars
    BY <1>8 DEF mutexVars
  <2>2. LockInv'
    BY <1>1, <2>1, QuietLockInv DEF lockVars, kernelVars, LockInv, NewStaysAside, OffCpu
  <2>3. QED
    BY <2>1, <2>2, <1>4
<1>9. QED
  BY <1>5, <1>6, <1>7, <1>8 DEF MutexNext

LEMMA InitMutexInv ==
    ASSUME MutexInit
    PROVE  MutexInv
<1>1. KernelInv
  BY KernelInitInv DEF MutexInit
<1>2. LockInv
  BY InitLockInv
<1>3. /\ bonus = [p \in Procs |-> 0] /\ floor = [p \in Procs |-> 0]
      /\ waiting = [l \in Locks |-> <<>>]
  BY DEF MutexInit, LockInit
<1>4. \A l \in Locks : Range(waiting[l]) = {}
  BY <1>3 DEF Range
<1>5. BoostInv
  BY <1>3, <1>4 DEF BoostInv, BoostTypeOK, NoLeftoverBoost, FloorInv, OrderlyWaiters
<1>6. QED
  BY <1>1, <1>2, <1>5 DEF MutexInv

(* The kernel, the locks and the floors in one inductive invariant.         *)
THEOREM MutexInvariant == MutexSpec => []MutexInv
<1>1. MutexInit => MutexInv
  BY InitMutexInv
<1>2. MutexInv /\ [MutexNext]_mutexVars => MutexInv'
  BY StepKeepsMutexInv
<1>3. QED
  BY <1>1, <1>2, PTL DEF MutexSpec

(* Whoever waits for a lock waits once, in one place, and for a lock that   *)
(* is held by another and will be handed over; and it is off the CPU,       *)
(* unless a script admits it late: for any number of locks and processes,   *)
(* any policy, and any terminations, whether it was queued NEW or BLOCKED.  *)
THEOREM LockSafety == MutexSpec => []WaitersOffCpu
<1>1. MutexInv => WaitersOffCpu
  BY WaitersAreOffCpu DEF MutexInv, LockInv, WaitersOffCpu, OrderlyWaiters, OffCpu
<1>2. QED
  BY <1>1, MutexInvariant, PTL

(* No wake-up is lost: whoever is BLOCKED is in the queue of some lock.     *)
THEOREM NoLostWakeUp == MutexSpec => []BlockedMeansWaiting
<1>1. MutexInv => BlockedMeansWaiting
  BY DEF MutexInv, LockInv
<1>2. QED
  BY <1>1, MutexInvariant, PTL

(* Types: Recompute takes the maximum of a finite set with zero in it, so a *)
(* floor is a natural whatever the waiters.                                 *)
THEOREM MutexTypes == MutexSpec => []MutexTypeOK
<1>1. MutexInv => MutexTypeOK
  BY DEF MutexInv, LockInv, BoostInv, BoostTypeOK, MutexTypeOK
<1>2. QED
  BY <1>1, MutexInvariant, PTL

(* The locks use the ports of the kernel as it may be used.                 *)
THEOREM MutexKeepsKernel == MutexSpec => []KernelInv
<1>1. MutexInv => KernelInv
  BY DEF MutexInv
<1>2. QED
  BY <1>1, MutexInvariant, PTL

(* A boost does not outlive its reason, for any number of locks: releases,  *)
(* hand-overs and releases without the ports leave a floor to nobody but    *)
(* the owner of a lock somebody of that priority waits for.                 *)
THEOREM BoostsAreJustified == MutexSpec => []NoLeftoverBoost
<1>1. MutexInv => NoLeftoverBoost
  BY DEF MutexInv, BoostInv
<1>2. QED
  BY <1>1, MutexInvariant, PTL

(* With one lock the holder is as urgent as every process it holds up, but  *)
(* for those that age while they wait.                                      *)
THEOREM HolderIsAsUrgent == OneLock => (MutexSpec => []FloorCoversWaiters)
<1> SUFFICES ASSUME OneLock PROVE MutexSpec => []FloorCoversWaiters
  OBVIOUS
<1>1. MutexInv => FloorCoversWaiters
  <2> SUFFICES ASSUME MutexInv, Inheritance, NEW l \in Locks, NEW w \in OrderlyWaiters(l)
               PROVE  EffectivePriority(bonus, floor)[owner[l]] >= Own(w, bonus)
    BY DEF FloorCoversWaiters
  <2>1. /\ bonus \in [Procs -> Nat] /\ floor \in [Procs -> Nat] /\ Base \in [Procs -> Int]
        /\ owner[l] \in Procs \cup {None} /\ waiting[l] \in Seq(Procs)
    BY MutexAssumption DEF MutexInv, BoostInv, BoostTypeOK, LockInv, LockTypeOK
  <2>2. w \in Procs /\ owner[l] \in Procs
    <3>1. PICK i \in DOMAIN waiting[l] : waiting[l][i] = w
      BY DEF Range, OrderlyWaiters
    <3>2. owner[l] # None
      BY <3>1 DEF MutexInv, LockInv, WaitersQueued
    <3>3. QED
      BY <2>1, <3>1, <3>2
  <2>3. floor[owner[l]] >= Own(w, bonus)
    BY DEF MutexInv, BoostInv, FloorInv
  <2>4. QED
    BY <2>1, <2>2, <2>3 DEF EffectivePriority, Own
<1>2. QED
  BY <1>1, MutexInvariant, PTL

(* With one lock there is no priority inversion: the tick that finds the    *)
(* holder READY runs a process at least as urgent as the holder, the floor  *)
(* included, and so as urgent as every waiter.                              *)
THEOREM HolderIsNotOvertaken == OneLock => (MutexSpec => NoInversion)
<1> SUFFICES ASSUME OneLock PROVE MutexSpec => NoInversion
  OBVIOUS
<1> DEFINE Fair ==
        \A p \in Procs, l \in Locks :
            /\ Inheritance /\ Policy = "priority"
            /\ remaining'[p] # remaining[p]
            /\ owner[l] \notin {None, p} /\ state[owner[l]] = "READY"
            => \A w \in OrderlyWaiters(l) :
                   Own(w, bonus) <= EffectivePriority(bonus', floor)[p]
           CpuIsFree == Policy = "priority" => current = None
<1>1. ASSUME MutexInv, CpuIsFree, MutexNext
      PROVE  Fair /\ CpuIsFree'
  <2>1. CASE MutexTick
    <3> DEFINE eff == EffectivePriority(bonus', floor)
    <3>1. /\ eff \in [Procs -> Int] /\ CpuStep(state, ready, eff, {})
          /\ \A p \in Procs : eff[p] >= floor[p]
      BY <1>1, <2>1, TickPriorities DEF MutexInv
    <3>2. /\ remaining \in [Procs -> Nat] /\ slice \in Nat
          /\ bonus \in [Procs -> Nat] /\ floor \in [Procs -> Nat] /\ Base \in [Procs -> Int]
          /\ waiting \in [Locks -> Seq(Procs)] /\ owner \in [Locks -> Procs \cup {None}]
      BY <1>1, MutexAssumption, KernelAssumption
         DEF MutexInv, KernelInv, TypeOK, BoostInv, BoostTypeOK, LockInv, LockTypeOK
    <3>3. CpuIsFree'
      <4> HIDE DEF eff
      <4>1. Policy = "priority" => Policy # "rr"
        OBVIOUS
      <4>2. QED
        BY <3>1, <3>2, <4>1, NoSliceGoesOn
    <3>4. Fair
      <4> SUFFICES ASSUME NEW p \in Procs, NEW l \in Locks, Inheritance, Policy = "priority",
                          remaining'[p] # remaining[p], owner[l] \notin {None, p},
                          state[owner[l]] = "READY", NEW w \in OrderlyWaiters(l)
                   PROVE  Own(w, bonus) <= eff[p]
        BY Zenon
      <4>1. DispatchAndRun(state, ready, eff, {})
        BY <1>1, <3>1 DEF CpuStep
      <4>2. owner[l] \in Candidates(state, ready) \ {p}
        BY <1>1, <3>2 DEF MutexInv, KernelInv, ReadyNeverLost, Candidates, Runnable
      <4>3. Precedes(eff, p, owner[l])
        <5> HIDE DEF eff
        <5>1. QED
          BY <3>2, <4>1, <4>2, PriorityRunsFirst
      <4>4. eff[p] >= eff[owner[l]] /\ eff[owner[l]] >= floor[owner[l]] /\ owner[l] \in Procs
        <5>1. owner[l] \in Procs
          BY <3>2
        <5> HIDE DEF eff
        <5>2. eff[p] \in Int /\ eff[owner[l]] \in Int
          BY <3>1, <5>1
        <5>3. QED
          BY <3>1, <4>3, <5>1, <5>2 DEF Precedes
      <4>5. floor[owner[l]] >= Own(w, bonus)
        BY <1>1 DEF MutexInv, BoostInv, FloorInv
      <4>6. w \in Procs
        BY <3>2, RangeOfQueue DEF OrderlyWaiters
      <4>7. /\ Own(w, bonus) \in Int /\ eff[p] \in Int /\ eff[owner[l]] \in Int
            /\ floor[owner[l]] \in Int
        BY <3>1, <3>2, <4>4, <4>6 DEF Own
      <4> HIDE DEF eff
      <4>8. QED
        BY <4>4, <4>5, <4>7
    <3>5. QED
      BY <3>3, <3>4
  <2>2. CASE ~ MutexTick
    <3>1. remaining' = remaining
      BY <1>1, <2>2 DEF MutexNext, MutexAdmit, Admit, MutexTerminate, Terminate, Acquire,
            AcquireFree, Take, AcquireContended, Contend, BlockProcess, Release, ReleaseFree,
            Free, Handoff, HandOver, WakeProcess, BareRelease, kernelVars
    <3>2. current' = current \/ current' = None
      BY <1>1, <2>2 DEF MutexNext, MutexAdmit, Admit, MutexTerminate, Terminate, Acquire,
            AcquireFree, Take, AcquireContended, Contend, BlockProcess, Release, ReleaseFree,
            Free, Handoff, HandOver, WakeProcess, BareRelease, kernelVars
    <3>3. QED
      BY <1>1, <3>1, <3>2
  <2>3. QED
    BY <2>1, <2>2
<1>2. MutexInit => CpuIsFree
  BY DEF MutexInit, KernelInit
<1>3. UNCHANGED mutexVars /\ CpuIsFree => CpuIsFree'
  BY DEF mutexVars, kernelVars
<1>4. MutexInv /\ CpuIsFree /\ [MutexNext]_mutexVars => CpuIsFree' /\ [Fair]_mutexVars
  BY <1>1, <1>3
<1> HIDE DEF CpuIsFree
<1>5. QED
  BY <1>2, <1>4, MutexInvariant, PTL DEF MutexSpec, NoInversion

=============================================================================
