---------------------------- MODULE KernelProofs ----------------------------
(***************************************************************************)
(* The invariant of the kernel, for every set of processes, every policy,  *)
(* quantum and burst, and every order in which the environment calls the   *)
(* ports.                                                                  *)
(*                                                                         *)
(* The lemmas take the process states and the queue a handler starts from  *)
(* as parameters, as the operators of the kernel do, so that a component   *)
(* whose handlers call several ports in one step can cite them too.        *)
(***************************************************************************)
EXTENDS Kernel, TLAPS, FiniteSetTheorems, SequenceTheorems

(* KernelInv of process states st, queue rq and current process cur.        *)
KInv(st, rq, cur) ==
    /\ st \in [Procs -> ProcessState]
    /\ rq \in Seq(Procs)
    /\ \A i, j \in DOMAIN rq : rq[i] = rq[j] => i = j
    /\ \A p \in Procs : st[p] = "READY" => p \in Range(rq)
    /\ \A p \in Procs : st[p] = "RUNNING" => p = cur
    /\ cur # None => /\ cur \in Procs
                     /\ cur \notin Range(rq)
                     /\ st[cur] \in {"RUNNING", "TERMINATED"}

SliceOK(cur, sl) == sl \in 0..(Quantum - 1) /\ (cur = None <=> sl = 0)

(* The invariant of the kernel is KInv and SliceOK of its variables.        *)
LEMMA KernelInvSplit ==
    KernelInv <=> /\ KInv(state, ready, current)
                  /\ SliceOK(current, slice)
                  /\ current \in Procs \cup {None}
                  /\ remaining \in [Procs -> Nat]
BY DEF KernelInv, TypeOK, ReadyNeverLost, QueuedOnce, CpuIsExclusive, KInv, SliceOK

(* Membership in the range of a sequence, with the index.                   *)
LEMMA RangeOfQueue ==
    ASSUME NEW s \in Seq(Procs)
    PROVE  /\ DOMAIN s = 1..Len(s)
           /\ Len(s) \in Nat
           /\ \A i \in 1..Len(s) : s[i] \in Procs /\ s[i] \in Range(s)
           /\ \A x : x \in Range(s) <=> \E i \in 1..Len(s) : s[i] = x
           /\ Range(s) \subseteq Procs
<1>1. DOMAIN s = 1..Len(s)
  OBVIOUS
<1>2. Len(s) \in Nat
  OBVIOUS
<1>3. \A i \in 1..Len(s) : s[i] \in Procs
  OBVIOUS
<1>4. Range(s) = {s[i] : i \in 1..Len(s)}
  BY <1>1 DEF Range
<1>5. \A x : x \in Range(s) <=> \E i \in 1..Len(s) : s[i] = x
  BY <1>4
<1> QED BY <1>1, <1>2, <1>3, <1>4, <1>5

(* Enqueuing keeps the queue free of duplicates and adds at most p, which   *)
(* is in it afterwards when it is READY.                                    *)
LEMMA EnqueueKeepsQueue ==
    ASSUME NEW st \in [Procs -> ProcessState], NEW rq \in Seq(Procs), NEW p \in Procs,
           \A i, j \in DOMAIN rq : rq[i] = rq[j] => i = j
    PROVE  /\ Enqueue(st, rq, p) \in Seq(Procs)
           /\ \A i, j \in DOMAIN Enqueue(st, rq, p) :
                  Enqueue(st, rq, p)[i] = Enqueue(st, rq, p)[j] => i = j
           /\ Range(rq) \subseteq Range(Enqueue(st, rq, p))
           /\ Range(Enqueue(st, rq, p)) \subseteq Range(rq) \cup {p}
           /\ st[p] = "READY" => p \in Range(Enqueue(st, rq, p))
<1>1. CASE Enqueue(st, rq, p) = rq
  BY <1>1 DEF Enqueue
<1>2. CASE Enqueue(st, rq, p) = Append(rq, p) /\ p \notin Range(rq)
  <2>1. /\ Append(rq, p) \in Seq(Procs)
        /\ Len(Append(rq, p)) = Len(rq) + 1
        /\ \A i \in 1..Len(rq) : Append(rq, p)[i] = rq[i]
        /\ Append(rq, p)[Len(rq) + 1] = p
    OBVIOUS
  <2>2. \A i \in 1..Len(rq) : rq[i] # p
    BY <1>2, RangeOfQueue
  <2> DEFINE aq == Append(rq, p)
  <2> HIDE DEF aq
  <2>3. Len(rq) \in Nat /\ DOMAIN rq = 1..Len(rq) /\ DOMAIN aq = 1..(Len(rq) + 1)
    BY <2>1 DEF aq
  <2>4. \A x : x \in Range(aq) <=> x \in Range(rq) \/ x = p
    <3>1. 1..(Len(rq) + 1) = 1..Len(rq) \cup {Len(rq) + 1}
      BY <2>3
    <3>2. aq \in Seq(Procs) /\ Len(aq) = Len(rq) + 1
      BY <2>1 DEF aq
    <3>3. /\ \A x : x \in Range(aq) <=> \E i \in 1..(Len(rq) + 1) : aq[i] = x
          /\ \A x : x \in Range(rq) <=> \E i \in 1..Len(rq) : rq[i] = x
      BY <3>2, RangeOfQueue
    <3>4. aq[Len(rq) + 1] = p /\ \A i \in 1..Len(rq) : aq[i] = rq[i]
      BY <2>1 DEF aq
    <3> QED BY <3>1, <3>3, <3>4, Zenon
  <2>5. \A i, j \in DOMAIN aq : aq[i] = aq[j] => i = j
    BY <2>1, <2>2, <2>3 DEF aq
  <2> QED BY <1>2, <2>1, <2>4, <2>5 DEF aq
<1> QED BY <1>1, <1>2 DEF Enqueue

(* A wake-up, which changes the state and may enqueue, keeps KInv.          *)
LEMMA WakeKeepsKInv ==
    ASSUME NEW st, NEW rq, NEW cur, NEW p \in Procs, KInv(st, rq, cur)
    PROVE  KInv(WakeState(st, p), WakeQueue(st, rq, p), cur)
<1> DEFINE st2 == WakeState(st, p)
           rq2 == WakeQueue(st, rq, p)
<1>1. st2 \in [Procs -> ProcessState]
  BY DEF KInv, WakeState, ProcessState
<1>2. CASE st2[p] = "READY"
  <2>1. rq2 = Enqueue(st2, rq, p)
    BY <1>2 DEF WakeQueue
  <2>2. cur # p
    BY <1>2, KernelAssumption DEF KInv, WakeState, ProcessState
  <2>3. \A q \in Procs : st2[q] = IF q = p THEN "READY" ELSE st[q]
    BY <1>2 DEF WakeState, KInv
  <2>4. rq \in Seq(Procs) /\ \A i, j \in DOMAIN rq : rq[i] = rq[j] => i = j
    BY DEF KInv
  <2> HIDE DEF st2, rq2
  <2>5. /\ rq2 \in Seq(Procs)
        /\ \A i, j \in DOMAIN rq2 : rq2[i] = rq2[j] => i = j
        /\ Range(rq) \subseteq Range(rq2)
        /\ Range(rq2) \subseteq Range(rq) \cup {p}
        /\ p \in Range(rq2)
    BY <1>1, <1>2, <2>1, <2>4, EnqueueKeepsQueue
  <2>6. KInv(st2, rq2, cur)
    BY <1>1, <2>2, <2>3, <2>5 DEF KInv
  <2> QED BY <2>6 DEF st2, rq2
<1>3. CASE st2[p] # "READY"
  BY <1>1, <1>3 DEF KInv, WakeState, WakeQueue
<1> QED BY <1>2, <1>3

(* Blocking a process and taking the CPU from it keeps KInv.                *)
LEMMA BlockKeepsKInv ==
    ASSUME NEW st, NEW rq, NEW cur, NEW p \in Procs, KInv(st, rq, cur), st[p] # "TERMINATED"
    PROVE  KInv(BlockState(st, p), rq, IF cur = p THEN None ELSE cur)
<1>1. BlockState(st, p) \in [Procs -> ProcessState]
  BY DEF KInv, BlockState, ProcessState
<1>2. \A q \in Procs : BlockState(st, p)[q] \in {"READY", "RUNNING"} =>
          q # p /\ BlockState(st, p)[q] = st[q]
  BY DEF KInv, BlockState, ProcessState
<1>3. \A q \in Procs : q # p => BlockState(st, p)[q] = st[q]
  BY DEF KInv, BlockState
<1> QED BY <1>1, <1>2, <1>3 DEF KInv

(* Blocking every process that faults leaves fewer processes READY.         *)
LEMMA FaultKeepsKInv ==
    ASSUME NEW st, NEW rq, NEW cur, NEW S, KInv(st, rq, cur), cur # None => cur \in S
    PROVE  KInv(Faulted(st, S), rq, None)
BY DEF KInv, Faulted, ProcessState

(* What a dispatch is: a runnable process of the queue, out of the queue it *)
(* leaves, with every other runnable process in that queue or faulted.      *)
DispatchOK(st, rq, d) ==
    /\ d.pid \in Runnable(st) /\ d.pid \in Range(rq)
    /\ d.pid \notin d.faulted
    /\ d.rest \in Seq(Procs)
    /\ \A i, j \in DOMAIN d.rest : d.rest[i] = d.rest[j] => i = j
    /\ d.pid \notin Range(d.rest)
    /\ \A q \in Candidates(st, rq) : q = d.pid \/ q \in d.faulted \/ q \in Range(d.rest)

(* What the pick_next of the FIFO and round-robin schedulers returns.       *)
LEMMA FifoDispatch ==
    ASSUME NEW st, NEW rq \in Seq(Procs), NEW F,
           \A i, j \in DOMAIN rq : rq[i] = rq[j] => i = j,
           NEW d \in FifoPick(st, rq, F)
    PROVE  DispatchOK(st, rq, d)
<1>1. PICK i \in DOMAIN rq :
          /\ rq[i] \in Runnable(st) \ F
          /\ d = [pid |-> rq[i], faulted |-> {rq[j] : j \in 1..(i - 1)} \cap Runnable(st),
                  rest |-> SubSeq(rq, i + 1, Len(rq))]
  BY DEF FifoPick
<1>2. DOMAIN rq = 1..Len(rq) /\ Len(rq) \in Nat /\ i \in 1..Len(rq)
  BY <1>1
<1>3. /\ d.pid = rq[i] /\ d.faulted = {rq[j] : j \in 1..(i - 1)} \cap Runnable(st)
      /\ d.rest = SubSeq(rq, i + 1, Len(rq))
  BY <1>1
<1>4. /\ d.rest \in Seq(Procs)
      /\ Len(d.rest) = Len(rq) - i
      /\ \A k \in 1..(Len(rq) - i) : d.rest[k] = rq[i + k]
  BY <1>2, <1>3
<1>5. DOMAIN d.rest = 1..(Len(rq) - i)
  BY <1>4
<1>6. \A x : x \in Range(d.rest) <=> \E k \in 1..(Len(rq) - i) : d.rest[k] = x
  BY <1>4, RangeOfQueue
<1>7. \A k, l \in DOMAIN d.rest : d.rest[k] = d.rest[l] => k = l
  <2>1. SUFFICES ASSUME NEW k \in 1..(Len(rq) - i), NEW l \in 1..(Len(rq) - i),
                        d.rest[k] = d.rest[l]
                 PROVE  k = l
    BY <1>5
  <2>2. i + k \in DOMAIN rq /\ i + l \in DOMAIN rq /\ rq[i + k] = rq[i + l]
    BY <1>2, <1>4, <2>1
  <2>3. i + k = i + l
    BY <2>2
  <2> QED BY <1>2, <2>3
<1>8. d.pid \notin Range(d.rest)
  <2>1. SUFFICES ASSUME NEW k \in 1..(Len(rq) - i), d.rest[k] = d.pid
                 PROVE  FALSE
    BY <1>6
  <2>2. i + k \in DOMAIN rq /\ rq[i + k] = rq[i]
    BY <1>2, <1>3, <1>4, <2>1
  <2>3. i + k = i
    BY <1>2, <2>2
  <2> QED BY <1>2, <2>3
<1>9. ASSUME NEW q \in Candidates(st, rq), q # d.pid, q \notin d.faulted
      PROVE  q \in Range(d.rest)
  <2>1. PICK k \in 1..Len(rq) : rq[k] = q
    BY <1>9, RangeOfQueue DEF Candidates
  <2>2. q \in Runnable(st)
    BY <1>9 DEF Candidates
  <2>3. k > i
    BY <1>2, <1>3, <1>9, <2>1, <2>2
  <2>4. k - i \in 1..(Len(rq) - i) /\ rq[i + (k - i)] = q
    BY <1>2, <2>1, <2>3
  <2> QED BY <1>4, <1>6, <2>4
<1>10. d.pid \notin d.faulted
  BY <1>2, <1>3
<1>11. d.pid \in Runnable(st) /\ d.pid \in Range(rq)
  BY <1>1, <1>2, <1>3, RangeOfQueue
<1> QED BY <1>4, <1>7, <1>8, <1>9, <1>10, <1>11 DEF DispatchOK

(* A sorted staging list holds every process of the set once.               *)
LEMMA SortedFacts ==
    ASSUME NEW S \in SUBSET Procs, NEW eff \in [Procs -> Int], NEW s \in Sorted(S, eff)
    PROVE  /\ s \in Seq(Procs)
           /\ Range(s) = S
           /\ \A i, j \in DOMAIN s : s[i] = s[j] => i = j
<1>1. IsFiniteSet(S) /\ Cardinality(S) \in Nat
  BY KernelAssumption, FS_Subset, FS_CardinalityType
<1>2. s \in [1..Cardinality(S) -> S] /\ Range(s) = S
  BY DEF Sorted
<1>3. \A i, j \in DOMAIN s : i < j => Precedes(eff, s[i], s[j])
  BY DEF Sorted
<1>4. s \in Seq(Procs)
  BY <1>1, <1>2
<1>5. \A p \in Procs : ~ Precedes(eff, p, p)
  BY KernelAssumption DEF Precedes
<1>6. DOMAIN s \subseteq Nat /\ \A i \in DOMAIN s : s[i] \in Procs
  BY <1>1, <1>2
<1>7. \A i, j \in DOMAIN s : s[i] = s[j] => i = j
  <2>1. SUFFICES ASSUME NEW i \in DOMAIN s, NEW j \in DOMAIN s, s[i] = s[j], i < j
                 PROVE  FALSE
    BY <1>6
  <2>2. Precedes(eff, s[i], s[j]) /\ s[i] \in Procs
    BY <1>3, <1>6, <2>1
  <2> QED BY <1>5, <2>1, <2>2
<1> QED BY <1>2, <1>4, <1>7

(* What the pick_next of the priority scheduler returns.                    *)
LEMMA PriorityDispatch ==
    ASSUME NEW st, NEW rq \in Seq(Procs), NEW F, NEW eff \in [Procs -> Int],
           NEW d \in PriorityPick(st, rq, eff, F)
    PROVE  DispatchOK(st, rq, d)
<1> DEFINE C == Candidates(st, rq)
           Earlier(p) == {q \in C \cap F : Precedes(eff, q, p)}
<1>1. PICK p \in C \ F : \E s \in Sorted(C \ (Earlier(p) \cup {p}), eff) :
          d = [pid |-> p, faulted |-> Earlier(p), rest |-> s]
  BY DEF PriorityPick
<1>2. PICK s \in Sorted(C \ (Earlier(p) \cup {p}), eff) :
          d = [pid |-> p, faulted |-> Earlier(p), rest |-> s]
  BY <1>1
<1>3. C \subseteq Procs /\ C \subseteq Runnable(st) /\ C \subseteq Range(rq)
  BY RangeOfQueue DEF Candidates, Runnable
<1>4. /\ s \in Seq(Procs)
      /\ Range(s) = C \ (Earlier(p) \cup {p})
      /\ \A i, j \in DOMAIN s : s[i] = s[j] => i = j
  <2> DEFINE S == C \ (Earlier(p) \cup {p})
  <2>1. S \in SUBSET Procs /\ s \in Sorted(S, eff)
    BY <1>2, <1>3
  <2> HIDE DEF S
  <2>2. /\ s \in Seq(Procs)
        /\ Range(s) = S
        /\ \A i, j \in DOMAIN s : s[i] = s[j] => i = j
    BY <2>1, SortedFacts
  <2> QED BY <2>2 DEF S
<1>5. d.pid = p /\ d.faulted = Earlier(p) /\ d.rest = s
  BY <1>2
<1>6. p \notin Earlier(p)
  BY <1>1
<1> HIDE DEF Earlier
<1> QED BY <1>1, <1>3, <1>4, <1>5, <1>6 DEF DispatchOK

(* Under every policy a dispatch loses nobody and picks one runnable pid.   *)
LEMMA DispatchesOK ==
    ASSUME NEW st, NEW rq \in Seq(Procs), NEW F, NEW eff \in [Procs -> Int],
           \A i, j \in DOMAIN rq : rq[i] = rq[j] => i = j,
           NEW d \in Dispatches(st, rq, eff, F)
    PROVE  DispatchOK(st, rq, d)
BY FifoDispatch, PriorityDispatch DEF Dispatches

(* One tick of p re-establishes the invariant when all but p is in order:   *)
(* p is on no queue, and p is the only process that can be RUNNING.         *)
LEMMA ExecuteKeepsInv ==
    ASSUME NEW st \in [Procs -> ProcessState], NEW rq \in Seq(Procs),
           NEW p \in Procs, NEW used \in 0..(Quantum - 1),
           \A i, j \in DOMAIN rq : rq[i] = rq[j] => i = j,
           p \notin Range(rq),
           \A q \in Procs : st[q] = "READY" /\ q # p => q \in Range(rq),
           \A q \in Procs : st[q] = "RUNNING" => q = p,
           used > 0 => st[p] \in {"RUNNING", "TERMINATED"},
           remaining \in [Procs -> Nat],
           Execute(p, used, st, rq)
    PROVE  KernelInv'
<1> DEFINE ran == IF used = 0 THEN [st EXCEPT ![p] = "RUNNING"] ELSE st
           expired == [ran EXCEPT ![p] = "READY"]
           left == IF remaining[p] > 0 THEN remaining[p] - 1 ELSE 0
<1>1. /\ ran \in [Procs -> ProcessState] /\ expired \in [Procs -> ProcessState]
      /\ ran[p] \in {"RUNNING", "TERMINATED"} /\ expired[p] = "READY"
      /\ \A q \in Procs : q # p => ran[q] = st[q] /\ expired[q] = st[q]
  BY DEF ProcessState
<1>2. p # None /\ None \notin Procs /\ Quantum \in Nat \ {0} /\ EffectiveQuantum \in 1..Quantum
  BY KernelAssumption DEF EffectiveQuantum
<1>3. remaining' \in [Procs -> Nat]
  BY DEF Execute
<1>4. CASE state' = [ran EXCEPT ![p] = "TERMINATED"] /\ ready' = rq /\ current' = None /\ slice' = 0
  <2>1. /\ state' \in [Procs -> ProcessState] /\ state'[p] = "TERMINATED"
        /\ \A q \in Procs : q # p => state'[q] = st[q]
    BY <1>1, <1>4 DEF ProcessState
  <2>2. KInv(state', ready', current')
    BY <1>4, <2>1 DEF KInv
  <2>3. SliceOK(current', slice') /\ current' \in Procs \cup {None}
    BY <1>2, <1>4 DEF SliceOK
  <2> QED BY <1>3, <2>2, <2>3 DEF KernelInv, TypeOK, ReadyNeverLost, QueuedOnce,
            CpuIsExclusive, KInv, SliceOK
<1>5. CASE state' = expired /\ ready' = Enqueue(expired, rq, p) /\ current' = None /\ slice' = 0
  <2>1. /\ ready' \in Seq(Procs)
        /\ \A i, j \in DOMAIN ready' : ready'[i] = ready'[j] => i = j
        /\ Range(rq) \subseteq Range(ready')
        /\ p \in Range(ready')
    <3> HIDE DEF expired
    <3> QED BY <1>1, <1>5, EnqueueKeepsQueue
  <2> HIDE DEF expired
  <2>2. KInv(state', ready', current')
    BY <1>1, <1>5, <2>1 DEF KInv
  <2>3. SliceOK(current', slice') /\ current' \in Procs \cup {None}
    BY <1>2, <1>5 DEF SliceOK
  <2> QED BY <1>3, <2>2, <2>3 DEF KernelInv, TypeOK, ReadyNeverLost, QueuedOnce,
            CpuIsExclusive, KInv, SliceOK
<1>6. CASE /\ used + 1 < EffectiveQuantum
           /\ state' = ran /\ ready' = rq /\ current' = p /\ slice' = used + 1
  <2> HIDE DEF ran
  <2>1. KInv(state', ready', current')
    BY <1>1, <1>6 DEF KInv
  <2>2. SliceOK(current', slice') /\ current' \in Procs \cup {None}
    BY <1>2, <1>6 DEF SliceOK
  <2> QED BY <1>3, <2>1, <2>2 DEF KernelInv, TypeOK, ReadyNeverLost, QueuedOnce,
            CpuIsExclusive, KInv, SliceOK
<1> QED BY <1>4, <1>5, <1>6 DEF Execute

(* Dispatching and running for a tick, or idling, keeps the invariant.      *)
LEMMA DispatchKeepsInv ==
    ASSUME NEW st, NEW rq, NEW F, NEW eff \in [Procs -> Int],
           KInv(st, rq, None),
           remaining \in [Procs -> Nat],
           DispatchAndRun(st, rq, eff, F)
    PROVE  KernelInv'
<1>1. /\ st \in [Procs -> ProcessState] /\ rq \in Seq(Procs) /\ None \notin Procs
      /\ \A i, j \in DOMAIN rq : rq[i] = rq[j] => i = j
      /\ \A p \in Procs : st[p] = "READY" => p \in Range(rq)
      /\ \A p \in Procs : st[p] # "RUNNING"
  BY KernelAssumption DEF KInv
<1>2. ASSUME NEW d \in Dispatches(st, rq, eff, F),
             Execute(d.pid, 0, Faulted(st, d.faulted), d.rest)
      PROVE  KernelInv'
  <2> DEFINE ft == Faulted(st, d.faulted)
  <2>1. DispatchOK(st, rq, d)
    BY <1>1, DispatchesOK
  <2>2. ft \in [Procs -> ProcessState]
    BY <1>1 DEF Faulted, ProcessState
  <2>3. \A q \in Procs : ft[q] # "RUNNING" /\ (ft[q] = "READY" => st[q] = "READY" /\ q \notin d.faulted)
    BY <1>1 DEF Faulted
  <2>4. \A q \in Procs : ft[q] = "READY" /\ q # d.pid => q \in Range(d.rest)
    BY <1>1, <2>1, <2>3 DEF DispatchOK, Candidates, Runnable
  <2>5. /\ d.pid \in Procs /\ d.rest \in Seq(Procs) /\ d.pid \notin Range(d.rest)
        /\ \A i, j \in DOMAIN d.rest : d.rest[i] = d.rest[j] => i = j
    BY <2>1 DEF DispatchOK, Runnable
  <2>6. 0 \in 0..(Quantum - 1)
    BY KernelAssumption
  <2> HIDE DEF ft
  <2> DEFINE p == d.pid
             left == d.rest
             used == 0
  <2>7. /\ Execute(p, used, ft, left)
        /\ used \in 0..(Quantum - 1) /\ ~ (used > 0)
        /\ \A q \in Procs : ft[q] = "RUNNING" => q = p
        /\ p \in Procs /\ left \in Seq(Procs) /\ p \notin Range(left)
        /\ \A i, j \in DOMAIN left : left[i] = left[j] => i = j
        /\ \A q \in Procs : ft[q] = "READY" /\ q # p => q \in Range(left)
    BY <1>2, <2>3, <2>4, <2>5, <2>6 DEF ft
  <2> HIDE DEF p, left, used
  <2> QED BY <2>2, <2>7, ExecuteKeepsInv
<1>3. CASE Idle(st, rq, F)
  <2>1. /\ state' = Faulted(st, Candidates(st, rq)) /\ ready' = <<>> /\ current' = None
        /\ slice' = 0 /\ remaining' \in [Procs -> Nat]
    BY <1>3 DEF Idle
  <2>2. /\ state' \in [Procs -> ProcessState]
        /\ \A p \in Procs : state'[p] \notin {"READY", "RUNNING"}
    BY <1>1, <2>1 DEF Faulted, Candidates, Runnable, ProcessState
  <2>3. KInv(state', ready', current')
    BY <2>1, <2>2 DEF KInv
  <2>4. SliceOK(current', slice')
    BY <2>1, KernelAssumption DEF SliceOK
  <2> QED BY <2>1, <2>3, <2>4 DEF KernelInv, TypeOK, ReadyNeverLost, QueuedOnce,
            CpuIsExclusive, KInv, SliceOK
<1> QED BY <1>2, <1>3 DEF DispatchAndRun

(* A tick, from the states st and the queue rq its timers have left.        *)
LEMMA CpuStepKeepsInv ==
    ASSUME NEW st, NEW rq, NEW F, NEW eff \in [Procs -> Int],
           KInv(st, rq, current), SliceOK(current, slice), current \in Procs \cup {None},
           remaining \in [Procs -> Nat],
           CpuStep(st, rq, eff, F)
    PROVE  KernelInv'
<1>1. CASE current # None /\ Execute(current, slice, st, rq)
  <2>1. /\ st \in [Procs -> ProcessState] /\ rq \in Seq(Procs) /\ current \in Procs
        /\ \A i, j \in DOMAIN rq : rq[i] = rq[j] => i = j
        /\ current \notin Range(rq)
        /\ \A q \in Procs : st[q] = "READY" => q \in Range(rq)
        /\ \A q \in Procs : st[q] = "RUNNING" => q = current
        /\ st[current] \in {"RUNNING", "TERMINATED"}
        /\ slice \in 0..(Quantum - 1)
    BY <1>1 DEF KInv, SliceOK
  <2> QED BY <1>1, <2>1, ExecuteKeepsInv
<1>2. CASE DispatchAndRun(Faulted(st, {current}), rq, eff, F) /\ current # None
  <2>1. KInv(Faulted(st, {current}), rq, None)
    BY FaultKeepsKInv
  <2> QED BY <1>2, <2>1, DispatchKeepsInv
<1>3. CASE current = None /\ DispatchAndRun(st, rq, eff, F)
  BY <1>3, DispatchKeepsInv
<1> QED BY <1>1, <1>2, <1>3 DEF CpuStep

-----------------------------------------------------------------------------
(* A simulation starts with an empty queue and a free CPU.                  *)
LEMMA KernelInitInv == KernelInit => KernelInv
<1> SUFFICES ASSUME KernelInit PROVE KernelInv
  OBVIOUS
<1>1. KInv(state, ready, current)
  BY DEF KernelInit, KInv, ProcessState
<1>2. SliceOK(current, slice) /\ current \in Procs \cup {None} /\ remaining \in [Procs -> Nat]
  BY KernelAssumption DEF KernelInit, SliceOK
<1> QED BY <1>1, <1>2, KernelInvSplit

(* Every call of a port and every tick keeps the invariant.                 *)
LEMMA KernelNextInv == KernelInv /\ [KernelNext]_kernelVars => KernelInv'
<1> SUFFICES ASSUME KernelInv, [KernelNext]_kernelVars PROVE KernelInv'
  OBVIOUS
<1> USE KernelInvSplit
<1>0. /\ KInv(state, ready, current) /\ SliceOK(current, slice)
      /\ current \in Procs \cup {None} /\ remaining \in [Procs -> Nat] /\ None \notin Procs
  BY KernelAssumption
<1>1. ASSUME NEW p \in Procs, Admit(p) PROVE KernelInv'
  <2>1. /\ state' \in [Procs -> ProcessState] /\ state'[p] = "READY" /\ p # current
        /\ \A q \in Procs : q # p => state'[q] = state[q]
    BY <1>0, <1>1 DEF Admit, KInv, ProcessState
  <2>2. /\ ready' \in Seq(Procs)
        /\ \A i, j \in DOMAIN ready' : ready'[i] = ready'[j] => i = j
        /\ Range(ready) \subseteq Range(ready')
        /\ Range(ready') \subseteq Range(ready) \cup {p}
        /\ p \in Range(ready')
    <3>1. ready \in Seq(Procs) /\ \A i, j \in DOMAIN ready : ready[i] = ready[j] => i = j
      BY <1>0 DEF KInv
    <3>2. ready' = Enqueue(state', ready, p)
      BY <1>1 DEF Admit
    <3> QED BY <2>1, <3>1, <3>2, EnqueueKeepsQueue
  <2>3. KInv(state', ready', current')
    BY <1>0, <1>1, <2>1, <2>2 DEF Admit, KInv
  <2> QED BY <1>0, <1>1, <2>3 DEF Admit, KernelInv, TypeOK, ReadyNeverLost, QueuedOnce,
            CpuIsExclusive, KInv, SliceOK
<1>2. ASSUME NEW p \in Procs, BlockProcess(p) PROVE KernelInv'
  <2>1. CASE state[p] = "TERMINATED"
    <3>1. state' = state /\ UNCHANGED <<ready, current, slice, remaining>>
      BY <1>2, <2>1 DEF BlockProcess, BlockState
    <3> QED BY <3>1 DEF KernelInv, TypeOK, ReadyNeverLost, QueuedOnce, CpuIsExclusive
  <2>2. CASE state[p] # "TERMINATED"
    <3>1. /\ state' = BlockState(state, p) /\ ready' = ready /\ remaining' = remaining
          /\ current' = IF current = p THEN None ELSE current
          /\ slice' = IF current = p THEN 0 ELSE slice
      BY <1>2, <2>2 DEF BlockProcess
    <3>2. KInv(state', ready', current')
      BY <1>0, <2>2, <3>1, BlockKeepsKInv
    <3>3. SliceOK(current', slice') /\ current' \in Procs \cup {None}
      BY <1>0, <3>1, KernelAssumption DEF SliceOK
    <3> QED BY <1>0, <3>1, <3>2, <3>3 DEF KernelInv, TypeOK, ReadyNeverLost, QueuedOnce,
              CpuIsExclusive, KInv, SliceOK
  <2> QED BY <2>1, <2>2
<1>3. ASSUME NEW p \in Procs, WakeProcess(p) PROVE KernelInv'
  <2>1. /\ state' = WakeState(state, p) /\ ready' = WakeQueue(state, ready, p)
        /\ UNCHANGED <<current, slice, remaining>>
    BY <1>3 DEF WakeProcess
  <2>2. KInv(state', ready', current')
    BY <1>0, <2>1, WakeKeepsKInv
  <2> QED BY <1>0, <2>1, <2>2 DEF KernelInv, TypeOK, ReadyNeverLost, QueuedOnce,
            CpuIsExclusive, KInv, SliceOK
<1>4. ASSUME NEW p \in Procs, Terminate(p) PROVE KernelInv'
  <2>1. KInv(state', ready', current')
    BY <1>0, <1>4 DEF Terminate, KInv, ProcessState
  <2> QED BY <1>0, <1>4, <2>1 DEF Terminate, KernelInv, TypeOK, ReadyNeverLost, QueuedOnce,
            CpuIsExclusive, KInv, SliceOK
<1>5. CASE Tick
  <2>1. PICK eff \in [Procs -> Weights], F \in IF PageFaults THEN SUBSET Procs ELSE {{}} :
            CpuStep(state, ready, eff, F)
    BY <1>5 DEF Tick
  <2>2. eff \in [Procs -> Int]
    BY KernelAssumption
  <2> QED BY <1>0, <2>1, <2>2, CpuStepKeepsInv
<1>6. CASE UNCHANGED kernelVars
  BY <1>6 DEF kernelVars, KernelInv, TypeOK, ReadyNeverLost, QueuedOnce, CpuIsExclusive
<1> QED BY <1>1, <1>2, <1>3, <1>4, <1>5, <1>6 DEF KernelNext

(* The types hold, no READY process is off the queue, no pid is queued      *)
(* twice and the CPU is given to one process at a time.                     *)
THEOREM KernelInvariant == KernelSpec => []KernelInv
<1>1. KernelInit => KernelInv
  BY KernelInitInv
<1>2. KernelInv /\ [KernelNext]_kernelVars => KernelInv'
  BY KernelNextInv
<1> QED BY <1>1, <1>2, PTL DEF KernelSpec

(* The types hold, and a slice that reaches the quantum has been given up.  *)
THEOREM KernelTypes == KernelSpec => []TypeOK
<1>1. KernelInv => TypeOK
  BY DEF KernelInv
<1> QED BY <1>1, KernelInvariant, PTL

(* The ready queue is the only way back to the CPU, and no READY process is *)
(* off it.                                                                  *)
THEOREM NoReadyProcessIsLost == KernelSpec => []ReadyNeverLost
<1>1. KernelInv => ReadyNeverLost
  BY DEF KernelInv
<1> QED BY <1>1, KernelInvariant, PTL

(* No wake-up, admission or expired quantum queues a pid a second time.     *)
THEOREM NobodyIsQueuedTwice == KernelSpec => []QueuedOnce
<1>1. KernelInv => QueuedOnce
  BY DEF KernelInv
<1> QED BY <1>1, KernelInvariant, PTL

(* Only the current process is RUNNING, and it is in no queue.              *)
THEOREM OneProcessHasTheCpu == KernelSpec => []CpuIsExclusive
<1>1. KernelInv => CpuIsExclusive
  BY DEF KernelInv
<1> QED BY <1>1, KernelInvariant, PTL

-----------------------------------------------------------------------------
(* A process off the CPU: no tick dispatches it, whatever the queue holds.  *)
Parked(st, cur, p) == st[p] \in {"BLOCKED", "TERMINATED"} /\ p # cur

(* Blocking p parks it and nobody else.                                     *)
LEMMA BlockParks ==
    ASSUME NEW p \in Procs, state \in [Procs -> ProcessState],
           state[p] \in {"READY", "RUNNING"}, BlockProcess(p)
    PROVE  /\ state' = [state EXCEPT ![p] = "BLOCKED"]
           /\ Parked(state', current', p)
           /\ \A q \in Procs : Parked(state, current, q) => Parked(state', current', q) /\ q # p
<1>1. state' = [state EXCEPT ![p] = "BLOCKED"]
  BY DEF BlockProcess, BlockState
<1>2. IF current = p THEN current' = None ELSE current' = current
  BY DEF BlockProcess
<1>3. None \notin Procs
  BY KernelAssumption
<1>4. QED
  BY <1>1, <1>2, <1>3 DEF Parked

LEMMA ExecuteKeepsParked ==
    ASSUME NEW st \in [Procs -> ProcessState], NEW rq, NEW used, NEW p \in Procs,
           Execute(p, used, st, rq)
    PROVE  /\ state' \in [Procs -> ProcessState]
           /\ state'[p] # "BLOCKED" \/ st[p] = "BLOCKED"
           /\ \A q \in Procs : q # p => state'[q] = st[q]
           /\ current' \in {p, None}
<1> DEFINE ran == IF used = 0 THEN [st EXCEPT ![p] = "RUNNING"] ELSE st
<1>1. /\ ran \in [Procs -> ProcessState]
      /\ ran[p] # "BLOCKED" \/ st[p] = "BLOCKED"
      /\ \A q \in Procs : q # p => ran[q] = st[q]
  BY DEF ProcessState
<1>2. /\ \/ state' = [ran EXCEPT ![p] = "TERMINATED"]
         \/ state' = [ran EXCEPT ![p] = "READY"]
         \/ state' = ran
      /\ current' \in {p, None}
  BY DEF Execute
<1> HIDE DEF ran
<1>3. QED
  BY <1>1, <1>2 DEF ProcessState

(* A dispatch is of a runnable process, and blocks runnable processes of F. *)
LEMMA DispatchedIsRunnable ==
    ASSUME NEW st, NEW rq, NEW eff, NEW F, NEW d \in Dispatches(st, rq, eff, F)
    PROVE  d.pid \in Runnable(st) /\ d.faulted \subseteq F \cap Runnable(st)
<1>1. CASE Policy = "priority"
  <2>1. d \in PriorityPick(st, rq, eff, F)
    BY <1>1 DEF Dispatches
  <2> DEFINE C == Candidates(st, rq)
             Earlier(p) == {q \in C \cap F : Precedes(eff, q, p)}
  <2>2. PICK p \in C : d \in {[pid |-> p, faulted |-> Earlier(p), rest |-> r] :
                                 r \in Sorted(C \ (Earlier(p) \cup {p}), eff)}
    BY <2>1 DEF PriorityPick
  <2>3. d.pid = p /\ d.faulted = Earlier(p)
    <3> HIDE DEF C, Earlier
    <3>1. QED
      BY <2>2
  <2>4. Earlier(p) \subseteq F \cap C /\ C \subseteq Runnable(st)
    BY DEF Candidates
  <2>5. QED
    BY <2>3, <2>4
<1>2. CASE Policy # "priority"
  <2>1. d \in FifoPick(st, rq, F)
    BY <1>2 DEF Dispatches
  <2>2. PICK i \in DOMAIN rq :
             /\ rq[i] \in Runnable(st) \ F /\ \A j \in 1..(i - 1) : rq[j] \notin Runnable(st) \ F
             /\ d = [pid |-> rq[i], faulted |-> {rq[j] : j \in 1..(i - 1)} \cap Runnable(st),
                     rest |-> SubSeq(rq, i + 1, Len(rq))]
    BY <2>1 DEF FifoPick
  <2>3. d.pid = rq[i] /\ d.faulted = {rq[j] : j \in 1..(i - 1)} \cap Runnable(st)
    BY <2>2
  <2>4. QED
    BY <2>2, <2>3
<1>3. QED
  BY <1>1, <1>2

LEMMA DispatchKeepsParked ==
    ASSUME NEW st \in [Procs -> ProcessState], NEW rq, NEW eff, NEW F,
           DispatchAndRun(st, rq, eff, F)
    PROVE  /\ state' \in [Procs -> ProcessState] /\ current' \in Procs \cup {None}
           /\ \A p \in Procs : st[p] \in {"BLOCKED", "TERMINATED"} =>
                  state'[p] = st[p] /\ p # current'
           /\ \A p \in Procs : state'[p] = "BLOCKED" => st[p] = "BLOCKED" \/ p \in F
<1>1. None \notin Procs
  BY KernelAssumption
<1>2. \A S : S \subseteq F \cap Runnable(st) =>
          /\ Faulted(st, S) \in [Procs -> ProcessState]
          /\ \A p \in Procs : st[p] \in {"BLOCKED", "TERMINATED"} => Faulted(st, S)[p] = st[p]
          /\ \A p \in Procs : Faulted(st, S)[p] = "BLOCKED" => st[p] = "BLOCKED" \/ p \in F
          /\ \A p \in Procs : p \notin S => Faulted(st, S)[p] = st[p]
  BY DEF Faulted, Runnable, ProcessState
<1>3. ASSUME NEW d \in Dispatches(st, rq, eff, F),
             Execute(d.pid, 0, Faulted(st, d.faulted), d.rest)
      PROVE  /\ state' \in [Procs -> ProcessState] /\ current' \in Procs \cup {None}
             /\ \A p \in Procs : st[p] \in {"BLOCKED", "TERMINATED"} =>
                    state'[p] = st[p] /\ p # current'
             /\ \A p \in Procs : state'[p] = "BLOCKED" => st[p] = "BLOCKED" \/ p \in F
  <2> DEFINE x == d.pid
             st2 == Faulted(st, d.faulted)
  <2>1. /\ x \in Procs /\ st[x] \notin {"BLOCKED", "TERMINATED"}
        /\ d.faulted \subseteq F \cap Runnable(st)
    BY DispatchedIsRunnable DEF Runnable
  <2>2. /\ st2 \in [Procs -> ProcessState]
        /\ \A p \in Procs : st[p] \in {"BLOCKED", "TERMINATED"} => st2[p] = st[p]
        /\ \A p \in Procs : st2[p] = "BLOCKED" => st[p] = "BLOCKED" \/ p \in F
    BY <1>2, <2>1
  <2>3. Execute(x, 0, st2, d.rest)
    BY <1>3
  <2> HIDE DEF x, st2
  <2>4. /\ state' \in [Procs -> ProcessState]
        /\ state'[x] # "BLOCKED" \/ st2[x] = "BLOCKED"
        /\ \A q \in Procs : q # x => state'[q] = st2[q]
        /\ current' \in {x, None}
    BY <2>1, <2>2, <2>3, ExecuteKeepsParked
  <2>5. QED
    BY <1>1, <2>1, <2>2, <2>4
<1>4. CASE Idle(st, rq, F)
  <2>1. Candidates(st, rq) \subseteq F \cap Runnable(st)
    BY <1>4 DEF Idle, Candidates
  <2>2. state' = Faulted(st, Candidates(st, rq)) /\ current' = None
    BY <1>4 DEF Idle
  <2>3. QED
    BY <1>1, <1>2, <2>1, <2>2
<1>5. QED
  BY <1>3, <1>4 DEF DispatchAndRun

(* A tick leaves every parked process alone and blocks those that fault.    *)
LEMMA TickKeepsParked ==
    ASSUME NEW st \in [Procs -> ProcessState], NEW rq, NEW eff, NEW F,
           CpuStep(st, rq, eff, F), current \in Procs \cup {None}
    PROVE  /\ state' \in [Procs -> ProcessState] /\ current' \in Procs \cup {None}
           /\ \A p \in Procs : Parked(st, current, p) =>
                  Parked(state', current', p) /\ state'[p] = st[p]
           /\ \A p \in Procs : state'[p] = "BLOCKED" => st[p] = "BLOCKED" \/ p \in F
<1>1. None \notin Procs
  BY KernelAssumption
<1>2. CASE current # None /\ Execute(current, slice, st, rq)
  BY <1>1, <1>2, ExecuteKeepsParked DEF Parked
<1>3. CASE current # None /\ current \in F /\ DispatchAndRun(Faulted(st, {current}), rq, eff, F)
  <2> DEFINE st2 == Faulted(st, {current})
  <2>1. /\ st2 \in [Procs -> ProcessState]
        /\ \A p \in Procs : p # current => st2[p] = st[p]
        /\ \A p \in Procs : st2[p] = "BLOCKED" => st[p] = "BLOCKED" \/ p \in F
    BY <1>3 DEF Faulted, ProcessState
  <2>2. DispatchAndRun(st2, rq, eff, F)
    BY <1>3
  <2> HIDE DEF st2
  <2>3. QED
    BY <2>1, <2>2, DispatchKeepsParked DEF Parked
<1>4. CASE current = None /\ DispatchAndRun(st, rq, eff, F)
  BY <1>4, DispatchKeepsParked DEF Parked
<1>5. QED
  BY <1>2, <1>3, <1>4 DEF CpuStep

(* A dispatch leaves no process in the queue that was not there, and only   *)
(* queued processes fault before it.                                        *)
LEMMA RestIsQueued ==
    ASSUME NEW st, NEW rq \in Seq(Procs), NEW eff, NEW F, NEW d \in Dispatches(st, rq, eff, F)
    PROVE  Range(d.rest) \subseteq Range(rq) /\ d.faulted \subseteq Range(rq)
<1>1. CASE Policy = "priority"
  <2> DEFINE C == Candidates(st, rq)
             Earlier(p) == {q \in C \cap F : Precedes(eff, q, p)}
  <2>1. PICK p \in C : d \in {[pid |-> p, faulted |-> Earlier(p), rest |-> r] :
                                 r \in Sorted(C \ (Earlier(p) \cup {p}), eff)}
    BY <1>1 DEF Dispatches, PriorityPick
  <2>2. PICK r \in Sorted(C \ (Earlier(p) \cup {p}), eff) :
            d = [pid |-> p, faulted |-> Earlier(p), rest |-> r]
    BY <2>1
  <2>3. Range(d.rest) \subseteq C
    <3>1. d.rest = r
      BY <2>2
    <3>2. Range(r) = C \ (Earlier(p) \cup {p})
      BY DEF Sorted
    <3> HIDE DEF C, Earlier
    <3>3. QED
      BY <3>1, <3>2
  <2>4. d.faulted = Earlier(p)
    <3> HIDE DEF C, Earlier
    <3>1. QED
      BY <2>2
  <2>5. QED
    BY <2>3, <2>4 DEF Candidates
<1>2. CASE Policy # "priority"
  <2>1. PICK k \in DOMAIN rq :
            /\ d.rest = SubSeq(rq, k + 1, Len(rq))
            /\ d.faulted = {rq[j] : j \in 1..(k - 1)} \cap Runnable(st)
    BY <1>2 DEF Dispatches, FifoPick
  <2>2. /\ DOMAIN rq = 1..Len(rq) /\ Len(rq) \in Nat
        /\ d.rest \in Seq(Procs) /\ Len(d.rest) = Len(rq) - k
        /\ \A i \in 1..(Len(rq) - k) : d.rest[i] = rq[k + i]
    BY <2>1
  <2>3. DOMAIN d.rest = 1..(Len(rq) - k)
    BY <2>2
  <2>4. /\ \A i \in 1..(Len(rq) - k) : k + i \in DOMAIN rq
        /\ \A j \in 1..(k - 1) : j \in DOMAIN rq
    BY <2>2
  <2>5. QED
    BY <2>1, <2>2, <2>3, <2>4 DEF Range
<1>3. QED
  BY <1>1, <1>2

(* A tick touches the queued processes and the one on the CPU only.         *)
LEMMA ExecuteTouchesOne ==
    ASSUME NEW st \in [Procs -> ProcessState], NEW rq \in Seq(Procs), NEW used,
           NEW p \in Procs, Execute(p, used, st, rq)
    PROVE  /\ \A q \in Procs : q # p =>
                  state'[q] = st[q] /\ q # current' /\ (q \notin Range(rq) => q \notin Range(ready'))
           /\ \A q \in Procs : state'[q] = "NEW" => st[q] = "NEW"
<1> DEFINE ran == IF used = 0 THEN [st EXCEPT ![p] = "RUNNING"] ELSE st
           expired == [ran EXCEPT ![p] = "READY"]
<1>1. /\ \A q \in Procs : q # p => state'[q] = st[q]
      /\ current' \in {p, None}
  BY ExecuteKeepsParked
<1>2. /\ ran \in [Procs -> ProcessState]
      /\ \A q \in Procs : ran[q] = "NEW" => st[q] = "NEW"
  BY DEF ProcessState
<1>3. state' \in {ran, expired, [ran EXCEPT ![p] = "TERMINATED"]}
  BY DEF Execute
<1>4. \A q \in Procs : state'[q] = "NEW" => st[q] = "NEW"
  <2> HIDE DEF ran
  <2>1. QED
    BY <1>2, <1>3
<1>5. ready' = rq \/ ready' = Enqueue(expired, rq, p)
  BY DEF Execute
<1>6. \A q \in Procs : q # p /\ q \notin Range(rq) => q \notin Range(ready')
  <2>1. CASE ready' = rq
    BY <2>1
  <2>2. CASE ready' = Append(rq, p)
    <3>1. Range(Append(rq, p)) \subseteq Range(rq) \cup {p}
      BY DEF Range
    <3>2. QED
      BY <2>2, <3>1
  <2>3. QED
    BY <1>5, <2>1, <2>2 DEF Enqueue
<1>7. None \notin Procs
  BY KernelAssumption
<1>8. QED
  BY <1>1, <1>4, <1>6, <1>7

LEMMA DispatchTouchesQueued ==
    ASSUME NEW st \in [Procs -> ProcessState], NEW rq \in Seq(Procs), NEW F,
           NEW eff \in [Procs -> Int], \A i, j \in DOMAIN rq : rq[i] = rq[j] => i = j,
           DispatchAndRun(st, rq, eff, F)
    PROVE  /\ \A q \in Procs : q \notin Range(rq) =>
                  state'[q] = st[q] /\ q # current' /\ q \notin Range(ready')
           /\ \A q \in Procs : state'[q] = "NEW" => st[q] = "NEW"
<1>1. ASSUME NEW S
      PROVE  /\ Faulted(st, S) \in [Procs -> ProcessState]
             /\ \A q \in Procs : q \notin S => Faulted(st, S)[q] = st[q]
             /\ \A q \in Procs : Faulted(st, S)[q] = "NEW" => st[q] = "NEW"
  BY DEF Faulted, ProcessState
<1>2. ASSUME NEW d \in Dispatches(st, rq, eff, F),
             Execute(d.pid, 0, Faulted(st, d.faulted), d.rest)
      PROVE  /\ \A q \in Procs : q \notin Range(rq) =>
                    state'[q] = st[q] /\ q # current' /\ q \notin Range(ready')
             /\ \A q \in Procs : state'[q] = "NEW" => st[q] = "NEW"
  <2> DEFINE x == d.pid
             rest == d.rest
             st2 == Faulted(st, d.faulted)
  <2>1. DispatchOK(st, rq, d)
    BY DispatchesOK
  <2>2. x \in Range(rq) /\ x \in Procs /\ rest \in Seq(Procs)
    BY <2>1, RangeOfQueue DEF DispatchOK
  <2>3. Range(rest) \subseteq Range(rq)
    BY RestIsQueued
  <2>4. d.faulted \subseteq Range(rq)
    BY RestIsQueued
  <2>5. /\ st2 \in [Procs -> ProcessState]
        /\ \A q \in Procs : q \notin Range(rq) => st2[q] = st[q]
        /\ \A q \in Procs : st2[q] = "NEW" => st[q] = "NEW"
    BY <1>1, <2>4
  <2>6. Execute(x, 0, st2, rest)
    BY <1>2
  <2> HIDE DEF x, rest, st2
  <2>7. /\ \A q \in Procs : q # x =>
                  state'[q] = st2[q] /\ q # current' /\ (q \notin Range(rest) => q \notin Range(ready'))
        /\ \A q \in Procs : state'[q] = "NEW" => st2[q] = "NEW"
    BY <2>2, <2>5, <2>6, ExecuteTouchesOne
  <2>8. QED
    BY <2>2, <2>3, <2>5, <2>7
<1>3. CASE Idle(st, rq, F)
  <2>1. /\ state' = Faulted(st, Candidates(st, rq)) /\ current' = None /\ ready' = <<>>
        /\ Candidates(st, rq) \subseteq Range(rq)
    BY <1>3 DEF Idle, Candidates
  <2>2. Range(<<>>) = {} /\ None \notin Procs
    BY KernelAssumption DEF Range
  <2>3. QED
    BY <1>1, <2>1, <2>2
<1>4. QED
  BY <1>2, <1>3 DEF DispatchAndRun

LEMMA TickTouchesQueued ==
    ASSUME NEW st \in [Procs -> ProcessState], NEW rq \in Seq(Procs), NEW F,
           NEW eff \in [Procs -> Int], \A i, j \in DOMAIN rq : rq[i] = rq[j] => i = j,
           current \in Procs \cup {None}, CpuStep(st, rq, eff, F)
    PROVE  /\ \A q \in Procs : q \notin Range(rq) /\ q # current =>
                  state'[q] = st[q] /\ q # current' /\ q \notin Range(ready')
           /\ \A q \in Procs : state'[q] = "NEW" => st[q] = "NEW"
<1>1. CASE current # None /\ Execute(current, slice, st, rq)
  <2>1. current \in Procs
    BY <1>1
  <2>2. QED
    BY <1>1, <2>1, ExecuteTouchesOne
<1>2. CASE DispatchAndRun(Faulted(st, {current}), rq, eff, F)
  <2> DEFINE st2 == Faulted(st, {current})
  <2>1. /\ st2 \in [Procs -> ProcessState]
        /\ \A p \in Procs : p # current => st2[p] = st[p]
        /\ \A p \in Procs : st2[p] = "NEW" => st[p] = "NEW"
    BY DEF Faulted, ProcessState
  <2>2. DispatchAndRun(st2, rq, eff, F)
    BY <1>2
  <2> HIDE DEF st2
  <2>3. QED
    BY <2>1, <2>2, DispatchTouchesQueued
<1>3. CASE DispatchAndRun(st, rq, eff, F)
  BY <1>3, DispatchTouchesQueued
<1>4. QED
  BY <1>1, <1>2, <1>3 DEF CpuStep

-----------------------------------------------------------------------------
(* Executing a tick consumes burst of the executing process only.           *)
LEMMA ExecuteRunsOne ==
    ASSUME NEW st, NEW rq, NEW p \in Procs, NEW used, remaining \in [Procs -> Nat],
           Execute(p, used, st, rq)
    PROVE  \A q \in Procs : q # p => remaining'[q] = remaining[q]
BY DEF Execute

(* A dispatch consumes no burst of processes that are not runnable.         *)
LEMMA DispatchRunsRunnable ==
    ASSUME NEW st, NEW rq \in Seq(Procs), NEW F, NEW eff \in [Procs -> Int],
           \A i, j \in DOMAIN rq : rq[i] = rq[j] => i = j,
           remaining \in [Procs -> Nat],
           DispatchAndRun(st, rq, eff, F)
    PROVE  \A q \in Procs \ Runnable(st) : remaining'[q] = remaining[q]
<1>1. ASSUME NEW d \in Dispatches(st, rq, eff, F),
             Execute(d.pid, 0, Faulted(st, d.faulted), d.rest)
      PROVE  \A q \in Procs \ Runnable(st) : remaining'[q] = remaining[q]
  <2>1. DispatchOK(st, rq, d)
    BY DispatchesOK
  <2>2. d.pid \in Runnable(st) /\ d.pid \in Procs
    BY <2>1 DEF DispatchOK, Runnable
  <2> QED BY <1>1, <2>2, ExecuteRunsOne
<1>2. CASE Idle(st, rq, F)
  BY <1>2 DEF Idle
<1> QED BY <1>1, <1>2 DEF DispatchAndRun

(* Under the priority policy the dispatched process comes before every      *)
(* other that is queued and runnable, when no access faults.                *)
LEMMA PriorityRunsFirst ==
    ASSUME NEW st, NEW rq, NEW eff, Policy = "priority", remaining \in [Procs -> Nat],
           DispatchAndRun(st, rq, eff, {}), NEW p \in Procs,
           \/ remaining'[p] # remaining[p]
           \/ st[p] # "TERMINATED" /\ state'[p] = "TERMINATED"
    PROVE  \A q \in Candidates(st, rq) \ {p} : Precedes(eff, p, q)
<1>1. CASE Idle(st, rq, {})
  BY <1>1 DEF Idle, Faulted, Candidates
<1>2. ASSUME NEW d \in PriorityPick(st, rq, eff, {}),
             Execute(d.pid, 0, Faulted(st, d.faulted), d.rest)
      PROVE  \A q \in Candidates(st, rq) \ {p} : Precedes(eff, p, q)
  <2>1. /\ d.pid \in Candidates(st, rq) \ {}
        /\ \A q \in (Candidates(st, rq) \ {}) \ {d.pid} : Precedes(eff, d.pid, q)
    <3> DEFINE C == Candidates(st, rq)
               Earlier(x) == {q \in C \cap {} : Precedes(eff, q, x)}
               First(x) == x \in C \ {} /\ \A q \in (C \ {}) \ {x} : Precedes(eff, x, q)
    <3>1. PICK x \in {q \in C : First(q)} :
              d \in {[pid |-> x, faulted |-> Earlier(x), rest |-> r] :
                         r \in Sorted(C \ (Earlier(x) \cup {x}), eff)}
      BY <1>2 DEF PriorityPick
    <3>2. d.pid = x
      <4> HIDE DEF C, Earlier
      <4>1. QED
        BY <3>1
    <3>3. QED
      BY <3>1, <3>2
  <2>2. d.pid \in Procs /\ d.faulted = {}
    BY <1>2, <2>1, DispatchedIsRunnable DEF Dispatches, Candidates, Runnable
  <2>3. \A x \in Procs : Faulted(st, d.faulted)[x] = st[x]
    BY <2>2 DEF Faulted
  <2>4. ASSUME p # d.pid PROVE FALSE
    <3>1. remaining'[p] = remaining[p]
      BY <1>2, <2>2, <2>4, ExecuteRunsOne
    <3>2. state'[p] = Faulted(st, d.faulted)[p]
      BY <1>2, <2>4 DEF Execute, Faulted
    <3>3. QED
      BY <3>1, <3>2, <2>3
  <2>5. QED
    BY <2>1, <2>4
<1>3. QED
  BY <1>1, <1>2 DEF DispatchAndRun, Dispatches

(* The other policies than round robin leave nobody on the CPU.             *)
LEMMA NoSliceGoesOn ==
    ASSUME NEW st, NEW rq, NEW eff, NEW F, Policy # "rr", slice \in Nat,
           CpuStep(st, rq, eff, F)
    PROVE  current' = None
<1>1. ASSUME NEW p, NEW used \in Nat, NEW s, NEW q, Execute(p, used, s, q)
      PROVE  current' = None
  BY <1>1 DEF Execute, EffectiveQuantum
<1>2. ASSUME NEW s, DispatchAndRun(s, rq, eff, F)
      PROVE  current' = None
  BY <1>1, <1>2 DEF DispatchAndRun, Idle
<1>3. QED
  BY <1>1, <1>2 DEF CpuStep

(* No tick of burst goes to a process that is BLOCKED.                      *)
THEOREM BlockedProcessesDoNotRun == KernelSpec => BlockedNeverRuns
<1> DEFINE Frozen == \A p \in Procs : state[p] = "BLOCKED" => remaining'[p] = remaining[p]
<1>1. KernelInv /\ [KernelNext]_kernelVars => Frozen
  <2> SUFFICES ASSUME KernelInv, [KernelNext]_kernelVars, NEW p \in Procs, state[p] = "BLOCKED"
               PROVE  remaining'[p] = remaining[p]
    OBVIOUS
  <2>0. /\ ready \in Seq(Procs) /\ \A i, j \in DOMAIN ready : ready[i] = ready[j] => i = j
        /\ remaining \in [Procs -> Nat] /\ current \in Procs \cup {None}
        /\ current # None => state[current] \in {"RUNNING", "TERMINATED"}
    BY DEF KernelInv, TypeOK, QueuedOnce, CpuIsExclusive
  <2>1. CASE Tick
    <3>1. PICK eff \in [Procs -> Weights], F \in IF PageFaults THEN SUBSET Procs ELSE {{}} :
            CpuStep(state, ready, eff, F)
      BY <2>1 DEF Tick
    <3>2. eff \in [Procs -> Int]
      BY KernelAssumption
    <3>3. CASE current # None /\ Execute(current, slice, state, ready)
      <4>1. p # current /\ current \in Procs
        BY <2>0, <3>3
      <4> QED BY <2>0, <3>3, <4>1, ExecuteRunsOne
    <3>4. CASE DispatchAndRun(Faulted(state, {current}), ready, eff, F)
      <4>1. p \in Procs \ Runnable(Faulted(state, {current}))
        BY DEF Runnable, Faulted
      <4> QED BY <2>0, <3>2, <3>4, <4>1, DispatchRunsRunnable
    <3>5. CASE DispatchAndRun(state, ready, eff, F)
      <4>1. p \in Procs \ Runnable(state)
        BY DEF Runnable
      <4> QED BY <2>0, <3>2, <3>5, <4>1, DispatchRunsRunnable
    <3> QED BY <3>1, <3>3, <3>4, <3>5 DEF CpuStep
  <2>2. CASE \E q \in Procs : Admit(q) \/ BlockProcess(q) \/ WakeProcess(q) \/ Terminate(q)
    BY <2>2 DEF Admit, BlockProcess, WakeProcess, Terminate
  <2>3. CASE UNCHANGED kernelVars
    BY <2>3 DEF kernelVars
  <2> QED BY <2>1, <2>2, <2>3 DEF KernelNext
<1>2. KernelSpec => []KernelInv
  BY KernelInvariant
<1>3. KernelInv /\ [KernelNext]_kernelVars => [Frozen]_kernelVars
  BY <1>1
<1> QED BY <1>2, <1>3, PTL DEF KernelSpec, BlockedNeverRuns

-----------------------------------------------------------------------------
(* Order of the queue under the policies that do not sort it.               *)

(* Enqueuing x puts nobody ahead of another process, nor of x if it is      *)
(* queued already.                                                          *)
LEMMA EnqueueKeepsOrder ==
    ASSUME NEW st, NEW rq \in Seq(Procs), NEW x \in Procs, NEW p \in Procs, NEW q \in Procs,
           p # x \/ p \in Range(rq),
           InOrder(Enqueue(st, rq, x), q, p)
    PROVE  InOrder(rq, q, p)
<1>1. CASE Enqueue(st, rq, x) = rq
  BY <1>1
<1>2. CASE x \notin Range(rq) /\ Enqueue(st, rq, x) = Append(rq, x)
  <2>1. p # x
    BY <1>2
  <2>2. /\ DOMAIN Append(rq, x) = 1..(Len(rq) + 1) /\ DOMAIN rq = 1..Len(rq)
        /\ Len(rq) \in Nat
        /\ Append(rq, x)[Len(rq) + 1] = x
        /\ \A k \in 1..Len(rq) : Append(rq, x)[k] = rq[k]
    OBVIOUS
  <2>3. PICK i, j \in 1..(Len(rq) + 1) : i < j /\ Append(rq, x)[i] = q /\ Append(rq, x)[j] = p
    BY <1>2, <2>2 DEF InOrder
  <2>4. i \in 1..Len(rq) /\ j \in 1..Len(rq)
    BY <2>1, <2>2, <2>3
  <2> QED BY <2>2, <2>3, <2>4 DEF InOrder
<1> QED BY <1>1, <1>2 DEF Enqueue

(* What a pick leaves of the queue is in the order it was.                  *)
LEMMA FifoKeepsOrder ==
    ASSUME NEW st, NEW rq \in Seq(Procs), NEW F, NEW d \in FifoPick(st, rq, F),
           NEW p \in Procs, NEW q \in Procs, InOrder(d.rest, q, p)
    PROVE  InOrder(rq, q, p)
<1>1. PICK k \in DOMAIN rq : d.rest = SubSeq(rq, k + 1, Len(rq))
  BY DEF FifoPick
<1>2. /\ DOMAIN rq = 1..Len(rq) /\ Len(rq) \in Nat
      /\ d.rest \in Seq(Procs) /\ Len(d.rest) = Len(rq) - k
      /\ \A i \in 1..(Len(rq) - k) : d.rest[i] = rq[k + i]
  BY <1>1
<1>3. DOMAIN d.rest = 1..(Len(rq) - k)
  BY <1>2
<1>4. PICK i, j \in 1..(Len(rq) - k) : i < j /\ d.rest[i] = q /\ d.rest[j] = p
  BY <1>3 DEF InOrder
<1>5. /\ k + i \in DOMAIN rq /\ k + j \in DOMAIN rq /\ k + i < k + j
      /\ rq[k + i] = q /\ rq[k + j] = p
  BY <1>2, <1>4
<1> QED BY <1>5 DEF InOrder

(* Executing a tick of x puts nobody ahead of a process other than x.       *)
LEMMA ExecuteKeepsOrder ==
    ASSUME NEW st, NEW rq \in Seq(Procs), NEW used, NEW x \in Procs,
           remaining \in [Procs -> Nat], Execute(x, used, st, rq),
           NEW p \in Procs, NEW q \in Procs, remaining'[p] = remaining[p],
           InOrder(ready', q, p)
    PROVE  InOrder(rq, q, p)
<1>1. CASE ready' = rq
  BY <1>1
<1>2. ASSUME NEW st2, ready' = Enqueue(st2, rq, x), remaining[x] > 0,
             remaining' = [remaining EXCEPT ![x] = remaining[x] - 1]
      PROVE  InOrder(rq, q, p)
  <2>1. p # x
    BY <1>2
  <2> QED BY <1>2, <2>1, EnqueueKeepsOrder
<1> DEFINE left == IF remaining[x] > 0 THEN remaining[x] - 1 ELSE 0
           ran == IF used = 0 THEN [st EXCEPT ![x] = "RUNNING"] ELSE st
           expired == [ran EXCEPT ![x] = "READY"]
<1>3. /\ remaining' = [remaining EXCEPT ![x] = left]
      /\ ready' = rq \/ (left > 0 /\ ready' = Enqueue(expired, rq, x))
  BY DEF Execute
<1>4. left > 0 => remaining[x] > 0 /\ left = remaining[x] - 1
  OBVIOUS
<1> HIDE DEF left, expired
<1> QED BY <1>1, <1>2, <1>3, <1>4

(* Nor does dispatching a process first, when the queue is not sorted.      *)
LEMMA DispatchKeepsOrder ==
    ASSUME NEW st, NEW rq \in Seq(Procs), NEW eff, NEW F,
           Policy # "priority",
           \A i, j \in DOMAIN rq : rq[i] = rq[j] => i = j,
           remaining \in [Procs -> Nat], DispatchAndRun(st, rq, eff, F),
           NEW p \in Procs, NEW q \in Procs, remaining'[p] = remaining[p],
           InOrder(ready', q, p)
    PROVE  InOrder(rq, q, p)
<1>1. ASSUME NEW d \in FifoPick(st, rq, F),
             Execute(d.pid, 0, Faulted(st, d.faulted), d.rest)
      PROVE  InOrder(rq, q, p)
  <2>1. d.pid \in Procs /\ d.rest \in Seq(Procs)
    BY FifoDispatch DEF DispatchOK, Runnable
  <2> DEFINE x == d.pid
             rest == d.rest
             st2 == Faulted(st, d.faulted)
  <2>2. x \in Procs /\ rest \in Seq(Procs) /\ Execute(x, 0, st2, rest)
    BY <1>1, <2>1
  <2> HIDE DEF x, rest, st2
  <2>3. InOrder(rest, q, p)
    BY <2>2, ExecuteKeepsOrder
  <2> QED BY <2>3, FifoKeepsOrder DEF rest
<1>2. CASE Idle(st, rq, F)
  <2>1. ready' = <<>>
    BY <1>2 DEF Idle
  <2> QED BY <2>1 DEF InOrder
<1> QED BY <1>1, <1>2 DEF DispatchAndRun, Dispatches

(* Under FIFO and round robin nobody gets ahead of a queued process: not by *)
(* being admitted or woken, and not while a tick drops stale entries, skips *)
(* processes that fault and enqueues the one whose quantum is over.         *)
THEOREM QueueOrderIsKept == Policy # "priority" => (KernelSpec => NoOvertaking)
<1> SUFFICES ASSUME Policy # "priority" PROVE KernelSpec => NoOvertaking
  OBVIOUS
<1> DEFINE Kept == \A p, q \in Procs :
                       /\ p \in Range(ready) /\ remaining'[p] = remaining[p]
                       /\ InOrder(ready', q, p)
                       => InOrder(ready, q, p)
<1>1. KernelInv /\ [KernelNext]_kernelVars => Kept
  <2> SUFFICES ASSUME KernelInv, [KernelNext]_kernelVars, NEW p \in Procs, NEW q \in Procs,
                      p \in Range(ready), remaining'[p] = remaining[p], InOrder(ready', q, p)
               PROVE  InOrder(ready, q, p)
    OBVIOUS
  <2>0. /\ ready \in Seq(Procs) /\ \A i, j \in DOMAIN ready : ready[i] = ready[j] => i = j
        /\ remaining \in [Procs -> Nat] /\ current \in Procs \cup {None}
    BY DEF KernelInv, TypeOK, QueuedOnce
  <2>1. CASE Tick
    <3>1. PICK eff \in [Procs -> Weights], F \in IF PageFaults THEN SUBSET Procs ELSE {{}} :
              CpuStep(state, ready, eff, F)
      BY <2>1 DEF Tick
    <3>2. CASE current # None /\ Execute(current, slice, state, ready)
      BY <2>0, <3>2, ExecuteKeepsOrder
    <3>3. ASSUME NEW st, DispatchAndRun(st, ready, eff, F) PROVE InOrder(ready, q, p)
      BY <2>0, <3>3, DispatchKeepsOrder
    <3> QED BY <3>1, <3>2, <3>3 DEF CpuStep
  <2>2. ASSUME NEW x \in Procs, NEW st, ready' = Enqueue(st, ready, x)
        PROVE  InOrder(ready, q, p)
    BY <2>0, <2>2, EnqueueKeepsOrder
  <2>3. CASE \E x \in Procs : Admit(x) \/ BlockProcess(x) \/ WakeProcess(x) \/ Terminate(x)
    <3>1. ready' = ready \/ \E x \in Procs : \E st \in {state', WakeState(state, x)} :
                                ready' = Enqueue(st, ready, x)
      BY <2>3 DEF Admit, BlockProcess, WakeProcess, WakeQueue, Terminate
    <3> QED BY <2>2, <3>1
  <2>4. CASE UNCHANGED kernelVars
    BY <2>4 DEF kernelVars
  <2> QED BY <2>1, <2>3, <2>4 DEF KernelNext
<1>2. KernelSpec => []KernelInv
  BY KernelInvariant
<1>3. KernelInv /\ [KernelNext]_kernelVars => [Kept]_kernelVars
  BY <1>1
<1> QED BY <1>2, <1>3, PTL DEF KernelSpec, NoOvertaking

=============================================================================
