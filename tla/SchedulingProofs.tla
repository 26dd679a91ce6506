-------------------------- MODULE SchedulingProofs --------------------------
(***************************************************************************)
(* Proofs about Scheduling, for every policy, quantum, burst, arrival time *)
(* and aging interval, and any sequence of blocks, wake-ups and            *)
(* terminations: the metrics are consistent, no CPU time is lost or        *)
(* invented, aging keeps its interval, the count of switches is neither    *)
(* short nor inflated, and the priority policy picks the highest.          *)
(***************************************************************************)
EXTENDS Scheduling, KernelProofs, DataLemmas

(* The inductive invariant, above that of the kernel.                       *)
MetricTypes ==
    /\ clock \in Nat /\ switches \in Nat
    /\ bonus \in [Procs -> Nat]
    /\ started \in [Procs -> Nat \cup {None}]
    /\ finished \in [Procs -> Nat \cup {None}]
    /\ lastRan \in Procs \cup {None}

(* What the burst left, the state and the times of a process say of each    *)
(* other.  A process that completed never leaves TERMINATED, and one in the *)
(* middle of a slice has something left to run.                             *)
LifeOf(p) ==
    /\ remaining[p] <= Burst[p]
    /\ finished[p] # None => state[p] = "TERMINATED" /\ remaining[p] = 0
    /\ finished[p] = None /\ remaining[p] = 0 => Burst[p] = 0
    /\ state[p] \in {"READY", "RUNNING", "BLOCKED"} => Arrival[p] <= clock
    /\ started[p] = None => remaining[p] = Burst[p] /\ finished[p] = None
    /\ started[p] # None => Arrival[p] <= started[p] /\ started[p] <= clock
    /\ started[p] # None /\ finished[p] = None =>
           started[p] + (Burst[p] - remaining[p]) <= clock
    /\ finished[p] # None => started[p] + Burst[p] <= finished[p] /\ finished[p] <= clock

CpuLifeInv ==
    /\ current # None => remaining[current] > 0 /\ started[current] # None
    /\ lastRan # None => started[lastRan] # None
    /\ \A p \in Range(ready) : state[p] # "NEW"

AgingInv ==
    \A p \in Procs : bonus[p] > 0 => AgingInterval >= 1 /\ bonus[p] * AgingInterval < clock

SchedInv ==
    /\ KernelInv /\ MetricTypes
    /\ \A p \in Procs : LifeOf(p)
    /\ CpuLifeInv /\ AgingInv
    /\ ClockIsCpuTime /\ SwitchesCoverDispatches

-----------------------------------------------------------------------------
(* What a tick does: nothing, when nobody is runnable, or a tick of x.      *)
IdleEffect ==
    /\ Ran = {} /\ current = None /\ current' = None /\ remaining' = remaining
    /\ state' = state /\ ready' = <<>>
    /\ \A q \in Procs : state[q] # "READY"

RunEffect(x) ==
    /\ \/ x = current
       \/ current = None /\ x \in Range(ready) /\ state[x] \notin {"BLOCKED", "TERMINATED"}
    /\ remaining' = [remaining EXCEPT ![x] = IF remaining[x] > 0 THEN remaining[x] - 1 ELSE 0]
    /\ \A q \in Procs \ {x} : state'[q] = state[q]
    /\ state'[x] \in {"READY", "RUNNING", "TERMINATED"}
    /\ remaining'[x] = 0 => state'[x] = "TERMINATED" /\ current' = None
    /\ current' \in {x, None}
    /\ Range(ready') \subseteq Range(ready) \cup {x}

LEMMA ExecuteEffect ==
    ASSUME NEW st \in [Procs -> ProcessState], NEW rq \in Seq(Procs), NEW x \in Procs,
           NEW used \in Nat, used > 0 => st[x] \in {"RUNNING", "TERMINATED"},
           \A i, j \in DOMAIN rq : rq[i] = rq[j] => i = j,
           remaining \in [Procs -> Nat], Execute(x, used, st, rq)
    PROVE  /\ remaining' = [remaining EXCEPT ![x] = IF remaining[x] > 0 THEN remaining[x] - 1 ELSE 0]
           /\ \A q \in Procs \ {x} : state'[q] = st[q]
           /\ state'[x] \in {"READY", "RUNNING", "TERMINATED"}
           /\ remaining'[x] = 0 => state'[x] = "TERMINATED" /\ current' = None
           /\ current' \in {x, None}
           /\ Range(ready') \subseteq Range(rq) \cup {x}
<1> DEFINE left == IF remaining[x] > 0 THEN remaining[x] - 1 ELSE 0
           ran == IF used = 0 THEN [st EXCEPT ![x] = "RUNNING"] ELSE st
           expired == [ran EXCEPT ![x] = "READY"]
<1>1. /\ ran \in [Procs -> ProcessState] /\ expired \in [Procs -> ProcessState]
      /\ ran[x] \in {"RUNNING", "TERMINATED"}
      /\ \A q \in Procs \ {x} : ran[q] = st[q]
  BY DEF ProcessState
<1>2. left \in Nat /\ expired[x] = "READY" /\ \A q \in Procs \ {x} : expired[q] = st[q]
  BY <1>1
<1>3. /\ remaining' = [remaining EXCEPT ![x] = left]
      /\ \/ /\ left = 0
            /\ state' = [ran EXCEPT ![x] = "TERMINATED"]
            /\ ready' = rq /\ current' = None
         \/ /\ left > 0
            /\ state' = expired
            /\ ready' = Enqueue(expired, rq, x) /\ current' = None
         \/ /\ left > 0
            /\ state' = ran
            /\ ready' = rq /\ current' = x
  BY DEF Execute
<1>4. Range(Enqueue(expired, rq, x)) \subseteq Range(rq) \cup {x}
  <2> HIDE DEF expired
  <2>1. QED
    BY <1>1, EnqueueKeepsQueue
<1> HIDE DEF ran, expired
<1>5. remaining'[x] = left
  BY <1>3
<1>6. /\ \A q \in Procs \ {x} : state'[q] = st[q]
      /\ state'[x] \in {"READY", "RUNNING", "TERMINATED"}
      /\ left = 0 => state'[x] = "TERMINATED"
  BY <1>1, <1>2, <1>3
<1>7. QED
  BY <1>2, <1>3, <1>4, <1>5, <1>6

LEMMA DispatchEffect ==
    ASSUME KernelInv, NEW eff \in [Procs -> Int], current = None,
           \A p \in Range(ready) : state[p] # "NEW",
           DispatchAndRun(state, ready, eff, {})
    PROVE  \/ Idle(state, ready, {})
           \/ \E x \in Procs : RunEffect(x) /\ state[x] # "TERMINATED"
<1>1. /\ state \in [Procs -> ProcessState] /\ ready \in Seq(Procs) /\ remaining \in [Procs -> Nat]
      /\ \A i, j \in DOMAIN ready : ready[i] = ready[j] => i = j
  BY DEF KernelInv, TypeOK, QueuedOnce
<1>2. ASSUME NEW d \in Dispatches(state, ready, eff, {}),
             Execute(d.pid, 0, Faulted(state, d.faulted), d.rest)
      PROVE  \E x \in Procs : RunEffect(x) /\ state[x] # "TERMINATED"
  <2> DEFINE x == d.pid
             st == Faulted(state, d.faulted)
             rest == d.rest
  <2>1. /\ x \in Runnable(state) /\ d.faulted = {} /\ x \in Range(ready)
        /\ rest \in Seq(Procs) /\ \A i, j \in DOMAIN rest : rest[i] = rest[j] => i = j
    <3>1. DispatchOK(state, ready, d)
      BY <1>1, DispatchesOK
    <3>2. d.faulted \subseteq {} \cap Runnable(state)
      BY DispatchedIsRunnable
    <3>3. QED
      BY <3>1, <3>2 DEF DispatchOK
  <2>2. st = state
    BY <1>1, <2>1 DEF Faulted
  <2>3. Range(rest) \subseteq Range(ready)
    BY <1>1, RestIsQueued
  <2>4. Execute(x, 0, st, rest)
    BY <1>2
  <2> HIDE DEF x, st, rest
  <2>5. x \in Procs /\ state[x] \notin {"BLOCKED", "TERMINATED"}
    BY <2>1 DEF Runnable
  <2>6. Execute(x, 0, state, rest)
    BY <2>2, <2>4
  <2>7. /\ remaining' = [remaining EXCEPT ![x] = IF remaining[x] > 0 THEN remaining[x] - 1 ELSE 0]
        /\ \A q \in Procs \ {x} : state'[q] = state[q]
        /\ state'[x] \in {"READY", "RUNNING", "TERMINATED"}
        /\ remaining'[x] = 0 => state'[x] = "TERMINATED" /\ current' = None
        /\ current' \in {x, None}
        /\ Range(ready') \subseteq Range(rest) \cup {x}
    <3>1. 0 \in Nat /\ (0 > 0 => state[x] \in {"RUNNING", "TERMINATED"})
      OBVIOUS
    <3>2. QED
      BY <1>1, <2>1, <2>5, <2>6, <3>1, ExecuteEffect
  <2>8. RunEffect(x)
    BY <2>1, <2>3, <2>5, <2>7 DEF RunEffect
  <2>9. QED
    BY <2>5, <2>8
<1>3. QED
  BY <1>2 DEF DispatchAndRun

LEMMA TickEffect ==
    ASSUME KernelInv, CpuLifeInv, NEW eff \in [Procs -> Int],
           CpuStep(state, ready, eff, {})
    PROVE  IdleEffect \/ \E x \in Procs : RunEffect(x) /\ Ran = {x}
<1>1. /\ state \in [Procs -> ProcessState] /\ ready \in Seq(Procs) /\ remaining \in [Procs -> Nat]
      /\ \A i, j \in DOMAIN ready : ready[i] = ready[j] => i = j
      /\ current \in Procs \cup {None} /\ slice \in Nat
      /\ current # None => state[current] \in {"RUNNING", "TERMINATED"}
  BY KernelAssumption DEF KernelInv, TypeOK, QueuedOnce, CpuIsExclusive
<1>2. ASSUME NEW x \in Procs, RunEffect(x), remaining[x] > 0 \/ state[x] # "TERMINATED"
      PROVE  Ran = {x}
  <2>1. \A q \in Procs \ {x} : remaining'[q] = remaining[q] /\ state'[q] = state[q]
    BY <1>1, <1>2 DEF RunEffect
  <2>2. remaining[x] \in Nat
    BY <1>1
  <2>3. CASE remaining[x] > 0
    <3>1. remaining'[x] # remaining[x]
      BY <1>1, <1>2, <2>2, <2>3 DEF RunEffect
    <3>2. QED
      BY <2>1, <3>1 DEF Ran
  <2>4. CASE remaining[x] = 0 /\ state[x] # "TERMINATED"
    <3>1. state'[x] = "TERMINATED"
      BY <1>1, <1>2, <2>4 DEF RunEffect
    <3>2. QED
      BY <2>1, <2>4, <3>1 DEF Ran
  <2>5. QED
    BY <1>2, <2>2, <2>3, <2>4
<1>3. CASE current # None
  <2>1. Execute(current, slice, state, ready)
    BY <1>3 DEF CpuStep
  <2>2. current \in Procs /\ remaining[current] > 0
    BY <1>1, <1>3 DEF CpuLifeInv
  <2>3. /\ remaining' = [remaining EXCEPT ![current] =
                             IF remaining[current] > 0 THEN remaining[current] - 1 ELSE 0]
        /\ \A q \in Procs \ {current} : state'[q] = state[q]
        /\ state'[current] \in {"READY", "RUNNING", "TERMINATED"}
        /\ remaining'[current] = 0 => state'[current] = "TERMINATED" /\ current' = None
        /\ current' \in {current, None}
        /\ Range(ready') \subseteq Range(ready) \cup {current}
    BY <1>1, <1>3, <2>1, <2>2, ExecuteEffect
  <2>4. RunEffect(current)
    BY <2>3 DEF RunEffect
  <2>5. QED
    BY <2>2, <2>4, <1>2
<1>4. CASE current = None
  <2>1. DispatchAndRun(state, ready, eff, {})
    BY <1>4 DEF CpuStep
  <2>2. \/ Idle(state, ready, {})
        \/ \E x \in Procs : RunEffect(x) /\ state[x] # "TERMINATED"
    BY <1>4, <2>1, DispatchEffect DEF CpuLifeInv
  <2>3. CASE Idle(state, ready, {})
    <3>1. Candidates(state, ready) = {} /\ remaining' = remaining /\ current' = None /\ ready' = <<>>
      BY <2>3 DEF Idle
    <3>2. state' = state
      BY <1>1, <2>3, <3>1 DEF Idle, Faulted
    <3>3. \A q \in Procs : state[q] # "READY"
      BY <3>1 DEF KernelInv, ReadyNeverLost, Candidates, Runnable
    <3>4. Ran = {}
      BY <3>1, <3>2 DEF Ran
    <3>5. QED
      BY <1>4, <3>1, <3>2, <3>3, <3>4 DEF IdleEffect
  <2>4. QED
    BY <1>2, <2>2, <2>3
<1>5. QED
  BY <1>3, <1>4

(* The metrics of an idle tick, and of a tick of x.                         *)
MetricsOfRun(x) ==
    /\ clock' = clock + 1
    /\ started' = [started EXCEPT ![x] = IF started[x] = None THEN clock ELSE started[x]]
    /\ finished' = [finished EXCEPT ![x] = IF remaining'[x] = 0 THEN clock + 1 ELSE finished[x]]
    /\ switches' = switches + (IF current = None /\ lastRan # x THEN 1 ELSE 0)
    /\ lastRan' = IF remaining'[x] = 0 THEN None ELSE x
    /\ bonus' = AgedBonus

LEMMA TickCases ==
    ASSUME SchedInv, SchedTick
    PROVE  /\ KernelInv'
           /\ \/ IdleEffect /\ UNCHANGED metricVars
              \/ \E x \in Procs : RunEffect(x) /\ MetricsOfRun(x)
<1> DEFINE eff == EffectivePriority(bonus')
<1>1. /\ bonus \in [Procs -> Nat] /\ clock \in Nat /\ switches \in Nat
      /\ started \in [Procs -> Nat \cup {None}] /\ finished \in [Procs -> Nat \cup {None}]
      /\ KernelInv /\ CpuLifeInv
  BY DEF SchedInv, MetricTypes
<1>2. /\ bonus' = AgedBonus /\ clock' = ClockAfterTick /\ started' = StartTime
      /\ finished' = CompletionTime /\ switches' = SwitchesAfterTick
      /\ lastRan' = LastRanAfterTick /\ CpuStep(state, ready, eff, {})
  BY DEF SchedTick
<1>3. eff \in [Procs -> Int]
  BY <1>1, <1>2, SchedulingAssumption DEF AgedBonus, EffectivePriority
<1>4. /\ KInv(state, ready, current) /\ SliceOK(current, slice)
      /\ current \in Procs \cup {None} /\ remaining \in [Procs -> Nat]
  BY <1>1, KernelInvSplit
<1> HIDE DEF eff
<1>5. KernelInv'
  BY <1>2, <1>3, <1>4, CpuStepKeepsInv
<1>6. IdleEffect \/ \E x \in Procs : RunEffect(x) /\ Ran = {x}
  BY <1>1, <1>2, <1>3, TickEffect
<1>7. CASE IdleEffect
  <2>1. Ran = {} /\ \A q \in Procs : state[q] # "READY"
    BY <1>7 DEF IdleEffect
  <2>2. bonus' = bonus
    BY <1>1, <1>2, <2>1 DEF AgedBonus
  <2>3. started' = started /\ finished' = finished
    BY <1>1, <1>2, <2>1 DEF StartTime, CompletionTime
  <2>4. clock' = clock /\ switches' = switches /\ lastRan' = lastRan
    BY <1>1, <1>2, <2>1 DEF ClockAfterTick, SwitchesAfterTick, LastRanAfterTick
  <2>5. QED
    BY <1>5, <1>7, <2>2, <2>3, <2>4 DEF metricVars
<1>8. ASSUME NEW x \in Procs, RunEffect(x), Ran = {x}
      PROVE  MetricsOfRun(x)
  <2>1. started' = [started EXCEPT ![x] = IF started[x] = None THEN clock ELSE started[x]]
    BY <1>1, <1>2, <1>8 DEF StartTime
  <2>2. finished' = [finished EXCEPT ![x] = IF remaining'[x] = 0 THEN clock + 1 ELSE finished[x]]
    BY <1>1, <1>2, <1>8 DEF CompletionTime
  <2>3. clock' = clock + 1
    BY <1>2, <1>8 DEF ClockAfterTick
  <2>4. switches' = switches + (IF current = None /\ lastRan # x THEN 1 ELSE 0)
    BY <1>2, <1>8 DEF SwitchesAfterTick
  <2>5. lastRan' = IF remaining'[x] = 0 THEN None ELSE x
    <3>1. (CHOOSE q \in Ran : TRUE) = x
      BY <1>8
    <3>2. QED
      BY <1>2, <1>8, <3>1 DEF LastRanAfterTick
  <2>6. QED
    BY <1>2, <2>1, <2>2, <2>3, <2>4, <2>5 DEF MetricsOfRun
<1>9. QED
  BY <1>5, <1>6, <1>7, <1>8

-----------------------------------------------------------------------------
(* A tick of x keeps every part of the invariant.                           *)
LEMMA RunKeepsTypes ==
    ASSUME SchedInv, NEW x \in Procs, RunEffect(x), MetricsOfRun(x)
    PROVE  MetricTypes'
<1>1. /\ clock \in Nat /\ switches \in Nat /\ bonus \in [Procs -> Nat]
      /\ started \in [Procs -> Nat \cup {None}] /\ finished \in [Procs -> Nat \cup {None}]
  BY DEF SchedInv, MetricTypes
<1>2. bonus' \in [Procs -> Nat]
  BY <1>1 DEF MetricsOfRun, AgedBonus
<1>3. started' \in [Procs -> Nat \cup {None}] /\ finished' \in [Procs -> Nat \cup {None}]
  BY <1>1 DEF MetricsOfRun
<1>4. clock' \in Nat /\ switches' \in Nat /\ lastRan' \in Procs \cup {None}
  BY <1>1 DEF MetricsOfRun
<1>5. QED
  BY <1>2, <1>3, <1>4 DEF MetricTypes

(* The process that runs is one that arrived and did not complete.          *)
LEMMA RunnerIsAlive ==
    ASSUME SchedInv, NEW x \in Procs, RunEffect(x)
    PROVE  /\ finished[x] = None
           /\ Arrival[x] <= clock \/ started[x] # None
           /\ current # None => x = current /\ started[x] # None
<1>1. /\ state \in [Procs -> ProcessState] /\ current \in Procs \cup {None}
      /\ remaining \in [Procs -> Nat] /\ LifeOf(x) /\ CpuLifeInv
      /\ None \notin Procs
  BY KernelAssumption DEF SchedInv, KernelInv, TypeOK
<1>2. CASE x = current
  <2>1. current # None /\ remaining[x] > 0 /\ started[x] # None
    BY <1>1, <1>2 DEF CpuLifeInv
  <2>2. finished[x] = None
    BY <1>1, <2>1 DEF LifeOf
  <2>3. QED
    BY <1>2, <2>1, <2>2
<1>3. CASE current = None /\ x \in Range(ready) /\ state[x] \notin {"BLOCKED", "TERMINATED"}
  <2>1. state[x] \in {"READY", "RUNNING"}
    BY <1>1, <1>3 DEF CpuLifeInv, ProcessState
  <2>2. Arrival[x] <= clock /\ finished[x] = None
    BY <1>1, <2>1 DEF LifeOf
  <2>3. QED
    BY <1>3, <2>2
<1>4. QED
  BY <1>2, <1>3 DEF RunEffect

LEMMA RunKeepsLife ==
    ASSUME SchedInv, NEW x \in Procs, RunEffect(x), MetricsOfRun(x), NEW p \in Procs
    PROVE  LifeOf(p)'
<1>1. /\ clock \in Nat /\ started \in [Procs -> Nat \cup {None}]
      /\ finished \in [Procs -> Nat \cup {None}] /\ remaining \in [Procs -> Nat]
      /\ Burst \in [Procs -> Nat] /\ Arrival \in [Procs -> Nat] /\ None \notin Nat
      /\ LifeOf(p)
  BY KernelAssumption, SchedulingAssumption DEF SchedInv, MetricTypes, KernelInv, TypeOK
<1>2. /\ clock' = clock + 1
      /\ started' = [started EXCEPT ![x] = IF started[x] = None THEN clock ELSE started[x]]
      /\ finished' = [finished EXCEPT ![x] = IF remaining'[x] = 0 THEN clock + 1 ELSE finished[x]]
  BY DEF MetricsOfRun
<1>3. /\ remaining' = [remaining EXCEPT ![x] = IF remaining[x] > 0 THEN remaining[x] - 1 ELSE 0]
      /\ \A q \in Procs \ {x} : state'[q] = state[q]
      /\ state'[x] \in {"READY", "RUNNING", "TERMINATED"}
      /\ remaining'[x] = 0 => state'[x] = "TERMINATED"
  BY DEF RunEffect
<1>4. CASE p # x
  <2>1. /\ remaining'[p] = remaining[p] /\ state'[p] = state[p]
        /\ started'[p] = started[p] /\ finished'[p] = finished[p]
    BY <1>1, <1>2, <1>3, <1>4
  <2>2. /\ remaining[p] \in Nat /\ Burst[p] \in Nat /\ Arrival[p] \in Nat
        /\ started[p] \in Nat \cup {None} /\ finished[p] \in Nat \cup {None}
    BY <1>1
  <2>3. QED
    BY <1>1, <1>2, <2>1, <2>2 DEF LifeOf
<1>5. CASE p = x
  <2>1. /\ finished[p] = None /\ (Arrival[p] <= clock \/ started[p] # None)
    BY <1>5, RunnerIsAlive
  <2>2. /\ remaining[p] \in Nat /\ Burst[p] \in Nat /\ Arrival[p] \in Nat
        /\ started[p] \in Nat \cup {None}
    BY <1>1
  <2>3. /\ remaining'[p] = IF remaining[p] > 0 THEN remaining[p] - 1 ELSE 0
        /\ started'[p] = IF started[p] = None THEN clock ELSE started[p]
        /\ finished'[p] = IF remaining'[p] = 0 THEN clock + 1 ELSE None
        /\ state'[p] \in {"READY", "RUNNING", "TERMINATED"}
        /\ remaining'[p] = 0 => state'[p] = "TERMINATED"
    BY <1>1, <1>2, <1>3, <1>5, <2>1
  <2>4. started'[p] \in Nat /\ Arrival[p] <= started'[p] /\ started'[p] <= clock
    BY <1>1, <2>1, <2>2, <2>3 DEF LifeOf
  <2>5. started'[p] + (Burst[p] - remaining'[p]) <= clock + 1
    BY <1>1, <2>1, <2>2, <2>3 DEF LifeOf
  <2>6. Arrival[p] <= clock + 1 /\ remaining'[p] \in Nat /\ remaining'[p] <= Burst[p]
    BY <1>1, <2>2, <2>3, <2>4 DEF LifeOf
  <2>7. CASE remaining'[p] = 0
    <3>1. /\ finished'[p] = clock + 1 /\ finished'[p] # None /\ started'[p] # None
          /\ started'[p] + Burst[p] <= finished'[p]
      BY <1>1, <2>2, <2>3, <2>4, <2>5, <2>7
    <3>2. started'[p] <= clock' /\ finished'[p] <= clock'
      BY <1>1, <1>2, <2>4, <3>1
    <3>3. QED
      BY <1>2, <2>3, <2>4, <2>6, <2>7, <3>1, <3>2 DEF LifeOf
  <2>8. CASE remaining'[p] # 0
    <3>1. finished'[p] = None /\ started'[p] # None
      BY <1>1, <2>3, <2>4, <2>8
    <3>2. started'[p] <= clock'
      BY <1>1, <1>2, <2>4
    <3>3. QED
      BY <1>2, <2>4, <2>5, <2>6, <2>8, <3>1, <3>2 DEF LifeOf
  <2>9. QED
    BY <2>7, <2>8
<1>6. QED
  BY <1>4, <1>5

LEMMA RunKeepsCpuLife ==
    ASSUME SchedInv, NEW x \in Procs, RunEffect(x), MetricsOfRun(x)
    PROVE  CpuLifeInv'
<1>1. /\ started \in [Procs -> Nat \cup {None}] /\ remaining \in [Procs -> Nat]
      /\ state \in [Procs -> ProcessState] /\ ready \in Seq(Procs) /\ clock \in Nat
      /\ None \notin Nat /\ lastRan \in Procs \cup {None} /\ CpuLifeInv
  BY SchedulingAssumption DEF SchedInv, MetricTypes, KernelInv, TypeOK
<1>2. /\ started' = [started EXCEPT ![x] = IF started[x] = None THEN clock ELSE started[x]]
      /\ lastRan' = IF remaining'[x] = 0 THEN None ELSE x
  BY DEF MetricsOfRun
<1>3. /\ remaining' = [remaining EXCEPT ![x] = IF remaining[x] > 0 THEN remaining[x] - 1 ELSE 0]
      /\ \A q \in Procs \ {x} : state'[q] = state[q]
      /\ state'[x] \in {"READY", "RUNNING", "TERMINATED"}
      /\ remaining'[x] = 0 => current' = None
      /\ current' \in {x, None}
      /\ Range(ready') \subseteq Range(ready) \cup {x}
  BY DEF RunEffect
<1>4. started'[x] # None
  BY <1>1, <1>2
<1>5. current' # None => remaining'[current'] > 0 /\ started'[current'] # None
  <2> SUFFICES ASSUME current' # None PROVE remaining'[x] > 0
    BY <1>3, <1>4
  <2>1. remaining'[x] \in Nat /\ remaining'[x] # 0
    BY <1>1, <1>3
  <2>2. QED
    BY <2>1
<1>6. lastRan' # None => started'[lastRan'] # None
  BY <1>2, <1>4
<1>7. \A p \in Range(ready') : state'[p] # "NEW"
  <2> SUFFICES ASSUME NEW p \in Range(ready') PROVE state'[p] # "NEW"
    OBVIOUS
  <2>1. CASE p = x
    BY <2>1, <1>3
  <2>2. CASE p # x
    <3>1. p \in Range(ready) /\ p \in Procs
      BY <1>1, <1>3, <2>2, RangeOfQueue
    <3>2. QED
      BY <3>1, <2>2, <1>1, <1>3 DEF CpuLifeInv
  <2>3. QED
    BY <2>1, <2>2
<1>8. QED
  BY <1>5, <1>6, <1>7 DEF CpuLifeInv

(* A multiple of the interval that exceeds so many intervals exceeds them   *)
(* by one.                                                                  *)
LEMMA NextMultiple ==
    ASSUME NEW a \in Nat \ {0}, NEW b \in Nat, NEW c \in Nat \ {0}, c % a = 0,
           b = 0 \/ b * a < c
    PROVE  (b + 1) * a <= c
<1> DEFINE k == c \div a
<1>1. k \in Nat /\ c = a * k
  BY Z3
<1> HIDE DEF k
<1>2. k # 0
  <2> SUFFICES ASSUME k = 0 PROVE FALSE
    OBVIOUS
  <2>1. c = a * 0
    BY <1>1
  <2>2. QED
    BY <2>1
<1>3. ASSUME NEW m \in Nat, NEW n \in Nat, m <= n PROVE m * a <= n * a
  <2>1. PICK d \in Nat : n = m + d
    <3>1. n - m \in Nat /\ n = m + (n - m)
      BY <1>3
    <3>2. QED
      BY <3>1
  <2>2. (m + d) * a = m * a + d * a /\ d * a >= 0
    BY Z3
  <2>3. QED
    BY <2>1, <2>2
<1>4. b < k
  <2> SUFFICES ASSUME k <= b PROVE FALSE
    BY <1>1
  <2>1. k * a <= b * a
    BY <1>1, <1>3
  <2>2. b = 0 => k = 0
    BY <1>1
  <2>3. QED
    BY <1>1, <1>2, <2>1, <2>2
<1>5. b + 1 \in Nat /\ b + 1 <= k
  BY <1>1, <1>4
<1>6. (b + 1) * a <= k * a
  BY <1>1, <1>3, <1>5
<1>7. QED
  BY <1>1, <1>6

LEMMA RunKeepsAging ==
    ASSUME SchedInv, NEW x \in Procs, RunEffect(x), MetricsOfRun(x)
    PROVE  AgingInv'
<1>1. /\ clock \in Nat /\ bonus \in [Procs -> Nat] /\ AgingInterval \in Int /\ AgingInv
  BY SchedulingAssumption DEF SchedInv, MetricTypes
<1>2. clock' = clock + 1 /\ bonus' = AgedBonus
  BY DEF MetricsOfRun
<1> SUFFICES ASSUME NEW p \in Procs, bonus'[p] > 0
             PROVE  AgingInterval >= 1 /\ bonus'[p] * AgingInterval < clock'
  BY DEF AgingInv
<1>3. CASE AgingDue /\ state[p] = "READY"
  <2>1. /\ AgingInterval \in Nat \ {0} /\ AgingInterval >= 1
        /\ clock \in Nat \ {0} /\ clock % AgingInterval = 0
    BY <1>1, <1>3 DEF AgingDue
  <2>2. bonus[p] \in Nat /\ (bonus[p] = 0 \/ bonus[p] * AgingInterval < clock)
    BY <1>1 DEF AgingInv
  <2>3. (bonus[p] + 1) * AgingInterval <= clock
    BY <2>1, <2>2, NextMultiple
  <2>4. bonus'[p] = bonus[p] + 1
    BY <1>2, <1>3 DEF AgedBonus
  <2>5. bonus'[p] * AgingInterval <= clock
    BY <2>3, <2>4
  <2>6. bonus'[p] * AgingInterval \in Int
    BY <2>1, <2>2, <2>4
  <2>7. QED
    BY <1>1, <1>2, <2>1, <2>5, <2>6
<1>4. CASE ~ (AgingDue /\ state[p] = "READY")
  <2>1. bonus'[p] = bonus[p] /\ bonus[p] \in Nat
    BY <1>1, <1>2, <1>4 DEF AgedBonus
  <2>2. AgingInterval >= 1 /\ bonus[p] * AgingInterval < clock
    BY <1>1, <2>1 DEF AgingInv
  <2>3. bonus[p] * AgingInterval \in Int
    BY <1>1, <2>1
  <2>4. QED
    BY <1>1, <1>2, <2>1, <2>2, <2>3
<1>5. QED
  BY <1>3, <1>4

(* A tick of x is one more of the ticks x had, and the clock counts it.     *)
LEMMA RunKeepsClock ==
    ASSUME SchedInv, NEW x \in Procs, RunEffect(x), MetricsOfRun(x)
    PROVE  ClockIsCpuTime'
<1> DEFINE before == [p \in Procs |-> TicksHad(p)]
           after == [p \in Procs |-> TicksHad(p)']
<1>1. /\ clock \in Nat /\ finished \in [Procs -> Nat \cup {None}]
      /\ remaining \in [Procs -> Nat] /\ Burst \in [Procs -> Nat] /\ None \notin Nat
      /\ IsFiniteSet(Procs)
  BY KernelAssumption, SchedulingAssumption DEF SchedInv, MetricTypes, KernelInv, TypeOK
<1>2. /\ clock' = clock + 1
      /\ finished' = [finished EXCEPT ![x] = IF remaining'[x] = 0 THEN clock + 1 ELSE finished[x]]
      /\ remaining' = [remaining EXCEPT ![x] = IF remaining[x] > 0 THEN remaining[x] - 1 ELSE 0]
  BY DEF MetricsOfRun, RunEffect
<1>3. \A p \in Procs \ {x} : remaining'[p] = remaining[p] /\ finished'[p] = finished[p]
  BY <1>1, <1>2
<1>4. /\ finished[x] = None /\ remaining[x] <= Burst[x]
      /\ remaining[x] = 0 => Burst[x] = 0
  BY RunnerIsAlive DEF SchedInv, LifeOf
<1>5. /\ remaining[x] \in Nat /\ Burst[x] \in Nat
      /\ remaining'[x] = IF remaining[x] > 0 THEN remaining[x] - 1 ELSE 0
      /\ finished'[x] = IF remaining'[x] = 0 THEN clock + 1 ELSE None
      /\ clock + 1 # None
  BY <1>1, <1>2, <1>4
<1>6. /\ before \in [Procs -> Int] /\ after \in [Procs -> Int]
      /\ \A p \in Procs \ {x} : before[p] = after[p]
  <2>1. before \in [Procs -> Int]
    BY <1>1 DEF TicksHad, TicksOf
  <2>2. remaining' \in [Procs -> Nat]
    BY <1>1, <1>2
  <2>3. after \in [Procs -> Int]
    BY <1>1, <2>2 DEF TicksHad, TicksOf
  <2>4. \A p \in Procs \ {x} : TicksHad(p)' = TicksHad(p)
    BY <1>3 DEF TicksHad
  <2>5. QED
    BY <2>1, <2>3, <2>4
<1>7. before[x] = Burst[x] - remaining[x] /\ after[x] = before[x] + 1
  <2>1. before[x] = Burst[x] - remaining[x]
    BY <1>4 DEF TicksHad
  <2>2. after[x] = IF finished'[x] # None THEN TicksOf(x) ELSE Burst[x] - remaining'[x]
    BY DEF TicksHad, TicksOf
  <2> HIDE DEF before, after
  <2>3. QED
    BY <1>4, <1>5, <2>1, <2>2 DEF TicksOf
<1>8. clock = SumFunction(before)
  BY DEF SchedInv, ClockIsCpuTime
<1> HIDE DEF before, after
<1>9. SumFunction(before) \in Int /\ SumFunction(after) = SumFunction(before) + (after[x] - before[x])
  BY <1>1, <1>6, SumChange
<1>10. clock' = SumFunction(after)
  BY <1>1, <1>2, <1>6, <1>7, <1>8, <1>9
<1>11. QED
  BY <1>10 DEF ClockIsCpuTime, after

(* A process that runs for the first time is not the last that ran, so its  *)
(* dispatch is counted; nothing is counted twice in a tick.                 *)
LEMMA RunKeepsSwitches ==
    ASSUME SchedInv, NEW x \in Procs, RunEffect(x), MetricsOfRun(x)
    PROVE  SwitchesCoverDispatches'
<1> DEFINE Begun == {p \in Procs : started[p] # None}
           BegunNow == {p \in Procs : started'[p] # None}
<1>1. /\ clock \in Nat /\ switches \in Nat /\ started \in [Procs -> Nat \cup {None}]
      /\ Cardinality(Begun) <= switches /\ switches <= clock
      /\ None \notin Nat /\ IsFiniteSet(Begun) /\ CpuLifeInv
  BY KernelAssumption, SchedulingAssumption, FS_Subset
     DEF SchedInv, MetricTypes, SwitchesCoverDispatches
<1>2. /\ clock' = clock + 1
      /\ started' = [started EXCEPT ![x] = IF started[x] = None THEN clock ELSE started[x]]
      /\ switches' = switches + (IF current = None /\ lastRan # x THEN 1 ELSE 0)
  BY DEF MetricsOfRun
<1>3. BegunNow = Begun \cup {x}
  BY <1>1, <1>2
<1>4. started[x] = None => x \notin Begun /\ current = None /\ lastRan # x
  <2>1. lastRan # x \/ x = None \/ started[x] # None
    BY <1>1 DEF CpuLifeInv
  <2>2. QED
    BY <2>1, RunnerIsAlive, KernelAssumption
<1> HIDE DEF BegunNow
<1>5. CASE started[x] = None
  <2> HIDE DEF Begun
  <2>1. Cardinality(BegunNow) = Cardinality(Begun) + 1 /\ Cardinality(Begun) \in Nat
    BY <1>1, <1>3, <1>4, <1>5, FS_AddElement, FS_CardinalityType
  <2>2. Cardinality(BegunNow) <= switches' /\ switches' <= clock'
    BY <1>1, <1>2, <1>4, <1>5, <2>1
  <2>3. QED
    BY <2>2 DEF BegunNow, SwitchesCoverDispatches
<1>6. CASE started[x] # None
  <2>1. BegunNow = Begun
    BY <1>3, <1>6
  <2> HIDE DEF Begun
  <2>2. Cardinality(Begun) \in Nat
    BY <1>1, FS_CardinalityType
  <2>3. Cardinality(BegunNow) <= switches' /\ switches' <= clock'
    BY <1>1, <1>2, <2>1, <2>2
  <2>4. QED
    BY <2>3 DEF BegunNow, SwitchesCoverDispatches
<1>7. QED
  BY <1>5, <1>6

LEMMA TickKeepsSchedInv ==
    ASSUME SchedInv, SchedTick
    PROVE  SchedInv'
<1>1. KernelInv'
  BY TickCases
<1>2. ASSUME NEW x \in Procs, RunEffect(x), MetricsOfRun(x)
      PROVE  SchedInv'
  <2>1. MetricTypes' /\ CpuLifeInv' /\ AgingInv' /\ ClockIsCpuTime' /\ SwitchesCoverDispatches'
    BY <1>2, RunKeepsTypes, RunKeepsCpuLife, RunKeepsAging, RunKeepsClock, RunKeepsSwitches
  <2>2. \A p \in Procs : LifeOf(p)'
    BY <1>2, RunKeepsLife
  <2>3. QED
    BY <1>1, <2>1, <2>2 DEF SchedInv
<1>3. CASE IdleEffect /\ UNCHANGED metricVars
  <2>1. /\ current = None /\ current' = None /\ remaining' = remaining /\ state' = state
        /\ ready' = <<>> /\ clock' = clock /\ bonus' = bonus /\ started' = started
        /\ finished' = finished /\ lastRan' = lastRan /\ switches' = switches
    BY <1>3 DEF IdleEffect, metricVars
  <2>2. Range(ready') = {}
    BY <2>1 DEF Range
  <2>3. MetricTypes' /\ AgingInv' /\ CpuLifeInv'
    BY <2>1, <2>2 DEF SchedInv, MetricTypes, AgingInv, CpuLifeInv
  <2>4. \A p \in Procs : LifeOf(p)'
    BY <2>1 DEF SchedInv, LifeOf
  <2>5. ClockIsCpuTime' /\ SwitchesCoverDispatches'
    BY <2>1 DEF SchedInv, ClockIsCpuTime, TicksHad, SwitchesCoverDispatches
  <2>6. QED
    BY <1>1, <2>3, <2>4, <2>5 DEF SchedInv
<1>4. QED
  BY <1>2, <1>3, TickCases

-----------------------------------------------------------------------------
(* The ports: a process that blocks, wakes or is terminated consumes        *)
(* nothing, and one that is admitted has arrived.                           *)
LEMMA PortKeepsSchedInv ==
    ASSUME SchedInv, KernelInv', remaining' = remaining,
           UNCHANGED <<clock, bonus, started, finished, switches>>,
           lastRan' \in {lastRan, None}, current' \in {current, None},
           \A q \in Procs : state[q] = "TERMINATED" => state'[q] = "TERMINATED",
           \A q \in Procs : state'[q] \in {"READY", "RUNNING", "BLOCKED"} => Arrival[q] <= clock,
           \A q \in Range(ready') : state'[q] # "NEW"
    PROVE  SchedInv'
<1>1. /\ clock' = clock /\ bonus' = bonus /\ started' = started /\ finished' = finished
      /\ switches' = switches
  OBVIOUS
<1>2. MetricTypes' /\ AgingInv' /\ CpuLifeInv'
  BY <1>1 DEF SchedInv, MetricTypes, AgingInv, CpuLifeInv
<1>3. \A p \in Procs : LifeOf(p)'
  BY <1>1 DEF SchedInv, LifeOf
<1>4. ClockIsCpuTime' /\ SwitchesCoverDispatches'
  BY <1>1 DEF SchedInv, ClockIsCpuTime, TicksHad, SwitchesCoverDispatches
<1>5. QED
  BY <1>2, <1>3, <1>4 DEF SchedInv

LEMMA SchedNextInv ==
    ASSUME SchedInv, [SchedNext]_schedVars
    PROVE  SchedInv'
<1>1. /\ KernelInv /\ state \in [Procs -> ProcessState] /\ ready \in Seq(Procs)
      /\ \A i, j \in DOMAIN ready : ready[i] = ready[j] => i = j
      /\ \A q \in Range(ready) : state[q] # "NEW"
      /\ \A q \in Procs : state[q] \in {"READY", "RUNNING", "BLOCKED"} => Arrival[q] <= clock
  BY DEF SchedInv, KernelInv, TypeOK, QueuedOnce, CpuLifeInv, LifeOf
<1>2. ASSUME [KernelNext]_kernelVars PROVE KernelInv'
  BY <1>1, <1>2, KernelNextInv
<1>3. ASSUME NEW p \in Procs, SchedAdmit(p) PROVE SchedInv'
  <2>1. /\ Arrival[p] <= clock /\ state' = [state EXCEPT ![p] = "READY"] /\ state[p] = "NEW"
        /\ ready' = Enqueue(state', ready, p) /\ remaining' = remaining /\ current' = current
        /\ UNCHANGED metricVars
    BY <1>3 DEF SchedAdmit, Admit
  <2>2. KernelInv'
    BY <1>2, <1>3 DEF SchedAdmit, KernelNext
  <2>3. state' \in [Procs -> ProcessState] /\ Range(ready') \subseteq Range(ready) \cup {p}
    <3>1. state' \in [Procs -> ProcessState]
      BY <1>1, <2>1 DEF ProcessState
    <3>2. QED
      BY <1>1, <2>1, <3>1, EnqueueKeepsQueue
  <2>4. Range(ready) \subseteq Procs
    BY <1>1, RangeOfQueue
  <2>5. \A q \in Range(ready') : state'[q] # "NEW"
    BY <1>1, <2>1, <2>3, <2>4
  <2>6. /\ \A q \in Procs : state[q] = "TERMINATED" => state'[q] = "TERMINATED"
        /\ \A q \in Procs : state'[q] \in {"READY", "RUNNING", "BLOCKED"} => Arrival[q] <= clock
    BY <1>1, <2>1
  <2>7. UNCHANGED <<clock, bonus, started, finished, switches>> /\ lastRan' = lastRan
    BY <2>1 DEF metricVars
  <2>8. QED
    BY <2>1, <2>2, <2>5, <2>6, <2>7, PortKeepsSchedInv
<1>4. ASSUME NEW p \in Procs, SchedBlock(p) PROVE SchedInv'
  <2>1. /\ state' = BlockState(state, p) /\ ready' = ready /\ remaining' = remaining
        /\ current' \in {current, None} /\ lastRan' \in {lastRan, None}
        /\ UNCHANGED <<clock, bonus, started, finished, switches>>
    BY <1>4 DEF SchedBlock, BlockProcess
  <2>2. KernelInv'
    BY <1>2, <1>4 DEF SchedBlock, KernelNext
  <2>3. /\ \A q \in Procs : state[q] = "TERMINATED" => state'[q] = "TERMINATED"
        /\ \A q \in Procs : state'[q] \in {"READY", "RUNNING", "BLOCKED"} => Arrival[q] <= clock
        /\ \A q \in Procs : state[q] # "NEW" => state'[q] # "NEW"
    BY <1>1, <2>1 DEF BlockState
  <2>4. \A q \in Range(ready') : state'[q] # "NEW"
    BY <1>1, <2>1, <2>3, RangeOfQueue
  <2>5. QED
    BY <2>1, <2>2, <2>3, <2>4, PortKeepsSchedInv
<1>5. ASSUME NEW p \in Procs, SchedWake(p) PROVE SchedInv'
  <2>1. /\ state' = WakeState(state, p) /\ ready' = WakeQueue(state, ready, p)
        /\ remaining' = remaining /\ current' = current /\ UNCHANGED metricVars
    BY <1>5 DEF SchedWake, WakeProcess
  <2>2. KernelInv'
    BY <1>2, <1>5 DEF SchedWake, KernelNext
  <2>3. /\ \A q \in Procs : state[q] = "TERMINATED" => state'[q] = "TERMINATED"
        /\ \A q \in Procs : state'[q] \in {"READY", "RUNNING", "BLOCKED"} => Arrival[q] <= clock
        /\ \A q \in Procs : state[q] # "NEW" => state'[q] # "NEW"
        /\ state' \in [Procs -> ProcessState]
    BY <1>1, <2>1 DEF WakeState, ProcessState
  <2>4. ASSUME NEW q \in Range(ready') PROVE state'[q] # "NEW"
    <3>1. CASE state'[p] = "READY"
      <4>1. ready' = Enqueue(state', ready, p)
        BY <2>1, <3>1 DEF WakeQueue
      <4>2. Range(ready') \subseteq Range(ready) \cup {p}
        BY <1>1, <2>3, <4>1, EnqueueKeepsQueue
      <4>3. QED
        BY <1>1, <2>3, <3>1, <4>2, RangeOfQueue
    <3>2. CASE state'[p] # "READY"
      <4>1. ready' = ready
        BY <2>1, <3>2 DEF WakeQueue
      <4>2. QED
        BY <1>1, <2>3, <4>1, RangeOfQueue
    <3>3. QED
      BY <3>1, <3>2
  <2>5. UNCHANGED <<clock, bonus, started, finished, switches>> /\ lastRan' = lastRan
    BY <2>1 DEF metricVars
  <2>6. QED
    BY <2>1, <2>2, <2>3, <2>4, <2>5, PortKeepsSchedInv
<1>6. ASSUME NEW p \in Procs, SchedTerminate(p) PROVE SchedInv'
  <2>1. /\ state' = [state EXCEPT ![p] = "TERMINATED"] /\ ready' = ready
        /\ remaining' = remaining /\ current' = current /\ UNCHANGED metricVars
    BY <1>6 DEF SchedTerminate, Terminate
  <2>2. KernelInv'
    BY <1>2, <1>6 DEF SchedTerminate, KernelNext
  <2>3. /\ \A q \in Procs : state[q] = "TERMINATED" => state'[q] = "TERMINATED"
        /\ \A q \in Procs : state'[q] \in {"READY", "RUNNING", "BLOCKED"} => Arrival[q] <= clock
        /\ \A q \in Procs : state[q] # "NEW" => state'[q] # "NEW"
    BY <1>1, <2>1
  <2>4. \A q \in Range(ready') : state'[q] # "NEW"
    BY <1>1, <2>1, <2>3, RangeOfQueue
  <2>5. UNCHANGED <<clock, bonus, started, finished, switches>> /\ lastRan' = lastRan
    BY <2>1 DEF metricVars
  <2>6. QED
    BY <2>1, <2>2, <2>3, <2>4, <2>5, PortKeepsSchedInv
<1>7. CASE UNCHANGED schedVars
  <2>1. /\ UNCHANGED kernelVars /\ UNCHANGED metricVars
    BY <1>7 DEF schedVars
  <2>2. KernelInv' /\ state' = state /\ ready' = ready /\ remaining' = remaining
        /\ current' = current
    BY <1>2, <2>1 DEF kernelVars
  <2>3. UNCHANGED <<clock, bonus, started, finished, switches>> /\ lastRan' = lastRan
    BY <2>1 DEF metricVars
  <2>4. QED
    BY <1>1, <2>2, <2>3, PortKeepsSchedInv
<1>8. QED
  BY <1>3, <1>4, <1>5, <1>6, <1>7, TickKeepsSchedInv DEF SchedNext

LEMMA SchedInitInv ==
    ASSUME SchedInit
    PROVE  SchedInv
<1> DEFINE had == [p \in Procs |-> TicksHad(p)]
           Begun == {p \in Procs : started[p] # None}
<1>1. /\ KernelInv /\ state = [p \in Procs |-> "NEW"] /\ ready = <<>> /\ current = None
      /\ remaining = Burst /\ clock = 0 /\ switches = 0 /\ lastRan = None
      /\ bonus = [p \in Procs |-> 0] /\ started = [p \in Procs |-> None]
      /\ finished = [p \in Procs |-> None] /\ Burst \in [Procs -> Nat]
  BY KernelInitInv, KernelAssumption DEF SchedInit, KernelInit
<1>2. MetricTypes /\ AgingInv
  BY <1>1 DEF MetricTypes, AgingInv
<1>3. \A p \in Procs : LifeOf(p)
  BY <1>1 DEF LifeOf
<1>4. CpuLifeInv
  BY <1>1 DEF CpuLifeInv, Range
<1>5. ClockIsCpuTime
  <2>1. had \in [Procs -> Nat] /\ \A p \in Procs : had[p] = 0
    BY <1>1 DEF TicksHad
  <2>2. SumFunction(had) = 0
    <3> HIDE DEF had
    <3>1. QED
      BY <2>1, KernelAssumption, SumOfNats
  <2>3. QED
    BY <1>1, <2>2 DEF ClockIsCpuTime
<1>6. SwitchesCoverDispatches
  <2>1. Begun = {}
    BY <1>1
  <2>2. Cardinality(Begun) = 0
    BY <2>1, FS_EmptySet
  <2>3. QED
    BY <1>1, <2>2 DEF SwitchesCoverDispatches
<1>7. QED
  BY <1>1, <1>2, <1>3, <1>4, <1>5, <1>6 DEF SchedInv

-----------------------------------------------------------------------------
THEOREM SchedInvariant == SchedSpec => []SchedInv
<1>1. SchedInit => SchedInv
  BY SchedInitInv
<1>2. SchedInv /\ [SchedNext]_schedVars => SchedInv'
  BY SchedNextInv
<1>3. QED
  BY <1>1, <1>2, PTL DEF SchedSpec

(* No CPU time is lost or invented by blocks, wake-ups, terminations and    *)
(* idle ticks: the clock is the sum of the ticks the processes had.         *)
THEOREM ClockCountsCpuTime == SchedSpec => []ClockIsCpuTime
<1>1. SchedInv => ClockIsCpuTime
  BY DEF SchedInv
<1>2. QED
  BY <1>1, SchedInvariant, PTL

(* Response, waiting and turnaround time of a completed process are never   *)
(* negative, and in this order; the count of context switches has every     *)
(* first dispatch in it and at most one for each tick.                      *)
THEOREM MetricsMakeSense == SchedSpec => []MetricsConsistent
<1>1. SchedInv => MetricsConsistent
  BY DEF SchedInv, LifeOf, MetricsConsistent
<1>2. QED
  BY <1>1, SchedInvariant, PTL

(* No interval ages a process twice.                                        *)
THEOREM AgingKeepsItsInterval == SchedSpec => []AgedOncePerInterval
<1>1. SchedInv => AgedOncePerInterval
  BY DEF SchedInv, AgingInv, AgedOncePerInterval
<1>2. QED
  BY <1>1, SchedInvariant, PTL

(* The scheduler with its clock uses the kernel as it may be used.          *)
THEOREM SchedulingKeepsKernel == SchedSpec => []KernelInv
<1>1. SchedInv => KernelInv
  BY DEF SchedInv
<1>2. QED
  BY <1>1, SchedInvariant, PTL

(* Types: the clock never exceeds the ticks there are to give.              *)
THEOREM SchedTypes == SchedSpec => []SchedTypeOK
<1>1. SchedInv => SchedTypeOK
  <2> DEFINE had == [p \in Procs |-> TicksHad(p)]
             all == [p \in Procs |-> TicksOf(p)]
  <2> SUFFICES ASSUME SchedInv PROVE SchedTypeOK
    OBVIOUS
  <2>1. /\ MetricTypes /\ remaining \in [Procs -> Nat] /\ Burst \in [Procs -> Nat]
        /\ None \notin Nat /\ IsFiniteSet(Procs) /\ \A p \in Procs : LifeOf(p)
    BY KernelAssumption, SchedulingAssumption DEF SchedInv, KernelInv, TypeOK
  <2>2. had \in [Procs -> Int] /\ all \in [Procs -> Int] /\ \A p \in Procs : had[p] <= all[p]
    BY <2>1 DEF TicksHad, TicksOf, LifeOf
  <2>3. clock = SumFunction(had) /\ TotalTicks = SumFunction(all)
    BY DEF SchedInv, ClockIsCpuTime, TotalTicks
  <2> HIDE DEF had, all
  <2>4. clock <= TotalTicks /\ TotalTicks \in Int /\ clock \in Nat
    BY <2>1, <2>2, <2>3, SumMonotone DEF MetricTypes
  <2>5. /\ \A p \in Procs : started[p] \in 0..TotalTicks \cup {None}
        /\ \A p \in Procs : finished[p] \in 0..TotalTicks \cup {None}
    <3> SUFFICES ASSUME NEW p \in Procs
                 PROVE  /\ started[p] \in 0..TotalTicks \cup {None}
                        /\ finished[p] \in 0..TotalTicks \cup {None}
      OBVIOUS
    <3>1. /\ started[p] \in Nat \cup {None} /\ finished[p] \in Nat \cup {None}
          /\ started[p] # None => started[p] <= clock
          /\ finished[p] # None => finished[p] <= clock
      BY <2>1 DEF MetricTypes, LifeOf
    <3>2. QED
      BY <2>4, <3>1
  <2>6. /\ started \in [Procs -> 0..TotalTicks \cup {None}]
        /\ finished \in [Procs -> 0..TotalTicks \cup {None}]
    BY <2>1, <2>5 DEF MetricTypes
  <2>7. QED
    BY <2>1, <2>4, <2>6 DEF MetricTypes, SchedTypeOK
<1>2. QED
  BY <1>1, SchedInvariant, PTL

(* The priority policy serves the READY process with the highest effective  *)
(* priority, that of the aging of this very tick, the earliest arrival      *)
(* among equals.                                                            *)
THEOREM HighestIsServed == SchedSpec => PicksHighest
<1> DEFINE Highest ==
        \A p \in Ran, q \in Procs :
            Policy = "priority" /\ current = None /\ state[q] = "READY" /\ clock' # clock =>
                LET eff == EffectivePriority(bonus')
                IN  eff[q] < eff[p] \/ (eff[q] = eff[p] /\ Arrival[p] <= Arrival[q])
           eff == EffectivePriority(bonus')
<1>1. ASSUME SchedInv, SchedNext PROVE Highest
  <2> SUFFICES ASSUME NEW p \in Ran, NEW q \in Procs, Policy = "priority", current = None,
                      state[q] = "READY", clock' # clock
               PROVE  eff[q] < eff[p] \/ (eff[q] = eff[p] /\ Arrival[p] <= Arrival[q])
    BY Zenon
  <2>1. SchedTick
    BY <1>1 DEF SchedNext, SchedAdmit, SchedBlock, SchedWake, SchedTerminate, metricVars
  <2>2. /\ bonus \in [Procs -> Nat] /\ remaining \in [Procs -> Nat] /\ p \in Procs
        /\ p \in {r \in Procs : \/ remaining'[r] # remaining[r]
                                \/ state[r] # "TERMINATED" /\ state'[r] = "TERMINATED"}
        /\ Arrival \in [Procs -> Nat]
    BY <1>1, KernelAssumption DEF SchedInv, MetricTypes, KernelInv, TypeOK, Ran
  <2>3. eff \in [Procs -> Int]
    BY <2>1, <2>2, SchedulingAssumption DEF SchedTick, AgedBonus, EffectivePriority
  <2>4. DispatchAndRun(state, ready, eff, {})
    BY <2>1 DEF SchedTick, CpuStep
  <2>5. q \in Candidates(state, ready)
    BY <1>1 DEF SchedInv, KernelInv, ReadyNeverLost, Candidates, Runnable
  <2> HIDE DEF eff
  <2>6. p # q => Precedes(eff, p, q)
    BY <2>2, <2>4, <2>5, PriorityRunsFirst
  <2>7. eff[p] \in Int /\ eff[q] \in Int /\ Arrival[p] \in Nat /\ Arrival[q] \in Nat
    BY <2>2, <2>3
  <2>8. QED
    BY <2>6, <2>7 DEF Precedes
<1>2. SchedInv /\ [SchedNext]_schedVars => [Highest]_schedVars
  BY <1>1
<1>3. QED
  BY <1>2, SchedInvariant, PTL DEF SchedSpec, PicksHighest

=============================================================================
