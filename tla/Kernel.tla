------------------------------- MODULE Kernel -------------------------------
(***************************************************************************)
(* The CPU of the simulator: the process states of the process table, the  *)
(* ready queue of the scheduler and the slice of the process on the CPU.   *)
(*                                                                         *)
(* Everything else in the system reaches this state through three ports,   *)
(* block_process, wake_process and enqueue, and through one call of        *)
(* _cpu_step per tick.  The ports may be called for any process at any     *)
(* time between two ticks, so this specification lets an open environment  *)
(* call them in every order; a component that is composed with the kernel  *)
(* uses the same operators and calls them in fewer ways.                   *)
(*                                                                         *)
(* Handlers that call several ports in one go (a tick that completes I/O   *)
(* before it dispatches) compose the operators below: they take the        *)
(* process states `st` and the queue `rq` they start from.                 *)
(***************************************************************************)
EXTENDS Integers, Sequences, FiniteSets, Functions

CONSTANTS
    Procs,      \* the pids, naturals: create_process hands them out in order
    None,       \* no process on the CPU
    Policy,     \* "fifo", "rr" or "priority"
    Quantum,    \* the quantum of the round-robin scheduler
    Burst,      \* cpu_burst_time of each process
    Arrival,    \* arrival_time of each process
    Weights,    \* effective priorities the environment may present to a tick
    PageFaults  \* enable_memory_access: may an access of the running process fault?

ASSUME KernelAssumption ==
    /\ IsFiniteSet(Procs) /\ Procs \subseteq Nat
    /\ None \notin Procs
    /\ Policy \in {"fifo", "rr", "priority"}
    /\ Quantum \in Nat \ {0}
    /\ Burst \in [Procs -> Nat]
    /\ Arrival \in [Procs -> Nat]
    /\ Weights \subseteq Int
    /\ PageFaults \in BOOLEAN

VARIABLES
    state,      \* PCB.state
    ready,      \* Scheduler._ready; may hold stale pids of processes not READY
    current,    \* Simulation._current_pcb between two ticks
    slice,      \* Simulation._ticks_in_slice
    remaining   \* PCB.remaining_time

kernelVars == <<state, ready, current, slice, remaining>>

ProcessState == {"NEW", "READY", "RUNNING", "BLOCKED", "TERMINATED"}

(* Only the round-robin scheduler has a quantum attribute; the other two    *)
(* run every process one tick at a time.                                    *)
QuantumOneTooMany == IF Policy = "rr" THEN Quantum + 1 ELSE 1     \* mutant

EffectiveQuantum == IF Policy = "rr" THEN Quantum ELSE 1

KernelInit ==
    /\ state = [p \in Procs |-> "NEW"]
    /\ ready = <<>>
    /\ current = None
    /\ slice = 0
    /\ remaining = Burst

-----------------------------------------------------------------------------
(* The ports.                                                               *)

EnqueueTwice(st, rq, p) ==                                          \* mutant
    IF st[p] \in {"READY", "NEW"} THEN Append(rq, p) ELSE rq

EnqueueAtFront(st, rq, p) ==                                        \* mutant
    IF st[p] \in {"READY", "NEW"} /\ p \notin Range(rq) THEN <<p>> \o rq ELSE rq

EnqueueOnlyNew(st, rq, p) ==                                        \* mutant
    IF st[p] = "NEW" /\ p \notin Range(rq) THEN Append(rq, p) ELSE rq

Enqueue(st, rq, p) ==
    IF st[p] \in {"READY", "NEW"} /\ p \notin Range(rq) THEN Append(rq, p) ELSE rq

WakeState(st, p) == IF st[p] = "BLOCKED" THEN [st EXCEPT ![p] = "READY"] ELSE st

EnqueueBeforeWaking(st, rq, p) == Enqueue(st, rq, p)                \* mutant

WakeQueue(st, rq, p) ==
    IF WakeState(st, p)[p] = "READY" THEN Enqueue(WakeState(st, p), rq, p) ELSE rq

WakeProcess(p) ==
    /\ state' = WakeState(state, p)
    /\ ready' = WakeQueue(state, ready, p)
    /\ UNCHANGED <<current, slice, remaining>>

(* Blocking leaves the pid in the ready queue: pick_next drops it later, or *)
(* a wake-up finds it there and it keeps its old place.                     *)
BlockState(st, p) == IF st[p] \in {"RUNNING", "READY"} THEN [st EXCEPT ![p] = "BLOCKED"] ELSE st

BlockKeepingCpu(p) ==                                               \* mutant
    /\ state' = BlockState(state, p)
    /\ UNCHANGED <<ready, current, slice, remaining>>

BlockProcess(p) ==
    /\ state' = BlockState(state, p)
    /\ IF current = p /\ state[p] # "TERMINATED"
       THEN current' = None /\ slice' = 0
       ELSE UNCHANGED <<current, slice>>
    /\ UNCHANGED <<ready, remaining>>

Admit(p) ==
    /\ state[p] = "NEW"
    /\ state' = [state EXCEPT ![p] = "READY"]
    /\ ready' = Enqueue(state', ready, p)
    /\ UNCHANGED <<current, slice, remaining>>

Terminate(p) ==
    /\ state' = [state EXCEPT ![p] = "TERMINATED"]
    /\ UNCHANGED <<ready, current, slice, remaining>>

-----------------------------------------------------------------------------
(* One tick.  `F` are the processes whose next memory access would fault:   *)
(* the access depends on the pid, the clock and the page tables, which do   *)
(* not change during the tick, so the loop of _cpu_step blocks those it     *)
(* picks from F and runs the first other process.  `d` below is a dispatch: *)
(* the process that runs, those that faulted before it, the queue left.     *)

RunnableEvenIfBlocked(st) == {p \in Procs : st[p] # "TERMINATED"}    \* mutant

Runnable(st) == {p \in Procs : st[p] \notin {"BLOCKED", "TERMINATED"}}

Candidates(st, rq) == Range(rq) \cap Runnable(st)

FifoPick(st, rq, F) ==
    {[pid |-> rq[i], faulted |-> {rq[j] : j \in 1..(i - 1)} \cap Runnable(st),
      rest |-> SubSeq(rq, i + 1, Len(rq))] :
        i \in {k \in DOMAIN rq : /\ rq[k] \in Runnable(st) \ F
                                 /\ \A j \in 1..(k - 1) : rq[j] \notin Runnable(st) \ F}}

(* The sort key of the priority scheduler: effective priority, then arrival *)
(* time, then pid.                                                          *)
ArrivalFirst(eff, p, q) ==                                          \* mutant
    \/ Arrival[p] < Arrival[q]
    \/ Arrival[p] = Arrival[q] /\ eff[p] > eff[q]
    \/ eff[p] = eff[q] /\ Arrival[p] = Arrival[q] /\ p < q

Precedes(eff, p, q) ==
    \/ eff[p] > eff[q]
    \/ eff[p] = eff[q] /\ Arrival[p] < Arrival[q]
    \/ eff[p] = eff[q] /\ Arrival[p] = Arrival[q] /\ p < q

Sorted(S, eff) ==
    {s \in [1..Cardinality(S) -> S] :
        /\ Range(s) = S
        /\ \A i, j \in DOMAIN s : i < j => Precedes(eff, s[i], s[j])}

PriorityPick(st, rq, eff, F) ==
    LET C == Candidates(st, rq)
        First(p) == p \in C \ F /\ \A q \in (C \ F) \ {p} : Precedes(eff, p, q)
        Earlier(p) == {q \in C \cap F : Precedes(eff, q, p)}
    IN  UNION {{[pid |-> p, faulted |-> Earlier(p), rest |-> s] :
                   s \in Sorted(C \ (Earlier(p) \cup {p}), eff)} :
               p \in {q \in C : First(q)}}

Dispatches(st, rq, eff, F) ==
    IF Policy = "priority" THEN PriorityPick(st, rq, eff, F) ELSE FifoPick(st, rq, F)

Faulted(st, S) == [p \in Procs |-> IF p \in S THEN "BLOCKED" ELSE st[p]]

(* Process p, that has used `used` ticks of its slice, executes for a tick. *)
Execute(p, used, st, rq) ==
    LET left == IF remaining[p] > 0 THEN remaining[p] - 1 ELSE 0
        ran == IF used = 0 THEN [st EXCEPT ![p] = "RUNNING"] ELSE st
        expired == [ran EXCEPT ![p] = "READY"]
    IN  /\ remaining' = [remaining EXCEPT ![p] = left]
        /\ \/ /\ left = 0
              /\ state' = [ran EXCEPT ![p] = "TERMINATED"]
              /\ ready' = rq /\ current' = None /\ slice' = 0
           \/ /\ left > 0 /\ used + 1 >= EffectiveQuantum
              /\ state' = expired
              /\ ready' = Enqueue(expired, rq, p) /\ current' = None /\ slice' = 0
           \/ /\ left > 0 /\ used + 1 < EffectiveQuantum
              /\ state' = ran
              /\ ready' = rq /\ current' = p /\ slice' = used + 1

Idle(st, rq, F) ==
    /\ Candidates(st, rq) \subseteq F
    /\ state' = Faulted(st, Candidates(st, rq))
    /\ ready' = <<>> /\ current' = None /\ slice' = 0
    /\ UNCHANGED remaining

DispatchAndRun(st, rq, eff, F) ==
    \/ \E d \in Dispatches(st, rq, eff, F) : Execute(d.pid, 0, Faulted(st, d.faulted), d.rest)
    \/ Idle(st, rq, F)

CpuStep(st, rq, eff, F) ==
    \/ current # None /\ current \notin F /\ Execute(current, slice, st, rq)
    \/ current # None /\ current \in F /\ DispatchAndRun(Faulted(st, {current}), rq, eff, F)
    \/ current = None /\ DispatchAndRun(st, rq, eff, F)

Tick == \E eff \in [Procs -> Weights], F \in IF PageFaults THEN SUBSET Procs ELSE {{}} :
            CpuStep(state, ready, eff, F)

KernelNext ==
    \/ \E p \in Procs : Admit(p) \/ BlockProcess(p) \/ WakeProcess(p) \/ Terminate(p)
    \/ Tick

(* The drivers call _cpu_step in a loop; nobody else has to move.           *)
KernelSpec == KernelInit /\ [][KernelNext]_kernelVars /\ WF_kernelVars(Tick)

-----------------------------------------------------------------------------
(* Types; a slice that reaches the quantum has been given up.               *)
TypeOK ==
    /\ state \in [Procs -> ProcessState]
    /\ ready \in Seq(Procs)
    /\ current \in Procs \cup {None}
    /\ slice \in 0..(Quantum - 1)
    /\ (current = None) <=> (slice = 0)
    /\ remaining \in [Procs -> Nat]

(* The ready queue is the only way back to the CPU: whatever the ports and  *)
(* the tick do to a process, one that is READY is in it.                    *)
ReadyNeverLost == \A p \in Procs : state[p] = "READY" => p \in Range(ready)

(* No pid is in the ready queue twice, although blocked processes leave     *)
(* their pids behind in it and every wake-up enqueues again.                *)
QueuedOnce == \A i, j \in DOMAIN ready : ready[i] = ready[j] => i = j

(* There is one CPU: only the current process is RUNNING, and the process   *)
(* in the middle of a slice is neither blocked nor waiting in the queue, so *)
(* no process can be dispatched a second time while it holds the CPU.       *)
CpuIsExclusive ==
    /\ \A p \in Procs : state[p] = "RUNNING" => p = current
    /\ current # None => /\ current \notin Range(ready)
                         /\ state[current] \in {"RUNNING", "TERMINATED"}

KernelInv == TypeOK /\ ReadyNeverLost /\ QueuedOnce /\ CpuIsExclusive

(* A BLOCKED process never consumes a tick of its burst: neither a stale    *)
(* entry of the ready queue nor an interrupted slice brings it to the CPU.  *)
BlockedNeverRuns ==
    [][\A p \in Procs : state[p] = "BLOCKED" => remaining'[p] = remaining[p]]_kernelVars

(* Nobody gets ahead of a queued process: after an enqueue, a wake-up or a  *)
(* tick, whoever is before p in the queue was before p already, unless p    *)
(* ran and queued again.                                                    *)
InOrder(rq, p, q) == \E i, j \in DOMAIN rq : i < j /\ rq[i] = p /\ rq[j] = q

NoOvertaking ==
    [][\A p, q \in Procs :
          /\ p \in Range(ready) /\ remaining'[p] = remaining[p]
          /\ InOrder(ready', q, p)
          => InOrder(ready, q, p)]_kernelVars

(* A READY process gets CPU time, blocks or ends; the stale entries, the    *)
(* page faults and the wake-ups of the others do not postpone it for ever.  *)
ReadyIsServed ==
    \A p \in Procs : \A k \in 0..Burst[p] :
        (state[p] = "READY" /\ remaining[p] = k) ~>
            (state[p] \in {"BLOCKED", "TERMINATED"} \/ remaining[p] < k)

(* The tick picks a runnable PCB before it decrements its burst: a process  *)
(* that is TERMINATED consumes no tick of it.                               *)
TerminatedNeverRuns ==
    [][\A p \in Procs : state[p] = "TERMINATED" => remaining'[p] = remaining[p]]_kernelVars

=============================================================================
