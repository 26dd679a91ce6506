------------------------------- MODULE Mutex --------------------------------
(***************************************************************************)
(* The locks of the simulator with priority inheritance: the callbacks of  *)
(* acquire and release raise and clear the floor of the holder.  Aging     *)
(* happens in ticks the environment chooses, MaxBonus times at most.       *)
(*                                                                         *)
(* The scripts call acquire for processes that have not ended and do not   *)
(* wait for a lock already, admitted or not; release for the owner in      *)
(* whatever state it is by then.  One that was queued while it was NEW is  *)
(* never BLOCKED: if a script admits it then (a latecomer), it runs and    *)
(* ages in the middle of its wait, and what the lock does for the waiters  *)
(* is promised to the others only.                                         *)
(***************************************************************************)
EXTENDS FifoLock, FiniteSetsExt

CONSTANTS
    Base,           \* PCB.priority
    MaxBonus,       \* bound: aging stops when a bonus gets there
    Inheritance,    \* mutex_inheritance_enabled
    Killable,       \* processes a script may terminate
    Latecomers      \* processes a script may admit while they wait for a lock

ASSUME MutexAssumption ==
    /\ Base \in [Procs -> Int] /\ MaxBonus \in Nat
    /\ Inheritance \in BOOLEAN /\ Killable \subseteq Procs

VARIABLES
    bonus,      \* PCB.aging_bonus
    floor       \* PCB.mutex_inheritance_floor

mutexVars == <<kernelVars, lockVars, bonus, floor>>

MutexInit ==
    /\ KernelInit
    /\ LockInit
    /\ bonus = [p \in Procs |-> 0]
    /\ floor = [p \in Procs |-> 0]

Own(p, bon) == Base[p] + bon[p]

EffectiveWithoutFloor(bon, fl) == [p \in Procs |-> Own(p, bon)]      \* mutant

EffectivePriority(bon, fl) ==
    [p \in Procs |-> IF Own(p, bon) >= fl[p] THEN Own(p, bon) ELSE fl[p]]

(* _recompute_mutex_inheritance for holder p and the waiters left in q: the *)
(* floor is overwritten, whatever another lock of p had made it.            *)
RecomputeFromHead(fl, p, q) ==                                      \* mutant
    IF ~ Inheritance THEN fl
    ELSE [fl EXCEPT ![p] = IF q = <<>> THEN 0 ELSE Own(Head(q), bonus)]

RecomputeFromMinusOne(fl, p, q) ==                                  \* mutant
    IF ~ Inheritance THEN fl
    ELSE [fl EXCEPT ![p] = Max({-1} \cup {Own(w, bonus) : w \in Range(q)})]

Recompute(fl, p, q) ==
    IF ~ Inheritance THEN fl
    ELSE [fl EXCEPT ![p] = Max({0} \cup {Own(w, bonus) : w \in Range(q)})]

ClearNothing(fl, p) == fl                                           \* mutant

ClearFloor(fl, p) == IF Inheritance THEN [fl EXCEPT ![p] = 0] ELSE fl

-----------------------------------------------------------------------------
AcquireFree(p, l) == Take(p, l) /\ UNCHANGED <<bonus, floor>>

AcquireContended(p, l) ==
    /\ Contend(p, l)
    /\ floor' = Recompute(floor, owner[l], waiting'[l])
    /\ UNCHANGED bonus

Acquire(p, l) ==
    /\ state[p] # "TERMINATED" /\ ~ Waits(p)
    /\ AcquireFree(p, l) \/ AcquireContended(p, l)

ReleaseFree(p, l) ==
    /\ Free(p, l)
    /\ floor' = ClearFloor(floor, p)
    /\ UNCHANGED bonus

Handoff(p, l) ==
    /\ HandOver(p, l)
    /\ floor' = Recompute(ClearFloor(floor, p), owner'[l], waiting'[l])
    /\ UNCHANGED bonus

Release(p, l) == ReleaseFree(p, l) \/ Handoff(p, l)

(* release without ports, which the scripts use on uncontended locks only.  *)
BareRelease(p, l) == Free(p, l) /\ UNCHANGED <<bonus, floor>>

MutexTick ==
    /\ \/ UNCHANGED bonus
       \/ /\ Policy = "priority" /\ \A p \in Procs : bonus[p] < MaxBonus
          /\ bonus' = [p \in Procs |-> IF state[p] = "READY" THEN bonus[p] + 1 ELSE bonus[p]]
    /\ CpuStep(state, ready, EffectivePriority(bonus', floor), {})
    /\ UNCHANGED <<lockVars, floor>>

MutexAdmit(p) ==
    /\ p \in Latecomers \/ ~ Waits(p)
    /\ Admit(p) /\ UNCHANGED <<lockVars, bonus, floor>>

MutexTerminate(p) == Terminate(p) /\ UNCHANGED <<lockVars, bonus, floor>>

MutexNext ==
    \/ \E p \in Procs : MutexAdmit(p)
    \/ \E p \in Killable : MutexTerminate(p)
    \/ \E p \in Procs, l \in Locks : Acquire(p, l) \/ Release(p, l) \/ BareRelease(p, l)
    \/ MutexTick

(* The drivers keep ticking, and a script that holds a lock releases it.    *)
MutexSpec ==
    /\ MutexInit /\ [][MutexNext]_mutexVars
    /\ WF_mutexVars(MutexTick)
    /\ \A l \in Locks : WF_mutexVars(\E p \in Procs : Release(p, l))

-----------------------------------------------------------------------------
MutexTypeOK ==
    /\ LockTypeOK
    /\ bonus \in [Procs -> Nat] /\ floor \in [Procs -> Nat]

(* Whoever waits is in one queue, once, of a lock that another holds, and   *)
(* is off the CPU until the lock is his.                                    *)
OrderlyWaiters(l) == Range(waiting[l]) \ Latecomers

WaitersOffCpu ==
    /\ WaitersQueued
    /\ \A l \in Locks : \A w \in OrderlyWaiters(l) : state[w] \in {"NEW", "BLOCKED", "TERMINATED"}

(* No wake-up is lost: a process that is BLOCKED still waits for a lock.    *)
BlockedMeansWaiting == \A p \in Procs : state[p] = "BLOCKED" => Waits(p)

(* Inheritance: the holder of a lock is as urgent as everyone it holds up.  *)
FloorCoversWaiters ==
    Inheritance => \A l \in Locks : \A w \in OrderlyWaiters(l) :
        EffectivePriority(bonus, floor)[owner[l]] >= Own(w, bonus)

(* A boost does not outlive its reason: whoever has a floor holds a lock    *)
(* that a process of that priority, or of a higher one by now, waits for.   *)
NoLeftoverBoost ==
    \A p \in Procs : floor[p] > 0 =>
        \E l \in Locks : owner[l] = p /\ \E w \in Range(waiting[l]) : Own(w, bonus) >= floor[p]

(* No priority inversion: while the holder of a lock is READY, no tick goes *)
(* to a process less urgent than one that waits for the lock.               *)
NoInversion ==
    [][\A p \in Procs, l \in Locks :
          /\ Inheritance /\ Policy = "priority"
          /\ remaining'[p] # remaining[p]
          /\ owner[l] \notin {None, p} /\ state[owner[l]] = "READY"
          => \A w \in OrderlyWaiters(l) :
                 Own(w, bonus) <= EffectivePriority(bonus', floor)[p]]_mutexVars

(* Every waiter gets its lock, in whatever order the others come and go.    *)
WaiterIsServed ==
    \A p \in Procs, l \in Locks : p \in Range(waiting[l]) ~> owner[l] = p

=============================================================================
