----------------------------- MODULE Lifecycle -----------------------------
(***************************************************************************)
(* Process slots over their whole life: fork and clone, exec, exit, kill   *)
(* and waitpid of kernel/proc/proc.c and kernel/sched/sched.c, on top of   *)
(* the scheduler of module Sched, with what a process owns: its address    *)
(* space and its kernel stack.  Slots are reused.                          *)
(*                                                                         *)
(* Sched's actions that do not end a process are taken over as they are;   *)
(* creation and exit are restated here because they also hand over and     *)
(* free the resources, and proc_kill makes a CPU exit on behalf of another *)
(* process.                                                                *)
(***************************************************************************)
EXTENDS Sched

CONSTANTS
    Spaces,         \* address spaces (PML4 frames)
    NoSpace,        \* pml4_virt = NULL
    CloneKinds,     \* the <<CLONE_VM, CLONE_THREAD>> flags programs use
    MaxRefs,        \* bound on pml4_refcount
    Kills, Waits    \* whether programs kill, and wait for, other processes

ASSUME LifecycleAssumption ==
    /\ Procs \subseteq Nat \ {0}          \* slot numbers; slot 0 is idle
    /\ NoSpace \notin Spaces
    /\ CloneKinds \subseteq BOOLEAN \X BOOLEAN
    /\ MaxRefs \in Nat \ {0}
    /\ Kills \in BOOLEAN /\ Waits \in BOOLEAN

VARIABLES
    exiting,        \* processes with proc_t.exiting set
    parent_pid,     \* proc_t.parent_pid
    tgid,           \* proc_t.tgid
    pml4,           \* proc_t.pml4_virt
    pml4_refcount,  \* proc_t.pml4_refcount
    spaces,         \* address spaces that exist
    kstack          \* processes whose kernel stack is allocated

lifeVars == <<exiting, parent_pid, tgid, pml4, pml4_refcount, spaces, kstack>>
allVars == <<vars, lifeVars>>

LifeInit ==
    /\ Init
    /\ exiting = {}
    /\ parent_pid = [p \in Procs |-> NoProc]
    /\ tgid = [p \in Procs |-> p]
    /\ \E s \in Spaces :
          /\ pml4 = [p \in Procs |-> IF p = InitProc THEN s ELSE NoSpace]
          /\ spaces = {s}
    /\ pml4_refcount = [p \in Procs |-> IF p = InitProc THEN 1 ELSE 0]
    /\ kstack = {InitProc}

Least(S) == CHOOSE p \in S : \A r \in S : p <= r

InUse(p) == state[p] # "dead" \/ ~reaped[p]

\* The slots in use whose thread group is pid; the kernel takes the lowest.
Group(pid) == {p \in Procs : tgid[p] = pid /\ InUse(p)}
proc_by_pid(pid) == IF Group(pid) = {} THEN NoProc ELSE Least(Group(pid))

\* Mutant: a zombie's slot is free.
FreeSlotsZombies == {p \in Procs : state[p] = "dead"}
FreeSlots == {p \in Procs : state[p] = "dead" /\ reaped[p]}

-----------------------------------------------------------------------------
(* Creation. *)

\* proc_create as called by fork and clone, up to the call of proc_make_ready.
\* With CLONE_VM the child shares the caller's address space and the caller's
\* count goes up, otherwise it gets a copy; the child's own count is 1.
\* wait_chan keeps what the last occupant of the slot left there.
CreateChild(c, vm, thread) ==
    LET parent == cur(c)
        p == Least(FreeSlots)
    IN  /\ Runs(c)
        /\ FreeSlots # {}
        /\ vm => pml4_refcount[parent] < MaxRefs
        /\ \E s \in IF vm THEN {pml4[parent]} ELSE Spaces \ spaces :
              /\ pml4' = [pml4 EXCEPT ![p] = s]
              /\ spaces' = spaces \cup ({s} \ {NoSpace})
        /\ pml4_refcount' = [r \in Procs |->
                                IF r = p THEN 1
                                ELSE IF r = parent /\ vm THEN pml4_refcount[r] + 1
                                ELSE pml4_refcount[r]]
        /\ kstack' = kstack \cup {p}
        /\ exiting' = exiting \ {p}
        /\ tgid' = [tgid EXCEPT ![p] = IF thread THEN tgid[parent] ELSE p]
        /\ parent_pid' = [parent_pid EXCEPT ![p] =
                             IF thread THEN parent_pid[parent] ELSE parent]
        /\ reaped' = [reaped EXCEPT ![p] = thread]
        /\ sleep_until' = [sleep_until EXCEPT ![p] = "none"]
        /\ no_preempt' = no_preempt \ {p}
        /\ switching' = switching \ {p}
        /\ in_block_on' = in_block_on \ {p}
        /\ priority' = [priority EXCEPT ![p] = priority[parent]]
        /\ cpc' = [cpc EXCEPT ![c] = "fork"]
        /\ subject' = [subject EXCEPT ![c] = p]
        /\ UNCHANGED <<state, wait_chan, ready_head, current_proc, need_resched>>

proc_clone(c) == \E k \in CloneKinds : CreateChild(c, k[1], k[2])

proc_fork(c) == CreateChild(c, FALSE, FALSE)

\* Interactive programs get the highest priority, the others the default.
ExecPrios == {0, PRIO_NORMAL}

\* Mutant: exec frees the old address space and keeps pointing to it.
ExecFreesLive(c) ==
    /\ Runs(c)
    /\ spaces' = spaces \ {pml4[cur(c)]}
    /\ UNCHANGED <<vars, exiting, parent_pid, tgid, pml4, pml4_refcount, kstack>>

\* exec that succeeds: a new address space, and the old one is destroyed
\* whoever else uses it.  The caller is on no queue, so its priority changes
\* in place.  An exec that fails leaves no trace here.
proc_exec(c) ==
    LET p == cur(c)
    IN  /\ Runs(c)
        /\ \E s \in Spaces \ spaces :
              /\ pml4' = [pml4 EXCEPT ![p] = s]
              /\ spaces' = (spaces \cup {s}) \ {pml4[p]}
        /\ \E prio \in ExecPrios : priority' = [priority EXCEPT ![p] = prio]
        /\ UNCHANGED <<state, reaped, wait_chan, sleep_until, in_block_on,
                       no_preempt, switching, ready_head, current_proc,
                       need_resched, cpc, subject,
                       exiting, parent_pid, tgid, pml4_refcount, kstack>>

-----------------------------------------------------------------------------
(* Exit.  A CPU exits its current process, or one that it kills. *)

target(c) == IF subject[c] \in Procs THEN subject[c] ELSE cur(c)

\* proc_exit claims p; nobody has claimed it before.
Claim(c, p) ==
    /\ exiting' = exiting \cup {p}
    /\ state' = [state EXCEPT ![p] = "dead"]
    /\ reaped' = [reaped EXCEPT ![p] = FALSE]
    /\ cpc' = [cpc EXCEPT ![c] = "exit"]
    /\ UNCHANGED <<sleep_until, switching, ready_head, current_proc, subject>>

\* sched_yield: a process found DEAD exits first.
Yield(c) ==
    IF cur(c) # Idle /\ state[cur(c)] = "dead" /\ cur(c) \notin exiting
    THEN Claim(c, cur(c))
    ELSE /\ sched_yield_locked(c, state, sleep_until, ready_head)
         /\ UNCHANGED <<reaped, exiting>>

YieldFrame(c) ==
    /\ Yield(c)
    /\ UNCHANGED <<priority, wait_chan, in_block_on, no_preempt,
                   parent_pid, tgid, pml4, pml4_refcount, spaces, kstack>>

\* The voluntary yields, the safe points and the idle loop.
LifeYield(c) ==
    /\ cpc[c] = "run"
    /\ \/ cur(c) # Idle /\ UNCHANGED need_resched
       \/ /\ c \in need_resched
          /\ cur(c) \notin no_preempt
          /\ need_resched' = need_resched \ {c}
    /\ YieldFrame(c)

\* exit, a fatal fault, and a kill of oneself.
SysExit(c) ==
    /\ Runs(c)
    /\ IF cur(c) \in exiting THEN Yield(c) ELSE Claim(c, cur(c))
    /\ UNCHANGED <<priority, wait_chan, in_block_on, no_preempt, need_resched,
                   parent_pid, tgid, pml4, pml4_refcount, spaces, kstack>>

\* clear_tid_addr, which only clone sets, is a wait channel.
LifeExitWake(c) ==
    /\ \E ch \in (IF CloneKinds = {} THEN {} ELSE Chans) \cup {NoChan} :
          ExitWake(c, ch)
    /\ UNCHANGED lifeVars

LastReference(p) == pml4_refcount[p] - 1 <= 0

\* Mutant: the kernel stack is freed whoever exits.
FreedStackAlways(c, p) == {p}
\* A process cannot free the kernel stack it runs on.
FreedStack(c, p) == IF p = cur(c) THEN {} ELSE {p}

\* The count is dropped, the address space destroyed with the last reference,
\* the kernel stack freed, and the queues left.
LifeExitTeardown(c) ==
    LET p == target(c)
    IN  /\ cpc[c] = "teardown"
        /\ \/ /\ pml4[p] # NoSpace
              /\ pml4_refcount' = [pml4_refcount EXCEPT ![p] = @ - 1]
              /\ spaces' = IF LastReference(p) THEN spaces \ {pml4[p]} ELSE spaces
              /\ pml4' = [pml4 EXCEPT ![p] = NoSpace]
           \/ /\ pml4[p] = NoSpace
              /\ UNCHANGED <<pml4_refcount, spaces, pml4>>
        /\ kstack' = kstack \ FreedStack(c, p)
        /\ ready_head' = ready_dequeue(ready_head, p)
        /\ cpc' = [cpc EXCEPT ![c] = IF p = cur(c) THEN "exited" ELSE "run"]
        /\ subject' = [subject EXCEPT ![c] = NoProc]
        /\ UNCHANGED <<state, reaped, priority, wait_chan, sleep_until, in_block_on,
                       no_preempt, switching, current_proc, need_resched,
                       exiting, parent_pid, tgid>>

LifeExitYield(c) ==
    /\ cpc[c] = "exited"
    /\ YieldFrame(c)
    /\ UNCHANGED need_resched

-----------------------------------------------------------------------------
(* Kill and wait. *)

\* A process that RUNS on another CPU is marked DEAD for that CPU to notice.
KillRunning(c, p) ==
    /\ state[p] = "running"
    /\ state' = [state EXCEPT ![p] = "dead"]
    /\ reaped' = [reaped EXCEPT ![p] = FALSE]
    /\ need_resched' = need_resched \cup (CPUs \ {c})
    /\ UNCHANGED <<ready_head, cpc, subject>>

\* Any other is taken off the queues, and exits on the killer's CPU.
KillWaiting(c, p) ==
    /\ state[p] # "running"
    /\ ready_head' = ready_dequeue(ready_head, p)
    /\ cpc' = [cpc EXCEPT ![c] = "kill"]
    /\ subject' = [subject EXCEPT ![c] = p]
    /\ UNCHANGED <<state, reaped, need_resched>>

\* By a fatal signal, or by a write to /sys/proc/<pid>/kill.
proc_kill(c, pid) ==
    LET p == proc_by_pid(pid)
    IN  /\ Kills /\ Runs(c)
        /\ p \in Procs \ (exiting \cup {cur(c)})
        /\ KillRunning(c, p) \/ KillWaiting(c, p)
        /\ UNCHANGED <<priority, wait_chan, sleep_until, in_block_on, no_preempt,
                       switching, current_proc, lifeVars>>

\* The call of proc_exit at the end of proc_kill.
KillExit(c) ==
    LET p == subject[c]
    IN  /\ cpc[c] = "kill"
        /\ \/ p \notin exiting /\ Claim(c, p)
           \/ /\ p \in exiting
              /\ cpc' = [cpc EXCEPT ![c] = "run"]
              /\ subject' = [subject EXCEPT ![c] = NoProc]
              /\ UNCHANGED <<state, reaped, exiting, sleep_until, switching,
                             ready_head, current_proc>>
        /\ UNCHANGED <<priority, wait_chan, in_block_on, no_preempt, need_resched,
                       parent_pid, tgid, pml4, pml4_refcount, spaces, kstack>>

Collectable(c, child) ==
    /\ child \in Procs
    /\ parent_pid[child] = cur(c)
    /\ state[child] = "dead" /\ ~reaped[child]

\* waitpid finds a zombie child.  Without one it yields (LifeYield) or returns.
proc_waitpid(c, pid) ==
    LET child == proc_by_pid(pid)
    IN  /\ Waits /\ Runs(c)
        /\ Collectable(c, child)
        /\ reaped' = [reaped EXCEPT ![child] = TRUE]
        /\ UNCHANGED <<state, priority, wait_chan, sleep_until, in_block_on,
                       no_preempt, switching, ready_head, current_proc,
                       need_resched, cpc, subject, lifeVars>>

-----------------------------------------------------------------------------

\* What Lifecycle takes over from Sched.
SchedStep(c) ==
    /\ \/ context_switch(c)
       \/ proc_make_ready(c)
       \/ proc_sleep(c, "armed")
       \/ \E ch \in Chans : sched_block_on(c, ch, "armed") \/ sched_wake_chan(c, ch)
       \/ timer_tick(c, TRUE)
    /\ UNCHANGED lifeVars

LifeStep(c) ==
    \/ SchedStep(c)
    \/ LifeYield(c)
    \/ proc_fork(c)
    \/ proc_clone(c)
    \/ proc_exec(c)
    \/ SysExit(c)
    \/ LifeExitWake(c)
    \/ LifeExitTeardown(c)
    \/ LifeExitYield(c)
    \/ \E pid \in Procs : proc_kill(c, pid) \/ proc_waitpid(c, pid)
    \/ KillExit(c)

LifeNext ==
    \/ \E c \in CPUs : LifeStep(c)
    \/ \E p \in Procs : DeadlinePasses(p) /\ UNCHANGED lifeVars

LifeSpec == LifeInit /\ [][LifeNext]_allVars

-----------------------------------------------------------------------------
(* Properties. *)

\* The types of the variables of this module and of the ones it extends.
LifeTypeOK ==
    /\ state \in [Procs -> States] /\ reaped \in [Procs -> BOOLEAN]
    /\ priority \in [Procs -> Prios]
    /\ cpc \in [CPUs -> CpuPCs \cup {"kill"}]
    /\ subject \in [CPUs -> Procs \cup {Idle, NoProc}]
    /\ exiting \subseteq Procs
    /\ parent_pid \in [Procs -> Procs \cup {NoProc}]
    /\ tgid \in [Procs -> Procs]
    /\ pml4 \in [Procs -> Spaces \cup {NoSpace}]
    /\ \A p \in Procs : pml4_refcount[p] \in 0..MaxRefs
    /\ spaces \subseteq Spaces
    /\ kstack \subseteq Procs

\* p is being executed: current on a CPU, or leaving it with its registers
\* still unsaved.
OnSomeCpu(p) ==
    \E c \in CPUs : cur(c) = p \/ (cpc[c] = "switch" /\ subject[c] = p)

\* A process that can run has an address space that exists: no exit, exec or
\* kill of anybody else has destroyed it ("only destroy when it reaches 0").
SpaceAlive ==
    \A p \in Procs : state[p] # "dead" => pml4[p] \in spaces

\* The kernel stack of a process that is executing or can be dispatched is not
\* freed (proc_kill: "safe to remove and exit here").
StackAlive ==
    \A p \in Procs : state[p] # "dead" \/ OnSomeCpu(p) => p \in kstack

\* Every address space belongs to somebody who will free it, except while a
\* CPU holds one in proc_exit; none is leaked by exit, kill or exec.
NoSpaceLeak == \A s \in spaces : \E p \in Procs : pml4[p] = s

\* A slot that proc_create may hand out is not executed by any CPU, not in a
\* queue and owns no address space.
FreeSlotIdle ==
    \A p \in FreeSlots :
        /\ ~OnSomeCpu(p) /\ ~Linked(ready_head, p)
        /\ pml4[p] = NoSpace
        /\ \A c \in CPUs : subject[c] # p

\* The queues are exact whenever no victim is between its removal and its exit.
QueuesExactUnlessKilling ==
    (\A c \in CPUs : cpc[c] # "kill") => QueuesExact

\* A slot between proc_create and proc_make_ready is reserved: no second
\* creation gets it ("so the slot is reserved but not visible to the
\* scheduler").
ReservedForOne ==
    \A c, d \in CPUs :
        cpc[c] = "fork" /\ cpc[d] = "fork" /\ subject[c] = subject[d] => c = d

\* wait_chan is set exactly while its owner waits for an event ("Non-NULL when
\* the process is BLOCKED waiting for an event rather than for a deadline").
ChannelMeansEvent ==
    \A p \in Procs : state[p] = "blocked" /\ wait_chan[p] # NoChan => p \in in_block_on

\* A process marked DEAD stays dead until its slot is created anew: the CPU
\* that runs it sees the mark and exits it (proc_kill: "the target CPU's
\* sched_yield will see the DEAD state and call proc_exit").
KilledStaysDead ==
    [][\A p \in Procs :
          /\ state[p] = "dead" /\ ~reaped[p]
          /\ \A c \in CPUs : ~(cpc[c] = "fork" /\ subject[c] = p)
          => state'[p] = "dead"]_allVars

\* Address spaces live exactly as long as they have a user.
SpacesExact == SpaceAlive /\ NoSpaceLeak

\* Slots and queues are exact: what may be created anew is idle, and what waits
\* is linked once.
SlotsExact == LifeTypeOK /\ FreeSlotIdle /\ QueuesExactUnlessKilling

=============================================================================
