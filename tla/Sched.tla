------------------------------- MODULE Sched -------------------------------
(***************************************************************************)
(* The SMP scheduler of kernel/sched/sched.c: process states, the          *)
(* per-priority ready queues, the choice of the next process, the context  *)
(* switch that finishes after sched_lock is released, sleeping and waking, *)
(* deferred preemption, and the creation and exit of processes.            *)
(*                                                                         *)
(* One action is one sched_lock critical section (module TicketLock shows  *)
(* that critical sections do not overlap).  Between two actions of a CPU   *)
(* every other CPU may act: in particular between the release of the lock  *)
(* in __sched_yield_locked and the moment context_switch has saved the     *)
(* outgoing context.  System calls run with interrupts off, so a process   *)
(* in the kernel leaves its CPU only where the code says so.               *)
(***************************************************************************)
EXTENDS Naturals, FiniteSets, Sequences

CONSTANTS
    CPUs,
    Procs,          \* slots of procs[] other than the idle processes
    Chans,          \* wait channels
    NPrio,          \* SCHED_NPRIO
    Idle,           \* a CPU's own idle process
    NoProc, NoChan, \* NULL
    BootCPU,        \* the BSP
    InitProc,       \* the process the BSP adopts at boot
    NoPreemptUsers  \* processes whose program issues SYS_NO_PREEMPT

Prios == 0 .. NPrio - 1
\* Mutant: one past the lowest priority.
PrioPastEnd == NPrio

PRIO_NORMAL == NPrio \div 2      \* 1 of 3

ASSUME SchedAssumption ==
    /\ NPrio \in Nat \ {0}
    /\ BootCPU \in CPUs
    /\ InitProc \in Procs
    /\ Idle \notin Procs
    /\ NoProc \notin Procs \cup {Idle}
    /\ NoChan \notin Chans
    /\ NoProc \notin Chans \cup {NoChan}
    /\ NoPreemptUsers \subseteq Procs

VARIABLES
    state,          \* proc_t.state
    reaped,         \* proc_t.reaped: the slot is free when DEAD and reaped
    priority,       \* proc_t.priority
    wait_chan,      \* proc_t.wait_chan
    sleep_until,    \* proc_t.sleep_until: no deadline, a future or a past one
    in_block_on,    \* processes inside sched_block_on
    no_preempt,     \* processes with proc_t.no_preempt set
    switching,      \* processes with proc_t.switching set
    ready_head,     \* the ready queues
    current_proc,   \* cpu_data_t.current_proc
    need_resched,   \* CPUs with cpu_data_t.need_resched set
    cpc,            \* what each CPU is doing between critical sections
    subject         \* the process a CPU's unfinished operation is about

vars == <<state, reaped, priority, wait_chan, sleep_until, in_block_on,
          no_preempt, switching, ready_head, current_proc, need_resched,
          cpc, subject>>

States == {"dead", "ready", "running", "blocked"}
Deadlines == {"none", "armed", "expired"}

\* "run": in user mode, in the idle loop or about to enter the scheduler;
\* "switch": sched_lock released, outgoing context not yet saved;
\* "fork": between proc_create and proc_make_ready;
\* "exit", "teardown", "exited": the stages of proc_exit.
CpuPCs == {"run", "switch", "fork", "exit", "teardown", "exited"}

cur(c) == current_proc[c]

-----------------------------------------------------------------------------
(* The ready queues. *)

Contains(s, p) == \E i \in 1..Len(s) : s[i] = p

RemoveAt(s, i) == SubSeq(s, 1, i - 1) \o SubSeq(s, i + 1, Len(s))

Linked(rq, p) == \E q \in Prios : Contains(rq[q], p)

\* Position of the first link to p in a queue that has one.
FirstAt(s, p) ==
    CHOOSE i \in 1..Len(s) : s[i] = p /\ \A j \in 1..(i - 1) : s[j] # p

Unlink(rq, q, i) == [rq EXCEPT ![q] = RemoveAt(rq[q], i)]

\* Unlink p from the first queue that holds it.
ready_dequeue(rq, p) ==
    IF ~Linked(rq, p) THEN rq
    ELSE LET q0 == CHOOSE q \in Prios : /\ Contains(rq[q], p)
                                        /\ \A r \in 0..(q - 1) : ~Contains(rq[r], p)
         IN  Unlink(rq, q0, FirstAt(rq[q0], p))

\* Mutant: no scan for an existing link.
EnqueueAlways(rq, p, q) == [rq EXCEPT ![q] = Append(rq[q], p)]

\* Append p to the queue of priority q, unless that queue already holds it.
ready_enqueue(rq, p, q) ==
    IF Contains(rq[q], p) THEN rq ELSE [rq EXCEPT ![q] = Append(rq[q], p)]

-----------------------------------------------------------------------------
(* pick_next_ready and __sched_yield_locked.  The arguments st, su and rq  *)
(* are the process states, the deadlines and the queues at the call, which *)
(* its callers have changed under the same lock.                           *)

Expired(st, su, rq) ==
    {p \in Procs : st[p] = "blocked" /\ su[p] = "expired" /\ Linked(rq, p)}

\* Mutant: a process whose context is still being saved can be picked.
PickableUnsaved(st, rq, q, i) ==
    /\ q \in Prios /\ i \in 1..Len(rq[q])
    /\ st[rq[q][i]] = "ready"

Pickable(st, rq, q, i) ==
    /\ q \in Prios /\ i \in 1..Len(rq[q])
    /\ st[rq[q][i]] = "ready"
    /\ rq[q][i] \notin switching

\* Mutant: the queues are scanned in any order.
IsPickAnyQueue(st, rq, q, i) ==
    /\ Pickable(st, rq, q, i)
    /\ \A j \in 1..(i - 1) : ~Pickable(st, rq, q, j)

\* The scan goes from the highest priority to the lowest, each queue in order.
IsPick(st, rq, q, i) ==
    /\ Pickable(st, rq, q, i)
    /\ \A j \in 1..(i - 1) : ~Pickable(st, rq, q, j)
    /\ \A r \in 0..(q - 1) : \A j \in 1..Len(rq[r]) : ~Pickable(st, rq, r, j)

NoPick(st, rq) ==
    \A q \in Prios : \A i \in 1..Len(rq[q]) : ~Pickable(st, rq, q, i)

\* The recovery scan: READY, unlinked, not live on any CPU.
Stranded(st, rq) ==
    {p \in Procs : /\ st[p] = "ready" /\ p \notin switching
                   /\ \A c \in CPUs : cur(c) # p
                   /\ ~Linked(rq, p)}

\* Switch from the current process to next.  A process that is still RUNNING
\* goes to the back of its queue.  The lock is released before the context is
\* saved, so the outgoing process is marked as switching.
SwitchTo(c, next, st, rq) ==
    LET p == cur(c)
        preempted == p # Idle /\ st[p] = "running"
    IN  /\ state' = [r \in Procs |->
                        IF r = next THEN "running"
                        ELSE IF r = p /\ preempted THEN "ready" ELSE st[r]]
        /\ ready_head' = IF preempted THEN ready_enqueue(rq, p, priority[p]) ELSE rq
        /\ current_proc' = [current_proc EXCEPT ![c] = next]
        /\ switching' = IF p = Idle THEN switching ELSE switching \cup {p}
        /\ cpc' = [cpc EXCEPT ![c] = "switch"]
        /\ subject' = [subject EXCEPT ![c] = p]

\* Mutant: only a blocked process gives way to the idle process.
StayEvenDead(c, st, rq) ==
    LET p == cur(c)
    IN  IF p # Idle /\ st[p] = "blocked"
        THEN SwitchTo(c, Idle, st, rq)
        ELSE /\ state' = [r \in Procs |-> IF r = p THEN "running" ELSE st[r]]
             /\ ready_head' = IF p # Idle /\ st[p] = "ready"
                              THEN ready_dequeue(rq, p) ELSE rq
             /\ cpc' = [cpc EXCEPT ![c] = "run"]
             /\ subject' = [subject EXCEPT ![c] = NoProc]
             /\ UNCHANGED <<current_proc, switching>>

\* The scan gave back the current process: it stays if it can run (a sleeper
\* whose deadline passed meanwhile is RUNNING again), otherwise the CPU idles.
StayOrIdle(c, st, rq) ==
    LET p == cur(c)
    IN  IF p # Idle /\ st[p] \in {"blocked", "dead"}
        THEN SwitchTo(c, Idle, st, rq)
        ELSE /\ state' = [r \in Procs |-> IF r = p THEN "running" ELSE st[r]]
             /\ ready_head' = IF p # Idle /\ st[p] = "ready"
                              THEN ready_dequeue(rq, p) ELSE rq
             /\ cpc' = [cpc EXCEPT ![c] = "run"]
             /\ subject' = [subject EXCEPT ![c] = NoProc]
             /\ UNCHANGED <<current_proc, switching>>

Dispatch(c, next, st, rq) ==
    IF next = cur(c) THEN StayOrIdle(c, st, rq) ELSE SwitchTo(c, next, st, rq)

sched_yield_locked(c, st0, su0, rq0) ==
    LET woken == Expired(st0, su0, rq0)
        st == [p \in Procs |-> IF p \in woken THEN "ready" ELSE st0[p]]
    IN  /\ sleep_until' = [p \in Procs |-> IF p \in woken THEN "none" ELSE su0[p]]
        /\ \/ \E q \in Prios : \E i \in 1..Len(rq0[q]) :
                  /\ IsPick(st, rq0, q, i)
                  /\ Dispatch(c, rq0[q][i], st, Unlink(rq0, q, i))
           \/ /\ NoPick(st, rq0)
              /\ \E next \in IF Stranded(st, rq0) # {} THEN Stranded(st, rq0)
                             ELSE {cur(c)} :
                     Dispatch(c, next, st, rq0)

-----------------------------------------------------------------------------

Init ==
    /\ state = [p \in Procs |-> IF p = InitProc THEN "running" ELSE "dead"]
    /\ reaped = [p \in Procs |-> p # InitProc]
    /\ priority = [p \in Procs |-> PRIO_NORMAL]
    /\ wait_chan = [p \in Procs |-> NoChan]
    /\ sleep_until = [p \in Procs |-> "none"]
    /\ in_block_on = {}
    /\ no_preempt = {}
    /\ switching = {}
    /\ ready_head = [q \in Prios |-> <<>>]
    /\ current_proc = [c \in CPUs |-> IF c = BootCPU THEN InitProc ELSE Idle]
    /\ need_resched = {}
    /\ cpc = [c \in CPUs |-> "run"]
    /\ subject = [c \in CPUs |-> NoProc]

\* CPU c executes a process, in user mode or in a system call.
Runs(c) == cpc[c] = "run" /\ cur(c) # Idle

-----------------------------------------------------------------------------
(* Yielding. *)

\* sched_yield.  A process that another CPU marked DEAD first exits.
sched_yield(c) ==
    IF cur(c) # Idle /\ cpc[c] = "run" /\ state[cur(c)] = "dead"
    THEN /\ cpc' = [cpc EXCEPT ![c] = "exit"]
         /\ reaped' = [reaped EXCEPT ![cur(c)] = FALSE]
         /\ UNCHANGED <<state, sleep_until, switching, ready_head,
                        current_proc, subject>>
    ELSE /\ sched_yield_locked(c, state, sleep_until, ready_head)
         /\ UNCHANGED reaped

\* sys_yield, and the waits that poll: pipes, waitpid, sigsuspend.
SysYield(c) ==
    /\ Runs(c)
    /\ sched_yield(c)
    /\ UNCHANGED <<priority, wait_chan, in_block_on, no_preempt, need_resched>>

\* On the return to user mode from a system call or an interrupt.
sched_check_resched(c) ==
    /\ Runs(c)
    /\ c \in need_resched
    /\ cur(c) \notin no_preempt
    /\ need_resched' = need_resched \ {c}
    /\ sched_yield(c)
    /\ UNCHANGED <<priority, wait_chan, in_block_on, no_preempt>>

sched_idle_loop(c) ==
    /\ cpc[c] = "run" /\ cur(c) = Idle
    /\ c \in need_resched
    /\ need_resched' = need_resched \ {c}
    /\ sched_yield(c)
    /\ UNCHANGED <<priority, wait_chan, in_block_on, no_preempt>>

\* context_switch has saved the outgoing context.  The incoming process
\* continues where it left off; from sched_block_on it leaves the channel.
context_switch(c) ==
    /\ cpc[c] = "switch"
    /\ switching' = switching \ {subject[c]}
    /\ cpc' = [cpc EXCEPT ![c] = "run"]
    /\ subject' = [subject EXCEPT ![c] = NoProc]
    /\ wait_chan' = [p \in Procs |-> IF p = cur(c) /\ p \in in_block_on
                                     THEN NoChan ELSE wait_chan[p]]
    /\ in_block_on' = in_block_on \ {cur(c)}
    /\ UNCHANGED <<state, reaped, priority, sleep_until, no_preempt, ready_head,
                   current_proc, need_resched>>

-----------------------------------------------------------------------------
(* Sleeping and waking.  Ticks pass while sched_lock is held, so a deadline *)
(* may already be over when the scan of the same call looks at it.          *)

Block(c, deadline) ==
    LET p == cur(c)
    IN  sched_yield_locked(c, [state EXCEPT ![p] = "blocked"],
                           [sleep_until EXCEPT ![p] = deadline],
                           ready_enqueue(ready_head, p, priority[p]))

proc_sleep(c, deadline) ==
    /\ Runs(c)
    /\ Block(c, deadline)
    /\ UNCHANGED <<reaped, priority, wait_chan, in_block_on, no_preempt, need_resched>>

\* When the scan gives the caller back, it never left its CPU and clears its
\* channel at once.
sched_block_on(c, chan, deadline) ==
    LET p == cur(c)
    IN  /\ Runs(c)
        /\ Block(c, deadline)
        /\ \/ /\ cpc'[c] = "run"
              /\ wait_chan' = [wait_chan EXCEPT ![p] = NoChan]
              /\ UNCHANGED in_block_on
           \/ /\ cpc'[c] = "switch"
              /\ wait_chan' = [wait_chan EXCEPT ![p] = chan]
              /\ in_block_on' = in_block_on \cup {p}
        /\ UNCHANGED <<reaped, priority, no_preempt, need_resched>>

\* Mutant: a wake-up that stops at the first waiter.
FirstWaiter(chan) ==
    LET all == {p \in Procs : state[p] = "blocked" /\ wait_chan[p] = chan}
    IN  IF all = {} THEN {} ELSE {CHOOSE p \in all : TRUE}

Waiters(chan) ==
    {p \in Procs : /\ state[p] = "blocked" /\ wait_chan[p] = chan
                   /\ Linked(ready_head, p)}

\* The locked part of sched_wake_chan, and the local reschedule request.
WakeChan(c, chan) ==
    LET woken == Waiters(chan)
    IN  /\ state' = [p \in Procs |-> IF p \in woken THEN "ready" ELSE state[p]]
        /\ wait_chan' = [p \in Procs |-> IF p \in woken THEN NoChan ELSE wait_chan[p]]
        /\ sleep_until' = [p \in Procs |-> IF p \in woken THEN "none" ELSE sleep_until[p]]
        /\ need_resched' = IF woken # {} THEN need_resched \cup {c} ELSE need_resched

sched_wake_chan(c, chan) ==
    /\ Runs(c)
    /\ WakeChan(c, chan)
    /\ UNCHANGED <<reaped, priority, in_block_on, no_preempt, switching,
                   ready_head, current_proc, cpc, subject>>

\* Mutant: the timer wakes sleepers and requests no reschedule.
TickNoResched(c, locked) ==
    LET woken == IF locked THEN Expired(state, sleep_until, ready_head) ELSE {}
    IN  /\ cpc[c] = "run"
        /\ state' = [p \in Procs |-> IF p \in woken THEN "ready" ELSE state[p]]
        /\ sleep_until' = [p \in Procs |-> IF p \in woken THEN "none" ELSE sleep_until[p]]
        /\ UNCHANGED <<reaped, priority, wait_chan, in_block_on, no_preempt, switching,
                       ready_head, current_proc, need_resched, cpc, subject>>

\* The timer interrupt of a CPU: sched_wake_sleepers, which gives up when
\* another CPU holds sched_lock (locked is FALSE), and a reschedule request.
timer_tick(c, locked) ==
    LET woken == IF locked THEN Expired(state, sleep_until, ready_head) ELSE {}
    IN  /\ cpc[c] = "run"
        /\ state' = [p \in Procs |-> IF p \in woken THEN "ready" ELSE state[p]]
        /\ sleep_until' = [p \in Procs |-> IF p \in woken THEN "none" ELSE sleep_until[p]]
        /\ need_resched' = need_resched \cup {c}
        /\ UNCHANGED <<reaped, priority, wait_chan, in_block_on, no_preempt,
                       switching, ready_head, current_proc, cpc, subject>>

\* g_global_ticks reaches the deadline of p.
DeadlinePasses(p) ==
    /\ sleep_until[p] = "armed"
    /\ sleep_until' = [sleep_until EXCEPT ![p] = "expired"]
    /\ UNCHANGED <<state, reaped, priority, wait_chan, in_block_on, no_preempt,
                   switching, ready_head, current_proc, need_resched, cpc, subject>>

-----------------------------------------------------------------------------
(* Priorities and preemption control. *)

\* By exec on the caller, or by a write to /sys/proc/<pid>/prio on any process
\* whose slot is in use.
proc_set_priority(c, p, prio) ==
    LET on_queue == state[p] \in {"ready", "blocked"}
        rq == IF on_queue /\ priority[p] # prio
              THEN ready_dequeue(ready_head, p) ELSE ready_head
    IN  /\ Runs(c)
        /\ state[p] # "dead" \/ ~reaped[p]
        /\ priority' = [priority EXCEPT ![p] = prio]
        /\ ready_head' = IF on_queue THEN ready_enqueue(rq, p, prio) ELSE rq
        /\ UNCHANGED <<state, reaped, wait_chan, sleep_until, in_block_on,
                       no_preempt, switching, current_proc, need_resched, cpc, subject>>

sys_no_preempt(c, enable) ==
    /\ Runs(c)
    /\ cur(c) \in NoPreemptUsers
    /\ no_preempt' = IF enable THEN no_preempt \cup {cur(c)} ELSE no_preempt \ {cur(c)}
    /\ UNCHANGED <<state, reaped, priority, wait_chan, sleep_until, in_block_on,
                   switching, ready_head, current_proc, need_resched, cpc, subject>>

-----------------------------------------------------------------------------
(* Creation and exit. *)

\* proc_create, called by fork and clone, which then give the child the
\* caller's priority.  Any free slot stands for the lowest one.
proc_create(c, p) ==
    /\ Runs(c)
    /\ state[p] = "dead" /\ reaped[p]
    /\ reaped' = [reaped EXCEPT ![p] = FALSE]
    /\ sleep_until' = [sleep_until EXCEPT ![p] = "none"]
    /\ no_preempt' = no_preempt \ {p}
    /\ switching' = switching \ {p}
    /\ priority' = [priority EXCEPT ![p] = priority[cur(c)]]
    /\ cpc' = [cpc EXCEPT ![c] = "fork"]
    /\ subject' = [subject EXCEPT ![c] = p]
    /\ UNCHANGED <<state, wait_chan, in_block_on, ready_head, current_proc, need_resched>>

\* The reschedule IPI reaches all other CPUs.
proc_make_ready(c) ==
    LET p == subject[c]
    IN  /\ cpc[c] = "fork"
        /\ state' = [state EXCEPT ![p] = "ready"]
        /\ ready_head' = ready_enqueue(ready_head, p, priority[p])
        /\ need_resched' = need_resched \cup (CPUs \ {c})
        /\ cpc' = [cpc EXCEPT ![c] = "run"]
        /\ subject' = [subject EXCEPT ![c] = NoProc]
        /\ UNCHANGED <<reaped, priority, wait_chan, sleep_until, in_block_on,
                       no_preempt, switching, current_proc>>

\* proc_exit by sys_exit or a fatal fault: claim the exit ...
proc_exit(c) ==
    /\ Runs(c)
    /\ state' = [state EXCEPT ![cur(c)] = "dead"]
    /\ reaped' = [reaped EXCEPT ![cur(c)] = FALSE]
    /\ cpc' = [cpc EXCEPT ![c] = "exit"]
    /\ UNCHANGED <<priority, wait_chan, sleep_until, in_block_on, no_preempt,
                   switching, ready_head, current_proc, need_resched, subject>>

\* ... wake the waiters on clear_tid_addr, if the thread has one ...
ExitWake(c, chan) ==
    /\ cpc[c] = "exit"
    /\ cpc' = [cpc EXCEPT ![c] = "teardown"]
    /\ \/ chan # NoChan /\ WakeChan(c, chan)
       \/ chan = NoChan /\ UNCHANGED <<state, wait_chan, sleep_until, need_resched>>
    /\ UNCHANGED <<reaped, priority, in_block_on, no_preempt, switching,
                   ready_head, current_proc, subject>>

\* ... leave the queues after the address space is gone ...
ExitTeardown(c) ==
    /\ cpc[c] = "teardown"
    /\ cpc' = [cpc EXCEPT ![c] = "exited"]
    /\ ready_head' = ready_dequeue(ready_head, cur(c))
    /\ UNCHANGED <<state, reaped, priority, wait_chan, sleep_until, in_block_on,
                   no_preempt, switching, current_proc, need_resched, subject>>

\* ... and give up the CPU for good.
ExitYield(c) ==
    /\ cpc[c] = "exited"
    /\ sched_yield(c)
    /\ UNCHANGED <<priority, wait_chan, in_block_on, no_preempt, need_resched>>

-----------------------------------------------------------------------------

CpuStep(c) ==
    \/ SysYield(c)
    \/ sched_check_resched(c)
    \/ sched_idle_loop(c)
    \/ context_switch(c)
    \/ \E d \in {"armed", "expired"} : proc_sleep(c, d)
    \/ \E ch \in Chans, d \in {"armed", "expired"} : sched_block_on(c, ch, d)
    \/ \E ch \in Chans : sched_wake_chan(c, ch)
    \/ \E locked \in BOOLEAN : timer_tick(c, locked)
    \/ \E p \in Procs, q \in Prios : proc_set_priority(c, p, q)
    \/ \E enable \in BOOLEAN : sys_no_preempt(c, enable)
    \/ \E p \in Procs : proc_create(c, p)
    \/ proc_make_ready(c)
    \/ proc_exit(c)
    \/ \E ch \in Chans \cup {NoChan} : ExitWake(c, ch)
    \/ ExitTeardown(c)
    \/ ExitYield(c)

Next ==
    \/ \E c \in CPUs : CpuStep(c)
    \/ \E p \in Procs : DeadlinePasses(p)

Spec == Init /\ [][Next]_vars

\* What a CPU does in the kernel with interrupts off before it is back at a
\* safe point.
Continue(c) ==
    \/ context_switch(c)
    \/ proc_make_ready(c)
    \/ \E ch \in Chans \cup {NoChan} : ExitWake(c, ch)
    \/ ExitTeardown(c)
    \/ ExitYield(c)

\* Timer interrupts reach every CPU that runs with interrupts on, the safe
\* points consume the request, kernel code goes on, and ticks pass.
Fairness ==
    /\ \A c \in CPUs :
          /\ WF_vars(\E locked \in BOOLEAN : timer_tick(c, locked))
          /\ WF_vars(sched_check_resched(c) \/ sched_idle_loop(c))
          /\ WF_vars(Continue(c))
    /\ \A p \in Procs : WF_vars(DeadlinePasses(p))

FairSpec == Spec /\ Fairness

-----------------------------------------------------------------------------
(* Properties. *)

\* The types of the scheduler's variables.
TypeOK ==
    /\ state \in [Procs -> States]
    /\ reaped \in [Procs -> BOOLEAN]
    /\ priority \in [Procs -> Prios]
    /\ wait_chan \in [Procs -> Chans \cup {NoChan}]
    /\ sleep_until \in [Procs -> Deadlines]
    /\ in_block_on \subseteq Procs
    /\ no_preempt \subseteq Procs
    /\ switching \subseteq Procs
    /\ ready_head \in [Prios -> Seq(Procs)]
    /\ current_proc \in [CPUs -> Procs \cup {Idle}]
    /\ need_resched \subseteq CPUs
    /\ cpc \in [CPUs -> CpuPCs]
    /\ subject \in [CPUs -> Procs \cup {Idle, NoProc}]

\* Two CPUs never execute one process: no process is current on two CPUs, and
\* none is current on one CPU while another has yet to save its context
\* (pick_next_ready: "two CPUs on one kernel stack corrupts saved contexts").
OneCpuPerProcess ==
    \A c, d \in CPUs : c # d =>
        /\ cur(c) = cur(d) => cur(c) = Idle
        /\ cpc[c] = "switch" /\ subject[c] = cur(d) => cur(d) = Idle

Waiting == {"ready", "blocked"}

Exact(st, rq, pr) ==
    /\ \A q, r \in Prios : \A i \in 1..Len(rq[q]), j \in 1..Len(rq[r]) :
          rq[q][i] = rq[r][j] => q = r /\ i = j
    /\ \A q \in Prios : \A i \in 1..Len(rq[q]) :
          st[rq[q][i]] \in Waiting /\ pr[rq[q][i]] = q
    /\ \A p \in Procs : st[p] \in Waiting => Linked(rq, p)

\* The ready lists hold exactly the READY and BLOCKED processes, once each, in
\* the queue of their priority.  A second link would be a list cycle or a
\* second dispatch, a missing one a process that no wake-up finds again, and
\* the recovery scan of pick_next_ready is never needed.
QueuesExact == Exact(state, ready_head, priority)

\* A CPU that takes up a process takes one of the highest priority among those
\* that wait READY with their context saved ("PRIO_HIGH is always drained
\* before PRIO_NORMAL"), and goes idle only when there is none.
DispatchesHighest ==
    [][\A c \in CPUs : current_proc'[c] # cur(c) =>
          \A p \in Procs : state'[p] = "ready" /\ p \notin switching' =>
              /\ current_proc'[c] # Idle
              /\ priority[current_proc'[c]] <= priority[p]]_vars

\* Blocking and waking implement the wait channels of SleepQueue: a wake-up
\* reaches everybody asleep on the channel, and nobody else wakes early.
Sleep == INSTANCE SleepQueue WITH
    Awake <- NoProc,
    asleep <- [p \in Procs |-> IF state[p] = "blocked" THEN wait_chan[p] ELSE NoProc],
    due <- {p \in Procs : state[p] = "blocked" /\ sleep_until[p] = "expired"}
ImplementsSleepQueue == Sleep!Spec

\* With one priority and no process that disables preemption, everybody who
\* waits, READY or BLOCKED, runs again: idle CPUs pick up work, sleepers time
\* out, and a process whose context is being saved is not skipped forever.
WaitersRun ==
    \A p \in Procs : state[p] \in {"ready", "blocked"} ~> state[p] = "running"

-----------------------------------------------------------------------------
(* The inductive invariant behind OneCpuPerProcess and QueuesExact. *)

\* The process on a CPU is RUNNING until its exit is claimed, no process is on
\* two CPUs, and the idle process neither forks nor exits.
CurrentInv ==
    /\ \A c \in CPUs : cur(c) # Idle =>
          /\ state[cur(c)] = IF cpc[c] \in {"run", "switch", "fork"} THEN "running" ELSE "dead"
          /\ \A d \in CPUs : d # c => cur(d) # cur(c)
    /\ \A c \in CPUs : cpc[c] \notin {"run", "switch"} => cur(c) # Idle

\* A process marked as switching is not on any CPU, and every CPU in the middle
\* of a switch has its own such process.
SwitchInv ==
    /\ \A c \in CPUs : cpc[c] \notin {"switch", "fork"} => subject[c] = NoProc
    /\ \A c \in CPUs : cpc[c] = "switch" => subject[c] \in switching \cup {Idle}
    /\ \A c \in CPUs : cpc[c] = "fork" =>
          /\ subject[c] \in Procs
          /\ state[subject[c]] = "dead"
    /\ \A c, d \in CPUs : subject[c] \in Procs =>
          /\ cur(d) # subject[c]
          /\ subject[d] = subject[c] => d = c
    /\ \A c \in CPUs : cur(c) \notin switching

\* A free slot is in nobody's hands.
FreeInv ==
    \A p \in Procs : reaped[p] =>
        /\ state[p] = "dead"
        /\ \A c \in CPUs : cur(c) # p /\ subject[c] # p

SchedInv == TypeOK /\ QueuesExact /\ CurrentInv /\ SwitchInv /\ FreeInv

=============================================================================
