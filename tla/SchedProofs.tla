---------------------------- MODULE SchedProofs ----------------------------
(***************************************************************************)
(* The invariant of the scheduler, for any number of CPUs, processes,      *)
(* channels and priorities, and the properties that follow from it; that   *)
(* the scheduler takes up a process of the highest priority; and that      *)
(* blocking and waking implement the abstract sleep queue.                 *)
(***************************************************************************)
EXTENDS SchedYieldProofs

-----------------------------------------------------------------------------
(* The actions. *)

\* A CPU at a safe point, or at the end of an exit, may call the scheduler.
LEMMA DriftState ==
    ASSUME SchedInv, NEW c \in CPUs, cpc[c] \in {"run", "exited"}
    PROVE  /\ Yielding(c) /\ Drift(c, state)
           /\ cur(c) \in Procs \cup {Idle}
           /\ cur(c) # Idle /\ cpc[c] = "run" => state[cur(c)] = "running"
BY DEF SchedInv, CurrentInv, TypeOK, Yielding, Drift, cur

\* The actions that only yield: SysYield, sched_check_resched, sched_idle_loop
\* and ExitYield.
LEMMA YieldActions ==
    ASSUME SchedInv, NEW c \in CPUs, cpc[c] \in {"run", "exited"}, sched_yield(c),
           need_resched' \subseteq CPUs,
           UNCHANGED <<priority, wait_chan, in_block_on, no_preempt>>
    PROVE  SchedInv'
<1>1. ~(cur(c) # Idle /\ cpc[c] = "run" /\ state[cur(c)] = "dead")
  BY DriftState
<1>2. sched_yield_locked(c, state, sleep_until, ready_head) /\ reaped' = reaped
  BY <1>1 DEF sched_yield
<1>3. /\ sleep_until \in [Procs -> Deadlines] /\ ready_head \in Queues
      /\ Exact(state, ready_head, priority)
  BY SMTT(60) DEF SchedInv, TypeOK, Queues, QueuesExact
<1>4. /\ sleep_until' \in [Procs -> Deadlines]
      /\ current_proc' \in [CPUs -> Procs \cup {Idle}] /\ switching' \subseteq Procs
      /\ cpc' \in [CPUs -> CpuPCs] /\ subject' \in [CPUs -> Procs \cup {Idle, NoProc}]
      /\ state' \in [Procs -> States] /\ ready_head' \in Queues
      /\ QueuesExact' /\ CurrentInv' /\ SwitchInv' /\ FreeInv'
  BY ZenonT(60), <1>2, <1>3, DriftState, YieldPreserves
<1>5. TypeOK'
  BY <1>2, <1>4 DEF SchedInv, TypeOK, Queues
<1> QED BY <1>4, <1>5 DEF SchedInv

\* proc_sleep and sched_block_on: the caller is linked as BLOCKED before the
\* scan, so that it can be found again.
LEMMA BlockActions ==
    ASSUME SchedInv, NEW c \in CPUs, Runs(c), NEW d \in Deadlines, Block(c, d),
           wait_chan' \in [Procs -> Chans \cup {NoChan}], in_block_on' \subseteq Procs,
           UNCHANGED <<reaped, priority, no_preempt, need_resched>>
    PROVE  SchedInv'
<1> DEFINE p == cur(c)
           st0 == [state EXCEPT ![p] = "blocked"]
           su0 == [sleep_until EXCEPT ![p] = d]
           rq0 == ready_enqueue(ready_head, p, priority[p])
<1>1. p \in Procs /\ cpc[c] = "run" /\ state[p] = "running" /\ Yielding(c)
  BY DriftState DEF Runs
<1>2. /\ sleep_until \in [Procs -> Deadlines] /\ ready_head \in Queues
      /\ state \in [Procs -> States] /\ priority \in [Procs -> Prios]
      /\ Exact(state, ready_head, priority)
  BY DEF SchedInv, TypeOK, Queues, QueuesExact
<1>3. rq0 \in Queues /\ Exact(st0, rq0, priority)
  <2>1. state[p] \notin Waiting /\ "blocked" \in Waiting
    BY <1>1 DEF Waiting
  <2> HIDE DEF p
  <2> QED BY ZenonT(60), <1>1, <1>2, <2>1, EnqueueExact
<1>4. su0 \in [Procs -> Deadlines]
  BY ZenonT(60), <1>2
<1>5. Drift(c, st0)
  BY <1>1, <1>2 DEF Drift, States
<1>6. sched_yield_locked(c, st0, su0, rq0)
  BY DEF Block
<1> HIDE DEF st0, su0, rq0
<1>7. /\ sleep_until' \in [Procs -> Deadlines]
      /\ current_proc' \in [CPUs -> Procs \cup {Idle}] /\ switching' \subseteq Procs
      /\ cpc' \in [CPUs -> CpuPCs] /\ subject' \in [CPUs -> Procs \cup {Idle, NoProc}]
      /\ state' \in [Procs -> States] /\ ready_head' \in Queues
      /\ QueuesExact' /\ CurrentInv' /\ SwitchInv' /\ FreeInv'
  BY ZenonT(60), <1>1, <1>3, <1>4, <1>5, <1>6, YieldPreserves
<1>8. TypeOK'
  BY <1>7 DEF SchedInv, TypeOK, Queues
<1> QED BY <1>7, <1>8 DEF SchedInv

-----------------------------------------------------------------------------
(* Waking up, creating and ending processes. *)

\* A wake-up only turns BLOCKED processes READY where they are linked.
LEMMA WakePreserves ==
    ASSUME SchedInv, state' \in [Procs -> States],
           \A p \in Procs : state'[p] = state[p] \/ (state[p] = "blocked" /\ state'[p] = "ready"),
           UNCHANGED <<reaped, priority, switching, ready_head, current_proc, subject>>,
           cpc' \in [CPUs -> CpuPCs],
           \A c \in CPUs : cpc'[c] = cpc[c] \/ (cpc[c] = "exit" /\ cpc'[c] = "teardown")
    PROVE  QueuesExact' /\ CurrentInv' /\ SwitchInv' /\ FreeInv'
<1>1. /\ \A p \in Procs : state[p] \in Waiting <=> state'[p] \in Waiting
      /\ \A p \in Procs : state[p] \in {"running", "dead"} => state'[p] = state[p]
  BY DEF Waiting
<1>2. QueuesExact'
  <2>1. /\ state \in [Procs -> States] /\ ready_head \in Queues
        /\ priority \in [Procs -> Prios] /\ Exact(state, ready_head, priority)
    BY DEF SchedInv, TypeOK, Queues, QueuesExact
  <2>2. Exact(state', ready_head, priority)
    BY <1>1, <2>1, RelabelExact
  <2> QED BY <2>2 DEF QueuesExact
<1>3. \A c \in CPUs : cur(c)' = cur(c) /\ cur(c) \in Procs \cup {Idle}
  BY DEF SchedInv, TypeOK, cur
<1>4. CurrentInv'
  BY <1>1, <1>3 DEF SchedInv, CurrentInv
<1>5. SwitchInv'
  <2>1. \A c \in CPUs : /\ cpc'[c] = "fork" <=> cpc[c] = "fork"
                        /\ cpc'[c] = "switch" <=> cpc[c] = "switch"
    OBVIOUS
  <2> QED BY <1>1, <1>3, <2>1 DEF SchedInv, SwitchInv
<1>6. FreeInv'
  BY <1>1, <1>3 DEF SchedInv, FreeInv
<1> QED BY <1>2, <1>4, <1>5, <1>6

\* sched_wake_chan, also when called by proc_exit.
LEMMA WakeChanPreserves ==
    ASSUME SchedInv, NEW c \in CPUs, NEW chan \in Chans, WakeChan(c, chan),
           UNCHANGED <<reaped, priority, in_block_on, no_preempt, switching, ready_head,
                       current_proc, subject>>,
           cpc' \in [CPUs -> CpuPCs],
           \A e \in CPUs : cpc'[e] = cpc[e] \/ (cpc[e] = "exit" /\ cpc'[e] = "teardown")
    PROVE  SchedInv'
<1>1. /\ state' \in [Procs -> States]
      /\ \A p \in Procs : state'[p] = state[p] \/ (state[p] = "blocked" /\ state'[p] = "ready")
      /\ wait_chan' \in [Procs -> Chans \cup {NoChan}]
      /\ sleep_until' \in [Procs -> Deadlines]
      /\ need_resched' \subseteq CPUs
  BY DEF WakeChan, Waiters, SchedInv, TypeOK, States, Deadlines
<1>2. QueuesExact' /\ CurrentInv' /\ SwitchInv' /\ FreeInv'
  BY <1>1, WakePreserves
<1>3. TypeOK'
  BY <1>1 DEF SchedInv, TypeOK
<1> QED BY <1>2, <1>3 DEF SchedInv

\* The timer interrupt.
LEMMA TimerPreserves ==
    ASSUME SchedInv, NEW c \in CPUs, NEW locked \in BOOLEAN, timer_tick(c, locked)
    PROVE  SchedInv'
<1>1. /\ state' \in [Procs -> States]
      /\ \A p \in Procs : state'[p] = state[p] \/ (state[p] = "blocked" /\ state'[p] = "ready")
      /\ sleep_until' \in [Procs -> Deadlines]
      /\ need_resched' \subseteq CPUs
  BY DEF timer_tick, Expired, SchedInv, TypeOK, States, Deadlines
<1>2. UNCHANGED <<reaped, priority, wait_chan, in_block_on, no_preempt,
                  switching, ready_head, current_proc, cpc, subject>>
  BY DEF timer_tick
<1>3. cpc' \in [CPUs -> CpuPCs]
  BY <1>2 DEF SchedInv, TypeOK
<1>4. QueuesExact' /\ CurrentInv' /\ SwitchInv' /\ FreeInv'
  BY <1>1, <1>2, <1>3, WakePreserves
<1>5. TypeOK'
  BY <1>1, <1>2 DEF SchedInv, TypeOK
<1> QED BY <1>4, <1>5 DEF SchedInv

\* context_switch ends the switch of exactly one process.
LEMMA ContextSwitchPreserves ==
    ASSUME SchedInv, NEW c \in CPUs, context_switch(c)
    PROVE  SchedInv'
<1>1. /\ cpc[c] = "switch" /\ subject[c] \in switching \cup {Idle}
      /\ cpc' = [cpc EXCEPT ![c] = "run"]
      /\ subject' = [subject EXCEPT ![c] = NoProc]
      /\ switching' = switching \ {subject[c]}
      /\ UNCHANGED <<state, reaped, priority, ready_head, current_proc>>
  BY DEF context_switch, SchedInv, SwitchInv
<1>2. TypeOK'
  BY DEF context_switch, SchedInv, TypeOK, CpuPCs
<1>3. /\ \A d \in CPUs : cpc'[d] = IF d = c THEN "run" ELSE cpc[d]
      /\ \A d \in CPUs : subject'[d] = IF d = c THEN NoProc ELSE subject[d]
      /\ \A d \in CPUs : cur(d)' = cur(d)
      /\ NoProc \notin Procs
  BY <1>1, SchedAssumption DEF SchedInv, TypeOK, cur
<1>4. QueuesExact'
  BY <1>1 DEF SchedInv, QueuesExact
<1>5. CurrentInv'
  BY <1>1, <1>3 DEF SchedInv, CurrentInv
<1>6. SwitchInv'
  <2>1. ASSUME NEW d \in CPUs, cpc'[d] = "switch"
        PROVE  subject'[d] \in switching' \cup {Idle}
    <3>1. d # c /\ subject'[d] = subject[d] /\ subject[d] \in switching \cup {Idle}
      BY <1>3, <2>1 DEF SchedInv, SwitchInv
    <3>2. subject[d] # Idle => subject[d] \in Procs /\ subject[d] # subject[c]
      BY <3>1 DEF SchedInv, SwitchInv, TypeOK
    <3> QED BY <1>1, <3>1, <3>2
  <2>2. \A d \in CPUs : cpc'[d] \notin {"switch", "fork"} => subject'[d] = NoProc
    BY <1>3 DEF SchedInv, SwitchInv
  <2>3. \A d \in CPUs : cpc'[d] = "fork" =>
            subject'[d] \in Procs /\ state'[subject'[d]] = "dead"
    BY <1>1, <1>3 DEF SchedInv, SwitchInv
  <2>4. \A d, e \in CPUs : subject'[d] \in Procs =>
            cur(e)' # subject'[d] /\ (subject'[e] = subject'[d] => e = d)
    BY <1>3 DEF SchedInv, SwitchInv
  <2>5. \A d \in CPUs : cur(d)' \notin switching'
    BY <1>1, <1>3 DEF SchedInv, SwitchInv
  <2> QED BY ZenonT(60), <2>1, <2>2, <2>3, <2>4, <2>5 DEF SwitchInv
<1>7. FreeInv'
  BY <1>1, <1>3 DEF SchedInv, FreeInv
<1> QED BY <1>2, <1>4, <1>5, <1>6, <1>7 DEF SchedInv

\* proc_set_priority moves a READY or BLOCKED process to the queue of its new
\* priority and touches no other queue entry.
LEMMA SetPriorityPreserves ==
    ASSUME SchedInv, NEW c \in CPUs, NEW p \in Procs, NEW prio \in Prios,
           proc_set_priority(c, p, prio)
    PROVE  SchedInv'
<1> DEFINE on_queue == state[p] \in Waiting
           rq == IF on_queue /\ priority[p] # prio
                 THEN ready_dequeue(ready_head, p) ELSE ready_head
<1>1. /\ priority' = [priority EXCEPT ![p] = prio]
      /\ ready_head' = IF on_queue THEN ready_enqueue(rq, p, prio) ELSE rq
      /\ UNCHANGED <<state, reaped, wait_chan, sleep_until, in_block_on,
                     no_preempt, switching, current_proc, need_resched, cpc, subject>>
  BY DEF proc_set_priority, Waiting
<1>2. /\ state \in [Procs -> States] /\ ready_head \in Queues
      /\ priority \in [Procs -> Prios] /\ Exact(state, ready_head, priority)
      /\ priority' \in [Procs -> Prios]
  BY <1>1 DEF SchedInv, TypeOK, Queues, QueuesExact
<1>3. ready_head' \in Queues /\ Exact(state, ready_head', priority')
  <2>1. CASE ~on_queue
    <3>1. ready_head' = ready_head
      BY <1>1, <2>1
    <3>2. \A x \in Procs : state[x] \in Waiting => priority[x] = priority'[x]
      BY <1>1, <1>2, <2>1
    <3> QED BY <1>2, <3>1, <3>2, RelabelExact
  <2>2. CASE on_queue /\ priority[p] = prio
    <3>1. priority' = priority
      BY <1>1, <1>2, <2>2
    <3>2. Contains(ready_head[prio], p)
      BY <1>2, <2>2, LinkedOnce DEF Contains
    <3>3. ready_head' = ready_head
      BY <1>1, <2>2, <3>2 DEF ready_enqueue
    <3> QED BY <1>2, <3>1, <3>3
  <2>3. CASE on_queue /\ priority[p] # prio
    <3> DEFINE u == ready_dequeue(ready_head, p)
               off == [state EXCEPT ![p] = "dead"]
    <3>1. "dead" \in States \ Waiting /\ state[p] \in Waiting
      BY <2>3 DEF States, Waiting
    <3>2. u \in Queues /\ Exact(off, u, priority)
      BY ZenonT(60), <1>2, <3>1, DequeueExact
    <3>3. /\ off \in [Procs -> States] /\ off[p] \notin Waiting
          /\ \A x \in Procs : off[x] \in Waiting => priority[x] = priority'[x]
          /\ state = [off EXCEPT ![p] = state[p]]
      BY ZenonT(60), <1>1, <1>2, <3>1
    <3> HIDE DEF u, off
    <3>4. Exact(off, u, priority')
      BY <1>2, <3>2, <3>3, RelabelExact
    <3>5. /\ ready_enqueue(u, p, priority'[p]) \in Queues
          /\ Exact([off EXCEPT ![p] = state[p]], ready_enqueue(u, p, priority'[p]), priority')
      BY ZenonT(60), <1>2, <3>1, <3>2, <3>3, <3>4, EnqueueExact
    <3>6. ready_head' = ready_enqueue(u, p, priority'[p])
      BY <1>1, <1>2, <2>3 DEF u
    <3> QED BY ZenonT(60), <3>3, <3>5, <3>6
  <2> QED BY <2>1, <2>2, <2>3
<1>4. TypeOK'
  BY <1>1, <1>2, <1>3 DEF SchedInv, TypeOK, Queues
<1>5. QueuesExact'
  BY ZenonT(60), <1>1, <1>3 DEF QueuesExact
<1>6. CurrentInv' /\ SwitchInv' /\ FreeInv'
  BY <1>1 DEF SchedInv, CurrentInv, SwitchInv, FreeInv, cur
<1> QED BY <1>4, <1>5, <1>6 DEF SchedInv

\* proc_create takes a slot nobody uses.
LEMMA CreatePreserves ==
    ASSUME SchedInv, NEW c \in CPUs, NEW p \in Procs, proc_create(c, p)
    PROVE  SchedInv'
<1>1. /\ cpc[c] = "run" /\ cur(c) # Idle /\ cur(c) \in Procs /\ state[p] = "dead" /\ reaped[p]
      /\ reaped' = [reaped EXCEPT ![p] = FALSE]
      /\ priority' = [priority EXCEPT ![p] = priority[cur(c)]]
      /\ switching' = switching \ {p}
      /\ cpc' = [cpc EXCEPT ![c] = "fork"]
      /\ subject' = [subject EXCEPT ![c] = p]
      /\ UNCHANGED <<state, ready_head, current_proc>>
  BY DEF proc_create, Runs, SchedInv, TypeOK, cur
<1>2. \A d \in CPUs : cur(d) # p /\ subject[d] # p
  BY <1>1 DEF SchedInv, FreeInv
<1>3. TypeOK'
  BY <1>1 DEF proc_create, SchedInv, TypeOK, Deadlines, CpuPCs
<1>4. /\ \A d \in CPUs : cpc'[d] = IF d = c THEN "fork" ELSE cpc[d]
      /\ \A d \in CPUs : subject'[d] = IF d = c THEN p ELSE subject[d]
      /\ \A d \in CPUs : cur(d)' = cur(d)
      /\ p # Idle
  BY <1>1, SchedAssumption DEF SchedInv, TypeOK, cur
<1>5. QueuesExact'
  <2>1. /\ state \in [Procs -> States] /\ ready_head \in Queues
        /\ priority \in [Procs -> Prios] /\ Exact(state, ready_head, priority)
    BY DEF SchedInv, TypeOK, Queues, QueuesExact
  <2>2. \A x \in Procs : state[x] \in Waiting => priority[x] = priority'[x]
    BY <1>1, <2>1 DEF Waiting
  <2>3. Exact(state, ready_head, priority')
    BY ZenonT(60), <2>1, <2>2, RelabelExact
  <2> QED BY <1>1, <2>3 DEF QueuesExact
<1>6. CurrentInv'
  BY <1>1, <1>4 DEF SchedInv, CurrentInv
<1>7. SwitchInv'
  <2>1. \A d \in CPUs : cpc'[d] \notin {"switch", "fork"} => subject'[d] = NoProc
    BY <1>4 DEF SchedInv, SwitchInv
  <2>2. \A d \in CPUs : cpc'[d] = "switch" => subject'[d] \in switching' \cup {Idle}
    BY SMTT(60), <1>1, <1>2, <1>4 DEF SchedInv, SwitchInv
  <2>3. \A d \in CPUs : cpc'[d] = "fork" =>
            subject'[d] \in Procs /\ state'[subject'[d]] = "dead"
    BY SMTT(60), <1>1, <1>4 DEF SchedInv, SwitchInv
  <2>4. \A d, e \in CPUs : subject'[d] \in Procs =>
            cur(e)' # subject'[d] /\ (subject'[e] = subject'[d] => e = d)
    BY <1>2, <1>4 DEF SchedInv, SwitchInv
  <2>5. \A d \in CPUs : cur(d)' \notin switching'
    BY <1>1, <1>4 DEF SchedInv, SwitchInv
  <2> QED BY ZenonT(60), <2>1, <2>2, <2>3, <2>4, <2>5 DEF SwitchInv
<1>8. FreeInv'
  <2> SUFFICES ASSUME NEW x \in Procs, reaped'[x]
               PROVE  /\ state'[x] = "dead"
                      /\ \A d \in CPUs : cur(d)' # x /\ subject'[d] # x
    BY DEF FreeInv
  <2>1. x # p /\ reaped[x]
    BY ZenonT(60), <1>1 DEF SchedInv, TypeOK
  <2> QED BY SMTT(60), <1>1, <1>4, <2>1 DEF SchedInv, FreeInv
<1> QED BY <1>3, <1>5, <1>6, <1>7, <1>8 DEF SchedInv

\* proc_make_ready links the new process.
LEMMA MakeReadyPreserves ==
    ASSUME SchedInv, NEW c \in CPUs, proc_make_ready(c)
    PROVE  SchedInv'
<1> DEFINE p == subject[c]
<1>1. /\ cpc[c] = "fork" /\ p \in Procs /\ state[p] = "dead"
      /\ state' = [state EXCEPT ![p] = "ready"]
      /\ ready_head' = ready_enqueue(ready_head, p, priority[p])
      /\ cpc' = [cpc EXCEPT ![c] = "run"]
      /\ subject' = [subject EXCEPT ![c] = NoProc]
      /\ UNCHANGED <<reaped, priority, switching, current_proc>>
  BY ZenonT(60) DEF proc_make_ready, SchedInv, SwitchInv
<1>2. \A d \in CPUs : cur(d) # p /\ (subject[d] = p => d = c)
  BY <1>1 DEF SchedInv, SwitchInv
<1>3. ~reaped[p]
  BY ZenonT(60), <1>1 DEF SchedInv, FreeInv
<1>4. /\ state \in [Procs -> States] /\ ready_head \in Queues
      /\ priority \in [Procs -> Prios] /\ Exact(state, ready_head, priority)
  BY DEF SchedInv, TypeOK, Queues, QueuesExact
<1>5. ready_head' \in Queues /\ Exact(state', ready_head', priority)
  <2>1. state[p] \notin Waiting /\ "ready" \in Waiting
    BY ZenonT(60), <1>1 DEF Waiting
  <2> HIDE DEF p
  <2> QED BY ZenonT(60), <1>1, <1>4, <2>1, EnqueueExact
<1>6. TypeOK'
  BY <1>1, <1>5 DEF proc_make_ready, SchedInv, TypeOK, Queues, States, CpuPCs
<1>7. QueuesExact'
  BY ZenonT(60), <1>1, <1>5 DEF QueuesExact
<1>8. /\ \A d \in CPUs : cpc'[d] = IF d = c THEN "run" ELSE cpc[d]
      /\ \A d \in CPUs : subject'[d] = IF d = c THEN NoProc ELSE subject[d]
      /\ \A d \in CPUs : cur(d)' = cur(d) /\ cur(d) \in Procs \cup {Idle}
      /\ \A x \in Procs : x # p => state'[x] = state[x]
      /\ NoProc \notin Procs
  BY ZenonT(60), <1>1, SchedAssumption DEF SchedInv, TypeOK, cur
<1>9. CurrentInv'
  BY <1>1, <1>2, <1>8 DEF SchedInv, CurrentInv
<1>10. SwitchInv'
  <2>1. \A d \in CPUs : cpc'[d] \notin {"switch", "fork"} => subject'[d] = NoProc
    BY ZenonT(60), <1>8 DEF SchedInv, SwitchInv
  <2>2. \A d \in CPUs : cpc'[d] = "switch" => subject'[d] \in switching' \cup {Idle}
    BY <1>1, <1>8 DEF SchedInv, SwitchInv
  <2>3. \A d \in CPUs : cpc'[d] = "fork" =>
            subject'[d] \in Procs /\ state'[subject'[d]] = "dead"
    BY <1>2, <1>8 DEF SchedInv, SwitchInv
  <2>4. \A d, e \in CPUs : subject'[d] \in Procs =>
            cur(e)' # subject'[d] /\ (subject'[e] = subject'[d] => e = d)
    BY <1>8 DEF SchedInv, SwitchInv
  <2>5. \A d \in CPUs : cur(d)' \notin switching'
    BY <1>1, <1>8 DEF SchedInv, SwitchInv
  <2> QED BY ZenonT(60), <2>1, <2>2, <2>3, <2>4, <2>5 DEF SwitchInv
<1>11. FreeInv'
  BY <1>1, <1>3, <1>8 DEF SchedInv, FreeInv
<1> QED BY <1>6, <1>7, <1>9, <1>10, <1>11 DEF SchedInv

\* Claiming the exit: the process is on no queue, being RUNNING.
LEMMA ExitPreserves ==
    ASSUME SchedInv, NEW c \in CPUs, proc_exit(c)
    PROVE  SchedInv'
<1> DEFINE p == cur(c)
<1>1. /\ cpc[c] = "run" /\ p \in Procs /\ state[p] = "running"
      /\ state' = [state EXCEPT ![p] = "dead"]
      /\ reaped' = [reaped EXCEPT ![p] = FALSE]
      /\ cpc' = [cpc EXCEPT ![c] = "exit"]
      /\ UNCHANGED <<priority, switching, ready_head, current_proc, subject>>
  BY DriftState DEF proc_exit, Runs
<1>2. TypeOK'
  BY <1>1 DEF proc_exit, SchedInv, TypeOK, States, CpuPCs
<1>3. QueuesExact'
  <2>1. /\ state \in [Procs -> States] /\ ready_head \in Queues
        /\ priority \in [Procs -> Prios] /\ Exact(state, ready_head, priority)
    BY DEF SchedInv, TypeOK, Queues, QueuesExact
  <2>2. \A x \in Procs : state[x] \in Waiting <=> state'[x] \in Waiting
    BY <1>1, <2>1 DEF Waiting
  <2>3. Exact(state', ready_head, priority)
    BY ZenonT(60), <2>1, <2>2, RelabelExact
  <2> QED BY <1>1, <2>3 DEF QueuesExact
<1>4. /\ \A d \in CPUs : cpc'[d] = IF d = c THEN "exit" ELSE cpc[d]
      /\ \A d \in CPUs : cur(d)' = cur(d) /\ cur(d) \in Procs \cup {Idle}
      /\ \A x \in Procs : state'[x] = IF x = p THEN "dead" ELSE state[x]
      /\ p # Idle
  BY ZenonT(60), <1>1, SchedAssumption DEF SchedInv, TypeOK, cur
<1>5. CurrentInv'
  BY <1>1, <1>4 DEF SchedInv, CurrentInv
<1>6. SwitchInv'
  BY <1>1, <1>4 DEF SchedInv, SwitchInv
<1>7. FreeInv'
  <2> SUFFICES ASSUME NEW x \in Procs, reaped'[x]
               PROVE  /\ state'[x] = "dead"
                      /\ \A d \in CPUs : cur(d)' # x /\ subject'[d] # x
    BY DEF FreeInv
  <2>1. x # p /\ reaped[x]
    BY ZenonT(60), <1>1 DEF SchedInv, TypeOK
  <2> QED BY <1>1, <1>4, <2>1 DEF SchedInv, FreeInv
<1> QED BY <1>2, <1>3, <1>5, <1>6, <1>7 DEF SchedInv

\* The end of proc_exit: the dead process is already off the queues.
LEMMA TeardownPreserves ==
    ASSUME SchedInv, NEW c \in CPUs, ExitTeardown(c)
    PROVE  SchedInv'
<1> DEFINE p == cur(c)
<1>1. /\ cpc[c] = "teardown" /\ cpc' = [cpc EXCEPT ![c] = "exited"]
      /\ ready_head' = ready_dequeue(ready_head, p)
      /\ UNCHANGED <<state, reaped, priority, wait_chan, sleep_until, in_block_on,
                     no_preempt, switching, current_proc, need_resched, subject>>
  BY DEF ExitTeardown
<1>2. p \in Procs /\ state[p] = "dead"
  BY ZenonT(60), <1>1 DEF SchedInv, CurrentInv, TypeOK, cur
<1>3. /\ state \in [Procs -> States] /\ ready_head \in Queues
      /\ priority \in [Procs -> Prios] /\ Exact(state, ready_head, priority)
  BY DEF SchedInv, TypeOK, Queues, QueuesExact
<1>4. ready_head' \in Queues /\ Exact(state, ready_head', priority)
  <2>1. "dead" \in States \ Waiting /\ state = [state EXCEPT ![p] = "dead"]
    BY ZenonT(60), <1>2, <1>3 DEF States, Waiting
  <2> HIDE DEF p
  <2> QED BY <1>1, <1>2, <1>3, <2>1, DequeueExact
<1>5. TypeOK'
  BY <1>1, <1>4 DEF SchedInv, TypeOK, Queues, CpuPCs
<1>6. QueuesExact'
  BY <1>1, <1>4 DEF QueuesExact
<1>7. \A d \in CPUs : /\ cpc'[d] = IF d = c THEN "exited" ELSE cpc[d]
                      /\ cur(d)' = cur(d)
  BY <1>1 DEF SchedInv, TypeOK, cur
<1>8. CurrentInv'
  BY SMTT(60), <1>1, <1>7 DEF SchedInv, CurrentInv
<1>9. SwitchInv'
  BY SMTT(60), <1>1, <1>7 DEF SchedInv, SwitchInv
<1>10. FreeInv'
  BY ZenonT(60), <1>1, <1>7 DEF SchedInv, FreeInv
<1> QED BY <1>5, <1>6, <1>8, <1>9, <1>10 DEF SchedInv

\* Steps that change none of the variables of the invariant's conjuncts other
\* than TypeOK.
LEMMA OtherPreserves ==
    ASSUME SchedInv, TypeOK',
           UNCHANGED <<state, reaped, priority, switching, ready_head, current_proc, cpc, subject>>
    PROVE  SchedInv'
BY DEF SchedInv, QueuesExact, CurrentInv, SwitchInv, FreeInv, cur

-----------------------------------------------------------------------------

\* The machine starts with init on the BSP and every other CPU idle.
LEMMA SchedInvInit == Init => SchedInv
<1> SUFFICES ASSUME Init PROVE SchedInv
  OBVIOUS
<1>1. PRIO_NORMAL \in Prios
  <2>1. NPrio \div 2 \in Nat /\ NPrio \div 2 < NPrio
    BY SchedAssumption
  <2> QED BY <2>1, SchedAssumption DEF PRIO_NORMAL, Prios
<1>2. \A q \in Prios : ready_head[q] = <<>> /\ Len(ready_head[q]) = 0
  BY DEF Init
<1>3. TypeOK
  BY <1>1, SchedAssumption DEF Init, TypeOK, States, Deadlines, CpuPCs
<1>4. QueuesExact
  BY <1>2 DEF Init, QueuesExact, Exact, Waiting
<1>5. CurrentInv /\ FreeInv
  BY ZenonT(60), SchedAssumption DEF Init, CurrentInv, FreeInv, cur
<1>6. SwitchInv
  BY SchedAssumption DEF Init, SwitchInv, cur
<1> QED BY <1>3, <1>4, <1>5, <1>6 DEF SchedInv

\* Every step of a CPU and of the clock preserves the invariant.
LEMMA SchedInvNext == SchedInv /\ [Next]_vars => SchedInv'
<1> SUFFICES ASSUME SchedInv, [Next]_vars PROVE SchedInv'
  OBVIOUS
<1>1. ASSUME NEW c \in CPUs, CpuStep(c) PROVE SchedInv'
  <2>1. CASE SysYield(c)
    BY ZenonT(60), <2>1, YieldActions DEF SysYield, Runs, SchedInv, TypeOK
  <2>2. CASE sched_check_resched(c)
    BY ZenonT(60), <2>2, YieldActions DEF sched_check_resched, Runs, SchedInv, TypeOK
  <2>3. CASE sched_idle_loop(c)
    BY <2>3, YieldActions DEF sched_idle_loop, SchedInv, TypeOK
  <2>4. CASE context_switch(c)
    BY ZenonT(60), <2>4, ContextSwitchPreserves
  <2>5. ASSUME NEW d \in {"armed", "expired"}, proc_sleep(c, d) PROVE SchedInv'
    <3>1. d \in Deadlines
      BY DEF Deadlines
    <3> QED BY ZenonT(60), <2>5, <3>1, BlockActions DEF proc_sleep, SchedInv, TypeOK
  <2>6. ASSUME NEW ch \in Chans, NEW d \in {"armed", "expired"}, sched_block_on(c, ch, d)
        PROVE  SchedInv'
    <3>1. d \in Deadlines
      BY DEF Deadlines
    <3>2. cur(c) \in Procs
      BY <2>6 DEF sched_block_on, Runs, SchedInv, TypeOK, cur
    <3>3. wait_chan' \in [Procs -> Chans \cup {NoChan}] /\ in_block_on' \subseteq Procs
      BY ZenonT(60), <2>6, <3>2 DEF sched_block_on, SchedInv, TypeOK
    <3> QED BY <2>6, <3>1, <3>3, BlockActions DEF sched_block_on
  <2>7. ASSUME NEW ch \in Chans, sched_wake_chan(c, ch) PROVE SchedInv'
    BY <2>7, WakeChanPreserves DEF sched_wake_chan, SchedInv, TypeOK
  <2>8. ASSUME NEW locked \in BOOLEAN, timer_tick(c, locked) PROVE SchedInv'
    BY <2>8, TimerPreserves
  <2>9. ASSUME NEW p \in Procs, NEW q \in Prios, proc_set_priority(c, p, q) PROVE SchedInv'
    BY <2>9, SetPriorityPreserves
  <2>10. ASSUME NEW enable \in BOOLEAN, sys_no_preempt(c, enable) PROVE SchedInv'
    <3>1. TypeOK'
      BY <2>10, SchedAssumption DEF sys_no_preempt, SchedInv, TypeOK
    <3> QED BY ZenonT(60), <2>10, <3>1, OtherPreserves DEF sys_no_preempt
  <2>11. ASSUME NEW p \in Procs, proc_create(c, p) PROVE SchedInv'
    BY ZenonT(60), <2>11, CreatePreserves
  <2>12. CASE proc_make_ready(c)
    BY <2>12, MakeReadyPreserves
  <2>13. CASE proc_exit(c)
    BY <2>13, ExitPreserves
  <2>14. ASSUME NEW ch \in Chans \cup {NoChan}, ExitWake(c, ch) PROVE SchedInv'
    <3>1. /\ cpc' \in [CPUs -> CpuPCs]
          /\ \A e \in CPUs : cpc'[e] = cpc[e] \/ (cpc[e] = "exit" /\ cpc'[e] = "teardown")
      BY ZenonT(60), <2>14 DEF ExitWake, SchedInv, TypeOK, CpuPCs
    <3>2. CASE ch # NoChan /\ WakeChan(c, ch)
      BY <2>14, <3>1, <3>2, WakeChanPreserves DEF ExitWake
    <3>3. CASE UNCHANGED <<state, wait_chan, sleep_until, need_resched>>
      <4>1. state' \in [Procs -> States] /\ \A p \in Procs : state'[p] = state[p]
        BY SMTT(60), <3>3 DEF SchedInv, TypeOK
      <4>2. QueuesExact' /\ CurrentInv' /\ SwitchInv' /\ FreeInv'
        BY ZenonT(60), <2>14, <3>1, <4>1, WakePreserves DEF ExitWake
      <4>3. TypeOK'
        BY ZenonT(60), <2>14, <3>1, <3>3 DEF ExitWake, SchedInv, TypeOK
      <4> QED BY SMTT(60), <4>2, <4>3 DEF SchedInv
    <3> QED BY ZenonT(60), <2>14, <3>2, <3>3 DEF ExitWake
  <2>15. CASE ExitTeardown(c)
    BY <2>15, TeardownPreserves
  <2>16. CASE ExitYield(c)
    BY <2>16, YieldActions DEF ExitYield, SchedInv, TypeOK
  <2> QED
    BY ZenonT(60), <1>1, <2>1, <2>2, <2>3, <2>4, <2>5, <2>6, <2>7, <2>8, <2>9, <2>10, <2>11,
       <2>12, <2>13, <2>14, <2>15, <2>16 DEF CpuStep
<1>2. ASSUME NEW p \in Procs, DeadlinePasses(p) PROVE SchedInv'
  <2>1. TypeOK'
    BY <1>2 DEF DeadlinePasses, SchedInv, TypeOK, Deadlines
  <2> QED BY ZenonT(60), <1>2, <2>1, OtherPreserves DEF DeadlinePasses
<1>3. CASE UNCHANGED vars
  <2>1. TypeOK'
    BY <1>3 DEF vars, SchedInv, TypeOK
  <2> QED BY ZenonT(60), <1>3, <2>1, OtherPreserves DEF vars
<1> QED BY <1>1, <1>2, <1>3 DEF Next

\* The inductive invariant of the scheduler holds in every reachable state.
THEOREM SchedInvariant == Spec => []SchedInv
<1> QED BY SchedInvInit, SchedInvNext, PTL DEF Spec

\* For any machine and any number of processes, no process is ever executed by
\* two CPUs, even while its context is still being saved.
THEOREM SchedOneCpu == Spec => []OneCpuPerProcess
<1>1. SchedInv => OneCpuPerProcess
  BY DEF SchedInv, TypeOK, CurrentInv, SwitchInv, OneCpuPerProcess, cur
<1> QED BY <1>1, SchedInvariant, PTL

\* The ready lists always hold exactly the READY and BLOCKED processes.
THEOREM SchedQueuesExact == Spec => []QueuesExact
<1>1. SchedInv => QueuesExact
  BY DEF SchedInv
<1> QED BY <1>1, SchedInvariant, PTL

\* Type correctness.
THEOREM SchedTypeOK == Spec => []TypeOK
<1>1. SchedInv => TypeOK
  BY DEF SchedInv
<1> QED BY <1>1, SchedInvariant, PTL

-----------------------------------------------------------------------------
(* Which process the scheduler takes up. *)

\* The state in which the scheduler is called.
LEMMA YieldCalled ==
    ASSUME SchedInv, NEW c \in CPUs, cpc[c] \in {"run", "exited"}, sched_yield(c)
    PROVE  /\ sched_yield_locked(c, state, sleep_until, ready_head)
           /\ Drift(c, state) /\ ready_head \in Queues /\ Exact(state, ready_head, priority)
<1>1. ~(cur(c) # Idle /\ cpc[c] = "run" /\ state[cur(c)] = "dead")
  BY DriftState
<1>2. sched_yield_locked(c, state, sleep_until, ready_head)
  BY <1>1 DEF sched_yield
<1>3. ready_head \in Queues /\ Exact(state, ready_head, priority)
  BY ZenonT(60) DEF SchedInv, TypeOK, Queues, QueuesExact
<1> QED BY <1>2, <1>3, DriftState

LEMMA BlockCalled ==
    ASSUME SchedInv, NEW c \in CPUs, Runs(c), NEW d, Block(c, d)
    PROVE  LET st0 == [state EXCEPT ![cur(c)] = "blocked"]
               rq0 == ready_enqueue(ready_head, cur(c), priority[cur(c)])
           IN  /\ sched_yield_locked(c, st0, [sleep_until EXCEPT ![cur(c)] = d], rq0)
               /\ Drift(c, st0) /\ rq0 \in Queues /\ Exact(st0, rq0, priority)
               /\ cur(c) \in Procs /\ state[cur(c)] = "running"
<1> DEFINE p == cur(c)
           st0 == [state EXCEPT ![p] = "blocked"]
           rq0 == ready_enqueue(ready_head, p, priority[p])
<1>1. p \in Procs /\ cpc[c] = "run" /\ state[p] = "running"
  BY DriftState DEF Runs
<1>2. /\ ready_head \in Queues /\ state \in [Procs -> States] /\ priority \in [Procs -> Prios]
      /\ Exact(state, ready_head, priority)
  BY ZenonT(60) DEF SchedInv, TypeOK, Queues, QueuesExact
<1>3. rq0 \in Queues /\ Exact(st0, rq0, priority)
  <2>1. state[p] \notin Waiting /\ "blocked" \in Waiting
    BY <1>1 DEF Waiting
  <2> HIDE DEF p
  <2> QED BY ZenonT(60), <1>1, <1>2, <2>1, EnqueueExact
<1>4. Drift(c, st0)
  BY <1>1, <1>2 DEF Drift, States
<1> QED BY ZenonT(60), <1>1, <1>3, <1>4 DEF Block

LEMMA HighestNext == ASSUME SchedInv, Next PROVE \A d \in CPUs : Highest(d)
<1>1. CASE UNCHANGED current_proc
  BY ZenonT(60), <1>1 DEF Highest, cur
<1>2. ASSUME NEW c \in CPUs, cpc[c] \in {"run", "exited"}, sched_yield(c)
      PROVE  \A d \in CPUs : Highest(d)
  BY ZenonT(60), <1>2, YieldCalled, YieldHighest
<1>3. ASSUME NEW c \in CPUs, Runs(c), NEW d, Block(c, d)
      PROVE  \A e \in CPUs : Highest(e)
  BY ZenonT(60), <1>3, BlockCalled, YieldHighest
<1>4. ASSUME NEW c \in CPUs, CpuStep(c)
      PROVE  \/ UNCHANGED current_proc
             \/ cpc[c] \in {"run", "exited"} /\ sched_yield(c)
             \/ Runs(c) /\ \E d \in {"armed", "expired"} : Block(c, d)
  BY ZenonT(60), <1>4 DEF CpuStep, SysYield, sched_check_resched, sched_idle_loop, context_switch,
     proc_sleep, sched_block_on, sched_wake_chan, timer_tick, proc_set_priority, sys_no_preempt,
     proc_create, proc_make_ready, proc_exit, ExitWake, ExitTeardown, ExitYield, Runs
<1>5. ASSUME NEW p \in Procs, DeadlinePasses(p) PROVE UNCHANGED current_proc
  BY ZenonT(60), <1>5 DEF DeadlinePasses
<1> QED BY ZenonT(60), <1>1, <1>2, <1>3, <1>4, <1>5 DEF Next

\* On any machine, a CPU that takes up a process takes one of the highest
\* priority among those that wait READY and saved, and idles only if there is none.
THEOREM SchedHighest == Spec => DispatchesHighest
<1> DEFINE A == \A c \in CPUs : current_proc'[c] # cur(c) =>
                   \A p \in Procs : state'[p] = "ready" /\ p \notin switching' =>
                       /\ current_proc'[c] # Idle
                       /\ priority[current_proc'[c]] <= priority[p]
<1>1. SchedInv /\ [Next]_vars => [A]_vars
  BY ZenonT(60), HighestNext DEF Highest
<1> HIDE DEF A
<1>2. Spec => [][A]_vars
  BY <1>1, SchedInvariant, PTL DEF Spec
<1> QED BY <1>2 DEF DispatchesHighest, A

-----------------------------------------------------------------------------
(* Sleeping and waking implement the abstract sleep queue. *)

Asleep == [p \in Procs |-> IF state[p] = "blocked" THEN wait_chan[p] ELSE NoProc]
Due == {p \in Procs : state[p] = "blocked" /\ sleep_until[p] = "expired"}

\* Some sleepers stop sleeping, and the others are left alone.
Leave(W) ==
    \A r \in Procs :
        /\ state'[r] = "blocked" <=> state[r] = "blocked" /\ r \notin W
        /\ state'[r] = "blocked" => wait_chan'[r] = wait_chan[r] /\ sleep_until'[r] = sleep_until[r]

LEMMA LeaveSleep ==
    ASSUME NEW W, Leave(W)
    PROVE  /\ Asleep' = [r \in Procs |-> IF r \in W THEN NoProc ELSE Asleep[r]]
           /\ Due' = Due \ W
<1>1. Due' = Due \ W
  BY ZenonT(60) DEF Leave, Due
<1>2. ASSUME NEW r \in Procs
      PROVE  (IF state'[r] = "blocked" THEN wait_chan'[r] ELSE NoProc)
               = IF r \in W THEN NoProc ELSE IF state[r] = "blocked" THEN wait_chan[r] ELSE NoProc
  <2>1. CASE state'[r] = "blocked"
    BY ZenonT(60), <2>1 DEF Leave
  <2>2. CASE state'[r] # "blocked"
    BY ZenonT(60), <2>2 DEF Leave
  <2> QED BY <2>1, <2>2
<1> QED BY ZenonT(60), <1>1, <1>2 DEF Asleep

LEMMA LeaveExpires ==
    ASSUME NEW W \in SUBSET Due, Leave(W)
    PROVE  Sleep!Next
<1>1. Sleep!Expire(W)
  BY ZenonT(60), LeaveSleep DEF Sleep!Expire, Asleep, Due
<1> QED BY ZenonT(60), <1>1 DEF Sleep!Next, Due

\* Nobody stops sleeping.
LEMMA LeaveNobody ==
    ASSUME \A r \in Procs :
              /\ state'[r] = "blocked" <=> state[r] = "blocked"
              /\ state[r] = "blocked" => wait_chan'[r] = wait_chan[r] /\ sleep_until'[r] = sleep_until[r]
    PROVE  Sleep!Next
<1>1. Leave({}) /\ {} \in SUBSET Due
  BY DEF Leave
<1> QED BY <1>1, LeaveExpires

LEMMA YieldSleep ==
    ASSUME SchedInv, NEW c \in CPUs, cpc[c] \in {"run", "exited"}, sched_yield(c),
           UNCHANGED wait_chan
    PROVE  Sleep!Next
<1>1. PICK W \in SUBSET Due : WakesOnly(W, state, sleep_until)
  <2>1. /\ sched_yield_locked(c, state, sleep_until, ready_head)
        /\ Drift(c, state) /\ ready_head \in Queues /\ Exact(state, ready_head, priority)
    BY ZenonT(60), YieldCalled
  <2>2. \E W \in SUBSET DueIn(state, sleep_until) : WakesOnly(W, state, sleep_until)
    BY ZenonT(60), <2>1, YieldWakes
  <2> QED BY ZenonT(60), <2>2 DEF Due, DueIn
<1>2. Leave(W)
  BY ZenonT(60), <1>1 DEF Leave, WakesOnly
<1> QED BY <1>2, LeaveExpires

\* The caller falls asleep, or finds its deadline over and goes on.
LEMMA BlockSleep ==
    ASSUME SchedInv, NEW c \in CPUs, Runs(c), NEW d \in {"armed", "expired"}, Block(c, d),
           wait_chan' \in [Procs -> Chans \cup {NoChan}],
           \A r \in Procs \ {cur(c)} : wait_chan'[r] = wait_chan[r]
    PROVE  Sleep!Next
<1>0. PICK p \in Procs : p = cur(c)
  BY ZenonT(60), BlockCalled
<1> DEFINE st0 == [state EXCEPT ![p] = "blocked"]
           su0 == [sleep_until EXCEPT ![p] = d]
           rq0 == ready_enqueue(ready_head, p, priority[p])
<1>1. /\ sched_yield_locked(c, st0, su0, rq0)
      /\ Drift(c, st0) /\ rq0 \in Queues /\ Exact(st0, rq0, priority) /\ state[p] = "running"
  BY ZenonT(60), <1>0, BlockCalled
<1>2. state \in [Procs -> States] /\ sleep_until \in [Procs -> Deadlines]
  BY ZenonT(60) DEF SchedInv, TypeOK
<1>3. st0[p] = "blocked" /\ su0[p] = d
      /\ \A r \in Procs \ {p} : st0[r] = state[r] /\ su0[r] = sleep_until[r]
  BY <1>2
<1> HIDE DEF st0, su0, rq0
<1>4. PICK W \in SUBSET DueIn(st0, su0) : WakesOnly(W, st0, su0)
  BY ZenonT(60), <1>1, YieldWakes
<1>5. W \ {p} \in SUBSET Due
  BY ZenonT(60), <1>3, <1>4 DEF Due, DueIn
<1>6. CASE p \in W
  <2>1. Leave(W \ {p})
    BY ZenonT(60), <1>0, <1>1, <1>3, <1>4, <1>6 DEF Leave, WakesOnly
  <2> QED BY <1>5, <2>1, LeaveExpires
<1>7. CASE p \notin W
  <2>1. state'[p] = "blocked" /\ sleep_until'[p] = d /\ p \notin Due
    BY ZenonT(60), <1>1, <1>3, <1>4, <1>7 DEF Due, WakesOnly
  <2>2. \A r \in Procs \ {p} :
           /\ state'[r] = "blocked" <=> state[r] = "blocked" /\ r \notin W
           /\ r \notin W => sleep_until'[r] = sleep_until[r]
           /\ wait_chan'[r] = wait_chan[r]
    BY ZenonT(60), <1>0, <1>3, <1>4 DEF WakesOnly
  <2>3. PICK ch \in Chans \cup {NoChan} : ch = wait_chan'[p]
    OBVIOUS
  <2>4. PICK late \in BOOLEAN : late <=> d = "expired"
    BY ZenonT(60)
  <2>5. W \in SUBSET Due
    BY <1>5, <1>7
  <2>6. Due' = (Due \ W) \cup (IF late THEN {p} ELSE {})
    <3>1. ASSUME NEW r \in Procs \ {p} PROVE r \in Due' <=> r \in Due \ W
      BY ZenonT(60), <2>2, <3>1 DEF Due
    <3>2. p \in Due' <=> late
      BY ZenonT(60), <2>1, <2>4 DEF Due
    <3> QED BY ZenonT(60), <2>1, <3>1, <3>2 DEF Due
  <2>7. Asleep' = [r \in Procs |-> IF r = p THEN ch ELSE IF r \in W THEN NoProc ELSE Asleep[r]]
    <3>1. ASSUME NEW r \in Procs
          PROVE  (IF state'[r] = "blocked" THEN wait_chan'[r] ELSE NoProc)
                   = IF r = p THEN ch ELSE IF r \in W THEN NoProc
                     ELSE IF state[r] = "blocked" THEN wait_chan[r] ELSE NoProc
      <4>1. CASE r = p
        BY ZenonT(60), <2>1, <2>3, <4>1
      <4>2. CASE r # p /\ r \in W
        BY ZenonT(60), <2>2, <4>2
      <4>3. CASE r # p /\ r \notin W
        BY ZenonT(60), <2>2, <4>3
      <4> QED BY <4>1, <4>2, <4>3
    <3> QED BY ZenonT(60), <3>1 DEF Asleep
  <2>8. Sleep!FallAsleep(p, ch, W, late)
    BY ZenonT(60), <2>6, <2>7 DEF Sleep!FallAsleep, Asleep, Due
  <2>9. Asleep[p] = NoProc /\ Asleep'[p] = ch
    BY ZenonT(60), <1>1, <2>7 DEF Asleep
  <2> QED BY ZenonT(60), <2>5, <2>8, <2>9 DEF Sleep!Next, Asleep, Due
<1> QED BY ZenonT(60), <1>6, <1>7

\* A wake-up reaches everybody asleep on the channel: they are all linked.
LEMMA WakeSleep ==
    ASSUME SchedInv, NEW c \in CPUs, NEW ch \in Chans, WakeChan(c, ch)
    PROVE  Sleep!Next
<1>1. \A r \in Procs : state[r] = "blocked" => Linked(ready_head, r)
  BY ZenonT(60) DEF SchedInv, QueuesExact, Exact, Waiting
<1>2. Waiters(ch) = {r \in Procs : Asleep[r] = ch}
  BY ZenonT(60), <1>1, SchedAssumption DEF Waiters, Asleep
<1>3. Leave(Waiters(ch))
  BY ZenonT(60) DEF WakeChan, Leave
<1>4. Sleep!Wake(ch)
  BY ZenonT(60), <1>2, <1>3, LeaveSleep DEF Sleep!Wake, Asleep, Due
<1> QED BY ZenonT(60), <1>4 DEF Sleep!Next

LEMMA TickSleep ==
    ASSUME NEW c \in CPUs, NEW locked \in BOOLEAN, timer_tick(c, locked)
    PROVE  Sleep!Next
<1>1. PICK W \in SUBSET Due :
         /\ state' = [p \in Procs |-> IF p \in W THEN "ready" ELSE state[p]]
         /\ sleep_until' = [p \in Procs |-> IF p \in W THEN "none" ELSE sleep_until[p]]
         /\ UNCHANGED wait_chan
  <2>1. (IF locked THEN Expired(state, sleep_until, ready_head) ELSE {}) \in SUBSET Due
    BY ZenonT(60) DEF Expired, Due
  <2> QED BY ZenonT(60), <2>1 DEF timer_tick
<1>2. Leave(W)
  BY ZenonT(60), <1>1 DEF Leave
<1> QED BY <1>1, <1>2, LeaveExpires

\* Everything else leaves the sleepers alone.
LEMMA OtherSleep ==
    ASSUME SchedInv, NEW c \in CPUs,
           \/ context_switch(c) \/ proc_make_ready(c) \/ proc_exit(c) \/ ExitTeardown(c)
           \/ \E p \in Procs, q \in Prios : proc_set_priority(c, p, q)
           \/ \E enable \in BOOLEAN : sys_no_preempt(c, enable)
           \/ \E p \in Procs : proc_create(c, p)
    PROVE  Sleep!Next
<1>1. /\ state \in [Procs -> States] /\ sleep_until \in [Procs -> Deadlines]
      /\ wait_chan \in [Procs -> Chans \cup {NoChan}] /\ Idle \notin Procs
  BY ZenonT(60), SchedAssumption DEF SchedInv, TypeOK
<1>2. CASE context_switch(c)
  <2>1. \A r \in Procs : state[r] = "blocked" => r # cur(c)
    BY <1>1, <1>2 DEF SchedInv, CurrentInv, context_switch
  <2> QED BY ZenonT(60), <1>1, <1>2, <2>1, LeaveNobody DEF context_switch
<1>3. CASE proc_make_ready(c)
  <2>1. subject[c] \in Procs /\ state[subject[c]] = "dead"
    BY ZenonT(60), <1>3 DEF SchedInv, SwitchInv, proc_make_ready
  <2>2. \A r \in Procs : state'[r] = "blocked" <=> state[r] = "blocked"
    BY ZenonT(60), <1>1, <1>3, <2>1 DEF proc_make_ready
  <2> QED BY ZenonT(60), <1>3, <2>2, LeaveNobody DEF proc_make_ready
<1>4. CASE proc_exit(c)
  <2>1. cur(c) \in Procs /\ state[cur(c)] = "running"
    BY ZenonT(60), <1>4 DEF proc_exit, Runs, SchedInv, CurrentInv, TypeOK, cur
  <2>2. \A r \in Procs : state'[r] = "blocked" <=> state[r] = "blocked"
    BY ZenonT(60), <1>1, <1>4, <2>1 DEF proc_exit
  <2> QED BY ZenonT(60), <1>4, <2>2, LeaveNobody DEF proc_exit
<1>5. ASSUME NEW p \in Procs, proc_create(c, p) PROVE Sleep!Next
  <2>1. \A r \in Procs : state[r] = "blocked" => sleep_until'[r] = sleep_until[r]
    BY ZenonT(60), <1>1, <1>5 DEF proc_create
  <2> QED BY ZenonT(60), <1>5, <2>1, LeaveNobody DEF proc_create
<1>6. CASE UNCHANGED <<state, wait_chan, sleep_until>>
  BY ZenonT(60), <1>6, LeaveNobody
<1> QED BY ZenonT(60), <1>2, <1>3, <1>4, <1>5, <1>6
     DEF ExitTeardown, proc_set_priority, sys_no_preempt

LEMMA CpuSleep ==
    ASSUME SchedInv, NEW c \in CPUs, CpuStep(c)
    PROVE  Sleep!Next
<1>0. wait_chan \in [Procs -> Chans \cup {NoChan}]
  BY ZenonT(60) DEF SchedInv, TypeOK
<1>1. CASE SysYield(c) \/ sched_check_resched(c) \/ sched_idle_loop(c) \/ ExitYield(c)
  BY ZenonT(60), <1>1, YieldSleep
     DEF SysYield, sched_check_resched, sched_idle_loop, ExitYield, Runs
<1>2. ASSUME NEW d \in {"armed", "expired"}, proc_sleep(c, d) PROVE Sleep!Next
  BY ZenonT(60), <1>0, <1>2, BlockSleep DEF proc_sleep
<1>3. ASSUME NEW ch \in Chans, NEW d \in {"armed", "expired"}, sched_block_on(c, ch, d)
      PROVE  Sleep!Next
  <2>1. PICK x \in Chans \cup {NoChan} : wait_chan' = [wait_chan EXCEPT ![cur(c)] = x]
    BY ZenonT(60), <1>3 DEF sched_block_on
  <2>2. wait_chan' \in [Procs -> Chans \cup {NoChan}]
        /\ \A r \in Procs \ {cur(c)} : wait_chan'[r] = wait_chan[r]
    BY ZenonT(60), <1>0, <2>1
  <2> QED BY ZenonT(60), <1>3, <2>2, BlockSleep DEF sched_block_on
<1>4. ASSUME NEW ch \in Chans, sched_wake_chan(c, ch) PROVE Sleep!Next
  BY ZenonT(60), <1>4, WakeSleep DEF sched_wake_chan
<1>5. ASSUME NEW locked \in BOOLEAN, timer_tick(c, locked) PROVE Sleep!Next
  BY <1>5, TickSleep
<1>6. ASSUME NEW ch \in Chans \cup {NoChan}, ExitWake(c, ch) PROVE Sleep!Next
  <2>1. CASE UNCHANGED <<state, wait_chan, sleep_until>>
    BY ZenonT(60), <2>1, LeaveNobody
  <2>2. CASE ch # NoChan /\ WakeChan(c, ch)
    BY ZenonT(60), <2>2, WakeSleep
  <2> QED BY ZenonT(60), <1>6, <2>1, <2>2 DEF ExitWake
<1> QED BY ZenonT(60), <1>1, <1>2, <1>3, <1>4, <1>5, <1>6, OtherSleep DEF CpuStep

LEMMA DeadlineSleep ==
    ASSUME SchedInv, NEW p \in Procs, DeadlinePasses(p)
    PROVE  Sleep!Next
<1>1. /\ sleep_until \in [Procs -> Deadlines] /\ wait_chan \in [Procs -> Chans \cup {NoChan}]
  BY ZenonT(60) DEF SchedInv, TypeOK
<1>2. /\ sleep_until'[p] = "expired" /\ \A r \in Procs \ {p} : sleep_until'[r] = sleep_until[r]
      /\ UNCHANGED <<state, wait_chan>>
  BY ZenonT(60), <1>1 DEF DeadlinePasses
<1>3. CASE state[p] = "blocked"
  <2>1. Asleep[p] # NoProc
    BY ZenonT(60), <1>1, <1>3, SchedAssumption DEF Asleep
  <2>2. Due' = Due \cup {p}
    BY ZenonT(60), <1>2, <1>3 DEF Due
  <2>3. Sleep!DeadlinePasses(p)
    BY ZenonT(60), <1>2, <2>1, <2>2 DEF Sleep!DeadlinePasses, Asleep, Due
  <2> QED BY ZenonT(60), <2>3 DEF Sleep!Next
<1>4. CASE state[p] # "blocked"
  BY ZenonT(60), <1>2, <1>4, LeaveNobody
<1> QED BY <1>3, <1>4

\* On any machine, blocking, waking and deadlines implement the wait channels of
\* SleepQueue: sched_wake_chan reaches everybody who sleeps on the channel, and
\* nobody else stops sleeping before its deadline.
THEOREM SchedSleeps == Spec => ImplementsSleepQueue
<1>1. Init => Sleep!Init
  BY ZenonT(60) DEF Init, Sleep!Init
<1>2. SchedInv /\ [Next]_vars => [Sleep!Next]_(Sleep!vars)
  <2>1. SchedInv /\ Next => Sleep!Next
    BY ZenonT(60), CpuSleep, DeadlineSleep DEF Next
  <2>2. UNCHANGED vars => UNCHANGED Sleep!vars
    BY ZenonT(60) DEF vars, Sleep!vars
  <2> QED BY <2>1, <2>2
<1> QED BY <1>1, <1>2, SchedInvariant, PTL DEF Spec, Sleep!Spec, ImplementsSleepQueue
=============================================================================
