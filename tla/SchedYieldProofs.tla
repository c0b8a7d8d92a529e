-------------------------- MODULE SchedYieldProofs --------------------------
(***************************************************************************)
(* What the operations on the ready lists do to lists that are exact (that *)
(* hold the READY and BLOCKED processes, once each, by priority), and what *)
(* __sched_yield_locked does: it preserves the invariant of the scheduler, *)
(* takes up a process of the highest priority, and wakes no sleeper before *)
(* its deadline.                                                           *)
(***************************************************************************)
EXTENDS Sched, SequenceTheorems, TLAPS

-----------------------------------------------------------------------------
(* The ready lists. *)

Queues == [Prios -> Seq(Procs)]

\* What is left of a sequence after one position is removed.
LEMMA RemoveAtProps ==
    ASSUME NEW S, NEW s \in Seq(S), NEW i \in 1..Len(s)
    PROVE  /\ RemoveAt(s, i) \in Seq(S)
           /\ Len(RemoveAt(s, i)) = Len(s) - 1
           /\ \A j \in 1..(Len(s) - 1) :
                 RemoveAt(s, i)[j] = IF j < i THEN s[j] ELSE s[j + 1]
<1> DEFINE a == SubSeq(s, 1, i - 1)
           b == SubSeq(s, i + 1, Len(s))
<1>1. Len(s) \in Nat /\ i \in Nat /\ 1 <= i /\ i <= Len(s)
  BY LenProperties
<1>2. /\ a \in Seq(S) /\ Len(a) = i - 1
      /\ \A j \in 1..(i - 1) : a[j] = s[j]
  BY <1>1, SubSeqProperties
<1>3. /\ b \in Seq(S) /\ Len(b) = Len(s) - i
      /\ \A j \in 1..(Len(s) - i) : b[j] = s[i + j]
  BY <1>1, SubSeqProperties
<1>4. /\ a \o b \in Seq(S) /\ Len(a \o b) = Len(a) + Len(b)
      /\ \A j \in 1..(Len(a) + Len(b)) :
            (a \o b)[j] = IF j <= Len(a) THEN a[j] ELSE b[j - Len(a)]
  BY ZenonT(60), <1>2, <1>3, ConcatProperties
<1>5. RemoveAt(s, i) = a \o b
  BY DEF RemoveAt
<1>6. ASSUME NEW j \in 1..(Len(s) - 1)
      PROVE  (a \o b)[j] = IF j < i THEN s[j] ELSE s[j + 1]
  <2> HIDE DEF a, b
  <2>1. CASE j < i
    BY <1>1, <1>2, <1>3, <1>4, <2>1
  <2>2. CASE ~(j < i)
    <3>1. (a \o b)[j] = b[j - (i - 1)]
      BY SMTT(60), <1>1, <1>2, <1>3, <1>4, <2>2
    <3>2. j - (i - 1) \in 1..(Len(s) - i) /\ i + (j - (i - 1)) = j + 1
      BY <1>1, <2>2
    <3> QED
      BY <1>3, <2>2, <3>1, <3>2
  <2> QED
    BY ZenonT(60), <2>1, <2>2
<1> HIDE DEF a, b
<1>7. Len(a \o b) = Len(s) - 1
  BY <1>1, <1>2, <1>3, <1>4
<1> QED
  BY <1>4, <1>5, <1>6, <1>7

\* Removing the link at a position takes away the process there, which must
\* then no longer be READY or BLOCKED.
LEMMA UnlinkExact ==
    ASSUME NEW st \in [Procs -> States], NEW rq \in Queues,
           NEW pr \in [Procs -> Prios], Exact(st, rq, pr),
           NEW q \in Prios, NEW i \in 1..Len(rq[q]), NEW s \in States \ Waiting
    PROVE  /\ rq[q][i] \in Procs
           /\ Unlink(rq, q, i) \in Queues
           /\ ~Linked(Unlink(rq, q, i), rq[q][i])
           /\ Exact([st EXCEPT ![rq[q][i]] = s], Unlink(rq, q, i), pr)
<1> DEFINE p == rq[q][i]
           u == Unlink(rq, q, i)
           k == RemoveAt(rq[q], i)
           t == [st EXCEPT ![p] = s]
<1>1. rq[q] \in Seq(Procs) /\ Len(rq[q]) \in Nat /\ p \in Procs
  BY ElementOfSeq, LenProperties DEF Queues
<1>2. /\ k \in Seq(Procs) /\ Len(k) = Len(rq[q]) - 1
      /\ \A j \in 1..(Len(rq[q]) - 1) :
            k[j] = IF j < i THEN rq[q][j] ELSE rq[q][j + 1]
  BY ZenonT(60), <1>1, RemoveAtProps
<1>3. /\ u \in Queues
      /\ u[q] = k /\ \A r \in Prios : r # q => u[r] = rq[r]
  BY <1>2 DEF Unlink, Queues
\* Where a link of u was in rq.
<1> DEFINE old(r, j) == IF r = q /\ j >= i THEN j + 1 ELSE j
<1>4. ASSUME NEW r \in Prios, NEW j \in 1..Len(u[r])
      PROVE  /\ old(r, j) \in 1..Len(rq[r]) /\ u[r][j] = rq[r][old(r, j)]
             /\ ~(r = q /\ old(r, j) = i)
  <2>1. CASE r = q
    <3>1. j \in 1..(Len(rq[q]) - 1)
      BY <1>2, <1>3, <2>1
    <3>2. u[r][j] = IF j < i THEN rq[q][j] ELSE rq[q][j + 1]
      BY <1>2, <1>3, <2>1, <3>1
    <3> QED BY <1>1, <2>1, <3>1, <3>2
  <2>2. CASE r # q
    BY ZenonT(60), <1>3, <2>2
  <2> QED BY <2>1, <2>2
<1>5. \A r \in Prios : \A j \in 1..Len(u[r]) : u[r][j] # p
  <2> SUFFICES ASSUME NEW r \in Prios, NEW j \in 1..Len(u[r]), u[r][j] = p PROVE FALSE
    OBVIOUS
  <2>1. /\ old(r, j) \in 1..Len(rq[r]) /\ rq[r][old(r, j)] = p
        /\ ~(r = q /\ old(r, j) = i)
    BY <1>4
  <2> HIDE DEF old, u
  <2> QED BY <2>1 DEF Exact
<1>6. \A r \in Prios : Len(u[r]) \in Nat
  BY <1>3, LenProperties DEF Queues
<1>7. ASSUME NEW r \in Prios, NEW r2 \in Prios,
             NEW j \in 1..Len(u[r]), NEW j2 \in 1..Len(u[r2]), u[r][j] = u[r2][j2]
      PROVE  r = r2 /\ j = j2
  <2>1. /\ old(r, j) \in 1..Len(rq[r]) /\ old(r2, j2) \in 1..Len(rq[r2])
        /\ rq[r][old(r, j)] = rq[r2][old(r2, j2)]
    BY <1>4, <1>7
  <2>2. r = r2 /\ old(r, j) = old(r2, j2)
    <3> HIDE DEF old, u
    <3> QED BY SMTT(60), <2>1 DEF Exact
  <2> QED BY <2>2, <1>6
<1>8. ASSUME NEW r \in Prios, NEW j \in 1..Len(u[r])
      PROVE  t[u[r][j]] \in Waiting /\ pr[u[r][j]] = r
  <2>1. st[u[r][j]] \in Waiting /\ pr[u[r][j]] = r
    <3>1. old(r, j) \in 1..Len(rq[r]) /\ u[r][j] = rq[r][old(r, j)]
      BY <1>4
    <3> HIDE DEF old, u
    <3> QED BY <3>1 DEF Exact
  <2>2. u[r][j] \in Procs
    BY <1>3, ElementOfSeq DEF Queues
  <2> QED BY <1>5, <2>1, <2>2
<1>9. ASSUME NEW x \in Procs, t[x] \in Waiting
      PROVE  Linked(u, x)
  <2>1. x # p /\ st[x] \in Waiting
    BY <1>1, <1>9
  <2>2. PICK r \in Prios : Contains(rq[r], x)
    BY <2>1 DEF Exact, Linked
  <2>5. PICK j \in 1..Len(rq[r]) : rq[r][j] = x
    BY <2>2 DEF Contains
  <2>3. CASE r # q
    BY <1>3, <2>2, <2>3 DEF Linked
  <2>4. CASE r = q
    <3>1. j # i
      BY <2>1, <2>5, <2>4
    <3> DEFINE n == IF j < i THEN j ELSE j - 1
    <3>2. n \in 1..(Len(rq[q]) - 1) /\ k[n] = x
      BY SMTT(60), <1>1, <1>2, <2>5, <2>4, <3>1
    <3> HIDE DEF n
    <3> QED BY <1>2, <1>3, <3>2 DEF Linked, Contains
  <2> QED BY <2>3, <2>4
<1>10. ~Linked(u, p)
  BY <1>5 DEF Linked, Contains
<1> HIDE DEF u, t, old
<1>11. Exact(t, u, pr)
  BY <1>7, <1>8, <1>9 DEF Exact
<1> QED
  BY <1>1, <1>3, <1>10, <1>11 DEF u, t

\* Only the processes that are READY or BLOCKED matter to the queues.
LEMMA RelabelExact ==
    ASSUME NEW st \in [Procs -> States], NEW rq \in Queues,
           NEW pr \in [Procs -> Prios], Exact(st, rq, pr),
           NEW st2, NEW pr2,
           \A p \in Procs : st[p] \in Waiting <=> st2[p] \in Waiting,
           \A p \in Procs : st[p] \in Waiting => pr[p] = pr2[p]
    PROVE  Exact(st2, rq, pr2)
<1>1. \A q \in Prios : \A i \in 1..Len(rq[q]) : rq[q][i] \in Procs
  BY ElementOfSeq DEF Queues
<1> QED
  BY <1>1 DEF Exact

\* A process outside the queues is linked once by ready_enqueue.
LEMMA EnqueueExact ==
    ASSUME NEW st \in [Procs -> States], NEW rq \in Queues,
           NEW pr \in [Procs -> Prios], Exact(st, rq, pr),
           NEW p \in Procs, st[p] \notin Waiting, NEW w \in Waiting
    PROVE  /\ ready_enqueue(rq, p, pr[p]) \in Queues
           /\ Exact([st EXCEPT ![p] = w], ready_enqueue(rq, p, pr[p]), pr)
<1> DEFINE q == pr[p]
           u == ready_enqueue(rq, p, q)
           t == [st EXCEPT ![p] = w]
<1>1. \A r \in Prios : \A i \in 1..Len(rq[r]) : rq[r][i] \in Procs /\ rq[r][i] # p
  BY ElementOfSeq DEF Queues, Exact
<1>2. \A r \in Prios : rq[r] \in Seq(Procs) /\ Len(rq[r]) \in Nat
  BY LenProperties DEF Queues
<1>3. q \in Prios /\ u = [rq EXCEPT ![q] = Append(rq[q], p)]
  BY <1>1 DEF ready_enqueue, Contains
<1>4. /\ Append(rq[q], p) \in Seq(Procs)
      /\ Len(Append(rq[q], p)) = Len(rq[q]) + 1
      /\ \A i \in 1..Len(rq[q]) : Append(rq[q], p)[i] = rq[q][i]
      /\ Append(rq[q], p)[Len(rq[q]) + 1] = p
  BY <1>2, <1>3, AppendProperties
<1>5. /\ u \in Queues
      /\ \A r \in Prios : r # q => u[r] = rq[r]
      /\ u[q] = Append(rq[q], p)
  BY <1>3, <1>4 DEF Queues
<1> HIDE DEF u, q
<1>6. /\ Len(u[q]) = Len(rq[q]) + 1
      /\ \A i \in 1..Len(rq[q]) : u[q][i] = rq[q][i]
      /\ u[q][Len(rq[q]) + 1] = p
  BY <1>4, <1>5
<1>7. ASSUME NEW r \in Prios, NEW i \in 1..Len(u[r])
      PROVE  \/ i \in 1..Len(rq[r]) /\ u[r][i] = rq[r][i]
             \/ r = q /\ i = Len(rq[q]) + 1 /\ u[r][i] = p
  BY <1>2, <1>3, <1>5, <1>6
<1>8. ASSUME NEW r \in Prios, NEW r2 \in Prios,
             NEW j \in 1..Len(u[r]), NEW j2 \in 1..Len(u[r2]), u[r][j] = u[r2][j2]
      PROVE  r = r2 /\ j = j2
  <2>1. CASE u[r][j] = p
    <3>1. r = q /\ j = Len(rq[q]) + 1
      BY ZenonT(60), <1>1, <1>7, <2>1
    <3>2. r2 = q /\ j2 = Len(rq[q]) + 1
      BY ZenonT(60), <1>1, <1>7, <1>8, <2>1
    <3> QED BY <3>1, <3>2
  <2>2. CASE u[r][j] # p
    <3>1. /\ j \in 1..Len(rq[r]) /\ j2 \in 1..Len(rq[r2])
          /\ rq[r][j] = rq[r2][j2]
      BY ZenonT(60), <1>7, <1>8, <2>2
    <3> QED BY <3>1 DEF Exact
  <2> QED BY <2>1, <2>2
<1>9. ASSUME NEW r \in Prios, NEW i \in 1..Len(u[r])
      PROVE  t[u[r][i]] \in Waiting /\ pr[u[r][i]] = r
  <2>1. CASE u[r][i] = p
    BY <1>1, <1>7, <2>1 DEF q
  <2>2. CASE u[r][i] # p
    BY ZenonT(60), <1>1, <1>7, <2>2 DEF Exact
  <2> QED BY <2>1, <2>2
<1>10. ASSUME NEW x \in Procs, t[x] \in Waiting
       PROVE  Linked(u, x)
  <2>1. CASE x = p
    <3>1. Len(rq[q]) + 1 \in 1..Len(u[q])
      BY <1>2, <1>3, <1>6
    <3> QED BY ZenonT(60), <1>3, <1>6, <2>1, <3>1 DEF Linked, Contains
  <2>2. CASE x # p
    <3>1. PICK r \in Prios : Contains(rq[r], x)
      BY <1>10, <2>2 DEF Exact, Linked
    <3>2. PICK i \in 1..Len(rq[r]) : rq[r][i] = x
      BY <3>1 DEF Contains
    <3>3. i \in 1..Len(u[r]) /\ u[r][i] = x
      BY <1>2, <1>3, <1>5, <1>6, <3>2
    <3> QED BY <3>3 DEF Linked, Contains
  <2> QED BY <2>1, <2>2
<1> HIDE DEF t
<1>11. Exact(t, u, pr)
  BY <1>8, <1>9, <1>10 DEF Exact
<1> QED
  BY <1>5, <1>11 DEF u, t, q

\* A linked process has one link, in the queue of its priority.
LEMMA LinkedOnce ==
    ASSUME NEW st \in [Procs -> States], NEW rq \in Queues,
           NEW pr \in [Procs -> Prios], Exact(st, rq, pr),
           NEW p \in Procs, st[p] \in Waiting
    PROVE  \E i \in 1..Len(rq[pr[p]]) :
               /\ rq[pr[p]][i] = p
               /\ ready_dequeue(rq, p) = Unlink(rq, pr[p], i)
<1>1. Linked(rq, p)
  BY DEF Exact
<1>2. PICK q \in Prios : Contains(rq[q], p)
  BY <1>1 DEF Linked
<1>3. PICK i \in 1..Len(rq[q]) : rq[q][i] = p
  BY <1>2 DEF Contains
<1>4. q = pr[p]
  BY <1>3 DEF Exact
<1>5. \A r \in Prios : \A j \in 1..Len(rq[r]) : rq[r][j] = p => r = q /\ j = i
  BY <1>3 DEF Exact
<1>6. \A r \in Prios : Contains(rq[r], p) => r = q
  BY <1>5 DEF Contains
<1> DEFINE First(r) == Contains(rq[r], p) /\ \A x \in 0..(r - 1) : ~Contains(rq[x], p)
           q0 == CHOOSE r \in Prios : First(r)
<1>7. First(q)
  BY <1>2, <1>6, SchedAssumption DEF Prios
<1>8. q0 \in Prios /\ First(q0)
  <2> HIDE DEF First
  <2> QED BY <1>7
<1>9. q0 = q
  BY <1>6, <1>8
<1> DEFINE At(j) == rq[q][j] = p /\ \A x \in 1..(j - 1) : rq[q][x] # p
           i0 == CHOOSE j \in 1..Len(rq[q]) : At(j)
<1>10. Len(rq[q]) \in Nat
  BY LenProperties DEF Queues
<1>11. At(i)
  BY <1>3, <1>5, <1>10
<1>12. i0 \in 1..Len(rq[q]) /\ At(i0)
  <2> HIDE DEF At
  <2> QED BY <1>11
<1>13. i0 = i
  BY <1>5, <1>12
<1>14. FirstAt(rq[q], p) = i
  BY <1>13 DEF FirstAt
<1>15. ready_dequeue(rq, p) = Unlink(rq, q0, FirstAt(rq[q0], p))
  BY <1>1 DEF ready_dequeue
<1> QED
  BY ZenonT(60), <1>3, <1>4, <1>9, <1>14, <1>15

\* ready_dequeue takes the process out of the queues, if it is there.
LEMMA DequeueExact ==
    ASSUME NEW st \in [Procs -> States], NEW rq \in Queues,
           NEW pr \in [Procs -> Prios], Exact(st, rq, pr),
           NEW p \in Procs, NEW s \in States \ Waiting
    PROVE  /\ ready_dequeue(rq, p) \in Queues
           /\ Exact([st EXCEPT ![p] = s], ready_dequeue(rq, p), pr)
<1>1. CASE st[p] \in Waiting
  <2>1. PICK i \in 1..Len(rq[pr[p]]) : /\ rq[pr[p]][i] = p
                                      /\ ready_dequeue(rq, p) = Unlink(rq, pr[p], i)
    BY <1>1, LinkedOnce
  <2> QED BY ZenonT(60), <2>1, UnlinkExact
<1>2. CASE st[p] \notin Waiting
  <2>1. ~Linked(rq, p)
    BY <1>2 DEF Exact, Linked, Contains
  <2>2. ready_dequeue(rq, p) = rq
    BY <2>1 DEF ready_dequeue
  <2>3. \A x \in Procs : st[x] \in Waiting <=> [st EXCEPT ![p] = s][x] \in Waiting
    BY <1>2
  <2>4. Exact([st EXCEPT ![p] = s], rq, pr)
    BY ZenonT(60), <2>3, RelabelExact
  <2> QED BY <2>2, <2>4
<1> QED BY <1>1, <1>2

-----------------------------------------------------------------------------
(* Leaving the processor. *)

\* How the states st that pick_next_ready sees may differ from the ones before
\* the call: sleepers may have woken, and the caller may have blocked.
Drift(c, st) ==
    /\ st \in [Procs -> States]
    /\ \A p \in Procs : p # cur(c) =>
          st[p] = state[p] \/ (state[p] = "blocked" /\ st[p] = "ready")
    /\ cur(c) # Idle => (st[cur(c)] = "dead" <=> cpc[c] = "exited")

\* A CPU that is in __sched_yield_locked.
Yielding(c) == cpc[c] \in {"run", "exited"} /\ (cur(c) = Idle => cpc[c] = "run")

\* Switching to a process that is READY, off the queues, saved and on no CPU,
\* or to the idle process, preserves the invariant.
LEMMA SwitchToPreserves ==
    ASSUME SchedInv, NEW c \in CPUs, Yielding(c), NEW st, Drift(c, st), NEW rq \in Queues,
           NEW next \in Procs \cup {Idle}, next # cur(c), next \notin switching,
           next \in Procs => st[next] = "ready",
           Exact([r \in Procs |-> IF r = next THEN "running" ELSE st[r]], rq, priority),
           SwitchTo(c, next, st, rq),
           sleep_until' \in [Procs -> Deadlines], UNCHANGED <<reaped, priority>>
    PROVE  /\ state' \in [Procs -> States] /\ ready_head' \in Queues
           /\ QueuesExact' /\ CurrentInv' /\ SwitchInv' /\ FreeInv'
<1> DEFINE p == cur(c)
           st1 == [r \in Procs |-> IF r = next THEN "running" ELSE st[r]]
<1>1. /\ p \in Procs \cup {Idle} /\ Idle \notin Procs /\ NoProc \notin Procs \cup {Idle}
      /\ priority \in [Procs -> Prios]
      /\ current_proc \in [CPUs -> Procs \cup {Idle}]
      /\ cpc \in [CPUs -> CpuPCs] /\ subject \in [CPUs -> Procs \cup {Idle, NoProc}]
      /\ state \in [Procs -> States] /\ switching \subseteq Procs
      /\ st \in [Procs -> States]
  BY SchedAssumption DEF SchedInv, TypeOK, cur, Drift
<1>2. st1 \in [Procs -> States]
  BY ZenonT(60), <1>1 DEF States
<1>3. /\ current_proc' = [current_proc EXCEPT ![c] = next]
      /\ switching' = IF p = Idle THEN switching ELSE switching \cup {p}
      /\ cpc' = [cpc EXCEPT ![c] = "switch"]
      /\ subject' = [subject EXCEPT ![c] = p]
  BY DEF SwitchTo
<1>4. /\ state' \in [Procs -> States] /\ ready_head' \in Queues
      /\ QueuesExact'
      /\ \A r \in Procs : r # p => state'[r] = st1[r]
      /\ p # Idle => (state'[p] = "dead" <=> st[p] = "dead")
  <2>1. CASE p # Idle /\ st[p] = "running"
    <3>1. /\ state' = [st1 EXCEPT ![p] = "ready"]
          /\ ready_head' = ready_enqueue(rq, p, priority[p])
      BY <1>1, <2>1 DEF SwitchTo
    <3>2. st1[p] \notin Waiting /\ p \in Procs /\ "ready" \in Waiting
      BY <1>1, <2>1 DEF Waiting
    <3>3. /\ ready_head' \in Queues
          /\ Exact(state', ready_head', priority)
      <4> HIDE DEF st1, p
      <4> QED BY <1>1, <1>2, <3>1, <3>2, EnqueueExact DEF st1
    <3> QED BY <1>1, <1>2, <2>1, <3>1, <3>3 DEF QueuesExact, States
  <2>2. CASE ~(p # Idle /\ st[p] = "running")
    <3>1. state' = st1 /\ ready_head' = rq
      BY <1>1, <2>2 DEF SwitchTo
    <3> QED BY <1>1, <1>2, <3>1 DEF QueuesExact
  <2> QED BY <2>1, <2>2
<1>5. next \in Procs => state'[next] = "running"
  BY ZenonT(60), <1>1, <1>4
<1>6. /\ \A d \in CPUs : cur(d) = next => next = Idle
      /\ next \in Procs => ~reaped[next] /\ \A d \in CPUs : subject[d] # next
  <2> SUFFICES ASSUME next \in Procs
               PROVE  /\ \A d \in CPUs : cur(d) # next
                      /\ ~reaped[next] /\ \A d \in CPUs : subject[d] # next
    OBVIOUS
  <2>1. state[next] \in Waiting
    BY ZenonT(60), <1>1 DEF Drift, Waiting
  <2>2. state[next] # "running" /\ state[next] # "dead"
    BY <2>1 DEF Waiting
  <2>3. \A d \in CPUs : cur(d) # next
    BY <1>1, <2>2 DEF SchedInv, CurrentInv
  <2>4. ~reaped[next]
    BY <2>2 DEF SchedInv, FreeInv
  <2>5. \A d \in CPUs : subject[d] # next
    BY <1>1, <2>2 DEF SchedInv, SwitchInv, CpuPCs
  <2> QED BY <2>3, <2>4, <2>5
<1>7. /\ \A d \in CPUs : current_proc'[d] = IF d = c THEN next ELSE cur(d)
      /\ \A d \in CPUs : cpc'[d] = IF d = c THEN "switch" ELSE cpc[d]
      /\ \A d \in CPUs : subject'[d] = IF d = c THEN p ELSE subject[d]
  BY ZenonT(60), <1>1, <1>3 DEF cur
<1>8. CurrentInv'
  <2>3. \A d \in CPUs : cpc'[d] \notin {"run", "switch"} => current_proc'[d] # Idle
    BY ZenonT(60), <1>7 DEF SchedInv, CurrentInv
  <2> SUFFICES ASSUME NEW d \in CPUs, current_proc'[d] # Idle
               PROVE  /\ state'[current_proc'[d]] =
                             IF cpc'[d] \in {"run", "switch", "fork"} THEN "running" ELSE "dead"
                      /\ \A e \in CPUs : e # d => current_proc'[e] # current_proc'[d]
    BY ZenonT(60), <2>3 DEF CurrentInv, cur
  <2>1. CASE d = c
    BY <1>1, <1>5, <1>6, <1>7, <2>1
  <2>2. CASE d # c
    <3>1. cur(d) # Idle /\ cur(d) \in Procs /\ cur(d) # p /\ cur(d) # next
      BY <1>1, <1>6, <1>7, <2>2 DEF SchedInv, CurrentInv, cur
    <3>2. state[cur(d)] = IF cpc[d] \in {"run", "switch", "fork"} THEN "running" ELSE "dead"
      BY ZenonT(60), <3>1 DEF SchedInv, CurrentInv
    <3>3. state'[cur(d)] = state[cur(d)]
      BY ZenonT(60), <1>4, <3>1, <3>2 DEF Drift
    <3>4. \A e \in CPUs : e # d => current_proc'[e] # cur(d)
      BY ZenonT(60), <1>7, <3>1 DEF SchedInv, CurrentInv
    <3> QED BY ZenonT(60), <1>7, <2>2, <3>2, <3>3, <3>4
  <2> QED BY ZenonT(60), <2>1, <2>2
<1>9. p \in Procs => \A d \in CPUs : subject[d] # p
  BY DEF SchedInv, SwitchInv
<1>10. SwitchInv'
  <2>1. \A d \in CPUs : cpc'[d] \notin {"switch", "fork"} => subject'[d] = NoProc
    BY <1>7 DEF SchedInv, SwitchInv
  <2>2. \A d \in CPUs : cpc'[d] = "switch" => subject'[d] \in switching' \cup {Idle}
    BY ZenonT(60), <1>1, <1>3, <1>7 DEF SchedInv, SwitchInv
  <2>3. ASSUME NEW d \in CPUs, cpc'[d] = "fork"
        PROVE  subject'[d] \in Procs /\ state'[subject'[d]] = "dead"
    <3>1. d # c /\ subject'[d] = subject[d] /\ cpc[d] = "fork"
      BY ZenonT(60), <1>7, <2>3
    <3>2. /\ subject[d] \in Procs /\ state[subject[d]] = "dead"
          /\ subject[d] # p /\ subject[d] # next
      BY ZenonT(60), <1>6, <1>9, <3>1 DEF SchedInv, SwitchInv
    <3>3. subject[d] # cur(c) /\ state'[subject[d]] = st[subject[d]]
      BY ZenonT(60), <1>4, <3>2
    <3>4. st[subject[d]] = "dead"
      BY <3>2, <3>3 DEF Drift
    <3> QED BY ZenonT(60), <1>7, <3>1, <3>2, <3>3, <3>4
  <2>4. ASSUME NEW d \in CPUs, NEW e \in CPUs, subject'[d] \in Procs
        PROVE  current_proc'[e] # subject'[d] /\ (subject'[e] = subject'[d] => e = d)
    <3>1. CASE d = c
      <4>1. subject'[d] = p /\ p \in Procs
        BY ZenonT(60), <1>7, <2>4, <3>1
      <4>2. \A f \in CPUs : f # c => cur(f) # p
        BY ZenonT(60), <1>1, <4>1 DEF SchedInv, CurrentInv
      <4> QED BY ZenonT(60), <1>7, <1>9, <3>1, <4>1, <4>2
    <3>2. CASE d # c
      <4>1. subject'[d] = subject[d] /\ subject[d] \in Procs
        BY ZenonT(60), <1>7, <2>4, <3>2
      <4>2. cur(e) # subject[d] /\ subject[d] # next /\ subject[d] # p
        BY ZenonT(60), <1>6, <1>9, <4>1 DEF SchedInv, SwitchInv
      <4>3. subject[e] = subject[d] => e = d
        BY <4>1 DEF SchedInv, SwitchInv
      <4> QED BY ZenonT(60), <1>7, <4>1, <4>2, <4>3
    <3> QED BY ZenonT(60), <3>1, <3>2
  <2>5. \A d \in CPUs : current_proc'[d] \notin switching'
    <3> SUFFICES ASSUME NEW d \in CPUs PROVE current_proc'[d] \notin switching'
      OBVIOUS
    <3>1. CASE d = c
      BY <1>3, <1>7, <3>1
    <3>2. CASE d # c
      <4>1. cur(d) \notin switching
        BY ZenonT(60) DEF SchedInv, SwitchInv
      <4>2. p # Idle => cur(d) # p
        BY ZenonT(60), <3>2 DEF SchedInv, CurrentInv
      <4> QED BY <1>3, <1>7, <3>2, <4>1, <4>2
    <3> QED BY <3>1, <3>2
  <2> QED BY ZenonT(60), <2>1, <2>2, <2>3, <2>4, <2>5 DEF SwitchInv, cur
<1>11. FreeInv'
  <2> SUFFICES ASSUME NEW x \in Procs, reaped[x]
               PROVE  /\ state'[x] = "dead"
                      /\ \A d \in CPUs : current_proc'[d] # x /\ subject'[d] # x
    BY ZenonT(60) DEF FreeInv, cur
  <2>1. /\ state[x] = "dead" /\ x # next /\ x # p
        /\ \A d \in CPUs : cur(d) # x /\ subject[d] # x
    BY <1>6 DEF SchedInv, FreeInv
  <2> QED BY ZenonT(60), <1>4, <1>7, <2>1 DEF Drift
<1> QED BY <1>4, <1>8, <1>10, <1>11

\* A process that the scan gives back to its own CPU goes on there.
LEMMA StayPreserves ==
    ASSUME SchedInv, NEW c \in CPUs, cpc[c] = "run", NEW st, Drift(c, st),
           state' = [r \in Procs |-> IF r = cur(c) THEN "running" ELSE st[r]],
           ready_head' \in Queues, Exact(state', ready_head', priority),
           cpc' = [cpc EXCEPT ![c] = "run"], subject' = [subject EXCEPT ![c] = NoProc],
           UNCHANGED <<current_proc, switching, reaped, priority>>
    PROVE  /\ state' \in [Procs -> States] /\ ready_head' \in Queues
           /\ QueuesExact' /\ CurrentInv' /\ SwitchInv' /\ FreeInv'
<1>1. /\ Idle \notin Procs /\ NoProc \notin Procs \cup {Idle}
      /\ current_proc \in [CPUs -> Procs \cup {Idle}]
      /\ cpc \in [CPUs -> CpuPCs] /\ subject \in [CPUs -> Procs \cup {Idle, NoProc}]
      /\ state \in [Procs -> States] /\ st \in [Procs -> States]
  BY SchedAssumption DEF SchedInv, TypeOK, Drift
<1>2. cpc' = cpc /\ subject' = subject
  BY <1>1 DEF SchedInv, SwitchInv
<1>3. state' \in [Procs -> States] /\ QueuesExact'
  BY ZenonT(60), <1>1 DEF States, QueuesExact
<1>4. \A r \in Procs : state[r] \in {"running", "dead"} => state'[r] = state[r]
  <2> SUFFICES ASSUME NEW r \in Procs, state[r] \in {"running", "dead"}
               PROVE  state'[r] = state[r]
    OBVIOUS
  <2>1. CASE r = cur(c)
    BY ZenonT(60), <1>1, <2>1 DEF SchedInv, CurrentInv
  <2>2. CASE r # cur(c)
    BY <1>1, <2>2 DEF Drift
  <2> QED BY <2>1, <2>2
<1>5. \A d \in CPUs : cur(d)' = cur(d) /\ cur(d) \in Procs \cup {Idle}
  BY ZenonT(60), <1>1 DEF cur
<1>6. CurrentInv'
  BY SMTT(60), <1>2, <1>4, <1>5 DEF SchedInv, CurrentInv
<1>7. SwitchInv'
  BY SMTT(60), <1>2, <1>4, <1>5 DEF SchedInv, SwitchInv
<1>8. FreeInv'
  BY <1>2, <1>4, <1>5 DEF SchedInv, FreeInv
<1> QED BY SMTT(60), <1>3, <1>6, <1>7, <1>8

\* The whole of __sched_yield_locked preserves the invariant: it needs no
\* recovery scan, and every process it takes up is saved and on no CPU.
LEMMA YieldPreserves ==
    ASSUME SchedInv, NEW c \in CPUs, Yielding(c), NEW st0, Drift(c, st0),
           NEW su0 \in [Procs -> Deadlines], NEW rq0 \in Queues, Exact(st0, rq0, priority),
           sched_yield_locked(c, st0, su0, rq0), UNCHANGED <<reaped, priority>>
    PROVE  /\ sleep_until' \in [Procs -> Deadlines]
           /\ current_proc' \in [CPUs -> Procs \cup {Idle}] /\ switching' \subseteq Procs
           /\ cpc' \in [CPUs -> CpuPCs] /\ subject' \in [CPUs -> Procs \cup {Idle, NoProc}]
           /\ state' \in [Procs -> States] /\ ready_head' \in Queues
           /\ QueuesExact' /\ CurrentInv' /\ SwitchInv' /\ FreeInv'
<1> DEFINE woken == Expired(st0, su0, rq0)
           st == [p \in Procs |-> IF p \in woken THEN "ready" ELSE st0[p]]
<1>1. /\ Idle \notin Procs /\ NoProc \notin Procs \cup {Idle}
      /\ current_proc \in [CPUs -> Procs \cup {Idle}] /\ switching \subseteq Procs
      /\ cpc \in [CPUs -> CpuPCs] /\ subject \in [CPUs -> Procs \cup {Idle, NoProc}]
      /\ priority \in [Procs -> Prios] /\ st0 \in [Procs -> States]
      /\ cur(c) \in Procs \cup {Idle} /\ cur(c) \notin switching
  BY ZenonT(60), SchedAssumption DEF SchedInv, TypeOK, Drift, cur, SwitchInv
<1>2. sleep_until' \in [Procs -> Deadlines]
  BY DEF sched_yield_locked, Deadlines
<1>3. \A p \in Procs : st[p] = st0[p] \/ (st0[p] = "blocked" /\ st[p] = "ready")
  BY DEF Expired
<1>4. st \in [Procs -> States]
  BY SMTT(60), <1>1 DEF States
<1>5. /\ \/ \E q \in Prios : \E i \in 1..Len(rq0[q]) :
                IsPick(st, rq0, q, i) /\ Dispatch(c, rq0[q][i], st, Unlink(rq0, q, i))
         \/ /\ NoPick(st, rq0)
            /\ \E next \in IF Stranded(st, rq0) # {} THEN Stranded(st, rq0) ELSE {cur(c)} :
                   Dispatch(c, next, st, rq0)
  BY ZenonT(60) DEF sched_yield_locked
<1> HIDE DEF st, woken
<1>6. Exact(st, rq0, priority)
  <2>1. \A p \in Procs : st0[p] \in Waiting <=> st[p] \in Waiting
    BY <1>3 DEF Waiting
  <2> QED BY <1>1, <2>1, RelabelExact
<1>7. Drift(c, st)
  <2>1. \A p \in Procs : p # cur(c) =>
            st[p] = state[p] \/ (state[p] = "blocked" /\ st[p] = "ready")
    BY ZenonT(60), <1>3 DEF Drift
  <2>2. cur(c) # Idle => (st[cur(c)] = "dead" <=> cpc[c] = "exited")
    BY <1>1, <1>3 DEF Drift
  <2> QED BY ZenonT(60), <1>4, <2>1, <2>2 DEF Drift
<1> DEFINE Goal == /\ current_proc' \in [CPUs -> Procs \cup {Idle}] /\ switching' \subseteq Procs
                   /\ cpc' \in [CPUs -> CpuPCs]
                   /\ subject' \in [CPUs -> Procs \cup {Idle, NoProc}]
                   /\ state' \in [Procs -> States] /\ ready_head' \in Queues
                   /\ QueuesExact' /\ CurrentInv' /\ SwitchInv' /\ FreeInv'
<1>8. ASSUME NEW next \in Procs \cup {Idle}, next # cur(c), next \notin switching,
             next \in Procs => st[next] = "ready", NEW rq \in Queues,
             Exact([r \in Procs |-> IF r = next THEN "running" ELSE st[r]], rq, priority),
             SwitchTo(c, next, st, rq)
      PROVE  Goal
  <2>1. /\ state' \in [Procs -> States] /\ ready_head' \in Queues
        /\ QueuesExact' /\ CurrentInv' /\ SwitchInv' /\ FreeInv'
    BY ZenonT(60), <1>2, <1>7, <1>8, SwitchToPreserves
  <2>2. /\ current_proc' \in [CPUs -> Procs \cup {Idle}] /\ switching' \subseteq Procs
        /\ cpc' \in [CPUs -> CpuPCs] /\ subject' \in [CPUs -> Procs \cup {Idle, NoProc}]
    BY <1>1, <1>8 DEF SwitchTo, CpuPCs
  <2> QED BY <2>1, <2>2
<1>9. ASSUME cpc[c] = "run", UNCHANGED <<current_proc, switching>>,
             state' = [r \in Procs |-> IF r = cur(c) THEN "running" ELSE st[r]],
             ready_head' \in Queues, Exact(state', ready_head', priority),
             cpc' = [cpc EXCEPT ![c] = "run"], subject' = [subject EXCEPT ![c] = NoProc]
      PROVE  Goal
  <2>1. /\ state' \in [Procs -> States] /\ ready_head' \in Queues
        /\ QueuesExact' /\ CurrentInv' /\ SwitchInv' /\ FreeInv'
    BY ZenonT(60), <1>7, <1>9, StayPreserves
  <2>2. /\ current_proc' \in [CPUs -> Procs \cup {Idle}] /\ switching' \subseteq Procs
        /\ cpc' \in [CPUs -> CpuPCs] /\ subject' \in [CPUs -> Procs \cup {Idle, NoProc}]
    BY <1>1, <1>9 DEF CpuPCs
  <2> QED BY <2>1, <2>2
<1> HIDE DEF Goal
<1>10. ASSUME NEW q \in Prios, NEW i \in 1..Len(rq0[q]), IsPick(st, rq0, q, i),
              Dispatch(c, rq0[q][i], st, Unlink(rq0, q, i))
       PROVE  Goal
  <2> DEFINE next == rq0[q][i]
             rq == Unlink(rq0, q, i)
  <2>1. st[next] = "ready" /\ next \notin switching
    BY <1>10 DEF IsPick, Pickable
  <2>2. "running" \in States \ Waiting
    BY DEF States, Waiting
  <2>3. /\ next \in Procs /\ rq \in Queues
        /\ Exact([st EXCEPT ![next] = "running"], rq, priority)
    BY ZenonT(60), <1>1, <1>4, <1>6, <2>2, UnlinkExact
  <2>4. [st EXCEPT ![next] = "running"] = [r \in Procs |-> IF r = next THEN "running" ELSE st[r]]
    BY ZenonT(60), <1>4
  <2> HIDE DEF next, rq
  <2>5. CASE next # cur(c)
    <3>1. SwitchTo(c, next, st, rq)
      BY ZenonT(60), <1>10, <2>5 DEF Dispatch, next, rq
    <3> QED BY <1>8, <2>1, <2>3, <2>4, <2>5, <3>1
  <2>6. CASE next = cur(c)
    <3>1. cur(c) # Idle /\ st[cur(c)] = "ready" /\ cur(c) \in Procs
      BY ZenonT(60), <1>1, <2>1, <2>3, <2>6
    <3>2. StayOrIdle(c, st, rq)
      BY ZenonT(60), <1>10, <2>6 DEF Dispatch, next, rq
    <3>3. /\ state' = [r \in Procs |-> IF r = cur(c) THEN "running" ELSE st[r]]
          /\ ready_head' = ready_dequeue(rq, cur(c))
          /\ cpc' = [cpc EXCEPT ![c] = "run"]
          /\ subject' = [subject EXCEPT ![c] = NoProc]
          /\ UNCHANGED <<current_proc, switching>>
      BY ZenonT(60), <3>1, <3>2 DEF StayOrIdle
    <3>4. state' = [st EXCEPT ![next] = "running"]
      BY <2>4, <2>6, <3>3
    <3>5. state' \in [Procs -> States] /\ Exact(state', rq, priority)
      BY <1>4, <2>3, <3>4 DEF States
    <3>6. state' = [state' EXCEPT ![cur(c)] = "running"]
      BY ZenonT(60), <3>1, <3>3
    <3>7. ready_head' \in Queues /\ Exact(state', ready_head', priority)
      <4>1. /\ rq \in Queues /\ priority \in [Procs -> Prios] /\ cur(c) \in Procs
            /\ state' \in [Procs -> States] /\ Exact(state', rq, priority)
        BY ZenonT(60), <1>1, <2>3, <3>1, <3>5
      <4>2. /\ ready_dequeue(rq, cur(c)) \in Queues
            /\ Exact([state' EXCEPT ![cur(c)] = "running"], ready_dequeue(rq, cur(c)), priority)
        BY ONLY ZenonT(60), <2>2, <4>1, DequeueExact
      <4> QED BY ZenonT(60), <3>3, <3>6, <4>2
    <3>8. cpc[c] = "run"
      BY <1>7, <3>1 DEF Drift, Yielding
    <3> QED BY ZenonT(60), <1>9, <3>3, <3>7, <3>8
  <2> QED BY ZenonT(60), <2>5, <2>6
<1>11. ASSUME NoPick(st, rq0),
              NEW next \in IF Stranded(st, rq0) # {} THEN Stranded(st, rq0) ELSE {cur(c)},
              Dispatch(c, next, st, rq0)
       PROVE  Goal
  <2>1. Stranded(st, rq0) = {}
    BY <1>6 DEF Stranded, Exact, Waiting
  <2>2. StayOrIdle(c, st, rq0)
    BY ZenonT(60), <1>11, <2>1 DEF Dispatch
  <2>3. cur(c) \in Procs => st[cur(c)] # "ready"
    <3> SUFFICES ASSUME cur(c) \in Procs, st[cur(c)] = "ready" PROVE FALSE
      OBVIOUS
    <3>1. PICK q \in Prios : Contains(rq0[q], cur(c))
      BY ZenonT(60), <1>6 DEF Exact, Waiting, Linked
    <3>2. PICK i \in 1..Len(rq0[q]) : rq0[q][i] = cur(c)
      BY ZenonT(60), <3>1 DEF Contains
    <3>3. ~Pickable(st, rq0, q, i)
      BY <1>11 DEF NoPick
    <3> QED BY <1>1, <3>2, <3>3 DEF Pickable
  <2>4. CASE cur(c) # Idle /\ st[cur(c)] \in {"blocked", "dead"}
    <3>1. SwitchTo(c, Idle, st, rq0)
      BY <2>2, <2>4 DEF StayOrIdle
    <3>2. st = [r \in Procs |-> IF r = Idle THEN "running" ELSE st[r]]
      BY <1>1, <1>4
    <3>3. Exact([r \in Procs |-> IF r = Idle THEN "running" ELSE st[r]], rq0, priority)
      BY <1>6, <3>2
    <3> QED BY ZenonT(60), <1>1, <1>8, <2>4, <3>1, <3>3
  <2>5. CASE ~(cur(c) # Idle /\ st[cur(c)] \in {"blocked", "dead"})
    <3>1. /\ state' = [r \in Procs |-> IF r = cur(c) THEN "running" ELSE st[r]]
          /\ ready_head' = rq0
          /\ cpc' = [cpc EXCEPT ![c] = "run"]
          /\ subject' = [subject EXCEPT ![c] = NoProc]
          /\ UNCHANGED <<current_proc, switching>>
      BY ZenonT(60), <1>1, <2>2, <2>3, <2>5 DEF StayOrIdle
    <3>2. cur(c) \in Procs => st[cur(c)] = "running"
      BY <1>1, <1>4, <2>3, <2>5 DEF States
    <3>3. state' = st
      BY ZenonT(60), <1>4, <3>1, <3>2
    <3>4. cpc[c] = "run"
      BY ZenonT(60), <1>1, <1>7, <3>2 DEF Drift, Yielding
    <3> QED BY SMTT(60), <1>6, <1>9, <3>1, <3>3, <3>4
  <2> QED BY ZenonT(60), <2>4, <2>5
<1>12. Goal
  BY ZenonT(60), <1>5, <1>10, <1>11
<1> QED BY <1>2, <1>12 DEF Goal

-----------------------------------------------------------------------------
(* Which process the scheduler takes up. *)

\* A READY process whose context is saved is found by the scan.
LEMMA ReadyPickable ==
    ASSUME NEW st, NEW rq \in Queues, Exact(st, rq, priority),
           NEW p \in Procs, st[p] = "ready", p \notin switching
    PROVE  /\ priority[p] \in Prios
           /\ \E i \in 1..Len(rq[priority[p]]) : Pickable(st, rq, priority[p], i)
<1>1. PICK q \in Prios : Contains(rq[q], p)
  BY ZenonT(60) DEF Exact, Waiting, Linked
<1>2. PICK i \in 1..Len(rq[q]) : rq[q][i] = p
  BY ZenonT(60), <1>1 DEF Contains
<1>3. priority[p] = q
  BY ZenonT(60), <1>2 DEF Exact
<1> QED BY ZenonT(60), <1>2, <1>3 DEF Pickable

\* The processes that are READY and saved after a switch were so at the scan.
LEMMA SwitchLeavesReady ==
    ASSUME SchedInv, NEW c \in CPUs, NEW next, NEW st, NEW rq, SwitchTo(c, next, st, rq),
           NEW p \in Procs, state'[p] = "ready", p \notin switching'
    PROVE  st[p] = "ready" /\ p \notin switching
<1>1. p # next
  BY ZenonT(60) DEF SwitchTo
<1>2. cur(c) # Idle => p # cur(c)
  BY DEF SwitchTo
<1>3. p # cur(c)
  BY ZenonT(60), <1>2, SchedAssumption
<1>4. state'[p] = st[p]
  BY <1>1, <1>3 DEF SwitchTo
<1> QED BY ZenonT(60), <1>4 DEF SwitchTo

\* What a CPU takes up is of the highest priority there is.
Highest(c) ==
    current_proc'[c] # cur(c) =>
        \A p \in Procs : state'[p] = "ready" /\ p \notin switching' =>
            current_proc'[c] # Idle /\ priority[current_proc'[c]] <= priority[p]

LEMMA YieldHighest ==
    ASSUME SchedInv, NEW c \in CPUs, NEW st0, Drift(c, st0), NEW su0,
           NEW rq0 \in Queues, Exact(st0, rq0, priority),
           sched_yield_locked(c, st0, su0, rq0)
    PROVE  \A d \in CPUs : Highest(d)
<1> DEFINE woken == Expired(st0, su0, rq0)
           st == [p \in Procs |-> IF p \in woken THEN "ready" ELSE st0[p]]
<1>1. /\ Idle \notin Procs /\ current_proc \in [CPUs -> Procs \cup {Idle}]
      /\ priority \in [Procs -> Prios] /\ st0 \in [Procs -> States]
      /\ cur(c) \in Procs \cup {Idle} /\ cur(c) \notin switching
  BY ZenonT(60), SchedAssumption DEF SchedInv, TypeOK, Drift, cur, SwitchInv
<1>2. \A p \in Procs : st[p] = st0[p] \/ (st0[p] = "blocked" /\ st[p] = "ready")
  BY DEF Expired
<1>3. st \in [Procs -> States]
  BY ZenonT(60), <1>1 DEF States
<1>4. \/ \E q \in Prios : \E i \in 1..Len(rq0[q]) :
             IsPick(st, rq0, q, i) /\ Dispatch(c, rq0[q][i], st, Unlink(rq0, q, i))
      \/ /\ NoPick(st, rq0)
         /\ \E next \in IF Stranded(st, rq0) # {} THEN Stranded(st, rq0) ELSE {cur(c)} :
                Dispatch(c, next, st, rq0)
  BY ZenonT(60) DEF sched_yield_locked
<1> HIDE DEF st, woken
<1>5. Exact(st, rq0, priority)
  <2>1. \A p \in Procs : st0[p] \in Waiting <=> st[p] \in Waiting
    BY <1>2 DEF Waiting
  <2> QED BY <1>1, <2>1, RelabelExact
<1>6. ASSUME UNCHANGED current_proc PROVE \A d \in CPUs : Highest(d)
  BY ZenonT(60), <1>6 DEF Highest, cur
<1>7. ASSUME NEW next, NEW rq, SwitchTo(c, next, st, rq)
      PROVE  current_proc'[c] = next /\ \A d \in CPUs \ {c} : current_proc'[d] = cur(d)
  BY ZenonT(60), <1>1, <1>7 DEF SwitchTo, cur
<1>8. ASSUME NEW q \in Prios, NEW i \in 1..Len(rq0[q]), IsPick(st, rq0, q, i),
             Dispatch(c, rq0[q][i], st, Unlink(rq0, q, i))
      PROVE  \A d \in CPUs : Highest(d)
  <2> DEFINE next == rq0[q][i]
  <2>1. st[next] = "ready" /\ next \in Procs /\ priority[next] = q
    BY <1>5, <1>8, ElementOfSeq DEF IsPick, Pickable, Exact, Queues
  <2> HIDE DEF next
  <2>2. CASE next = cur(c)
    <3>1. StayOrIdle(c, st, Unlink(rq0, q, i))
      BY ZenonT(60), <1>8, <2>2 DEF Dispatch, next
    <3>2. st[cur(c)] \notin {"blocked", "dead"}
      BY <2>1, <2>2
    <3> QED BY ZenonT(60), <1>6, <3>1, <3>2 DEF StayOrIdle
  <2>3. CASE next # cur(c)
    <3>1. SwitchTo(c, next, st, Unlink(rq0, q, i))
      BY ZenonT(60), <1>8, <2>3 DEF Dispatch, next
    <3>2. ASSUME NEW p \in Procs, state'[p] = "ready", p \notin switching'
          PROVE  q <= priority[p]
      <4>1. st[p] = "ready" /\ p \notin switching
        BY ZenonT(60), <3>1, <3>2, SwitchLeavesReady
      <4>2. PICK j \in 1..Len(rq0[priority[p]]) : Pickable(st, rq0, priority[p], j)
        BY ZenonT(60), <1>5, <4>1, ReadyPickable
      <4>3. priority[p] \in Prios /\ priority[p] \notin 0..(q - 1)
        BY ZenonT(60), <1>1, <1>8, <4>2 DEF IsPick
      <4> QED BY <4>3, SchedAssumption DEF Prios
    <3>3. next # Idle
      BY <1>1, <2>1
    <3> QED BY ZenonT(60), <1>7, <2>1, <3>1, <3>2, <3>3 DEF Highest
  <2> QED BY ZenonT(60), <2>2, <2>3
<1>9. ASSUME NoPick(st, rq0),
             NEW next \in IF Stranded(st, rq0) # {} THEN Stranded(st, rq0) ELSE {cur(c)},
             Dispatch(c, next, st, rq0)
      PROVE  \A d \in CPUs : Highest(d)
  <2>1. Stranded(st, rq0) = {}
    BY <1>5 DEF Stranded, Exact, Waiting
  <2>2. StayOrIdle(c, st, rq0)
    BY ZenonT(60), <1>9, <2>1 DEF Dispatch
  <2>3. CASE UNCHANGED current_proc
    BY <1>6, <2>3
  <2>4. CASE SwitchTo(c, Idle, st, rq0)
    <3>1. ASSUME NEW p \in Procs, state'[p] = "ready", p \notin switching' PROVE FALSE
      <4>1. st[p] = "ready" /\ p \notin switching
        BY ZenonT(60), <2>4, <3>1, SwitchLeavesReady
      <4>2. /\ priority[p] \in Prios
            /\ \E j \in 1..Len(rq0[priority[p]]) : Pickable(st, rq0, priority[p], j)
        BY ZenonT(60), <1>5, <4>1, ReadyPickable
      <4> QED BY ZenonT(60), <1>9, <4>2 DEF NoPick
    <3> QED BY ZenonT(60), <1>7, <2>4, <3>1 DEF Highest
  <2> QED BY ZenonT(60), <2>2, <2>3, <2>4 DEF StayOrIdle
<1> QED BY ZenonT(60), <1>4, <1>8, <1>9

\* The sleepers whose deadline is over, and a scheduler that wakes those of W.
DueIn(st, su) == {p \in Procs : st[p] = "blocked" /\ su[p] = "expired"}

WakesOnly(W, st, su) ==
    \A p \in Procs : /\ state'[p] = "blocked" <=> st[p] = "blocked" /\ p \notin W
                     /\ p \notin W => sleep_until'[p] = su[p]

\* What the scheduler does to the sleepers: those that it finds expired wake.
LEMMA YieldWakes ==
    ASSUME SchedInv, NEW c \in CPUs, NEW st0, Drift(c, st0), NEW su0,
           NEW rq0 \in Queues, Exact(st0, rq0, priority),
           sched_yield_locked(c, st0, su0, rq0)
    PROVE  \E W \in SUBSET DueIn(st0, su0) : WakesOnly(W, st0, su0)
<1> DEFINE woken == Expired(st0, su0, rq0)
           st == [p \in Procs |-> IF p \in woken THEN "ready" ELSE st0[p]]
<1>1. woken \in SUBSET DueIn(st0, su0)
  BY ZenonT(60) DEF Expired, DueIn
<1>2. \A p \in Procs : p \notin woken => sleep_until'[p] = su0[p]
  BY ZenonT(60) DEF sched_yield_locked
<1>3. \A p \in Procs : st[p] = "blocked" <=> st0[p] = "blocked" /\ p \notin woken
  BY ZenonT(60)
<1>4. \/ \E q \in Prios : \E i \in 1..Len(rq0[q]) :
             IsPick(st, rq0, q, i) /\ Dispatch(c, rq0[q][i], st, Unlink(rq0, q, i))
      \/ /\ NoPick(st, rq0)
         /\ \E next \in IF Stranded(st, rq0) # {} THEN Stranded(st, rq0) ELSE {cur(c)} :
                Dispatch(c, next, st, rq0)
  BY ZenonT(60) DEF sched_yield_locked
<1> HIDE DEF st, woken
<1>5. ASSUME NEW next, NEW rq, next \in Procs => st[next] = "ready", SwitchTo(c, next, st, rq)
      PROVE  \A p \in Procs : state'[p] = "blocked" <=> st[p] = "blocked"
  BY ZenonT(60), <1>5 DEF SwitchTo
<1>6. ASSUME NEW rq, StayOrIdle(c, st, rq)
      PROVE  \A p \in Procs : state'[p] = "blocked" <=> st[p] = "blocked"
  <2>1. CASE SwitchTo(c, Idle, st, rq)
    BY ZenonT(60), <1>5, <2>1, SchedAssumption
  <2>2. CASE /\ ~(cur(c) # Idle /\ st[cur(c)] \in {"blocked", "dead"})
             /\ state' = [r \in Procs |-> IF r = cur(c) THEN "running" ELSE st[r]]
    BY ZenonT(60), <2>2, SchedAssumption
  <2> QED BY ZenonT(60), <1>6, <2>1, <2>2 DEF StayOrIdle
<1>7. ASSUME NEW next, NEW rq, next # cur(c) => st[next] = "ready", Dispatch(c, next, st, rq)
      PROVE  \A p \in Procs : state'[p] = "blocked" <=> st[p] = "blocked"
  BY ZenonT(60), <1>5, <1>6, <1>7 DEF Dispatch
<1>8. \A p \in Procs : state'[p] = "blocked" <=> st[p] = "blocked"
  <2>1. ASSUME NEW q \in Prios, NEW i \in 1..Len(rq0[q]), IsPick(st, rq0, q, i),
               Dispatch(c, rq0[q][i], st, Unlink(rq0, q, i))
        PROVE  \A p \in Procs : state'[p] = "blocked" <=> st[p] = "blocked"
    BY ZenonT(60), <1>7, <2>1 DEF IsPick, Pickable
  <2>2. ASSUME NEW next \in IF Stranded(st, rq0) # {} THEN Stranded(st, rq0) ELSE {cur(c)},
               Dispatch(c, next, st, rq0)
        PROVE  \A p \in Procs : state'[p] = "blocked" <=> st[p] = "blocked"
    BY ZenonT(60), <1>7, <2>2 DEF Stranded
  <2> QED BY ZenonT(60), <1>4, <2>1, <2>2
<1>9. \A p \in Procs : state'[p] = "blocked" <=> st0[p] = "blocked" /\ p \notin woken
  BY ZenonT(60), <1>3, <1>8
<1> QED BY ZenonT(60), <1>1, <1>2, <1>9 DEF WakesOnly
=============================================================================
