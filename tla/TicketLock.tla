---------------------------- MODULE TicketLock ----------------------------
(***************************************************************************)
(* The ticket spinlock of kernel/hal/apic/spinlock.h.  Every action is one *)
(* memory access of one CPU: the atomic increment that draws a ticket, a   *)
(* load of the serving counter, the compare-and-swap of a try-acquire, the *)
(* increment that releases.  Both counters wrap at TicketMod (2^32 in the  *)
(* code).                                                                  *)
(***************************************************************************)
EXTENDS Naturals, FiniteSets, Sequences

CONSTANTS
    CPUs,           \* the processors
    NoCPU,          \* "no processor"
    TicketMod       \* number of distinct ticket values

ASSUME CPUsAssumption == IsFiniteSet(CPUs) /\ NoCPU \notin CPUs

\* Fewer processors than tickets: with as many outstanding tickets as ticket
\* values a held lock would look free to spinlock_try.
ASSUME TicketAssumption == TicketMod \in Nat /\ Cardinality(CPUs) < TicketMod

VARIABLES
    next_ticket,    \* spinlock_t.next_ticket
    serving_ticket, \* spinlock_t.serving_ticket
    pc,             \* where each CPU is in the lock code
    ticket,         \* the local variable `ticket`, for a CPU that drew one
    seen,           \* the local variable `next` of a try-acquire
    retry,          \* the loop counter of spinlock_try
    lag             \* tickets drawn since `next` was loaded (history variable)

vars == <<next_ticket, serving_ticket, pc, ticket, seen, retry, lag>>

Ticket == 0 .. TicketMod - 1

PCs == {"out", "spin", "held", "halted", "peek", "try", "serving", "cas"}

\* The counters are uint32_t: incrementing the last value gives 0.
Succ(t) == IF t = TicketMod - 1 THEN 0 ELSE t + 1

Trying == {c \in CPUs : pc[c] \in {"serving", "cas"}}

\* CPUs that drew a ticket and have not given it back.
Holders == {c \in CPUs : pc[c] \in {"spin", "held", "halted"}}

Init ==
    /\ next_ticket = 0
    /\ serving_ticket = 0
    /\ pc = [c \in CPUs |-> "out"]
    /\ ticket = [c \in CPUs |-> 0]
    /\ seen = [c \in CPUs |-> 0]
    /\ retry = [c \in CPUs |-> 0]
    /\ lag = [c \in CPUs |-> 0]

\* Drawing a ticket never makes the counter run a whole cycle while another
\* CPU is between two instructions of a try-acquire: that would take 2^32
\* acquisitions within the few cycles its interrupts are off.
NoLap(c) == \A d \in Trying \ {c} : lag[d] < TicketMod - 1

\* The counter moves on and CPU c has the ticket it showed.
DrawTicket(c) ==
    /\ NoLap(c)
    /\ ticket' = [ticket EXCEPT ![c] = next_ticket]
    /\ next_ticket' = Succ(next_ticket)
    /\ seen' = [seen EXCEPT ![c] = 0]
    /\ retry' = [retry EXCEPT ![c] = 0]
    /\ lag' = [d \in CPUs |->
                 IF d = c THEN 0
                 ELSE IF d \in Trying THEN lag[d] + 1 ELSE lag[d]]

\* spinlock_acquire: lock xaddl on next_ticket.
spinlock_acquire(c) ==
    /\ pc[c] = "out"
    /\ DrawTicket(c)
    /\ pc' = [pc EXCEPT ![c] = "spin"]
    /\ UNCHANGED serving_ticket

\* Mutant: a spin loop that waits for a free lock instead of its own number.
SpinDoneBarging(c) ==
    /\ pc[c] = "spin"
    /\ \A d \in CPUs : pc[d] # "held"
    /\ pc' = [pc EXCEPT ![c] = "held"]
    /\ UNCHANGED <<next_ticket, serving_ticket, ticket, seen, retry, lag>>

\* Mutant: the loop compares with the ticket after its own.
SpinDoneOffByOne(c) ==
    /\ pc[c] = "spin"
    /\ serving_ticket = Succ(ticket[c])
    /\ pc' = [pc EXCEPT ![c] = "held"]
    /\ UNCHANGED <<next_ticket, serving_ticket, ticket, seen, retry, lag>>

\* The spin loop sees its own number being served.
SpinDone(c) ==
    /\ pc[c] = "spin"
    /\ serving_ticket = ticket[c]
    /\ pc' = [pc EXCEPT ![c] = "held"]
    /\ UNCHANGED <<next_ticket, serving_ticket, ticket, seen, retry, lag>>

\* More than 10000000 fruitless spins: the CPU reports a deadlock and halts
\* for good, still holding its ticket.
SpinDeadlock(c) ==
    /\ pc[c] = "spin"
    /\ serving_ticket # ticket[c]
    /\ pc' = [pc EXCEPT ![c] = "halted"]
    /\ UNCHANGED <<next_ticket, serving_ticket, ticket, seen, retry, lag>>

spinlock_release(c) ==
    /\ pc[c] = "held"
    /\ serving_ticket' = Succ(serving_ticket)
    /\ ticket' = [ticket EXCEPT ![c] = 0]
    /\ pc' = [pc EXCEPT ![c] = "out"]
    /\ UNCHANGED <<next_ticket, seen, retry, lag>>

\* spinlock_try_irqsave loads next_ticket for its check with interrupts on.
spinlock_try_irqsave(c) ==
    /\ pc[c] = "out"
    /\ seen' = [seen EXCEPT ![c] = next_ticket]
    /\ pc' = [pc EXCEPT ![c] = "peek"]
    /\ UNCHANGED <<next_ticket, serving_ticket, ticket, retry, lag>>

\* The try-acquire goes on at label l, or returns false and its locals die.
ContinueTry(c, goOn, l) ==
    /\ pc' = [pc EXCEPT ![c] = IF goOn THEN l ELSE "out"]
    /\ seen' = [seen EXCEPT ![c] = IF goOn /\ l = "cas" THEN seen[c] ELSE 0]
    /\ lag' = [lag EXCEPT ![c] = IF goOn /\ l = "cas" THEN lag[c] ELSE 0]
    /\ UNCHANGED <<next_ticket, serving_ticket, ticket>>

\* ... and loads serving_ticket: a lock that looks held is given up on.
PeekServing(c) ==
    /\ pc[c] = "peek"
    /\ ContinueTry(c, serving_ticket = seen[c], "try")
    /\ UNCHANGED retry

\* spinlock_try: uint32_t next = lock->next_ticket.
TryLoadNext(c) ==
    /\ pc[c] = "try"
    /\ seen' = [seen EXCEPT ![c] = next_ticket]
    /\ pc' = [pc EXCEPT ![c] = "serving"]
    /\ UNCHANGED <<next_ticket, serving_ticket, ticket, retry, lag>>

\* uint32_t serving = lock->serving_ticket; if (next != serving) return false.
TryLoadServing(c) ==
    /\ pc[c] = "serving"
    /\ ContinueTry(c, serving_ticket = seen[c], "cas")
    /\ retry' = [retry EXCEPT ![c] = IF serving_ticket = seen[c] THEN @ ELSE 0]

\* Mutant: an increment that does not compare.
CasUnchecked(c) ==
    /\ pc[c] = "cas"
    /\ DrawTicket(c)
    /\ pc' = [pc EXCEPT ![c] = "held"]
    /\ UNCHANGED serving_ticket

\* lock cmpxchgl succeeds: the CPU owns the ticket that is being served.
CasSucceeds(c) ==
    /\ pc[c] = "cas"
    /\ next_ticket = seen[c]
    /\ DrawTicket(c)
    /\ pc' = [pc EXCEPT ![c] = "held"]
    /\ UNCHANGED serving_ticket

\* Another CPU drew the ticket first: retry once, then give up.
CasFails(c) ==
    /\ pc[c] = "cas"
    /\ next_ticket # seen[c]
    /\ ContinueTry(c, retry[c] = 0, "try")
    /\ retry' = [retry EXCEPT ![c] = 1 - @]

Next ==
    \E c \in CPUs :
        \/ spinlock_acquire(c)
        \/ SpinDone(c)
        \/ SpinDeadlock(c)
        \/ spinlock_release(c)
        \/ spinlock_try_irqsave(c)
        \/ PeekServing(c)
        \/ TryLoadNext(c)
        \/ TryLoadServing(c)
        \/ CasSucceeds(c)
        \/ CasFails(c)

Spec == Init /\ [][Next]_vars

\* A CPU in the lock code keeps executing (interrupts are off), and every
\* critical section of the kernel is finite.
Fairness ==
    \A c \in CPUs :
        /\ WF_vars(SpinDone(c))
        /\ WF_vars(spinlock_release(c))

FairSpec == Spec /\ Fairness

-----------------------------------------------------------------------------
\* Every variable stays within the range its C type gives it.
TypeOK ==
    /\ next_ticket \in Ticket
    /\ serving_ticket \in Ticket
    /\ pc \in [CPUs -> PCs]
    /\ ticket \in [CPUs -> Ticket]
    /\ seen \in [CPUs -> Ticket]
    /\ retry \in [CPUs -> 0..1]
    /\ lag \in [CPUs -> Ticket]

\* At most one CPU is inside a critical section, whichever of
\* spinlock_acquire and spinlock_try_irqsave it came through, although the
\* counters wrap and a try-acquire reads them one at a time.
MutualExclusion ==
    \A c, d \in CPUs : pc[c] = "held" /\ pc[d] = "held" => c = d

\* Steps from a up to b on the circle of ticket values.
Dist(a, b) == IF b >= a THEN b - a ELSE b + TicketMod - a

\* The inductive strengthening of MutualExclusion.  The distance between the
\* counters counts the outstanding tickets; outstanding tickets lie between
\* the counters and differ; a CPU in its critical section holds the ticket
\* being served; and a try-acquire about to compare-and-swap on a counter
\* that has not moved since it was loaded is looking at a free lock.
LockInv ==
    /\ TypeOK
    /\ Dist(serving_ticket, next_ticket) = Cardinality(Holders)
    /\ \A c \in Holders :
           Dist(serving_ticket, ticket[c]) < Dist(serving_ticket, next_ticket)
    /\ \A c, d \in Holders : ticket[c] = ticket[d] => c = d
    /\ \A c \in CPUs : pc[c] = "held" => ticket[c] = serving_ticket
    /\ \A c \in Trying : Dist(seen[c], next_ticket) = lag[c]
    /\ \A c \in CPUs \ Trying : lag[c] = 0
    /\ \A c \in CPUs :
           pc[c] = "cas" /\ lag[c] = 0 => serving_ticket = next_ticket

\* The CPUs holding a ticket, in the order of service.
Line ==
    LET At(i) == CHOOSE c \in Holders : Dist(serving_ticket, ticket[c]) = i - 1
    IN  [i \in 1..Cardinality(Holders) |-> At(i)]

Owner ==
    IF \E c \in CPUs : pc[c] = "held"
    THEN CHOOSE c \in CPUs : pc[c] = "held"
    ELSE NoCPU

Fifo == INSTANCE FifoLock WITH line <- Line, owner <- Owner, NoOne <- NoCPU

\* The lock implements the first-come-first-served lock: a blocking caller
\* is never overtaken, not even by a try-acquire that succeeds.
ImplementsFifoLock == Fifo!Spec

\* A CPU that spins gets the lock, unless some CPU gave up and halted with
\* its ticket, after which nobody behind it can be served.
SpinnerServed ==
    \A c \in CPUs :
        pc[c] = "spin" ~> (pc[c] = "held" \/ \E d \in CPUs : pc[d] = "halted")
=============================================================================
