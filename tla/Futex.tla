------------------------------- MODULE Futex -------------------------------
(***************************************************************************)
(* FUTEX_WAIT and FUTEX_WAKE of kernel/ipc/futex.c.  A wait compares the   *)
(* word, enters the waiter table under futex_lock, blocks on the user      *)
(* address as wait channel, and leaves the table; other CPUs may act       *)
(* between any two of these.  Programs use futexes the usual way: they     *)
(* change the word and then wake.  The channels behave as module           *)
(* SleepQueue says.                                                        *)
(***************************************************************************)
EXTENDS Naturals, FiniteSets

CONSTANTS
    Threads,
    Home,           \* the address space of each thread
    Addrs,          \* user addresses
    WordUses,       \* the futexes that the program of each thread works with
    Vals,           \* values of a futex word
    NSlots,         \* FUTEX_MAX_WAITERS
    Nobody,         \* no waiter
    Victims         \* threads that may be killed while they are blocked

WaiterSlots == 1..NSlots
NoAddr == 0
Spaces == {Home[t] : t \in Threads}

ASSUME FutexAssumption ==
    /\ NSlots \in Nat \ {0} /\ NoAddr \notin Addrs /\ Nobody \notin Threads
    /\ Victims \subseteq Threads /\ \A t \in Threads : WordUses[t] \subseteq Addrs
    /\ IsFiniteSet(Threads) /\ Vals # {}

VARIABLES
    word,           \* the futex words of each address space
    futex_waiters,  \* the waiter table
    fpc,            \* where a thread is in its system call
    uaddr,          \* the address it works on
    val             \* the value a waiter expects

futexVars == <<word, futex_waiters, fpc, uaddr, val>>

Empty == [proc |-> Nobody, uaddr |-> NoAddr]
AnyVal == CHOOSE v \in Vals : TRUE      \* val of a thread that does not wait

FutexInit ==
    /\ word \in [Spaces -> [Addrs -> Vals]]
    /\ futex_waiters = [i \in WaiterSlots |-> Empty]
    /\ fpc = [t \in Threads |-> "user"]
    /\ uaddr = [t \in Threads |-> NoAddr]
    /\ val = [t \in Threads |-> AnyVal]

\* Thread t returns to user mode, and the threads in woken stop sleeping.
FutexReturn(t, woken) ==
    /\ fpc' = [r \in Threads |-> IF r = t THEN "user"
                                ELSE IF r \in woken THEN "woken" ELSE fpc[r]]
    /\ uaddr' = [uaddr EXCEPT ![t] = NoAddr]
    /\ val' = [val EXCEPT ![t] = AnyVal]

InTable(t) == {i \in WaiterSlots : futex_waiters[i].proc = t}
FreeSlots == {i \in WaiterSlots : futex_waiters[i].proc = Nobody}

\* The comparison; a different value returns EAGAIN.
WaitCompare(t, a, v) ==
    /\ fpc[t] = "user"
    /\ word[Home[t]][a] = v
    /\ fpc' = [fpc EXCEPT ![t] = "register"]
    /\ uaddr' = [uaddr EXCEPT ![t] = a]
    /\ val' = [val EXCEPT ![t] = v]
    /\ UNCHANGED <<word, futex_waiters>>

\* The lowest free entry; a full table returns ENOMEM.
WaitRegister(t) ==
    /\ fpc[t] = "register"
    /\ \/ \E i \in FreeSlots :
             /\ \A j \in FreeSlots : i <= j
             /\ futex_waiters' = [futex_waiters EXCEPT ![i] = [proc |-> t, uaddr |-> uaddr[t]]]
             /\ fpc' = [fpc EXCEPT ![t] = "block"]
             /\ UNCHANGED <<uaddr, val>>
       \/ FreeSlots = {} /\ FutexReturn(t, {}) /\ UNCHANGED futex_waiters
    /\ UNCHANGED word

\* sched_block_on, and its backstop or timeout.
WaitBlock(t) ==
    /\ fpc[t] = "block"
    /\ fpc' = [fpc EXCEPT ![t] = "asleep"]
    /\ UNCHANGED <<word, futex_waiters, uaddr, val>>

\* Mutant: no backstop.
NoBackstop(t) == FALSE /\ UNCHANGED futexVars

Backstop(t) ==
    /\ fpc[t] = "asleep"
    /\ fpc' = [fpc EXCEPT ![t] = "woken"]
    /\ UNCHANGED <<word, futex_waiters, uaddr, val>>

\* Mutant: a waiter that was woken leaves its entry behind.
LeaveKeeps(t) == futex_waiters

\* The waiter's first entry is cleared; a waker may have done it already.
Leave(t) ==
    [i \in WaiterSlots |-> IF i \in InTable(t) /\ \A j \in InTable(t) : i <= j
                     THEN Empty ELSE futex_waiters[i]]

WaitReturn(t) ==
    /\ fpc[t] = "woken"
    /\ futex_waiters' = Leave(t)
    /\ FutexReturn(t, {})
    /\ UNCHANGED word

\* A program changes the word, and will wake its waiters.
Store(t, a, v) ==
    /\ fpc[t] = "user" /\ word[Home[t]][a] # v
    /\ word' = [word EXCEPT ![Home[t]][a] = v]
    /\ fpc' = [fpc EXCEPT ![t] = "wake"]
    /\ uaddr' = [uaddr EXCEPT ![t] = a]
    /\ UNCHANGED <<futex_waiters, val>>

\* The entries that a wake of at most n waiters at address a clears.
Chosen(a, n) ==
    LET at == {i \in WaiterSlots : futex_waiters[i].proc # Nobody /\ futex_waiters[i].uaddr = a}
    IN  {i \in at : Cardinality({j \in at : j < i}) < n}

\* Mutant: the channel of the next address is woken.
RousedOthers(a) == {t \in Threads : fpc[t] = "asleep" /\ uaddr[t] # a}
\* sched_wake_chan wakes all who sleep on the address.
Roused(a) == {t \in Threads : fpc[t] = "asleep" /\ uaddr[t] = a}

FutexWake(t, n) ==
    LET a == uaddr[t]
    IN  /\ fpc[t] = "wake"
        /\ futex_waiters' = [i \in WaiterSlots |-> IF i \in Chosen(a, n) THEN Empty
                                             ELSE futex_waiters[i]]
        /\ FutexReturn(t, IF Chosen(a, n) = {} THEN {} ELSE Roused(a))
        /\ UNCHANGED word

\* A blocked thread is killed, and its slot gets a new thread.
KillWaiter(t) ==
    /\ t \in Victims /\ fpc[t] = "asleep"
    /\ FutexReturn(t, {})
    /\ UNCHANGED <<word, futex_waiters>>

Kernel(t) == WaitRegister(t) \/ WaitBlock(t) \/ WaitReturn(t)

FutexNext ==
    \E t \in Threads :
        \/ \E a \in WordUses[t], v \in Vals : WaitCompare(t, a, v) \/ Store(t, a, v)
        \/ Kernel(t)
        \/ Backstop(t)
        \/ \E n \in 1..NSlots : FutexWake(t, n)
        \/ KillWaiter(t)

FutexSpec == FutexInit /\ [][FutexNext]_futexVars

\* Kernel code goes on, a program that changed the word calls FUTEX_WAKE for
\* everybody, and the timer lets the backstop expire.
FutexFairness ==
    \A t \in Threads :
        WF_futexVars(Kernel(t)) /\ WF_futexVars(FutexWake(t, NSlots)) /\ WF_futexVars(Backstop(t))

FutexFairSpec == FutexSpec /\ FutexFairness

-----------------------------------------------------------------------------
(* Properties. *)

\* The types of the variables.
FutexTypeOK ==
    /\ word \in [Spaces -> [Addrs -> Vals]]
    /\ \A i \in WaiterSlots : futex_waiters[i] = Empty \/
          futex_waiters[i] \in [proc : Threads, uaddr : Addrs]
    /\ fpc \in [Threads -> {"user", "register", "block", "asleep", "woken", "wake"}]
    /\ uaddr \in [Threads -> Addrs \cup {NoAddr}] /\ val \in [Threads -> Vals]

\* Thread t has at most one entry, only while it waits, and for the address it
\* waits at.
EntryExact(t) ==
    \A i \in InTable(t) :
        /\ InTable(t) = {i}
        /\ fpc[t] \in {"block", "asleep", "woken"}
        /\ futex_waiters[i].uaddr = uaddr[t]

\* The entries of all threads are exact, so the table never overflows ("the
\* number of concurrent futex waiters is bounded by SCHED_MAX_PROCS").
EntriesExact == \A t \in Threads : EntryExact(t)

\* The entries of the threads that nobody kills are exact, whatever the ones
\* that were killed left behind in the table.
SurvivorsExact == \A t \in Threads \ Victims : EntryExact(t)

\* No waiter sleeps on a word that has changed, unless the thread that changed
\* it has still to wake ("Atomic compare").
NoLostWake ==
    \A t \in Threads :
        fpc[t] = "asleep" /\ word[Home[t]][uaddr[t]] # val[t] =>
            \E r \in Threads : fpc[r] = "wake" /\ uaddr[r] = uaddr[t]

\* A wake that removes the entry of a sleeping waiter releases it, and no wake
\* releases a waiter at another address: the table and the channel agree.
WakeReleases ==
    [][\A t, r \in Threads :
          fpc[t] = "wake" /\ fpc'[t] = "user" /\ fpc[r] = "asleep" =>
              IF uaddr[r] # uaddr[t] THEN fpc'[r] = "asleep"
              ELSE (\E i \in InTable(r) : futex_waiters[i].uaddr = uaddr[r]
                                           /\ futex_waiters'[i] = Empty)
                      => fpc'[r] = "woken"]_futexVars

\* A wake concerns only the threads of the waker's address space ("The wait
\* channel is the kernel virtual address of the futex word, which is stable
\* across threads sharing the same address space").
WakeStaysInside ==
    [][\A t, r \in Threads :
          fpc[t] = "wake" /\ fpc'[t] = "user" /\ Home[r] # Home[t] => fpc'[r] = fpc[r]]_futexVars

\* Every wait comes to an end, if only by the backstop.
WaitEnds == \A t \in Threads : fpc[t] = "register" ~> fpc[t] = "user"

\* The waiter table is exact for every thread that is not killed.
TableExact == FutexTypeOK /\ SurvivorsExact

=============================================================================
