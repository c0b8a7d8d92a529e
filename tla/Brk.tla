-------------------------------- MODULE Brk ---------------------------------
(***************************************************************************)
(* The program break: sys_brk_impl and proc_brk_reset of                   *)
(* kernel/arch/x86_64/syscall.c, with fork, exec, exit and kill as far as  *)
(* they touch it, and the sbrk of the C library that keeps the end of the  *)
(* heap in the program's own memory.  The break belongs to the slot of a   *)
(* process, the pages to its address space, heap_end to its image.         *)
(*                                                                         *)
(* Addresses count from USER_HEAP_BASE, plus one, so that 0 is the break   *)
(* that has not been set.                                                  *)
(***************************************************************************)
EXTENDS Integers, FiniteSets

CONSTANTS
    Slots,
    FirstSlot,      \* the process that is there first
    PageSize,
    MaxPages,       \* USER_HEAP_MAX
    Stored,         \* what programs store
    Increments,     \* arguments of sbrk
    Limits          \* "child_grows": a child uses sbrk before it has called exec;
                    \* "exec_fails": exec may fail; "no_frames": frames may run out

ASSUME BrkAssumption ==
    /\ FirstSlot \in Slots /\ PageSize \in Nat \ {0} /\ MaxPages \in Nat \ {0}
    /\ Increments \subseteq Int /\ Stored \cap {0, -1} = {}
    /\ Limits \subseteq {"child_grows", "exec_fails", "no_frames"}

Base == 1
Pages == 0..(MaxPages - 1)
Unmapped == -1

VARIABLES
    alive,
    forked,         \* has not called exec since the fork
    g_proc_brk,
    heap,           \* contents of the pages of each address space
    heap_end,       \* the C library's variable, 0 for NULL
    stored          \* what the program last stored in each page it was given

brkVars == <<alive, forked, g_proc_brk, heap, heap_end, stored>>

NoPages == [i \in Pages |-> Unmapped]

BrkInit ==
    /\ alive = {FirstSlot} /\ forked = {}
    /\ g_proc_brk = [p \in Slots |-> 0] /\ heap_end = [p \in Slots |-> 0]
    /\ heap = [p \in Slots |-> NoPages] /\ stored = [p \in Slots |-> NoPages]

-----------------------------------------------------------------------------
(* sys_brk. *)

\* The first page at or above an address.
PageOf(addr) == (addr - Base + PageSize - 1) \div PageSize

Current(p) == IF g_proc_brk[p] = 0 THEN Base ELSE g_proc_brk[p]

\* The pages after the break has moved.  New frames are not cleared.
Remapped(p, addr, n) ==
    [i \in Pages |->
        IF i \in PageOf(Current(p))..(n - 1) THEN 0
        ELSE IF i \in PageOf(addr)..(PageOf(Current(p)) - 1) THEN Unmapped
        ELSE heap[p][i]]

\* The break may be set to this address.
InHeap(addr) == addr - Base \in 0..(MaxPages * PageSize - 1)

NewBreak(addr) == addr

\* The pages that a program may use: those that it had below its new break, and
\* the ones with bytes between the old and the new one.
Given(p, from, to) ==
    [i \in Pages |->
        IF i >= PageOf(to) THEN Unmapped
        ELSE IF stored[p][i] = Unmapped /\ i >= (from - Base) \div PageSize THEN 0
        ELSE stored[p][i]]

\* sbrk: the C library takes every answer but -1 for success.  A page that the
\* program is given is written before it is read.
sbrk(p, incr) ==
    LET from == IF heap_end[p] = 0 THEN Current(p) ELSE heap_end[p]
        to == from + incr
    IN  /\ p \in alive /\ (p \in forked => "child_grows" \in Limits)
        /\ \/ /\ ~InHeap(to)
              /\ g_proc_brk' = [g_proc_brk EXCEPT ![p] = Current(p)]
              /\ heap_end' = [heap_end EXCEPT ![p] = from]
              /\ UNCHANGED <<heap, stored>>
           \/ /\ InHeap(to)
              /\ \/ /\ heap' = [heap EXCEPT ![p] = Remapped(p, to, PageOf(to))]
                    /\ g_proc_brk' = [g_proc_brk EXCEPT ![p] = NewBreak(to)]
                 \/ /\ "no_frames" \in Limits
                    /\ \E n \in PageOf(Current(p))..(PageOf(to) - 1) :
                          heap' = [heap EXCEPT ![p] = Remapped(p, Current(p), n)]
                    /\ g_proc_brk' = [g_proc_brk EXCEPT ![p] = Current(p)]
              /\ heap_end' = [heap_end EXCEPT ![p] = to]
              /\ stored' = [stored EXCEPT ![p] = Given(p, from, to)]
        /\ UNCHANGED <<alive, forked>>

\* The program stores into a page of its heap that is mapped.
StorePage(p, i, v) ==
    /\ p \in alive /\ stored[p][i] # Unmapped /\ heap[p][i] # Unmapped
    /\ heap' = [heap EXCEPT ![p][i] = v] /\ stored' = [stored EXCEPT ![p][i] = v]
    /\ UNCHANGED <<alive, forked, g_proc_brk, heap_end>>

-----------------------------------------------------------------------------
(* The life of a process. *)

\* Mutant: the break is kept.
ResetNot(p) == g_proc_brk
proc_brk_reset(p) == [g_proc_brk EXCEPT ![p] = 0]

\* The child has a copy of the memory, and the break that its slot had.
Fork(p, c) ==
    /\ p \in alive /\ c \in Slots \ alive
    /\ alive' = alive \cup {c} /\ forked' = forked \cup {c}
    /\ heap' = [heap EXCEPT ![c] = heap[p]] /\ stored' = [stored EXCEPT ![c] = stored[p]]
    /\ heap_end' = [heap_end EXCEPT ![c] = heap_end[p]]
    /\ UNCHANGED g_proc_brk

\* The break is reset before the image is known to load.
Exec(p) ==
    /\ p \in alive
    /\ g_proc_brk' = proc_brk_reset(p)
    /\ \/ /\ heap' = [heap EXCEPT ![p] = NoPages] /\ stored' = [stored EXCEPT ![p] = NoPages]
          /\ heap_end' = [heap_end EXCEPT ![p] = 0] /\ forked' = forked \ {p}
       \/ "exec_fails" \in Limits /\ UNCHANGED <<heap, stored, heap_end, forked>>
    /\ UNCHANGED alive

Gone(p) ==
    /\ p \in alive \ {FirstSlot} /\ alive' = alive \ {p} /\ forked' = forked \ {p}
    /\ heap' = [heap EXCEPT ![p] = NoPages] /\ stored' = [stored EXCEPT ![p] = NoPages]
    /\ heap_end' = [heap_end EXCEPT ![p] = 0]

Exit(p) == Gone(p) /\ g_proc_brk' = proc_brk_reset(p)

\* A process that is killed, or dies of a fault, leaves its break behind.
Killed(p) == Gone(p) /\ UNCHANGED g_proc_brk

-----------------------------------------------------------------------------

BrkNext ==
    \E p \in Slots :
        \/ \E incr \in Increments : sbrk(p, incr)
        \/ \E i \in Pages, v \in Stored : StorePage(p, i, v)
        \/ \E c \in Slots : Fork(p, c)
        \/ Exec(p) \/ Exit(p) \/ Killed(p)

BrkSpec == BrkInit /\ [][BrkNext]_brkVars

-----------------------------------------------------------------------------
(* Properties. *)

\* The types of the variables.
BrkTypeOK ==
    /\ alive \subseteq Slots /\ forked \subseteq alive
    /\ g_proc_brk \in [Slots -> 0..(MaxPages * PageSize)]
    /\ heap_end \in [Slots -> 0..(MaxPages * PageSize)]
    /\ heap \in [Slots -> [Pages -> Stored \cup {0, Unmapped}]]

\* Every page that sbrk has given a program is mapped and holds what the program
\* stored there: no later sbrk, of this program or on a stale break, has mapped
\* over it or left it out ("New image -> new heap").
HeapKept == \A p \in alive : \A i \in Pages : stored[p][i] # Unmapped => heap[p][i] = stored[p][i]

\* Kernel and C library agree on the end of the heap of a program that may grow it.
BreakAgrees == \A p \in alive \ forked : heap_end[p] # 0 => heap_end[p] = g_proc_brk[p]

\* Break and heap are exact: both sides agree, and nothing stored is lost.
BreakExact == BrkTypeOK /\ BreakAgrees /\ HeapKept

=============================================================================
