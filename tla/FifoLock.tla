----------------------------- MODULE FifoLock -----------------------------
(***************************************************************************)
(* What a kernel spinlock promises: one owner at a time, and blocking      *)
(* callers are served in the order in which they asked.  A try-acquire     *)
(* succeeds only when nobody owns the lock and nobody is waiting for it.   *)
(***************************************************************************)
EXTENDS Naturals, Sequences

CONSTANTS CPUs, NoOne

VARIABLES
    line,       \* the CPUs that asked for the lock and have not released it
    owner       \* the CPU in the critical section, or NoOne

vars == <<line, owner>>

Init == line = <<>> /\ owner = NoOne

Join(c) ==
    /\ \A i \in 1..Len(line) : line[i] # c
    /\ line' = Append(line, c)
    /\ UNCHANGED owner

Enter(c) ==
    /\ owner = NoOne
    /\ line # <<>> /\ Head(line) = c
    /\ owner' = c
    /\ UNCHANGED line

TryEnter(c) ==
    /\ line = <<>>
    /\ line' = <<c>>
    /\ owner' = c

Leave(c) ==
    /\ owner = c
    /\ owner' = NoOne
    /\ line' = Tail(line)

Next == \E c \in CPUs : Join(c) \/ Enter(c) \/ TryEnter(c) \/ Leave(c)

Spec == Init /\ [][Next]_vars
=============================================================================
