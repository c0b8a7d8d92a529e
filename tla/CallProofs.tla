---------------------------- MODULE CallProofs ------------------------------
(***************************************************************************)
(* Proofs about two system calls.  The waiter table of futex is exact for  *)
(* every number of threads, addresses and entries, and a wake releases     *)
(* whom it removes.  As long as no child grows its heap before exec, exec  *)
(* does not fail and frames do not run out, kernel and C library agree on  *)
(* the end of every heap, and nothing that is stored in one is lost.       *)
(***************************************************************************)
EXTENDS Futex, Brk, TLAPS

-----------------------------------------------------------------------------
(* The waiter table. *)

\* The inductive invariant: a thread that is in a system call has an address, so
\* what it enters in the table is an entry.
FutexInv ==
    /\ FutexTypeOK
    /\ futex_waiters \in [WaiterSlots -> [proc : Threads \cup {Nobody}, uaddr : Addrs \cup {NoAddr}]]
    /\ \A t \in Threads : fpc[t] # "user" => uaddr[t] \in Addrs
    /\ SurvivorsExact

\* The value of a thread that does not wait is a value.
LEMMA AnyValType == AnyVal \in Vals
  BY FutexAssumption DEF AnyVal

\* The invariant holds when no system call has been made.
LEMMA FutexInitInv == FutexInit => FutexInv
<1> SUFFICES ASSUME FutexInit PROVE FutexInv
  OBVIOUS
<1> USE FutexAssumption DEF FutexInit
<1>1. FutexTypeOK
  BY AnyValType DEF FutexTypeOK
<1>2. futex_waiters \in [WaiterSlots -> [proc : Threads \cup {Nobody}, uaddr : Addrs \cup {NoAddr}]]
  BY DEF Empty
<1>3. SurvivorsExact
  BY DEF SurvivorsExact, EntryExact, InTable, Empty
<1> QED
  BY <1>1, <1>2, <1>3 DEF FutexInv

\* If entries are only cleared, a thread's entries stay exact as long as it goes on
\* waiting at its address or has none left.
LEMMA ClearedExact ==
    ASSUME FutexInv, NEW t \in Threads, EntryExact(t),
           \A i \in WaiterSlots : futex_waiters'[i] \in {futex_waiters[i], Empty},
           \/ InTable(t)' = {}
           \/ uaddr'[t] = uaddr[t] /\ fpc'[t] \in {"block", "asleep", "woken"}
    PROVE  EntryExact(t)'
<1>1. \A i \in InTable(t)' : i \in InTable(t) /\ futex_waiters'[i] = futex_waiters[i]
  BY FutexAssumption DEF InTable, Empty
<1> QED
  BY <1>1 DEF EntryExact, InTable

\* What the table holds is typed when it only loses entries.
LEMMA ClearedTyped ==
    ASSUME FutexInv, futex_waiters' = [i \in WaiterSlots |-> futex_waiters'[i]],
           \A i \in WaiterSlots : futex_waiters'[i] \in {futex_waiters[i], Empty}
    PROVE  /\ futex_waiters' \in [WaiterSlots -> [proc : Threads \cup {Nobody}, uaddr : Addrs \cup {NoAddr}]]
           /\ \A i \in WaiterSlots : futex_waiters'[i] = Empty
                                     \/ futex_waiters'[i] \in [proc : Threads, uaddr : Addrs]
<1>1. Empty \in [proc : Threads \cup {Nobody}, uaddr : Addrs \cup {NoAddr}]
  BY DEF Empty
<1> QED
  BY <1>1 DEF FutexInv, FutexTypeOK

\* Returning to user mode, and waking others, keeps the types.
LEMMA ReturnTyped ==
    ASSUME FutexInv, NEW t \in Threads, NEW woken, FutexReturn(t, woken)
    PROVE  /\ fpc' \in [Threads -> {"user", "register", "block", "asleep", "woken", "wake"}]
           /\ uaddr' \in [Threads -> Addrs \cup {NoAddr}] /\ val' \in [Threads -> Vals]
           /\ fpc'[t] = "user" /\ uaddr'[t] = NoAddr
           /\ \A r \in Threads \ {t} : /\ uaddr'[r] = uaddr[r]
                                       /\ fpc'[r] = IF r \in woken THEN "woken" ELSE fpc[r]
  BY AnyValType DEF FutexInv, FutexTypeOK, FutexReturn

\* The comparison makes no entry.
LEMMA ComparePreserves ==
    ASSUME FutexInv, NEW t \in Threads, NEW a \in WordUses[t], NEW v \in Vals, WaitCompare(t, a, v)
    PROVE  FutexInv'
<1>1. /\ a \in Addrs /\ futex_waiters' = futex_waiters /\ word' = word
      /\ \A r \in Threads : r # t => fpc'[r] = fpc[r] /\ uaddr'[r] = uaddr[r]
      /\ fpc'[t] = "register" /\ uaddr'[t] = a /\ fpc[t] = "user"
  BY FutexAssumption DEF WaitCompare, FutexInv, FutexTypeOK
<1>2. FutexTypeOK'
  BY <1>1 DEF WaitCompare, FutexInv, FutexTypeOK
<1>3. \A r \in Threads : EntryExact(r) => EntryExact(r)'
  BY <1>1 DEF EntryExact, InTable
<1> QED
  BY <1>1, <1>2, <1>3 DEF FutexInv, SurvivorsExact

\* A store by a program, which is in no table.
LEMMA StorePreserves ==
    ASSUME FutexInv, NEW t \in Threads, NEW a \in WordUses[t], NEW v \in Vals, Store(t, a, v)
    PROVE  FutexInv'
<1>1. /\ a \in Addrs /\ futex_waiters' = futex_waiters
      /\ \A r \in Threads : r # t => fpc'[r] = fpc[r] /\ uaddr'[r] = uaddr[r]
      /\ fpc'[t] = "wake" /\ uaddr'[t] = a /\ fpc[t] = "user"
  BY FutexAssumption DEF Store, FutexInv, FutexTypeOK
<1>2. FutexTypeOK'
  BY <1>1 DEF Store, FutexInv, FutexTypeOK, Spaces
<1>3. \A r \in Threads : EntryExact(r) => EntryExact(r)'
  BY <1>1 DEF EntryExact, InTable
<1> QED
  BY <1>1, <1>2, <1>3 DEF FutexInv, SurvivorsExact

\* A waiter that has no entry makes one, or finds the table full.
LEMMA RegisterPreserves ==
    ASSUME FutexInv, NEW t \in Threads, WaitRegister(t)
    PROVE  FutexInv'
<1>1. CASE \E i \in FreeSlots :
             /\ futex_waiters' = [futex_waiters EXCEPT ![i] = [proc |-> t, uaddr |-> uaddr[t]]]
             /\ fpc' = [fpc EXCEPT ![t] = "block"]
             /\ UNCHANGED <<uaddr, val>>
  <2> PICK i \in FreeSlots :
             /\ futex_waiters' = [futex_waiters EXCEPT ![i] = [proc |-> t, uaddr |-> uaddr[t]]]
             /\ fpc' = [fpc EXCEPT ![t] = "block"]
             /\ UNCHANGED <<uaddr, val>>
    BY <1>1
  <2> DEFINE e == [proc |-> t, uaddr |-> uaddr[t]]
  <2>1. /\ i \in WaiterSlots /\ fpc[t] = "register" /\ word' = word
        /\ e \in [proc : Threads, uaddr : Addrs] /\ e.proc = t /\ e.uaddr = uaddr[t]
    BY DEF WaitRegister, FutexInv, FreeSlots
  <2> HIDE DEF e
  <2>2. /\ futex_waiters' = [futex_waiters EXCEPT ![i] = e]
        /\ futex_waiters'[i] = e /\ \A j \in WaiterSlots \ {i} : futex_waiters'[j] = futex_waiters[j]
    BY <2>1 DEF FutexInv, e
  <2>3. FutexTypeOK'
    BY <2>1, <2>2 DEF FutexInv, FutexTypeOK
  <2>4. futex_waiters' \in [WaiterSlots -> [proc : Threads \cup {Nobody}, uaddr : Addrs \cup {NoAddr}]]
    BY <2>1, <2>2 DEF FutexInv
  <2>5. ASSUME NEW r \in Threads, EntryExact(r) PROVE EntryExact(r)'
    <3>1. CASE r = t
      <4>1. InTable(t) = {}
        BY <2>1, <2>5, <3>1 DEF EntryExact
      <4>2. InTable(t)' = {i}
        BY <2>1, <2>2, <4>1 DEF InTable
      <4> QED BY <2>1, <2>2, <3>1, <4>2 DEF EntryExact, FutexInv, FutexTypeOK
    <3>2. CASE r # t
      <4>1. InTable(r)' = InTable(r) /\ i \notin InTable(r)
        BY <2>1, <2>2, <3>2, FutexAssumption DEF InTable, FreeSlots
      <4> QED BY <2>2, <2>5, <3>2, <4>1 DEF EntryExact, InTable, FutexInv, FutexTypeOK
    <3> QED BY <3>1, <3>2
  <2>6. \A r \in Threads : fpc'[r] # "user" => uaddr'[r] \in Addrs
    BY <2>1 DEF FutexInv, FutexTypeOK
  <2> QED BY <2>3, <2>4, <2>5, <2>6 DEF FutexInv, SurvivorsExact
<1>2. CASE FutexReturn(t, {}) /\ UNCHANGED futex_waiters
  <2>1. FutexTypeOK' /\ \A r \in Threads : fpc'[r] # "user" => uaddr'[r] \in Addrs
    BY <1>2, ReturnTyped DEF FutexInv, FutexTypeOK, WaitRegister
  <2>2. \A r \in Threads : EntryExact(r) => EntryExact(r)'
    BY <1>2, ReturnTyped DEF EntryExact, InTable, WaitRegister
  <2> QED BY <1>2, <2>1, <2>2 DEF FutexInv, SurvivorsExact
<1> QED
  BY <1>1, <1>2 DEF WaitRegister


\* Falling asleep and the backstop change neither entries nor addresses.
LEMMA SleepPreserves ==
    ASSUME FutexInv, NEW t \in Threads, WaitBlock(t) \/ Backstop(t)
    PROVE  FutexInv'
<1>1. /\ futex_waiters' = futex_waiters /\ word' = word /\ uaddr' = uaddr /\ val' = val
      /\ fpc[t] \in {"block", "asleep"} /\ fpc'[t] \in {"asleep", "woken"}
      /\ \A r \in Threads \ {t} : fpc'[r] = fpc[r]
      /\ fpc' \in [Threads -> {"user", "register", "block", "asleep", "woken", "wake"}]
  BY DEF WaitBlock, Backstop, FutexInv, FutexTypeOK
<1>2. FutexTypeOK'
  BY <1>1 DEF FutexInv, FutexTypeOK
<1>3. \A r \in Threads : EntryExact(r) => EntryExact(r)'
  BY <1>1 DEF EntryExact, InTable
<1> QED
  BY <1>1, <1>2, <1>3 DEF FutexInv, SurvivorsExact

\* A thread that a step clears entries of, or that it only releases, stays exact.
LEMMA ReleasedExact ==
    ASSUME FutexInv, NEW r \in Threads, EntryExact(r),
           \A i \in WaiterSlots : futex_waiters'[i] \in {futex_waiters[i], Empty},
           uaddr'[r] = uaddr[r], fpc'[r] \in {fpc[r], "woken"}
    PROVE  EntryExact(r)'
<1>1. InTable(r)' \subseteq InTable(r)
  BY FutexAssumption DEF InTable, Empty
<1>2. CASE InTable(r) = {}
  BY <1>1, <1>2, ClearedExact
<1>3. CASE InTable(r) # {}
  BY <1>3, ClearedExact DEF EntryExact
<1> QED
  BY <1>2, <1>3

\* A waiter that returns has no entry left.
LEMMA LeavePreserves ==
    ASSUME FutexInv, NEW t \in Threads, WaitReturn(t)
    PROVE  FutexInv'
<1>1. /\ \A i \in WaiterSlots : futex_waiters'[i] \in {futex_waiters[i], Empty}
      /\ futex_waiters' = [i \in WaiterSlots |-> futex_waiters'[i]]
      /\ FutexReturn(t, {}) /\ word' = word
  BY DEF WaitReturn, Leave
<1>2. FutexTypeOK' /\ \A r \in Threads : fpc'[r] # "user" => uaddr'[r] \in Addrs
  BY <1>1, ReturnTyped, ClearedTyped DEF FutexInv, FutexTypeOK
<1>3. ASSUME NEW r \in Threads, EntryExact(r) PROVE EntryExact(r)'
  <2>1. CASE r # t
    BY <1>1, <1>3, <2>1, ReturnTyped, ReleasedExact
  <2>2. CASE r = t
    <3>1. \A i \in InTable(t) : futex_waiters'[i] = Empty
      <4> SUFFICES ASSUME NEW i \in InTable(t) PROVE futex_waiters'[i] = Empty
        OBVIOUS
      <4>1. InTable(t) = {i} /\ i \in WaiterSlots /\ i \in Nat
        BY <1>3, <2>2, FutexAssumption DEF EntryExact, InTable, WaiterSlots
      <4> QED BY <4>1 DEF WaitReturn, Leave
    <3>2. InTable(t)' = {}
      BY <1>1, <3>1, FutexAssumption DEF InTable, Empty
    <3> QED BY <2>2, <3>2 DEF EntryExact
  <2> QED BY <2>1, <2>2
<1> QED
  BY <1>1, <1>2, <1>3, ClearedTyped DEF FutexInv, SurvivorsExact

\* A wake clears entries and releases sleepers; the waker has no entry.
LEMMA WakePreserves ==
    ASSUME FutexInv, NEW t \in Threads, NEW n \in 1..NSlots, FutexWake(t, n)
    PROVE  FutexInv'
<1> DEFINE released == IF Chosen(uaddr[t], n) = {} THEN {} ELSE Roused(uaddr[t])
<1>1. /\ \A i \in WaiterSlots : futex_waiters'[i] \in {futex_waiters[i], Empty}
      /\ futex_waiters' = [i \in WaiterSlots |-> futex_waiters'[i]]
      /\ FutexReturn(t, released) /\ word' = word /\ fpc[t] = "wake"
      /\ \A r \in released : fpc[r] = "asleep"
  BY DEF FutexWake, Roused
<1> HIDE DEF released
<1>2. FutexTypeOK' /\ \A r \in Threads : fpc'[r] # "user" => uaddr'[r] \in Addrs
  BY <1>1, ReturnTyped, ClearedTyped DEF FutexInv, FutexTypeOK
<1>3. ASSUME NEW r \in Threads, EntryExact(r) PROVE EntryExact(r)'
  <2>1. CASE r # t
    BY <1>1, <1>3, <2>1, ReturnTyped, ReleasedExact
  <2>2. CASE r = t
    <3>1. InTable(t) = {}
      BY <1>1, <1>3, <2>2 DEF EntryExact
    <3>2. InTable(t)' = {}
      BY <1>1, <3>1, FutexAssumption DEF InTable, Empty
    <3> QED BY <2>2, <3>2 DEF EntryExact
  <2> QED BY <2>1, <2>2
<1> QED
  BY <1>1, <1>2, <1>3, ClearedTyped DEF FutexInv, SurvivorsExact

\* Only the entries of a victim can be left behind.
LEMMA KillPreserves ==
    ASSUME FutexInv, NEW t \in Threads, KillWaiter(t)
    PROVE  FutexInv'
<1>1. t \in Victims /\ FutexReturn(t, {}) /\ futex_waiters' = futex_waiters /\ word' = word
  BY DEF KillWaiter
<1>2. FutexTypeOK' /\ \A r \in Threads : fpc'[r] # "user" => uaddr'[r] \in Addrs
  BY <1>1, ReturnTyped DEF FutexInv, FutexTypeOK
<1>3. \A r \in Threads \ Victims : EntryExact(r) => EntryExact(r)'
  BY <1>1, ReturnTyped DEF EntryExact, InTable
<1> QED
  BY <1>1, <1>2, <1>3 DEF FutexInv, SurvivorsExact

\* Every step of the futex code keeps the invariant.
LEMMA FutexStepInv == FutexInv /\ [FutexNext]_futexVars => FutexInv'
<1> SUFFICES ASSUME FutexInv, [FutexNext]_futexVars PROVE FutexInv'
  OBVIOUS
<1>1. CASE UNCHANGED futexVars
  BY <1>1 DEF futexVars, FutexInv, FutexTypeOK, SurvivorsExact, EntryExact, InTable
<1>2. ASSUME NEW t \in Threads, NEW a \in WordUses[t], NEW v \in Vals,
             WaitCompare(t, a, v) \/ Store(t, a, v)
      PROVE  FutexInv'
  BY <1>2, ComparePreserves, StorePreserves
<1>3. ASSUME NEW t \in Threads, Kernel(t) PROVE FutexInv'
  BY <1>3, RegisterPreserves, SleepPreserves, LeavePreserves DEF Kernel
<1>4. ASSUME NEW t \in Threads, Backstop(t) PROVE FutexInv'
  BY <1>4, SleepPreserves
<1>5. ASSUME NEW t \in Threads, NEW n \in 1..NSlots, FutexWake(t, n) PROVE FutexInv'
  BY <1>5, WakePreserves
<1>6. ASSUME NEW t \in Threads, KillWaiter(t) PROVE FutexInv'
  BY <1>6, KillPreserves
<1> QED
  BY <1>1, <1>2, <1>3, <1>4, <1>5, <1>6 DEF FutexNext

\* The waiter table of futex.c is exact for every thread that is not killed,
\* with any number of threads, address spaces and entries: a waiter has at most
\* one entry, only while it waits, for its address, and none when it returns.
THEOREM FutexTableExact == FutexSpec => []TableExact
<1>1. FutexInv => TableExact
  BY DEF FutexInv, TableExact
<1> QED
  BY FutexInitInv, FutexStepInv, <1>1, PTL DEF FutexSpec

\* A thread that is about to wake leaves that state only by its FUTEX_WAKE.
LEMMA WakerReturns ==
    ASSUME FutexInv, FutexNext, NEW t \in Threads, fpc[t] = "wake", fpc'[t] = "user"
    PROVE  \E n \in 1..NSlots : FutexWake(t, n)
<1>1. ASSUME NEW s \in Threads, NEW a \in WordUses[s], NEW v \in Vals,
             WaitCompare(s, a, v) \/ Store(s, a, v)
      PROVE  FALSE
  BY <1>1 DEF WaitCompare, Store, FutexInv, FutexTypeOK
<1>2. ASSUME NEW s \in Threads, Kernel(s) \/ Backstop(s) \/ KillWaiter(s) PROVE FALSE
  BY <1>2 DEF Kernel, WaitRegister, WaitBlock, WaitReturn, Backstop, KillWaiter, FutexReturn,
              FutexInv, FutexTypeOK
<1>3. ASSUME NEW s \in Threads, NEW n \in 1..NSlots, FutexWake(s, n) PROVE s = t
  BY <1>3 DEF FutexWake, FutexReturn
<1> QED
  BY <1>1, <1>2, <1>3 DEF FutexNext

\* FUTEX_WAKE of futex.c releases every sleeper whose entry it removes, and nobody
\* who sleeps at another address: what it decides from the table and what
\* sched_wake_chan does with the channel agree, however many entries it removes.
THEOREM FutexWakeReleases == FutexSpec => WakeReleases
<1> DEFINE Agrees ==
      \A t, r \in Threads :
          fpc[t] = "wake" /\ fpc'[t] = "user" /\ fpc[r] = "asleep" =>
              IF uaddr[r] # uaddr[t] THEN fpc'[r] = "asleep"
              ELSE (\E i \in InTable(r) : futex_waiters[i].uaddr = uaddr[r]
                                           /\ futex_waiters'[i] = Empty)
                      => fpc'[r] = "woken"
<1>1. FutexInv /\ [FutexNext]_futexVars => [Agrees]_futexVars
  <2> SUFFICES ASSUME FutexInv, FutexNext, NEW t \in Threads, NEW r \in Threads,
                      fpc[t] = "wake", fpc'[t] = "user", fpc[r] = "asleep"
               PROVE  IF uaddr[r] # uaddr[t] THEN fpc'[r] = "asleep"
                      ELSE (\E i \in InTable(r) : futex_waiters[i].uaddr = uaddr[r]
                                                   /\ futex_waiters'[i] = Empty)
                              => fpc'[r] = "woken"
    OBVIOUS
  <2> PICK n \in 1..NSlots : FutexWake(t, n)
    BY WakerReturns
  <2> DEFINE released == IF Chosen(uaddr[t], n) = {} THEN {} ELSE Roused(uaddr[t])
  <2>1. FutexReturn(t, released) /\ r # t
    BY DEF FutexWake
  <2>2. fpc'[r] = IF r \in released THEN "woken" ELSE "asleep"
    BY <2>1, ReturnTyped
  <2>3. CASE uaddr[r] # uaddr[t]
    BY <2>2, <2>3 DEF Roused
  <2>4. ASSUME uaddr[r] = uaddr[t],
               NEW i \in InTable(r), futex_waiters[i].uaddr = uaddr[r], futex_waiters'[i] = Empty
        PROVE  fpc'[r] = "woken"
    <3>1. i \in WaiterSlots /\ futex_waiters[i] # Empty
      BY FutexAssumption DEF InTable, Empty
    <3>2. i \in Chosen(uaddr[t], n)
      BY <2>4, <3>1 DEF FutexWake
    <3>3. r \in Roused(uaddr[t])
      BY <2>4 DEF Roused
    <3> QED BY <2>2, <3>2, <3>3
  <2> QED BY <2>3, <2>4
<1> QED
  BY FutexInitInv, FutexStepInv, <1>1, PTL DEF FutexSpec, WakeReleases

-----------------------------------------------------------------------------
(* The break: the inductive invariant. *)

Top == MaxPages * PageSize
PageValues == Stored \cup {0, Unmapped}

\* The break of a slot, with the base for one that has not been set.
BreakOf(brk) == IF brk = 0 THEN Base ELSE brk

\* A program that may grow its heap has the same break as the kernel, and has
\* been given exactly the pages below it.
BrkInv ==
    /\ alive \subseteq Slots /\ forked \subseteq alive
    /\ g_proc_brk \in [Slots -> 0..Top] /\ heap_end \in [Slots -> 0..Top]
    /\ heap \in [Slots -> [Pages -> PageValues]] /\ stored \in [Slots -> [Pages -> PageValues]]
    /\ \A p \in alive \ forked : heap_end[p] = g_proc_brk[p]
    /\ \A p \in alive \ forked : \A i \in Pages :
          stored[p][i] # Unmapped <=> i < PageOf(BreakOf(g_proc_brk[p]))
    /\ HeapKept

-----------------------------------------------------------------------------
(* Pages and addresses. *)

LEMMA TopIs == Top \in Nat \ {0}
BY BrkAssumption DEF Top

\* Dividing by the page size keeps the order.
LEMMA DivMono ==
    ASSUME NEW a \in Nat, NEW b \in Nat, a <= b
    PROVE  /\ a \div PageSize \in Nat
           /\ a \div PageSize <= b \div PageSize
<1> DEFINE x == a \div PageSize
           y == b \div PageSize
<1>1. PageSize \in Nat \ {0}
  BY BrkAssumption
<1>2. /\ x \in Nat /\ y \in Nat
      /\ a = PageSize * x + (a % PageSize) /\ a % PageSize \in 0..(PageSize - 1)
      /\ b = PageSize * y + (b % PageSize) /\ b % PageSize \in 0..(PageSize - 1)
  BY <1>1
<1> HIDE DEF x, y
<1>3. x <= y
  <2> SUFFICES ASSUME y + 1 <= x PROVE FALSE
    BY <1>2
  <2>1. PageSize * (y + 1) <= PageSize * x
    BY <1>1, <1>2
  <2>2. PageSize * (y + 1) = PageSize * y + PageSize
    BY <1>1, <1>2
  <2> QED BY <1>1, <1>2, <2>1, <2>2
<1> QED BY <1>2, <1>3 DEF x, y

\* What the proofs need to know of pages: nothing lies below the base, all of
\* the heap lies within the pages, and the page of the last byte below an
\* address is not above the first page at or above it.
LEMMA PageFacts ==
    ASSUME NEW a \in 1..Top
    PROVE  /\ PageOf(a) \in Nat /\ PageOf(Base) = 0
           /\ (a - Base) \div PageSize <= PageOf(a)
<1>1. PageSize \in Nat \ {0} /\ Top \in Nat
  BY BrkAssumption, TopIs
<1>2. a - Base \in Nat /\ (a - Base) + PageSize - 1 \in Nat /\ a - Base <= (a - Base) + PageSize - 1
  BY <1>1 DEF Base
<1>3. (PageSize - 1) \div PageSize = 0
  BY <1>1
<1> QED
  BY <1>1, <1>2, <1>3, DivMono DEF PageOf, Base

LEMMA BrkInvInit == BrkInit => BrkInv
<1> SUFFICES ASSUME BrkInit PROVE BrkInv
  OBVIOUS
<1>1. Top \in Nat \ {0} /\ 0 \in 0..Top /\ 1 \in 1..Top
  BY TopIs
<1>2. PageOf(Base) = 0
  BY <1>1, PageFacts
<1>3. \A p \in Slots : \A i \in Pages : stored[p][i] = Unmapped
  BY DEF BrkInit, NoPages
<1>4. NoPages \in [Pages -> PageValues]
  BY DEF NoPages, PageValues
<1>5. \A i \in Pages : ~(i < 0)
  BY BrkAssumption DEF Pages
<1> QED
  BY <1>1, <1>2, <1>3, <1>4, <1>5, BrkAssumption DEF BrkInit, BrkInv, HeapKept, BreakOf

-----------------------------------------------------------------------------
(* The steps. *)

\* sbrk of a program whose break the kernel knows.
LEMMA SbrkPreserves ==
    ASSUME Limits = {}, BrkInv, NEW p \in Slots, NEW incr \in Increments, sbrk(p, incr)
    PROVE  BrkInv'
<1> DEFINE from == BreakOf(g_proc_brk[p])
           to == from + incr
<1>1. p \in alive \ forked /\ alive \subseteq Slots
  BY DEF sbrk, BrkInv
<1>2. Current(p) = from /\ heap_end[p] = g_proc_brk[p] /\ g_proc_brk[p] \in 0..Top
  BY <1>1 DEF Current, BreakOf, BrkInv
<1>3. (IF heap_end[p] = 0 THEN Current(p) ELSE heap_end[p]) = from
  BY <1>2 DEF BreakOf
<1>4. from \in 1..Top /\ to \in Int /\ from # 0 /\ BreakOf(from) = from
  BY <1>2, TopIs, BrkAssumption DEF BreakOf, Base
<1>5. UNCHANGED <<alive, forked>>
  BY DEF sbrk
<1>6. CASE ~InHeap(to)
  <2>1. /\ g_proc_brk' = [g_proc_brk EXCEPT ![p] = from]
        /\ heap_end' = [heap_end EXCEPT ![p] = from] /\ UNCHANGED <<heap, stored>>
    BY <1>2, <1>3, <1>6 DEF sbrk
  <2>2. /\ g_proc_brk' \in [Slots -> 0..Top] /\ heap_end' \in [Slots -> 0..Top]
        /\ \A q \in alive \ forked : /\ heap_end'[q] = g_proc_brk'[q]
                                      /\ BreakOf(g_proc_brk'[q]) = BreakOf(g_proc_brk[q])
    BY <1>1, <1>4, <2>1, TopIs DEF BrkInv
  <2> QED BY <1>5, <2>1, <2>2 DEF BrkInv, HeapKept
<1>7. CASE InHeap(to)
  <2> DEFINE g == Given(p, from, to)
             h == Remapped(p, to, PageOf(to))
  <2>1. /\ g_proc_brk' = [g_proc_brk EXCEPT ![p] = to] /\ heap_end' = [heap_end EXCEPT ![p] = to]
        /\ heap' = [heap EXCEPT ![p] = h] /\ stored' = [stored EXCEPT ![p] = g]
    BY <1>2, <1>3, <1>7 DEF sbrk, NewBreak
  <2>2. to \in 1..Top /\ to # 0 /\ BreakOf(to) = to
    BY <1>4, <1>7, TopIs DEF InHeap, Base, BreakOf, Top
  <2>3. /\ PageOf(from) \in Nat /\ PageOf(to) \in Nat
        /\ (from - Base) \div PageSize <= PageOf(from) /\ (from - Base) \div PageSize \in Int
    BY <1>4, <2>2, PageFacts, BrkAssumption, TopIs DEF Base
  <2> HIDE DEF to, from
  <2>4. \A i \in Pages : i \in Nat
    BY BrkAssumption DEF Pages
  <2>5. /\ heap[p] \in [Pages -> PageValues] /\ stored[p] \in [Pages -> PageValues]
        /\ \A i \in Pages : /\ heap[p][i] \in PageValues /\ stored[p][i] \in PageValues
                            /\ stored[p][i] # Unmapped <=> i < PageOf(from)
                            /\ stored[p][i] # Unmapped => heap[p][i] = stored[p][i]
    BY <1>1 DEF BrkInv, HeapKept, from
  <2>6. 0 # Unmapped /\ 0 \in PageValues /\ Unmapped \in PageValues
    BY DEF Unmapped, PageValues
  <2>7. g \in [Pages -> PageValues] /\ h \in [Pages -> PageValues]
    BY <2>5, <2>6 DEF Given, Remapped
  <2>8. \A i \in Pages : g[i] # Unmapped <=> i < PageOf(to)
    BY <2>3, <2>4, <2>5, <2>6 DEF Given
  <2>9. \A i \in Pages : g[i] # Unmapped => h[i] = g[i]
    <3> SUFFICES ASSUME NEW i \in Pages, g[i] # Unmapped PROVE h[i] = g[i]
      OBVIOUS
    <3>1. i < PageOf(to) /\ i \in Nat
      BY <2>4, <2>8
    <3>2. CASE i < PageOf(from)
      <4>1. g[i] = stored[p][i]
        BY <2>3, <2>5, <3>1, <3>2 DEF Given
      <4>2. h[i] = heap[p][i]
        BY <1>2, <2>3, <3>1, <3>2 DEF Remapped
      <4> QED BY <2>5, <3>2, <4>1, <4>2
    <3>3. CASE ~(i < PageOf(from))
      <4>1. g[i] = 0
        BY <2>3, <2>5, <3>1, <3>3 DEF Given
      <4>2. h[i] = 0
        BY <1>2, <2>3, <3>1, <3>3 DEF Remapped
      <4> QED BY <4>1, <4>2
    <3> QED BY <3>2, <3>3
  <2> HIDE DEF g, h
  <2>10. /\ g_proc_brk' \in [Slots -> 0..Top] /\ heap_end' \in [Slots -> 0..Top]
         /\ heap' \in [Slots -> [Pages -> PageValues]]
         /\ stored' \in [Slots -> [Pages -> PageValues]]
         /\ g_proc_brk'[p] = to /\ heap_end'[p] = to /\ heap'[p] = h /\ stored'[p] = g
         /\ \A q \in Slots \ {p} : /\ g_proc_brk'[q] = g_proc_brk[q] /\ heap_end'[q] = heap_end[q]
                                   /\ heap'[q] = heap[q] /\ stored'[q] = stored[q]
    BY <2>1, <2>2, <2>7 DEF BrkInv
  <2>11. HeapKept'
    <3> SUFFICES ASSUME NEW q \in alive, NEW i \in Pages, stored'[q][i] # Unmapped
                 PROVE  heap'[q][i] = stored'[q][i]
      BY ZenonT(60), <1>5 DEF HeapKept
    <3>1. CASE q = p
      BY ZenonT(60), <2>9, <2>10, <3>1
    <3>2. CASE q # p
      BY ZenonT(60), <1>1, <2>10, <3>2 DEF BrkInv, HeapKept
    <3> QED BY <3>1, <3>2
  <2>12. \A q \in alive \ forked : heap_end'[q] = g_proc_brk'[q]
    BY ZenonT(60), <1>1, <2>10 DEF BrkInv
  <2>13. \A q \in alive \ forked : \A i \in Pages :
            stored'[q][i] # Unmapped <=> i < PageOf(BreakOf(g_proc_brk'[q]))
    <3> SUFFICES ASSUME NEW q \in alive \ forked, NEW i \in Pages
                 PROVE  stored'[q][i] # Unmapped <=> i < PageOf(BreakOf(g_proc_brk'[q]))
      OBVIOUS
    <3>1. CASE q = p
      BY ZenonT(60), <2>2, <2>8, <2>10, <3>1
    <3>2. CASE q # p
      BY ZenonT(60), <1>1, <2>10, <3>2 DEF BrkInv
    <3> QED BY <3>1, <3>2
  <2> QED BY <1>1, <1>5, <2>10, <2>11, <2>12, <2>13 DEF BrkInv
<1> QED BY <1>6, <1>7

LEMMA StorePagePreserves ==
    ASSUME BrkInv, NEW p \in Slots, NEW i \in Pages, NEW v \in Stored, StorePage(p, i, v)
    PROVE  BrkInv'
<1>1. v \in PageValues /\ v # Unmapped /\ p \in alive /\ stored[p][i] # Unmapped
  BY BrkAssumption DEF PageValues, Unmapped, StorePage
<1>2. /\ heap' = [heap EXCEPT ![p][i] = v] /\ stored' = [stored EXCEPT ![p][i] = v]
      /\ UNCHANGED <<alive, forked, g_proc_brk, heap_end>>
  BY DEF StorePage
<1>3. /\ heap' \in [Slots -> [Pages -> PageValues]] /\ stored' \in [Slots -> [Pages -> PageValues]]
      /\ \A q \in Slots, j \in Pages :
            /\ heap'[q][j] = IF q = p /\ j = i THEN v ELSE heap[q][j]
            /\ stored'[q][j] = IF q = p /\ j = i THEN v ELSE stored[q][j]
  BY <1>1, <1>2 DEF BrkInv
<1>4. HeapKept'
  BY <1>2, <1>3 DEF HeapKept, BrkInv
<1>5. \A q \in alive \ forked : \A j \in Pages :
          stored'[q][j] # Unmapped <=> j < PageOf(BreakOf(g_proc_brk[q]))
  BY <1>1, <1>3 DEF BrkInv
<1> QED BY <1>2, <1>3, <1>4, <1>5 DEF BrkInv

\* The child may not grow its heap, so its break need not be right.
LEMMA ForkPreserves ==
    ASSUME BrkInv, NEW p \in Slots, NEW c \in Slots, Fork(p, c)
    PROVE  BrkInv'
<1>1. p \in alive /\ c \in Slots \ alive /\ alive' \ forked' = alive \ forked
  BY DEF Fork, BrkInv
<1>2. /\ heap' \in [Slots -> [Pages -> PageValues]] /\ stored' \in [Slots -> [Pages -> PageValues]]
      /\ heap_end' \in [Slots -> 0..Top]
      /\ heap'[c] = heap[p] /\ stored'[c] = stored[p]
      /\ \A q \in Slots \ {c} : /\ heap'[q] = heap[q] /\ stored'[q] = stored[q]
                                /\ heap_end'[q] = heap_end[q]
  BY DEF BrkInv, Fork
<1>3. HeapKept'
  BY <1>1, <1>2 DEF HeapKept, BrkInv, Fork
<1> QED BY <1>1, <1>2, <1>3 DEF BrkInv, Fork

\* A process whose memory is gone and whose break, if it may grow its heap, is
\* reset.
LEMMA ClearedPreserves ==
    ASSUME BrkInv, NEW p \in Slots,
           alive' \subseteq alive, forked' \subseteq forked, forked' \subseteq alive',
           alive' \ forked' \subseteq (alive \ forked) \cup {p},
           heap' = [heap EXCEPT ![p] = NoPages], stored' = [stored EXCEPT ![p] = NoPages],
           heap_end' = [heap_end EXCEPT ![p] = 0],
           \/ g_proc_brk' = proc_brk_reset(p)
           \/ p \notin alive' /\ UNCHANGED g_proc_brk
    PROVE  BrkInv'
<1>1. NoPages \in [Pages -> PageValues] /\ \A i \in Pages : NoPages[i] = Unmapped
  BY DEF NoPages, PageValues
<1>2. Top \in Nat \ {0} /\ PageOf(Base) = 0 /\ \A i \in Pages : ~(i < 0)
  BY TopIs, PageFacts, BrkAssumption DEF Pages
<1>3. /\ heap' \in [Slots -> [Pages -> PageValues]] /\ stored' \in [Slots -> [Pages -> PageValues]]
      /\ heap_end' \in [Slots -> 0..Top] /\ g_proc_brk' \in [Slots -> 0..Top]
      /\ heap'[p] = NoPages /\ stored'[p] = NoPages /\ heap_end'[p] = 0
      /\ p \in alive' => g_proc_brk'[p] = 0
      /\ \A q \in Slots \ {p} : /\ heap'[q] = heap[q] /\ stored'[q] = stored[q]
                                /\ heap_end'[q] = heap_end[q] /\ g_proc_brk'[q] = g_proc_brk[q]
  <2>1. /\ heap \in [Slots -> [Pages -> PageValues]] /\ stored \in [Slots -> [Pages -> PageValues]]
        /\ heap_end \in [Slots -> 0..Top] /\ g_proc_brk \in [Slots -> 0..Top] /\ 0 \in 0..Top
    BY <1>2 DEF BrkInv
  <2>2. /\ g_proc_brk' \in [Slots -> 0..Top] /\ (p \in alive' => g_proc_brk'[p] = 0)
        /\ \A q \in Slots \ {p} : g_proc_brk'[q] = g_proc_brk[q]
    BY <2>1 DEF proc_brk_reset
  <2> QED BY <1>1, <2>1, <2>2
<1>4. HeapKept'
  BY <1>1, <1>3 DEF HeapKept, BrkInv
<1>5. \A q \in alive' \ forked' : heap_end'[q] = g_proc_brk'[q]
  BY <1>3 DEF BrkInv
<1>6. \A q \in alive' \ forked' : \A i \in Pages :
          stored'[q][i] # Unmapped <=> i < PageOf(BreakOf(g_proc_brk'[q]))
  BY <1>1, <1>2, <1>3 DEF BrkInv, BreakOf
<1> QED BY <1>3, <1>4, <1>5, <1>6 DEF BrkInv

LEMMA BrkInvNext ==
    ASSUME Limits = {}, BrkInv, [BrkNext]_brkVars
    PROVE  BrkInv'
<1>1. CASE UNCHANGED brkVars
  BY <1>1 DEF brkVars, BrkInv, HeapKept
<1>2. ASSUME NEW p \in Slots, Exec(p) PROVE BrkInv'
  <2>1. /\ heap' = [heap EXCEPT ![p] = NoPages] /\ stored' = [stored EXCEPT ![p] = NoPages]
        /\ heap_end' = [heap_end EXCEPT ![p] = 0] /\ g_proc_brk' = proc_brk_reset(p)
        /\ alive' = alive /\ forked' = forked \ {p}
    BY <1>2 DEF Exec
  <2> QED BY ZenonT(60), <2>1, ClearedPreserves DEF BrkInv
<1>3. ASSUME NEW p \in Slots, Exit(p) \/ Killed(p) PROVE BrkInv'
  <2>1. /\ heap' = [heap EXCEPT ![p] = NoPages] /\ stored' = [stored EXCEPT ![p] = NoPages]
        /\ heap_end' = [heap_end EXCEPT ![p] = 0]
        /\ alive' = alive \ {p} /\ forked' = forked \ {p}
        /\ g_proc_brk' = proc_brk_reset(p) \/ UNCHANGED g_proc_brk
    BY <1>3 DEF Exit, Killed, Gone
  <2> QED BY ZenonT(60), <2>1, ClearedPreserves DEF BrkInv
<1> QED
  BY <1>1, <1>2, <1>3, SbrkPreserves, StorePagePreserves, ForkPreserves DEF BrkNext

\* While no child grows its heap before exec, exec does not fail and memory
\* does not run out: kernel and C library agree on the break of every program
\* that may move it, and every page that sbrk has given is mapped and holds
\* what the program stored there, for every page size, heap size and sequence
\* of sbrk, fork, exec, exit and kill.
THEOREM BrkBreaks ==
    ASSUME Limits = {}
    PROVE  BrkSpec => []BreakExact
<1>1. BrkInv => BreakExact
  BY DEF BrkInv, BreakExact, BrkTypeOK, BreakAgrees, Top, PageValues
<1> QED
  BY <1>1, BrkInvInit, BrkInvNext, PTL DEF BrkSpec
=============================================================================
