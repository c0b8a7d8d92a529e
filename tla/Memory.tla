------------------------------- MODULE Memory -------------------------------
(***************************************************************************)
(* Physical frames and user address spaces: the frame allocator with its   *)
(* reference counts (kernel/memory/pmm.c), the page tables and             *)
(* copy-on-write fork (vmm.c), the page-fault handler (fault.c), and the   *)
(* calls that allocate, share and free pages (arch/x86_64/syscall.c).      *)
(*                                                                         *)
(* An action is one critical section of pmm_lock or one access to a page   *)
(* table entry.  The threads of the processes run on different CPUs and    *)
(* interleave between them.  Frames used for page tables are left out.     *)
(***************************************************************************)
EXTENDS Naturals, FiniteSets

CONSTANTS
    Spaces,         \* user address spaces
    NThreads,       \* threads in each
    VAs,            \* user pages
    ShareVAs,       \* those a program leaves to the pages others share with it
    NFrames,        \* frames 1..NFrames; frame 0 is reserved for good
    RefMax,         \* REF_MAX
    Vals,           \* contents of a page
    Zero,           \* the contents of a fresh page
    InitSpace,      \* the first process
    ShareCow,       \* whether programs share pages that are copy-on-write
    ShareDying      \* whether a process may exit while a page is given to it

Threads == Spaces \X (1..NThreads)
Home(t) == t[1]
Frames == 1..NFrames
NoFrame == 0

ASSUME MemoryAssumption ==
    /\ NThreads \in Nat \ {0} /\ NFrames \in Nat \ {0} /\ RefMax \in Nat \ {0, 1}
    /\ InitSpace \in Spaces /\ ShareVAs \subseteq VAs /\ Zero \in Vals /\ ShareCow \in BOOLEAN /\ ShareDying \in BOOLEAN
    /\ IsFiniteSet(Spaces) /\ IsFiniteSet(VAs) /\ VAs # {}

VARIABLES
    bitmap,         \* frames marked used
    refcnt, alloc_hint,
    mem,            \* the contents of the frames
    pt,             \* the page table entries of each address space
    live,           \* address spaces of processes that run
    pc,             \* where a thread is in the kernel
    arg,            \* the pages, the frames and the other space it works on
    halted,         \* the kernel has panicked
    sees            \* the value at each address and the addresses it is shared
                    \* with, as the programs are entitled to see them

pmmVars == <<bitmap, refcnt, alloc_hint>>
memVars == <<pmmVars, mem, pt, live, pc, arg, halted, sees>>

NoPage == [frame |-> NoFrame, rw |-> FALSE, cow |-> FALSE, shared |-> FALSE]
Entry(f, w, cw, sh) == [frame |-> f, rw |-> w, cow |-> cw, shared |-> sh]
Mapped(s, v) == pt[s][v].frame # NoFrame

NoArg == [va |-> {}, old |-> NoFrame, new |-> NoFrame, child |-> {}, dst |-> {}]
Only(S) == CHOOSE x \in S : TRUE

-----------------------------------------------------------------------------
(* The frame allocator. *)

FreeFrames == Frames \ bitmap

\* The first free frame at or after the hint, cyclically.
NextFree ==
    LET After == {f \in FreeFrames : f >= alloc_hint}
        Lowest(S) == CHOOSE f \in S : \A g \in S : f <= g
    IN  IF After # {} THEN Lowest(After) ELSE Lowest(FreeFrames)

\* pmm_alloc_frame when memory is left; it returns f = NextFree.
pmm_alloc_frame(f) ==
    /\ FreeFrames # {}
    /\ bitmap' = bitmap \cup {f}
    /\ refcnt' = [refcnt EXCEPT ![f] = 1]
    /\ alloc_hint' = f + 1

\* pmm_ref_frame: a saturated count stays.
Ref(rc, f) == IF rc[f] # 0 /\ rc[f] < RefMax THEN [rc EXCEPT ![f] = @ + 1] ELSE rc

\* Mutant: a frame with two references is given back.
StillSharedOffByOne(f) == refcnt[f] > 2
StillShared(f) == refcnt[f] > 1

\* pmm_unref_frame (pmm_free_frame).
pmm_unref_frame(f) ==
    \/ /\ StillShared(f)
       /\ refcnt' = [refcnt EXCEPT ![f] = @ - 1]
       /\ UNCHANGED <<bitmap, alloc_hint>>
    \/ /\ ~StillShared(f)
       /\ refcnt' = [refcnt EXCEPT ![f] = 0]
       /\ bitmap' = bitmap \ {f}
       /\ alloc_hint' = IF f < alloc_hint THEN f ELSE alloc_hint

-----------------------------------------------------------------------------

\* What a program sees of a page of its own, with value x.  Addresses that
\* sys_mem_share made one page have the same group, which is not Alone.
Alone == 0
Own(x) == [group |-> Alone, val |-> x]

FreshGroup ==
    CHOOSE i \in 1..(Cardinality(Spaces) * Cardinality(VAs)) :
        \A s \in Spaces, v \in VAs : sees[s][v].group # i

MemInit ==
    /\ bitmap = {}
    /\ refcnt = [f \in Frames |-> 0]
    /\ alloc_hint = 0
    /\ mem = [f \in Frames |-> Zero]
    /\ pt = [s \in Spaces |-> [v \in VAs |-> NoPage]]
    /\ live = {InitSpace}
    /\ pc = [t \in Threads |-> "user"]
    /\ arg = [t \in Threads |-> NoArg]
    /\ halted = FALSE
    /\ sees = [s \in Spaces |-> [v \in VAs |-> Own(Zero)]]

\* Thread t runs in user mode or enters the kernel.
User(t) == pc[t] = "user" /\ Home(t) \in live

\* A page at an address that has none.
NewPage(t, v, x) ==
    LET s == Home(t)
    IN  /\ User(t) /\ ~Mapped(s, v) /\ v \notin ShareVAs
        /\ pmm_alloc_frame(NextFree)
        /\ mem' = [mem EXCEPT ![NextFree] = x]
        /\ pt' = [pt EXCEPT ![s][v] = Entry(NextFree, TRUE, FALSE, FALSE)]
        /\ sees' = [sees EXCEPT ![s][v] = Own(x)]
        /\ UNCHANGED <<live, pc, arg, halted>>

\* The new page keeps what the frame held; the stack grows by a cleared one.
sys_mem_alloc(t, v) == NewPage(t, v, mem[NextFree])
grow_user_stack(t, v) == NewPage(t, v, Zero)

\* Mutant: the page is unmapped and its frame kept.
MemFreeKeeps(t, v) ==
    /\ User(t) /\ Mapped(Home(t), v)
    /\ pt' = [pt EXCEPT ![Home(t)][v] = NoPage]
    /\ sees' = [sees EXCEPT ![Home(t)][v] = Own(Zero)]
    /\ UNCHANGED <<pmmVars, mem, live, pc, arg, halted>>

sys_mem_free(t, v) ==
    LET s == Home(t)
    IN  /\ User(t) /\ Mapped(s, v)
        /\ pt' = [pt EXCEPT ![s][v] = NoPage]
        /\ pmm_unref_frame(pt[s][v].frame)
        /\ sees' = [sees EXCEPT ![s][v] = Own(Zero)]
        /\ UNCHANGED <<mem, live, pc, arg, halted>>

\* The frame gets one more owner ...
sys_mem_share(t, v, target, tv) ==
    /\ User(t) /\ Mapped(Home(t), v)
    /\ target \in live \ {Home(t)} /\ tv \in ShareVAs /\ ~Mapped(target, tv)
    /\ ShareCow \/ ~pt[Home(t)][v].cow
    /\ \A r \in Threads : <<target, tv>> \notin arg[r].child \X arg[r].dst
    /\ refcnt' = Ref(refcnt, pt[Home(t)][v].frame)
    /\ pc' = [pc EXCEPT ![t] = "share"]
    /\ arg' = [arg EXCEPT ![t] = [va |-> {v}, old |-> NoFrame, child |-> {target},
                                  new |-> pt[Home(t)][v].frame, dst |-> {tv}]]
    /\ UNCHANGED <<bitmap, alloc_hint, mem, pt, live, halted, sees>>

\* ... is mapped into the target, and both entries are marked shared.  The
\* caller's entry keeps its other bits.
ShareMap(t) ==
    LET s == Home(t)
        v == Only(arg[t].va)
        target == Only(arg[t].child)
        tv == Only(arg[t].dst)
        sight == [val |-> sees[s][v].val,
                  group |-> IF sees[s][v].group = Alone THEN FreshGroup
                            ELSE sees[s][v].group]
    IN  /\ pc[t] = "share"
        /\ pt' = [pt EXCEPT ![target][tv] = Entry(arg[t].new, TRUE, FALSE, TRUE),
                            ![s][v].shared = TRUE]
        /\ sees' = [sees EXCEPT ![s][v] = sight, ![target][tv] = sight]
        /\ pc' = [pc EXCEPT ![t] = "user"]
        /\ arg' = [arg EXCEPT ![t] = NoArg]
        /\ UNCHANGED <<pmmVars, mem, live, halted>>

\* What everybody who shares the page sees after a write.
Written(s, v, x) ==
    [r \in Spaces |-> [w \in VAs |->
        IF <<r, w>> = <<s, v>> \/ sees[s][v].group \in {sees[r][w].group} \ {Alone}
        THEN [sees[r][w] EXCEPT !.val = x] ELSE sees[r][w]]]

UserWrite(t, v, x) ==
    LET s == Home(t)
    IN  /\ User(t) /\ Mapped(s, v) /\ pt[s][v].rw
        /\ mem' = [mem EXCEPT ![pt[s][v].frame] = x]
        /\ sees' = Written(s, v, x)
        /\ UNCHANGED <<pmmVars, pt, live, pc, arg, halted>>

\* A system call that stores into user memory.  A fault in kernel mode is not
\* repaired but stops the machine.
CopyOut(t, v, x) ==
    LET s == Home(t)
    IN  /\ User(t) /\ Mapped(s, v)
        /\ IF pt[s][v].rw
           THEN /\ mem' = [mem EXCEPT ![pt[s][v].frame] = x]
                /\ sees' = Written(s, v, x)
                /\ UNCHANGED halted
           ELSE halted' = TRUE /\ UNCHANGED <<mem, sees>>
        /\ UNCHANGED <<pmmVars, pt, live, pc, arg>>

-----------------------------------------------------------------------------
(* The copy-on-write fault: look at the count, copy, remap, drop the old. *)

\* Mutant: the write bit is re-armed whoever shares the frame.
SoleOwnerAlways(f) == TRUE
SoleOwner(f) == refcnt[f] = 1

\* A write to a COW page; the sole owner gets its write bit back.
handle_cow(t, v) ==
    LET s == Home(t)
        f == pt[s][v].frame
    IN  /\ User(t) /\ Mapped(s, v) /\ ~pt[s][v].rw /\ pt[s][v].cow
        /\ IF SoleOwner(f)
           THEN /\ pt' = [pt EXCEPT ![s][v] = [@ EXCEPT !.rw = TRUE, !.cow = FALSE]]
                /\ UNCHANGED <<pmmVars, mem, pc, arg>>
           ELSE /\ pmm_alloc_frame(NextFree)
                /\ mem' = [mem EXCEPT ![NextFree] = mem[f]]
                /\ pc' = [pc EXCEPT ![t] = "remap"]
                /\ arg' = [arg EXCEPT ![t] = [NoArg EXCEPT !.va = {v}, !.old = f,
                                              !.new = NextFree]]
                /\ UNCHANGED pt
        /\ UNCHANGED <<live, halted, sees>>

CowRemap(t) ==
    /\ pc[t] = "remap"
    /\ \E v \in arg[t].va :
          pt' = [pt EXCEPT ![Home(t)][v] = Entry(arg[t].new, TRUE, FALSE, @.shared)]
    /\ pc' = [pc EXCEPT ![t] = "unref"]
    /\ UNCHANGED <<pmmVars, mem, live, arg, halted, sees>>

CowUnref(t) ==
    /\ pc[t] = "unref"
    /\ pmm_unref_frame(arg[t].old)
    /\ pc' = [pc EXCEPT ![t] = "user"]
    /\ arg' = [arg EXCEPT ![t] = NoArg]
    /\ UNCHANGED <<mem, pt, live, halted, sees>>

-----------------------------------------------------------------------------
(* fork: vmm_clone_user, one page at a time. *)

Child(t) == Only(arg[t].child)

proc_fork(t, c) ==
    /\ User(t)
    /\ c \in Spaces \ live
    /\ \A v \in VAs : ~Mapped(c, v)
    /\ \A r \in Threads : c \notin arg[r].child /\ (Home(r) = c => pc[r] = "user")
    /\ pc' = [pc EXCEPT ![t] = "clone"]
    /\ arg' = [arg EXCEPT ![t] = [NoArg EXCEPT !.child = {c},
                                  !.va = {v \in VAs : Mapped(Home(t), v)}]]
    /\ UNCHANGED <<pmmVars, mem, pt, live, halted, sees>>

\* Mutant: the parent keeps its write permission.
ClonedEntryParentWrites(e) == [e EXCEPT !.cow = ~e.shared]

\* A private writable page becomes copy-on-write, in the parent too.
ClonedEntry(e) ==
    IF ~e.shared /\ e.rw THEN [e EXCEPT !.rw = FALSE, !.cow = TRUE] ELSE e

CloneMap(t, v) ==
    LET s == Home(t)
        e == ClonedEntry(pt[s][v])
    IN  /\ pc[t] = "clone" /\ v \in arg[t].va
        /\ pt' = [pt EXCEPT ![s][v] = e, ![Child(t)][v] = e]
        /\ sees' = [sees EXCEPT ![Child(t)][v] =
                       IF e.shared THEN sees[s][v]
                       ELSE Own(sees[s][v].val)]
        /\ arg' = [arg EXCEPT ![t].va = @ \ {v}, ![t].old = e.frame]
        /\ pc' = [pc EXCEPT ![t] = "ref"]
        /\ UNCHANGED <<pmmVars, mem, live, halted>>

CloneRef(t) ==
    /\ pc[t] = "ref"
    /\ refcnt' = Ref(refcnt, arg[t].old)
    /\ arg' = [arg EXCEPT ![t].old = NoFrame]
    /\ pc' = [pc EXCEPT ![t] = "clone"]
    /\ UNCHANGED <<bitmap, alloc_hint, mem, pt, live, halted, sees>>

CloneDone(t) ==
    /\ pc[t] = "clone" /\ arg[t].va = {}
    /\ live' = live \cup arg[t].child
    /\ pc' = [pc EXCEPT ![t] = "user"]
    /\ arg' = [arg EXCEPT ![t] = NoArg]
    /\ UNCHANGED <<pmmVars, mem, pt, halted, sees>>

\* No frame for a page table, the kernel stack or the slot: the pages mapped so
\* far are given back.  The parent's page may already be write-protected.
CloneFails(t) ==
    /\ pc[t] = "clone"
    /\ pc' = [pc EXCEPT ![t] = "destroy"]
    /\ pt' \in {pt} \cup {[pt EXCEPT ![Home(t)][v] = ClonedEntry(@)] : v \in arg[t].va}
    /\ arg' = [arg EXCEPT ![t].va = {}]
    /\ UNCHANGED <<pmmVars, mem, live, halted, sees>>

\* The last thread of a process exits and its address space is destroyed.
proc_exit(t) ==
    /\ User(t)
    /\ \A r \in Threads :
          /\ Home(r) = Home(t) => pc[r] = "user"
          /\ ShareDying \/ ~(pc[r] = "share" /\ Home(t) \in arg[r].child)
    /\ live' = live \ {Home(t)}
    /\ pc' = [pc EXCEPT ![t] = "destroy"]
    /\ arg' = [arg EXCEPT ![t] = [NoArg EXCEPT !.child = {Home(t)}]]
    /\ UNCHANGED <<pmmVars, mem, pt, halted, sees>>

vmm_destroy_user(t, v) ==
    LET s == Child(t)
    IN  /\ pc[t] = "destroy" /\ Mapped(s, v)
        /\ pmm_unref_frame(pt[s][v].frame)
        /\ pt' = [pt EXCEPT ![s][v] = NoPage]
        /\ sees' = [sees EXCEPT ![s][v] = Own(Zero)]
        /\ UNCHANGED <<mem, live, pc, arg, halted>>

DestroyDone(t) ==
    /\ pc[t] = "destroy"
    /\ \A v \in VAs : ~Mapped(Child(t), v)
    /\ pc' = [pc EXCEPT ![t] = "user"]
    /\ arg' = [arg EXCEPT ![t] = NoArg]
    /\ UNCHANGED <<pmmVars, mem, pt, live, halted, sees>>

MemNext ==
    /\ ~halted
    /\ \E t \in Threads :
          \/ \E v \in VAs :
                \/ sys_mem_alloc(t, v) \/ grow_user_stack(t, v) \/ sys_mem_free(t, v)
                \/ \E s \in Spaces, w \in VAs : sys_mem_share(t, v, s, w)
                \/ \E x \in Vals : UserWrite(t, v, x) \/ CopyOut(t, v, x)
                \/ handle_cow(t, v) \/ CloneMap(t, v) \/ vmm_destroy_user(t, v)
          \/ ShareMap(t) \/ CowRemap(t) \/ CowUnref(t)
          \/ \E c \in Spaces : proc_fork(t, c)
          \/ CloneRef(t) \/ CloneDone(t) \/ CloneFails(t)
          \/ proc_exit(t) \/ DestroyDone(t)

MemSpec == MemInit /\ [][MemNext]_memVars

-----------------------------------------------------------------------------
(* Properties. *)

\* The types of the variables; no count passes REF_MAX.
MemTypeOK ==
    /\ bitmap \subseteq Frames
    /\ refcnt \in [Frames -> 0..RefMax]
    /\ alloc_hint \in 0..(NFrames + 1)
    /\ mem \in [Frames -> Vals]
    /\ pt \in [Spaces -> [VAs -> [frame : Frames \cup {NoFrame}, rw : BOOLEAN,
                                  cow : BOOLEAN, shared : BOOLEAN]]]
    /\ live \subseteq Spaces
    /\ pc \in [Threads -> {"user", "share", "remap", "unref", "clone", "ref", "destroy"}]
    /\ halted \in BOOLEAN

Mappings(f) == {sv \in Spaces \X VAs : pt[sv[1]][sv[2]].frame = f}

\* Threads that hold a reference to f outside the page tables.
Holders(f) ==
    {t \in Threads : \/ pc[t] \in {"remap", "share"} /\ arg[t].new = f
                     \/ pc[t] = "unref" /\ arg[t].old = f}

\* Mappings whose reference fork has yet to take.
Owed(f) == {t \in Threads : pc[t] = "ref" /\ arg[t].old = f}

\* The count of a frame is the number of its mappings, up to the one that a
\* fork or a copy-on-write fault on some CPU is about to add or drop: nothing
\* is freed too early and nothing leaks.
RefsMatch ==
    \A f \in Frames :
        /\ refcnt[f] + Cardinality(Owed(f)) = Cardinality(Mappings(f)) + Cardinality(Holders(f))
        /\ f \in bitmap <=> refcnt[f] > 0

\* A frame that somebody has mapped is not in the free pool.
MappedIsAllocated ==
    \A s \in Spaces, v \in VAs : Mapped(s, v) => pt[s][v].frame \in bitmap

\* A page is mapped only in the address space of a process that runs, that is
\* being created or that is being torn down.
OwnersExist ==
    \A s \in Spaces, v \in VAs :
        Mapped(s, v) =>
            s \in live \/ \E t \in Threads : pc[t] # "share" /\ s \in arg[t].child

\* Every address shows the value its owner, or somebody it shares the page
\* with, wrote last: forks are isolated from each other, and shared pages are
\* "mutually visible".
MemoryCoherent ==
    \A s \in Spaces, v \in VAs : Mapped(s, v) => mem[pt[s][v].frame] = sees[s][v].val

\* A system call never faults on the memory of its caller ("the kernel does not
\* demand-page itself").
KernelNeverFaults == ~halted

\* Frames are exact: as many references as mappings, and a live owner for each.
FramesExact == MemTypeOK /\ RefsMatch /\ OwnersExist

=============================================================================
