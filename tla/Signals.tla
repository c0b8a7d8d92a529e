------------------------------- MODULE Signals -------------------------------
(***************************************************************************)
(* Signals: posting, masking, delivery on the way out of a system call and *)
(* the return from a handler (kernel/proc/signal.c, kernel/bsd/syscalls.c, *)
(* the SIGCHLD of proc_exit, and sigsuspend of the C library), with a      *)
(* program that waits for its child as a shell does.                       *)
(*                                                                         *)
(* A CPU that is inside the kernel stays there: another process takes a    *)
(* step only if there is a CPU for it.  sig_pending is read and written    *)
(* back in two steps, by the sender as well as by the receiver.            *)
(***************************************************************************)
EXTENDS Naturals, SequencesExt

CONSTANTS
    Procs,          \* process slots; the least is the first program
    SigCPUs,        \* number of CPUs
    Signals,        \* signal numbers that programs use
    Fatal,          \* those that terminate by default
    Dispositions,   \* [sig, handler, mask] that programs ask for; Catch is
                    \* a handler of their own
    Masks,          \* masks that programs use
    MaxImages,      \* bound on the number of programs a process executes
    Uses            \* what programs do beyond the limits; see Within

CHLD == 20
SIG_DFL == 0
SIG_IGN == 1
Address(i) == 2 + i     \* of the handlers in image i
Catch == 2

ASSUME SignalsAssumption ==
    /\ Procs \subseteq Nat \ {0} /\ Procs # {} /\ IsFiniteSet(Procs)
    /\ SigCPUs \in Nat \ {0} /\ MaxImages \in Nat
    /\ Signals \subseteq Nat \ {0, 9, 17} /\ CHLD \in Signals
    /\ Fatal \subseteq Signals \ {CHLD}
    /\ Dispositions \subseteq
          [sig : Signals, handler : {SIG_DFL, SIG_IGN, Catch}, mask : SUBSET Signals]
    /\ Masks \subseteq SUBSET Signals

VARIABLES
    status,         \* "free", "alive" or "zombie" (DEAD and not reaped)
    parent_pid,     \* proc_t.parent_pid, 0 for none
    sig_pending, sig_blocked,
    sig_handler,    \* SIG_DFL, SIG_IGN or an address in an image
    sig_mask,
    image,          \* how often the process has executed a new program
    frames,         \* the signal frames on the user stack, the newest last
    at,             \* where the program is; "handler" in a handler
    old,            \* the mask that the library's sigsuspend saved
    rax,            \* result of the last system call
    job,            \* the child the program waits for, 0 for none
    call,           \* where the process is in the kernel
    own,            \* the mask the program chose outside its handlers
    ran             \* a handler was started since the last sigsuspend

sigVars == <<status, parent_pid, sig_pending, sig_blocked, sig_handler, sig_mask, image,
             frames, at, old, rax, job, call, own, ran>>
user == <<frames, at, old, job, own, ran>>

User == [pc |-> "user"]
Off == [pc |-> "off"]
First == Min(Procs)

SigInit ==
    /\ status = [p \in Procs |-> IF p = First THEN "alive" ELSE "free"]
    /\ parent_pid = [p \in Procs |-> 0]
    /\ sig_pending = [p \in Procs |-> {}] /\ sig_blocked = [p \in Procs |-> {}]
    /\ sig_handler = [p \in Procs |-> [s \in Signals |-> SIG_DFL]]
    /\ sig_mask = [p \in Procs |-> [s \in Signals |-> {}]]
    /\ image = [p \in Procs |-> 0]
    /\ frames = [p \in Procs |-> <<>>]
    /\ at = [p \in Procs |-> "top"] /\ old = [p \in Procs |-> {}]
    /\ rax = [p \in Procs |-> "ok"] /\ job = [p \in Procs |-> 0]
    /\ call = [p \in Procs |-> IF p = First THEN User ELSE Off]
    /\ own = [p \in Procs |-> {}] /\ ran = [p \in Procs |-> FALSE]

Within(use) == use \notin Uses

\* A process that waits or runs user code does not keep a CPU in the kernel.
InKernel(q) == call[q].pc \notin {"user", "suspend", "asleep", "off"}
CpuFor(p) == Cardinality({q \in Procs \ {p} : InKernel(q)}) < SigCPUs

\* p executes user code and makes a system call.
Calls(p) == call[p] = User /\ status[p] = "alive" /\ CpuFor(p)

\* The system call is over; next is signal_on_syscall_return.
Return(p) == call' = [call EXCEPT ![p] = [pc |-> "ret"]]
Result(p, v) == rax' = [rax EXCEPT ![p] = v]

-----------------------------------------------------------------------------
(* Posting. *)

SIGBIT(s) == s

CanCatch(q, s) == sig_handler[q][s] \notin {SIG_DFL, SIG_IGN}

\* What proc_send_signal decides.
Fate(q, s) ==
    CASE q \notin Procs \/ status[q] # "alive" -> "none"
      [] CanCatch(q, s) -> "post"
      [] sig_handler[q][s] = SIG_DFL /\ s \in Fatal -> "kill"
      [] OTHER -> "drop"

\* sig_pending of q is read, to be written back with s.  proc_exit(v) goes on
\* after that when v is not 0.
Read(p, q, s, v) ==
    call' = [call EXCEPT ![p] =
                [pc |-> "post", to |-> q, sig |-> s, reg |-> sig_pending[q], who |-> v]]

\* proc_exit of v has sent its signal: the caller returns unless it was v.
Exited(p, v) ==
    IF v = p THEN call' = [call EXCEPT ![p] = Off] ELSE Return(p)

\* proc_exit: the process is DEAD first, and its program is over ...
proc_exit(p, v) ==
    /\ status' = [status EXCEPT ![v] = "zombie"]
    /\ frames' = [frames EXCEPT ![v] = <<>>] /\ at' = [at EXCEPT ![v] = "top"]
    /\ old' = [old EXCEPT ![v] = {}] /\ job' = [job EXCEPT ![v] = 0]
    /\ own' = [own EXCEPT ![v] = sig_blocked[v]] /\ ran' = [ran EXCEPT ![v] = FALSE]
    /\ call' = [call EXCEPT ![v] = IF InKernel(v) THEN @ ELSE Off,
                              ![p] = [pc |-> "notify", who |-> v]]

\* ... then the parent is told.
Notify(p) ==
    LET v == call[p].who
    IN  /\ call[p].pc = "notify"
        /\ IF Fate(parent_pid[v], CHLD) = "post"
           THEN Read(p, parent_pid[v], CHLD, v) ELSE Exited(p, v)
        /\ UNCHANGED <<status, parent_pid, sig_pending, sig_blocked, sig_handler, sig_mask,
                       image, rax, user>>

\* kill(q, s); the first program, which nobody waits for, is not killed.
sys_kill(p, q, s) ==
    /\ Calls(p)
    /\ Fate(q, s) = "kill" => q # First
    /\ Result(p, "ok")
    /\ \/ Fate(q, s) = "post" /\ Read(p, q, s, 0) /\ UNCHANGED <<status, user>>
       \/ Fate(q, s) = "kill" /\ proc_exit(p, q)
       \/ Fate(q, s) \in {"none", "drop"} /\ Return(p) /\ UNCHANGED <<status, user>>
    /\ UNCHANGED <<parent_pid, sig_pending, sig_blocked, sig_handler, sig_mask, image>>

\* The write of sig_pending |= bit.
Post(p) ==
    LET c == call[p]
    IN  /\ c.pc = "post"
        /\ sig_pending' = [sig_pending EXCEPT ![c.to] = c.reg \cup {SIGBIT(c.sig)}]
        /\ Exited(p, c.who)
        /\ UNCHANGED <<status, parent_pid, sig_blocked, sig_handler, sig_mask, image,
                       rax, user>>

sys_exit(p) ==
    /\ Calls(p) /\ p # First
    /\ proc_exit(p, p)
    /\ UNCHANGED <<parent_pid, sig_pending, sig_blocked, sig_handler, sig_mask, image, rax>>

-----------------------------------------------------------------------------
(* Delivery. *)

Deliverable(p) == sig_pending[p] \ sig_blocked[p]

HandlerMask(p, s) == sig_blocked[p] \cup sig_mask[p][s] \cup {SIGBIT(s)}

\* A signal whose disposition is no longer a handler is dropped; otherwise the
\* interrupted state goes on the stack and the handler starts.
signal_on_syscall_return(p) ==
    LET s == Min(Deliverable(p))
    IN  /\ call[p].pc = "ret"
        /\ \/ /\ status[p] # "alive"
              /\ call' = [call EXCEPT ![p] = Off]
              /\ UNCHANGED <<sig_blocked, user>>
           \/ /\ status[p] = "alive" /\ Deliverable(p) = {}
              /\ call' = [call EXCEPT ![p] = User]
              /\ UNCHANGED <<sig_blocked, user>>
           \/ /\ status[p] = "alive" /\ Deliverable(p) # {}
              /\ call' = [call EXCEPT ![p] =
                             [pc |-> "clear", sig |-> s, reg |-> sig_pending[p]]]
              /\ IF CanCatch(p, s)
                 THEN /\ frames' = [frames EXCEPT ![p] = Append(@,
                             [sig |-> s, mask |-> sig_blocked[p], rax |-> rax[p],
                              at |-> at[p], rip |-> sig_handler[p][s]])]
                      /\ sig_blocked' = [sig_blocked EXCEPT ![p] = HandlerMask(p, s)]
                      /\ at' = [at EXCEPT ![p] = "handler"]
                      /\ ran' = [ran EXCEPT ![p] = (at[p] = "restore" \/ @)]
                      /\ UNCHANGED <<old, job, own>>
                 ELSE UNCHANGED <<sig_blocked, user>>
        /\ UNCHANGED <<status, parent_pid, sig_pending, sig_handler, sig_mask, image, rax>>

\* Mutant: everything pending is cleared.
WithoutAll(p) == {}
Without(p) == call[p].reg \ {SIGBIT(call[p].sig)}

\* The write of sig_pending &= ~bit.
Clear(p) ==
    /\ call[p].pc = "clear"
    /\ sig_pending' = [sig_pending EXCEPT ![p] = Without(p)]
    /\ call' = [call EXCEPT ![p] = User]
    /\ UNCHANGED <<status, parent_pid, sig_blocked, sig_handler, sig_mask, image, rax, user>>

\* Mutant: the mask stays as the handler leaves it.
MaskAfterKeep(p) == sig_blocked[p]
MaskAfter(p) == Last(frames[p]).mask

sys_sigreturn(p) ==
    /\ Calls(p) /\ at[p] = "handler"
    /\ sig_blocked' = [sig_blocked EXCEPT ![p] = MaskAfter(p)]
    /\ Result(p, Last(frames[p]).rax)
    /\ at' = [at EXCEPT ![p] = Last(frames[p]).at]
    /\ frames' = [frames EXCEPT ![p] = Front(@)]
    /\ Return(p)
    /\ UNCHANGED <<status, parent_pid, sig_pending, sig_handler, sig_mask, image,
                   old, job, own, ran>>

-----------------------------------------------------------------------------
(* Masks, dispositions and waiting. *)

\* SIGKILL and SIGSTOP are refused.  A signal that is pending already stays so
\* when its handler is removed.  A program that has a job keeps its handler.
sys_sigaction(p, d) ==
    /\ Calls(p) /\ at[p] = "top"
    /\ d.sig \in sig_pending[p] /\ d.handler # Catch => ~Within("disarm")
    /\ d.sig = CHLD /\ d.handler # Catch => job[p] = 0
    /\ sig_handler' = [sig_handler EXCEPT ![p][d.sig] =
                          IF d.handler = Catch THEN Address(image[p]) ELSE d.handler]
    /\ sig_mask' = [sig_mask EXCEPT ![p][d.sig] = d.mask]
    /\ Return(p) /\ Result(p, "ok")
    /\ UNCHANGED <<status, parent_pid, sig_pending, sig_blocked, image, user>>

\* The program's own choice of a mask: what a handler chooses ends with it.
Choose(p, m) ==
    /\ sig_blocked' = [sig_blocked EXCEPT ![p] = m]
    /\ own' = IF frames[p] = <<>> THEN [own EXCEPT ![p] = m] ELSE own

\* A handler only blocks more.
sys_sigprocmask(p, how, m) ==
    /\ Calls(p)
    /\ at[p] = "top" \/ (at[p] = "handler" /\ how = "block")
    /\ Choose(p, CASE how = "block" -> sig_blocked[p] \cup m
                    [] how = "unblock" -> sig_blocked[p] \ m
                    [] how = "set" -> m)
    /\ Return(p) /\ Result(p, "ok")
    /\ UNCHANGED <<status, parent_pid, sig_pending, sig_handler, sig_mask, image,
                   frames, at, old, job, ran>>

\* sigsuspend of the library in three calls: it asks for the mask, waits in the
\* kernel under the new mask, and sets the old one again.  The program calls it
\* with SIGCHLD blocked until its job, a child that it forked with a handler for
\* SIGCHLD installed, has ended.
WaitJob(p) ==
    /\ Calls(p) /\ at[p] = "top" /\ job[p] # 0
    /\ CHLD \in sig_blocked[p]
    /\ at' = [at EXCEPT ![p] = "save"]
    /\ UNCHANGED <<status, parent_pid, sig_pending, sig_blocked, sig_handler, sig_mask,
                   image, frames, old, rax, job, call, own, ran>>

Save(p) ==
    /\ Calls(p) /\ at[p] = "save"
    /\ old' = [old EXCEPT ![p] = sig_blocked[p]]
    /\ at' = [at EXCEPT ![p] = "suspend"]
    /\ Return(p) /\ Result(p, "ok")
    /\ UNCHANGED <<status, parent_pid, sig_pending, sig_blocked, sig_handler, sig_mask,
                   image, frames, job, own, ran>>

Suspended(p, m) ==
    /\ Choose(p, m)
    /\ at' = [at EXCEPT ![p] = "restore"]
    /\ ran' = [ran EXCEPT ![p] = FALSE]
    /\ call' = [call EXCEPT ![p] = [pc |-> "suspend"]]

\* Mutant: the mask is installed by a call of its own.
SuspendSplit(p, m) ==
    IF sig_blocked[p] = m THEN Suspended(p, m)
    ELSE Choose(p, m) /\ Return(p) /\ UNCHANGED <<at, ran>>
Suspend(p, m) == Suspended(p, m)

sys_sigsuspend(p, m) ==
    /\ Calls(p) /\ at[p] = "suspend" /\ CHLD \notin m
    /\ Suspend(p, m)
    /\ UNCHANGED <<status, parent_pid, sig_pending, sig_handler, sig_mask, image,
                   frames, old, rax, job>>

Wakes(p) == Deliverable(p) # {}

\* The loop of sys_sigsuspend yields until a signal is deliverable.
SuspendEnds(p) ==
    /\ call[p].pc = "suspend" /\ status[p] = "alive" /\ CpuFor(p)
    /\ Wakes(p)
    /\ Return(p) /\ Result(p, "eintr")
    /\ UNCHANGED <<status, parent_pid, sig_pending, sig_blocked, sig_handler, sig_mask,
                   image, user>>

Restore(p) ==
    /\ Calls(p) /\ at[p] = "restore"
    /\ Choose(p, old[p])
    /\ at' = [at EXCEPT ![p] = IF job[p] = 0 THEN "top" ELSE "save"]
    /\ old' = [old EXCEPT ![p] = {}] /\ ran' = [ran EXCEPT ![p] = FALSE]
    /\ Return(p) /\ Result(p, "ok")
    /\ UNCHANGED <<status, parent_pid, sig_pending, sig_handler, sig_mask, image,
                   frames, job>>

-----------------------------------------------------------------------------
(* Other calls of the program. *)

Free == {q \in Procs : status[q] = "free" /\ ~InKernel(q)}

\* fork: the child inherits mask and dispositions, and nothing is pending.
proc_fork(p) ==
    LET q == Min(Free)
    IN  /\ Calls(p) /\ at[p] = "top" /\ job[p] = 0 /\ Free # {}
        /\ status' = [status EXCEPT ![q] = "alive"]
        /\ parent_pid' = [parent_pid EXCEPT ![q] = p]
        /\ sig_pending' = [sig_pending EXCEPT ![q] = {}]
        /\ sig_blocked' = [sig_blocked EXCEPT ![q] = sig_blocked[p]]
        /\ sig_handler' = [sig_handler EXCEPT ![q] = sig_handler[p]]
        /\ sig_mask' = [sig_mask EXCEPT ![q] = sig_mask[p]]
        /\ image' = [image EXCEPT ![q] = image[p]]
        /\ frames' = [frames EXCEPT ![q] = <<>>]
        /\ at' = [at EXCEPT ![q] = "top"] /\ old' = [old EXCEPT ![q] = {}]
        /\ own' = [own EXCEPT ![q] = own[p]] /\ ran' = [ran EXCEPT ![q] = FALSE]
        /\ job' = [job EXCEPT ![p] = IF CanCatch(p, CHLD) THEN q ELSE 0, ![q] = 0]
        /\ call' = [call EXCEPT ![p] = [pc |-> "ret"], ![q] = User]
        /\ rax' = [rax EXCEPT ![p] = "ok", ![q] = "ok"]

\* exec keeps dispositions, mask and pending signals.
proc_exec(p) ==
    /\ Calls(p) /\ at[p] = "top" /\ image[p] < MaxImages
    /\ (\E s \in Signals : CanCatch(p, s)) => ~Within("exec_handler")
    /\ image' = [image EXCEPT ![p] = @ + 1]
    /\ UNCHANGED <<status, parent_pid, sig_pending, sig_blocked, sig_handler, sig_mask,
                   rax, user, call>>

\* A call that sleeps; a signal does not end it.
Sleep(p) ==
    /\ Calls(p) /\ at[p] = "top"
    /\ call' = [call EXCEPT ![p] = [pc |-> "asleep"]]
    /\ UNCHANGED <<status, parent_pid, sig_pending, sig_blocked, sig_handler, sig_mask,
                   image, rax, user>>
Wake(p) ==
    /\ call[p].pc = "asleep" /\ status[p] = "alive" /\ CpuFor(p)
    /\ Return(p) /\ Result(p, "ok")
    /\ UNCHANGED <<status, parent_pid, sig_pending, sig_blocked, sig_handler, sig_mask,
                   image, user>>

Zombies(p) == {q \in Procs : status[q] = "zombie" /\ parent_pid[q] = p}

\* The SIGCHLD handler calls waitpid with WNOHANG until no zombie is left.
proc_waitpid(p) ==
    LET q == Min(Zombies(p))
    IN  /\ Calls(p) /\ at[p] = "handler" /\ Last(frames[p]).sig = CHLD
        /\ Zombies(p) # {}
        /\ status' = [status EXCEPT ![q] = "free"]
        /\ job' = IF job[p] = q THEN [job EXCEPT ![p] = 0] ELSE job
        /\ Return(p) /\ Result(p, "ok")
        /\ UNCHANGED <<parent_pid, sig_pending, sig_blocked, sig_handler, sig_mask, image,
                       frames, at, old, own, ran>>

HandlerDone(p) ==
    /\ Last(frames[p]).sig = CHLD => Zombies(p) = {}
    /\ sys_sigreturn(p)

-----------------------------------------------------------------------------

\* What the kernel does ...
SigKernel(p) ==
    \/ Notify(p) \/ Post(p) \/ signal_on_syscall_return(p) \/ Clear(p)
    \/ SuspendEnds(p) \/ Wake(p)

\* ... what the library and the handlers do ...
Library(p) ==
    \/ Save(p) \/ Restore(p)
    \/ \E m \in Masks : sys_sigsuspend(p, m)
    \/ at[p] = "handler" /\ (proc_waitpid(p) \/ HandlerDone(p))

\* ... and what a program may choose to do.
Decide(p) ==
    \/ at[p] = "top" /\ \E q \in Procs, s \in Signals : sys_kill(p, q, s)
    \/ at[p] = "top" /\ sys_exit(p)
    \/ \E d \in Dispositions : sys_sigaction(p, d)
    \/ \E how \in {"block", "unblock", "set"}, m \in Masks : sys_sigprocmask(p, how, m)
    \/ WaitJob(p) \/ proc_fork(p) \/ proc_exec(p) \/ Sleep(p)

SigNext == \E p \in Procs : SigKernel(p) \/ Library(p) \/ Decide(p)

\* The scheduler gives every process that can run a CPU again and again, and
\* handlers come to an end.
SigFairness == \A p \in Procs : SF_sigVars(SigKernel(p)) /\ SF_sigVars(Library(p))

SigSpec == SigInit /\ [][SigNext]_sigVars /\ SigFairness

-----------------------------------------------------------------------------
(* Properties. *)

\* The types of the variables.
SigTypeOK ==
    /\ status \in [Procs -> {"free", "alive", "zombie"}]
    /\ parent_pid \in [Procs -> Procs \cup {0}]
    /\ sig_pending \in [Procs -> SUBSET Signals]
    /\ sig_blocked \in [Procs -> SUBSET Signals]
    /\ sig_handler \in [Procs -> [Signals -> 0..Address(MaxImages)]]
    /\ sig_mask \in [Procs -> [Signals -> SUBSET Signals]]
    /\ at \in [Procs -> {"top", "save", "suspend", "restore", "handler"}]
    /\ rax \in [Procs -> {"ok", "eintr"}]
    /\ job \in [Procs -> Procs \cup {0}]

\* Outside its handlers a program has the mask that it chose itself, whatever
\* nesting of handlers, with masks of their own, it went through
\* (sys_sigreturn_impl: sig_blocked = ctx->mask).
MaskRestored ==
    \A p \in Procs : frames[p] = <<>> => sig_blocked[p] = own[p]

\* No handler is interrupted by its own signal, so handlers nest at most as
\* deep as there are signals (sig_blocked |= sig_mask | XOS_SIGBIT).
NoReentry ==
    \A p \in Procs : \A i, j \in 1..Len(frames[p]) :
        frames[p][i].sig = frames[p][j].sig => i = j

\* sigsuspend returns to the library with EINTR, and only after a handler ran
\* (libc: "Handler already ran on syscall return; restore previous mask").
HandlerRan ==
    \A p \in Procs :
        at[p] = "restore" /\ call[p] = User /\ status[p] = "alive" => rax[p] = "eintr" /\ ran[p]

\* A pending signal of a process that lives stays pending until it is taken
\* for delivery itself, whatever is posted or delivered meanwhile.
PendingKept ==
    [][\A p \in Procs : \A s \in sig_pending[p] \ sig_pending'[p] :
          status[p] = "alive" => call[p].pc = "clear" /\ call[p].sig = s]_sigVars

\* A handler belongs to the program that is running.
HandlerCurrent ==
    \A p \in Procs :
        frames[p] # <<>> /\ status[p] = "alive" => Last(frames[p]).rip = Address(image[p])

\* A program that waits for its job in sigsuspend returns from there when the
\* job has ended ("zsh never returns to the prompt after an external command").
JobNoticed ==
    \A p \in Procs :
        (at[p] \in {"save", "suspend", "restore"} /\ job[p] # 0 /\ status[job[p]] = "zombie")
            ~> (status[p] # "alive" \/ at[p] = "top")

\* Handlers nest: each runs once at a time, ends with the mask that it
\* interrupted, and ends the sigsuspend that waited for it.
HandlersNest == SigTypeOK /\ MaskRestored /\ NoReentry /\ HandlerRan

=============================================================================
