----------------------------- MODULE MCBlocking -----------------------------
(***************************************************************************)
(* The parts in which a caller waits for another: spinlocks, futexes,      *)
(* signals, message ports, pipes and poll, for TLC.  They share no state:  *)
(* a behaviour is one of the part that it starts with, and the others stay *)
(* in a state in which they have nothing to do.  MCBlocking.cfg checks     *)
(* safety, MCBlockingLive.cfg liveness on smaller instances.               *)
(***************************************************************************)
EXTENDS TicketLock, MCFutex, Signals, Ports, Pipes, Poll

CONSTANTS k1, k2, k3

-----------------------------------------------------------------------------
\* SIGTERM, SIGCHLD and SIGUSR1.
MCProcs == 1..2
MCMasks == {{}, {CHLD}}
AllMasks == {{}, {CHLD}, {CHLD, 30}}
Act(s, h, m) == [sig |-> s, handler |-> h, mask |-> m]
ChildOnly == {Act(CHLD, Catch, {}), Act(CHLD, SIG_DFL, {})}
MCDispositions == {Act(CHLD, Catch, {}), Act(30, Catch, {CHLD}), Act(30, SIG_IGN, {})}

\* The calls of each poller.
MCForever == -1
Req(k, t) == [kind |-> k, timeout |-> t]
AnyCall == [p \in Pollers |-> {Req("poll", 1), Req("select", Forever)}
                              \cup {Req("select", 0) : q \in {1} \cap {p}}]
OwnCall == [p \in Pollers |-> IF p = 1 THEN {Req("poll", 1)}
                              ELSE {Req("select", Forever)}]
TimedSelect == [p \in Pollers |-> {Req("select", 1)}]

-----------------------------------------------------------------------------

VARIABLE part

waitVars == <<part, vars, futexVars, sigVars, portsVars, pipesVars, pollVars>>

\* No process that could receive a signal.
SignalsOff ==
    /\ status = [p \in Procs |-> "free"] /\ parent_pid = [p \in Procs |-> 0]
    /\ sig_pending = [p \in Procs |-> {}] /\ sig_blocked = [p \in Procs |-> {}]
    /\ sig_handler = [p \in Procs |-> [s \in Signals |-> SIG_DFL]]
    /\ sig_mask = [p \in Procs |-> [s \in Signals |-> {}]]
    /\ image = [p \in Procs |-> 0] /\ frames = [p \in Procs |-> <<>>]
    /\ at = [p \in Procs |-> "top"] /\ old = [p \in Procs |-> {}]
    /\ rax = [p \in Procs |-> "ok"] /\ job = [p \in Procs |-> 0]
    /\ call = [p \in Procs |-> Off]
    /\ own = [p \in Procs |-> {}] /\ ran = [p \in Procs |-> FALSE]

WaitInit ==
    /\ part \in {"lock", "futex", "signals", "ports", "pipes", "poll"}
    /\ Init /\ PortInit /\ PipeInit /\ PollInit
    /\ FutexInit /\ (part # "futex" => word = [s \in Spaces |-> [a \in Addrs |-> AnyVal]])
    /\ IF part = "signals" THEN SigInit ELSE SignalsOff

\* CPUs that halt, processes that are gone and pipes whose bounds are used up
\* may stop; futexes, ports and poll may not.
MayStop == part \in {"lock", "signals", "pipes"} /\ UNCHANGED waitVars

WaitNext ==
    \/ /\ part = "lock" /\ Next
       /\ UNCHANGED <<part, futexVars, sigVars, portsVars, pipesVars, pollVars>>
    \/ /\ part = "futex" /\ FutexNext
       /\ UNCHANGED <<part, vars, sigVars, portsVars, pipesVars, pollVars>>
    \/ /\ part = "signals" /\ SigNext
       /\ UNCHANGED <<part, vars, futexVars, portsVars, pipesVars, pollVars>>
    \/ /\ part = "ports" /\ PortNext
       /\ UNCHANGED <<part, vars, futexVars, sigVars, pipesVars, pollVars>>
    \/ /\ part = "pipes" /\ PipeNext
       /\ UNCHANGED <<part, vars, futexVars, sigVars, portsVars, pollVars>>
    \/ /\ part = "poll" /\ PollNext
       /\ UNCHANGED <<part, vars, futexVars, sigVars, portsVars, pipesVars>>
    \/ MayStop

WaitSpec == WaitInit /\ [][WaitNext]_waitVars

\* Nothing that fairness speaks of is enabled in the parts that stay idle.
WaitFairSpec ==
    /\ WaitSpec
    /\ Fairness /\ FutexFairness /\ SigFairness /\ PortFairness /\ PipeFairness /\ PollFairness
=============================================================================
