-------------------------------- MODULE Poll --------------------------------
(***************************************************************************)
(* poll and select (sys_poll_impl and sys_select_impl of                   *)
(* kernel/bsd/syscalls.c) over a pipe and a socket, by processes on        *)
(* different processors.  A call scans its descriptors one by one, then    *)
(* blocks on a channel of its own, at most for the backstop.  A socket     *)
(* remembers the channel of a scan that found it not ready, by way of the  *)
(* one variable g_select_chan; a pipe wakes nobody.                        *)
(***************************************************************************)
EXTENDS Integers, Sequences

CONSTANTS
    Pollers,
    CallsOf,        \* calls of each: kind, and timeout in ticks (0: do not wait)
    Forever,        \* the timeout of a call without one
    PollBackstop    \* ticks that a blocked call sleeps at most

CallSet == UNION {CallsOf[p] : p \in Pollers}

ASSUME PollAssumption ==
    /\ CallSet \subseteq [kind : {"poll", "select"}, timeout : Nat \cup {Forever}]
    /\ Forever \in Int \ Nat /\ PollBackstop \in Nat

Fds == <<"pipe", "sock">>
NoChan == 0
Timeouts == {c.timeout : c \in CallSet} \cup {0}
MaxWait == CHOOSE n \in Timeouts : \A m \in Timeouts : m <= n

VARIABLES
    data,           \* descriptors with something to read
    eof,            \* the pipe has no writer left
    g_select_chan,
    si_chan,        \* channel that the socket has recorded
    where,          \* where each caller is
    pcall,          \* kind and timeout of its call
    waited,         \* ticks since a call with a timeout began
    nap,            \* ticks until the backstop wakes it
    scan,           \* descriptors left in this round
    found,          \* descriptors found ready in this round
    steady,         \* descriptors that have had data since a call with a timeout began
    missed          \* the last call returned 0 although there was one, or without timeout

pollVars == <<data, eof, g_select_chan, si_chan, where, pcall, waited, nap, scan, found,
              steady, missed>>
world == <<data, eof>>
chans == <<g_select_chan, si_chan>>

NoCall == [kind |-> "poll", timeout |-> 0]

PollInit ==
    /\ data = {} /\ eof = FALSE /\ g_select_chan = NoChan /\ si_chan = NoChan
    /\ where = [p \in Pollers |-> "user"] /\ pcall = [p \in Pollers |-> NoCall]
    /\ waited = [p \in Pollers |-> 0] /\ nap = [p \in Pollers |-> 0]
    /\ scan = [p \in Pollers |-> <<>>]
    /\ found = [p \in Pollers |-> {}] /\ steady = [p \in Pollers |-> {}]
    /\ missed = [p \in Pollers |-> FALSE]

-----------------------------------------------------------------------------
(* The calls. *)

Call(p, c) ==
    /\ where[p] = "user"
    /\ where' = [where EXCEPT ![p] = "round"] /\ pcall' = [pcall EXCEPT ![p] = c]
    /\ waited' = [waited EXCEPT ![p] = 0]
    /\ steady' = [steady EXCEPT ![p] = IF c.timeout = Forever THEN {} ELSE data]
    /\ missed' = [missed EXCEPT ![p] = FALSE]
    /\ UNCHANGED <<world, chans, nap, scan, found>>

\* Mutant: a blocked call waits for a wake-up on its channel alone.
AwakeByChannel(p) == where[p] = "round"
\* The call has been woken, or its nap is over.
Awake(p) == where[p] = "round" \/ (where[p] = "blocked" /\ nap[p] = 0)

\* A round sets the channel and looks at all descriptors afresh.
Round(p) ==
    /\ Awake(p)
    /\ where' = [where EXCEPT ![p] = "scan"] /\ nap' = [nap EXCEPT ![p] = 0]
    /\ scan' = [scan EXCEPT ![p] = Fds] /\ found' = [found EXCEPT ![p] = {}]
    /\ g_select_chan' = p
    /\ UNCHANGED <<world, si_chan, pcall, waited, steady, missed>>

\* Mutant: a ready descriptor is forgotten when a later one is not ready.
MarkLast(p, fd) == IF fd \in data THEN {fd} ELSE {}
\* What is known to be ready after a look at fd: pipe_readable does not count
\* the end of the file.
Mark(p, fd) == found[p] \cup (IF fd \in data THEN {fd} ELSE {})

\* xos_poll_fd of the next descriptor.  A socket that is not ready records the
\* channel that is set at that time.
xos_poll_fd(p) ==
    LET fd == Head(scan[p])
    IN  /\ where[p] = "scan" /\ scan[p] # <<>>
        /\ scan' = [scan EXCEPT ![p] = Tail(@)]
        /\ found' = [found EXCEPT ![p] = Mark(p, fd)]
        /\ si_chan' = IF fd = "sock" /\ fd \notin data /\ g_select_chan # NoChan
                      THEN g_select_chan ELSE si_chan
        /\ UNCHANGED <<world, g_select_chan, where, pcall, waited, nap, steady, missed>>

\* A call that may not wait any longer.  select computes its deadline anew in
\* every round, so that only the timeout 0 ends it.
Expired(p) ==
    \/ pcall[p].timeout = 0
    \/ pcall[p].kind = "poll" /\ pcall[p].timeout # Forever /\ waited[p] >= pcall[p].timeout

\* After the scan the call returns or goes on to block.
EndRound(p) ==
    /\ where[p] = "scan" /\ scan[p] = <<>>
    /\ g_select_chan' = NoChan
    /\ IF found[p] # {} \/ Expired(p)
       THEN /\ where' = [where EXCEPT ![p] = "user"]
            /\ missed' = [missed EXCEPT ![p] =
                  found[p] = {} /\ (pcall[p].timeout = Forever \/ steady[p] # {})]
            /\ steady' = [steady EXCEPT ![p] = {}] /\ found' = [found EXCEPT ![p] = {}]
            /\ waited' = [waited EXCEPT ![p] = 0] /\ pcall' = [pcall EXCEPT ![p] = NoCall]
       ELSE /\ where' = [where EXCEPT ![p] = "block"]
            /\ UNCHANGED <<missed, steady, found, waited, pcall>>
    /\ UNCHANGED <<world, si_chan, nap, scan>>

BlockTicks == PollBackstop

\* sched_block_on.
Block(p) ==
    /\ where[p] = "block"
    /\ where' = [where EXCEPT ![p] = "blocked"] /\ nap' = [nap EXCEPT ![p] = BlockTicks]
    /\ UNCHANGED <<world, chans, pcall, waited, scan, found, steady, missed>>

-----------------------------------------------------------------------------
(* The descriptors. *)

\* Data arrives; selwakeup wakes who is blocked on the recorded channel.
DataArrives(fd) ==
    /\ fd \notin data /\ (fd = "pipe" => ~eof)
    /\ data' = data \cup {fd}
    /\ IF fd = "sock"
       THEN /\ si_chan' = NoChan
            /\ where' = [p \in Pollers |-> IF si_chan = p /\ where[p] = "blocked"
                                           THEN "round" ELSE where[p]]
       ELSE UNCHANGED <<si_chan, where>>
    /\ UNCHANGED <<eof, g_select_chan, pcall, waited, nap, scan, found, steady, missed>>

\* Somebody reads the data.
DataTaken(fd) ==
    /\ fd \in data /\ data' = data \ {fd}
    /\ steady' = [p \in Pollers |-> steady[p] \ {fd}]
    /\ UNCHANGED <<eof, chans, where, pcall, waited, nap, scan, found, missed>>

PipeCloses ==
    /\ ~eof /\ eof' = TRUE
    /\ UNCHANGED <<data, chans, where, pcall, waited, nap, scan, found, steady, missed>>

\* Calls for which time matters: not Forever, and up to the largest timeout.
Timed == {p \in Pollers :
             where[p] # "user" /\ pcall[p].timeout # Forever /\ waited[p] < MaxWait}

PollTick ==
    /\ Timed # {} \/ \E p \in Pollers : nap[p] > 0
    /\ waited' = [p \in Pollers |-> IF p \in Timed THEN waited[p] + 1 ELSE waited[p]]
    /\ nap' = [p \in Pollers |-> IF nap[p] = 0 THEN 0 ELSE nap[p] - 1]
    /\ UNCHANGED <<world, chans, where, pcall, scan, found, steady, missed>>

-----------------------------------------------------------------------------

PollStep(p) == Round(p) \/ xos_poll_fd(p) \/ EndRound(p) \/ Block(p)

PollNext ==
    \/ \E p \in Pollers : PollStep(p) \/ \E c \in CallsOf[p] : Call(p, c)
    \/ \E fd \in {"pipe", "sock"} : DataArrives(fd) \/ DataTaken(fd)
    \/ PipeCloses \/ PollTick

\* The scheduler runs whoever is ready, and the timer ticks.
PollFairness == WF_pollVars(PollTick) /\ \A p \in Pollers : WF_pollVars(PollStep(p))

PollSpec == PollInit /\ [][PollNext]_pollVars /\ PollFairness

-----------------------------------------------------------------------------
(* Properties. *)

\* The types of the variables.
PollTypeOK ==
    /\ data \subseteq {"pipe", "sock"} /\ {g_select_chan, si_chan} \subseteq Pollers \cup {NoChan}
    /\ \A p \in Pollers :
          /\ pcall[p] \in CallSet \cup {NoCall} /\ waited[p] \in 0..MaxWait /\ nap[p] \in 0..PollBackstop
          /\ found[p] \subseteq {"pipe", "sock"} /\ steady[p] \subseteq {"pipe", "sock"}

\* A call that returns 0 has a timeout and has overlooked nothing: no descriptor
\* has had data all the time since it began, whatever other calls and wake-ups happened.
NothingMissed == \A p \in Pollers : ~missed[p]

\* A call with a timeout returns.
TimedCallReturns ==
    \A p \in Pollers :
        (where[p] # "user" /\ pcall[p].timeout # Forever) ~> (where[p] = "user")

\* A call ends while a descriptor is ready and nobody else reads it, even if its
\* wake-up went to the channel of another call or came before it blocked.
ReadyNoticed ==
    \A p \in Pollers :
        \A fd \in {"pipe", "sock"} :
            (where[p] # "user" /\ fd \in data) ~> (where[p] = "user" \/ fd \notin data)

\* A call on a pipe that nobody can write to any more returns.
EofNoticed == \A p \in Pollers : (where[p] # "user" /\ eof) ~> (where[p] = "user")

\* No call returns 0 with something ready, and its timers stay in range.
PollsExact == PollTypeOK /\ NothingMissed

\* A call returns when it is due or when something is ready.
PollReturns == TimedCallReturns /\ ReadyNoticed

=============================================================================
