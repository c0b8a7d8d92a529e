------------------------------- MODULE Ports -------------------------------
(***************************************************************************)
(* Message ports and the name service of kernel/ipc/ipc.c.  One action is  *)
(* one critical section of ipc_lock; sched_block_on marks the caller       *)
(* blocked before it releases that lock, and sched_wake_chan runs after    *)
(* the lock has been released, so another CPU may act in between.  The     *)
(* channels behave as module SleepQueue says.  Senders never wait: nothing *)
(* in the kernel ever raises send_waiters.                                 *)
(***************************************************************************)
EXTENDS Naturals, Sequences, FiniteSets

CONSTANTS
    Clients,        \* processes
    NPorts,         \* IPC_MAX_PORTS - 1: handles 1..NPorts
    Depth,          \* IPC_PORT_DEPTH
    Msgs,
    Ids,            \* service ids of the name service
    Nothing,        \* no message
    MaxOpens        \* bound: how often a handle is created

Handles == 1..NPorts
PORT_NULL == 0

ASSUME PortsAssumption ==
    /\ NPorts \in Nat \ {0} /\ Depth \in Nat \ {0} /\ MaxOpens \in Nat
    /\ Nothing \notin Msgs /\ Nothing \notin Seq(Msgs)
    /\ IsFiniteSet(Clients)

VARIABLES
    used, head, tail, count, buf, recv_waiters,     \* port_t
    opened,     \* how often each handle has been created
    ns_table,   \* the handle registered for a service
    handle,     \* the port a client works with
    era,        \* the creation of that port that a receiver waits on
    port_pc,        \* where a client is in its system call
    chan,       \* the port whose receivers a sender or closer will wake
    out         \* the last message a client received

portVars == <<used, head, tail, count, buf, recv_waiters, opened>>
portsVars == <<portVars, ns_table, handle, era, port_pc, chan, out>>

Slot == 0 .. Depth - 1
PortPCs == {"user", "recv", "asleep", "woken", "wake"}

PortInit ==
    /\ used = [h \in Handles |-> FALSE]
    /\ head = [h \in Handles |-> 0]
    /\ tail = [h \in Handles |-> 0]
    /\ count = [h \in Handles |-> 0]
    /\ buf = [h \in Handles |-> [i \in Slot |-> Nothing]]
    /\ recv_waiters = [h \in Handles |-> 0]
    /\ opened = [h \in Handles |-> 0]
    /\ ns_table = [i \in Ids |-> PORT_NULL]
    /\ handle = [p \in Clients |-> PORT_NULL]
    /\ era = [p \in Clients |-> 0]
    /\ port_pc = [p \in Clients |-> "user"]
    /\ chan = [p \in Clients |-> PORT_NULL]
    /\ out = [p \in Clients |-> Nothing]

port_get(h) == h \in Handles /\ used[h]

-----------------------------------------------------------------------------

\* The lowest free port.  recv_waiters is not reset: port_close cleared it.
port_create(p) ==
    \E h \in Handles :
        /\ port_pc[p] = "user"
        /\ ~used[h] /\ \A g \in 1..(h - 1) : used[g]
        /\ opened[h] < MaxOpens
        /\ used' = [used EXCEPT ![h] = TRUE]
        /\ head' = [head EXCEPT ![h] = 0]
        /\ tail' = [tail EXCEPT ![h] = 0]
        /\ count' = [count EXCEPT ![h] = 0]
        /\ opened' = [opened EXCEPT ![h] = @ + 1]
        /\ handle' = [handle EXCEPT ![p] = h]
        /\ UNCHANGED <<buf, recv_waiters, ns_table, era, port_pc, chan, out>>

NotFull(h) == count[h] < Depth

\* Mutant: one waiter is overlooked.
MustWakeOffByOne(h) == recv_waiters[h] > 1
MustWake(h) == recv_waiters[h] > 0

\* A send to a port that is closed or full fails without effect.
port_send(p, m) ==
    LET h == handle[p]
    IN  /\ port_pc[p] = "user"
        /\ port_get(h) /\ NotFull(h)
        /\ buf' = [buf EXCEPT ![h][tail[h]] = m]
        /\ tail' = [tail EXCEPT ![h] = (@ + 1) % Depth]
        /\ count' = [count EXCEPT ![h] = @ + 1]
        /\ port_pc' = [port_pc EXCEPT ![p] = IF MustWake(h) THEN "wake" ELSE "user"]
        /\ chan' = [chan EXCEPT ![p] = IF MustWake(h) THEN h ELSE PORT_NULL]
        /\ UNCHANGED <<used, head, recv_waiters, opened, ns_table, handle, era, out>>

\* sched_wake_chan on the port's receive queue.
sched_wake_chan(p) ==
    /\ port_pc[p] = "wake"
    /\ port_pc' = [r \in Clients |->
                 IF r = p THEN "user"
                 ELSE IF port_pc[r] = "asleep" /\ handle[r] = chan[p] THEN "woken"
                 ELSE port_pc[r]]
    /\ chan' = [chan EXCEPT ![p] = PORT_NULL]
    /\ UNCHANGED <<portVars, ns_table, handle, era, out>>

\* Mutant: the head stays.
TakeTwice(p, h) ==
    /\ out' = [out EXCEPT ![p] = buf[h][head[h]]]
    /\ count' = [count EXCEPT ![h] = @ - 1]
    /\ UNCHANGED head

Take(p, h) ==
    /\ out' = [out EXCEPT ![p] = buf[h][head[h]]]
    /\ head' = [head EXCEPT ![h] = (@ + 1) % Depth]
    /\ count' = [count EXCEPT ![h] = @ - 1]

\* port_recv of a port with a message, by a caller that came now or has waited.
RecvMessage(p) ==
    /\ port_pc[p] \in {"user", "recv"}
    /\ port_get(handle[p]) /\ count[handle[p]] > 0
    /\ Take(p, handle[p])
    /\ port_pc' = [port_pc EXCEPT ![p] = "user"]
    /\ era' = [era EXCEPT ![p] = 0]
    /\ UNCHANGED <<used, tail, buf, recv_waiters, opened, ns_table, handle, chan>>

\* A blocking port_recv of an empty port.
RecvBlock(p) ==
    LET h == handle[p]
    IN  /\ port_pc[p] \in {"user", "recv"}
        /\ port_get(h) /\ count[h] = 0
        /\ recv_waiters' = [recv_waiters EXCEPT ![h] = @ + 1]
        /\ era' = IF port_pc[p] = "user" THEN [era EXCEPT ![p] = opened[h]] ELSE era
        /\ port_pc' = [port_pc EXCEPT ![p] = "asleep"]
        /\ UNCHANGED <<used, head, tail, count, buf, opened, ns_table, handle,
                       chan, out>>

\* The port was closed meanwhile.
RecvFails(p) ==
    /\ port_pc[p] = "recv"
    /\ ~port_get(handle[p])
    /\ port_pc' = [port_pc EXCEPT ![p] = "user"]
    /\ era' = [era EXCEPT ![p] = 0]
    /\ UNCHANGED <<portVars, ns_table, handle, chan, out>>

\* The backstop of sched_block_on.
PortBackstop(p) ==
    /\ port_pc[p] = "asleep"
    /\ port_pc' = [port_pc EXCEPT ![p] = "woken"]
    /\ UNCHANGED <<portVars, ns_table, handle, era, chan, out>>

\* After sched_block_on the receiver takes itself off the count and looks again.
RecvAgain(p) ==
    LET h == handle[p]
    IN  /\ port_pc[p] = "woken"
        /\ port_pc' = [port_pc EXCEPT ![p] = "recv"]
        /\ recv_waiters' = IF port_get(h) /\ recv_waiters[h] > 0
                           THEN [recv_waiters EXCEPT ![h] = @ - 1]
                           ELSE recv_waiters
        /\ UNCHANGED <<used, head, tail, count, buf, opened, ns_table, handle,
                       era, chan, out>>

\* The whole port_t is cleared; the wake-up follows outside the lock.
port_close(p) ==
    LET h == handle[p]
    IN  /\ port_pc[p] = "user"
        /\ port_get(h)
        /\ used' = [used EXCEPT ![h] = FALSE]
        /\ head' = [head EXCEPT ![h] = 0]
        /\ tail' = [tail EXCEPT ![h] = 0]
        /\ count' = [count EXCEPT ![h] = 0]
        /\ buf' = [buf EXCEPT ![h] = [i \in Slot |-> Nothing]]
        /\ recv_waiters' = [recv_waiters EXCEPT ![h] = 0]
        /\ port_pc' = [port_pc EXCEPT ![p] = IF MustWake(h) THEN "wake" ELSE "user"]
        /\ chan' = [chan EXCEPT ![p] = IF MustWake(h) THEN h ELSE PORT_NULL]
        /\ UNCHANGED <<opened, ns_table, handle, era, out>>

ns_register(p, id) ==
    /\ port_pc[p] = "user" /\ handle[p] # PORT_NULL
    /\ ns_table' = [ns_table EXCEPT ![id] = handle[p]]
    /\ UNCHANGED <<portVars, handle, era, port_pc, chan, out>>

ns_lookup(p, id) ==
    /\ port_pc[p] = "user" /\ ns_table[id] # PORT_NULL
    /\ handle' = [handle EXCEPT ![p] = ns_table[id]]
    /\ UNCHANGED <<portVars, ns_table, era, port_pc, chan, out>>

PortKernel(p) == sched_wake_chan(p) \/ RecvAgain(p) \/ RecvFails(p)

PortNext ==
    \E p \in Clients :
        \/ port_create(p)
        \/ \E m \in Msgs : port_send(p, m)
        \/ sched_wake_chan(p)
        \/ RecvMessage(p) \/ RecvBlock(p) \/ RecvFails(p)
        \/ PortBackstop(p) \/ RecvAgain(p)
        \/ port_close(p)
        \/ \E id \in Ids : ns_register(p, id) \/ ns_lookup(p, id)

PortSpec == PortInit /\ [][PortNext]_portsVars

\* Kernel code goes on.  The backstop is not assumed to fire.
PortFairness ==
    \A p \in Clients :
        /\ WF_portsVars(PortKernel(p))
        /\ WF_portsVars(port_pc[p] = "recv" /\ (RecvMessage(p) \/ RecvBlock(p)))

PortFairSpec == PortSpec /\ PortFairness

-----------------------------------------------------------------------------
(* Properties. *)

\* The types of the variables, and the ring indices within the ring.
PortTypeOK ==
    /\ used \in [Handles -> BOOLEAN]
    /\ head \in [Handles -> Slot] /\ tail \in [Handles -> Slot]
    /\ count \in [Handles -> 0..Depth]
    /\ buf \in [Handles -> [Slot -> Msgs \cup {Nothing}]]
    /\ recv_waiters \in [Handles -> Nat]
    /\ opened \in [Handles -> 0..MaxOpens]
    /\ ns_table \in [Ids -> Handles \cup {PORT_NULL}]
    /\ handle \in [Clients -> Handles \cup {PORT_NULL}]
    /\ era \in [Clients -> 0..MaxOpens]
    /\ port_pc \in [Clients -> PortPCs]
    /\ chan \in [Clients -> Handles \cup {PORT_NULL}]
    /\ out \in [Clients -> Msgs \cup {Nothing}]

\* No wake-up is lost: when a receiver sleeps on a port that holds a message,
\* a sender is about to wake it ("which is what makes the wakeup impossible to
\* lose").
WakeupNotLost ==
    \A p \in Clients :
        port_pc[p] = "asleep" /\ count[handle[p]] > 0 =>
            \E r \in Clients : port_pc[r] = "wake" /\ chan[r] = handle[p]

\* A receiver that has waited on a port never works on a later port with the
\* same handle (port_close releases the waiters before "the memory is reused,
\* or they would sleep until their backstop expires and then touch a recycled
\* port").
RecycledPortUntouched ==
    [][\A p \in Clients :
          /\ port_pc[p] \in {"woken", "recv"} /\ port_pc'[p] # port_pc[p]
          /\ port_get(handle[p])
          => opened[handle[p]] = era[p]]_portsVars

\* The messages in a port, oldest first.
Queue(h) == [i \in 1..count[h] |-> buf[h][(head[h] + i - 1) % Depth]]

\* The ring buffers, the counts and the receive loop implement the queues of
\* MsgQueue: no message is lost, duplicated, overwritten or out of order.
Abstract == INSTANCE MsgQueue WITH
    Ports <- Handles,
    Closed <- Nothing,
    queue <- [h \in Handles |-> IF used[h] THEN Queue(h) ELSE Nothing],
    got <- out
ImplementsMsgQueue == Abstract!Spec

\* A receiver that waits on a port with a message gets one, unless others
\* empty the port or close it; the backstop is not needed for that.
ReceiverServed ==
    \A p \in Clients :
        port_pc[p] \in {"recv", "asleep", "woken"} /\ port_get(handle[p]) /\ count[handle[p]] > 0
            ~> port_pc[p] = "user" \/ count[handle[p]] = 0

\* The ports are well-formed, and nobody sleeps on a message.
PortsExact == PortTypeOK /\ WakeupNotLost

=============================================================================
