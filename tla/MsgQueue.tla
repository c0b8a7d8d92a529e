------------------------------ MODULE MsgQueue ------------------------------
(***************************************************************************)
(* What a message port promises: a bounded first-in first-out queue.  A    *)
(* message that was accepted is received once, by one receiver, in order,  *)
(* unless the port is closed first.                                        *)
(***************************************************************************)
EXTENDS Naturals, Sequences

CONSTANTS Ports, Clients, Msgs, Depth, Closed, Nothing

VARIABLES
    queue,      \* the messages in a port, or Closed
    got         \* what each client received last

qvars == <<queue, got>>

Init ==
    /\ queue = [h \in Ports |-> Closed]
    /\ got = [p \in Clients |-> Nothing]

Open(h) ==
    /\ queue[h] = Closed
    /\ queue' = [queue EXCEPT ![h] = <<>>]
    /\ UNCHANGED got

Send(h, m) ==
    /\ queue[h] # Closed
    /\ Len(queue[h]) < Depth
    /\ queue' = [queue EXCEPT ![h] = Append(@, m)]
    /\ UNCHANGED got

Receive(h, p) ==
    /\ queue[h] \notin {Closed, <<>>}
    /\ got' = [got EXCEPT ![p] = Head(queue[h])]
    /\ queue' = [queue EXCEPT ![h] = Tail(@)]

Close(h) ==
    /\ queue[h] # Closed
    /\ queue' = [queue EXCEPT ![h] = Closed]
    /\ UNCHANGED got

Next ==
    \E h \in Ports :
        \/ Open(h) \/ Close(h)
        \/ \E m \in Msgs : Send(h, m)
        \/ \E p \in Clients : Receive(h, p)

Spec == Init /\ [][Next]_qvars
=============================================================================
