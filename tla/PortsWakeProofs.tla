-------------------------- MODULE PortsWakeProofs --------------------------
(***************************************************************************)
(* No wake-up of a receiver of module Ports is lost as long as no handle   *)
(* is created a second time, for every number of clients and ports and     *)
(* every depth of the ring.                                                *)
(***************************************************************************)
EXTENDS Ports, FiniteSetTheorems, TLAPS

\* The types, and a closed port is empty and has no waiters.
TypeInv ==
    /\ PortTypeOK
    /\ \A h \in Handles : ~used[h] => count[h] = 0 /\ recv_waiters[h] = 0

\* All ports are closed at the start.
LEMMA TypeInitInv == PortInit => TypeInv
<1> SUFFICES ASSUME PortInit PROVE TypeInv
  OBVIOUS
<1>1. 0 \in Slot /\ 0 \in 0..Depth /\ 0 \in 0..MaxOpens
  BY PortsAssumption DEF Slot
<1> QED
  BY <1>1 DEF PortInit, TypeInv, PortTypeOK, PortPCs

\* The ring indices stay in the ring.
LEMMA NextInRing == ASSUME NEW s \in Slot PROVE (s + 1) % Depth \in Slot
  BY PortsAssumption DEF Slot

\* Sends and receives keep the types.
LEMMA TransferTyped ==
    ASSUME TypeInv, NEW p \in Clients,
           RecvMessage(p) \/ \E m \in Msgs : port_send(p, m)
    PROVE  TypeInv'
<1>1. CASE RecvMessage(p)
  <2>1. PICK h \in Handles : h = handle[p] /\ used[h]
    BY <1>1 DEF RecvMessage, port_get
  <2>2. /\ head' \in [Handles -> Slot] /\ count' \in [Handles -> 0..Depth]
        /\ \A g \in Handles \ {h} : count'[g] = count[g]
    BY <1>1, <2>1, NextInRing, PortsAssumption DEF RecvMessage, Take, TypeInv, PortTypeOK
  <2>3. out' \in [Clients -> Msgs \cup {Nothing}]
    BY <1>1, <2>1 DEF RecvMessage, Take, TypeInv, PortTypeOK
  <2>4. port_pc' \in [Clients -> PortPCs] /\ era' \in [Clients -> 0..MaxOpens]
    BY <1>1, PortsAssumption DEF RecvMessage, TypeInv, PortTypeOK, PortPCs
  <2>5. UNCHANGED <<used, tail, buf, recv_waiters, opened, ns_table, handle, chan>>
    BY <1>1 DEF RecvMessage
  <2> QED BY ZenonT(60), <2>1, <2>2, <2>3, <2>4, <2>5 DEF TypeInv, PortTypeOK
<1>2. ASSUME NEW m \in Msgs, port_send(p, m) PROVE TypeInv'
  <2>1. PICK h \in Handles : h = handle[p] /\ used[h] /\ count[h] < Depth
    BY <1>2 DEF port_send, port_get, NotFull
  <2>2. /\ tail' \in [Handles -> Slot] /\ count' \in [Handles -> 0..Depth]
        /\ \A g \in Handles \ {h} : count'[g] = count[g]
    BY <1>2, <2>1, NextInRing, PortsAssumption DEF port_send, TypeInv, PortTypeOK
  <2>3. buf' \in [Handles -> [Slot -> Msgs \cup {Nothing}]]
    BY <1>2, <2>1 DEF port_send, TypeInv, PortTypeOK
  <2>4. port_pc' \in [Clients -> PortPCs] /\ chan' \in [Clients -> Handles \cup {PORT_NULL}]
    BY <1>2, <2>1 DEF port_send, TypeInv, PortTypeOK, PortPCs
  <2>5. UNCHANGED <<used, head, recv_waiters, opened, ns_table, handle, era, out>>
    BY <1>2 DEF port_send
  <2> QED BY <2>1, <2>2, <2>3, <2>4, <2>5 DEF TypeInv, PortTypeOK
<1> QED
  BY <1>1, <1>2

\* So do creating and closing a port.
LEMMA OpenTyped ==
    ASSUME TypeInv, NEW p \in Clients, port_create(p) \/ port_close(p)
    PROVE  TypeInv'
<1>0. 0 \in Slot /\ 0 \in 0..Depth /\ [i \in Slot |-> Nothing] \in [Slot -> Msgs \cup {Nothing}]
  BY PortsAssumption DEF Slot
<1>1. CASE port_create(p)
  <2>1. PICK h \in Handles :
            /\ used' = [used EXCEPT ![h] = TRUE] /\ count' = [count EXCEPT ![h] = 0]
            /\ head' = [head EXCEPT ![h] = 0] /\ tail' = [tail EXCEPT ![h] = 0]
            /\ opened' = [opened EXCEPT ![h] = @ + 1] /\ handle' = [handle EXCEPT ![p] = h]
            /\ opened[h] < MaxOpens
            /\ UNCHANGED <<buf, recv_waiters, ns_table, era, port_pc, chan, out>>
    BY ZenonT(60), <1>1 DEF port_create
  <2>2. opened' \in [Handles -> 0..MaxOpens]
    BY <2>1, PortsAssumption DEF TypeInv, PortTypeOK
  <2>3. PortTypeOK'
    BY <1>0, <2>1, <2>2 DEF TypeInv, PortTypeOK
  <2> QED BY <2>1, <2>3 DEF TypeInv, PortTypeOK
<1>2. CASE port_close(p)
  <2>1. PICK h \in Handles : h = handle[p]
    BY <1>2 DEF port_close, port_get
  <2>2. /\ used' \in [Handles -> BOOLEAN] /\ buf' \in [Handles -> [Slot -> Msgs \cup {Nothing}]]
        /\ \A g \in Handles \ {h} : used'[g] = used[g]
    BY <1>0, <1>2, <2>1 DEF port_close, TypeInv, PortTypeOK
  <2>3. /\ head' \in [Handles -> Slot] /\ tail' \in [Handles -> Slot]
        /\ count' = [count EXCEPT ![h] = 0] /\ recv_waiters' = [recv_waiters EXCEPT ![h] = 0]
    BY <1>0, <1>2, <2>1 DEF port_close, TypeInv, PortTypeOK
  <2>4. port_pc' \in [Clients -> PortPCs] /\ chan' \in [Clients -> Handles \cup {PORT_NULL}]
    BY <1>2, <2>1 DEF port_close, TypeInv, PortTypeOK, PortPCs
  <2>5. UNCHANGED <<opened, ns_table, handle, era, out>>
    BY <1>2 DEF port_close
  <2> QED BY <1>0, <2>1, <2>2, <2>3, <2>4, <2>5 DEF TypeInv, PortTypeOK
<1> QED
  BY <1>1, <1>2

\* And so do waiting, waking, giving up and the name service.
LEMMA WaitTyped ==
    ASSUME TypeInv, NEW p \in Clients,
           \/ sched_wake_chan(p) \/ RecvBlock(p) \/ RecvFails(p) \/ PortBackstop(p) \/ RecvAgain(p)
           \/ \E id \in Ids : ns_register(p, id) \/ ns_lookup(p, id)
    PROVE  TypeInv'
<1>1. CASE sched_wake_chan(p)
  BY <1>1 DEF sched_wake_chan, portVars, TypeInv, PortTypeOK, PortPCs
<1>2. CASE RecvBlock(p)
  <2>1. recv_waiters' \in [Handles -> Nat] /\ era' \in [Clients -> 0..MaxOpens]
    BY <1>2 DEF RecvBlock, port_get, TypeInv, PortTypeOK
  <2>2. port_pc' \in [Clients -> PortPCs]
    BY <1>2 DEF RecvBlock, TypeInv, PortTypeOK, PortPCs
  <2>3. \A h \in Handles : ~used[h] => recv_waiters'[h] = recv_waiters[h]
    BY <1>2 DEF RecvBlock, port_get, TypeInv, PortTypeOK
  <2> QED BY <1>2, <2>1, <2>2, <2>3 DEF RecvBlock, TypeInv, PortTypeOK
<1>3. CASE RecvFails(p)
  BY <1>3, PortsAssumption DEF RecvFails, portVars, TypeInv, PortTypeOK, PortPCs
<1>4. CASE PortBackstop(p)
  BY <1>4 DEF PortBackstop, portVars, TypeInv, PortTypeOK, PortPCs
<1>5. CASE RecvAgain(p)
  <2>1. recv_waiters' \in [Handles -> Nat]
        /\ \A h \in Handles : ~used[h] => recv_waiters'[h] = recv_waiters[h]
    BY <1>5 DEF RecvAgain, port_get, TypeInv, PortTypeOK
  <2> QED BY <1>5, <2>1 DEF RecvAgain, TypeInv, PortTypeOK, PortPCs
<1>6. ASSUME NEW id \in Ids, ns_register(p, id) PROVE TypeInv'
  BY <1>6 DEF ns_register, portVars, TypeInv, PortTypeOK
<1>7. ASSUME NEW id \in Ids, ns_lookup(p, id) PROVE TypeInv'
  BY <1>7 DEF ns_lookup, portVars, TypeInv, PortTypeOK
<1> QED
  BY <1>1, <1>2, <1>3, <1>4, <1>5, <1>6, <1>7

\* Every step keeps the types.
LEMMA PortStepTyped == TypeInv /\ [PortNext]_portsVars => TypeInv'
<1> SUFFICES ASSUME TypeInv, [PortNext]_portsVars PROVE TypeInv'
  OBVIOUS
<1>1. CASE UNCHANGED portsVars
  BY <1>1 DEF portsVars, portVars, TypeInv, PortTypeOK
<1>2. CASE PortNext
  BY <1>2, TransferTyped, OpenTyped, WaitTyped DEF PortNext
<1> QED
  BY <1>1, <1>2

-----------------------------------------------------------------------------
\* The receivers that recv_waiters of port h counts.
Waiters(h) == {p \in Clients : port_pc[p] \in {"asleep", "woken"} /\ handle[p] = h}

\* While no handle is created twice, recv_waiters is the number of waiters of an
\* open port: a handle that somebody has, or could look up, has been created.
WaitInv ==
    /\ TypeInv /\ WakeupNotLost
    /\ \A h \in Handles : used[h] => recv_waiters[h] = Cardinality(Waiters(h))
    /\ \A p \in Clients : port_pc[p] \in {"asleep", "woken"} => handle[p] \in Handles
    /\ \A p \in Clients : handle[p] \in Handles => opened[handle[p]] = 1
    /\ \A id \in Ids : ns_table[id] \in Handles => opened[ns_table[id]] = 1

\* The waiters of a port can be counted.
LEMMA WaitersFinite ==
    ASSUME NEW h
    PROVE  IsFiniteSet(Waiters(h)) /\ Cardinality(Waiters(h)) \in Nat
<1>1. Waiters(h) \subseteq Clients
  BY DEF Waiters
<1> QED
  BY <1>1, PortsAssumption, FS_Subset, FS_CardinalityType

\* A counted port with a waiter has a count above zero.
LEMMA WaiterCounted ==
    ASSUME WaitInv, NEW h \in Handles, used[h], NEW p \in Waiters(h)
    PROVE  recv_waiters[h] > 0
<1>1. Waiters(h) # {}
  OBVIOUS
<1>2. Cardinality(Waiters(h)) # 0
  BY <1>1, WaitersFinite, FS_EmptySet
<1> QED
  BY <1>2, WaitersFinite DEF WaitInv

\* What is left to show of a step that leaves waiters, counts and handles alone.
LEMMA WaitersKept ==
    ASSUME WaitInv, TypeInv', UNCHANGED <<recv_waiters, opened, handle, ns_table>>,
           \A h \in Handles : used'[h] => used[h],
           \A p \in Clients : port_pc'[p] \in {"asleep", "woken"} <=> port_pc[p] \in {"asleep", "woken"},
           WakeupNotLost'
    PROVE  WaitInv'
<1>1. \A h \in Handles : Waiters(h)' = Waiters(h)
  BY DEF Waiters
<1>2. \A h \in Handles : used'[h] => recv_waiters'[h] = Cardinality(Waiters(h)')
  BY <1>1 DEF WaitInv
<1>3. \A h \in Handles : Cardinality(Waiters(h)') = Cardinality(Waiters(h))'
  OBVIOUS
<1> QED
  BY <1>2, <1>3 DEF WaitInv

\* A handle is created for the first time, so nobody waits at it; the waiters of
\* other ports stay.
LEMMA CreateWaits ==
    ASSUME MaxOpens = 1, WaitInv, TypeInv', NEW p \in Clients, port_create(p) PROVE WaitInv'
<1>1. PICK h \in Handles :
          /\ used' = [used EXCEPT ![h] = TRUE] /\ count' = [count EXCEPT ![h] = 0]
          /\ opened' = [opened EXCEPT ![h] = @ + 1] /\ handle' = [handle EXCEPT ![p] = h]
          /\ ~used[h] /\ opened[h] < MaxOpens /\ port_pc[p] = "user"
          /\ UNCHANGED <<recv_waiters, ns_table, port_pc, chan>>
  BY ZenonT(60) DEF port_create
<1>2. opened[h] = 0 /\ opened'[h] = 1 /\ \A g \in Handles \ {h} : opened'[g] = opened[g]
  BY <1>1 DEF WaitInv, TypeInv, PortTypeOK
<1>3. \A r \in Clients : handle[r] # h
  BY <1>2 DEF WaitInv
<1>4. \A g : Waiters(g)' = Waiters(g)
  BY <1>1, <1>3 DEF Waiters, WaitInv, TypeInv, PortTypeOK
<1>5. \A g \in Handles : used'[g] => recv_waiters'[g] = Cardinality(Waiters(g))'
  <2>1. Cardinality(Waiters(h)) = 0 /\ recv_waiters[h] = 0
    BY ZenonT(60), <1>1, <1>3, FS_EmptySet DEF Waiters, WaitInv, TypeInv
  <2>2. \A g \in Handles \ {h} : used'[g] = used[g]
    BY <1>1 DEF WaitInv, TypeInv, PortTypeOK
  <2> QED BY <1>1, <1>4, <2>1, <2>2 DEF WaitInv
<1>6. WakeupNotLost'
  BY <1>1, <1>3 DEF WakeupNotLost, WaitInv, TypeInv, PortTypeOK
<1>7. \A r \in Clients : handle'[r] \in Handles => opened'[handle'[r]] = 1
  BY <1>1, <1>2 DEF WaitInv, TypeInv, PortTypeOK
<1>8. \A id \in Ids : ns_table'[id] \in Handles => opened'[ns_table'[id]] = 1
  BY ZenonT(60), <1>1, <1>2 DEF WaitInv
<1>9. \A r \in Clients : port_pc'[r] \in {"asleep", "woken"} => handle'[r] \in Handles
  BY <1>1 DEF WaitInv, TypeInv, PortTypeOK
<1> QED
  BY <1>5, <1>6, <1>7, <1>8, <1>9 DEF WaitInv

\* A sender that finds a waiter counted will wake it.
LEMMA SendWaits ==
    ASSUME WaitInv, TypeInv', NEW p \in Clients, NEW m \in Msgs, port_send(p, m) PROVE WaitInv'
<1>0. PICK h \in Handles : h = handle[p]
  BY DEF port_send, port_get
<1>1. /\ used[h] /\ count' = [count EXCEPT ![h] = @ + 1] /\ port_pc[p] = "user"
      /\ port_pc' = [port_pc EXCEPT ![p] = IF MustWake(h) THEN "wake" ELSE "user"]
      /\ chan' = [chan EXCEPT ![p] = IF MustWake(h) THEN h ELSE PORT_NULL]
      /\ UNCHANGED <<used, recv_waiters, opened, handle, ns_table>>
  BY ZenonT(60), <1>0 DEF port_send, port_get
<1>2. \A r \in Clients \ {p} : port_pc'[r] = port_pc[r] /\ chan'[r] = chan[r]
  BY SMTT(60), <1>1 DEF WaitInv, TypeInv, PortTypeOK
<1>3. port_pc'[p] \in {"user", "wake"}
  BY <1>1 DEF WaitInv, TypeInv, PortTypeOK
<1>4. WakeupNotLost'
  <2> SUFFICES ASSUME NEW r \in Clients, port_pc'[r] = "asleep", count'[handle'[r]] > 0
               PROVE  \E s \in Clients : port_pc'[s] = "wake" /\ chan'[s] = handle'[r]
    BY ZenonT(60) DEF WakeupNotLost
  <2>1. r # p /\ port_pc[r] = "asleep" /\ handle'[r] = handle[r]
    BY <1>1, <1>2, <1>3
  <2>2. CASE handle[r] = h
    <3>1. r \in Waiters(h)
      BY ZenonT(60), <2>1, <2>2 DEF Waiters
    <3>2. MustWake(h)
      BY ZenonT(60), <1>1, <3>1, WaiterCounted DEF MustWake
    <3>3. port_pc'[p] = "wake" /\ chan'[p] = h
      BY ZenonT(60), <1>1, <3>2 DEF WaitInv, TypeInv, PortTypeOK
    <3> QED BY ZenonT(60), <2>1, <2>2, <3>3
  <2>3. CASE handle[r] # h
    <3>1. count[handle[r]] > 0
      BY ZenonT(60), <1>1, <2>1, <2>3 DEF WaitInv, TypeInv, PortTypeOK
    <3>2. PICK s \in Clients : port_pc[s] = "wake" /\ chan[s] = handle[r]
      BY <2>1, <3>1 DEF WaitInv, WakeupNotLost
    <3> QED BY ZenonT(60), <1>1, <1>2, <2>1, <3>2
  <2> QED BY <2>2, <2>3
<1> QED
  BY <1>1, <1>2, <1>3, <1>4, WaitersKept

\* A wake-up releases everybody who sleeps on its channel, so whoever still sleeps
\* has another waker.
LEMMA WakeWaits ==
    ASSUME WaitInv, TypeInv', NEW p \in Clients, sched_wake_chan(p) PROVE WaitInv'
<1>1. /\ \A r \in Clients \ {p} : chan'[r] = chan[r] /\ port_pc'[r] =
             IF port_pc[r] = "asleep" /\ handle[r] = chan[p] THEN "woken" ELSE port_pc[r]
      /\ port_pc[p] = "wake" /\ port_pc'[p] = "user"
      /\ UNCHANGED <<used, count, recv_waiters, opened, handle, ns_table>>
  BY ZenonT(60) DEF sched_wake_chan, portVars, WaitInv, TypeInv, PortTypeOK
<1>2. WakeupNotLost'
  <2> SUFFICES ASSUME NEW r \in Clients, port_pc'[r] = "asleep", count'[handle'[r]] > 0
               PROVE  \E s \in Clients : port_pc'[s] = "wake" /\ chan'[s] = handle'[r]
    BY DEF WakeupNotLost
  <2>1. port_pc[r] = "asleep" /\ handle[r] # chan[p] /\ count[handle[r]] > 0
    BY <1>1
  <2>2. PICK s \in Clients : port_pc[s] = "wake" /\ chan[s] = handle[r]
    BY <2>1 DEF WaitInv, WakeupNotLost
  <2> QED BY ZenonT(60), <1>1, <2>1, <2>2
<1> QED
  BY ZenonT(60), <1>1, <1>2, WaitersKept

\* A receive, a failure and the backstop only take messages or sleepers away.
LEMMA QuietWaits ==
    ASSUME WaitInv, TypeInv', NEW p \in Clients, RecvMessage(p) \/ RecvFails(p) \/ PortBackstop(p)
    PROVE  WaitInv'
<1>1. /\ \A r \in Clients \ {p} : port_pc'[r] = port_pc[r]
      /\ port_pc[p] # "wake" /\ port_pc'[p] # "asleep"
      /\ port_pc'[p] \in {"asleep", "woken"} <=> port_pc[p] \in {"asleep", "woken"}
      /\ UNCHANGED <<used, recv_waiters, opened, handle, ns_table, chan>>
  <2>1. CASE RecvMessage(p)
    BY ZenonT(60), <2>1 DEF RecvMessage, WaitInv, TypeInv, PortTypeOK
  <2>2. CASE RecvFails(p)
    BY ZenonT(60), <2>2 DEF RecvFails, portVars, WaitInv, TypeInv, PortTypeOK
  <2>3. CASE PortBackstop(p)
    BY <2>3 DEF PortBackstop, portVars, WaitInv, TypeInv, PortTypeOK
  <2> QED BY ZenonT(60), <2>1, <2>2, <2>3
<1>2. \A h \in Handles : count'[h] > 0 => count[h] > 0
  <2>1. CASE RecvMessage(p)
    BY <2>1 DEF RecvMessage, port_get, Take, WaitInv, TypeInv, PortTypeOK
  <2>2. CASE RecvFails(p) \/ PortBackstop(p)
    BY ZenonT(60), <2>2 DEF RecvFails, PortBackstop, portVars
  <2> QED BY ZenonT(60), <2>1, <2>2
<1>3. WakeupNotLost'
  <2> SUFFICES ASSUME NEW r \in Clients, port_pc'[r] = "asleep", count'[handle'[r]] > 0
               PROVE  \E s \in Clients : port_pc'[s] = "wake" /\ chan'[s] = handle'[r]
    BY ZenonT(60) DEF WakeupNotLost
  <2>1. port_pc[r] = "asleep" /\ handle'[r] = handle[r] /\ r # p
    BY ZenonT(60), <1>1
  <2>2. PICK s \in Clients : port_pc[s] = "wake" /\ chan[s] = handle[r]
    BY ZenonT(60), <1>1, <1>2, <2>1 DEF WaitInv, WakeupNotLost
  <2> QED BY <1>1, <2>1, <2>2
<1> QED
  BY ZenonT(60), <1>1, <1>3, WaitersKept

\* A receiver of an empty port is counted, and a waiter that goes on counts itself off.
LEMMA BlockWaits ==
    ASSUME WaitInv, TypeInv', NEW p \in Clients, RecvBlock(p) \/ RecvAgain(p)
    PROVE  WaitInv'
<1>0. /\ RecvBlock(p) => port_pc' = [port_pc EXCEPT ![p] = "asleep"]
      /\ RecvAgain(p) => port_pc' = [port_pc EXCEPT ![p] = "recv"]
  BY ZenonT(60) DEF RecvBlock, RecvAgain
<1>1. /\ \A r \in Clients \ {p} : port_pc'[r] = port_pc[r]
      /\ RecvBlock(p) => port_pc'[p] = "asleep"
      /\ RecvAgain(p) => port_pc'[p] = "recv"
      /\ port_pc[p] # "wake"
      /\ UNCHANGED <<used, count, opened, handle, ns_table, chan>>
  <2>1. /\ \A r \in Clients \ {p} : port_pc'[r] = port_pc[r]
        /\ RecvBlock(p) => port_pc'[p] = "asleep"
        /\ RecvAgain(p) => port_pc'[p] = "recv"
    BY <1>0 DEF WaitInv, TypeInv, PortTypeOK
  <2>2. port_pc[p] # "wake" /\ UNCHANGED <<used, count, opened, handle, ns_table, chan>>
    BY DEF RecvBlock, RecvAgain
  <2> QED BY ZenonT(60), <2>1, <2>2
<1>2. PICK h \in Handles : h = handle[p]
  <2>1. CASE RecvBlock(p)
    BY ZenonT(60), <2>1 DEF RecvBlock, port_get
  <2>2. CASE RecvAgain(p)
    BY ZenonT(60), <2>2 DEF RecvAgain, WaitInv
  <2> QED BY ZenonT(60), <2>1, <2>2
<1>3. WakeupNotLost'
  <2> SUFFICES ASSUME NEW r \in Clients, port_pc'[r] = "asleep", count'[handle'[r]] > 0
               PROVE  \E s \in Clients : port_pc'[s] = "wake" /\ chan'[s] = handle'[r]
    BY ZenonT(60) DEF WakeupNotLost
  <2>1. r # p
    BY SMTT(60), <1>1, <1>2 DEF RecvBlock
  <2>2. PICK s \in Clients : port_pc[s] = "wake" /\ chan[s] = handle[r]
    BY ZenonT(60), <1>1, <2>1 DEF WaitInv, WakeupNotLost
  <2> QED BY <1>1, <2>2
<1>4. \A g \in Handles \ {h} : Waiters(g)' = Waiters(g) /\ recv_waiters'[g] = recv_waiters[g]
  <2>1. \A g \in Handles \ {h} : Waiters(g)' = Waiters(g)
    BY ZenonT(60), <1>1, <1>2 DEF Waiters
  <2>2. \A g \in Handles \ {h} : recv_waiters'[g] = recv_waiters[g]
    BY <1>2 DEF RecvBlock, RecvAgain, WaitInv, TypeInv, PortTypeOK
  <2> QED BY ZenonT(60), <2>1, <2>2
<1>5. ASSUME used[h] PROVE recv_waiters'[h] = Cardinality(Waiters(h)')
  <2>1. CASE RecvBlock(p)
    <3>1. p \notin Waiters(h) /\ Waiters(h)' = Waiters(h) \cup {p}
      BY ZenonT(60), <1>1, <1>2, <2>1 DEF RecvBlock, Waiters
    <3>2. recv_waiters'[h] = recv_waiters[h] + 1
      BY ZenonT(60), <1>2, <2>1 DEF RecvBlock, WaitInv, TypeInv, PortTypeOK
    <3>3. Cardinality(Waiters(h) \cup {p}) = Cardinality(Waiters(h)) + 1
      BY ZenonT(60), <3>1, WaitersFinite, FS_AddElement
    <3> QED BY SMTT(60), <1>5, <3>1, <3>2, <3>3 DEF WaitInv
  <2>2. CASE RecvAgain(p)
    <3>1. p \in Waiters(h) /\ Waiters(h)' = Waiters(h) \ {p}
      BY ZenonT(60), <1>1, <1>2, <2>2 DEF RecvAgain, RecvBlock, Waiters
    <3>2. recv_waiters[h] > 0
      BY ZenonT(60), <1>5, <3>1, WaiterCounted
    <3>3. recv_waiters'[h] = recv_waiters[h] - 1
      BY <1>2, <1>5, <2>2, <3>2 DEF RecvAgain, port_get, WaitInv, TypeInv, PortTypeOK
    <3>4. Cardinality(Waiters(h) \ {p}) = Cardinality(Waiters(h)) - 1
      BY ZenonT(60), <3>1, WaitersFinite, FS_RemoveElement
    <3> QED BY ZenonT(60), <1>5, <3>1, <3>3, <3>4 DEF WaitInv
  <2> QED BY ZenonT(60), <2>1, <2>2
<1>6. \A g \in Handles : used'[g] => recv_waiters'[g] = Cardinality(Waiters(g))'
  BY ZenonT(60), <1>1, <1>4, <1>5 DEF WaitInv
<1>7. \A r \in Clients : port_pc'[r] \in {"asleep", "woken"} => handle'[r] \in Handles
  BY ZenonT(60), <1>1, <1>2 DEF WaitInv
<1> QED
  BY SMTT(60), <1>1, <1>3, <1>6, <1>7 DEF WaitInv

\* Closing empties the port, so nobody sleeps on a message there.
LEMMA CloseWaits ==
    ASSUME WaitInv, TypeInv', NEW p \in Clients, port_close(p)
    PROVE  WaitInv'
<1>1. PICK h \in Handles : h = handle[p]
  BY ZenonT(60) DEF port_close, port_get
<1>2. /\ used' = [used EXCEPT ![h] = FALSE] /\ count' = [count EXCEPT ![h] = 0]
      /\ recv_waiters' = [recv_waiters EXCEPT ![h] = 0] /\ port_pc[p] = "user"
      /\ UNCHANGED <<opened, handle, ns_table>>
      /\ \A r \in Clients \ {p} : port_pc'[r] = port_pc[r] /\ chan'[r] = chan[r]
      /\ port_pc'[p] \in {"user", "wake"}
  BY SMTT(60), <1>1 DEF port_close, WaitInv, TypeInv, PortTypeOK
<1>3. WakeupNotLost'
  <2> SUFFICES ASSUME NEW r \in Clients, port_pc'[r] = "asleep", count'[handle'[r]] > 0
               PROVE  \E s \in Clients : port_pc'[s] = "wake" /\ chan'[s] = handle'[r]
    BY DEF WakeupNotLost
  <2>1. r # p /\ port_pc[r] = "asleep" /\ handle'[r] = handle[r] /\ handle[r] \in Handles
    BY ZenonT(60), <1>2 DEF WaitInv
  <2>2. handle[r] # h /\ count[handle[r]] > 0
    BY SMTT(60), <1>2, <2>1 DEF WaitInv, TypeInv, PortTypeOK
  <2>3. PICK s \in Clients : port_pc[s] = "wake" /\ chan[s] = handle[r]
    BY ZenonT(60), <2>1, <2>2 DEF WaitInv, WakeupNotLost
  <2> QED BY <1>2, <2>1, <2>3
<1>4. \A g : Waiters(g)' = Waiters(g)
  BY ZenonT(60), <1>2 DEF Waiters
<1>5. \A g \in Handles : used'[g] => recv_waiters'[g] = Cardinality(Waiters(g))'
  BY SMTT(60), <1>2, <1>4 DEF WaitInv, TypeInv, PortTypeOK
<1> QED
  BY ZenonT(60), <1>2, <1>3, <1>5 DEF WaitInv

\* The name service hands out handles of ports that have been created.
LEMMA NamesWait ==
    ASSUME WaitInv, TypeInv', NEW p \in Clients, NEW id \in Ids,
           ns_register(p, id) \/ ns_lookup(p, id)
    PROVE  WaitInv'
<1>0. handle \in [Clients -> Handles \cup {PORT_NULL}] /\ ns_table \in [Ids -> Handles \cup {PORT_NULL}]
  BY ZenonT(60) DEF WaitInv, TypeInv, PortTypeOK
<1>1. /\ UNCHANGED <<used, count, recv_waiters, opened, port_pc, chan>> /\ port_pc[p] = "user"
      /\ \A r \in Clients \ {p} : handle'[r] = handle[r]
      /\ handle'[p] \in {handle[p], ns_table[id]}
      /\ \A k \in Ids : ns_table'[k] \in {ns_table[k], handle[p]}
  <2>1. UNCHANGED <<used, count, recv_waiters, opened, port_pc, chan>> /\ port_pc[p] = "user"
    BY DEF ns_register, ns_lookup, portVars
  <2>2. CASE ns_register(p, id)
    <3>1. UNCHANGED handle /\ ns_table' = [ns_table EXCEPT ![id] = handle[p]]
      BY <2>2 DEF ns_register
    <3> QED BY ZenonT(60), <1>0, <2>1, <3>1
  <2>3. CASE ns_lookup(p, id)
    <3>1. UNCHANGED ns_table /\ handle' = [handle EXCEPT ![p] = ns_table[id]]
      BY ZenonT(60), <2>3 DEF ns_lookup
    <3> QED BY <1>0, <2>1, <3>1
  <2> QED BY <2>2, <2>3
<1>2. \A g : Waiters(g)' = Waiters(g)
  BY ZenonT(60), <1>1 DEF Waiters
<1>3. \A g \in Handles : used'[g] => recv_waiters'[g] = Cardinality(Waiters(g))'
  BY ZenonT(60), <1>1, <1>2 DEF WaitInv
<1>4. WakeupNotLost'
  BY <1>1 DEF WaitInv, WakeupNotLost
<1>5. /\ \A r \in Clients : port_pc'[r] \in {"asleep", "woken"} => handle'[r] \in Handles
      /\ \A r \in Clients : handle'[r] \in Handles => opened'[handle'[r]] = 1
      /\ \A k \in Ids : ns_table'[k] \in Handles => opened'[ns_table'[k]] = 1
  BY <1>1 DEF WaitInv
<1> QED
  BY ZenonT(60), <1>3, <1>4, <1>5 DEF WaitInv

\* Every step keeps the counts of waiters and leaves no sleeper without its waker.
LEMMA PortStepWaits ==
    ASSUME MaxOpens = 1, WaitInv, [PortNext]_portsVars PROVE WaitInv'
<1>1. TypeInv'
  BY PortStepTyped DEF WaitInv
<1>2. CASE UNCHANGED portsVars
  <2>1. WakeupNotLost'
    BY ZenonT(60), <1>2 DEF portsVars, portVars, WaitInv, WakeupNotLost
  <2> QED BY ZenonT(60), <1>1, <1>2, <2>1, WaitersKept DEF portsVars, portVars
<1>3. ASSUME PortNext PROVE WaitInv'
  BY ZenonT(60), <1>1, <1>3, CreateWaits, SendWaits, WakeWaits, QuietWaits, BlockWaits, CloseWaits, NamesWait
     DEF PortNext
<1> QED
  BY <1>2, <1>3

\* Nobody waits at the start.
LEMMA WaitInitInv == PortInit => WaitInv
<1> SUFFICES ASSUME PortInit PROVE WaitInv
  OBVIOUS
<1>1. WakeupNotLost
  BY DEF PortInit, WakeupNotLost
<1> QED
  BY <1>1, TypeInitInv, PortsAssumption DEF PortInit, WaitInv, Handles, PORT_NULL

\* No wake-up of a receiver is lost while no handle is created twice: whenever a
\* receiver sleeps on a port of ipc.c that holds a message, a sender is about to
\* wake it, for every number of clients and ports and every depth.
THEOREM PortsWakeups ==
    ASSUME MaxOpens = 1 PROVE PortSpec => []PortsExact
<1>1. WaitInv /\ [PortNext]_portsVars => WaitInv'
  BY ZenonT(60), PortStepWaits
<1>2. WaitInv => PortsExact
  BY ZenonT(60) DEF WaitInv, TypeInv, PortsExact
<1> QED
  BY WaitInitInv, <1>1, <1>2, PTL DEF PortSpec

=============================================================================
