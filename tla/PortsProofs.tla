---------------------------- MODULE PortsProofs ----------------------------
(***************************************************************************)
(* The ports of module Ports implement bounded queues, for every number of *)
(* clients, ports and messages and every depth of the ring.                *)
(***************************************************************************)
EXTENDS Ports, SequenceTheorems, TLAPS

\* A ring buffer is consistent: its tail lies count slots after its head, and
\* these slots hold messages.  A closed port is empty and has no waiters.
RingExact(h) ==
    /\ tail[h] = (head[h] + count[h]) % Depth
    /\ \A i \in 1..count[h] : buf[h][(head[h] + i - 1) % Depth] \in Msgs
    /\ ~used[h] => count[h] = 0 /\ recv_waiters[h] = 0

RingInv == PortTypeOK /\ \A h \in Handles : RingExact(h)

-----------------------------------------------------------------------------
(* Arithmetic of the ring. *)

\* An index that has gone round at most once.
LEMMA WrapOnce ==
    ASSUME NEW a \in Nat, a < Depth + Depth
    PROVE  a % Depth = IF a < Depth THEN a ELSE a - Depth
<1>1. CASE a < Depth
  BY <1>1, PortsAssumption
<1>2. CASE a >= Depth
  <2>1. a - Depth \in 0 .. Depth - 1 /\ a % Depth \in 0 .. Depth - 1
    BY <1>2, PortsAssumption
  <2>2. a = Depth * (a \div Depth) + (a % Depth)
    BY PortsAssumption
  <2> QED BY <1>2, <2>1, <2>2, PortsAssumption
<1> QED
  BY <1>1, <1>2, PortsAssumption

\* The slot that lies n slots after slot s.
LEMMA SlotAfter ==
    ASSUME NEW s \in Slot, NEW n \in 0..Depth
    PROVE  /\ (s + n) % Depth = IF s + n < Depth THEN s + n ELSE s + n - Depth
           /\ (s + n) % Depth \in Slot
<1>1. s + n \in Nat /\ s + n < Depth + Depth /\ s \in Nat /\ s < Depth /\ Depth \in Nat
  BY PortsAssumption DEF Slot
<1>2. (s + n) % Depth = IF s + n < Depth THEN s + n ELSE s + n - Depth
  BY <1>1, WrapOnce
<1> QED
  BY <1>1, <1>2 DEF Slot

\* One slot further on, at either end.
LEMMA NextSlot ==
    ASSUME NEW s \in Slot, NEW n \in 0 .. Depth - 1
    PROVE  /\ (((s + n) % Depth) + 1) % Depth = (s + (n + 1)) % Depth
           /\ (((s + 1) % Depth) + n) % Depth = (s + (n + 1)) % Depth
<1>1. /\ n \in 0..Depth /\ n + 1 \in 0..Depth /\ 1 \in 0..Depth /\ Depth \in Nat \ {0}
      /\ s \in Nat /\ s < Depth
  BY PortsAssumption DEF Slot
<1>2. (s + (n + 1)) % Depth = IF s + (n + 1) < Depth THEN s + (n + 1) ELSE s + (n + 1) - Depth
  BY <1>1, SlotAfter
<1>3. (((s + n) % Depth) + 1) % Depth = (s + (n + 1)) % Depth
  <2> DEFINE r == (s + n) % Depth
  <2>1. r \in Slot /\ r = IF s + n < Depth THEN s + n ELSE s + n - Depth
    BY ZenonT(60), <1>1, SlotAfter
  <2> HIDE DEF r
  <2>2. (r + 1) % Depth = IF r + 1 < Depth THEN r + 1 ELSE r + 1 - Depth
    BY <1>1, <2>1, SlotAfter
  <2>3. (r + 1) % Depth = (s + (n + 1)) % Depth
    BY <1>1, <1>2, <2>1, <2>2
  <2> QED BY <2>3 DEF r
<1>4. (((s + 1) % Depth) + n) % Depth = (s + (n + 1)) % Depth
  <2> DEFINE r == (s + 1) % Depth
  <2>1. r \in Slot /\ r = IF s + 1 < Depth THEN s + 1 ELSE s + 1 - Depth
    BY <1>1, SlotAfter
  <2> HIDE DEF r
  <2>2. (r + n) % Depth = IF r + n < Depth THEN r + n ELSE r + n - Depth
    BY ZenonT(60), <1>1, <2>1, SlotAfter
  <2>3. (r + n) % Depth = (s + (n + 1)) % Depth
    BY <1>1, <1>2, <2>1, <2>2
  <2> QED BY <2>3 DEF r
<1> QED
  BY <1>3, <1>4

\* Fewer than Depth slots on is a different slot for each number.
LEMMA SlotsDiffer ==
    ASSUME NEW s \in Slot, NEW m \in 0 .. Depth - 1, NEW n \in 0 .. Depth - 1, m # n
    PROVE  (s + m) % Depth # (s + n) % Depth
<1>1. m \in 0..Depth /\ n \in 0..Depth /\ Depth \in Nat /\ s \in Nat /\ s < Depth
  BY PortsAssumption DEF Slot
<1> QED
  BY <1>1, SlotAfter

-----------------------------------------------------------------------------
(* The messages in a ring. *)

\* What a consistent ring holds is a sequence of messages.
LEMMA QueueType ==
    ASSUME RingInv, NEW h \in Handles
    PROVE  /\ Queue(h) \in Seq(Msgs) /\ Len(Queue(h)) = count[h]
           /\ \A i \in 1..count[h] : Queue(h)[i] = buf[h][(head[h] + i - 1) % Depth]
           /\ Queue(h) # Nothing
<1>1. count[h] \in Nat /\ \A i \in 1..count[h] : buf[h][(head[h] + i - 1) % Depth] \in Msgs
  BY PortsAssumption DEF RingInv, PortTypeOK, RingExact
<1>2. Queue(h) \in Seq(Msgs) /\ Len(Queue(h)) = count[h]
  BY <1>1 DEF Queue
<1>3. \A i \in 1..count[h] : Queue(h)[i] = buf[h][(head[h] + i - 1) % Depth]
  BY DEF Queue
<1> QED
  BY <1>2, <1>3, PortsAssumption

\* Storing a message in the slot at the tail and counting it.
Put(h, m) ==
    /\ buf' = [buf EXCEPT ![h][tail[h]] = m]
    /\ tail' = [tail EXCEPT ![h] = (@ + 1) % Depth]
    /\ count' = [count EXCEPT ![h] = @ + 1]

\* A send keeps the rings consistent and appends to the queue of its port.
LEMMA PutExact ==
    ASSUME RingInv, NEW h \in Handles, NEW m \in Msgs, count[h] < Depth, Put(h, m),
           UNCHANGED <<used, head, recv_waiters>>, used[h]
    PROVE  /\ tail' \in [Handles -> Slot] /\ count' \in [Handles -> 0..Depth]
           /\ buf' \in [Handles -> [Slot -> Msgs \cup {Nothing}]]
           /\ \A g \in Handles : RingExact(g)'
           /\ Len(Queue(h)) < Depth /\ Queue(h)' = Append(Queue(h), m)
           /\ \A g \in Handles \ {h} : Queue(g)' = Queue(g)
<1> DEFINE at(i) == (head[h] + i - 1) % Depth
<1>1. /\ head[h] \in Slot /\ tail[h] \in Slot /\ count[h] \in 0..Depth /\ Depth \in Nat \ {0}
      /\ tail[h] = (head[h] + count[h]) % Depth
      /\ count[h] \in Nat /\ head[h] \in Nat /\ count[h] \in 0 .. Depth - 1
  BY PortsAssumption DEF RingInv, PortTypeOK, RingExact, Slot
<1>2. /\ tail' \in [Handles -> Slot] /\ count' \in [Handles -> 0..Depth]
      /\ tail'[h] = (head[h] + (count[h] + 1)) % Depth /\ count'[h] = count[h] + 1
  <2>1. (tail[h] + 1) % Depth = (head[h] + (count[h] + 1)) % Depth
    BY <1>1, NextSlot
  <2>2. (tail[h] + 1) % Depth \in Slot
    BY <1>1, <2>1, SlotAfter
  <2> QED BY <1>1, <2>1, <2>2 DEF Put, RingInv, PortTypeOK
<1>3. /\ buf' \in [Handles -> [Slot -> Msgs \cup {Nothing}]]
      /\ \A g \in Handles \ {h} : buf'[g] = buf[g]
      /\ \A s \in Slot : buf'[h][s] = IF s = tail[h] THEN m ELSE buf[h][s]
  BY <1>1 DEF Put, RingInv, PortTypeOK
<1>4. \A i \in 1..count[h] : buf'[h][at(i)] = buf[h][at(i)]
  <2> TAKE i \in 1..count[h]
  <2>1. i - 1 \in 0 .. Depth - 1 /\ i - 1 # count[h] /\ head[h] + i - 1 = head[h] + (i - 1)
    BY <1>1
  <2>2. at(i) = (head[h] + (i - 1)) % Depth
    BY <2>1
  <2>3. (head[h] + (i - 1)) % Depth # (head[h] + count[h]) % Depth
    BY <1>1, <2>1, SlotsDiffer
  <2>4. (head[h] + (i - 1)) % Depth \in Slot
    BY <1>1, <2>1, SlotAfter
  <2> QED BY <1>1, <1>3, <2>2, <2>3, <2>4
<1>5. buf'[h][at(count[h] + 1)] = m
  <2>1. head[h] + (count[h] + 1) - 1 = head[h] + count[h]
    BY <1>1
  <2> QED BY <1>1, <1>3, <2>1
<1>6. \A i \in 1 .. count[h] + 1 : buf'[h][at(i)] \in Msgs
  BY <1>1, <1>4, <1>5 DEF RingInv, RingExact
<1>7. \A g \in Handles : RingExact(g)'
  <2>1. RingExact(h)'
    BY <1>2, <1>6 DEF RingExact
  <2>2. \A g \in Handles \ {h} : RingExact(g)'
    BY <1>3 DEF RingExact, RingInv, PortTypeOK, Put
  <2> QED BY <2>1, <2>2
<1>8. Queue(h)' = Append(Queue(h), m)
  <2>1. Queue(h)' = [i \in 1 .. count[h] + 1 |-> buf'[h][at(i)]]
    BY <1>2 DEF Queue
  <2> HIDE DEF at
  <2>2. Queue(h)' \in Seq(Msgs) /\ Len(Queue(h)') = count[h] + 1
    <3>1. Queue(h)' \in [1 .. count[h] + 1 -> Msgs]
      BY <1>6, <2>1, Zenon
    <3>2. count[h] + 1 \in Nat
      BY <1>1
    <3> QED BY <3>1, <3>2
  <2>3. /\ Append(Queue(h), m) \in Seq(Msgs) /\ Len(Append(Queue(h), m)) = count[h] + 1
        /\ \A i \in 1..count[h] : Append(Queue(h), m)[i] = Queue(h)[i]
        /\ Append(Queue(h), m)[count[h] + 1] = m
    BY QueueType, AppendProperties
  <2>4. \A i \in 1..count[h] : Queue(h)[i] = buf[h][at(i)]
    BY QueueType DEF at
  <2>5. ASSUME NEW i \in 1 .. count[h] + 1
        PROVE  Queue(h)'[i] = Append(Queue(h), m)[i]
    <3>1. Queue(h)'[i] = buf'[h][at(i)]
      BY <2>1
    <3>2. CASE i \in 1..count[h]
      BY <1>4, <2>3, <2>4, <3>1, <3>2
    <3>3. CASE i = count[h] + 1
      BY <1>5, <2>3, <3>1, <3>3
    <3>4. i \in 1..count[h] \/ i = count[h] + 1
      BY <1>1
    <3> QED BY ZenonT(60), <3>2, <3>3, <3>4
  <2> QED BY <2>2, <2>3, <2>5, SeqEqual
<1>9. \A g \in Handles \ {h} : Queue(g)' = Queue(g)
  BY <1>3 DEF Queue, Put, RingInv, PortTypeOK
<1> QED
  BY <1>2, <1>3, <1>7, <1>8, <1>9, QueueType

\* Taking the message at the head and counting it off.
LEMMA TakeExact ==
    ASSUME RingInv, NEW h \in Handles, NEW p \in Clients, count[h] > 0, Take(p, h),
           UNCHANGED <<used, tail, buf, recv_waiters>>, used[h]
    PROVE  /\ head' \in [Handles -> Slot] /\ count' \in [Handles -> 0..Depth]
           /\ out' \in [Clients -> Msgs \cup {Nothing}]
           /\ \A g \in Handles : RingExact(g)'
           /\ Queue(h) # <<>> /\ out' = [out EXCEPT ![p] = Head(Queue(h))]
           /\ Queue(h)' = Tail(Queue(h))
           /\ \A g \in Handles \ {h} : Queue(g)' = Queue(g)
<1> DEFINE at(i) == (head[h] + i - 1) % Depth
           n == count[h] - 1
<1>0. /\ head[h] \in Slot /\ Depth \in Nat \ {0} /\ count[h] \in 0..Depth
      /\ tail[h] = (head[h] + count[h]) % Depth
  BY PortsAssumption DEF RingInv, PortTypeOK, RingExact
<1>1. /\ head[h] \in Slot /\ Depth \in Nat \ {0} /\ head[h] \in Nat /\ head[h] < Depth
      /\ count[h] \in Nat /\ n \in Nat /\ n \in 0 .. Depth - 1 /\ n + 1 = count[h]
      /\ tail[h] = (head[h] + (n + 1)) % Depth /\ 1 \in 0..Depth
  BY <1>0 DEF Slot
<1> HIDE DEF n
<1>2. /\ head' \in [Handles -> Slot] /\ count' \in [Handles -> 0..Depth]
      /\ head'[h] = (head[h] + 1) % Depth /\ count'[h] = n
      /\ \A g \in Handles \ {h} : head'[g] = head[g] /\ count'[g] = count[g]
  <2>1. (head[h] + 1) % Depth \in Slot
    BY ZenonT(60), <1>1, SlotAfter
  <2>2. n \in 0..Depth /\ count[h] - 1 = n
    BY <1>1 DEF n
  <2> QED BY <2>1, <2>2 DEF Take, RingInv, PortTypeOK
<1>3. \A i \in 1..n : (head'[h] + i - 1) % Depth = at(i + 1) /\ i + 1 \in 1..count[h]
  <2> TAKE i \in 1..n
  <2>1. i - 1 \in 0 .. Depth - 1 /\ i + 1 \in 1..count[h]
    BY <1>1
  <2>2. (((head[h] + 1) % Depth) + (i - 1)) % Depth = (head[h] + ((i - 1) + 1)) % Depth
    BY <1>1, <2>1, NextSlot
  <2>3. head[h] + ((i - 1) + 1) = head[h] + (i + 1) - 1
    BY <1>1
  <2>4. head'[h] \in Nat
    BY <1>1, <1>2 DEF Slot
  <2>5. head'[h] + i - 1 = head'[h] + (i - 1)
    BY <1>1, <2>4
  <2> QED BY <1>2, <2>1, <2>2, <2>3, <2>5
<1>4. at(1) = head[h] /\ buf[h][head[h]] \in Msgs
  <2>1. head[h] + 1 - 1 = head[h] /\ head[h] % Depth = head[h] /\ 1 \in 1..count[h]
    BY <1>1
  <2> QED BY <2>1 DEF RingInv, RingExact
<1>5. \A g \in Handles : RingExact(g)'
  <2>1. tail[h] = (head'[h] + n) % Depth
    BY <1>1, <1>2, NextSlot
  <2>2. \A i \in 1..n : buf[h][(head'[h] + i - 1) % Depth] \in Msgs
    BY <1>3 DEF RingInv, RingExact
  <2>3. RingExact(h)'
    BY <1>2, <2>1, <2>2 DEF RingExact
  <2>4. \A g \in Handles \ {h} : RingExact(g)'
    BY <1>2 DEF RingExact, RingInv
  <2> QED BY <2>3, <2>4
<1>6. Queue(h) \in Seq(Msgs) /\ Len(Queue(h)) = n + 1 /\ Queue(h) # <<>>
      /\ \A i \in 1..count[h] : Queue(h)[i] = buf[h][at(i)]
  BY <1>1, QueueType
<1>7. Head(Queue(h)) = buf[h][head[h]]
  <2>1. Head(Queue(h)) = Queue(h)[1]
    BY <1>6
  <2>2. 1 \in 1..count[h]
    BY <1>1
  <2>3. Queue(h)[1] = buf[h][at(1)]
    BY <1>6, <2>2
  <2> QED BY <1>4, <2>1, <2>3
<1>8. Queue(h)' = Tail(Queue(h))
  <2>1. Queue(h)' = [i \in 1..n |-> buf[h][(head'[h] + i - 1) % Depth]]
    BY <1>2 DEF Queue
  <2>2. \A i \in 1..n : buf[h][(head'[h] + i - 1) % Depth] = Queue(h)[i + 1]
    BY <1>3, <1>6
  <2>3. \A i \in 1..n : Queue(h)[i + 1] \in Msgs
    BY <1>1, <1>6, ElementOfSeq
  <2>4. Queue(h)' \in [1..n -> Msgs]
    BY <2>1, <2>2, <2>3, Zenon
  <2>5. Queue(h)' \in Seq(Msgs) /\ Len(Queue(h)') = n
    <3>1. n \in Nat
      BY <1>1
    <3> QED BY <2>4, <3>1
  <2>6. /\ Tail(Queue(h)) \in Seq(Msgs) /\ Len(Tail(Queue(h))) = n
        /\ \A i \in 1..n : Tail(Queue(h))[i] = Queue(h)[i + 1]
    BY <1>1, <1>6, HeadTailProperties
  <2>7. \A i \in 1..n : Queue(h)'[i] = Tail(Queue(h))[i]
    BY <2>1, <2>2, <2>6, Zenon
  <2> QED BY <2>5, <2>6, <2>7, SeqEqual
<1>9. \A g \in Handles \ {h} : Queue(g)' = Queue(g)
  BY <1>2 DEF Queue
<1>10. out' = [out EXCEPT ![p] = Head(Queue(h))] /\ out' \in [Clients -> Msgs \cup {Nothing}]
  BY ZenonT(60), <1>4, <1>7 DEF Take, RingInv, PortTypeOK
<1> QED
  BY <1>2, <1>5, <1>6, <1>8, <1>9, <1>10


-----------------------------------------------------------------------------
(* The steps. *)

\* The queues that the ports stand for.
QueueOf == [h \in Handles |-> IF used[h] THEN Queue(h) ELSE Nothing]

\* A step keeps the invariant, and is a step of the abstract queues or none.
Refines == RingInv' /\ [Abstract!Next]_(Abstract!qvars)

\* The abstract steps, in terms of QueueOf.
LEMMA AbstractSteps ==
    ASSUME NEW h \in Handles
    PROVE  /\ UNCHANGED <<QueueOf, out>> => [Abstract!Next]_(Abstract!qvars)
           /\ QueueOf[h] = Nothing /\ QueueOf' = [QueueOf EXCEPT ![h] = <<>>] /\ UNCHANGED out
                 => Abstract!Next
           /\ QueueOf[h] # Nothing /\ QueueOf' = [QueueOf EXCEPT ![h] = Nothing] /\ UNCHANGED out
                 => Abstract!Next
           /\ \A m \in Msgs :
                 /\ QueueOf[h] # Nothing /\ Len(QueueOf[h]) < Depth /\ UNCHANGED out
                 /\ QueueOf' = [QueueOf EXCEPT ![h] = Append(QueueOf[h], m)]
                 => Abstract!Next
           /\ \A p \in Clients :
                 /\ QueueOf[h] \notin {Nothing, <<>>}
                 /\ out' = [out EXCEPT ![p] = Head(QueueOf[h])]
                 /\ QueueOf' = [QueueOf EXCEPT ![h] = Tail(QueueOf[h])]
                 => Abstract!Next
BY ZenonT(60) DEF QueueOf, Abstract!Next, Abstract!qvars, Abstract!Open, Abstract!Close, Abstract!Send,
       Abstract!Receive

\* A step that leaves the rings alone is none of the queues.
LEMMA RingsKept ==
    ASSUME RingInv, PortTypeOK', UNCHANGED <<used, head, tail, count, buf, out>>,
           \A h \in Handles : ~used[h] => recv_waiters'[h] = recv_waiters[h]
    PROVE  Refines
<1>1. \A h \in Handles : RingExact(h)'
  BY DEF RingInv, RingExact
<1>2. UNCHANGED <<QueueOf, out>>
  BY DEF QueueOf, Queue
<1>3. 1 \in Handles
  BY PortsAssumption DEF Handles
<1> QED
  BY <1>1, <1>2, <1>3, AbstractSteps DEF Refines, RingInv

\* Creating a port opens an empty queue, whatever its last owner left in the ring.
LEMMA CreateRefines == ASSUME RingInv, NEW p \in Clients, port_create(p) PROVE Refines
<1>1. PICK h \in Handles :
          /\ used' = [used EXCEPT ![h] = TRUE] /\ count' = [count EXCEPT ![h] = 0]
          /\ head' = [head EXCEPT ![h] = 0] /\ tail' = [tail EXCEPT ![h] = 0]
          /\ opened' = [opened EXCEPT ![h] = @ + 1] /\ handle' = [handle EXCEPT ![p] = h]
          /\ ~used[h] /\ opened[h] < MaxOpens
          /\ UNCHANGED <<buf, recv_waiters, ns_table, era, port_pc, chan, out>>
  BY ZenonT(60) DEF port_create
<1>2. PortTypeOK'
  <2>1. 0 \in Slot /\ 0 \in 0..Depth
    BY PortsAssumption DEF Slot
  <2>2. opened' \in [Handles -> 0..MaxOpens]
    BY <1>1, PortsAssumption DEF RingInv, PortTypeOK
  <2> QED BY <1>1, <2>1, <2>2 DEF RingInv, PortTypeOK
<1>3. \A g \in Handles : RingExact(g)'
  <2>1. 0 % Depth = 0
    BY PortsAssumption
  <2>2. RingExact(h)'
    BY <1>1, <2>1 DEF RingExact, RingInv, PortTypeOK
  <2>3. \A g \in Handles \ {h} : RingExact(g)'
    BY <1>1 DEF RingExact, RingInv, PortTypeOK
  <2> QED BY <2>2, <2>3
<1>4. Queue(h)' = <<>>
  BY <1>1 DEF Queue, RingInv, PortTypeOK
<1>5. \A g \in Handles \ {h} : Queue(g)' = Queue(g)
  BY <1>1 DEF Queue, RingInv, PortTypeOK
<1>6. QueueOf[h] = Nothing /\ QueueOf' = [QueueOf EXCEPT ![h] = <<>>]
  BY ZenonT(60), <1>1, <1>4, <1>5 DEF QueueOf, RingInv, PortTypeOK
<1> QED
  BY ZenonT(60), <1>1, <1>2, <1>3, <1>6, AbstractSteps DEF Refines, RingInv

\* A send appends the message to the queue.
LEMMA SendRefines ==
    ASSUME RingInv, NEW p \in Clients, NEW m \in Msgs, port_send(p, m) PROVE Refines
<1>0. PICK h \in Handles : h = handle[p]
  BY DEF port_send, port_get
<1>1. /\ h \in Handles /\ used[h] /\ count[h] < Depth /\ Put(h, m)
      /\ UNCHANGED <<used, head, recv_waiters, out>>
  BY <1>0 DEF port_send, port_get, NotFull, Put
<1>2. /\ tail' \in [Handles -> Slot] /\ count' \in [Handles -> 0..Depth]
      /\ buf' \in [Handles -> [Slot -> Msgs \cup {Nothing}]]
      /\ \A g \in Handles : RingExact(g)'
      /\ Len(Queue(h)) < Depth /\ Queue(h)' = Append(Queue(h), m)
      /\ \A g \in Handles \ {h} : Queue(g)' = Queue(g)
  BY <1>1, PutExact
<1>3. PortTypeOK'
  <2>1. port_pc' \in [Clients -> PortPCs] /\ chan' \in [Clients -> Handles \cup {PORT_NULL}]
    BY SMTT(60), <1>0, <1>1 DEF port_send, RingInv, PortTypeOK, PortPCs
  <2> QED BY ZenonT(60), <1>1, <1>2, <2>1 DEF port_send, RingInv, PortTypeOK
<1>4. Queue(h) # Nothing
  BY SMTT(60), <1>1, QueueType
<1>5. /\ QueueOf[h] = Queue(h)
      /\ QueueOf' = [QueueOf EXCEPT ![h] = Append(QueueOf[h], m)]
  BY ZenonT(60), <1>1, <1>2 DEF QueueOf
<1>6. Abstract!Next
  BY ZenonT(60), <1>1, <1>2, <1>4, <1>5, AbstractSteps
<1> QED
  BY <1>2, <1>3, <1>6 DEF Refines, RingInv

\* A receive takes the first message of the queue.
LEMMA ReceiveRefines == ASSUME RingInv, NEW p \in Clients, RecvMessage(p) PROVE Refines
<1>0. PICK h \in Handles : h = handle[p]
  BY DEF RecvMessage, port_get
<1>1. /\ h \in Handles /\ used[h] /\ count[h] > 0 /\ Take(p, h)
      /\ UNCHANGED <<used, tail, buf, recv_waiters>>
  BY <1>0 DEF RecvMessage, port_get
<1>2. /\ head' \in [Handles -> Slot] /\ count' \in [Handles -> 0..Depth]
      /\ out' \in [Clients -> Msgs \cup {Nothing}]
      /\ \A g \in Handles : RingExact(g)'
      /\ Queue(h) # <<>> /\ out' = [out EXCEPT ![p] = Head(Queue(h))]
      /\ Queue(h)' = Tail(Queue(h))
      /\ \A g \in Handles \ {h} : Queue(g)' = Queue(g)
  BY ZenonT(60), <1>1, TakeExact
<1>3. PortTypeOK'
  <2>1. port_pc' \in [Clients -> PortPCs] /\ era' \in [Clients -> 0..MaxOpens]
    BY PortsAssumption DEF RecvMessage, RingInv, PortTypeOK, PortPCs
  <2> QED BY ZenonT(60), <1>1, <1>2, <2>1 DEF RecvMessage, RingInv, PortTypeOK
<1>4. Queue(h) # Nothing
  BY SMTT(60), <1>1, QueueType
<1>5. /\ QueueOf[h] = Queue(h)
      /\ QueueOf' = [QueueOf EXCEPT ![h] = Tail(QueueOf[h])]
  BY ZenonT(60), <1>1, <1>2 DEF QueueOf
<1>6. Abstract!Next
  BY ZenonT(60), <1>1, <1>2, <1>4, <1>5, AbstractSteps
<1> QED
  BY <1>2, <1>3, <1>6 DEF Refines, RingInv

\* Closing a port clears it and closes the queue.
LEMMA CloseRefines == ASSUME RingInv, NEW p \in Clients, port_close(p) PROVE Refines
<1>0. PICK h \in Handles : h = handle[p]
  BY DEF port_close, port_get
<1>1. /\ h \in Handles /\ used[h] /\ used' = [used EXCEPT ![h] = FALSE]
      /\ count' = [count EXCEPT ![h] = 0] /\ head' = [head EXCEPT ![h] = 0]
      /\ tail' = [tail EXCEPT ![h] = 0] /\ recv_waiters' = [recv_waiters EXCEPT ![h] = 0]
      /\ buf' = [buf EXCEPT ![h] = [i \in Slot |-> Nothing]] /\ UNCHANGED out
  BY ZenonT(60), <1>0 DEF port_close, port_get
<1>2. PortTypeOK'
  <2>1. 0 \in Slot /\ 0 \in 0..Depth /\ [i \in Slot |-> Nothing] \in [Slot -> Msgs \cup {Nothing}]
    BY PortsAssumption DEF Slot
  <2>2. port_pc' \in [Clients -> PortPCs] /\ chan' \in [Clients -> Handles \cup {PORT_NULL}]
    BY <1>0, <1>1 DEF port_close, RingInv, PortTypeOK, PortPCs
  <2>3. used' \in [Handles -> BOOLEAN] /\ buf' \in [Handles -> [Slot -> Msgs \cup {Nothing}]]
    BY <1>1, <2>1 DEF RingInv, PortTypeOK
  <2>4. /\ head' \in [Handles -> Slot] /\ tail' \in [Handles -> Slot]
        /\ count' \in [Handles -> 0..Depth] /\ recv_waiters' \in [Handles -> Nat]
    BY <1>1, <2>1 DEF RingInv, PortTypeOK
  <2> QED BY <2>2, <2>3, <2>4 DEF port_close, RingInv, PortTypeOK
<1>3. \A g \in Handles : RingExact(g)'
  <2>1. 0 % Depth = 0
    BY PortsAssumption
  <2>2. RingExact(h)'
    BY <1>1, <2>1 DEF RingExact, RingInv, PortTypeOK
  <2>3. \A g \in Handles \ {h} : RingExact(g)'
    BY <1>1 DEF RingExact, RingInv, PortTypeOK
  <2> QED BY <2>2, <2>3
<1>4. \A g \in Handles \ {h} : Queue(g)' = Queue(g)
  BY SMTT(60), <1>1 DEF Queue, RingInv, PortTypeOK
<1>5. QueueOf[h] # Nothing /\ QueueOf' = [QueueOf EXCEPT ![h] = Nothing]
  BY ZenonT(60), <1>1, <1>4, QueueType DEF QueueOf, RingInv, PortTypeOK
<1> QED
  BY ZenonT(60), <1>1, <1>2, <1>3, <1>5, AbstractSteps DEF Refines, RingInv

\* Waiting, waking, giving up and the name service leave the rings alone.
LEMMA OtherRefines ==
    ASSUME RingInv, NEW p \in Clients,
           \/ sched_wake_chan(p) \/ RecvBlock(p) \/ RecvFails(p) \/ PortBackstop(p) \/ RecvAgain(p)
           \/ \E id \in Ids : ns_register(p, id) \/ ns_lookup(p, id)
    PROVE  Refines
<1>1. CASE sched_wake_chan(p)
  BY <1>1, RingsKept DEF sched_wake_chan, portVars, RingInv, PortTypeOK, PortPCs
<1>2. CASE RecvBlock(p)
  <2>1. recv_waiters' \in [Handles -> Nat] /\ era' \in [Clients -> 0..MaxOpens]
    BY <1>2 DEF RecvBlock, port_get, RingInv, PortTypeOK
  <2>2. port_pc' \in [Clients -> PortPCs]
    BY SMTT(60), <1>2 DEF RecvBlock, RingInv, PortTypeOK, PortPCs
  <2>3. PortTypeOK'
    BY ZenonT(60), <1>2, <2>1, <2>2 DEF RecvBlock, RingInv, PortTypeOK
  <2>4. \A h \in Handles : ~used[h] => recv_waiters'[h] = recv_waiters[h]
    BY SMTT(60), <1>2 DEF RecvBlock, port_get, RingInv, PortTypeOK
  <2> QED BY ZenonT(60), <1>2, <2>3, <2>4, RingsKept DEF RecvBlock
<1>3. CASE RecvFails(p) \/ PortBackstop(p)
  <2>1. port_pc' \in [Clients -> PortPCs] /\ era' \in [Clients -> 0..MaxOpens]
    <3>1. CASE RecvFails(p)
      BY <3>1, PortsAssumption DEF RecvFails, RingInv, PortTypeOK, PortPCs
    <3>2. CASE PortBackstop(p)
      BY <3>2 DEF PortBackstop, RingInv, PortTypeOK, PortPCs
    <3> QED BY <1>3, <3>1, <3>2
  <2>2. UNCHANGED <<used, head, tail, count, buf, recv_waiters, opened, ns_table, handle, chan, out>>
    BY <1>3 DEF RecvFails, PortBackstop, portVars
  <2>3. PortTypeOK'
    BY ZenonT(60), <2>1, <2>2 DEF RingInv, PortTypeOK
  <2> QED BY ZenonT(60), <2>2, <2>3, RingsKept
<1>4. CASE RecvAgain(p)
  <2>1. recv_waiters' \in [Handles -> Nat]
        /\ \A h \in Handles : ~used[h] => recv_waiters'[h] = recv_waiters[h]
    BY <1>4 DEF RecvAgain, port_get, RingInv, PortTypeOK
  <2>2. PortTypeOK'
    BY SMTT(60), <1>4, <2>1 DEF RecvAgain, RingInv, PortTypeOK, PortPCs
  <2> QED BY <1>4, <2>1, <2>2, RingsKept DEF RecvAgain
<1>5. CASE \E id \in Ids : ns_register(p, id) \/ ns_lookup(p, id)
  BY ZenonT(60), <1>5, RingsKept DEF ns_register, ns_lookup, portVars, RingInv, PortTypeOK
<1> QED
  BY <1>1, <1>2, <1>3, <1>4, <1>5

\* Every step of ipc.c keeps the rings and is a step of the queues or none.
LEMMA PortStepRefines == RingInv /\ [PortNext]_portsVars => Refines
<1> SUFFICES ASSUME RingInv, [PortNext]_portsVars PROVE Refines
  OBVIOUS
<1>1. CASE UNCHANGED portsVars
  BY <1>1, RingsKept DEF portsVars, portVars, RingInv, PortTypeOK
<1>2. CASE PortNext
  BY <1>2, CreateRefines, SendRefines, ReceiveRefines, CloseRefines, OtherRefines DEF PortNext
<1> QED
  BY <1>1, <1>2

\* All ports are closed at the start.
LEMMA RingInitInv == PortInit => RingInv /\ Abstract!Init
<1> SUFFICES ASSUME PortInit PROVE RingInv /\ Abstract!Init
  OBVIOUS
<1>1. 0 \in Slot /\ 0 \in 0..Depth /\ 0 \in 0..MaxOpens /\ 0 % Depth = 0
  BY PortsAssumption DEF Slot
<1>2. PortTypeOK
  BY <1>1 DEF PortInit, PortTypeOK, PortPCs
<1>3. \A h \in Handles : RingExact(h)
  BY <1>1 DEF PortInit, RingExact
<1>4. Abstract!Init
  BY DEF PortInit, Abstract!Init
<1> QED
  BY <1>2, <1>3, <1>4 DEF RingInv

\* The types of ipc.c's ports, and its ring indices within the ring, for every
\* number of clients and ports, every depth, and handles that are created again.
THEOREM PortsTyped == PortSpec => []PortTypeOK
<1>1. RingInv => PortTypeOK
  BY DEF RingInv
<1> QED
  BY RingInitInv, PortStepRefines, <1>1, PTL DEF PortSpec, Refines

\* The ring buffers, the counts and the receive loop of ipc.c implement bounded
\* queues: no message is lost, duplicated, overwritten or out of order, for every
\* depth of the ring and however often handles are closed and created again.
THEOREM PortsImplementQueues == PortSpec => ImplementsMsgQueue
<1> QED
  BY RingInitInv, PortStepRefines, PTL DEF PortSpec, Refines, ImplementsMsgQueue, Abstract!Spec

=============================================================================
