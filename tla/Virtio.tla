------------------------------- MODULE Virtio -------------------------------
(***************************************************************************)
(* The virtqueues (kernel/hal/virtio/virtio_pci.c) and the drivers that    *)
(* use them: reception and transmission of virtio_net.c, and the control   *)
(* and cursor queues of virtio_gpu.c.  Transmission and the two GPU queues *)
(* send one request at a time and wait for its completion with a bound;    *)
(* their callers follow each other (g_gpu_lock, one sender).  Reception    *)
(* hands its buffers to the device in advance.                             *)
(*                                                                         *)
(* A queue is [desc, avail, used, free_head]: the buffer that each         *)
(* descriptor points to, the chains that the device has not taken yet, the *)
(* completions that the driver has not taken yet, and the next descriptor  *)
(* to fill.                                                                *)
(***************************************************************************)
EXTENDS Naturals, SequencesExt

CONSTANTS
    Size,           \* descriptors of a queue
    RX_BUF_COUNT,   \* receive buffers
    MaxPackets,     \* bound on the packets that arrive
    MaxRequests,    \* bound on the requests sent on each queue
    MaxLost,        \* bound on the requests of a queue the device loses
    LateAnswers     \* the device may answer after the driver has given up

Chans == {"tx", "ctrl", "cursor"}

\* Descriptors of a request: a GPU command has one for its response.
NDesc(ch) == IF ch = "ctrl" THEN 2 ELSE 1

ASSUME VirtioAssumption ==
    /\ Size \in Nat /\ RX_BUF_COUNT \in 1..Size
    /\ MaxPackets \in Nat /\ MaxRequests \in Nat /\ MaxLost \in Nat
    /\ LateAnswers \in BOOLEAN

RxSlots == 0..(RX_BUF_COUNT - 1)

VARIABLES
    rxq,            \* the receive queue
    rx_mem,         \* packet in each receive buffer, 0 for none
    g_rx_desc_idx,
    arrived,        \* packets that the device has received
    got,            \* packets that the driver has passed on
    vq,             \* the queue of each channel
    vbuf,           \* what the command buffer of each channel holds
    vcall,          \* the request whose caller waits, 0 for none
    sent,           \* requests started on each channel
    lost,           \* requests lost on each channel
    held,           \* chains the device has taken from each channel
    seen            \* commands that the device has carried out, in order

rxVars == <<rxq, rx_mem, g_rx_desc_idx, arrived, got>>
chanVars == <<vq, vbuf, vcall, sent, lost, held, seen>>
virtioVars == <<rxVars, chanVars>>

-----------------------------------------------------------------------------
(* virtqueue_t. *)

EmptyQueue == [desc |-> [i \in 0..(Size - 1) |-> "none"], avail |-> <<>>, used |-> <<>>,
               free_head |-> 0]

HasRoom(q, n) == q.free_head + n <= Size

\* virtqueue_add_buf fills the next descriptors and makes the chain available.
AddBuf(q, bufs) ==
    [q EXCEPT !.desc = [i \in DOMAIN @ |->
                           IF i \in q.free_head..(q.free_head + Len(bufs) - 1)
                           THEN bufs[i - q.free_head + 1] ELSE @[i]],
              !.avail = Append(@, q.free_head),
              !.free_head = @ + Len(bufs)]

\* virtqueue_get_used: all descriptors can be reused.
GetUsed(q) == [q EXCEPT !.used = Tail(@), !.free_head = 0]

-----------------------------------------------------------------------------
(* Reception. *)

RxInit ==
    /\ rxq = FoldLeft(LAMBDA q, i : AddBuf(q, <<i - 1>>), EmptyQueue,
                      [i \in 1..RX_BUF_COUNT |-> i])
    /\ g_rx_desc_idx = [s \in RxSlots |-> s]
    /\ rx_mem = [s \in RxSlots |-> 0]
    /\ arrived = 0 /\ got = <<>>

\* The device stores a packet in the next available buffer.
Arrive ==
    LET id == Head(rxq.avail)
    IN  /\ rxq.avail # <<>> /\ arrived < MaxPackets
        /\ arrived' = arrived + 1
        /\ rx_mem' = [rx_mem EXCEPT ![rxq.desc[id]] = arrived + 1]
        /\ rxq' = [rxq EXCEPT !.avail = Tail(@), !.used = Append(@, id)]
        /\ UNCHANGED <<g_rx_desc_idx, got, chanVars>>

\* The first slot with the descriptor's number.
SlotOf(id) ==
    LET found == {s \in RxSlots : g_rx_desc_idx[s] = id}
    IN  CHOOSE s \in found : \A r \in found : s <= r

Copied(slot) == rx_mem[slot]

\* A buffer has been filled.
RxFilled == rxq.used # <<>>

virtio_net_recv ==
    LET slot == SlotOf(Head(rxq.used))
        q == GetUsed(rxq)
    IN  /\ RxFilled
        /\ IF {s \in RxSlots : g_rx_desc_idx[s] = Head(rxq.used)} = {}
           THEN rxq' = q /\ UNCHANGED <<rx_mem, g_rx_desc_idx, got>>
           ELSE /\ got' = Append(got, Copied(slot))
                /\ rx_mem' = [rx_mem EXCEPT ![slot] = 0]
                /\ IF HasRoom(q, 1)
                   THEN /\ rxq' = AddBuf(q, <<slot>>)
                        /\ g_rx_desc_idx' = [g_rx_desc_idx EXCEPT ![slot] = q.free_head]
                   ELSE rxq' = q /\ UNCHANGED g_rx_desc_idx
        /\ UNCHANGED <<arrived, chanVars>>

-----------------------------------------------------------------------------
(* Requests. *)

ChanInit ==
    /\ vq = [ch \in Chans |-> EmptyQueue]
    /\ vbuf = [ch \in Chans |-> 0] /\ vcall = [ch \in Chans |-> 0]
    /\ sent = [ch \in Chans |-> 0] /\ lost = [ch \in Chans |-> 0]
    /\ held = [ch \in Chans |-> {}] /\ seen = [ch \in Chans |-> <<>>]

\* gpu_cursor_send takes the completions that are left before it starts.
Drained(ch) ==
    IF ch = "cursor" /\ vq[ch].used # <<>>
    THEN [vq[ch] EXCEPT !.used = <<>>, !.free_head = 0] ELSE vq[ch]

Bufs(ch) == IF NDesc(ch) = 2 THEN <<"cmd", "resp">> ELSE <<"cmd">>

\* The command buffer is filled and the request made available.  Without room
\* the call fails and leaves no trace, except that transmission has filled its
\* buffer; that gpu_cursor_send waits for room first is a call that starts later.
SendRequest(ch) ==
    /\ vcall[ch] = 0 /\ sent[ch] < MaxRequests
    /\ sent' = [sent EXCEPT ![ch] = @ + 1]
    /\ IF HasRoom(Drained(ch), NDesc(ch))
       THEN /\ vq' = [vq EXCEPT ![ch] = AddBuf(Drained(ch), Bufs(ch))]
            /\ vcall' = [vcall EXCEPT ![ch] = sent[ch] + 1]
            /\ vbuf' = [vbuf EXCEPT ![ch] = sent[ch] + 1]
       ELSE /\ vbuf' = IF ch = "tx" THEN [vbuf EXCEPT ![ch] = sent[ch] + 1] ELSE vbuf
            /\ UNCHANGED <<vq, vcall>>
    /\ UNCHANGED <<lost, held, seen, rxVars>>

\* virtio_pci_wait_for_queue sees a completion.
Done(ch) == vq[ch].used # <<>>

\* The caller takes the completion and returns.
RequestDone(ch) ==
    /\ vcall[ch] # 0 /\ Done(ch)
    /\ vq' = [vq EXCEPT ![ch] = GetUsed(@)]
    /\ vcall' = [vcall EXCEPT ![ch] = 0]
    /\ UNCHANGED <<vbuf, sent, lost, held, seen, rxVars>>

\* Mutant: the wait is shorter than the device takes.
GivesUpEarly(ch) == TRUE
\* The wait reaches its bound.  Unless answers may be late the device has lost
\* the request.
GivesUp(ch) == LateAnswers \/ (vq[ch].avail = <<>> /\ held[ch] = {})

\* The caller gives up; its descriptors stay as they are.
RequestTimeout(ch) ==
    /\ vcall[ch] # 0 /\ vq[ch].used = <<>> /\ GivesUp(ch)
    /\ vcall' = [vcall EXCEPT ![ch] = 0]
    /\ UNCHANGED <<vq, vbuf, sent, lost, held, seen, rxVars>>

DeviceTakes(ch) ==
    /\ vq[ch].avail # <<>>
    /\ held' = [held EXCEPT ![ch] = @ \cup {Head(vq[ch].avail)}]
    /\ vq' = [vq EXCEPT ![ch].avail = Tail(@)]
    /\ UNCHANGED <<vbuf, vcall, sent, lost, seen, rxVars>>

\* The device reads the command buffer when it carries the command out.
DeviceAnswers(ch, id) ==
    /\ id \in held[ch]
    /\ held' = [held EXCEPT ![ch] = @ \ {id}]
    /\ seen' = [seen EXCEPT ![ch] = Append(@, vbuf[ch])]
    /\ vq' = [vq EXCEPT ![ch].used = Append(@, id)]
    /\ UNCHANGED <<vbuf, vcall, sent, lost, rxVars>>

DeviceLoses(ch, id) ==
    /\ id \in held[ch] /\ lost[ch] < MaxLost
    /\ held' = [held EXCEPT ![ch] = @ \ {id}]
    /\ lost' = [lost EXCEPT ![ch] = @ + 1]
    /\ UNCHANGED <<vq, vbuf, vcall, sent, seen, rxVars>>

-----------------------------------------------------------------------------

DeviceStep(ch) ==
    \/ DeviceTakes(ch)
    \/ \E id \in held[ch] : DeviceAnswers(ch, id) \/ DeviceLoses(ch, id)

VirtioInit == RxInit /\ ChanInit

VirtioNext ==
    \/ Arrive \/ virtio_net_recv
    \/ \E ch \in Chans :
          SendRequest(ch) \/ RequestDone(ch) \/ RequestTimeout(ch) \/ DeviceStep(ch)

\* The waits are loops with a bound, the device does not stop, and reception is
\* polled on every tick.
VirtioFairness ==
    /\ WF_virtioVars(virtio_net_recv)
    /\ \A ch \in Chans :
          WF_virtioVars(DeviceStep(ch)) /\ WF_virtioVars(RequestDone(ch) \/ RequestTimeout(ch))

VirtioSpec == VirtioInit /\ [][VirtioNext]_virtioVars /\ VirtioFairness

-----------------------------------------------------------------------------
(* Properties. *)

\* The types of the variables.
VirtioTypeOK ==
    /\ rxq.free_head \in 0..Size /\ \A ch \in Chans : vq[ch].free_head \in 0..Size
    /\ rx_mem \in [RxSlots -> 0..MaxPackets]
    /\ g_rx_desc_idx \in [RxSlots -> 0..(Size - 1)]
    /\ \A ch \in Chans : vbuf[ch] \in 0..MaxRequests /\ vcall[ch] \in 0..sent[ch]

\* Packets are passed on unchanged, in the order of their arrival, each once.
PacketsIntact == \A i \in 1..Len(got) : got[i] = i

\* Every receive buffer is either with the device or filled: none is dropped by
\* the reuse of descriptors.
BuffersKept == Len(rxq.avail) + Len(rxq.used) = RX_BUF_COUNT

\* Every descriptor that is with the device or filled belongs to one slot, whose
\* buffer it points to ("Find which slot corresponds to this descriptor index").
SlotOfDescriptor ==
    \A id \in ToSet(rxq.avail) \cup ToSet(rxq.used) :
        {s \in RxSlots : g_rx_desc_idx[s] = id} = {rxq.desc[id]}

\* A caller that is told its request is complete has had this very request
\* carried out: its packet is on the wire, its GPU response is its own.
SuccessOwn ==
    \A ch \in Chans :
        vcall[ch] # 0 /\ vq[ch].used # <<>> => seen[ch] # <<>> /\ Last(seen[ch]) = vcall[ch]

\* The device carries out every request at most once and in order, and sees
\* what the caller gave it ("Keep the one command buffer alive").
CommandsIntact ==
    \A ch \in Chans : \A i, j \in 1..Len(seen[ch]) : i < j => seen[ch][i] < seen[ch][j]

\* A request for which there was room returns.
RequestReturns == \A ch \in Chans : (vcall[ch] # 0) ~> (vcall[ch] = 0)

\* There is room for the next request whenever the last one has returned
\* ("reuse all descriptors for single-inflight").
RoomLeft == \A ch \in Chans : vcall[ch] = 0 => HasRoom(vq[ch], NDesc(ch))

\* A packet that the device has stored is passed on.
PacketsDelivered == \A n \in 1..MaxPackets : (arrived >= n) ~> (Len(got) >= n)

\* Both directions are exact: packets and requests, their buffers, and whose
\* completion is whose.
VirtioExact == VirtioTypeOK /\ PacketsIntact /\ BuffersKept /\ SuccessOwn /\ CommandsIntact

\* Both directions make progress.
VirtioReturns == RequestReturns /\ PacketsDelivered

=============================================================================
