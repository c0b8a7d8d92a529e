-------------------------------- MODULE Nvme --------------------------------
(***************************************************************************)
(* The NVMe driver (kernel/hal/block/nvme.c): one submission and one       *)
(* completion ring shared with the controller, a poll that gives up, and   *)
(* the bounce frame of each transfer.  The file system, the only user,     *)
(* holds its lock over every transfer, so there is one caller at a time;   *)
(* the controller works next to it, fails commands and loses some.         *)
(*                                                                         *)
(* The admin queue is driven in the same way by submit_admin, which also   *)
(* checks the phase bit.                                                   *)
(***************************************************************************)
EXTENDS Naturals, FiniteSets

CONSTANTS
    Lbas,           \* blocks of the device
    Contents,       \* what a block holds
    Frames,         \* frames for bounce buffers
    Depth,          \* entries of a ring
    MaxCid,         \* the largest command identifier
    MaxLosses,      \* bound on the commands the controller loses
    Late            \* the controller may answer after the driver has given up

ASSUME NvmeAssumption ==
    /\ Depth \in Nat \ {0, 1} /\ MaxLosses \in Nat
    /\ MaxCid \in Nat /\ Depth + MaxLosses < MaxCid
    /\ Late \in BOOLEAN

Entries == 0..(Depth - 1)
NoCmd == [op |-> "none", cid |-> 0]
NoCqe == [cid |-> 0, phase |-> 0, ok |-> TRUE]

VARIABLES
    queue,          \* the queue pair in use: "io" or "admin"
    toggles,        \* the controller inverts the phase when it wraps
    next_cid,
    sq, sq_tail,    \* submission ring, driver's index
    cq, cq_head, cq_phase,          \* completion ring, driver's index and phase
    dev_sq, dev_cq, dev_phase,      \* controller's indices and phase
    losses,         \* commands lost so far
    running,        \* commands that the controller has fetched
    cmd,            \* the command of the caller
    frame_mem,      \* contents of the frames
    media,          \* contents of the blocks
    maybe           \* contents a block may have for all the callers know

nvmeVars == <<queue, toggles, next_cid, sq, sq_tail, cq, cq_head, cq_phase, dev_sq, dev_cq,
              dev_phase, losses, running, cmd, frame_mem, media, maybe>>
device == <<dev_sq, dev_cq, dev_phase, losses, running, cq, media>>

\* A controller that does not invert the phase is only met on the I/O queue:
\* the few admin commands never wrap the ring.
NvmeInit ==
    /\ queue \in {"io", "admin"} /\ toggles \in BOOLEAN
    /\ queue = "admin" => toggles
    /\ next_cid = 1
    /\ sq = [i \in Entries |-> NoCmd] /\ sq_tail = 0
    /\ cq = [i \in Entries |-> NoCqe] /\ cq_head = 0 /\ cq_phase = 1
    /\ dev_sq = 0 /\ dev_cq = 0 /\ dev_phase = 1 /\ losses = 0 /\ running = {}
    /\ cmd = NoCmd
    /\ frame_mem \in [Frames -> Contents]
    /\ media \in [Lbas -> Contents]
    /\ maybe = [b \in Lbas |-> {media[b]}]

-----------------------------------------------------------------------------
(* The driver. *)

\* The counter skips 0 when it wraps.
NextCid == IF next_cid = MaxCid THEN 1 ELSE next_cid + 1

Advance(i) == (i + 1) % Depth

\* nvme_read_block and nvme_write_block take a frame, fill it for a write, and
\* submit the command.
Submit(op, b, v, f) ==
    LET c == [op |-> op, cid |-> next_cid, lba |-> b, val |-> v, frame |-> f]
    IN  /\ cmd = NoCmd
        /\ cmd' = c
        /\ next_cid' = NextCid
        /\ sq' = [sq EXCEPT ![sq_tail] = c]
        /\ sq_tail' = Advance(sq_tail)
        /\ frame_mem' = IF op = "write" THEN [frame_mem EXCEPT ![f] = v] ELSE frame_mem
        /\ UNCHANGED <<queue, toggles, cq_head, cq_phase, device, maybe>>

\* Mutant: any completion will do.
MatchesAny == TRUE
\* The entry at the head answers this command.
Matches ==
    /\ cq[cq_head].cid = cmd.cid
    /\ queue = "admin" => cq[cq_head].phase = cq_phase

\* Mutant: a failed command leaves its entry in the ring.
ConsumedOk == cq[cq_head].ok
\* The entry is consumed whether the command failed or not.
Consumed == TRUE

\* The caller learns of the result and frees the frame.
Poll ==
    /\ cmd # NoCmd /\ Matches
    /\ IF Consumed
       THEN /\ cq_head' = Advance(cq_head)
            /\ cq_phase' = IF cq_head' = 0 THEN 1 - cq_phase ELSE cq_phase
       ELSE UNCHANGED <<cq_head, cq_phase>>
    /\ maybe' = IF cmd.op = "write" /\ ~cq[cq_head].ok
                THEN [maybe EXCEPT ![cmd.lba] = @ \cup {cmd.val}]
                ELSE IF cmd.op = "write" THEN [maybe EXCEPT ![cmd.lba] = {cmd.val}] ELSE maybe
    /\ cmd' = NoCmd
    /\ UNCHANGED <<queue, toggles, next_cid, sq, sq_tail, device, frame_mem>>

\* The command has reached the controller and neither an answer nor the command
\* is left there.
Lost == dev_sq = sq_tail /\ cmd \notin running /\ dev_cq = cq_head

\* The poll gives up; the frame is freed all the same.
Timeout ==
    /\ cmd # NoCmd /\ ~Matches
    /\ Late \/ Lost
    /\ maybe' = IF cmd.op = "write" THEN [maybe EXCEPT ![cmd.lba] = @ \cup {cmd.val}] ELSE maybe
    /\ cmd' = NoCmd
    /\ UNCHANGED <<queue, toggles, next_cid, sq, sq_tail, cq_head, cq_phase, device, frame_mem>>

-----------------------------------------------------------------------------
(* The controller. *)

Fetch ==
    /\ dev_sq # sq_tail
    /\ running' = running \cup {sq[dev_sq]}
    /\ dev_sq' = (dev_sq + 1) % Depth
    /\ UNCHANGED <<queue, toggles, next_cid, sq, sq_tail, cq, cq_head, cq_phase,
                   dev_cq, dev_phase, losses, cmd, frame_mem, media, maybe>>

Complete(c, ok) ==
    /\ c \in running /\ running' = running \ {c}
    /\ frame_mem' = IF ok /\ c.op = "read" THEN [frame_mem EXCEPT ![c.frame] = media[c.lba]]
                    ELSE frame_mem
    /\ media' = IF ok /\ c.op = "write" THEN [media EXCEPT ![c.lba] = frame_mem[c.frame]]
                ELSE media
    /\ cq' = [cq EXCEPT ![dev_cq] = [cid |-> c.cid, phase |-> dev_phase, ok |-> ok]]
    /\ dev_cq' = (dev_cq + 1) % Depth
    /\ dev_phase' = IF dev_cq' = 0 /\ toggles THEN 1 - dev_phase ELSE dev_phase
    /\ UNCHANGED <<queue, toggles, next_cid, sq, sq_tail, cq_head, cq_phase,
                   dev_sq, losses, cmd, maybe>>

Lose(c) ==
    /\ losses < MaxLosses /\ losses' = losses + 1
    /\ c \in running /\ running' = running \ {c}
    /\ UNCHANGED <<queue, toggles, next_cid, sq, sq_tail, cq, cq_head, cq_phase,
                   dev_sq, dev_cq, dev_phase, cmd, frame_mem, media, maybe>>

-----------------------------------------------------------------------------

NvmeDevice == Fetch \/ (\E c \in running : Lose(c) \/ \E ok \in BOOLEAN : Complete(c, ok))

NvmeNext ==
    \/ \E b \in Lbas, f \in Frames :
          Submit("read", b, 0, f) \/ \E v \in Contents : Submit("write", b, v, f)
    \/ Poll \/ Timeout \/ NvmeDevice

\* The poll is a loop with a bound, and the controller does not stop.
NvmeFairness == WF_nvmeVars(Poll \/ Timeout) /\ WF_nvmeVars(NvmeDevice)

NvmeSpec == NvmeInit /\ [][NvmeNext]_nvmeVars /\ NvmeFairness

-----------------------------------------------------------------------------
(* Properties. *)

\* The types of the variables.
NvmeTypeOK ==
    /\ next_cid \in 1..MaxCid
    /\ sq_tail \in Entries /\ cq_head \in Entries /\ dev_sq \in Entries /\ dev_cq \in Entries
    /\ cq_phase \in 0..1 /\ dev_phase \in 0..1
    /\ \A i \in Entries : cq[i].cid \in 0..MaxCid
    /\ Cardinality(running) <= 1
    /\ frame_mem \in [Frames -> Contents] /\ media \in [Lbas -> Contents]

\* When the poll reports success the controller has carried out this very
\* command: entries left from earlier laps of the ring, of either phase, are
\* not taken for it ("Only accept completions with matching CID to avoid stale
\* zeros").
SuccessMeansDone ==
    cmd # NoCmd /\ Matches /\ cq[cq_head].ok =>
        CASE cmd.op = "read" -> frame_mem[cmd.frame] = media[cmd.lba]
                                /\ media[cmd.lba] \in maybe[cmd.lba]
          [] cmd.op = "write" -> media[cmd.lba] = cmd.val

\* The controller touches a frame only while its caller waits: no transfer is
\* left when nvme_read_block or nvme_write_block frees the bounce frame.
DmaOwned ==
    /\ running \subseteq {cmd}
    /\ dev_sq # sq_tail => cmd # NoCmd

\* A transfer returns, however often earlier ones failed or were lost.
TransferReturns == (cmd # NoCmd) ~> (cmd = NoCmd)

\* Transfers are exact: success means done, and nothing is left with the
\* controller.
TransfersExact == NvmeTypeOK /\ SuccessMeansDone /\ DmaOwned

=============================================================================
