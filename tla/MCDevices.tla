----------------------------- MODULE MCDevices ------------------------------
(***************************************************************************)
(* The drivers and the input queue for TLC: virtio queues, the PS/2        *)
(* controller, NVMe and the queue of input events.  They share no state: a *)
(* behaviour is one of the part that it starts with, and the others stay   *)
(* in a state in which they have nothing to do.                            *)
(***************************************************************************)
EXTENDS MCVirtio, Ps2, Nvme, InputQueue

MCStrokes == <<1, 2, 1>>
MCDeltas == {-1, 1}

VARIABLE part

driverVars == <<part, virtioVars, ps2Vars, nvmeVars, inputVars>>

\* No request may be sent and no packet has arrived.
VirtioOff ==
    /\ RxInit
    /\ sent = [ch \in Chans |-> MaxRequests] /\ vq = [ch \in Chans |-> EmptyQueue]
    /\ vbuf = [ch \in Chans |-> 0] /\ vcall = [ch \in Chans |-> 0]
    /\ lost = [ch \in Chans |-> 0]
    /\ held = [ch \in Chans |-> {}] /\ seen = [ch \in Chans |-> <<>>]

\* All input has been passed on, and the processors do not tick.
Ps2Off ==
    /\ kbd_out = <<>> /\ mouse_out = <<>>
    /\ obf = FALSE /\ latch = [aux |-> TRUE, n |-> 0, i |-> 1]
    /\ irq1 = FALSE /\ irq12 = FALSE
    /\ ps2_lock = "none" /\ pc = [c \in Cpus |-> "off"] /\ iter = [c \in Cpus |-> 0]
    /\ e0 = FALSE /\ keys = [i \in 1..Len(Strokes) |-> [n |-> i, ext |-> Strokes[i] = 2]]
    /\ cycle = 0 /\ packet = <<>> /\ moves = [i \in 1..Packets |-> PacketBytes(i)]

\* One of the initial states will do.
AnyOf(set) == CHOOSE x \in set : TRUE
NvmeOff ==
    /\ queue = "io" /\ toggles = TRUE
    /\ frame_mem = [f \in Frames |-> AnyOf(Contents)]
    /\ media = [b \in Lbas |-> AnyOf(Contents)]

DriverInit ==
    /\ part \in {"virtio", "ps2", "nvme", "input"}
    /\ IF part = "virtio" THEN MCVirtioInit ELSE VirtioOff
    /\ IF part = "ps2" THEN Ps2Init ELSE Ps2Off
    /\ NvmeInit /\ (part # "nvme" => NvmeOff)
    /\ InputInit

DriverNext ==
    \/ part = "virtio" /\ VirtioNext /\ UNCHANGED <<part, ps2Vars, nvmeVars, inputVars>>
    \/ part = "ps2" /\ Ps2Next /\ UNCHANGED <<part, virtioVars, nvmeVars, inputVars>>
    \/ part = "nvme" /\ NvmeNext /\ UNCHANGED <<part, virtioVars, ps2Vars, inputVars>>
    \/ part = "input" /\ InputNext /\ UNCHANGED <<part, virtioVars, ps2Vars, nvmeVars>>

\* Nothing that fairness speaks of is enabled in the parts that stay idle.
DriverSpec ==
    /\ DriverInit /\ [][DriverNext]_driverVars
    /\ VirtioFairness /\ Ps2Fairness /\ NvmeFairness

\* Whatever a device fails, loses or delays, the driver comes back: requests and
\* receptions of virtio queues, transfers of NVMe, and all input of the PS/2
\* controller even if no interrupt arrives.
DevicesAnswer == VirtioReturns /\ InputArrives /\ TransferReturns
=============================================================================
