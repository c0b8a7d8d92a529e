-------------------------------- MODULE Ps2 ---------------------------------
(***************************************************************************)
(* The PS/2 keyboard and mouse drivers (kernel/hal/input/keyboard.c,       *)
(* mouse.c and keyboard_poll of kernel/hal/timers/timer.c).  Keyboard and  *)
(* mouse share one output port.  The interrupt handlers run on the boot    *)
(* processor "bsp"; its tick polls mouse then keyboard, and the tick of    *)
(* another processor "ap" polls the mouse.  ps2_lock is held by the polls  *)
(* and by mouse_isr, not by keyboard_isr.                                  *)
(*                                                                         *)
(* A keyboard byte is [aux |-> FALSE, n, i] and a mouse byte               *)
(* [aux |-> TRUE, n, i]: byte i of stroke or packet n.  The first byte of  *)
(* a stroke of two bytes is 0xE0; the first byte of a packet has bit 3     *)
(* set, by which it is told from the others (whose bit 3 is taken to be    *)
(* clear).  Strokes of shift, which only set a flag, are left out.         *)
(***************************************************************************)
EXTENDS Naturals, SequencesExt

CONSTANTS
    Strokes,        \* number of bytes of each stroke on the keyboard
    Packets,        \* number of mouse packets
    packet_size,    \* bytes of a mouse packet: 4 with a wheel
    MouseLoop,      \* iterations of mouse_poll
    KeyLoop,        \* iterations of keyboard_poll
    LateIrq12       \* IRQ12 stays pending when a poll has taken its byte

ASSUME Ps2Assumption ==
    /\ Strokes \in Seq({1, 2}) /\ Packets \in Nat /\ packet_size \in {3, 4}
    /\ MouseLoop \in Nat \ {0} /\ KeyLoop \in Nat \ {0}
    /\ LateIrq12 \in BOOLEAN

VARIABLES
    kbd_out, mouse_out,     \* bytes that the devices have still to send
    obf, latch,             \* output buffer full; the byte of port 0x60
    irq1, irq12,            \* pending interrupts
    ps2_lock,               \* "none", "bsp" or "ap"
    pc, iter,               \* where each processor is, and in which iteration
    e0,
    cycle, packet,
    keys, moves             \* strokes and packets passed on to the input queue

ps2Vars == <<kbd_out, mouse_out, obf, latch, irq1, irq12, ps2_lock, pc, iter, e0,
             cycle, packet, keys, moves>>
devices == <<kbd_out, mouse_out>>
kbdState == <<e0, keys>>
mouseState == <<cycle, packet, moves>>

Cpus == {"bsp", "ap"}

StrokeBytes(n) == [i \in 1..Strokes[n] |-> [aux |-> FALSE, n |-> n, i |-> i - 1]]
PacketBytes(n) == [i \in 1..packet_size |-> [aux |-> TRUE, n |-> n, i |-> i - 1]]

Ps2Init ==
    /\ kbd_out = FlattenSeq([n \in 1..Len(Strokes) |-> StrokeBytes(n)])
    /\ mouse_out = FlattenSeq([n \in 1..Packets |-> PacketBytes(n)])
    /\ obf = FALSE /\ latch = [aux |-> TRUE, n |-> 0, i |-> 1]
    /\ irq1 = FALSE /\ irq12 = FALSE
    /\ ps2_lock = "none" /\ pc = [c \in Cpus |-> "idle"] /\ iter = [c \in Cpus |-> 0]
    /\ e0 = FALSE /\ keys = <<>>
    /\ cycle = 0 /\ packet = <<>> /\ moves = <<>>

-----------------------------------------------------------------------------
(* The controller presents the next byte of a device and raises its        *)
(* interrupt.                                                               *)

Present(b) == obf' = TRUE /\ latch' = b

Controller ==
    /\ ~obf
    /\ \/ /\ kbd_out # <<>> /\ Present(Head(kbd_out)) /\ kbd_out' = Tail(kbd_out)
          /\ irq1' = TRUE /\ UNCHANGED <<mouse_out, irq12>>
       \/ /\ mouse_out # <<>> /\ Present(Head(mouse_out)) /\ mouse_out' = Tail(mouse_out)
          /\ irq12' = TRUE /\ UNCHANGED <<kbd_out, irq1>>
    /\ UNCHANGED <<ps2_lock, pc, iter, kbdState, mouseState>>

\* A read of port 0x60 empties the buffer; the port keeps its value.
ReadPort == obf' = FALSE /\ UNCHANGED latch

-----------------------------------------------------------------------------
(* The byte handlers. *)

\* keyboard_handle_byte: a stroke is passed on with its last byte.
keyboard_handle_byte(b) ==
    IF ~b.aux /\ Strokes[b.n] = 2 /\ b.i = 0
    THEN e0' = TRUE /\ UNCHANGED keys
    ELSE /\ e0' = FALSE
         /\ keys' = Append(keys, [n |-> IF b.aux THEN 0 ELSE b.n, ext |-> e0])

NextCycle == (cycle + 1) % packet_size

\* mouse_process_byte: bytes are skipped until one can start a packet.
mouse_process_byte(b) ==
    IF cycle = 0 /\ ~(b.aux /\ b.i = 0)
    THEN UNCHANGED mouseState
    ELSE /\ cycle' = NextCycle
         /\ packet' = IF cycle = packet_size - 1 THEN <<>> ELSE Append(packet, b)
         /\ moves' = IF cycle = packet_size - 1 THEN Append(moves, Append(packet, b)) ELSE moves

-----------------------------------------------------------------------------
(* The handlers.  Interrupts are off in all of them, so that a processor is *)
(* in one of them at a time.                                                *)

At(c, where) == pc' = [pc EXCEPT ![c] = where]

\* The status port: a byte is there, and from the keyboard.
KeyReady == obf /\ ~latch.aux
\* Mutant: the byte may be from the keyboard.
MouseReadyAny == obf
\* The status port: a byte is there, and from the mouse.
MouseReady == obf /\ latch.aux

\* keyboard_isr reads the status, then the byte.
KeyboardIsr ==
    /\ pc["bsp"] = "idle" /\ irq1
    /\ irq1' = FALSE
    /\ IF KeyReady THEN At("bsp", "isr") ELSE UNCHANGED pc
    /\ UNCHANGED <<devices, obf, latch, irq12, ps2_lock, iter, kbdState, mouseState>>

KeyboardIsrRead ==
    /\ pc["bsp"] = "isr"
    /\ ReadPort /\ keyboard_handle_byte(latch) /\ At("bsp", "idle")
    /\ UNCHANGED <<devices, irq1, irq12, ps2_lock, iter, mouseState>>

\* mouse_isr reads the byte without a look at the status.
mouse_isr ==
    /\ pc["bsp"] = "idle" /\ irq12 /\ ps2_lock = "none"
    /\ irq12' = FALSE
    /\ ReadPort /\ mouse_process_byte(latch)
    /\ UNCHANGED <<devices, irq1, ps2_lock, pc, iter, kbdState>>

\* A tick takes the lock for mouse_poll.
Tick(c) ==
    /\ pc[c] = "idle" /\ ps2_lock = "none"
    /\ ps2_lock' = c /\ At(c, "mouse") /\ iter' = [iter EXCEPT ![c] = 0]
    /\ UNCHANGED <<devices, obf, latch, irq1, irq12, kbdState, mouseState>>

\* The status in an iteration of a poll: go on to the byte, or leave.
Look(c, here, ready, limit, read) ==
    /\ pc[c] = here
    /\ IF ready /\ iter[c] < limit
       THEN At(c, read) /\ UNCHANGED ps2_lock
       ELSE /\ ps2_lock' = "none"
            /\ At(c, IF c = "bsp" /\ here = "mouse" THEN "between" ELSE "idle")
    /\ UNCHANGED <<devices, obf, latch, irq1, irq12, iter, kbdState, mouseState>>

MouseLook(c) == Look(c, "mouse", MouseReady, MouseLoop, "mouse_read")
KeyLook == Look("bsp", "key", KeyReady, KeyLoop, "key_read")

MousePollRead(c) ==
    /\ pc[c] = "mouse_read"
    /\ ReadPort /\ mouse_process_byte(latch)
    /\ At(c, "mouse") /\ iter' = [iter EXCEPT ![c] = @ + 1]
    /\ irq12' = (irq12 /\ LateIrq12)
    /\ UNCHANGED <<devices, irq1, ps2_lock, kbdState>>

\* keyboard_poll follows mouse_poll in timer_tick.
KeyboardPoll ==
    /\ pc["bsp"] = "between" /\ ps2_lock = "none"
    /\ ps2_lock' = "bsp" /\ At("bsp", "key") /\ iter' = [iter EXCEPT !["bsp"] = 0]
    /\ UNCHANGED <<devices, obf, latch, irq1, irq12, kbdState, mouseState>>

KeyboardPollRead ==
    /\ pc["bsp"] = "key_read"
    /\ ReadPort /\ keyboard_handle_byte(latch)
    /\ At("bsp", "key") /\ iter' = [iter EXCEPT !["bsp"] = @ + 1]
    /\ UNCHANGED <<devices, irq1, irq12, ps2_lock, mouseState>>

-----------------------------------------------------------------------------

TickStep(c) == Tick(c) \/ MouseLook(c) \/ MousePollRead(c)
BspStep == TickStep("bsp") \/ KeyboardPoll \/ KeyLook \/ KeyboardPollRead \/ KeyboardIsrRead

Ps2Next ==
    \/ Controller \/ KeyboardIsr \/ mouse_isr \/ BspStep
    \/ TickStep("ap")

\* Ticks recur and the ticket lock lets every processor in; interrupts may
\* fail to arrive.
Ps2Fairness ==
    /\ WF_ps2Vars(Controller)
    /\ SF_ps2Vars(Tick("bsp")) /\ SF_ps2Vars(KeyboardPoll)
    /\ WF_ps2Vars(KeyLook \/ KeyboardPollRead \/ KeyboardIsrRead)
    /\ \A c \in Cpus : WF_ps2Vars(MouseLook(c) \/ MousePollRead(c))

Ps2Spec == Ps2Init /\ [][Ps2Next]_ps2Vars /\ Ps2Fairness

-----------------------------------------------------------------------------
(* Properties. *)

\* The types of the variables.
Ps2TypeOK ==
    /\ ps2_lock \in Cpus \cup {"none"} /\ cycle \in 0..(packet_size - 1) /\ Len(packet) = cycle
    /\ obf \in BOOLEAN /\ irq1 \in BOOLEAN /\ irq12 \in BOOLEAN /\ e0 \in BOOLEAN
    /\ iter["bsp"] \in 0..(MouseLoop + KeyLoop) /\ iter["ap"] \in 0..MouseLoop

\* Every stroke is passed on once, in order, with its prefix: keyboard_isr reads
\* no byte twice that keyboard_poll took, and no byte of the mouse.
KeysExact ==
    /\ Len(keys) <= Len(Strokes)
    /\ \A i \in 1..Len(keys) : keys[i] = [n |-> i, ext |-> Strokes[i] = 2]

\* Every packet that mouse_process_byte passes on is one that the mouse sent, in
\* order: no byte is lost, doubled or taken from the keyboard ("Safe to call from
\* any CPU's timer handler").
PacketsExact ==
    Len(moves) <= Packets /\ \A i \in 1..Len(moves) : moves[i] = PacketBytes(i)

\* Polling from the tick delivers all input even if no interrupt arrives.
InputArrives == <>(Len(keys) >= Len(Strokes) /\ Len(moves) >= Packets)

\* Keys and packets are exact, whichever CPU or interrupt reads the port.
InputExact == Ps2TypeOK /\ KeysExact /\ PacketsExact

=============================================================================
