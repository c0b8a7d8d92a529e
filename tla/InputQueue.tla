----------------------------- MODULE InputQueue -----------------------------
(***************************************************************************)
(* The event queue between the input drivers and the window server         *)
(* (kernel/hal/input/input.c).  Three producers run on different           *)
(* processors: the mouse driver (one at a time, under ps2_lock), the       *)
(* keyboard driver, and a write to /sys that warps the pointer.  Each      *)
(* input_push and each update of the pointer is atomic under input_lock;   *)
(* between the two the lock is free.                                       *)
(*                                                                         *)
(* The pointer has a position on one axis.  A reader keeps what it has     *)
(* been told.                                                              *)
(***************************************************************************)
EXTENDS Integers, SequencesExt

CONSTANTS
    QSIZE,          \* slots of the ring, one of which stays free
    bw,             \* width of the screen
    Deltas,         \* movements that a mouse packet can report
    ButtonSet,      \* buttons: 0, 1, 2 in the code
    MaxKeys,        \* bound on the keys pressed
    MaxMoves,       \* bound on the mouse packets
    MaxWheels,      \* bound on the packets of these that turn the wheel
    MaxWarps,       \* bound on the warps
    WarpRaces       \* a warp may overlap a packet of the mouse

ASSUME InputAssumption ==
    /\ QSIZE \in Nat /\ QSIZE > 1 /\ bw \in Nat \ {0}
    /\ Deltas \subseteq Int /\ ButtonSet \subseteq Nat
    /\ {MaxKeys, MaxMoves, MaxWheels, MaxWarps} \subseteq Nat /\ WarpRaces \in BOOLEAN

VARIABLES
    evq,            \* queue[qtail], ... , queue[qhead - 1]
    mx, mbtn,       \* the pointer: position, buttons that are down
    todo,           \* events that the mouse driver and the warp still push
    pressed, moved, turned, warped,
    read_keys,      \* keys that the reader has got
    view,           \* the pointer as the reader knows it
    dropped          \* an event of the mouse has been dropped

inputVars == <<evq, mx, mbtn, todo, pressed, moved, turned, warped, read_keys, view, dropped>>
counts == <<pressed, moved, turned, warped>>
reader == <<read_keys, view>>

Move(x) == [type |-> "move", x |-> x, b |-> 0]
Down(x, b) == [type |-> "down", x |-> x, b |-> b]
Up(x, b) == [type |-> "up", x |-> x, b |-> b]
Wheel(x) == [type |-> "wheel", x |-> x, b |-> 0]
Key(k) == [type |-> "key", x |-> 0, b |-> k]

InputInit ==
    /\ evq = <<>> /\ mx = bw \div 2 /\ mbtn = {}
    /\ todo = [p \in {"mouse", "warp"} |-> <<>>]
    /\ pressed = 0 /\ moved = 0 /\ turned = 0 /\ warped = 0
    /\ read_keys = <<>> /\ view = [x |-> bw \div 2, down |-> {}]
    /\ dropped = FALSE

-----------------------------------------------------------------------------
(* input_push. *)

\* Mutant: a move replaces whatever event is the last one.
CoalescesAny(e) == e.type = "move" /\ evq # <<>>
\* A move replaces a move that is the last event.
Coalesces(e) == e.type = "move" /\ evq # <<>> /\ Last(evq).type = "move"

Full == Len(evq) = QSIZE - 1

Pointer(e) == e.type \in {"move", "down", "up"}

\* On a full ring an event of the pointer is dropped; a key or the wheel takes
\* the place of the oldest event.
input_push(e) ==
    \/ /\ Coalesces(e)
       /\ evq' = Append(Front(evq), e) /\ UNCHANGED dropped
    \/ /\ ~Coalesces(e) /\ Full /\ Pointer(e)
       /\ dropped' = TRUE /\ UNCHANGED evq
    \/ /\ ~Coalesces(e) /\ Full /\ ~Pointer(e)
       /\ evq' = Append(Tail(evq), e)
       /\ dropped' = (dropped \/ Pointer(Head(evq)))
    \/ /\ ~Coalesces(e) /\ ~Full
       /\ evq' = Append(evq, e) /\ UNCHANGED dropped

-----------------------------------------------------------------------------
(* The producers. *)

\* The pointer stays on the screen.
Clamp(x) == IF x < 0 THEN 0 ELSE IF x > bw - 1 THEN bw - 1 ELSE x

\* Whether the other user of the pointer is between its two critical sections.
Alone(p) == WarpRaces \/ todo[p] = <<>>

KeyPress ==
    /\ pressed < MaxKeys
    /\ pressed' = pressed + 1
    /\ input_push(Key(pressed + 1))
    /\ UNCHANGED <<mx, mbtn, todo, moved, turned, warped, reader>>

\* The buttons that changed.
Changed(buttons) == (buttons \ mbtn) \cup (mbtn \ buttons)

\* The events of a packet: the move, the buttons in their order, the wheel.
PacketEvents(x, buttons, wheel) ==
    LET changes == SetToSortSeq(Changed(buttons), LAMBDA a, b : a < b)
    IN  <<Move(x)>>
        \o [i \in 1..Len(changes) |-> IF changes[i] \in buttons THEN Down(x, changes[i])
                                      ELSE Up(x, changes[i])]
        \o (IF wheel THEN <<Wheel(x)>> ELSE <<>>)

\* input_update_mouse up to the release of the lock: the speed is 2.
input_update_mouse(dx, buttons, wheel) ==
    LET nx == Clamp(mx + 2 * dx)
    IN  /\ todo["mouse"] = <<>> /\ moved < MaxMoves /\ Alone("warp")
        /\ wheel => turned < MaxWheels
        /\ moved' = moved + 1 /\ turned' = turned + (IF wheel THEN 1 ELSE 0)
        /\ mx' = nx /\ mbtn' = buttons
        /\ todo' = [todo EXCEPT !["mouse"] = PacketEvents(nx, buttons, wheel)]
        /\ UNCHANGED <<evq, pressed, warped, reader, dropped>>

\* input_warp_mouse up to the release of the lock.
input_warp_mouse(x) ==
    /\ todo["warp"] = <<>> /\ warped < MaxWarps /\ Alone("mouse")
    /\ warped' = warped + 1
    /\ mx' = Clamp(x)
    /\ todo' = [todo EXCEPT !["warp"] = <<Move(Clamp(x))>>]
    /\ UNCHANGED <<evq, mbtn, pressed, moved, turned, reader, dropped>>

\* The next input_push of a producer.  input_mouse_wheel reads the position
\* when it is called.
PushNext(p) ==
    LET e == Head(todo[p])
    IN  /\ todo[p] # <<>>
        /\ input_push(IF e.type = "wheel" THEN Wheel(mx) ELSE e)
        /\ todo' = [todo EXCEPT ![p] = Tail(@)]
        /\ UNCHANGED <<mx, mbtn, counts, reader>>

-----------------------------------------------------------------------------
(* The reader. *)

\* What the reader knows of the pointer after an event.
Seen(v, e) ==
    [x |-> IF e.type = "key" THEN v.x ELSE e.x,
     down |-> IF e.type = "down" THEN v.down \cup {e.b}
              ELSE IF e.type = "up" THEN v.down \ {e.b} ELSE v.down]

input_poll ==
    LET e == Head(evq)
    IN  /\ evq # <<>>
        /\ evq' = Tail(evq)
        /\ view' = Seen(view, e)
        /\ read_keys' = IF e.type = "key" THEN Append(read_keys, e.b) ELSE read_keys
        /\ UNCHANGED <<mx, mbtn, todo, counts, dropped>>

-----------------------------------------------------------------------------

InputNext ==
    \/ KeyPress
    \/ \E d \in Deltas, s \in SUBSET ButtonSet, w \in BOOLEAN : input_update_mouse(d, s, w)
    \/ \E x \in {-1, bw} : input_warp_mouse(x)
    \/ \E p \in {"mouse", "warp"} : PushNext(p)
    \/ input_poll

InputSpec == InputInit /\ [][InputNext]_inputVars

-----------------------------------------------------------------------------
(* Properties. *)

\* The types of the variables; the ring holds at most QSIZE - 1 events.
InputTypeOK ==
    /\ Len(evq) <= QSIZE - 1 /\ mx \in 0..(bw - 1) /\ mbtn \subseteq ButtonSet
    /\ view.x \in 0..(bw - 1) /\ view.down \subseteq ButtonSet

\* The keys in the queue.
QueuedKeys == LET ks == SelectSeq(evq, LAMBDA e : e.type = "key")
              IN  [i \in 1..Len(ks) |-> ks[i].b]

\* No key is lost while input_push has room: a key leaves the queue unread only
\* from a full ring, for a key or a turn of the wheel.
KeyKeptStep ==
    \A k \in ToSet(QueuedKeys) :
        \/ k \in ToSet(QueuedKeys') \cup ToSet(read_keys')
        \/ Len(evq) = QSIZE - 1 /\ ~Pointer(Last(evq'))
KeyKept == [][KeyKeptStep]_inputVars

\* "Full: never drop keys": all keys pressed are read or queued.
NeverDropKeys == Len(read_keys) + Len(QueuedKeys) = pressed

\* Unless an event has been dropped, a reader that empties the queue has the
\* pointer and its buttons as the kernel has them: coalescing moves and pushing
\* the events after the lock is released lose nothing.
ViewFollows ==
    (todo["mouse"] = <<>> /\ todo["warp"] = <<>> /\ ~dropped)
        => FoldLeft(Seen, view, evq) = [x |-> mx, down |-> mbtn]

\* The reader of the queue follows the kernel's pointer and gets the keys.
EventsFollow == [](InputTypeOK /\ ViewFollows) /\ KeyKept

=============================================================================
