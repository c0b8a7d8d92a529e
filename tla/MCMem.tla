------------------------------- MODULE MCMem --------------------------------
(***************************************************************************)
(* Memory and the window server for TLC: frames and address spaces, the    *)
(* kernel's heap, the program break, and the composer with its clients.    *)
(* They share no state: a behaviour is one of the part that it starts      *)
(* with, and the others stay as they are at the start.                     *)
(***************************************************************************)
EXTENDS MCMemory, Heap, Brk, Composer

MCIncrements == {-2, 1, 3}

\* The panel is at the bottom, the windows (of one row) at the top, one row apart.
MCPlace == [a \in Apps |-> [y |-> IF a \in Panels THEN FbH - 1 ELSE a - 1, h |-> 1]]

Scene(mode, apps, mortal, dock, n, rows) ==
    [mode |-> mode, apps |-> apps, mortal |-> mortal, dock |-> dock, presses |-> n, rows |-> rows]

\* Two windows, one of which is moved or both of which are raised; a window and a
\* panel, whose slots are used again; all messages of the dock; more clients than
\* slots; and the displays with a GPU and without a hardware cursor.
MCScenes ==
    {Scene("gpu", {1, 2}, {}, {}, 1, {1, 3}),
     Scene("gpu", {1, 2}, {}, {}, 2, {2}),
     Scene("gpu", {1, 3}, {1}, {"destroy_by_pid"}, 1, {1, 3}),
     Scene("gpu", {1}, {1}, ByPid, 1, {1, 2, 4}),
     Scene("gpu", {1, 2, 3}, {1}, {}, 0, {}),
     Scene("virgl", {1, 3}, {}, {}, 1, {1, 4}),
     Scene("virgl", {1}, {}, {}, 2, {1, 2, 4}),
     Scene("vga", {1}, {}, {}, 1, {1, 2, 4})}

\* Scenes in which ScreenExact does not hold: two windows that announce render
\* targets, overlapping surfaces on a display without a hardware cursor, and one
\* window that is moved while another one is drawn; and one for the upper edge.
TwoTargets == {Scene("virgl", {1, 2}, {}, {}, 1, {1, 3})}
OverlapVga == {Scene("vga", {1, 2, 3}, {}, {}, 1, {0})}
MoveAndDraw == {Scene("gpu", {1, 2}, {}, {}, 1, {1, 2, 4})}
UpperEdge == {Scene("gpu", {1}, {}, {}, 2, {0, 1})}

VARIABLE part

allMemVars == <<part, memVars, heapVars, brkVars, compVars>>

\* The scene of the parts that are not about windows does not matter.
AllMemInit ==
    /\ part \in {"spaces", "heap", "break", "windows"}
    /\ MemInit /\ HeapInit /\ BrkInit
    /\ CompInit /\ (part # "windows" => scene = CHOOSE s \in Scenes : TRUE)

\* A kernel that has panicked stops; a scene may end.
MayStop == part \in {"spaces", "windows"} /\ UNCHANGED allMemVars

AllMemNext ==
    \/ part = "spaces" /\ MemNext /\ UNCHANGED <<part, heapVars, brkVars, compVars>>
    \/ part = "heap" /\ HeapNext /\ UNCHANGED <<part, memVars, brkVars, compVars>>
    \/ part = "break" /\ BrkNext /\ UNCHANGED <<part, memVars, heapVars, compVars>>
    \/ part = "windows" /\ CompNext /\ UNCHANGED <<part, memVars, heapVars, brkVars>>
    \/ MayStop

AllMemSpec == AllMemInit /\ [][AllMemNext]_allMemVars
=============================================================================
