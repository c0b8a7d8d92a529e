----------------------------- MODULE Composer ------------------------------
(***************************************************************************)
(* The window server (services/composer/main.c) and its clients: the dock, *)
(* the menu bar (panels) and terminals (windows with a title bar).         *)
(*                                                                         *)
(* The composer is one thread.  A round of its loop takes the input        *)
(* events, then the messages in its port, then removes the surfaces of     *)
(* processes that are gone (every 60th round), then moves or resizes what  *)
(* is being dragged and repaints the rows that it thinks have changed.     *)
(* The clients run between any two of these steps.                         *)
(*                                                                         *)
(* The screen is a column of rows: the x axis repeats what the y axis does *)
(* and has no title bar.  What is seen in a row is the sequence of layers  *)
(* painted there, bottom first; a title bar is opaque.  The cursor and the *)
(* rounded corners are left out, and so are overlays, display capture and  *)
(* the messages that no program of the repository sends, except for the    *)
(* three by process id, which wm.h gives to the dock.                      *)
(***************************************************************************)
EXTENDS Integers, Sequences, FiniteSets, SequencesExt

CONSTANTS
    Apps,           \* processes that open a surface
    Panels,         \* those that open a panel; the others open a window
    Place,          \* the y and the h that each asks for
    MAX_SURFACES,
    FbH,            \* fb_h
    BarH,           \* WM_TITLE_BAR_H
    Edge,           \* rows of the resize handles, 6
    MinH,           \* MIN_H
    Scenes,         \* the displays there may be ("vga", "gpu" without virgl, "virgl"), with
                    \* the processes that open a surface there, those of them that may
                    \* exit at any time and that the dock sends messages about, these
                    \* messages, the times that a button is pressed, and the rows
                    \* where the pointer may be
    PortCap,        \* bound: messages in the composer's port
    MaxDraws,       \* bound: times an application draws
    Buttons,        \* the buttons that are pressed on the desktop
    Habits          \* "mixed": a round may move one surface and repaint another;
                    \* "no_frames": memory may run out; "full_port": messages are sent
                    \* to a full port

None == -1
NoApp == 0
ByPid == {"destroy_by_pid", "hide_by_pid", "show_by_pid"}
Slot == 0 .. MAX_SURFACES - 1
Row == 0 .. FbH - 1

ASSUME ComposerAssumption ==
    /\ Apps \subseteq Nat \ {0} /\ Panels \subseteq Apps
    /\ Place \in [Apps -> [y : Nat, h : Nat \ {0}]]
    /\ {MAX_SURFACES, FbH, BarH, Edge, MinH, PortCap} \subseteq Nat \ {0} /\ MaxDraws \in Nat
    /\ Scenes \subseteq [mode : {"vga", "gpu", "virgl"}, apps : SUBSET Apps,
                          mortal : SUBSET Apps, dock : SUBSET ByPid, presses : Nat,
                          rows : SUBSET Row]

VARIABLES
    scene, phase, first,
    surfaces,
    zs,             \* the valid slots in the order of z_seq
    focused_idx, drag, resize, pointer_grab_idx,
    max_saved,      \* the bounds to restore, or those of a window that is not maximised
    z_changed, damage, old_sy,
    generation,     \* g_surface_generation_counter
    backing,        \* the layers painted in each row of the composer's buffer, kept only if
                    \* rows are shown that were not painted in the same round
    screen,         \* and those that are seen
    port,           \* messages to the composer
    app,            \* the clients: "target" if a render target is to be announced, "cut"
                    \* (for the properties only) if the dock had the surface destroyed
    held,           \* the left button is down
    presses         \* the times that it was pressed

tableVars == <<surfaces, zs, focused_idx, drag, resize, pointer_grab_idx, max_saved>>
paintVars == <<first, z_changed, damage, old_sy, backing, screen>>
compVars == <<scene, phase, tableVars, paintVars, generation, port, app, held, presses>>

NoSurface ==
    [valid |-> FALSE, y |-> 0, h |-> 0, panel |-> FALSE, is_gpu |-> FALSE, view |-> NoApp,
     pixels |-> FALSE, owner |-> NoApp, gen |-> 0, hidden |-> FALSE, dirty |-> FALSE]
NotDragging == [idx |-> None, off |-> 0]
NotResizing == [idx |-> None, top |-> FALSE, y |-> 0, h |-> 0, my |-> 0]
NotSaved == [y |-> 0, h |-> 0]

CompInit ==
    /\ scene \in Scenes /\ phase = "events" /\ first = TRUE
    /\ surfaces = [i \in Slot |-> NoSurface] /\ zs = <<>>
    /\ focused_idx = None /\ drag = NotDragging /\ resize = NotResizing
    /\ pointer_grab_idx = None /\ max_saved = [i \in Slot |-> NotSaved]
    /\ z_changed = FALSE /\ damage = [lo |-> FbH, hi |-> 0]
    /\ old_sy = [i \in Slot |-> 0] /\ generation = 0
    /\ backing = [r \in Row |-> <<>>] /\ screen = [r \in Row |-> <<>>]
    /\ port = <<>> /\ held = FALSE /\ presses = 0
    /\ app = [a \in Apps |-> [st |-> "off", idx |-> None, gen |-> 0, ver |-> 0,
                              told |-> TRUE, closed |-> FALSE, target |-> FALSE,
                              cut |-> FALSE]]

-----------------------------------------------------------------------------
\* Rows lo .. hi - 1.
EmptyRect == [lo |-> FbH, hi |-> 0]
FullRect == [lo |-> 0, hi |-> FbH]
Lower(a, b) == IF a < b THEN a ELSE b
Upper(a, b) == IF a > b THEN a ELSE b
Union(p, q) == [lo |-> Lower(p.lo, q.lo), hi |-> Upper(p.hi, q.hi)]
RowsOf(p) == {r \in Row : p.lo <= r /\ r < p.hi}

surface_total_h(s) == s.h + (IF s.panel THEN 0 ELSE BarH)
RectOf(s) == [lo |-> s.y, hi |-> s.y + surface_total_h(s)]
InBar(s, r) == ~s.panel /\ s.y <= r /\ r < s.y + BarH
InContent(s, r) == r \in RowsOf(RectOf(s)) /\ ~InBar(s, r)

damage_add(d, p) ==
    LET q == [lo |-> Upper(p.lo, 0), hi |-> Lower(p.hi, FbH)]
    IN  IF q.hi <= q.lo THEN d ELSE Union(d, q)

\* The composer sees whether a process exists.
Exists(o) == o = NoApp \/ app[o].st # "gone"

\* level_order of the windows, then of the panels, without those of the dead.
PaintOrder(S, Z) ==
    LET At(panel) == SelectSeq(Z, LAMBDA i : /\ ~S[i].hidden /\ S[i].panel = panel
                                             /\ Exists(S[i].owner))
    IN  At(FALSE) \o At(TRUE)

surface_at(r) ==
    LET hits == SelectSeq(PaintOrder(surfaces, zs),
                          LAMBDA i : r \in RowsOf(RectOf(surfaces[i])))
    IN  IF hits = <<>> THEN None ELSE Last(hits)

surface_is_topmost_in_level(i) ==
    LET same == SelectSeq(zs, LAMBDA j : j = i \/ (~surfaces[j].hidden
                                                   /\ surfaces[j].panel = surfaces[i].panel))
    IN  Last(same) = i

Raised(i) == Append(SelectSeq(zs, LAMBDA j : j # i), i)

-----------------------------------------------------------------------------
(* Painting *)

Bar(s, focus) == [gen |-> s.gen, part |-> "bar", is |-> IF focus THEN 1 ELSE 0]
Content(s, o) == [gen |-> s.gen, part |-> "content", is |-> IF o = NoApp THEN 0 ELSE app[o].ver]

\* draw_region: title bars are not clipped to the region.
draw_region(S, Z, rect, old) ==
    LET Paint(r, layers, i) ==
            IF ~S[i].is_gpu /\ ~S[i].pixels THEN layers
            ELSE IF InBar(S[i], r) THEN <<Bar(S[i], i = focused_idx)>>
            ELSE IF ~S[i].is_gpu /\ r \in RowsOf(rect) /\ InContent(S[i], r)
                 THEN Append(layers, Content(S[i], S[i].owner))
            ELSE layers
    IN  [r \in Row |-> FoldLeft(LAMBDA layers, i : Paint(r, layers, i),
                                IF r \in RowsOf(rect) THEN <<>> ELSE old[r], PaintOrder(S, Z))]

\* The quads of gpu_comp_present: above everything that was painted in backing.
Quads(S, Z, r) ==
    LET drawn == SelectSeq(PaintOrder(S, Z), LAMBDA i : S[i].view # NoApp /\ InContent(S[i], r))
    IN  [k \in DOMAIN drawn |-> Content(S[drawn[k]], S[drawn[k]].view)]

\* What is seen in a row after it was presented.
Presented(S, Z, back, r) == IF scene.mode = "virgl" THEN back[r] \o Quads(S, Z, r) ELSE back[r]

-----------------------------------------------------------------------------
(* The clients *)

Msg(type, a) == [type |-> type, from |-> a, idx |-> app[a].idx, gen |-> app[a].gen]
\* A message to a full port is dropped; no client looks at the answer of a dirty message.
Send(m) ==
    /\ Len(port) < PortCap \/ "full_port" \in Habits
    /\ port' = IF Len(port) < PortCap THEN Append(port, m) ELSE port
IsGpu(a) == scene.mode = "virgl" /\ a \notin Panels

ClientOnly == UNCHANGED <<scene, phase, tableVars, paintVars, generation, held, presses>>

\* create_surface, create_compositor_surface: the client then waits for the reply.
AskSurface(a) ==
    /\ app[a].st = "off" /\ a \in scene.apps
    /\ Send(Msg("create", a))
    /\ app' = [app EXCEPT ![a].st = "asked"]
    /\ ClientOnly

\* setup_gpu_resource, and xos_lvgl_pump after a WM_WINDOW_RESIZED.
SendGpuReady(a) ==
    /\ app[a].st = "ready" /\ app[a].target
    /\ Send(Msg("gpu_ready", a))
    /\ app' = [app EXCEPT ![a].target = FALSE]
    /\ ClientOnly

\* xos_flush_cb, and the panels: draw into the surface, then tell the composer.
Draw(a) ==
    /\ app[a].st = "ready" /\ ~app[a].target /\ app[a].told /\ app[a].ver < MaxDraws
    /\ app' = [app EXCEPT ![a].ver = @ + 1, ![a].told = FALSE]
    /\ UNCHANGED port /\ ClientOnly

SendDirty(a) ==
    /\ app[a].st = "ready" /\ ~app[a].told
    /\ Send(Msg("dirty", a))
    /\ app' = [app EXCEPT ![a].told = TRUE]
    /\ ClientOnly

\* terminal_main leaves its loop: it does not wait for WM_SURFACE_DESTROYED.
SendDestroy(a) ==
    /\ app[a].st = "ready" /\ app[a].closed /\ app[a].told
    /\ Send(Msg("destroy", a))
    /\ app' = [app EXCEPT ![a].st = "leaving"]
    /\ ClientOnly

\* It returns, crashes or is killed.
Leave(a) ==
    /\ app[a].st = "leaving" \/ (app[a].st \in {"asked", "ready"} /\ a \in scene.mortal)
    /\ app' = [app EXCEPT ![a] = [@ EXCEPT !.st = "gone", !.told = TRUE, !.closed = FALSE,
                                           !.target = FALSE]]
    /\ UNCHANGED port /\ ClientOnly

\* WM_HIDE_BY_PID, WM_SHOW_BY_PID and WM_DESTROY_BY_PID.
DockSends(type, a) ==
    /\ app[a].st \in {"ready", "gone"} /\ a \in scene.mortal
    /\ Send([Msg(type, a) EXCEPT !.from = NoApp, !.idx = a, !.gen = 0])
    /\ UNCHANGED app /\ ClientOnly

-----------------------------------------------------------------------------
(* The table of surfaces *)

Clamped(y, total) == LET low == IF y + total > FbH THEN FbH - total ELSE y
                     IN  Upper(low, 0)

\* spawn_surface_custom: without a free slot nobody is told.
spawn_surface_custom(o, panel, gpu, y, h, ok) ==
    LET free == {i \in Slot : ~surfaces[i].valid}
        i == CHOOSE k \in free : \A j \in free : k <= j
        s == [NoSurface EXCEPT !.valid = TRUE, !.h = h, !.panel = panel, !.is_gpu = gpu,
                               !.pixels = ok /\ ~gpu, !.owner = o, !.gen = generation + 1]
        y1 == Clamped(y, surface_total_h(s))
    IN  IF free = {} THEN UNCHANGED <<surfaces, zs, old_sy, generation, app>>
        ELSE /\ surfaces' = [surfaces EXCEPT ![i] = [s EXCEPT !.y = y1]]
             /\ zs' = Append(zs, i)
             /\ old_sy' = [old_sy EXCEPT ![i] = y1]
             /\ generation' = generation + 1
             /\ app' = IF o # NoApp /\ app[o].st = "asked" /\ (gpu \/ ok)
                       THEN [app EXCEPT ![o].st = "ready", ![o].idx = i,
                                        ![o].gen = generation + 1, ![o].target = gpu]
                       ELSE app

DamageOf(D) ==
    FoldLeft(LAMBDA d, i : IF i \in D THEN damage_add(d, RectOf(surfaces[i])) ELSE d, damage, zs)

\* destroy_surface of the slots in D.
destroy_surface(D) ==
    LET Without(i) == IF i \in D THEN None ELSE i
    IN  /\ surfaces' = [i \in Slot |-> IF i \in D THEN NoSurface ELSE surfaces[i]]
        /\ zs' = SelectSeq(zs, LAMBDA i : i \notin D)
        /\ focused_idx' = Without(focused_idx)
        /\ pointer_grab_idx' = Without(pointer_grab_idx)
        /\ drag' = IF drag.idx \in D THEN NotDragging ELSE drag
        /\ resize' = IF resize.idx \in D THEN NotResizing ELSE resize
        /\ max_saved' = [i \in Slot |-> IF i \in D THEN NotSaved ELSE max_saved[i]]
        /\ damage' = DamageOf(D)
        /\ z_changed' = (z_changed \/ D # {})

-----------------------------------------------------------------------------
(* Messages *)

Oks == IF "no_frames" \in Habits THEN BOOLEAN ELSE {TRUE}
Receive(type) ==
    /\ phase = "serve" /\ port # <<>> /\ Head(port).type = type
    /\ port' = Tail(port)
    /\ UNCHANGED <<scene, phase, first, backing, screen, held, presses>>

CreateSurface ==
    /\ Receive("create")
    /\ LET a == Head(port).from
       IN  \E ok \in Oks : spawn_surface_custom(a, a \in Panels, IsGpu(a), Place[a].y, Place[a].h, ok)
    /\ UNCHANGED <<focused_idx, drag, resize, pointer_grab_idx, max_saved, z_changed, damage>>

\* Mutant: a late message is taken for one of the slot's new owner.
AnyValid(m) == surfaces[m.idx].valid

\* The slot is valid, is the one the sender was given, and is the sender's.
Genuine(m) ==
    LET s == surfaces[m.idx] IN s.valid /\ s.gen = m.gen /\ s.owner = m.from

SurfaceDirty ==
    /\ Receive("dirty")
    /\ LET m == Head(port)
       IN  surfaces' = IF Genuine(m) THEN [surfaces EXCEPT ![m.idx].dirty = TRUE] ELSE surfaces
    /\ UNCHANGED <<zs, focused_idx, drag, resize, pointer_grab_idx, max_saved, z_changed, damage,
                   old_sy, generation, app>>

GpuReady ==
    /\ Receive("gpu_ready")
    /\ LET m == Head(port)
       IN  IF Genuine(m) /\ surfaces[m.idx].is_gpu
           THEN /\ surfaces' = [surfaces EXCEPT ![m.idx].view = m.from, ![m.idx].dirty = TRUE]
                /\ focused_idx' = IF surfaces[m.idx].panel THEN focused_idx ELSE m.idx
           ELSE UNCHANGED <<surfaces, focused_idx>>
    /\ UNCHANGED <<zs, drag, resize, pointer_grab_idx, max_saved, z_changed, damage, old_sy,
                   generation, app>>

DestroySurface ==
    /\ Receive("destroy")
    /\ destroy_surface(IF Genuine(Head(port)) THEN {Head(port).idx} ELSE {})
    /\ UNCHANGED <<old_sy, generation, app>>

OwnedBy(a) == {i \in Slot : surfaces[i].valid /\ surfaces[i].owner = a}

\* The first surface of the process only.
HideByPid(type, hide) ==
    /\ Receive(type)
    /\ LET mine == OwnedBy(Head(port).idx)
           i == CHOOSE k \in mine : \A j \in mine : k <= j
       IN  /\ surfaces' = IF mine = {} THEN surfaces ELSE [surfaces EXCEPT ![i].hidden = hide]
           /\ z_changed' = (z_changed \/ mine # {})
    /\ UNCHANGED <<zs, focused_idx, drag, resize, pointer_grab_idx, max_saved, damage, old_sy,
                   generation, app>>

DestroyByPid ==
    /\ Receive("destroy_by_pid")
    /\ LET a == Head(port).idx
       IN  /\ destroy_surface(OwnedBy(a))
           /\ app' = IF OwnedBy(a) = {} THEN app ELSE [app EXCEPT ![a].cut = TRUE]
    /\ UNCHANGED <<old_sy, generation>>

EndOfMessages ==
    /\ phase = "serve" /\ port = <<>> /\ phase' = "frame"
    /\ UNCHANGED <<scene, tableVars, paintVars, generation, port, app, held, presses>>

\* cull_dead_surfaces, every 60th round.
Cull ==
    /\ phase = "frame"
    /\ destroy_surface({i \in Slot : surfaces[i].valid /\ ~Exists(surfaces[i].owner)})
    /\ UNCHANGED <<scene, phase, first, old_sy, backing, screen, generation, port, app, held, presses>>

-----------------------------------------------------------------------------
(* Input *)

Pointer == phase = "events" /\ UNCHANGED <<scene, phase, first, backing, screen, port>>
Press == Pointer /\ ~held /\ presses < scene.presses /\ presses' = presses + 1

\* The right button opens a window of the composer's own (spawn_surface).
PressDesktop(r, button) ==
    /\ Press /\ held' = (button = "left") /\ surface_at(r) = None
    /\ focused_idx' = IF button = "left" THEN None ELSE focused_idx
    /\ damage' = IF button = "right" \/ focused_idx = None THEN damage
                 ELSE damage_add(damage, RectOf(surfaces[focused_idx]))
    /\ IF button = "left" THEN UNCHANGED <<surfaces, zs, old_sy, generation, app>>
       ELSE \E ok \in Oks : spawn_surface_custom(NoApp, FALSE, FALSE, r, MinH, ok)
    /\ UNCHANGED <<drag, resize, pointer_grab_idx, max_saved, z_changed>>

PressPanel(r) ==
    /\ Press /\ held' = TRUE /\ surface_at(r) # None
    /\ surfaces[surface_at(r)].panel
    /\ pointer_grab_idx' = surface_at(r)
    /\ UNCHANGED <<surfaces, zs, focused_idx, drag, resize, max_saved, z_changed, damage,
                   old_sy, generation, app>>

\* Mutant: the window that had the focus is not repainted.
FocusNewOnly(i) ==
    LET top == surface_is_topmost_in_level(i)
    IN  /\ focused_idx' = i
        /\ zs' = IF top THEN zs ELSE Raised(i)
        /\ damage' = IF top /\ focused_idx # i THEN damage_add(damage, RectOf(surfaces[i])) ELSE damage

\* A window is raised, or its title bar and that of the window that had the focus
\* are repainted.
Focus(i) ==
    LET top == surface_is_topmost_in_level(i)
        old == focused_idx
        d == IF old = None THEN damage ELSE damage_add(damage, RectOf(surfaces[old]))
    IN  /\ focused_idx' = i
        /\ zs' = IF top THEN zs ELSE Raised(i)
        /\ damage' = IF top /\ old # i THEN damage_add(d, RectOf(surfaces[i])) ELSE damage

\* What a press in row r of window s may hit.
Targets(s, r) ==
    IF r - s.y < Edge \/ r - s.y >= surface_total_h(s) - Edge THEN {"edge"}
    ELSE IF InBar(s, r) THEN {"close", "minimise", "maximise", "title"} ELSE {"content"}

Maximised(i) ==
    LET s == surfaces[i]
        to == IF max_saved[i] # NotSaved THEN max_saved[i] ELSE [y |-> 0, h |-> FbH - BarH]
    IN  [s EXCEPT !.y = to.y, !.h = to.h]

Notify(o, field) == IF o = NoApp \/ app[o].st # "ready" THEN app
                    ELSE IF field = "closed" THEN [app EXCEPT ![o].closed = TRUE]
                    ELSE [app EXCEPT ![o].target = IsGpu(o)]

PressWindow(r, what) ==
    /\ Press /\ held' = TRUE /\ surface_at(r) # None
    /\ ~surfaces[surface_at(r)].panel
    /\ what \in Targets(surfaces[surface_at(r)], r)
    /\ LET i == surface_at(r)
           s == surfaces[i]
       IN  /\ Focus(i)
           /\ z_changed' = (z_changed \/ ~surface_is_topmost_in_level(i)
                                      \/ what \in {"minimise", "maximise"})
           /\ pointer_grab_idx' = IF what \in {"edge", "title"} THEN None ELSE i
           /\ surfaces' = CASE what = "minimise" -> [surfaces EXCEPT ![i].hidden = TRUE]
                             [] what = "maximise" -> [surfaces EXCEPT ![i] = Maximised(i)]
                             [] OTHER -> surfaces
           /\ max_saved' = IF what # "maximise" THEN max_saved
                           ELSE [max_saved EXCEPT ![i] = IF @ # NotSaved THEN NotSaved
                                                         ELSE [y |-> s.y, h |-> s.h]]
           /\ drag' = IF what = "title" THEN [idx |-> i, off |-> r - s.y] ELSE drag
           /\ resize' = IF what # "edge" THEN resize
                        ELSE [idx |-> i, top |-> r - s.y < Edge, y |-> s.y, h |-> s.h, my |-> r]
           /\ app' = CASE what = "close" -> Notify(s.owner, "closed")
                        [] what = "maximise" -> Notify(s.owner, "target")
                        [] OTHER -> app
    /\ UNCHANGED <<old_sy, generation>>

ButtonUp ==
    /\ Pointer /\ held /\ held' = FALSE /\ UNCHANGED presses
    /\ drag' = NotDragging /\ resize' = NotResizing /\ pointer_grab_idx' = None
    /\ UNCHANGED <<surfaces, zs, focused_idx, max_saved, z_changed, damage, old_sy, generation, app>>

EndOfEvents ==
    /\ phase = "events" /\ phase' = "serve"
    /\ UNCHANGED <<scene, tableVars, paintVars, generation, port, app, held, presses>>

-----------------------------------------------------------------------------
(* The end of a round *)

\* The dragged window follows the pointer.
Dragged(s, my) ==
    LET y == Upper(my - drag.off, 0)
    IN  [s EXCEPT !.y = IF y + surface_total_h(s) > FbH THEN FbH - surface_total_h(s) ELSE y]

Resized(s, my) ==
    LET dy == my - resize.my
        up == Lower(dy, resize.h - MinH)
        low == Upper(resize.h + dy, MinH)
    IN  IF resize.top
        THEN [s EXCEPT !.y = Upper(resize.y + up, 0),
                       !.h = resize.h - up + Upper(-(resize.y + up), 0)]
        ELSE [s EXCEPT !.y = resize.y,
                       !.h = IF resize.y + low + BarH > FbH THEN FbH - resize.y - BarH ELSE low]

\* The table after the pointer was seen at my.
Moved(my) ==
    [i \in Slot |-> CASE i = drag.idx -> Dragged(surfaces[i], my)
                      [] i = resize.idx -> Resized(surfaces[i], my)
                      [] OTHER -> surfaces[i]]

DamageOfResize(S) ==
    LET i == resize.idx
    IN  IF i = None \/ S[i] = surfaces[i] THEN damage
        ELSE damage_add(damage_add(damage, RectOf(surfaces[i])), RectOf(S[i]))

\* Surfaces that are not where they were presented.
Displaced(S) == {i \in Slot : ~first /\ S[i].valid /\ S[i].y # old_sy[i]}

UnionOf(rects) == [lo |-> Min({p.lo : p \in rects \cup {EmptyRect}}),
                   hi |-> Max({p.hi : p \in rects \cup {EmptyRect}})]

compute_move_dirty_rect(S) ==
    UnionOf({Union(RectOf(S[i]), RectOf([S[i] EXCEPT !.y = old_sy[i]])) : i \in Displaced(S)})

DirtyRects(S, d) ==
    UnionOf({d} \cup {RectOf(S[i]) : i \in {j \in Slot : S[j].valid /\ S[j].dirty}})

\* A round that moves something repaints only where it was and where it is.
DirtyRect(S, d) ==
    IF first \/ z_changed THEN FullRect
    ELSE IF Displaced(S) # {} THEN compute_move_dirty_rect(S)
    ELSE DirtyRects(S, d)

\* Moves are presented at most every 33 ms if there is nothing else to present.
MayWait(S, d) ==
    /\ drag.idx # None /\ Displaced(S) # {} /\ ~first /\ ~z_changed
    /\ DirtyRects(S, d) = EmptyRect

\* Without a hardware cursor the rows where it was are restored from the buffer.
RestoreUnder(scr, back, c) == [r \in Row |-> IF r = c THEN back[r] ELSE scr[r]]

Present(S, d, c) ==
    LET rect == DirtyRect(S, d)
        back == draw_region(S, zs, rect, backing)
    IN  /\ rect # EmptyRect
        /\ backing' = IF scene.mode = "vga" THEN back ELSE backing
        /\ screen' = RestoreUnder([r \in Row |-> IF r \in RowsOf(rect) THEN Presented(S, zs, back, r)
                                                ELSE screen[r]], back, c)
        /\ surfaces' = [i \in Slot |-> [S[i] EXCEPT !.dirty = FALSE]]
        /\ old_sy' = [i \in Slot |-> S[i].y]
        /\ damage' = EmptyRect /\ z_changed' = FALSE

Skip(S, d, c) ==
    /\ DirtyRect(S, d) = EmptyRect \/ MayWait(S, d)
    /\ surfaces' = S /\ damage' = d
    /\ screen' = RestoreUnder(screen, backing, c)
    /\ UNCHANGED <<backing, old_sy, z_changed>>

\* A round that moves something has nothing to repaint elsewhere.
Simple(S, d) == RowsOf(DirtyRects(S, d)) \subseteq RowsOf(DirtyRect(S, d))

Frame(my, c) ==
    LET S == Moved(my)
        d == DamageOfResize(S)
        i == resize.idx
    IN  /\ phase = "frame" /\ phase' = "events" /\ first' = FALSE
        /\ "mixed" \in Habits \/ Simple(S, d)
        /\ Present(S, d, c) \/ Skip(S, d, c)
        /\ app' = IF i # None /\ S[i] # surfaces[i] /\ S[i].h # resize.h
                  THEN Notify(S[i].owner, "target") ELSE app
        /\ UNCHANGED <<scene, zs, focused_idx, drag, resize, pointer_grab_idx, max_saved,
                       generation, port, held, presses>>

Messages ==
    \/ CreateSurface \/ SurfaceDirty \/ GpuReady \/ DestroySurface \/ DestroyByPid
    \/ HideByPid("hide_by_pid", TRUE) \/ HideByPid("show_by_pid", FALSE)
    \/ EndOfMessages

Inputs ==
    \/ \E r \in scene.rows : \/ \E b \in Buttons : PressDesktop(r, b)
                            \/ PressPanel(r)
                            \/ \E w \in {"close", "minimise", "maximise", "title", "edge", "content"} :
                                   PressWindow(r, w)
    \/ ButtonUp \/ EndOfEvents

\* The pointer, and the row under the cursor if it has moved.
Pointed == IF drag.idx = None /\ resize.idx = None THEN {0} ELSE scene.rows
CursorRows == IF scene.mode = "vga" THEN Row \cup {None} ELSE {None}

Round ==
    \/ Inputs \/ Messages \/ Cull
    \/ \E my \in Pointed, c \in CursorRows : Frame(my, c)

Clients ==
    \E a \in Apps : \/ AskSurface(a) \/ SendGpuReady(a) \/ Draw(a) \/ SendDirty(a)
                   \/ SendDestroy(a) \/ Leave(a)
                   \/ \E type \in scene.dock : DockSends(type, a)

CompNext == Round \/ Clients
CompSpec == CompInit /\ [][CompNext]_compVars

-----------------------------------------------------------------------------
CompTypeOK ==
    /\ zs \in Seq(Slot) /\ \A j, k \in DOMAIN zs : zs[j] = zs[k] => j = k
    /\ \A i \in Slot : surfaces[i].valid <=> \E k \in DOMAIN zs : zs[k] = i
    /\ generation \in Nat /\ Len(port) <= PortCap
    /\ RowsOf(damage) = {} <=> damage = EmptyRect

\* Focus, drag, resize and pointer grab name surfaces that exist, and nothing is
\* dragged, resized or grabbed when the button is up.
IndexesLive ==
    /\ \A i \in {focused_idx, drag.idx, resize.idx, pointer_grab_idx} : i = None \/ surfaces[i].valid
    /\ ~held => drag.idx = None /\ resize.idx = None /\ pointer_grab_idx = None
    /\ drag.idx = None \/ resize.idx = None
    /\ \A i \in Slot : max_saved[i] # NotSaved => surfaces[i].valid

\* A process that has been given a surface keeps it, whatever comes late from those
\* that had the slot before; it is nobody else's, and only its render target is
\* shown in it.
SurfaceKept ==
    /\ \A a \in Apps : app[a].st = "ready" /\ ~app[a].cut =>
           LET s == surfaces[app[a].idx] IN s.valid /\ s.gen = app[a].gen /\ s.owner = a
    /\ \A i \in Slot : surfaces[i].view \in {NoApp, surfaces[i].owner}

\* No surface reaches beyond the screen.
OnScreen ==
    \A i \in Slot : surfaces[i].valid =>
        surfaces[i].y >= 0 /\ surfaces[i].y + surface_total_h(surfaces[i]) <= FbH

SurfacesExact == CompTypeOK /\ IndexesLive /\ SurfaceKept /\ OnScreen

\* Nothing is left to be presented: no change is pending, no message is under way,
\* every client has said what it drew, and the surfaces of the dead are gone.
Settled ==
    /\ phase = "events" /\ ~first /\ ~z_changed /\ damage = EmptyRect /\ port = <<>>
    /\ \A i \in Slot : surfaces[i].valid =>
           /\ ~surfaces[i].dirty /\ surfaces[i].y = old_sy[i] /\ Exists(surfaces[i].owner)
    /\ \A a \in Apps : app[a].st = "ready" => app[a].told /\ app[a].ver > 0 /\ ~app[a].target

\* When nothing is left to be presented, each row shows the surfaces that lie there,
\* in their order, as their owners last drew them, and the title bar of the window
\* that has the focus, and of no other, looks like it.
ScreenExact ==
    Settled => LET back == draw_region(surfaces, zs, FullRect, backing)
               IN  \A r \in Row : screen[r] = Presented(surfaces, zs, back, r)
=============================================================================
