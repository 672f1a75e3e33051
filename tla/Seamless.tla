------------------------------ MODULE Seamless ------------------------------
(***************************************************************************)
(* Seamless windows (seamless.c and the ui_seamless_ and sw_ functions of  *)
(* xwin.c).  Each window of the server's desktop becomes an X window.  The *)
(* server and the user both move windows and change their states; commands *)
(* cross on the channel, and the client ignores the server's positions     *)
(* until its own one is acknowledged.                                      *)
(*                                                                         *)
(* Left out: titles, focus, persistence and stacking order.  A position    *)
(* stands for an origin and a size.                                        *)
(***************************************************************************)
EXTENDS Integers, Sequences, FiniteSets, SequencesExt

CONSTANTS
    SwIds,          \* window ids of the server
    SwGroups,       \* group ids
    SwPlaces,       \* positions
    MaxSwChanges    \* changes of server, user and connection (bound)

ASSUME SeamlessConstants ==
    /\ SwPlaces # {} /\ MaxSwChanges \in Nat

VARIABLES
    sw,         \* the client: windows, flags, X events still queued
    swSrv,      \* the server's windows, and the counters of the bounds
    swUp,       \* commands to the server
    swDown      \* commands to the client

swVars == <<sw, swSrv, swUp, swDown>>

States == {"normal", "minimized"}
NoWindow == [open |-> FALSE, pos |-> CHOOSE p \in SwPlaces : TRUE, state |-> "normal",
             group |-> CHOOSE g \in SwGroups : TRUE]

SeamlessTypeOK ==
    /\ {sw.started, sw.active, sw.hidden, sw.mapped, sw.status} \subseteq BOOLEAN
    /\ {sw.suppressed, sw.raced, sw.stale, sw.unsettled} \subseteq BOOLEAN
    /\ \A i \in 1 .. Len(sw.windows) :
           LET w == sw.windows[i]
           IN /\ w.id \in SwIds /\ w.group \in SwGroups /\ {w.pos, w.x, w.outpos} \subseteq SwPlaces
              /\ w.state \in States \cup {"notyetmapped"} /\ w.xstate \in States
              /\ {w.outstanding, w.timer, w.moved, w.changed, w.iconOpen} \subseteq BOOLEAN
    /\ sw.refs \in [SwGroups -> 0 .. Cardinality(SwIds)]
    /\ \A id \in SwIds : swSrv.windows[id].pos \in SwPlaces /\ swSrv.windows[id].state \in States

-----------------------------------------------------------------------------
(* Windows of the client *)

Known(c, id) == \E i \in 1 .. Len(c.windows) : c.windows[i].id = id

IndexOf(c, id) == CHOOSE i \in 1 .. Len(c.windows) : c.windows[i].id = id

WindowById(c, id) == c.windows[IndexOf(c, id)]

SetWindow(c, id, w) == [c EXCEPT !.windows[IndexOf(c, id)] = w]

(* sw_remove_window: the group goes with its last window. *)
RemoveWindow(c, id) ==
    [c EXCEPT !.windows = SelectSeq(@, LAMBDA w : w.id # id),
              !.refs[WindowById(c, id).group] = @ - 1]

RemoveAll(c) == [c EXCEPT !.windows = << >>, !.refs = [g \in SwGroups |-> 0]]

(* ui_seamless_create_window: an existing window is left alone. *)
CreateWindow(c, id, group) ==
    IF ~c.active \/ Known(c, id) THEN c
    ELSE [c EXCEPT
             !.refs[group] = @ + 1,
             !.windows = <<[id |-> id, group |-> group, state |-> "notyetmapped",
                            pos |-> NoWindow.pos, x |-> NoWindow.pos, xstate |-> "normal",
                            outstanding |-> FALSE, serial |-> 0, outpos |-> NoWindow.pos,
                            timer |-> FALSE, moved |-> FALSE, changed |-> FALSE,
                            iconOpen |-> FALSE, buffer |-> << >>, icon |-> << >>]>> \o @]

DestroyWindow(c, id) == IF ~c.active \/ ~Known(c, id) THEN c ELSE RemoveWindow(c, id)

DestroyGroup(c, group) ==
    IF ~c.active THEN c
    ELSE FoldLeft(LAMBDA d, w : IF w.group = group THEN RemoveWindow(d, w.id) ELSE d,
                 c, c.windows)

(* seamless_send: each command has the next serial number.  (raced: the    *)
(* client changed a window after the last synchronisation it asked for and *)
(* before the answer.)                                                     *)
Send(c, command) ==
    [c EXCEPT !.out = Append(@, Append(command, c.serial)), !.serial = @ + 1,
              !.syncs = IF command[1] = "sync" THEN @ + 1 ELSE @,
              !.raced = command[1] # "sync" /\
                        (@ \/ (command[1] \in {"position", "state"} /\ c.syncs > 0))]

(* sw_update_position *)
UpdatePosition(c, id) ==
    LET w == WindowById(c, id)
    IN Send(SetWindow(c, id, [w EXCEPT !.outstanding = TRUE, !.serial = c.serial, !.outpos = w.x]),
            <<"position", id, w.x>>)

(* ConfigureNotify starts the timer.  Mutant: not while a position of the  *)
(* window is outstanding.                                                  *)
WindowConfigured_OneAtATime(c, id) ==
    LET w == WindowById(c, id)
    IN SetWindow(c, id, [w EXCEPT !.moved = FALSE, !.timer = @ \/ (c.active /\ ~w.outstanding)])

WindowConfigured(c, id) ==
    LET w == WindowById(c, id)
    IN SetWindow(c, id, [w EXCEPT !.moved = FALSE, !.timer = @ \/ c.active])

(* ui_seamless_move_window: the server's positions are ignored until it    *)
(* has handled ours.                                                       *)
MoveWindow(c, id, p) ==
    IF ~c.active \/ ~Known(c, id) \/ WindowById(c, id).outstanding THEN c
    ELSE LET w == WindowById(c, id)
         IN IF w.state = "minimized" THEN UpdatePosition(c, id)
            ELSE SetWindow(c, id, [w EXCEPT !.pos = p, !.x = p, !.moved = @ \/ p # w.x])

(* ui_seamless_ack: only the last position sent counts. *)
Ack(c, serial) ==
    LET Settled(w) == [w EXCEPT !.pos = w.outpos, !.outstanding = FALSE]
    IN [c EXCEPT !.windows = [i \in DOMAIN c.windows |->
           LET w == c.windows[i]
           IN IF w.outstanding /\ w.serial = serial THEN Settled(w) ELSE w]]

(* ui_seamless_setstate: the window manager reports the change later. *)
SetState(c, id, state) ==
    IF ~c.active \/ ~Known(c, id) THEN c
    ELSE LET w == WindowById(c, id)
         IN SetWindow(c, id, [w EXCEPT !.state = state, !.xstate = state,
                                       !.changed = @ \/ state # w.xstate])

(* ui_seamless_seticon: chunk 0 starts an icon, a full buffer is shown.    *)
SetIcon(c, id, chunk) ==
    IF ~c.active \/ ~Known(c, id) THEN c
    ELSE LET w == WindowById(c, id)
             b == Append(IF chunk[2] = 0 THEN << >> ELSE w.buffer, chunk)
         IN IF chunk[2] # 0 /\ ~w.iconOpen THEN c
            ELSE SetWindow(c, id, [w EXCEPT !.iconOpen = Len(b) < 2, !.buffer = b,
                                            !.icon = IF Len(b) >= 2 THEN b ELSE @])

-----------------------------------------------------------------------------
(* The desktop as windows or as one window *)

(* XMapWindow and XUnmapWindow of the main window queue an event. *)
MapMain(c, map) ==
    [c EXCEPT !.mapped = map, !.events = IF c.mapped = map THEN @ ELSE Append(@, map)]

Toggle(c) ==
    IF ~c.started \/ c.hidden THEN c
    ELSE IF c.active THEN [MapMain(RemoveAll(c), TRUE) EXCEPT !.active = FALSE]
    ELSE [Send(MapMain(c, FALSE), <<"sync">>) EXCEPT !.active = TRUE,
              !.unsettled = ~c.mapped \/ c.events # << >>]

(* ui_seamless_begin: the command is spawned once, not at each connection. *)
Begin(c, hidden) ==
    IF c.started THEN c
    ELSE LET d == [c EXCEPT !.started = TRUE, !.hidden = hidden]
             e == IF hidden THEN d ELSE Toggle(d)
         IN [(IF c.spawn THEN Send(e, <<"spawn">>) ELSE e) EXCEPT !.spawn = FALSE]

End(c) == [RemoveAll(c) EXCEPT !.started = FALSE, !.active = FALSE, !.hidden = FALSE]

HideDesktop(c) ==
    IF ~c.started THEN c ELSE [(IF c.active THEN Toggle(c) ELSE c) EXCEPT !.hidden = TRUE]

UnhideDesktop(c) == IF ~c.started THEN c ELSE Toggle([c EXCEPT !.hidden = FALSE])

SyncBegin(c) ==
    [(IF c.active THEN RemoveAll(c) ELSE c) EXCEPT !.syncs = @ - 1, !.stale = FALSE]

(* seamless_process_line: commands about windows, and about the desktop.   *)
WindowLine(c, m) ==
    CASE m[1] = "create" -> CreateWindow(c, m[2], m[3])
      [] m[1] = "destroy" -> DestroyWindow(c, m[2])
      [] m[1] = "destroygrp" -> DestroyGroup(c, m[2])
      [] m[1] = "position" -> MoveWindow(c, m[2], m[3])
      [] m[1] = "seticon" -> SetIcon(c, m[2], m[3])
      [] OTHER -> c

DesktopLine(c, m) ==
    CASE m[1] = "hello" -> Begin(c, m[2])
      [] m[1] = "state" -> SetState(c, m[2], m[3])
      [] m[1] = "syncbegin" -> SyncBegin(c)
      [] m[1] = "ack" -> Ack(c, m[2])
      [] m[1] = "hide" -> HideDesktop(c)
      [] m[1] = "unhide" -> UnhideDesktop(c)
      [] OTHER -> c

ProcessLine(c, m) == DesktopLine(WindowLine(c, m), m)

-----------------------------------------------------------------------------
(* Actions of the client *)

(* What the client sent in a step goes to the channel. *)
ClientIs(c) == sw' = [c EXCEPT !.out = << >>] /\ swUp' = swUp \o c.out

(* seamless_process: the lines of one packet. *)
LinesArrive ==
    /\ swDown # << >>
    /\ ClientIs(FoldLeft(ProcessLine, sw, Head(swDown)))
    /\ swDown' = Tail(swDown)
    /\ UNCHANGED swSrv

(* PropertyNotify reports the state the window manager gave the window. *)
PropertyNotify(c, id) ==
    LET w == WindowById(c, id)
    IN Send(SetWindow(c, id, [w EXCEPT !.changed = FALSE, !.state = w.xstate]),
            <<"state", id, w.xstate>>)

(* sw_check_timers *)
CheckTimer(c, id) ==
    UpdatePosition(SetWindow(c, id, [WindowById(c, id) EXCEPT !.timer = FALSE]), id)

WindowEvent ==
    /\ \E id \in SwIds :
           /\ Known(sw, id)
           /\ \/ WindowById(sw, id).moved /\ ClientIs(WindowConfigured(sw, id))
              \/ WindowById(sw, id).changed /\ ClientIs(PropertyNotify(sw, id))
              \/ sw.active /\ WindowById(sw, id).timer /\ ClientIs(CheckTimer(sw, id))
    /\ UNCHANGED <<swSrv, swDown>>

(* MapNotify and UnmapNotify: without seamless windows the server stops    *)
(* drawing while the main window is not shown.  The last status sent is    *)
(* remembered, over reconnections too, and not sent again.                 *)
SendSuppress(c, suppress) ==
    IF c.active \/ c.status = suppress THEN c
    ELSE [c EXCEPT !.status = suppress, !.suppressed = suppress]

MainEvent ==
    /\ sw.events # << >>
    /\ ClientIs(SendSuppress([sw EXCEPT !.events = Tail(@)], ~Head(sw.events)))
    /\ UNCHANGED <<swSrv, swDown>>

(* The user moves, minimizes, restores or closes a window, minimizes or    *)
(* restores the main window, or presses the hotkey.                        *)
User ==
    /\ swSrv.changes < MaxSwChanges
    /\ swSrv' = [swSrv EXCEPT !.changes = @ + 1]
    /\ \/ \E id \in SwIds :
              /\ Known(sw, id) /\ WindowById(sw, id).state # "notyetmapped"
              /\ LET w == WindowById(sw, id)
                 IN \/ \E p \in SwPlaces \ {w.x} :
                           ClientIs(SetWindow(sw, id, [w EXCEPT !.x = p, !.moved = TRUE]))
                    \/ \E s \in States \ {w.xstate} :
                           ClientIs(SetWindow(sw, id, [w EXCEPT !.xstate = s, !.changed = TRUE]))
                    \/ ClientIs(Send(sw, <<"destroy", id>>))
       \/ ~sw.active /\ ClientIs(MapMain(sw, ~sw.mapped))
       \/ ClientIs(Toggle(sw))
    /\ UNCHANGED swDown

(* The connection goes with all that was under way; the server's new one   *)
(* draws and says HELLO.  A reconnect for a resize ends seamless mode and  *)
(* makes a new main window.  One after a network error leaves windows and  *)
(* flags as they are; HELLO is then ignored.  (stale: the windows shown    *)
(* are of the old connection.)                                             *)
Connected(c) == [c EXCEPT !.suppressed = FALSE, !.syncs = 0, !.stale = c.active]

ResizeReconnected(c) ==
    [End(c) EXCEPT !.mapped = TRUE, !.events = @ \o <<FALSE, TRUE>>, !.unsettled = FALSE]

SwReconnect ==
    /\ swSrv.changes < MaxSwChanges
    /\ sw' \in {Connected(ResizeReconnected(sw)), Connected(sw)}
    /\ swUp' = << >> /\ swDown' = <<<<<<"hello", swSrv.hidden>>>>>>
    /\ swSrv' = [swSrv EXCEPT !.changes = @ + 1]

-----------------------------------------------------------------------------
(* Actions of the server *)

Announce(id, w) ==
    <<<<"create", id, w.group>>, <<"position", id, w.pos>>, <<"state", id, w.state>>>>

Changed(command) ==
    /\ swDown' = Append(swDown, command)
    /\ UNCHANGED <<sw, swUp>>

(* An id is not used again. *)
SrvChange ==
    /\ swSrv.changes < MaxSwChanges
    /\ \/ \E id \in SwIds, g \in SwGroups, s \in States :
              LET w == [NoWindow EXCEPT !.open = TRUE, !.group = g, !.state = s]
              IN /\ id \notin swSrv.used
                 /\ swSrv' = [swSrv EXCEPT !.windows[id] = w, !.used = @ \cup {id},
                                           !.changes = @ + 1]
                 /\ Changed(Announce(id, w))
       \/ \E id \in SwIds :
              /\ swSrv.windows[id].open
              /\ \/ /\ swSrv' = [swSrv EXCEPT !.windows[id] = NoWindow, !.changes = @ + 1]
                    /\ Changed(<<<<"destroy", id>>>>)
                 \/ \E p \in SwPlaces \ {swSrv.windows[id].pos} :
                        /\ swSrv' = [swSrv EXCEPT !.windows[id].pos = p, !.changes = @ + 1]
                        /\ Changed(<<<<"position", id, p>>>>)
                 \/ \E s \in States \ {swSrv.windows[id].state} :
                        /\ swSrv' = [swSrv EXCEPT !.windows[id].state = s, !.changes = @ + 1]
                        /\ Changed(<<<<"state", id, s>>>>)
                 \/ /\ swSrv' = [swSrv EXCEPT !.changes = @ + 1]
                    /\ Changed(<<<<"seticon", id, <<swSrv.changes, 0>>>>,
                                 <<"seticon", id, <<swSrv.changes, 1>>>>>>)
       \/ \E g \in SwGroups :
              /\ swSrv' = [swSrv EXCEPT !.changes = @ + 1, !.windows = [id \in SwIds |->
                              IF @[id].open /\ @[id].group = g THEN NoWindow ELSE @[id]]]
              /\ Changed(<<<<"destroygrp", g>>>>)
       \/ /\ swSrv' = [swSrv EXCEPT !.changes = @ + 1, !.hidden = ~@]
          /\ Changed(<<<<IF swSrv.hidden THEN "unhide" ELSE "hide">>>>)

(* A synchronisation enumerates all windows, whose commands are not mixed  *)
(* with others; each change asked for is made and acknowledged.            *)
SrvCommand ==
    /\ swUp # << >>
    /\ LET m == Head(swUp)
           open == {id \in SwIds : m[1] \in {"position", "state", "destroy"} /\ m[2] = id
                                   /\ swSrv.windows[id].open}
       IN /\ swSrv' = [swSrv EXCEPT
                 !.windows = [id \in SwIds |->
                     IF id \notin open THEN @[id]
                     ELSE IF m[1] = "destroy" THEN NoWindow
                     ELSE IF m[1] = "position" THEN [swSrv.windows[id] EXCEPT !.pos = m[3]]
                     ELSE [swSrv.windows[id] EXCEPT !.state = m[3]]],
                 !.spawned = IF m[1] = "spawn" THEN @ + 1 ELSE @]
          /\ swDown' =
                 IF m[1] = "sync"
                 THEN Append(swDown, <<<<"syncbegin">>>> \o
                          FlattenSeq([i \in 1 .. Cardinality(SwIds) |->
                              IF swSrv.windows[i].open THEN Announce(i, swSrv.windows[i])
                              ELSE << >>]))
                 ELSE IF open = {} THEN swDown
                 ELSE Append(swDown, <<IF m[1] = "destroy" THEN <<"destroy", m[2]>>
                                       ELSE <<"ack", m[4]>>>>)
    /\ swUp' = Tail(swUp)
    /\ UNCHANGED sw

SeamlessInit ==
    /\ sw = [started |-> FALSE, active |-> FALSE, hidden |-> FALSE, windows |-> << >>,
             refs |-> [g \in SwGroups |-> 0], serial |-> 0, out |-> << >>, syncs |-> 0,
             raced |-> FALSE, stale |-> FALSE, spawn |-> TRUE, mapped |-> TRUE,
             events |-> << >>, status |-> FALSE, suppressed |-> FALSE, unsettled |-> FALSE]
    /\ swSrv = [windows |-> [id \in SwIds |-> NoWindow], used |-> {}, hidden |-> FALSE, changes |-> 0,
                spawned |-> 0]
    /\ swUp = << >> /\ swDown = <<<<<<"hello", FALSE>>>>>>

SeamlessNext ==
    LinesArrive \/ WindowEvent \/ MainEvent \/ User \/ SwReconnect \/ SrvChange \/ SrvCommand

SeamlessSpec == SeamlessInit /\ [][SeamlessNext]_swVars

-----------------------------------------------------------------------------
(* Properties *)

Quiet ==
    /\ swUp = << >> /\ swDown = << >> /\ sw.events = << >>
    /\ \A i \in 1 .. Len(sw.windows) :
           ~sw.windows[i].moved /\ ~sw.windows[i].changed /\ ~sw.windows[i].timer

(* Once all commands and events are handled, the client shows exactly the  *)
(* server's windows, where the server has them and in their states, however*)
(* moves of both sides crossed.  Two cases are excepted, each until the    *)
(* next synchronisation: a window changed while one was on its way is shown*)
(* anew as it was before, and the windows of a connection lost to a network*)
(* error stay as they were, as nothing asks for a synchronisation then     *)
(* (rdesktop.c:2266-2298, xwin.c:5172).                                    *)
WindowsConverge ==
    Quiet /\ sw.active /\ ~sw.raced /\ ~sw.stale =>
        /\ {sw.windows[i].id : i \in 1 .. Len(sw.windows)}
             = {id \in SwIds : swSrv.windows[id].open}
        /\ \A i \in 1 .. Len(sw.windows) :
               LET w == sw.windows[i]
               IN /\ ~w.outstanding /\ w.x = w.pos
                  /\ swSrv.windows[w.id].pos = w.pos /\ swSrv.windows[w.id].state = w.state

(* A group lives as long as it has windows. *)
GroupsCounted ==
    \A g \in SwGroups :
        sw.refs[g] = Cardinality({i \in 1 .. Len(sw.windows) : sw.windows[i].group = g})

(* An icon shown is one icon, whole and in order. *)
IconsAreWhole ==
    \A i \in 1 .. Len(sw.windows) :
        LET icon == sw.windows[i].icon
        IN icon # << >> => icon = <<<<icon[1][1], 0>>, <<icon[1][1], 1>>>>

(* The server stops drawing only while nothing is shown.  In seamless mode *)
(* it never does, unless the main window was minimized, or its events not  *)
(* handled, when that mode began: then the windows stay undrawn.  After a  *)
(* reconnection the server may draw for a minimized window, as its new     *)
(* session is not told.                                                    *)
ShownIsDrawn ==
    /\ sw.suppressed => sw.status
    /\ sw.active /\ sw.suppressed => sw.unsettled
    /\ Quiet /\ ~sw.active => sw.status = ~sw.mapped

(* The application is started once, not again at each reconnect. *)
SpawnedOnce == swSrv.spawned <= 1

(* Local windows, groups, icons and drawing follow the server's, and the   *)
(* application is started once (seamless.c, xwin.c).                       *)
WindowsFollow ==
    /\ SeamlessTypeOK
    /\ WindowsConverge /\ GroupsCounted /\ IconsAreWhole /\ ShownIsDrawn /\ SpawnedOnce
=============================================================================
