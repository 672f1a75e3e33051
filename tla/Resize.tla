------------------------------- MODULE Resize -------------------------------
(***************************************************************************)
(* Dynamic session resize (xwin.c, rdp.c, rdpedisp.c, dvc.c): the window   *)
(* is resized, ConfigureNotify events tell the client, and after a pause   *)
(* process_pending_resize asks the server for a session of the same size,  *)
(* online over the RDPEDISP dynamic channel or by disconnecting and        *)
(* connecting again.  The answer is a new Demand Active PDU, which in turn *)
(* resizes the window.                                                     *)
(*                                                                         *)
(* One dimension stands for both.  Fullscreen, seamless and embedded       *)
(* windows, whose size the window manager does not set, are left out.      *)
(***************************************************************************)
EXTENDS Integers, Sequences

CONSTANTS
    Sizes,          \* sizes the user can give the window
    MinSize,        \* 200
    MaxSize,        \* 8192
    RATE,           \* quiet time after the last event (500 ms), in ticks
    DEFER,          \* delay after the reconnect cookie (2000 ms), in ticks
    WAIT,           \* delay between two layout requests (5 s), in ticks
    MaxResizes,     \* bound on what the user does
    MaxLosses       \* bound on lost connections

ASSUME ResizeConstants ==
    /\ MinSize \in Nat /\ MaxSize \in Nat /\ MinSize <= MaxSize
    /\ MinSize % 2 = 0 /\ MaxSize % 2 = 0
    /\ Sizes \subseteq Nat /\ Sizes # {}
    /\ RATE \in Nat /\ DEFER \in Nat /\ WAIT \in Nat
    /\ MaxResizes \in Nat /\ MaxLosses \in Nat

VARIABLES
    phase,          \* "login" (rdp_connect), "up" (ui_select) or "left"
    attr,           \* environment: size of the X window, None when destroyed
    events,         \* environment: sizes in queued ConfigureNotify events
    g_window,       \* g_window_width: the size of the last event
    g_session,      \* g_session_width
    g_requested,    \* g_requested_session_width
    g_dynamic_session_resize,
    g_first_bitmap_caps,
    g_pending_resize,
    g_pending_resize_defer,
    deferAge,       \* age of g_pending_resize_defer_timer, Unset when 0
    resizeAge,      \* age of g_resize_timer
    sentAge,        \* age of g_wait_for_deactivate_ts, Unset when 0
    dispId,         \* "invalid", "set" or "removed" (the table entry is gone)
    dispOpen,       \* history: the server opened the channel in this session
    cookie,         \* history: a reconnect cookie came in this session
    asked,          \* server: size of the last layout it got, or None
    applying,       \* server: size it deactivated the session for, or None
    resizes, losses, reconnects     \* counters

windowVars == <<attr, events, g_window>>
sizeVars == <<g_session, g_requested, g_dynamic_session_resize,
              g_first_bitmap_caps>>
timerVars == <<deferAge, resizeAge, sentAge>>
dispVars == <<dispId, dispOpen>>
serverVars == <<asked, applying>>
counters == <<resizes, losses, reconnects>>
resizeVars == <<phase, windowVars, sizeVars, g_pending_resize,
          g_pending_resize_defer, timerVars, dispVars, cookie, serverVars,
          counters>>

None == -1
Unset == -1
AnySize == Sizes \cup MinSize .. MaxSize

(* utils_apply_session_size_limitations *)
Adjust(w) ==
    LET even == w - (w % 2)
    IN  IF even > MaxSize THEN MaxSize ELSE IF even < MinSize THEN MinSize
        ELSE even

SessionSizes == {Adjust(w) : w \in Sizes}

ResizeTypeOK ==
    /\ phase \in {"login", "up", "left"}
    /\ attr \in AnySize \cup {None}
    /\ events \in Seq(AnySize)
    /\ g_window \in AnySize /\ g_requested \in AnySize
    /\ g_session \in SessionSizes
    /\ g_dynamic_session_resize \in BOOLEAN /\ g_first_bitmap_caps \in BOOLEAN
    /\ g_pending_resize \in BOOLEAN /\ g_pending_resize_defer \in BOOLEAN
    /\ deferAge \in Unset .. DEFER
    /\ resizeAge \in 0 .. RATE + 1 /\ sentAge \in Unset .. WAIT + 1
    /\ dispId \in {"invalid", "set", "removed"}
    /\ dispOpen \in BOOLEAN /\ cookie \in BOOLEAN
    /\ asked \in SessionSizes \cup {None}
    /\ applying \in SessionSizes \cup {None}
    /\ resizes \in 0 .. MaxResizes /\ losses \in 0 .. MaxLosses
    /\ reconnects \in Nat
    /\ phase # "login" => attr # None

(* The first attempt, after rdesktop_reset_state. *)
ResizeInit ==
    /\ phase = "login"
    /\ attr = None /\ events = << >>
    /\ g_requested \in SessionSizes
    /\ g_window = g_requested /\ g_session = g_requested
    /\ g_dynamic_session_resize = TRUE /\ g_first_bitmap_caps = TRUE
    /\ g_pending_resize = FALSE /\ g_pending_resize_defer = TRUE
    /\ deferAge = Unset /\ resizeAge = RATE + 1 /\ sentAge = Unset
    /\ dispId = "invalid" /\ dispOpen = FALSE /\ cookie = FALSE
    /\ asked = None /\ applying = None
    /\ resizes = 0 /\ losses = 0 /\ reconnects = 0

-----------------------------------------------------------------------------
(* Environment *)

Older(age, limit) == IF age = Unset \/ age >= limit THEN age ELSE age + 1

Tick ==
    /\ deferAge' = Older(deferAge, DEFER)
    /\ resizeAge' = Older(resizeAge, RATE + 1)
    /\ sentAge' = Older(sentAge, WAIT + 1)
    /\ UNCHANGED <<phase, windowVars, sizeVars, g_pending_resize,
                   g_pending_resize_defer, dispVars, cookie, serverVars,
                   counters>>

(* A window whose resizing is disabled has fixed size hints. *)
UserResizes(w) ==
    /\ attr # None /\ attr # w /\ phase # "left"
    /\ g_dynamic_session_resize /\ resizes < MaxResizes
    /\ resizes' = resizes + 1
    /\ attr' = w /\ events' = Append(events, w)
    /\ UNCHANGED <<phase, g_window, sizeVars, g_pending_resize,
                   g_pending_resize_defer, timerVars, dispVars, cookie,
                   serverVars, losses, reconnects>>

(* The server answers a layout request by deactivating the session first. *)
ServerDeactivates ==
    /\ phase = "up" /\ asked # None /\ applying = None
    /\ applying' = asked /\ asked' = None
    /\ sentAge' = Unset
    /\ UNCHANGED <<phase, windowVars, sizeVars, g_pending_resize,
                   g_pending_resize_defer, deferAge, resizeAge, dispVars,
                   cookie, counters>>

-----------------------------------------------------------------------------
(* Events and PDUs *)

(* xwin_request_resize_if_session_mismatch: its condition. *)
Mismatch(w) == g_session # Adjust(w)

(* ConfigureNotify or MapNotify of the main window. *)
ConfigureNotify ==
    /\ phase = "up" /\ events # << >>
    /\ g_window' = Head(events) /\ events' = Tail(events)
    /\ IF g_dynamic_session_resize
       THEN /\ g_pending_resize' = Mismatch(Head(events))
            /\ resizeAge' = IF Mismatch(Head(events)) THEN 0 ELSE resizeAge
       ELSE UNCHANGED <<g_pending_resize, resizeAge>>
    /\ UNCHANGED <<phase, attr, sizeVars, g_pending_resize_defer, deferAge,
                   sentAge, dispVars, cookie, serverVars, counters>>

(* Mutant: the window keeps its size when the session changes its own. *)
BitmapCaps_KeepsWindow(size, window) ==
    /\ g_session' = size
    /\ g_dynamic_session_resize' =
           (g_dynamic_session_resize
               /\ (g_first_bitmap_caps => size = g_requested))
    /\ g_first_bitmap_caps' = FALSE
    /\ attr' = window
    /\ events' = IF attr = None THEN Append(events, window) ELSE events

(* rdp_process_bitmap_caps and, when needed, ui_resize_window. *)
BitmapCaps(size, window) ==
    /\ g_session' = size
    /\ g_dynamic_session_resize' =
           (g_dynamic_session_resize
               /\ (g_first_bitmap_caps => size = g_requested))
    /\ g_first_bitmap_caps' = FALSE
    /\ IF g_dynamic_session_resize' /\ window # size
       THEN attr' = size /\ events' = Append(events, size)
       ELSE attr' = window
            /\ events' = IF attr = None THEN Append(events, window) ELSE events

(* The first Demand Active PDU; rd_create_ui makes a window if there is none. *)
FirstDemandActive(size) ==
    /\ phase = "login"
    /\ BitmapCaps(size, IF attr = None THEN g_requested ELSE attr)
    /\ phase' = "up"
    /\ UNCHANGED <<g_window, g_requested, g_pending_resize,
                   g_pending_resize_defer, timerVars, dispVars, cookie,
                   serverVars, counters>>

DemandActive ==
    /\ phase = "up" /\ applying # None
    /\ BitmapCaps(applying, attr)
    /\ applying' = None
    /\ UNCHANGED <<phase, g_window, g_requested, g_pending_resize,
                   g_pending_resize_defer, timerVars, dispVars, cookie, asked,
                   counters>>

(* process_ts_logon_info_extended *)
LogonCookie ==
    /\ phase = "up" /\ ~cookie
    /\ cookie' = TRUE
    /\ deferAge' = 0
    /\ UNCHANGED <<phase, windowVars, sizeVars, g_pending_resize,
                   g_pending_resize_defer, resizeAge, sentAge, dispVars,
                   serverVars, counters>>

(* Mutant: the create request is granted but the id is not kept. *)
DvcCreate_KeepsId ==
    /\ phase = "up" /\ ~dispOpen
    /\ dispOpen' = (dispId # "removed")
    /\ UNCHANGED <<dispId, phase, windowVars, sizeVars, g_pending_resize,
                   g_pending_resize_defer, timerVars, cookie, serverVars,
                   counters>>

(* dvc_process_create_pdu: granted when the name is still in the table. *)
DvcCreate ==
    /\ phase = "up" /\ ~dispOpen
    /\ dispId' = IF dispId = "removed" THEN dispId ELSE "set"
    /\ dispOpen' = (dispId # "removed")
    /\ UNCHANGED <<phase, windowVars, sizeVars, g_pending_resize,
                   g_pending_resize_defer, timerVars, cookie, serverVars,
                   counters>>

(* dvc_process_close_pdu: the entry is wiped, its name with it. *)
DvcClose ==
    /\ phase = "up" /\ dispOpen
    /\ dispId' = "removed" /\ dispOpen' = FALSE
    /\ UNCHANGED <<phase, windowVars, sizeVars, g_pending_resize,
                   g_pending_resize_defer, timerVars, cookie, serverVars,
                   counters>>

(* rdpedisp_process_caps_pdu *)
DispCaps ==
    /\ phase = "up" /\ dispOpen
    /\ g_pending_resize_defer' = FALSE
    /\ deferAge' = Unset
    /\ UNCHANGED <<phase, windowVars, sizeVars, g_pending_resize, resizeAge,
                   sentAge, dispVars, cookie, serverVars, counters>>

-----------------------------------------------------------------------------
(* process_pending_resize *)

DeferOver == deferAge >= DEFER

(* Neither rate limited nor deferred: the size is taken from the window. *)
ResizeDue ==
    /\ phase = "up" /\ g_pending_resize /\ g_dynamic_session_resize
    /\ resizeAge > RATE
    /\ DeferOver \/ ~g_pending_resize_defer
    /\ deferAge' = IF DeferOver THEN Unset ELSE deferAge
    /\ g_pending_resize_defer' = FALSE
    /\ g_requested' = g_window
    /\ UNCHANGED <<windowVars, g_session, g_dynamic_session_resize,
                   g_first_bitmap_caps, resizeAge, dispVars, cookie, applying,
                   counters>>

(* rdpedisp_is_available *)
Available == dispId = "set"

ReconnectToResize ==
    /\ ~Available
    /\ ResizeDue
    /\ phase' = "left"
    /\ UNCHANGED <<g_pending_resize, sentAge, asked>>

(* The server may only know the channel by an id it gave this session. *)
SendLayout ==
    /\ Available /\ (sentAge = Unset \/ sentAge > WAIT)
    /\ ResizeDue
    /\ g_pending_resize' = FALSE
    /\ sentAge' = 0
    /\ asked' = IF dispOpen THEN Adjust(g_window) ELSE asked
    /\ UNCHANGED phase

WaitForAnswer ==
    /\ Available /\ sentAge \in 0 .. WAIT
    /\ ResizeDue
    /\ UNCHANGED <<phase, g_pending_resize, sentAge, asked>>

ProcessPendingResize == ReconnectToResize \/ SendLayout \/ WaitForAnswer

-----------------------------------------------------------------------------
(* Between two sessions *)

(* rdesktop_reset_state and the head of the connection loop: neither the     *)
(* defer timer nor the dynamic channel ids are reset.                        *)
NewAttempt ==
    /\ phase' = "login"
    /\ g_pending_resize_defer' = TRUE
    /\ g_first_bitmap_caps' = TRUE
    /\ g_requested' = Adjust(g_requested)
    /\ dispOpen' = FALSE /\ cookie' = FALSE
    /\ asked' = None /\ applying' = None
    /\ UNCHANGED <<g_window, g_session, g_dynamic_session_resize, timerVars,
                   dispId, resizes>>

(* Mutant: the request that caused the reconnect stays pending. *)
ResizeReconnect_KeepsPending ==
    /\ phase = "left"
    /\ attr' = None /\ events' = << >>
    /\ reconnects' = reconnects + 1
    /\ UNCHANGED <<g_pending_resize, losses>>
    /\ NewAttempt

(* main(): the pending resize is the reason for the reconnect. *)
ResizeReconnect ==
    /\ phase = "left"
    /\ g_pending_resize' = FALSE
    /\ attr' = None /\ events' = << >>
    /\ reconnects' = reconnects + 1
    /\ UNCHANGED losses
    /\ NewAttempt

(* main(): a network error, noticed while disconnecting or before, comes     *)
(* first; the window and the pending resize are kept.                        *)
LossReconnect ==
    /\ losses < MaxLosses
    /\ losses' = losses + 1
    /\ UNCHANGED <<attr, events, g_pending_resize, reconnects>>
    /\ NewAttempt

-----------------------------------------------------------------------------

ServerEvent ==
    \/ ServerDeactivates \/ DemandActive \/ LogonCookie
    \/ DvcCreate \/ DvcClose \/ DispCaps
    \/ \E s \in SessionSizes : FirstDemandActive(s)

ResizeNext ==
    \/ Tick \/ ConfigureNotify \/ ProcessPendingResize
    \/ ResizeReconnect \/ LossReconnect \/ ServerEvent
    \/ \E w \in Sizes : UserResizes(w)

ResizeSpec == ResizeInit /\ [][ResizeNext]_resizeVars

(* Time passes, ui_select handles its events and the server answers. *)
FairSpec ==
    /\ ResizeSpec
    /\ WF_resizeVars(Tick) /\ WF_resizeVars(ConfigureNotify)
    /\ WF_resizeVars(ProcessPendingResize)
    /\ WF_resizeVars(ServerDeactivates) /\ WF_resizeVars(DemandActive)

-----------------------------------------------------------------------------
(* Properties *)

(* A server that opened the RDPEDISP channel in this session is never left    *)
(* to resize: disconnecting is the fallback for servers without it.           *)
OnlineIsPreferred == [][ReconnectToResize => ~dispOpen]_resizeVars

(* Resizing by reconnect does not feed itself: apart from connections lost,   *)
(* there is never more than one reconnect for each time the user changed the  *)
(* window, although each new session resizes or creates the window again.     *)
NoReconnectStorm == reconnects <= resizes + losses

(* Every variable keeps its type, and resizing does not feed itself (xwin.c). *)
ResizeInvariant == ResizeTypeOK /\ NoReconnectStorm

(* In a session that stays up with RDPEDISP ready, window and session agree   *)
(* in the end, whatever the user did while the server was changing its size.  *)
(* After a lost connection a request may be lost too: it can go to the id of  *)
(* the channel of the old session.                                            *)
OnlineResizeConverges ==
    <>[](/\ phase = "up" /\ losses = 0
         /\ dispOpen /\ ~g_pending_resize_defer) =>
        <>[](g_dynamic_session_resize => g_session = Adjust(attr))
=============================================================================
