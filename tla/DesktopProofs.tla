---------------------------- MODULE DesktopProofs ----------------------------
(***************************************************************************)
(* The X11 side, for all values of the constants.                          *)
(*                                                                         *)
(* Resizing by reconnect does not feed itself: the invariant says what     *)
(* pays for a reconnect.  Either there is a change by the user or a lost   *)
(* connection that no reconnect has used, or nothing waits anywhere (no    *)
(* pending resize, no layout at the server, no event of another size) that *)
(* could lead to one.                                                      *)
(*                                                                         *)
(* The keyboard: the modifiers the client counts are those the server      *)
(* holds, except after the calls that lose track of them, and every key    *)
(* still down is released by an event on its way or by the user.           *)
(*                                                                         *)
(* The clipboard: an event or a conversion that ends the probe is always   *)
(* on its way while one is open, an answer left over from an earlier       *)
(* conversion counting as one; a change of owner the server was not told   *)
(* of is being probed or still to be noticed; each request of another      *)
(* client is in one place only.                                            *)
(***************************************************************************)
EXTENDS MCDesktop, Resize, FiniteSetTheorems, SequenceTheorems, WellFoundedInduction, TLAPS

-----------------------------------------------------------------------------
(* Dynamic session resize (xwin.c) *)

(* Sizes that can reach the window: the user's and the session's. *)
WindowSizes == Sizes \cup SessionSizes

SizesInv ==
    /\ attr \in WindowSizes \cup {None}
    /\ events \in Seq(WindowSizes)
    /\ g_window \in WindowSizes /\ g_requested \in WindowSizes
    /\ phase = "login" => g_requested \in SessionSizes /\ g_first_bitmap_caps

(* Nothing is under way that could end in another reconnect. *)
NoResizeWaits ==
    /\ phase # "left"
    /\ g_dynamic_session_resize =>
           /\ ~g_pending_resize /\ asked = None /\ applying = None
           /\ phase = "login" => attr = None /\ events = << >>
           /\ phase = "up" =>
                  \A i \in 1 .. Len(events) : ~Mismatch(events[i])

PaidInv ==
    reconnects < resizes + losses \/ (reconnects = resizes + losses /\ NoResizeWaits)

(* rdpedisp.c has a channel id in every session that opened the channel. *)
ChannelInv == dispOpen => dispId = "set"

ResizeIInv == ResizeTypeOK /\ SizesInv /\ PaidInv /\ ChannelInv

-----------------------------------------------------------------------------

(* utils_apply_session_size_limitations: its result is within the limits,    *)
(* and it leaves a size alone that it made.                                  *)
LEMMA AdjustOnce ==
    ASSUME NEW w \in Nat
    PROVE  /\ Adjust(w) \in MinSize .. MaxSize /\ Adjust(w) \in Nat
           /\ Adjust(Adjust(w)) = Adjust(w)
<1> DEFINE even == w - (w % 2)
<1> USE ResizeConstants
<1>1. even \in Int /\ even % 2 = 0
  OBVIOUS
<1>2. Adjust(w) = IF even > MaxSize THEN MaxSize
                  ELSE IF even < MinSize THEN MinSize ELSE even
  BY DEF Adjust
<1> HIDE DEF even
<1>3. Adjust(w) \in MinSize .. MaxSize /\ Adjust(w) % 2 = 0
  BY <1>1, <1>2
<1> DEFINE a == Adjust(w)
<1>4. a \in Int /\ a % 2 = 0 /\ a >= MinSize /\ a <= MaxSize
  BY <1>3
<1>5. Adjust(a) = IF a - (a % 2) > MaxSize THEN MaxSize
                  ELSE IF a - (a % 2) < MinSize THEN MinSize ELSE a - (a % 2)
  BY DEF Adjust
<1> HIDE DEF a
<1>6. Adjust(a) = a
  BY <1>4, <1>5
<1> QED BY <1>3, <1>6 DEF a

(* A size of the session is an adjusted one, and adjusting it changes nothing. *)
LEMMA SizeTypes ==
    /\ SessionSizes \subseteq WindowSizes
    /\ WindowSizes \subseteq AnySize /\ WindowSizes \subseteq Nat
    /\ \A w \in WindowSizes : Adjust(w) \in SessionSizes
    /\ \A w \in SessionSizes : Adjust(w) = w
    /\ None \notin WindowSizes
<1>1. \A w \in Sizes : w \in Nat
  BY ResizeConstants
<1>2. \A w \in SessionSizes : \E v \in Sizes : w = Adjust(v)
  BY DEF SessionSizes
<1>3. \A w \in SessionSizes :
          w \in MinSize .. MaxSize /\ w \in Nat /\ Adjust(w) = w
  BY <1>1, <1>2, AdjustOnce
<1>4. \A w \in Sizes : Adjust(w) \in SessionSizes
  BY DEF SessionSizes
<1>5. \A w \in WindowSizes : w \in Nat
  BY <1>1, <1>3 DEF WindowSizes
<1> QED BY <1>1, <1>3, <1>4, <1>5 DEF WindowSizes, AnySize, None

(* The client begins with a login and nothing pending. *)
LEMMA InitResizeIInv == ResizeInit => ResizeIInv
<1> SUFFICES ASSUME ResizeInit PROVE ResizeIInv
  OBVIOUS
<1> USE ResizeConstants, SizeTypes DEF ResizeInit
<1>1. ResizeTypeOK
  <2>1. /\ events \in Seq(AnySize) /\ deferAge \in Unset .. DEFER
        /\ resizeAge \in 0 .. RATE + 1 /\ sentAge \in Unset .. WAIT + 1
        /\ resizes \in 0 .. MaxResizes /\ losses \in 0 .. MaxLosses
        /\ reconnects \in Nat
    BY DEF Unset
  <2>2. /\ g_window \in AnySize /\ g_requested \in AnySize
        /\ g_session \in SessionSizes
    OBVIOUS
  <2> QED BY <2>1, <2>2, Zenon DEF ResizeTypeOK
<1>2. SizesInv
  BY DEF SizesInv
<1>3. PaidInv /\ ChannelInv
  BY DEF PaidInv, NoResizeWaits, ChannelInv
<1> QED BY <1>1, <1>2, <1>3 DEF ResizeIInv

-----------------------------------------------------------------------------

(* Steps that touch neither sizes nor what waits: time, the reconnect        *)
(* cookie, and the life of the RDPEDISP channel.                             *)
LEMMA KeepNoResize ==
    ResizeIInv /\ (Tick \/ LogonCookie \/ DvcCreate \/ DvcClose \/ DispCaps
                \/ UNCHANGED resizeVars) => ResizeIInv'
<1> SUFFICES ASSUME ResizeIInv,
                    Tick \/ LogonCookie \/ DvcCreate \/ DvcClose \/ DispCaps
                        \/ UNCHANGED resizeVars
             PROVE  ResizeIInv'
  OBVIOUS
<1> USE DEF ResizeIInv, resizeVars, windowVars, sizeVars, timerVars, dispVars, serverVars,
            counters
<1>1. UNCHANGED <<phase, windowVars, sizeVars, g_pending_resize, serverVars,
                  counters>>
  BY Zenon DEF Tick, LogonCookie, DvcCreate, DvcClose, DispCaps
<1>2. /\ deferAge' \in Unset .. DEFER
      /\ resizeAge' \in 0 .. RATE + 1 /\ sentAge' \in Unset .. WAIT + 1
  BY ResizeConstants
  DEF Tick, LogonCookie, DvcCreate, DvcClose, DispCaps, ResizeTypeOK, Older, Unset
<1>3. /\ dispId' \in {"invalid", "set", "removed"}
      /\ dispOpen' \in BOOLEAN /\ cookie' \in BOOLEAN
      /\ g_pending_resize_defer' \in BOOLEAN
  BY Zenon DEF Tick, LogonCookie, DvcCreate, DvcClose, DispCaps, ResizeTypeOK
<1>4. ChannelInv'
  BY DEF Tick, LogonCookie, DvcCreate, DvcClose, DispCaps, ChannelInv, ResizeTypeOK
<1>5. ResizeTypeOK'
  BY <1>1, <1>2, <1>3, Zenon DEF ResizeTypeOK
<1>6. SizesInv' /\ PaidInv'
  BY <1>1 DEF SizesInv, PaidInv, NoResizeWaits, Mismatch
<1> QED BY <1>4, <1>5, <1>6

(* The user changes the window and pays for one reconnect. *)
LEMMA KeepUserResizes ==
    ASSUME ResizeIInv, NEW w \in Sizes, UserResizes(w)
    PROVE  ResizeIInv'
<1> USE ResizeConstants, SizeTypes
    DEF ResizeIInv, UserResizes, sizeVars, timerVars, dispVars, serverVars
<1>1. w \in WindowSizes /\ w \in AnySize /\ w # None
  BY DEF WindowSizes
<1>2. events' \in Seq(WindowSizes) /\ events' \in Seq(AnySize)
  BY <1>1 DEF SizesInv, ResizeTypeOK
<1>3. ResizeTypeOK'
  BY <1>1, <1>2 DEF ResizeTypeOK
<1>4. SizesInv'
  BY <1>1, <1>2 DEF SizesInv
<1>5. PaidInv'
  BY DEF PaidInv, ResizeTypeOK
<1> QED BY <1>3, <1>4, <1>5 DEF ChannelInv

(* The server answers a layout request. *)
LEMMA KeepServerDeactivates == ResizeIInv /\ ServerDeactivates => ResizeIInv'
<1> SUFFICES ASSUME ResizeIInv, ServerDeactivates PROVE ResizeIInv'
  OBVIOUS
<1> USE ResizeConstants
    DEF ResizeIInv, ServerDeactivates, windowVars, sizeVars, dispVars, counters
<1>1. ResizeTypeOK'
  BY DEF ResizeTypeOK, Unset
<1>2. SizesInv' /\ ChannelInv'
  BY DEF SizesInv, ChannelInv
<1>3. PaidInv'
  BY DEF PaidInv, NoResizeWaits, Mismatch
<1> QED BY <1>1, <1>2, <1>3

(* An event of the session's own size does not ask for a resize. *)
LEMMA KeepConfigureNotify == ResizeIInv /\ ConfigureNotify => ResizeIInv'
<1> SUFFICES ASSUME ResizeIInv, ConfigureNotify PROVE ResizeIInv'
  OBVIOUS
<1> USE ResizeConstants, SizeTypes
    DEF ResizeIInv, ConfigureNotify, sizeVars, dispVars, serverVars, counters
<1>1. /\ events \in Seq(WindowSizes) /\ Len(events) \in Nat /\ Len(events) >= 1
      /\ Head(events) = events[1] /\ Head(events) \in WindowSizes
  BY DEF SizesInv
<1>2. /\ events' \in Seq(WindowSizes) /\ Len(events') = Len(events) - 1
      /\ \A i \in 1 .. Len(events') : events'[i] = events[i + 1]
  BY <1>1
<1>3. events' \in Seq(AnySize)
  BY <1>2, SeqMonotonic
<1>4. g_pending_resize' \in BOOLEAN
  BY Zenon DEF ResizeTypeOK, Mismatch
<1>5. resizeAge' \in 0 .. RATE + 1
  BY DEF ResizeTypeOK
<1>6. ResizeTypeOK'
  BY <1>1, <1>3, <1>4, <1>5 DEF ResizeTypeOK
<1>7. SizesInv' /\ ChannelInv'
  BY <1>1, <1>2 DEF SizesInv, ChannelInv
<1>8. NoResizeWaits => NoResizeWaits'
  <2> SUFFICES ASSUME NoResizeWaits, g_dynamic_session_resize PROVE NoResizeWaits'
    BY DEF NoResizeWaits
  <2>1. ~Mismatch(events[1]) /\ ~g_pending_resize'
    BY <1>1 DEF NoResizeWaits
  <2>2. \A i \in 1 .. Len(events') : ~Mismatch(events'[i])
    <3> TAKE i \in 1 .. Len(events')
    <3>1. i + 1 \in 1 .. Len(events) /\ events'[i] = events[i + 1]
      BY <1>1, <1>2
    <3> QED BY <3>1 DEF NoResizeWaits
  <2> QED BY <2>1, <2>2 DEF NoResizeWaits, Mismatch
<1>9. PaidInv'
  BY <1>8 DEF PaidInv
<1> QED BY <1>6, <1>7, <1>9

(* What rdp_process_bitmap_caps leaves, whoever calls it. *)
LEMMA BitmapCapsTypes ==
    ASSUME ResizeIInv, NEW size \in SessionSizes, NEW window \in WindowSizes,
           BitmapCaps(size, window)
    PROVE  /\ g_session' = size
           /\ attr' \in WindowSizes /\ attr' \in AnySize
           /\ events' \in Seq(WindowSizes) /\ events' \in Seq(AnySize)
           /\ g_dynamic_session_resize' \in BOOLEAN
           /\ g_first_bitmap_caps' \in BOOLEAN
           /\ g_dynamic_session_resize' =>
                  /\ g_dynamic_session_resize
                  /\ g_first_bitmap_caps => size = g_requested
<1> USE SizeTypes DEF ResizeIInv, BitmapCaps
<1>1. g_dynamic_session_resize' \in BOOLEAN
  BY Zenon DEF ResizeTypeOK
<1>2. g_first_bitmap_caps' = FALSE
  OBVIOUS
<1>3. attr' \in {size, window}
  BY Zenon
<1>4. events' = events \/ events' = Append(events, size)
      \/ events' = Append(events, window)
  BY Zenon
<1>5. events' \in Seq(WindowSizes)
  <2>1. events \in Seq(WindowSizes) /\ size \in WindowSizes /\ window \in WindowSizes
    BY DEF SizesInv
  <2> HIDE DEF ResizeIInv, BitmapCaps
  <2>2. \A s \in WindowSizes : Append(events, s) \in Seq(WindowSizes)
    BY <2>1
  <2> QED BY <1>4, <2>1, <2>2, Zenon
<1>6. events' \in Seq(AnySize)
  BY <1>5, SeqMonotonic
<1> QED BY <1>1, <1>2, <1>3, <1>5, <1>6

(* The first Demand Active of a session sets its size. *)
LEMMA KeepFirstDemandActive ==
    ASSUME ResizeIInv, NEW size \in SessionSizes, FirstDemandActive(size)
    PROVE  ResizeIInv'
<1> DEFINE window == IF attr = None THEN g_requested ELSE attr
<1> USE ResizeConstants, SizeTypes
    DEF ResizeIInv, timerVars, dispVars, serverVars, counters
<1>1. window \in WindowSizes /\ BitmapCaps(size, window)
  BY DEF FirstDemandActive, SizesInv
<1>2. /\ phase = "login" /\ phase' = "up"
      /\ UNCHANGED <<g_window, g_requested, g_pending_resize,
                     g_pending_resize_defer, timerVars, dispVars, cookie,
                     serverVars, counters>>
  BY DEF FirstDemandActive
<1> HIDE DEF window
<1>3. /\ g_session' = size /\ attr' \in WindowSizes /\ attr' \in AnySize
      /\ events' \in Seq(WindowSizes) /\ events' \in Seq(AnySize)
      /\ g_dynamic_session_resize' \in BOOLEAN
      /\ g_first_bitmap_caps' \in BOOLEAN
      /\ g_dynamic_session_resize' =>
             /\ g_dynamic_session_resize
             /\ g_first_bitmap_caps => size = g_requested
  BY <1>1, BitmapCapsTypes
<1>4. ResizeTypeOK'
  BY <1>2, <1>3, Zenon DEF ResizeTypeOK
<1>5. SizesInv' /\ ChannelInv'
  BY <1>2, <1>3 DEF SizesInv, ChannelInv
<1>6. NoResizeWaits => NoResizeWaits'
  <2> SUFFICES ASSUME NoResizeWaits, g_dynamic_session_resize' PROVE NoResizeWaits'
    BY <1>2 DEF NoResizeWaits
  <2>1. /\ g_dynamic_session_resize /\ size = g_requested
        /\ attr = None /\ events = << >> /\ ~g_pending_resize
        /\ asked = None /\ applying = None
    BY <1>2, <1>3 DEF NoResizeWaits, SizesInv
  <2>2. window = size
    BY <2>1 DEF window
  <2>3. events' = Append(events, size)
    BY <1>1, <2>1, <2>2 DEF BitmapCaps
  <2>4. Len(events') = 1 /\ events'[1] = size
    BY <2>1, <2>3
  <2>5. Adjust(size) = size /\ g_session' = size
    BY <1>3
  <2>6. \A i \in 1 .. Len(events') : g_session' = Adjust(events'[i])
    BY <2>4, <2>5
  <2> QED BY <1>2, <2>1, <2>6 DEF NoResizeWaits, Mismatch
<1>7. PaidInv'
  BY <1>2, <1>6 DEF PaidInv
<1> QED BY <1>4, <1>5, <1>7

(* A later Demand Active answers a layout request, which was paid for. *)
LEMMA KeepDemandActive == ResizeIInv /\ DemandActive => ResizeIInv'
<1> SUFFICES ASSUME ResizeIInv, DemandActive PROVE ResizeIInv'
  OBVIOUS
<1> USE ResizeConstants, SizeTypes
    DEF ResizeIInv, timerVars, dispVars, counters
<1>1. /\ phase = "up" /\ applying \in SessionSizes /\ attr \in WindowSizes
      /\ BitmapCaps(applying, attr) /\ applying' = None
      /\ UNCHANGED <<phase, g_window, g_requested, g_pending_resize,
                     g_pending_resize_defer, timerVars, dispVars, cookie,
                     asked, counters>>
  BY DEF DemandActive, ResizeTypeOK, SizesInv
<1>2. /\ g_session' = applying /\ attr' \in WindowSizes /\ attr' \in AnySize
      /\ events' \in Seq(WindowSizes) /\ events' \in Seq(AnySize)
      /\ g_dynamic_session_resize' \in BOOLEAN
      /\ g_first_bitmap_caps' \in BOOLEAN
      /\ g_dynamic_session_resize' => g_dynamic_session_resize
  BY <1>1, BitmapCapsTypes
<1>3. ResizeTypeOK'
  BY <1>1, <1>2, Zenon DEF ResizeTypeOK
<1>4. SizesInv' /\ ChannelInv'
  BY <1>1, <1>2 DEF SizesInv, ChannelInv
<1>5. applying # None
  BY <1>1
<1>6. NoResizeWaits => NoResizeWaits'
  BY <1>1, <1>2, <1>5 DEF NoResizeWaits
<1>7. PaidInv'
  BY <1>1, <1>6 DEF PaidInv
<1> QED BY <1>3, <1>4, <1>7

(* A due resize was pending, so a change or a loss has paid for it. *)
LEMMA KeepProcessPendingResize == ResizeIInv /\ ProcessPendingResize => ResizeIInv'
<1> SUFFICES ASSUME ResizeIInv, ProcessPendingResize PROVE ResizeIInv'
  OBVIOUS
<1> USE ResizeConstants, SizeTypes
    DEF ResizeIInv, windowVars, dispVars, counters
<1>1. /\ phase = "up" /\ g_pending_resize /\ g_dynamic_session_resize
      /\ deferAge' \in {deferAge, Unset} /\ g_pending_resize_defer' = FALSE
      /\ g_requested' = g_window
      /\ UNCHANGED <<windowVars, g_session, g_dynamic_session_resize,
                     g_first_bitmap_caps, resizeAge, dispVars, cookie,
                     applying, counters>>
  BY DEF ProcessPendingResize, ReconnectToResize, SendLayout, WaitForAnswer,
         ResizeDue
<1>2. /\ phase' \in {"up", "left"}
      /\ g_pending_resize' \in BOOLEAN
      /\ sentAge' \in {sentAge, 0}
      /\ asked' \in {asked, Adjust(g_window)}
  BY <1>1, Zenon
  DEF ProcessPendingResize, ReconnectToResize, SendLayout, WaitForAnswer, ResizeTypeOK
<1>3. Adjust(g_window) \in SessionSizes
  BY DEF SizesInv
<1>4. ResizeTypeOK'
  <2>1. deferAge' \in Unset .. DEFER /\ sentAge' \in Unset .. WAIT + 1
    BY <1>1, <1>2 DEF ResizeTypeOK, Unset
  <2>2. /\ g_requested' \in AnySize /\ asked' \in SessionSizes \cup {None}
        /\ phase' \in {"login", "up", "left"}
        /\ attr # None
    BY <1>1, <1>2, <1>3 DEF ResizeTypeOK
  <2>3. g_pending_resize_defer' \in BOOLEAN
    BY <1>1
  <2> QED BY <1>1, <1>2, <2>1, <2>2, <2>3, Zenon DEF ResizeTypeOK
<1>5. SizesInv' /\ ChannelInv'
  BY <1>1, <1>2 DEF SizesInv, ChannelInv
<1>6. ~NoResizeWaits
  BY <1>1 DEF NoResizeWaits
<1>7. PaidInv'
  BY <1>1, <1>6 DEF PaidInv
<1> QED BY <1>4, <1>5, <1>7

(* A reconnect uses what paid for it, or leaves the client quiet. *)
LEMMA KeepReconnect == ResizeIInv /\ (ResizeReconnect \/ LossReconnect) => ResizeIInv'
<1> SUFFICES ASSUME ResizeIInv, ResizeReconnect \/ LossReconnect PROVE ResizeIInv'
  OBVIOUS
<1> USE ResizeConstants, SizeTypes DEF ResizeIInv, NewAttempt, timerVars
<1>1. NewAttempt
  BY DEF ResizeReconnect, LossReconnect
<1>2. Adjust(g_requested) \in SessionSizes
  BY DEF SizesInv
<1>3. /\ attr' \in {attr, None} /\ events' \in {events, << >>}
      /\ g_pending_resize' \in BOOLEAN
      /\ reconnects' \in {reconnects, reconnects + 1}
      /\ losses' = losses \/ (losses < MaxLosses /\ losses' = losses + 1)
  BY Zenon DEF ResizeReconnect, LossReconnect, ResizeTypeOK
<1>4. /\ events' \in Seq(WindowSizes) /\ events' \in Seq(AnySize)
      /\ reconnects' \in Nat /\ losses' \in 0 .. MaxLosses
  <2>1. events \in Seq(WindowSizes) /\ events \in Seq(AnySize)
    BY DEF ResizeTypeOK, SizesInv
  <2>2. events' \in Seq(WindowSizes) /\ events' \in Seq(AnySize)
    <3>1. << >> \in Seq(WindowSizes) /\ << >> \in Seq(AnySize)
      BY EmptySeq
    <3>2. events' = events \/ events' = << >>
      BY <1>3
    <3> QED BY <2>1, <3>1, <3>2, Zenon
  <2>3. reconnects' \in Nat /\ losses' \in 0 .. MaxLosses
    BY <1>3 DEF ResizeTypeOK
  <2> QED BY <2>2, <2>3
<1>5. ResizeTypeOK'
  BY <1>1, <1>2, <1>3, <1>4 DEF ResizeTypeOK
<1>6. SizesInv' /\ ChannelInv'
  BY <1>1, <1>2, <1>3, <1>4 DEF SizesInv, ChannelInv
<1>7. CASE ResizeReconnect
  <2>1. ~NoResizeWaits /\ NoResizeWaits'
    BY <1>1, <1>7 DEF ResizeReconnect, NoResizeWaits
  <2> QED BY <1>1, <1>5, <1>6, <1>7, <2>1 DEF ResizeReconnect, PaidInv, ResizeTypeOK
<1>8. CASE LossReconnect
  BY <1>1, <1>5, <1>6, <1>8 DEF LossReconnect, PaidInv, ResizeTypeOK
<1> QED BY <1>7, <1>8

(* It holds in every state. *)
LEMMA ResizeInductive == ResizeSpec => []ResizeIInv
<1>1. ResizeIInv /\ [ResizeNext]_resizeVars => ResizeIInv'
  BY KeepNoResize, KeepUserResizes, KeepServerDeactivates, KeepConfigureNotify,
     KeepFirstDemandActive, KeepDemandActive, KeepProcessPendingResize,
     KeepReconnect
  DEF ResizeNext, ServerEvent
<1> QED BY <1>1, InitResizeIInv, PTL DEF ResizeSpec

(* process_pending_resize and main(): however often sessions are replaced,   *)
(* there is no more than one reconnect for each change by the user and each  *)
(* lost connection.                                                          *)
THEOREM ReconnectsArePaidFor == ResizeSpec => []ResizeInvariant
<1>1. ResizeIInv => ResizeInvariant
  BY DEF ResizeIInv, PaidInv, ResizeInvariant, NoReconnectStorm, ResizeTypeOK
<1> QED BY <1>1, ResizeInductive, PTL

(* process_pending_resize never disconnects a server that opened RDPEDISP.   *)
THEOREM ReconnectIsTheFallback == ResizeSpec => OnlineIsPreferred
<1>1. ResizeIInv => (ReconnectToResize => ~dispOpen)
  BY DEF ResizeIInv, ChannelInv, ReconnectToResize, Available
<1> QED BY <1>1, ResizeInductive, PTL DEF OnlineIsPreferred

-----------------------------------------------------------------------------
(* Numbers *)

(* A set of numbers that is not empty has a least one. *)
LEMMA LeastNumber ==
    ASSUME NEW T \in SUBSET Nat, T # {}
    PROVE  \E x \in T : \A y \in T : x <= y
<1> DEFINE R == OpToRel(<, Nat)
<1>1. IsWellFoundedOn(R, Nat)
  BY NatLessThanWellFounded
<1>2. \A x, y \in Nat : x < y => <<x, y>> \in R
  BY DEF OpToRel
<1> HIDE DEF R
<1>3. PICK x \in T : \A y \in T : ~(<<y, x>> \in R)
  BY <1>1, WFMin
<1>4. ASSUME NEW y \in T PROVE x <= y
  <2>1. x \in Nat /\ y \in Nat
    OBVIOUS
  <2>2. ~(y < x)
    BY <1>2, <1>3, <2>1
  <2> QED BY <2>1, <2>2
<1> QED BY <1>4

(* Induction, as a statement about a set of numbers. *)
LEMMA Induct ==
    ASSUME NEW S, 0 \in S, \A n \in Nat : n \in S => n + 1 \in S
    PROVE  Nat \subseteq S
<1> SUFFICES ASSUME Nat \ S # {} PROVE FALSE
  OBVIOUS
<1>1. PICK x \in Nat \ S : \A y \in Nat \ S : x <= y
  BY LeastNumber
<1>2. x # 0 /\ x - 1 \in Nat
  BY <1>1
<1>3. x - 1 \in S
  BY <1>1, <1>2
<1> QED BY <1>1, <1>2, <1>3

-----------------------------------------------------------------------------
(* The keyboard (xkeymap.c) *)

KbFields ==
    {"sync", "ungrab", "remote", "pressed", "down", "snum", "mistyped", "lost", "unaccounted",
     "aliased", "missed"}
Remotes == Modifiers \cup {"numlock"}

(* What every function of xkeymap.c is given, and leaves. *)
KbRec(t) ==
    /\ DOMAIN t = KbFields
    /\ t.remote \subseteq Remotes /\ t.lost \subseteq Modifiers /\ t.ungrab \subseteq ModifierKeys
    /\ {t.sync, t.snum, t.mistyped, t.unaccounted, t.aliased, t.missed} \subseteq BOOLEAN

(* The modifiers are in step, and the server holds none the client does not  *)
(* count, even if they are not.                                              *)
InStep(t) ==
    t.unaccounted = FALSE =>
        /\ t.remote \cap Modifiers = t.down \cap Modifiers
        /\ t.sync = FALSE => (("numlock" \in t.remote) <=> (t.snum = TRUE))

Counted(t) == t.down \cap Modifiers \subseteq t.remote /\ NoKeysym \notin t.down

Kept(t, u) ==
    /\ u.sync = t.sync /\ u.pressed = t.pressed /\ u.unaccounted = t.unaccounted
    /\ u.aliased = t.aliased /\ u.missed = t.missed /\ u.ungrab = t.ungrab

(* The modifiers that are lifted when the focus comes back.                  *)
Liftable == Modifiers \ {"winR"}

(* An event that is still in the queue, or will be, settles what the server  *)
(* holds of the modifier with scancode c.                                    *)
Settles(i, c) ==
    \/ ~kx.focus \/ c \in HeldCodes
    \/ \E j \in i + 1 .. Len(kx.queue) :
           \/ kx.queue[j].type = "in"
           \/ kx.queue[j].type = "release" /\ c \in CodesOf(kx.queue[j].key, kb.ungrab)

(* Every modifier the client counts is held, or something on its way will    *)
(* lift it; and so is every one whose press is still to be read.             *)
SettledInv ==
    ~kb.aliased =>
        /\ \A c \in kb.remote \cap Liftable : Settles(0, c)
        /\ \A i \in 1 .. Len(kx.queue) : kx.queue[i].type = "press" =>
               \A c \in CodesOf(kx.queue[i].key, kb.ungrab) \cap Liftable : Settles(i, c)

(* Nothing on its way after event i lifts key k.                             *)
Undisturbed(i, k) ==
    \A j \in i + 1 .. Len(kx.queue) :
        kx.queue[j].type # "in" /\ ~(kx.queue[j].type = "release" /\ kx.queue[j].key = k)

(* The press of a key is on its way, or the client counts its scancode c.    *)
Fresh(k, c) ==
    \/ Undisturbed(0, k) /\ c \in kb.remote \cup kb.lost
    \/ \E i \in 1 .. Len(kx.queue) :
           kx.queue[i].type = "press" /\ kx.queue[i].key = k /\ Undisturbed(i, k)

Alone(k, c) == \A j \in Keys \ {k} : c \notin CodesOf(j, kb.ungrab)

(* So it is for each modifier that was pressed in this focus and is held.    *)
FreshInv ==
    \A k \in kx.seen : \A c \in CodesOf(k, kb.ungrab) \cap Modifiers : Alone(k, c) => Fresh(k, c)

Masks == {"Shift", "Control", "Super", "Level3", "Mode", "Alt"}

KeyEvents ==
    [type : {"press", "release"}, key : Keys, keysym : UNION {KeysymsOf(k) : k \in Keys},
     state : SUBSET Masks]
        \cup [type : {"in", "out"}]

EventOK(e) == e.type \in {"press", "release"} => e.key \in Keys /\ e.keysym \in KeysymsOf(e.key)

KeyDataInv ==
    /\ KbRec(kb) /\ Counted(kb)
    /\ DOMAIN kb.pressed = Keys
    /\ \A k \in Keys : kb.pressed[k] \in KeysymsOf(k) \cup {NoKeysym}
    /\ DOMAIN kx = {"held", "seen", "focus", "num", "queue", "count"}
    /\ kx.seen \subseteq kx.held /\ kx.held \subseteq Keys /\ IsFiniteSet(kx.held) /\ Cardinality(kx.held) <= MaxHeld
    /\ kx.queue \in Seq(KeyEvents) /\ Len(kx.queue) <= MaxKeyQueue
    /\ \A i \in 1 .. Len(kx.queue) : EventOK(kx.queue[i])
    /\ kx.focus \in BOOLEAN /\ kx.num \in BOOLEAN

KeyInv ==
    /\ KeyDataInv /\ InStep(kb) /\ (kb.unaccounted = FALSE => kb.mistyped = FALSE)
    /\ SettledInv /\ FreshInv /\ PressesAreLifted

-----------------------------------------------------------------------------
(* rdp_send_scancode: one key of the server, and what the client counts.     *)
ScancodeGives(t, u, code, pressed) ==
    /\ KbRec(u) /\ Kept(t, u) /\ u.snum = t.snum /\ u.mistyped = t.mistyped /\ u.lost = t.lost
    /\ u.remote = UpdateModifierState(t.remote, code, pressed)
    /\ u.down = IF pressed THEN t.down \cup {code} ELSE t.down \ {code}

(* The server follows each scancode, and so does the client's count.         *)
LEMMA ScancodeIs ==
    ASSUME NEW t, KbRec(t), NEW code, NEW pressed \in BOOLEAN
    PROVE  ScancodeGives(t, SendScancode(t, pressed, code), code, pressed)
<1> DEFINE R == UpdateModifierState(t.remote, code, pressed)
           D == IF pressed THEN t.down \cup {code} ELSE t.down \ {code}
           u == [t EXCEPT !.remote = R, !.down = D]
<1>1. SendScancode(t, pressed, code) = u
  BY DEF SendScancode
<1>2. R \subseteq Remotes
  BY DEF KbRec, UpdateModifierState, Remotes
<1> HIDE DEF R, D
<1>3. /\ DOMAIN u = KbFields /\ u.remote = R /\ u.down = D /\ u.snum = t.snum
      /\ u.mistyped = t.mistyped /\ u.lost = t.lost /\ Kept(t, u)
  BY DEF KbRec, KbFields, Kept
<1> HIDE DEF u
<1>4. KbRec(u)
  BY <1>2, <1>3 DEF KbRec, Kept
<1>5. ScancodeGives(t, u, code, pressed)
  BY <1>3, <1>4 DEF ScancodeGives, R, D
<1> QED BY <1>1, <1>5

(* It keeps both sides in step.                                              *)
ScancodeTo(t, u, remote, down) ==
    /\ KbRec(u) /\ Kept(t, u) /\ u.snum = t.snum /\ u.mistyped = t.mistyped /\ u.lost = t.lost
    /\ u.remote = remote /\ u.down = down
    /\ InStep(t) => InStep(u)
    /\ Counted(t) => Counted(u)

(* A scancode for a modifier, up or down, keeps the two in step.             *)
LEMMA PressIs ==
    ASSUME NEW t, KbRec(t), NEW code, code # NoKeysym
    PROVE  /\ ScancodeTo(t, SendScancode(t, TRUE, code),
                         UpdateModifierState(t.remote, code, TRUE), t.down \cup {code})
           /\ ScancodeTo(t, SendScancode(t, FALSE, code),
                         UpdateModifierState(t.remote, code, FALSE), t.down \ {code})
<1>1. /\ ScancodeGives(t, SendScancode(t, TRUE, code), code, TRUE)
      /\ ScancodeGives(t, SendScancode(t, FALSE, code), code, FALSE)
  BY ScancodeIs
<1>2. ASSUME NEW u, Kept(t, u), u.snum = t.snum, NEW pressed \in BOOLEAN,
             u.remote = UpdateModifierState(t.remote, code, pressed),
             u.down = IF pressed = TRUE THEN t.down \cup {code} ELSE t.down \ {code}
      PROVE  (InStep(t) => InStep(u)) /\ (Counted(t) => Counted(u))
  BY <1>2 DEF InStep, Counted, Kept, UpdateModifierState, Modifiers, ShiftKeys, CtrlKeys, WinKeys, NoKeysym
<1>3. ScancodeTo(t, SendScancode(t, TRUE, code),
                 UpdateModifierState(t.remote, code, TRUE), t.down \cup {code})
  <2> DEFINE u == SendScancode(t, TRUE, code)
  <2>1. /\ KbRec(u) /\ Kept(t, u) /\ u.snum = t.snum /\ u.mistyped = t.mistyped /\ u.lost = t.lost
        /\ u.remote = UpdateModifierState(t.remote, code, TRUE)
        /\ u.down = t.down \cup {code}
    BY <1>1 DEF ScancodeGives
  <2> HIDE DEF u
  <2>2. (InStep(t) => InStep(u)) /\ (Counted(t) => Counted(u))
    BY <1>2, <2>1
  <2> QED BY <2>1, <2>2 DEF ScancodeTo, u
<1>4. ScancodeTo(t, SendScancode(t, FALSE, code),
                 UpdateModifierState(t.remote, code, FALSE), t.down \ {code})
  <2> DEFINE u == SendScancode(t, FALSE, code)
  <2>1. /\ KbRec(u) /\ Kept(t, u) /\ u.snum = t.snum /\ u.mistyped = t.mistyped /\ u.lost = t.lost
        /\ u.remote = UpdateModifierState(t.remote, code, FALSE)
        /\ u.down = t.down \ {code}
    BY <1>1 DEF ScancodeGives
  <2> HIDE DEF u
  <2>2. (InStep(t) => InStep(u)) /\ (Counted(t) => Counted(u))
    BY <1>2, <2>1
  <2> QED BY <2>1, <2>2 DEF ScancodeTo, u
<1> QED BY <1>3, <1>4

(* The modifiers the client counts after each part of ensure_remote_modifiers. *)
AfterNumLock(sync, R, mods) ==
    IF sync = TRUE \/ (("numlock" \in mods) <=> ("numlock" \in R)) THEN R ELSE mods \cap {"numlock"}

AfterShift(R, mods) ==
    IF HasShift(mods) = HasShift(R) THEN R
    ELSE IF "shiftL" \in mods THEN R \cup {"shiftL"}
    ELSE IF "shiftR" \in mods THEN R \cup {"shiftR"}
    ELSE R \ {IF "shiftL" \in R THEN "shiftL" ELSE "shiftR"}

AfterAltGr(R, mods) == IF "altgr" \in mods THEN R \cup {"altgr"} ELSE R \ {"altgr"}

AfterEnsure(sync, R, mods) == AfterAltGr(AfterShift(AfterNumLock(sync, R, mods), mods), mods)

(* What each part leaves alone, and what it may lift at the server. *)
Ensured(t, u) ==
    /\ KbRec(u) /\ Kept(t, u) /\ u.mistyped = t.mistyped /\ u.lost = t.lost
    /\ InStep(t) => InStep(u)
    /\ Counted(t) => Counted(u)
    /\ u.down \ Modifiers \subseteq t.down

(* Two adjustments of the modifiers in a row are one.                        *)
LEMMA EnsuredTwice ==
    ASSUME NEW t, NEW u, NEW v, Ensured(t, u), Ensured(u, v) PROVE Ensured(t, v)
BY DEF Ensured, Kept

(* NumLock is adjusted by a synchronisation, which releases all keys.        *)
LEMMA NumLockIs ==
    ASSUME NEW t, KbRec(t), NEW mods
    PROVE  LET u == EnsureNumLock(t, mods) IN
           Ensured(t, u) /\ u.remote = AfterNumLock(t.sync, t.remote, mods)
<1> DEFINE n == ("numlock" \in mods)
           u == [[t EXCEPT !.remote = mods \cap {"numlock"}] EXCEPT !.down = {}, !.snum = n]
<1>1. n \in BOOLEAN
  OBVIOUS
<1>2. EnsureNumLock(t, mods)
        = IF t.sync \/ n = ("numlock" \in t.remote) THEN t ELSE u
  BY DEF EnsureNumLock, SendSynchronize
<1>3. Ensured(t, t)
  BY DEF Ensured, Kept
<1>4. /\ DOMAIN u = KbFields /\ u.remote = mods \cap {"numlock"} /\ u.down = {} /\ u.snum = n
      /\ u.mistyped = t.mistyped /\ u.lost = t.lost /\ Kept(t, u)
  <2> HIDE DEF n
  <2> QED BY DEF KbRec, KbFields, Kept
<1> HIDE DEF u
<1>5. KbRec(u)
  BY <1>1, <1>4 DEF KbRec, Kept, Remotes
<1>6. InStep(u)
  BY <1>4 DEF InStep, Modifiers, ShiftKeys, CtrlKeys, WinKeys
<1>7. Counted(u)
  BY <1>4 DEF Counted
<1>8. Ensured(t, u)
  BY <1>4, <1>5, <1>6, <1>7 DEF Ensured
<1> QED BY <1>2, <1>3, <1>4, <1>8 DEF AfterNumLock, KbRec

(* Shift is pressed or released as the key needs it.                         *)
LEMMA ShiftIs ==
    ASSUME NEW t, KbRec(t), NEW mods
    PROVE  LET u == EnsureShift(t, mods) IN
           Ensured(t, u) /\ u.remote = AfterShift(t.remote, mods)
<1>1. Ensured(t, t)
  BY DEF Ensured, Kept
<1>2. ASSUME NEW code \in ShiftKeys
      PROVE  /\ Ensured(t, SendScancode(t, TRUE, code))
             /\ SendScancode(t, TRUE, code).remote = t.remote \cup {code}
             /\ Ensured(t, SendScancode(t, FALSE, code))
             /\ SendScancode(t, FALSE, code).remote = t.remote \ {code}
  <2>1. code # NoKeysym /\ code \in Modifiers
    BY DEF ShiftKeys, NoKeysym, Modifiers
  <2>2. /\ ScancodeTo(t, SendScancode(t, TRUE, code), t.remote \cup {code}, t.down \cup {code})
        /\ ScancodeTo(t, SendScancode(t, FALSE, code), t.remote \ {code}, t.down \ {code})
    BY <2>1, PressIs DEF UpdateModifierState
  <2> QED BY <2>1, <2>2 DEF Ensured, ScancodeTo
<1> QED BY <1>1, <1>2 DEF EnsureShift, AfterShift, ShiftKeys

(* So is AltGr.                                                              *)
LEMMA AltGrIs ==
    ASSUME NEW t, KbRec(t), NEW mods
    PROVE  LET u == EnsureAltGr(t, mods) IN
           Ensured(t, u) /\ u.remote = AfterAltGr(t.remote, mods)
<1>1. Ensured(t, t)
  BY DEF Ensured, Kept
<1>2. "altgr" # NoKeysym /\ "altgr" \in Modifiers
  BY DEF NoKeysym, Modifiers
<1>3. /\ Ensured(t, SendScancode(t, TRUE, "altgr"))
      /\ SendScancode(t, TRUE, "altgr").remote = t.remote \cup {"altgr"}
      /\ Ensured(t, SendScancode(t, FALSE, "altgr"))
      /\ SendScancode(t, FALSE, "altgr").remote = t.remote \ {"altgr"}
  <2>1. /\ ScancodeTo(t, SendScancode(t, TRUE, "altgr"), t.remote \cup {"altgr"}, t.down \cup {"altgr"})
        /\ ScancodeTo(t, SendScancode(t, FALSE, "altgr"), t.remote \ {"altgr"}, t.down \ {"altgr"})
    BY <1>2, PressIs DEF UpdateModifierState
  <2> QED BY <1>2, <2>1 DEF Ensured, ScancodeTo
<1> DEFINE p == "altgr" \in mods
<1>4. EnsureAltGr(t, mods) = IF p = ("altgr" \in t.remote) THEN t ELSE SendScancode(t, p, "altgr")
  BY DEF EnsureAltGr
<1>5. CASE p
  <2>1. SendScancode(t, p, "altgr") = SendScancode(t, TRUE, "altgr")
    BY <1>5
  <2> QED BY <1>1, <1>3, <1>4, <1>5, <2>1 DEF AfterAltGr
<1>6. CASE ~p
  <2>0. p = FALSE
    BY <1>6
  <2>1. SendScancode(t, p, "altgr") = SendScancode(t, FALSE, "altgr")
    <3> HIDE DEF p
    <3> QED BY <2>0
  <2> QED BY <1>1, <1>3, <1>4, <1>6, <2>1 DEF AfterAltGr
<1> QED BY <1>5, <1>6

(* ensure_remote_modifiers as a whole. *)
LEMMA EnsureIs ==
    ASSUME NEW t, KbRec(t), NEW mods
    PROVE  LET u == EnsureModifiers(t, mods) IN
           Ensured(t, u) /\ u.remote = AfterEnsure(t.sync, t.remote, mods)
<1> DEFINE a == EnsureNumLock(t, mods)
           b == EnsureShift(a, mods)
           c == EnsureAltGr(b, mods)
<1>1. Ensured(t, a) /\ KbRec(a) /\ a.remote = AfterNumLock(t.sync, t.remote, mods)
  BY NumLockIs DEF Ensured
<1> HIDE DEF a
<1>2. Ensured(a, b) /\ KbRec(b) /\ b.remote = AfterShift(a.remote, mods)
  BY <1>1, ShiftIs DEF Ensured
<1> HIDE DEF b
<1>3. Ensured(b, c) /\ c.remote = AfterAltGr(b.remote, mods)
  BY <1>2, AltGrIs
<1> HIDE DEF c
<1>4. Ensured(t, c)
  BY <1>1, <1>2, <1>3, EnsuredTwice
<1>5. EnsureModifiers(t, mods) = c
  BY DEF EnsureModifiers, a, b, c
<1> QED BY <1>1, <1>2, <1>3, <1>4, <1>5 DEF AfterEnsure

(* The modifiers lifted for a key come back, or stay lifted; no other does.  *)
LEMMA RestoreIs ==
    ASSUME NEW sync, NEW R, NEW mods
    PROVE  AfterEnsure(sync, AfterEnsure(sync, R, mods), R) \cap Modifiers \subseteq R
<1> DEFINE A == AfterNumLock(sync, R, mods)
           B == AfterShift(A, mods)
           C == AfterAltGr(B, mods)
           D == AfterNumLock(sync, C, R)
           E == AfterShift(D, R)
           F == AfterAltGr(E, R)
<1>1. AfterEnsure(sync, AfterEnsure(sync, R, mods), R) = F
  BY DEF AfterEnsure
<1>2. /\ "numlock" \in B <=> "numlock" \in A
      /\ "numlock" \in C <=> "numlock" \in B
  BY DEF AfterShift, AfterAltGr
<1>3. \A m \in Modifiers \ ShiftKeys : m # "altgr" =>
          /\ m \in F => m \in D
          /\ m \in D => (m \in C /\ D = C) \/ m \in {"numlock"}
          /\ m \in C => m \in A
          /\ m \in A => m \in R \/ m \in {"numlock"}
  BY DEF AfterShift, AfterAltGr, AfterNumLock, ShiftKeys
<1>4. "altgr" \in F => "altgr" \in R
  BY DEF AfterAltGr
<1>5. CASE A = R
  <2>1. D = C
    BY <1>2, <1>5 DEF AfterNumLock
  <2>2. \A m \in ShiftKeys : m \in F <=> m \in E
    BY DEF AfterAltGr, ShiftKeys
  <2>3. \A m \in ShiftKeys : m \in C <=> m \in B
    BY DEF AfterAltGr, ShiftKeys
  <2>4. \A m \in ShiftKeys : m \in E => m \in R
    <3> HIDE DEF C, D
    <3> QED BY <1>5, <2>1, <2>3 DEF AfterShift, ShiftKeys, HasShift
  <2> QED BY <1>1, <1>3, <1>4, <1>5, <2>1, <2>2, <2>4 DEF Modifiers, ShiftKeys
<1>6. CASE A # R
  <2>1. /\ A = mods \cap {"numlock"} /\ sync # TRUE
        /\ ~("numlock" \in mods <=> "numlock" \in R)
    BY <1>6 DEF AfterNumLock
  <2>2. ~("numlock" \in R <=> "numlock" \in C)
    BY <1>2, <2>1
  <2>3. D = R \cap {"numlock"}
    BY <2>1, <2>2 DEF AfterNumLock
  <2>4. \A m \in ShiftKeys : m \in F <=> m \in E
    BY DEF AfterAltGr, ShiftKeys
  <2>5. \A m \in ShiftKeys : m \in E => m \in R
    <3> HIDE DEF D
    <3> QED BY <2>3 DEF AfterShift, ShiftKeys, HasShift
  <2> QED BY <1>1, <1>3, <1>4, <2>3, <2>4, <2>5 DEF Modifiers, ShiftKeys
<1> QED BY <1>5, <1>6

(* Before a key the server holds what its keysym asks for, unless both Shift *)
(* keys are held.                                                            *)
LEMMA EnsureFits ==
    ASSUME NEW t, KbRec(t), InStep(t), t.unaccounted = FALSE, NEW mods, ~(ShiftKeys \subseteq t.remote)
    PROVE  Fits(EnsureModifiers(t, mods), mods)
<1> DEFINE u == EnsureModifiers(t, mods)
<1>1. Ensured(t, u) /\ u.remote = AfterEnsure(t.sync, t.remote, mods)
  BY EnsureIs
<1> HIDE DEF u
<1> DEFINE A == AfterNumLock(t.sync, t.remote, mods)
           B == AfterShift(A, mods)
<1>2. u.remote = AfterAltGr(B, mods)
  BY <1>1 DEF AfterEnsure
<1>3. /\ u.unaccounted = FALSE /\ u.sync = t.sync /\ InStep(u) /\ KbRec(u)
  BY <1>1 DEF Ensured, Kept
<1>4. /\ \A m \in Modifiers : m \in u.remote <=> m \in u.down
      /\ u.sync = FALSE => (("numlock" \in u.remote) <=> (u.snum = TRUE))
  BY <1>3 DEF InStep
<1>5. ~(ShiftKeys \subseteq A)
  BY DEF AfterNumLock, ShiftKeys
<1>6. HasShift(mods) <=> HasShift(B)
  <2> HIDE DEF A
  <2> QED BY <1>5 DEF AfterShift, HasShift, ShiftKeys
<1>7. HasShift(B) <=> HasShift(u.down)
  BY <1>2, <1>4 DEF HasShift, ShiftKeys, Modifiers, AfterAltGr
<1>8. "altgr" \in mods <=> "altgr" \in u.down
  BY <1>2, <1>4 DEF Modifiers, AfterAltGr
<1>9. u.sync = FALSE => ("numlock" \in mods <=> "numlock" \in u.remote)
  BY <1>2, <1>3 DEF AfterAltGr, AfterShift, AfterNumLock
<1>10. u.sync \in BOOLEAN /\ u.snum \in BOOLEAN
  BY <1>3 DEF KbRec
<1>11. HasShift(mods) = HasShift(u.down)
  BY <1>6, <1>7 DEF HasShift
<1>12. ~u.sync => ("numlock" \in mods) = u.snum
  BY <1>4, <1>9, <1>10
<1> QED BY <1>8, <1>11, <1>12 DEF Fits, u

(* The modifiers that were counted before a key are counted after it, but    *)
(* those it costs.                                                           *)
LEMMA RestoresAll ==
    ASSUME NEW t, KbRec(t), NEW mods, NEW R, R = t.remote
    PROVE  R \cap Modifiers
             \subseteq AfterEnsure(t.sync, AfterEnsure(t.sync, R, mods), R) \cup LostTo(t, mods)
<1> DEFINE A == AfterNumLock(t.sync, R, mods)
           B == AfterShift(A, mods)
           C == AfterAltGr(B, mods)
           D == AfterNumLock(t.sync, C, R)
           E == AfterShift(D, R)
           F == AfterAltGr(E, R)
<1>1. AfterEnsure(t.sync, AfterEnsure(t.sync, R, mods), R) = F
  BY DEF AfterEnsure
<1>2. /\ "numlock" \in B <=> "numlock" \in A
      /\ "numlock" \in C <=> "numlock" \in B
  BY DEF AfterShift, AfterAltGr
<1>3. "altgr" \in R => "altgr" \in F
  BY DEF AfterAltGr
<1>4. t.sync \in BOOLEAN
  BY DEF KbRec
<1> SUFFICES ASSUME NEW m \in R \cap Modifiers, m \notin LostTo(t, mods) PROVE m \in F
  BY <1>1
<1>5. ShiftKeys \subseteq R => m \notin ShiftKeys
  BY DEF LostTo
<1>6. CASE A = R
  <2>1. D = C
    BY <1>2, <1>6 DEF AfterNumLock
  <2>2. CASE m \notin ShiftKeys /\ m # "altgr"
    <3>1. m \in B
      BY <1>6, <2>2 DEF AfterShift, ShiftKeys
    <3>2. m \in C
      BY <2>2, <3>1 DEF AfterAltGr
    <3> HIDE DEF C
    <3>3. m \in E
      BY <2>1, <2>2, <3>2 DEF AfterShift, ShiftKeys
    <3> QED BY <2>2, <3>3 DEF AfterAltGr
  <2>3. CASE m \in ShiftKeys
    <3>1. \A x \in ShiftKeys : (x \in C <=> x \in B) /\ (x \in F <=> x \in E)
      BY DEF AfterAltGr, ShiftKeys
    <3>2. ~(ShiftKeys \subseteq R)
      BY <1>5, <2>3
    <3>3. m \in E
      <4> HIDE DEF C, D
      <4> QED BY <1>6, <2>1, <2>3, <3>1, <3>2 DEF AfterShift, ShiftKeys, HasShift
    <3> QED BY <2>3, <3>1, <3>3
  <2> QED BY <1>3, <2>2, <2>3
<1>7. CASE A # R
  <2>1. /\ A = mods \cap {"numlock"} /\ t.sync # TRUE
        /\ ~("numlock" \in mods <=> "numlock" \in R)
    BY <1>7 DEF AfterNumLock
  <2>2. m \in ShiftKeys \/ m = "altgr"
    BY <1>4, <2>1 DEF LostTo
  <2>3. ~("numlock" \in R <=> "numlock" \in C)
    BY <1>2, <2>1
  <2>4. D = R \cap {"numlock"}
    BY <2>1, <2>3 DEF AfterNumLock
  <2>5. CASE m \in ShiftKeys
    <3>1. ~(ShiftKeys \subseteq R)
      BY <1>5, <2>5
    <3>2. m \in E
      <4> HIDE DEF D
      <4> QED BY <2>4, <2>5, <3>1 DEF AfterShift, ShiftKeys, HasShift
    <3> QED BY <2>5, <3>2 DEF AfterAltGr, ShiftKeys
  <2> QED BY <1>3, <2>2, <2>5
<1> QED BY <1>6, <1>7

-----------------------------------------------------------------------------
(* xkeymap_send_keys *)

(* What a key does besides its own scancode.                                 *)
KeySent(t, u) ==
    /\ KbRec(u) /\ Kept(t, u)
    /\ InStep(t) => InStep(u)
    /\ Counted(t) => Counted(u)
    /\ InStep(t) /\ t.unaccounted = FALSE /\ t.mistyped = FALSE => u.mistyped = FALSE

(* It leaves the modifiers as they were, but those it has cost.              *)
Restored(t, u) ==
    /\ u.remote \cap Modifiers \subseteq t.remote
    /\ t.remote \cap Modifiers \subseteq u.remote \cup u.lost
    /\ t.lost \subseteq u.lost

(* The scancode of a key does not depend on the modifiers held.              *)
LEMMA TranslationIs ==
    ASSUME NEW k, NEW s, NEW t, NEW state
    PROVE  Translation(t, k, s, state).code = ScancodeOf(k, s)
BY DEF Translation

(* A modifier's key is only that.                                            *)
ModifierSent(t, u, code, pressed) ==
    /\ KeySent(t, u)
    /\ u.remote = IF pressed THEN t.remote \cup {code} ELSE t.remote \ {code}
    /\ u.lost = t.lost \ {code}
    /\ u.down \ Modifiers \subseteq t.down

LEMMA SendModifierIs ==
    ASSUME NEW t, KbRec(t), NEW code \in Modifiers, NEW pressed \in BOOLEAN
    PROVE  ModifierSent(t, SendModifier(t, pressed, code), code, pressed)
<1> DEFINE v == SendScancode(t, pressed, code)
           L == t.lost \ {code}
           u == [v EXCEPT !.lost = L]
<1>1. code # NoKeysym
  BY DEF Modifiers, ShiftKeys, CtrlKeys, WinKeys, NoKeysym
<1>2. \/ pressed = TRUE /\ ScancodeTo(t, v, t.remote \cup {code}, t.down \cup {code})
      \/ pressed = FALSE /\ ScancodeTo(t, v, t.remote \ {code}, t.down \ {code})
  <2>1. /\ ScancodeTo(t, SendScancode(t, TRUE, code), t.remote \cup {code}, t.down \cup {code})
        /\ ScancodeTo(t, SendScancode(t, FALSE, code), t.remote \ {code}, t.down \ {code})
    BY <1>1, PressIs DEF UpdateModifierState
  <2>2. CASE pressed = TRUE
    <3>1. v = SendScancode(t, TRUE, code)
      BY <2>2
    <3> HIDE DEF v
    <3> QED BY <2>1, <2>2, <3>1
  <2>3. CASE pressed = FALSE
    <3>1. v = SendScancode(t, FALSE, code)
      BY <2>3
    <3> HIDE DEF v
    <3> QED BY <2>1, <2>3, <3>1
  <2> QED BY <2>2, <2>3
<1> DEFINE d == IF pressed THEN t.down \cup {code} ELSE t.down \ {code}
           R == IF pressed THEN t.remote \cup {code} ELSE t.remote \ {code}
<1>3. ScancodeTo(t, v, R, d)
  <2> HIDE DEF v
  <2> QED BY <1>2
<1>4. SendModifier(t, pressed, code) = u
  <2>1. SendModifier(t, pressed, code) = [v EXCEPT !.lost = v.lost \ {code}]
    BY DEF SendModifier
  <2>2. v.lost = t.lost
    BY <1>3 DEF ScancodeTo
  <2> HIDE DEF v
  <2> QED BY <2>1, <2>2
<1>5. L \subseteq Modifiers /\ d \ Modifiers \subseteq t.down
  BY DEF KbRec
<1> HIDE DEF v, L, d, R
<1>6. /\ KbRec(v) /\ Kept(t, v) /\ v.snum = t.snum /\ v.mistyped = t.mistyped
      /\ v.remote = R /\ v.down = d
      /\ InStep(t) => InStep(v)
      /\ Counted(t) => Counted(v)
  BY <1>3 DEF ScancodeTo
<1>7. /\ DOMAIN u = KbFields /\ Kept(v, u) /\ u.remote = v.remote /\ u.down = v.down
      /\ u.snum = v.snum /\ u.mistyped = v.mistyped /\ u.lost = L
  BY <1>6 DEF KbRec, KbFields, Kept
<1> HIDE DEF u
<1>8. KbRec(u)
  BY <1>5, <1>6, <1>7 DEF KbRec, Kept
<1>9. KeySent(t, u)
  BY <1>6, <1>7, <1>8 DEF KeySent, Kept, InStep, Counted
<1>10. u.remote = IF pressed THEN t.remote \cup {code} ELSE t.remote \ {code}
  BY <1>6, <1>7 DEF R
<1>11. u.lost = t.lost \ {code}
  BY <1>7 DEF L
<1>12. u.down \ Modifiers \subseteq t.down
  BY <1>5, <1>6, <1>7
<1> QED BY <1>4, <1>9, <1>10, <1>11, <1>12 DEF ModifierSent

(* Every other key comes with its modifiers, which are then put back.        *)
LEMMA SendPlainIs ==
    ASSUME NEW t, KbRec(t), NEW k, NEW s, ScancodeOf(k, s) \notin Modifiers, NEW state,
           NEW pressed \in BOOLEAN, Counted(t)
    PROVE  LET u == SendKey(t, k, s, state, pressed) IN
           /\ KeySent(t, u) /\ Restored(t, u)
           /\ u.down \ Modifiers \subseteq
                  IF pressed THEN t.down \cup {ScancodeOf(k, s)} ELSE t.down \ {ScancodeOf(k, s)}
<1> DEFINE tr == Translation(t, k, s, state)
           mods == tr.mods
           code == ScancodeOf(k, s)
           e == EnsureModifiers(t, mods)
           wrong == pressed /\ ~(ShiftKeys \subseteq t.remote) /\ ~Fits(e, mods)
           typed == e.mistyped \/ wrong
           L == e.lost \cup LostTo(t, mods)
           f == [e EXCEPT !.mistyped = typed, !.lost = L]
           g == SendScancode(f, pressed, code)
           u == EnsureModifiers(g, t.remote)
<1>1. CASE code = NoKeysym
  <2>1. SendKey(t, k, s, state, pressed) = t
    BY <1>1, TranslationIs DEF SendKey
  <2>2. KeySent(t, t) /\ Restored(t, t) /\ NoKeysym \notin t.down
    BY DEF KeySent, Kept, Restored, Counted
  <2>3. t.down \ Modifiers \subseteq IF pressed THEN t.down \cup {code} ELSE t.down \ {code}
    BY <1>1, <2>2
  <2> QED BY <2>1, <2>2, <2>3
<1>2. CASE code # NoKeysym
  <2>1. SendKey(t, k, s, state, pressed) = u
    BY <1>2, TranslationIs DEF SendKey, RestoreModifiers
  <2>2. Ensured(t, e) /\ e.remote = AfterEnsure(t.sync, t.remote, mods)
    BY EnsureIs
  <2>3. InStep(t) /\ t.unaccounted = FALSE /\ t.mistyped = FALSE => typed = FALSE
    <3> SUFFICES ASSUME InStep(t), t.unaccounted = FALSE, t.mistyped = FALSE PROVE typed = FALSE
      OBVIOUS
    <3>1. e.mistyped = FALSE
      BY <2>2 DEF Ensured
    <3>2. ~wrong
      <4>1. ASSUME ~(ShiftKeys \subseteq t.remote) PROVE Fits(e, mods)
        BY <4>1, EnsureFits
      <4> HIDE DEF e, mods
      <4> QED BY <4>1
    <3> HIDE DEF wrong
    <3> QED BY <3>1, <3>2
  <2>4. typed \in BOOLEAN
    OBVIOUS
  <2>5. t.remote \cap Modifiers
          \subseteq AfterEnsure(t.sync, AfterEnsure(t.sync, t.remote, mods), t.remote) \cup LostTo(t, mods)
    BY RestoresAll
  <2>6. LostTo(t, mods) \subseteq Modifiers
    BY DEF LostTo, Modifiers
  <2> DEFINE lostTo == LostTo(t, mods)
  <2>7. L = t.lost \cup lostTo /\ L \subseteq Modifiers
    <3>1. e.lost = t.lost
      BY <2>2 DEF Ensured
    <3> QED BY <2>6, <3>1 DEF KbRec
  <2> HIDE DEF typed, e, mods, L, lostTo
  <2>8. /\ KbRec(f) /\ Kept(e, f) /\ f.mistyped = typed /\ f.remote = e.remote /\ f.down = e.down
        /\ f.snum = e.snum /\ f.lost = L
    <3>1. KbRec(e)
      BY <2>2 DEF Ensured
    <3>2. /\ DOMAIN f = DOMAIN e /\ Kept(e, f) /\ f.mistyped = typed /\ f.remote = e.remote
          /\ f.down = e.down /\ f.snum = e.snum /\ f.lost = L
      BY <3>1 DEF KbRec, KbFields, Kept
    <3> HIDE DEF f
    <3> QED BY <2>4, <2>7, <3>1, <3>2 DEF KbRec, Kept
  <2> HIDE DEF f
  <2>9. /\ InStep(t) => InStep(f)
        /\ Counted(t) => Counted(f)
        /\ Kept(t, f)
        /\ f.down \ Modifiers \subseteq t.down
    BY <2>2, <2>8 DEF Ensured, InStep, Counted, Kept
  <2>10. /\ ScancodeTo(f, SendScancode(f, TRUE, code), f.remote, f.down \cup {code})
         /\ ScancodeTo(f, SendScancode(f, FALSE, code), f.remote, f.down \ {code})
    BY <1>2, <2>8, PressIs DEF UpdateModifierState
  <2>11. /\ KbRec(g) /\ Kept(f, g) /\ g.remote = f.remote /\ g.mistyped = f.mistyped
         /\ g.lost = f.lost
         /\ InStep(f) => InStep(g)
         /\ Counted(f) => Counted(g)
         /\ g.down = IF pressed THEN f.down \cup {code} ELSE f.down \ {code}
    <3>1. CASE pressed = TRUE
      BY <2>10, <3>1 DEF ScancodeTo
    <3>2. CASE pressed = FALSE
      BY <2>10, <3>2 DEF ScancodeTo
    <3> QED BY <3>1, <3>2
  <2> HIDE DEF g, code
  <2>12. Ensured(g, u) /\ u.remote = AfterEnsure(g.sync, g.remote, t.remote)
    BY <2>11, EnsureIs
  <2> HIDE DEF u
  <2>13. g.sync = t.sync
    BY <2>9, <2>11 DEF Kept
  <2>14. u.remote \cap Modifiers \subseteq t.remote
    BY <2>2, <2>8, <2>11, <2>12, <2>13, RestoreIs
  <2>15. u.lost = t.lost \cup lostTo
    BY <2>7, <2>8, <2>11, <2>12 DEF Ensured
  <2>16. t.remote \cap Modifiers \subseteq u.remote \cup lostTo
    BY <2>2, <2>5, <2>8, <2>11, <2>12, <2>13 DEF lostTo
  <2>17. Restored(t, u)
    BY <2>14, <2>15, <2>16 DEF Restored
  <2>18. u.mistyped = typed
    BY <2>8, <2>11, <2>12 DEF Ensured
  <2>19. KeySent(t, u)
    BY <2>3, <2>9, <2>11, <2>12, <2>18 DEF Ensured, Kept, KeySent
  <2>20. u.down \ Modifiers \subseteq IF pressed THEN t.down \cup {code} ELSE t.down \ {code}
    BY <2>9, <2>11, <2>12 DEF Ensured
  <2> QED BY <2>1, <2>17, <2>19, <2>20 DEF code
<1> QED BY <1>1, <1>2

(* The sequence of a dead key: what taps do, one after the other.  The       *)
(* function that Tapped reads exists for every length.                       *)
IsTaps(f, t, k, seq, state, N) ==
    f = [n \in 0 .. N |-> IF n = 0 THEN t ELSE Tap(f[n - 1], k, seq[n], state)]

LEMMA TapsExist ==
    ASSUME NEW t, NEW k, NEW seq, NEW state, NEW N \in Nat
    PROVE  \E f : IsTaps(f, t, k, seq, state, N)
<1> DEFINE Step(f, n) == IF n = 0 THEN t ELSE Tap(f[n - 1], k, seq[n], state)
           S == {n \in Nat : \E f : f = [h \in 0 .. n |-> Step(f, h)]}
<1>1. 0 \in S
  <2> DEFINE f == [h \in 0 .. 0 |-> t]
  <2>1. f = [h \in 0 .. 0 |-> Step(f, h)]
    OBVIOUS
  <2> QED BY <2>1
<1>2. ASSUME NEW n \in Nat, n \in S PROVE n + 1 \in S
  <2>1. PICK f : f = [h \in 0 .. n |-> Step(f, h)]
    BY <1>2
  <2> DEFINE g == [h \in 0 .. n + 1 |-> IF h = n + 1 THEN Tap(f[n], k, seq[n + 1], state) ELSE f[h]]
  <2>2. ASSUME NEW h \in 0 .. n + 1 PROVE g[h] = Step(g, h)
    <3>1. CASE h = n + 1
      <4>1. h - 1 = n /\ h # 0 /\ n \in 0 .. n + 1 /\ n # n + 1
        BY <3>1
      <4>2. g[h - 1] = f[n]
        BY <4>1
      <4> QED BY <3>1, <4>1, <4>2
    <3>2. CASE h # n + 1
      <4>1. h \in 0 .. n /\ (h # 0 => h - 1 \in 0 .. n)
        BY <3>2
      <4>2. g[h] = f[h] /\ (h # 0 => g[h - 1] = f[h - 1])
        BY <3>2, <4>1
      <4>3. f[h] = Step(f, h)
        BY <2>1, <4>1
      <4> QED BY <4>2, <4>3
    <3> QED BY <3>1, <3>2
  <2>3. g = [h \in 0 .. n + 1 |-> g[h]]
    OBVIOUS
  <2> HIDE DEF g
  <2>4. g = [h \in 0 .. n + 1 |-> Step(g, h)]
    BY <2>2, <2>3
  <2> QED BY <2>4
<1> HIDE DEF S
<1>3. N \in S
  BY <1>1, <1>2, Induct
<1>4. PICK f : f = [h \in 0 .. N |-> Step(f, h)]
  BY <1>3 DEF S
<1> QED BY <1>4 DEF IsTaps

(* A tap leaves nothing behind.                                              *)
Typed(t, u) ==
    /\ KeySent(t, u) /\ Restored(t, u)
    /\ u.down \ Modifiers \subseteq t.down

(* Two keys sent in a row leave what each of them leaves.                    *)
LEMMA SentTwice ==
    ASSUME NEW t, NEW u, NEW v, KeySent(t, u), KeySent(u, v) PROVE KeySent(t, v)
BY DEF KeySent, Kept

(* So do two that put the modifiers back.                                    *)
LEMMA RestoredTwice ==
    ASSUME NEW t, NEW u, NEW v, Restored(t, u), Restored(u, v) PROVE Restored(t, v)
BY DEF Restored

(* A key of a sequence is pressed and released again.                        *)
LEMMA TapIs ==
    ASSUME NEW t, KbRec(t), Counted(t), NEW k, NEW s, ScancodeOf(k, s) \notin Modifiers, NEW state
    PROVE  Typed(t, Tap(t, k, s, state)) /\ Counted(Tap(t, k, s, state))
<1> DEFINE u == SendKey(t, k, s, state, TRUE)
           v == SendKey(u, k, s, state, FALSE)
           code == ScancodeOf(k, s)
<1>1. KeySent(t, u) /\ Restored(t, u) /\ u.down \ Modifiers \subseteq t.down \cup {code}
  BY SendPlainIs
<1>2. KbRec(u) /\ Counted(u)
  BY <1>1 DEF KeySent
<1> HIDE DEF u
<1>3. KeySent(u, v) /\ Restored(u, v) /\ v.down \ Modifiers \subseteq u.down \ {code}
  BY <1>2, SendPlainIs
<1> HIDE DEF v
<1>4. KeySent(t, v) /\ Restored(t, v)
  BY <1>1, <1>3, SentTwice, RestoredTwice
<1>5. v.down \ Modifiers \subseteq t.down
  BY <1>1, <1>3
<1>6. Tap(t, k, s, state) = v
  BY DEF Tap, u, v
<1> QED BY <1>4, <1>5, <1>6 DEF Typed, KeySent

(* So is every key of the sequence, by induction on what was sent of it.     *)
LEMMA TappedIs ==
    ASSUME NEW t, KbRec(t), Counted(t), NEW k \in Keys, NEW s \in DOMAIN Keymap, NEW state
    PROVE  Typed(t, Tapped(t, k, Keymap[s].seq, state))
<1> DEFINE seq == Keymap[s].seq
           f == CHOOSE g : g = [n \in 0 .. Len(seq) |->
                                    IF n = 0 THEN t ELSE Tap(g[n - 1], k, seq[n], state)]
           S == {n \in Nat : n <= Len(seq) => Typed(t, f[n])}
<1>1. Tapped(t, k, seq, state) = f[Len(seq)]
  BY DEF Tapped
<1>2. seq \in Seq(STRING) /\ \A n \in 1 .. Len(seq) : ScancodeOf(k, seq[n]) \notin Modifiers
  BY KeyboardConstants
<1> HIDE DEF seq
<1>3. Len(seq) \in Nat
  BY <1>2
<1>4. f = [n \in 0 .. Len(seq) |-> IF n = 0 THEN t ELSE Tap(f[n - 1], k, seq[n], state)]
  <2>1. PICK g : IsTaps(g, t, k, seq, state, Len(seq))
    BY <1>3, TapsExist
  <2>2. g = [n \in 0 .. Len(seq) |-> IF n = 0 THEN t ELSE Tap(g[n - 1], k, seq[n], state)]
    BY <2>1 DEF IsTaps
  <2> QED BY <2>2
<1> HIDE DEF f
<1>5. 0 \in S
  <2>1. f[0] = t
    BY <1>3, <1>4
  <2>2. Typed(t, t)
    BY DEF Typed, KeySent, Kept, Restored
  <2> QED BY <2>1, <2>2
<1>6. ASSUME NEW n \in Nat, n \in S PROVE n + 1 \in S
  <2> SUFFICES ASSUME n + 1 <= Len(seq) PROVE Typed(t, f[n + 1])
    BY <1>3
  <2> DEFINE h == n + 1
  <2>1. h \in 1 .. Len(seq) /\ h \in 0 .. Len(seq) /\ h # 0 /\ h - 1 = n /\ n <= Len(seq)
    BY <1>3
  <2>2. Typed(t, f[n]) /\ KbRec(f[n]) /\ Counted(f[n])
    BY <1>6, <2>1 DEF Typed, KeySent
  <2> HIDE DEF h
  <2>3. f[h] = Tap(f[n], k, seq[h], state)
    BY <1>4, <2>1
  <2>4. Typed(f[n], f[h])
    BY <1>2, <2>1, <2>2, <2>3, TapIs
  <2>5. KeySent(t, f[h]) /\ Restored(t, f[h])
    BY <2>2, <2>4, SentTwice, RestoredTwice DEF Typed
  <2>6. Typed(t, f[h])
    BY <2>2, <2>4, <2>5 DEF Typed
  <2> QED BY <2>6 DEF h
<1> HIDE DEF S
<1>7. Len(seq) \in S
  BY <1>3, <1>5, <1>6, Induct
<1> QED BY <1>1, <1>3, <1>7 DEF S, seq

-----------------------------------------------------------------------------
(* Key events *)

(* What a key event does to the client besides the keys themselves.          *)
KeyHandled(t, u) ==
    /\ KbRec(u) /\ InStep(u) /\ Counted(u)
    /\ u.sync = t.sync /\ u.pressed = t.pressed /\ u.aliased = t.aliased /\ u.ungrab = t.ungrab
    /\ t.missed = TRUE => u.missed = TRUE
    /\ t.unaccounted = TRUE => u.unaccounted = TRUE
    /\ u.unaccounted = FALSE => u.mistyped = FALSE

KeyStateOK(t) ==
    /\ KbRec(t) /\ InStep(t) /\ Counted(t) /\ (t.unaccounted = FALSE => t.mistyped = FALSE)

(* A key that was sent well is one that was handled well.                    *)
LEMMA SentIsHandled ==
    ASSUME NEW t, NEW u, KeyStateOK(t), KeySent(t, u) PROVE KeyHandled(t, u)
BY DEF KeyStateOK, KeySent, KeyHandled, Kept

(* Another synchronisation: the client's count is marked when it is wrong.   *)
LEMMA ResynchronizeIs ==
    ASSUME NEW t, KbRec(t), NEW n \in BOOLEAN
    PROVE  LET u == Resynchronize(t, n) IN
           /\ KbRec(u) /\ InStep(u) /\ Counted(u) /\ u.down = {} /\ u.remote = t.remote
           /\ u.sync = t.sync /\ u.pressed = t.pressed /\ u.aliased = t.aliased
           /\ u.missed = t.missed /\ u.mistyped = t.mistyped
           /\ u.ungrab = t.ungrab /\ u.lost = t.lost
           /\ t.unaccounted = TRUE => u.unaccounted = TRUE
<1> DEFINE lost == \/ t.remote \cap Modifiers # {}
                   \/ ~t.sync /\ ("numlock" \in t.remote) # n
           w == t.unaccounted \/ lost
           v == [t EXCEPT !.down = {}, !.snum = n]
           u == [v EXCEPT !.unaccounted = w]
<1>1. /\ DOMAIN v = KbFields /\ v.down = {} /\ v.remote = t.remote /\ v.snum = n /\ v.sync = t.sync
      /\ v.pressed = t.pressed /\ v.aliased = t.aliased /\ v.missed = t.missed
      /\ v.mistyped = t.mistyped /\ v.unaccounted = t.unaccounted
      /\ v.ungrab = t.ungrab /\ v.lost = t.lost
  BY DEF KbRec, KbFields
<1>2. Resynchronize(t, n) = u
  <2> HIDE DEF lost
  <2>1. Resynchronize(t, n) = [v EXCEPT !.unaccounted = @ \/ lost]
    BY DEF Resynchronize, SendSynchronize, lost
  <2>2. [v EXCEPT !.unaccounted = @ \/ lost] = [v EXCEPT !.unaccounted = v.unaccounted \/ lost]
    OBVIOUS
  <2> HIDE DEF v
  <2> QED BY <1>1, <2>1, <2>2
<1>3. w \in BOOLEAN /\ (w = FALSE => lost = FALSE) /\ (t.unaccounted = TRUE => w = TRUE)
  OBVIOUS
<1> HIDE DEF v, w
<1>4. /\ DOMAIN u = KbFields /\ u.down = {} /\ u.remote = t.remote /\ u.snum = n /\ u.sync = t.sync
      /\ u.pressed = t.pressed /\ u.aliased = t.aliased /\ u.missed = t.missed
      /\ u.mistyped = t.mistyped /\ u.unaccounted = w /\ u.ungrab = t.ungrab /\ u.lost = t.lost
  BY <1>1 DEF KbFields
<1> HIDE DEF u
<1>5. KbRec(u)
  BY <1>3, <1>4 DEF KbRec
<1>6. t.sync \in BOOLEAN
  BY DEF KbRec
<1>7. lost = FALSE => /\ t.remote \cap Modifiers = {}
                      /\ t.sync = FALSE => (("numlock" \in t.remote) <=> (n = TRUE))
  BY <1>6
<1> HIDE DEF lost
<1>8. InStep(u)
  BY <1>3, <1>4, <1>7 DEF InStep
<1>9. Counted(u)
  BY <1>4 DEF Counted
<1> QED BY <1>2, <1>3, <1>4, <1>5, <1>8, <1>9

(* A modifier's key has one keysym, and no other key has a modifier's code.  *)
LEMMA KeysymsAre ==
    ASSUME NEW k \in Keys, NEW s \in KeysymsOf(k)
    PROVE  /\ KeyCode(k, s) \in Modifiers => KeysymsOf(k) = {s}
           /\ s \in ModifierKeys => KeysymsOf(k) = {s}
           /\ s \in {"numlock", "break", "Return"} => KeyCode(k, s) \notin Modifiers
           /\ s # NoKeysym
<1>1. k \in ModifierKeys => KeysymsOf(k) = {k}
  BY DEF KeysymsOf, ModifierKeys, Modifiers, ShiftKeys, CtrlKeys, WinKeys
<1>2. s \in ModifierKeys => k \in ModifierKeys
  BY DEF KeysymsOf, ModifierKeys, Modifiers, ShiftKeys, CtrlKeys, WinKeys
<1>3. KeyCode(k, s) \in Modifiers => k \in ModifierKeys
  BY KeyboardConstants
<1>4. s # NoKeysym
  BY KeyboardConstants DEF KeysymsOf, NoKeysym
<1>5. s \in {"numlock", "break", "Return"} => s \notin ModifierKeys
  BY DEF ModifierKeys, Modifiers, ShiftKeys, CtrlKeys, WinKeys
<1> QED BY <1>1, <1>2, <1>3, <1>4, <1>5

(* The scancode that is sent for a key, if it is a modifier's.               *)
LEMMA CodesAre ==
    ASSUME NEW k \in Keys, NEW ungrab, ungrab \subseteq ModifierKeys, NEW s \in KeysymsOf(k)
    PROVE  /\ s \notin ungrab => KeyCode(k, s) \in CodesOf(k, ungrab)
           /\ \A c \in CodesOf(k, ungrab) \cap Modifiers : s \notin ungrab /\ KeyCode(k, s) = c
<1>1. s \notin ungrab => KeyCode(k, s) \in CodesOf(k, ungrab)
  BY DEF CodesOf
<1>2. ASSUME NEW c \in CodesOf(k, ungrab) \cap Modifiers PROVE s \notin ungrab /\ KeyCode(k, s) = c
  <2>1. PICK u \in KeysymsOf(k) \ ungrab : KeyCode(k, u) = c
    BY <1>2 DEF CodesOf
  <2>2. KeysymsOf(k) = {u}
    BY <1>2, <2>1, KeysymsAre
  <2> QED BY <2>1, <2>2
<1> QED BY <1>1, <1>2

(* What a key event does to the keys: its own scancode goes down or up, and  *)
(* the modifiers are put back, but those it has cost.                        *)
Own(t, k, s) == s \notin t.ungrab /\ KeyCode(k, s) \in Modifiers
Plain == Modifiers \cup {"break"}

HandledAs(t, u, k, s, pressed) ==
    /\ KeyHandled(t, u)
    /\ \A c \in u.remote \cap Modifiers :
           c \in t.remote \/ (Own(t, k, s) /\ pressed = TRUE /\ c = KeyCode(k, s))
    /\ Own(t, k, s) => (KeyCode(k, s) \in u.remote <=> pressed = TRUE)
    /\ \A c \in Modifiers :
           c \in t.remote \cup t.lost /\ ~(Own(t, k, s) /\ c = KeyCode(k, s)) => c \in u.remote \cup u.lost
    /\ \A c \in u.down \ Plain :
           \/ c \in t.down /\ (pressed = FALSE /\ u.missed = FALSE => s \in t.ungrab \/ c # KeyCode(k, s))
           \/ pressed = TRUE /\ s \notin t.ungrab /\ c = KeyCode(k, s)

(* A key that is not a modifier's, if it leaves the modifiers as they were.  *)
LEMMA RestoredIsHandled ==
    ASSUME NEW t, NEW u, NEW k, NEW s, NEW pressed \in BOOLEAN, KeyHandled(t, u), Restored(t, u),
           ~Own(t, k, s),
           \A c \in u.down \ Plain :
               \/ c \in t.down /\ (pressed = FALSE /\ u.missed = FALSE => s \in t.ungrab \/ c # KeyCode(k, s))
               \/ pressed = TRUE /\ s \notin t.ungrab /\ c = KeyCode(k, s)
    PROVE  HandledAs(t, u, k, s, pressed)
<1>1. \A c \in u.remote \cap Modifiers : c \in t.remote
  BY DEF Restored
<1>2. \A c \in Modifiers : c \in t.remote \cup t.lost => c \in u.remote \cup u.lost
  BY DEF Restored
<1> QED BY <1>1, <1>2, Zenon DEF HandledAs

(* A modifier's key that is not kept from the server.                        *)
LEMMA ModifierIsHandled ==
    ASSUME NEW t, KeyStateOK(t), NEW k, NEW s, NEW pressed \in BOOLEAN, Own(t, k, s),
           NEW u, u = SendModifier(t, pressed, KeyCode(k, s))
    PROVE  HandledAs(t, u, k, s, pressed)
<1> DEFINE code == KeyCode(k, s)
<1>1. code \in Modifiers /\ KbRec(t)
  BY DEF Own, KeyStateOK
<1> HIDE DEF code
<1>2. u = SendModifier(t, pressed, code)
  BY DEF code
<1>3. /\ KeySent(t, u)
      /\ u.remote = IF pressed THEN t.remote \cup {code} ELSE t.remote \ {code}
      /\ u.lost = t.lost \ {code}
      /\ u.down \ Modifiers \subseteq t.down
  <2>1. ModifierSent(t, u, code, pressed)
    BY <1>1, <1>2, SendModifierIs
  <2> QED BY <2>1 DEF ModifierSent
<1>4. KeyHandled(t, u)
  BY <1>3, SentIsHandled
<1>5. \A c \in u.remote \cap Modifiers : c \in t.remote \/ (pressed = TRUE /\ c = code)
  BY <1>3
<1>6. code \in u.remote <=> pressed = TRUE
  BY <1>3
<1>7. \A c \in Modifiers : c \in t.remote \cup t.lost /\ c # code => c \in u.remote \cup u.lost
  BY <1>3
<1>8. \A c \in u.down \ Plain : c \in t.down /\ c # code
  BY <1>1, <1>3 DEF Plain
<1> QED BY <1>4, <1>5, <1>6, <1>7, <1>8, Zenon DEF HandledAs, code

(* The keys the client keeps to itself.                                      *)
LEMMA SpecialIs ==
    ASSUME NEW t, KeyStateOK(t), NEW k \in Keys, NEW s \in KeysymsOf(k), NEW state,
           NEW pressed \in BOOLEAN, kx.num \in BOOLEAN, s \notin t.ungrab, IsSpecial(s, state)
    PROVE  HandledAs(t, SpecialKey(t, s, pressed), k, s, pressed)
<1>1. KbRec(t) /\ Counted(t) /\ KeySent(t, t)
  BY DEF KeyStateOK, KeySent, Kept
<1>2. s \in {"numlock", "break", "Return"} \/ s \in WinKeys
  BY DEF IsSpecial
<1> DEFINE u == SpecialKey(t, s, pressed)
<1>3. CASE s \in WinKeys
  <2>1. KeyCode(k, s) = s /\ s \in Modifiers
    BY <1>3 DEF KeyCode, Modifiers
  <2>2. u = SendModifier(t, pressed, KeyCode(k, s))
    BY <1>3, <2>1 DEF SpecialKey
  <2> HIDE DEF u
  <2>3. HandledAs(t, u, k, s, pressed)
    BY <2>1, <2>2, ModifierIsHandled DEF Own
  <2> QED BY <2>3 DEF u
<1>4. CASE s \notin WinKeys
  <2>1. ~Own(t, k, s)
    BY <1>2, <1>4, KeysymsAre DEF Own
  <2>2. CASE s = "break"
    <3>1. "break" # NoKeysym /\ "break" \notin Modifiers
      BY DEF NoKeysym, Modifiers, ShiftKeys, CtrlKeys, WinKeys
    <3> DEFINE v == SendScancode(t, TRUE, "break")
    <3>2. ScancodeTo(t, v, t.remote, t.down \cup {"break"})
      BY <1>1, <3>1, PressIs DEF UpdateModifierState
    <3>3. u = IF pressed THEN v ELSE t
      BY <1>4, <2>2 DEF SpecialKey
    <3> HIDE DEF u, v
    <3>4. KeySent(t, v) /\ Restored(t, v) /\ v.down = t.down \cup {"break"}
      BY <3>2 DEF ScancodeTo, KeySent, Restored
    <3>5. KeySent(t, u) /\ Restored(t, u) /\ u.down \subseteq t.down \cup {"break"}
      BY <1>1, <3>3, <3>4 DEF Restored
    <3>6. KeyHandled(t, u)
      BY <3>5, SentIsHandled
    <3>7. KeyCode(k, s) = "break"
      BY <2>2 DEF KeyCode
    <3>8. \A c \in u.down \ Plain : c \in t.down /\ c # KeyCode(k, s)
      BY <3>5, <3>7 DEF Plain
    <3>9. HandledAs(t, u, k, s, pressed)
      BY <2>1, <3>5, <3>6, <3>8, RestoredIsHandled
    <3> QED BY <3>9 DEF u
  <2>3. CASE s = "numlock" /\ t.sync /\ ~pressed
    <3> DEFINE v == Resynchronize(t, kx.num)
    <3>1. /\ KbRec(v) /\ InStep(v) /\ Counted(v) /\ v.down = {} /\ v.remote = t.remote
          /\ v.sync = t.sync /\ v.pressed = t.pressed /\ v.aliased = t.aliased
          /\ v.missed = t.missed /\ v.mistyped = t.mistyped
          /\ v.ungrab = t.ungrab /\ v.lost = t.lost
          /\ t.unaccounted = TRUE => v.unaccounted = TRUE
      BY <1>1, ResynchronizeIs
    <3>2. u = v
      BY <1>4, <2>3 DEF SpecialKey
    <3> HIDE DEF u, v
    <3>3. KeyHandled(t, v) /\ Restored(t, v)
      BY <3>1 DEF KeyHandled, KeyStateOK, KbRec, Restored
    <3>4. HandledAs(t, u, k, s, pressed)
      BY <2>1, <3>1, <3>2, <3>3, RestoredIsHandled
    <3> QED BY <3>4 DEF u
  <2>4. CASE s # "break" /\ ~(s = "numlock" /\ t.sync /\ ~pressed)
    <3> DEFINE m == t.missed \/ (s = "Return" /\ ~pressed)
               v == [t EXCEPT !.missed = m]
    <3>1. SpecialKey(t, s, pressed) = v
      BY <1>4, <2>4 DEF SpecialKey
    <3>2. m \in BOOLEAN /\ (t.missed = TRUE => m = TRUE) /\ (m = FALSE /\ pressed = FALSE => s = "numlock")
      BY <1>2, <1>4, <2>4
    <3> HIDE DEF m
    <3>3. /\ DOMAIN v = KbFields /\ v.remote = t.remote /\ v.down = t.down /\ v.missed = m
          /\ v.snum = t.snum /\ v.lost = t.lost /\ v.ungrab = t.ungrab
          /\ v.sync = t.sync /\ v.pressed = t.pressed /\ v.aliased = t.aliased
          /\ v.unaccounted = t.unaccounted /\ v.mistyped = t.mistyped
      BY <1>1 DEF KbRec, KbFields
    <3> HIDE DEF v
    <3>4. KbRec(v) /\ InStep(v) /\ Counted(v)
      BY <3>2, <3>3 DEF KbRec, InStep, Counted, KeyStateOK
    <3>5. KeyHandled(t, v) /\ Restored(t, v)
      BY <3>2, <3>3, <3>4 DEF KeyHandled, KeyStateOK, Restored
    <3>6. s = "numlock" => KeyCode(k, s) = NoKeysym
      BY DEF KeyCode, WinKeys
    <3>7. \A c \in v.down \ Plain : c \in t.down /\ (pressed = FALSE /\ v.missed = FALSE => c # KeyCode(k, s))
      BY <1>1, <3>2, <3>3, <3>6 DEF Counted
    <3>8. HandledAs(t, v, k, s, pressed)
      BY <2>1, <3>5, <3>7, RestoredIsHandled
    <3> QED BY <3>1, <3>8
  <2> QED BY <2>2, <2>3, <2>4
<1> QED BY <1>3, <1>4

(* A key that is sent: a modifier, a sequence, or a scancode with the        *)
(* modifiers it needs.                                                       *)
LEMMA SendKeysIs ==
    ASSUME NEW t, KeyStateOK(t), NEW k \in Keys, NEW s \in KeysymsOf(k), NEW state,
           NEW pressed \in BOOLEAN, s \notin t.ungrab, ~IsSpecial(s, state)
    PROVE  HandledAs(t, SendKeys(t, k, s, state, pressed), k, s, pressed)
<1>1. KbRec(t) /\ Counted(t) /\ KeySent(t, t) /\ Restored(t, t)
  BY DEF KeyStateOK, KeySent, Kept, Restored
<1>2. KeyCode(k, s) = ScancodeOf(k, s)
  BY DEF KeyCode, IsSpecial
<1>3. NoKeysym \notin Modifiers
  BY DEF NoKeysym, Modifiers, ShiftKeys, CtrlKeys, WinKeys
<1> DEFINE single == s \notin DOMAIN Keymap \/ Keymap[s].seq = << >>
           u == SendKeys(t, k, s, state, pressed)
<1>4. CASE single /\ ScancodeOf(k, s) \in Modifiers
  <2>1. u = SendModifier(t, pressed, KeyCode(k, s))
    BY <1>2, <1>3, <1>4, TranslationIs DEF SendKeys, SendKey
  <2> HIDE DEF u
  <2>2. HandledAs(t, u, k, s, pressed)
    BY <1>2, <1>4, <2>1, ModifierIsHandled DEF Own
  <2> QED BY <2>2 DEF u
<1>5. CASE single /\ ScancodeOf(k, s) \notin Modifiers
  <2> DEFINE v == SendKey(t, k, s, state, pressed)
             code == ScancodeOf(k, s)
  <2>1. /\ KeySent(t, v) /\ Restored(t, v)
        /\ v.down \ Modifiers \subseteq IF pressed THEN t.down \cup {code} ELSE t.down \ {code}
    BY <1>1, <1>5, SendPlainIs
  <2>2. u = v
    BY <1>5 DEF SendKeys
  <2> HIDE DEF u, v
  <2>3. KeyHandled(t, v)
    BY <2>1, SentIsHandled
  <2>4. ~Own(t, k, s)
    BY <1>2, <1>5 DEF Own
  <2>5. \A c \in v.down \ Plain :
            \/ c \in t.down /\ (pressed = FALSE /\ v.missed = FALSE => s \in t.ungrab \/ c # KeyCode(k, s))
            \/ pressed = TRUE /\ s \notin t.ungrab /\ c = KeyCode(k, s)
    <3>1. CASE pressed = TRUE
      BY <1>2, <2>1, <3>1 DEF Plain
    <3>2. CASE pressed = FALSE
      BY <1>2, <2>1, <3>2 DEF Plain
    <3> QED BY <3>1, <3>2
  <2>6. Restored(t, v)
    BY <2>1
  <2>7. HandledAs(t, v, k, s, pressed)
    BY <2>3, <2>4, <2>5, <2>6, RestoredIsHandled
  <2> QED BY <2>2, <2>7 DEF u
<1>6. CASE ~single
  <2> DEFINE v == Tapped(t, k, Keymap[s].seq, state)
  <2>1. Typed(t, v)
    BY <1>1, <1>6, TappedIs
  <2>2. Typed(t, t)
    BY <1>1 DEF Typed
  <2>3. u = IF pressed THEN v ELSE t
    BY <1>6 DEF SendKeys
  <2> HIDE DEF u, v
  <2>4. Typed(t, u)
    BY <2>1, <2>2, <2>3
  <2>5. KeyHandled(t, u) /\ Restored(t, u) /\ u.down \ Modifiers \subseteq t.down
    BY <2>4, SentIsHandled DEF Typed
  <2>6. KeyCode(k, s) = NoKeysym /\ NoKeysym \notin t.down
    BY <1>1, <1>2, <1>6 DEF Counted, ScancodeOf
  <2>7. ~Own(t, k, s)
    BY <1>3, <2>6 DEF Own
  <2>8. \A c \in u.down \ Plain : c \in t.down /\ c # KeyCode(k, s)
    BY <2>5, <2>6 DEF Plain
  <2>9. HandledAs(t, u, k, s, pressed)
    BY <2>5, <2>7, <2>8, RestoredIsHandled
  <2> QED BY <2>9 DEF u
<1> QED BY <1>4, <1>5, <1>6

(* A key event as a whole; -J's modifiers are not sent.                      *)
LEMMA HandleIs ==
    ASSUME NEW t, KeyStateOK(t), NEW k \in Keys, NEW s \in KeysymsOf(k), NEW state,
           NEW pressed \in BOOLEAN, kx.num \in BOOLEAN
    PROVE  HandledAs(t, HandleKey(t, k, s, state, pressed), k, s, pressed)
<1>1. CASE s \in t.ungrab
  <2>1. HandleKey(t, k, s, state, pressed) = t
    BY <1>1 DEF HandleKey
  <2>2. KeyHandled(t, t) /\ Restored(t, t) /\ ~Own(t, k, s)
    BY <1>1 DEF KeyHandled, KeyStateOK, Restored, Own
  <2>3. HandledAs(t, t, k, s, pressed)
    BY <1>1, <2>2, RestoredIsHandled
  <2> QED BY <2>1, <2>3
<1>2. CASE s \notin t.ungrab
  BY <1>2, SpecialIs, SendKeysIs DEF HandleKey
<1> QED BY <1>1, <1>2

-----------------------------------------------------------------------------
(* The queue of X events *)

(* The event read is the head, the others move up.                           *)
LEMMA EventRead ==
    ASSUME KeyDataInv, kx.queue # << >>, EventDone
    PROVE  /\ Len(kx.queue) \in Nat \ {0} /\ Len(kx'.queue) = Len(kx.queue) - 1
           /\ kx'.queue \in Seq(KeyEvents)
           /\ \A i \in 1 .. Len(kx'.queue) : i + 1 \in 1 .. Len(kx.queue) /\ kx'.queue[i] = kx.queue[i + 1]
           /\ Head(kx.queue) = kx.queue[1] /\ kx.queue[1] \in KeyEvents /\ EventOK(kx.queue[1])
           /\ DOMAIN kx' = DOMAIN kx /\ kx'.held = kx.held /\ kx'.focus = kx.focus
           /\ kx'.num = kx.num /\ kx'.count = kx.count /\ kx'.seen = kx.seen
<1> DEFINE q == kx.queue
<1>1. q \in Seq(KeyEvents) /\ q # << >>
  BY DEF KeyDataInv
<1>2. kx' = [kx EXCEPT !.queue = Tail(q)]
  BY DEF EventDone
<1>3. /\ DOMAIN kx' = DOMAIN kx /\ kx'.held = kx.held /\ kx'.focus = kx.focus
      /\ kx'.num = kx.num /\ kx'.count = kx.count /\ kx'.seen = kx.seen /\ kx'.queue = Tail(q)
  <2> HIDE DEF q
  <2> QED BY <1>2 DEF KeyDataInv
<1>4. \A i \in 1 .. Len(q) : EventOK(q[i])
  BY DEF KeyDataInv
<1> HIDE DEF q
<1>5. /\ Len(q) \in Nat \ {0} /\ Len(Tail(q)) = Len(q) - 1 /\ Tail(q) \in Seq(KeyEvents)
      /\ \A i \in 1 .. Len(q) - 1 : Tail(q)[i] = q[i + 1]
      /\ Head(q) = q[1] /\ q[1] \in KeyEvents
  BY <1>1
<1>6. 1 \in 1 .. Len(q) /\ \A i \in 1 .. Len(q) - 1 : i + 1 \in 1 .. Len(q)
  BY <1>5
<1> QED BY <1>3, <1>4, <1>5, <1>6 DEF q

(* What settled a modifier still does, unless it was the event read.         *)
LEMMA SettlesRead ==
    ASSUME KeyDataInv, kx.queue # << >>, EventDone, kb'.ungrab = kb.ungrab
    PROVE  /\ \A i \in Nat : \A m : Settles(i + 1, m) => Settles(i, m)'
           /\ \A m : Settles(0, m) =>
                  \/ Settles(0, m)'
                  \/ kx.queue[1].type = "in"
                  \/ kx.queue[1].type = "release" /\ m \in CodesOf(kx.queue[1].key, kb.ungrab)
<1>1. /\ Len(kx.queue) \in Nat \ {0} /\ Len(kx'.queue) = Len(kx.queue) - 1
      /\ \A i \in 1 .. Len(kx'.queue) : i + 1 \in 1 .. Len(kx.queue) /\ kx'.queue[i] = kx.queue[i + 1]
      /\ kx'.held = kx.held /\ kx'.focus = kx.focus
  BY EventRead
<1>2. ASSUME NEW j \in 2 .. Len(kx.queue)
      PROVE  j - 1 \in 1 .. Len(kx'.queue) /\ kx'.queue[j - 1] = kx.queue[j]
  <2> DEFINE h == j - 1
  <2>1. h \in 1 .. Len(kx'.queue) /\ h + 1 = j
    BY <1>1
  <2> HIDE DEF h
  <2>2. kx'.queue[h] = kx.queue[j]
    BY <1>1, <2>1
  <2> QED BY <2>1, <2>2 DEF h
<1>h. HeldCodes' = HeldCodes
  BY <1>1 DEF HeldCodes
<1>3. ASSUME NEW i \in Nat, NEW m, NEW j \in i + 1 .. Len(kx.queue), j # 1,
             \/ kx.queue[j].type = "in"
             \/ kx.queue[j].type = "release" /\ m \in CodesOf(kx.queue[j].key, kb.ungrab)
      PROVE  \E h \in i + 1 - 1 .. Len(kx'.queue) : h = j - 1 /\ h \in 1 .. Len(kx'.queue) /\
                 \/ kx'.queue[h].type = "in"
                 \/ kx'.queue[h].type = "release" /\ m \in CodesOf(kx'.queue[h].key, kb'.ungrab)
  <2>1. PICK h : h = j - 1
    OBVIOUS
  <2>2. j \in 2 .. Len(kx.queue) /\ h \in 1 .. Len(kx'.queue) /\ h \in i + 1 - 1 .. Len(kx'.queue)
    BY <1>1, <1>3, <2>1
  <2>3. kx'.queue[h] = kx.queue[j]
    BY <1>2, <2>1, <2>2
  <2> QED BY <1>3, <2>1, <2>2, <2>3
<1>4. ASSUME NEW i \in Nat, NEW m, Settles(i + 1, m) PROVE Settles(i, m)'
  <2>1. CASE ~kx.focus \/ m \in HeldCodes
    BY <1>1, <1>h, <2>1 DEF Settles
  <2>2. CASE \E j \in i + 1 + 1 .. Len(kx.queue) :
                \/ kx.queue[j].type = "in"
                \/ kx.queue[j].type = "release" /\ m \in CodesOf(kx.queue[j].key, kb.ungrab)
    <3>1. PICK j \in i + 1 + 1 .. Len(kx.queue) :
                \/ kx.queue[j].type = "in"
                \/ kx.queue[j].type = "release" /\ m \in CodesOf(kx.queue[j].key, kb.ungrab)
      BY <2>2
    <3>2. j \in i + 1 .. Len(kx.queue) /\ j # 1 /\ j \in Int
      BY <1>1, <3>1
    <3>3. PICK h \in i + 1 - 1 .. Len(kx'.queue) : h = j - 1 /\ h \in 1 .. Len(kx'.queue) /\
                 \/ kx'.queue[h].type = "in"
                 \/ kx'.queue[h].type = "release" /\ m \in CodesOf(kx'.queue[h].key, kb'.ungrab)
      BY <1>3, <3>1, <3>2
    <3>4. h \in i + 1 .. Len(kx'.queue)
      BY <1>1, <3>1, <3>3
    <3> QED BY <3>3, <3>4 DEF Settles
  <2> QED BY <1>4, <2>1, <2>2 DEF Settles
<1>5. ASSUME NEW m, Settles(0, m), ~(kx.queue[1].type = "in"),
             ~(kx.queue[1].type = "release" /\ m \in CodesOf(kx.queue[1].key, kb.ungrab))
      PROVE  Settles(0, m)'
  <2>1. CASE ~kx.focus \/ m \in HeldCodes
    BY <1>1, <1>h, <2>1 DEF Settles
  <2>2. CASE \E j \in 0 + 1 .. Len(kx.queue) :
                \/ kx.queue[j].type = "in"
                \/ kx.queue[j].type = "release" /\ m \in CodesOf(kx.queue[j].key, kb.ungrab)
    <3>1. PICK j \in 0 + 1 .. Len(kx.queue) :
                \/ kx.queue[j].type = "in"
                \/ kx.queue[j].type = "release" /\ m \in CodesOf(kx.queue[j].key, kb.ungrab)
      BY <2>2
    <3>2. j # 1 /\ 0 \in Nat
      BY <1>5, <3>1
    <3>3. PICK h \in 0 + 1 - 1 .. Len(kx'.queue) : h = j - 1 /\ h \in 1 .. Len(kx'.queue) /\
                 \/ kx'.queue[h].type = "in"
                 \/ kx'.queue[h].type = "release" /\ m \in CodesOf(kx'.queue[h].key, kb'.ungrab)
      BY <1>3, <3>1, <3>2
    <3>4. h \in 0 + 1 .. Len(kx'.queue)
      BY <3>3
    <3> QED BY <3>3, <3>4 DEF Settles
  <2> QED BY <1>5, <2>1, <2>2 DEF Settles
<1> QED BY <1>4, <1>5

(* So does the press of a modifier that is held, or the client counts it.    *)
LEMMA FreshRead ==
    ASSUME KeyDataInv, kx.queue # << >>, EventDone, NEW k, NEW c, Fresh(k, c),
           kx.queue[1].type = "press" /\ kx.queue[1].key = k => c \in kb'.remote \cup kb'.lost,
           kx.queue[1].type # "in" /\ ~(kx.queue[1].type = "release" /\ kx.queue[1].key = k)
               => (c \in kb.remote \cup kb.lost => c \in kb'.remote \cup kb'.lost)
    PROVE  Fresh(k, c)'
<1>1. /\ Len(kx.queue) \in Nat \ {0} /\ Len(kx'.queue) = Len(kx.queue) - 1
      /\ \A i \in 1 .. Len(kx'.queue) : i + 1 \in 1 .. Len(kx.queue) /\ kx'.queue[i] = kx.queue[i + 1]
  BY EventRead
<1>2. ASSUME NEW i \in 0 .. Len(kx.queue) - 1, Undisturbed(i + 1, k) PROVE Undisturbed(i, k)'
  <2> SUFFICES ASSUME NEW j \in i + 1 .. Len(kx'.queue)
               PROVE  kx'.queue[j].type # "in" /\ ~(kx'.queue[j].type = "release" /\ kx'.queue[j].key = k)
    BY DEF Undisturbed
  <2>1. PICK h : h = j + 1
    OBVIOUS
  <2>2. h \in i + 1 + 1 .. Len(kx.queue) /\ j \in 1 .. Len(kx'.queue)
    BY <1>1, <2>1
  <2>3. kx'.queue[j] = kx.queue[h]
    BY <1>1, <2>1, <2>2
  <2> QED BY <1>2, <2>2, <2>3 DEF Undisturbed
<1>3. CASE Undisturbed(0, k) /\ c \in kb.remote \cup kb.lost
  <2>1. 1 \in 0 + 1 .. Len(kx.queue)
    BY <1>1
  <2>2. kx.queue[1].type # "in" /\ ~(kx.queue[1].type = "release" /\ kx.queue[1].key = k)
    BY <1>3, <2>1 DEF Undisturbed
  <2>3. Undisturbed(0 + 1, k)
    <3>1. \A j \in 0 + 1 + 1 .. Len(kx.queue) : j \in 0 + 1 .. Len(kx.queue)
      BY <1>1
    <3> QED BY <1>3, <3>1 DEF Undisturbed
  <2>4. 0 \in 0 .. Len(kx.queue) - 1
    BY <1>1
  <2>5. Undisturbed(0, k)'
    BY <1>2, <2>3, <2>4
  <2> QED BY <1>3, <2>2, <2>5 DEF Fresh
<1>4. CASE \E i \in 1 .. Len(kx.queue) :
               kx.queue[i].type = "press" /\ kx.queue[i].key = k /\ Undisturbed(i, k)
  <2>1. PICK i \in 1 .. Len(kx.queue) :
               kx.queue[i].type = "press" /\ kx.queue[i].key = k /\ Undisturbed(i, k)
    BY <1>4
  <2>2. PICK h : h = i - 1
    OBVIOUS
  <2>3. h \in 0 .. Len(kx.queue) - 1 /\ h + 1 = i
    BY <1>1, <2>1, <2>2
  <2>4. Undisturbed(h, k)'
    BY <1>2, <2>1, <2>3
  <2>5. CASE i = 1
    <3>1. h = 0
      BY <2>3, <2>5
    <3> QED BY <2>1, <2>4, <2>5, <3>1 DEF Fresh
  <2>6. CASE i # 1
    <3>1. h \in 1 .. Len(kx'.queue)
      BY <1>1, <2>1, <2>2, <2>6
    <3>2. kx'.queue[h] = kx.queue[i]
      BY <1>1, <2>3, <3>1
    <3> QED BY <2>1, <2>4, <3>1, <3>2 DEF Fresh
  <2> QED BY <2>5, <2>6
<1> QED BY <1>3, <1>4 DEF Fresh

(* The X server's part of the invariant after an event was read.             *)
LEMMA ReadKeeps ==
    ASSUME KeyDataInv, kx.queue # << >>, EventDone,
           KbRec(kb'), Counted(kb'), DOMAIN kb'.pressed = Keys,
           \A k \in Keys : kb'.pressed[k] \in KeysymsOf(k) \cup {NoKeysym}
    PROVE  KeyDataInv'
<1>1. /\ Len(kx.queue) \in Nat \ {0} /\ Len(kx'.queue) = Len(kx.queue) - 1
      /\ kx'.queue \in Seq(KeyEvents)
      /\ \A i \in 1 .. Len(kx'.queue) : i + 1 \in 1 .. Len(kx.queue) /\ kx'.queue[i] = kx.queue[i + 1]
      /\ DOMAIN kx' = DOMAIN kx /\ kx'.held = kx.held /\ kx'.focus = kx.focus /\ kx'.num = kx.num
      /\ kx'.seen = kx.seen
  BY EventRead
<1>2. \A i \in 1 .. Len(kx'.queue) : EventOK(kx'.queue[i])
  BY <1>1 DEF KeyDataInv
<1>3. Len(kx'.queue) <= MaxKeyQueue
  BY <1>1, KeyboardConstants DEF KeyDataInv
<1> QED BY <1>1, <1>2, <1>3 DEF KeyDataInv

(* Its part about modifiers on their way.                                    *)
LEMMA ReadSettles ==
    ASSUME KeyDataInv, SettledInv, kx.queue # << >>, EventDone, kb.aliased = TRUE => kb'.aliased = TRUE,
           kb'.ungrab = kb.ungrab,
           ~kb'.aliased => \A m \in kb'.remote \cap Liftable : Settles(0, m)'
    PROVE  SettledInv'
<1>1. ASSUME kb'.aliased # TRUE, NEW i \in 1 .. Len(kx'.queue), kx'.queue[i].type = "press",
             NEW m \in CodesOf(kx'.queue[i].key, kb'.ungrab) \cap Liftable
      PROVE  Settles(i, m)'
  <2>1. PICK j : j = i + 1
    OBVIOUS
  <2>2. j \in 1 .. Len(kx.queue) /\ kx'.queue[i] = kx.queue[j] /\ i \in Nat
    BY <2>1, EventRead
  <2>3. ~kb.aliased
    <3>1. kb.aliased \in BOOLEAN
      BY DEF KeyDataInv, KbRec
    <3> QED BY <1>1, <3>1
  <2>4. Settles(j, m)
    BY <1>1, <2>2, <2>3 DEF SettledInv
  <2> QED BY <2>1, <2>2, <2>4, SettlesRead
<1> QED BY <1>1 DEF SettledInv

(* And the one about those held.                                             *)
LEMMA ReadFresh ==
    ASSUME KeyDataInv, FreshInv, kx.queue # << >>, EventDone, kb'.ungrab = kb.ungrab,
           \A k \in kx.seen : \A c \in CodesOf(k, kb.ungrab) \cap Modifiers : Alone(k, c) =>
               /\ kx.queue[1].type = "press" /\ kx.queue[1].key = k => c \in kb'.remote \cup kb'.lost
               /\ kx.queue[1].type # "in" /\ ~(kx.queue[1].type = "release" /\ kx.queue[1].key = k)
                      => (c \in kb.remote \cup kb.lost => c \in kb'.remote \cup kb'.lost)
    PROVE  FreshInv'
<1> SUFFICES ASSUME NEW k \in kx'.seen, NEW c \in CodesOf(k, kb'.ungrab) \cap Modifiers, Alone(k, c)'
             PROVE  Fresh(k, c)'
  BY DEF FreshInv
<1>1. kx'.seen = kx.seen
  BY EventRead
<1>2. Alone(k, c) /\ k \in kx.seen /\ c \in CodesOf(k, kb.ungrab) \cap Modifiers
  BY <1>1 DEF Alone
<1>3. Fresh(k, c)
  BY <1>2 DEF FreshInv
<1>4. /\ kx.queue[1].type = "press" /\ kx.queue[1].key = k => c \in kb'.remote \cup kb'.lost
      /\ kx.queue[1].type # "in" /\ ~(kx.queue[1].type = "release" /\ kx.queue[1].key = k)
             => (c \in kb.remote \cup kb.lost => c \in kb'.remote \cup kb'.lost)
  BY <1>2
<1> QED BY <1>3, <1>4, FreshRead

-----------------------------------------------------------------------------
(* The client reads an event *)

(* A key goes down: its keysym is remembered and sent.                       *)
LEMMA KeyPressStep == KeyInv /\ KeyPress => KeyInv'
<1> SUFFICES ASSUME KeyInv, KeyPress PROVE KeyInv'
  OBVIOUS
<1> DEFINE e == Head(kx.queue)
           k == e.key
           s == e.keysym
           m == kb.missed \/ kb.pressed[k] # NoKeysym
           P == [kb.pressed EXCEPT ![k] = s]
           t == [kb EXCEPT !.pressed = P, !.missed = m]
<1>1. KeyDataInv /\ InStep(kb) /\ SettledInv /\ FreshInv /\ PressesAreLifted
      /\ (kb.unaccounted = FALSE => kb.mistyped = FALSE)
  BY DEF KeyInv
<1>2. KbRec(kb) /\ Counted(kb) /\ DOMAIN kb.pressed = Keys /\ kx.num \in BOOLEAN
  BY <1>1 DEF KeyDataInv
<1>3. kx.queue # << >> /\ e.type = "press" /\ EventDone /\ kb' = HandleKey(t, k, s, e.state, TRUE)
  <2>1. [kb EXCEPT !.pressed[k] = s, !.missed = @ \/ kb.pressed[k] # NoKeysym] = t
    <3> HIDE DEF k, s
    <3> QED BY <1>2 DEF KbRec, KbFields
  <2> HIDE DEF t
  <2> QED BY <2>1 DEF KeyPress, NextEvent
<1>4. e = kx.queue[1] /\ k \in Keys /\ s \in KeysymsOf(k)
  BY <1>1, <1>3, EventRead DEF EventOK
<1>e. kx.queue[1].type = "press" /\ kx.queue[1].key = k
  BY <1>3, <1>4
<1> HIDE DEF k, s, e
<1>5. /\ DOMAIN P = Keys /\ P[k] = s /\ \A x \in Keys : x # k => P[x] = kb.pressed[x]
  BY <1>2, <1>4
<1>6. m \in BOOLEAN /\ (m = FALSE => kb.missed = FALSE /\ kb.pressed[k] = NoKeysym)
  BY <1>2 DEF KbRec
<1> HIDE DEF P, m
<1>7. /\ DOMAIN t = KbFields /\ t.pressed = P /\ t.missed = m /\ t.remote = kb.remote
      /\ t.down = kb.down /\ t.sync = kb.sync /\ t.snum = kb.snum /\ t.aliased = kb.aliased
      /\ t.mistyped = kb.mistyped /\ t.unaccounted = kb.unaccounted
      /\ t.ungrab = kb.ungrab /\ t.lost = kb.lost
  BY <1>2 DEF KbRec, KbFields
<1> HIDE DEF t
<1>8. KeyStateOK(t)
  BY <1>1, <1>2, <1>6, <1>7 DEF KeyStateOK, KbRec, InStep, Counted
<1>9. HandledAs(t, kb', k, s, TRUE)
  <2> DEFINE u == HandleKey(t, k, s, e.state, TRUE)
  <2>1. HandledAs(t, u, k, s, TRUE)
    BY <1>2, <1>4, <1>8, HandleIs
  <2>2. kb' = u
    BY <1>3
  <2> HIDE DEF u
  <2> QED BY <2>1, <2>2
<1>10. /\ kb'.pressed = P /\ KbRec(kb') /\ Counted(kb') /\ InStep(kb') /\ kb'.ungrab = kb.ungrab
       /\ (kb'.unaccounted = FALSE => kb'.mistyped = FALSE)
       /\ kb'.aliased = kb.aliased /\ (kb'.missed = FALSE => m = FALSE)
  BY <1>6, <1>7, <1>9 DEF HandledAs, KeyHandled, KbRec
<1>o. /\ Own(t, k, s) => KeyCode(k, s) \in CodesOf(k, kb.ungrab)
      /\ \A c \in CodesOf(k, kb.ungrab) \cap Modifiers : Own(t, k, s) /\ KeyCode(k, s) = c
  BY <1>2, <1>4, <1>7, CodesAre DEF KbRec, Own
<1>11. KeyDataInv'
  <2>1. \A x \in Keys : kb'.pressed[x] \in KeysymsOf(x) \cup {NoKeysym}
    BY <1>1, <1>4, <1>5, <1>10 DEF KeyDataInv
  <2> QED BY <1>1, <1>3, <1>5, <1>10, <2>1, ReadKeeps
<1>12. SettledInv'
  <2>1. ASSUME kb'.aliased # TRUE, NEW x \in kb'.remote \cap Liftable PROVE Settles(0, x)'
    <3>1. ~kb.aliased /\ x \in Modifiers
      BY <1>10, <2>1 DEF Liftable
    <3>2. CASE x \in kb.remote
      <4>1. Settles(0, x)
        BY <1>1, <2>1, <3>1, <3>2 DEF SettledInv
      <4> QED BY <1>1, <1>3, <1>e, <1>10, <4>1, SettlesRead
    <3>3. CASE x \notin kb.remote
      <4>1. x \in CodesOf(k, kb.ungrab) \cap Liftable
        BY <1>7, <1>9, <1>o, <2>1, <3>1, <3>3 DEF HandledAs
      <4>2. 1 \in 1 .. Len(kx.queue)
        BY <1>1, <1>3, EventRead
      <4>3. Settles(1, x)
        BY <1>1, <1>e, <3>1, <4>1, <4>2 DEF SettledInv
      <4>4. Settles(0 + 1, x) /\ 0 \in Nat
        BY <4>3
      <4> QED BY <1>1, <1>3, <1>10, <4>4, SettlesRead
    <3> QED BY <3>2, <3>3
  <2>2. kb'.aliased \in BOOLEAN
    BY <1>10 DEF KbRec
  <2> QED BY <1>1, <1>3, <1>10, <2>1, <2>2, ReadSettles
<1>13. FreshInv'
  <2>1. ASSUME NEW j \in kx.seen, NEW c \in CodesOf(j, kb.ungrab) \cap Modifiers, Alone(j, c)
        PROVE  /\ k = j => c \in kb'.remote \cup kb'.lost
               /\ c \in kb.remote \cup kb.lost => c \in kb'.remote \cup kb'.lost
    <3>1. ASSUME k = j PROVE c \in kb'.remote
      BY <1>9, <1>o, <2>1, <3>1 DEF HandledAs
    <3>2. ASSUME k # j, c \in kb.remote \cup kb.lost PROVE c \in kb'.remote \cup kb'.lost
      <4>1. c \notin CodesOf(k, kb.ungrab)
        BY <1>4, <2>1, <3>2 DEF Alone
      <4>2. ~(Own(t, k, s) /\ c = KeyCode(k, s))
        BY <1>o, <4>1
      <4> QED BY <1>7, <1>9, <2>1, <3>2, <4>2 DEF HandledAs
    <3> QED BY <3>1, <3>2
  <2> QED BY <1>1, <1>3, <1>e, <1>10, <2>1, ReadFresh
<1>14. PressesAreLifted'
  <2> SUFFICES ASSUME ~kb'.missed, NEW c \in kb'.down \ Plain
               PROVE  \E x \in Keys : P[x] \notin {NoKeysym} \cup kb.ungrab /\ KeyCode(x, P[x]) = c
    BY <1>10 DEF PressesAreLifted, Plain
  <2>1. kb'.missed \in BOOLEAN
    BY <1>10 DEF KbRec
  <2>2. ~kb.missed /\ kb.pressed[k] = NoKeysym
    BY <1>6, <1>10, <2>1
  <2>3. CASE c \in kb.down
    <3>1. PICK x \in Keys : kb.pressed[x] \notin {NoKeysym} \cup kb.ungrab /\ KeyCode(x, kb.pressed[x]) = c
      BY <1>1, <2>2, <2>3 DEF PressesAreLifted, Plain
    <3>2. x # k
      BY <2>2, <3>1
    <3> QED BY <1>5, <3>1, <3>2
  <2>4. CASE c \notin kb.down
    <3>1. s \notin kb.ungrab /\ c = KeyCode(k, s)
      BY <1>7, <1>9, <2>4 DEF HandledAs
    <3>2. s # NoKeysym
      BY <1>4, KeysymsAre
    <3> QED BY <1>4, <1>5, <3>1, <3>2
  <2> QED BY <2>3, <2>4
<1> QED BY <1>10, <1>11, <1>12, <1>13, <1>14 DEF KeyInv

(* A key goes up: with the keysym it had when it went down.                  *)
LEMMA KeyReleaseStep == KeyInv /\ KeyRelease => KeyInv'
<1> SUFFICES ASSUME KeyInv, KeyRelease PROVE KeyInv'
  OBVIOUS
<1> DEFINE e == Head(kx.queue)
           k == e.key
           s == ReleasedKeysym(k, e.keysym)
           P == [kb.pressed EXCEPT ![k] = NoKeysym]
           t == [kb EXCEPT !.pressed = P]
<1>1. KeyDataInv /\ InStep(kb) /\ SettledInv /\ FreshInv /\ PressesAreLifted
      /\ (kb.unaccounted = FALSE => kb.mistyped = FALSE)
  BY DEF KeyInv
<1>2. KbRec(kb) /\ Counted(kb) /\ DOMAIN kb.pressed = Keys /\ kx.num \in BOOLEAN
  BY <1>1 DEF KeyDataInv
<1>3. kx.queue # << >> /\ e.type = "release" /\ EventDone
      /\ kb' = HandleKey(t, k, s, e.state, FALSE)
  <2>1. [kb EXCEPT !.pressed[k] = NoKeysym] = t
    <3> HIDE DEF k
    <3> QED BY <1>2 DEF KbRec, KbFields
  <2> HIDE DEF t
  <2> QED BY <2>1 DEF KeyRelease, NextEvent
<1>4. e = kx.queue[1] /\ k \in Keys /\ e.keysym \in KeysymsOf(k)
  BY <1>1, <1>3, EventRead DEF EventOK
<1>5. s \in KeysymsOf(k) /\ (kb.pressed[k] # NoKeysym => s = kb.pressed[k])
  BY <1>1, <1>4 DEF ReleasedKeysym, KeyDataInv
<1>e. kx.queue[1].type = "release" /\ kx.queue[1].key = k
  BY <1>3, <1>4
<1> HIDE DEF k, s, e
<1>6. /\ DOMAIN P = Keys /\ P[k] = NoKeysym /\ \A x \in Keys : x # k => P[x] = kb.pressed[x]
  BY <1>2, <1>4
<1> HIDE DEF P
<1>7. /\ DOMAIN t = KbFields /\ t.pressed = P /\ t.missed = kb.missed /\ t.remote = kb.remote
      /\ t.down = kb.down /\ t.sync = kb.sync /\ t.snum = kb.snum /\ t.aliased = kb.aliased
      /\ t.mistyped = kb.mistyped /\ t.unaccounted = kb.unaccounted
      /\ t.ungrab = kb.ungrab /\ t.lost = kb.lost
  BY <1>2 DEF KbRec, KbFields
<1> HIDE DEF t
<1>8. KeyStateOK(t)
  BY <1>1, <1>2, <1>7 DEF KeyStateOK, KbRec, InStep, Counted
<1>9. HandledAs(t, kb', k, s, FALSE)
  <2> DEFINE u == HandleKey(t, k, s, e.state, FALSE)
  <2>1. HandledAs(t, u, k, s, FALSE)
    BY <1>2, <1>4, <1>5, <1>8, HandleIs
  <2>2. kb' = u
    BY <1>3
  <2> HIDE DEF u
  <2> QED BY <2>1, <2>2
<1>10. /\ kb'.pressed = P /\ KbRec(kb') /\ Counted(kb') /\ InStep(kb') /\ kb'.ungrab = kb.ungrab
       /\ (kb'.unaccounted = FALSE => kb'.mistyped = FALSE)
       /\ kb'.aliased = kb.aliased /\ (kb.missed = TRUE => kb'.missed = TRUE)
  BY <1>7, <1>9 DEF HandledAs, KeyHandled
<1>o. /\ Own(t, k, s) => KeyCode(k, s) \in CodesOf(k, kb.ungrab)
      /\ \A c \in CodesOf(k, kb.ungrab) \cap Modifiers : Own(t, k, s) /\ KeyCode(k, s) = c
  BY <1>2, <1>4, <1>5, <1>7, CodesAre DEF KbRec, Own
<1>11. KeyDataInv'
  <2>1. \A x \in Keys : kb'.pressed[x] \in KeysymsOf(x) \cup {NoKeysym}
    BY <1>1, <1>4, <1>6, <1>10 DEF KeyDataInv
  <2> QED BY <1>1, <1>3, <1>6, <1>10, <2>1, ReadKeeps
<1>12. SettledInv'
  <2>1. ASSUME kb'.aliased # TRUE, NEW x \in kb'.remote \cap Liftable PROVE Settles(0, x)'
    <3>1. ~kb.aliased /\ x \in Modifiers
      BY <1>10, <2>1 DEF Liftable
    <3>2. x \in kb.remote /\ x \notin CodesOf(k, kb.ungrab)
      BY <1>7, <1>9, <1>o, <2>1, <3>1 DEF HandledAs
    <3>3. Settles(0, x)
      BY <1>1, <2>1, <3>1, <3>2 DEF SettledInv
    <3> QED BY <1>1, <1>3, <1>e, <1>10, <3>2, <3>3, SettlesRead
  <2>2. kb'.aliased \in BOOLEAN
    BY <1>10 DEF KbRec
  <2> QED BY <1>1, <1>3, <1>10, <2>1, <2>2, ReadSettles
<1>13. FreshInv'
  <2>1. ASSUME NEW j \in kx.seen, NEW c \in CodesOf(j, kb.ungrab) \cap Modifiers, Alone(j, c),
               k # j, c \in kb.remote \cup kb.lost
        PROVE  c \in kb'.remote \cup kb'.lost
    <3>1. c \notin CodesOf(k, kb.ungrab)
      BY <1>4, <2>1 DEF Alone
    <3>2. ~(Own(t, k, s) /\ c = KeyCode(k, s))
      BY <1>o, <3>1
    <3> QED BY <1>7, <1>9, <2>1, <3>2 DEF HandledAs
  <2> QED BY <1>1, <1>3, <1>e, <1>10, <2>1, ReadFresh
<1>14. PressesAreLifted'
  <2> SUFFICES ASSUME ~kb'.missed, NEW c \in kb'.down \ Plain
               PROVE  \E x \in Keys : P[x] \notin {NoKeysym} \cup kb.ungrab /\ KeyCode(x, P[x]) = c
    BY <1>10 DEF PressesAreLifted, Plain
  <2>1. kb'.missed = FALSE /\ kb.missed = FALSE
    BY <1>2, <1>10 DEF KbRec
  <2>2. c \in kb.down /\ (s \in kb.ungrab \/ c # KeyCode(k, s))
    BY <1>7, <1>9, <2>1 DEF HandledAs
  <2>3. PICK x \in Keys : kb.pressed[x] \notin {NoKeysym} \cup kb.ungrab /\ KeyCode(x, kb.pressed[x]) = c
    BY <1>1, <2>1, <2>2 DEF PressesAreLifted, Plain
  <2>4. x # k
    BY <1>5, <2>2, <2>3
  <2> QED BY <1>6, <2>3, <2>4
<1> QED BY <1>10, <1>11, <1>12, <1>13, <1>14 DEF KeyInv

(* The focus comes back: what is not held any more is lifted.                *)
LEMMA FocusInIs ==
    ASSUME KeyInv, FocusIn
    PROVE  /\ kx.queue # << >> /\ Head(kx.queue).type = "in" /\ EventDone
           /\ KbRec(kb') /\ InStep(kb') /\ Counted(kb')
           /\ kb'.pressed = kb.pressed /\ kb'.missed = kb.missed /\ kb'.mistyped = kb.mistyped
           /\ kb'.ungrab = kb.ungrab
           /\ kb.unaccounted = TRUE => kb'.unaccounted = TRUE
           /\ kb.aliased = TRUE => kb'.aliased = TRUE
           /\ kb'.down \ Modifiers \subseteq kb.down
           /\ kb'.aliased = FALSE => kb'.remote \cap Liftable \subseteq HeldCodes
<1> DEFINE state == StateOf(kx.held)
           T == ToRelease(state)
           R == kb.remote \ T
           D == kb.down \ T
           lifted == [kb EXCEPT !.remote = R, !.down = D]
           won == SendScancode(lifted, FALSE, "winL")
           r == IF kb.sync THEN Resynchronize(won, kx.num) ELSE won
           over == \E code \in r.remote \cap (Modifiers \ WinKeys) :
                       StillHeld(code, state) /\ code \notin HeldCodes
           a == r.aliased \/ over
           v == [r EXCEPT !.aliased = a]
<1>1. KbRec(kb) /\ Counted(kb) /\ InStep(kb) /\ kx.num \in BOOLEAN
  BY DEF KeyInv, KeyDataInv
<1>2. \A c : c \in T <=> c \in kb.remote \cap (Modifiers \ WinKeys) /\ ~StillHeld(c, state)
  BY DEF ToRelease
<1>3. kx.queue # << >> /\ Head(kx.queue).type = "in" /\ EventDone
  BY DEF FocusIn, NextEvent
<1>4. kb' = v
  <2>1. [kb EXCEPT !.remote = @ \ T, !.down = @ \ T] = lifted
    <3> HIDE DEF T
    <3> QED BY <1>1 DEF KbRec, KbFields
  <2>2. kb' = [r EXCEPT !.aliased = @ \/ over]
    <3> HIDE DEF lifted
    <3> QED BY <2>1 DEF FocusIn
  <2> HIDE DEF r, over
  <2> QED BY <2>2
<1> HIDE DEF T
<1>5. /\ DOMAIN lifted = KbFields /\ lifted.remote = R /\ lifted.down = D /\ Kept(kb, lifted)
      /\ lifted.snum = kb.snum /\ lifted.mistyped = kb.mistyped /\ lifted.lost = kb.lost
  <2> HIDE DEF R, D
  <2> QED BY <1>1 DEF KbRec, KbFields, Kept
<1> HIDE DEF lifted
<1>6. KbRec(lifted) /\ InStep(lifted) /\ Counted(lifted)
  <2>1. KbRec(lifted)
    BY <1>1, <1>5 DEF KbRec, Kept
  <2>2. "numlock" \notin T
    BY <1>2 DEF Modifiers, ShiftKeys, CtrlKeys, WinKeys
  <2>3. InStep(lifted)
    BY <1>1, <1>5, <2>2 DEF InStep, Kept
  <2>4. Counted(lifted)
    BY <1>1, <1>5 DEF Counted
  <2> QED BY <2>1, <2>3, <2>4
<1>7. ScancodeTo(lifted, won, R \ {"winL"}, D \ {"winL"})
  <2>1. "winL" # NoKeysym /\ "winL" \in Modifiers
    BY DEF NoKeysym, Modifiers, WinKeys
  <2> QED BY <1>5, <1>6, <2>1, PressIs DEF UpdateModifierState
<1> HIDE DEF won, R, D
<1>8. /\ KbRec(won) /\ InStep(won) /\ Counted(won) /\ Kept(kb, won) /\ won.remote = R \ {"winL"}
      /\ won.down = D \ {"winL"} /\ won.mistyped = kb.mistyped
  BY <1>5, <1>6, <1>7 DEF ScancodeTo, Kept
<1>9. /\ KbRec(r) /\ InStep(r) /\ Counted(r) /\ r.remote = R \ {"winL"} /\ r.down \subseteq D
      /\ r.pressed = kb.pressed /\ r.missed = kb.missed /\ r.mistyped = kb.mistyped
      /\ r.aliased = kb.aliased /\ r.ungrab = kb.ungrab
      /\ kb.unaccounted = TRUE => r.unaccounted = TRUE
  <2> DEFINE y == Resynchronize(won, kx.num)
  <2>1. /\ KbRec(y) /\ InStep(y) /\ Counted(y) /\ y.down = {} /\ y.remote = won.remote
        /\ y.sync = won.sync /\ y.pressed = won.pressed /\ y.aliased = won.aliased
        /\ y.missed = won.missed /\ y.mistyped = won.mistyped
        /\ y.ungrab = won.ungrab /\ y.lost = won.lost
        /\ won.unaccounted = TRUE => y.unaccounted = TRUE
    BY <1>1, <1>8, ResynchronizeIs
  <2> HIDE DEF y
  <2>2. r = IF kb.sync THEN y ELSE won
    BY DEF y
  <2> HIDE DEF r
  <2> QED BY <1>8, <2>1, <2>2 DEF Kept
<1> HIDE DEF r
<1>10. a \in BOOLEAN /\ (kb.aliased = TRUE => a = TRUE) /\ (a = FALSE => ~over)
  <2> HIDE DEF over
  <2> QED BY <1>9
<1> HIDE DEF a
<1>11. /\ DOMAIN v = KbFields /\ v.remote = r.remote /\ v.down = r.down /\ v.pressed = r.pressed
       /\ v.missed = r.missed /\ v.mistyped = r.mistyped /\ v.aliased = a /\ v.sync = r.sync
       /\ v.snum = r.snum /\ v.unaccounted = r.unaccounted
       /\ v.ungrab = r.ungrab /\ v.lost = r.lost
  BY <1>9 DEF KbRec, KbFields
<1> HIDE DEF v
<1>12. KbRec(v) /\ InStep(v) /\ Counted(v)
  BY <1>9, <1>10, <1>11 DEF KbRec, InStep, Counted
<1>13. v.down \ Modifiers \subseteq kb.down
  BY <1>9, <1>11 DEF D
<1>14. v.aliased = FALSE => v.remote \cap Liftable \subseteq HeldCodes
  <2> SUFFICES ASSUME a = FALSE, NEW c \in r.remote \cap Liftable PROVE c \in HeldCodes
    BY <1>11
  <2>1. c \in kb.remote \cap (Modifiers \ WinKeys) /\ c \notin T
    BY <1>9 DEF R, Liftable, WinKeys
  <2>2. StillHeld(c, state)
    BY <1>2, <2>1
  <2>3. ~(StillHeld(c, state) /\ c \notin HeldCodes)
    <3> HIDE DEF state
    <3> QED BY <1>10, <2>1 DEF over
  <2> QED BY <2>2, <2>3
<1> HIDE DEF over
<1> QED BY <1>3, <1>4, <1>9, <1>10, <1>11, <1>12, <1>13, <1>14

(* The window gets the focus: all modifiers are released and read again.     *)
LEMMA FocusInStep == KeyInv /\ FocusIn => KeyInv'
<1> SUFFICES ASSUME KeyInv, FocusIn PROVE KeyInv'
  OBVIOUS
<1>1. /\ kx.queue # << >> /\ EventDone /\ Head(kx.queue).type = "in"
      /\ KbRec(kb') /\ InStep(kb') /\ Counted(kb')
      /\ kb'.pressed = kb.pressed /\ kb'.missed = kb.missed /\ kb'.mistyped = kb.mistyped
      /\ kb'.ungrab = kb.ungrab
      /\ kb.unaccounted = TRUE => kb'.unaccounted = TRUE
      /\ kb.aliased = TRUE => kb'.aliased = TRUE
      /\ kb'.down \ Modifiers \subseteq kb.down
      /\ kb'.aliased = FALSE => kb'.remote \cap Liftable \subseteq HeldCodes
  BY FocusInIs
<1>2. KeyDataInv /\ SettledInv /\ FreshInv /\ PressesAreLifted
      /\ (kb.unaccounted = FALSE => kb.mistyped = FALSE)
  BY DEF KeyInv
<1>3. KbRec(kb)
  BY <1>2 DEF KeyDataInv
<1>4. KeyDataInv'
  <2>1. DOMAIN kb'.pressed = Keys /\ \A x \in Keys : kb'.pressed[x] \in KeysymsOf(x) \cup {NoKeysym}
    BY <1>1, <1>2 DEF KeyDataInv
  <2> QED BY <1>1, <1>2, <2>1, ReadKeeps
<1>5. SettledInv'
  <2>1. kx'.held = kx.held
    BY <1>1, <1>2, EventRead
  <2>2. kb'.aliased \in BOOLEAN
    BY <1>1 DEF KbRec
  <2>3. HeldCodes' = HeldCodes
    BY <1>1, <2>1 DEF HeldCodes
  <2>4. ~kb'.aliased => \A m \in kb'.remote \cap Liftable : Settles(0, m)'
    BY <1>1, <2>2, <2>3 DEF Settles
  <2> QED BY <1>1, <1>2, <2>4, ReadSettles
<1>6. FreshInv'
  <2>1. kx.queue[1].type = "in"
    BY <1>1, <1>2, EventRead
  <2> QED BY <1>1, <1>2, <2>1, ReadFresh
<1>7. PressesAreLifted'
  BY <1>1, <1>2 DEF PressesAreLifted
<1>8. kb'.unaccounted = FALSE => kb'.mistyped = FALSE
  BY <1>1, <1>2, <1>3 DEF KbRec
<1> QED BY <1>1, <1>4, <1>5, <1>6, <1>7, <1>8 DEF KeyInv

(* The focus goes: nothing changes until it comes back.                      *)
LEMMA FocusOutStep == KeyInv /\ FocusOut => KeyInv'
<1> SUFFICES ASSUME KeyInv, FocusOut PROVE KeyInv'
  OBVIOUS
<1>1. kx.queue # << >> /\ EventDone /\ kb' = kb /\ Head(kx.queue).type = "out"
  BY DEF FocusOut, NextEvent
<1>2. KeyDataInv /\ SettledInv /\ FreshInv /\ PressesAreLifted /\ InStep(kb)
      /\ (kb.unaccounted = FALSE => kb.mistyped = FALSE)
  BY DEF KeyInv
<1>3. KeyDataInv'
  BY <1>1, <1>2, ReadKeeps DEF KeyDataInv
<1>4. kx.queue[1].type = "out"
  BY <1>1, <1>2, EventRead
<1>5. SettledInv'
  <2>1. ASSUME ~kb.aliased, NEW m \in kb.remote \cap Liftable PROVE Settles(0, m)'
    <3>1. Settles(0, m)
      BY <1>2, <2>1 DEF SettledInv
    <3> QED BY <1>1, <1>2, <1>4, <3>1, SettlesRead
  <2> QED BY <1>1, <1>2, <2>1, ReadSettles
<1>6. FreshInv'
  BY <1>1, <1>2, <1>4, ReadFresh
<1>7. PressesAreLifted'
  BY <1>1, <1>2 DEF PressesAreLifted
<1> QED BY <1>1, <1>2, <1>3, <1>5, <1>6, <1>7 DEF KeyInv

(* A new session holds nothing.                                              *)
LEMMA KeyReconnectStep == KeyInv /\ KeyReconnect => KeyInv'
<1> SUFFICES ASSUME KeyInv, KeyReconnect PROVE KeyInv'
  OBVIOUS
<1> DEFINE t == [kb EXCEPT !.down = {}]
           n == kb.sync /\ kx.num
           u == Resynchronize(t, n)
<1>1. KeyDataInv /\ SettledInv /\ FreshInv /\ PressesAreLifted /\ InStep(kb)
      /\ (kb.unaccounted = FALSE => kb.mistyped = FALSE)
  BY DEF KeyInv
<1>2. KbRec(kb)
  BY <1>1 DEF KeyDataInv
<1>3. kb' = u /\ kx' = [kx EXCEPT !.count = @ + 1]
  BY DEF KeyReconnect
<1>4. n \in BOOLEAN
  OBVIOUS
<1>5. /\ DOMAIN t = KbFields /\ t.remote = kb.remote /\ t.down = {} /\ Kept(kb, t)
      /\ t.mistyped = kb.mistyped /\ t.snum = kb.snum /\ t.lost = kb.lost
  BY <1>2 DEF KbRec, KbFields, Kept
<1> HIDE DEF t, n
<1>6. KbRec(t)
  BY <1>2, <1>5 DEF KbRec, Kept
<1>7. /\ KbRec(u) /\ InStep(u) /\ Counted(u) /\ u.down = {} /\ u.remote = t.remote
      /\ u.pressed = t.pressed /\ u.aliased = t.aliased
      /\ u.missed = t.missed /\ u.mistyped = t.mistyped
      /\ u.ungrab = t.ungrab /\ u.lost = t.lost
      /\ t.unaccounted = TRUE => u.unaccounted = TRUE
  BY <1>4, <1>6, ResynchronizeIs
<1> HIDE DEF u
<1>8. /\ DOMAIN kx' = DOMAIN kx /\ kx'.held = kx.held /\ kx'.focus = kx.focus
      /\ kx'.num = kx.num /\ kx'.queue = kx.queue /\ kx'.seen = kx.seen
  BY <1>1, <1>3 DEF KeyDataInv
<1>9. /\ kb'.pressed = kb.pressed /\ kb'.remote = kb.remote /\ kb'.aliased = kb.aliased
      /\ kb'.ungrab = kb.ungrab /\ kb'.lost = kb.lost
  BY <1>3, <1>5, <1>7 DEF Kept
<1>10. KeyDataInv'
  BY <1>1, <1>3, <1>7, <1>8, <1>9 DEF KeyDataInv
<1>11. SettledInv'
  BY <1>1, <1>8, <1>9 DEF SettledInv, Settles, HeldCodes
<1>12. FreshInv'
  BY <1>1, <1>8, <1>9 DEF FreshInv, Fresh, Alone, Undisturbed
<1>13. PressesAreLifted'
  BY <1>3, <1>7 DEF PressesAreLifted
<1>14. kb'.unaccounted = FALSE => kb'.mistyped = FALSE
  BY <1>1, <1>2, <1>3, <1>5, <1>7 DEF KbRec, Kept
<1> QED BY <1>3, <1>7, <1>10, <1>11, <1>12, <1>13, <1>14 DEF KeyInv

-----------------------------------------------------------------------------
(* The user and the X server *)

(* A key event is one of its key.                                            *)
LEMMA EventIs ==
    ASSUME KeyDataInv, NEW k \in Keys, NEW type \in {"press", "release"}
    PROVE  LET e == Event(type, k) IN
           e \in KeyEvents /\ EventOK(e) /\ e.type = type /\ e.key = k
<1> DEFINE e == Event(type, k)
           KS == UNION {KeysymsOf(x) : x \in Keys}
<1>1. KeysymOf(k, kx.held) \in KeysymsOf(k)
  BY DEF KeysymOf, KeysymsOf
<1>2. KeysymOf(k, kx.held) \in KS
  BY <1>1
<1> HIDE DEF KS
<1>3. e = [type |-> type, key |-> k, keysym |-> KeysymOf(k, kx.held), state |-> StateOf(kx.held)]
  BY DEF Event
<1>s. StateOf(kx.held) \in SUBSET Masks
  BY DEF StateOf, MaskOf, Masks
<1>4. e.type = type /\ e.key = k /\ e.keysym = KeysymOf(k, kx.held)
  BY <1>3
<1>5. e \in [type : {"press", "release"}, key : Keys, keysym : KS, state : SUBSET Masks]
  BY <1>2, <1>3, <1>s
<1> HIDE DEF e
<1> QED BY <1>1, <1>4, <1>5 DEF KeyEvents, EventOK, e, KS

(* An event joins the queue at its end.                                      *)
LEMMA EventQueued ==
    ASSUME KeyDataInv, NEW e \in KeyEvents, EventOK(e), Len(kx.queue) < MaxKeyQueue,
           kx'.queue = kx.queue \/ kx'.queue = Append(kx.queue, e)
    PROVE  /\ kx'.queue \in Seq(KeyEvents) /\ Len(kx'.queue) <= MaxKeyQueue
           /\ Len(kx.queue) \in Nat /\ Len(kx'.queue) \in Nat
           /\ Len(kx'.queue) \in {Len(kx.queue), Len(kx.queue) + 1}
           /\ \A i \in 1 .. Len(kx.queue) : i \in 1 .. Len(kx'.queue) /\ kx'.queue[i] = kx.queue[i]
           /\ kx'.queue = Append(kx.queue, e) =>
                  Len(kx'.queue) = Len(kx.queue) + 1 /\ kx'.queue[Len(kx.queue) + 1] = e
           /\ \A i \in 1 .. Len(kx'.queue) : i \in 1 .. Len(kx.queue) \/ kx'.queue[i] = e
           /\ \A i \in 1 .. Len(kx'.queue) : EventOK(kx'.queue[i])
<1> DEFINE q == kx.queue
<1>1. /\ q \in Seq(KeyEvents) /\ Len(q) \in Nat /\ MaxKeyQueue \in Nat
      /\ \A i \in 1 .. Len(q) : EventOK(q[i])
  BY KeyboardConstants DEF KeyDataInv
<1> DEFINE p == kx'.queue
<1>2. p = q \/ p = Append(q, e)
  OBVIOUS
<1>3. Len(q) < MaxKeyQueue
  OBVIOUS
<1> SUFFICES /\ p \in Seq(KeyEvents) /\ Len(p) <= MaxKeyQueue
             /\ Len(q) \in Nat /\ Len(p) \in Nat
             /\ Len(p) \in {Len(q), Len(q) + 1}
             /\ \A i \in 1 .. Len(q) : i \in 1 .. Len(p) /\ p[i] = q[i]
             /\ p = Append(q, e) => Len(p) = Len(q) + 1 /\ p[Len(q) + 1] = e
             /\ \A i \in 1 .. Len(p) : i \in 1 .. Len(q) \/ p[i] = e
             /\ \A i \in 1 .. Len(p) : EventOK(p[i])
  OBVIOUS
<1> HIDE DEF p, q
<1>4. CASE p = q
  <2>1. p = Append(q, e) => FALSE
    BY <1>1, <1>4
  <2> QED BY <1>1, <1>3, <1>4, <2>1
<1>5. CASE p = Append(q, e)
  <2>1. /\ p \in Seq(KeyEvents) /\ Len(p) = Len(q) + 1 /\ p[Len(q) + 1] = e
        /\ \A i \in 1 .. Len(q) : p[i] = q[i]
    BY <1>1, <1>5
  <2>2. \A i \in 1 .. Len(p) : i \in 1 .. Len(q) \/ i = Len(q) + 1
    BY <1>1, <2>1
  <2> QED BY <1>1, <1>3, <2>1, <2>2
<1> QED BY <1>2, <1>4, <1>5

(* What settles a modifier, when an event e may have joined the queue.       *)
LEMMA SettlesQueued ==
    ASSUME KeyDataInv, NEW e \in KeyEvents, EventOK(e), Len(kx.queue) < MaxKeyQueue,
           kx'.queue = kx.queue \/ kx'.queue = Append(kx.queue, e), kx'.focus \in BOOLEAN,
           kb'.ungrab = kb.ungrab, NEW m,
           NEW i \in 0 .. Len(kx.queue), Settles(i, m),
           kx.focus = FALSE =>
               kx'.focus = FALSE \/ (kx'.queue = Append(kx.queue, e) /\ e.type = "in"),
           m \in HeldCodes =>
               \/ m \in HeldCodes' \/ kx'.focus = FALSE
               \/ kx'.queue = Append(kx.queue, e) /\ e.type = "release" /\ m \in CodesOf(e.key, kb.ungrab)
    PROVE  Settles(i, m)'
<1>1. /\ Len(kx.queue) \in Nat /\ Len(kx'.queue) \in Nat
      /\ Len(kx'.queue) \in {Len(kx.queue), Len(kx.queue) + 1}
      /\ \A j \in 1 .. Len(kx.queue) : j \in 1 .. Len(kx'.queue) /\ kx'.queue[j] = kx.queue[j]
      /\ kx'.queue = Append(kx.queue, e) =>
             Len(kx'.queue) = Len(kx.queue) + 1 /\ kx'.queue[Len(kx.queue) + 1] = e
  BY EventQueued
<1>2. kx.focus \in BOOLEAN
  BY DEF KeyDataInv
<1>3. ASSUME kx'.queue = Append(kx.queue, e), e.type = "in" \/ (e.type = "release" /\ m \in CodesOf(e.key, kb.ungrab))
      PROVE  Settles(i, m)'
  <2> DEFINE j == Len(kx.queue) + 1
  <2>1. j \in i + 1 .. Len(kx'.queue) /\ kx'.queue[j] = e
    BY <1>1, <1>3
  <2> HIDE DEF j
  <2> QED BY <1>3, <2>1 DEF Settles
<1>4. CASE kx.focus = FALSE
  BY <1>3, <1>4 DEF Settles
<1>5. CASE m \in HeldCodes
  BY <1>3, <1>5 DEF Settles
<1>6. ASSUME NEW j \in i + 1 .. Len(kx.queue),
             \/ kx.queue[j].type = "in"
             \/ kx.queue[j].type = "release" /\ m \in CodesOf(kx.queue[j].key, kb.ungrab)
      PROVE  Settles(i, m)'
  <2>1. j \in 1 .. Len(kx.queue) /\ j \in i + 1 .. Len(kx'.queue)
    BY <1>1
  <2> QED BY <1>1, <1>6, <2>1 DEF Settles
<1> QED BY <1>2, <1>4, <1>5, <1>6 DEF Settles

(* All that waits stays settled; what has joined is settled by itself.       *)
LEMMA QueuedKeeps ==
    ASSUME KeyDataInv, SettledInv, NEW e \in KeyEvents, EventOK(e), Len(kx.queue) < MaxKeyQueue,
           kx'.queue = kx.queue \/ kx'.queue = Append(kx.queue, e), kx'.focus \in BOOLEAN,
           kb' = kb,
           kx.focus = FALSE =>
               kx'.focus = FALSE \/ (kx'.queue = Append(kx.queue, e) /\ e.type = "in"),
           \A k \in kx.held :
               \/ k \in kx'.held \/ kx'.focus = FALSE
               \/ kx'.queue = Append(kx.queue, e) /\ e.type = "release" /\ e.key = k,
           e.type = "press" => e.key \in kx'.held
    PROVE  SettledInv'
<1>h. ASSUME NEW m \in HeldCodes
      PROVE  \/ m \in HeldCodes' \/ kx'.focus = FALSE
             \/ kx'.queue = Append(kx.queue, e) /\ e.type = "release" /\ m \in CodesOf(e.key, kb.ungrab)
  <2>1. PICK k \in kx.held : m \in CodesOf(k, kb.ungrab)
    BY DEF HeldCodes
  <2>2. k \in kx'.held => m \in HeldCodes'
    BY <2>1 DEF HeldCodes
  <2> QED BY <2>1, <2>2
<1>1. ASSUME NEW m, NEW i \in 0 .. Len(kx.queue), Settles(i, m) PROVE Settles(i, m)'
  BY <1>1, <1>h, SettlesQueued
<1>2. ASSUME ~kb.aliased, NEW m \in kb.remote \cap Liftable PROVE Settles(0, m)'
  <2>1. 0 \in 0 .. Len(kx.queue)
    BY DEF KeyDataInv
  <2> QED BY <1>1, <1>2, <2>1 DEF SettledInv
<1>3. ASSUME ~kb.aliased, NEW i \in 1 .. Len(kx'.queue), kx'.queue[i].type = "press",
             NEW m \in CodesOf(kx'.queue[i].key, kb.ungrab) \cap Liftable
      PROVE  Settles(i, m)'
  <2>2. CASE i \in 1 .. Len(kx.queue)
    <3>1. kx'.queue[i] = kx.queue[i] /\ i \in 0 .. Len(kx.queue)
      BY <2>2, EventQueued
    <3>2. Settles(i, m)
      BY <1>3, <2>2, <3>1 DEF SettledInv
    <3> QED BY <1>1, <3>1, <3>2
  <2>3. CASE i \notin 1 .. Len(kx.queue)
    <3>1. kx'.queue[i] = e
      BY <2>3, EventQueued
    <3>2. m \in HeldCodes'
      BY <1>3, <3>1 DEF HeldCodes
    <3> QED BY <3>2 DEF Settles
  <2> QED BY <2>2, <2>3
<1> QED BY <1>2, <1>3 DEF SettledInv

(* A modifier whose press is on its way, or that is counted, stays so.       *)
LEMMA FreshQueued ==
    ASSUME KeyDataInv, NEW e \in KeyEvents, EventOK(e), Len(kx.queue) < MaxKeyQueue,
           kx'.queue = kx.queue \/ kx'.queue = Append(kx.queue, e), kb' = kb,
           NEW k, NEW c, Fresh(k, c),
           kx'.queue = Append(kx.queue, e) => e.type # "in" /\ ~(e.type = "release" /\ e.key = k)
    PROVE  Fresh(k, c)'
<1>1. /\ Len(kx.queue) \in Nat /\ Len(kx'.queue) \in Nat
      /\ \A i \in 1 .. Len(kx.queue) : i \in 1 .. Len(kx'.queue) /\ kx'.queue[i] = kx.queue[i]
      /\ \A i \in 1 .. Len(kx'.queue) : i \in 1 .. Len(kx.queue) \/ kx'.queue[i] = e
  BY EventQueued
<1>2. ASSUME NEW i \in 0 .. Len(kx.queue), Undisturbed(i, k) PROVE Undisturbed(i, k)'
  <2> SUFFICES ASSUME NEW j \in i + 1 .. Len(kx'.queue)
               PROVE  kx'.queue[j].type # "in" /\ ~(kx'.queue[j].type = "release" /\ kx'.queue[j].key = k)
    BY DEF Undisturbed
  <2>1. j \in 1 .. Len(kx'.queue)
    BY <1>1
  <2>2. CASE j \in 1 .. Len(kx.queue)
    <3>1. j \in i + 1 .. Len(kx.queue) /\ kx'.queue[j] = kx.queue[j]
      BY <1>1, <2>2
    <3> QED BY <1>2, <3>1 DEF Undisturbed
  <2>3. CASE j \notin 1 .. Len(kx.queue)
    <3>1. kx'.queue[j] = e
      BY <1>1, <2>1, <2>3
    <3>2. kx'.queue = Append(kx.queue, e)
      BY <2>1, <2>3
    <3> QED BY <3>1, <3>2
  <2> QED BY <2>2, <2>3
<1>3. CASE Undisturbed(0, k) /\ c \in kb.remote \cup kb.lost
  <2>1. 0 \in 0 .. Len(kx.queue)
    BY <1>1
  <2> QED BY <1>2, <1>3, <2>1 DEF Fresh
<1>4. ASSUME NEW i \in 1 .. Len(kx.queue), kx.queue[i].type = "press", kx.queue[i].key = k,
             Undisturbed(i, k)
      PROVE  Fresh(k, c)'
  <2>1. i \in 0 .. Len(kx.queue) /\ i \in 1 .. Len(kx'.queue) /\ kx'.queue[i] = kx.queue[i]
    BY <1>1
  <2>2. Undisturbed(i, k)'
    BY <1>2, <1>4, <2>1
  <2> QED BY <1>4, <2>1, <2>2 DEF Fresh
<1> QED BY <1>3, <1>4 DEF Fresh

(* The client's part of the invariant, when only X has changed.              *)
LEMMA UserKeeps ==
    ASSUME KeyInv, kb' = kb, KeyDataInv', SettledInv', FreshInv' PROVE KeyInv'
<1>1. PressesAreLifted'
  BY DEF KeyInv, PressesAreLifted
<1> QED BY <1>1 DEF KeyInv

(* The user presses a key: a press event is queued.                          *)
LEMMA PressKeyStep == ASSUME KeyInv, NEW k \in Keys, PressKey(k) PROVE KeyInv'
<1> DEFINE e == Event("press", k)
           H == kx.held \cup {k}
           n == IF k = "numlock" THEN ~kx.num ELSE kx.num
           S == IF kx.focus THEN kx.seen \cup {k} ELSE kx.seen
           q == Queued(e)
<1>1. KeyDataInv /\ SettledInv /\ FreshInv
  BY DEF KeyInv
<1>2. /\ Len(kx.queue) < MaxKeyQueue /\ k \notin kx.held /\ Cardinality(kx.held) < MaxHeld
      /\ kb' = kb
  BY DEF PressKey, Room
<1>3. e \in KeyEvents /\ EventOK(e) /\ e.type = "press" /\ e.key = k
  BY <1>1, EventIs
<1>4. /\ q = kx.queue \/ q = Append(kx.queue, e)
      /\ kx.focus => q = Append(kx.queue, e)
  BY DEF Queued
<1>5. n \in BOOLEAN
  BY <1>1 DEF KeyDataInv
<1>6. kx' = [kx EXCEPT !.held = H, !.queue = q, !.count = @ + 1, !.seen = S, !.num = n]
  <2> HIDE DEF q, e
  <2>1. [kx EXCEPT !.held = @ \cup {k}, !.queue = q, !.count = @ + 1,
                   !.seen = IF kx.focus THEN @ \cup {k} ELSE @,
                   !.num = IF k = "numlock" THEN ~@ ELSE @]
        = [kx EXCEPT !.held = H, !.queue = q, !.count = @ + 1, !.seen = S, !.num = n]
    BY <1>1 DEF KeyDataInv
  <2> QED BY <2>1 DEF PressKey, q, e
<1> HIDE DEF e, q, n, H, S
<1>7. /\ DOMAIN kx' = DOMAIN kx /\ kx'.held = H /\ kx'.queue = q /\ kx'.num = n
      /\ kx'.focus = kx.focus /\ kx'.seen = S
  BY <1>1, <1>6 DEF KeyDataInv
<1>8. H \subseteq Keys /\ IsFiniteSet(H) /\ Cardinality(H) <= MaxHeld /\ k \in H
  <2>1. /\ kx.held \subseteq Keys /\ IsFiniteSet(kx.held)
        /\ Cardinality(kx.held) <= MaxHeld
    BY <1>1 DEF KeyDataInv
  <2>2. IsFiniteSet(H) /\ Cardinality(H) = Cardinality(kx.held) + 1 /\ Cardinality(kx.held) \in Nat
    BY <1>2, <2>1, FS_AddElement, FS_CardinalityType DEF H
  <2> QED BY <1>2, <2>1, <2>2, KeyboardConstants DEF H
<1>9. /\ kx'.queue \in Seq(KeyEvents) /\ Len(kx'.queue) <= MaxKeyQueue
      /\ \A i \in 1 .. Len(kx'.queue) : EventOK(kx'.queue[i])
  BY <1>1, <1>2, <1>3, <1>4, <1>7, EventQueued
<1>10. KeyDataInv'
  <2>1. S \subseteq H
    BY <1>1 DEF KeyDataInv, S, H
  <2> QED BY <1>1, <1>2, <1>5, <1>7, <1>8, <1>9, <2>1 DEF KeyDataInv
<1>11. SettledInv'
  <2>1. kx'.focus \in BOOLEAN
    BY <1>10 DEF KeyDataInv
  <2>2. kx.focus = FALSE => kx'.focus = FALSE
    BY <1>7
  <2>3. \A m \in kx.held : m \in kx'.held
    BY <1>7 DEF H
  <2> QED BY <1>1, <1>2, <1>3, <1>4, <1>7, <1>8, <2>1, <2>2, <2>3, QueuedKeeps
<1>12. FreshInv'
  <2> SUFFICES ASSUME NEW j \in S, NEW c \in CodesOf(j, kb.ungrab) \cap Modifiers, Alone(j, c)
               PROVE  Fresh(j, c)'
    BY <1>2, <1>7 DEF FreshInv, Alone
  <2>1. CASE j \in kx.seen
    <3>1. Fresh(j, c)
      BY <1>1, <2>1 DEF FreshInv
    <3> QED BY <1>1, <1>2, <1>3, <1>4, <1>7, <3>1, FreshQueued
  <2>2. CASE j \notin kx.seen
    <3>1. j = k /\ kx'.queue = Append(kx.queue, e)
      BY <1>4, <1>7, <2>2 DEF S
    <3>2. /\ Len(kx.queue) \in Nat /\ Len(kx'.queue) = Len(kx.queue) + 1
          /\ kx'.queue[Len(kx.queue) + 1] = e
      BY <1>1, <1>2, <1>3, <3>1, EventQueued
    <3>3. PICK i : i = Len(kx.queue) + 1
      OBVIOUS
    <3>4. i \in 1 .. Len(kx'.queue) /\ kx'.queue[i] = e
      BY <3>2, <3>3
    <3>5. Undisturbed(i, j)'
      BY <3>2, <3>3 DEF Undisturbed
    <3> QED BY <1>3, <3>1, <3>4, <3>5 DEF Fresh
  <2> QED BY <2>1, <2>2
<1> QED BY <1>2, <1>10, <1>11, <1>12, UserKeeps

(* The user lets a key go: its release is queued if the window has the focus.*)
LEMMA LiftKeyStep == ASSUME KeyInv, NEW k \in Keys, LiftKey(k) PROVE KeyInv'
<1> DEFINE e == Event("release", k)
           H == kx.held \ {k}
           S == kx.seen \ {k}
           q == Queued(e)
<1>1. KeyDataInv /\ SettledInv /\ FreshInv
  BY DEF KeyInv
<1>2. Len(kx.queue) < MaxKeyQueue /\ k \in kx.held /\ kb' = kb
  BY DEF LiftKey
<1>3. e \in KeyEvents /\ EventOK(e) /\ e.type = "release" /\ e.key = k
  BY <1>1, EventIs
<1>4. q = IF kx.focus THEN Append(kx.queue, e) ELSE kx.queue
  BY DEF Queued
<1>5. kx' = [kx EXCEPT !.held = H, !.seen = S, !.queue = q]
  <2> HIDE DEF q, e
  <2>1. [kx EXCEPT !.held = @ \ {k}, !.seen = @ \ {k}, !.queue = q]
        = [kx EXCEPT !.held = H, !.seen = S, !.queue = q]
    BY <1>1 DEF KeyDataInv
  <2> QED BY <2>1 DEF LiftKey, q, e
<1> HIDE DEF e, q, H, S
<1>6. /\ DOMAIN kx' = DOMAIN kx /\ kx'.held = H /\ kx'.queue = q /\ kx'.num = kx.num
      /\ kx'.focus = kx.focus /\ kx'.seen = S
  BY <1>1, <1>5 DEF KeyDataInv
<1>7. H \subseteq Keys /\ IsFiniteSet(H) /\ Cardinality(H) <= MaxHeld
  <2>1. /\ kx.held \subseteq Keys /\ IsFiniteSet(kx.held)
        /\ Cardinality(kx.held) <= MaxHeld
    BY <1>1 DEF KeyDataInv
  <2>2. /\ IsFiniteSet(H) /\ Cardinality(H) = Cardinality(kx.held) - 1
        /\ Cardinality(kx.held) \in Nat
    BY <1>2, <2>1, FS_RemoveElement, FS_CardinalityType DEF H
  <2> QED BY <2>1, <2>2, KeyboardConstants DEF H
<1>8. /\ kx'.queue \in Seq(KeyEvents) /\ Len(kx'.queue) <= MaxKeyQueue
      /\ \A i \in 1 .. Len(kx'.queue) : EventOK(kx'.queue[i])
  BY <1>1, <1>2, <1>3, <1>4, <1>6, EventQueued
<1>9. KeyDataInv'
  <2>1. S \subseteq H
    BY <1>1 DEF KeyDataInv, S, H
  <2> QED BY <1>1, <1>2, <1>6, <1>7, <1>8, <2>1 DEF KeyDataInv
<1>10. SettledInv'
  <2>1. kx'.focus \in BOOLEAN
    BY <1>9 DEF KeyDataInv
  <2>2. kx.focus = FALSE => kx'.focus = FALSE
    BY <1>6
  <2>3. \A m \in kx.held :
            \/ m \in kx'.held \/ kx'.focus = FALSE
            \/ kx'.queue = Append(kx.queue, e) /\ e.type = "release" /\ e.key = m
    BY <1>3, <1>4, <1>6, <2>1 DEF H
  <2>4. kx'.queue = kx.queue \/ kx'.queue = Append(kx.queue, e)
    BY <1>4, <1>6
  <2>5. e.type # "press"
    BY <1>3
  <2> QED BY <1>1, <1>2, <1>3, <2>1, <2>2, <2>3, <2>4, <2>5, QueuedKeeps
<1>11. FreshInv'
  <2> SUFFICES ASSUME NEW j \in S, NEW c \in CodesOf(j, kb.ungrab) \cap Modifiers, Alone(j, c)
               PROVE  Fresh(j, c)'
    BY <1>2, <1>6 DEF FreshInv, Alone
  <2>1. Fresh(j, c) /\ j # k
    BY <1>1 DEF FreshInv, S
  <2>2. kx'.queue = kx.queue \/ kx'.queue = Append(kx.queue, e)
    BY <1>4, <1>6
  <2> QED BY <1>1, <1>2, <1>3, <2>1, <2>2, FreshQueued
<1> QED BY <1>2, <1>9, <1>10, <1>11, UserKeeps

(* The focus moves: the event that tells us is queued.                       *)
LEMMA ChangeFocusStep == ASSUME KeyInv, ChangeFocus PROVE KeyInv'
<1> DEFINE type == IF kx.focus THEN "out" ELSE "in"
           e == [type |-> type]
           f == ~kx.focus
           q == Append(kx.queue, e)
<1>1. KeyDataInv /\ SettledInv /\ kx.focus \in BOOLEAN
  BY DEF KeyInv, KeyDataInv
<1>2. Len(kx.queue) < MaxKeyQueue /\ kb' = kb
  BY DEF ChangeFocus, Room
<1>3. type \in {"in", "out"} /\ (kx.focus = FALSE => type = "in")
  BY <1>1
<1> HIDE DEF type
<1>4. e \in KeyEvents /\ EventOK(e) /\ e.type = type
  BY <1>3 DEF KeyEvents, EventOK
<1>5. kx' = [kx EXCEPT !.focus = f, !.seen = {}, !.count = @ + 1, !.queue = q]
  <2>1. [kx EXCEPT !.focus = ~@, !.seen = {}, !.count = @ + 1, !.queue = Append(@, e)]
        = [kx EXCEPT !.focus = f, !.seen = {}, !.count = @ + 1, !.queue = q]
    <3> HIDE DEF e
    <3> QED BY <1>1 DEF KeyDataInv
  <2> QED BY <2>1 DEF ChangeFocus, type
<1>6. f \in BOOLEAN
  OBVIOUS
<1> HIDE DEF e, f
<1>7. /\ DOMAIN kx' = DOMAIN kx /\ kx'.held = kx.held /\ kx'.queue = q /\ kx'.num = kx.num
      /\ kx'.focus = f /\ kx'.seen = {}
  BY <1>1, <1>5 DEF KeyDataInv
<1>8. /\ kx'.queue \in Seq(KeyEvents) /\ Len(kx'.queue) <= MaxKeyQueue
      /\ \A i \in 1 .. Len(kx'.queue) : EventOK(kx'.queue[i])
  BY <1>1, <1>2, <1>4, <1>7, EventQueued
<1>9. KeyDataInv'
  BY <1>1, <1>2, <1>6, <1>7, <1>8 DEF KeyDataInv
<1>10. SettledInv'
  <2>1. kx.focus = FALSE => kx'.queue = Append(kx.queue, e) /\ e.type = "in"
    BY <1>3, <1>4, <1>7
  <2>2. \A m \in kx.held : m \in kx'.held
    BY <1>7
  <2>3. e.type # "press"
    BY <1>3, <1>4
  <2> QED BY <1>1, <1>2, <1>4, <1>6, <1>7, <2>1, <2>2, <2>3, QueuedKeeps
<1>11. FreshInv'
  BY <1>7 DEF FreshInv
<1> QED BY <1>2, <1>9, <1>10, <1>11, UserKeeps

-----------------------------------------------------------------------------
(* Nothing is held, pressed or on its way.                                   *)
LEMMA KeyInitInv == KeyInit => KeyInv
<1> SUFFICES ASSUME KeyInit PROVE KeyInv
  OBVIOUS
<1>1. PICK sync \in BOOLEAN, ungrab \in {{}, UngrabMods} :
           kb = [sync |-> sync, ungrab |-> ungrab, remote |-> {}, pressed |-> [k \in Keys |-> NoKeysym],
                 down |-> {}, snum |-> FALSE, mistyped |-> FALSE, lost |-> {},
                 unaccounted |-> FALSE, aliased |-> FALSE, missed |-> FALSE]
  BY DEF KeyInit
<1>2. /\ DOMAIN kb = KbFields /\ kb.sync = sync /\ kb.remote = {} /\ kb.down = {} /\ kb.snum = FALSE
      /\ kb.pressed = [k \in Keys |-> NoKeysym] /\ kb.mistyped = FALSE
      /\ kb.unaccounted = FALSE /\ kb.aliased = FALSE /\ kb.missed = FALSE
      /\ kb.lost = {} /\ kb.ungrab = ungrab
  BY <1>1 DEF KbFields
<1>3. KbRec(kb) /\ Counted(kb) /\ InStep(kb)
  BY <1>2, KeyboardConstants DEF KbRec, Counted, InStep
<1>4. kx = [held |-> {}, seen |-> {}, focus |-> TRUE, num |-> FALSE, queue |-> << >>, count |-> 0]
  BY DEF KeyInit
<1>5. /\ DOMAIN kx = {"held", "seen", "focus", "num", "queue", "count"}
      /\ kx.held = {} /\ kx.seen = {} /\ kx.queue = << >> /\ kx.focus = TRUE /\ kx.num = FALSE
  BY <1>4
<1>6. IsFiniteSet({}) /\ Cardinality({}) = 0
  BY FS_EmptySet
<1>7. KeyDataInv
  <2>1. kx.queue \in Seq(KeyEvents) /\ Len(kx.queue) = 0
    BY <1>5
  <2>2. 0 <= MaxKeyQueue /\ 0 <= MaxHeld
    BY KeyboardConstants
  <2>3. IsFiniteSet(kx.held) /\ Cardinality(kx.held) <= MaxHeld
    BY <1>5, <1>6, <2>2
  <2>4. \A k \in Keys : kb.pressed[k] = NoKeysym
    BY <1>2
  <2>5. DOMAIN kb.pressed = Keys
    BY <1>2
  <2>6. Len(kx.queue) <= MaxKeyQueue /\ \A i \in 1 .. Len(kx.queue) : EventOK(kx.queue[i])
    BY <2>1, <2>2
  <2> QED BY <1>3, <1>5, <2>1, <2>3, <2>4, <2>5, <2>6 DEF KeyDataInv
<1>8. SettledInv
  BY <1>2, <1>5 DEF SettledInv
<1>9. PressesAreLifted
  BY <1>2 DEF PressesAreLifted
<1>10. FreshInv
  BY <1>5 DEF FreshInv
<1> QED BY <1>2, <1>3, <1>7, <1>8, <1>9, <1>10 DEF KeyInv

(* Every step of the user, of X and of the handlers.                         *)
LEMMA KeyStep == KeyInv /\ [KeyNext]_keyVars => KeyInv'
<1> SUFFICES ASSUME KeyInv, [KeyNext]_keyVars PROVE KeyInv'
  OBVIOUS
<1>1. CASE UNCHANGED keyVars
  <2>1. kb' = kb /\ kx' = kx
    BY <1>1 DEF keyVars
  <2>2. KeyDataInv'
    BY <2>1 DEF KeyInv, KeyDataInv
  <2>3. SettledInv'
    BY <2>1 DEF KeyInv, SettledInv, Settles, HeldCodes
  <2>4. FreshInv'
    BY <2>1 DEF KeyInv, FreshInv, Fresh, Alone, Undisturbed
  <2> QED BY <2>1, <2>2, <2>3, <2>4, UserKeeps
<1>2. CASE KeyNext
  BY <1>2, KeyPressStep, KeyReleaseStep, FocusInStep, FocusOutStep, KeyReconnectStep,
     PressKeyStep, LiftKeyStep, ChangeFocusStep DEF KeyNext
<1> QED BY <1>1, <1>2

(* What the run checks follows.                                              *)
LEMMA KeyInvMeans == KeyInv => KeysFollow
<1> SUFFICES ASSUME KeyInv PROVE KeysFollow
  OBVIOUS
<1>1. KeyDataInv /\ InStep(kb) /\ SettledInv /\ FreshInv /\ PressesAreLifted
      /\ (kb.unaccounted = FALSE => kb.mistyped = FALSE) /\ KbRec(kb) /\ Counted(kb)
  BY DEF KeyInv, KeyDataInv
<1>2. kb.unaccounted \in BOOLEAN /\ kb.sync \in BOOLEAN /\ kb.snum \in BOOLEAN
      /\ kb.mistyped \in BOOLEAN /\ kb.aliased \in BOOLEAN
  BY <1>1 DEF KbRec
<1>3. KeyTypeOK
  <2>1. \A k \in Keys : kb.pressed[k] \in KeysymsOf(k) \cup {NoKeysym}
    BY <1>1 DEF KeyDataInv
  <2>2. {kb.sync, kb.snum, kb.mistyped, kb.unaccounted, kb.aliased, kb.missed, kx.focus, kx.num}
          \subseteq BOOLEAN
    BY <1>1 DEF KeyDataInv, KbRec
  <2> QED BY <1>1, <2>1, <2>2 DEF KeyTypeOK, KeyDataInv, KbRec, Remotes
<1>4. RemoteStateInStep
  BY <1>1, <1>2 DEF RemoteStateInStep, InStep
<1>5. TypedAsMapped
  BY <1>1, <1>2 DEF TypedAsMapped
<1>6. NoModifierStuck
  <2> SUFFICES ASSUME kx.queue = << >>, kx.focus, kx.held = {}, ~kb.aliased,
                      NEW m \in kb.down \cap Liftable
               PROVE  FALSE
    BY DEF NoModifierStuck, Liftable
  <2>1. m \in kb.remote
    BY <1>1 DEF Counted, Liftable
  <2>2. Settles(0, m)
    BY <1>1, <2>1 DEF SettledInv
  <2>3. HeldCodes = {}
    BY DEF HeldCodes
  <2> QED BY <2>2, <2>3 DEF Settles
<1>7. HeldAreDown
  <2> SUFFICES ASSUME kx.queue = << >>, ~kb.unaccounted, NEW k \in kx.seen,
                      NEW c \in (CodesOf(k, kb.ungrab) \cap Modifiers) \ kb.lost, Alone(k, c)
               PROVE  c \in kb.down
    BY DEF HeldAreDown, Alone
  <2>1. Fresh(k, c)
    BY <1>1 DEF FreshInv
  <2>2. c \in kb.remote
    BY <2>1 DEF Fresh
  <2> QED BY <1>1, <1>2, <2>2 DEF InStep
<1> QED BY <1>1, <1>3, <1>4, <1>5, <1>6, <1>7 DEF KeysFollow

-----------------------------------------------------------------------------
(* The clipboard (xclip.c) *)

Kinds == {"timestamp", "targets", "formats", "text", "native"}
Requests == [id : XIds \cup {Self}, sel : Sels, kind : {"text", "native"}]
PropTargets ==
    {"none", "targets", "nativeTargets", "formats", "text", "format", "INCR", "chunk", "empty"}
Convs == [by : Owners, sel : Sels, kind : Kinds]
ClipEvents ==
    [type : {"notify"}, sel : Sels, kind : Kinds, ok : BOOLEAN]
        \cup [type : {"request"}, id : XIds \cup {Self}, sel : Sels, kind : Kinds]
        \cup [type : {"clear", "change"}, sel : Sels]
        \cup [type : {"root", "property"}]

ClipFields ==
    {"owner", "stamp", "time", "got", "probing", "reprobe", "fellow", "format", "hasRequest",
     "request", "prop", "target", "incr", "buffered", "chunks", "conv", "events", "owes",
     "issued", "answers", "asked", "responses", "inputs", "announced", "current", "app"}

(* The fields of the record, and what they hold.                             *)
ClipData(t) ==
    /\ DOMAIN t = ClipFields
    /\ t.owner \in [Sels -> Owners] /\ t.stamp \in [Sels -> Nat] /\ t.time \in Nat
    /\ t.got \in [Sels -> Nat] /\ t.prop \in [Sels -> Nat] /\ t.target \in PropTargets
    /\ t.probing \in BOOLEAN /\ t.reprobe \in BOOLEAN /\ t.fellow \in BOOLEAN
    /\ t.format \in BOOLEAN /\ t.hasRequest \in BOOLEAN /\ t.incr \in BOOLEAN
    /\ t.owes \in BOOLEAN /\ t.buffered \in BOOLEAN /\ t.current \in BOOLEAN
    /\ t.request \in Requests /\ t.answers \in [XIds -> Nat]
    /\ t.announced \in {"none", "text", "formats", "other"}
    /\ t.issued \in Nat /\ t.inputs \in Nat /\ t.asked \in Nat /\ t.responses \in Nat
    /\ t.chunks \in Nat
    /\ t.events \in Seq(ClipEvents) /\ t.conv \in Seq(Convs)

(* A function of xclip.c changes these fields and no others.                 *)
Changes(t, u, F) == DOMAIN u = DOMAIN t /\ \A f \in DOMAIN t \ F : u[f] = t[f]

(* Sequences only grow at their end.                                         *)
Extends(q, p) ==
    /\ Len(q) \in Nat /\ Len(p) \in Nat /\ Len(q) <= Len(p)
    /\ \A i \in 1 .. Len(q) : p[i] = q[i]

(* Events and conversions are added, none of them another client's request.  *)
Grows(t, u) ==
    /\ Extends(t.events, u.events) /\ Extends(t.conv, u.conv)
    /\ \A i \in 1 .. Len(u.events) :
           i > Len(t.events) /\ u.events[i].type = "request" => u.events[i].id = Self

(* A conversion we asked for and its answer, on their way.                   *)
Item(e, sel, kind) ==
    /\ e.type = "notify" \/ (e.type = "request" /\ e.id = Self)
    /\ e.sel = sel /\ e.kind = kind

Pending(t, sel, kind) ==
    \/ \E i \in 1 .. Len(t.events) : Item(t.events[i], sel, kind)
    \/ \E i \in 1 .. Len(t.conv) : t.conv[i].sel = sel /\ t.conv[i].kind = kind

NotifyAt(t, i) == t.events[i].type = "notify" /\ t.events[i].kind # "timestamp"
TextNotifyAt(t, i) == t.events[i].type = "notify" /\ t.events[i].kind = "text"

(* Both timestamps, or the one that is still needed.                         *)
StampsPending(t) ==
    \E s \in Sels :
        /\ Pending(t, s, "timestamp")
        /\ \A o \in Sels : o = s \/ t.got[o] > 0 \/ Pending(t, o, "timestamp")

ListPending(t) == \E s \in Sels : Pending(t, s, "targets") \/ Pending(t, s, "formats")

(* An answer to an earlier conversion, which will be taken for the probe's:  *)
(* if it is mistaken for an INCR transfer, the answer that began that one    *)
(* comes later.                                                              *)
StaleAnswer(t) ==
    \E i \in 1 .. Len(t.events) :
        /\ NotifyAt(t, i)
        /\ t.target = "INCR" => \E j \in i + 1 .. Len(t.events) : TextNotifyAt(t, j)

IncrInv(t) == t.target = "INCR" => \E i \in 1 .. Len(t.events) : TextNotifyAt(t, i)

(* What ends a probe is on its way.                                          *)
ProbeInv(t) == t.probing = TRUE => StampsPending(t) \/ ListPending(t) \/ StaleAnswer(t)

(* A change the server was not told of is being probed, or is still to be    *)
(* noticed, unless the server itself is the owner now.                       *)
ChangeAt(t, i) ==
    t.events[i].type = "change" /\ (t.events[i].sel = "clipboard" \/ ClipAutoMode)

AnnounceInv(t) ==
    t.current = FALSE /\ ~WeOwnAll(t) =>
        t.probing = TRUE \/ \E i \in 1 .. Len(t.events) : ChangeAt(t, i)

(* One reply for each request of the server.                                 *)
ReplyInv(t) == t.responses + (IF t.format = TRUE THEN 1 ELSE 0) <= t.asked

(* A request of another client is in one place: in the queue, or with the    *)
(* server, or answered.                                                      *)
AskedAt(t, i, id) == t.events[i].type = "request" /\ t.events[i].id = id
Awaits(t, id) == t.hasRequest = TRUE /\ t.request.id = id

RequestInv(t) ==
    /\ t.issued <= t.inputs /\ t.inputs <= MaxClipInputs
    /\ t.owes = TRUE => t.hasRequest = TRUE
    /\ \A id \in XIds, i \in 1 .. Len(t.events) :
           AskedAt(t, i, id) =>
               /\ id <= t.issued /\ t.answers[id] = 0 /\ ~Awaits(t, id)
               /\ \A j \in 1 .. Len(t.events) : AskedAt(t, j, id) => j = i
    /\ \A id \in XIds : Awaits(t, id) => id <= t.issued /\ t.answers[id] = 0
    /\ \A id \in XIds :
           IF id <= t.issued
           THEN \/ t.answers[id] = 1
                \/ t.answers[id] = 0 /\ (\/ Awaits(t, id)
                                         \/ \E i \in 1 .. Len(t.events) : AskedAt(t, i, id))
           ELSE t.answers[id] = 0

ClipInv(t) ==
    /\ ClipData(t) /\ IncrInv(t) /\ ProbeInv(t) /\ AnnounceInv(t) /\ ReplyInv(t) /\ RequestInv(t)


-----------------------------------------------------------------------------
(* What the helpers change *)

(* A step of xclip.c that changes some fields and sends some events.         *)
Emits(t, u, F) == ClipData(u) /\ Changes(t, u, F) /\ Grows(t, u)

(* The fields that tell which requests of other clients are open.            *)
RequestFields == {"owes", "hasRequest", "request", "answers", "issued", "inputs"}

(* Steps in a row.                                                           *)
LEMMA EmitsTrans ==
    ASSUME NEW t, NEW u, NEW v, NEW F, NEW G, ClipData(t), Emits(t, u, F), Emits(u, v, G)
    PROVE  Emits(t, v, F \cup G)
<1>1. Changes(t, v, F \cup G)
  BY DEF Emits, Changes
<1>2. Extends(t.events, v.events) /\ Extends(t.conv, v.conv)
  BY DEF Emits, Grows, Extends
<1>3. ASSUME NEW i \in 1 .. Len(v.events), i > Len(t.events), v.events[i].type = "request"
      PROVE  v.events[i].id = Self
  <2>1. /\ Len(t.events) \in Nat /\ Len(u.events) \in Nat /\ Len(v.events) \in Nat
        /\ \A j \in 1 .. Len(u.events) : v.events[j] = u.events[j]
        /\ \A j \in 1 .. Len(u.events) :
               j > Len(t.events) /\ u.events[j].type = "request" => u.events[j].id = Self
        /\ \A j \in 1 .. Len(v.events) :
               j > Len(u.events) /\ v.events[j].type = "request" => v.events[j].id = Self
    BY DEF Emits, Grows, Extends
  <2>2. CASE i > Len(u.events)
    BY <1>3, <2>1, <2>2
  <2>3. CASE i \in 1 .. Len(u.events)
    BY <1>3, <2>1, <2>3
  <2> QED BY <1>3, <2>1, <2>2, <2>3
<1> QED BY <1>1, <1>2, <1>3 DEF Emits, Grows

(* More fields than those that change may be named.                          *)
LEMMA EmitsMore ==
    ASSUME NEW t, NEW u, NEW F, NEW G, Emits(t, u, F), F \subseteq G
    PROVE  Emits(t, u, G)
BY DEF Emits, Changes

(* A field that is not named keeps its value.                                *)
LEMMA EmitsSame ==
    ASSUME NEW t, NEW u, NEW F, ClipData(t), Emits(t, u, F)
    PROVE  \A f \in ClipFields \ F : u[f] = t[f]
BY DEF Emits, Changes, ClipData

(* What is on its way stays there.                                           *)
LEMMA EmitsKeeps ==
    ASSUME NEW t, NEW u, NEW F, ClipData(t), Emits(t, u, F)
    PROVE  /\ Len(t.events) \in Nat /\ Len(u.events) \in Nat /\ Len(t.events) <= Len(u.events)
           /\ \A i \in 1 .. Len(t.events) :
                  i \in 1 .. Len(u.events) /\ u.events[i] = t.events[i]
           /\ \A s, k : Pending(t, s, k) => Pending(u, s, k)
<1>1. /\ Len(t.events) \in Nat /\ Len(u.events) \in Nat /\ Len(t.events) <= Len(u.events)
      /\ Len(t.conv) \in Nat /\ Len(u.conv) \in Nat /\ Len(t.conv) <= Len(u.conv)
      /\ \A i \in 1 .. Len(t.events) : u.events[i] = t.events[i]
      /\ \A i \in 1 .. Len(t.conv) : u.conv[i] = t.conv[i]
  BY DEF Emits, Grows, Extends
<1>2. /\ \A i \in 1 .. Len(t.events) : i \in 1 .. Len(u.events)
      /\ \A i \in 1 .. Len(t.conv) : i \in 1 .. Len(u.conv)
  BY <1>1
<1>3. ASSUME NEW s, NEW k, Pending(t, s, k) PROVE Pending(u, s, k)
  <2>1. CASE \E i \in 1 .. Len(t.events) : Item(t.events[i], s, k)
    <3>1. PICK i \in 1 .. Len(t.events) : Item(t.events[i], s, k)
      BY <2>1
    <3>2. i \in 1 .. Len(u.events) /\ u.events[i] = t.events[i]
      BY <1>1, <1>2
    <3> QED BY <3>1, <3>2 DEF Pending
  <2>2. CASE \E i \in 1 .. Len(t.conv) : t.conv[i].sel = s /\ t.conv[i].kind = k
    <3>1. PICK i \in 1 .. Len(t.conv) : t.conv[i].sel = s /\ t.conv[i].kind = k
      BY <2>2
    <3>2. i \in 1 .. Len(u.conv) /\ u.conv[i] = t.conv[i]
      BY <1>1, <1>2
    <3> QED BY <3>1, <3>2 DEF Pending
  <2> QED BY <1>3, <2>1, <2>2 DEF Pending
<1> QED BY <1>1, <1>2, <1>3

(* Sending an event.                                                         *)
LEMMA XEventEmits ==
    ASSUME NEW t, ClipData(t), NEW e \in ClipEvents,
           e.type = "request" => e.id = Self
    PROVE  /\ Emits(t, XEvent(t, e), {"events"})
           /\ Len(XEvent(t, e).events) = Len(t.events) + 1
           /\ XEvent(t, e).events[Len(t.events) + 1] = e
<1> DEFINE u == XEvent(t, e)
<1>1. u = [t EXCEPT !.events = Append(t.events, e)]
  BY DEF XEvent
<1>2. DOMAIN t = ClipFields /\ t.events \in Seq(ClipEvents) /\ t.conv \in Seq(Convs)
  BY DEF ClipData
<1>3. DOMAIN u = ClipFields /\ u.events = Append(t.events, e)
      /\ \A f \in ClipFields \ {"events"} : u[f] = t[f]
  BY <1>1, <1>2 DEF ClipFields
<1> HIDE DEF u
<1>4. /\ u.events \in Seq(ClipEvents) /\ Len(u.events) = Len(t.events) + 1
      /\ Len(t.events) \in Nat /\ Len(t.conv) \in Nat
      /\ \A i \in 1 .. Len(t.events) : u.events[i] = t.events[i]
      /\ u.events[Len(t.events) + 1] = e
  BY <1>2, <1>3
<1>5. u.conv = t.conv
  BY <1>3 DEF ClipFields
<1>6. Grows(t, u)
  BY <1>4, <1>5 DEF Grows, Extends
<1>7. Changes(t, u, {"events"})
  BY <1>2, <1>3 DEF Changes
<1>8. ClipData(u)
  BY <1>3, <1>4 DEF ClipData, ClipFields
<1> QED BY <1>4, <1>6, <1>7, <1>8 DEF Emits, u

(* RemoveAt takes one element out and moves those behind it up. *)
LEMMA RemoveAtIs ==
    ASSUME NEW S, NEW s \in Seq(S), NEW i \in 1 .. Len(s)
    PROVE  /\ RemoveAt(s, i) \in Seq(S) /\ Len(RemoveAt(s, i)) = Len(s) - 1
           /\ \A j \in 1 .. Len(s) - 1 :
                  RemoveAt(s, i)[j] = IF j < i THEN s[j] ELSE s[j + 1]
<1> DEFINE a == SubSeq(s, 1, i - 1)
           b == SubSeq(s, i + 1, Len(s))
<1>1. \A j \in 1 .. Len(s) : s[j] \in S
  OBVIOUS
<1>2. /\ a \in Seq(S) /\ Len(a) = i - 1
      /\ \A j \in 1 .. i - 1 : a[j] = s[j]
  BY <1>1, SubSeqProperties
<1>3. /\ b \in Seq(S) /\ Len(b) = Len(s) - i
      /\ \A j \in 1 .. Len(s) - i : b[j] = s[j + i]
  <2>1. \A j \in i + 1 .. Len(s) : s[j] \in S
    BY <1>1
  <2>2. /\ b \in Seq(S)
        /\ Len(b) = IF i + 1 <= Len(s) THEN Len(s) - (i + 1) + 1 ELSE 0
        /\ \A j \in 1 .. Len(s) - (i + 1) + 1 : b[j] = s[(i + 1) + j - 1]
    BY <2>1, SubSeqProperties
  <2>3. Len(b) = Len(s) - i
    BY <2>2
  <2>4. ASSUME NEW j \in 1 .. Len(s) - i PROVE b[j] = s[j + i]
    <3>1. j \in 1 .. Len(s) - (i + 1) + 1 /\ (i + 1) + j - 1 = j + i
      OBVIOUS
    <3>2. b[j] = s[(i + 1) + j - 1]
      BY <2>2, <3>1
    <3> HIDE DEF b
    <3> QED BY <3>1, <3>2
  <2> QED BY <2>2, <2>3, <2>4
<1> HIDE DEF a, b
<1>4. RemoveAt(s, i) = a \o b
  BY DEF RemoveAt, a, b
<1>5. a \o b \in Seq(S) /\ Len(a \o b) = Len(s) - 1
  <2> a \in Seq(S) /\ b \in Seq(S)
    BY <1>2, <1>3
  <2>1. a \o b \in Seq(S) /\ Len(a \o b) = Len(a) + Len(b)
    OBVIOUS
  <2> QED BY <1>2, <1>3, <2>1
<1>6. ASSUME NEW j \in 1 .. Len(s) - 1
      PROVE  (a \o b)[j] = IF j < i THEN s[j] ELSE s[j + 1]
  <2>1. CASE j < i
    <3>1. j \in 1 .. Len(a) /\ j \in 1 .. i - 1
      BY <1>2, <2>1
    <3>2. (a \o b)[j] = a[j]
      <4>1. a \in Seq(S) /\ b \in Seq(S)
        BY <1>2, <1>3
      <4> QED BY <3>1, <4>1
    <3> QED BY <1>2, <2>1, <3>1, <3>2
  <2>2. CASE ~(j < i)
    <3>1. (a \o b)[j] = b[j - (i - 1)]
      BY <1>2, <1>3, <2>2
    <3>2. j - (i - 1) \in 1 .. Len(s) - i /\ j - (i - 1) + i = j + 1
      BY <2>2
    <3>3. b[j - (i - 1)] = s[j - (i - 1) + i]
      BY <1>3, <3>2
    <3> QED BY <2>2, <3>1, <3>2, <3>3
  <2> QED BY <2>1, <2>2
<1> QED BY <1>4, <1>5, <1>6

(* What each field holds, and a record that holds it.                        *)
ClipSets ==
    [owner |-> [Sels -> Owners], stamp |-> [Sels -> Nat], got |-> [Sels -> Nat],
     prop |-> [Sels -> Nat], answers |-> [XIds -> Nat], target |-> PropTargets,
     request |-> Requests, events |-> Seq(ClipEvents), conv |-> Seq(Convs),
     announced |-> {"none", "text", "formats", "other"},
     time |-> Nat, issued |-> Nat, inputs |-> Nat, asked |-> Nat, responses |-> Nat,
     chunks |-> Nat, probing |-> BOOLEAN, reprobe |-> BOOLEAN, fellow |-> BOOLEAN,
     format |-> BOOLEAN, hasRequest |-> BOOLEAN, incr |-> BOOLEAN, owes |-> BOOLEAN,
     buffered |-> BOOLEAN, current |-> BOOLEAN]

LEMMA ClipSetsAre ==
    /\ ClipSets.owner = [Sels -> Owners] /\ ClipSets.stamp = [Sels -> Nat]
    /\ ClipSets.got = [Sels -> Nat] /\ ClipSets.prop = [Sels -> Nat]
    /\ ClipSets.target = PropTargets /\ ClipSets.request = Requests
    /\ ClipSets.events = Seq(ClipEvents)
    /\ ClipSets.announced = {"none", "text", "formats", "other"}
    /\ ClipSets.time = Nat /\ ClipSets.issued = Nat /\ ClipSets.inputs = Nat
    /\ ClipSets.probing = BOOLEAN /\ ClipSets.fellow = BOOLEAN
    /\ ClipSets.hasRequest = BOOLEAN /\ ClipSets.incr = BOOLEAN
    /\ ClipSets.owes = BOOLEAN /\ ClipSets.buffered = BOOLEAN /\ ClipSets.current = BOOLEAN
BY Zenon DEF ClipSets

LEMMA ClipDataIs ==
    ASSUME NEW v, DOMAIN v = ClipFields
    PROVE  ClipData(v) <=> \A f \in ClipFields \ {"app"} : v[f] \in ClipSets[f]
<1>1. ASSUME ClipData(v), NEW f \in ClipFields \ {"app"} PROVE v[f] \in ClipSets[f]
  BY <1>1 DEF ClipData, ClipSets, ClipFields
<1>2. ASSUME \A f \in ClipFields \ {"app"} : v[f] \in ClipSets[f] PROVE ClipData(v)
  <2>1. /\ v.owner \in ClipSets.owner /\ v.stamp \in ClipSets.stamp /\ v.got \in ClipSets.got
        /\ v.prop \in ClipSets.prop /\ v.answers \in ClipSets.answers
        /\ v.target \in ClipSets.target /\ v.request \in ClipSets.request
        /\ v.events \in ClipSets.events /\ v.conv \in ClipSets.conv
        /\ v.announced \in ClipSets.announced
    BY <1>2 DEF ClipFields
  <2>2. /\ v.time \in ClipSets.time /\ v.issued \in ClipSets.issued
        /\ v.inputs \in ClipSets.inputs /\ v.asked \in ClipSets.asked
        /\ v.responses \in ClipSets.responses /\ v.chunks \in ClipSets.chunks
    BY <1>2 DEF ClipFields
  <2>3. /\ v.probing \in ClipSets.probing /\ v.reprobe \in ClipSets.reprobe
        /\ v.fellow \in ClipSets.fellow /\ v.format \in ClipSets.format
        /\ v.hasRequest \in ClipSets.hasRequest /\ v.incr \in ClipSets.incr
        /\ v.owes \in ClipSets.owes /\ v.buffered \in ClipSets.buffered
        /\ v.current \in ClipSets.current
    BY <1>2 DEF ClipFields
  <2> QED BY <2>1, <2>2, <2>3, Zenon DEF ClipData, ClipSets
<1> QED BY <1>1, <1>2

(* A step changes some fields, and each of them holds what it may.           *)
Retyped(v, w, F) ==
    /\ DOMAIN w = ClipFields
    /\ \A f \in ClipFields \ F : w[f] = v[f]
    /\ \A f \in F : w[f] \in ClipSets[f]

LEMMA FieldsTyped ==
    ASSUME NEW v, ClipData(v), NEW w, NEW F, Retyped(v, w, F)
    PROVE  ClipData(w)
<1>1. DOMAIN v = ClipFields /\ DOMAIN w = ClipFields
  BY Zenon DEF ClipData, Retyped
<1>2. \A f \in ClipFields \ {"app"} : v[f] \in ClipSets[f]
  BY <1>1, ClipDataIs, Zenon
<1>3. \A f \in ClipFields \ {"app"} : w[f] \in ClipSets[f]
  BY <1>2, Zenon DEF Retyped
<1> QED BY <1>1, <1>3, ClipDataIs, Zenon

(* A step that touches no queue.                                             *)
LEMMA QuietEmits ==
    ASSUME NEW t, NEW u, NEW F, ClipData(t), ClipData(u), Changes(t, u, F),
           "events" \notin F, "conv" \notin F
    PROVE  Emits(t, u, F)
<1>1. u.events = t.events /\ u.conv = t.conv
  BY DEF Changes, ClipData, ClipFields
<1>2. Len(t.events) \in Nat /\ Len(t.conv) \in Nat
  <2>1. t.events \in Seq(ClipEvents) /\ t.conv \in Seq(Convs)
    BY DEF ClipData
  <2> QED BY <2>1
<1>3. Grows(t, u)
  BY <1>1, <1>2 DEF Grows, Extends
<1> QED BY <1>3 DEF Emits

(* The parts of the invariant that such steps keep.                          *)
LEMMA RequestsKept ==
    ASSUME NEW t, NEW u, NEW F, ClipData(t), Emits(t, u, F), F \cap RequestFields = {},
           RequestInv(t)
    PROVE  RequestInv(u)
<1>1. /\ u.owes = t.owes /\ u.hasRequest = t.hasRequest /\ u.request = t.request
      /\ u.answers = t.answers /\ u.issued = t.issued /\ u.inputs = t.inputs
  BY EmitsSame DEF RequestFields, ClipFields
<1>2. /\ Len(t.events) \in Nat /\ Len(u.events) \in Nat /\ Len(t.events) <= Len(u.events)
      /\ \A i \in 1 .. Len(t.events) :
             i \in 1 .. Len(u.events) /\ u.events[i] = t.events[i]
  BY EmitsKeeps
<1>3. \A i \in 1 .. Len(u.events) :
          i > Len(t.events) /\ u.events[i].type = "request" => u.events[i].id = Self
  BY DEF Emits, Grows
<1>4. ASSUME NEW id \in XIds, NEW i \in 1 .. Len(u.events), AskedAt(u, i, id)
      PROVE  i \in 1 .. Len(t.events) /\ AskedAt(t, i, id)
  <2>1. id # Self
    BY ClipConstants DEF XIds, Self
  <2>2. ~(i > Len(t.events))
    BY <1>3, <1>4, <2>1 DEF AskedAt
  <2>3. i \in 1 .. Len(t.events)
    BY <1>2, <2>2
  <2> QED BY <1>2, <1>4, <2>3 DEF AskedAt
<1>5. ASSUME NEW id \in XIds, NEW i \in 1 .. Len(t.events), AskedAt(t, i, id)
      PROVE  i \in 1 .. Len(u.events) /\ AskedAt(u, i, id)
  BY <1>2, <1>5 DEF AskedAt
<1>6. \A id : Awaits(u, id) <=> Awaits(t, id)
  BY <1>1 DEF Awaits
<1>7. ASSUME NEW id \in XIds, NEW i \in 1 .. Len(u.events), AskedAt(u, i, id)
      PROVE  /\ id <= u.issued /\ u.answers[id] = 0 /\ ~Awaits(u, id)
             /\ \A j \in 1 .. Len(u.events) : AskedAt(u, j, id) => j = i
  <2>1. i \in 1 .. Len(t.events) /\ AskedAt(t, i, id)
    BY <1>4, <1>7
  <2>2. /\ id <= t.issued /\ t.answers[id] = 0 /\ ~Awaits(t, id)
        /\ \A j \in 1 .. Len(t.events) : AskedAt(t, j, id) => j = i
    BY <2>1 DEF RequestInv
  <2> QED BY <1>1, <1>4, <1>6, <2>2
<1>8. ASSUME NEW id \in XIds
      PROVE  IF id <= u.issued
             THEN \/ u.answers[id] = 1
                  \/ u.answers[id] = 0 /\ (\/ Awaits(u, id)
                                           \/ \E i \in 1 .. Len(u.events) : AskedAt(u, i, id))
             ELSE u.answers[id] = 0
  <2>1. IF id <= t.issued
        THEN \/ t.answers[id] = 1
             \/ t.answers[id] = 0 /\ (\/ Awaits(t, id)
                                      \/ \E i \in 1 .. Len(t.events) : AskedAt(t, i, id))
        ELSE t.answers[id] = 0
    BY DEF RequestInv
  <2>2. (\E i \in 1 .. Len(t.events) : AskedAt(t, i, id))
            => \E i \in 1 .. Len(u.events) : AskedAt(u, i, id)
    BY <1>5
  <2> QED BY <1>1, <1>6, <2>1, <2>2
<1>9. \A id \in XIds : Awaits(u, id) => id <= u.issued /\ u.answers[id] = 0
  BY <1>1, <1>6 DEF RequestInv
<1>10. /\ u.issued <= u.inputs /\ u.inputs <= MaxClipInputs
       /\ u.owes = TRUE => u.hasRequest = TRUE
  BY <1>1 DEF RequestInv
<1> QED BY <1>7, <1>8, <1>9, <1>10 DEF RequestInv

(* The target property is left alone, or holds something else than an INCR   *)
(* announcement.                                                             *)
NoNewIncr(t, u) == u.target = t.target \/ u.target # "INCR"

(* While the target reads INCR, the text's answer is still on its way.       *)
LEMMA IncrKept ==
    ASSUME NEW t, NEW u, NEW F, ClipData(t), Emits(t, u, F), IncrInv(t), NoNewIncr(t, u)
    PROVE  IncrInv(u)
<1> SUFFICES ASSUME u.target = "INCR" PROVE \E i \in 1 .. Len(u.events) : TextNotifyAt(u, i)
  BY DEF IncrInv
<1>1. PICK i \in 1 .. Len(t.events) : TextNotifyAt(t, i)
  BY DEF IncrInv, NoNewIncr
<1>2. i \in 1 .. Len(u.events) /\ u.events[i] = t.events[i]
  BY EmitsKeeps
<1> QED BY <1>1, <1>2 DEF TextNotifyAt

(* An answer left over from an earlier conversion stays in the queue.        *)
LEMMA StaleKept ==
    ASSUME NEW t, NEW u, NEW F, ClipData(t), Emits(t, u, F), StaleAnswer(t), NoNewIncr(t, u)
    PROVE  StaleAnswer(u)
<1>1. PICK i \in 1 .. Len(t.events) :
          /\ NotifyAt(t, i)
          /\ t.target = "INCR" => \E j \in i + 1 .. Len(t.events) : TextNotifyAt(t, j)
  BY DEF StaleAnswer
<1>2. i \in 1 .. Len(u.events) /\ NotifyAt(u, i)
  BY <1>1, EmitsKeeps DEF NotifyAt
<1>3. u.target = "INCR" => \E j \in i + 1 .. Len(u.events) : TextNotifyAt(u, j)
  <2> SUFFICES ASSUME u.target = "INCR" PROVE \E j \in i + 1 .. Len(u.events) : TextNotifyAt(u, j)
    OBVIOUS
  <2>1. PICK j \in i + 1 .. Len(t.events) : TextNotifyAt(t, j)
    BY <1>1 DEF NoNewIncr
  <2>2. /\ Len(t.events) \in Nat /\ Len(u.events) \in Nat /\ Len(t.events) <= Len(u.events)
        /\ \A h \in 1 .. Len(t.events) : u.events[h] = t.events[h]
    BY EmitsKeeps
  <2>3. j \in 1 .. Len(t.events) /\ j \in i + 1 .. Len(u.events)
    BY <2>2
  <2>4. u.events[j] = t.events[j]
    BY <2>2, <2>3
  <2> QED BY <2>1, <2>3, <2>4 DEF TextNotifyAt
<1> QED BY <1>2, <1>3 DEF StaleAnswer

(* The timestamps asked for stay on their way,                               *)
LEMMA StampsKept ==
    ASSUME NEW t, NEW u, u.got = t.got, StampsPending(t),
           \A s \in Sels : Pending(t, s, "timestamp") => Pending(u, s, "timestamp")
    PROVE  StampsPending(u)
BY DEF StampsPending

(* and so does the list of targets or of formats.                            *)
LEMMA ListKept ==
    ASSUME NEW t, NEW u, ListPending(t),
           \A s \in Sels, k \in {"targets", "formats"} : Pending(t, s, k) => Pending(u, s, k)
    PROVE  ListPending(u)
BY DEF ListPending

(* Whatever ends the probe does, if no other one begins.                     *)
LEMMA ProbeKept ==
    ASSUME NEW t, NEW u, NEW F, ClipData(t), Emits(t, u, F), ProbeInv(t), NoNewIncr(t, u),
           u.got = t.got, u.probing = t.probing
    PROVE  ProbeInv(u)
<1> SUFFICES ASSUME t.probing = TRUE
             PROVE  StampsPending(u) \/ ListPending(u) \/ StaleAnswer(u)
  BY DEF ProbeInv
<1>1. \A s, k : Pending(t, s, k) => Pending(u, s, k)
  BY EmitsKeeps
<1>2. StampsPending(t) \/ ListPending(t) \/ StaleAnswer(t)
  BY DEF ProbeInv
<1> QED BY <1>1, <1>2, StaleKept, StampsKept, ListKept

(* A change that is probed, or still to be noticed, remains so.              *)
LEMMA AnnounceKept ==
    ASSUME NEW t, NEW u, NEW F, ClipData(t), Emits(t, u, F), AnnounceInv(t),
           u.owner = t.owner, u.probing = t.probing, u.current = TRUE \/ u.current = t.current
    PROVE  AnnounceInv(u)
<1> SUFFICES ASSUME u.current = FALSE, ~WeOwnAll(u)
             PROVE  u.probing = TRUE \/ \E i \in 1 .. Len(u.events) : ChangeAt(u, i)
  BY DEF AnnounceInv
<1>1. ~WeOwnAll(t)
  BY DEF WeOwnAll, PrimaryOwner
<1>2. t.probing = TRUE \/ \E i \in 1 .. Len(t.events) : ChangeAt(t, i)
  BY <1>1 DEF AnnounceInv
<1>3. ASSUME NEW i \in 1 .. Len(t.events), ChangeAt(t, i)
      PROVE  \E j \in 1 .. Len(u.events) : ChangeAt(u, j)
  <2>1. i \in 1 .. Len(u.events) /\ u.events[i] = t.events[i]
    BY EmitsKeeps
  <2> QED BY <1>3, <2>1 DEF ChangeAt
<1> QED BY <1>2, <1>3

(* Replies: unchanged, or one for the format that was asked for.             *)
LEMMA RepliesKept ==
    ASSUME NEW t, NEW u, ReplyInv(t), u.responses = t.responses, u.format = t.format,
           u.asked = t.asked
    PROVE  ReplyInv(u)
BY DEF ReplyInv

(* All parts at once, for a step that neither begins nor ends a probe.       *)
LEMMA ClipKept ==
    ASSUME NEW t, NEW u, NEW F, ClipInv(t), Emits(t, u, F), F \cap RequestFields = {},
           NoNewIncr(t, u), u.got = t.got, u.probing = t.probing, u.owner = t.owner,
           u.current = TRUE \/ u.current = t.current, ReplyInv(u)
    PROVE  ClipInv(u)
BY RequestsKept, IncrKept, ProbeKept, AnnounceKept DEF ClipInv, Emits

(* And for a state without a probe.                                          *)
LEMMA ClipIdle ==
    ASSUME NEW u, ClipData(u), u.probing = FALSE, u.target # "INCR", AnnounceInv(u),
           ReplyInv(u), RequestInv(u)
    PROVE  ClipInv(u)
BY DEF ClipInv, IncrInv, ProbeInv

-----------------------------------------------------------------------------
(* The helpers of xclip.c *)

(* An announcement brings the server up to date.                             *)
LEMMA AnnounceEmits ==
    ASSUME NEW t, ClipData(t), NEW what \in {"none", "text", "formats", "other"}
    PROVE  /\ Emits(t, SendFormatAnnounce(t, what), {"announced", "current"})
           /\ SendFormatAnnounce(t, what).current = TRUE
<1> DEFINE u == SendFormatAnnounce(t, what)
<1>1. u = [t EXCEPT !.announced = what, !.current = TRUE]
  BY DEF SendFormatAnnounce
<1>2. DOMAIN t = ClipFields
  BY DEF ClipData
<1>3. DOMAIN u = ClipFields /\ u.announced = what /\ u.current = TRUE
      /\ \A f \in ClipFields \ {"announced", "current"} : u[f] = t[f]
  BY <1>1, <1>2 DEF ClipFields
<1> HIDE DEF u
<1>4. Changes(t, u, {"announced", "current"})
  BY <1>2, <1>3 DEF Changes
<1>5. ClipData(u)
  <2>a. u.announced \in {"none", "text", "formats", "other"} /\ u.current \in BOOLEAN
    BY <1>3
  <2>1. \A f \in {"announced", "current"} : u[f] \in ClipSets[f]
    BY <2>a, ClipSetsAre
  <2>2. Retyped(t, u, {"announced", "current"})
    BY <1>3, <2>1, Zenon DEF Retyped
  <2> QED BY <2>2, FieldsTyped
<1>6. Emits(t, u, {"announced", "current"})
  BY <1>4, <1>5, QuietEmits
<1> QED BY <1>3, <1>6 DEF u

(* One reply at most, for the format asked for.                              *)
LEMMA ResponseEmits ==
    ASSUME NEW t, ClipData(t), ReplyInv(t)
    PROVE  /\ Emits(t, SendResponse(t), {"responses", "format", "announced", "current"})
           /\ ReplyInv(SendResponse(t))
           /\ SendResponse(t).current = TRUE \/ SendResponse(t).current = t.current
<1> DEFINE F == {"responses", "format", "announced", "current"}
           sent == [SendData(t) EXCEPT !.format = FALSE]
<1>1. DOMAIN t = ClipFields /\ t.responses \in Nat /\ t.asked \in Nat
  BY DEF ClipData
<1>2. sent = [[t EXCEPT !.responses = t.responses + 1] EXCEPT !.format = FALSE]
  BY DEF SendData
<1>3. /\ DOMAIN sent = ClipFields /\ sent.format = FALSE /\ sent.responses = t.responses + 1
      /\ \A f \in ClipFields \ {"responses", "format"} : sent[f] = t[f]
  BY <1>1, <1>2 DEF ClipFields
<1>4. CASE ~t.format
  <2>1. SendResponse(t) = t
    BY <1>4 DEF SendResponse
  <2>2. Emits(t, t, F)
    BY QuietEmits DEF Changes
  <2> QED BY <2>1, <2>2
<1>5. CASE t.format
  <2> HIDE DEF sent
  <2>1. ClipData(sent)
    <3>1. sent.responses \in Nat
      BY <1>1, <1>3
    <3>2. sent.format \in BOOLEAN
      BY <1>3
    <3> QED BY <1>3, <3>1, <3>2 DEF ClipData, ClipFields
  <2>2. Emits(t, sent, {"responses", "format"})
    <3>1. Changes(t, sent, {"responses", "format"})
      BY <1>1, <1>3 DEF Changes
    <3> QED BY <2>1, <3>1, QuietEmits
  <2>3. sent.asked = t.asked /\ sent.current = t.current
    BY <1>3 DEF ClipFields
  <2>4. ReplyInv(sent)
    BY <1>1, <1>3, <1>5, <2>3 DEF ReplyInv
  <2>5. SendResponse(t) = IF t.fellow THEN sent ELSE SendSimpleFormatAnnounce(sent)
    BY <1>5 DEF SendResponse, sent
  <2>6. CASE t.fellow
    <3>1. Emits(t, sent, F)
      BY <2>2, EmitsMore
    <3> QED BY <2>3, <2>4, <2>5, <2>6, <3>1
  <2>7. CASE ~t.fellow
    <3>1. SendResponse(t) = SendFormatAnnounce(sent, "text")
      BY <2>5, <2>7 DEF SendSimpleFormatAnnounce
    <3>2. /\ Emits(sent, SendResponse(t), {"announced", "current"})
          /\ SendResponse(t).current = TRUE
      BY <2>1, <3>1, AnnounceEmits
    <3>3. Emits(t, SendResponse(t), {"responses", "format"} \cup {"announced", "current"})
      BY <2>2, <3>2, EmitsTrans
    <3>4. {"responses", "format"} \cup {"announced", "current"} = F
      OBVIOUS
    <3>5. ReplyInv(SendResponse(t))
      <4>1. /\ SendResponse(t).responses = sent.responses
            /\ SendResponse(t).format = sent.format
            /\ SendResponse(t).asked = sent.asked
        BY <2>1, <3>2, EmitsSame DEF ClipFields
      <4> QED BY <2>4, <4>1, RepliesKept
    <3> QED BY <3>2, <3>3, <3>4, <3>5
  <2> QED BY <2>6, <2>7
<1> QED BY <1>4, <1>5

(* The properties of our window are deleted.                                 *)
LEMMA ClearEmits ==
    ASSUME NEW t, ClipData(t)
    PROVE  /\ Emits(t, ClearTargetProps(t), {"prop", "target"})
           /\ ClearTargetProps(t).target = "none"
<1> DEFINE u == ClearTargetProps(t)
<1>1. u = [t EXCEPT !.prop = [s \in Sels |-> 0], !.target = "none"]
  BY DEF ClearTargetProps
<1>2. DOMAIN t = ClipFields
  BY DEF ClipData
<1>3. DOMAIN u = ClipFields /\ u.prop = [s \in Sels |-> 0] /\ u.target = "none"
      /\ \A f \in ClipFields \ {"prop", "target"} : u[f] = t[f]
  BY <1>1, <1>2 DEF ClipFields
<1> HIDE DEF u
<1>4. Changes(t, u, {"prop", "target"})
  BY <1>2, <1>3 DEF Changes
<1>5. u.prop \in [Sels -> Nat]
  BY <1>3
<1>6. ClipData(u)
  <2>1. \A f \in {"prop", "target"} : u[f] \in ClipSets[f]
    BY <1>3, <1>5, ClipSetsAre DEF PropTargets
  <2>2. Retyped(t, u, {"prop", "target"})
    BY <1>3, <2>1, Zenon DEF Retyped
  <2> QED BY <2>2, FieldsTyped
<1> QED BY <1>3, <1>4, <1>6, QuietEmits DEF u

(* A conversion is asked for, or answered by the X server itself.            *)
LEMMA ConvertEmits ==
    ASSUME NEW t, ClipData(t), NEW sel \in Sels, NEW kind \in Kinds
    PROVE  /\ Emits(t, Convert(t, sel, kind), {"events", "conv"})
           /\ Pending(Convert(t, sel, kind), sel, kind)
<1>0. DOMAIN t = ClipFields /\ t.owner \in [Sels -> Owners]
      /\ t.events \in Seq(ClipEvents) /\ t.conv \in Seq(Convs)
  BY DEF ClipData
<1>1. ASSUME NEW e \in ClipEvents, e.type = "request" => e.id = Self, Item(e, sel, kind)
      PROVE  /\ Emits(t, XEvent(t, e), {"events", "conv"})
             /\ Pending(XEvent(t, e), sel, kind)
  <2>1. /\ Emits(t, XEvent(t, e), {"events"})
        /\ Len(XEvent(t, e).events) = Len(t.events) + 1
        /\ XEvent(t, e).events[Len(t.events) + 1] = e
    BY <1>1, XEventEmits
  <2>2. Len(t.events) + 1 \in 1 .. Len(XEvent(t, e).events)
    BY <1>0, <2>1
  <2>3. Pending(XEvent(t, e), sel, kind)
    BY <1>1, <2>1, <2>2 DEF Pending
  <2> QED BY <2>1, <2>3, EmitsMore
<1>2. CASE t.owner[sel] = "none"
  <2> DEFINE e == Notify(sel, kind, FALSE)
  <2>1. e \in ClipEvents /\ e.type = "notify" /\ e.sel = sel /\ e.kind = kind
    BY DEF Notify, ClipEvents
  <2>2. Convert(t, sel, kind) = XEvent(t, e)
    BY <1>2 DEF Convert
  <2> HIDE DEF e
  <2>3. Item(e, sel, kind) /\ e.type # "request"
    BY <2>1 DEF Item
  <2> QED BY <1>1, <2>1, <2>2, <2>3
<1>3. CASE t.owner[sel] = "us"
  <2> DEFINE e == [type |-> "request", id |-> Self, sel |-> sel, kind |-> kind]
  <2>1. e \in ClipEvents /\ e.type = "request" /\ e.id = Self /\ e.sel = sel /\ e.kind = kind
    BY DEF ClipEvents
  <2>2. Convert(t, sel, kind) = XEvent(t, e)
    BY <1>3 DEF Convert
  <2> HIDE DEF e
  <2>3. Item(e, sel, kind)
    BY <2>1 DEF Item
  <2> QED BY <1>1, <2>1, <2>2, <2>3
<1>4. CASE t.owner[sel] # "none" /\ t.owner[sel] # "us"
  <2> DEFINE c == [by |-> t.owner[sel], sel |-> sel, kind |-> kind]
             u == Convert(t, sel, kind)
  <2>1. c \in Convs /\ c.sel = sel /\ c.kind = kind
    BY <1>0 DEF Convs
  <2>2. u = [t EXCEPT !.conv = Append(t.conv, c)]
    BY <1>4 DEF Convert
  <2> HIDE DEF c
  <2>3. DOMAIN u = ClipFields /\ u.conv = Append(t.conv, c)
        /\ \A f \in ClipFields \ {"conv"} : u[f] = t[f]
    BY <1>0, <2>2 DEF ClipFields
  <2> HIDE DEF u
  <2>4. /\ u.conv \in Seq(Convs) /\ Len(u.conv) = Len(t.conv) + 1
        /\ Len(t.events) \in Nat /\ Len(t.conv) \in Nat
        /\ \A i \in 1 .. Len(t.conv) : u.conv[i] = t.conv[i]
        /\ u.conv[Len(t.conv) + 1] = c
    BY <1>0, <2>1, <2>3
  <2>5. u.events = t.events
    BY <2>3 DEF ClipFields
  <2>6. Grows(t, u)
    BY <2>4, <2>5 DEF Grows, Extends
  <2>7. Changes(t, u, {"conv"})
    BY <1>0, <2>3 DEF Changes
  <2>8. ClipData(u)
    BY <2>3, <2>4 DEF ClipData, ClipFields
  <2>9. Pending(u, sel, kind)
    <3>1. Len(t.conv) + 1 \in 1 .. Len(u.conv)
      BY <2>4
    <3> QED BY <2>1, <2>4, <3>1 DEF Pending
  <2>10. Emits(t, u, {"events", "conv"})
    BY <2>6, <2>7, <2>8, EmitsMore DEF Emits
  <2> QED BY <2>9, <2>10 DEF u
<1> QED BY <1>2, <1>3, <1>4

(* What is written into a property of our window.                            *)
Written(t, u, kind, what) ==
    IF kind = "timestamp" THEN u.target = t.target ELSE u.target = what

(* A write is noticed by us during an INCR transfer only.                    *)
LEMMA PropertyWrittenEmits ==
    ASSUME NEW t, ClipData(t)
    PROVE  Emits(t, PropertyWritten(t), {"events"})
<1>1. CASE t.incr
  <2> DEFINE e == [type |-> "property"]
  <2>1. e \in ClipEvents /\ e.type # "request"
    BY DEF ClipEvents
  <2>2. PropertyWritten(t) = XEvent(t, e)
    BY <1>1 DEF PropertyWritten
  <2> HIDE DEF e
  <2> QED BY <2>1, <2>2, XEventEmits
<1>2. CASE ~t.incr
  <2>1. PropertyWritten(t) = t
    BY <1>2 DEF PropertyWritten
  <2>2. Emits(t, t, {"events"})
    <3>1. Emits(t, t, {})
      BY QuietEmits DEF Changes
    <3> QED BY <3>1, EmitsMore
  <2> QED BY <2>1, <2>2
<1> QED BY <1>1, <1>2

(* The answer of an owner is written into one of our two properties.         *)
LEMMA WriteEmits ==
    ASSUME NEW t, ClipData(t), NEW sel \in Sels, NEW kind \in Kinds, NEW what \in PropTargets
    PROVE  /\ Emits(t, WriteProperty(t, sel, kind, what), {"prop", "target", "events"})
           /\ Written(t, WriteProperty(t, sel, kind, what), kind, what)
<1> DEFINE v == IF kind = "timestamp" THEN [t EXCEPT !.prop[sel] = t.stamp[sel]]
                ELSE [t EXCEPT !.target = what]
           u == PropertyWritten(v)
<1>1. WriteProperty(t, sel, kind, what) = u
  BY DEF WriteProperty
<1>2. DOMAIN t = ClipFields /\ t.prop \in [Sels -> Nat] /\ t.stamp \in [Sels -> Nat]
  BY DEF ClipData
<1>3. /\ DOMAIN v = ClipFields
      /\ \A f \in ClipFields \ {"prop", "target"} : v[f] = t[f]
  BY <1>2 DEF ClipFields
<1>4. v.prop \in [Sels -> Nat] /\ v.target \in PropTargets
  <2>1. CASE kind = "timestamp"
    <3>1. v = [t EXCEPT !.prop = [t.prop EXCEPT ![sel] = t.stamp[sel]]]
      BY <1>2, <2>1
    <3>2. v.prop = [t.prop EXCEPT ![sel] = t.stamp[sel]] /\ v.target = t.target
      BY <1>2, <3>1 DEF ClipFields
    <3>3. t.target \in PropTargets
      BY DEF ClipData
    <3> HIDE DEF v
    <3> QED BY <1>2, <3>2, <3>3
  <2>2. CASE kind # "timestamp"
    <3>1. v.prop = t.prop /\ v.target = what
      BY <1>2, <2>2 DEF ClipFields
    <3> HIDE DEF v
    <3> QED BY <1>2, <3>1
  <2> QED BY <2>1, <2>2
<1>5. Written(t, v, kind, what)
  BY <1>2 DEF Written, ClipFields
<1> HIDE DEF v
<1>6. ClipData(v)
  BY <1>3, <1>4 DEF ClipData, ClipFields
<1>7. Emits(t, v, {"prop", "target"})
  BY <1>2, <1>3, <1>6, QuietEmits DEF Changes
<1>8. Emits(v, u, {"events"})
  BY <1>6, PropertyWrittenEmits
<1>9. u.target = v.target
  BY <1>6, <1>8, EmitsSame DEF ClipFields
<1> HIDE DEF u
<1>10. Emits(t, u, {"prop", "target"} \cup {"events"})
  BY <1>7, <1>8, EmitsTrans
<1>11. Emits(t, u, {"prop", "target", "events"})
  BY <1>10, EmitsMore
<1> QED BY <1>1, <1>5, <1>9, <1>11 DEF Written

(* A notification ends the queue.                                            *)
LEMMA NotifyEmits ==
    ASSUME NEW t, ClipData(t), NEW sel \in Sels, NEW kind \in Kinds, NEW ok \in BOOLEAN
    PROVE  LET u == XEvent(t, Notify(sel, kind, ok))
           IN /\ Emits(t, u, {"events"}) /\ Pending(u, sel, kind)
              /\ Len(t.events) + 1 = Len(u.events) /\ Len(u.events) \in 1 .. Len(u.events)
              /\ kind = "text" => TextNotifyAt(u, Len(u.events))
<1> DEFINE e == Notify(sel, kind, ok)
           u == XEvent(t, e)
<1>1. e \in ClipEvents /\ e.type = "notify" /\ e.sel = sel /\ e.kind = kind
  BY DEF Notify, ClipEvents
<1> HIDE DEF e
<1>2. /\ Emits(t, u, {"events"})
      /\ Len(u.events) = Len(t.events) + 1
      /\ u.events[Len(t.events) + 1] = e
  BY <1>1, XEventEmits
<1> HIDE DEF u
<1>3. Len(u.events) \in 1 .. Len(u.events)
  <2>1. t.events \in Seq(ClipEvents)
    BY DEF ClipData
  <2> QED BY <1>2, <2>1
<1>4. Pending(u, sel, kind)
  BY <1>1, <1>2, <1>3 DEF Pending, Item
<1>5. kind = "text" => TextNotifyAt(u, Len(u.events))
  BY <1>1, <1>2 DEF TextNotifyAt
<1> QED BY <1>2, <1>3, <1>4, <1>5 DEF e, u

(* Writing and telling about it, for our own conversion or another owner's.  *)
LEMMA WroteEmits ==
    ASSUME NEW t, ClipData(t), NEW sel \in Sels, NEW kind \in Kinds, NEW what \in PropTargets
    PROVE  LET u == XEvent(WriteProperty(t, sel, kind, what), Notify(sel, kind, TRUE))
           IN /\ Emits(t, u, {"prop", "target", "events"}) /\ Pending(u, sel, kind)
              /\ Written(t, u, kind, what)
              /\ Len(t.events) < Len(u.events)
              /\ kind = "text" => TextNotifyAt(u, Len(u.events))
<1> DEFINE v == WriteProperty(t, sel, kind, what)
           u == XEvent(v, Notify(sel, kind, TRUE))
<1>1. Emits(t, v, {"prop", "target", "events"}) /\ Written(t, v, kind, what) /\ ClipData(v)
  BY WriteEmits DEF Emits
<1> HIDE DEF v
<1>2. /\ Emits(v, u, {"events"}) /\ Pending(u, sel, kind)
      /\ Len(v.events) + 1 = Len(u.events) /\ Len(u.events) \in 1 .. Len(u.events)
      /\ kind = "text" => TextNotifyAt(u, Len(u.events))
  BY <1>1, NotifyEmits
<1> HIDE DEF u
<1>3. u.target = v.target
  BY <1>1, <1>2, EmitsSame DEF ClipFields
<1>4. Emits(t, u, {"prop", "target", "events"} \cup {"events"})
  BY <1>1, <1>2, EmitsTrans
<1>5. Emits(t, u, {"prop", "target", "events"})
  BY <1>4, EmitsMore
<1>6. Len(t.events) < Len(u.events)
  BY <1>1, <1>2, EmitsKeeps
<1>7. Written(t, u, kind, what)
  BY <1>1, <1>3 DEF Written
<1> QED BY <1>2, <1>5, <1>6, <1>7 DEF u, v

-----------------------------------------------------------------------------
(* Probes *)

(* What is read from the queue leaves the rest as it was.                    *)
Popped(c, t, e) ==
    /\ ClipData(c) /\ c.events # << >> /\ e = c.events[1]
    /\ ClipData(t) /\ Changes(c, t, {"events"})
    /\ Len(c.events) = Len(t.events) + 1
    /\ \A i \in 1 .. Len(t.events) : t.events[i] = c.events[i + 1]

(* Targets or timestamps are asked for, whatever is answered.                *)
LEMMA AskEmits ==
    ASSUME NEW t, ClipData(t)
    PROVE  /\ Emits(t, AskTargets(t), {"got", "events", "conv"})
           /\ StampsPending(AskTargets(t)) \/ ListPending(AskTargets(t))
<1> DEFINE stamps == [t EXCEPT !.got = [s \in Sels |-> 0]]
           F == {"got", "events", "conv"}
<1>1. DOMAIN t = ClipFields
  BY DEF ClipData
<1>2. DOMAIN stamps = ClipFields /\ stamps.got = [s \in Sels |-> 0]
      /\ \A f \in ClipFields \ {"got"} : stamps[f] = t[f]
  BY <1>1 DEF ClipFields
<1>3. AskTargets(t) =
          IF PrimaryOwner(t) # "none" /\ t.owner["clipboard"] # "none"
          THEN Convert(Convert(stamps, "primary", "timestamp"), "clipboard", "timestamp")
          ELSE Convert(t, IF PrimaryOwner(t) # "none" THEN "primary" ELSE "clipboard", "targets")
  BY DEF AskTargets
<1> HIDE DEF stamps
<1>4. CASE PrimaryOwner(t) # "none" /\ t.owner["clipboard"] # "none"
  <2> DEFINE v == Convert(stamps, "primary", "timestamp")
             u == Convert(v, "clipboard", "timestamp")
  <2>1. stamps.got \in [Sels -> Nat]
    BY <1>2
  <2>2. ClipData(stamps)
    BY <1>2, <2>1 DEF ClipData, ClipFields
  <2>3. Emits(t, stamps, {"got"})
    BY <1>1, <1>2, <2>2, QuietEmits DEF Changes
  <2>4. Emits(stamps, v, {"events", "conv"}) /\ Pending(v, "primary", "timestamp") /\ ClipData(v)
    BY <2>2, ConvertEmits DEF Sels, Kinds, Emits
  <2> HIDE DEF v
  <2>5. Emits(v, u, {"events", "conv"}) /\ Pending(u, "clipboard", "timestamp")
    BY <2>4, ConvertEmits DEF Sels, Kinds
  <2> HIDE DEF u
  <2>6. Pending(u, "primary", "timestamp")
    BY <2>4, <2>5, EmitsKeeps
  <2>7. StampsPending(u)
    BY <2>5, <2>6 DEF StampsPending, Sels
  <2>8. Emits(stamps, u, {"events", "conv"} \cup {"events", "conv"})
    BY <2>2, <2>4, <2>5, EmitsTrans
  <2>9. Emits(t, u, {"got"} \cup ({"events", "conv"} \cup {"events", "conv"}))
    BY <2>3, <2>8, EmitsTrans
  <2>10. Emits(t, u, F)
    BY <2>9, EmitsMore
  <2>11. AskTargets(t) = u
    BY <1>3, <1>4 DEF u, v
  <2> QED BY <2>7, <2>10, <2>11
<1>5. CASE ~(PrimaryOwner(t) # "none" /\ t.owner["clipboard"] # "none")
  <2> DEFINE sel == IF PrimaryOwner(t) # "none" THEN "primary" ELSE "clipboard"
             u == Convert(t, sel, "targets")
  <2>1. sel \in Sels
    BY DEF Sels
  <2>2. AskTargets(t) = u
    BY <1>3, <1>5
  <2> HIDE DEF sel
  <2>3. Emits(t, u, {"events", "conv"}) /\ Pending(u, sel, "targets")
    BY <2>1, ConvertEmits DEF Kinds
  <2> HIDE DEF u
  <2>4. ListPending(u)
    BY <2>1, <2>3 DEF ListPending
  <2>5. Emits(t, u, F)
    BY <2>3, EmitsMore
  <2> QED BY <2>2, <2>4, <2>5
<1> QED BY <1>4, <1>5

(* A field in which no probe runs: the fields of the record.                 *)
ProbeFields ==
    {"probing", "reprobe", "prop", "target", "got", "events", "conv", "announced", "current"}

(* xclip_probe_selections without a probe under way.                         *)
LEMMA NewProbe ==
    ASSUME NEW t, ClipData(t), t.probing = FALSE, ReplyInv(t), RequestInv(t)
    PROVE  ClipInv(ProbeSelections(t)) /\ Emits(t, ProbeSelections(t), ProbeFields)
<1> DEFINE begun == [t EXCEPT !.probing = TRUE, !.reprobe = FALSE]
           fresh == ClearTargetProps(begun)
           done == [fresh EXCEPT !.probing = FALSE]
           u == ProbeSelections(t)
           F == {"probing", "reprobe", "prop", "target"}
<1>1. DOMAIN t = ClipFields
  BY DEF ClipData
<1>2. u = IF WeOwnAll(t) THEN done
          ELSE IF NoOwner(t) THEN [SendSimpleFormatAnnounce(fresh) EXCEPT !.probing = FALSE]
          ELSE AskTargets(fresh)
  BY DEF ProbeSelections
<1> HIDE DEF u
<1>3. DOMAIN begun = ClipFields /\ begun.probing = TRUE /\ begun.reprobe = FALSE
      /\ \A f \in ClipFields \ {"probing", "reprobe"} : begun[f] = t[f]
  BY <1>1 DEF ClipFields
<1> HIDE DEF begun
<1>4. ClipData(begun)
  <2>1. begun.probing \in BOOLEAN
    BY <1>3
  <2>2. begun.reprobe \in BOOLEAN
    BY <1>3
  <2> QED BY <1>3, <2>1, <2>2 DEF ClipData, ClipFields
<1>5. Emits(t, begun, {"probing", "reprobe"})
  BY <1>1, <1>3, <1>4, QuietEmits DEF Changes
<1>6. Emits(begun, fresh, {"prop", "target"}) /\ fresh.target = "none" /\ ClipData(fresh)
  BY <1>4, ClearEmits DEF Emits
<1> HIDE DEF fresh
<1>7. fresh.probing = TRUE
  BY <1>3, <1>4, <1>6, EmitsSame DEF ClipFields
<1>8. Emits(t, fresh, F)
  <2>1. Emits(t, fresh, {"probing", "reprobe"} \cup {"prop", "target"})
    BY <1>5, <1>6, EmitsTrans
  <2> QED BY <2>1, EmitsMore
<1>9. /\ fresh.owner = t.owner /\ fresh.responses = t.responses /\ fresh.format = t.format
      /\ fresh.asked = t.asked /\ RequestInv(fresh)
  <2>1. F \cap RequestFields = {}
    BY DEF RequestFields
  <2> QED BY <1>8, <2>1, EmitsSame, RequestsKept DEF ClipFields
<1>10. ReplyInv(fresh)
  BY <1>9, RepliesKept
<1>11. ASSUME NEW v, ClipData(v), Emits(t, v, {"probing", "reprobe", "prop", "target", "announced", "current"}),
              v.target = "none", v.probing = TRUE, v.current = TRUE \/ WeOwnAll(v)
       PROVE  LET w == [v EXCEPT !.probing = FALSE]
              IN ClipInv(w) /\ Emits(t, w, ProbeFields)
  <2> DEFINE w == [v EXCEPT !.probing = FALSE]
             G == {"probing", "reprobe", "prop", "target", "announced", "current"}
  <2>1. DOMAIN v = ClipFields
    BY <1>11 DEF ClipData
  <2>2. DOMAIN w = ClipFields /\ w.probing = FALSE
        /\ \A f \in ClipFields \ {"probing"} : w[f] = v[f]
    BY <2>1 DEF ClipFields
  <2> HIDE DEF w
  <2>3. ClipData(w)
    <3>1. w.probing \in BOOLEAN
      BY <2>2
    <3>2. \A f \in {"probing"} : w[f] \in ClipSets[f]
      BY <3>1, ClipSetsAre
    <3>3. Retyped(v, w, {"probing"})
      BY <1>11, <2>2, <3>2, Zenon DEF Retyped
    <3> QED BY <1>11, <2>2, <3>3, FieldsTyped
  <2>4. Emits(v, w, {"probing"})
    BY <1>11, <2>1, <2>2, <2>3, QuietEmits DEF Changes
  <2>5. Emits(t, w, G \cup {"probing"})
    BY <1>11, <2>4, EmitsTrans
  <2>6. Emits(t, w, G)
    BY <2>5, EmitsMore
  <2>7. RequestInv(w)
    <3>1. G \cap RequestFields = {}
      BY DEF RequestFields
    <3> QED BY <2>6, <3>1, RequestsKept
  <2>8. ReplyInv(w)
    <3>1. w.responses = t.responses /\ w.format = t.format /\ w.asked = t.asked
      BY <2>6, EmitsSame DEF ClipFields
    <3> QED BY <3>1, RepliesKept
  <2>9. w.target = "none" /\ w.owner = v.owner /\ w.current = v.current
    BY <1>11, <2>2 DEF ClipFields
  <2>10. AnnounceInv(w)
    BY <1>11, <2>9 DEF AnnounceInv, WeOwnAll, PrimaryOwner
  <2>11. Emits(t, w, ProbeFields)
    BY <2>6, EmitsMore DEF ProbeFields
  <2> QED BY <2>2, <2>3, <2>7, <2>8, <2>9, <2>10, <2>11, ClipIdle DEF w
<1>12. CASE WeOwnAll(t)
  <2>1. u = done
    BY <1>2, <1>12
  <2>2. WeOwnAll(fresh)
    BY <1>9, <1>12 DEF WeOwnAll, PrimaryOwner
  <2>3. Emits(t, fresh, {"probing", "reprobe", "prop", "target", "announced", "current"})
    BY <1>8, EmitsMore
  <2> QED BY <1>6, <1>7, <1>11, <2>1, <2>2, <2>3 DEF u
<1>13. CASE ~WeOwnAll(t) /\ NoOwner(t)
  <2> DEFINE v == SendSimpleFormatAnnounce(fresh)
  <2>1. u = [v EXCEPT !.probing = FALSE]
    BY <1>2, <1>13
  <2>2. Emits(fresh, v, {"announced", "current"}) /\ v.current = TRUE /\ ClipData(v)
    BY <1>6, AnnounceEmits DEF Emits, SendSimpleFormatAnnounce
  <2> HIDE DEF v
  <2>3. v.probing = TRUE /\ v.target = "none"
    BY <1>6, <1>7, <2>2, EmitsSame DEF ClipFields
  <2>4. Emits(t, v, F \cup {"announced", "current"})
    BY <1>8, <2>2, EmitsTrans
  <2>5. Emits(t, v, {"probing", "reprobe", "prop", "target", "announced", "current"})
    BY <2>4, EmitsMore
  <2> QED BY <1>11, <2>1, <2>2, <2>3, <2>5 DEF u
<1>14. CASE ~WeOwnAll(t) /\ ~NoOwner(t)
  <2>1. u = AskTargets(fresh)
    BY <1>2, <1>14
  <2>2. Emits(fresh, u, {"got", "events", "conv"})
        /\ (StampsPending(u) \/ ListPending(u)) /\ ClipData(u)
    BY <1>6, <2>1, AskEmits DEF Emits
  <2>3. /\ u.probing = TRUE /\ u.target = "none" /\ u.responses = fresh.responses
        /\ u.format = fresh.format /\ u.asked = fresh.asked
    BY <1>6, <1>7, <2>2, EmitsSame DEF ClipFields
  <2>4. ReplyInv(u)
    BY <1>10, <2>3, RepliesKept
  <2>5. RequestInv(u)
    <3>1. {"got", "events", "conv"} \cap RequestFields = {}
      BY DEF RequestFields
    <3> QED BY <1>6, <1>9, <2>2, <3>1, RequestsKept
  <2>6. ClipInv(u)
    BY <2>2, <2>3, <2>4, <2>5 DEF ClipInv, IncrInv, ProbeInv, AnnounceInv
  <2>7. Emits(t, u, F \cup {"got", "events", "conv"})
    BY <1>8, <2>2, EmitsTrans
  <2>8. Emits(t, u, ProbeFields)
    BY <2>7, EmitsMore DEF ProbeFields
  <2> QED BY <2>6, <2>8 DEF u
<1> QED BY <1>12, <1>13, <1>14

(* xclip_probe_selections, also while a probe is under way.                  *)
LEMMA ProbeKeeps ==
    ASSUME NEW t, ClipData(t), IncrInv(t), ProbeInv(t), ReplyInv(t), RequestInv(t)
    PROVE  ClipInv(ProbeSelections(t))
<1>1. CASE t.probing = FALSE
  BY <1>1, NewProbe
<1>2. CASE t.probing = TRUE
  <2> DEFINE u == [t EXCEPT !.reprobe = TRUE]
  <2>1. ProbeSelections(t) = u
    BY <1>2 DEF ProbeSelections
  <2>2. DOMAIN t = ClipFields
    BY DEF ClipData
  <2>3. DOMAIN u = ClipFields /\ u.reprobe = TRUE
        /\ \A f \in ClipFields \ {"reprobe"} : u[f] = t[f]
    BY <2>2 DEF ClipFields
  <2> HIDE DEF u
  <2>4. ClipData(u)
    <3>1. u.reprobe \in BOOLEAN
      BY <2>3
    <3> QED BY <2>3, <3>1 DEF ClipData, ClipFields
  <2>5. Emits(t, u, {"reprobe"})
    BY <2>2, <2>3, <2>4, QuietEmits DEF Changes
  <2>6. /\ u.target = t.target /\ u.got = t.got /\ u.probing = t.probing
        /\ u.responses = t.responses /\ u.format = t.format /\ u.asked = t.asked
    BY <2>3 DEF ClipFields
  <2>7. IncrInv(u) /\ ProbeInv(u)
    BY <2>5, <2>6, IncrKept, ProbeKept DEF NoNewIncr
  <2>8. ReplyInv(u)
    BY <2>6, RepliesKept
  <2>9. RequestInv(u)
    <3>1. {"reprobe"} \cap RequestFields = {}
      BY DEF RequestFields
    <3> QED BY <2>5, <3>1, RequestsKept
  <2>10. AnnounceInv(u)
    BY <1>2, <2>6 DEF AnnounceInv
  <2> QED BY <2>1, <2>4, <2>7, <2>8, <2>9, <2>10 DEF ClipInv
<1>3. t.probing \in BOOLEAN
  BY DEF ClipData
<1> QED BY <1>1, <1>2, <1>3

(* A reply to the server.                                                    *)
LEMMA ResponseKeeps ==
    ASSUME NEW t, ClipInv(t)
    PROVE  ClipInv(SendResponse(t))
<1> DEFINE F == {"responses", "format", "announced", "current"}
<1>1. ClipData(t) /\ ReplyInv(t)
  BY DEF ClipInv
<1>2. /\ Emits(t, SendResponse(t), F) /\ ReplyInv(SendResponse(t))
      /\ SendResponse(t).current = TRUE \/ SendResponse(t).current = t.current
  BY <1>1, ResponseEmits
<1>3. /\ SendResponse(t).target = t.target /\ SendResponse(t).got = t.got
      /\ SendResponse(t).probing = t.probing /\ SendResponse(t).owner = t.owner
  BY <1>1, <1>2, EmitsSame DEF ClipFields
<1>4. F \cap RequestFields = {}
  BY DEF RequestFields
<1> QED BY <1>2, <1>3, <1>4, ClipKept DEF NoNewIncr

(* The window's properties are cleared, apart from a probe.                  *)
LEMMA ClearIdle ==
    ASSUME NEW t, ClipData(t), t.probing = FALSE, ReplyInv(t), RequestInv(t), AnnounceInv(t)
    PROVE  ClipInv(ClearTargetProps(t))
<1> DEFINE u == ClearTargetProps(t)
<1>1. Emits(t, u, {"prop", "target"}) /\ u.target = "none" /\ ClipData(u)
  BY ClearEmits DEF Emits
<1> HIDE DEF u
<1>2. /\ u.probing = t.probing /\ u.owner = t.owner /\ u.current = t.current
      /\ u.responses = t.responses /\ u.format = t.format /\ u.asked = t.asked
  BY <1>1, EmitsSame DEF ClipFields
<1>3. RequestInv(u)
  <2>1. {"prop", "target"} \cap RequestFields = {}
    BY DEF RequestFields
  <2> QED BY <1>1, <2>1, RequestsKept
<1>4. AnnounceInv(u) /\ ReplyInv(u)
  BY <1>1, <1>2, AnnounceKept, RepliesKept
<1> QED BY <1>1, <1>2, <1>3, <1>4, ClipIdle DEF u

(* xclip_handle_SelectionNotify's failure: a probe ends with an announcement *)
(* of text, a paste with an empty reply.                                     *)
LEMMA FailedKeeps ==
    ASSUME NEW t, ClipData(t), ReplyInv(t), RequestInv(t), t.probing = FALSE => AnnounceInv(t)
    PROVE  ClipInv(SelectionFailed(t))
<1> DEFINE clear == ClearTargetProps(t)
<1>1. CASE t.probing = FALSE
  <2>1. SelectionFailed(t) = SendResponse(clear)
    BY <1>1 DEF SelectionFailed, SendEmptyResponse
  <2>2. ClipInv(clear)
    BY <1>1, ClearIdle
  <2> QED BY <2>1, <2>2, ResponseKeeps
<1>2. CASE t.probing = TRUE
  <2> DEFINE v == [clear EXCEPT !.probing = FALSE, !.fellow = FALSE]
             u == SendSimpleFormatAnnounce(v)
  <2>1. SelectionFailed(t) = u
    BY <1>2 DEF SelectionFailed
  <2>2. Emits(t, clear, {"prop", "target"}) /\ clear.target = "none" /\ ClipData(clear)
    BY ClearEmits DEF Emits
  <2> HIDE DEF clear
  <2>3. DOMAIN clear = ClipFields
    BY <2>2 DEF ClipData
  <2>4. DOMAIN v = ClipFields /\ v.probing = FALSE /\ v.fellow = FALSE
        /\ \A f \in ClipFields \ {"probing", "fellow"} : v[f] = clear[f]
    BY <2>3 DEF ClipFields
  <2> HIDE DEF v
  <2>5. ClipData(v)
    <3>1. v.probing \in BOOLEAN
      BY <2>4
    <3>2. v.fellow \in BOOLEAN
      BY <2>4
    <3>3. \A f \in {"probing", "fellow"} : v[f] \in ClipSets[f]
      BY <3>1, <3>2, ClipSetsAre
    <3>4. Retyped(clear, v, {"probing", "fellow"})
      BY <2>2, <2>4, <3>3, Zenon DEF Retyped
    <3> QED BY <2>2, <2>4, <3>4, FieldsTyped
  <2>6. Emits(clear, v, {"probing", "fellow"})
    BY <2>2, <2>3, <2>4, <2>5, QuietEmits DEF Changes
  <2>7. Emits(v, u, {"announced", "current"}) /\ u.current = TRUE /\ ClipData(u)
    BY <2>5, AnnounceEmits DEF Emits, SendSimpleFormatAnnounce
  <2> HIDE DEF u
  <2>8. Emits(t, v, {"prop", "target"} \cup {"probing", "fellow"})
    BY <2>2, <2>6, EmitsTrans
  <2>9. Emits(t, u, ({"prop", "target"} \cup {"probing", "fellow"}) \cup {"announced", "current"})
    BY <2>7, <2>8, EmitsTrans
  <2> DEFINE F == {"prop", "target", "probing", "fellow", "announced", "current"}
  <2>10. Emits(t, u, F)
    BY <2>9, EmitsMore
  <2>11. u.probing = FALSE /\ u.target = "none"
    BY <2>2, <2>4, <2>5, <2>7, EmitsSame DEF ClipFields
  <2>12. u.responses = t.responses /\ u.format = t.format /\ u.asked = t.asked
    BY <2>10, EmitsSame DEF ClipFields
  <2>13. RequestInv(u)
    <3>1. F \cap RequestFields = {}
      BY DEF RequestFields
    <3> QED BY <2>10, <3>1, RequestsKept
  <2>14. AnnounceInv(u) /\ ReplyInv(u)
    BY <2>7, <2>12, RepliesKept DEF AnnounceInv
  <2> QED BY <2>1, <2>7, <2>11, <2>13, <2>14, ClipIdle
<1>3. t.probing \in BOOLEAN
  BY DEF ClipData
<1> QED BY <1>1, <1>2, <1>3

-----------------------------------------------------------------------------
(* The queue of events *)

(* What the rest of the queue keeps of the invariant.                        *)
LEMMA PoppedKeeps ==
    ASSUME NEW c, NEW t, NEW e, Popped(c, t, e), ClipInv(c)
    PROVE  /\ e \in ClipEvents
           /\ \A f \in ClipFields \ {"events"} : t[f] = c[f]
           /\ ReplyInv(t)
           /\ e.type # "request" \/ e.id = Self => RequestInv(t)
           /\ e.type # "notify" \/ e.kind # "text" => IncrInv(t)
           /\ e.type # "change" \/ (e.sel # "clipboard" /\ ~ClipAutoMode) => AnnounceInv(t)
           /\ \A s, k : Pending(c, s, k) => Pending(t, s, k) \/ Item(e, s, k)
           /\ StaleAnswer(c) /\ (e.type # "notify" \/ e.kind = "timestamp") => StaleAnswer(t)
<1>1. /\ c.events \in Seq(ClipEvents) /\ t.events \in Seq(ClipEvents)
      /\ t.conv = c.conv /\ DOMAIN c = ClipFields
      /\ Len(c.events) = Len(t.events) + 1 /\ e = c.events[1]
      /\ \A i \in 1 .. Len(t.events) : t.events[i] = c.events[i + 1]
  BY DEF Popped, ClipData, Changes, ClipFields
<1>2. Len(t.events) \in Nat /\ Len(c.events) \in Nat
  BY <1>1
<1>3. e \in ClipEvents
  <2>1. 1 \in 1 .. Len(c.events)
    BY <1>1, <1>2
  <2> QED BY <1>1, <2>1, ElementOfSeq
<1>4. \A f \in ClipFields \ {"events"} : t[f] = c[f]
  BY <1>1 DEF Popped, Changes
<1>5. ReplyInv(t)
  BY <1>4 DEF ReplyInv, ClipInv, ClipFields
<1>6. \A i \in 1 .. Len(c.events) : i # 1 =>
          i - 1 \in 1 .. Len(t.events) /\ t.events[i - 1] = c.events[i]
  <2> SUFFICES ASSUME NEW i \in 1 .. Len(c.events), i # 1
               PROVE  i - 1 \in 1 .. Len(t.events) /\ t.events[i - 1] = c.events[i]
    OBVIOUS
  <2>1. i - 1 \in 1 .. Len(t.events) /\ (i - 1) + 1 = i
    BY <1>1, <1>2
  <2>2. t.events[i - 1] = c.events[(i - 1) + 1]
    BY <1>1, <2>1
  <2> QED BY <2>1, <2>2
<1>7. ASSUME e.type # "notify" \/ e.kind # "text" PROVE IncrInv(t)
  <2> SUFFICES ASSUME t.target = "INCR" PROVE \E i \in 1 .. Len(t.events) : TextNotifyAt(t, i)
    BY DEF IncrInv
  <2>1. PICK i \in 1 .. Len(c.events) : TextNotifyAt(c, i)
    BY <1>4 DEF ClipInv, IncrInv, ClipFields
  <2>2. i # 1
    BY <1>1, <1>7, <2>1 DEF TextNotifyAt
  <2> QED BY <1>6, <2>1, <2>2 DEF TextNotifyAt
<1>8. ASSUME e.type # "change" \/ (e.sel # "clipboard" /\ ~ClipAutoMode)
      PROVE  AnnounceInv(t)
  <2> SUFFICES ASSUME t.current = FALSE, ~WeOwnAll(t), t.probing # TRUE
               PROVE  \E i \in 1 .. Len(t.events) : ChangeAt(t, i)
    BY DEF AnnounceInv
  <2>1. ~WeOwnAll(c) /\ c.current = FALSE /\ c.probing # TRUE
    BY <1>4 DEF WeOwnAll, PrimaryOwner, ClipFields
  <2>2. PICK i \in 1 .. Len(c.events) : ChangeAt(c, i)
    BY <2>1 DEF ClipInv, AnnounceInv
  <2>3. i # 1
    BY <1>1, <1>8, <2>2 DEF ChangeAt
  <2> QED BY <1>6, <2>2, <2>3 DEF ChangeAt
<1>9. ASSUME NEW s, NEW k, Pending(c, s, k) PROVE Pending(t, s, k) \/ Item(e, s, k)
  <2>1. CASE \E i \in 1 .. Len(c.events) : Item(c.events[i], s, k)
    <3>1. PICK i \in 1 .. Len(c.events) : Item(c.events[i], s, k)
      BY <2>1
    <3>2. i = 1 => Item(e, s, k)
      BY <1>1, <3>1
    <3>3. i # 1 => Pending(t, s, k)
      BY <1>6, <3>1 DEF Pending
    <3> QED BY <3>2, <3>3
  <2>2. CASE \E i \in 1 .. Len(c.conv) : c.conv[i].sel = s /\ c.conv[i].kind = k
    BY <1>1, <2>2 DEF Pending
  <2> QED BY <1>9, <2>1, <2>2 DEF Pending
<1>10. ASSUME StaleAnswer(c), e.type # "notify" \/ e.kind = "timestamp" PROVE StaleAnswer(t)
  <2>1. PICK i \in 1 .. Len(c.events) :
            /\ NotifyAt(c, i)
            /\ c.target = "INCR" => \E j \in i + 1 .. Len(c.events) : TextNotifyAt(c, j)
    BY <1>10 DEF StaleAnswer
  <2>2. i # 1
    BY <1>1, <1>10, <2>1 DEF NotifyAt
  <2>3. i - 1 \in 1 .. Len(t.events) /\ NotifyAt(t, i - 1)
    BY <1>6, <2>1, <2>2 DEF NotifyAt
  <2>4. t.target = "INCR" => \E j \in i .. Len(t.events) : TextNotifyAt(t, j)
    <3> SUFFICES ASSUME t.target = "INCR" PROVE \E j \in i .. Len(t.events) : TextNotifyAt(t, j)
      OBVIOUS
    <3>1. PICK j \in i + 1 .. Len(c.events) : TextNotifyAt(c, j)
      BY <1>4, <2>1 DEF ClipFields
    <3>2. j \in 1 .. Len(c.events) /\ j # 1 /\ j - 1 \in i .. Len(t.events)
      BY <1>1, <1>2
    <3>3. t.events[j - 1] = c.events[j]
      BY <1>6, <3>2
    <3> QED BY <3>1, <3>2, <3>3 DEF TextNotifyAt
  <2>5. t.target = "INCR" => \E j \in (i - 1) + 1 .. Len(t.events) : TextNotifyAt(t, j)
    BY <2>4
  <2> QED BY <2>3, <2>5 DEF StaleAnswer
<1>11. ASSUME e.type # "request" \/ e.id = Self PROVE RequestInv(t)
  <2>1. /\ t.owes = c.owes /\ t.hasRequest = c.hasRequest /\ t.request = c.request
        /\ t.answers = c.answers /\ t.issued = c.issued /\ t.inputs = c.inputs
    BY <1>4 DEF ClipFields
  <2>2. ASSUME NEW id \in XIds, NEW i \in 1 .. Len(t.events), AskedAt(t, i, id)
        PROVE  i + 1 \in 1 .. Len(c.events) /\ AskedAt(c, i + 1, id)
    <3>1. i + 1 \in 1 .. Len(c.events) /\ t.events[i] = c.events[i + 1]
      BY <1>1, <1>2
    <3> QED BY <2>2, <3>1, Zenon DEF AskedAt
  <2>3. ASSUME NEW id \in XIds, NEW i \in 1 .. Len(c.events), AskedAt(c, i, id)
        PROVE  i - 1 \in 1 .. Len(t.events) /\ AskedAt(t, i - 1, id)
    <3>1. id # Self
      BY ClipConstants DEF XIds, Self
    <3>2. i # 1
      BY <1>1, <1>11, <2>3, <3>1 DEF AskedAt
    <3> QED BY <1>6, <2>3, <3>2 DEF AskedAt
  <2>4. \A id : Awaits(t, id) <=> Awaits(c, id)
    BY <2>1 DEF Awaits
  <2>5. RequestInv(c)
    BY DEF ClipInv
  <2>6. ASSUME NEW id \in XIds, NEW i \in 1 .. Len(t.events), AskedAt(t, i, id)
        PROVE  /\ id <= t.issued /\ t.answers[id] = 0 /\ ~Awaits(t, id)
               /\ \A j \in 1 .. Len(t.events) : AskedAt(t, j, id) => j = i
    <3>1. i + 1 \in 1 .. Len(c.events) /\ AskedAt(c, i + 1, id)
      BY <2>2, <2>6
    <3>2. /\ id <= c.issued /\ c.answers[id] = 0 /\ ~Awaits(c, id)
          /\ \A j \in 1 .. Len(c.events) : AskedAt(c, j, id) => j = i + 1
      BY <2>5, <3>1 DEF RequestInv
    <3>3. ASSUME NEW j \in 1 .. Len(t.events), AskedAt(t, j, id) PROVE j = i
      <4>1. j + 1 \in 1 .. Len(c.events) /\ AskedAt(c, j + 1, id)
        BY <2>2, <3>3
      <4>2. j + 1 = i + 1
        BY <3>2, <4>1
      <4> QED BY <1>2, <4>2
    <3> QED BY <2>1, <2>4, <3>2, <3>3
  <2>7. ASSUME NEW id \in XIds
        PROVE  IF id <= t.issued
               THEN \/ t.answers[id] = 1
                    \/ t.answers[id] = 0 /\ (\/ Awaits(t, id)
                                             \/ \E i \in 1 .. Len(t.events) : AskedAt(t, i, id))
               ELSE t.answers[id] = 0
    <3>1. IF id <= c.issued
          THEN \/ c.answers[id] = 1
               \/ c.answers[id] = 0 /\ (\/ Awaits(c, id)
                                        \/ \E i \in 1 .. Len(c.events) : AskedAt(c, i, id))
          ELSE c.answers[id] = 0
      BY <2>5 DEF RequestInv
    <3>2. (\E i \in 1 .. Len(c.events) : AskedAt(c, i, id))
              => \E i \in 1 .. Len(t.events) : AskedAt(t, i, id)
      BY <2>3
    <3> QED BY <2>1, <2>4, <3>1, <3>2
  <2>8. \A id \in XIds : Awaits(t, id) => id <= t.issued /\ t.answers[id] = 0
    BY <2>1, <2>4, <2>5 DEF RequestInv
  <2>9. /\ t.issued <= t.inputs /\ t.inputs <= MaxClipInputs
        /\ t.owes = TRUE => t.hasRequest = TRUE
    BY <2>1, <2>5 DEF RequestInv
  <2> QED BY <2>6, <2>7, <2>8, <2>9 DEF RequestInv
<1> QED BY <1>3, <1>4, <1>5, <1>7, <1>8, <1>9, <1>10, <1>11

(* A notification, as read.                                                  *)
LEMMA NotifyRead ==
    ASSUME NEW c, NEW t, NEW e, Popped(c, t, e), ClipInv(c), e.type = "notify"
    PROVE  /\ ClipData(t) /\ ReplyInv(t) /\ RequestInv(t) /\ AnnounceInv(t)
           /\ e.sel \in Sels /\ e.kind \in Kinds /\ e.ok \in BOOLEAN
           /\ \A s, k : Pending(c, s, k) => Pending(t, s, k) \/ (e.sel = s /\ e.kind = k)
           /\ t.probing = c.probing /\ t.got = c.got /\ t.target = c.target
<1>1. e \in ClipEvents
  BY PoppedKeeps
<1>2. e.sel \in Sels /\ e.kind \in Kinds /\ e.ok \in BOOLEAN
  BY <1>1 DEF ClipEvents
<1>3. \A s, k : Item(e, s, k) => e.sel = s /\ e.kind = k
  BY DEF Item
<1>4. ReplyInv(t) /\ RequestInv(t) /\ AnnounceInv(t)
  BY PoppedKeeps
<1>5. \A s, k : Pending(c, s, k) => Pending(t, s, k) \/ Item(e, s, k)
  BY PoppedKeeps
<1>6. t.probing = c.probing /\ t.got = c.got /\ t.target = c.target
  BY PoppedKeeps DEF ClipFields
<1> QED BY <1>2, <1>3, <1>4, <1>5, <1>6 DEF Popped

(* A timestamp: the other one is awaited, or the newer selection is asked    *)
(* for its targets.                                                          *)
LEMMA TimestampStep ==
    ASSUME NEW c, NEW t, NEW e, Popped(c, t, e), ClipInv(c), e.type = "notify",
           e.kind = "timestamp"
    PROVE  ClipInv(GotTimestamp(t, e))
<1> DEFINE u == [t EXCEPT !.got[e.sel] = t.prop[e.sel], !.prop[e.sel] = 0]
           newer == IF u.got["primary"] > u.got["clipboard"] THEN "primary" ELSE "clipboard"
<1>0. /\ ClipData(t) /\ ReplyInv(t) /\ RequestInv(t) /\ AnnounceInv(t)
      /\ e.sel \in Sels /\ e.kind \in Kinds /\ e.ok \in BOOLEAN
      /\ \A s, k : Pending(c, s, k) => Pending(t, s, k) \/ (e.sel = s /\ e.kind = k)
      /\ t.probing = c.probing /\ t.got = c.got /\ t.target = c.target
  BY NotifyRead
<1>1. GotTimestamp(t, e) = IF t.prop[e.sel] = 0 THEN SelectionFailed(t)
                           ELSE IF \A s \in Sels : u.got[s] > 0 THEN Convert(u, newer, "targets")
                           ELSE u
  BY DEF GotTimestamp
<1>2. newer \in Sels
  BY DEF Sels
<1>3. DOMAIN t = ClipFields /\ t.got \in [Sels -> Nat] /\ t.prop \in [Sels -> Nat]
  BY <1>0 DEF ClipData
<1>4. /\ DOMAIN u = ClipFields /\ u.got = [t.got EXCEPT ![e.sel] = t.prop[e.sel]]
      /\ u.prop = [t.prop EXCEPT ![e.sel] = 0]
      /\ \A f \in ClipFields \ {"got", "prop"} : u[f] = t[f]
  BY <1>3 DEF ClipFields
<1> HIDE DEF u, newer
<1>5. u.got \in [Sels -> Nat] /\ u.prop \in [Sels -> Nat]
      /\ u.got[e.sel] = t.prop[e.sel] /\ \A s \in Sels : s # e.sel => u.got[s] = t.got[s]
  BY <1>0, <1>3, <1>4
<1>6. ClipData(u)
  <2>1. /\ DOMAIN u = ClipFields /\ u.got \in [Sels -> Nat] /\ u.prop \in [Sels -> Nat]
        /\ \A f \in ClipFields \ {"got", "prop"} : u[f] = t[f]
    BY <1>4, <1>5
  <2>2. ClipData(t)
    BY <1>0
  <2>3. \A f \in {"got", "prop"} : u[f] \in ClipSets[f]
    BY <2>1, ClipSetsAre
  <2>4. Retyped(t, u, {"got", "prop"})
    BY <2>1, <2>2, <2>3, Zenon DEF Retyped
  <2> QED BY <2>1, <2>2, <2>4, FieldsTyped
<1>7. Emits(t, u, {"got", "prop"})
  BY <1>0, <1>3, <1>4, <1>6, QuietEmits DEF Changes
<1>8. /\ u.target = t.target /\ u.probing = t.probing /\ u.owner = t.owner
      /\ u.current = t.current /\ u.responses = t.responses /\ u.format = t.format
      /\ u.asked = t.asked
  BY <1>4 DEF ClipFields
<1>9. IncrInv(u)
  BY <1>0, <1>7, <1>8, IncrKept, PoppedKeeps DEF NoNewIncr
<1>10. AnnounceInv(u) /\ ReplyInv(u)
  BY <1>0, <1>7, <1>8, AnnounceKept, RepliesKept
<1>11. RequestInv(u)
  <2>1. {"got", "prop"} \cap RequestFields = {}
    BY DEF RequestFields
  <2> QED BY <1>0, <1>7, <2>1, RequestsKept
<1>12. CASE t.prop[e.sel] = 0
  BY <1>0, <1>1, <1>12, FailedKeeps
<1>13. CASE t.prop[e.sel] # 0 /\ \A s \in Sels : u.got[s] > 0
  <2> DEFINE v == Convert(u, newer, "targets")
  <2>1. GotTimestamp(t, e) = v
    BY <1>1, <1>13
  <2>2. Emits(u, v, {"events", "conv"}) /\ Pending(v, newer, "targets")
    BY <1>2, <1>6, ConvertEmits DEF Kinds
  <2> HIDE DEF v
  <2>3. ProbeInv(v)
    BY <1>2, <2>2 DEF ProbeInv, ListPending
  <2>4. /\ v.target = u.target /\ v.probing = u.probing /\ v.owner = u.owner
        /\ v.current = u.current /\ v.responses = u.responses /\ v.format = u.format
        /\ v.asked = u.asked
    BY <1>6, <2>2, EmitsSame DEF ClipFields
  <2>5. IncrInv(v) /\ AnnounceInv(v) /\ ReplyInv(v)
    BY <1>6, <1>9, <1>10, <2>2, <2>4, IncrKept, AnnounceKept, RepliesKept DEF NoNewIncr
  <2>6. RequestInv(v)
    <3>1. {"events", "conv"} \cap RequestFields = {}
      BY DEF RequestFields
    <3> QED BY <1>6, <1>11, <2>2, <3>1, RequestsKept
  <2> QED BY <2>1, <2>2, <2>3, <2>5, <2>6 DEF ClipInv, Emits
<1>14. CASE t.prop[e.sel] # 0 /\ ~(\A s \in Sels : u.got[s] > 0)
  <2>1. GotTimestamp(t, e) = u
    BY <1>1, <1>14
  <2>2. PICK z \in Sels : ~(u.got[z] > 0)
    BY <1>14
  <2>3. u.got[e.sel] > 0 /\ z # e.sel
    BY <1>0, <1>3, <1>5, <1>14, <2>2
  <2>4. ~(c.got[z] > 0)
    BY <1>0, <1>5, <2>2, <2>3
  <2>5. \A s, k : Pending(t, s, k) => Pending(u, s, k)
    BY <1>0, <1>7, EmitsKeeps
  <2>6. ProbeInv(u)
    <3> SUFFICES ASSUME c.probing = TRUE
                 PROVE  StampsPending(u) \/ ListPending(u) \/ StaleAnswer(u)
      BY <1>0, <1>8 DEF ProbeInv
    <3>1. CASE StampsPending(c)
      <4>1. Pending(c, z, "timestamp")
        BY <2>2, <2>4, <3>1 DEF StampsPending
      <4>2. Pending(u, z, "timestamp")
        BY <1>0, <2>3, <2>5, <4>1
      <4>3. \A o \in Sels : o = z \/ o = e.sel
        BY <1>0, <2>2, <2>3 DEF Sels
      <4>4. StampsPending(u)
        BY <2>2, <2>3, <4>2, <4>3 DEF StampsPending
      <4> QED BY <4>4
    <3>2. CASE ListPending(c)
      <4>1. PICK s \in Sels : Pending(c, s, "targets") \/ Pending(c, s, "formats")
        BY <3>2 DEF ListPending
      <4>2. Pending(u, s, "targets") \/ Pending(u, s, "formats")
        BY <1>0, <2>5, <4>1
      <4> QED BY <4>2 DEF ListPending
    <3>3. CASE StaleAnswer(c)
      <4>1. StaleAnswer(t)
        BY <3>3, PoppedKeeps
      <4> QED BY <1>0, <1>7, <1>8, <4>1, StaleKept DEF NoNewIncr
    <3>4. StampsPending(c) \/ ListPending(c) \/ StaleAnswer(c)
      BY DEF ClipInv, ProbeInv
    <3> QED BY <3>1, <3>2, <3>3, <3>4
  <2> QED BY <1>6, <1>9, <1>10, <1>11, <2>1, <2>6 DEF ClipInv
<1> QED BY <1>12, <1>13, <1>14

(* The start of an INCR transfer: if the probe's own answer was mistaken for *)
(* it, the answer that announced the transfer will be taken for the probe's. *)
LEMMA IncrStep ==
    ASSUME NEW c, NEW t, NEW e, Popped(c, t, e), ClipInv(c), e.type = "notify",
           e.kind # "timestamp", t.target = "INCR"
    PROVE  ClipInv(GotIncr(ClearTargetProps(t)))
<1> DEFINE clear == ClearTargetProps(t)
           u == GotIncr(clear)
           F == {"prop", "target", "incr"}
<1>0. /\ ClipData(t) /\ ReplyInv(t) /\ RequestInv(t) /\ AnnounceInv(t)
      /\ e.sel \in Sels /\ e.kind \in Kinds /\ e.ok \in BOOLEAN
      /\ \A s, k : Pending(c, s, k) => Pending(t, s, k) \/ (e.sel = s /\ e.kind = k)
      /\ t.probing = c.probing /\ t.got = c.got /\ t.target = c.target
  BY NotifyRead
<1>1. Emits(t, clear, {"prop", "target"}) /\ clear.target = "none" /\ ClipData(clear)
  BY <1>0, ClearEmits DEF Emits
<1> HIDE DEF clear
<1>2. DOMAIN clear = ClipFields
  BY <1>1 DEF ClipData
<1>3. DOMAIN u = ClipFields /\ u.incr = TRUE
      /\ \A f \in ClipFields \ {"incr"} : u[f] = clear[f]
  BY <1>2 DEF GotIncr, ClipFields
<1> HIDE DEF u
<1>4. ClipData(u)
  <2>1. u.incr \in BOOLEAN
    BY <1>3
  <2>2. \A f \in {"incr"} : u[f] \in ClipSets[f]
    BY <2>1, ClipSetsAre
  <2>3. Retyped(clear, u, {"incr"})
    BY <1>1, <1>3, <2>2, Zenon DEF Retyped
  <2> QED BY <1>1, <1>3, <2>3, FieldsTyped
<1>5. Emits(clear, u, {"incr"})
  BY <1>1, <1>2, <1>3, <1>4, QuietEmits DEF Changes
<1>6. Emits(t, u, F)
  <2>1. Emits(t, u, {"prop", "target"} \cup {"incr"})
    BY <1>0, <1>1, <1>5, EmitsTrans
  <2> QED BY <2>1, EmitsMore
<1>7. /\ u.probing = t.probing /\ u.owner = t.owner /\ u.got = t.got
      /\ u.current = t.current /\ u.responses = t.responses /\ u.format = t.format
      /\ u.asked = t.asked
  BY <1>0, <1>6, EmitsSame DEF ClipFields
<1>8. u.target = "none"
  BY <1>1, <1>3 DEF ClipFields
<1>9. AnnounceInv(u) /\ ReplyInv(u) /\ IncrInv(u)
  BY <1>0, <1>6, <1>7, <1>8, AnnounceKept, RepliesKept DEF IncrInv
<1>10. RequestInv(u)
  <2>1. F \cap RequestFields = {}
    BY DEF RequestFields
  <2> QED BY <1>0, <1>6, <2>1, RequestsKept
<1>11. \A s, k : Pending(t, s, k) => Pending(u, s, k)
  BY <1>0, <1>6, EmitsKeeps
<1>12. ASSUME NEW i \in 1 .. Len(c.events), i # 1, NotifyAt(c, i) PROVE StaleAnswer(u)
  <2>1. /\ c.events \in Seq(ClipEvents) /\ t.events \in Seq(ClipEvents)
        /\ Len(c.events) = Len(t.events) + 1
        /\ \A j \in 1 .. Len(t.events) : t.events[j] = c.events[j + 1]
    BY DEF Popped, ClipData
  <2>2. i - 1 \in 1 .. Len(t.events) /\ (i - 1) + 1 = i
    BY <1>12, <2>1
  <2>3. NotifyAt(t, i - 1)
    BY <1>12, <2>1, <2>2 DEF NotifyAt
  <2>4. i - 1 \in 1 .. Len(u.events) /\ u.events[i - 1] = t.events[i - 1]
    BY <1>0, <1>6, <2>2, EmitsKeeps
  <2>5. NotifyAt(u, i - 1)
    BY <2>3, <2>4 DEF NotifyAt
  <2> QED BY <1>8, <2>4, <2>5 DEF StaleAnswer
<1>13. \A i \in 1 .. Len(c.events) : TextNotifyAt(c, i) => NotifyAt(c, i)
  BY DEF TextNotifyAt, NotifyAt
<1>14. ProbeInv(u)
  <2> SUFFICES ASSUME c.probing = TRUE
               PROVE  StampsPending(u) \/ ListPending(u) \/ StaleAnswer(u)
    BY <1>0, <1>7 DEF ProbeInv
  <2>1. CASE StampsPending(c)
    <3>1. \A s \in Sels : Pending(c, s, "timestamp") => Pending(u, s, "timestamp")
      BY <1>0, <1>11
    <3> QED BY <1>0, <1>7, <2>1, <3>1, StampsKept
  <2>2. CASE ListPending(c)
    <3>1. PICK s \in Sels : Pending(c, s, "targets") \/ Pending(c, s, "formats")
      BY <2>2 DEF ListPending
    <3>2. CASE e.kind \in {"targets", "formats"}
      <4>1. PICK i \in 1 .. Len(c.events) : TextNotifyAt(c, i)
        BY <1>0 DEF ClipInv, IncrInv
      <4>2. i # 1
        BY <3>2, <4>1 DEF Popped, TextNotifyAt
      <4> QED BY <1>12, <1>13, <4>1, <4>2
    <3>3. CASE e.kind \notin {"targets", "formats"}
      <4>1. Pending(u, s, "targets") \/ Pending(u, s, "formats")
        BY <1>0, <1>11, <3>1, <3>3
      <4> QED BY <4>1 DEF ListPending
    <3> QED BY <3>2, <3>3
  <2>3. CASE StaleAnswer(c)
    <3>1. PICK i \in 1 .. Len(c.events) :
              c.target = "INCR" => \E j \in i + 1 .. Len(c.events) : TextNotifyAt(c, j)
      BY <2>3 DEF StaleAnswer
    <3>2. PICK j \in i + 1 .. Len(c.events) : TextNotifyAt(c, j)
      BY <1>0, <3>1
    <3>3. j \in 1 .. Len(c.events) /\ j # 1
      <4>1. c.events \in Seq(ClipEvents)
        BY DEF Popped, ClipData
      <4> QED BY <4>1
    <3> QED BY <1>12, <1>13, <3>2, <3>3
  <2>4. StampsPending(c) \/ ListPending(c) \/ StaleAnswer(c)
    BY DEF ClipInv, ProbeInv
  <2> QED BY <2>1, <2>2, <2>3, <2>4
<1> QED BY <1>4, <1>9, <1>10, <1>14 DEF ClipInv, u, clear

(* The list of targets.                                                      *)
LEMMA NegotiateStep ==
    ASSUME NEW t, ClipData(t), ReplyInv(t), RequestInv(t), AnnounceInv(t), t.target = "none",
           NEW sel \in Sels, NEW list
    PROVE  ClipInv(NegotiateTarget(t, sel, list))
<1> DEFINE best == BestTarget(t, list)
<1>1. NegotiateTarget(t, sel, list) =
          IF best = "formats" \/ (best = "text" /\ ~t.probing)
          THEN Convert(t, sel, best) ELSE SelectionFailed(t)
  BY DEF NegotiateTarget
<1>2. t.probing \in BOOLEAN
  BY DEF ClipData
<1>3. best = "formats" => t.probing = TRUE
  BY <1>2 DEF BestTarget
<1> HIDE DEF best
<1>4. CASE best = "formats" \/ (best = "text" /\ ~t.probing)
  <2> DEFINE u == Convert(t, sel, best)
  <2>1. best \in Kinds
    BY <1>4 DEF Kinds
  <2>2. Emits(t, u, {"events", "conv"}) /\ Pending(u, sel, best)
    BY <2>1, ConvertEmits
  <2> HIDE DEF u
  <2>3. /\ u.target = t.target /\ u.probing = t.probing /\ u.owner = t.owner
        /\ u.current = t.current /\ u.responses = t.responses /\ u.format = t.format
        /\ u.asked = t.asked
    BY <2>2, EmitsSame DEF ClipFields
  <2>4. ProbeInv(u)
    <3>1. u.probing = TRUE => best = "formats"
      BY <1>2, <1>4, <2>3
    <3>2. u.probing = TRUE => ListPending(u)
      BY <2>2, <3>1 DEF ListPending
    <3> QED BY <3>2 DEF ProbeInv
  <2>5. IncrInv(u) /\ AnnounceInv(u) /\ ReplyInv(u)
    BY <2>2, <2>3, AnnounceKept, RepliesKept DEF IncrInv
  <2>6. RequestInv(u)
    <3>1. {"events", "conv"} \cap RequestFields = {}
      BY DEF RequestFields
    <3> QED BY <2>2, <3>1, RequestsKept
  <2>7. NegotiateTarget(t, sel, list) = u
    BY <1>1, <1>4 DEF u
  <2> QED BY <2>2, <2>4, <2>5, <2>6, <2>7 DEF ClipInv, Emits
<1>5. CASE ~(best = "formats" \/ (best = "text" /\ ~t.probing))
  BY <1>1, <1>5, FailedKeeps
<1> QED BY <1>4, <1>5

(* The formats of another rdesktop, or whatever arrived instead.             *)
LEMMA FellowStep ==
    ASSUME NEW t, ClipData(t), ReplyInv(t), RequestInv(t), AnnounceInv(t), t.target = "none",
           NEW what
    PROVE  ClipInv(GotFellowFormats(t, what))
<1>1. CASE ClipAutoMode /\ t.owner["primary"] # t.owner["clipboard"]
  <2>1. GotFellowFormats(t, what) = SelectionFailed(t)
    BY <1>1 DEF GotFellowFormats
  <2> QED BY <2>1, FailedKeeps
<1>2. CASE ~(ClipAutoMode /\ t.owner["primary"] # t.owner["clipboard"])
  <2> DEFINE v == [t EXCEPT !.probing = FALSE, !.fellow = TRUE]
             formats == IF what = "formats" THEN what ELSE "other"
             u == SendFormatAnnounce(v, formats)
  <2>1. GotFellowFormats(t, what) = u
    BY <1>2 DEF GotFellowFormats
  <2>2. formats \in {"none", "text", "formats", "other"}
    OBVIOUS
  <2> HIDE DEF formats
  <2>3. DOMAIN t = ClipFields
    BY DEF ClipData
  <2>4. DOMAIN v = ClipFields /\ v.probing = FALSE /\ v.fellow = TRUE
        /\ \A f \in ClipFields \ {"probing", "fellow"} : v[f] = t[f]
    BY <2>3 DEF ClipFields
  <2> HIDE DEF v
  <2>5. ClipData(v)
    <3>1. v.probing \in BOOLEAN
      BY <2>4
    <3>2. v.fellow \in BOOLEAN
      BY <2>4
    <3> QED BY <2>4, <3>1, <3>2 DEF ClipData, ClipFields
  <2>6. Emits(t, v, {"probing", "fellow"})
    BY <2>3, <2>4, <2>5, QuietEmits DEF Changes
  <2>7. Emits(v, u, {"announced", "current"}) /\ u.current = TRUE /\ ClipData(u)
    BY <2>2, <2>5, AnnounceEmits DEF Emits
  <2> HIDE DEF u
  <2> DEFINE F == {"probing", "fellow", "announced", "current"}
  <2>8. Emits(t, u, F)
    <3>1. Emits(t, u, {"probing", "fellow"} \cup {"announced", "current"})
      BY <2>6, <2>7, EmitsTrans
    <3> QED BY <3>1, EmitsMore
  <2>9. u.probing = FALSE
    BY <2>4, <2>5, <2>7, EmitsSame DEF ClipFields
  <2>10. u.target = "none" /\ u.responses = t.responses /\ u.format = t.format
         /\ u.asked = t.asked
    BY <2>8, EmitsSame DEF ClipFields
  <2>11. AnnounceInv(u) /\ ReplyInv(u)
    BY <2>7, <2>10, RepliesKept DEF AnnounceInv
  <2>12. RequestInv(u)
    <3>1. F \cap RequestFields = {}
      BY DEF RequestFields
    <3> QED BY <2>8, <3>1, RequestsKept
  <2> QED BY <2>1, <2>7, <2>9, <2>10, <2>11, <2>12, ClipIdle
<1> QED BY <1>1, <1>2

(* The window's properties cleared, during a probe or without one.           *)
LEMMA ClearKeeps ==
    ASSUME NEW t, ClipData(t), ReplyInv(t), RequestInv(t), AnnounceInv(t)
    PROVE  LET u == ClearTargetProps(t)
           IN /\ ClipData(u) /\ ReplyInv(u) /\ RequestInv(u) /\ AnnounceInv(u)
              /\ u.target = "none" /\ u.probing = t.probing
<1> DEFINE u == ClearTargetProps(t)
<1>1. Emits(t, u, {"prop", "target"}) /\ u.target = "none" /\ ClipData(u)
  BY ClearEmits DEF Emits
<1> HIDE DEF u
<1>2. /\ u.probing = t.probing /\ u.owner = t.owner /\ u.current = t.current
      /\ u.responses = t.responses /\ u.format = t.format /\ u.asked = t.asked
  BY <1>1, EmitsSame DEF ClipFields
<1>3. RequestInv(u)
  <2>1. {"prop", "target"} \cap RequestFields = {}
    BY DEF RequestFields
  <2> QED BY <1>1, <2>1, RequestsKept
<1>4. AnnounceInv(u) /\ ReplyInv(u)
  BY <1>1, <1>2, AnnounceKept, RepliesKept
<1> QED BY <1>1, <1>2, <1>3, <1>4 DEF u

(* xclip_handle_SelectionNotify.                                             *)
LEMMA NotifyStep ==
    ASSUME NEW c, NEW t, NEW e, Popped(c, t, e), ClipInv(c), e.type = "notify"
    PROVE  ClipInv(HandleSelectionNotify(t, e))
<1> DEFINE clear == ClearTargetProps(t)
           u == HandleSelectionNotify(t, e)
<1>0. /\ ClipData(t) /\ ReplyInv(t) /\ RequestInv(t) /\ AnnounceInv(t)
      /\ e.sel \in Sels /\ e.kind \in Kinds /\ e.ok \in BOOLEAN /\ t.probing \in BOOLEAN
  BY NotifyRead DEF ClipData
<1>1. /\ ClipData(clear) /\ ReplyInv(clear) /\ RequestInv(clear) /\ AnnounceInv(clear)
      /\ clear.target = "none" /\ clear.probing = t.probing
  BY <1>0, ClearKeeps
<1>2. u = IF ~e.ok THEN SelectionFailed(t)
          ELSE IF e.kind = "timestamp" THEN GotTimestamp(t, e)
          ELSE IF t.probing /\ t.reprobe THEN ProbeSelections([t EXCEPT !.probing = FALSE])
          ELSE IF t.target = "INCR" THEN GotIncr(clear)
          ELSE IF e.kind = "targets" THEN NegotiateTarget(clear, e.sel, t.target)
          ELSE IF t.probing THEN GotFellowFormats(clear, t.target)
          ELSE IF t.target = "none" THEN SelectionFailed(clear)
          ELSE SendDataWithConvert(clear, e.kind)
  BY DEF HandleSelectionNotify
<1> HIDE DEF u
<1>3. ClipInv(SelectionFailed(t))
  BY <1>0, FailedKeeps
<1>4. e.kind = "timestamp" => ClipInv(GotTimestamp(t, e))
  BY TimestampStep
<1>5. ClipInv(ProbeSelections([t EXCEPT !.probing = FALSE]))
  <2> DEFINE v == [t EXCEPT !.probing = FALSE]
  <2>1. DOMAIN t = ClipFields
    BY <1>0 DEF ClipData
  <2>2. DOMAIN v = ClipFields /\ v.probing = FALSE
        /\ \A f \in ClipFields \ {"probing"} : v[f] = t[f]
    BY <2>1 DEF ClipFields
  <2> HIDE DEF v
  <2>3. ClipData(v)
    <3>1. v.probing \in BOOLEAN
      BY <2>2
    <3>2. \A f \in {"probing"} : v[f] \in ClipSets[f]
      BY <3>1, ClipSetsAre
    <3>3. Retyped(t, v, {"probing"})
      BY <1>0, <2>2, <3>2, Zenon DEF Retyped
    <3> QED BY <1>0, <2>2, <3>3, FieldsTyped
  <2>4. Emits(t, v, {"probing"})
    BY <1>0, <2>1, <2>2, <2>3, QuietEmits DEF Changes
  <2>5. ReplyInv(v) /\ RequestInv(v)
    <3>1. {"probing"} \cap RequestFields = {}
      BY DEF RequestFields
    <3>2. v.responses = t.responses /\ v.format = t.format /\ v.asked = t.asked
      BY <2>2 DEF ClipFields
    <3> QED BY <1>0, <2>4, <3>1, <3>2, RequestsKept, RepliesKept
  <2>6. ClipInv(ProbeSelections(v))
    BY <2>2, <2>3, <2>5, NewProbe
  <2> QED BY <2>6 DEF v
<1>6. e.kind # "timestamp" /\ t.target = "INCR" => ClipInv(GotIncr(clear))
  BY IncrStep
<1> HIDE DEF clear
<1>7. ClipInv(NegotiateTarget(clear, e.sel, t.target))
  BY <1>0, <1>1, NegotiateStep
<1>8. ClipInv(GotFellowFormats(clear, t.target))
  BY <1>1, FellowStep
<1>9. ClipInv(SelectionFailed(clear))
  BY <1>1, FailedKeeps
<1>10. ~t.probing => ClipInv(SendDataWithConvert(clear, e.kind))
  <2> SUFFICES ASSUME ~t.probing PROVE ClipInv(SendDataWithConvert(clear, e.kind))
    OBVIOUS
  <2>1. clear.probing = FALSE
    BY <1>0, <1>1
  <2>2. ClipInv(clear)
    BY <1>1, <2>1, ClipIdle
  <2>3. SendDataWithConvert(clear, e.kind) = SendResponse(clear)
    BY DEF SendDataWithConvert, SendEmptyResponse
  <2> QED BY <2>2, <2>3, ResponseKeeps
<1>11. ClipInv(u)
  BY <1>2, <1>3, <1>4, <1>5, <1>6, <1>7, <1>8, <1>9, <1>10
<1> QED BY <1>11 DEF u

(* A property of our window, or of the root window.                          *)
LEMMA PropertyStep ==
    ASSUME NEW c, NEW t, NEW e, Popped(c, t, e), ClipInv(c), e.type \in {"property", "root"}
    PROVE  ClipInv(HandlePropertyNotify(t, e))
<1>1. /\ ReplyInv(t) /\ RequestInv(t) /\ IncrInv(t) /\ AnnounceInv(t)
      /\ \A f \in ClipFields \ {"events"} : t[f] = c[f]
      /\ \A s, k : Pending(c, s, k) => Pending(t, s, k) \/ Item(e, s, k)
      /\ StaleAnswer(c) => StaleAnswer(t)
  BY PoppedKeeps
<1>2. ClipData(t)
  BY DEF Popped
<1>3. \A s, k : ~Item(e, s, k)
  BY DEF Item
<1>4. t.probing = c.probing /\ t.got = c.got
  BY <1>1 DEF ClipFields
<1>5. ProbeInv(t)
  <2> SUFFICES ASSUME c.probing = TRUE
               PROVE  StampsPending(t) \/ ListPending(t) \/ StaleAnswer(t)
    BY <1>4 DEF ProbeInv
  <2>1. StampsPending(c) \/ ListPending(c) \/ StaleAnswer(c)
    BY DEF ClipInv, ProbeInv
  <2>2. \A s, k : Pending(c, s, k) => Pending(t, s, k)
    BY <1>1, <1>3
  <2> QED BY <1>1, <1>4, <2>1, <2>2, StampsKept, ListKept
<1>6. ClipInv(t)
  BY <1>1, <1>2, <1>5 DEF ClipInv
<1>7. ClipInv(ProbeSelections(t))
  BY <1>1, <1>2, <1>5, ProbeKeeps
<1>8. ClipInv(HandleIncrChunk(t))
  <2> DEFINE ended == [t EXCEPT !.incr = FALSE, !.buffered = FALSE, !.target = "none"]
             next == [t EXCEPT !.buffered = TRUE, !.target = "none"]
             F == {"incr", "buffered", "target"}
  <2>1. DOMAIN t = ClipFields /\ t.incr \in BOOLEAN
    BY <1>2 DEF ClipData
  <2>2. ASSUME NEW v, DOMAIN v = ClipFields, v.target = "none", v.incr \in BOOLEAN,
               v.buffered \in BOOLEAN, \A f \in ClipFields \ F : v[f] = t[f]
        PROVE  ClipInv(v)
    <3>1. ClipData(v)
      <4>1. \A f \in F : v[f] \in ClipSets[f]
        BY <2>2, ClipSetsAre DEF PropTargets
      <4>2. Retyped(t, v, F)
        BY <2>2, <4>1, Zenon DEF Retyped
      <4> QED BY <1>2, <4>2, FieldsTyped
    <3>2. Emits(t, v, F)
      BY <1>2, <2>1, <2>2, <3>1, QuietEmits DEF Changes
    <3>3. F \cap RequestFields = {}
      BY DEF RequestFields
    <3>4. /\ v.got = t.got /\ v.probing = t.probing /\ v.owner = t.owner
          /\ v.current = t.current /\ v.responses = t.responses /\ v.format = t.format
          /\ v.asked = t.asked
      BY <2>2 DEF ClipFields
    <3>5. ReplyInv(v)
      BY <1>1, <3>4, RepliesKept
    <3> QED BY <1>6, <2>2, <3>2, <3>3, <3>4, <3>5, ClipKept DEF NoNewIncr
  <2>3. ClipInv(ended)
    <3>1. /\ DOMAIN ended = ClipFields /\ ended.target = "none"
          /\ \A f \in ClipFields \ F : ended[f] = t[f]
      BY <2>1 DEF ClipFields
    <3>2. ended.incr = FALSE /\ ended.buffered = FALSE
      BY <2>1 DEF ClipFields
    <3> HIDE DEF ended, F
    <3>3. ended.incr \in BOOLEAN
      BY <3>2
    <3>4. ended.buffered \in BOOLEAN
      BY <3>2
    <3> QED BY <2>2, <3>1, <3>3, <3>4
  <2>4. ClipInv(next)
    <3>1. /\ DOMAIN next = ClipFields /\ next.target = "none"
          /\ \A f \in ClipFields \ F : next[f] = t[f]
      BY <2>1 DEF ClipFields
    <3>2. next.incr = t.incr /\ next.buffered = TRUE
      BY <2>1 DEF ClipFields
    <3> HIDE DEF next, F
    <3>3. next.incr \in BOOLEAN
      BY <2>1, <3>2
    <3>4. next.buffered \in BOOLEAN
      BY <3>2
    <3> QED BY <2>2, <3>1, <3>3, <3>4
  <2>5. HandleIncrChunk(t) = IF t.target \notin {"none", "empty"} THEN next
                             ELSE IF t.buffered THEN SendDataWithConvert(ended, "text") ELSE ended
    BY DEF HandleIncrChunk
  <2> HIDE DEF ended, next
  <2>6. SendDataWithConvert(ended, "text") = SendResponse(ended)
    BY DEF SendDataWithConvert, SendEmptyResponse
  <2>7. ClipInv(SendResponse(ended))
    BY <2>3, ResponseKeeps
  <2> QED BY <2>3, <2>4, <2>5, <2>6, <2>7
<1> QED BY <1>6, <1>7, <1>8 DEF HandlePropertyNotify

(* SelectionClear, and the notification of a change of owner.                *)
LEMMA ChangeStep ==
    ASSUME NEW c, NEW t, NEW e, Popped(c, t, e), ClipInv(c), e.type \in {"clear", "change"}
    PROVE  /\ ClipInv(HandleSelectionClear(t))
           /\ e.type = "change" => ClipInv(HandleXFixesSelectionNotify(t, e))
<1>1. /\ ReplyInv(t) /\ RequestInv(t) /\ IncrInv(t)
      /\ e.type = "change" /\ e.sel = "primary" /\ ~ClipAutoMode => AnnounceInv(t)
      /\ \A f \in ClipFields \ {"events"} : t[f] = c[f]
      /\ \A s, k : Pending(c, s, k) => Pending(t, s, k) \/ Item(e, s, k)
      /\ StaleAnswer(c) => StaleAnswer(t)
  BY PoppedKeeps
<1>2. ClipData(t)
  BY DEF Popped
<1>3. \A s, k : ~Item(e, s, k)
  BY DEF Item
<1>4. t.probing = c.probing /\ t.got = c.got
  BY <1>1 DEF ClipFields
<1>5. ProbeInv(t)
  <2> SUFFICES ASSUME c.probing = TRUE
               PROVE  StampsPending(t) \/ ListPending(t) \/ StaleAnswer(t)
    BY <1>4 DEF ProbeInv
  <2>1. StampsPending(c) \/ ListPending(c) \/ StaleAnswer(c)
    BY DEF ClipInv, ProbeInv
  <2>2. \A s, k : Pending(c, s, k) => Pending(t, s, k)
    BY <1>1, <1>3
  <2> QED BY <1>1, <1>4, <2>1, <2>2, StampsKept, ListKept
<1>6. ClipInv(ProbeSelections(NotifyChange(t)))
  <2> DEFINE v == NotifyChange(t)
             r == [type |-> "root"]
  <2>1. r \in ClipEvents /\ r.type # "request"
    BY DEF ClipEvents
  <2>2. v = XEvent(t, r)
    BY DEF NotifyChange
  <2> HIDE DEF r
  <2>3. Emits(t, v, {"events"})
    BY <1>2, <2>1, <2>2, XEventEmits
  <2> HIDE DEF v
  <2>4. /\ v.target = t.target /\ v.got = t.got /\ v.probing = t.probing
        /\ v.responses = t.responses /\ v.format = t.format /\ v.asked = t.asked
    BY <1>2, <2>3, EmitsSame DEF ClipFields
  <2>5. IncrInv(v) /\ ProbeInv(v) /\ ReplyInv(v)
    BY <1>1, <1>2, <1>5, <2>3, <2>4, IncrKept, ProbeKept, RepliesKept DEF NoNewIncr
  <2>6. RequestInv(v)
    <3>1. {"events"} \cap RequestFields = {}
      BY DEF RequestFields
    <3> QED BY <1>1, <1>2, <2>3, <3>1, RequestsKept
  <2>7. ClipInv(ProbeSelections(v))
    BY <2>3, <2>5, <2>6, ProbeKeeps DEF Emits
  <2> QED BY <2>7 DEF v
<1>7. ASSUME e.type = "change", e.sel = "primary", ~ClipAutoMode PROVE ClipInv(t)
  BY <1>1, <1>2, <1>5, <1>7 DEF ClipInv
<1> QED BY <1>6, <1>7 DEF HandleSelectionClear, HandleXFixesSelectionNotify

-----------------------------------------------------------------------------
(* Requests for our selections *)

(* All requests but one are where they belong; that one is nowhere yet.      *)
Unplaced(t, id) ==
    /\ t.issued <= t.inputs /\ t.inputs <= MaxClipInputs
    /\ t.owes = TRUE => t.hasRequest = TRUE
    /\ id <= t.issued /\ t.answers[id] = 0
    /\ \A x \in XIds, i \in 1 .. Len(t.events) :
           AskedAt(t, i, x) =>
               /\ x # id /\ x <= t.issued /\ t.answers[x] = 0 /\ ~Awaits(t, x)
               /\ \A j \in 1 .. Len(t.events) : AskedAt(t, j, x) => j = i
    /\ \A x \in XIds : Awaits(t, x) => x # id /\ x <= t.issued /\ t.answers[x] = 0
    /\ \A x \in XIds : x # id =>
           IF x <= t.issued
           THEN \/ t.answers[x] = 1
                \/ t.answers[x] = 0 /\ (\/ Awaits(t, x)
                                        \/ \E i \in 1 .. Len(t.events) : AskedAt(t, i, x))
           ELSE t.answers[x] = 0

(* It is answered,                                                           *)
LEMMA PlacedAnswered ==
    ASSUME NEW t, NEW u, NEW id \in XIds, ClipData(t), Unplaced(t, id),
           Changes(t, u, {"answers"}), u.answers = [t.answers EXCEPT ![id] = @ + 1]
    PROVE  RequestInv(u) /\ ClipData(u)
<1>1. DOMAIN t = ClipFields /\ t.answers \in [XIds -> Nat]
  BY DEF ClipData
<1>2. \A f \in ClipFields \ {"answers"} : u[f] = t[f]
  BY <1>1 DEF Changes
<1>3. /\ u.answers \in [XIds -> Nat] /\ u.answers[id] = t.answers[id] + 1
      /\ \A x \in XIds : x # id => u.answers[x] = t.answers[x]
  BY <1>1
<1>4. ClipData(u)
  BY <1>1, <1>2, <1>3 DEF ClipData, Changes, ClipFields
<1>5. /\ u.owes = t.owes /\ u.hasRequest = t.hasRequest /\ u.request = t.request
      /\ u.issued = t.issued /\ u.inputs = t.inputs /\ u.events = t.events
  BY <1>2 DEF ClipFields
<1>6. /\ \A x : Awaits(u, x) <=> Awaits(t, x)
      /\ \A i, x : AskedAt(u, i, x) <=> AskedAt(t, i, x)
  BY <1>5 DEF Awaits, AskedAt
<1>7. u.answers[id] = 1
  BY <1>3 DEF Unplaced
<1>8. ASSUME NEW x \in XIds, NEW i \in 1 .. Len(u.events), AskedAt(u, i, x)
      PROVE  /\ x <= u.issued /\ u.answers[x] = 0 /\ ~Awaits(u, x)
             /\ \A j \in 1 .. Len(u.events) : AskedAt(u, j, x) => j = i
  BY <1>3, <1>5, <1>6, <1>8 DEF Unplaced
<1>9. ASSUME NEW x \in XIds
      PROVE  IF x <= u.issued
             THEN \/ u.answers[x] = 1
                  \/ u.answers[x] = 0 /\ (\/ Awaits(u, x)
                                          \/ \E i \in 1 .. Len(u.events) : AskedAt(u, i, x))
             ELSE u.answers[x] = 0
  <2>1. CASE x = id
    BY <1>5, <1>7, <2>1 DEF Unplaced
  <2>2. CASE x # id
    BY <1>3, <1>5, <1>6, <2>2 DEF Unplaced
  <2> QED BY <2>1, <2>2
<1>10. \A x \in XIds : Awaits(u, x) => x <= u.issued /\ u.answers[x] = 0
  BY <1>3, <1>5, <1>6 DEF Unplaced
<1>11. /\ u.issued <= u.inputs /\ u.inputs <= MaxClipInputs
       /\ u.owes = TRUE => u.hasRequest = TRUE
  BY <1>5 DEF Unplaced
<1>12. RequestInv(u)
  BY <1>8, <1>9, <1>10, <1>11 DEF RequestInv
<1> QED BY <1>4, <1>12

(* or passed to the server.                                                  *)
LEMMA PlacedWithServer ==
    ASSUME NEW t, NEW u, NEW id \in XIds, ClipData(t), Unplaced(t, id), t.hasRequest = FALSE,
           Changes(t, u, {"owes", "hasRequest", "request"}),
           u.hasRequest = TRUE, u.request.id = id
    PROVE  RequestInv(u)
<1>1. DOMAIN t = ClipFields
  BY DEF ClipData
<1>2. \A f \in ClipFields \ {"owes", "hasRequest", "request"} : u[f] = t[f]
  BY <1>1 DEF Changes
<1>3. /\ u.answers = t.answers /\ u.issued = t.issued /\ u.inputs = t.inputs
      /\ u.events = t.events
  BY <1>2 DEF ClipFields
<1>4. /\ \A x : ~Awaits(t, x)
      /\ \A x : Awaits(u, x) <=> x = id
      /\ \A i, x : AskedAt(u, i, x) <=> AskedAt(t, i, x)
  BY <1>3 DEF Awaits, AskedAt
<1>5. ASSUME NEW x \in XIds, NEW i \in 1 .. Len(u.events), AskedAt(u, i, x)
      PROVE  /\ x <= u.issued /\ u.answers[x] = 0 /\ ~Awaits(u, x)
             /\ \A j \in 1 .. Len(u.events) : AskedAt(u, j, x) => j = i
  BY <1>3, <1>4, <1>5 DEF Unplaced
<1>6. ASSUME NEW x \in XIds
      PROVE  IF x <= u.issued
             THEN \/ u.answers[x] = 1
                  \/ u.answers[x] = 0 /\ (\/ Awaits(u, x)
                                          \/ \E i \in 1 .. Len(u.events) : AskedAt(u, i, x))
             ELSE u.answers[x] = 0
  <2>1. CASE x = id
    BY <1>3, <1>4, <2>1 DEF Unplaced
  <2>2. CASE x # id
    BY <1>3, <1>4, <2>2 DEF Unplaced
  <2> QED BY <2>1, <2>2
<1>7. \A x \in XIds : Awaits(u, x) => x <= u.issued /\ u.answers[x] = 0
  BY <1>3, <1>4 DEF Unplaced
<1>8. /\ u.issued <= u.inputs /\ u.inputs <= MaxClipInputs
      /\ u.owes = TRUE => u.hasRequest = TRUE
  BY <1>3 DEF Unplaced
<1> QED BY <1>5, <1>6, <1>7, <1>8 DEF RequestInv

(* The request of another client, read from the queue.                       *)
LEMMA RequestRead ==
    ASSUME NEW c, NEW t, NEW e, Popped(c, t, e), ClipInv(c), e.type = "request", e.id \in XIds
    PROVE  Unplaced(t, e.id)
<1> DEFINE id == e.id
<1>1. /\ c.events \in Seq(ClipEvents) /\ t.events \in Seq(ClipEvents) /\ c.events # << >>
      /\ e = c.events[1] /\ Len(c.events) = Len(t.events) + 1
      /\ \A i \in 1 .. Len(t.events) : t.events[i] = c.events[i + 1]
  BY DEF Popped, ClipData
<1>2. /\ t.owes = c.owes /\ t.hasRequest = c.hasRequest /\ t.request = c.request
      /\ t.answers = c.answers /\ t.issued = c.issued /\ t.inputs = c.inputs
  BY PoppedKeeps DEF ClipFields
<1>3. 1 \in 1 .. Len(c.events) /\ AskedAt(c, 1, id)
  BY <1>1 DEF AskedAt
<1>4. RequestInv(c)
  BY DEF ClipInv
<1> HIDE DEF id
<1>5. /\ id <= c.issued /\ c.answers[id] = 0 /\ ~Awaits(c, id)
      /\ \A j \in 1 .. Len(c.events) : AskedAt(c, j, id) => j = 1
  <2>1. id \in XIds
    BY DEF id
  <2> QED BY <1>3, <1>4, <2>1 DEF RequestInv
<1>6. \A x : Awaits(t, x) <=> Awaits(c, x)
  BY <1>2 DEF Awaits
<1>7. ASSUME NEW x, NEW i \in 1 .. Len(t.events), AskedAt(t, i, x)
      PROVE  i + 1 \in 1 .. Len(c.events) /\ AskedAt(c, i + 1, x)
  <2>1. i + 1 \in 1 .. Len(c.events) /\ c.events[i + 1] = t.events[i]
    BY <1>1
  <2> QED BY <1>7, <2>1 DEF AskedAt
<1>8. ASSUME NEW x \in XIds, NEW i \in 1 .. Len(c.events), AskedAt(c, i, x), x # id
      PROVE  i - 1 \in 1 .. Len(t.events) /\ AskedAt(t, i - 1, x)
  <2>1. i # 1
    BY <1>3, <1>8 DEF AskedAt
  <2>2. i - 1 \in 1 .. Len(t.events) /\ (i - 1) + 1 = i
    BY <1>1, <2>1
  <2>3. t.events[i - 1] = c.events[(i - 1) + 1]
    BY <1>1, <2>2
  <2> QED BY <1>8, <2>2, <2>3 DEF AskedAt
<1>9. ASSUME NEW x \in XIds, NEW i \in 1 .. Len(t.events), AskedAt(t, i, x)
      PROVE  /\ x # id /\ x <= t.issued /\ t.answers[x] = 0 /\ ~Awaits(t, x)
             /\ \A j \in 1 .. Len(t.events) : AskedAt(t, j, x) => j = i
  <2>1. i + 1 \in 1 .. Len(c.events) /\ AskedAt(c, i + 1, x) /\ i + 1 # 1
    BY <1>7, <1>9
  <2>2. /\ x <= c.issued /\ c.answers[x] = 0 /\ ~Awaits(c, x)
        /\ \A j \in 1 .. Len(c.events) : AskedAt(c, j, x) => j = i + 1
    BY <1>4, <2>1 DEF RequestInv
  <2>3. x # id
    BY <1>5, <2>1
  <2>4. ASSUME NEW j \in 1 .. Len(t.events), AskedAt(t, j, x) PROVE j = i
    <3>1. j + 1 \in 1 .. Len(c.events) /\ AskedAt(c, j + 1, x)
      BY <1>7, <2>4
    <3>2. j + 1 = i + 1
      BY <2>2, <3>1
    <3> QED BY <3>2
  <2> QED BY <1>2, <1>6, <2>2, <2>3, <2>4
<1>10. \A x \in XIds : Awaits(t, x) => x # id /\ x <= t.issued /\ t.answers[x] = 0
  BY <1>2, <1>4, <1>5, <1>6 DEF RequestInv
<1>11. ASSUME NEW x \in XIds, x # id
       PROVE  IF x <= t.issued
              THEN \/ t.answers[x] = 1
                   \/ t.answers[x] = 0 /\ (\/ Awaits(t, x)
                                           \/ \E i \in 1 .. Len(t.events) : AskedAt(t, i, x))
              ELSE t.answers[x] = 0
  <2>1. IF x <= c.issued
        THEN \/ c.answers[x] = 1
             \/ c.answers[x] = 0 /\ (\/ Awaits(c, x)
                                     \/ \E i \in 1 .. Len(c.events) : AskedAt(c, i, x))
        ELSE c.answers[x] = 0
    BY <1>4 DEF RequestInv
  <2>2. (\E i \in 1 .. Len(c.events) : AskedAt(c, i, x))
            => \E i \in 1 .. Len(t.events) : AskedAt(t, i, x)
    BY <1>8, <1>11
  <2> QED BY <1>2, <1>6, <2>1, <2>2
<1>12. /\ t.issued <= t.inputs /\ t.inputs <= MaxClipInputs
       /\ t.owes = TRUE => t.hasRequest = TRUE
  BY <1>2, <1>4 DEF RequestInv
<1>13. id <= t.issued /\ t.answers[id] = 0
  BY <1>2, <1>5
<1>14. Unplaced(t, id)
  BY <1>9, <1>10, <1>11, <1>12, <1>13 DEF Unplaced
<1> QED BY <1>14 DEF id

(* The parts about probes and announcements, after any request.              *)
LEMMA RequestProbes ==
    ASSUME NEW c, NEW t, NEW e, Popped(c, t, e), ClipInv(c), e.type = "request",
           NEW u, NEW F, Emits(t, u, F), NoNewIncr(t, u),
           F \cap {"got", "probing", "owner", "current", "responses", "format", "asked"} = {},
           e.id = Self => Pending(u, e.sel, e.kind) \/ e.kind \in {"text", "native"}
    PROVE  ClipData(u) /\ IncrInv(u) /\ ProbeInv(u) /\ AnnounceInv(u) /\ ReplyInv(u)
<1>1. /\ ReplyInv(t) /\ IncrInv(t) /\ AnnounceInv(t)
      /\ \A s, k : Pending(c, s, k) => Pending(t, s, k) \/ Item(e, s, k)
      /\ StaleAnswer(c) => StaleAnswer(t)
  BY PoppedKeeps
<1>2. ClipData(t) /\ ClipData(u)
  BY DEF Popped, Emits
<1>3. /\ u.got = t.got /\ u.probing = t.probing /\ u.owner = t.owner
      /\ u.current = t.current /\ u.responses = t.responses /\ u.format = t.format
      /\ u.asked = t.asked
  BY <1>2, EmitsSame DEF ClipFields
<1>4. IncrInv(u) /\ AnnounceInv(u) /\ ReplyInv(u)
  BY <1>1, <1>2, <1>3, IncrKept, AnnounceKept, RepliesKept
<1>5. t.probing = c.probing /\ t.got = c.got
  BY PoppedKeeps DEF ClipFields
<1>6. ASSUME NEW s, NEW k \in {"timestamp", "targets", "formats"}, Pending(c, s, k)
      PROVE  Pending(u, s, k)
  <2>1. Pending(t, s, k) => Pending(u, s, k)
    BY <1>2, EmitsKeeps
  <2>2. Item(e, s, k) => Pending(u, s, k)
    BY DEF Item
  <2> QED BY <1>1, <1>6, <2>1, <2>2
<1>7. ProbeInv(u)
  <2> SUFFICES ASSUME c.probing = TRUE
               PROVE  StampsPending(u) \/ ListPending(u) \/ StaleAnswer(u)
    BY <1>3, <1>5 DEF ProbeInv
  <2>1. StampsPending(c) \/ ListPending(c) \/ StaleAnswer(c)
    BY DEF ClipInv, ProbeInv
  <2>2. StaleAnswer(c) => StaleAnswer(u)
    BY <1>1, <1>2, StaleKept
  <2>3. ListPending(c) => ListPending(u)
    <3>1. \A s \in Sels, k \in {"targets", "formats"} : Pending(c, s, k) => Pending(u, s, k)
      BY <1>6
    <3> QED BY <3>1, ListKept
  <2>4. StampsPending(c) => StampsPending(u)
    <3>1. \A s \in Sels : Pending(c, s, "timestamp") => Pending(u, s, "timestamp")
      BY <1>6
    <3> QED BY <1>3, <1>5, <3>1, StampsKept
  <2> QED BY <2>1, <2>2, <2>3, <2>4
<1> QED BY <1>2, <1>4, <1>7

(* The same requests of other clients stay open.                             *)
LEMMA RequestsSame ==
    ASSUME NEW t, NEW u, RequestInv(t), u.events = t.events, u.answers = t.answers,
           u.issued = t.issued, u.issued <= u.inputs, u.inputs <= MaxClipInputs,
           u.owes = TRUE => u.hasRequest = TRUE,
           \A x \in XIds : Awaits(u, x) <=> Awaits(t, x)
    PROVE  RequestInv(u)
<1>1. \A i, x : AskedAt(u, i, x) <=> AskedAt(t, i, x)
  BY DEF AskedAt
<1>2. ASSUME NEW x \in XIds, NEW i \in 1 .. Len(u.events), AskedAt(u, i, x)
      PROVE  /\ x <= u.issued /\ u.answers[x] = 0 /\ ~Awaits(u, x)
             /\ \A j \in 1 .. Len(u.events) : AskedAt(u, j, x) => j = i
  BY <1>1, <1>2 DEF RequestInv
<1>3. ASSUME NEW x \in XIds
      PROVE  IF x <= u.issued
             THEN \/ u.answers[x] = 1
                  \/ u.answers[x] = 0 /\ (\/ Awaits(u, x)
                                          \/ \E i \in 1 .. Len(u.events) : AskedAt(u, i, x))
             ELSE u.answers[x] = 0
  BY <1>1 DEF RequestInv
<1>4. \A x \in XIds : Awaits(u, x) => x <= u.issued /\ u.answers[x] = 0
  BY DEF RequestInv
<1> QED BY <1>2, <1>3, <1>4 DEF RequestInv

(* What decides the other parts of the invariant.                            *)
ProbeRelated == {"got", "probing", "owner", "current", "responses", "format", "asked"}

(* All parts again, for a step that leaves the probe, the owners and replies *)
(* alone.                                                                    *)
LEMMA ClipKeptBut ==
    ASSUME NEW t, NEW u, NEW F, ClipInv(t), Emits(t, u, F), F \cap ProbeRelated = {},
           NoNewIncr(t, u), RequestInv(u)
    PROVE  ClipInv(u)
<1>1. ClipData(t) /\ ClipData(u)
  BY DEF ClipInv, Emits
<1>2. /\ u.got = t.got /\ u.probing = t.probing /\ u.owner = t.owner
      /\ u.current = t.current /\ u.responses = t.responses /\ u.format = t.format
      /\ u.asked = t.asked
  BY <1>1, EmitsSame DEF ClipFields, ProbeRelated
<1>3. IncrInv(u) /\ ProbeInv(u) /\ AnnounceInv(u) /\ ReplyInv(u)
  BY <1>1, <1>2, IncrKept, ProbeKept, AnnounceKept, RepliesKept DEF ClipInv
<1> QED BY <1>1, <1>3 DEF ClipInv

(* The request is handed to the server.                                      *)
LEMMA FromServerEmits ==
    ASSUME NEW t, ClipData(t), NEW r, r.id \in XIds \cup {Self}, r.sel \in Sels,
           r.kind \in {"text", "native"}, ~Overlaps(t), r.kind = "text" \/ RequestedNative(t, r)
    PROVE  LET u == RequestFromServer(t, r)
           IN /\ Emits(t, u, {"owes", "hasRequest", "request", "target"}) /\ NoNewIncr(t, u)
              /\ r.id # Self => u.target = t.target
              /\ u.hasRequest = TRUE /\ u.request.id = r.id
<1> DEFINE v == IF r.id = Self /\ r.kind = "native" THEN [t EXCEPT !.target = "none"] ELSE t
           w == SendDataRequest(v)
           req == [id |-> r.id, sel |-> r.sel, kind |-> r.kind]
           u == RequestFromServer(t, r)
           F == {"owes", "hasRequest", "request", "target"}
<1>1. u = [w EXCEPT !.request = req, !.hasRequest = TRUE]
  BY DEF RequestFromServer
<1>2. DOMAIN t = ClipFields
  BY DEF ClipData
<1>3. /\ DOMAIN v = ClipFields /\ \A f \in ClipFields \ {"target"} : v[f] = t[f]
      /\ v.target \in {t.target, "none"}
      /\ r.id # Self => v.target = t.target
  BY <1>2 DEF ClipFields
<1> HIDE DEF v
<1>4. /\ DOMAIN w = ClipFields /\ w.owes = TRUE
      /\ \A f \in ClipFields \ {"owes"} : w[f] = v[f]
  BY <1>3 DEF SendDataRequest, ClipFields
<1> HIDE DEF w
<1>5. req \in Requests /\ req.id = r.id
  BY DEF Requests
<1> HIDE DEF req, u
<1>6. /\ DOMAIN u = ClipFields /\ u.request = req /\ u.hasRequest = TRUE
      /\ \A f \in ClipFields \ {"request", "hasRequest"} : u[f] = w[f]
  BY <1>1, <1>4 DEF ClipFields
<1>7. u.owes = TRUE /\ u.target = v.target
  BY <1>4, <1>6 DEF ClipFields
<1>8. \A f \in ClipFields \ F : u[f] = t[f]
  BY <1>3, <1>4, <1>6
<1>9. u.hasRequest \in BOOLEAN
  BY <1>6
<1>10. u.owes \in BOOLEAN
  BY <1>7
<1>11. u.target \in PropTargets
  <2>1. t.target \in PropTargets /\ "none" \in PropTargets
    BY DEF ClipData, PropTargets
  <2> QED BY <1>3, <1>7, <2>1
<1>12. ClipData(u)
  <2>1. \A f \in F : u[f] \in ClipSets[f]
    BY <1>5, <1>6, <1>9, <1>10, <1>11, ClipSetsAre
  <2>2. Retyped(t, u, F)
    BY <1>6, <1>8, <2>1, Zenon DEF Retyped
  <2> QED BY <2>2, FieldsTyped
<1>13. Emits(t, u, F)
  BY <1>2, <1>6, <1>8, <1>12, QuietEmits DEF Changes
<1>14. NoNewIncr(t, u)
  BY <1>3, <1>7 DEF NoNewIncr
<1> QED BY <1>3, <1>5, <1>6, <1>7, <1>13, <1>14 DEF u

(* xclip_handle_SelectionRequest for a conversion of our own.                *)
LEMMA OwnRequestStep ==
    ASSUME NEW c, NEW t, NEW e, Popped(c, t, e), ClipInv(c), e.type = "request", e.id = Self,
           e.sel \in Sels, e.kind \in Kinds
    PROVE  ClipInv(HandleSelectionRequest(t, e))
<1> DEFINE u == HandleSelectionRequest(t, e)
<1>1. ClipData(t) /\ RequestInv(t)
  BY PoppedKeeps DEF Popped
<1>2. ASSUME NEW F, Emits(t, u, F), NoNewIncr(t, u), F \cap ProbeRelated = {}, RequestInv(u),
             Pending(u, e.sel, e.kind) \/ e.kind \in {"text", "native"}
      PROVE  ClipInv(u)
  <2>1. F \cap {"got", "probing", "owner", "current", "responses", "format", "asked"} = {}
    BY <1>2 DEF ProbeRelated
  <2> HIDE DEF u
  <2>2. ClipData(u) /\ IncrInv(u) /\ ProbeInv(u) /\ AnnounceInv(u) /\ ReplyInv(u)
    BY <1>2, <2>1, RequestProbes
  <2> QED BY <1>2, <2>2 DEF ClipInv
<1>3. ASSUME NEW what \in {"nativeTargets", "none", "formats"}, u = ProvideSelection(t, e, what),
             e.kind = "timestamp" \/ what # "none"
      PROVE  ClipInv(u)
  <2>1. u = XEvent(WriteProperty(t, e.sel, e.kind, what), Notify(e.sel, e.kind, TRUE))
    BY <1>3 DEF ProvideSelection
  <2>2. what \in PropTargets
    BY DEF PropTargets
  <2>3. Emits(t, u, {"prop", "target", "events"}) /\ Pending(u, e.sel, e.kind)
        /\ Written(t, u, e.kind, what)
    BY <1>1, <2>1, <2>2, WroteEmits
  <2>4. {"prop", "target", "events"} \cap RequestFields = {}
        /\ {"prop", "target", "events"} \cap ProbeRelated = {}
    BY DEF RequestFields, ProbeRelated
  <2> HIDE DEF u
  <2>5. RequestInv(u)
    BY <1>1, <2>3, <2>4, RequestsKept
  <2>6. NoNewIncr(t, u)
    BY <2>3 DEF Written, NoNewIncr
  <2>7. ClipInv(HandleSelectionRequest(t, e))
    BY <1>2, <2>3, <2>4, <2>5, <2>6 DEF u
  <2> QED BY <2>7 DEF u
<1>4. CASE e.kind = "targets"
  <2>1. u = ProvideSelection(t, e, "nativeTargets")
    BY <1>4 DEF HandleSelectionRequest
  <2> QED BY <1>3, <2>1
<1>5. CASE e.kind = "timestamp"
  <2>1. u = ProvideSelection(t, e, "none")
    BY <1>5 DEF HandleSelectionRequest
  <2> QED BY <1>3, <1>5, <2>1
<1>6. CASE e.kind = "formats"
  <2>1. u = ProvideSelection(t, e, "formats")
    BY <1>6 DEF HandleSelectionRequest
  <2> QED BY <1>3, <2>1
<1>7. CASE e.kind \in {"text", "native"}
  <2>1. u = RequestFromServer(t, e)
    BY <1>7 DEF HandleSelectionRequest
  <2>2. CASE Overlaps(t) \/ ~(e.kind = "text" \/ RequestedNative(t, e))
    <3>1. u = XEvent(t, Notify(e.sel, e.kind, FALSE))
      BY <2>1, <2>2 DEF RequestFromServer, RefuseSelection
    <3>2. Emits(t, u, {"events"})
      BY <1>1, <3>1, NotifyEmits
    <3>3. {"events"} \cap RequestFields = {} /\ {"events"} \cap ProbeRelated = {}
      BY DEF RequestFields, ProbeRelated
    <3>4. u.target = t.target
      BY <1>1, <3>2, EmitsSame DEF ClipFields
    <3> HIDE DEF u
    <3>5. RequestInv(u)
      BY <1>1, <3>2, <3>3, RequestsKept
    <3>6. NoNewIncr(t, u)
      BY <3>4 DEF NoNewIncr
    <3>7. ClipInv(HandleSelectionRequest(t, e))
      BY <1>2, <1>7, <3>2, <3>3, <3>5, <3>6 DEF u
    <3> QED BY <3>7 DEF u
  <2>3. CASE ~Overlaps(t) /\ (e.kind = "text" \/ RequestedNative(t, e))
    <3> DEFINE F == {"owes", "hasRequest", "request", "target"}
    <3>1. /\ Emits(t, u, F) /\ NoNewIncr(t, u)
          /\ u.hasRequest = TRUE /\ u.request.id = Self
      <4>1. e.id \in XIds \cup {Self}
        OBVIOUS
      <4>2. LET v == RequestFromServer(t, e)
            IN /\ Emits(t, v, F) /\ NoNewIncr(t, v)
               /\ v.hasRequest = TRUE /\ v.request.id = e.id
        BY <1>1, <1>7, <2>3, <4>1, FromServerEmits
      <4> HIDE DEF u
      <4> QED BY <2>1, <4>2
    <3>2. F \cap ProbeRelated = {}
      BY DEF ProbeRelated
    <3>3. /\ u.events = t.events /\ u.answers = t.answers /\ u.issued = t.issued
          /\ u.inputs = t.inputs
      BY <1>1, <3>1, EmitsSame DEF ClipFields
    <3>4. Self \notin XIds
      BY ClipConstants DEF XIds, Self
    <3>5. t.hasRequest # TRUE
      BY <2>3 DEF Overlaps
    <3> HIDE DEF u
    <3>6. \A x \in XIds : ~Awaits(u, x) /\ ~Awaits(t, x)
      BY <3>1, <3>4, <3>5 DEF Awaits
    <3>7. u.issued <= u.inputs /\ u.inputs <= MaxClipInputs
      BY <1>1, <3>3 DEF RequestInv
    <3>8. RequestInv(u)
      BY <1>1, <3>1, <3>3, <3>6, <3>7, RequestsSame
    <3>9. ClipInv(HandleSelectionRequest(t, e))
      BY <1>2, <1>7, <3>1, <3>2, <3>8 DEF u
    <3> QED BY <3>9 DEF u
  <2> QED BY <2>2, <2>3
<1> QED BY <1>4, <1>5, <1>6, <1>7 DEF Kinds

(* And for another client's.                                                 *)
LEMMA ForeignRequestStep ==
    ASSUME NEW c, NEW t, NEW e, Popped(c, t, e), ClipInv(c), e.type = "request", e.id \in XIds,
           e.sel \in Sels, e.kind \in Kinds
    PROVE  ClipInv(HandleSelectionRequest(t, e))
<1> DEFINE u == HandleSelectionRequest(t, e)
           answered == [t EXCEPT !.answers[e.id] = @ + 1]
<1>0. e.id # Self
  BY ClipConstants DEF XIds, Self
<1>1. ClipData(t) /\ DOMAIN t = ClipFields /\ t.answers \in [XIds -> Nat]
  BY DEF Popped, ClipData
<1>2. Unplaced(t, e.id)
  BY RequestRead
<1>3. ASSUME NEW v, NEW F, Emits(t, v, F), NoNewIncr(t, v), F \cap ProbeRelated = {},
             RequestInv(v)
      PROVE  ClipInv(v)
  <2>1. F \cap {"got", "probing", "owner", "current", "responses", "format", "asked"} = {}
    BY <1>3 DEF ProbeRelated
  <2>2. ClipData(v) /\ IncrInv(v) /\ ProbeInv(v) /\ AnnounceInv(v) /\ ReplyInv(v)
    BY <1>0, <1>3, <2>1, RequestProbes
  <2> QED BY <1>3, <2>2 DEF ClipInv
<1>4. ClipInv(answered)
  <2>1. /\ DOMAIN answered = ClipFields
        /\ answered.answers = [t.answers EXCEPT ![e.id] = @ + 1]
        /\ \A f \in ClipFields \ {"answers"} : answered[f] = t[f]
    BY <1>1 DEF ClipFields
  <2> HIDE DEF answered
  <2>2. Changes(t, answered, {"answers"})
    BY <1>1, <2>1 DEF Changes
  <2>3. RequestInv(answered) /\ ClipData(answered)
    BY <1>1, <1>2, <2>1, <2>2, PlacedAnswered
  <2>4. Emits(t, answered, {"answers"})
    BY <1>1, <2>2, <2>3, QuietEmits
  <2>5. NoNewIncr(t, answered)
    BY <2>1 DEF NoNewIncr, ClipFields
  <2>6. {"answers"} \cap ProbeRelated = {}
    BY DEF ProbeRelated
  <2> QED BY <1>3, <2>3, <2>4, <2>5, <2>6
<1>5. /\ \A what : ProvideSelection(t, e, what) = answered
      /\ RefuseSelection(t, e) = answered
  BY <1>0 DEF ProvideSelection, RefuseSelection
<1> HIDE DEF answered
<1>6. CASE e.kind \in {"targets", "timestamp", "formats"}
  <2>1. u = answered
    BY <1>5, <1>6 DEF HandleSelectionRequest
  <2> QED BY <1>4, <2>1
<1>7. CASE e.kind \in {"text", "native"}
  <2>1. u = RequestFromServer(t, e)
    BY <1>7 DEF HandleSelectionRequest
  <2>2. CASE Overlaps(t) \/ ~(e.kind = "text" \/ RequestedNative(t, e))
    <3>1. u = answered
      BY <1>5, <2>1, <2>2 DEF RequestFromServer
    <3> QED BY <1>4, <3>1
  <2>3. CASE ~Overlaps(t) /\ (e.kind = "text" \/ RequestedNative(t, e))
    <3> DEFINE F == {"owes", "hasRequest", "request", "target"}
    <3>1. /\ Emits(t, u, F) /\ NoNewIncr(t, u) /\ u.target = t.target
          /\ u.hasRequest = TRUE /\ u.request.id = e.id
      <4>1. e.id \in XIds \cup {Self}
        OBVIOUS
      <4>2. LET v == RequestFromServer(t, e)
            IN /\ Emits(t, v, F) /\ NoNewIncr(t, v)
               /\ e.id # Self => v.target = t.target
               /\ v.hasRequest = TRUE /\ v.request.id = e.id
        BY <1>1, <1>7, <2>3, <4>1, FromServerEmits
      <4> HIDE DEF u
      <4> QED BY <1>0, <2>1, <4>2
    <3> HIDE DEF u
    <3>2. Changes(t, u, {"owes", "hasRequest", "request"})
      BY <1>1, <3>1 DEF Emits, Changes, ClipFields
    <3>3. t.hasRequest = FALSE
      BY <1>1, <2>3 DEF Overlaps, ClipData
    <3>4. RequestInv(u)
      BY <1>1, <1>2, <3>1, <3>2, <3>3, PlacedWithServer
    <3>5. F \cap ProbeRelated = {}
      BY DEF ProbeRelated
    <3>6. ClipInv(u)
      BY <1>3, <3>1, <3>4, <3>5
    <3> QED BY <3>6 DEF u
  <2> QED BY <2>2, <2>3
<1> QED BY <1>6, <1>7 DEF Kinds

-----------------------------------------------------------------------------
(* The actions *)

(* xwin.c hands the next event to xclip.c.                                   *)
LEMMA ClipEventStep == ClipInv(cb) /\ ClipEvent => ClipInv(cb')
<1> SUFFICES ASSUME ClipInv(cb), ClipEvent PROVE ClipInv(cb')
  OBVIOUS
<1>1. PICK c, d : c = cb /\ d = cb'
  OBVIOUS
<1> DEFINE e == Head(c.events)
           t == [c EXCEPT !.events = Tail(@)]
<1>2. ClipInv(c) /\ ClipData(c) /\ c.events # << >>
  BY <1>1 DEF ClipEvent, ClipInv
<1>3. d = CASE e.type = "notify" -> HandleSelectionNotify(t, e)
            [] e.type = "request" -> HandleSelectionRequest(t, e)
            [] e.type = "clear" -> HandleSelectionClear(t)
            [] e.type = "change" -> HandleXFixesSelectionNotify(t, e)
            [] OTHER -> HandlePropertyNotify(t, e)
  BY <1>1 DEF ClipEvent
<1>4. DOMAIN c = ClipFields /\ c.events \in Seq(ClipEvents)
  BY <1>2 DEF ClipData
<1>5. DOMAIN t = ClipFields /\ t.events = Tail(c.events)
      /\ \A f \in ClipFields \ {"events"} : t[f] = c[f]
  BY <1>4 DEF ClipFields
<1>6. e = c.events[1] /\ e \in ClipEvents
  BY <1>2, <1>4
<1> HIDE DEF e, t
<1>7. /\ t.events \in Seq(ClipEvents) /\ Len(c.events) = Len(t.events) + 1
      /\ \A i \in 1 .. Len(t.events) : t.events[i] = c.events[i + 1]
  BY <1>2, <1>4, <1>5
<1>8. ClipData(t)
  BY <1>2, <1>5, <1>7 DEF ClipData, ClipFields
<1>9. Popped(c, t, e)
  BY <1>2, <1>4, <1>5, <1>6, <1>7, <1>8 DEF Popped, Changes
<1>10. CASE e.type = "notify"
  BY <1>1, <1>2, <1>3, <1>9, <1>10, NotifyStep
<1>11. CASE e.type = "request"
  <2>1. e.id \in XIds \cup {Self} /\ e.sel \in Sels /\ e.kind \in Kinds
    BY <1>6, <1>11 DEF ClipEvents
  <2>2. d = HandleSelectionRequest(t, e)
    BY <1>3, <1>11
  <2> QED BY <1>1, <1>2, <1>9, <1>11, <2>1, <2>2, OwnRequestStep, ForeignRequestStep
<1>12. CASE e.type = "clear"
  <2>1. d = HandleSelectionClear(t)
    BY <1>3, <1>12
  <2> QED BY <1>1, <1>2, <1>9, <1>12, <2>1, ChangeStep
<1>13. CASE e.type = "change"
  <2>1. d = HandleXFixesSelectionNotify(t, e)
    BY <1>3, <1>13
  <2> QED BY <1>1, <1>2, <1>9, <1>13, <2>1, ChangeStep
<1>14. CASE e.type \in {"root", "property"}
  <2>1. d = HandlePropertyNotify(t, e)
    BY <1>3, <1>14
  <2> QED BY <1>1, <1>2, <1>9, <1>14, <2>1, PropertyStep
<1>15. e.type \in {"notify", "request", "clear", "change", "root", "property"}
  BY <1>6 DEF ClipEvents
<1> QED BY <1>10, <1>11, <1>12, <1>13, <1>14, <1>15

(* The server's answer to a request that waited for it.                      *)
LEMMA AnswerStep ==
    ASSUME NEW c, ClipInv(c), c.owes = TRUE, NEW t, t = [c EXCEPT !.owes = FALSE],
           NEW u, u = HandleData(t) \/ u = RequestFailed(t)
    PROVE  ClipInv(u)
<1> DEFINE r == c.request
           F == {"owes", "hasRequest", "prop", "target", "events", "answers"}
<1>1. ClipData(c) /\ RequestInv(c) /\ DOMAIN c = ClipFields /\ r \in Requests
      /\ c.hasRequest = TRUE /\ c.answers \in [XIds -> Nat]
  BY DEF ClipInv, ClipData, RequestInv
<1>2. r.id \in XIds \cup {Self} /\ r.sel \in Sels /\ r.kind \in {"text", "native"}
  BY <1>1 DEF Requests
<1>3. DOMAIN t = ClipFields /\ t.owes = FALSE
      /\ \A f \in ClipFields \ {"owes"} : t[f] = c[f]
  BY <1>1 DEF ClipFields
<1>4. t.request = r /\ t.answers = c.answers
  BY <1>3 DEF ClipFields
<1>5. ClipData(t)
  <2>1. t.owes \in BOOLEAN
    BY <1>3
  <2> QED BY <1>1, <1>3, <2>1 DEF ClipData, ClipFields
<1>6. Emits(c, t, {"owes"})
  BY <1>1, <1>3, <1>5, QuietEmits DEF Changes
<1> HIDE DEF r
<1>7. PICK w : /\ w = ProvideSelection(t, r, "text") \/ w = RefuseSelection(t, r)
               /\ u = [w EXCEPT !.hasRequest = FALSE]
  BY <1>4 DEF HandleData, RequestFailed
<1>8. F \cap ProbeRelated = {}
  BY DEF ProbeRelated
<1>9. CASE r.id = Self
  <2>1. w = XEvent(WriteProperty(t, r.sel, r.kind, "text"), Notify(r.sel, r.kind, TRUE))
        \/ w = XEvent(t, Notify(r.sel, r.kind, FALSE))
    BY <1>7, <1>9 DEF ProvideSelection, RefuseSelection
  <2>2. r.kind \in Kinds /\ r.kind # "timestamp" /\ "text" \in PropTargets
    BY <1>2 DEF Kinds, PropTargets
  <2>3. Emits(t, w, {"prop", "target", "events"}) /\ NoNewIncr(t, w)
    <3>1. CASE w = XEvent(WriteProperty(t, r.sel, r.kind, "text"), Notify(r.sel, r.kind, TRUE))
      <4>1. Emits(t, w, {"prop", "target", "events"}) /\ Written(t, w, r.kind, "text")
        BY <1>2, <1>5, <2>2, <3>1, WroteEmits
      <4> QED BY <2>2, <4>1 DEF Written, NoNewIncr
    <3>2. CASE w = XEvent(t, Notify(r.sel, r.kind, FALSE))
      <4>1. Emits(t, w, {"events"})
        BY <1>2, <1>5, <2>2, <3>2, NotifyEmits
      <4>2. w.target = t.target
        <5>1. \A f \in ClipFields \ {"events"} : w[f] = t[f]
          BY <1>5, <4>1, EmitsSame
        <5> QED BY <5>1 DEF ClipFields
      <4>3. Emits(t, w, {"prop", "target", "events"})
        BY <4>1, EmitsMore
      <4> QED BY <4>2, <4>3 DEF NoNewIncr
    <3> QED BY <2>1, <3>1, <3>2
  <2>4. ClipData(w) /\ DOMAIN w = ClipFields
    BY <2>3 DEF Emits, ClipData
  <2>5. DOMAIN u = ClipFields /\ u.hasRequest = FALSE
        /\ \A f \in ClipFields \ {"hasRequest"} : u[f] = w[f]
    BY <1>7, <2>4 DEF ClipFields
  <2>6. ClipData(u)
    <3>1. u.hasRequest \in BOOLEAN
      BY <2>5
    <3>2. \A f \in {"hasRequest"} : u[f] \in ClipSets[f]
      BY <3>1, ClipSetsAre
    <3>3. Retyped(w, u, {"hasRequest"})
      BY <2>4, <2>5, <3>2, Zenon DEF Retyped
    <3> QED BY <2>4, <2>5, <3>3, FieldsTyped
  <2>7. Emits(w, u, {"hasRequest"})
    BY <2>4, <2>5, <2>6, QuietEmits DEF Changes
  <2>8. Emits(c, u, F)
    <3>1. Emits(c, w, {"owes"} \cup {"prop", "target", "events"})
      BY <1>1, <1>6, <2>3, EmitsTrans
    <3>2. Emits(c, u, ({"owes"} \cup {"prop", "target", "events"}) \cup {"hasRequest"})
      BY <1>1, <2>7, <3>1, EmitsTrans
    <3> QED BY <3>2, EmitsMore
  <2>9. NoNewIncr(c, u)
    BY <1>3, <2>3, <2>5 DEF NoNewIncr, ClipFields
  <2>10. Self \notin XIds
    BY ClipConstants DEF XIds, Self
  <2>11. RequestInv(t)
    <3>1. \A x \in XIds : Awaits(t, x) <=> Awaits(c, x)
      BY <1>3 DEF Awaits, ClipFields
    <3>2. t.events = c.events /\ t.issued = c.issued /\ t.inputs = c.inputs
      BY <1>3 DEF ClipFields
    <3>3. t.issued <= t.inputs /\ t.inputs <= MaxClipInputs
      BY <1>1, <3>2 DEF RequestInv
    <3> QED BY <1>1, <1>3, <1>4, <3>1, <3>2, <3>3, RequestsSame
  <2>12. RequestInv(w)
    <3>1. {"prop", "target", "events"} \cap RequestFields = {}
      BY DEF RequestFields
    <3> QED BY <1>5, <2>3, <2>11, <3>1, RequestsKept
  <2>13. w.request.id = Self /\ w.owes = FALSE
    BY <1>3, <1>4, <1>5, <1>9, <2>3, EmitsSame DEF ClipFields
  <2>14. \A x \in XIds : ~Awaits(u, x) /\ ~Awaits(w, x)
    BY <2>5, <2>10, <2>13 DEF Awaits
  <2>15. /\ u.events = w.events /\ u.answers = w.answers /\ u.issued = w.issued
         /\ u.inputs = w.inputs /\ u.owes = FALSE
    BY <2>5, <2>13 DEF ClipFields
  <2>16. RequestInv(u)
    <3>1. u.issued <= u.inputs /\ u.inputs <= MaxClipInputs
      BY <2>12, <2>15 DEF RequestInv
    <3> QED BY <2>12, <2>14, <2>15, <3>1, RequestsSame
  <2> QED BY <1>8, <2>8, <2>9, <2>16, ClipKeptBut
<1>10. CASE r.id \in XIds
  <2> DEFINE v == [t EXCEPT !.hasRequest = FALSE]
  <2>0. r.id # Self
    BY <1>10, ClipConstants DEF XIds, Self
  <2>1. w = [t EXCEPT !.answers[r.id] = @ + 1]
    BY <1>7, <2>0 DEF ProvideSelection, RefuseSelection
  <2>2. DOMAIN v = ClipFields /\ v.hasRequest = FALSE
        /\ \A f \in ClipFields \ {"hasRequest"} : v[f] = t[f]
    BY <1>3 DEF ClipFields
  <2> HIDE DEF v
  <2>3. ClipData(v)
    <3>1. v.hasRequest \in BOOLEAN
      BY <2>2
    <3>2. \A f \in {"hasRequest"} : v[f] \in ClipSets[f]
      BY <3>1, ClipSetsAre
    <3>3. Retyped(t, v, {"hasRequest"})
      BY <2>2, <3>2, Zenon DEF Retyped
    <3>4. ClipData(t)
      BY <1>5
    <3> QED BY <3>3, <3>4, FieldsTyped
  <2>4. /\ v.events = c.events /\ v.answers = c.answers /\ v.issued = c.issued
        /\ v.inputs = c.inputs /\ v.owes = FALSE /\ v.hasRequest = FALSE
    BY <1>3, <2>2 DEF ClipFields
  <2>5. /\ \A i, x : AskedAt(v, i, x) <=> AskedAt(c, i, x)
        /\ \A x : ~Awaits(v, x) /\ (Awaits(c, x) <=> x = r.id)
    BY <1>1, <2>4 DEF AskedAt, Awaits, r
  <2>6. Unplaced(v, r.id)
    <3>1. r.id <= v.issued /\ v.answers[r.id] = 0
      BY <1>1, <1>10, <2>4, <2>5 DEF RequestInv
    <3>2. ASSUME NEW x \in XIds, NEW i \in 1 .. Len(v.events), AskedAt(v, i, x)
          PROVE  /\ x # r.id /\ x <= v.issued /\ v.answers[x] = 0 /\ ~Awaits(v, x)
                 /\ \A j \in 1 .. Len(v.events) : AskedAt(v, j, x) => j = i
      <4>1. AskedAt(c, i, x) /\ i \in 1 .. Len(c.events)
        BY <2>4, <2>5, <3>2
      <4>2. /\ x <= c.issued /\ c.answers[x] = 0 /\ ~Awaits(c, x)
            /\ \A j \in 1 .. Len(c.events) : AskedAt(c, j, x) => j = i
        BY <1>1, <4>1 DEF RequestInv
      <4> QED BY <2>4, <2>5, <4>2
    <3>3. ASSUME NEW x \in XIds, x # r.id
          PROVE  IF x <= v.issued
                 THEN \/ v.answers[x] = 1
                      \/ v.answers[x] = 0 /\ (\/ Awaits(v, x)
                                              \/ \E i \in 1 .. Len(v.events) : AskedAt(v, i, x))
                 ELSE v.answers[x] = 0
      <4>1. IF x <= c.issued
            THEN \/ c.answers[x] = 1
                 \/ c.answers[x] = 0 /\ (\/ Awaits(c, x)
                                         \/ \E i \in 1 .. Len(c.events) : AskedAt(c, i, x))
            ELSE c.answers[x] = 0
        BY <1>1 DEF RequestInv
      <4> QED BY <2>4, <2>5, <3>3, <4>1
    <3>4. v.issued <= v.inputs /\ v.inputs <= MaxClipInputs
      BY <1>1, <2>4 DEF RequestInv
    <3> QED BY <2>4, <2>5, <3>1, <3>2, <3>3, <3>4 DEF Unplaced
  <2>7. /\ DOMAIN u = ClipFields /\ u.answers = [t.answers EXCEPT ![r.id] = @ + 1]
        /\ u.hasRequest = FALSE
        /\ \A f \in ClipFields \ {"answers", "hasRequest"} : u[f] = t[f]
    BY <1>3, <1>7, <2>1 DEF ClipFields
  <2>8. Changes(v, u, {"answers"})
    BY <2>2, <2>7 DEF Changes, ClipFields
  <2>9. u.answers = [v.answers EXCEPT ![r.id] = @ + 1]
    BY <1>4, <2>4, <2>7
  <2>10. RequestInv(u) /\ ClipData(u)
    BY <1>10, <2>3, <2>6, <2>8, <2>9, PlacedAnswered
  <2>11. Changes(c, u, {"owes", "answers", "hasRequest"})
    BY <1>1, <1>3, <2>7 DEF Changes, ClipFields
  <2>12. Emits(c, u, {"owes", "answers", "hasRequest"})
    BY <1>1, <2>10, <2>11, QuietEmits
  <2>13. Emits(c, u, F)
    BY <2>12, EmitsMore
  <2>14. NoNewIncr(c, u)
    BY <1>3, <2>7 DEF NoNewIncr, ClipFields
  <2> QED BY <1>8, <2>10, <2>13, <2>14, ClipKeptBut
<1> QED BY <1>2, <1>9, <1>10

(* What the server or another client starts is counted.                      *)
LEMMA InputKeeps ==
    ASSUME NEW c, ClipInv(c), c.inputs < MaxClipInputs, NEW t,
           DOMAIN t = DOMAIN c, t.inputs = c.inputs + 1,
           t.owes = c.owes \/ t.owes = FALSE,
           \A f \in ClipFields \ {"inputs", "owes"} : t[f] = c[f]
    PROVE  ClipInv(t)
<1>1. ClipData(c) /\ RequestInv(c) /\ DOMAIN c = ClipFields /\ c.inputs \in Nat
      /\ c.issued \in Nat
  BY DEF ClipInv, ClipData
<1>2. t.owes \in BOOLEAN
  BY <1>1 DEF ClipData
<1>3. ClipData(t)
  <2>1. DOMAIN t = ClipFields /\ t.inputs \in Nat
    BY <1>1
  <2>2. \A f \in ClipFields \ {"inputs", "owes"} : t[f] = c[f]
    OBVIOUS
  <2> QED BY <1>1, <1>2, <2>1, <2>2 DEF ClipData, ClipFields
<1>4. Emits(c, t, {"inputs", "owes"})
  BY <1>1, <1>3, QuietEmits DEF Changes
<1>5. /\ t.events = c.events /\ t.answers = c.answers /\ t.issued = c.issued
      /\ t.hasRequest = c.hasRequest /\ t.request = c.request /\ t.target = c.target
  BY DEF ClipFields
<1>6. t.issued <= t.inputs /\ t.inputs <= MaxClipInputs
  BY <1>1, <1>5, ClipConstants DEF RequestInv
<1>7. RequestInv(t)
  <2>1. \A x \in XIds : Awaits(t, x) <=> Awaits(c, x)
    BY <1>5 DEF Awaits
  <2>2. t.owes = TRUE => t.hasRequest = TRUE
    BY <1>1, <1>5 DEF RequestInv
  <2> QED BY <1>1, <1>5, <1>6, <2>1, <2>2, RequestsSame
<1>8. {"inputs", "owes"} \cap ProbeRelated = {}
  BY DEF ProbeRelated
<1> QED BY <1>4, <1>5, <1>7, <1>8, ClipKeptBut DEF NoNewIncr

(* The server announces formats: both selections become ours.                *)
LEMMA FormatsStep ==
    ASSUME NEW c, ClipInv(c), c.inputs < MaxClipInputs
    PROVE  ClipInv(FormatAnnounce([c EXCEPT !.inputs = @ + 1]))
<1> DEFINE t == [c EXCEPT !.inputs = @ + 1]
           ours == [t EXCEPT !.owner = [s \in Sels |-> "us"], !.time = @ + 1,
                             !.stamp = [s \in Sels |-> t.time + 1]]
           p == [type |-> "change", sel |-> "primary"]
           q == [type |-> "change", sel |-> "clipboard"]
           r == [type |-> "root"]
           F == {"owner", "time", "stamp", "events"}
<1>1. DOMAIN c = ClipFields
  BY DEF ClipInv, ClipData
<1>2. DOMAIN t = ClipFields /\ t.inputs = c.inputs + 1
      /\ \A f \in ClipFields \ {"inputs"} : t[f] = c[f]
  BY <1>1 DEF ClipFields
<1>3. FormatAnnounce(t) = XEvent(XEvent(XEvent(ours, p), q), r)
  BY DEF FormatAnnounce, NotifyChange
<1> HIDE DEF t
<1>4. ClipInv(t)
  BY <1>1, <1>2, InputKeeps DEF ClipFields
<1>5. ClipData(t) /\ t.time \in Nat
  BY <1>4 DEF ClipInv, ClipData
<1>6. /\ DOMAIN ours = ClipFields /\ ours.owner = [s \in Sels |-> "us"]
      /\ ours.time = t.time + 1 /\ ours.stamp = [s \in Sels |-> t.time + 1]
      /\ \A f \in ClipFields \ {"owner", "time", "stamp"} : ours[f] = t[f]
  BY <1>2 DEF ClipFields
<1> HIDE DEF ours
<1>7. ClipData(ours)
  <2>1. ours.owner \in [Sels -> Owners]
    BY <1>6 DEF Owners
  <2>2. ours.time \in Nat /\ ours.stamp \in [Sels -> Nat]
    BY <1>5, <1>6
  <2> QED BY <1>5, <1>6, <2>1, <2>2 DEF ClipData, ClipFields
<1>8. Emits(t, ours, {"owner", "time", "stamp"})
  BY <1>2, <1>5, <1>6, <1>7, QuietEmits DEF Changes
<1>9. p \in ClipEvents /\ q \in ClipEvents /\ r \in ClipEvents
      /\ p.type # "request" /\ q.type # "request" /\ r.type # "request"
  BY DEF ClipEvents, Sels
<1> HIDE DEF p, q, r
<1> DEFINE u1 == XEvent(ours, p)
           u2 == XEvent(u1, q)
           u == XEvent(u2, r)
<1>10. Emits(ours, u1, {"events"}) /\ ClipData(u1)
  BY <1>7, <1>9, XEventEmits DEF Emits
<1> HIDE DEF u1
<1>11. Emits(u1, u2, {"events"}) /\ ClipData(u2)
  BY <1>9, <1>10, XEventEmits DEF Emits
<1> HIDE DEF u2
<1>12. Emits(u2, u, {"events"}) /\ ClipData(u)
  BY <1>9, <1>11, XEventEmits DEF Emits
<1> HIDE DEF u
<1>13. Emits(ours, u, {"events"} \cup ({"events"} \cup {"events"}))
  BY <1>7, <1>10, <1>11, <1>12, EmitsTrans
<1>14. Emits(t, u, F)
  <2>1. Emits(ours, u, {"events"})
    BY <1>13, EmitsMore
  <2>2. Emits(t, u, {"owner", "time", "stamp"} \cup {"events"})
    BY <1>5, <1>8, <2>1, EmitsTrans
  <2> QED BY <2>2, EmitsMore
<1>15. u.owner = [s \in Sels |-> "us"]
  <2>1. Emits(ours, u, {"events"})
    BY <1>13, EmitsMore
  <2> QED BY <1>6, <1>7, <2>1, EmitsSame DEF ClipFields
<1>16. /\ u.target = t.target /\ u.got = t.got /\ u.probing = t.probing
       /\ u.responses = t.responses /\ u.format = t.format /\ u.asked = t.asked
  BY <1>5, <1>14, EmitsSame DEF ClipFields
<1>17. IncrInv(u) /\ ProbeInv(u) /\ ReplyInv(u)
  BY <1>4, <1>5, <1>14, <1>16, IncrKept, ProbeKept, RepliesKept DEF ClipInv, NoNewIncr
<1>18. AnnounceInv(u)
  BY <1>15 DEF AnnounceInv, WeOwnAll, PrimaryOwner, Sels
<1>19. RequestInv(u)
  <2>1. F \cap RequestFields = {}
    BY DEF RequestFields
  <2> QED BY <1>4, <1>5, <1>14, <2>1, RequestsKept DEF ClipInv
<1>20. ClipInv(u)
  BY <1>12, <1>17, <1>18, <1>19 DEF ClipInv
<1> QED BY <1>3, <1>20 DEF u, u1, u2, t

(* Another client takes one selection.                                       *)
LEMMA TakenEmits ==
    ASSUME NEW t, ClipData(t), NEW s \in Sels, NEW o \in Owners
    PROVE  /\ Emits(t, Taken(t, s, o), {"owner", "stamp", "events"})
           /\ \E i \in 1 .. Len(Taken(t, s, o).events) :
                  /\ Taken(t, s, o).events[i].type = "change"
                  /\ Taken(t, s, o).events[i].sel = s
<1> DEFINE p == [type |-> "clear", sel |-> s]
           q == [type |-> "change", sel |-> s]
           lost == IF t.owner[s] = "us" THEN XEvent(t, p) ELSE t
           v == [lost EXCEPT !.owner[s] = o, !.stamp[s] = t.time]
           u == Taken(t, s, o)
<1>1. u = XEvent(v, q)
  BY DEF Taken
<1>2. p \in ClipEvents /\ q \in ClipEvents /\ p.type # "request" /\ q.type = "change"
      /\ q.sel = s
  BY DEF ClipEvents
<1> HIDE DEF p, q, u
<1>3. Emits(t, lost, {"events"})
  <2>1. Emits(t, XEvent(t, p), {"events"})
    BY <1>2, XEventEmits
  <2>2. Emits(t, t, {"events"})
    <3>1. Emits(t, t, {})
      BY QuietEmits DEF Changes
    <3> QED BY <3>1, EmitsMore
  <2> QED BY <2>1, <2>2
<1> HIDE DEF lost
<1>4. ClipData(lost) /\ DOMAIN lost = ClipFields /\ t.time \in Nat
      /\ lost.owner \in [Sels -> Owners] /\ lost.stamp \in [Sels -> Nat]
  BY <1>3 DEF Emits, ClipData
<1>5. /\ DOMAIN v = ClipFields /\ v.owner = [lost.owner EXCEPT ![s] = o]
      /\ v.stamp = [lost.stamp EXCEPT ![s] = t.time]
      /\ \A f \in ClipFields \ {"owner", "stamp"} : v[f] = lost[f]
  BY <1>4 DEF ClipFields
<1> HIDE DEF v
<1>6. v.owner \in [Sels -> Owners] /\ v.stamp \in [Sels -> Nat]
  BY <1>4, <1>5
<1>7. ClipData(v)
  <2>1. \A f \in {"owner", "stamp"} : v[f] \in ClipSets[f]
    BY <1>6, ClipSetsAre
  <2>2. Retyped(lost, v, {"owner", "stamp"})
    BY <1>4, <1>5, <2>1, Zenon DEF Retyped
  <2> QED BY <1>4, <1>5, <2>2, FieldsTyped
<1>8. Emits(lost, v, {"owner", "stamp"})
  BY <1>4, <1>5, <1>7, QuietEmits DEF Changes
<1>9. /\ Emits(v, u, {"events"}) /\ Len(u.events) = Len(v.events) + 1
      /\ u.events[Len(v.events) + 1] = q
  BY <1>1, <1>2, <1>7, XEventEmits
<1>10. Emits(t, u, {"owner", "stamp", "events"})
  <2>1. Emits(t, v, {"events"} \cup {"owner", "stamp"})
    BY <1>3, <1>8, EmitsTrans
  <2>2. Emits(t, u, ({"events"} \cup {"owner", "stamp"}) \cup {"events"})
    BY <1>9, <2>1, EmitsTrans
  <2> QED BY <2>2, EmitsMore
<1>11. Len(v.events) + 1 \in 1 .. Len(u.events)
  <2>1. v.events \in Seq(ClipEvents)
    BY <1>7 DEF ClipData
  <2> QED BY <1>9, <2>1
<1> QED BY <1>2, <1>9, <1>10, <1>11 DEF u

(* The change is on its way to us.                                           *)
LEMMA OwnerChangesStep ==
    ASSUME NEW c, ClipInv(c), c.inputs < MaxClipInputs, NEW t, NEW u,
           t = [c EXCEPT !.inputs = @ + 1, !.time = @ + 1, !.current = FALSE],
           \/ \E s \in {"clipboard"} \cup (IF ClipAutoMode THEN Sels ELSE {}), o \in {"app", "none"} :
                  u = Taken(t, s, o)
           \/ u = NotifyChange(Taken(Taken(t, "primary", "fellow"), "clipboard", "fellow"))
    PROVE  ClipInv(u)
<1> DEFINE b == [c EXCEPT !.inputs = @ + 1]
           F == {"time", "current", "owner", "stamp", "events"}
<1>1. DOMAIN c = ClipFields /\ c.time \in Nat
  BY DEF ClipInv, ClipData
<1>2. DOMAIN b = ClipFields /\ b.inputs = c.inputs + 1
      /\ \A f \in ClipFields \ {"inputs"} : b[f] = c[f]
  BY <1>1 DEF ClipFields
<1>3. /\ DOMAIN t = ClipFields /\ t.inputs = c.inputs + 1 /\ t.time = c.time + 1
      /\ t.current = FALSE
      /\ \A f \in ClipFields \ {"inputs", "time", "current"} : t[f] = c[f]
  BY <1>1 DEF ClipFields
<1> HIDE DEF b
<1>4. ClipInv(b)
  BY <1>1, <1>2, InputKeeps DEF ClipFields
<1>5. ClipData(b)
  BY <1>4 DEF ClipInv
<1>6. ClipData(t)
  <2>1. t.time \in Nat
    BY <1>1, <1>3
  <2>2. t.current \in BOOLEAN
    BY <1>3
  <2>3. DOMAIN t = ClipFields /\ \A f \in ClipFields \ {"time", "current"} : t[f] = b[f]
    BY <1>2, <1>3
  <2>4. \A f \in {"time", "current"} : t[f] \in ClipSets[f]
    BY <2>1, <2>2, ClipSetsAre
  <2>5. Retyped(b, t, {"time", "current"})
    BY <1>5, <2>3, <2>4, Zenon DEF Retyped
  <2> QED BY <1>5, <2>3, <2>5, FieldsTyped
<1>7. Emits(b, t, {"time", "current"})
  <2>1. Changes(b, t, {"time", "current"})
    BY <1>2, <1>3 DEF Changes
  <2> QED BY <1>5, <1>6, <2>1, QuietEmits
<1>8. /\ Emits(t, u, {"owner", "stamp", "events"})
      /\ \E i \in 1 .. Len(u.events) : ChangeAt(u, i)
  <2>1. ASSUME NEW s \in {"clipboard"} \cup (IF ClipAutoMode THEN Sels ELSE {}),
               NEW o \in {"app", "none"}, u = Taken(t, s, o)
        PROVE  /\ Emits(t, u, {"owner", "stamp", "events"})
               /\ \E i \in 1 .. Len(u.events) : ChangeAt(u, i)
    <3>1. s \in Sels /\ o \in Owners /\ (s = "clipboard" \/ ClipAutoMode)
      BY DEF Sels, Owners
    <3>2. /\ Emits(t, u, {"owner", "stamp", "events"})
          /\ \E i \in 1 .. Len(u.events) : u.events[i].type = "change" /\ u.events[i].sel = s
      BY <1>6, <2>1, <3>1, TakenEmits
    <3> QED BY <3>1, <3>2 DEF ChangeAt
  <2>2. ASSUME u = NotifyChange(Taken(Taken(t, "primary", "fellow"), "clipboard", "fellow"))
        PROVE  /\ Emits(t, u, {"owner", "stamp", "events"})
               /\ \E i \in 1 .. Len(u.events) : ChangeAt(u, i)
    <3> DEFINE v == Taken(t, "primary", "fellow")
               w == Taken(v, "clipboard", "fellow")
               r == [type |-> "root"]
    <3>1. "primary" \in Sels /\ "clipboard" \in Sels /\ "fellow" \in Owners
      BY DEF Sels, Owners
    <3>2. r \in ClipEvents /\ r.type # "request"
      BY DEF ClipEvents
    <3>3. u = XEvent(w, r)
      BY <2>2 DEF NotifyChange
    <3> HIDE DEF r
    <3>4. Emits(t, v, {"owner", "stamp", "events"}) /\ ClipData(v)
      BY <1>6, <3>1, TakenEmits DEF Emits
    <3> HIDE DEF v
    <3>5. /\ Emits(v, w, {"owner", "stamp", "events"}) /\ ClipData(w)
          /\ \E i \in 1 .. Len(w.events) :
                 w.events[i].type = "change" /\ w.events[i].sel = "clipboard"
      BY <3>1, <3>4, TakenEmits DEF Emits
    <3> HIDE DEF w
    <3>6. Emits(w, u, {"events"})
      BY <3>2, <3>3, <3>5, XEventEmits
    <3>7. Emits(t, w, {"owner", "stamp", "events"} \cup {"owner", "stamp", "events"})
      BY <1>6, <3>4, <3>5, EmitsTrans
    <3>8. Emits(t, u, ({"owner", "stamp", "events"} \cup {"owner", "stamp", "events"}) \cup {"events"})
      BY <1>6, <3>6, <3>7, EmitsTrans
    <3>9. Emits(t, u, {"owner", "stamp", "events"})
      BY <3>8, EmitsMore
    <3>10. PICK i \in 1 .. Len(w.events) :
               w.events[i].type = "change" /\ w.events[i].sel = "clipboard"
      BY <3>5
    <3>11. i \in 1 .. Len(u.events) /\ u.events[i] = w.events[i]
      BY <3>5, <3>6, EmitsKeeps
    <3> QED BY <3>9, <3>10, <3>11 DEF ChangeAt
  <2> QED BY <2>1, <2>2
<1>9. Emits(b, u, F)
  <2>1. Emits(b, u, {"time", "current"} \cup {"owner", "stamp", "events"})
    BY <1>5, <1>7, <1>8, EmitsTrans
  <2> QED BY <2>1, EmitsMore
<1>10. /\ u.target = b.target /\ u.got = b.got /\ u.probing = b.probing
       /\ u.responses = b.responses /\ u.format = b.format /\ u.asked = b.asked
  BY <1>5, <1>9, EmitsSame DEF ClipFields
<1>11. IncrInv(u) /\ ProbeInv(u) /\ ReplyInv(u)
  BY <1>4, <1>5, <1>9, <1>10, IncrKept, ProbeKept, RepliesKept DEF ClipInv, NoNewIncr
<1>12. AnnounceInv(u)
  BY <1>8 DEF AnnounceInv
<1>13. RequestInv(u)
  <2>1. F \cap RequestFields = {}
    BY DEF RequestFields
  <2> QED BY <1>4, <1>5, <1>9, <2>1, RequestsKept DEF ClipInv
<1> QED BY <1>9, <1>11, <1>12, <1>13 DEF ClipInv, Emits

(* The server pastes: one more reply is due, whether or not an earlier paste *)
(* still waits for its own.                                                  *)
LEMMA PasteStep ==
    ASSUME NEW c, ClipInv(c), c.inputs < MaxClipInputs
    PROVE  ClipInv(RequestData([c EXCEPT !.inputs = @ + 1, !.asked = @ + 1]))
<1> DEFINE t == [c EXCEPT !.inputs = @ + 1, !.asked = @ + 1]
           b == [c EXCEPT !.inputs = @ + 1]
           ask == [t EXCEPT !.format = TRUE]
           clear == ClearTargetProps(ask)
           u == RequestData(t)
<1>1. DOMAIN c = ClipFields /\ c.asked \in Nat /\ c.responses \in Nat
  BY DEF ClipInv, ClipData
<1>2. DOMAIN b = ClipFields /\ b.inputs = c.inputs + 1
      /\ \A f \in ClipFields \ {"inputs"} : b[f] = c[f]
  BY <1>1 DEF ClipFields
<1>3. /\ DOMAIN ask = ClipFields /\ ask.inputs = c.inputs + 1 /\ ask.asked = c.asked + 1
      /\ ask.format = TRUE
      /\ \A f \in ClipFields \ {"inputs", "asked", "format"} : ask[f] = c[f]
  BY <1>1 DEF ClipFields
<1>4. /\ t.probing = ask.probing /\ t.fellow = ask.fellow
      /\ NoOwner(t) <=> NoOwner(ask)
  BY <1>1 DEF ClipFields, NoOwner, PrimaryOwner
<1>5. u = IF t.probing THEN SendEmptyResponse(ask)
          ELSE IF t.fellow
          THEN Convert(PropertyWritten([clear EXCEPT !.target = "format"]), "primary", "native")
          ELSE IF NoOwner(t) THEN SendEmptyResponse(clear)
          ELSE AskTargets(clear)
  BY DEF RequestData
<1> HIDE DEF b, ask, t, u
<1>6. ClipInv(b)
  BY <1>1, <1>2, InputKeeps DEF ClipFields
<1>7. ClipData(b)
  BY <1>6 DEF ClipInv
<1>8. ClipData(ask)
  <2>1. ask.asked \in Nat
    BY <1>1, <1>3
  <2>2. ask.format \in BOOLEAN
    BY <1>3
  <2>3. DOMAIN ask = ClipFields /\ \A f \in ClipFields \ {"asked", "format"} : ask[f] = b[f]
    BY <1>2, <1>3
  <2> QED BY <1>7, <2>1, <2>2, <2>3 DEF ClipData, ClipFields
<1>9. Emits(b, ask, {"asked", "format"})
  <2>1. Changes(b, ask, {"asked", "format"})
    BY <1>2, <1>3 DEF Changes
  <2> QED BY <1>7, <1>8, <2>1, QuietEmits
<1>10. ReplyInv(ask)
  <2>1. ask.responses = c.responses
    BY <1>3 DEF ClipFields
  <2>2. c.responses + (IF c.format = TRUE THEN 1 ELSE 0) <= c.asked
    BY DEF ClipInv, ReplyInv
  <2>3. c.responses <= c.asked
    BY <1>1, <2>2
  <2> QED BY <1>1, <1>3, <2>1, <2>3 DEF ReplyInv
<1>11. ClipInv(ask)
  <2>1. /\ ask.got = b.got /\ ask.probing = b.probing /\ ask.owner = b.owner
        /\ ask.current = b.current /\ ask.target = b.target
    BY <1>2, <1>3 DEF ClipFields
  <2>2. {"asked", "format"} \cap RequestFields = {}
    BY DEF RequestFields
  <2> QED BY <1>6, <1>9, <1>10, <2>1, <2>2, ClipKept DEF NoNewIncr
<1>12. ask.probing \in BOOLEAN
  BY <1>8 DEF ClipData
<1>13. CASE ask.probing = TRUE
  <2>1. u = SendResponse(ask)
    BY <1>4, <1>5, <1>13 DEF SendEmptyResponse
  <2>2. ClipInv(u)
    BY <1>11, <2>1, ResponseKeeps
  <2> QED BY <2>2 DEF u, t
<1>14. CASE ask.probing = FALSE
  <2>1. ClipInv(clear)
    BY <1>8, <1>11, <1>14, ClearIdle DEF ClipInv
  <2>2. ClipData(clear) /\ clear.target = "none" /\ clear.probing = FALSE
    <3>1. Emits(ask, clear, {"prop", "target"}) /\ clear.target = "none"
      BY <1>8, ClearEmits
    <3>2. clear.probing = ask.probing
      BY <1>8, <3>1, EmitsSame DEF ClipFields
    <3> QED BY <1>14, <2>1, <3>1, <3>2 DEF ClipInv
  <2> HIDE DEF clear
  <2>3. ASSUME NEW v, NEW F, Emits(clear, v, F), v.target # "INCR",
               F \cap {"probing", "owner", "current", "responses", "format", "asked"} = {},
               F \cap RequestFields = {}
        PROVE  ClipInv(v)
    <3>1. /\ v.probing = clear.probing /\ v.owner = clear.owner /\ v.current = clear.current
          /\ v.responses = clear.responses /\ v.format = clear.format /\ v.asked = clear.asked
      BY <2>2, <2>3, EmitsSame DEF ClipFields
    <3>2. RequestInv(v)
      BY <2>1, <2>2, <2>3, RequestsKept DEF ClipInv
    <3>3. AnnounceInv(v) /\ ReplyInv(v)
      BY <2>1, <2>2, <2>3, <3>1, AnnounceKept, RepliesKept DEF ClipInv
    <3> QED BY <2>2, <2>3, <3>1, <3>2, <3>3, ClipIdle DEF Emits
  <2>4. CASE t.fellow
    <3> DEFINE w == [clear EXCEPT !.target = "format"]
               v == PropertyWritten(w)
    <3>1. u = Convert(v, "primary", "native")
      BY <1>4, <1>5, <1>14, <2>4
    <3>2. DOMAIN clear = ClipFields
      BY <2>2 DEF ClipData
    <3>3. DOMAIN w = ClipFields /\ w.target = "format"
          /\ \A f \in ClipFields \ {"target"} : w[f] = clear[f]
      BY <3>2 DEF ClipFields
    <3> HIDE DEF w
    <3>4. ClipData(w)
      BY <2>2, <3>3 DEF ClipData, ClipFields, PropTargets
    <3>5. Emits(clear, w, {"target"})
      BY <2>2, <3>2, <3>3, <3>4, QuietEmits DEF Changes
    <3>6. Emits(w, v, {"events"}) /\ ClipData(v)
      BY <3>4, PropertyWrittenEmits DEF Emits
    <3> HIDE DEF v
    <3>7. Emits(v, u, {"events", "conv"})
      BY <3>1, <3>6, ConvertEmits DEF Sels, Kinds
    <3>8. Emits(w, u, {"events"} \cup {"events", "conv"})
      BY <3>4, <3>6, <3>7, EmitsTrans
    <3>9. Emits(clear, u, {"target"} \cup ({"events"} \cup {"events", "conv"}))
      BY <2>2, <3>5, <3>8, EmitsTrans
    <3> DEFINE F == {"target", "events", "conv"}
    <3>10. Emits(clear, u, F)
      BY <3>9, EmitsMore
    <3>11. u.target = "format"
      <4>1. \A f \in ClipFields \ ({"events"} \cup {"events", "conv"}) : u[f] = w[f]
        BY <3>4, <3>8, EmitsSame
      <4> QED BY <3>3, <4>1 DEF ClipFields
    <3>12. F \cap {"probing", "owner", "current", "responses", "format", "asked"} = {}
           /\ F \cap RequestFields = {}
      BY DEF RequestFields
    <3>13. ClipInv(u)
      BY <2>3, <3>10, <3>11, <3>12
    <3> QED BY <3>13 DEF u, t
  <2>5. CASE ~t.fellow /\ NoOwner(t)
    <3>1. u = SendResponse(clear)
      BY <1>4, <1>5, <1>14, <2>5 DEF SendEmptyResponse
    <3>2. ClipInv(u)
      BY <2>1, <3>1, ResponseKeeps
    <3> QED BY <3>2 DEF u, t
  <2>6. CASE ~t.fellow /\ ~NoOwner(t)
    <3> DEFINE F == {"got", "events", "conv"}
    <3>1. u = AskTargets(clear)
      BY <1>4, <1>5, <1>14, <2>6
    <3>2. Emits(clear, u, F)
      BY <2>2, <3>1, AskEmits
    <3>3. u.target = "none"
      BY <2>2, <3>2, EmitsSame DEF ClipFields
    <3>4. F \cap {"probing", "owner", "current", "responses", "format", "asked"} = {}
          /\ F \cap RequestFields = {}
      BY DEF RequestFields
    <3>5. ClipInv(u)
      BY <2>3, <3>2, <3>3, <3>4
    <3> QED BY <3>5 DEF u, t
  <2> QED BY <2>4, <2>5, <2>6
<1> QED BY <1>12, <1>13, <1>14

(* A new connection probes again.                                            *)
LEMMA ConnectStep ==
    ASSUME NEW c, ClipInv(c), c.inputs < MaxClipInputs
    PROVE  ClipInv(ProbeSelections([c EXCEPT !.inputs = @ + 1, !.owes = FALSE]))
<1> DEFINE t == [c EXCEPT !.inputs = @ + 1, !.owes = FALSE]
<1>1. DOMAIN c = ClipFields
  BY DEF ClipInv, ClipData
<1>2. DOMAIN t = ClipFields /\ t.inputs = c.inputs + 1 /\ t.owes = FALSE
      /\ \A f \in ClipFields \ {"inputs", "owes"} : t[f] = c[f]
  BY <1>1 DEF ClipFields
<1> HIDE DEF t
<1>3. ClipInv(t)
  BY <1>1, <1>2, InputKeeps
<1>4. ClipInv(ProbeSelections(t))
  BY <1>3, ProbeKeeps DEF ClipInv
<1> QED BY <1>4 DEF t

(* The next chunk of a transfer.                                             *)
LEMMA ChunkStep ==
    ASSUME NEW c, ClipInv(c), c.chunks > 0, c.target = "none"
    PROVE  ClipInv(PropertyWritten([c EXCEPT !.target = IF c.chunks = 2 THEN "chunk" ELSE "empty",
                                             !.chunks = @ - 1]))
<1> DEFINE what == IF c.chunks = 2 THEN "chunk" ELSE "empty"
           t == [c EXCEPT !.target = what, !.chunks = @ - 1]
           u == PropertyWritten(t)
           F == {"target", "chunks", "events"}
<1>1. ClipData(c) /\ DOMAIN c = ClipFields /\ c.chunks \in Nat
  BY DEF ClipInv, ClipData
<1>2. DOMAIN t = ClipFields /\ t.target = what /\ t.chunks = c.chunks - 1
      /\ \A f \in ClipFields \ {"target", "chunks"} : t[f] = c[f]
  BY <1>1 DEF ClipFields
<1>3. what \in PropTargets /\ what # "INCR"
  BY DEF PropTargets
<1> HIDE DEF t, what
<1>4. ClipData(t)
  <2>1. t.chunks \in Nat
    BY <1>1, <1>2
  <2> QED BY <1>1, <1>2, <1>3, <2>1 DEF ClipData, ClipFields
<1>5. Emits(c, t, {"target", "chunks"})
  BY <1>1, <1>2, <1>4, QuietEmits DEF Changes
<1>6. Emits(t, u, {"events"})
  BY <1>4, PropertyWrittenEmits
<1> HIDE DEF u
<1>7. Emits(c, u, F)
  <2>1. Emits(c, u, {"target", "chunks"} \cup {"events"})
    BY <1>1, <1>5, <1>6, EmitsTrans
  <2> QED BY <2>1, EmitsMore
<1>8. NoNewIncr(c, u)
  <2>1. u.target = t.target
    BY <1>4, <1>6, EmitsSame DEF ClipFields
  <2> QED BY <1>2, <1>3, <2>1 DEF NoNewIncr
<1>9. RequestInv(u)
  <2>1. F \cap RequestFields = {}
    BY DEF RequestFields
  <2> QED BY <1>1, <1>7, <2>1, RequestsKept DEF ClipInv
<1>10. F \cap ProbeRelated = {}
  BY DEF ProbeRelated
<1>11. ClipInv(u)
  BY <1>7, <1>8, <1>9, <1>10, ClipKeptBut
<1> QED BY <1>11 DEF u, t, what

(* What an owner's answer changes: a conversion answered "INCR" is a text's. *)
AnswerFields == {"chunks", "prop", "target", "events"}

LastIsIncr(t, u) ==
    u.target = "INCR" => u.target = t.target \/ TextNotifyAt(u, Len(u.events))

(* The owner of a selection answers one conversion.                          *)
LEMMA ServedEmits ==
    ASSUME NEW t, ClipData(t), NEW r \in Convs, NEW u \in Served(t, r)
    PROVE  /\ Emits(t, u, AnswerFields) /\ Pending(u, r.sel, r.kind)
           /\ LastIsIncr(t, u) /\ Len(t.events) < Len(u.events)
<1>1. r.sel \in Sels /\ r.kind \in Kinds
  BY DEF Convs
<1>2. ASSUME u = XEvent(t, Notify(r.sel, r.kind, FALSE))
      PROVE  /\ Emits(t, u, AnswerFields) /\ Pending(u, r.sel, r.kind)
             /\ LastIsIncr(t, u) /\ Len(t.events) < Len(u.events)
  <2>1. Emits(t, u, {"events"}) /\ Pending(u, r.sel, r.kind) /\ Len(t.events) + 1 = Len(u.events)
    BY <1>1, <1>2, NotifyEmits
  <2>2. Emits(t, u, AnswerFields)
    BY <2>1, EmitsMore DEF AnswerFields
  <2>3. u.target = t.target
    BY <2>1, EmitsSame DEF ClipFields
  <2>4. Len(t.events) \in Nat
    BY <2>1, EmitsKeeps
  <2>5. Len(t.events) < Len(u.events)
    BY <2>1, <2>4
  <2> QED BY <2>1, <2>2, <2>3, <2>5 DEF LastIsIncr
<1>3. ASSUME NEW v, Emits(t, v, {"chunks"}), NEW what \in PropTargets,
             what = "INCR" => r.kind = "text",
             u = XEvent(WriteProperty(v, r.sel, r.kind, what), Notify(r.sel, r.kind, TRUE))
      PROVE  /\ Emits(t, u, AnswerFields) /\ Pending(u, r.sel, r.kind)
             /\ LastIsIncr(t, u) /\ Len(t.events) < Len(u.events)
  <2>1. ClipData(v)
    BY <1>3 DEF Emits
  <2>2. /\ Emits(v, u, {"prop", "target", "events"}) /\ Pending(u, r.sel, r.kind)
        /\ Written(v, u, r.kind, what)
        /\ Len(v.events) < Len(u.events)
        /\ r.kind = "text" => TextNotifyAt(u, Len(u.events))
    BY <1>1, <1>3, <2>1, WroteEmits
  <2>3. v.target = t.target /\ v.events = t.events
    BY <1>3, EmitsSame DEF ClipFields
  <2>4. Emits(t, u, {"chunks"} \cup {"prop", "target", "events"})
    BY <1>3, <2>2, EmitsTrans
  <2>5. Emits(t, u, AnswerFields)
    BY <2>4, EmitsMore DEF AnswerFields
  <2>6. LastIsIncr(t, u)
    BY <1>3, <2>2, <2>3 DEF LastIsIncr, Written
  <2> QED BY <2>2, <2>3, <2>5, <2>6
<1> DEFINE Refused == {XEvent(t, Notify(r.sel, r.kind, FALSE))}
           Wrote(v, what) == {XEvent(WriteProperty(v, r.sel, r.kind, what),
                                     Notify(r.sel, r.kind, TRUE))}
           chunked == [t EXCEPT !.chunks = 2]
<1>4. Emits(t, t, {"chunks"})
  BY QuietEmits DEF Changes
<1>5. Emits(t, chunked, {"chunks"})
  <2>1. DOMAIN t = ClipFields
    BY DEF ClipData
  <2>2. DOMAIN chunked = ClipFields /\ chunked.chunks = 2
        /\ \A f \in ClipFields \ {"chunks"} : chunked[f] = t[f]
    BY <2>1 DEF ClipFields
  <2> HIDE DEF chunked
  <2>3. ClipData(chunked)
    <3>1. chunked.chunks \in Nat
      BY <2>2
    <3> QED BY <2>2, <3>1 DEF ClipData, ClipFields
  <2> QED BY <2>1, <2>2, <2>3, QuietEmits DEF Changes
<1> HIDE DEF chunked
<1>6. \/ u \in Refused
      \/ \E what \in {"none", "nativeTargets", "targets", "formats", "text"} : u \in Wrote(t, what)
      \/ r.kind = "text" /\ u \in Wrote(chunked, "INCR")
  <2>1. u \in CASE r.kind = "timestamp" /\ (r.by = "fellow" \/ t.app # "noTimestamp") ->
                   Wrote(t, "none")
                [] r.kind = "targets" /\ r.by = "fellow" -> Wrote(t, "nativeTargets")
                [] r.kind = "targets" /\ r.by = "app" /\ t.app # "noTargets" -> Wrote(t, "targets")
                [] r.kind = "formats" /\ r.by = "fellow" -> Wrote(t, "formats")
                [] r.kind \in {"text", "native"} /\ r.by = "fellow" -> Wrote(t, "text") \cup Refused
                [] r.kind = "text" /\ r.by = "app" /\ t.app = "INCR" ->
                       Wrote(chunked, "INCR")
                [] r.kind = "text" /\ r.by = "app" /\ t.app \notin {"INCR", "noText"} -> Wrote(t, "text")
                [] OTHER -> Refused
    BY DEF Served, chunked
  <2> HIDE DEF Wrote, Refused
  <2> QED BY <2>1
<1>7. CASE u \in Refused
  BY <1>2, <1>7
<1>8. CASE \E what \in {"none", "nativeTargets", "targets", "formats", "text"} : u \in Wrote(t, what)
  <2>1. PICK what \in {"none", "nativeTargets", "targets", "formats", "text"} : u \in Wrote(t, what)
    BY <1>8
  <2>2. what \in PropTargets /\ what # "INCR"
    BY DEF PropTargets
  <2> QED BY <1>3, <1>4, <2>1, <2>2
<1>9. CASE r.kind = "text" /\ u \in Wrote(chunked, "INCR")
  <2>1. "INCR" \in PropTargets
    BY DEF PropTargets
  <2> QED BY <1>3, <1>5, <1>9, <2>1
<1> QED BY <1>6, <1>7, <1>8, <1>9

(* The conversion leaves the queue and its answer enters another: whatever   *)
(* ends the probe is still on its way.                                       *)
LEMMA ServedStep ==
    ASSUME NEW c, ClipInv(c), NEW i \in 1 .. Len(c.conv), NEW t, DOMAIN t = DOMAIN c,
           t.conv = RemoveAt(c.conv, i), \A f \in ClipFields \ {"conv"} : t[f] = c[f],
           NEW u \in Served(t, c.conv[i])
    PROVE  ClipInv(u)
<1> DEFINE r == c.conv[i]
<1>1. /\ ClipData(c) /\ DOMAIN c = ClipFields /\ c.conv \in Seq(Convs) /\ r \in Convs
      /\ c.events \in Seq(ClipEvents)
  BY DEF ClipInv, ClipData
<1>2. /\ RemoveAt(c.conv, i) \in Seq(Convs) /\ Len(RemoveAt(c.conv, i)) = Len(c.conv) - 1
      /\ \A j \in 1 .. Len(c.conv) - 1 :
             RemoveAt(c.conv, i)[j] = IF j < i THEN c.conv[j] ELSE c.conv[j + 1]
  BY <1>1, RemoveAtIs
<1>3. DOMAIN t = ClipFields /\ t.conv = RemoveAt(c.conv, i)
      /\ \A f \in ClipFields \ {"conv"} : t[f] = c[f]
  BY <1>1
<1>4. ClipData(t)
  BY <1>1, <1>2, <1>3 DEF ClipData, ClipFields
<1> HIDE DEF r
<1>5. /\ Emits(t, u, AnswerFields) /\ Pending(u, r.sel, r.kind)
      /\ LastIsIncr(t, u) /\ Len(t.events) < Len(u.events)
  BY <1>1, <1>4, ServedEmits DEF r
<1>6. ClipData(u)
  BY <1>5 DEF Emits
<1>7. /\ Len(t.events) \in Nat /\ Len(u.events) \in Nat /\ Len(t.events) < Len(u.events)
      /\ \A j \in 1 .. Len(t.events) : j \in 1 .. Len(u.events) /\ u.events[j] = t.events[j]
      /\ \A s, k : Pending(t, s, k) => Pending(u, s, k)
  <2>1. Emits(t, u, AnswerFields) /\ Len(t.events) < Len(u.events)
    BY <1>5
  <2>2. /\ Len(t.events) \in Nat /\ Len(u.events) \in Nat
        /\ \A j \in 1 .. Len(t.events) : j \in 1 .. Len(u.events) /\ u.events[j] = t.events[j]
        /\ \A s, k : Pending(t, s, k) => Pending(u, s, k)
    BY <1>4, <2>1, EmitsKeeps
  <2> QED BY <2>1, <2>2
<1>8. t.events = c.events /\ t.target = c.target
  BY <1>3 DEF ClipFields
<1>9. ASSUME NEW s, NEW k, Pending(c, s, k) PROVE Pending(u, s, k)
  <2>1. CASE \E j \in 1 .. Len(c.events) : Item(c.events[j], s, k)
    <3>1. Pending(t, s, k)
      BY <1>8, <2>1 DEF Pending
    <3> QED BY <1>7, <3>1
  <2>2. CASE \E j \in 1 .. Len(c.conv) : c.conv[j].sel = s /\ c.conv[j].kind = k
    <3>1. PICK j \in 1 .. Len(c.conv) : c.conv[j].sel = s /\ c.conv[j].kind = k
      BY <2>2
    <3>2. CASE j = i
      BY <1>5, <3>1, <3>2 DEF r
    <3>3. CASE j # i
      <4> DEFINE h == IF j < i THEN j ELSE j - 1
      <4>1. Len(c.conv) \in Nat
        BY <1>1
      <4>2. /\ h \in 1 .. Len(c.conv) - 1
            /\ h < i => h = j
            /\ ~(h < i) => h + 1 = j
        BY <3>3, <4>1
      <4>3. RemoveAt(c.conv, i)[h] = c.conv[j]
        <5> HIDE DEF h
        <5>1. RemoveAt(c.conv, i)[h] = IF h < i THEN c.conv[h] ELSE c.conv[h + 1]
          BY <1>2, <4>2
        <5> QED BY <4>2, <5>1
      <4> HIDE DEF h
      <4>4. h \in 1 .. Len(t.conv) /\ t.conv[h] = c.conv[j]
        BY <1>2, <1>3, <4>2, <4>3
      <4>5. Pending(t, s, k)
        BY <3>1, <4>4 DEF Pending
      <4> QED BY <1>7, <4>5
    <3> QED BY <3>2, <3>3
  <2> QED BY <1>9, <2>1, <2>2 DEF Pending
<1>10. /\ u.got = c.got /\ u.probing = c.probing /\ u.owner = c.owner /\ u.current = c.current
       /\ u.responses = c.responses /\ u.format = c.format /\ u.asked = c.asked
       /\ u.target = "INCR" => c.target = "INCR" \/ TextNotifyAt(u, Len(u.events))
  <2>1. /\ u.got = t.got /\ u.probing = t.probing /\ u.owner = t.owner
        /\ u.current = t.current /\ u.responses = t.responses /\ u.format = t.format
        /\ u.asked = t.asked
    <3>1. Emits(t, u, AnswerFields)
      BY <1>5
    <3>2. \A f \in ClipFields \ AnswerFields : u[f] = t[f]
      BY <1>4, <3>1, EmitsSame
    <3> QED BY <3>2 DEF ClipFields, AnswerFields
  <2>2. /\ t.got = c.got /\ t.probing = c.probing /\ t.owner = c.owner
        /\ t.current = c.current /\ t.responses = c.responses /\ t.format = c.format
        /\ t.asked = c.asked
    BY <1>3 DEF ClipFields
  <2> QED BY <1>5, <1>8, <2>1, <2>2 DEF LastIsIncr
<1>11. \A j \in 1 .. Len(c.events) :
           j \in 1 .. Len(u.events) /\ u.events[j] = c.events[j] /\ j < Len(u.events)
  BY <1>7, <1>8
<1>12. Len(u.events) \in 1 .. Len(u.events) /\ Len(c.events) < Len(u.events)
  BY <1>7, <1>8
<1>13. IncrInv(u)
  <2> SUFFICES ASSUME u.target = "INCR" PROVE \E j \in 1 .. Len(u.events) : TextNotifyAt(u, j)
    BY DEF IncrInv
  <2>1. CASE TextNotifyAt(u, Len(u.events))
    BY <1>12, <2>1
  <2>2. CASE c.target = "INCR"
    <3>1. PICK j \in 1 .. Len(c.events) : TextNotifyAt(c, j)
      BY <2>2 DEF ClipInv, IncrInv
    <3>2. TextNotifyAt(u, j)
      BY <1>11, <3>1 DEF TextNotifyAt
    <3> QED BY <1>11, <3>2
  <2> QED BY <1>10, <2>1, <2>2
<1>14. ASSUME StaleAnswer(c) PROVE StaleAnswer(u)
  <2>1. PICK j \in 1 .. Len(c.events) :
            /\ NotifyAt(c, j)
            /\ c.target = "INCR" => \E h \in j + 1 .. Len(c.events) : TextNotifyAt(c, h)
    BY <1>14 DEF StaleAnswer
  <2>2. NotifyAt(u, j)
    BY <1>11, <2>1 DEF NotifyAt
  <2>3. u.target = "INCR" => \E h \in j + 1 .. Len(u.events) : TextNotifyAt(u, h)
    <3> SUFFICES ASSUME u.target = "INCR"
                 PROVE  \E h \in j + 1 .. Len(u.events) : TextNotifyAt(u, h)
      OBVIOUS
    <3>1. CASE TextNotifyAt(u, Len(u.events))
      <4>1. Len(u.events) \in j + 1 .. Len(u.events)
        BY <1>7, <1>11
      <4> QED BY <3>1, <4>1
    <3>2. CASE c.target = "INCR"
      <4>1. PICK h \in j + 1 .. Len(c.events) : TextNotifyAt(c, h)
        BY <2>1, <3>2
      <4>2. h \in 1 .. Len(c.events) /\ h \in j + 1 .. Len(u.events)
        BY <1>1, <1>7, <1>12
      <4>3. TextNotifyAt(u, h)
        BY <1>11, <4>1, <4>2 DEF TextNotifyAt
      <4> QED BY <4>2, <4>3
    <3> QED BY <1>10, <3>1, <3>2
  <2> QED BY <1>11, <2>2, <2>3 DEF StaleAnswer
<1>15. ProbeInv(u)
  <2> SUFFICES ASSUME c.probing = TRUE
               PROVE  StampsPending(u) \/ ListPending(u) \/ StaleAnswer(u)
    BY <1>10 DEF ProbeInv
  <2>1. StampsPending(c) \/ ListPending(c) \/ StaleAnswer(c)
    BY DEF ClipInv, ProbeInv
  <2> QED BY <1>9, <1>10, <1>14, <2>1, StampsKept, ListKept
<1>16. AnnounceInv(u)
  <2> SUFFICES ASSUME u.current = FALSE, ~WeOwnAll(u)
               PROVE  u.probing = TRUE \/ \E j \in 1 .. Len(u.events) : ChangeAt(u, j)
    BY DEF AnnounceInv
  <2>1. ~WeOwnAll(c)
    BY <1>10 DEF WeOwnAll, PrimaryOwner
  <2>2. c.probing = TRUE \/ \E j \in 1 .. Len(c.events) : ChangeAt(c, j)
    BY <1>10, <2>1 DEF ClipInv, AnnounceInv
  <2>3. ASSUME NEW j \in 1 .. Len(c.events), ChangeAt(c, j)
        PROVE  j \in 1 .. Len(u.events) /\ ChangeAt(u, j)
    BY <1>11, <2>3 DEF ChangeAt
  <2> QED BY <1>10, <2>2, <2>3
<1>17. ReplyInv(u)
  BY <1>10, RepliesKept DEF ClipInv
<1>18. RequestInv(u)
  <2>1. AnswerFields \cap RequestFields = {}
    BY DEF RequestFields, AnswerFields
  <2>2. RequestInv(t)
    <3>1. /\ t.answers = c.answers /\ t.issued = c.issued /\ t.inputs = c.inputs
          /\ t.owes = c.owes /\ t.hasRequest = c.hasRequest /\ t.request = c.request
      BY <1>3 DEF ClipFields
    <3>2. \A x \in XIds : Awaits(t, x) <=> Awaits(c, x)
      BY <3>1 DEF Awaits
    <3>3. /\ t.issued <= t.inputs /\ t.inputs <= MaxClipInputs
          /\ t.owes = TRUE => t.hasRequest = TRUE
      BY <3>1 DEF ClipInv, RequestInv
    <3> QED BY <1>8, <3>1, <3>2, <3>3, RequestsSame DEF ClipInv
  <2> QED BY <1>4, <1>5, <2>1, <2>2, RequestsKept
<1> QED BY <1>6, <1>13, <1>15, <1>16, <1>17, <1>18 DEF ClipInv

(* Another client asks us for a conversion.                                  *)
LEMMA XClientStep ==
    ASSUME NEW c, ClipInv(c), c.inputs < MaxClipInputs,
           NEW s \in Sels, NEW k \in {"targets", "text", "native"}, NEW u,
           u = XEvent([c EXCEPT !.inputs = @ + 1, !.issued = @ + 1],
                      [type |-> "request", id |-> c.issued + 1, sel |-> s, kind |-> k])
    PROVE  ClipInv(u)
<1> DEFINE n == c.issued + 1
           e == [type |-> "request", id |-> n, sel |-> s, kind |-> k]
<1>1. /\ ClipData(c) /\ RequestInv(c) /\ DOMAIN c = ClipFields /\ c.inputs \in Nat
      /\ c.issued \in Nat /\ c.events \in Seq(ClipEvents) /\ c.conv \in Seq(Convs)
  BY DEF ClipInv, ClipData
<1>2. /\ DOMAIN u = ClipFields /\ u.inputs = c.inputs + 1 /\ u.issued = n
      /\ u.events = Append(c.events, e)
      /\ \A f \in ClipFields \ {"inputs", "issued", "events"} : u[f] = c[f]
  BY <1>1 DEF XEvent, ClipFields
<1>3. n \in XIds /\ n \in Nat /\ n <= u.inputs /\ u.inputs <= MaxClipInputs /\ u.inputs \in Nat
  <2>1. c.issued <= c.inputs
    BY <1>1, Zenon DEF RequestInv
  <2> DEFINE a == c.issued
             b == c.inputs
  <2>2. a \in Nat /\ b \in Nat /\ a <= b /\ b < MaxClipInputs /\ MaxClipInputs \in Nat
    BY <1>1, <2>1, ClipConstants
  <2> HIDE DEF a, b
  <2>3. a + 1 \in 1 .. MaxClipInputs /\ a + 1 <= b + 1 /\ b + 1 <= MaxClipInputs /\ b + 1 \in Nat
    BY <2>2
  <2>4. n = a + 1 /\ u.inputs = b + 1
    BY <1>2 DEF a, b
  <2> QED BY <2>2, <2>3, <2>4 DEF XIds
<1>4. e \in ClipEvents /\ e.type = "request" /\ e.id = n
  BY <1>3 DEF ClipEvents, Kinds
<1> HIDE DEF e
<1>5. /\ u.events \in Seq(ClipEvents) /\ Len(u.events) = Len(c.events) + 1
      /\ Len(c.events) \in Nat
      /\ \A i \in 1 .. Len(c.events) : i \in 1 .. Len(u.events) /\ u.events[i] = c.events[i]
      /\ u.events[Len(u.events)] = e /\ Len(u.events) \in 1 .. Len(u.events)
  <2>1. /\ Append(c.events, e) \in Seq(ClipEvents)
        /\ Len(Append(c.events, e)) = Len(c.events) + 1 /\ Len(c.events) \in Nat
        /\ \A i \in 1 .. Len(c.events) : Append(c.events, e)[i] = c.events[i]
        /\ Append(c.events, e)[Len(c.events) + 1] = e
    BY <1>1, <1>4, AppendProperties
  <2>2. u.events \in Seq(ClipEvents) /\ Len(u.events) = Len(c.events) + 1
    BY <1>2, <2>1
  <2>3. \A i \in 1 .. Len(c.events) : i \in 1 .. Len(u.events)
    BY <2>1, <2>2
  <2>4. \A i \in 1 .. Len(c.events) : u.events[i] = c.events[i]
    BY <1>2, <2>1
  <2>5. u.events[Len(c.events) + 1] = e
    BY <1>2, <2>1
  <2>6. Len(u.events) \in 1 .. Len(u.events)
    BY <2>1, <2>2
  <2> QED BY <2>1, <2>2, <2>3, <2>4, <2>5, <2>6
<1>6. ClipData(u)
  <2>1. \A f \in {"inputs", "issued", "events"} : u[f] \in ClipSets[f]
    BY <1>2, <1>3, <1>5, ClipSetsAre
  <2>2. Retyped(c, u, {"inputs", "issued", "events"})
    BY <1>1, <1>2, <2>1, Zenon DEF Retyped
  <2>3. ClipData(c)
    BY <1>1
  <2> QED BY <2>2, <2>3, FieldsTyped
<1>7. /\ u.got = c.got /\ u.probing = c.probing /\ u.owner = c.owner /\ u.current = c.current
      /\ u.responses = c.responses /\ u.format = c.format /\ u.asked = c.asked
      /\ u.target = c.target /\ u.conv = c.conv /\ u.answers = c.answers
      /\ u.owes = c.owes /\ u.hasRequest = c.hasRequest /\ u.request = c.request
  BY <1>2 DEF ClipFields
<1>8. ASSUME NEW x, NEW y, Pending(c, x, y) PROVE Pending(u, x, y)
  BY <1>5, <1>7, <1>8 DEF Pending
<1>9. \A i \in 1 .. Len(c.events) : TextNotifyAt(c, i) => TextNotifyAt(u, i)
  BY <1>5 DEF TextNotifyAt
<1>10. IncrInv(u)
  BY <1>5, <1>7, <1>9 DEF ClipInv, IncrInv
<1>11. ASSUME StaleAnswer(c) PROVE StaleAnswer(u)
  <2>1. PICK j \in 1 .. Len(c.events) :
            /\ NotifyAt(c, j)
            /\ c.target = "INCR" => \E h \in j + 1 .. Len(c.events) : TextNotifyAt(c, h)
    BY <1>11 DEF StaleAnswer
  <2>2. j \in 1 .. Len(u.events) /\ NotifyAt(u, j)
    BY <1>5, <2>1 DEF NotifyAt
  <2>3. ASSUME NEW h \in j + 1 .. Len(c.events), TextNotifyAt(c, h)
        PROVE  h \in j + 1 .. Len(u.events) /\ TextNotifyAt(u, h)
    <3>1. h \in 1 .. Len(c.events) /\ h \in j + 1 .. Len(u.events)
      BY <1>5
    <3> QED BY <1>9, <2>3, <3>1
  <2> QED BY <1>7, <2>1, <2>2, <2>3 DEF StaleAnswer
<1>12. ProbeInv(u)
  <2> SUFFICES ASSUME c.probing = TRUE
               PROVE  StampsPending(u) \/ ListPending(u) \/ StaleAnswer(u)
    BY <1>7 DEF ProbeInv
  <2>1. StampsPending(c) \/ ListPending(c) \/ StaleAnswer(c)
    BY DEF ClipInv, ProbeInv
  <2> QED BY <1>7, <1>8, <1>11, <2>1, StampsKept, ListKept
<1>13. AnnounceInv(u)
  <2> SUFFICES ASSUME u.current = FALSE, ~WeOwnAll(u)
               PROVE  u.probing = TRUE \/ \E j \in 1 .. Len(u.events) : ChangeAt(u, j)
    BY DEF AnnounceInv
  <2>1. ~WeOwnAll(c)
    BY <1>7 DEF WeOwnAll, PrimaryOwner
  <2>2. c.probing = TRUE \/ \E j \in 1 .. Len(c.events) : ChangeAt(c, j)
    BY <1>7, <2>1 DEF ClipInv, AnnounceInv
  <2>3. ASSUME NEW j \in 1 .. Len(c.events), ChangeAt(c, j)
        PROVE  j \in 1 .. Len(u.events) /\ ChangeAt(u, j)
    BY <1>5, <2>3 DEF ChangeAt
  <2> QED BY <1>7, <2>2, <2>3
<1>14. ReplyInv(u)
  BY <1>7, RepliesKept DEF ClipInv
<1>15. /\ \A x : Awaits(u, x) <=> Awaits(c, x)
       /\ \A i \in 1 .. Len(c.events) : \A x : AskedAt(u, i, x) <=> AskedAt(c, i, x)
       /\ \A x : AskedAt(u, Len(u.events), x) <=> x = n
  <2>1. \A x : Awaits(u, x) <=> Awaits(c, x)
    BY <1>7 DEF Awaits
  <2>2. \A i \in 1 .. Len(c.events) : \A x : AskedAt(u, i, x) <=> AskedAt(c, i, x)
    BY <1>5 DEF AskedAt
  <2>3. \A x : AskedAt(u, Len(u.events), x) <=> x = n
    BY <1>4, <1>5 DEF AskedAt
  <2> QED BY <2>1, <2>2, <2>3
<1>16. \A i \in 1 .. Len(u.events) : i \in 1 .. Len(c.events) \/ i = Len(u.events)
  BY <1>5
<1>17. c.answers[n] = 0 /\ ~Awaits(c, n)
       /\ \A i \in 1 .. Len(c.events) : ~AskedAt(c, i, n)
  BY <1>1, <1>3 DEF RequestInv
<1>18. RequestInv(u)
  <2>1. ASSUME NEW x \in XIds, NEW i \in 1 .. Len(u.events), AskedAt(u, i, x)
        PROVE  /\ x <= u.issued /\ u.answers[x] = 0 /\ ~Awaits(u, x)
               /\ \A j \in 1 .. Len(u.events) : AskedAt(u, j, x) => j = i
    <3>1. CASE x = n
      <4>1. x <= u.issued /\ u.answers[x] = 0
        <5>1. u.issued = x
          BY <1>2, <3>1
        <5>2. u.answers[x] = 0
          BY <1>7, <1>17, <3>1
        <5> QED BY <1>3, <3>1, <5>1, <5>2
      <4>2. ~Awaits(u, x)
        BY <1>15, <1>17, <3>1
      <4>3. \A j \in 1 .. Len(u.events) : AskedAt(u, j, x) => j = Len(u.events)
        <5>1. ASSUME NEW j \in 1 .. Len(c.events), AskedAt(u, j, x) PROVE FALSE
          <6>1. AskedAt(c, j, x)
            BY <1>15, <5>1
          <6> QED BY <1>17, <3>1, <6>1
        <5> QED BY <1>16, <5>1
      <4>4. i = Len(u.events)
        BY <2>1, <4>3
      <4> QED BY <4>1, <4>2, <4>3, <4>4
    <3>2. CASE x # n
      <4>1. i \in 1 .. Len(c.events) /\ AskedAt(c, i, x)
        BY <1>15, <1>16, <2>1, <3>2
      <4>2. /\ x <= c.issued /\ c.answers[x] = 0 /\ ~Awaits(c, x)
            /\ \A j \in 1 .. Len(c.events) : AskedAt(c, j, x) => j = i
        BY <1>1, <4>1 DEF RequestInv
      <4>3. \A j \in 1 .. Len(u.events) : AskedAt(u, j, x) => j = i
        BY <1>15, <1>16, <3>2, <4>2
      <4>4. x <= u.issued
        BY <1>1, <1>2, <4>2 DEF XIds
      <4> QED BY <1>7, <1>15, <4>2, <4>3, <4>4
    <3> QED BY <3>1, <3>2
  <2>2. ASSUME NEW x \in XIds, Awaits(u, x) PROVE x <= u.issued /\ u.answers[x] = 0
    <3>1. x <= c.issued /\ c.answers[x] = 0
      BY <1>1, <1>15, <2>2 DEF RequestInv
    <3> QED BY <1>1, <1>2, <1>7, <3>1 DEF XIds
  <2>3. ASSUME NEW x \in XIds
        PROVE  IF x <= u.issued
               THEN \/ u.answers[x] = 1
                    \/ u.answers[x] = 0 /\ (\/ Awaits(u, x)
                                            \/ \E i \in 1 .. Len(u.events) : AskedAt(u, i, x))
               ELSE u.answers[x] = 0
    <3>1. CASE x = n
      <4>1. x <= u.issued /\ u.answers[x] = 0
        <5>1. u.issued = x
          BY <1>2, <3>1
        <5>2. u.answers[x] = 0
          BY <1>7, <1>17, <3>1
        <5> QED BY <1>3, <3>1, <5>1, <5>2
      <4>2. \E i \in 1 .. Len(u.events) : AskedAt(u, i, x)
        BY <1>5, <1>15, <3>1
      <4> QED BY <4>1, <4>2
    <3>2. CASE x # n
      <4>1. x <= u.issued <=> x <= c.issued
        BY <1>1, <1>2, <3>2 DEF XIds
      <4>2. IF x <= c.issued
            THEN \/ c.answers[x] = 1
                 \/ c.answers[x] = 0 /\ (\/ Awaits(c, x)
                                         \/ \E i \in 1 .. Len(c.events) : AskedAt(c, i, x))
            ELSE c.answers[x] = 0
        BY <1>1 DEF RequestInv
      <4>3. (\E i \in 1 .. Len(c.events) : AskedAt(c, i, x))
                => \E i \in 1 .. Len(u.events) : AskedAt(u, i, x)
        BY <1>5, <1>15
      <4> QED BY <1>7, <1>15, <4>1, <4>2, <4>3
    <3> QED BY <3>1, <3>2
  <2>4. /\ u.issued <= u.inputs /\ u.inputs <= MaxClipInputs
        /\ u.owes = TRUE => u.hasRequest = TRUE
    BY <1>1, <1>2, <1>3, <1>7 DEF RequestInv
  <2> QED BY <2>1, <2>2, <2>3, <2>4 DEF RequestInv
<1> QED BY <1>6, <1>10, <1>12, <1>13, <1>14, <1>18 DEF ClipInv

(* Every step of xclip.c, of the server and of the other clients.            *)
LEMMA ClipStep == ClipInv(cb) /\ [ClipNext]_clipVars => ClipInv(cb')
<1> SUFFICES ASSUME ClipInv(cb), [ClipNext]_clipVars PROVE ClipInv(cb')
  OBVIOUS
<1>1. CASE ClipEvent
  BY <1>1, ClipEventStep
<1>2. CASE ServerPastes
  BY <1>2, PasteStep DEF ServerPastes
<1>3. CASE ServerAnnouncesFormats
  BY <1>3, FormatsStep DEF ServerAnnouncesFormats
<1>4. CASE ServerAnswers
  <2>1. PICK c, d : c = cb /\ d = cb'
    OBVIOUS
  <2>2. ClipInv(c) /\ c.owes
    BY <1>4, <2>1 DEF ServerAnswers
  <2>3. c.owes = TRUE
    <3>1. c.owes \in BOOLEAN
      BY <2>2 DEF ClipInv, ClipData
    <3> QED BY <2>2, <3>1
  <2> DEFINE t == [c EXCEPT !.owes = FALSE]
  <2>4. d = HandleData(t) \/ d = RequestFailed(t)
    BY <1>4, <2>1 DEF ServerAnswers
  <2>5. ClipInv(d)
    BY <2>2, <2>3, <2>4, AnswerStep
  <2> QED BY <2>1, <2>5
<1>5. CASE ClipConnect
  BY <1>5, ConnectStep DEF ClipConnect
<1>6. CASE OwnerChanges
  <2>1. PICK c, d : c = cb /\ d = cb'
    OBVIOUS
  <2> DEFINE t == [c EXCEPT !.inputs = @ + 1, !.time = @ + 1, !.current = FALSE]
  <2>2. ClipInv(c) /\ c.inputs < MaxClipInputs
    BY <1>6, <2>1 DEF OwnerChanges
  <2>3. d \in {Taken(t, s, o) : s \in {"clipboard"} \cup (IF ClipAutoMode THEN Sels ELSE {}),
                                o \in {"app", "none"}}
              \cup {NotifyChange(Taken(Taken(t, "primary", "fellow"), "clipboard", "fellow"))}
    BY <1>6, <2>1 DEF OwnerChanges
  <2>4. \/ \E s \in {"clipboard"} \cup (IF ClipAutoMode THEN Sels ELSE {}), o \in {"app", "none"} :
               d = Taken(t, s, o)
        \/ d = NotifyChange(Taken(Taken(t, "primary", "fellow"), "clipboard", "fellow"))
    <3> HIDE DEF t
    <3> QED BY <2>3
  <2>5. ClipInv(d)
    <3>1. PICK b : b = t
      OBVIOUS
    <3> QED BY <2>2, <2>4, OwnerChangesStep
  <2> QED BY <2>1, <2>5
<1>7. CASE OwnerServes
  <2>1. PICK c, d : c = cb /\ d = cb'
    OBVIOUS
  <2>2. ClipInv(c)
    BY <2>1
  <2>3. PICK i \in 1 .. Len(c.conv) : d \in Served([c EXCEPT !.conv = RemoveAt(@, i)], c.conv[i])
    BY <1>7, <2>1 DEF OwnerServes
  <2> DEFINE t == [c EXCEPT !.conv = RemoveAt(@, i)]
  <2>4. DOMAIN t = DOMAIN c /\ t.conv = RemoveAt(c.conv, i)
        /\ \A f \in ClipFields \ {"conv"} : t[f] = c[f]
    <3>1. DOMAIN c = ClipFields
      BY <2>2 DEF ClipInv, ClipData
    <3> QED BY <3>1 DEF ClipFields
  <2>5. d \in Served(t, c.conv[i])
    BY <2>3
  <2> HIDE DEF t
  <2>6. ClipInv(d)
    BY <2>2, <2>4, <2>5, ServedStep
  <2> QED BY <2>1, <2>6
<1>8. CASE OwnerSendsChunk
  BY <1>8, ChunkStep DEF OwnerSendsChunk
<1>9. CASE XClientRequests
  <2>1. PICK c, d : c = cb /\ d = cb'
    OBVIOUS
  <2>2. ClipInv(c) /\ c.inputs < MaxClipInputs
    BY <1>9, <2>1 DEF XClientRequests
  <2>3. PICK s \in Sels, k \in {"targets", "text", "native"} :
            d = XEvent([c EXCEPT !.inputs = @ + 1, !.issued = @ + 1],
                       [type |-> "request", id |-> c.issued + 1, sel |-> s, kind |-> k])
    BY <1>9, <2>1 DEF XClientRequests
  <2>4. ClipInv(d)
    BY <2>2, <2>3, XClientStep
  <2> QED BY <2>1, <2>4
<1>10. CASE UNCHANGED clipVars
  <2>1. cb' = cb
    BY <1>10 DEF clipVars
  <2> QED BY <2>1
<1> QED BY <1>1, <1>2, <1>3, <1>4, <1>5, <1>6, <1>7, <1>8, <1>9, <1>10 DEF ClipNext

(* The earlier owner has been announced, nothing is on its way.              *)
LEMMA ClipInitInv == ClipInit => ClipInv(cb)
<1> SUFFICES ASSUME ClipInit PROVE ClipInv(cb)
  OBVIOUS
<1>1. PICK o \in {"us", "app"}, k \in AppKinds :
          cb = [XclipInit EXCEPT !.owner = [s \in Sels |-> o], !.stamp = [s \in Sels |-> 1],
                                 !.time = 1, !.app = k]
  BY DEF ClipInit
<1>2. /\ DOMAIN cb = ClipFields /\ cb.owner = [s \in Sels |-> o]
      /\ cb.stamp = [s \in Sels |-> 1] /\ cb.time = 1
      /\ \A f \in ClipFields \ {"owner", "stamp", "time", "app"} : cb[f] = XclipInit[f]
  BY <1>1 DEF XclipInit, ClipFields
<1>3. /\ cb.got = [s \in Sels |-> 0] /\ cb.prop = [s \in Sels |-> 0] /\ cb.target = "none"
      /\ cb.probing = FALSE /\ cb.reprobe = FALSE /\ cb.fellow = FALSE /\ cb.format = FALSE
      /\ cb.hasRequest = FALSE /\ cb.incr = FALSE /\ cb.owes = FALSE /\ cb.buffered = FALSE
      /\ cb.current = TRUE /\ cb.announced = "none"
      /\ cb.request = [id |-> Self, sel |-> "primary", kind |-> "text"]
      /\ cb.answers = [id \in XIds |-> 0]
      /\ cb.issued = 0 /\ cb.inputs = 0 /\ cb.asked = 0 /\ cb.responses = 0 /\ cb.chunks = 0
      /\ cb.events = << >> /\ cb.conv = << >>
  BY <1>2 DEF XclipInit, ClipFields
<1>4. ClipData(cb)
  <2>1. /\ cb.owner \in [Sels -> Owners] /\ cb.stamp \in [Sels -> Nat] /\ cb.time \in Nat
        /\ cb.got \in [Sels -> Nat] /\ cb.prop \in [Sels -> Nat] /\ cb.answers \in [XIds -> Nat]
    BY <1>2, <1>3 DEF Owners
  <2>2. cb.request \in Requests /\ cb.target \in PropTargets
    BY <1>3 DEF Requests, PropTargets, Sels
  <2>3. cb.events \in Seq(ClipEvents) /\ cb.conv \in Seq(Convs)
    BY <1>3
  <2>4. /\ cb.probing \in BOOLEAN /\ cb.reprobe \in BOOLEAN /\ cb.fellow \in BOOLEAN
        /\ cb.format \in BOOLEAN /\ cb.hasRequest \in BOOLEAN /\ cb.incr \in BOOLEAN
        /\ cb.owes \in BOOLEAN /\ cb.buffered \in BOOLEAN /\ cb.current \in BOOLEAN
    BY <1>3
  <2>5. /\ cb.issued \in Nat /\ cb.inputs \in Nat /\ cb.asked \in Nat /\ cb.responses \in Nat
        /\ cb.chunks \in Nat /\ cb.announced \in {"none", "text", "formats", "other"}
    BY <1>3
  <2> QED BY <1>2, <2>1, <2>2, <2>3, <2>4, <2>5 DEF ClipData
<1>5. AnnounceInv(cb) /\ IncrInv(cb) /\ ProbeInv(cb)
  BY <1>3 DEF AnnounceInv, IncrInv, ProbeInv
<1>6. ReplyInv(cb)
  <2>1. cb.format = FALSE
    BY <1>3
  <2>2. cb.responses = 0 /\ cb.asked = 0
    BY <1>3
  <2> QED BY <2>1, <2>2 DEF ReplyInv
<1>7. RequestInv(cb)
  <2>1. Len(cb.events) = 0
    BY <1>3
  <2>2. 1 .. Len(cb.events) = {}
    BY <2>1
  <2>3. cb.owes = TRUE => cb.hasRequest = TRUE
    BY <1>3
  <2>4. \A id \in XIds : ~(id <= cb.issued) /\ cb.answers[id] = 0
    BY <1>3, ClipConstants DEF XIds
  <2>5. \A id : ~Awaits(cb, id)
    BY <1>3 DEF Awaits
  <2>6. cb.issued <= cb.inputs /\ cb.inputs <= MaxClipInputs
    BY <1>3, ClipConstants
  <2> QED BY <2>2, <2>3, <2>4, <2>5, <2>6 DEF RequestInv
<1> QED BY <1>4, <1>5, <1>6, <1>7 DEF ClipInv

(* What the invariant says once nothing is on its way.                       *)
LEMMA ClipInvMeans == ClipInv(cb) => PastesAnswered
<1> SUFFICES ASSUME ClipInv(cb) PROVE PastesAnswered
  OBVIOUS
<1>1. ClipData(cb) /\ RequestInv(cb) /\ ReplyInv(cb) /\ ProbeInv(cb) /\ AnnounceInv(cb)
  BY DEF ClipInv
<1>2. ClipTypeOK
  BY <1>1 DEF ClipTypeOK, ClipData, PropTargets, Requests
<1>3. RequestorsAnsweredOnce
  <2> SUFFICES ASSUME NEW id \in 1 .. cb.issued
               PROVE  \/ cb.answers[id] = 1
                      \/ /\ cb.answers[id] = 0
                         /\ \/ cb.hasRequest /\ cb.request.id = id
                            \/ \E i \in 1 .. Len(cb.events) :
                                   cb.events[i].type = "request" /\ cb.events[i].id = id
    BY DEF RequestorsAnsweredOnce
  <2>1. cb.issued \in Nat /\ cb.inputs \in Nat /\ cb.issued <= cb.inputs
        /\ cb.inputs <= MaxClipInputs
    BY <1>1 DEF ClipData, RequestInv
  <2>2. id \in XIds /\ id <= cb.issued
    BY <2>1, ClipConstants DEF XIds
  <2>3. \/ cb.answers[id] = 1
        \/ cb.answers[id] = 0 /\ (\/ Awaits(cb, id)
                                  \/ \E i \in 1 .. Len(cb.events) : AskedAt(cb, i, id))
    BY <1>1, <2>2 DEF RequestInv
  <2> QED BY <2>3 DEF Awaits, AskedAt
<1>4. ResponsesWereAsked
  <2>1. cb.format \in BOOLEAN
    BY <1>1 DEF ClipData
  <2>2. CASE cb.format = TRUE
    BY <1>1, <2>2 DEF ResponsesWereAsked, ReplyInv
  <2>3. CASE cb.format = FALSE
    BY <1>1, <2>3 DEF ResponsesWereAsked, ReplyInv
  <2> QED BY <2>1, <2>2, <2>3
<1>5. ASSUME ClipQuiet PROVE Len(cb.events) = 0 /\ Len(cb.conv) = 0
  BY <1>5 DEF ClipQuiet
<1>6. ASSUME ClipQuiet PROVE cb.probing = FALSE
  <2>1. 1 .. Len(cb.events) = {} /\ 1 .. Len(cb.conv) = {}
    <3>1. Len(cb.events) = 0 /\ Len(cb.conv) = 0
      BY <1>5, <1>6
    <3> QED BY <3>1
  <2>2. ~StampsPending(cb) /\ ~ListPending(cb) /\ ~StaleAnswer(cb)
    BY <2>1 DEF StampsPending, ListPending, StaleAnswer, Pending
  <2>3. cb.probing \in BOOLEAN
    BY <1>1 DEF ClipData
  <2> QED BY <1>1, <2>2, <2>3 DEF ProbeInv
<1>7. ProbesEnd
  BY <1>6 DEF ProbesEnd
<1>8. ChangesAreAnnounced
  <2> SUFFICES ASSUME ClipQuiet,
                      cb.owner["clipboard"] # "us" \/ (ClipAutoMode /\ cb.owner["primary"] # "us")
               PROVE  cb.current
    BY DEF ChangesAreAnnounced
  <2>1. 1 .. Len(cb.events) = {} /\ cb.probing = FALSE
    <3>1. Len(cb.events) = 0
      BY <1>5
    <3>2. 1 .. Len(cb.events) = {}
      BY <3>1
    <3>3. cb.probing = FALSE
      BY <1>6
    <3> QED BY <3>2, <3>3
  <2>2. ~WeOwnAll(cb)
    BY ClipConstants DEF WeOwnAll, PrimaryOwner
  <2>3. cb.current \in BOOLEAN
    BY <1>1 DEF ClipData
  <2> QED BY <1>1, <2>1, <2>2, <2>3 DEF AnnounceInv
<1> QED BY <1>2, <1>3, <1>4, <1>7, <1>8 DEF PastesAnswered

-----------------------------------------------------------------------------
(* The X11 side: its components share no state *)

(* xkeymap.c: whatever the user types, whichever window has the focus and     *)
(* however often the session is replaced, the server's modifiers are those    *)
(* the client counts and a key types what the keymap says, until a            *)
(* synchronisation the client does not account for; a modifier pressed in     *)
(* this focus is held by the server unless a key has cost it; and, but for    *)
(* the cases NoModifierStuck and PressesAreLifted name, none stays down.      *)
THEOREM KeysAlwaysFollow == Spec => []KeysFollow
<1>1. Init => KeyInv
  BY KeyInitInv DEF Init
<1>2. KeyInv /\ [Next]_allVars => KeyInv'
  <2>1. KeyInv /\ UNCHANGED keyVars => KeyInv'
    BY KeyStep
  <2>2. KeyInv /\ KeyNext => KeyInv'
    BY KeyStep
  <2> QED BY <2>1, <2>2, Zenon DEF Next, allVars
<1> QED BY <1>1, <1>2, KeyInvMeans, PTL DEF Spec

(* xclip.c: every X client that asked us for data is answered once, the       *)
(* server gets no more responses than it asked for, a probe of the selections *)
(* always ends, and the server has been told of the latest change of owner    *)
(* when all is handled.  That the server gets a response to a paste is        *)
(* LonePastesAnswered, which is not part of it.                               *)
THEOREM PastesAlwaysAnswered == Spec => []PastesAnswered
<1>1. Init => ClipInv(cb)
  BY ClipInitInv DEF Init
<1>2. ClipInv(cb) /\ [Next]_allVars => ClipInv(cb)'
  <2>1. ClipInv(cb) /\ UNCHANGED clipVars => ClipInv(cb')
    BY ClipStep
  <2>2. ClipInv(cb) /\ ClipNext => ClipInv(cb')
    BY ClipStep
  <2>3. ClipInv(cb) /\ [Next]_allVars => ClipInv(cb')
    BY <2>1, <2>2, Zenon DEF Next, allVars
  <2> QED BY <2>3
<1>3. ClipInv(cb) => PastesAnswered
  BY ClipInvMeans
<1> QED BY <1>1, <1>2, <1>3, PTL DEF Spec
==============================================================================
