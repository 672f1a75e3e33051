----------------------------- MODULE Clipboard -----------------------------
(***************************************************************************)
(* Clipboard redirection (xclip.c, cliprdr.c): probing the X selections    *)
(* after a change of owner, pasting local data into the session, and       *)
(* serving X clients from the server.  X replies arrive as events, written *)
(* into a property of our window that all conversions share.               *)
(*                                                                         *)
(* Contents are told apart only as far as the handlers do: a list of       *)
(* targets with or without _RDESKTOP_CLIPBOARD_FORMATS, a list of native   *)
(* formats, text, the INCR announcement and an INCR chunk.                 *)
(***************************************************************************)
EXTENDS Naturals, Sequences, SequencesExt

CONSTANTS
    ClipAutoMode,    \* auto_mode: PRIMARYCLIPBOARD rather than CLIPBOARD
    MaxClipInputs    \* what the server and the other clients start between them (bound)

ASSUME ClipConstants == ClipAutoMode \in BOOLEAN /\ MaxClipInputs \in Nat

Sels == {"primary", "clipboard"}
Owners == {"none", "us", "app", "fellow"}   \* fellow: another rdesktop
XIds == 1 .. MaxClipInputs
Self == 0                                   \* we may convert a selection of our own

VARIABLES
    cb,     \* xclip.c's statics, our window's properties, events, conversions, peers
    alone   \* history: the last paste began at rest, and no probe since

clipVars == <<cb, alone>>

ClipTypeOK ==
    /\ cb.owner \in [Sels -> Owners] /\ cb.got \in [Sels -> Nat]
    /\ {cb.probing, cb.reprobe, cb.fellow, cb.format, cb.hasRequest} \subseteq BOOLEAN
    /\ cb.prop \in [Sels -> Nat] /\ cb.incr \in BOOLEAN
    /\ cb.target \in {"none", "targets", "nativeTargets", "formats", "text", "format",
                      "INCR", "chunk", "empty"}
    /\ cb.request \in [id : XIds \cup {Self}, sel : Sels, kind : {"text", "native"}]
    /\ cb.answers \in [XIds -> Nat] /\ cb.owes \in BOOLEAN
    /\ cb.announced \in {"none", "text", "formats", "other"}

(* xclip_init; `current` and `announced` remember the announcements.       *)
XclipInit ==
    [owner |-> [s \in Sels |-> "none"], stamp |-> [s \in Sels |-> 0], time |-> 0,
     got |-> [s \in Sels |-> 0], probing |-> FALSE, reprobe |-> FALSE, fellow |-> FALSE,
     format |-> FALSE, hasRequest |-> FALSE,
     request |-> [id |-> Self, sel |-> "primary", kind |-> "text"],
     prop |-> [s \in Sels |-> 0], target |-> "none",
     incr |-> FALSE, buffered |-> FALSE, chunks |-> 0,
     conv |-> << >>, events |-> << >>, owes |-> FALSE, issued |-> 0,
     answers |-> [id \in XIds |-> 0], asked |-> 0, responses |-> 0, inputs |-> 0,
     announced |-> "none", current |-> TRUE, app |-> "plain"]

-----------------------------------------------------------------------------
(* cliprdr.c towards the server *)

SendFormatAnnounce(t, what) == [t EXCEPT !.announced = what, !.current = TRUE]

SendSimpleFormatAnnounce(t) == SendFormatAnnounce(t, "text")

SendDataRequest(t) == [t EXCEPT !.owes = TRUE]

SendData(t) == [t EXCEPT !.responses = @ + 1]

(* helper_cliprdr_send_response *)
SendResponse(t) ==
    LET sent == [SendData(t) EXCEPT !.format = FALSE]
    IN IF ~t.format THEN t
       ELSE IF t.fellow THEN sent ELSE SendSimpleFormatAnnounce(sent)

SendEmptyResponse(t) == SendResponse(t)

-----------------------------------------------------------------------------
(* The X server: events reach us in order, conversions reach the owner *)

XEvent(t, e) == [t EXCEPT !.events = Append(@, e)]

Notify(sel, kind, ok) == [type |-> "notify", sel |-> sel, kind |-> kind, ok |-> ok]

Convert(t, sel, kind) ==
    IF t.owner[sel] = "none" THEN XEvent(t, Notify(sel, kind, FALSE))
    ELSE IF t.owner[sel] = "us"
    THEN XEvent(t, [type |-> "request", id |-> Self, sel |-> sel, kind |-> kind])
    ELSE [t EXCEPT !.conv = Append(@, [by |-> t.owner[sel], sel |-> sel, kind |-> kind])]

(* PropertyNotify for our window is selected only during an INCR transfer. *)
PropertyWritten(t) == IF t.incr THEN XEvent(t, [type |-> "property"]) ELSE t

WriteProperty(t, sel, kind, what) ==
    PropertyWritten(IF kind = "timestamp" THEN [t EXCEPT !.prop[sel] = t.stamp[sel]]
                    ELSE [t EXCEPT !.target = what])

ProvideSelection(t, r, what) ==
    IF r.id = Self
    THEN XEvent(WriteProperty(t, r.sel, r.kind, what), Notify(r.sel, r.kind, TRUE))
    ELSE [t EXCEPT !.answers[r.id] = @ + 1]

RefuseSelection(t, r) ==
    IF r.id = Self THEN XEvent(t, Notify(r.sel, r.kind, FALSE))
    ELSE [t EXCEPT !.answers[r.id] = @ + 1]

NotifyChange(t) == XEvent(t, [type |-> "root"])

ClearTargetProps(t) == [t EXCEPT !.prop = [s \in Sels |-> 0], !.target = "none"]

-----------------------------------------------------------------------------
(* Probing the selections after a change of owner *)

PrimaryOwner(t) == IF ClipAutoMode THEN t.owner["primary"] ELSE "none"

(* The owner's targets, asked for directly when only one selection has an owner. *)
NoOwner(t) == PrimaryOwner(t) = "none" /\ t.owner["clipboard"] = "none"

AskTargets(t) ==
    LET stamps == [t EXCEPT !.got = [s \in Sels |-> 0]]
    IN IF PrimaryOwner(t) # "none" /\ t.owner["clipboard"] # "none"
       THEN Convert(Convert(stamps, "primary", "timestamp"), "clipboard", "timestamp")
       ELSE Convert(t, IF PrimaryOwner(t) # "none" THEN "primary" ELSE "clipboard", "targets")

WeOwnAll(t) ==
    (PrimaryOwner(t) = "us" \/ ~ClipAutoMode) /\ t.owner["clipboard"] = "us"

ProbeSelections(t) ==
    LET fresh == ClearTargetProps([t EXCEPT !.probing = TRUE, !.reprobe = FALSE])
        Done(u) == [u EXCEPT !.probing = FALSE]
    IN IF t.probing THEN [t EXCEPT !.reprobe = TRUE]
       ELSE IF WeOwnAll(t) THEN Done(fresh)
       ELSE IF NoOwner(t) THEN Done(SendSimpleFormatAnnounce(fresh))
       ELSE AskTargets(fresh)

(* SelectionClear, and the XFixes notification of any change of owner. *)
HandleSelectionClear(t) == ProbeSelections(NotifyChange(t))

HandleXFixesSelectionNotify(t, e) ==
    IF e.sel = "primary" /\ ~ClipAutoMode THEN t ELSE ProbeSelections(NotifyChange(t))

-----------------------------------------------------------------------------
(* Pasting into the session: ui_clip_request_data *)

RequestData(t) ==
    LET asked == [t EXCEPT !.format = TRUE]
        clear == ClearTargetProps(asked)
    IN IF t.probing THEN SendEmptyResponse(asked)
       ELSE IF t.fellow
       THEN Convert(PropertyWritten([clear EXCEPT !.target = "format"]), "primary", "native")
       ELSE IF NoOwner(t) THEN SendEmptyResponse(clear)
       ELSE AskTargets(clear)

(* Mutant: a failed probe is left open. *)
SelectionFailed_KeepsProbing(t) ==
    LET clear == ClearTargetProps(t)
    IN IF t.probing THEN SendSimpleFormatAnnounce([clear EXCEPT !.fellow = FALSE])
       ELSE SendEmptyResponse(clear)

(* Mutant: a failed conversion of a paste is not answered. *)
SelectionFailed_Silent(t) ==
    LET clear == ClearTargetProps(t)
    IN IF t.probing
       THEN SendSimpleFormatAnnounce([clear EXCEPT !.probing = FALSE, !.fellow = FALSE])
       ELSE clear

SelectionFailed(t) ==
    LET clear == ClearTargetProps(t)
    IN IF t.probing
       THEN SendSimpleFormatAnnounce([clear EXCEPT !.probing = FALSE, !.fellow = FALSE])
       ELSE SendEmptyResponse(clear)

(* Both timestamps are needed; the more recent selection wins. *)
GotTimestamp(t, e) ==
    LET u == [t EXCEPT !.got[e.sel] = t.prop[e.sel], !.prop[e.sel] = 0]
        newer == IF u.got["primary"] > u.got["clipboard"] THEN "primary" ELSE "clipboard"
    IN IF t.prop[e.sel] = 0 THEN SelectionFailed(t)
       ELSE IF \A s \in Sels : u.got[s] > 0 THEN Convert(u, newer, "targets")
       ELSE u

GotIncr(t) == [t EXCEPT !.incr = TRUE]

(* The best target offered: native formats only while probing. *)
BestTarget(t, list) ==
    CASE list = "nativeTargets" -> IF t.probing THEN "formats" ELSE "text"
      [] list = "targets" -> "text"
      [] OTHER -> "none"

NegotiateTarget(t, sel, list) ==
    IF BestTarget(t, list) = "formats" \/ (BestTarget(t, list) = "text" /\ ~t.probing)
    THEN Convert(t, sel, BestTarget(t, list))
    ELSE SelectionFailed(t)

(* Whatever arrived is announced as the other rdesktop's formats. *)
GotFellowFormats(t, what) ==
    IF ClipAutoMode /\ t.owner["primary"] # t.owner["clipboard"] THEN SelectionFailed(t)
    ELSE SendFormatAnnounce([t EXCEPT !.probing = FALSE, !.fellow = TRUE],
                            IF what = "formats" THEN what ELSE "other")

SendDataWithConvert(t, kind) ==
    IF kind = "native" \/ (kind = "text" /\ t.format) THEN SendResponse(t)
    ELSE SendEmptyResponse(t)

HandleSelectionNotify(t, e) ==
    LET clear == ClearTargetProps(t)
    IN IF ~e.ok THEN SelectionFailed(t)
       ELSE IF e.kind = "timestamp" THEN GotTimestamp(t, e)
       ELSE IF t.probing /\ t.reprobe THEN ProbeSelections([t EXCEPT !.probing = FALSE])
       ELSE IF t.target = "INCR" THEN GotIncr(clear)
       ELSE IF e.kind = "targets" THEN NegotiateTarget(clear, e.sel, t.target)
       ELSE IF t.probing THEN GotFellowFormats(clear, t.target)
       ELSE IF t.target = "none" THEN SelectionFailed(clear)
       ELSE SendDataWithConvert(clear, e.kind)

(* A write during an INCR transfer is taken for its next chunk. *)
HandleIncrChunk(t) ==
    LET ended == [t EXCEPT !.incr = FALSE, !.buffered = FALSE, !.target = "none"]
    IN IF t.target \notin {"none", "empty"}
       THEN [t EXCEPT !.buffered = TRUE, !.target = "none"]
       ELSE IF t.buffered THEN SendDataWithConvert(ended, "text") ELSE ended

HandlePropertyNotify(t, e) ==
    IF t.incr THEN HandleIncrChunk(t)
    ELSE IF e.type = "root" THEN ProbeSelections(t) ELSE t

-----------------------------------------------------------------------------
(* Serving X clients from the server *)

Overlaps(t) == t.hasRequest

RequestedNative(t, r) == r.kind = "native" /\ (r.id # Self \/ t.target = "format")

RequestFromServer(t, r) ==
    IF Overlaps(t) \/ ~(r.kind = "text" \/ RequestedNative(t, r)) THEN RefuseSelection(t, r)
    ELSE [SendDataRequest(IF r.id = Self /\ r.kind = "native"
                          THEN [t EXCEPT !.target = "none"] ELSE t)
             EXCEPT !.request = [id |-> r.id, sel |-> r.sel, kind |-> r.kind],
                    !.hasRequest = TRUE]

HandleSelectionRequest(t, e) ==
    CASE e.kind = "targets" -> ProvideSelection(t, e, "nativeTargets")
      [] e.kind = "timestamp" -> ProvideSelection(t, e, "none")
      [] e.kind = "formats" -> ProvideSelection(t, e, "formats")
      [] OTHER -> RequestFromServer(t, e)

(* ui_clip_handle_data with data; an empty answer and a failure refuse. *)
HandleData(t) == [ProvideSelection(t, t.request, "text") EXCEPT !.hasRequest = FALSE]

RequestFailed(t) == [RefuseSelection(t, t.request) EXCEPT !.hasRequest = FALSE]

(* ui_clip_format_announce: both selections become ours. *)
FormatAnnounce(t) ==
    LET Changed(u, s) == XEvent(u, [type |-> "change", sel |-> s])
        ours == [t EXCEPT !.owner = [s \in Sels |-> "us"], !.time = @ + 1,
                          !.stamp = [s \in Sels |-> t.time + 1]]
    IN NotifyChange(Changed(Changed(ours, "primary"), "clipboard"))

-----------------------------------------------------------------------------
(* Actions.  xwin.c hands us the next event. *)

ClipEvent ==
    /\ cb.events # << >>
    /\ LET e == Head(cb.events)
           t == [cb EXCEPT !.events = Tail(@)]
       IN /\ cb' = CASE e.type = "notify" -> HandleSelectionNotify(t, e)
                     [] e.type = "request" -> HandleSelectionRequest(t, e)
                     [] e.type = "clear" -> HandleSelectionClear(t)
                     [] e.type = "change" -> HandleXFixesSelectionNotify(t, e)
                     [] OTHER -> HandlePropertyNotify(t, e)
          /\ alone' = (alone /\ e.type \in {"notify", "request", "property"})

(* The server's packets: cliprdr_process.  A paste may come while another  *)
(* waits for its data: its format replaces the other's.                    *)
ClipQuiet == cb.events = << >> /\ cb.conv = << >>

ClipRests == ClipQuiet /\ cb.chunks = 0 /\ ~cb.incr /\ ~cb.probing

ServerPastes ==
    /\ cb.inputs < MaxClipInputs
    /\ cb' = RequestData([cb EXCEPT !.inputs = @ + 1, !.asked = @ + 1])
    /\ alone' = ClipRests

ServerAnnouncesFormats ==
    /\ cb.inputs < MaxClipInputs
    /\ cb' = FormatAnnounce([cb EXCEPT !.inputs = @ + 1])
    /\ UNCHANGED alone

ServerAnswers ==
    /\ cb.owes
    /\ cb' \in {HandleData([cb EXCEPT !.owes = FALSE]),
                RequestFailed([cb EXCEPT !.owes = FALSE])}
    /\ UNCHANGED alone

(* CLIPRDR_CONNECT of a new connection; the old one's requests are gone. *)
ClipConnect ==
    /\ cb.inputs < MaxClipInputs
    /\ cb' = ProbeSelections([cb EXCEPT !.inputs = @ + 1, !.owes = FALSE])
    /\ alone' = FALSE

(* Another client takes selections, or drops them by closing its window. *)
Taken(t, s, o) ==
    LET lost == IF t.owner[s] = "us" THEN XEvent(t, [type |-> "clear", sel |-> s]) ELSE t
    IN XEvent([lost EXCEPT !.owner[s] = o, !.stamp[s] = t.time], [type |-> "change", sel |-> s])

OwnerChanges ==
    /\ cb.inputs < MaxClipInputs
    /\ LET t == [cb EXCEPT !.inputs = @ + 1, !.time = @ + 1, !.current = FALSE]
       IN cb' \in {Taken(t, s, o) : s \in {"clipboard"} \cup (IF ClipAutoMode THEN Sels ELSE {}),
                                    o \in {"app", "none"}}
                  \cup {NotifyChange(Taken(Taken(t, "primary", "fellow"), "clipboard", "fellow"))}
    /\ UNCHANGED alone

(* An owner serves its conversions in order, the fellow through its own    *)
(* server, which may fail; the other clients are of one kind per behaviour.*)
AppKinds == {"plain", "INCR", "noTimestamp", "noTargets", "noText"}

Served(t, c) ==
    LET Refused == {XEvent(t, Notify(c.sel, c.kind, FALSE))}
        Wrote(u, what) == {XEvent(WriteProperty(u, c.sel, c.kind, what),
                                  Notify(c.sel, c.kind, TRUE))}
    IN CASE c.kind = "timestamp" /\ (c.by = "fellow" \/ t.app # "noTimestamp") ->
                Wrote(t, "none")
         [] c.kind = "targets" /\ c.by = "fellow" -> Wrote(t, "nativeTargets")
         [] c.kind = "targets" /\ c.by = "app" /\ t.app # "noTargets" -> Wrote(t, "targets")
         [] c.kind = "formats" /\ c.by = "fellow" -> Wrote(t, "formats")
         [] c.kind \in {"text", "native"} /\ c.by = "fellow" -> Wrote(t, "text") \cup Refused
         [] c.kind = "text" /\ c.by = "app" /\ t.app = "INCR" ->
                Wrote([t EXCEPT !.chunks = 2], "INCR")
         [] c.kind = "text" /\ c.by = "app" /\ t.app \notin {"INCR", "noText"} -> Wrote(t, "text")
         [] OTHER -> Refused

OwnerServes ==
    \E i \in 1 .. Len(cb.conv) :
        LET c == cb.conv[i]
            t == [cb EXCEPT !.conv = RemoveAt(@, i)]
        IN /\ \A j \in 1 .. i - 1 : cb.conv[j].by # c.by
           /\ cb' \in Served(t, c)
    /\ UNCHANGED alone

(* Each chunk is written once the previous one was deleted; the last is empty. *)
OwnerSendsChunk ==
    /\ cb.chunks > 0 /\ cb.target = "none"
    /\ cb' = PropertyWritten([cb EXCEPT !.target = IF cb.chunks = 2 THEN "chunk" ELSE "empty",
                                        !.chunks = @ - 1])
    /\ UNCHANGED alone

XClientRequests ==
    /\ cb.inputs < MaxClipInputs
    /\ \E s \in Sels, k \in {"targets", "text", "native"} :
           /\ cb.owner[s] = "us"
           /\ cb' = XEvent([cb EXCEPT !.inputs = @ + 1, !.issued = @ + 1],
                           [type |-> "request", id |-> cb.issued + 1, sel |-> s, kind |-> k])
    /\ UNCHANGED alone

(* An earlier owner has been announced when the run starts. *)
ClipInit ==
    /\ alone = FALSE
    /\ \E o \in {"us", "app"}, k \in AppKinds :
           cb = [XclipInit EXCEPT !.owner = [s \in Sels |-> o], !.stamp = [s \in Sels |-> 1],
                                  !.time = 1, !.app = k]

ClipNext ==
    \/ ClipEvent
    \/ ServerPastes \/ ServerAnnouncesFormats \/ ServerAnswers \/ ClipConnect
    \/ OwnerChanges \/ OwnerServes \/ OwnerSendsChunk \/ XClientRequests

ClipSpec == ClipInit /\ [][ClipNext]_clipVars

-----------------------------------------------------------------------------
(* Properties *)

(* Every X client that asked us for a conversion is answered once: by the  *)
(* handler of its request, or it is the one selection_request waits for.   *)
RequestorsAnsweredOnce ==
    \A id \in 1 .. cb.issued :
        \/ cb.answers[id] = 1
        \/ /\ cb.answers[id] = 0
           /\ \/ cb.hasRequest /\ cb.request.id = id
              \/ \E i \in 1 .. Len(cb.events) :
                     cb.events[i].type = "request" /\ cb.events[i].id = id

(* No reply goes to the server without a request: each helper_cliprdr_send *)
(* _response uses up the format of one CLIPRDR_DATA_REQUEST.               *)
ResponsesWereAsked == cb.responses + (IF cb.format THEN 1 ELSE 0) <= cb.asked

(* A probe always ends: once every conversion is answered and every event  *)
(* handled, probing_selections is False, or all later pastes would be      *)
(* refused.                                                                *)
ProbesEnd == ClipQuiet => ~cb.probing

(* Whatever selection changed hands, the server is told of formats at      *)
(* least once after the change.                                            *)
ChangesAreAnnounced ==
    /\ ClipQuiet
    /\ cb.owner["clipboard"] # "us" \/ (ClipAutoMode /\ cb.owner["primary"] # "us")
    => cb.current

(* A paste of the session that begins when nothing else is under way, and  *)
(* is not overlapped by a probe, does not stay unanswered, whatever the    *)
(* owners answer and whatever became of earlier pastes: when the X side is *)
(* quiet its format is used up, or selection_request waits for the server. *)
(* A probe that does overlap it takes over its properties and events, and  *)
(* the server may wait for ever (xclip.c:467-470).                         *)
LonePastesAnswered ==
    /\ ClipQuiet /\ cb.chunks = 0 /\ alone
    /\ ~(cb.hasRequest /\ cb.request.id = Self)
    => ~cb.format

(* X clients that paste from the session are answered once, the server no  *)
(* more often than it asked, no probe stays open, and the server is told   *)
(* of formats after each change of a selection (xclip.c).                  *)
PastesAnswered ==
    /\ ClipTypeOK
    /\ RequestorsAnsweredOnce /\ ResponsesWereAsked /\ ProbesEnd /\ ChangesAreAnnounced
=============================================================================
