------------------------------ MODULE Keyboard ------------------------------
(***************************************************************************)
(* The keyboard (xkeymap.c and the key and focus events of xwin.c).  Every *)
(* X key event is translated to a scancode and the modifiers it needs on   *)
(* the server, whatever the local ones are: Shift, AltGr and NumLock are   *)
(* changed around the key and put back.  The client remembers which        *)
(* modifiers it believes the server holds.  X events wait in a queue, and  *)
(* the state read with XQueryPointer is the one of now, not the event's.   *)
(***************************************************************************)
EXTENDS Integers, Sequences, FiniteSets

CONSTANTS
    Keymap,       \* keysym -> [code, mods, seq]: xkeymap.c's translations
    Guess,        \* key -> the scancode guessed from its keycode, or none
    Keys,         \* keys of the local keyboard
    UngrabMods,   \* modifiers that -J's combination is made of
    MaxHeld,      \* keys held down at once (bound)
    MaxKeyEvents, \* key, focus and connection changes (bound)
    MaxKeyQueue   \* events the client has not read yet (bound)

NoKeysym == "none"  \* no keysym, and the scancode 0

\* Scancodes of modifiers; "altgr" is the one of the right Alt.
ShiftKeys == {"shiftL", "shiftR"}
CtrlKeys == {"ctrlL", "ctrlR"}
WinKeys == {"winL", "winR"}
Modifiers == ShiftKeys \cup CtrlKeys \cup WinKeys \cup {"altL", "altgr"}

\* Their keysyms: ISO_Level3_Shift ("altgr"), Alt_R and Mode_switch share a scancode.
ModifierKeys == Modifiers \cup {"altR", "modeSwitch"}

\* What XKeyEvent.state tells of them: left and right are not told apart.
MaskOf(k) ==
    CASE k \in ShiftKeys -> "Shift" [] k \in CtrlKeys -> "Control" [] k \in WinKeys -> "Super"
      [] k = "altgr" -> "Level3" [] k = "modeSwitch" -> "Mode" [] OTHER -> "Alt"

\* The keysyms a local key may have, with and without Shift, AltGr and NumLock.
KeysymsOf(k) ==
    CASE k = "char" -> {"slash", "at", "a"} [] k = "pad" -> {"KP_Decimal", "KP_Delete"}
      [] k = "enter" -> {"Return"} [] OTHER -> {k}

\* xkeymap_translate_key: the scancode, a guess for a keysym the keymap lacks.
ScancodeOf(k, keysym) ==
    IF keysym \notin DOMAIN Keymap THEN Guess[k]
    ELSE IF Keymap[keysym].seq # << >> \/ "inhibit" \in Keymap[keysym].mods THEN NoKeysym
    ELSE Keymap[keysym].code

\* The same with the keys of handle_special_keys that have scancodes of their own.
KeyCode(k, keysym) ==
    IF keysym \in WinKeys \cup {"break"} THEN keysym
    ELSE IF keysym = "numlock" THEN NoKeysym
    ELSE ScancodeOf(k, keysym)

\* Only a modifier's key has a modifier's scancode, and a sequence is one of
\* single keys that are not modifiers.
ASSUME KeyboardConstants ==
    /\ MaxHeld \in Nat /\ MaxKeyEvents \in Nat /\ MaxKeyQueue \in Nat
    /\ NoKeysym \notin Keys
    /\ \A k \in Keys \ ModifierKeys : \A s \in KeysymsOf(k) : KeyCode(k, s) \notin Modifiers
    /\ UngrabMods \subseteq ModifierKeys
    /\ \A s \in DOMAIN Keymap :
           /\ DOMAIN Keymap[s] = {"code", "mods", "seq"}
           /\ Keymap[s].seq \in Seq(STRING)
           /\ \A n \in 1 .. Len(Keymap[s].seq) : \A k \in Keys :
                  /\ ScancodeOf(k, Keymap[s].seq[n]) \notin Modifiers
                  /\ Keymap[s].seq[n] \in DOMAIN Keymap => Keymap[Keymap[s].seq[n]].seq = << >>

VARIABLES
    kb,     \* the client: what it believes; the server: what it holds
    kx      \* the X server: keys, focus, events on their way

keyVars == <<kb, kx>>

KeyTypeOK ==
    /\ kb.remote \subseteq Modifiers \cup {"numlock"} /\ kb.lost \subseteq Modifiers
    /\ \A k \in Keys : kb.pressed[k] \in KeysymsOf(k) \cup {NoKeysym}
    /\ kx.held \subseteq Keys /\ Cardinality(kx.held) <= MaxHeld /\ Len(kx.queue) <= MaxKeyQueue
    /\ kx.seen \subseteq kx.held
    /\ {kb.sync, kb.snum, kb.mistyped, kb.unaccounted, kb.aliased, kb.missed} \subseteq BOOLEAN
    /\ {kx.focus, kx.num} \subseteq BOOLEAN

-----------------------------------------------------------------------------
(* What is sent *)

UpdateModifierState(remote, code, pressed) ==
    IF code \notin Modifiers THEN remote
    ELSE IF pressed THEN remote \cup {code} ELSE remote \ {code}

SendScancode(t, pressed, code) ==
    [t EXCEPT !.remote = UpdateModifierState(@, code, pressed),
              !.down = IF pressed THEN @ \cup {code} ELSE @ \ {code}]

(* RDP_INPUT_SYNCHRONIZE sets the server's NumLock and lifts all its keys. *)
SendSynchronize(t, numlock) == [t EXCEPT !.down = {}, !.snum = numlock]

(* One sent without the client forgetting the modifiers it had pressed. *)
Resynchronize(t, numlock) ==
    [SendSynchronize(t, numlock) EXCEPT
        !.unaccounted = @ \/ t.remote \cap Modifiers # {}
                          \/ (~t.sync /\ ("numlock" \in t.remote) # numlock)]

HasShift(mods) == mods \cap ShiftKeys # {}

EnsureNumLock(t, mods) ==
    IF t.sync \/ ("numlock" \in mods) = ("numlock" \in t.remote) THEN t
    ELSE SendSynchronize([t EXCEPT !.remote = mods \cap {"numlock"}], "numlock" \in mods)

EnsureShift_LeftOnly(t, mods) ==
    IF ("shiftL" \in mods) = ("shiftL" \in t.remote) THEN t
    ELSE SendScancode(t, "shiftL" \in mods, "shiftL")

(* Either Shift is as good as the other. *)
EnsureShift(t, mods) ==
    IF HasShift(mods) = HasShift(t.remote) THEN t
    ELSE IF "shiftL" \in mods THEN SendScancode(t, TRUE, "shiftL")
    ELSE IF "shiftR" \in mods THEN SendScancode(t, TRUE, "shiftR")
    ELSE SendScancode(t, FALSE, IF "shiftL" \in t.remote THEN "shiftL" ELSE "shiftR")

EnsureAltGr(t, mods) ==
    IF ("altgr" \in mods) = ("altgr" \in t.remote) THEN t
    ELSE SendScancode(t, "altgr" \in mods, "altgr")

EnsureModifiers(t, mods) == EnsureAltGr(EnsureShift(EnsureNumLock(t, mods), mods), mods)

-----------------------------------------------------------------------------
(* xkeymap_translate_key: a key may ask for the local Shift; and there is   *)
(* no Shift of the keymap together with Ctrl unless Shift is really held.  *)
LocalShift(mods, state) == IF "Shift" \in state THEN {"shiftL"} ELSE mods

Translation(t, k, keysym, state) ==
    LET known == keysym \in DOMAIN Keymap
        listed == IF known THEN Keymap[keysym].mods ELSE {}
        mods == IF ~known \/ "localstate" \in listed THEN LocalShift(listed, state) ELSE listed
        released == known /\ t.remote \cap CtrlKeys # {} /\ "Shift" \notin state
    IN  [code |-> ScancodeOf(k, keysym), mods |-> IF released THEN mods \ ShiftKeys ELSE mods]

RestoreModifiers(t, saved) == EnsureModifiers(t, saved)

(* Whether the server holds what the keymap asks for when it gets a key.   *)
Fits(t, mods) ==
    /\ HasShift(mods) = HasShift(t.down)
    /\ ("altgr" \in mods) = ("altgr" \in t.down)
    /\ ~t.sync => ("numlock" \in mods) = t.snum

(* The modifiers held that are not put back after a key: the synchronisation*)
(* NumLock needs lifts all but only Shift and AltGr are pressed again, and   *)
(* of two Shifts one is lifted.                                              *)
LostTo(t, mods) ==
    (IF ~t.sync /\ ("numlock" \in mods) # ("numlock" \in t.remote)
     THEN t.remote \cap (Modifiers \ (ShiftKeys \cup {"altgr"})) ELSE {})
    \cup (IF ShiftKeys \subseteq t.remote THEN ShiftKeys ELSE {})

(* A modifier's own key: what was lost comes back when it is pressed again.  *)
SendModifier(t, pressed, code) == [SendScancode(t, pressed, code) EXCEPT !.lost = @ \ {code}]

(* xkeymap_send_keys for one scancode *)
SendKey(t, k, keysym, state, pressed) ==
    LET tr == Translation(t, k, keysym, state)
        e  == EnsureModifiers(t, tr.mods)
        wrong == pressed /\ ~ShiftKeys \subseteq t.remote /\ ~Fits(e, tr.mods)
    IN  IF tr.code = NoKeysym THEN t
        ELSE IF tr.code \in Modifiers THEN SendModifier(t, pressed, tr.code)
        ELSE RestoreModifiers(SendScancode([e EXCEPT !.mistyped = @ \/ wrong,
                                                     !.lost = @ \cup LostTo(t, tr.mods)],
                                           pressed, tr.code), t.remote)

Tap(t, k, keysym, state) == SendKey(SendKey(t, k, keysym, state, TRUE), k, keysym, state, FALSE)

(* The taps of a sequence, one after the other. *)
Tapped(t, k, seq, state) ==
    LET taps[n \in 0 .. Len(seq)] == IF n = 0 THEN t ELSE Tap(taps[n - 1], k, seq[n], state)
    IN  taps[Len(seq)]

(* xkeymap_send_keys: a sequence is typed when its key goes down. *)
SendKeys(t, k, keysym, state, pressed) ==
    IF keysym \notin DOMAIN Keymap \/ Keymap[keysym].seq = << >> THEN SendKey(t, k, keysym, state, pressed)
    ELSE IF pressed THEN Tapped(t, k, Keymap[keysym].seq, state)
    ELSE t

(* get_key_state: whether the mask of a key of the keyboard is set. *)
KeyState(state, k) == k \in Keys /\ MaskOf(k) \in state

(* handle_special_keys: the keys the client keeps to itself. *)
IsSpecial(keysym, state) ==
    \/ keysym \in {"numlock", "break"} \cup WinKeys
    \/ /\ keysym = "Return"
       /\ \E k \in {"altL", "altR"} : KeyState(state, k)
       /\ \E k \in CtrlKeys : KeyState(state, k)

(* Break is pressed, twice, and never released. *)
SpecialKey(t, keysym, pressed) ==
    IF keysym \in WinKeys THEN SendModifier(t, pressed, keysym)
    ELSE IF keysym = "break" THEN IF pressed THEN SendScancode(t, TRUE, "break") ELSE t
    ELSE IF keysym = "numlock" /\ t.sync /\ ~pressed THEN Resynchronize(t, kx.num)
    ELSE [t EXCEPT !.missed = @ \/ (keysym = "Return" /\ ~pressed)]

(* handle_keyboard_ungrab comes first: -J's modifiers are not sent at all.  *)
HandleKey(t, k, keysym, state, pressed) ==
    IF keysym \in t.ungrab THEN t
    ELSE IF IsSpecial(keysym, state) THEN SpecialKey(t, keysym, pressed)
    ELSE SendKeys(t, k, keysym, state, pressed)

-----------------------------------------------------------------------------
(* The client reads an event. *)

NextEvent(type) == kx.queue # << >> /\ Head(kx.queue).type = type
EventDone == kx' = [kx EXCEPT !.queue = Tail(@)]

KeyPress ==
    /\ NextEvent("press")
    /\ LET e == Head(kx.queue) IN
       kb' = HandleKey([kb EXCEPT !.pressed[e.key] = e.keysym,
                                  !.missed = @ \/ kb.pressed[e.key] # NoKeysym],
                       e.key, e.keysym, e.state, TRUE)
    /\ EventDone

(* reset_keypress_keysym: the keysym the key had when it went down. *)
ReleasedKeysym(k, keysym) == IF kb.pressed[k] = NoKeysym THEN keysym ELSE kb.pressed[k]

KeyRelease ==
    /\ NextEvent("release")
    /\ LET e == Head(kx.queue) IN
       kb' = HandleKey([kb EXCEPT !.pressed[e.key] = NoKeysym],
                       e.key, ReleasedKeysym(e.key, e.keysym), e.state, FALSE)
    /\ EventDone

StateOf(held) == {MaskOf(k) : k \in held \cap ModifierKeys}

\* The scancodes of a key that are sent.
CodesOf(k, ungrab) == {KeyCode(k, s) : s \in KeysymsOf(k) \ ungrab}
HeldCodes == UNION {CodesOf(k, kb.ungrab) : k \in kx.held}

StillHeld(code, state) ==
    \E k \in IF code = "altgr" THEN {"altR", "altgr", "modeSwitch"} ELSE {code} : KeyState(state, k)
ToRelease(state) == {code \in kb.remote \cap (Modifiers \ WinKeys) : ~StillHeld(code, state)}

(* FocusIn: reset_modifier_keys lifts what is not held any more, and the   *)
(* left Windows key for both.                                              *)
FocusIn ==
    /\ NextEvent("in")
    /\ LET state == StateOf(kx.held)
           lifted == [kb EXCEPT !.remote = @ \ ToRelease(state), !.down = @ \ ToRelease(state)]
           won == SendScancode(lifted, FALSE, "winL")
           r == IF kb.sync THEN Resynchronize(won, kx.num) ELSE won
       IN  kb' = [r EXCEPT !.aliased = @ \/ \E code \in r.remote \cap (Modifiers \ WinKeys) :
                                                StillHeld(code, state) /\ code \notin HeldCodes]
    /\ EventDone

FocusOut == NextEvent("out") /\ EventDone /\ UNCHANGED kb

(* process_demand_active after a reconnect: another server session, which  *)
(* holds nothing.                                                          *)
KeyReconnect ==
    /\ kx.count < MaxKeyEvents
    /\ kb' = Resynchronize([kb EXCEPT !.down = {}], kb.sync /\ kx.num)
    /\ kx' = [kx EXCEPT !.count = @ + 1]

-----------------------------------------------------------------------------
(* The user and the X server *)

KeysymOf(k, held) ==
    IF k = "char" THEN IF "Shift" \in StateOf(held) THEN "slash" ELSE IF "altgr" \in held THEN "at" ELSE "a"
    ELSE IF k = "pad" THEN IF kx.num THEN "KP_Decimal" ELSE "KP_Delete"
    ELSE IF k = "enter" THEN "Return"
    ELSE k

Event(type, k) ==
    [type |-> type, key |-> k, keysym |-> KeysymOf(k, kx.held), state |-> StateOf(kx.held)]

Room == kx.count < MaxKeyEvents /\ Len(kx.queue) < MaxKeyQueue
Queued(e) == IF kx.focus THEN Append(kx.queue, e) ELSE kx.queue

PressKey(k) ==
    /\ Room /\ k \notin kx.held /\ Cardinality(kx.held) < MaxHeld
    /\ kx' = [kx EXCEPT !.held = @ \cup {k}, !.queue = Queued(Event("press", k)), !.count = @ + 1,
                        !.seen = IF kx.focus THEN @ \cup {k} ELSE @,
                        !.num = IF k = "numlock" THEN ~@ ELSE @]
    /\ UNCHANGED kb

LiftKey(k) ==
    /\ Len(kx.queue) < MaxKeyQueue /\ k \in kx.held
    /\ kx' = [kx EXCEPT !.held = @ \ {k}, !.seen = @ \ {k}, !.queue = Queued(Event("release", k))]
    /\ UNCHANGED kb

ChangeFocus ==
    /\ Room
    /\ kx' = [kx EXCEPT !.focus = ~@, !.seen = {}, !.count = @ + 1,
                        !.queue = Append(@, [type |-> IF kx.focus THEN "out" ELSE "in"])]
    /\ UNCHANGED kb

-----------------------------------------------------------------------------
KeyInit ==
    /\ \E sync \in BOOLEAN, ungrab \in {{}, UngrabMods} :
           kb = [sync |-> sync, ungrab |-> ungrab, remote |-> {}, pressed |-> [k \in Keys |-> NoKeysym],
                 down |-> {}, snum |-> FALSE, mistyped |-> FALSE, lost |-> {},
                 unaccounted |-> FALSE, aliased |-> FALSE, missed |-> FALSE]
    /\ kx = [held |-> {}, seen |-> {}, focus |-> TRUE, num |-> FALSE, queue |-> << >>, count |-> 0]

KeyNext ==
    \/ KeyPress \/ KeyRelease \/ FocusIn \/ FocusOut \/ KeyReconnect \/ ChangeFocus
    \/ \E k \in Keys : PressKey(k) \/ LiftKey(k)

KeySpec == KeyInit /\ [][KeyNext]_keyVars

-----------------------------------------------------------------------------
(* The client knows which modifiers the server holds, through the keys it  *)
(* presses and lifts around others and the synchronisation NumLock needs.  *)
(* A synchronisation sent for another reason (FocusIn and NumLock with -N, *)
(* a new session) lifts keys the client still counts: kb.unaccounted.      *)
RemoteStateInStep ==
    ~kb.unaccounted =>
        /\ kb.remote \cap Modifiers = kb.down \cap Modifiers
        /\ ~kb.sync => ("numlock" \in kb.remote) = kb.snum

(* Each key arrives with the Shift, AltGr and NumLock its keysym needs,    *)
(* whatever is held locally and whatever was typed before.  Of two Shifts  *)
(* only one is lifted.                                                     *)
TypedAsMapped ==
    ~kb.unaccounted => ~kb.mistyped

(* A modifier pressed while the window has the focus and still held is     *)
(* held by the server too, whatever was typed meanwhile with other         *)
(* modifiers; except one whose scancode another key has as well, and one   *)
(* that a key has cost: Ctrl, the left Alt and Windows are not pressed     *)
(* again after the synchronisation of NumLock, nor is one of two Shifts.   *)
HeldAreDown ==
    kx.queue = << >> /\ ~kb.unaccounted =>
        \A k \in kx.seen : \A code \in (CodesOf(k, kb.ungrab) \cap Modifiers) \ kb.lost :
            (\A j \in Keys \ {k} : code \notin CodesOf(j, kb.ungrab)) => code \in kb.down

(* With the focus back, all events read and nothing held locally, the      *)
(* server holds no modifier, whatever was lifted while the focus was away; *)
(* except one for which the left or right one of the pair was taken when   *)
(* the focus came back, and the right Windows key, which is not lifted     *)
(* then.                                                                   *)
NoModifierStuck ==
    kx.queue = << >> /\ kx.focus /\ kx.held = {} /\ ~kb.aliased
        => kb.down \cap (Modifiers \ {"winR"}) = {}

(* A key the server holds is one the client has pressed and will lift with *)
(* the scancode it was pressed with, even if Shift has changed its keysym  *)
(* meanwhile; except Break, a Return released as part of a hotkey and a    *)
(* key lifted while another window had the focus.                          *)
PressesAreLifted ==
    ~kb.missed =>
        \A code \in kb.down \ (Modifiers \cup {"break"}) :
            \E k \in Keys : kb.pressed[k] \notin {NoKeysym} \cup kb.ungrab /\ KeyCode(k, kb.pressed[k]) = code

(* What the server takes for pressed and typed is what was pressed and     *)
(* typed, across changes of focus and of session (xkeymap.c).              *)
KeysFollow ==
    /\ KeyTypeOK
    /\ RemoteStateInStep /\ TypedAsMapped /\ HeldAreDown /\ NoModifierStuck /\ PressesAreLifted
=============================================================================
