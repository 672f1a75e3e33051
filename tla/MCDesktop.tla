------------------------------ MODULE MCDesktop -----------------------------
(***************************************************************************)
(* Model checking of the X11 side: clipboard, seamless windows, keyboard.  *)
(* They share no state; a behaviour is one of a single component.          *)
(***************************************************************************)
EXTENDS Clipboard, Seamless, Keyboard

VARIABLE component  \* the one that runs

\* A keymap in which Shift is needed, and not needed, other than locally;
\* with AltGr, NumLock, the local Shift, an inhibited key and a dead key of
\* which one part is not in the keymap.  The left and right Alt as in
\* keymaps/modifiers.
Key(code, mods) == [code |-> code, mods |-> mods, seq |-> << >>]
MCKeymap ==
    [a |-> Key("30", {}), slash |-> Key("53", {}), question |-> Key("53", {"shiftL"}),
     at |-> Key("3", {"altgr"}), KP_Decimal |-> Key("83", {"numlock"}), KP_Delete |-> Key("83", {}),
     Return |-> Key("28", {"localstate"}), caps |-> Key("58", {"inhibit"}),
     dead |-> [code |-> "none", mods |-> {}, seq |-> <<"question", "unmapped", "at">>],
     shiftL |-> Key("shiftL", {}), shiftR |-> Key("shiftR", {}),
     ctrlL |-> Key("ctrlL", {}), ctrlR |-> Key("ctrlR", {}),
     altL |-> Key("altL", {}), altR |-> Key("altgr", {}), altgr |-> Key("altgr", {})]

\* Keycodes above 0x60 are not guessed.
MCGuess == [k \in Keys |-> IF k \in {"dead", "media"} THEN "26" ELSE NoKeysym]

allVars == <<component, clipVars, swVars, keyVars>>

Runs(c) == component = c /\ UNCHANGED component

Init ==
    /\ component \in {"clipboard", "seamless", "keyboard"}
    /\ ClipInit /\ SeamlessInit /\ KeyInit
    \* one of the beginnings is enough for the components that rest
    /\ component # "clipboard" => cb.owner["primary"] = "us" /\ cb.app = "plain"
    /\ component # "keyboard" => ~kb.sync /\ kb.ungrab = {}

Next ==
    \/ /\ Runs("clipboard") /\ ClipNext
       /\ UNCHANGED <<swVars, keyVars>>
    \/ /\ Runs("seamless") /\ SeamlessNext
       /\ UNCHANGED <<clipVars, keyVars>>
    \/ /\ Runs("keyboard") /\ KeyNext
       /\ UNCHANGED <<clipVars, swVars>>

Spec == Init /\ [][Next]_allVars
=============================================================================
