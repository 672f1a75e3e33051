SPECIFICATION Spec
CONSTANTS
    ClipAutoMode = TRUE
    MaxClipInputs = 2
    SwIds = {1, 2}
    SwGroups = {1}
    SwPlaces = {0, 1}
    MaxSwChanges = 3
    Keymap <- MCKeymap
    Guess <- MCGuess
    Keys = {"char", "pad", "enter", "dead", "caps", "media", "break", "numlock", "shiftL", "shiftR", "ctrlL", "ctrlR", "altL", "altR", "altgr", "winL", "winR"}
    UngrabMods = {"ctrlL", "ctrlR", "altL", "altR", "altgr"}
    MaxHeld = 3
    MaxKeyEvents = 4
    MaxKeyQueue = 2
INVARIANT PastesAnswered
 
INVARIANT WindowsFollow
INVARIANT KeysFollow
CHECK_DEADLOCK FALSE
