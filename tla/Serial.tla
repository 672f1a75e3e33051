------------------------------- MODULE Serial -------------------------------
(***************************************************************************)
(* The settings of a serial port (serial.c): what the server set is kept   *)
(* in SERIAL_DEVICE, written to the port as termios, and read back from    *)
(* it, which overwrites what the server set.                               *)
(***************************************************************************)
EXTENDS Naturals

CONSTANT TtyDefaults    \* the settings another program may have left on the port

\* What the server sets: some speeds, and bytes of which a port knows only some.
Bauds == {9600, 115200, 230400, 12345}
StopBits == {0, 1, 2}                           \* STOP_BITS_1, one and a half, STOP_BITS_2
Parities == {"none", "even", "odd"}
SetParities == Parities \cup {"mark"}
WordLengths == {5, 8, 9}
Termios == [speed : {0, 9600, 115200, 230400}, cstopb : BOOLEAN, parity : Parities,
            size : 5 .. 8, crtscts : BOOLEAN, ixon : BOOLEAN, ixoff : BOOLEAN]

ASSUME SerialConstants == TtyDefaults \subseteq Termios

VARIABLES
    tio,        \* struct termios: speed, CSTOPB, PARENB with PARODD, CSIZE, CRTSCTS, IXON, IXOFF, OPOST
    ser,        \* SERIAL_DEVICE: baud_rate, stop_bits, parity, word_length, control, xonoff, dtr
    asked       \* history: what the server set since the port was opened

serialVars == <<tio, ser, asked>>

SerialTypeOK ==
    /\ tio \in Termios /\ ser.baud_rate \in Bauds \cup {0}
    /\ DOMAIN asked \subseteq DOMAIN ser

NoSettings == [baud_rate |-> 0, stop_bits |-> 0, parity |-> "none", word_length |-> 8,
               cts |-> FALSE, xon |-> FALSE, xoff |-> FALSE, dtr |-> 1]

SerialInit ==
    /\ tio \in TtyDefaults
    /\ ser = NoSettings /\ asked = [x \in {} |-> 0]

-----------------------------------------------------------------------------
(* get_termios *)

(* An unknown speed reads as 9600. *)
BaudOf(speed) == IF speed = 0 THEN 9600 ELSE speed

GetTermios(t) ==
    [baud_rate |-> BaudOf(t.speed), dtr |-> IF t.speed = 0 THEN 0 ELSE 1,
     stop_bits |-> IF t.cstopb THEN 2 ELSE 0, parity |-> t.parity,
     word_length |-> t.size, cts |-> t.crtscts, xon |-> t.ixon, xoff |-> t.ixoff]

(* set_termios: the two fastest speeds become 115200, an unknown one 9600. *)
SpeedOf(baud) == CASE baud = 230400 -> 115200 [] baud \in {9600, 115200} -> baud [] OTHER -> 9600

(* IXON and IXOFF are only cleared together. *)
FlowOf(s, t, flag, set) == set \/ (flag /\ (s.xon \/ s.xoff))

SetTermios(s, t) ==
    [speed |-> SpeedOf(s.baud_rate), cstopb |-> s.stop_bits = 2,
     parity |-> IF s.parity \in {"even", "odd"} THEN s.parity ELSE "none",
     size |-> IF s.word_length \in 5 .. 7 THEN s.word_length ELSE 8,
     crtscts |-> s.cts,
     ixon |-> FlowOf(s, t, t.ixon, s.xon), ixoff |-> FlowOf(s, t, t.ixoff, s.xoff)]

(* serial_create: 8 bits without parity, raw; SERIAL_DEVICE keeps what was read. *)
RawTermios(t) ==
    [speed |-> t.speed, cstopb |-> t.cstopb, parity |-> "none", size |-> 8,
     crtscts |-> t.crtscts, ixon |-> FALSE, ixoff |-> t.ixoff]

SerialOpens ==
    /\ ser' = GetTermios(tio)
    /\ tio' = RawTermios(tio)
    /\ asked' = [x \in {} |-> 0]

-----------------------------------------------------------------------------
(* serial_device_control *)

Sets(changes) ==
    LET s == [f \in DOMAIN ser |-> IF f \in DOMAIN changes THEN changes[f] ELSE ser[f]]
    IN /\ ser' = s
       /\ tio' = SetTermios(s, tio)
       /\ asked' = [f \in DOMAIN asked \cup DOMAIN changes |->
                        IF f \in DOMAIN changes THEN changes[f] ELSE asked[f]]

PortIsOpen == ser # NoSettings

SetBaudRate == PortIsOpen /\ \E b \in Bauds : Sets([baud_rate |-> b])

SetLineControl ==
    /\ PortIsOpen
    /\ \E stop \in StopBits, parity \in SetParities, word \in WordLengths :
           Sets([stop_bits |-> stop, parity |-> parity, word_length |-> word])

SetHandflow ==
    /\ PortIsOpen
    /\ \E cts \in BOOLEAN, xon \in BOOLEAN, xoff \in BOOLEAN :
           Sets([cts |-> cts, xon |-> xon, xoff |-> xoff])

(* The settings are read from the port first. *)
GetHandflow ==
    /\ PortIsOpen
    /\ ser' = GetTermios(tio)
    /\ UNCHANGED <<tio, asked>>

(* SERIAL_SET_DTR and SERIAL_CLR_DTR change the line, not the termios. *)
SetDtr ==
    /\ PortIsOpen
    /\ \E dtr \in {0, 1} : ser' = [ser EXCEPT !.dtr = dtr]
    /\ UNCHANGED <<tio, asked>>

SerialNext == SerialOpens \/ SetBaudRate \/ SetLineControl \/ SetHandflow \/ GetHandflow \/ SetDtr

SerialSpec == SerialInit /\ [][SerialNext]_serialVars

-----------------------------------------------------------------------------
(* What termios can hold, as set_termios and get_termios know it. *)
PortHolds ==
    [baud_rate |-> {9600, 115200}, stop_bits |-> {0, 2}, parity |-> Parities,
     word_length |-> 5 .. 8, cts |-> BOOLEAN]

(* What the server set is in SERIAL_DEVICE and on the port, and reading    *)
(* the settings back from the port, which overwrites SERIAL_DEVICE, does   *)
(* not change it, whatever else is set or read in between: for all that    *)
(* termios can hold.  Of the rest, one and a half stop bits become one,    *)
(* other parities none and other word lengths 8 bits, without an error;    *)
(* faster speeds become 115200 and unknown ones 9600.  Flow control is     *)
(* left out: IXON and IXOFF are only cleared together.                     *)
SettingsReadBack ==
    \A f \in DOMAIN asked \cap DOMAIN PortHolds :
        IF asked[f] \in PortHolds[f]
        THEN ser[f] = asked[f] /\ GetTermios(tio)[f] = asked[f]
        ELSE f # "baud_rate" =>
                 /\ ser[f] \in {asked[f], NoSettings[f]}
                 /\ GetTermios(tio)[f] = NoSettings[f]
=============================================================================
