------------------------------- MODULE Sound -------------------------------
(***************************************************************************)
(* Sound: the queue of waves (rdpsnd.c), the drivers that play and record  *)
(* (rdpsnd_oss.c, rdpsnd_sun.c, rdpsnd_alsa.c, rdpsnd_sgi.c,               *)
(* rdpsnd_libao.c) and the recording channel (rdpsnd_input.c).  A driver   *)
(* operation maps the driver's state to the set of its results.            *)
(***************************************************************************)
EXTENDS Integers, Sequences, FiniteSets, FiniteSetsExt

CONSTANTS
    MAX_QUEUE,      \* slots of packet_queue
    SndFormats,     \* formats the server offers
    MaxWaves,       \* waves the server sends (bound)
    MaxFaults,      \* failing device operations (bound)
    MaxResets       \* connections lost (bound)

ASSUME SoundConstants ==
    MAX_QUEUE \in Nat \ {0, 1} /\ MaxWaves \in Nat /\ MaxFaults \in Nat

Drivers == {"oss", "sun", "alsa", "sgi", "libao"}
Recorders == {"oss", "sun", "alsa"}
NoFormat == "no format"
NoDriver == "no driver"

VARIABLES
    built,              \* the driver of this build
    current_driver,     \* NoDriver before rdpsnd_auto_select succeeds
    autoFailed,         \* rdpsnd_auto_select: failed
    dev,                \* static variables of the driver's file
    device_open, current_format, rdpsnd_negotiated,
    g_input_open, inFormats,    \* rdpsnd_input.c: device open, formats received
    queue,              \* queue_hi, queue_lo, queue_pending and packet_queue
    confirmedQ,         \* history: queued waves confirmed
    sndAborted,         \* an assertion has failed
    sndLink,            \* "up", "down", or "reset": about to connect again
    netError,           \* g_network_error
    nWaves, nResets     \* environment

devVars == <<dev, sndAborted>>
inputVars == <<g_input_open, inFormats>>
chanVars == <<built, current_driver, autoFailed, rdpsnd_negotiated>>
linkVars == <<sndLink, nResets>>
sndVars == <<chanVars, devVars, device_open, current_format, g_input_open, inFormats, queue,
             confirmedQ, linkVars, netError, nWaves>>

NoPacket == [id |-> 0, left |-> 0, due |-> 0]
Slots == 0 .. MAX_QUEUE - 1
EmptyQueue == [hi |-> 0, lo |-> 0, pending |-> 0, slots |-> [i \in Slots |-> NoPacket]]
Closed(duplex) ==
    [fd |-> FALSE, mode |-> "w", refs |-> 0, configured |-> FALSE, fmt |-> NoFormat,
     out |-> FALSE, in |-> FALSE, duplex |-> duplex, faults |-> 0]

SoundTypeOK ==
    /\ built \in Drivers /\ current_driver \in {built, NoDriver}
    /\ dev.mode \in {"r", "w", "rw"} /\ dev.refs \in Int /\ dev.faults \in 0 .. MaxFaults
    /\ queue.hi \in Slots /\ queue.lo \in Slots /\ queue.pending \in Slots
    /\ queue.slots \in [Slots -> [id : 0 .. MaxWaves, left : 0 .. 2, due : 0 .. 1]]
    /\ current_format \in SndFormats \cup {NoFormat}
    /\ sndLink \in {"up", "down", "reset"}

SoundInit ==
    /\ built \in Drivers /\ current_driver \in {built, NoDriver} /\ autoFailed = FALSE
    /\ \E duplex \in BOOLEAN : dev = Closed(duplex)
    /\ device_open = FALSE /\ current_format = NoFormat /\ rdpsnd_negotiated = FALSE
    /\ g_input_open = FALSE /\ inFormats = FALSE
    /\ queue = EmptyQueue
    /\ confirmedQ = << >> /\ sndAborted = FALSE
    /\ sndLink = "up" /\ netError = FALSE /\ nWaves = 0 /\ nResets = 0

-----------------------------------------------------------------------------
(* The queue: a ring with a part that has been played, from pending to lo,   *)
(* and a part still to play, from lo to hi.                                  *)

Succ(i) == (i + 1) % MAX_QUEUE
Distance(i, j) == (j - i + MAX_QUEUE) % MAX_QUEUE
QueueEmpty(q) == q.lo = q.hi
WavesFrom(q, i, n) == [k \in 1 .. n |-> q.slots[(i + k - 1) % MAX_QUEUE].id]

(* Mutant: the ring is full when it meets the packet that is being played.   *)
QueueWrite_FullAtLo(q, w) ==
    IF Succ(q.hi) = q.lo THEN q
    ELSE [q EXCEPT !.slots[q.hi] = [id |-> w, left |-> 2, due |-> 0], !.hi = Succ(@)]

(* A wave that finds no space is dropped without an answer. *)
QueueWrite(q, w) ==
    IF Succ(q.hi) = q.pending THEN q
    ELSE [q EXCEPT !.slots[q.hi] = [id |-> w, left |-> 2, due |-> 0], !.hi = Succ(@)]

(* Mutant: only a packet that is followed by another one is completed. *)
Completable_LeavesOne(q) ==
    LET played == Distance(q.pending, q.lo)
    IN IF played < 2 THEN 0
       ELSE Min({k \in 0 .. played :
                    k = played \/ q.slots[(q.pending + k) % MAX_QUEUE].due > 0})

(* The waves from pending on whose completion time has come, up to lo. *)
Completable(q) ==
    LET played == Distance(q.pending, q.lo)
    IN Min({k \in 0 .. played :
               k = played \/ q.slots[(q.pending + k) % MAX_QUEUE].due > 0})

CompletePending(q) ==
    LET n == Completable(q)
    IN [q EXCEPT !.pending = (@ + n) % MAX_QUEUE,
                 !.slots = [i \in Slots |-> IF Distance(q.pending, i) < n THEN NoPacket
                                            ELSE @[i]]]       \* s_free

(* One packet is played; it completes after due. *)
QueueNext(q, due) ==
    CompletePending([q EXCEPT !.slots[q.lo].due = due, !.lo = Succ(@)])

(* while (!rdpsnd_queue_empty()) rdpsnd_queue_next(0) *)
AckAll(q) ==
    LET left == {(q.lo + k) % MAX_QUEUE : k \in 0 .. Distance(q.lo, q.hi) - 1}
    IN CompletePending([q EXCEPT
           !.lo = q.hi,
           !.slots = [i \in Slots |-> IF i \in left THEN [@[i] EXCEPT !.due = 0] ELSE @[i]]])

(* A SNDC_WAVECONFIRM is sent for all that q has completed; channel_send     *)
(* fails when there is no connection.                                        *)
SendWaveConfirm(q) ==
    LET n == Distance(queue.pending, q.pending)
    IN /\ confirmedQ' = IF sndLink = "up"
                        THEN confirmedQ \o WavesFrom(queue, queue.pending, n) ELSE confirmedQ
       /\ netError' = (netError \/ (n > 0 /\ sndLink # "up"))

Confirming(q) == queue' = q /\ SendWaveConfirm(q)

-----------------------------------------------------------------------------
(* Drivers: sets of results [ok, d] *)

Ok(d) == {[ok |-> TRUE, d |-> d]}
No(d) == {[ok |-> FALSE, d |-> d]}
Fails(d, after) ==
    IF d.faults < MaxFaults THEN No([after EXCEPT !.faults = @ + 1]) ELSE {}

(* OSS: one descriptor for both directions, reopened when the need changes.  *)
OssOpenDevice(d, mode) ==
    LET fresh == [d EXCEPT !.mode = mode, !.configured = FALSE]
    IN Ok([fresh EXCEPT !.fd = TRUE]) \cup Fails(d, [fresh EXCEPT !.fd = FALSE])

OssOpen(d, wanted) ==
    IF ~d.fd THEN OssOpenDevice(d, wanted)
    ELSE IF d.mode = wanted THEN Ok(d)
    ELSE IF d.duplex THEN OssOpenDevice(d, "rw") ELSE No(d)

OssClose(d) == [d EXCEPT !.fd = FALSE]

OssSetFormat(d, f) ==
    LET set == [d EXCEPT !.fmt = f]
    IN IF d.configured THEN (IF d.fmt = f THEN Ok(d) ELSE No(d))
       ELSE Ok([set EXCEPT !.configured = TRUE]) \cup Fails(d, OssClose(set))

OssRestoreFormat(d) == {r.d : r \in OssSetFormat(d, d.fmt)}

(* Mutant: the other direction does not get the device back. *)
OssCloseFor_Both(d, other) == {OssClose(d)}

(* One direction closes: the device is opened again for the other alone. *)
OssCloseFor(d, other) ==
    IF d.mode # "rw" THEN {OssClose(d)}
    ELSE UNION {IF r.ok THEN OssRestoreFormat(r.d) ELSE {r.d} :
                    r \in OssOpen(OssClose(d), other)}

OssCloseOut(d) == OssCloseFor(d, "r")
OssCloseIn(d) == OssCloseFor(d, "w")
OssWatches(d) == d.fd /\ d.mode \in {"w", "rw"}
OssPlay == {"part", "end", "failed"}

(* Sun: one descriptor, both ways when the hardware can, counted users.      *)
SunOpen(d, mode) ==
    LET opened == [d EXCEPT !.fd = TRUE, !.mode = IF d.duplex THEN "rw" ELSE mode,
                            !.configured = FALSE, !.refs = @ + 1]
    IN IF ~d.fd THEN Ok(opened) \cup Fails(d, [opened EXCEPT !.fd = FALSE, !.refs = d.refs])
       ELSE IF d.mode \in {"rw", mode} THEN Ok([d EXCEPT !.refs = @ + 1])
       ELSE No(d)

SunClose(d) == [d EXCEPT !.refs = @ - 1, !.fd = @ /\ d.refs # 1]

SunOpenOut(d) == {[r EXCEPT !.d.out = @ \/ r.ok] : r \in SunOpen(d, "w")}
SunCloseOut(d) == {[SunClose(d) EXCEPT !.out = FALSE]}
SunCloseIn(d) == {[SunClose(d) EXCEPT !.in = FALSE]}
SunWatches(d) == d.fd /\ d.out
SunPlay == {"part", "end", "failed"}

(* sun_resume may fail. *)
SunOpenIn(d) ==
    UNION {IF r.ok THEN Ok([r.d EXCEPT !.in = TRUE]) \cup Fails(r.d, SunClose(r.d)) ELSE {r} :
               r \in SunOpen(d, "r")}

SunSetFormat(d, f) ==
    LET set == [d EXCEPT !.fmt = f]
    IN IF d.configured THEN (IF d.fmt = f THEN Ok(d) ELSE No(d))
       ELSE (IF d.fd THEN Ok([set EXCEPT !.configured = TRUE]) \cup Fails(d, SunClose(set))
             ELSE No(SunClose(set)))

(* ALSA has a handle for each direction. *)
AlsaOpenOut(d) == Ok([d EXCEPT !.out = TRUE]) \cup Fails(d, d)
AlsaOpenIn(d) == Ok([d EXCEPT !.in = TRUE]) \cup Fails(d, d)
AlsaCloseOut(d) == {[d EXCEPT !.out = FALSE]}
AlsaCloseIn(d) == {[d EXCEPT !.in = FALSE]}
AlsaSetFormat(d, f) == Ok(d) \cup Fails(d, d)
AlsaWatches(d) == d.out
AlsaPlay == {"part", "end", "late"}

(* SGI: the port is opened again when the number of channels changes, and a  *)
(* packet is written whole.                                                  *)
SgiOpen(d) == Ok([d EXCEPT !.out = TRUE]) \cup Fails(d, [d EXCEPT !.out = FALSE])
SgiClose(d) == {[d EXCEPT !.out = FALSE]}
SgiSetFormat(d, f) ==
    Ok([d EXCEPT !.out = TRUE])
    \cup Fails(d, [d EXCEPT !.out = FALSE]) \cup Fails(d, [d EXCEPT !.out = TRUE])
SgiPlay == {"whole", "many"}

(* libao: the device is closed and opened again, then the resampler set up.  *)
LibaoOpen(d) == Ok([d EXCEPT !.out = TRUE]) \cup Fails(d, [d EXCEPT !.out = FALSE])
LibaoClose(d) == {[d EXCEPT !.out = FALSE]}
LibaoSetFormat(d, f) ==
    Ok([d EXCEPT !.out = TRUE])
    \cup Fails(d, [d EXCEPT !.out = FALSE]) \cup Fails(d, [d EXCEPT !.out = TRUE])
LibaoPlay == {"part", "end", "late"}

(* The tables of functions that the register functions fill in. *)
WaveOutOpen(d) ==
    CASE built = "oss" -> OssOpen(d, "w") [] built = "sun" -> SunOpenOut(d)
      [] built = "alsa" -> AlsaOpenOut(d) [] built = "sgi" -> SgiOpen(d)
      [] built = "libao" -> LibaoOpen(d)
WaveOutClose(d) ==
    CASE built = "oss" -> OssCloseOut(d) [] built = "sun" -> SunCloseOut(d)
      [] built = "alsa" -> AlsaCloseOut(d) [] built = "sgi" -> SgiClose(d)
      [] built = "libao" -> LibaoClose(d)
WaveSetFormat(d, f) ==
    CASE built = "oss" -> OssSetFormat(d, f) [] built = "sun" -> SunSetFormat(d, f)
      [] built = "alsa" -> AlsaSetFormat(d, f) [] built = "sgi" -> SgiSetFormat(d, f)
      [] built = "libao" -> LibaoSetFormat(d, f)
WaveInOpen(d) ==
    CASE built = "oss" -> OssOpen(d, "r") [] built = "sun" -> SunOpenIn(d)
      [] built = "alsa" -> AlsaOpenIn(d)
WaveInClose(d) ==
    CASE built = "oss" -> OssCloseIn(d) [] built = "sun" -> SunCloseIn(d)
      [] built = "alsa" -> AlsaCloseIn(d)
Plays ==
    CASE built = "oss" -> OssPlay [] built = "sun" -> SunPlay [] built = "alsa" -> AlsaPlay
      [] built = "sgi" -> SgiPlay [] built = "libao" -> LibaoPlay
CanPlay(d) ==
    CASE built = "oss" -> OssWatches(d) [] built = "sun" -> SunWatches(d)
      [] built = "alsa" -> AlsaWatches(d) [] OTHER -> d.out

(* assert(dsp_fd != -1) *)
AssertsOpen(d) == built = "oss" /\ ~d.fd

-----------------------------------------------------------------------------
(* rdpsnd.c: packets from the server *)

CanRun == sndLink = "up" /\ ~sndAborted

(* The first driver that opens is kept. *)
Probe(d) ==
    UNION {IF r.ok THEN {[ok |-> TRUE, d |-> c] : c \in WaveOutClose(r.d)} ELSE {r} :
               r \in WaveOutOpen(d)}

(* rdpsnd_auto_select; a failure is remembered for ever. *)
AutoSelect ==
    IF autoFailed THEN UNCHANGED <<dev, current_driver, autoFailed>>
    ELSE \E r \in Probe(dev) :
            /\ dev' = r.d /\ autoFailed' = ~r.ok
            /\ current_driver' = IF r.ok THEN built ELSE NoDriver

(* rdpsnd_reset_state: both directions are closed, and the packets that are  *)
(* played but not yet complete are forgotten.                                *)
Closings(d) ==
    LET outs == IF device_open THEN WaveOutClose(d) ELSE {d}
    IN IF g_input_open THEN UNION {WaveInClose(o) : o \in outs} ELSE outs

ResetSound ==
    /\ SendWaveConfirm(IF device_open THEN AckAll(queue) ELSE queue)
    /\ queue' = EmptyQueue
    /\ device_open' = FALSE /\ g_input_open' = FALSE /\ inFormats' = FALSE

(* SNDC_FORMATS: a second one resets the sound state.  The device is opened  *)
(* and closed to see whether it is there.                                    *)
ProcessNegotiate ==
    /\ CanRun
    /\ IF rdpsnd_negotiated THEN ResetSound
       ELSE UNCHANGED <<queue, confirmedQ, netError, device_open, inputVars>>
    /\ \E d \in IF rdpsnd_negotiated THEN Closings(dev) ELSE {dev} :
       IF autoFailed THEN dev' = d /\ UNCHANGED <<current_driver, autoFailed>>
       ELSE \E r \in Probe(d) :
              /\ dev' = r.d
              /\ current_driver' = IF r.ok THEN built ELSE current_driver
              /\ autoFailed' = (current_driver = NoDriver /\ ~r.ok)
    /\ rdpsnd_negotiated' = TRUE
    /\ UNCHANGED <<built, sndAborted, current_format, linkVars, nWaves>>

Take(w, d, f) ==
    /\ dev' = d /\ device_open' = TRUE /\ current_format' = f
    /\ queue' = QueueWrite(queue, w)
    /\ UNCHANGED <<sndAborted, confirmedQ, netError>>

(* The wave is confirmed at once and not queued. *)
Refuse(d) ==
    /\ dev' = d
    /\ UNCHANGED <<sndAborted, device_open, current_format, queue, confirmedQ, netError>>

(* The device does not do the format: it is closed, which confirms the rest. *)
CloseOn(d) ==
    /\ dev' \in WaveOutClose(d) /\ device_open' = FALSE
    /\ Confirming(AckAll(queue))
    /\ UNCHANGED <<sndAborted, current_format>>

ProcessWave(f) ==
    /\ CanRun /\ rdpsnd_negotiated /\ nWaves < MaxWaves /\ nWaves' = nWaves + 1
    /\ IF device_open /\ f = current_format THEN Take(nWaves', dev, f)
       ELSE IF current_driver = NoDriver THEN Refuse(dev)
       ELSE \E r \in IF device_open THEN Ok(dev) ELSE WaveOutOpen(dev) :
            IF ~r.ok THEN Refuse(r.d)
            ELSE IF AssertsOpen(r.d)
            THEN /\ sndAborted' = TRUE
                 /\ UNCHANGED <<dev, device_open, current_format, queue, confirmedQ, netError>>
            ELSE \E s \in WaveSetFormat(r.d, f) :
                    IF s.ok THEN Take(nWaves', s.d, f) ELSE CloseOn(s.d)
    /\ UNCHANGED <<chanVars, inputVars, linkVars>>

ProcessClose ==
    /\ CanRun /\ device_open
    /\ CloseOn(dev)
    /\ UNCHANGED <<chanVars, inputVars, linkVars, nWaves>>

-----------------------------------------------------------------------------
(* rdpsnd_check_fds: what is due is confirmed, then the driver plays or      *)
(* records; both need an open device.  QueueNext confirms what is due too.   *)

Playing ==
    /\ CanRun /\ device_open /\ CanPlay(dev) /\ ~QueueEmpty(queue)
    /\ UNCHANGED <<chanVars, device_open, current_format, inputVars, linkVars, nWaves,
                   sndAborted>>

(* A part of the front packet is written. *)
PlayPart ==
    /\ Playing /\ "part" \in Plays /\ queue.slots[queue.lo].left > 1
    /\ Confirming([CompletePending(queue) EXCEPT !.slots[queue.lo].left = @ - 1])
    /\ UNCHANGED dev

(* The last part: the packet completes when the device's buffer has run out. *)
PlayLast ==
    /\ Playing /\ UNCHANGED dev
    /\ \/ /\ "end" \in Plays /\ queue.slots[queue.lo].left = 1
          /\ \E delay \in 0 .. 1 : Confirming(QueueNext(queue, delay))
       \/ /\ "whole" \in Plays /\ Confirming(QueueNext(queue, 0))

(* A failing write, or a packet that takes too long, ends the packet early. *)
PlayGiveUp ==
    /\ Playing /\ queue.slots[queue.lo].left > 1 /\ dev.faults < MaxFaults
    /\ dev' = [dev EXCEPT !.faults = @ + 1]
    /\ \/ "failed" \in Plays /\ Confirming(QueueNext(queue, 0))
       \/ "late" \in Plays /\ \E delay \in 0 .. 1 : Confirming(QueueNext(queue, delay))

(* sgi_play goes on while the port has room. *)
PlayMany ==
    /\ Playing /\ "many" \in Plays /\ Distance(queue.lo, queue.hi) > 1
    /\ Confirming(QueueNext(QueueNext(queue, 0), 0))
    /\ UNCHANGED dev

(* FD_ISSET(-1, ...): any answer; when it says yes oss_play asserts. *)
OssCheckClosed ==
    /\ CanRun /\ device_open /\ AssertsOpen(dev)
    /\ sndAborted' = TRUE
    /\ UNCHANGED <<chanVars, dev, device_open, current_format, inputVars, queue,
                   confirmedQ, linkVars, netError, nWaves>>

(* A failing read: oss_record ends a packet of the other direction. *)
OssRecordFails ==
    /\ CanRun /\ device_open /\ built = "oss" /\ dev.fd /\ dev.mode \in {"r", "rw"}
    /\ dev.faults < MaxFaults
    /\ dev' = [dev EXCEPT !.faults = @ + 1]
    /\ IF QueueEmpty(queue)
       THEN sndAborted' = TRUE /\ UNCHANGED <<queue, confirmedQ, netError>>
       ELSE Confirming(QueueNext(queue, 0)) /\ UNCHANGED sndAborted
    /\ UNCHANGED <<chanVars, device_open, current_format, inputVars, linkVars, nWaves>>

CheckPending ==
    /\ CanRun /\ Completable(queue) > 0
    /\ Confirming(CompletePending(queue))
    /\ UNCHANGED <<chanVars, devVars, device_open, current_format, inputVars, linkVars,
                   nWaves>>

(* Environment: the completion time of played packets comes. *)
SoundTick ==
    /\ ~sndAborted /\ \E i \in Slots : queue.slots[i].due > 0
    /\ queue' = [queue EXCEPT !.slots = [i \in Slots |-> [@[i] EXCEPT !.due = 0]]]
    /\ UNCHANGED <<chanVars, devVars, device_open, current_format, inputVars,
                   confirmedQ, linkVars, netError, nWaves>>

-----------------------------------------------------------------------------
(* rdpsnd_input.c *)

(* Results of rdpsnd_input_set_format: the device is closed, opened again    *)
(* and given the format, which oss and sun share with playback.              *)
InputFormatted(d, f) ==
    UNION {IF r.ok THEN {r} ELSE {[ok |-> FALSE, d |-> c] : c \in WaveInClose(r.d)} :
               r \in WaveSetFormat(d, f)}
InputReopened(d, f) ==
    UNION {IF r.ok THEN InputFormatted(r.d, f) ELSE {r} : r \in WaveInOpen(d)}

(* MSG_SNDIN_FORMATS; the answer needs a driver. *)
InputProcessFormats ==
    /\ CanRun /\ ~inFormats /\ inFormats' = TRUE
    /\ \/ current_driver # NoDriver /\ UNCHANGED <<dev, current_driver, autoFailed>>
       \/ current_driver = NoDriver /\ AutoSelect
    /\ UNCHANGED <<built, rdpsnd_negotiated, sndAborted, device_open, current_format,
                   g_input_open, queue, confirmedQ, linkVars, netError, nWaves>>

InputSetFormat(f) ==
    /\ CanRun /\ inFormats /\ current_driver # NoDriver /\ built \in Recorders
    /\ \E d \in IF g_input_open THEN WaveInClose(dev) ELSE {dev} :
       \E r \in InputReopened(d, f) :
          dev' = r.d /\ g_input_open' = r.ok
    /\ UNCHANGED <<chanVars, sndAborted, device_open, current_format, inFormats, queue,
                   confirmedQ, linkVars, netError, nWaves>>

-----------------------------------------------------------------------------
(* The connection *)

SoundLinkLost ==
    /\ CanRun /\ nResets < MaxResets
    /\ sndLink' = "down" /\ nResets' = nResets + 1
    /\ UNCHANGED <<chanVars, devVars, device_open, current_format, inputVars, queue,
                   confirmedQ, netError, nWaves>>

(* rdesktop_reset_state, with the socket closed and g_network_error cleared. *)
SoundResetState ==
    /\ sndLink = "down" /\ sndLink' = "reset"
    /\ ResetSound /\ dev' \in Closings(dev)
    /\ rdpsnd_negotiated' = FALSE
    /\ UNCHANGED <<built, current_driver, autoFailed, sndAborted, current_format, nResets,
                   nWaves>>

SoundConnected ==
    /\ sndLink = "reset" /\ sndLink' = "up" /\ netError' = FALSE
    /\ UNCHANGED <<chanVars, devVars, device_open, current_format, inputVars, queue,
                   confirmedQ, nResets, nWaves>>

SoundNext ==
    \/ ProcessNegotiate \/ ProcessClose \/ InputProcessFormats
    \/ \E f \in SndFormats : ProcessWave(f) \/ InputSetFormat(f)
    \/ PlayPart \/ PlayLast \/ PlayGiveUp \/ PlayMany
    \/ OssCheckClosed \/ OssRecordFails \/ CheckPending \/ SoundTick
    \/ SoundLinkLost \/ SoundResetState \/ SoundConnected

SoundSpec == SoundInit /\ [][SoundNext]_sndVars

(* The main loop runs, the device plays what it gets, and time goes on. *)
SoundFairSpec ==
    /\ SoundSpec
    /\ WF_sndVars(PlayPart \/ PlayLast \/ CheckPending) /\ WF_sndVars(SoundTick)

-----------------------------------------------------------------------------
(* Properties *)

Outstanding == WavesFrom(queue, queue.pending, Distance(queue.pending, queue.hi))

(* The ring of rdpsnd.c with its three indices implements the queue of waves: *)
(* what it takes it confirms once, in order, through full rings, wrap-around, *)
(* delayed completions and closing devices.                                   *)
WavesConfirmedInOrder ==
    INSTANCE WaveQueue WITH Waves <- 1 .. MaxWaves,
                            outstanding <- Outstanding, confirmed <- confirmedQ
ConfirmsInOrder == WavesConfirmedInOrder!WqSpec

(* Nothing waits to be played on a closed device: rdpsnd_check_fds would not  *)
(* look at it, and the server would wait for its confirmation.                *)
NoOrphanedWaves == ~device_open => QueueEmpty(queue)

(* While no device operation fails, opening and closing one direction never   *)
(* takes the device from the other, and the sun driver counts its users.      *)
DirectionsShareDevice ==
    dev.faults = 0 =>
        /\ device_open => CanPlay(dev)
        /\ g_input_open => IF built = "alsa" THEN dev.in
                           ELSE dev.fd /\ dev.mode \in {"r", "rw"}
        /\ built = "sun" =>
               dev.refs = Cardinality({x \in {"out", "in"} :
                              IF x = "out" THEN device_open ELSE g_input_open})

(* The waves taken are confirmed at last, or the device or the connection is  *)
(* gone.                                                                      *)
Stuck == sndAborted \/ sndLink # "up" \/ (device_open /\ ~CanPlay(dev))
TakenIsConfirmed == queue.pending # queue.hi ~> (Stuck \/ queue.pending = queue.hi)
=============================================================================
